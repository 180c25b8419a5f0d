SPECIFICATION Spec
CONSTANTS
  t1 = t1
  t2 = t2
  t3 = t3
  u1 = u1
  u2 = u2
  admin = admin
  None = None
  NoRun = NoRun
  Nothing = Nothing
  Anonymous = "anonymous"
  Tabs = {t1, t2, t3}
  Moderators = {m1, m2}
  Attachments = {f}
  UserOfTab <- MCUserOfTab
  Capacity = 2
  PageSize = 2
  MaxMessages = 3
  Rooms <- MCRooms
  Uploads = {1, 2, 3}
  MaxTranscodes = 2
  MaxDropped = 1
  Processes = {p1, p2}
  Runs = {r1, r2, r3}
  Renditions = 2
  MaxUpsets = 2
  Policies <- MCPolicies
  Ranges <- MCRanges
  MinCharge = 1
  MaxCharge = 4
  OpenCharge = 5
  NoRangeCharge = 2
  MaxBytes = 8
  ByteWindow = 2
  CleanupEvery = 2
  MaxTime = 4
  MaxChecks = 5
  Requests = {q1, q2}
  First = q1
  Asks <- MCAsks
  Warm <- MCWarm
  Tokens = {"t1", "t2", "t3"}
  UserOf <- MCUserOf
  IsAdmin <- MCIsAdmin
  Videos = {1, 2}
  UploaderOf <- MCUploaderOf
  Sessions <- MCSessions
  PublicSite <- MCPublicSite
  Absent = Absent
  Malformed = Malformed
  ChatFiles = {3}
  MaxChanges = 1
  s1 = s1
  Seekers = {s1, s2}
  Searches <- MCSearches
  Owners = {u1, u2, admin}
  VideoIds = {1, 2, 3, 4}
  Catalogs <- MCCatalogs
  Uploaded <- MCUploaded
  Watched <- MCWatched
  Categories = {"c", "d"}
  NoCategory = "none"
  FeedLimit = 2
  CategoryLimit = 1
  ListLimit = 2
  MaxSize = 3
  MaxLimit = 2
  BatchSize = 1
  MaxEdits = 2
  MaxRounds = 1
  NoRow = NoRow
  Gone = Gone
  NoPage = NoPage
  NoLock = NoLock
  Unprobed = Unprobed
INVARIANTS FeedRight Coalesced ScoresDecay PageAgrees OnlineRight ChatFilesAccounted HlsExclusive Throttled ServedWasAllowed
CHECK_DEADLOCK FALSE
