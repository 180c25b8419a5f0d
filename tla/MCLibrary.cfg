SPECIFICATION Spec
CONSTANTS
  r1 = r1
  r2 = r2
  Requests = {r1, r2}
  Videos <- MCVideos
  Users <- MCUsers
  Admins <- MCAdmins
  Contents = {"a", "b", "p"}
  Pictures = {"p"}
  SizeOf <- MCSizeOf
  Quota = 3
  Comments <- MCComments
  Tags = {"x", "y"}
  Playlists <- MCPlaylists
  Shares <- MCShares
  Seconds = 10
  Reports <- MCReports
  Scenarios <- MCScenarios
SYMMETRY RequestSymmetry
INVARIANTS
  TypeOK
  StorageMatches
  EachHasItsFile
  NoOrphanMedia
  BurnedWasWatched
  ShownIsThere
  CommunityRight
CHECK_DEADLOCK FALSE
