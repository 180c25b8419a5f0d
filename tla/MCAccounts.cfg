SPECIFICATION Spec
CONSTANTS
  r1 = r1
  r2 = r2
  Requests = {r1, r2}
  Accounts <- MCAccounts
  Tokens <- MCTokens
  Links <- MCLinks
  Names = {"ann", "bob", "cat", "bob_2", "bob_3"}
  Passwords = {"p", "q"}
  Emails = {"e1", "e2"}
  Subs = {"s1"}
  AllowFirstAdmin = TRUE
  Scenarios <- MCScenarios
  Candidates <- MCCandidates
  MaxPending = 2
  MaxCodes = 1
  MaxFlows = 2
SYMMETRY RequestSymmetry
INVARIANTS
  TypeOK
  CachedUnlessLate
  MediaIndexed
  Superseded
  OldPasswordOut
  VerifiedWasMailed
  NoOrphanAccount
  GatewayRight
CHECK_DEADLOCK FALSE
