SPECIFICATION FairSpec
CONSTANTS
    Instance = {i1}
    Video = {v1}
    r1 = r1
    r2 = r2
    Resolution = {r1, r2}
    Admin = {a1, a2}
    Request <- UniformRequest
    Deletable = {r1}
    Fragile = {}
    MaxAttempts = 3
    MaxRetryTracked = 10
    MaxRequests = 3
    MaxDbErrors = 0
    MaxCrashes = 0
    None = None
INVARIANTS TypeOK PendingOwned ProcessingOwned
PROPERTY EventuallySettled
