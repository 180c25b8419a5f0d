SPECIFICATION Spec
CONSTANTS
    Instance = {i1}
    Video = {v1}
    r1 = r1
    r2 = r2
    Resolution = {r1, r2}
    Admin = {a1}
    Request <- MixedRequest
    Deletable = {}
    Fragile = {}
    MaxAttempts = 3
    MaxRetryTracked = 10
    MaxRequests = 2
    MaxDbErrors = 0
    MaxCrashes = 0
    None = None
INVARIANT PendingOwned
