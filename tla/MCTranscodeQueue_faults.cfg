SPECIFICATION Spec
CONSTANTS
    Instance = {i1}
    Video = {v1}
    r1 = r1
    r2 = r2
    Resolution = {r1, r2}
    Admin = {a1}
    Request <- MixedRequest
    Deletable = {}
    Fragile = {v1}
    MaxAttempts = 2
    MaxRetryTracked = 1
    MaxRequests = 2
    MaxDbErrors = 1
    MaxCrashes = 1
    None = None
INVARIANTS BookkeepingOwned CompletedRecorded RecordedOnDisk
PROPERTY FailedStaysDown
