SPECIFICATION Spec
CONSTANTS
    Instance = {i1}
    Video = {v1}
    r1 = r1
    r2 = r2
    Resolution = {r1, r2}
    Admin = {a1}
    Request <- UniformRequest
    Deletable = {}
    Fragile = {}
    MaxAttempts = 3
    MaxRetryTracked = 10
    MaxRequests = 1
    MaxDbErrors = 0
    MaxCrashes = 1
    None = None
INVARIANT RestartRecovers
