SPECIFICATION Spec
CONSTANTS
    Instance = {i1, i2}
    Video = {v1}
    r1 = r1
    r2 = r2
    Resolution = {r1}
    Admin = {a1}
    Request = {{r1}}
    Deletable = {}
    Fragile = {}
    MaxAttempts = 2
    MaxRetryTracked = 1
    MaxRequests = 2
    MaxDbErrors = 1
    MaxCrashes = 1
    None = None
PROPERTY JobsPromised
