\* Two tabs, failures, no upset.
SPECIFICATION Spec
CONSTANTS
    Client = {c1, c2}
    Handler = {h1, h2, h3}
    Slot = {s1, s2}
    Size = 2
    MaxOps = 2
    MaxRetries = 1
    Upsets = {}
    MaxStarts = 3
    MaxFaults = 2
    MaxUpsets = 0
    None = None
SYMMETRY Symmetric
INVARIANTS TypeOK StoredIntact HashMatchesFile UndisturbedSucceeds
PROPERTY DoneMeansStored
CHECK_DEADLOCK FALSE
