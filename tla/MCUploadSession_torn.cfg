\* A chunk whose request is dropped while it is being written.
SPECIFICATION Spec
CONSTANTS
    Client = {c1}
    Handler = {h1, h2}
    Slot = {s1}
    Size = 2
    MaxOps = 2
    MaxRetries = 1
    Upsets = {"torn"}
    MaxStarts = 1
    MaxFaults = 1
    MaxUpsets = 1
    None = None
INVARIANT StoredIntact
CHECK_DEADLOCK FALSE
