\* The video is deleted and uploaded again.
SPECIFICATION Spec
CONSTANTS
    Client = {c1}
    Handler = {h1, h2}
    Slot = {s1}
    Size = 2
    MaxOps = 2
    MaxRetries = 1
    Upsets = {"deleted"}
    MaxStarts = 2
    MaxFaults = 0
    MaxUpsets = 1
    None = None
PROPERTY DoneMeansStored
CHECK_DEADLOCK FALSE
