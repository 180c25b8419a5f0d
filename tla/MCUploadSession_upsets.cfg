\* One tab, every upset, and one permit for all requests.
SPECIFICATION FairSpec
CONSTANTS
    Client = {c1}
    Handler = {h1, h2}
    Slot = {s1, s2}
    Size = 2
    MaxOps = 1
    MaxRetries = 1
    Upsets = {"torn", "leftover", "unseen", "swept", "detached", "unacked", "deleted"}
    MaxStarts = 2
    MaxFaults = 2
    MaxUpsets = 1
    None = None
INVARIANTS DoneWasStored
PROPERTY UploadEnds
CHECK_DEADLOCK FALSE
