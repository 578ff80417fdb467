SPECIFICATION FairSpec
CONSTANTS
    Stores = {s1, s2}
    First = s1
    Workers = {w1, w2}
    None = None
    Length = 2
    AttemptLimit = 2
    MaxCopies = 2
    MaxGeneration = 2
    MaxSwitches = 1
    MaxTrash = 1
    MaxFaults = 1
INVARIANTS LastCopyStays ActiveIsIntact OneWriter HandoverIntact
PROPERTY Settles
CHECK_DEADLOCK FALSE
