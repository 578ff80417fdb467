SPECIFICATION FairSpec
CONSTANTS
    Workers = {w1, w2}
    NoOne = NoOne
    None = None
    Length = 1
    MaxGeneration = 8
    MaxFaults = 2
    Damage = TRUE
INVARIANTS HandoffIntact ShownIsThere Verified
PROPERTIES OneWriter FulfilsContract
CHECK_DEADLOCK FALSE
