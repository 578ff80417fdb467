SPECIFICATION FairSpec
CONSTANTS
    Profiles = {cm}
    CutProfiles = {cm}
    Keeps = {k1, k2}
    Original = Original
    None = None
    MaxGeneration = 3
    Detected = k1
    Workers = {w1, w2}
    EncodeAttemptLimit = 2
    MaxEdits = 2
    MaxFaults = 1
INVARIANTS Type
PROPERTIES OnlyConfirmed StaysViewable DeadNeverPublishes Encoded RebuildHonoured
CHECK_DEADLOCK FALSE
