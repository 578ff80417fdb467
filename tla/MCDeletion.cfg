SPECIFICATION Spec
CONSTANTS
    Profiles = {cm, h}
    CutProfiles = {cm}
    Keeps = {k1, k2}
    Original = Original
    None = None
    MaxGeneration = 2
    MaxPerPass = 2
    MaxVersions = 2
    MaxEdits = 2
    MaxFaults = 1
SYMMETRY MCSymmetry
INVARIANTS Type ActiveHasFile PurgedIsGone SpareRemains
PROPERTIES BreakerLatched OriginalReplaced
