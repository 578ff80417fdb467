CONSTANTS
    NoRow = NoRow  Unlinked = Unlinked  Idle = Idle
    Records = {"r1", "r2"}
    Programs = {"p1"}
    EventOf <- MCSameEvent
    Managed = {"r1", "r2"}
    Ids = {1, 2, 3}
    Watchers = {"w1"}
    Sweeps = {"s1"}
    Ingesters = {}
    MayCancel = TRUE
    MaxTrash = 0
    MaxFaults = 0
SPECIFICATION Spec
INVARIANTS NoFalseFailure OneRecording
PROPERTIES TerminalStays
