CONSTANTS
    NoRow = NoRow  Unlinked = Unlinked  Idle = Idle
    Records = {"r1", "r2"}
    Programs = {"p1"}
    EventOf <- MCSameEvent
    Managed = {"r1"}
    Ids = {1, 2, 3, 4}
    Watchers = {}
    Sweeps = {"s1"}
    Ingesters = {"g1", "g2"}
    MayCancel = FALSE
    MaxTrash = 2
    MaxFaults = 1
SPECIFICATION FairSpec
PROPERTIES Ingested
