CONSTANTS
    NoSchedule = NoSchedule  Absent = Absent  Skip = Skip  Broken = Broken
    Programs = {1, 2}
    Passes = {"w1"}
    End <- MCEnd
    Options <- MCTwoPriorities
    Titles = {"t1", "t2"}
    Generated = "generated"
    Recordable = {}
    MaxRecreates = 2
    MaxClock = 0
    MaxDecisions = 2
    MaxFaults = 1
SPECIFICATION MCStartSpec
INVARIANT OneLossPerFault
PROPERTIES LatchHolds Tidied DeletedOnlyDeclined
