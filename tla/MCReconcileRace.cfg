CONSTANTS
    NoSchedule = NoSchedule  Absent = Absent  Skip = Skip  Broken = Broken
    Programs = {1}
    Passes = {"w1"}
    End <- MCEnd
    Options <- MCTwoPriorities
    Titles = {"t1"}
    Generated = "generated"
    Recordable = {1}
    MaxRecreates = 1
    MaxClock = 1
    MaxDecisions = 2
    MaxFaults = 1
SPECIFICATION Spec
PROPERTIES RecordingsUntouched
