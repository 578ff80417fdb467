CONSTANTS
    NoSchedule = NoSchedule  Absent = Absent  Skip = Skip  Broken = Broken
    Programs = {1}
    Passes = {"w1"}
    End <- MCEndLate
    Options <- MCPathOptions
    Titles = {"t1", "t2"}
    Generated = "generated"
    Recordable = {1}
    MaxRecreates = 1
    MaxClock = 2
    MaxDecisions = 2
    MaxFaults = 1
SPECIFICATION FairSpec
PROPERTIES Booked NeverRecorded
