CONSTANTS
    p1 = p1  p2 = p2  r1 = r1  r2 = r2  w1 = w1  w2 = w2
    NoRule = NoRule  NoReservation = NoReservation  Absent = Absent
    Programs <- MCPrograms
    Rules <- MCOneRule
    Conditions <- MCAllConditions
    Touched = {p1, p2}
    Recordable = {p1}
    Rank <- MCRank
    Rulers = {w1}
    Channels = {"c1"}
    ChannelOf <- MCOneChannel
    Listings <- MCListings
    MaxStart = 2
    MaxClock = 1
    MaxRevision = 3
    RetentionGrace = 0
    RetractGrace = 1
    MaxDeletes = 1
    MaxMismatches = 2
    MaxSyncs = 1
    MaxFaults = 0
SPECIFICATION Spec
INVARIANTS TypeOK RulelessLostByUser
PROPERTIES BreakerHolds DerivedRemovalsBounded InvestmentsKept SkipsRespected
CHECK_DEADLOCK FALSE
