CONSTANTS
    p1 = p1  p2 = p2  r1 = r1  r2 = r2  w1 = w1  w2 = w2
    NoRule = NoRule  NoReservation = NoReservation  Absent = Absent
    Programs <- MCPrograms
    Rules <- MCOneRule
    Conditions <- MCAcceptsAll
    Touched = {p1}
    Recordable = {}
    Rank <- MCRank
    Rulers = {w1}
    Channels = {"c1"}
    ChannelOf <- MCOneChannel
    Listings <- MCListingsThatLose
    MaxStart = 1
    MaxClock = 1
    MaxRevision = 2
    RetentionGrace = 0
    RetractGrace = 1
    MaxDeletes = 1
    MaxMismatches = 1
    MaxSyncs = 2
    MaxFaults = 1
SPECIFICATION MCSyncedSpec
PROPERTIES SkipReleases Converges
CHECK_DEADLOCK FALSE
