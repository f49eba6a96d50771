SPECIFICATION FairSpec
CONSTANTS
    x = x
    sm = sm
    d1 = d1
    k1 = k1
    None = None
    Events <- OneEvent
    Masters <- OneMaster
    Series <- XInSeries
    Bounds <- PastAndInstant
    Daemons <- OneDaemon
    Clis <- OneDaemon
    Broken <- FarPast
    Faults <- FaultKinds
    MonthLen = 2
    PastTicks = 5
    FutureTicks = 1
    RecentMonths = 2
    HistMonths = 2
    FutureMonths = 1
    FirstTick = 6
    LastTick = 8
    MaxClock = 3
    MaxFaults = 1
INVARIANTS
    TypeOK
    NothingMissed
    ResumeSkipsNothing
    MastersFollow
    HorizonTiled
PROPERTIES
    DeltaLosesNoDeletion
    RowsOnlyAdvance
    EventuallyMirrored
