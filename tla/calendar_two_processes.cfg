SPECIFICATION Spec
CONSTANTS
    x = x
    sm = sm
    d1 = d1
    k1 = k1
    None = None
    Events <- OneEvent
    Masters <- OneMaster
    Series <- XInSeries
    Bounds <- PastAndNow
    Daemons <- OneDaemon
    Clis <- OneCli
    Broken <- NoneBroken
    Faults <- NoFault
    MonthLen = 2
    PastTicks = 1
    FutureTicks = 1
    RecentMonths = 2
    HistMonths = 2
    FutureMonths = 1
    FirstTick = 6
    LastTick = 6
    MaxClock = 3
    MaxFaults = 1
INVARIANTS
    OwnerTombstones
