SPECIFICATION FairSpec
CONSTANTS
    d1 = d1
    s1 = s1
    cal = cal
    None = None
    NoId = NoId
    Users <- Processes
    Daemon = d1
    Include <- Included
    Exclude <- Excluded
    Folder <- Names
    Skipped <- SentSkipped
    Calendars <- OneCalendar
    Retries = 1
    Faults <- FaultKinds
    MaxFaults = 2
    MaxCommands = 1
INVARIANTS
    TypeOK
    CacheSurvives
    RefreshKept
    FoldersAsConfigured
    TokensAreFresh
PROPERTIES
    KeepsRunning
    SignalStops
    Recovers
CHECK_DEADLOCK FALSE
