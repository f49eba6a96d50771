SPECIFICATION FairSpec
CONSTANTS
    m1 = m1
    m2 = m2
    inbox = inbox
    archive = archive
    d1 = d1
    c1 = c1
    Elsewhere = Elsewhere
    Messages <- TwoMessages
    Folders <- TwoFolders
    Daemons <- OneDaemon
    Clis <- Nobody
    Contents <- EitherMatch
    Faults <- FaultKinds
    MaxClock = 2
    MaxFaults = 2
PROPERTIES
    IsReplica
    EventuallyMirrored
    FailuresClear
