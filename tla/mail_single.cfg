SPECIFICATION Spec
CONSTANTS
    m1 = m1
    m2 = m2
    inbox = inbox
    archive = archive
    d1 = d1
    c1 = c1
    Elsewhere = Elsewhere
    Messages <- TwoMessages
    Folders <- TwoFolders
    Daemons <- Nobody
    Clis <- OneCli
    Contents <- OnlyMatching
    Faults <- FaultKinds
    MaxClock = 3
    MaxFaults = 2
SYMMETRY MessageSymmetry
INVARIANTS
    TypeOK
    NothingMissed
    ResumeSkipsNothing
PROPERTIES
    RowsOnlyAdvance
    DeltaLosesNoDeletion
