SPECIFICATION Spec
CONSTANTS
    m1 = m1
    m2 = m2
    inbox = inbox
    archive = archive
    d1 = d1
    c1 = c1
    Elsewhere = Elsewhere
    Messages <- OneMessage
    Folders <- OneFolder
    Daemons <- OneDaemon
    Clis <- Nobody
    Contents <- NoLookups
    Faults <- OnlyExpiry
    MaxClock = 3
    MaxFaults = 1
INVARIANT DeletionsReflected
