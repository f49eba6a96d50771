SPECIFICATION Spec
CONSTANTS
    m1 = m1
    m2 = m2
    inbox = inbox
    archive = archive
    d1 = d1
    c1 = c1
    Elsewhere = Elsewhere
    Messages <- OneMessage
    Folders <- TwoFolders
    Daemons <- OneDaemon
    Clis <- OneCli
    Contents <- NoLookups
    Faults <- NoFault
    MaxClock = 2
    MaxFaults = 0
INVARIANT MovedMessageKept
