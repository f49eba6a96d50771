SPECIFICATION Spec
CONSTANTS
    a = a
    b = b
    c = c
    t1 = t1
    c1 = c1
    c2 = c2
    c3 = c3
    s1 = s1
    s2 = s2
    f1 = f1
    MyChats = MyChats
    Nowhere = Nowhere
    Messages <- OneMessage
    Teams <- NoTeam
    Channels <- NoContainer
    Chats <- OneContainer
    TeamOf <- TeamT1
    Home <- InC1
    Root <- NoReply
    Syncers <- TwoSyncers
    Fetchers <- OneFetcher
    Lookback = 4
    Overlap = 2
    Lag = 0
    Hold = 1
    Faults <- Errors
    MaxTime = 3
    MaxChanges = 1
    MaxFaults = 1
INVARIANT
    OverlapHeals
SYMMETRY SyncerSymmetry
