SPECIFICATION Spec
CONSTANTS
    a = a
    b = b
    c = c
    t1 = t1
    c1 = c1
    c2 = c2
    c3 = c3
    s1 = s1
    s2 = s2
    f1 = f1
    MyChats = MyChats
    Nowhere = Nowhere
    Messages <- ThreeMessages
    Teams <- OneTeam
    Channels <- OneContainer
    Chats <- NoContainer
    TeamOf <- TeamT1
    Home <- InC1
    Root <- OneReply
    Syncers <- OneSyncer
    Fetchers <- Nobody
    Lookback = 2
    Overlap = 1
    Lag = 0
    Hold = 0
    Faults <- ErrorsAndCrashes
    MaxTime = 4
    MaxChanges = 2
    MaxFaults = 1
INVARIANT
    SuccessCovers
