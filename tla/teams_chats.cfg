SPECIFICATION FairSpec
CONSTANTS
    a = a
    b = b
    c = c
    t1 = t1
    c1 = c1
    c2 = c2
    c3 = c3
    s1 = s1
    s2 = s2
    f1 = f1
    MyChats = MyChats
    Nowhere = Nowhere
    Messages <- ThreeMessages
    Teams <- OneTeam
    Channels <- OneContainer
    Chats <- TwoChats
    TeamOf <- TeamT1
    Home <- ThreadAndOne
    Root <- OneReply
    Syncers <- OneSyncer
    Fetchers <- Nobody
    Lookback = 2
    Overlap = 2
    Lag = 1
    Hold = 0
    Faults <- FaultKinds
    MaxTime = 2
    MaxChanges = 1
    MaxFaults = 1
INVARIANT
    TypeOK
PROPERTIES
    ExcludedUntouched
    OthersFollow
