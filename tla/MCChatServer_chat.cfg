SPECIFICATION FairSpec
CONSTANTS
    c1 = c1
    c2 = c2
    c3 = c3
    n1 = n1
    n2 = n2
    Empty = Empty
    NoOne = NoOne
    Conns <- ThreeConns
    Names <- TwoNames
    ThreadPoolSize = 2
    MaxPosts = 3
CHECK_DEADLOCK FALSE
INVARIANTS
    TypeOK
    NicknameLeadsToItsService
    ReceivesEveryBroadcast
PROPERTY HandlerEnds
