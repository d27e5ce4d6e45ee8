SPECIFICATION Spec
CONSTANTS
    w1 = w1
    w2 = w2
    w3 = w3
    n1 = n1
    n2 = n2
    n3 = n3
    n4 = n4
    NoConn = NoConn
    Callers <- ThreeCallers
    Conns <- FourConns
    PoolSize = 2
    Returns = TRUE
    MayBreak = TRUE
CHECK_DEADLOCK FALSE
SYMMETRY Symmetry
INVARIANTS
    TypeOK
    HeldExclusively
    OnlyDeadConnectionsAreLost
    OpenConnectionsAreBounded
