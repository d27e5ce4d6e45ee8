SPECIFICATION FairSpec
CONSTANTS
    c1 = c1
    c2 = c2
    c3 = c3
    Clients <- ThreeClients
INVARIANTS
    TypeOK
    AcceptedIsServed
PROPERTIES
    ClientIsAnswered
    StopReturns
CHECK_DEADLOCK FALSE
