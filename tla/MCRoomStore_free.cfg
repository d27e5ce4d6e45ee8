SPECIFICATION Spec
CONSTANTS
    u1 = u1
    u2 = u2
    u3 = u3
    g1 = g1
    g2 = g2
    NoRoom = NoRoom
    Rooms <- MCRooms
    Users <- MCUsers
    GameIds <- MCGames
    Requested <- MCRequested
SYMMETRY MCSymmetry
INVARIANTS
    TypeOK
    ClosedRoomIsEmpty
    WithinCapacity
    GameRunsInItsRoom
PROPERTIES
    LostRoomStaysLost
    LastExitReturnsRoom
