SPECIFICATION Spec
CONSTANTS
    s1 = s1
    s2 = s2
    u1 = u1
    u2 = u2
    i1 = i1
    i2 = i2
    p1 = p1
    g1 = g1
    t1 = t1
    t2 = t2
    t3 = t3
    t4 = t4
    NoRoom = NoRoom
    NoSlot = NoSlot
    NoIp = NoIp
    NoPort = NoPort
    NoUser = NoUser
    NoToken = NoToken
    NotFound = NotFound
    Slots <- TwoSlots
    Users <- TwoUsers
    IPs <- OneIp
    Ports <- OnePort
    Rooms <- TwoRooms
    PortOf <- OnPort1
    GameIds <- OneGame
    Requested <- Full
    Uuids <- ThreeTokens
    Relogin = FALSE
    DbMayFail = FALSE
    MayRestart = FALSE
    MaxMirrorOps = 2
    MaxBroadcasts = 1
SYMMETRY Symmetry
INVARIANTS
    LockedUserIsOnline
    MemberWillBeRemoved
 
