SPECIFICATION Spec
CONSTANTS
    s1 = s1
    s2 = s2
    u1 = u1
    u2 = u2
    i1 = i1
    i2 = i2
    p1 = p1
    g1 = g1
    t1 = t1
    t2 = t2
    t3 = t3
    t4 = t4
    NoRoom = NoRoom
    NoSlot = NoSlot
    NoIp = NoIp
    NoPort = NoPort
    NoUser = NoUser
    NoToken = NoToken
    NotFound = NotFound
    Slots <- TwoSlots
    Users <- TwoUsers
    IPs <- TwoIps
    Ports <- OnePort
    Rooms <- NoRooms
    PortOf <- OnPort1
    GameIds <- NoGames
    Requested <- Full
    Uuids <- FourTokens
    Relogin = TRUE
    DbMayFail = TRUE
    MayRestart = TRUE
    MaxMirrorOps = 2
    MaxBroadcasts = 1
SYMMETRY Symmetry
INVARIANTS
    TypeOK
    
    RegistryIsSound
    AddressIsHeld
    OneOperationPerClient
 
