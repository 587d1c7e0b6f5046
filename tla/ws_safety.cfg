SPECIFICATION MCSpec
CONSTANTS
    c1 = c1  p1 = p1  p2 = p2  s1 = s1
    Client = {c1}
    Link = {p1, s1}
    Id = {1, 2}
    NoId = NoId  Nil = Nil  Absent = Absent
    LoginAs <- MCAnyLogin
    LoginLimit <- MCTwice
    LoopOf <- MCSharedLoop
    PacketLimit = 2
    OrderLimit <- MCOrders
CHECK_DEADLOCK FALSE
INVARIANTS
    TypeOK RegisteredServerIsLive AcceptedServerIsRegistered BoundToItsKind
    DisconnectReachesServers ForwardedOnce DownstreamInOrder
