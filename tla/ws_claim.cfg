SPECIFICATION Spec
CONSTANTS
    c1 = c1  p1 = p1  p2 = p2  s1 = s1
    Client = {c1}
    Link = {p1, p2}
    Id = {1, 2}
    NoId = NoId  Nil = Nil  Absent = Absent
    LoginAs <- MCLoginAs
    LoginLimit <- MCOnce
    LoopOf <- MCOwnLoop
    PacketLimit = 2
    OrderLimit <- MCOnce
CHECK_DEADLOCK FALSE
PROPERTY ClaimNeverReplaces
