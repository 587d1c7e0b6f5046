SPECIFICATION MCSpec
CONSTANTS
    n1 = n1
    k1 = k1
    x1 = x1
    x2 = x2
    x3 = x3
    i1 = i1
    Server = {n1}
    Cs = {k1}
    Conn = {x1, x2, x3}
    Id = {i1}
    NoId = NoId
    Nil = Nil
    IdOf <- MCIdOf
    ThreadLimit = 2
    Trusted = {n1}
    CallLimit = 1
INVARIANTS
    TypeOK
    LoginFindsNoEntry
    OneLogin
PROPERTIES
    ConnectedAgain
    CenterComesBack
