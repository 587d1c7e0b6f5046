SPECIFICATION Spec
CONSTANTS
    n1 = n1
    n2 = n2
    x1 = x1
    x2 = x2
    x3 = x3
    i1 = i1
    Server = {n1, n2}
    Conn = {x1, x2, x3}
    Id = {i1}
    NoId = NoId
    Nil = Nil
    IdOf <- MCIdOf
    Trusted = {n1, n2}
    CallLimit = 1
SYMMETRY MCSymmetry
INVARIANTS
    TypeOK
    SelfIdIsRegistered
    OneLink
    PointerIsOpen
    RepliesMatchCalls
