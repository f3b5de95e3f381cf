SPECIFICATION Spec
CONSTANTS
    u1 = u1
    u2 = u2
    u3 = u3
    t1 = t1
    t2 = t2
    Users <- MCUsers
    Threads <- MCThreads
    MaxLogins = 3
    MaxEvents = 1
    NoUser = NoUser
SYMMETRY Symmetric
INVARIANTS
    TypeOK
    BootstrapBound
    TokensAccounted
    SessionsHaveUsers
PROPERTIES
    RevokedStaysOut
CHECK_DEADLOCK FALSE
