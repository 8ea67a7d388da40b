CONSTANTS
    b1 = b1
    c1 = c1
    c2 = c2
    Backends = {b1}
    FlapBackends = {b1}
    Conns = {c1, c2}
    Owner <- OneBackend
    Wedged = {c2}
    NoConn = NoConn
    ChanCap = 1
    MaxMissed = 1
    MaxWasOffline = 2
    MaxPrompts = 1
    Timers = {t1, t2}
    NoTimer = NoTimer
    NoFlap = NoFlap
SPECIFICATION ConnectionsFairSpec
INVARIANTS NoOrphanConn LossAccounted NoticeAccounting
PROPERTIES  ReconnectFiresOnline WedgedEvicted NoticeResolves
PROPERTY ImplementsConnLife
CHECK_DEADLOCK FALSE
