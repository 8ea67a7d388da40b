CONSTANTS
    b1 = b1
    c1 = c1
    c2 = c2
    Backends = {b1}
    FlapBackends = {b1}
    Conns = {c1, c2}
    Owner <- OneBackend
    Wedged = {}
    NoConn = NoConn
    ChanCap = 1
    MaxMissed = 1
    MaxWasOffline = 2
    MaxPrompts = 0
    Timers = {t1, t2}
    NoTimer = NoTimer
    NoFlap = NoFlap
SPECIFICATION PresenceSpec
PROPERTIES StoppedNeverPosts
CHECK_DEADLOCK FALSE
