CONSTANTS
    Clients = {c1, c2}
    ChanBuf = 1
    MaxReconnectFailures = 3
    BaseBackoff = 1
    MaxBackoff = 2
    MaxFrames = 1
SPECIFICATION RecFairSpec
PROPERTIES ShutdownAlwaysEnds
CHECK_DEADLOCK FALSE
