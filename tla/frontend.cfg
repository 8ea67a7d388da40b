CONSTANTS
    Events = {e1, e2}
    Workers = {w1}
    Reader = reader
    NoEvent = noevent
    Chunked = {e1}
    Uploads = {e2}
    QueueCap = 1
    Budgets = {0, 1}
    MaxSends = 3
    MaxDials = 2
    StaleWindow = 0
    EventTTL = 0
    MaxEntries = 1
    MaxNow = 1
    MaxFaults = 1
    Requests = {r1, r2}
    TurnPrompts = {p1}
    Nobody = Nobody
    MaxClicks = 2
    ReadLoop = readloop
    PingLoop = pingloop
    Session = session
    NoHolder = noholder
    MaxFrames = 3
    MaxWrites = 2
    MaxFragments = 2
    Sender = sender
    Updates = {u1, u2}
    Oversized = {u2}
    NoUpdate = noupdate
    MaxFetches = 3
    MaxLosses = 1
    WsFatalAfter = 1
    MaxTicks = 2
    Group = 16
    VarintBytes = 4
    MaxWord = 65535
    MaxInt32 = 32767
    MaxHeaders = 2
    Numbers <- FewNumbers
    Texts <- FewTexts
    HeaderLists <- FewHeaderLists
    Chats = {k1}
    Backends = {b1, b2}
    Savers = {s1}
    NoRoute = noroute
    TTL = 2
    MaxClock = 4
    MaxRestarts = 1
    Messages = {m1, m2}
    Sources <- FewSources
    MaxFileSize = 2
    DownloadMax = 2
    MaxParts = 2
    Retention = 1
    MaxAge = 3
    MaxMishaps = 1
SPECIFICATION FrontendSpec
SYMMETRY FrontendSymmetry
CONSTRAINT ThirdSendAlone
INVARIANTS FlippedOncePerForm  OneOwner CacheIsReaped NoEventDropped   NoOrphanTurn FramesIntact NoEmptyToken NewestShown 
PROPERTIES ActiveRouteStays
CHECK_DEADLOCK FALSE
