CONSTANTS
    Clients = {c1, c2}
    ChanBuf = 1
    MaxReconnectFailures = 3
    BaseBackoff = 1
    MaxBackoff = 2
    MaxFrames = 3
    Prompts = {p1}
    NoPrompt = NoPrompt
    Kinds = {"result", "notice", "patch"}
    MaxDeliveries = 3
    MaxProgress = 1
    MaxOutages = 2
    MaxQuickReturns = 0
    Requests = {r1}
    TurnPrompts = {q1}
    Nobody = Nobody
    MaxClicks = 2
    Turns = {t1}
    Chats = {k1}
    NoTurn = NoTurn
    MaxConcurrent = 1
    EventBuf = 1
    MaxLines = 2
    MaxAttempts = 2
    MaxNew = 1
SPECIFICATION LifeFairSpec
INVARIANTS ReceivedPrefix NoLeakedStream 
PROPERTIES FlappingEnds ShutdownEnds  UnansweredIsReaped CancelledEnds
CHECK_DEADLOCK FALSE
