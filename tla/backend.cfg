CONSTANTS
    Turns = {p1, p2}
    Chats = {c1, c2}
    NoTurn = NoTurn
    MaxConcurrent = 1
    EventBuf = 1
    MaxLines = 1
    MaxAttempts = 2
    MaxNew = 1
    ChatKeys = {a, b}
    Values = {x}
    None = none
    MaxOps = 2
    MaxFaults = 3
    MaxCrashes = 2
SPECIFICATION BackendSpec
SYMMETRY AgentSymmetry
INVARIANTS OneTurnPerChat AbortXorResult SessionOfEpoch  DeadProcessIsReported NeverTorn NoChangeLost
PROPERTIES ImplementsDurableMap
CHECK_DEADLOCK FALSE
