CONSTANTS
    Reports = {r1, r2}
    Chats = {k1}
    MaxStatusCards = 2
    MaxCards = 3
SPECIFICATION StatusSpec
INVARIANTS IDsMirrorCards
CHECK_DEADLOCK FALSE
