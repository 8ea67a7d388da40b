CONSTANTS
    Prompts = {p1}
    NoPrompt = NoPrompt
    Kinds = {"notice"}
    MaxDeliveries = 1
    MaxProgress = 1
    MaxOutages = 0
    MaxQuickReturns = 0
SPECIFICATION TurnSpec
PROPERTIES FinalCardStays
CHECK_DEADLOCK FALSE
