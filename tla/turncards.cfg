CONSTANTS
    Prompts = {p1, p2}
    NoPrompt = NoPrompt
    Kinds = {"result", "notice", "patch"}
    MaxDeliveries = 1
    MaxProgress = 1
    MaxOutages = 1
    MaxQuickReturns = 1
SYMMETRY PromptSymmetry
SPECIFICATION TurnSpec
INVARIANTS OneTerminal TerminalReleases
PROPERTIES SealedCardStays
CHECK_DEADLOCK FALSE
