CONSTANTS
  Sender = sender
  Updates = {u1, u2}
  Oversized = {u2}
  NoUpdate = noupdate
  MaxFetches = 0
  MaxLosses = 1
  WsFatalAfter = 1
  MaxTicks = 3
SPECIFICATION BotSpec
CHECK_DEADLOCK FALSE
PROPERTIES IdleNotMistakenForDead
