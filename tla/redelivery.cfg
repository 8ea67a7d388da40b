CONSTANTS
  Events = {e1}
  Workers = {w1}
  Reader = reader
  NoEvent = noevent
  Chunked = {}
  Uploads = {}
  QueueCap = 1
  Budgets = {0, 1}
  MaxSends = 2
  MaxDials = 2
  StaleWindow = 0
  EventTTL = 0
  MaxEntries = 2
  MaxNow = 1
  MaxFaults = 1
SPECIFICATION InboundSpec
CHECK_DEADLOCK FALSE
INVARIANTS FailedIsRedelivered
