SPECIFICATION FairSpec
CONSTANTS
  Payloads = {s1}
  Events = {e1}
  QueueSize = 1
  MaxPauses = 1
PROPERTY
  PauseReturns
CHECK_DEADLOCK FALSE
