SPECIFICATION LogSpec
CONSTANTS
  Payloads = {s1, s2}
  Events = {e1}
  QueueSize = 2
  MaxPauses = 2
  RingSize = 2
  MaxObservations = 4
INVARIANTS
  PassthroughIsQuiet
  NoSendOnClosedQueue
  CompletedLogAccounts
PROPERTY
  KeepsContract
CHECK_DEADLOCK FALSE
