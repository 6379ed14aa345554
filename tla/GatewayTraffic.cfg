SPECIFICATION SystemFairSpec
CONSTANTS
  Callers = {g1, g2, h1}
  Runs = {g1, g2}
  Owners = {o1}
  NoRun = NoRun
  NoOwner = NoOwner
  NoCaller = NoCaller
  MaxStarts = 1
INVARIANTS
  RunsAreBracketed
PROPERTIES
  CallsAndStopsReturn
CHECK_DEADLOCK FALSE
