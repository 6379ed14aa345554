SPECIFICATION Spec
CONSTANTS
  Callers = {c1, c2}
  Runs = {g1, g2}
  Owners = {o1, o2}
  NoRun = NoRun
  NoOwner = NoOwner
  NoCaller = NoCaller
  MaxStarts = 2
SYMMETRY MCSymmetry
INVARIANTS
  NoOrphanRelay
  HoldersOwnRelay
  RequestsCarryBoundRun
  MappingIsNotStale
PROPERTIES
  EvidenceIsKept
