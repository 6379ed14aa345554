SPECIFICATION Spec
CONSTANTS
    Versions = {v1}
    MaxTx = 2
    MaxFaults = 2
    MaxEdits = 1
INVARIANTS
    BackoutNeverOrphaned
    InterruptedCanBeSettled
    TerminalIsAccountedFor
PROPERTIES
    OneTransactionAtATime
    KeepsAtomicHome
CHECK_DEADLOCK FALSE
