SPECIFICATION Spec
CONSTANTS
    Setups <- MCSetups
    MaxRequests = 3
    MaxRounds = 2
INVARIANTS
    CallsReachTheirTool
    CallsAnsweredInPlace
    OrdinaryHistoryIsVerbatim
    ReasoningIsReplayed
CHECK_DEADLOCK FALSE
