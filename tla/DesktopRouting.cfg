SPECIFICATION Spec
CONSTANTS
    Originals = {u1}
    MaxEdits = 1
    MaxRuns = 2
    MaxRelays = 1
    MaxIds = 1
    MaxTrouble = 2
INVARIANTS
    OriginalRecoverable
    CaptureServesRunningGateway
    DesktopCaptureHasItsOwner
    DoorServesCodex
PROPERTIES
    DiscardKeepsRedirect
    DoorLeavesCaptureFirst
    FailedEnableLeavesNothing
CHECK_DEADLOCK FALSE
