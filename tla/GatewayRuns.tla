----------------------------- MODULE GatewayRuns -----------------------------
(* The identities of gateway runs, shared by the modules that name them.   *)
CONSTANTS
    Runs,   \* gateway runs, each with its own instance id and address
    NoRun   \* the empty identity

ASSUME RunAssumption == NoRun \notin Runs
=============================================================================
