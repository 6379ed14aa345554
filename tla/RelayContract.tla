---------------------------- MODULE RelayContract ----------------------------
(***************************************************************************)
(* What the traffic analysis Service counts on from a capture relay it has *)
(* started: the steps TrafficService takes for one relay, with nothing of  *)
(* the relay's locks, queue and worker.  CaptureProxy implements it.       *)
(***************************************************************************)
VARIABLES
    state,      \* what Status, StateStopped and StateFailed report
    serving,    \* the listener accepts
    listening,  \* the http.Server has not been dropped
    closed,     \* Close has been called
    doing       \* the one lifecycle call in flight

contractVars == <<state, serving, listening, closed, doing>>

Init ==
    /\ state = "capturing"
    /\ serving = TRUE /\ listening = TRUE /\ closed = FALSE
    /\ doing = "nothing"

PauseDrains ==
    /\ doing = "nothing" /\ state = "capturing"
    /\ doing' = "pause" /\ state' = "draining"
    /\ UNCHANGED <<serving, listening, closed>>

PauseSettles ==
    /\ doing = "pause"
    /\ doing' = "nothing" /\ state' \in {"passthrough", "capturing"}
    /\ UNCHANGED <<serving, listening, closed>>

\* Stop, and the first Close.
StopDrains ==
    /\ doing = "nothing"
    /\ doing' = "stop" /\ state' = "draining"
    /\ closed' \in {closed, TRUE}
    /\ UNCHANGED <<serving, listening>>

\* A Shutdown that fails closes the listener nevertheless.
StopSettles ==
    /\ doing = "stop"
    /\ doing' = "nothing"
    /\ state' \in {"stopped", "failed"}
    /\ ~listening => state' = "stopped"
    /\ serving' = FALSE /\ listening' = FALSE
    /\ UNCHANGED closed

Fails ==
    /\ serving
    /\ serving' = FALSE /\ state' = "failed"
    /\ UNCHANGED <<listening, closed, doing>>

Next == PauseDrains \/ PauseSettles \/ StopDrains \/ StopSettles \/ Fails

Spec == Init /\ [][Next]_contractVars
=============================================================================
