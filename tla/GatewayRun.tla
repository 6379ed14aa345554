----------------------------- MODULE GatewayRun -----------------------------
(***************************************************************************)
(* The gateway Service (internal/service/gateway/gateway.go): one run at a *)
(* time, each on its own goroutine, with the BindRun and EndRun callbacks  *)
(* by which a run takes and gives back the traffic capture.                *)
(*                                                                         *)
(* The callbacks belong to the caller, so their steps are left open here   *)
(* (BindReturns takes the outcome as a parameter, EndRunCalled and         *)
(* EndRunReturns bracket the call); GatewayTraffic closes them.            *)
(***************************************************************************)
EXTENDS GatewayRuns

VARIABLES
    current,  \* s.current
    status,   \* s.state.Status
    runs      \* the bookkeeping of every run

gatewayVars == <<current, status, runs>>

Statuses == {"stopped", "starting", "running", "stopping", "failed"}

\* new: not started.  spawned: goroutine running, no listener yet.
\* listening: listener bound, onListening entered.  binding: the BindRun
\* callback runs without the gateway's lock.  bound: bindCalled is set.
\* serving: published.  ended: runServer returned.  ending: EndRun runs.
\* notified: EndRun is over, or was not called for.  done: run.done is closed.
Phases == {"new", "spawned", "listening", "binding", "bound", "serving",
           "ended", "ending", "notified", "done"}

\* `stopped` says that Stop cancelled the run, `cancelled` that anything did.
Run == [phase : Phases, cancelled : BOOLEAN, stopped : BOOLEAN,
        bindCalled : BOOLEAN, err : BOOLEAN]

GatewayTypeOK ==
    /\ current \in Runs \cup {NoRun}
    /\ status \in Statuses
    /\ runs \in [Runs -> Run]

GatewayInit ==
    /\ current = NoRun
    /\ status = "stopped"
    /\ runs = [r \in Runs |-> [phase |-> "new", cancelled |-> FALSE,
                              stopped |-> FALSE, bindCalled |-> FALSE,
                              err |-> FALSE]]

Goto(r, phase) == runs' = [runs EXCEPT ![r].phase = phase]
EndsWith(r, err) == runs' = [runs EXCEPT ![r].phase = "ended", ![r].err = err]

-----------------------------------------------------------------------------
Start(r) ==
    /\ current = NoRun
    /\ runs[r].phase = "new"
    /\ current' = r
    /\ status' = "starting"
    /\ Goto(r, "spawned")

\* The port is taken, the config is bad, or startup gave up on a cancelled run.
StartupFails(r) ==
    /\ runs[r].phase = "spawned"
    /\ \E err \in BOOLEAN :
        /\ ~err => runs[r].cancelled
        /\ EndsWith(r, err)
    /\ UNCHANGED <<current, status>>

Listen(r) ==
    /\ runs[r].phase = "spawned"
    /\ Goto(r, "listening")
    /\ UNCHANGED <<current, status>>

StillStarting(r) == current = r /\ status = "starting"

\* onListening, first look: a run stopped meanwhile does not bind.
OnListening(r) ==
    /\ runs[r].phase = "listening"
    /\ IF StillStarting(r) THEN Goto(r, "binding") ELSE EndsWith(r, TRUE)
    /\ UNCHANGED <<current, status>>

\* The BindRun callback returned; an error or a panic aborts the startup.
BindReturns(r, ok) ==
    /\ runs[r].phase = "binding"
    /\ IF ok
       THEN runs' = [runs EXCEPT ![r].phase = "bound", ![r].bindCalled = TRUE]
       ELSE EndsWith(r, TRUE)
    /\ UNCHANGED <<current, status>>

\* onListening, second look: a run stopped during the callback aborts, with an
\* error, after a bind that succeeded.
Publish(r) ==
    /\ runs[r].phase = "bound"
    /\ IF StillStarting(r)
       THEN status' = "running" /\ Goto(r, "serving")
       ELSE EndsWith(r, TRUE) /\ UNCHANGED status
    /\ UNCHANGED current

\* runHTTPServer returns: Serve failed or panicked, or the context was
\* cancelled and the five second Shutdown drained the connections or did not.
ServeEnds(r) ==
    /\ runs[r].phase = "serving"
    /\ \E err \in BOOLEAN :
        /\ ~err => runs[r].cancelled
        /\ EndsWith(r, err)
    /\ UNCHANGED <<current, status>>

\* Mutant: EndRun is called whether or not the run had bound.
EndRunUnconditional(r) == TRUE

\* notifyTrafficEndSafe: "only if bindCalled is true".
EndRunDue(r) == runs[r].bindCalled

\* The reason handed to EndRun: anything but a nil error is abnormal.
Abnormal(r) == runs[r].err

EndRunCalled(r) ==
    /\ runs[r].phase = "ended"
    /\ EndRunDue(r)
    /\ Goto(r, "ending")
    /\ UNCHANGED <<current, status>>

EndRunReturns(r) ==
    /\ runs[r].phase = "ending"
    /\ Goto(r, "notified")
    /\ UNCHANGED <<current, status>>

EndRunSkipped(r) ==
    /\ runs[r].phase = "ended"
    /\ ~EndRunDue(r)
    /\ Goto(r, "notified")
    /\ UNCHANGED <<current, status>>

\* Mutant: run.done is closed as soon as EndRun has been called.
FinishEarly(r) == runs[r].phase \in {"ending", "notified"}

\* "Publish the terminal run state only after EndRun has completed."
FinishReady(r) == runs[r].phase = "notified"

FinishRun(r) ==
    /\ FinishReady(r)
    /\ current = r
    /\ current' = NoRun
    /\ status' = IF runs[r].err THEN "failed" ELSE "stopped"
    /\ Goto(r, "done")

\* Stop, up to its wait for run.done.  The code cancels after it released the
\* mutex, but on the run it found there, and nothing reads one without the other.
Stop(r) ==
    /\ current = r
    /\ status' = IF status \in {"starting", "running"} THEN "stopping" ELSE status
    /\ runs' = [runs EXCEPT ![r].cancelled = TRUE, ![r].stopped = TRUE]
    /\ UNCHANGED current

\* The desktop control endpoint cancels the run behind Stop's back.
ControlShutdown(r) ==
    /\ runs[r].phase = "serving"
    /\ runs' = [runs EXCEPT ![r].cancelled = TRUE]
    /\ UNCHANGED <<current, status>>
=============================================================================
