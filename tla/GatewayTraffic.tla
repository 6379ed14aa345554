--------------------------- MODULE GatewayTraffic ---------------------------
(***************************************************************************)
(* Gateway runs and the traffic Service together, as desktop-app/app.go    *)
(* wires them: a run's BindRun is BindGatewayRun and its EndRun is         *)
(* MarkGatewayLost, called on the run's own goroutine, while management    *)
(* requests and desktop transactions use the Service.                      *)
(***************************************************************************)
EXTENDS TrafficService, GatewayRun

\* Callers are the goroutines of the runs, named like the run, and the rest.
ASSUME GoroutineAssumption == Runs \subseteq Callers

Handlers == Callers \ Runs

allVars == <<vars, gatewayVars>>

SystemInit == Init /\ GatewayInit

-----------------------------------------------------------------------------
BindRun(r) == BindReturns(r, TRUE) /\ BindGatewayRun(r)

\* "capture close is in progress" or "capture is owned by another gateway run".
\* A run binds once, so BindGatewayRun never sees the run it has bound already.
BindRefused(r) ==
    /\ closeOp # NoCaller \/ proxy # NoRelay
    /\ BindReturns(r, FALSE)
    /\ UNCHANGED vars

EndRun(r) == EndRunCalled(r) /\ LostEnter(r, r, Abnormal(r))

EndRunDone(r) ==
    /\ call[r].stage = "idle"
    /\ EndRunReturns(r)
    /\ UNCHANGED vars

\* What the goroutine of a run does on its own.
Proceed(r) ==
    \/ /\ \/ StartupFails(r) \/ Listen(r) \/ OnListening(r) \/ Publish(r)
          \/ EndRunSkipped(r) \/ FinishRun(r)
       /\ UNCHANGED vars
    \/ BindRun(r) \/ BindRefused(r)
    \/ EndRun(r) \/ EndRunDone(r)

\* Serving ends on its own, or because it was cancelled.
Serve(r) == ServeEnds(r) /\ UNCHANGED vars

Command(r) == (Start(r) \/ Stop(r) \/ ControlShutdown(r)) /\ UNCHANGED vars

\* The calls in flight.
Resume(c) == Continue(c) /\ UNCHANGED gatewayVars
Look(c) == LostLook(c) /\ UNCHANGED gatewayVars

\* The management API is served by the gateway itself, and the desktop
\* transaction starts from a running one; either may still be under way while
\* the run ends.
GatewayUp == \E r \in Runs : runs[r].phase \in {"serving", "ended", "ending"}

\* Recovery is confirmed into idle only (recovery bindings).
Issue ==
    /\ \/ GatewayUp /\ \E h \in Handlers : Operate(h)
       \/ \E gen \in 0..generation, r \in Runs, o \in Owners :
            \/ ClaimDesktop(gen, r, o) \/ ReleaseDesktop(gen, o)
            \/ SetMapping(gen, r, o) \/ ClearMapping(gen, r, o)
       \/ \E via \in Conduits \cup {NoRelay} : BindSource(via)
       \/ \E r \in Relays : RelayFails(r)
       \/ ClearRecovery("idle")
    /\ UNCHANGED gatewayVars

SystemNext ==
    \/ \E r \in Runs : Proceed(r) \/ Serve(r) \/ Command(r)
    \/ \E c \in Callers : Resume(c) \/ Look(c)
    \/ Issue

SystemSpec == SystemInit /\ [][SystemNext]_allVars

\* The call is inside the relay (CaptureProxy.Start, Pause, Stop, Close, Clear),
\* outside the Service mutex.
InRelayCall(c) ==
    \/ call[c].stage \in {"build", "reserved", "draining", "discard"}
    \/ call[c].op = "clear"

\* Goroutines run, and a cancelled server returns: Shutdown has a timeout.  A
\* call that is back from the relay takes the mutex and goes on; MarkGatewayLost
\* retries after every operation it waited for, and the mutex is assumed not to
\* starve it.  That the relay returns is not assumed: its Pause and Stop can
\* wait for each other's lock for ever, and MarkGatewayLost's Stop has no timeout.
SystemFairSpec ==
    /\ SystemSpec
    /\ \A r \in Runs : /\ WF_allVars(Proceed(r))
                       /\ WF_allVars(runs[r].cancelled /\ Serve(r))
    /\ \A c \in Callers : /\ WF_allVars(~InRelayCall(c) /\ Resume(c))
                          /\ SF_allVars(Look(c))

-----------------------------------------------------------------------------
\* Pre-bind failures never reach the traffic Service, and a restart does not
\* begin while the previous run's EndRun is still changing it.
EndRunInsideRun ==
    \A r \in Runs : call[r].stage # "idle" => runs[r].bindCalled /\ current = r

\* "running" is never published for a run that was stopped or did not bind.
RunningIsBound ==
    status = "running" =>
        /\ current # NoRun
        /\ runs[current].bindCalled
        /\ ~runs[current].stopped

\* The traffic Service sees a run from its bind to its EndRun, and everybody else
\* within that only (onListening, notifyTrafficEndSafe, finishRun).
RunsAreBracketed == EndRunInsideRun /\ RunningIsBound

\* No call stays inside the relay for ever.
RelayCallsReturn == \A c \in Callers : []<>~InRelayCall(c)

\* As long as the relay's calls return, every call into the traffic Service does,
\* and a stopped run finishes, whatever the capture is going through and whatever
\* EndRun has to wait for: the Service's own waiting, for a close or a mutation
\* to finish and for the turn to look again, keeps nobody for ever.  (A run is
\* stopped for good.)
CallsAndStopsReturn ==
    RelayCallsReturn =>
        /\ \A c \in Callers : []<>(call[c].stage = "idle")
        /\ \A r \in Runs : []<>(runs[r].stopped => runs[r].phase = "done")

\* "The Service instance can be freely re-owned or re-bound across Gateway
\* restarts": once the Service is idle again and has given the last run's
\* identity up, nothing refuses the next run.
RefusedOnlyWhileOwned ==
    [][\A r \in Runs : BindRefused(r) =>
         closeOp # NoCaller \/ mode # "idle" \/ gatewayId # NoRun]_allVars
=============================================================================
