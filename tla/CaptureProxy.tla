---------------------------- MODULE CaptureProxy ----------------------------
(***************************************************************************)
(* One capture relay (internal/service/trafficanalysis/capture.go) after a *)
(* successful Start, at the level of its locks: the mutex `mu`, the        *)
(* RWMutex `observationGate`, the bounded queue and the worker behind it.  *)
(*                                                                         *)
(* The threads are the lifecycle call in flight ("op": the Service admits  *)
(* one at a time), the worker ("worker"), the payloads of relayed requests *)
(* (Payloads, each calling enqueue) and the gateway's own requests         *)
(* (Events, each calling RecordGatewayEvent).  An action is what a thread  *)
(* does between two points where it may block.                             *)
(***************************************************************************)
EXTENDS Naturals, Sequences

CONSTANTS
    Payloads,   \* payloads being relayed
    Events,     \* gateway requests that record an event
    QueueSize,  \* capacity of the queue
    MaxPauses   \* bound on the pauses that drain

ASSUME QueueAssumption == QueueSize \in Nat \ {0}
ASSUME PausesAssumption == MaxPauses \in Nat
ASSUME ThreadAssumption == Payloads \cap Events = {}

VARIABLES
    state,        \* p.state
    recording,    \* p.recording
    listening,    \* p.server is not nil
    serving,      \* the Serve goroutine runs
    closed,       \* p.closed is closed
    mu,           \* "op" while a lifecycle call blocks with p.mu held, or "free"
    gateWriter,   \* a Lock of observationGate is pending
    gateReaders,  \* the holders of its RLock
    queue,        \* p.queue: barriers by number, Payload for anything else
    queueClosed,  \* close(p.queue) was called
    pauses,       \* the pauses that drained so far: the number of the last barrier
    arrived,      \* barriers that the worker closed
    op,           \* where the lifecycle call is
    at,           \* where the payloads and events are
    taken,        \* what the worker has received and not finished with
    workerDone    \* p.workerDone is closed

locks == <<mu, gateWriter, gateReaders>>
work  == <<queue, queueClosed, pauses, arrived, taken, workerDone>>
vars == <<state, recording, listening, serving, closed, mu, gateWriter,
          gateReaders, queue, queueClosed, pauses, arrived, op, at, taken,
          workerDone>>

Payload == 0
Barriers == 1..MaxPauses

TypeOK ==
    /\ state \in {"capturing", "draining", "passthrough", "stopped", "failed"}
    /\ recording \in BOOLEAN /\ listening \in BOOLEAN /\ serving \in BOOLEAN
    /\ closed \in BOOLEAN /\ queueClosed \in BOOLEAN /\ gateWriter \in BOOLEAN
    /\ mu \in {"free", "op"}
    /\ gateReaders \subseteq Payloads \cup Events
    /\ queue \in Seq(Barriers \cup {Payload}) /\ Len(queue) <= QueueSize
    /\ pauses \in 0..MaxPauses
    /\ arrived \subseteq Barriers
    /\ op \in {"idle", "pauseGate", "pauseSend", "pauseWait", "stopGate",
               "shutdown", "closeGate", "closeShutdown", "closeQueue",
               "closeWait"}
    /\ at \in [Payloads \cup Events -> {"idle", "tapped", "inside"}]
    /\ taken \in Seq(Barriers \cup {Payload}) /\ Len(taken) <= 1
    /\ workerDone \in BOOLEAN

Init ==
    /\ state = "capturing" /\ recording = TRUE
    /\ listening = TRUE /\ serving = TRUE /\ closed = FALSE
    /\ mu = "free" /\ gateWriter = FALSE /\ gateReaders = {}
    /\ queue = <<>> /\ queueClosed = FALSE /\ pauses = 0 /\ arrived = {}
    /\ op = "idle"
    /\ at = [t \in Payloads \cup Events |-> "idle"]
    /\ taken = <<>> /\ workerDone = FALSE

MuFree == mu = "free"

-----------------------------------------------------------------------------
(* Pause.  Called on a relay that is not capturing it changes nothing.  Its *)
(* branches for a relay closed meanwhile cannot be taken: the Service       *)
(* admits no Close while a Pause is in flight.                              *)

PauseBegins ==
    /\ op = "idle" /\ MuFree
    /\ state = "capturing"
    /\ pauses < MaxPauses
    /\ mu' = "op" /\ gateWriter' = TRUE
    /\ state' = "draining"
    /\ op' = "pauseGate"
    /\ UNCHANGED <<recording, listening, serving, closed, gateReaders, work, at>>

\* Mutant: the gate is passed without switching the recording off.
PauseKeepsRecording ==
    /\ op = "pauseGate" /\ gateReaders = {}
    /\ gateWriter' = FALSE
    /\ op' = "pauseSend"
    /\ UNCHANGED <<state, recording, listening, serving, closed, mu, gateReaders,
                   work, at>>

PausePassesGate ==
    /\ op = "pauseGate" /\ gateReaders = {}
    /\ recording' = FALSE
    /\ gateWriter' = FALSE
    /\ op' = "pauseSend"
    /\ UNCHANGED <<state, listening, serving, closed, mu, gateReaders, work, at>>

\* The barrier goes into the queue, with p.mu still held.
PauseSendsBarrier ==
    /\ op = "pauseSend" /\ Len(queue) < QueueSize
    /\ pauses' = pauses + 1
    /\ queue' = Append(queue, pauses + 1)
    /\ mu' = "free"
    /\ op' = "pauseWait"
    /\ UNCHANGED <<state, recording, listening, serving, closed, gateWriter,
                   gateReaders, queueClosed, arrived, at, taken, workerDone>>

PauseArrives ==
    /\ op = "pauseWait" /\ MuFree
    /\ pauses \in arrived
    /\ state' = "passthrough"
    /\ op' = "idle"
    /\ UNCHANGED <<recording, listening, serving, closed, locks, work, at>>

\* Mutant: the timeout forgets to restore the state.
PauseLeavesDraining ==
    /\ op = "pauseWait" /\ MuFree
    /\ recording' = TRUE
    /\ op' = "idle"
    /\ UNCHANGED <<state, listening, serving, closed, locks, work, at>>

PauseTimesOut ==
    /\ op = "pauseWait" /\ MuFree
    /\ recording' = TRUE
    /\ state' = "capturing"
    /\ op' = "idle"
    /\ UNCHANGED <<listening, serving, closed, locks, work, at>>

-----------------------------------------------------------------------------
(* Stop, and Close, which does nothing the second time.                    *)

StopBegins(next) ==
    /\ op = "idle" /\ MuFree
    /\ \/ next = "stopGate" /\ UNCHANGED closed
       \/ next = "closeGate" /\ ~closed /\ closed' = TRUE
    /\ mu' = "op" /\ gateWriter' = TRUE
    /\ op' = next
    /\ UNCHANGED <<state, recording, listening, serving, gateReaders, work, at>>

\* Mutant: a stopping relay goes on recording.
StopKeepsRecording ==
    /\ op \in {"stopGate", "closeGate"} /\ gateReaders = {}
    /\ gateWriter' = FALSE
    /\ state' = "draining"
    /\ mu' = "free"
    /\ op' = IF op = "stopGate" THEN "shutdown" ELSE "closeShutdown"
    /\ UNCHANGED <<recording, listening, serving, closed, gateReaders, work, at>>

StopPassesGate ==
    /\ op \in {"stopGate", "closeGate"} /\ gateReaders = {}
    /\ recording' = FALSE
    /\ gateWriter' = FALSE
    /\ state' = "draining"
    /\ mu' = "free"
    /\ op' = IF op = "stopGate" THEN "shutdown" ELSE "closeShutdown"
    /\ UNCHANGED <<listening, serving, closed, gateReaders, work, at>>

\* Shutdown returned; without a server there was nothing to shut down.
StopEnds ==
    /\ op \in {"shutdown", "closeShutdown"} /\ MuFree
    /\ \E ok \in BOOLEAN :
        /\ ~listening => ok
        /\ state' = IF ok THEN "stopped" ELSE "failed"
    /\ listening' = FALSE /\ serving' = FALSE
    /\ op' = IF op = "shutdown" THEN "idle" ELSE "closeQueue"
    /\ UNCHANGED <<recording, closed, locks, work, at>>

CloseClosesQueue ==
    /\ op = "closeQueue"
    /\ queueClosed' = TRUE
    /\ op' = "closeWait"
    /\ UNCHANGED <<state, recording, listening, serving, closed, locks, queue,
                   pauses, arrived, at, taken, workerDone>>

CloseReturns ==
    /\ op = "closeWait" /\ workerDone
    /\ op' = "idle"
    /\ UNCHANGED <<state, recording, listening, serving, closed, locks, work, at>>

\* The Serve goroutine reports that the listener died.
ServeFails ==
    /\ serving /\ MuFree
    /\ serving' = FALSE
    /\ state' = "failed"
    /\ UNCHANGED <<recording, listening, closed, locks, work, op, at>>

-----------------------------------------------------------------------------
(* The worker: consume.                                                    *)

WorkerReceives ==
    /\ taken = <<>> /\ queue # <<>>
    /\ taken' = <<Head(queue)>>
    /\ queue' = Tail(queue)
    /\ UNCHANGED <<state, recording, listening, serving, closed, locks,
                   queueClosed, pauses, arrived, op, at, workerDone>>

WorkerRecords ==
    /\ taken = <<Payload>>
    /\ taken' = <<>>
    /\ UNCHANGED <<state, recording, listening, serving, closed, locks, queue,
                   queueClosed, pauses, arrived, op, at, workerDone>>

\* It locks p.mu to read a setting before it closes the barrier.
WorkerReachesBarrier ==
    /\ taken # <<>> /\ taken # <<Payload>> /\ MuFree
    /\ arrived' = arrived \cup {Head(taken)}
    /\ taken' = <<>>
    /\ UNCHANGED <<state, recording, listening, serving, closed, locks, queue,
                   queueClosed, pauses, op, at, workerDone>>

WorkerEnds ==
    /\ taken = <<>> /\ queue = <<>> /\ queueClosed /\ ~workerDone
    /\ workerDone' = TRUE
    /\ UNCHANGED <<state, recording, listening, serving, closed, locks, queue,
                   queueClosed, pauses, arrived, op, at, taken>>

-----------------------------------------------------------------------------
(* Relayed payloads (serveHTTPForward and enqueue).                        *)

Moves(t, where) == at' = [at EXCEPT ![t] = where]
RelayUntouched == UNCHANGED <<state, recording, listening, serving, closed, op>>

\* A request is tapped when recording is on as it arrives.
PayloadArrives(s) ==
    /\ at[s] = "idle" /\ MuFree
    /\ recording /\ state \notin {"stopped", "failed"}
    /\ Moves(s, "tapped")
    /\ RelayUntouched /\ UNCHANGED <<locks, work>>

PayloadEntersGate(s) ==
    /\ at[s] = "tapped" /\ ~gateWriter
    /\ gateReaders' = gateReaders \cup {s}
    /\ Moves(s, "inside")
    /\ RelayUntouched /\ UNCHANGED <<mu, gateWriter, work>>

\* Enqueued, dropped because the queue is full, or not wanted any more.
PayloadLeavesGate(s) ==
    /\ at[s] = "inside"
    /\ queue' = IF recording /\ Len(queue) < QueueSize
                THEN Append(queue, Payload) ELSE queue
    /\ gateReaders' = gateReaders \ {s}
    /\ Moves(s, "idle")
    /\ RelayUntouched
    /\ UNCHANGED <<mu, gateWriter, queueClosed, pauses, arrived, taken, workerDone>>

-----------------------------------------------------------------------------
(* RecordGatewayEvent: p.mu is taken inside the gate.                      *)

EventEntersGate(e) ==
    /\ at[e] = "idle" /\ ~gateWriter
    /\ recording
    /\ gateReaders' = gateReaders \cup {e}
    /\ Moves(e, "inside")
    /\ RelayUntouched /\ UNCHANGED <<mu, gateWriter, work>>

EventLeavesGate(e) ==
    /\ at[e] = "inside" /\ MuFree
    /\ gateReaders' = gateReaders \ {e}
    /\ Moves(e, "idle")
    /\ RelayUntouched /\ UNCHANGED <<mu, gateWriter, work>>

-----------------------------------------------------------------------------
\* A lifecycle call once begun.
Operate ==
    \/ PausePassesGate \/ PauseSendsBarrier \/ PauseArrives \/ PauseTimesOut
    \/ StopPassesGate \/ StopEnds \/ CloseClosesQueue \/ CloseReturns

Call == PauseBegins \/ \E next \in {"stopGate", "closeGate"} : StopBegins(next)

Consume ==
    \/ WorkerReceives \/ WorkerRecords \/ WorkerReachesBarrier \/ WorkerEnds

LeavesGate(t) ==
    \/ t \in Payloads /\ PayloadLeavesGate(t)
    \/ t \in Events /\ EventLeavesGate(t)

EntersGate(t) ==
    \/ t \in Payloads /\ (PayloadArrives(t) \/ PayloadEntersGate(t))
    \/ t \in Events /\ EventEntersGate(t)

Next ==
    \/ Call \/ Operate \/ Consume \/ ServeFails
    \/ \E t \in Payloads \cup Events : EntersGate(t) \/ LeavesGate(t)

Spec == Init /\ [][Next]_vars

\* Goroutines run; timers fire; Shutdown and Close return.
FairSpec ==
    /\ Spec
    /\ WF_vars(Operate) /\ WF_vars(Consume)
    /\ \A t \in Payloads \cup Events : WF_vars(LeavesGate(t))

-----------------------------------------------------------------------------
\* "Pause stops observation recording": once the relay is in passthrough nothing
\* that was observed before is still on its way into the ring, and nothing
\* observed later gets there.
PassthroughIsQuiet ==
    state = "passthrough" =>
        /\ ~recording
        /\ taken # <<Payload>>
        /\ \A i \in 1..Len(queue) : queue[i] # Payload
        /\ \A e \in Events : at[e] # "inside"

\* Nobody sends on the queue after Close closed it, which would panic, although
\* requests that outlive the shutdown timeout still hold the relay.
NoSendOnClosedQueue ==
    queueClosed =>
        /\ op # "pauseSend"
        /\ \A s \in Payloads : at[s] = "inside" => ~recording

\* The relay keeps what the Service counts on.
Contract == INSTANCE RelayContract WITH
    closed <- closed /\ op # "closeGate",
    doing <- IF op \in {"pauseGate", "pauseSend", "pauseWait"} THEN "pause"
             ELSE IF op \in {"shutdown", "closeShutdown"} THEN "stop"
             ELSE "nothing"
KeepsContract == Contract!Spec

\* A pause ends within its drain timeout, whatever happens ("pause elapsed",
\* TestCapturePauseTimeoutRestoresObservationGateAndState).
PauseReturns ==
    op \in {"pauseGate", "pauseSend", "pauseWait"} ~> op = "idle"
=============================================================================
