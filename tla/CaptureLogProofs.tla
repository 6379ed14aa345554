-------------------------- MODULE CaptureLogProofs --------------------------
(***************************************************************************)
(* Proofs about the relay and its log, for every number of relayed         *)
(* payloads and of gateway events, every size of the queue and of the      *)
(* ring, every bound on the pauses, and whatever writes fail.  The         *)
(* invariant of the relay (CaptureProxy) says which locks a lifecycle call *)
(* holds at each of its steps, when the recording is off, and where the    *)
(* barrier of the pause in flight stands between the payloads of the       *)
(* queue.  Every step of CaptureLog is a step of the relay or leaves it    *)
(* alone; on top of it, a completed log accounts for what was observed.    *)
(***************************************************************************)
EXTENDS CaptureLog, SequenceTheorems, TLAPS

USE QueueAssumption, PausesAssumption, ThreadAssumption

-----------------------------------------------------------------------------
\* The gate's holders are the threads inside it; an event is inside only while
\* recording is on, because it is switched off behind a Lock of the gate.
GateOK ==
    /\ \A t \in Payloads \cup Events : t \in gateReaders <=> at[t] = "inside"
    /\ \A e \in Events : at[e] = "inside" => recording

\* The barriers sent so far have the numbers up to pauses.
BarriersOK ==
    /\ \A i \in 1..Len(queue) : queue[i] <= pauses
    /\ \A i \in 1..Len(taken) : taken[i] <= pauses
    /\ \A b \in arrived : b <= pauses
    /\ op \in {"pauseGate", "pauseSend"} => pauses < MaxPauses

NoPayload == taken # <<Payload>> /\ \A i \in 1..Len(queue) : queue[i] # Payload

\* Behind the barrier of the pause in flight there is no payload.
DrainOK ==
    op = "pauseWait" =>
        /\ \A i, j \in 1..Len(queue) : queue[i] = pauses /\ i < j => queue[j] # Payload
        /\ taken = <<pauses>> => \A i \in 1..Len(queue) : queue[i] # Payload
        /\ pauses \in arrived => NoPayload
        /\ pauses > 0

\* The recording is off once a pause or a stop has passed the gate.
OffOK ==
    /\ op \in {"pauseSend", "pauseWait", "shutdown", "closeShutdown", "closeQueue",
               "closeWait"} => ~recording
    /\ op \in {"shutdown", "closeShutdown"} => state \in {"draining", "failed"}
    /\ op = "closeQueue" => state \in {"stopped", "failed"}
    /\ op \in {"pauseGate", "pauseSend", "pauseWait"} => state \in {"draining", "failed"}
    /\ state = "passthrough" =>
        /\ op \in {"idle", "stopGate", "closeGate"}
        /\ ~recording
        /\ NoPayload

\* After Close nothing records and nothing pauses.
ClosedOK ==
    queueClosed =>
        /\ ~recording
        /\ state \notin {"capturing", "passthrough"}
        /\ op \notin {"pauseGate", "pauseSend", "pauseWait"}

IInv == TypeOK /\ GateOK /\ BarriersOK /\ DrainOK /\ OffOK /\ ClosedOK

-----------------------------------------------------------------------------
(* Each action keeps the invariant.                                        *)

LEMMA OneElement ==
  ASSUME NEW S, NEW s \in Seq(S), s # <<>>, Len(s) <= 1
  PROVE  s = <<s[1]>> /\ s[1] \in S
<1>1. Len(s) \in Nat \ {0}
  BY EmptySeq
<1>2. Len(s) = 1
  BY <1>1
<1>. QED BY <1>2

LEMMA InitInv == Init => IInv
<1>. SUFFICES ASSUME Init PROVE IInv
  OBVIOUS
<1>1. TypeOK
  <2>1. <<>> \in Seq(Barriers \cup {Payload}) /\ Len(<<>>) = 0
    OBVIOUS
  <2>2. at \in [Payloads \cup Events -> {"idle", "tapped", "inside"}]
    BY DEF Init
  <2>3. queue \in Seq(Barriers \cup {Payload}) /\ Len(queue) <= QueueSize
    BY <2>1 DEF Init
  <2>4. taken \in Seq(Barriers \cup {Payload}) /\ Len(taken) <= 1
    BY <2>1 DEF Init
  <2>5. pauses \in 0..MaxPauses
    BY DEF Init
  <2>. QED BY <2>2, <2>3, <2>4, <2>5 DEF Init, TypeOK
<1>2. GateOK /\ BarriersOK /\ DrainOK /\ OffOK /\ ClosedOK
  BY DEF Init, GateOK, BarriersOK, DrainOK, OffOK, ClosedOK
<1>. QED BY <1>1, <1>2 DEF IInv

LEMMA CallInv == ASSUME IInv, Call PROVE IInv'
<1>1. CASE PauseBegins
  BY <1>1 DEF IInv, TypeOK, GateOK, BarriersOK, DrainOK, OffOK, ClosedOK, NoPayload,
     PauseBegins, MuFree, work, Payload, Barriers
<1>2. ASSUME NEW next \in {"stopGate", "closeGate"}, StopBegins(next) PROVE IInv'
  <2>1. TypeOK'
    BY <1>2 DEF IInv, TypeOK, StopBegins, work
  <2>2. GateOK' /\ BarriersOK' /\ DrainOK'
    BY <1>2 DEF IInv, GateOK, BarriersOK, DrainOK, StopBegins, work
  <2>3. OffOK' /\ ClosedOK'
    BY <1>2 DEF IInv, OffOK, ClosedOK, NoPayload, StopBegins, work
  <2>. QED BY <2>1, <2>2, <2>3 DEF IInv
<1>. QED BY <1>1, <1>2 DEF Call

LEMMA PauseInv ==
  ASSUME IInv, PausePassesGate \/ PauseSendsBarrier \/ PauseArrives \/ PauseTimesOut
  PROVE  IInv'
<1>1. CASE PausePassesGate
  BY <1>1 DEF IInv, TypeOK, GateOK, BarriersOK, DrainOK, OffOK, ClosedOK, NoPayload,
     PausePassesGate, work, Payload, Barriers
<1>2. CASE PauseSendsBarrier
  <2>1. queue' \in Seq(Barriers \cup {Payload}) /\ Len(queue') = Len(queue) + 1
    BY <1>2 DEF IInv, TypeOK, BarriersOK, PauseSendsBarrier, Payload, Barriers
  <2>2. \A i \in 1..Len(queue') : queue'[i] = IF i = Len(queue) + 1 THEN pauses + 1 ELSE queue[i]
    BY <1>2 DEF IInv, TypeOK, PauseSendsBarrier
  <2>3. TypeOK'
    BY <1>2, <2>1 DEF IInv, TypeOK, BarriersOK, PauseSendsBarrier, Barriers
  <2>4. Len(queue) \in Nat /\ pauses \in Nat
    BY DEF IInv, TypeOK
  <2>5. GateOK' /\ OffOK' /\ ClosedOK'
    BY <1>2 DEF IInv, GateOK, OffOK, ClosedOK, PauseSendsBarrier
  <2>6. \A i \in 1..Len(queue) : queue[i] \in Nat /\ queue[i] < pauses + 1
    BY <2>4 DEF IInv, TypeOK, BarriersOK, Payload, Barriers
  <2>7. \A i \in 1..Len(taken) : taken[i] \in Nat /\ taken[i] < pauses + 1
    BY <2>4 DEF IInv, TypeOK, BarriersOK, Payload, Barriers
  <2>8. \A b \in arrived : b \in Nat /\ b < pauses + 1
    BY <2>4 DEF IInv, TypeOK, BarriersOK, Barriers
  <2>9. BarriersOK'
    BY <1>2, <2>1, <2>2, <2>4, <2>6, <2>7, <2>8 DEF BarriersOK, PauseSendsBarrier
  <2>10. pauses + 1 \notin arrived /\ taken # <<pauses + 1>>
    BY <2>4, <2>7, <2>8
  <2>11. DrainOK'
    BY <1>2, <2>1, <2>2, <2>4, <2>6, <2>10 DEF DrainOK, PauseSendsBarrier
  <2>. QED BY <2>3, <2>5, <2>9, <2>11 DEF IInv
<1>3. CASE PauseArrives
  BY <1>3 DEF IInv, TypeOK, GateOK, BarriersOK, DrainOK, OffOK, ClosedOK, NoPayload,
     PauseArrives, MuFree, locks, work, Payload, Barriers
<1>4. CASE PauseTimesOut
  BY <1>4 DEF IInv, TypeOK, GateOK, BarriersOK, DrainOK, OffOK, ClosedOK, NoPayload,
     PauseTimesOut, MuFree, locks, work, Payload, Barriers
<1>. QED BY <1>1, <1>2, <1>3, <1>4

LEMMA StopInv ==
  ASSUME IInv, StopPassesGate \/ StopEnds \/ CloseClosesQueue \/ CloseReturns \/ ServeFails
  PROVE  IInv'
<1>1. CASE StopPassesGate
  BY <1>1 DEF IInv, TypeOK, GateOK, BarriersOK, DrainOK, OffOK, ClosedOK, NoPayload,
     StopPassesGate, work, Payload, Barriers
<1>2. CASE StopEnds
  BY <1>2 DEF IInv, TypeOK, GateOK, BarriersOK, DrainOK, OffOK, ClosedOK, NoPayload,
     StopEnds, MuFree, locks, work, Payload, Barriers
<1>3. CASE CloseClosesQueue
  BY <1>3 DEF IInv, TypeOK, GateOK, BarriersOK, DrainOK, OffOK, ClosedOK, NoPayload,
     CloseClosesQueue, locks, Payload, Barriers
<1>4. CASE CloseReturns
  BY <1>4 DEF IInv, TypeOK, GateOK, BarriersOK, DrainOK, OffOK, ClosedOK, NoPayload,
     CloseReturns, locks, work, Payload, Barriers
<1>5. CASE ServeFails
  BY <1>5 DEF IInv, TypeOK, GateOK, BarriersOK, DrainOK, OffOK, ClosedOK, NoPayload,
     ServeFails, MuFree, locks, work, Payload, Barriers
<1>. QED BY <1>1, <1>2, <1>3, <1>4, <1>5

LEMMA WorkerInv == ASSUME IInv, Consume PROVE IInv'
<1>1. CASE WorkerReceives
  BY <1>1 DEF IInv, TypeOK, GateOK, BarriersOK, DrainOK, OffOK, ClosedOK, NoPayload,
     WorkerReceives, locks, Payload, Barriers
<1>2. CASE WorkerRecords
  BY <1>2 DEF IInv, TypeOK, GateOK, BarriersOK, DrainOK, OffOK, ClosedOK, NoPayload,
     WorkerRecords, locks, Payload, Barriers
<1>3. CASE WorkerReachesBarrier
  <2>1. PICK b \in Barriers : taken = <<b>>
    <3>1. taken \in Seq(Barriers \cup {Payload}) /\ taken # <<>> /\ Len(taken) <= 1
      BY <1>3 DEF WorkerReachesBarrier, IInv, TypeOK
    <3>2. taken = <<taken[1]>> /\ taken[1] \in Barriers \cup {Payload}
      BY <3>1, OneElement
    <3>. QED BY <1>3, <3>2 DEF WorkerReachesBarrier
  <2>2. Head(taken) = b /\ b <= pauses /\ b # Payload
    BY <2>1 DEF IInv, BarriersOK, Payload, Barriers
  <2>3. TypeOK'
    BY <1>3, <2>1, <2>2 DEF IInv, TypeOK, WorkerReachesBarrier, locks
  <2>4. BarriersOK' /\ GateOK'
    BY <1>3, <2>2 DEF IInv, BarriersOK, GateOK, WorkerReachesBarrier, locks
  <2>5. DrainOK'
    BY <1>3, <2>1, <2>2 DEF IInv, DrainOK, NoPayload, WorkerReachesBarrier
  <2>6. OffOK' /\ ClosedOK'
    BY <1>3 DEF IInv, OffOK, ClosedOK, NoPayload, WorkerReachesBarrier
  <2>. QED BY <2>3, <2>4, <2>5, <2>6 DEF IInv
<1>4. CASE WorkerEnds
  BY <1>4 DEF IInv, TypeOK, GateOK, BarriersOK, DrainOK, OffOK, ClosedOK, NoPayload,
     WorkerEnds, locks, Payload, Barriers
<1>. QED BY <1>1, <1>2, <1>3, <1>4 DEF Consume

LEMMA ThreadInv ==
  ASSUME IInv, NEW t \in Payloads \cup Events, EntersGate(t) \/ LeavesGate(t)
  PROVE  IInv'
<1>1. CASE t \in Payloads /\ PayloadArrives(t)
  BY <1>1 DEF IInv, TypeOK, GateOK, BarriersOK, DrainOK, OffOK, ClosedOK, NoPayload,
     PayloadArrives, Moves, RelayUntouched, MuFree, locks, work, Payload, Barriers
<1>2. CASE t \in Payloads /\ PayloadEntersGate(t)
  BY <1>2 DEF IInv, TypeOK, GateOK, BarriersOK, DrainOK, OffOK, ClosedOK, NoPayload,
     PayloadEntersGate, Moves, RelayUntouched, work, Payload, Barriers
<1>3. CASE t \in Payloads /\ PayloadLeavesGate(t)
  BY <1>3 DEF IInv, TypeOK, GateOK, BarriersOK, DrainOK, OffOK, ClosedOK, NoPayload,
     PayloadLeavesGate, Moves, RelayUntouched, Payload, Barriers
<1>4. CASE t \in Events /\ EventEntersGate(t)
  BY <1>4 DEF IInv, TypeOK, GateOK, BarriersOK, DrainOK, OffOK, ClosedOK, NoPayload,
     EventEntersGate, Moves, RelayUntouched, work, Payload, Barriers
<1>5. CASE t \in Events /\ EventLeavesGate(t)
  BY <1>5 DEF IInv, TypeOK, GateOK, BarriersOK, DrainOK, OffOK, ClosedOK, NoPayload,
     EventLeavesGate, Moves, RelayUntouched, MuFree, work, Payload, Barriers
<1>. QED BY <1>1, <1>2, <1>3, <1>4, <1>5 DEF EntersGate, LeavesGate

LEMMA NextInv == IInv /\ [Next]_vars => IInv'
<1>. SUFFICES ASSUME IInv, [Next]_vars PROVE IInv'
  OBVIOUS
<1>1. CASE UNCHANGED vars
  BY <1>1 DEF IInv, TypeOK, GateOK, BarriersOK, DrainOK, OffOK, ClosedOK, NoPayload, vars
<1>2. CASE Next
  BY <1>2, CallInv, PauseInv, StopInv, WorkerInv, ThreadInv DEF Next, Operate
<1>. QED BY <1>1, <1>2

THEOREM InvHolds == Spec => []IInv
BY InitInv, NextInv, PTL DEF Spec

-----------------------------------------------------------------------------
\* Every variable keeps its type: in particular the queue never outgrows its
\* capacity and the worker holds at most one element.
THEOREM TypeCorrect == Spec => []TypeOK
<1>1. IInv => TypeOK
  BY DEF IInv
<1>. QED BY <1>1, InvHolds, PTL

\* A relay in passthrough is quiet.
THEOREM PassthroughQuiet == Spec => []PassthroughIsQuiet
<1>1. IInv => PassthroughIsQuiet
  BY DEF IInv, OffOK, GateOK, NoPayload, PassthroughIsQuiet
<1>. QED BY <1>1, InvHolds, PTL

\* Nobody sends on the closed queue.
THEOREM ClosedQueueUnsent == Spec => []NoSendOnClosedQueue
<1>1. IInv => NoSendOnClosedQueue
  BY DEF IInv, ClosedOK, NoSendOnClosedQueue
<1>. QED BY <1>1, InvHolds, PTL

-----------------------------------------------------------------------------
(* The refinement.                                                         *)

LEMMA StepKeepsContract ==
  ASSUME IInv, [Next]_vars
  PROVE  [Contract!Next]_Contract!contractVars
<1>. USE DEF Contract!contractVars
<1>1. CASE UNCHANGED vars
  BY <1>1 DEF vars
<1>2. CASE PauseBegins
  <2>1. Contract!PauseDrains
    BY <1>2 DEF PauseBegins, Contract!PauseDrains
  <2>. QED BY <2>1 DEF Contract!Next
<1>3. CASE \E next \in {"stopGate", "closeGate"} : StopBegins(next)
  BY <1>3 DEF StopBegins, IInv, TypeOK
<1>4. CASE PausePassesGate \/ PauseSendsBarrier
  BY <1>4 DEF PausePassesGate, PauseSendsBarrier
<1>5. CASE PauseArrives \/ PauseTimesOut
  <2>1. Contract!PauseSettles
    BY <1>5 DEF PauseArrives, PauseTimesOut, Contract!PauseSettles
  <2>. QED BY <2>1 DEF Contract!Next
<1>6. CASE StopPassesGate
  <2>1. Contract!StopDrains
    BY <1>6 DEF StopPassesGate, Contract!StopDrains, IInv, TypeOK
  <2>. QED BY <2>1 DEF Contract!Next
<1>7. CASE StopEnds
  <2>1. Contract!StopSettles
    BY <1>7 DEF StopEnds, Contract!StopSettles, IInv, TypeOK
  <2>. QED BY <2>1 DEF Contract!Next
<1>8. CASE CloseClosesQueue \/ CloseReturns
  BY <1>8 DEF CloseClosesQueue, CloseReturns
<1>9. CASE ServeFails
  <2>1. Contract!Fails
    BY <1>9 DEF ServeFails, Contract!Fails
  <2>. QED BY <2>1 DEF Contract!Next
<1>10. CASE Consume
  BY <1>10 DEF Consume, WorkerReceives, WorkerRecords, WorkerReachesBarrier, WorkerEnds
<1>11. CASE \E t \in Payloads \cup Events : EntersGate(t) \/ LeavesGate(t)
  BY <1>11 DEF EntersGate, LeavesGate, PayloadArrives, PayloadEntersGate, PayloadLeavesGate,
     EventEntersGate, EventLeavesGate, RelayUntouched
<1>. QED BY <1>1, <1>2, <1>3, <1>4, <1>5, <1>6, <1>7, <1>8, <1>9, <1>10, <1>11
     DEF Next, Call, Operate

\* The relay implements what the Service counts on, with whatever locks, queue
\* and worker behind it.
THEOREM ContractKept == Spec => KeepsContract
<1>1. Init => Contract!Init
  BY DEF Init, Contract!Init
<1>2. IInv /\ [Next]_vars => [Contract!Next]_Contract!contractVars
  BY StepKeepsContract
<1>. QED BY <1>1, <1>2, InvHolds, PTL DEF Spec, KeepsContract, Contract!Spec

(***************************************************************************)
(* The log.                                                                *)
(***************************************************************************)
USE RingAssumption

-----------------------------------------------------------------------------
\* What the ring holds is its last RingSize observations at most; it drops
\* nothing before it is full.
RingOK ==
    /\ last \in Nat /\ evicted \in Nat
    /\ last - evicted <= RingSize
    /\ evicted > 0 => last = evicted + RingSize

Footers == [observations : Nat, gaps : Nat, dropped : Nat]
Logs == [status : {"none", "open", "closed"}, after : Nat, written : Nat, gaps : Nat,
         dropped : Nat, failed : BOOLEAN, file : Seq(Nat), completed : BOOLEAN,
         footer : Footers, by : {"nobody", "disable", "shutdown", "endRun"}]

Ascending(file) == \A i \in 1..Len(file) - 1 : file[i] < file[i + 1]
UpTo(file, bound) == \A i \in 1..Len(file) : file[i] <= bound

\* While no write has failed the counters describe the file, and no gap is
\* larger than what the ring dropped.
CountersOK(l) ==
    ~l.failed =>
        /\ Len(l.file) = l.written
        /\ l.written + l.gaps = l.after
        /\ l.gaps <= l.dropped /\ l.dropped <= evicted
        /\ Ascending(l.file)
        /\ UpTo(l.file, l.after)

LogOK ==
    /\ log \in Logs
    /\ log.after <= last
    /\ CountersOK(log)

\* A footer is written once, from the counters as they are then.
FooterOK ==
    log.completed =>
        /\ log.status = "closed" /\ ~log.failed
        /\ log.footer = [observations |-> log.written, gaps |-> log.gaps,
                         dropped |-> log.dropped]

\* The relay records nothing any more.
QuietForGood ==
    /\ ~recording /\ NoPayload
    /\ state # "capturing"
    /\ op \notin {"pauseGate", "pauseSend", "pauseWait"}

DisabledOK == log.completed /\ log.by = "disable" => log.after = last /\ QuietForGood

\* Close closes the queue before it returns.
ClosingOK ==
    closed => queueClosed \/ op \in {"closeGate", "closeShutdown", "closeQueue"}

LogInv ==
    IInv /\ RingOK /\ LogOK /\ FooterOK /\ DisabledOK /\ ClosingOK
-----------------------------------------------------------------------------
(* The ring.                                                               *)

\* Consecutive numbers, in order.
IsRun(items, first, n) ==
    items \in Seq(Nat) /\ Len(items) = n /\ \A i \in 1..n : items[i] = first + i

LEMMA RunFacts ==
  ASSUME NEW first \in Nat, NEW n \in Nat \ {0},
         NEW items, items = [i \in 1..n |-> first + i]
  PROVE  IsRun(items, first, n)
BY DEF IsRun

\* Where the writer is after a run: the last number it was handed.
Pending(first, n) ==
    /\ first + n = last
    /\ log.after <= first
    /\ first <= evicted \/ first = log.after

\* What the writer is handed starts behind what it has, or behind what the ring
\* dropped, and goes on without a hole to the last observation.
LEMMA SnapshotItems ==
  ASSUME RingOK, LogOK, Snapshot(log.after) # <<>>
  PROVE  \E first \in Nat, n \in Nat \ {0} :
           IsRun(Snapshot(log.after), first, n) /\ Pending(first, n)
<1>. DEFINE after == log.after
            first == IF after < evicted THEN evicted ELSE after
<1>1. last \in Nat /\ evicted \in Nat /\ after \in Nat /\ first \in Nat
  BY DEF RingOK, LogOK, Logs
<1>2. Snapshot(log.after) = [i \in 1..last - first |-> first + i]
  BY DEF Snapshot
<1>3. last - first > 0
  <2>1. ASSUME ~(last - first > 0) PROVE FALSE
    <3>1. 1..last - first = {}
      BY <1>1, <2>1
    <3>2. Snapshot(log.after) = <<>>
      BY <1>2, <3>1
    <3>. QED BY <3>2
  <2>. QED BY <1>1, <2>1
<1>4. last - first \in Nat \ {0} /\ first + (last - first) = last
  BY <1>1, <1>3
<1>5. IsRun(Snapshot(log.after), first, last - first)
  BY <1>1, <1>2, <1>4, RunFacts
<1>6. Pending(first, last - first)
  BY <1>1, <1>4 DEF Pending
<1>. QED BY <1>1, <1>4, <1>5, <1>6

\* An empty answer means that the writer has everything.
LEMMA NothingPending ==
  ASSUME RingOK, NEW after \in 0..last, Snapshot(after) = <<>>
  PROVE  after = last
<1>. DEFINE first == IF after < evicted THEN evicted ELSE after
<1>1. last \in Nat /\ evicted \in Nat /\ after \in Nat /\ first \in Nat
  BY DEF RingOK
<1>2. Snapshot(after) = [i \in 1..last - first |-> first + i]
  BY DEF Snapshot
<1>3. 1..last - first = {}
  BY <1>2
<1>4. ~(1 \in 1..last - first)
  BY <1>3
<1>5. last <= first
  BY <1>1, <1>4
<1>6. evicted < last \/ last = 0
  BY <1>1 DEF RingOK
<1>. QED BY <1>1, <1>5, <1>6

-----------------------------------------------------------------------------
(* The writer.                                                             *)

\* What appending a sequence does, position by position.
LEMMA Concatenated ==
  ASSUME NEW a \in Seq(Nat), NEW b \in Seq(Nat)
  PROVE  /\ a \o b \in Seq(Nat)
         /\ Len(a) \in Nat /\ Len(b) \in Nat /\ Len(a \o b) = Len(a) + Len(b)
         /\ \A i \in 1..Len(a) : a[i] \in Nat /\ (a \o b)[i] = a[i]
         /\ \A i \in 1..Len(b) : b[i] \in Nat /\ (a \o b)[Len(a) + i] = b[i]
OBVIOUS

\* A run of later numbers behind an ascending file.
LEMMA AppendedRun ==
  ASSUME NEW file \in Seq(Nat), NEW after \in Nat, NEW first \in Nat, NEW n \in Nat \ {0},
         NEW items, IsRun(items, first, n), after <= first, Ascending(file), UpTo(file, after)
  PROVE  /\ Len(file \o items) = Len(file) + n
         /\ Ascending(file \o items)
         /\ UpTo(file \o items, first + n)
<1>. DEFINE all == file \o items
            m == Len(file)
<1>1. /\ m \in Nat /\ Len(all) = m + n
      /\ \A i \in 1..m : file[i] \in Nat /\ all[i] = file[i]
      /\ \A i \in 1..n : all[m + i] = first + i
  BY Concatenated DEF IsRun
<1>2. /\ \A i \in 1..m - 1 : file[i] < file[i + 1]
      /\ \A i \in 1..m : file[i] <= after
  BY DEF Ascending, UpTo
<1>. HIDE DEF all, m
<1>3. ASSUME NEW i \in 1..m + n, i > m
      PROVE  all[i] = first + (i - m)
  <2>1. i - m \in 1..n /\ m + (i - m) = i
    BY <1>1, <1>3
  <2>. QED BY <1>1, <2>1
<1>4. ASSUME NEW i \in 1..m + n - 1 PROVE all[i] < all[i + 1]
  <2>0. i \in Nat /\ i \in 1..m + n /\ i + 1 \in 1..m + n
    BY <1>1
  <2>1. CASE i < m
    <3>1. i \in 1..m - 1 /\ i \in 1..m /\ i + 1 \in 1..m
      BY <1>1, <2>0, <2>1
    <3>. QED BY <1>1, <1>2, <3>1
  <2>2. CASE i = m
    <3>1. i \in 1..m /\ i + 1 > m /\ i + 1 - m = 1
      BY <1>1, <2>0, <2>2
    <3>2. all[i] <= after /\ all[i] \in Nat
      BY <1>1, <1>2, <3>1
    <3>3. all[i + 1] = first + (i + 1 - m)
      BY <1>1, <1>3, <2>0, <3>1
    <3>4. all[i + 1] = first + 1
      BY <3>1, <3>3
    <3>. QED BY <3>2, <3>4
  <2>3. CASE i > m
    <3>1. all[i] = first + (i - m) /\ all[i + 1] = first + (i + 1 - m)
      BY <1>1, <1>3, <2>0, <2>3
    <3>. QED BY <1>1, <2>0, <3>1
  <2>. QED BY <1>1, <2>0, <2>1, <2>2, <2>3
<1>5. ASSUME NEW i \in 1..m + n PROVE all[i] <= first + n
  <2>1. CASE i <= m
    <3>1. i \in 1..m
      BY <1>1, <2>1
    <3>2. all[i] <= after /\ all[i] \in Nat
      BY <1>1, <1>2, <3>1
    <3>. QED BY <3>2
  <2>2. CASE i > m
    BY <1>1, <1>3, <2>2
  <2>. QED BY <1>1, <2>1, <2>2
<1>6. Len(all) = m + n /\ Ascending(all) /\ UpTo(all, first + n)
  BY <1>1, <1>4, <1>5 DEF Ascending, UpTo
<1>7. Len(all) = Len(file) + n
  BY <1>6 DEF m
<1>. QED BY <1>6, <1>7 DEF all

\* The sums of a write.
LEMMA Sums ==
  ASSUME NEW written \in Nat, NEW gaps \in Nat, NEW dropped \in Nat, NEW after \in Nat,
         NEW first \in Nat, NEW n \in Nat \ {0}, NEW gone \in Nat,
         written + gaps = after, gaps <= dropped, dropped <= gone,
         after <= first, first <= gone \/ first = after
  PROVE  /\ (written + n) + (gaps + (first - after)) = first + n
         /\ gaps + (first - after) <= gone
OBVIOUS

\* What an append makes of the log, given the run of numbers it was handed.
Counts(next, items, first, n) ==
    /\ next \in Logs
    /\ next.status = log.status /\ next.completed = log.completed
    /\ \/ next.failed /\ next.after = log.after
       \/ /\ next.failed = log.failed /\ next.after = first + n
          /\ next.written = log.written + n
          /\ next.gaps = log.gaps + (first - log.after)
          /\ next.dropped = evicted /\ next.file = log.file \o items

LEMMA AppendedRecord ==
  ASSUME RingOK, LogOK,
         NEW items \in Exposed(log.after), items # <<>>, NEW outcome \in Outcomes,
         NEW next, next = Appended(log, items, outcome)
  PROVE  \E first \in Nat, n \in Nat \ {0} :
           IsRun(items, first, n) /\ Pending(first, n) /\ Counts(next, items, first, n)
<1>0. PICK first \in Nat, n \in Nat \ {0} : IsRun(items, first, n) /\ Pending(first, n)
  BY SnapshotItems DEF Exposed
<1>a. /\ items \in Seq(Nat) /\ Len(items) = n /\ items[1] = first + 1
      /\ items[n] = first + n
  BY <1>0 DEF IsRun
<1>1. /\ log.status \in {"none", "open", "closed"} /\ log.after \in Nat /\ log.written \in Nat
      /\ log.gaps \in Nat /\ log.dropped \in Nat /\ log.failed \in BOOLEAN /\ log.file \in Seq(Nat)
      /\ log.completed \in BOOLEAN /\ log.footer \in Footers
      /\ log.by \in {"nobody", "disable", "shutdown", "endRun"}
  BY DEF Logs, LogOK
<1>. DEFINE g == log.gaps + items[1] - log.after - 1
            f == log.file \o items
<1>2. g = log.gaps + (first - log.after) /\ g \in Nat
  <2>1. items[1] = first + 1 /\ log.gaps \in Nat /\ log.after \in Nat /\ log.after <= first
    BY <1>0, <1>a, <1>1 DEF Pending
  <2>. QED BY <2>1
<1>3. f \in Seq(Nat)
  BY <1>a, <1>1, Concatenated
<1>4. \/ next = [log EXCEPT !.gaps = g, !.after = first + n, !.written = log.written + n,
                          !.dropped = evicted, !.file = f]
      \/ next = [log EXCEPT !.gaps = g, !.failed = TRUE]
      \/ next = [log EXCEPT !.gaps = g, !.failed = TRUE, !.file = f]
  <2>1. CASE outcome = "written"
    BY <1>a, <2>1 DEF Appended, Logs, LogOK
  <2>2. CASE outcome = "lost"
    BY <1>a, <2>2 DEF Appended, Logs, LogOK
  <2>3. CASE outcome = "unsynced"
    BY <1>a, <2>3 DEF Appended, Logs, LogOK
  <2>. QED BY <2>1, <2>2, <2>3 DEF Outcomes
<1>5. first + n \in Nat /\ log.written + n \in Nat
  BY <1>1
<1>6. next \in Logs
  <2>1. evicted \in Nat
    BY DEF RingOK
  <2>. HIDE DEF g, f
  <2>. QED BY <2>1, <1>2, <1>3, <1>4, <1>5 DEF Logs, LogOK
<1>7. /\ next.status = log.status /\ next.completed = log.completed
      /\ \/ next.failed /\ next.after = log.after
         \/ /\ next.failed = log.failed /\ next.after = first + n
            /\ next.written = log.written + n
            /\ next.gaps = g /\ next.dropped = evicted /\ next.file = f
  <2>. HIDE DEF g, f
  <2>. QED BY <1>4 DEF Logs, LogOK
<1>8. Counts(next, items, first, n)
  BY <1>2, <1>6, <1>7 DEF Counts
<1>. QED BY <1>0, <1>8

\* An append keeps the counters in step with the file.
LEMMA AppendKeeps ==
  ASSUME RingOK, LogOK, NEW items \in Exposed(log.after), NEW outcome \in Outcomes,
         NEW next, next = Appended(log, items, outcome)
  PROVE  /\ next \in Logs
         /\ next.after <= last
         /\ CountersOK(next)
         /\ next.status = log.status /\ next.completed = log.completed
         /\ items # <<>> => next.failed \/ next.after = last
<1>0. /\ log \in Logs /\ log.after \in 0..last /\ log.after \in Nat /\ CountersOK(log)
      /\ last \in Nat /\ evicted \in Nat
      /\ log.file \in Seq(Nat) /\ log.written \in Nat /\ log.gaps \in Nat /\ log.dropped \in Nat
  BY DEF LogOK, Logs, RingOK
<1>1. CASE items = <<>>
  <2>1. next = log
    BY <1>1 DEF Appended
  <2>. QED BY <1>0, <1>1, <2>1
<1>2. CASE items # <<>>
  <2>1. PICK first \in Nat, n \in Nat \ {0} :
          IsRun(items, first, n) /\ Pending(first, n) /\ Counts(next, items, first, n)
    BY <1>2, AppendedRecord
  <2>2. first + n = last /\ log.after <= first /\ (first <= evicted \/ first = log.after)
    BY <2>1 DEF Pending
  <2>3. /\ next \in Logs
        /\ next.status = log.status /\ next.completed = log.completed
        /\ \/ next.failed /\ next.after = log.after
           \/ /\ next.failed = log.failed /\ next.after = first + n
              /\ next.written = log.written + n
              /\ next.gaps = log.gaps + (first - log.after)
              /\ next.dropped = evicted /\ next.file = log.file \o items
    BY <2>1 DEF Counts
  <2>4. next.after <= last
    BY <1>0, <2>2, <2>3
  <2>5. ASSUME ~next.failed
        PROVE  /\ Len(next.file) = next.written
               /\ next.written + next.gaps = next.after
               /\ next.gaps <= next.dropped /\ next.dropped <= evicted
               /\ Ascending(next.file) /\ UpTo(next.file, next.after)
    <3>1. /\ next.after = first + n /\ next.written = log.written + n
          /\ next.gaps = log.gaps + (first - log.after)
          /\ next.dropped = evicted /\ next.file = log.file \o items /\ ~log.failed
      BY <2>3, <2>5
    <3>2. /\ Len(log.file) = log.written /\ log.written + log.gaps = log.after
          /\ log.gaps <= log.dropped /\ log.dropped <= evicted
          /\ Ascending(log.file) /\ UpTo(log.file, log.after)
      BY <1>0, <3>1 DEF CountersOK
    <3>3. /\ Len(log.file \o items) = Len(log.file) + n
          /\ Ascending(log.file \o items) /\ UpTo(log.file \o items, first + n)
      BY <1>0, <2>1, <2>2, <3>2, AppendedRun
    <3>4. /\ (log.written + n) + (log.gaps + (first - log.after)) = first + n
          /\ log.gaps + (first - log.after) <= evicted
      <4>1. /\ log.written \in Nat /\ log.gaps \in Nat /\ log.dropped \in Nat
            /\ log.after \in Nat /\ evicted \in Nat
        BY <1>0
      <4>. QED BY ONLY <2>2, <3>2, <4>1, first \in Nat, n \in Nat \ {0}, Sums
    <3>5. Len(next.file) = next.written
      BY <3>1, <3>2, <3>3
    <3>6. next.written + next.gaps = next.after
      BY <3>1, <3>4
    <3>7. next.gaps <= next.dropped /\ next.dropped <= evicted
      BY <1>0, <3>1, <3>4
    <3>8. Ascending(next.file) /\ UpTo(next.file, next.after)
      BY <3>1, <3>3
    <3>. QED BY <3>5, <3>6, <3>7, <3>8
  <2>6. CountersOK(next)
    BY <2>5 DEF CountersOK
  <2>7. next.failed \/ next.after = last
    BY <2>2, <2>3
  <2>. QED BY <2>3, <2>4, <2>6, <2>7
<1>. QED BY <1>1, <1>2

-----------------------------------------------------------------------------
(* Each action keeps the invariant.                                        *)

LEMMA LogInitInv == LogInit => LogInv
<1>. SUFFICES ASSUME LogInit PROVE LogInv
  OBVIOUS
<1>1. IInv
  BY InitInv DEF LogInit
<1>2. RingOK /\ FooterOK /\ DisabledOK /\ ClosingOK
  BY DEF LogInit, Init, RingOK, FooterOK, DisabledOK, ClosingOK, NoLog
<1>3. NoLog \in Logs /\ NoLog.after = 0
  BY DEF NoLog, NoFooter, Logs, Footers
<1>4. CountersOK(NoLog)
  BY DEF LogInit, NoLog, CountersOK, Ascending, UpTo
<1>5. LogOK
  BY <1>3, <1>4 DEF LogInit, LogOK
<1>. QED BY <1>1, <1>2, <1>5 DEF LogInv

LEMMA RelaysAreSteps == RelaySteps \/ Recordings => Next
BY DEF RelaySteps, Recordings, Next, Consume, EntersGate, LeavesGate

\* Once quiet for good, the relay records nothing and stays so.
LEMMA QuietStays ==
  ASSUME IInv, QuietForGood, RelaySteps
  PROVE  QuietForGood'
<1>. USE DEF QuietForGood, NoPayload
<1>1. CASE Call
  BY <1>1 DEF Call, PauseBegins, StopBegins, work
<1>2. CASE Operate
  BY <1>2 DEF Operate, PausePassesGate, PauseSendsBarrier, PauseArrives, PauseTimesOut,
     StopPassesGate, StopEnds, CloseClosesQueue, CloseReturns, locks, work
<1>3. CASE ServeFails
  BY <1>3 DEF ServeFails, work
<1>4. CASE WorkerReceives
  <2>1. /\ queue \in Seq(Barriers \cup {Payload}) /\ queue # <<>>
        /\ taken' = <<Head(queue)>> /\ queue' = Tail(queue)
        /\ UNCHANGED <<state, recording, op>>
    BY <1>4 DEF WorkerReceives, IInv, TypeOK
  <2>2. Head(queue) # Payload /\ \A i \in 1..Len(queue') : queue'[i] # Payload
    BY <2>1
  <2>. QED BY <2>1, <2>2
<1>5. CASE WorkerReachesBarrier \/ WorkerEnds
  BY <1>5 DEF WorkerReachesBarrier, WorkerEnds
<1>6. ASSUME NEW t \in Payloads \cup Events, EntersGate(t) PROVE QuietForGood'
  BY <1>6 DEF EntersGate, PayloadArrives, PayloadEntersGate, EventEntersGate,
     RelayUntouched, work
<1>7. ASSUME NEW s \in Payloads, PayloadLeavesGate(s) PROVE QuietForGood'
  BY <1>7 DEF PayloadLeavesGate, RelayUntouched
<1>. QED BY <1>1, <1>2, <1>3, <1>4, <1>5, <1>6, <1>7 DEF RelaySteps

LEMMA QuietRecordsNothing ==
  ASSUME IInv, QuietForGood
  PROVE  ~Recordings
BY DEF IInv, GateOK, QuietForGood, NoPayload, Recordings, WorkerRecords, EventLeavesGate

LEMMA ClosingStays ==
  ASSUME ClosingOK, Next
  PROVE  ClosingOK'
<1>. USE DEF ClosingOK
<1>1. CASE Call
  BY <1>1 DEF Call, PauseBegins, StopBegins, work
<1>2. CASE Operate
  BY <1>2 DEF Operate, PausePassesGate, PauseSendsBarrier, PauseArrives, PauseTimesOut,
     StopPassesGate, StopEnds, CloseClosesQueue, CloseReturns, locks, work
<1>3. CASE ServeFails \/ Consume
  BY <1>3 DEF ServeFails, Consume, WorkerReceives, WorkerRecords, WorkerReachesBarrier,
     WorkerEnds, work
<1>4. ASSUME NEW t \in Payloads \cup Events, EntersGate(t) \/ LeavesGate(t)
      PROVE  ClosingOK'
  BY <1>4 DEF EntersGate, LeavesGate, PayloadArrives, PayloadEntersGate, PayloadLeavesGate,
     EventEntersGate, EventLeavesGate, RelayUntouched, work
<1>. QED BY <1>1, <1>2, <1>3, <1>4 DEF Next

LEMMA RelayKeeps ==
  ASSUME LogInv, RelaySteps, UNCHANGED logVars
  PROVE  LogInv'
<1>1. IInv' /\ ClosingOK'
  BY NextInv, ClosingStays, RelaysAreSteps DEF LogInv
<1>2. RingOK' /\ LogOK' /\ FooterOK'
  BY DEF LogInv, RingOK, LogOK, FooterOK, CountersOK, logVars
<1>3. DisabledOK'
  BY QuietStays DEF LogInv, DisabledOK, logVars
<1>. QED BY <1>1, <1>2, <1>3 DEF LogInv

LEMMA RecordingKeeps ==
  ASSUME LogInv, Recordings, RecordObservation
  PROVE  LogInv'
<1>1. IInv' /\ ClosingOK'
  BY NextInv, ClosingStays, RelaysAreSteps DEF LogInv
<1>2. RingOK' /\ last' \in Nat /\ evicted' \in Nat /\ last <= last' /\ evicted <= evicted'
  BY DEF LogInv, RingOK, RecordObservation
<1>3. CountersOK(log)'
  <2>1. log.dropped \in Nat /\ evicted \in Nat
    BY DEF LogInv, LogOK, Logs, RingOK
  <2>2. ~log.failed => log.dropped <= evicted'
    BY <1>2, <2>1 DEF LogInv, LogOK, CountersOK
  <2>. QED BY <2>2 DEF LogInv, LogOK, CountersOK, RecordObservation
<1>4. LogOK' /\ FooterOK'
  <2>1. log.after \in Nat /\ last \in Nat /\ log.after <= last'
    BY <1>2 DEF LogInv, LogOK, Logs, RingOK
  <2>. QED BY <1>3, <2>1 DEF LogInv, LogOK, FooterOK, RecordObservation
<1>5. DisabledOK'
  BY QuietRecordsNothing DEF LogInv, DisabledOK, RecordObservation
<1>. QED BY <1>1, <1>2, <1>4, <1>5 DEF LogInv

\* The writer's own steps leave the relay and the ring alone.
LEMMA WriterFrame ==
  ASSUME LogInv, UNCHANGED <<ringVars, vars>>
  PROVE  /\ IInv' /\ RingOK' /\ ClosingOK'
         /\ QuietForGood' <=> QuietForGood
<1>1. IInv'
  <2>1. [Next]_vars
    OBVIOUS
  <2>. QED BY <2>1, NextInv DEF LogInv
<1>. QED BY <1>1 DEF LogInv, RingOK, ClosingOK, QuietForGood, NoPayload, ringVars, vars

LEMMA LogStartsKeeps ==
  ASSUME LogInv, LogStarts
  PROVE  LogInv'
<1>1. IInv' /\ RingOK' /\ ClosingOK'
  BY WriterFrame DEF LogStarts
<1>2. OpenedLog \in Logs /\ OpenedLog.after = 0 /\ ~OpenedLog.completed
  <2>1. NoLog \in Logs
    BY DEF NoLog, NoFooter, Logs, Footers
  <2>2. OpenedLog \in Logs
    BY <2>1 DEF OpenedLog, Logs
  <2>. QED BY <2>2 DEF OpenedLog, NoLog
<1>3. CountersOK(OpenedLog)'
  BY DEF LogInv, RingOK, OpenedLog, NoLog, CountersOK, Ascending, UpTo, LogStarts, ringVars
<1>4. log' = OpenedLog /\ last' = last
  BY DEF LogStarts, ringVars
<1>5. LogOK'
  BY <1>1, <1>2, <1>3, <1>4 DEF LogOK, RingOK
<1>6. FooterOK' /\ DisabledOK'
  BY <1>2, <1>4 DEF FooterOK, DisabledOK
<1>. QED BY <1>1, <1>5, <1>6 DEF LogInv

LEMMA LogDrainsKeeps ==
  ASSUME LogInv, LogDrains
  PROVE  LogInv'
<1>1. IInv' /\ RingOK' /\ ClosingOK' /\ last' = last /\ evicted' = evicted
  BY WriterFrame DEF LogDrains, ringVars
<1>2. PICK items \in Exposed(log.after), outcome \in Outcomes :
        log' = Appended(log, items, outcome)
  BY DEF LogDrains
<1>3. /\ log' \in Logs /\ log'.after <= last /\ CountersOK(log')
      /\ log'.completed = log.completed
  BY <1>2, AppendKeeps DEF LogInv
<1>4. ~log.completed
  BY DEF LogInv, FooterOK, LogDrains
<1>5. LogOK'
  BY <1>1, <1>3 DEF LogOK, CountersOK
<1>6. FooterOK' /\ DisabledOK'
  BY <1>3, <1>4 DEF FooterOK, DisabledOK
<1>. QED BY <1>1, <1>5, <1>6 DEF LogInv

LEMMA LogClosesKeeps ==
  ASSUME LogInv, NEW by \in {"disable", "shutdown", "endRun"}, LogCloses(by)
  PROVE  LogInv'
<1>1. /\ IInv' /\ RingOK' /\ ClosingOK' /\ last' = last /\ evicted' = evicted
      /\ QuietForGood' <=> QuietForGood
  BY WriterFrame DEF LogCloses, ringVars
<1>2. PICK items \in Exposed(log.after), outcome \in Outcomes :
        log' = Closed(Appended(log, items, outcome), by)
  BY DEF LogCloses
<1>3. PICK drained : drained = Appended(log, items, outcome)
  OBVIOUS
<1>4. /\ drained \in Logs /\ drained.after <= last /\ CountersOK(drained)
      /\ items # <<>> => drained.failed \/ drained.after = last
  BY <1>3, AppendKeeps DEF LogInv
<1>5. log' = Closed(drained, by)
  BY <1>2, <1>3
<1>6. /\ log' \in Logs /\ log'.after = drained.after /\ log'.by = by
      /\ log'.status = "closed" /\ log'.failed = drained.failed
      /\ log'.file = drained.file /\ log'.written = drained.written
      /\ log'.gaps = drained.gaps /\ log'.dropped = drained.dropped
      /\ log'.completed => /\ ~drained.failed
                           /\ log'.footer = [observations |-> drained.written,
                                             gaps |-> drained.gaps,
                                             dropped |-> drained.dropped]
  BY <1>4, <1>5 DEF Closed, Logs, Footers, NoFooter
<1>7. LogOK'
  BY <1>1, <1>4, <1>6 DEF LogOK, CountersOK
<1>8. FooterOK'
  BY <1>6 DEF FooterOK
<1>9. DisabledOK'
  <2>. SUFFICES ASSUME log'.completed, by = "disable"
                PROVE  drained.after = last /\ QuietForGood
    BY <1>1, <1>6 DEF DisabledOK
  <2>1. op = "idle" /\ state = "passthrough"
    BY DEF LogCloses
  <2>2. QuietForGood
    BY <2>1 DEF LogInv, IInv, OffOK, QuietForGood
  <2>3. CASE items # <<>>
    BY <1>4, <1>6, <2>2, <2>3
  <2>4. CASE items = <<>>
    <3>1. drained = log
      BY <1>3, <2>4 DEF Appended
    <3>2. ~closed
      BY <2>1 DEF LogInv, IInv, ClosingOK, ClosedOK
    <3>3. Snapshot(log.after) = <<>>
      BY <2>4, <3>2 DEF Exposed
    <3>4. log.after \in 0..last
      BY DEF LogInv, LogOK, Logs, RingOK
    <3>. QED BY <2>2, <3>1, <3>3, <3>4, NothingPending DEF LogInv
  <2>. QED BY <2>3, <2>4
<1>. QED BY <1>1, <1>7, <1>8, <1>9 DEF LogInv

-----------------------------------------------------------------------------
\* The ring keeps at most RingSize observations, the counters of a log describe
\* its file for as long as no write failed, and a log closed by a Disable has
\* everything a relay that records nothing any more ever recorded.
THEOREM LogInvariant == LogSpec => []LogInv
<1>1. LogInv /\ [LogNext]_<<vars, logVars>> => LogInv'
  <2>. SUFFICES ASSUME LogInv, [LogNext]_<<vars, logVars>> PROVE LogInv'
    OBVIOUS
  <2>1. CASE UNCHANGED <<vars, logVars>>
    <3>1. IInv' /\ RingOK' /\ ClosingOK' /\ (QuietForGood' <=> QuietForGood)
      BY <2>1, WriterFrame DEF logVars, ringVars
    <3>2. LogOK' /\ FooterOK'
      BY <2>1 DEF LogInv, LogOK, FooterOK, CountersOK, logVars
    <3>3. DisabledOK'
      BY <2>1, <3>1 DEF LogInv, DisabledOK, logVars
    <3>. QED BY <3>1, <3>2, <3>3 DEF LogInv
  <2>2. CASE RelaySteps /\ UNCHANGED logVars
    BY <2>2, RelayKeeps
  <2>3. CASE Recordings /\ RecordObservation
    BY <2>3, RecordingKeeps
  <2>4. CASE LogStarts \/ LogDrains
    BY <2>4, LogStartsKeeps, LogDrainsKeeps
  <2>5. CASE \E by \in {"disable", "shutdown", "endRun"} : LogCloses(by)
    BY <2>5, LogClosesKeeps
  <2>. QED BY <2>1, <2>2, <2>3, <2>4, <2>5 DEF LogNext
<1>. QED BY <1>1, LogInitInv, PTL DEF LogSpec

\* A log that says it is completed accounts for what was observed.
THEOREM LogAccounts == LogSpec => []CompletedLogAccounts
<1>1. LogInv => CompletedLogAccounts
  <2>. SUFFICES ASSUME LogInv, log.completed PROVE CompletedLogAccounts
    BY DEF CompletedLogAccounts
  <2>1. /\ ~log.failed
        /\ log.footer.observations = log.written /\ log.footer.gaps = log.gaps
        /\ log.footer.dropped = log.dropped
    BY DEF LogInv, FooterOK
  <2>2. /\ Len(log.file) = log.written /\ log.written + log.gaps = log.after
        /\ log.gaps <= log.dropped /\ Ascending(log.file)
    BY <2>1 DEF LogInv, LogOK, CountersOK
  <2>. QED BY <2>1, <2>2 DEF CompletedLogAccounts, Ascending, LogInv, DisabledOK
<1>. QED BY <1>1, LogInvariant, PTL
=============================================================================
