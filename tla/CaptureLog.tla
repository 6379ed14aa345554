------------------------------ MODULE CaptureLog ------------------------------
(***************************************************************************)
(* The ring a capture relay records into                                   *)
(* (internal/service/trafficanalysis/observer.go) and the log the desktop  *)
(* app writes from it (desktop-app/traffic_autosave.go), beside the relay  *)
(* of CaptureProxy.  An observation is its sequence number.  The log is    *)
(* opened once an Enable succeeded and closed by StopTrafficAnalysis,      *)
(* after a Disable that paused the relay, by the shutdown of the app, or   *)
(* by the gateway's EndRun, at any moment and under the writer's own mutex.*)
(***************************************************************************)
EXTENDS CaptureProxy

CONSTANTS
    RingSize,         \* capacity of the ring
    MaxObservations   \* bound on the observations recorded

ASSUME RingAssumption == RingSize \in Nat \ {0} /\ MaxObservations \in Nat

VARIABLES
    last,     \* RingBuffer.next: the sequence number given last
    evicted,  \* RingBuffer.dropped
    log       \* the trafficLogWriter and its file

ringVars == <<last, evicted>>
logVars  == <<last, evicted, log>>

\* The file is a sequence of observations; its footer, once written, is what
\* it claims of them.
NoFooter == [observations |-> 0, gaps |-> 0, dropped |-> 0]
NoLog == [status |-> "none", after |-> 0, written |-> 0, gaps |-> 0, dropped |-> 0,
          failed |-> FALSE, file |-> <<>>, completed |-> FALSE, footer |-> NoFooter,
          by |-> "nobody"]

\* newTrafficLogWriter; the app goes on without a log when it fails.
OpenedLog == [NoLog EXCEPT !.status = "open"]

LogInit == Init /\ last = 0 /\ evicted = 0 /\ log = NoLog

-----------------------------------------------------------------------------
(* The ring.                                                               *)

\* Append numbers the observation and drops the oldest of a full ring.
RecordObservation ==
    /\ last < MaxObservations
    /\ last' = last + 1
    /\ evicted' = IF last - evicted = RingSize THEN evicted + 1 ELSE evicted
    /\ UNCHANGED log

\* Snapshot: what the ring still holds after a sequence number, in order.
Snapshot(after) ==
    LET first == IF after < evicted THEN evicted ELSE after
    IN  [i \in 1..last - first |-> first + i]

\* What Service.Observations answers: once Close returned, the Service may have
\* released the relay, and then it answers nothing.
Exposed(after) ==
    {Snapshot(after)} \cup (IF closed /\ op = "idle" THEN {<<>>} ELSE {})

-----------------------------------------------------------------------------
(* The writer.                                                             *)

\* Mutant: the gap is not counted.
AppendedSilently(l, items, outcome) ==
    IF items = <<>> \/ outcome # "written" THEN l
    ELSE [l EXCEPT !.after = items[Len(items)], !.written = @ + Len(items),
                   !.dropped = evicted, !.file = @ \o items]

\* appendLocked.  A gap is counted before the write it belongs to; a write may
\* fail before or after its bytes reach the file.
Appended(l, items, outcome) ==
    LET counted == [l EXCEPT !.gaps = @ + items[1] - l.after - 1]
    IN  IF items = <<>> THEN l
        ELSE CASE outcome = "written" ->
                    [counted EXCEPT !.after = items[Len(items)],
                                    !.written = @ + Len(items),
                                    !.dropped = evicted, !.file = @ \o items]
               [] outcome = "lost" -> [counted EXCEPT !.failed = TRUE]
               [] outcome = "unsynced" ->
                    [counted EXCEPT !.failed = TRUE, !.file = @ \o items]

Outcomes == {"written", "lost", "unsynced"}

\* startTrafficAutosaveLocked after a successful Enable.
LogStarts ==
    /\ log.status = "none"
    /\ op = "idle" /\ state = "capturing" /\ recording
    /\ log' = OpenedLog
    /\ UNCHANGED <<ringVars, vars>>

\* A tick of poll, or an export (copyTo), which drains the same way first.
LogDrains ==
    /\ log.status = "open" /\ ~log.failed
    /\ \E items \in Exposed(log.after), outcome \in Outcomes :
        log' = Appended(log, items, outcome)
    /\ UNCHANGED <<ringVars, vars>>

\* Close drains once more, even when an earlier append failed.
Closed(drained, by) ==
    LET footer == ~drained.failed /\ by # "endRun" IN
    [drained EXCEPT
        !.status = "closed", !.by = by,
        !.completed = footer,
        !.footer = IF footer
                   THEN [observations |-> drained.written, gaps |-> drained.gaps,
                         dropped |-> drained.dropped]
                   ELSE NoFooter]

LogCloses(by) ==
    /\ log.status = "open"
    /\ by = "disable" => op = "idle" /\ state = "passthrough"
    /\ by = "shutdown" => op = "idle"
    /\ \E items \in Exposed(log.after), outcome \in Outcomes :
        log' = Closed(Appended(log, items, outcome), by)
    /\ UNCHANGED <<ringVars, vars>>

-----------------------------------------------------------------------------
\* The relay's steps; those that record put the observation into the ring.
RelaySteps ==
    \/ Call \/ Operate \/ ServeFails
    \/ WorkerReceives \/ WorkerReachesBarrier \/ WorkerEnds
    \/ \E t \in Payloads \cup Events : EntersGate(t)
    \/ \E s \in Payloads : PayloadLeavesGate(s)

Recordings == WorkerRecords \/ \E e \in Events : EventLeavesGate(e)

LogNext ==
    \/ RelaySteps /\ UNCHANGED logVars
    \/ Recordings /\ RecordObservation
    \/ LogStarts \/ LogDrains
    \/ \E by \in {"disable", "shutdown", "endRun"} : LogCloses(by)

LogSpec == LogInit /\ [][LogNext]_<<vars, logVars>>

-----------------------------------------------------------------------------
\* A log that says "Status: completed" tells the truth about the capture: its
\* lines are in order and without repetition, their number and that of the
\* gaps in the footer add up to the observations made so far, no gap is larger
\* than what the ring dropped, and when the log was closed by a Disable nothing
\* recorded is missing otherwise: the pause drained the relay first.
CompletedLogAccounts ==
    log.completed =>
        /\ \A i \in 1..Len(log.file) - 1 : log.file[i] < log.file[i + 1]
        /\ log.footer.observations = Len(log.file)
        /\ log.footer.observations + log.footer.gaps = log.after
        /\ log.footer.gaps <= log.footer.dropped
        /\ log.by = "disable" => log.after = last
=============================================================================
