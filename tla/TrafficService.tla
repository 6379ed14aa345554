--------------------------- MODULE TrafficService ---------------------------
(***************************************************************************)
(* The traffic analysis Service (internal/service/trafficanalysis/         *)
(* service.go): at most one capture relay, the control domain ("mode")     *)
(* that says who may touch it, and the operations that claim, release,     *)
(* start, pause, stop and close it.                                        *)
(*                                                                         *)
(* Every public method takes the Service mutex, decides, releases it       *)
(* around the blocking relay call, and takes it again to commit.  A call   *)
(* is therefore a record in `call` that moves through stages, and each     *)
(* action below is one critical section of the Service (or of the relay it *)
(* calls).  A method that only waits for another call (`<-op.done`) and    *)
(* retries is an action that is not enabled yet.                           *)
(***************************************************************************)
EXTENDS Integers, GatewayRuns

CONSTANTS
    Callers,    \* goroutines that may be inside a Service method
    Owners,     \* desktop transaction ids
    NoOwner,    \* the empty desktop owner
    NoCaller,   \* "no operation registered"
    MaxStarts   \* bound on StartCapture reservations (startSeq)

ASSUME OwnerAssumption  == NoOwner \notin Owners
ASSUME CallerAssumption == NoCaller \notin Callers
ASSUME StartsAssumption == MaxStarts \in Nat

(***************************************************************************)
(* A relay is named by the reservation (startSeq) of the StartCapture that *)
(* built it; NoRelay is the nil proxy pointer.                             *)
(***************************************************************************)
NoRelay == 0
Relays == 1..MaxStarts

\* `run` is the instance id stamped on every request the relay forwards,
\* `serving` says that its listener accepts, `server` that its http.Server is
\* still referenced, `closed` that Close has been called on it.
Relay == [state   : {"stopped", "capturing", "draining", "passthrough", "failed"},
          serving : BOOLEAN,
          server  : BOOLEAN,
          closed  : BOOLEAN,
          run     : Runs \cup {NoRun}]

FreshRelay == [state |-> "stopped", serving |-> FALSE, server |-> FALSE,
               closed |-> FALSE, run |-> NoRun]

\* `relay` of a mapping is history: the relay that was committed when the
\* mapping was registered.  `via` is history too: the relay the request that
\* bound the source model came through.
Mapping == [gen : Nat, run : Runs, owner : Owners, bound : BOOLEAN,
            relay : Relays, via : Relays \cup {NoRelay}]
NoMapping == [gen |-> 0]

Ops == {"none", "start", "close", "pause", "stop", "clear",
        "pauseDesktop", "gatewayEnd"}
Stages == {"idle", "build", "commit", "discard",   \* StartCapture
           "reserved", "draining", "settled",      \* relay mutation
           "entered", "joining"}                   \* MarkGatewayLost
Call == [op : Ops, stage : Stages, relay : Relays \cup {NoRelay},
         gen : Nat, run : Runs \cup {NoRun}, owner : Owners \cup {NoOwner},
         ok : BOOLEAN, abnormal : BOOLEAN]
Idle == [op |-> "none", stage |-> "idle", relay |-> NoRelay, gen |-> 0,
         run |-> NoRun, owner |-> NoOwner, ok |-> TRUE, abnormal |-> FALSE]

Modes == {"idle", "capture_only", "desktop", "recovery"}

VARIABLES
    proxy,        \* s.proxy: the committed relay
    generation,   \* s.generation
    mode,         \* s.mode
    gatewayId,    \* s.gatewayID and s.gatewayAddr
    owner,        \* s.desktopOwnerID
    mapping,      \* s.modelMapping
    startSeq,     \* s.startSeq
    activeStart,  \* s.activeStartID
    activeOp,     \* s.activeOp: the caller whose mutation is registered
    closeOp,      \* s.closeOp: the caller whose close is registered
    relay,        \* the relays, built or not
    call          \* what each caller is in the middle of

domain  == <<mode, gatewayId, owner>>
tokens  == <<activeStart, activeOp, closeOp>>
vars == <<proxy, generation, mode, gatewayId, owner, mapping, startSeq,
          activeStart, activeOp, closeOp, relay, call>>

TypeOK ==
    /\ proxy \in Relays \cup {NoRelay}
    /\ generation \in Nat
    /\ mode \in Modes
    /\ gatewayId \in Runs \cup {NoRun}
    /\ owner \in Owners \cup {NoOwner}
    /\ mapping \in Mapping \cup {NoMapping}
    /\ startSeq \in 0..MaxStarts
    /\ activeStart \in Relays \cup {NoRelay}
    /\ activeOp \in Callers \cup {NoCaller}
    /\ closeOp \in Callers \cup {NoCaller}
    /\ relay \in [Relays -> Relay]
    /\ call \in [Callers -> Call]

Init ==
    /\ proxy = NoRelay
    /\ generation = 0
    /\ mode = "idle"
    /\ gatewayId = NoRun
    /\ owner = NoOwner
    /\ mapping = NoMapping
    /\ startSeq = 0
    /\ activeStart = NoRelay
    /\ activeOp = NoCaller
    /\ closeOp = NoCaller
    /\ relay = [r \in Relays |-> FreshRelay]
    /\ call = [c \in Callers |-> Idle]

-----------------------------------------------------------------------------
(* Shared conditions.                                                      *)

IsCapturing(r) == r # NoRelay /\ relay[r].state = "capturing"

\* Mutant: a registered mutation is not waited for.
NoClose == closeOp = NoCaller

\* Neither a mutation nor a close is registered.
NoOperation == closeOp = NoCaller /\ activeOp = NoCaller

\* And no start is reserved.
Quiet == activeStart = NoRelay /\ NoOperation

\* Mutant: an unconfirmed recovery does not keep the management surface out.
NotDesktop == mode # "desktop"

\* The external management surface may act: neither the desktop nor an
\* unconfirmed recovery owns the capture.
OpenMode == mode \in {"idle", "capture_only"}

Finish(c) == call' = [call EXCEPT ![c] = Idle]

\* What a call keeps in its locals across the blocking relay call.
Begin(c, op, stage, r, abnormal) ==
    call' = [call EXCEPT ![c] =
              [op |-> op, stage |-> stage, relay |-> r, gen |-> generation,
               run |-> gatewayId, owner |-> owner, ok |-> TRUE,
               abnormal |-> abnormal]]

\* The relay call returned.
Settle(c, ok) == call' = [call EXCEPT ![c].stage = "settled", ![c].ok = ok]

\* reserveProxyOperationLocked: the token captures relay, generation, owner.
Reserve(c, op, stage, abnormal) ==
    /\ activeOp' = c
    /\ Begin(c, op, stage, proxy, abnormal)

\* A relay after Shutdown: its listener is gone.
Down(r, ok, closed) ==
    [state |-> IF ok THEN "stopped" ELSE "failed", serving |-> FALSE,
     server |-> FALSE, closed |-> closed, run |-> relay[r].run]

\* ownsProxyOperationLocked
OwnsOperation(c) ==
    /\ activeOp = c
    /\ proxy = call[c].relay
    /\ generation = call[c].gen
    /\ owner = call[c].owner

\* finishProxyOperationLocked, with the caller's return.
FinishOperation(c) ==
    /\ activeOp' = IF activeOp = c THEN NoCaller ELSE activeOp
    /\ Finish(c)

-----------------------------------------------------------------------------
(* StartCapture: reserve under the lock, build and bind outside it, commit *)
(* or discard.  startSeq also counts rejected attempts in the code; ids are *)
(* only compared for equality, so the gaps are left out.                   *)

\* Releases a relay stopped by StopCapture, or starts from nothing.  The stopped
\* relay is closed after the mutex is released; nothing refers to it any more
\* by then, so its Close is part of this step.
StartReserve(c) ==
    LET id == startSeq + 1 IN
    /\ call[c].stage = "idle"
    /\ startSeq < MaxStarts
    /\ NoOperation
    /\ OpenMode
    /\ gatewayId # NoRun
    /\ \/ /\ proxy # NoRelay
          /\ relay[proxy].state = "stopped"
          /\ mapping' = NoMapping
          /\ relay' = [relay EXCEPT ![proxy].closed = TRUE]
       \/ /\ proxy = NoRelay
          /\ activeStart = NoRelay
          /\ UNCHANGED <<mapping, relay>>
    /\ proxy' = NoRelay
    /\ startSeq' = id
    /\ activeStart' = id
    /\ Begin(c, "start", "build", id, FALSE)
    /\ UNCHANGED <<generation, domain, activeOp, closeOp>>

\* newProxy and proxy.Start: the listener binds, or the port is taken.
StartBuild(c, bound) ==
    /\ call[c].op = "start" /\ call[c].stage = "build"
    /\ relay' = [relay EXCEPT ![call[c].relay] =
                  [state |-> IF bound THEN "capturing" ELSE "failed",
                   serving |-> bound, server |-> bound, closed |-> FALSE,
                   run |-> call[c].run]]
    /\ call' = [call EXCEPT ![c].stage = "commit", ![c].ok = bound]
    /\ UNCHANGED <<proxy, generation, domain, mapping, startSeq, tokens>>

OwnsReservation(c) == activeStart = call[c].relay

\* Mutant: a gateway rebound during the start goes unnoticed.
StartGateIgnoresRebind(c) ==
    /\ OwnsReservation(c)
    /\ generation = call[c].gen
    /\ proxy = NoRelay
    /\ call[c].ok

StartGate(c) ==
    /\ OwnsReservation(c)
    /\ generation = call[c].gen
    /\ proxy = NoRelay
    /\ gatewayId = call[c].run
    /\ call[c].ok

\* Mutant: the mapping of the previous relay survives the commit.
StartCommitKeepsMapping(c) ==
    /\ call[c].op = "start" /\ call[c].stage = "commit"
    /\ StartGate(c)
    /\ activeStart' = NoRelay
    /\ proxy' = call[c].relay
    /\ generation' = generation + 1
    /\ mode' = "capture_only"
    /\ Finish(c)
    /\ UNCHANGED <<mapping, gatewayId, owner, startSeq, activeOp, closeOp, relay>>

StartCommit(c) ==
    /\ call[c].op = "start" /\ call[c].stage = "commit"
    /\ StartGate(c)
    /\ activeStart' = NoRelay
    /\ proxy' = call[c].relay
    /\ generation' = generation + 1
    /\ mapping' = NoMapping
    /\ mode' = "capture_only"
    /\ Finish(c)
    /\ UNCHANGED <<gatewayId, owner, startSeq, activeOp, closeOp, relay>>

\* Superseded, rebound meanwhile, or the bind failed.
StartReject(c) ==
    /\ call[c].op = "start" /\ call[c].stage = "commit"
    /\ ~StartGate(c)
    /\ activeStart' = IF OwnsReservation(c) THEN NoRelay ELSE activeStart
    /\ call' = [call EXCEPT ![c].stage = "discard"]
    /\ UNCHANGED <<proxy, generation, domain, mapping, startSeq, activeOp,
                   closeOp, relay>>

\* proxy.Close on the relay that was not committed; its error is ignored.
StartDiscard(c, ok) ==
    LET r == call[c].relay IN
    /\ call[c].op = "start" /\ call[c].stage = "discard"
    /\ ~relay[r].server => ok
    /\ relay' = [relay EXCEPT ![r] = Down(r, ok, TRUE)]
    /\ Finish(c)
    /\ UNCHANGED <<proxy, generation, domain, mapping, startSeq, tokens>>

-----------------------------------------------------------------------------
(* The relay's own steps while an operation waits for it (capture.go).     *)

PauseLike(c) == \/ call[c].op \in {"pause", "pauseDesktop"}
                \/ call[c].op = "gatewayEnd" /\ call[c].abnormal
StopLike(c)  == \/ call[c].op \in {"stop", "close"}
                \/ call[c].op = "gatewayEnd" /\ ~call[c].abnormal

RelayUnchanged == UNCHANGED <<proxy, generation, domain, mapping, startSeq, tokens>>

\* First critical section of CaptureProxy.Pause: nothing to drain, ...
PauseAtOnce(c) ==
    LET r == call[c].relay IN
    /\ call[c].stage = "reserved" /\ PauseLike(c)
    /\ relay[r].state \in {"passthrough", "stopped", "failed"}
    /\ Settle(c, relay[r].state # "failed")
    /\ UNCHANGED relay
    /\ RelayUnchanged

\* ... or a recorder to be drained.
PauseDrains(c) ==
    LET r == call[c].relay IN
    /\ call[c].stage = "reserved" /\ PauseLike(c)
    /\ relay[r].state = "capturing"
    /\ relay' = [relay EXCEPT ![r].state = "draining"]
    /\ call' = [call EXCEPT ![c].stage = "draining"]
    /\ RelayUnchanged

\* Second one: the barrier came back, or the five second drain timed out.
PauseSettles(c, ok) ==
    /\ call[c].stage = "draining" /\ PauseLike(c)
    /\ relay' = [relay EXCEPT ![call[c].relay].state =
                  IF ok THEN "passthrough" ELSE "capturing"]
    /\ Settle(c, ok)
    /\ RelayUnchanged

\* Close of a relay that was closed before returns nil at once.
CloseAgain(c) ==
    /\ call[c].stage = "reserved" /\ call[c].op = "close"
    /\ relay[call[c].relay].closed
    /\ Settle(c, TRUE)
    /\ UNCHANGED relay
    /\ RelayUnchanged

\* First critical section of CaptureProxy.Stop, and of Close, which calls it.
StopDrains(c) ==
    LET r == call[c].relay IN
    /\ call[c].stage = "reserved" /\ StopLike(c)
    /\ call[c].op = "close" => ~relay[r].closed
    /\ relay' = [relay EXCEPT ![r].state = "draining",
                             ![r].closed = @ \/ call[c].op = "close"]
    /\ call' = [call EXCEPT ![c].stage = "draining"]
    /\ RelayUnchanged

\* Shutdown returned.  It always closes the listener; it fails when its
\* context ends before the connections do.
StopSettles(c, ok) ==
    LET r == call[c].relay IN
    /\ call[c].stage = "draining" /\ StopLike(c)
    /\ ~relay[r].server => ok
    /\ relay' = [relay EXCEPT ![r] = Down(r, ok, relay[r].closed)]
    /\ Settle(c, ok)
    /\ RelayUnchanged

\* The Serve goroutine returned an error: the listener is gone.
RelayFails(r) ==
    /\ relay[r].serving
    /\ relay' = [relay EXCEPT ![r].state = "failed", ![r].serving = FALSE]
    /\ UNCHANGED call
    /\ RelayUnchanged

-----------------------------------------------------------------------------
(* CloseCapture.                                                           *)

\* Nothing is committed: cancel a start in flight and forget the gateway.
CloseReservation(c) ==
    /\ call[c].stage = "idle"
    /\ NoOperation
    /\ OpenMode
    /\ proxy = NoRelay
    /\ IF activeStart # NoRelay
       THEN /\ activeStart' = NoRelay
            /\ generation' = generation + 1
            /\ mapping' = NoMapping
       ELSE UNCHANGED <<activeStart, generation, mapping>>
    /\ gatewayId' = NoRun
    /\ UNCHANGED <<proxy, mode, owner, startSeq, activeOp, closeOp, relay, call>>

CloseBegin(c) ==
    /\ call[c].stage = "idle"
    /\ NoOperation
    /\ OpenMode
    /\ proxy # NoRelay
    /\ closeOp' = c
    /\ mapping' = NoMapping
    /\ Begin(c, "close", "reserved", proxy, FALSE)
    /\ UNCHANGED <<proxy, generation, domain, startSeq, activeStart, activeOp,
                   relay>>

\* The relay this close began with is still the committed one.
CloseStillOwns(c) == proxy = call[c].relay /\ generation = call[c].gen

\* Mutant: the EndRun calls that joined are not woken.
CloseFinishLosesWakeup(c) == closeOp' = NoCaller /\ Finish(c)

\* close(op.done): the closer returns, and so do the EndRun calls that joined.
CloseFinish(c) ==
    /\ closeOp' = NoCaller
    /\ call' = [x \in Callers |->
                 IF x = c \/ call[x].stage = "joining" THEN Idle ELSE call[x]]

CloseCommit(c) ==
    /\ call[c].op = "close" /\ call[c].stage = "settled"
    /\ IF call[c].ok /\ CloseStillOwns(c)
       THEN /\ proxy' = NoRelay
            /\ generation' = generation + 1
            /\ mapping' = NoMapping
            /\ activeStart' = NoRelay
            /\ mode' = "idle"
            /\ gatewayId' = NoRun
       ELSE /\ mode' = "recovery"
            /\ UNCHANGED <<proxy, generation, mapping, activeStart, gatewayId>>
    /\ CloseFinish(c)
    /\ UNCHANGED <<owner, startSeq, activeOp, relay>>

-----------------------------------------------------------------------------
(* PauseCapture, StopCapture and Clear: runProxyMutation.                  *)

\* Clear takes the token too, but nothing of the relay's state is at stake.
MutationBegin(c, op) ==
    /\ op \in {"pause", "stop", "clear"}
    /\ call[c].stage = "idle"
    /\ NoOperation
    /\ OpenMode
    /\ proxy # NoRelay
    /\ Reserve(c, op, IF op = "clear" THEN "settled" ELSE "reserved", FALSE)
    /\ UNCHANGED <<proxy, generation, domain, mapping, startSeq, activeStart,
                   closeOp, relay>>

\* Mutant: any failed mutation drops the relay, whether or not it is dead.
MutationEndDropsOnError(c) ==
    /\ call[c].op \in {"pause", "stop", "clear"} /\ call[c].stage = "settled"
    /\ proxy' = IF OwnsOperation(c) /\ ~call[c].ok THEN NoRelay ELSE proxy
    /\ FinishOperation(c)
    /\ UNCHANGED <<generation, domain, mapping, startSeq, activeStart, closeOp,
                   relay>>

\* A relay that failed under its own operation is dropped, to be replaced.
MutationEnd(c) ==
    /\ call[c].op \in {"pause", "stop", "clear"} /\ call[c].stage = "settled"
    /\ proxy' = IF /\ OwnsOperation(c)
                   /\ ~call[c].ok
                   /\ relay[call[c].relay].state = "failed"
                THEN NoRelay ELSE proxy
    /\ FinishOperation(c)
    /\ UNCHANGED <<generation, domain, mapping, startSeq, activeStart, closeOp,
                   relay>>

-----------------------------------------------------------------------------
(* Desktop ownership: compare-and-swap on generation, gateway and owner.   *)

\* ClaimDesktopExpected
ClaimDesktop(gen, run, o) ==
    /\ Quiet
    /\ mode = "capture_only"
    /\ gen = generation /\ run = gatewayId
    /\ IsCapturing(proxy)
    /\ mode' = "desktop"
    /\ owner' = o
    /\ UNCHANGED <<proxy, generation, gatewayId, mapping, startSeq, tokens,
                   relay, call>>

\* ReleaseDesktopExpected
ReleaseDesktop(gen, o) ==
    /\ Quiet
    /\ mode = "desktop"
    /\ owner = o
    /\ gen = generation
    /\ proxy # NoRelay
    /\ mode' = "capture_only"
    /\ owner' = NoOwner
    /\ UNCHANGED <<proxy, generation, gatewayId, mapping, startSeq, tokens,
                   relay, call>>

\* PauseDesktopExpected; a relay already in passthrough is a success at once.
PauseDesktopBegin(c, gen, run, o) ==
    /\ call[c].stage = "idle"
    /\ Quiet
    /\ mode = "desktop"
    /\ owner = o
    /\ gen = generation /\ run = gatewayId
    /\ IsCapturing(proxy)
    /\ Reserve(c, "pauseDesktop", "reserved", FALSE)
    /\ UNCHANGED <<proxy, generation, domain, mapping, startSeq, activeStart,
                   closeOp, relay>>

PauseDesktopEnd(c) ==
    /\ call[c].op = "pauseDesktop" /\ call[c].stage = "settled"
    /\ mode' = IF OwnsOperation(c) /\ ~call[c].ok THEN "recovery" ELSE mode
    /\ FinishOperation(c)
    /\ UNCHANGED <<proxy, generation, gatewayId, owner, mapping, startSeq,
                   activeStart, closeOp, relay>>

-----------------------------------------------------------------------------
(* Model mapping: which route the model of a relayed request resolves to.  *)

\* SetDesktopModelMappingExpected; declaring the same mapping again is a no-op.
SetMapping(gen, run, o) ==
    /\ Quiet
    /\ mode = "desktop"
    /\ owner = o
    /\ gen = generation /\ run = gatewayId
    /\ IsCapturing(proxy)
    /\ mapping = NoMapping
    /\ mapping' = [gen |-> gen, run |-> run, owner |-> o, bound |-> FALSE,
                   relay |-> proxy, via |-> NoRelay]
    /\ UNCHANGED <<proxy, generation, domain, startSeq, tokens, relay, call>>

\* ClearDesktopModelMappingExpected: only the evidence it was registered with.
ClearMapping(gen, run, o) ==
    /\ mapping # NoMapping
    /\ mapping.gen = gen /\ mapping.run = run /\ mapping.owner = o
    /\ mapping' = NoMapping
    /\ UNCHANGED <<proxy, generation, domain, startSeq, tokens, relay, call>>

\* The marker header of a request that came through relay `via`, or straight
\* to the gateway (NoRelay) with no marker.
Marker(via) == IF via = NoRelay THEN NoRun ELSE relay[via].run

\* Requests can still be in flight through every relay that ever served.
Conduits == {r \in Relays : relay[r].run # NoRun /\ r <= startSeq}

\* ObservedModelFor: the first request proven to have crossed the relay binds
\* the source model.
BindSource(via) ==
    /\ mapping # NoMapping
    /\ ~mapping.bound
    /\ Marker(via) = gatewayId
    /\ mode = "desktop"
    /\ owner = mapping.owner
    /\ generation = mapping.gen
    /\ gatewayId = mapping.run
    /\ IsCapturing(proxy)
    /\ mapping' = [mapping EXCEPT !.bound = TRUE, !.via = via]
    /\ UNCHANGED <<proxy, generation, domain, startSeq, tokens, relay, call>>

\* mappingExactMatchLocked: a request for the bound source model is routed to
\* the mapping's target.
Resolves ==
    /\ mapping # NoMapping
    /\ mapping.bound
    /\ mapping.gen = generation
    /\ mapping.run = gatewayId
    /\ proxy # NoRelay
    /\ \/ /\ mode = "desktop"
          /\ owner = mapping.owner
          /\ relay[proxy].state \in {"capturing", "passthrough"}
       \/ /\ mode = "capture_only"
          /\ relay[proxy].state = "passthrough"

-----------------------------------------------------------------------------
(* Gateway lifecycle and recovery.                                         *)

\* Mutant: a committed relay can be rebound.
BindOverRelay(run) ==
    /\ closeOp = NoCaller
    /\ gatewayId' = run
    /\ UNCHANGED <<proxy, generation, mode, owner, mapping, startSeq, tokens,
                   relay, call>>

\* BindGatewayRun: refused while a relay of another run is committed.
BindGatewayRun(run) ==
    /\ closeOp = NoCaller
    /\ proxy = NoRelay
    /\ gatewayId' = run
    /\ UNCHANGED <<proxy, generation, mode, owner, mapping, startSeq, tokens,
                   relay, call>>

\* A call of MarkGatewayLost, before it first sees the Service mutex.
LostEnter(c, run, abnormal) ==
    /\ call[c].stage = "idle"
    /\ call' = [call EXCEPT ![c] =
                 [op |-> "gatewayEnd", stage |-> "entered", relay |-> NoRelay,
                  gen |-> 0, run |-> run, owner |-> NoOwner, ok |-> TRUE,
                  abnormal |-> abnormal]]
    /\ UNCHANGED <<proxy, generation, domain, mapping, startSeq, tokens, relay>>

LostEntered(c) == call[c].op = "gatewayEnd" /\ call[c].stage = "entered"

\* A close owns the relay: wait for it and do nothing more.
LostJoinsClose(c) ==
    /\ LostEntered(c)
    /\ closeOp # NoCaller
    /\ call' = [call EXCEPT ![c].stage = "joining"]
    /\ UNCHANGED <<proxy, generation, domain, mapping, startSeq, tokens, relay>>

LostStale(c) ==
    /\ LostEntered(c)
    /\ NoOperation
    /\ call[c].run # gatewayId
    /\ Finish(c)
    /\ UNCHANGED <<proxy, generation, domain, mapping, startSeq, tokens, relay>>

LostWithoutRelay(c) ==
    /\ LostEntered(c)
    /\ NoOperation
    /\ call[c].run = gatewayId
    /\ proxy = NoRelay
    /\ mapping' = NoMapping
    /\ mode' = IF call[c].abnormal THEN "recovery" ELSE "idle"
    /\ gatewayId' = IF call[c].abnormal THEN gatewayId ELSE NoRun
    /\ Finish(c)
    /\ UNCHANGED <<proxy, generation, owner, startSeq, tokens, relay>>

LostBegin(c) ==
    /\ LostEntered(c)
    /\ NoOperation
    /\ call[c].run = gatewayId
    /\ proxy # NoRelay
    /\ mapping' = NoMapping
    /\ mode' = IF call[c].abnormal THEN "recovery" ELSE mode
    /\ Reserve(c, "gatewayEnd", "reserved", call[c].abnormal)
    /\ UNCHANGED <<proxy, generation, gatewayId, owner, startSeq, activeStart,
                   closeOp, relay>>

LostEnd(c) ==
    /\ call[c].op = "gatewayEnd" /\ call[c].stage = "settled"
    /\ IF OwnsOperation(c) /\ ~call[c].abnormal
       THEN IF call[c].ok
            THEN mode' = "idle" /\ gatewayId' = NoRun
            ELSE mode' = "recovery" /\ UNCHANGED gatewayId
       ELSE UNCHANGED <<mode, gatewayId>>
    /\ FinishOperation(c)
    /\ UNCHANGED <<proxy, generation, owner, mapping, startSeq, activeStart,
                   closeOp, relay>>

\* Explicit confirmation by the operator.
ClearRecovery(next) ==
    /\ mode = "recovery"
    /\ next \in {"idle", "capture_only"}
    /\ mode' = next
    /\ owner' = NoOwner
    /\ UNCHANGED <<proxy, generation, gatewayId, mapping, startSeq, tokens,
                   relay, call>>

-----------------------------------------------------------------------------
\* What a call in flight does next.
Continue(c) ==
    \/ StartCommit(c) \/ StartReject(c)
    \/ PauseAtOnce(c) \/ PauseDrains(c) \/ CloseAgain(c) \/ StopDrains(c)
    \/ \E ok \in BOOLEAN : \/ StartBuild(c, ok) \/ StartDiscard(c, ok)
                            \/ PauseSettles(c, ok) \/ StopSettles(c, ok)
    \/ CloseCommit(c) \/ MutationEnd(c) \/ PauseDesktopEnd(c) \/ LostEnd(c)

\* MarkGatewayLost finding the mutex free.
LostLook(c) ==
    \/ LostJoinsClose(c) \/ LostStale(c) \/ LostWithoutRelay(c) \/ LostBegin(c)

\* Operations that whoever holds the Service may issue.
Operate(c) ==
    \/ StartReserve(c)
    \/ CloseReservation(c) \/ CloseBegin(c)
    \/ \E op \in {"pause", "stop", "clear"} : MutationBegin(c, op)
    \/ \E gen \in 0..generation, run \in Runs, o \in Owners :
         PauseDesktopBegin(c, gen, run, o)

Decide ==
    \/ \E gen \in 0..generation, run \in Runs, o \in Owners :
         \/ ClaimDesktop(gen, run, o)
         \/ ReleaseDesktop(gen, o)
         \/ SetMapping(gen, run, o)
         \/ ClearMapping(gen, run, o)
    \/ \E via \in Conduits \cup {NoRelay} : BindSource(via)
    \/ \E next \in {"idle", "capture_only"} : ClearRecovery(next)

Gateway(c) ==
    \E run \in Runs :
        \/ BindGatewayRun(run)
        \/ \E abnormal \in BOOLEAN : LostEnter(c, run, abnormal)

Next ==
    \/ \E c \in Callers : Continue(c) \/ LostLook(c) \/ Operate(c) \/ Gateway(c)
    \/ Decide
    \/ \E r \in Relays : RelayFails(r)

Spec == Init /\ [][Next]_vars

-----------------------------------------------------------------------------
(* What the Service promises.                                              *)

\* A listener never outlives the ownership of its relay: whatever accepts
\* connections is the committed relay, or belongs to a StartCapture that is
\* about to commit or discard it.
NoOrphanRelay ==
    \A r \in Relays : relay[r].serving =>
        \/ r = proxy
        \/ \E c \in Callers : call[c].op = "start" /\ call[c].relay = r

\* While an operation is registered the relay and the generation it captured
\* stay committed, so the "should be unreachable" branch of CloseCapture is,
\* and no late result lands on a newer relay.
OperationOwnsRelay ==
    /\ activeOp = NoCaller \/ closeOp = NoCaller
    /\ activeOp # NoCaller =>
         /\ proxy # NoRelay /\ proxy = call[activeOp].relay
         /\ generation = call[activeOp].gen
    /\ closeOp # NoCaller =>
         /\ proxy # NoRelay /\ CloseStillOwns(closeOp)

\* Desktop-managed means that there is something to manage and someone who
\* manages it.
DesktopOwnsRelay ==
    mode = "desktop" => proxy # NoRelay /\ owner # NoOwner /\ gatewayId # NoRun

\* Whoever holds a claim on the relay, the operation in flight by its token or
\* the desktop by its mode, finds the relay it claimed (runProxyMutation,
\* CloseCapture, ClaimDesktop and the end of a late operation).
HoldersOwnRelay == OperationOwnsRelay /\ DesktopOwnsRelay

\* The relay stamps its requests with the run that is bound, even when the
\* gateway was rebound while the relay was being built.
RelayStampedWithBoundRun ==
    proxy # NoRelay /\ gatewayId # NoRun => relay[proxy].run = gatewayId

\* A relay kept after the Service gave up its gateway identity no longer accepts
\* requests in that gateway's name.
UnboundRelayIsSilent ==
    proxy # NoRelay /\ gatewayId = NoRun => ~relay[proxy].serving

\* No request is relayed in the name of a run that is not bound (StartCapture's
\* commit gate, BindGatewayRun, MarkGatewayLost).
RequestsCarryBoundRun == RelayStampedWithBoundRun /\ UnboundRelayIsSilent

\* A mapping is never left over for a later relay.
MappingBelongsToRelay ==
    mapping # NoMapping /\ proxy # NoRelay => mapping.relay = proxy

\* The source model is learnt only from a request that came through a relay of
\* the mapping's own gateway run.
SourceBoundThroughRelay ==
    mapping # NoMapping =>
        (mapping.bound => /\ mapping.via # NoRelay
                          /\ relay[mapping.via].run = mapping.run)

\* A mapping redirects requests only by what was learnt for the relay and the run
\* it was set up for (SetMapping, ObservedModelFor, and whoever commits or drops
\* a relay).
MappingIsNotStale == MappingBelongsToRelay /\ SourceBoundThroughRelay

(* How an unconfirmed recovery, or a desktop transaction, comes to an end. *)

\* The operator confirms.
Confirmed == \E next \in {"idle", "capture_only"} : ClearRecovery(next)

\* The desktop transaction gives the relay back.
Released == ReleaseDesktop(generation, owner)

\* A gateway run ends normally: its identity is given up, and the relay that is
\* kept, if there is one, no longer listens.
NormalEnd ==
    /\ mode' = "idle" /\ gatewayId' = NoRun
    /\ UnboundRelayIsSilent'
    /\ UNCHANGED <<proxy, generation, owner, startSeq>>

\* A start that was reserved before, and finds neither a relay nor another run,
\* commits.
LateStart ==
    /\ proxy = NoRelay /\ activeStart # NoRelay
    /\ mode' = "capture_only" /\ proxy' = activeStart
    /\ RelayStampedWithBoundRun'
    /\ UNCHANGED <<gatewayId, owner, startSeq>>

\* A recovery keeps the relay, the generation and the owner it is about, and no
\* start begins in it, until the operator confirms it.  Two things end it
\* without confirmation: the normal end of the bound gateway run, and, while
\* there is no relay, a start that was already in flight.  A recovery about a
\* relay is never left for a capture unconfirmed.
RecoveryKeepsEvidence ==
    [][mode = "recovery" =>
         \/ mode' = "recovery" /\ UNCHANGED <<proxy, generation, owner, startSeq>>
         \/ Confirmed
         \/ NormalEnd
         \/ LateStart]_vars

\* A desktop transaction keeps its relay, generation, gateway and owner, into
\* the recovery too that a failed pause or the end of its gateway turns it into;
\* otherwise it ends by its own release or with a normal end of its gateway.
DesktopKeepsEvidence ==
    [][mode = "desktop" =>
         \/ /\ mode' \in {"desktop", "recovery"}
            /\ UNCHANGED <<proxy, generation, gatewayId, owner>>
         \/ Released
         \/ NormalEnd]_vars

\* What a recovery or a desktop transaction is about is taken from it, and the
\* mode left, by nobody but those who may and in no other way than theirs
\* (checkExternalMutationLocked, the desktop's compare-and-swap, BindGatewayRun).
\* That "nothing automatically clears recovery" holds but for NormalEnd and
\* LateStart, which MarkGatewayLost and StartCapture allow.
EvidenceIsKept == RecoveryKeepsEvidence /\ DesktopKeepsEvidence
=============================================================================
