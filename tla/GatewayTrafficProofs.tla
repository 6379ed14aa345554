------------------------ MODULE GatewayTrafficProofs ------------------------
(***************************************************************************)
(* The safety of TrafficService for any callers, gateway runs, owners and  *)
(* number of starts, by one inductive invariant; and what it gives the     *)
(* composed system GatewayTraffic, whose Service is a TrafficService.      *)
(*                                                                         *)
(* IndInv adds to the invariants of TrafficService what makes them         *)
(* inductive: which calls hold which token (TokenInv), that a start in     *)
(* flight has a relay of its own (StartInv), and what the state of a relay *)
(* says about its listener.  Each action has a lemma, with one step for    *)
(* every conjunct whose variables the action changes.  In the composition  *)
(* EndRun never reaches the Service outside the run it ends.               *)
(***************************************************************************)
EXTENDS GatewayTraffic, TLAPS


\* The operations that hold activeOp.
InOperation(c) ==
    \/ call[c].op \in {"pause", "stop", "clear", "pauseDesktop"}
    \/ call[c].op = "gatewayEnd" /\ call[c].stage \in {"reserved", "draining", "settled"}

\* Which stages an operation goes through.
CallShape ==
    \A c \in Callers :
        /\ call[c].op = "none" <=> call[c].stage = "idle"
        /\ call[c].op = "start" <=> call[c].stage \in {"build", "commit", "discard"}
        /\ call[c].stage \in {"entered", "joining"} => call[c].op = "gatewayEnd"

\* The registered operations are exactly the calls in flight, and they own the
\* committed relay.
TokenInv ==
    /\ OperationOwnsRelay
    /\ \A c \in Callers : activeOp = c <=> InOperation(c)
    /\ \A c \in Callers : closeOp = c <=> call[c].op = "close"

\* A start owns a relay of its own, which is not committed yet; relays not
\* started yet carry no run.
StartInv ==
    /\ activeStart # NoRelay => proxy = NoRelay
    /\ proxy <= startSeq
    /\ \A c \in Callers : call[c].op = "start" =>
         /\ call[c].relay \in 1..startSeq
         /\ call[c].relay # proxy
         /\ call[c].run \in Runs
         /\ call[c].stage = "build" => relay[call[c].relay].run = NoRun
         /\ call[c].stage = "commit" => relay[call[c].relay].run = call[c].run
    /\ \A c, d \in Callers :
         call[c].op = "start" /\ call[d].op = "start" /\ c # d
           => call[c].relay # call[d].relay
    /\ \A r \in Relays : r > startSeq => relay[r].run = NoRun

\* A relay that stopped or failed has no listener.
DownRelayIsSilent ==
    \A r \in Relays : relay[r].state \in {"stopped", "failed"} => ~relay[r].serving

\* Close is irreversible: only the close in flight can still find a listener.
ClosedRelayIsClosing ==
    \A r \in Relays : relay[r].closed /\ relay[r].serving =>
        /\ closeOp # NoCaller
        /\ call[closeOp].stage = "draining" /\ call[closeOp].relay = r

\* Once Shutdown returned there is no listener left, whatever it returned.
StoppedRelayIsSilent ==
    \A c \in Callers : StopLike(c) /\ call[c].stage = "settled"
        => ~relay[call[c].relay].serving

\* The desktop's capture is touched by the desktop and the gateway only.
DesktopInv ==
    /\ DesktopOwnsRelay
    /\ mode = "desktop" =>
         /\ closeOp = NoCaller
         /\ activeOp # NoCaller => call[activeOp].op \in {"pauseDesktop", "gatewayEnd"}

IndInv ==
    /\ TypeOK
    /\ CallShape
    /\ TokenInv
    /\ StartInv
    /\ NoOrphanRelay
    /\ DownRelayIsSilent
    /\ ClosedRelayIsClosing
    /\ StoppedRelayIsSilent
    /\ DesktopInv
    /\ RelayStampedWithBoundRun
    /\ UnboundRelayIsSilent
    /\ MappingBelongsToRelay
    /\ SourceBoundThroughRelay
-----------------------------------------------------------------------------
(* Fields of records inside functions.                                     *)

LEMMA CallStage ==
  ASSUME call \in [Callers -> Call], NEW c \in Callers, NEW s \in Stages,
         NEW ok \in BOOLEAN
  PROVE  /\ [call EXCEPT ![c].stage = s] \in [Callers -> Call]
         /\ [call EXCEPT ![c].stage = s, ![c].ok = ok] \in [Callers -> Call]
  BY DEF Call

LEMMA RelayState ==
  ASSUME relay \in [Relays -> Relay], NEW r, NEW closed \in BOOLEAN,
         NEW s \in {"stopped", "capturing", "draining", "passthrough", "failed"}
  PROVE  /\ [relay EXCEPT ![r].state = s] \in [Relays -> Relay]
         /\ [relay EXCEPT ![r].state = s, ![r].closed = @ \/ closed]
              \in [Relays -> Relay]
  BY DEF Relay
-----------------------------------------------------------------------------
(* One lemma per action.                                                   *)

LEMMA StartReserveStep ==
  ASSUME IndInv, NEW c \in Callers, StartReserve(c)
  PROVE  IndInv'
<1>1. \A r \in Relays :
        /\ relay'[r].state = relay[r].state /\ relay'[r].serving = relay[r].serving
        /\ relay'[r].run = relay[r].run
        /\ relay'[r].closed => relay[r].closed \/ relay[r].state = "stopped"
  BY DEF IndInv, TypeOK, StartReserve, Relay
<1>2. /\ call[c].stage = "idle"
      /\ \A d \in Callers : d # c => call'[d] = call[d]
      /\ call'[c].op = "start" /\ call'[c].stage = "build"
      /\ call'[c].relay = startSeq + 1 /\ call'[c].run = gatewayId
  BY DEF IndInv, TypeOK, StartReserve, Begin
<1>3. /\ proxy' = NoRelay /\ startSeq' = startSeq + 1
      /\ startSeq' \in Relays /\ startSeq \in Nat /\ gatewayId \in Runs
  BY StartsAssumption DEF IndInv, TypeOK, StartReserve, Relays
<1>4. call' \in [Callers -> Call]
  BY StartsAssumption DEF IndInv, TypeOK, Call, Ops, Stages, Relays,
     StartReserve, Begin
<1>5. relay' \in [Relays -> Relay]
  BY DEF IndInv, TypeOK, StartReserve, Relay
<1>6. TypeOK'
  BY <1>4, <1>5, StartsAssumption DEF IndInv, TypeOK, Call, domain,
     StartReserve, Begin
<1>7. CallShape'
  BY DEF IndInv, TypeOK, CallShape, StartReserve, Begin
<1>8. TokenInv'
  BY DEF IndInv, TokenInv, OperationOwnsRelay, InOperation, StartReserve,
     Begin, NoOperation
<1>9. StartInv'
  <2>1. \A d \in Callers : call'[d].op = "start" => d = c \/ call[d].op = "start"
    BY <1>2
  <2>2. \A d \in Callers : call[d].op = "start" =>
          /\ d # c
          /\ call[d].relay \in 1..startSeq
          /\ call[d].relay \in Relays
    <3>1. call[c].op # "start"
      BY <1>2 DEF IndInv, CallShape
    <3>2. \A d \in Callers : call[d].op = "start" => call[d].relay \in 1..startSeq
      BY DEF IndInv, StartInv
    <3>3. 1..startSeq \subseteq Relays
      BY <1>3, StartsAssumption DEF Relays
    <3> QED
      BY <3>1, <3>2, <3>3
  <2>3. relay'[startSeq + 1].run = NoRun
    <3>1. startSeq + 1 \in Relays /\ startSeq + 1 > startSeq
      BY <1>3
    <3>2. relay[startSeq + 1].run = NoRun
      BY <3>1 DEF IndInv, StartInv
    <3> QED
      BY <3>1, <3>2, <1>1
  <2>4. ASSUME NEW d \in Callers, call'[d].op = "start"
        PROVE  /\ call'[d].relay \in 1..startSeq'
               /\ call'[d].relay # proxy'
               /\ call'[d].run \in Runs
               /\ call'[d].stage = "build" => relay'[call'[d].relay].run = NoRun
               /\ call'[d].stage = "commit" => relay'[call'[d].relay].run = call'[d].run
    <3>1. CASE d = c
      BY <3>1, <1>2, <1>3, <2>3 DEF NoRelay
    <3>2. CASE d # c
      BY <3>2, <2>4, <1>1, <1>2, <1>3, <2>2 DEF IndInv, StartInv, NoRelay
    <3> QED
      BY <3>1, <3>2
  <2>5. \A d, e \in Callers :
          call'[d].op = "start" /\ call'[e].op = "start" /\ d # e
            => call'[d].relay # call'[e].relay
    BY <1>2, <1>3, <2>1, <2>2 DEF IndInv, StartInv
  <2>6. \A r \in Relays : r > startSeq' => relay'[r].run = NoRun
    BY <1>1, <1>3 DEF IndInv, StartInv, Relays
  <2> QED
    BY <1>3, <2>4, <2>5, <2>6 DEF StartInv, NoRelay
<1>10. NoOrphanRelay'
  <2>1. ASSUME NEW r \in Relays, relay'[r].serving
        PROVE  \E d \in Callers : call'[d].op = "start" /\ call'[d].relay = r
    <3>1. r # proxy
      <4>1. relay[r].serving /\ r # NoRelay
        BY <2>1, <1>1 DEF Relays, NoRelay
      <4>2. CASE proxy = NoRelay
        BY <4>1, <4>2
      <4>3. CASE proxy # NoRelay
        <5>1. proxy \in Relays /\ relay[proxy].state = "stopped"
          BY <4>3 DEF IndInv, TypeOK, StartReserve
        <5> QED
          BY <4>1, <5>1 DEF IndInv, DownRelayIsSilent
      <4> QED
        BY <4>2, <4>3
    <3>2. PICK d \in Callers : call[d].op = "start" /\ call[d].relay = r
      BY <2>1, <3>1, <1>1 DEF IndInv, NoOrphanRelay
    <3> QED
      BY <3>2, <1>2 DEF IndInv, CallShape
  <2> QED
    BY <2>1 DEF NoOrphanRelay
<1>11. DownRelayIsSilent'
  BY <1>1 DEF IndInv, DownRelayIsSilent
<1>12. ClosedRelayIsClosing'
  BY <1>1 DEF IndInv, DownRelayIsSilent, ClosedRelayIsClosing, StartReserve, NoOperation
<1>13. StoppedRelayIsSilent'
  BY DEF IndInv, StoppedRelayIsSilent, StopLike, TokenInv, InOperation,
     StartReserve, Begin, NoOperation
<1>14. DesktopInv'
  BY DEF IndInv, domain, DesktopInv, DesktopOwnsRelay, StartReserve, OpenMode
<1>15. RelayStampedWithBoundRun'
  BY DEF IndInv, TypeOK, RelayStampedWithBoundRun, StartReserve
<1>16. UnboundRelayIsSilent'
  BY DEF IndInv, TypeOK, UnboundRelayIsSilent, StartReserve
<1>17. MappingBelongsToRelay'
  BY DEF IndInv, TypeOK, MappingBelongsToRelay, StartReserve
<1>18. SourceBoundThroughRelay'
  BY DEF IndInv, TypeOK, SourceBoundThroughRelay, StartReserve
<1> QED
  BY <1>6, <1>7, <1>8, <1>9, <1>10, <1>11, <1>12, <1>13, <1>14, <1>15, <1>16,
     <1>17, <1>18 DEF IndInv

LEMMA StartBuildStep ==
  ASSUME IndInv, NEW c \in Callers, NEW ok \in BOOLEAN, StartBuild(c, ok)
  PROVE  IndInv'
<1>1. call' \in [Callers -> Call]
  BY CallStage DEF IndInv, TypeOK, StartBuild, Stages
<1>2. relay' \in [Relays -> Relay]
  BY RunAssumption, OwnerAssumption, CallerAssumption, StartsAssumption DEF
     IndInv, TypeOK, Call, Relay, FreshRelay, NoRelay, Relays, StartBuild
<1>3. TypeOK'
  BY <1>1, <1>2 DEF IndInv, TypeOK, domain, tokens, StartBuild
<1>4. CallShape'
  BY DEF IndInv, TypeOK, CallShape, StartBuild
<1>5. TokenInv'
  BY DEF IndInv, TypeOK, tokens, TokenInv, OperationOwnsRelay, InOperation,
     CloseStillOwns, StartBuild
<1>6. StartInv'
  BY StartsAssumption DEF IndInv, TypeOK, Relays, tokens, StartInv, StartBuild
<1>7. NoOrphanRelay'
  <2>1. \A d \in Callers : call'[d].op = call[d].op /\ call'[d].relay = call[d].relay
    BY DEF IndInv, TypeOK, StartBuild, Call
  <2>2. \A r \in Relays : r # call[c].relay => relay'[r] = relay[r]
    BY DEF IndInv, TypeOK, StartBuild
  <2>3. proxy' = proxy /\ call[c].op = "start"
    BY DEF StartBuild
  <2> QED
    BY <2>1, <2>2, <2>3 DEF IndInv, NoOrphanRelay
<1>8. DownRelayIsSilent'
  BY DEF IndInv, TypeOK, DownRelayIsSilent, StartBuild
<1>9. ClosedRelayIsClosing'
  BY DEF IndInv, TypeOK, tokens, ClosedRelayIsClosing, StartBuild
<1>10. StoppedRelayIsSilent'
  BY CallerAssumption DEF IndInv, TypeOK, StoppedRelayIsSilent, StopLike,
     TokenInv, OperationOwnsRelay, InOperation, CloseStillOwns, StartInv,
     StartBuild
<1>11. DesktopInv'
  BY DEF IndInv, TypeOK, domain, tokens, DesktopInv, DesktopOwnsRelay,
     StartBuild
<1>12. RelayStampedWithBoundRun'
  BY DEF IndInv, domain, RelayStampedWithBoundRun, StartInv, StartBuild
<1>13. UnboundRelayIsSilent'
  BY DEF IndInv, domain, UnboundRelayIsSilent, StartInv, StartBuild
<1>14. SourceBoundThroughRelay'
  BY RunAssumption DEF IndInv, TypeOK, SourceBoundThroughRelay, Mapping,
     StartInv, StartBuild
<1>15. MappingBelongsToRelay'
  BY DEF IndInv, MappingBelongsToRelay, StartBuild
<1> QED
  BY <1>3, <1>4, <1>5, <1>6, <1>7, <1>8, <1>9, <1>10, <1>11, <1>12, <1>13,
     <1>14, <1>15 DEF IndInv

LEMMA StartCommitStep ==
  ASSUME IndInv, NEW c \in Callers, StartCommit(c)
  PROVE  IndInv'
<1>1. call' \in [Callers -> Call]
  BY DEF IndInv, TypeOK, Call, Ops, Stages, Idle, StartCommit, Finish
<1>2. TypeOK'
  BY <1>1 DEF IndInv, TypeOK, Modes, StartCommit, StartGate, OwnsReservation
<1>3. CallShape'
  BY DEF IndInv, Idle, CallShape, StartCommit, Finish
<1>4. TokenInv'
  BY DEF IndInv, Idle, TokenInv, OperationOwnsRelay, InOperation, StartCommit,
     Finish, StartGate
<1>5. StartInv'
  BY DEF IndInv, TypeOK, Idle, StartInv, StartCommit, Finish
<1>6. NoOrphanRelay'
  BY DEF IndInv, Relays, NoRelay, NoOrphanRelay, StartCommit, Finish, StartGate
<1>7. ClosedRelayIsClosing'
  BY DEF IndInv, TypeOK, ClosedRelayIsClosing, StartCommit, Finish
<1>8. StoppedRelayIsSilent'
  BY DEF IndInv, Idle, StoppedRelayIsSilent, StopLike, StartCommit, Finish
<1>9. DesktopInv'
  BY DEF IndInv, TypeOK, DesktopInv, DesktopOwnsRelay, StartCommit
<1>10. RelayStampedWithBoundRun'
  BY DEF IndInv, RelayStampedWithBoundRun, StartInv, StartCommit, StartGate
<1>11. UnboundRelayIsSilent'
  BY RunAssumption DEF IndInv, StartInv, StartCommit, StartGate,
     UnboundRelayIsSilent
<1>12. MappingBelongsToRelay'
  BY DEF IndInv, TypeOK, MappingBelongsToRelay, StartCommit
<1>13. SourceBoundThroughRelay'
  BY DEF IndInv, TypeOK, SourceBoundThroughRelay, StartCommit
<1>14. DownRelayIsSilent'
  BY DEF IndInv, DownRelayIsSilent, StartCommit
<1> QED
  BY <1>2, <1>3, <1>4, <1>5, <1>6, <1>7, <1>8, <1>9, <1>10, <1>11, <1>12,
     <1>13, <1>14 DEF IndInv

LEMMA StartRejectStep ==
  ASSUME IndInv, NEW c \in Callers, StartReject(c)
  PROVE  IndInv'
<1>1. call' \in [Callers -> Call]
  BY CallStage DEF IndInv, TypeOK, StartReject, Stages
<1>2. TypeOK'
  BY <1>1 DEF IndInv, TypeOK, domain, StartReject
<1>3. CallShape'
  BY DEF IndInv, TypeOK, CallShape, StartReject
<1>4. TokenInv'
  BY DEF IndInv, TypeOK, TokenInv, OperationOwnsRelay, InOperation,
     CloseStillOwns, StartReject
<1>5. StartInv'
  BY DEF IndInv, TypeOK, StartInv, StartReject
<1>6. NoOrphanRelay'
  BY DEF IndInv, TypeOK, NoOrphanRelay, StartReject
<1>7. ClosedRelayIsClosing'
  BY DEF IndInv, TypeOK, ClosedRelayIsClosing, StartReject
<1>8. StoppedRelayIsSilent'
  BY DEF IndInv, TypeOK, StoppedRelayIsSilent, StopLike, StartReject
<1>9. DesktopInv'
  BY DEF IndInv, domain, DesktopInv, DesktopOwnsRelay, StartReject
<1>10. DownRelayIsSilent' /\ RelayStampedWithBoundRun' /\ UnboundRelayIsSilent'
       /\ MappingBelongsToRelay' /\ SourceBoundThroughRelay'
  BY DEF IndInv, domain, DownRelayIsSilent, RelayStampedWithBoundRun,
     UnboundRelayIsSilent, MappingBelongsToRelay, SourceBoundThroughRelay,
     StartReject
<1> QED
  BY <1>2, <1>3, <1>4, <1>5, <1>6, <1>7, <1>8, <1>9, <1>10 DEF IndInv

LEMMA StartDiscardStep ==
  ASSUME IndInv, NEW c \in Callers, NEW ok \in BOOLEAN, StartDiscard(c, ok)
  PROVE  IndInv'
<1>1. call' \in [Callers -> Call]
  BY DEF IndInv, TypeOK, Call, Ops, Stages, Idle, StartDiscard, Finish
<1>2. relay' \in [Relays -> Relay]
  BY RunAssumption, OwnerAssumption, CallerAssumption, StartsAssumption DEF
     IndInv, TypeOK, Call, Relay, FreshRelay, NoRelay, Relays, StartDiscard,
     Down, Finish
<1>3. TypeOK'
  BY <1>1, <1>2 DEF IndInv, TypeOK, domain, tokens, StartDiscard, Down
<1>4. CallShape'
  BY DEF IndInv, Idle, CallShape, StartDiscard, Finish
<1>5. TokenInv'
  BY DEF IndInv, Idle, tokens, TokenInv, OperationOwnsRelay, InOperation,
     CloseStillOwns, StartDiscard, Finish
<1>6. StartInv'
  BY DEF IndInv, Idle, tokens, StartInv, StartDiscard, Down, Finish
<1>7. NoOrphanRelay'
  BY DEF IndInv, TypeOK, NoOrphanRelay, StartDiscard, Down, Finish
<1>8. DownRelayIsSilent'
  BY DEF IndInv, TypeOK, DownRelayIsSilent, StartDiscard, Down
<1>9. ClosedRelayIsClosing'
  BY DEF IndInv, tokens, ClosedRelayIsClosing, StartDiscard, Down, Finish
<1>10. StoppedRelayIsSilent'
  BY DEF IndInv, Idle, StoppedRelayIsSilent, StopLike, StartDiscard, Down,
     Finish
<1>11. DesktopInv'
  BY DEF IndInv, domain, tokens, DesktopInv, DesktopOwnsRelay, StartDiscard,
     Finish
<1>12. RelayStampedWithBoundRun'
  BY DEF IndInv, domain, RelayStampedWithBoundRun, StartDiscard, Down
<1>13. UnboundRelayIsSilent'
  BY DEF IndInv, domain, UnboundRelayIsSilent, StartDiscard, Down
<1>14. SourceBoundThroughRelay'
  BY DEF IndInv, TypeOK, SourceBoundThroughRelay, StartDiscard, Down
<1>15. MappingBelongsToRelay'
  BY DEF IndInv, MappingBelongsToRelay, StartDiscard
<1> QED
  BY <1>3, <1>4, <1>5, <1>6, <1>7, <1>8, <1>9, <1>10, <1>11, <1>12, <1>13,
     <1>14, <1>15 DEF IndInv

LEMMA PauseAtOnceStep ==
  ASSUME IndInv, NEW c \in Callers, PauseAtOnce(c)
  PROVE  IndInv'
<1>1. call' \in [Callers -> Call]
  BY CallStage DEF IndInv, TypeOK, PauseAtOnce, Settle, Stages
<1>2. TypeOK'
  BY <1>1 DEF IndInv, TypeOK, domain, tokens, PauseAtOnce, RelayUnchanged
<1>3. CallShape'
  BY DEF IndInv, TypeOK, CallShape, PauseAtOnce, Settle
<1>4. TokenInv'
  BY CallerAssumption DEF IndInv, TypeOK, tokens, TokenInv, OperationOwnsRelay,
     InOperation, PauseAtOnce, Settle, RelayUnchanged, PauseLike
<1>5. StartInv'
  BY DEF IndInv, TypeOK, tokens, StartInv, PauseAtOnce, Settle, RelayUnchanged
<1>6. NoOrphanRelay'
  BY DEF IndInv, TypeOK, NoOrphanRelay, PauseAtOnce, Settle, RelayUnchanged
<1>7. ClosedRelayIsClosing'
  BY CallerAssumption DEF IndInv, ClosedRelayIsClosing, TokenInv,
     OperationOwnsRelay, InOperation, PauseAtOnce, PauseLike
<1>8. StoppedRelayIsSilent'
  BY DEF IndInv, TypeOK, StoppedRelayIsSilent, StopLike, PauseAtOnce, Settle,
     PauseLike
<1>9. DesktopInv'
  BY DEF IndInv, TypeOK, domain, tokens, DesktopInv, DesktopOwnsRelay,
     PauseAtOnce, Settle, RelayUnchanged
<1>10. DownRelayIsSilent' /\ RelayStampedWithBoundRun' /\ UnboundRelayIsSilent'
       /\ MappingBelongsToRelay' /\ SourceBoundThroughRelay'
  BY DEF IndInv, domain, DownRelayIsSilent, RelayStampedWithBoundRun,
     UnboundRelayIsSilent, MappingBelongsToRelay, SourceBoundThroughRelay,
     PauseAtOnce, RelayUnchanged
<1> QED
  BY <1>2, <1>3, <1>4, <1>5, <1>6, <1>7, <1>8, <1>9, <1>10 DEF IndInv

LEMMA PauseDrainsStep ==
  ASSUME IndInv, NEW c \in Callers, PauseDrains(c)
  PROVE  IndInv'
<1>1. call' \in [Callers -> Call]
  BY CallStage DEF IndInv, TypeOK, PauseDrains, Stages
<1>2. relay' \in [Relays -> Relay]
  BY RelayState DEF IndInv, TypeOK, PauseDrains
<1>3. TypeOK'
  BY <1>1, <1>2 DEF IndInv, TypeOK, domain, tokens, PauseDrains, RelayUnchanged
<1>4. CallShape'
  BY DEF IndInv, TypeOK, CallShape, PauseDrains
<1>5. TokenInv'
  BY CallerAssumption DEF IndInv, tokens, TokenInv, OperationOwnsRelay,
     InOperation, PauseDrains, RelayUnchanged, PauseLike
<1>6. StartInv'
  BY DEF IndInv, tokens, StartInv, PauseDrains, RelayUnchanged
<1>7. NoOrphanRelay'
  BY DEF IndInv, TypeOK, NoOrphanRelay, PauseDrains, RelayUnchanged
<1>8. DownRelayIsSilent'
  BY DEF IndInv, TypeOK, DownRelayIsSilent, PauseDrains
<1>9. ClosedRelayIsClosing'
  BY CallerAssumption DEF IndInv, ClosedRelayIsClosing, TokenInv,
     OperationOwnsRelay, InOperation, PauseDrains, PauseLike
<1>10. StoppedRelayIsSilent'
  BY DEF IndInv, TypeOK, StoppedRelayIsSilent, StopLike, PauseDrains
<1>11. DesktopInv'
  BY DEF IndInv, domain, tokens, DesktopInv, DesktopOwnsRelay, PauseDrains,
     RelayUnchanged
<1>12. RelayStampedWithBoundRun'
  BY DEF IndInv, domain, RelayStampedWithBoundRun, PauseDrains, RelayUnchanged
<1>13. UnboundRelayIsSilent'
  BY DEF IndInv, domain, UnboundRelayIsSilent, PauseDrains, RelayUnchanged
<1>14. SourceBoundThroughRelay'
  BY DEF IndInv, TypeOK, SourceBoundThroughRelay, PauseDrains, RelayUnchanged
<1>15. MappingBelongsToRelay'
  BY DEF IndInv, MappingBelongsToRelay, PauseDrains, RelayUnchanged
<1> QED
  BY <1>3, <1>4, <1>5, <1>6, <1>7, <1>8, <1>9, <1>10, <1>11, <1>12, <1>13,
     <1>14, <1>15 DEF IndInv

LEMMA PauseSettlesStep ==
  ASSUME IndInv, NEW c \in Callers, NEW ok \in BOOLEAN, PauseSettles(c, ok)
  PROVE  IndInv'
<1>1. call' \in [Callers -> Call]
  BY CallStage DEF IndInv, TypeOK, PauseSettles, Settle, Stages
<1>2. relay' \in [Relays -> Relay]
  BY RelayState DEF IndInv, TypeOK, PauseSettles
<1>3. TypeOK'
  BY <1>1, <1>2 DEF IndInv, TypeOK, domain, tokens, PauseSettles,
     RelayUnchanged
<1>4. CallShape'
  BY DEF IndInv, TypeOK, CallShape, PauseSettles, Settle
<1>5. TokenInv'
  BY CallerAssumption DEF IndInv, TypeOK, tokens, TokenInv, OperationOwnsRelay,
     InOperation, PauseSettles, Settle, RelayUnchanged, PauseLike
<1>6. StartInv'
  BY DEF IndInv, TypeOK, tokens, StartInv, PauseSettles, Settle, RelayUnchanged
<1>7. NoOrphanRelay'
  BY DEF IndInv, TypeOK, NoOrphanRelay, PauseSettles, Settle, RelayUnchanged
<1>8. DownRelayIsSilent'
  BY DEF IndInv, TypeOK, DownRelayIsSilent, PauseSettles
<1>9. ClosedRelayIsClosing'
  BY CallerAssumption DEF IndInv, ClosedRelayIsClosing, TokenInv,
     OperationOwnsRelay, InOperation, PauseSettles, PauseLike
<1>10. StoppedRelayIsSilent'
  BY DEF IndInv, TypeOK, StoppedRelayIsSilent, StopLike, PauseSettles, Settle,
     PauseLike
<1>11. DesktopInv'
  BY DEF IndInv, TypeOK, domain, tokens, DesktopInv, DesktopOwnsRelay,
     PauseSettles, Settle, RelayUnchanged
<1>12. RelayStampedWithBoundRun'
  BY DEF IndInv, domain, RelayStampedWithBoundRun, PauseSettles, RelayUnchanged
<1>13. UnboundRelayIsSilent'
  BY DEF IndInv, domain, UnboundRelayIsSilent, PauseSettles, RelayUnchanged
<1>14. SourceBoundThroughRelay'
  BY DEF IndInv, TypeOK, SourceBoundThroughRelay, PauseSettles, RelayUnchanged
<1>15. MappingBelongsToRelay'
  BY DEF IndInv, MappingBelongsToRelay, PauseSettles, RelayUnchanged
<1> QED
  BY <1>3, <1>4, <1>5, <1>6, <1>7, <1>8, <1>9, <1>10, <1>11, <1>12, <1>13,
     <1>14, <1>15 DEF IndInv

LEMMA CloseAgainStep ==
  ASSUME IndInv, NEW c \in Callers, CloseAgain(c)
  PROVE  IndInv'
<1>1. call' \in [Callers -> Call]
  BY CallStage DEF IndInv, TypeOK, CloseAgain, Settle, Stages
<1>2. TypeOK'
  BY <1>1 DEF IndInv, TypeOK, domain, tokens, CloseAgain, RelayUnchanged
<1>3. CallShape'
  BY DEF IndInv, TypeOK, CallShape, CloseAgain, Settle
<1>4. TokenInv'
  BY DEF IndInv, TypeOK, tokens, TokenInv, OperationOwnsRelay, InOperation,
     CloseStillOwns, CloseAgain, Settle, RelayUnchanged
<1>5. StartInv'
  BY DEF IndInv, TypeOK, tokens, StartInv, CloseAgain, Settle, RelayUnchanged
<1>6. NoOrphanRelay'
  BY DEF IndInv, TypeOK, NoOrphanRelay, CloseAgain, Settle, RelayUnchanged
<1>7. ClosedRelayIsClosing'
  BY DEF IndInv, ClosedRelayIsClosing, TokenInv, CloseAgain
<1>8. StoppedRelayIsSilent'
  BY CallerAssumption DEF IndInv, TypeOK, StoppedRelayIsSilent, StopLike,
     TokenInv, OperationOwnsRelay, CloseStillOwns, ClosedRelayIsClosing,
     CloseAgain, Settle
<1>9. DesktopInv'
  BY CallerAssumption DEF IndInv, domain, DesktopInv, DesktopOwnsRelay,
     TokenInv, CloseAgain, RelayUnchanged
<1>10. DownRelayIsSilent' /\ RelayStampedWithBoundRun' /\ UnboundRelayIsSilent'
       /\ MappingBelongsToRelay' /\ SourceBoundThroughRelay'
  BY DEF IndInv, domain, DownRelayIsSilent, RelayStampedWithBoundRun,
     UnboundRelayIsSilent, MappingBelongsToRelay, SourceBoundThroughRelay,
     CloseAgain, RelayUnchanged
<1> QED
  BY <1>2, <1>3, <1>4, <1>5, <1>6, <1>7, <1>8, <1>9, <1>10 DEF IndInv

LEMMA StopDrainsStep ==
  ASSUME IndInv, NEW c \in Callers, StopDrains(c)
  PROVE  IndInv'
<1>1. call' \in [Callers -> Call]
  BY CallStage DEF IndInv, TypeOK, StopDrains, Stages
<1>2. relay' \in [Relays -> Relay]
  BY RelayState DEF IndInv, TypeOK, StopDrains
<1>3. TypeOK'
  BY <1>1, <1>2 DEF IndInv, TypeOK, domain, tokens, StopDrains, RelayUnchanged
<1>4. CallShape'
  BY DEF IndInv, TypeOK, CallShape, StopDrains
<1>5. TokenInv'
  BY DEF IndInv, tokens, TokenInv, OperationOwnsRelay, InOperation,
     CloseStillOwns, StopDrains, RelayUnchanged
<1>6. StartInv'
  BY StartsAssumption DEF IndInv, TypeOK, Relays, tokens, StartInv, StopDrains,
     RelayUnchanged
<1>7. NoOrphanRelay'
  BY DEF IndInv, TypeOK, NoOrphanRelay, StopDrains, RelayUnchanged
<1>8. DownRelayIsSilent'
  BY DEF IndInv, TypeOK, DownRelayIsSilent, StopDrains
<1>9. ClosedRelayIsClosing'
  BY CallerAssumption DEF IndInv, TypeOK, Relay, ClosedRelayIsClosing,
     TokenInv, OperationOwnsRelay, InOperation, StopDrains, StopLike
<1>10. StoppedRelayIsSilent'
  BY CallerAssumption DEF IndInv, StoppedRelayIsSilent, StopLike, TokenInv,
     OperationOwnsRelay, InOperation, StopDrains
<1>11. DesktopInv'
  BY DEF IndInv, domain, tokens, DesktopInv, DesktopOwnsRelay, StopDrains,
     RelayUnchanged
<1>12. RelayStampedWithBoundRun'
  BY DEF IndInv, TypeOK, domain, RelayStampedWithBoundRun, StopDrains,
     RelayUnchanged
<1>13. UnboundRelayIsSilent'
  BY DEF IndInv, TypeOK, domain, UnboundRelayIsSilent, StopDrains,
     RelayUnchanged
<1>14. SourceBoundThroughRelay'
  BY DEF IndInv, TypeOK, SourceBoundThroughRelay, Mapping, StopDrains,
     RelayUnchanged
<1>15. MappingBelongsToRelay'
  BY DEF IndInv, MappingBelongsToRelay, StopDrains, RelayUnchanged
<1> QED
  BY <1>3, <1>4, <1>5, <1>6, <1>7, <1>8, <1>9, <1>10, <1>11, <1>12, <1>13,
     <1>14, <1>15 DEF IndInv

LEMMA StopSettlesStep ==
  ASSUME IndInv, NEW c \in Callers, NEW ok \in BOOLEAN, StopSettles(c, ok)
  PROVE  IndInv'
<1>1. call' \in [Callers -> Call]
  BY CallStage DEF IndInv, TypeOK, StopSettles, Settle, Stages
<1>2. relay' \in [Relays -> Relay]
  BY RunAssumption, OwnerAssumption, CallerAssumption, StartsAssumption DEF
     IndInv, TypeOK, Call, Relay, FreshRelay, NoRelay, Relays, StopSettles,
     Down, Settle, RelayUnchanged, StopLike
<1>3. TypeOK'
  BY <1>1, <1>2 DEF IndInv, TypeOK, domain, tokens, StopSettles, RelayUnchanged
<1>4. CallShape'
  BY DEF IndInv, TypeOK, CallShape, StopSettles, Settle
<1>5. TokenInv'
  BY DEF IndInv, TypeOK, tokens, TokenInv, OperationOwnsRelay, InOperation,
     CloseStillOwns, StopSettles, Settle, RelayUnchanged
<1>6. StartInv'
  BY DEF IndInv, TypeOK, tokens, StartInv, StopSettles, Down, Settle,
     RelayUnchanged
<1>7. NoOrphanRelay'
  <2>1. \A d \in Callers : call'[d].op = call[d].op /\ call'[d].relay = call[d].relay
    BY DEF IndInv, TypeOK, StopSettles, Settle, Call
  <2>2. \A r \in Relays : relay'[r].serving => relay[r].serving
    BY DEF IndInv, TypeOK, StopSettles, Down
  <2> QED
    BY <2>1, <2>2 DEF IndInv, NoOrphanRelay, StopSettles, RelayUnchanged
<1>8. DownRelayIsSilent'
  BY DEF IndInv, TypeOK, DownRelayIsSilent, StopSettles, Down
<1>9. ClosedRelayIsClosing'
  BY CallerAssumption DEF IndInv, TypeOK, ClosedRelayIsClosing, TokenInv,
     OperationOwnsRelay, InOperation, StopSettles, Down, StopLike
<1>10. StoppedRelayIsSilent'
  BY CallerAssumption DEF IndInv, TypeOK, StoppedRelayIsSilent, StopLike,
     TokenInv, OperationOwnsRelay, InOperation, CloseStillOwns, StopSettles,
     Down, Settle
<1>11. DesktopInv'
  BY DEF IndInv, TypeOK, domain, tokens, DesktopInv, DesktopOwnsRelay,
     StopSettles, Settle, RelayUnchanged
<1>12. RelayStampedWithBoundRun'
  BY DEF IndInv, domain, RelayStampedWithBoundRun, StopSettles, Down,
     RelayUnchanged
<1>13. UnboundRelayIsSilent'
  BY DEF IndInv, domain, UnboundRelayIsSilent, StopSettles, Down,
     RelayUnchanged
<1>14. SourceBoundThroughRelay'
  BY DEF IndInv, TypeOK, SourceBoundThroughRelay, StopSettles, Down,
     RelayUnchanged
<1>15. MappingBelongsToRelay'
  BY DEF IndInv, MappingBelongsToRelay, StopSettles, RelayUnchanged
<1> QED
  BY <1>3, <1>4, <1>5, <1>6, <1>7, <1>8, <1>9, <1>10, <1>11, <1>12, <1>13,
     <1>14, <1>15 DEF IndInv

LEMMA CloseReservationStep ==
  ASSUME IndInv, NEW c \in Callers, CloseReservation(c)
  PROVE  IndInv'
<1>1. TypeOK'
  BY DEF IndInv, TypeOK, CloseReservation
<1>2. TokenInv'
  BY DEF IndInv, TypeOK, TokenInv, OperationOwnsRelay, InOperation,
     CloseReservation
<1>3. StartInv'
  BY DEF IndInv, TypeOK, StartInv, CloseReservation
<1>4. DesktopInv'
  BY DEF IndInv, TypeOK, DesktopInv, DesktopOwnsRelay, CloseReservation
<1>5. RelayStampedWithBoundRun'
  BY DEF IndInv, TypeOK, RelayStampedWithBoundRun, CloseReservation
<1>6. UnboundRelayIsSilent'
  BY DEF IndInv, TypeOK, UnboundRelayIsSilent, CloseReservation
<1>7. MappingBelongsToRelay'
  BY DEF IndInv, TypeOK, MappingBelongsToRelay, CloseReservation
<1>8. SourceBoundThroughRelay'
  BY DEF IndInv, TypeOK, SourceBoundThroughRelay, CloseReservation
<1>9. CallShape' /\ NoOrphanRelay' /\ DownRelayIsSilent' /\
      ClosedRelayIsClosing' /\ StoppedRelayIsSilent'
  BY DEF IndInv, CallShape, NoOrphanRelay, DownRelayIsSilent,
     ClosedRelayIsClosing, StoppedRelayIsSilent, StopLike, CloseReservation
<1> QED
  BY <1>1, <1>2, <1>3, <1>4, <1>5, <1>6, <1>7, <1>8, <1>9 DEF IndInv

LEMMA CloseBeginStep ==
  ASSUME IndInv, NEW c \in Callers, CloseBegin(c)
  PROVE  IndInv'
<1>1. call' \in [Callers -> Call]
  BY DEF IndInv, TypeOK, Call, Ops, Stages, CloseBegin, Begin
<1>2. TypeOK'
  BY <1>1 DEF IndInv, TypeOK, domain, CloseBegin
<1>3. CallShape'
  BY DEF IndInv, TypeOK, CallShape, CloseBegin, Begin
<1>4. TokenInv'
  BY DEF IndInv, TypeOK, TokenInv, OperationOwnsRelay, InOperation,
     CloseStillOwns, CloseBegin, Begin, NoOperation
<1>5. StartInv'
  BY DEF IndInv, TypeOK, StartInv, CloseBegin, Begin
<1>6. NoOrphanRelay'
  BY DEF IndInv, NoOrphanRelay, CallShape, CloseBegin, Begin
<1>7. ClosedRelayIsClosing'
  BY DEF IndInv, ClosedRelayIsClosing, CloseBegin, NoOperation
<1>8. StoppedRelayIsSilent'
  BY DEF IndInv, TypeOK, StoppedRelayIsSilent, StopLike, CloseBegin, Begin
<1>9. DesktopInv'
  BY DEF IndInv, domain, DesktopInv, DesktopOwnsRelay, CloseBegin, OpenMode
<1>10. MappingBelongsToRelay'
  BY DEF IndInv, TypeOK, MappingBelongsToRelay, CloseBegin
<1>11. SourceBoundThroughRelay'
  BY DEF IndInv, TypeOK, SourceBoundThroughRelay, CloseBegin
<1>12. DownRelayIsSilent' /\ RelayStampedWithBoundRun' /\ UnboundRelayIsSilent'
  BY DEF IndInv, domain, DownRelayIsSilent, RelayStampedWithBoundRun,
     UnboundRelayIsSilent, CloseBegin
<1> QED
  BY <1>2, <1>3, <1>4, <1>5, <1>6, <1>7, <1>8, <1>9, <1>10, <1>11, <1>12 DEF
     IndInv

LEMMA CloseCommitStep ==
  ASSUME IndInv, NEW c \in Callers, CloseCommit(c)
  PROVE  IndInv'
<1>1. call' \in [Callers -> Call]
  BY DEF IndInv, TypeOK, Call, Ops, Stages, Idle, CloseCommit, CloseFinish
<1>2. TypeOK'
  BY <1>1 DEF IndInv, TypeOK, Modes, CloseCommit, CloseFinish
<1>3. CallShape'
  BY DEF IndInv, Idle, CallShape, CloseCommit, CloseFinish
<1>4. TokenInv'
  BY CallerAssumption DEF IndInv, Idle, TokenInv, OperationOwnsRelay,
     InOperation, CloseCommit, CloseFinish
<1>5. StartInv'
  BY DEF IndInv, TypeOK, NoRelay, Idle, StartInv, CloseCommit, CloseFinish
<1>6. NoOrphanRelay'
  BY DEF IndInv, NoOrphanRelay, CallShape, CloseStillOwns,
     StoppedRelayIsSilent, StopLike, CloseCommit, CloseFinish
<1>7. ClosedRelayIsClosing'
  BY DEF IndInv, ClosedRelayIsClosing, TokenInv, CloseCommit
<1>8. StoppedRelayIsSilent'
  BY DEF IndInv, Idle, StoppedRelayIsSilent, StopLike, CloseCommit, CloseFinish
<1>9. DesktopInv'
  BY DEF IndInv, TypeOK, DesktopInv, DesktopOwnsRelay, CloseCommit
<1>10. RelayStampedWithBoundRun'
  BY DEF IndInv, TypeOK, RelayStampedWithBoundRun, CloseCommit
<1>11. UnboundRelayIsSilent'
  BY DEF IndInv, TypeOK, UnboundRelayIsSilent, CloseCommit
<1>12. MappingBelongsToRelay'
  BY DEF IndInv, TypeOK, MappingBelongsToRelay, CloseCommit
<1>13. SourceBoundThroughRelay'
  BY DEF IndInv, TypeOK, SourceBoundThroughRelay, CloseCommit
<1>14. DownRelayIsSilent'
  BY DEF IndInv, DownRelayIsSilent, CloseCommit
<1> QED
  BY <1>2, <1>3, <1>4, <1>5, <1>6, <1>7, <1>8, <1>9, <1>10, <1>11, <1>12,
     <1>13, <1>14 DEF IndInv

LEMMA MutationBeginStep ==
  ASSUME IndInv, NEW c \in Callers, NEW op \in {"pause", "stop", "clear"},
         MutationBegin(c, op)
  PROVE  IndInv'
<1>1. call' \in [Callers -> Call]
  BY DEF IndInv, TypeOK, Call, Ops, Stages, MutationBegin, Reserve, Begin
<1>2. TypeOK'
  BY <1>1 DEF IndInv, TypeOK, domain, MutationBegin, Reserve
<1>3. CallShape'
  BY DEF IndInv, TypeOK, CallShape, MutationBegin, Reserve, Begin
<1>4. TokenInv'
  BY DEF IndInv, TypeOK, TokenInv, OperationOwnsRelay, InOperation,
     MutationBegin, NoOperation, Reserve, Begin
<1>5. StartInv'
  BY DEF IndInv, TypeOK, StartInv, MutationBegin, Reserve, Begin
<1>6. NoOrphanRelay'
  BY DEF IndInv, NoOrphanRelay, CallShape, MutationBegin, Reserve, Begin
<1>7. ClosedRelayIsClosing'
  BY DEF IndInv, TypeOK, ClosedRelayIsClosing, MutationBegin, Reserve, Begin
<1>8. StoppedRelayIsSilent'
  BY DEF IndInv, TypeOK, StoppedRelayIsSilent, StopLike, MutationBegin,
     Reserve, Begin
<1>9. DesktopInv'
  BY DEF IndInv, domain, DesktopInv, DesktopOwnsRelay, MutationBegin, OpenMode
<1>10. DownRelayIsSilent' /\ RelayStampedWithBoundRun' /\ UnboundRelayIsSilent'
       /\ MappingBelongsToRelay' /\ SourceBoundThroughRelay'
  BY DEF IndInv, domain, DownRelayIsSilent, RelayStampedWithBoundRun,
     UnboundRelayIsSilent, MappingBelongsToRelay, SourceBoundThroughRelay,
     MutationBegin
<1> QED
  BY <1>2, <1>3, <1>4, <1>5, <1>6, <1>7, <1>8, <1>9, <1>10 DEF IndInv

LEMMA MutationEndStep ==
  ASSUME IndInv, NEW c \in Callers, MutationEnd(c)
  PROVE  IndInv'
<1>1. call' \in [Callers -> Call]
  BY DEF IndInv, TypeOK, Call, Ops, Stages, Idle, MutationEnd, FinishOperation,
     Finish
<1>2. TypeOK'
  BY <1>1 DEF IndInv, TypeOK, domain, MutationEnd, FinishOperation
<1>3. CallShape'
  BY DEF IndInv, Idle, CallShape, MutationEnd, FinishOperation, Finish
<1>4. TokenInv'
  BY CallerAssumption DEF IndInv, TypeOK, Idle, TokenInv, OperationOwnsRelay,
     InOperation, MutationEnd, FinishOperation, Finish
<1>5. StartInv'
  BY DEF IndInv, TypeOK, NoRelay, Idle, StartInv, MutationEnd, FinishOperation,
     Finish
<1>6. NoOrphanRelay'
  BY DEF IndInv, NoOrphanRelay, DownRelayIsSilent, MutationEnd,
     FinishOperation, Finish, OwnsOperation
<1>7. ClosedRelayIsClosing'
  BY DEF IndInv, TypeOK, ClosedRelayIsClosing, MutationEnd, FinishOperation,
     Finish
<1>8. StoppedRelayIsSilent'
  BY DEF IndInv, Idle, StoppedRelayIsSilent, StopLike, MutationEnd,
     FinishOperation, Finish
<1>9. DesktopInv'
  BY CallerAssumption DEF IndInv, domain, DesktopInv, DesktopOwnsRelay,
     MutationEnd, FinishOperation, Finish, OwnsOperation
<1>10. RelayStampedWithBoundRun'
  BY DEF IndInv, domain, RelayStampedWithBoundRun, MutationEnd
<1>11. UnboundRelayIsSilent'
  BY DEF IndInv, domain, UnboundRelayIsSilent, MutationEnd
<1>12. MappingBelongsToRelay'
  BY DEF IndInv, TypeOK, MappingBelongsToRelay, MutationEnd
<1>13. DownRelayIsSilent' /\ SourceBoundThroughRelay'
  BY DEF IndInv, DownRelayIsSilent, SourceBoundThroughRelay, MutationEnd
<1> QED
  BY <1>2, <1>3, <1>4, <1>5, <1>6, <1>7, <1>8, <1>9, <1>10, <1>11, <1>12, <1>13
     DEF IndInv

LEMMA PauseDesktopBeginStep ==
  ASSUME IndInv, NEW c \in Callers, NEW gen \in Nat, NEW run \in Runs, NEW o
         \in Owners, PauseDesktopBegin(c, gen, run, o)
  PROVE  IndInv'
<1>1. call' \in [Callers -> Call]
  BY DEF IndInv, TypeOK, Call, Ops, Stages, PauseDesktopBegin, Reserve, Begin
<1>2. TypeOK'
  BY <1>1 DEF IndInv, TypeOK, domain, PauseDesktopBegin, Reserve
<1>3. CallShape'
  BY DEF IndInv, TypeOK, CallShape, PauseDesktopBegin, Reserve, Begin
<1>4. TokenInv'
  BY DEF IndInv, TypeOK, TokenInv, OperationOwnsRelay, InOperation,
     PauseDesktopBegin, Quiet, NoOperation, IsCapturing, Reserve, Begin
<1>5. StartInv'
  BY DEF IndInv, TypeOK, StartInv, PauseDesktopBegin, Reserve, Begin
<1>6. NoOrphanRelay'
  BY DEF IndInv, NoOrphanRelay, CallShape, PauseDesktopBegin, Reserve, Begin
<1>7. ClosedRelayIsClosing'
  BY DEF IndInv, TypeOK, ClosedRelayIsClosing, PauseDesktopBegin, Reserve,
     Begin
<1>8. StoppedRelayIsSilent'
  BY DEF IndInv, TypeOK, StoppedRelayIsSilent, StopLike, PauseDesktopBegin,
     Reserve, Begin
<1>9. DesktopInv'
  BY DEF IndInv, TypeOK, domain, DesktopInv, DesktopOwnsRelay,
     PauseDesktopBegin, Reserve, Begin
<1>10. DownRelayIsSilent' /\ RelayStampedWithBoundRun' /\ UnboundRelayIsSilent'
       /\ MappingBelongsToRelay' /\ SourceBoundThroughRelay'
  BY DEF IndInv, domain, DownRelayIsSilent, RelayStampedWithBoundRun,
     UnboundRelayIsSilent, MappingBelongsToRelay, SourceBoundThroughRelay,
     PauseDesktopBegin
<1> QED
  BY <1>2, <1>3, <1>4, <1>5, <1>6, <1>7, <1>8, <1>9, <1>10 DEF IndInv

LEMMA PauseDesktopEndStep ==
  ASSUME IndInv, NEW c \in Callers, PauseDesktopEnd(c)
  PROVE  IndInv'
<1>1. call' \in [Callers -> Call]
  BY DEF IndInv, TypeOK, Call, Ops, Stages, Idle, PauseDesktopEnd,
     FinishOperation, Finish
<1>2. TypeOK'
  BY <1>1 DEF IndInv, TypeOK, Modes, PauseDesktopEnd, FinishOperation
<1>3. CallShape'
  BY DEF IndInv, Idle, CallShape, PauseDesktopEnd, FinishOperation, Finish
<1>4. TokenInv'
  BY CallerAssumption DEF IndInv, TypeOK, Idle, TokenInv, OperationOwnsRelay,
     InOperation, PauseDesktopEnd, FinishOperation, Finish
<1>5. StartInv'
  BY DEF IndInv, Idle, StartInv, PauseDesktopEnd, FinishOperation, Finish
<1>6. NoOrphanRelay'
  BY DEF IndInv, TypeOK, NoOrphanRelay, PauseDesktopEnd, FinishOperation,
     Finish
<1>7. ClosedRelayIsClosing'
  BY DEF IndInv, TypeOK, ClosedRelayIsClosing, PauseDesktopEnd,
     FinishOperation, Finish
<1>8. StoppedRelayIsSilent'
  BY DEF IndInv, Idle, StoppedRelayIsSilent, StopLike, PauseDesktopEnd,
     FinishOperation, Finish
<1>9. DesktopInv'
  BY DEF IndInv, TypeOK, DesktopInv, DesktopOwnsRelay, PauseDesktopEnd,
     FinishOperation, Finish
<1>10. DownRelayIsSilent' /\ RelayStampedWithBoundRun' /\ UnboundRelayIsSilent'
       /\ MappingBelongsToRelay' /\ SourceBoundThroughRelay'
  BY DEF IndInv, DownRelayIsSilent, RelayStampedWithBoundRun,
     UnboundRelayIsSilent, MappingBelongsToRelay, SourceBoundThroughRelay,
     PauseDesktopEnd
<1> QED
  BY <1>2, <1>3, <1>4, <1>5, <1>6, <1>7, <1>8, <1>9, <1>10 DEF IndInv

LEMMA ClaimDesktopStep ==
  ASSUME IndInv, NEW gen \in Nat, NEW run \in Runs, NEW o \in Owners,
         ClaimDesktop(gen, run, o)
  PROVE  IndInv'
<1>1. TypeOK'
  BY DEF IndInv, TypeOK, Modes, tokens, ClaimDesktop
<1>2. DesktopInv'
  BY RunAssumption, OwnerAssumption DEF IndInv, tokens, DesktopInv,
     DesktopOwnsRelay, ClaimDesktop, Quiet, NoOperation, IsCapturing
<1>3. CallShape' /\ TokenInv' /\ StartInv' /\ NoOrphanRelay' /\
      DownRelayIsSilent' /\ ClosedRelayIsClosing' /\ StoppedRelayIsSilent' /\
      RelayStampedWithBoundRun' /\ UnboundRelayIsSilent' /\
      MappingBelongsToRelay' /\ SourceBoundThroughRelay'
  BY DEF IndInv, tokens, CallShape, TokenInv, OperationOwnsRelay, InOperation,
     StartInv, NoOrphanRelay, DownRelayIsSilent, ClosedRelayIsClosing,
     StoppedRelayIsSilent, StopLike, RelayStampedWithBoundRun,
     UnboundRelayIsSilent, MappingBelongsToRelay, SourceBoundThroughRelay,
     ClaimDesktop, Quiet, NoOperation
<1> QED
  BY <1>1, <1>2, <1>3 DEF IndInv

LEMMA ReleaseDesktopStep ==
  ASSUME IndInv, NEW gen \in Nat, NEW o \in Owners, ReleaseDesktop(gen, o)
  PROVE  IndInv'
<1>1. TypeOK'
  BY DEF IndInv, TypeOK, Modes, tokens, ReleaseDesktop
<1>2. DesktopInv'
  BY DEF IndInv, TypeOK, DesktopInv, DesktopOwnsRelay, ReleaseDesktop
<1>3. CallShape' /\ TokenInv' /\ StartInv' /\ NoOrphanRelay' /\
      DownRelayIsSilent' /\ ClosedRelayIsClosing' /\ StoppedRelayIsSilent' /\
      RelayStampedWithBoundRun' /\ UnboundRelayIsSilent' /\
      MappingBelongsToRelay' /\ SourceBoundThroughRelay'
  BY DEF IndInv, tokens, CallShape, TokenInv, OperationOwnsRelay, InOperation,
     StartInv, NoOrphanRelay, DownRelayIsSilent, ClosedRelayIsClosing,
     StoppedRelayIsSilent, StopLike, RelayStampedWithBoundRun,
     UnboundRelayIsSilent, MappingBelongsToRelay, SourceBoundThroughRelay,
     ReleaseDesktop, Quiet, NoOperation
<1> QED
  BY <1>1, <1>2, <1>3 DEF IndInv

LEMMA SetMappingStep ==
  ASSUME IndInv, NEW gen \in Nat, NEW run \in Runs, NEW o \in Owners,
         SetMapping(gen, run, o)
  PROVE  IndInv'
<1>1. TypeOK'
  BY DEF IndInv, TypeOK, domain, tokens, Mapping, SetMapping, IsCapturing
<1>2. MappingBelongsToRelay'
  BY DEF IndInv, TypeOK, MappingBelongsToRelay, SetMapping
<1>3. SourceBoundThroughRelay'
  BY DEF IndInv, TypeOK, SourceBoundThroughRelay, SetMapping
<1>4. CallShape' /\ TokenInv' /\ StartInv' /\ NoOrphanRelay' /\
      DownRelayIsSilent' /\ ClosedRelayIsClosing' /\ StoppedRelayIsSilent' /\
      DesktopInv' /\ RelayStampedWithBoundRun' /\ UnboundRelayIsSilent'
  BY DEF IndInv, domain, tokens, CallShape, TokenInv, OperationOwnsRelay,
     InOperation, StartInv, NoOrphanRelay, DownRelayIsSilent,
     ClosedRelayIsClosing, StoppedRelayIsSilent, StopLike, DesktopInv,
     DesktopOwnsRelay, RelayStampedWithBoundRun, UnboundRelayIsSilent,
     SetMapping
<1> QED
  BY <1>1, <1>2, <1>3, <1>4 DEF IndInv

LEMMA ClearMappingStep ==
  ASSUME IndInv, NEW gen \in Nat, NEW run \in Runs, NEW o \in Owners,
         ClearMapping(gen, run, o)
  PROVE  IndInv'
<1>1. TypeOK'
  BY DEF IndInv, TypeOK, domain, tokens, ClearMapping
<1>2. MappingBelongsToRelay'
  BY DEF IndInv, TypeOK, MappingBelongsToRelay, ClearMapping
<1>3. SourceBoundThroughRelay'
  BY DEF IndInv, TypeOK, SourceBoundThroughRelay, ClearMapping
<1>4. CallShape' /\ TokenInv' /\ StartInv' /\ NoOrphanRelay' /\
      DownRelayIsSilent' /\ ClosedRelayIsClosing' /\ StoppedRelayIsSilent' /\
      DesktopInv' /\ RelayStampedWithBoundRun' /\ UnboundRelayIsSilent'
  BY DEF IndInv, domain, tokens, CallShape, TokenInv, OperationOwnsRelay,
     InOperation, CloseStillOwns, StartInv, NoOrphanRelay, DownRelayIsSilent,
     ClosedRelayIsClosing, StoppedRelayIsSilent, StopLike, DesktopInv,
     DesktopOwnsRelay, RelayStampedWithBoundRun, UnboundRelayIsSilent,
     ClearMapping
<1> QED
  BY <1>1, <1>2, <1>3, <1>4 DEF IndInv

LEMMA BindSourceStep ==
  ASSUME IndInv, NEW via \in Conduits \cup {NoRelay}, BindSource(via)
  PROVE  IndInv'
<1>1. TypeOK'
  BY RunAssumption, OwnerAssumption, CallerAssumption, StartsAssumption DEF
     IndInv, TypeOK, Modes, NoRelay, Relays, Call, domain, tokens, Mapping,
     NoMapping, BindSource, Conduits, Marker, IsCapturing
<1>2. MappingBelongsToRelay'
  BY DEF IndInv, TypeOK, MappingBelongsToRelay, BindSource
<1>3. SourceBoundThroughRelay'
  BY RunAssumption DEF IndInv, TypeOK, SourceBoundThroughRelay, Mapping,
     BindSource, Marker
<1>4. CallShape' /\ TokenInv' /\ StartInv' /\ NoOrphanRelay' /\
      DownRelayIsSilent' /\ ClosedRelayIsClosing' /\ StoppedRelayIsSilent' /\
      DesktopInv' /\ RelayStampedWithBoundRun' /\ UnboundRelayIsSilent'
  BY DEF IndInv, domain, tokens, CallShape, TokenInv, OperationOwnsRelay,
     InOperation, StartInv, NoOrphanRelay, DownRelayIsSilent,
     ClosedRelayIsClosing, StoppedRelayIsSilent, StopLike, DesktopInv,
     DesktopOwnsRelay, RelayStampedWithBoundRun, UnboundRelayIsSilent,
     BindSource
<1> QED
  BY <1>1, <1>2, <1>3, <1>4 DEF IndInv

LEMMA BindGatewayRunStep ==
  ASSUME IndInv, NEW run \in Runs, BindGatewayRun(run)
  PROVE  IndInv'
<1>1. TypeOK'
  BY DEF IndInv, TypeOK, tokens, BindGatewayRun
<1>2. DesktopInv'
  BY DEF IndInv, TypeOK, DesktopInv, DesktopOwnsRelay, BindGatewayRun
<1>3. RelayStampedWithBoundRun'
  BY DEF IndInv, TypeOK, RelayStampedWithBoundRun, BindGatewayRun
<1>4. UnboundRelayIsSilent'
  BY DEF IndInv, TypeOK, UnboundRelayIsSilent, BindGatewayRun
<1>5. CallShape' /\ TokenInv' /\ StartInv' /\ NoOrphanRelay' /\
      DownRelayIsSilent' /\ ClosedRelayIsClosing' /\ StoppedRelayIsSilent' /\
      MappingBelongsToRelay' /\ SourceBoundThroughRelay'
  BY DEF IndInv, tokens, CallShape, TokenInv, OperationOwnsRelay, InOperation,
     StartInv, NoOrphanRelay, DownRelayIsSilent, ClosedRelayIsClosing,
     StoppedRelayIsSilent, StopLike, MappingBelongsToRelay,
     SourceBoundThroughRelay, BindGatewayRun
<1> QED
  BY <1>1, <1>2, <1>3, <1>4, <1>5 DEF IndInv

LEMMA LostEnterStep ==
  ASSUME IndInv, NEW c \in Callers, NEW run \in Runs, NEW abnormal \in BOOLEAN,
         LostEnter(c, run, abnormal)
  PROVE  IndInv'
<1>1. call' \in [Callers -> Call]
  BY DEF IndInv, TypeOK, Call, Ops, Stages, LostEnter
<1>2. TypeOK'
  BY <1>1 DEF IndInv, TypeOK, domain, tokens, LostEnter
<1>3. CallShape'
  BY DEF IndInv, TypeOK, CallShape, LostEnter
<1>4. TokenInv'
  BY DEF IndInv, tokens, TokenInv, OperationOwnsRelay, InOperation,
     CloseStillOwns, CallShape, LostEnter
<1>5. StartInv'
  BY DEF IndInv, tokens, StartInv, LostEnter
<1>6. NoOrphanRelay'
  BY DEF IndInv, NoOrphanRelay, CallShape, LostEnter
<1>7. ClosedRelayIsClosing'
  BY DEF IndInv, tokens, ClosedRelayIsClosing, LostEnter
<1>8. StoppedRelayIsSilent'
  BY DEF IndInv, TypeOK, StoppedRelayIsSilent, StopLike, LostEnter
<1>9. DesktopInv'
  BY DEF IndInv, domain, tokens, DesktopInv, DesktopOwnsRelay, LostEnter
<1>10. DownRelayIsSilent' /\ RelayStampedWithBoundRun' /\ UnboundRelayIsSilent'
       /\ MappingBelongsToRelay' /\ SourceBoundThroughRelay'
  BY DEF IndInv, domain, DownRelayIsSilent, RelayStampedWithBoundRun,
     UnboundRelayIsSilent, MappingBelongsToRelay, SourceBoundThroughRelay,
     LostEnter
<1> QED
  BY <1>2, <1>3, <1>4, <1>5, <1>6, <1>7, <1>8, <1>9, <1>10 DEF IndInv

LEMMA LostJoinsCloseStep ==
  ASSUME IndInv, NEW c \in Callers, LostJoinsClose(c)
  PROVE  IndInv'
<1>1. call' \in [Callers -> Call]
  BY DEF IndInv, TypeOK, Call, Stages, LostJoinsClose
<1>2. TypeOK'
  BY <1>1 DEF IndInv, TypeOK, domain, tokens, LostJoinsClose
<1>3. CallShape'
  BY DEF IndInv, CallShape, LostJoinsClose, LostEntered
<1>4. TokenInv'
  BY CallerAssumption DEF IndInv, tokens, TokenInv, OperationOwnsRelay,
     InOperation, CloseStillOwns, LostJoinsClose
<1>5. StartInv'
  BY DEF IndInv, tokens, StartInv, LostJoinsClose
<1>6. NoOrphanRelay'
  BY DEF IndInv, TypeOK, NoOrphanRelay, LostJoinsClose
<1>7. ClosedRelayIsClosing'
  BY DEF IndInv, tokens, ClosedRelayIsClosing, LostJoinsClose, LostEntered
<1>8. StoppedRelayIsSilent'
  BY DEF IndInv, TypeOK, StoppedRelayIsSilent, StopLike, LostJoinsClose
<1>9. DesktopInv'
  BY DEF IndInv, domain, DesktopInv, DesktopOwnsRelay, LostJoinsClose
<1>10. DownRelayIsSilent' /\ RelayStampedWithBoundRun' /\ UnboundRelayIsSilent'
       /\ MappingBelongsToRelay' /\ SourceBoundThroughRelay'
  BY DEF IndInv, domain, DownRelayIsSilent, RelayStampedWithBoundRun,
     UnboundRelayIsSilent, MappingBelongsToRelay, SourceBoundThroughRelay,
     LostJoinsClose
<1> QED
  BY <1>2, <1>3, <1>4, <1>5, <1>6, <1>7, <1>8, <1>9, <1>10 DEF IndInv

LEMMA LostStaleStep ==
  ASSUME IndInv, NEW c \in Callers, LostStale(c)
  PROVE  IndInv'
<1>1. call' \in [Callers -> Call]
  BY DEF IndInv, TypeOK, Call, Ops, Stages, Idle, LostStale, Finish
<1>2. TypeOK'
  BY <1>1 DEF IndInv, TypeOK, domain, tokens, LostStale
<1>3. CallShape'
  BY DEF IndInv, Idle, CallShape, LostStale, Finish
<1>4. TokenInv'
  BY DEF IndInv, Idle, tokens, TokenInv, OperationOwnsRelay, InOperation,
     LostStale, NoOperation, Finish
<1>5. StartInv'
  BY DEF IndInv, Idle, tokens, StartInv, LostStale, Finish
<1>6. NoOrphanRelay'
  BY DEF IndInv, NoOrphanRelay, LostStale, LostEntered, Finish
<1>7. ClosedRelayIsClosing'
  BY DEF IndInv, ClosedRelayIsClosing, LostStale, NoOperation
<1>8. StoppedRelayIsSilent'
  BY DEF IndInv, Idle, StoppedRelayIsSilent, StopLike, LostStale, Finish
<1>9. DesktopInv'
  BY DEF IndInv, domain, tokens, DesktopInv, DesktopOwnsRelay, LostStale,
     NoOperation
<1>10. DownRelayIsSilent' /\ RelayStampedWithBoundRun' /\ UnboundRelayIsSilent'
       /\ MappingBelongsToRelay' /\ SourceBoundThroughRelay'
  BY DEF IndInv, domain, DownRelayIsSilent, RelayStampedWithBoundRun,
     UnboundRelayIsSilent, MappingBelongsToRelay, SourceBoundThroughRelay,
     LostStale
<1> QED
  BY <1>2, <1>3, <1>4, <1>5, <1>6, <1>7, <1>8, <1>9, <1>10 DEF IndInv

LEMMA LostWithoutRelayStep ==
  ASSUME IndInv, NEW c \in Callers, LostWithoutRelay(c)
  PROVE  IndInv'
<1>1. call' \in [Callers -> Call]
  BY DEF IndInv, TypeOK, Call, Ops, Stages, Idle, LostWithoutRelay, Finish
<1>2. TypeOK'
  BY <1>1 DEF IndInv, TypeOK, Modes, tokens, LostWithoutRelay
<1>3. CallShape'
  BY DEF IndInv, Idle, CallShape, LostWithoutRelay, Finish
<1>4. TokenInv'
  BY DEF IndInv, Idle, tokens, TokenInv, OperationOwnsRelay, InOperation,
     LostWithoutRelay, Finish
<1>5. StartInv'
  BY DEF IndInv, Idle, StartInv, LostWithoutRelay, Finish
<1>6. NoOrphanRelay'
  BY DEF IndInv, NoOrphanRelay, LostWithoutRelay, LostEntered, Finish
<1>7. ClosedRelayIsClosing'
  BY DEF IndInv, ClosedRelayIsClosing, LostWithoutRelay, NoOperation
<1>8. StoppedRelayIsSilent'
  BY DEF IndInv, Idle, StoppedRelayIsSilent, StopLike, LostWithoutRelay, Finish
<1>9. DesktopInv'
  BY DEF IndInv, TypeOK, DesktopInv, DesktopOwnsRelay, LostWithoutRelay
<1>10. RelayStampedWithBoundRun'
  BY DEF IndInv, TypeOK, RelayStampedWithBoundRun, LostWithoutRelay
<1>11. UnboundRelayIsSilent'
  BY DEF IndInv, TypeOK, UnboundRelayIsSilent, LostWithoutRelay
<1>12. MappingBelongsToRelay'
  BY DEF IndInv, TypeOK, MappingBelongsToRelay, LostWithoutRelay
<1>13. SourceBoundThroughRelay'
  BY DEF IndInv, TypeOK, SourceBoundThroughRelay, LostWithoutRelay
<1>14. DownRelayIsSilent'
  BY DEF IndInv, DownRelayIsSilent, LostWithoutRelay
<1> QED
  BY <1>2, <1>3, <1>4, <1>5, <1>6, <1>7, <1>8, <1>9, <1>10, <1>11, <1>12,
     <1>13, <1>14 DEF IndInv

LEMMA LostBeginStep ==
  ASSUME IndInv, NEW c \in Callers, LostBegin(c)
  PROVE  IndInv'
<1>1. call' \in [Callers -> Call]
  BY DEF IndInv, TypeOK, Call, Ops, Stages, LostBegin, Reserve, Begin
<1>2. TypeOK'
  BY <1>1 DEF IndInv, TypeOK, Modes, LostBegin, Reserve
<1>3. CallShape'
  BY DEF IndInv, TypeOK, CallShape, LostBegin, Reserve, Begin
<1>4. TokenInv'
  BY DEF IndInv, TypeOK, TokenInv, OperationOwnsRelay, InOperation, LostBegin,
     NoOperation, Reserve, Begin
<1>5. StartInv'
  BY DEF IndInv, TypeOK, StartInv, LostBegin, Reserve, Begin
<1>6. NoOrphanRelay'
  BY DEF IndInv, NoOrphanRelay, LostBegin, LostEntered, Reserve, Begin
<1>7. ClosedRelayIsClosing'
  BY DEF IndInv, ClosedRelayIsClosing, LostBegin, NoOperation
<1>8. StoppedRelayIsSilent'
  BY DEF IndInv, TypeOK, StoppedRelayIsSilent, StopLike, LostBegin, Reserve,
     Begin
<1>9. DesktopInv'
  BY DEF IndInv, TypeOK, DesktopInv, DesktopOwnsRelay, LostBegin, Reserve,
     Begin
<1>10. MappingBelongsToRelay'
  BY DEF IndInv, TypeOK, MappingBelongsToRelay, LostBegin
<1>11. SourceBoundThroughRelay'
  BY DEF IndInv, TypeOK, SourceBoundThroughRelay, LostBegin
<1>12. DownRelayIsSilent' /\ RelayStampedWithBoundRun' /\ UnboundRelayIsSilent'
  BY DEF IndInv, DownRelayIsSilent, RelayStampedWithBoundRun,
     UnboundRelayIsSilent, LostBegin
<1> QED
  BY <1>2, <1>3, <1>4, <1>5, <1>6, <1>7, <1>8, <1>9, <1>10, <1>11, <1>12 DEF
     IndInv

LEMMA LostEndStep ==
  ASSUME IndInv, NEW c \in Callers, LostEnd(c)
  PROVE  IndInv'
<1>1. call' \in [Callers -> Call]
  BY DEF IndInv, TypeOK, Call, Ops, Stages, Idle, LostEnd, FinishOperation,
     Finish
<1>2. TypeOK'
  BY <1>1 DEF IndInv, TypeOK, Modes, LostEnd, FinishOperation
<1>3. CallShape'
  BY DEF IndInv, Idle, CallShape, LostEnd, FinishOperation, Finish
<1>4. TokenInv'
  BY CallerAssumption DEF IndInv, TypeOK, Idle, TokenInv, OperationOwnsRelay,
     InOperation, LostEnd, FinishOperation, Finish
<1>5. StartInv'
  BY DEF IndInv, Idle, StartInv, LostEnd, FinishOperation, Finish
<1>6. NoOrphanRelay'
  BY DEF IndInv, TypeOK, NoOrphanRelay, LostEnd, FinishOperation, Finish
<1>7. ClosedRelayIsClosing'
  BY DEF IndInv, TypeOK, ClosedRelayIsClosing, LostEnd, FinishOperation, Finish
<1>8. StoppedRelayIsSilent'
  BY DEF IndInv, Idle, StoppedRelayIsSilent, StopLike, LostEnd,
     FinishOperation, Finish
<1>9. DesktopInv'
  BY DEF IndInv, TypeOK, DesktopInv, DesktopOwnsRelay, LostEnd,
     FinishOperation, Finish
<1>10. RelayStampedWithBoundRun'
  BY DEF IndInv, TypeOK, RelayStampedWithBoundRun, LostEnd
<1>11. UnboundRelayIsSilent'
  BY DEF IndInv, UnboundRelayIsSilent, StoppedRelayIsSilent, StopLike, LostEnd,
     OwnsOperation
<1>12. DownRelayIsSilent' /\ MappingBelongsToRelay' /\ SourceBoundThroughRelay'
  BY DEF IndInv, DownRelayIsSilent, MappingBelongsToRelay,
     SourceBoundThroughRelay, LostEnd
<1> QED
  BY <1>2, <1>3, <1>4, <1>5, <1>6, <1>7, <1>8, <1>9, <1>10, <1>11, <1>12 DEF
     IndInv

LEMMA ClearRecoveryStep ==
  ASSUME IndInv, NEW next \in {"idle", "capture_only"}, ClearRecovery(next)
  PROVE  IndInv'
<1>1. TypeOK'
  BY DEF IndInv, TypeOK, Modes, tokens, ClearRecovery
<1>2. DesktopInv'
  BY DEF IndInv, TypeOK, DesktopInv, DesktopOwnsRelay, ClearRecovery
<1>3. CallShape' /\ TokenInv' /\ StartInv' /\ NoOrphanRelay' /\
      DownRelayIsSilent' /\ ClosedRelayIsClosing' /\ StoppedRelayIsSilent' /\
      RelayStampedWithBoundRun' /\ UnboundRelayIsSilent' /\
      MappingBelongsToRelay' /\ SourceBoundThroughRelay'
  BY DEF IndInv, tokens, CallShape, TokenInv, OperationOwnsRelay, InOperation,
     CloseStillOwns, StartInv, NoOrphanRelay, DownRelayIsSilent,
     ClosedRelayIsClosing, StoppedRelayIsSilent, StopLike,
     RelayStampedWithBoundRun, UnboundRelayIsSilent, MappingBelongsToRelay,
     SourceBoundThroughRelay, ClearRecovery
<1> QED
  BY <1>1, <1>2, <1>3 DEF IndInv

LEMMA RelayFailsStep ==
  ASSUME IndInv, NEW r \in Relays, RelayFails(r)
  PROVE  IndInv'
<1>1. relay' \in [Relays -> Relay]
  BY DEF IndInv, TypeOK, Relay, RelayFails
<1>2. TypeOK'
  BY <1>1 DEF IndInv, TypeOK, domain, tokens, RelayFails, RelayUnchanged
<1>3. StartInv'
  BY DEF IndInv, TypeOK, Relay, StartInv, RelayFails
<1>4. NoOrphanRelay'
  BY DEF IndInv, TypeOK, NoOrphanRelay, RelayFails, RelayUnchanged
<1>5. DownRelayIsSilent'
  BY DEF IndInv, TypeOK, DownRelayIsSilent, RelayFails
<1>6. ClosedRelayIsClosing'
  BY DEF IndInv, TypeOK, Relay, ClosedRelayIsClosing, RelayFails
<1>7. StoppedRelayIsSilent'
  BY DEF IndInv, TypeOK, Relay, StoppedRelayIsSilent, RelayFails
<1>8. RelayStampedWithBoundRun'
  BY DEF IndInv, TypeOK, Relay, RelayStampedWithBoundRun, RelayFails
<1>9. UnboundRelayIsSilent'
  BY DEF IndInv, TypeOK, Relay, UnboundRelayIsSilent, RelayFails
<1>10. SourceBoundThroughRelay'
  BY DEF IndInv, TypeOK, SourceBoundThroughRelay, Mapping, RelayFails,
     RelayUnchanged
<1>11. CallShape' /\ TokenInv' /\ DesktopInv' /\ MappingBelongsToRelay'
  BY DEF IndInv, domain, tokens, CallShape, TokenInv, OperationOwnsRelay,
     InOperation, CloseStillOwns, DesktopInv, DesktopOwnsRelay,
     MappingBelongsToRelay, RelayFails, RelayUnchanged
<1> QED
  BY <1>2, <1>3, <1>4, <1>5, <1>6, <1>7, <1>8, <1>9, <1>10, <1>11 DEF IndInv
-----------------------------------------------------------------------------
LEMMA StutterStep == IndInv /\ UNCHANGED vars => IndInv'
<1> SUFFICES ASSUME IndInv, UNCHANGED vars PROVE IndInv'
  OBVIOUS
<1> USE DEF vars
<1>1. TypeOK' /\ CallShape' /\ NoOrphanRelay' /\ DownRelayIsSilent'
  BY DEF IndInv, TypeOK, CallShape, NoOrphanRelay, DownRelayIsSilent
<1>2. TokenInv' /\ DesktopInv'
  BY DEF IndInv, TokenInv, OperationOwnsRelay, CloseStillOwns, InOperation,
     DesktopInv, DesktopOwnsRelay
<1>3. StartInv' /\ ClosedRelayIsClosing' /\ StoppedRelayIsSilent'
  BY DEF IndInv, StartInv, ClosedRelayIsClosing, StoppedRelayIsSilent, StopLike
<1>4. /\ RelayStampedWithBoundRun' /\ UnboundRelayIsSilent'
      /\ MappingBelongsToRelay' /\ SourceBoundThroughRelay'
  BY DEF IndInv, RelayStampedWithBoundRun, UnboundRelayIsSilent,
     MappingBelongsToRelay, SourceBoundThroughRelay
<1> QED
  BY <1>1, <1>2, <1>3, <1>4 DEF IndInv

LEMMA InitInv == Init => IndInv
<1> SUFFICES ASSUME Init PROVE IndInv
  OBVIOUS
<1> USE RunAssumption, OwnerAssumption, CallerAssumption, StartsAssumption
<1>1. /\ \A c \in Callers : call[c] = Idle
      /\ \A r \in Relays : relay[r] = FreshRelay
  BY DEF Init
<1>2. TypeOK
  <2>1. Idle \in Call
    BY DEF Idle, Call, Ops, Stages, NoRelay
  <2>2. FreshRelay \in Relay
    BY DEF FreshRelay, Relay
  <2> QED
    BY <2>1, <2>2 DEF Init, TypeOK, Modes, NoRelay
<1>3. CallShape /\ TokenInv /\ DesktopInv
  BY <1>1 DEF Init, Idle, CallShape, TokenInv, OperationOwnsRelay, InOperation,
     DesktopInv, DesktopOwnsRelay
<1>4. StartInv
  BY <1>1 DEF Init, Idle, FreshRelay, StartInv, NoRelay
<1>5. NoOrphanRelay /\ DownRelayIsSilent /\ ClosedRelayIsClosing /\ StoppedRelayIsSilent
  BY <1>1 DEF Init, Idle, FreshRelay, NoOrphanRelay, DownRelayIsSilent,
     ClosedRelayIsClosing, StoppedRelayIsSilent
<1>6. /\ RelayStampedWithBoundRun /\ UnboundRelayIsSilent
      /\ MappingBelongsToRelay /\ SourceBoundThroughRelay
  BY DEF Init, RelayStampedWithBoundRun, UnboundRelayIsSilent,
     MappingBelongsToRelay, SourceBoundThroughRelay
<1> QED
  BY <1>2, <1>3, <1>4, <1>5, <1>6 DEF IndInv

LEMMA Inductive == IndInv /\ [Next]_vars => IndInv'
<1> SUFFICES ASSUME IndInv, [Next]_vars PROVE IndInv'
  OBVIOUS
<1>1. 0..generation \subseteq Nat
  BY DEF IndInv, TypeOK
<1>2. ASSUME NEW c \in Callers, Continue(c) PROVE IndInv'
  BY <1>2, StartBuildStep, StartCommitStep, StartRejectStep, StartDiscardStep,
     PauseAtOnceStep, PauseDrainsStep, PauseSettlesStep, CloseAgainStep,
     StopDrainsStep, StopSettlesStep, CloseCommitStep, MutationEndStep,
     PauseDesktopEndStep, LostEndStep DEF Continue
<1>3. ASSUME NEW c \in Callers, LostLook(c) PROVE IndInv'
  BY <1>3, LostJoinsCloseStep, LostStaleStep, LostWithoutRelayStep, LostBeginStep
     DEF LostLook
<1>4. ASSUME NEW c \in Callers, Operate(c) PROVE IndInv'
  BY <1>1, <1>4, StartReserveStep, CloseReservationStep, CloseBeginStep,
     MutationBeginStep, PauseDesktopBeginStep DEF Operate
<1>5. ASSUME NEW c \in Callers, Gateway(c) PROVE IndInv'
  BY <1>5, BindGatewayRunStep, LostEnterStep DEF Gateway
<1>6. CASE Decide
  BY <1>1, <1>6, ClaimDesktopStep, ReleaseDesktopStep, SetMappingStep,
     ClearMappingStep, BindSourceStep, ClearRecoveryStep DEF Decide
<1>7. ASSUME NEW r \in Relays, RelayFails(r) PROVE IndInv'
  BY <1>7, RelayFailsStep
<1>8. CASE UNCHANGED vars
  BY <1>8, StutterStep
<1> QED
  BY <1>2, <1>3, <1>4, <1>5, <1>6, <1>7, <1>8 DEF Next

LEMMA Invariance == Spec => []IndInv
  BY InitInv, Inductive, PTL DEF Spec
-----------------------------------------------------------------------------
(* What every reachable state of the Service satisfies.                    *)

\* The Service's fields keep their types.
THEOREM TypeCorrect == Spec => []TypeOK
<1>1. IndInv => TypeOK
  BY DEF IndInv
<1> QED
  BY <1>1, Invariance, PTL

\* No StartCapture, PauseCapture, StopCapture, CloseCapture or MarkGatewayLost,
\* in any interleaving, leaves a listener behind that the Service cannot reach.
THEOREM ListenersAreOwned == Spec => []NoOrphanRelay
<1>1. IndInv => NoOrphanRelay
  BY DEF IndInv
<1> QED
  BY <1>1, Invariance, PTL

\* The token of an operation (reserveProxyOperationLocked, closeOp) stays valid
\* until it is given back: ownsProxyOperationLocked fails on its owner only.
THEOREM OperationsAreExclusive == Spec => []OperationOwnsRelay
<1>1. IndInv => OperationOwnsRelay
  BY DEF IndInv, TokenInv
<1> QED
  BY <1>1, Invariance, PTL

\* ModeDesktop always has a relay, an owner and a gateway run.
THEOREM DesktopIsGrounded == Spec => []DesktopOwnsRelay
<1>1. IndInv => DesktopOwnsRelay
  BY DEF IndInv, DesktopInv
<1> QED
  BY <1>1, Invariance, PTL

\* Both at once: a claim on the relay, by token or by mode, is never about
\* another relay or none.
THEOREM HoldersAreGrounded == Spec => []HoldersOwnRelay
<1>1. OperationOwnsRelay /\ DesktopOwnsRelay => HoldersOwnRelay
  BY DEF HoldersOwnRelay
<1> QED
  BY <1>1, OperationsAreExclusive, DesktopIsGrounded, PTL

\* The instance stamped on relayed requests is the bound run's: StartCapture's
\* commit gate notices every rebind, and BindGatewayRun refuses the others. A
\* relay kept without a gateway run no longer listens.
THEOREM StampIsCurrent == Spec => []RequestsCarryBoundRun
<1>1. IndInv => RequestsCarryBoundRun
  BY DEF IndInv, RequestsCarryBoundRun
<1> QED
  BY <1>1, Invariance, PTL

\* The model mapping never carries over from one relay to the next: whoever
\* commits a relay has cleared it.
THEOREM MappingIsCurrent == Spec => []MappingBelongsToRelay
<1>1. IndInv => MappingBelongsToRelay
  BY DEF IndInv
<1> QED
  BY <1>1, Invariance, PTL

\* ObservedModelFor learns the source model through a relay of the mapping's own
\* run only, and no later relay takes that relay's place in the evidence.
THEOREM SourceIsRelayed == Spec => []SourceBoundThroughRelay
<1>1. IndInv => SourceBoundThroughRelay
  BY DEF IndInv
<1> QED
  BY <1>1, Invariance, PTL

\* Both at once: neither the relay of a mapping nor the source it learnt is left
\* over from an earlier capture or run.
THEOREM MappingStaysFresh == Spec => []MappingIsNotStale
<1>1. MappingBelongsToRelay /\ SourceBoundThroughRelay => MappingIsNotStale
  BY DEF MappingIsNotStale
<1> QED
  BY <1>1, MappingIsCurrent, SourceIsRelayed, PTL

\* A route that resolves belongs to the relay and the run it was learnt from: a
\* stale mapping never redirects a request of a later capture or gateway.
THEOREM RouteIsOwned ==
  Spec => [](Resolves => /\ mapping.relay = proxy
                         /\ relay[proxy].run = mapping.run
                         /\ relay[mapping.via].run = mapping.run)
<1>1. ASSUME IndInv, Resolves
      PROVE  /\ mapping.relay = proxy
             /\ relay[proxy].run = mapping.run
             /\ relay[mapping.via].run = mapping.run
  <2>1. mapping # NoMapping /\ proxy # NoRelay /\ mapping.bound
        /\ mapping.run = gatewayId
    BY <1>1 DEF Resolves
  <2>2. mapping.run \in Runs
    BY <1>1, <2>1 DEF IndInv, TypeOK, Mapping
  <2>3. gatewayId # NoRun
    BY <2>1, <2>2, RunAssumption
  <2> QED
    BY <1>1, <2>1, <2>3 DEF IndInv, MappingBelongsToRelay,
       RelayStampedWithBoundRun, SourceBoundThroughRelay
<1> QED
  BY <1>1, Invariance, PTL
-----------------------------------------------------------------------------
(* The evidence of a recovery or of a desktop transaction.                 *)

\* A mutation of the relay that is registered while recovery is not confirmed
\* is the desktop's pause or the end of a gateway run, which keep the relay; no
\* close is under way.
RecoveryInv ==
    mode = "recovery" =>
      /\ closeOp = NoCaller
      /\ activeOp # NoCaller => call[activeOp].op \in {"pauseDesktop", "gatewayEnd"}

\* What the two parts of EvidenceIsKept say of one step.
RecoveryKept ==
    mode = "recovery" =>
      \/ mode' = "recovery" /\ UNCHANGED <<proxy, generation, owner, startSeq>>
      \/ Confirmed
      \/ NormalEnd
      \/ LateStart

DesktopKept ==
    mode = "desktop" =>
      \/ /\ mode' \in {"desktop", "recovery"}
         /\ UNCHANGED <<proxy, generation, gatewayId, owner>>
      \/ Released
      \/ NormalEnd

EvidenceKept == RecoveryKept /\ DesktopKept

Guarded == RecoveryInv' /\ EvidenceKept

\* The registered mutation stays what it is.
QuietCall == \A c \in Callers : activeOp = c => call'[c].op = call[c].op

\* Calls that leave the mode, the evidence and the registered mutation alone.
LEMMA QuietStep ==
  ASSUME IndInv, RecoveryInv,
         UNCHANGED <<proxy, generation, domain, startSeq, activeOp, closeOp>>, QuietCall
  PROVE  Guarded
BY DEF QuietCall, IndInv, TypeOK, RecoveryInv, Guarded, EvidenceKept, RecoveryKept,
   DesktopKept, domain

\* What a call in flight does next.
LEMMA ContinueStep ==
  ASSUME IndInv, RecoveryInv, NEW c \in Callers, Continue(c)
  PROVE  Guarded
<1>1. CASE StartCommit(c)
  <2>1. mode # "desktop"
    BY <1>1 DEF IndInv, DesktopInv, DesktopOwnsRelay, StartCommit, StartGate
  <2>2. IndInv'
    BY <1>1, StartCommitStep
  <2>3. activeStart # NoRelay
    BY <1>1 DEF IndInv, StartInv, StartCommit, StartGate, OwnsReservation, NoRelay
  <2>4. LateStart
    BY <1>1, <2>2, <2>3 DEF IndInv, LateStart, StartCommit, StartGate, OwnsReservation
  <2>5. RecoveryInv'
    BY <1>1 DEF RecoveryInv, StartCommit
  <2> QED
    BY <2>1, <2>4, <2>5 DEF Guarded, EvidenceKept, RecoveryKept, DesktopKept
<1>s. /\ \A s \in Stages : call' = [call EXCEPT ![c].stage = s] => QuietCall
      /\ \A s \in Stages, ok \in BOOLEAN :
           call' = [call EXCEPT ![c].stage = s, ![c].ok = ok] => QuietCall
  BY DEF IndInv, TypeOK, Call, QuietCall
<1>2. CASE StartReject(c) \/ \E ok \in BOOLEAN : StartBuild(c, ok)
  BY <1>2, <1>s, QuietStep DEF StartReject, StartBuild, domain, tokens, Stages
<1>3. ASSUME NEW ok \in BOOLEAN, StartDiscard(c, ok) PROVE Guarded
  <2>1. activeOp # c
    BY <1>3 DEF IndInv, TokenInv, InOperation, StartDiscard
  <2> QED
    BY <1>3, <2>1, QuietStep DEF IndInv, TypeOK, QuietCall, StartDiscard, Finish, domain, tokens
<1>4. CASE \/ PauseAtOnce(c) \/ PauseDrains(c) \/ CloseAgain(c) \/ StopDrains(c)
            \/ \E ok \in BOOLEAN : PauseSettles(c, ok) \/ StopSettles(c, ok)
  <2>1. QuietCall
    BY <1>4, <1>s DEF PauseAtOnce, PauseDrains, CloseAgain, StopDrains, PauseSettles,
       StopSettles, Settle, Stages
  <2>2. UNCHANGED <<proxy, generation, domain, startSeq, activeOp, closeOp>>
    BY <1>4 DEF PauseAtOnce, PauseDrains, CloseAgain, StopDrains, PauseSettles, StopSettles,
       RelayUnchanged, tokens
  <2> QED
    BY <2>1, <2>2, QuietStep
<1>5. CASE CloseCommit(c)
  <2>1. closeOp = c /\ activeOp = NoCaller
    BY <1>5, CallerAssumption DEF IndInv, TokenInv, OperationOwnsRelay, CloseCommit
  <2>2. mode \notin {"desktop", "recovery"}
    BY <2>1, CallerAssumption DEF IndInv, DesktopInv, RecoveryInv
  <2>3. RecoveryInv'
    BY <1>5, <2>1 DEF RecoveryInv, CloseCommit, CloseFinish
  <2> QED
    BY <2>2, <2>3 DEF Guarded, EvidenceKept, RecoveryKept, DesktopKept
<1>6. CASE MutationEnd(c)
  <2>1. activeOp = c /\ c # NoCaller
    BY <1>6, CallerAssumption DEF IndInv, TokenInv, InOperation, MutationEnd
  <2>2. mode \notin {"recovery", "desktop"}
    BY <1>6, <2>1 DEF MutationEnd, RecoveryInv, IndInv, DesktopInv
  <2> QED
    BY <1>6, <2>1, <2>2 DEF Guarded, RecoveryInv, EvidenceKept, RecoveryKept, DesktopKept,
       MutationEnd, domain
<1>7. CASE PauseDesktopEnd(c)
  <2>1. activeOp = c /\ c # NoCaller
    BY <1>7, CallerAssumption DEF IndInv, TokenInv, InOperation, PauseDesktopEnd
  <2>2. closeOp = NoCaller
    BY <2>1 DEF IndInv, TokenInv, OperationOwnsRelay
  <2> QED
    BY <1>7, <2>1, <2>2 DEF Guarded, RecoveryInv, EvidenceKept, RecoveryKept, DesktopKept,
       PauseDesktopEnd, FinishOperation
<1>8. CASE LostEnd(c)
  <2>1. activeOp = c /\ c # NoCaller
    BY <1>8, CallerAssumption DEF IndInv, TokenInv, InOperation, LostEnd
  <2>2. closeOp = NoCaller
    BY <2>1 DEF IndInv, TokenInv, OperationOwnsRelay
  <2>3. IndInv'
    BY <1>8, LostEndStep
  <2>4. \/ mode' \in {mode, "recovery"} /\ UNCHANGED gatewayId
        \/ NormalEnd
    BY <1>8, <2>3 DEF IndInv, NormalEnd, LostEnd
  <2>5. RecoveryInv'
    BY <1>8, <2>1, <2>2 DEF RecoveryInv, LostEnd, FinishOperation
  <2> QED
    BY <1>8, <2>4, <2>5 DEF Guarded, EvidenceKept, RecoveryKept, DesktopKept, LostEnd
<1> QED
  BY <1>1, <1>2, <1>3, <1>4, <1>5, <1>6, <1>7, <1>8 DEF Continue

\* The end of a gateway run, up to its own mutation.
LEMMA LostLookStep ==
  ASSUME IndInv, RecoveryInv, NEW c \in Callers, LostLook(c)
  PROVE  Guarded
<1>1. CASE LostJoinsClose(c)
  BY <1>1, QuietStep DEF IndInv, TypeOK, Call, QuietCall, LostJoinsClose, domain, tokens
<1>2. CASE LostStale(c)
  BY <1>2, CallerAssumption, QuietStep
     DEF IndInv, TypeOK, QuietCall, LostStale, NoOperation, domain, tokens
<1>3. CASE LostWithoutRelay(c)
  <2>1. RecoveryInv'
    BY <1>3 DEF RecoveryInv, LostWithoutRelay, NoOperation, tokens
  <2>2. mode # "desktop"
    BY <1>3 DEF IndInv, DesktopInv, DesktopOwnsRelay, LostWithoutRelay
  <2>3. mode' = "recovery" \/ NormalEnd
    BY <1>3 DEF NormalEnd, UnboundRelayIsSilent, LostWithoutRelay
  <2> QED
    BY <1>3, <2>1, <2>2, <2>3 DEF Guarded, EvidenceKept, RecoveryKept, DesktopKept,
       LostWithoutRelay
<1>4. CASE LostBegin(c)
  BY <1>4 DEF IndInv, TypeOK, Guarded, RecoveryInv, EvidenceKept, RecoveryKept, DesktopKept,
     LostBegin, NoOperation, Reserve, Begin
<1> QED
  BY <1>1, <1>2, <1>3, <1>4 DEF LostLook

\* New operations: the management surface finds neither mode, the desktop only its
\* own.
LEMMA OperateStep ==
  ASSUME IndInv, RecoveryInv, NEW c \in Callers, Operate(c)
  PROVE  Guarded
<1>1. CASE StartReserve(c) \/ CloseReservation(c) \/ CloseBegin(c)
           \/ \E op \in {"pause", "stop", "clear"} : MutationBegin(c, op)
  BY <1>1 DEF Guarded, RecoveryInv, EvidenceKept, RecoveryKept, DesktopKept, StartReserve,
     CloseReservation, CloseBegin, MutationBegin, OpenMode, domain
<1>2. ASSUME NEW gen, NEW run, NEW o, PauseDesktopBegin(c, gen, run, o)
      PROVE  Guarded
  BY <1>2 DEF Guarded, RecoveryInv, EvidenceKept, RecoveryKept, DesktopKept,
     PauseDesktopBegin, domain
<1> QED
  BY <1>1, <1>2 DEF Operate

\* Decisions taken under the mutex, and what the gateway brings about.
LEMMA DecideStep ==
  ASSUME IndInv, RecoveryInv,
         Decide \/ (\E c \in Callers : Gateway(c)) \/ \E r \in Relays : RelayFails(r)
  PROVE  Guarded
<1>1. ASSUME NEW gen, NEW run, NEW o, ClaimDesktop(gen, run, o) PROVE Guarded
  BY <1>1 DEF Guarded, RecoveryInv, EvidenceKept, RecoveryKept, DesktopKept, ClaimDesktop
<1>2. ASSUME NEW gen, NEW o, ReleaseDesktop(gen, o) PROVE Guarded
  <2>1. Released
    BY <1>2 DEF Released, ReleaseDesktop
  <2>2. mode = "desktop" /\ mode' = "capture_only"
    BY <1>2 DEF ReleaseDesktop
  <2> QED
    BY <2>1, <2>2 DEF Guarded, RecoveryInv, EvidenceKept, RecoveryKept, DesktopKept
<1>3. ASSUME NEW next \in {"idle", "capture_only"}, ClearRecovery(next) PROVE Guarded
  <2>1. Confirmed
    BY <1>3 DEF Confirmed
  <2>2. mode = "recovery" /\ mode' # "recovery"
    BY <1>3 DEF ClearRecovery
  <2> QED
    BY <2>1, <2>2 DEF Guarded, RecoveryInv, EvidenceKept, RecoveryKept, DesktopKept
<1>4. CASE \/ \E gen \in 0..generation, run \in Runs, o \in Owners :
                 SetMapping(gen, run, o) \/ ClearMapping(gen, run, o)
           \/ \E via \in Conduits \cup {NoRelay} : BindSource(via)
           \/ \E r \in Relays : RelayFails(r)
  BY <1>4, QuietStep DEF QuietCall, SetMapping, ClearMapping, BindSource, RelayFails,
     RelayUnchanged, tokens
<1>5. ASSUME NEW run, BindGatewayRun(run) PROVE Guarded
  BY <1>5 DEF IndInv, DesktopInv, DesktopOwnsRelay, Guarded, RecoveryInv, EvidenceKept,
     RecoveryKept, DesktopKept, BindGatewayRun, tokens
<1>6. ASSUME NEW c \in Callers, NEW run, NEW abnormal, LostEnter(c, run, abnormal) PROVE Guarded
  <2>1. activeOp # c
    BY <1>6 DEF IndInv, TokenInv, CallShape, InOperation, LostEnter
  <2> QED
    BY <1>6, <2>1, QuietStep DEF IndInv, TypeOK, QuietCall, LostEnter, tokens
<1> QED
  BY <1>1, <1>2, <1>3, <1>4, <1>5, <1>6 DEF Decide, Gateway

LEMMA GuardedStep == IndInv /\ RecoveryInv /\ [Next]_vars => Guarded
<1> SUFFICES ASSUME IndInv, RecoveryInv, [Next]_vars PROVE Guarded
  OBVIOUS
<1>1. CASE UNCHANGED vars
  BY <1>1, QuietStep DEF QuietCall, vars, domain
<1> QED
  BY <1>1, ContinueStep, LostLookStep, OperateStep, DecideStep DEF Next

\* A recovery is left by the operator's confirmation, by the normal end of the
\* bound gateway run or, without a relay, by the commit of a start reserved
\* before it, and by nothing else; until then no operation, in flight or new,
\* changes the relay, the generation or the owner it is about.  A desktop
\* transaction is left by its release, into a recovery about the same relay, or
\* by the normal end of its gateway, and nothing changes under it
\* (checkExternalMutationLocked, BindGatewayRun, MarkGatewayLost, StartCapture).
THEOREM EvidenceStands == Spec => EvidenceIsKept
<1>1. Init => RecoveryInv
  BY DEF Init, RecoveryInv
<1>2. IndInv /\ RecoveryInv /\ [Next]_vars => RecoveryInv'
  BY GuardedStep DEF Guarded
<1>3. Spec => []RecoveryInv
  BY <1>1, <1>2, Invariance, PTL DEF Spec
<1>4. IndInv /\ RecoveryInv /\ [Next]_vars
        => [mode = "recovery" =>
              \/ mode' = "recovery" /\ UNCHANGED <<proxy, generation, owner, startSeq>>
              \/ Confirmed
              \/ NormalEnd
              \/ LateStart]_vars
  BY GuardedStep DEF Guarded, EvidenceKept, RecoveryKept
<1>5. IndInv /\ RecoveryInv /\ [Next]_vars
        => [mode = "desktop" =>
              \/ /\ mode' \in {"desktop", "recovery"}
                 /\ UNCHANGED <<proxy, generation, gatewayId, owner>>
              \/ Released
              \/ NormalEnd]_vars
  BY GuardedStep DEF Guarded, EvidenceKept, DesktopKept
<1> QED
  BY <1>3, <1>4, <1>5, Invariance, PTL DEF Spec, EvidenceIsKept, RecoveryKeepsEvidence,
     DesktopKeepsEvidence

-----------------------------------------------------------------------------
(***************************************************************************)
(* The composed system.                                                    *)
(***************************************************************************)
LEMMA GatewayTypeInit == GatewayInit => GatewayTypeOK
  BY DEF GatewayInit, GatewayTypeOK, Run, Phases, Statuses

\* What a run's bookkeeping can become in one step.
LEMMA RunFields ==
  ASSUME runs \in [Runs -> Run], NEW r \in Runs, NEW phase \in Phases,
         NEW b \in BOOLEAN
  PROVE  /\ [runs EXCEPT ![r].phase = phase] \in [Runs -> Run]
         /\ [runs EXCEPT ![r].phase = phase, ![r].err = b] \in [Runs -> Run]
         /\ [runs EXCEPT ![r].phase = phase, ![r].bindCalled = b] \in [Runs -> Run]
         /\ [runs EXCEPT ![r].cancelled = b, ![r].stopped = b] \in [Runs -> Run]
         /\ [runs EXCEPT ![r].cancelled = b] \in [Runs -> Run]
  BY DEF Run

LEMMA RunUpdate ==
  ASSUME runs \in [Runs -> Run], NEW r \in Runs
  PROVE  /\ \A phase \in Phases : Goto(r, phase) => runs' \in [Runs -> Run]
         /\ \A err \in BOOLEAN : EndsWith(r, err) => runs' \in [Runs -> Run]
<1>1. ASSUME NEW phase \in Phases, Goto(r, phase) PROVE runs' \in [Runs -> Run]
  <2>1. [runs EXCEPT ![r].phase = phase] \in [Runs -> Run]
    BY RunFields
  <2> QED
    BY <1>1, <2>1 DEF Goto
<1>2. ASSUME NEW err \in BOOLEAN, EndsWith(r, err) PROVE runs' \in [Runs -> Run]
  <2>1. "ended" \in Phases
    BY DEF Phases
  <2>2. [runs EXCEPT ![r].phase = "ended", ![r].err = err] \in [Runs -> Run]
    BY <2>1, RunFields
  <2> QED
    BY <1>2, <2>2 DEF EndsWith
<1> QED
  BY <1>1, <1>2

\* The steps of the gateway, whatever the Service does meanwhile.
GatewayStep ==
    \/ \E r \in Runs :
         \/ Start(r) \/ StartupFails(r) \/ Listen(r) \/ OnListening(r)
         \/ BindReturns(r, TRUE) \/ BindReturns(r, FALSE) \/ Publish(r)
         \/ ServeEnds(r) \/ EndRunCalled(r) \/ EndRunReturns(r)
         \/ EndRunSkipped(r) \/ FinishRun(r) \/ Stop(r) \/ ControlShutdown(r)
    \/ UNCHANGED gatewayVars

LEMMA GatewayTypeStep ==
  ASSUME GatewayTypeOK, GatewayStep
  PROVE  GatewayTypeOK'
<1> USE DEF GatewayTypeOK
<1>1. /\ {"new", "spawned", "listening", "binding", "bound", "serving", "ended",
          "ending", "notified", "done"} \subseteq Phases
      /\ {"stopped", "starting", "running", "stopping", "failed"} \subseteq Statuses
  BY DEF Phases, Statuses
<1>2. ASSUME NEW r \in Runs, Start(r) PROVE GatewayTypeOK'
  BY <1>1, <1>2, RunUpdate DEF Start
<1>3. ASSUME NEW r \in Runs, StartupFails(r) PROVE GatewayTypeOK'
  BY <1>3, RunUpdate DEF StartupFails
<1>4. ASSUME NEW r \in Runs, Listen(r) PROVE GatewayTypeOK'
  BY <1>1, <1>4, RunUpdate DEF Listen
<1>5. ASSUME NEW r \in Runs, OnListening(r) PROVE GatewayTypeOK'
  BY <1>1, <1>5, RunUpdate DEF OnListening
<1>6. ASSUME NEW r \in Runs, NEW ok \in BOOLEAN, BindReturns(r, ok)
      PROVE  GatewayTypeOK'
  <2>1. [runs EXCEPT ![r].phase = "bound", ![r].bindCalled = TRUE] \in [Runs -> Run]
    BY <1>1, RunFields
  <2> QED
    BY <1>6, <2>1, RunUpdate DEF BindReturns
<1>7. ASSUME NEW r \in Runs, Publish(r) PROVE GatewayTypeOK'
  BY <1>1, <1>7, RunUpdate DEF Publish
<1>8. ASSUME NEW r \in Runs, ServeEnds(r) PROVE GatewayTypeOK'
  BY <1>8, RunUpdate DEF ServeEnds
<1>9. ASSUME NEW r \in Runs, EndRunCalled(r) \/ EndRunReturns(r) \/ EndRunSkipped(r)
      PROVE  GatewayTypeOK'
  BY <1>1, <1>9, RunUpdate DEF EndRunCalled, EndRunReturns, EndRunSkipped
<1>10. ASSUME NEW r \in Runs, FinishRun(r) PROVE GatewayTypeOK'
  BY <1>1, <1>10, RunUpdate DEF FinishRun
<1>11. ASSUME NEW r \in Runs, Stop(r) PROVE GatewayTypeOK'
  <2>1. [runs EXCEPT ![r].cancelled = TRUE, ![r].stopped = TRUE] \in [Runs -> Run]
    BY <1>1, RunFields
  <2> QED
    BY <1>1, <1>11, <2>1 DEF Stop
<1>12. ASSUME NEW r \in Runs, ControlShutdown(r) PROVE GatewayTypeOK'
  <2>1. [runs EXCEPT ![r].cancelled = TRUE] \in [Runs -> Run]
    BY <1>1, RunFields
  <2> QED
    BY <1>12, <2>1 DEF ControlShutdown
<1>13. CASE UNCHANGED gatewayVars
  BY <1>13 DEF gatewayVars
<1> QED
  BY <1>2, <1>3, <1>4, <1>5, <1>6, <1>7, <1>8, <1>9, <1>10, <1>11, <1>12, <1>13
     DEF GatewayStep

\* Every step of the system is a step of the gateway or leaves it alone.
LEMMA SystemTakesGatewayStep == [SystemNext]_allVars => GatewayStep
  BY DEF SystemNext, allVars, GatewayStep, Proceed, Serve, Command, Resume, Look,
         Issue, BindRun, BindRefused, EndRun, EndRunDone

LEMMA SystemGatewayTyped == SystemSpec => []GatewayTypeOK
<1>1. SystemInit => GatewayTypeOK
  BY GatewayTypeInit DEF SystemInit
<1>2. GatewayTypeOK /\ [SystemNext]_allVars => GatewayTypeOK'
  BY GatewayTypeStep, SystemTakesGatewayStep
<1> QED
  BY <1>1, <1>2, PTL DEF SystemSpec
-----------------------------------------------------------------------------
\* A step of the system is a step of the Service, or none.
LEMMA SystemStepIsServiceStep ==
  ASSUME GatewayTypeOK, [SystemNext]_allVars
  PROVE  [Next]_vars
<1> USE GoroutineAssumption
<1>1. ASSUME NEW r \in Runs, Proceed(r) PROVE [Next]_vars
  <2>1. CASE BindRun(r)
    BY <2>1 DEF BindRun, Next, Gateway
  <2>2. CASE EndRun(r)
    <3>1. runs[r].err \in BOOLEAN
      BY DEF GatewayTypeOK, Run
    <3> QED BY <2>2, <3>1 DEF EndRun, Abnormal, Next, Gateway
  <2> QED
    BY <1>1, <2>1, <2>2 DEF Proceed, BindRefused, EndRunDone
<1>2. ASSUME NEW r \in Runs, Serve(r) \/ Command(r) PROVE [Next]_vars
  BY <1>2 DEF Serve, Command
<1>3. ASSUME NEW c \in Callers, Resume(c) \/ Look(c) PROVE [Next]_vars
  BY <1>3 DEF Resume, Look, Next
<1>4. CASE Issue
  BY <1>4 DEF Issue, Next, Decide, Handlers
<1>5. CASE UNCHANGED allVars
  BY <1>5 DEF allVars
<1> QED
  BY <1>1, <1>2, <1>3, <1>4, <1>5 DEF SystemNext

\* The composition implements TrafficService: the gateway drives the Service
\* through its own operations only.
THEOREM SystemImplementsService == SystemSpec => Spec
<1>1. SystemInit => Init
  BY DEF SystemInit
<1>2. GatewayTypeOK /\ [SystemNext]_allVars => [Next]_vars
  BY SystemStepIsServiceStep
<1> QED
  BY <1>1, <1>2, SystemGatewayTyped, PTL DEF SystemSpec, Spec
-----------------------------------------------------------------------------
\* A Service call in flight wakes nobody who is not in a call.
LEMMA IdleStaysIdle ==
  ASSUME TypeOK, NEW c \in Callers, Continue(c) \/ LostLook(c),
         NEW d \in Callers, call[d].stage = "idle"
  PROVE  call'[d].stage = "idle"
<1>1. call \in [Callers -> Call]
  BY DEF TypeOK
<1>2. CASE StartCommit(c) \/ StartReject(c) \/ \E ok \in BOOLEAN : StartBuild(c, ok) \/ StartDiscard(c, ok)
  BY <1>1, <1>2 DEF StartCommit, StartReject, StartBuild, StartDiscard, Finish, Idle
<1>3. CASE \/ PauseAtOnce(c) \/ PauseDrains(c) \/ CloseAgain(c) \/ StopDrains(c)
           \/ \E ok \in BOOLEAN : PauseSettles(c, ok) \/ StopSettles(c, ok)
  BY <1>1, <1>3 DEF PauseAtOnce, PauseDrains, CloseAgain, StopDrains, PauseSettles,
     StopSettles, Settle
<1>4. CASE CloseCommit(c)
  BY <1>1, <1>4 DEF CloseCommit, CloseFinish, Idle
<1>5. CASE MutationEnd(c) \/ PauseDesktopEnd(c) \/ LostEnd(c)
  BY <1>1, <1>5 DEF MutationEnd, PauseDesktopEnd, LostEnd, FinishOperation, Finish, Idle
<1>6. CASE LostLook(c)
  BY <1>1, <1>6 DEF LostLook, LostJoinsClose, LostStale, LostWithoutRelay, LostBegin,
     LostEntered, Reserve, Begin, Finish, Idle
<1> QED
  BY <1>2, <1>3, <1>4, <1>5, <1>6 DEF Continue

\* A handler's operation, and a decision, leave the calls of the runs alone.
LEMMA IssueSparesRuns ==
  ASSUME TypeOK, Issue, NEW r \in Runs
  PROVE  call'[r] = call[r]
<1>1. call \in [Callers -> Call] /\ r \in Callers
  BY GoroutineAssumption DEF TypeOK
<1>2. ASSUME NEW h \in Handlers, Operate(h) PROVE call'[r] = call[r]
  BY <1>1, <1>2 DEF Handlers, Operate, StartReserve, CloseReservation, CloseBegin,
     MutationBegin, PauseDesktopBegin, Reserve, Begin
<1>3. ASSUME ~ \E h \in Handlers : Operate(h) PROVE UNCHANGED call
  BY <1>3 DEF Issue, ClaimDesktop, ReleaseDesktop, SetMapping, ClearMapping,
     BindSource, RelayFails, ClearRecovery
<1> QED
  BY <1>2, <1>3

\* What EndRunInsideRun and RunningIsBound need of every run: which one is
\* current, when it may be inside the Service, and that a stopped run is not
\* taken for a starting one.
RunInv ==
    /\ \A r \in Runs :
         /\ current = r <=> runs[r].phase \notin {"new", "done"}
         /\ call[r].stage # "idle" => runs[r].phase = "ending"
         /\ runs[r].phase \in {"bound", "ending"} => runs[r].bindCalled
         /\ runs[r].phase = "new" => ~runs[r].stopped
         /\ current = r /\ runs[r].stopped => status \notin {"starting", "running"}
         /\ current = r /\ status = "running" => runs[r].bindCalled
    /\ current = NoRun => status # "running"

LEMMA RunInvStep ==
  ASSUME TypeOK, GatewayTypeOK, RunInv, [SystemNext]_allVars
  PROVE  RunInv'
<1> USE RunAssumption, GoroutineAssumption DEF RunInv, GatewayTypeOK
<1>1. ASSUME NEW r \in Runs, UNCHANGED call,
             \/ StartupFails(r) \/ Listen(r) \/ OnListening(r) \/ EndRunSkipped(r)
             \/ \E ok \in BOOLEAN : BindReturns(r, ok)
      PROVE  RunInv'
  BY <1>1 DEF Run, StartupFails, Listen, OnListening, EndRunSkipped, BindReturns,
     EndRunDue, Goto, EndsWith
<1>2. ASSUME NEW r \in Runs, Publish(r), UNCHANGED call PROVE RunInv'
  BY <1>2 DEF Run, Publish, StillStarting, Goto, EndsWith
<1>3. ASSUME NEW r \in Runs, FinishRun(r), UNCHANGED call PROVE RunInv'
  BY <1>3 DEF Run, FinishRun, FinishReady, Goto
<1>4. ASSUME NEW r \in Runs, EndRun(r) PROVE RunInv'
  BY <1>4 DEF TypeOK, Run, EndRun, EndRunCalled, EndRunDue, LostEnter, Goto
<1>5. ASSUME NEW r \in Runs, EndRunDone(r) PROVE RunInv'
  BY <1>5 DEF Run, EndRunDone, EndRunReturns, Goto, vars
<1>6. ASSUME NEW r \in Runs, Serve(r) PROVE RunInv'
  BY <1>6 DEF Run, Serve, ServeEnds, EndsWith, vars
<1>7. ASSUME NEW r \in Runs, Command(r) PROVE RunInv'
  BY <1>7 DEF Run, Command, Start, Stop, ControlShutdown, Goto, vars
<1>8. ASSUME UNCHANGED gatewayVars,
             \A r \in Runs : call[r].stage = "idle" => call'[r].stage = "idle"
      PROVE  RunInv'
  BY <1>8 DEF gatewayVars
<1>9. ASSUME NEW c \in Callers, Resume(c) \/ Look(c) PROVE RunInv'
  BY <1>8, <1>9, IdleStaysIdle DEF Resume, Look
<1>10. CASE Issue
  BY <1>8, <1>10, IssueSparesRuns DEF Issue
<1>11. CASE UNCHANGED allVars
  BY <1>11 DEF allVars, vars, gatewayVars
<1>12. ASSUME NEW r \in Runs, Proceed(r) PROVE RunInv'
  BY <1>1, <1>2, <1>3, <1>4, <1>5, <1>12 DEF Proceed, BindRun, BindRefused,
     BindGatewayRun, vars
<1> QED
  BY <1>6, <1>7, <1>9, <1>10, <1>11, <1>12 DEF SystemNext

LEMMA SystemRunInv == SystemSpec => [](GatewayTypeOK /\ RunInv)
<1>1. SystemInit => RunInv
  BY RunAssumption, GoroutineAssumption
     DEF SystemInit, Init, Idle, GatewayInit, RunInv
<1>2. TypeOK /\ GatewayTypeOK /\ RunInv /\ [SystemNext]_allVars => RunInv'
  BY RunInvStep
<1>3. SystemSpec => []TypeOK
  BY SystemImplementsService, TypeCorrect
<1> QED
  BY <1>1, <1>2, <1>3, SystemGatewayTyped, PTL DEF SystemSpec

\* Only a run that bound, and is still the current one, is ever inside
\* MarkGatewayLost: finishRun publishes the end after EndRun (gateway.go).
THEOREM EndRunStaysInside == SystemSpec => []EndRunInsideRun
<1>1. RunInv => EndRunInsideRun
  BY DEF RunInv, EndRunInsideRun
<1> QED
  BY <1>1, SystemRunInv, PTL

\* The second look of onListening: "running" is published only for a run that
\* holds the capture and that nobody stopped meanwhile.
THEOREM RunningMeansBound == SystemSpec => []RunningIsBound
<1>1. GatewayTypeOK /\ RunInv => RunningIsBound
  BY DEF GatewayTypeOK, RunInv, RunningIsBound
<1> QED
  BY <1>1, SystemRunInv, PTL

\* Both at once: a run is published and ended only between its bind and the end of
\* its EndRun.
THEOREM RunsStayBracketed == SystemSpec => []RunsAreBracketed
<1>1. EndRunInsideRun /\ RunningIsBound => RunsAreBracketed
  BY DEF RunsAreBracketed
<1> QED
  BY <1>1, EndRunStaysInside, RunningMeansBound, PTL
=============================================================================
