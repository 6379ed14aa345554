------------------------ MODULE DesktopCaptureProofs ------------------------
(***************************************************************************)
(* The capture of the desktop always belongs to the gateway that runs and  *)
(* to one transaction that can give it back, and the front door leaves it  *)
(* before that happens; and the front door leads to the gateway that has a *)
(* session and is parked on the right upstream otherwise.  For any number  *)
(* of gateway runs, relays, transactions, edits, faults, crashes and exits.*)
(***************************************************************************)
EXTENDS DesktopRoutingProofs

EnableUndoPcs == EnablePcs \cup UndoPcs
RestingPcs == {"idle", "begin", "returned"}

\* A start that has its gateway, and not yet its session.
StartingPcs == {"door", "integrated", "reset", "reset_save", "redirect", "redirect_commit",
                "rollback", "rollback_save", "rollback_mark", "to_gateway", "start_failed"}

\* Where an Enable may hold its claim, and have the front door at the capture.
ClaimedPcs == {"record", "map", "switch", "commit", "confirm", "undo_door", "undo_claim"}
SwitchedPcs == {"commit", "confirm", "undo_door"}

-----------------------------------------------------------------------------
(* The inductive invariant.                                                *)

\* A process that is gone has no transaction and no capture of the desktop.
OffIsQuiet == app = "off" => tx.pc = "idle" /\ cap.mode # "desktop"

\* A front door that is closed has not been used yet.
ClosedIsUnused ==
    door = Closed =>
        /\ owner = NoOwner /\ last.run = NoRun /\ ~gw.session
        /\ tx.pc \in RestingPcs
        /\ op.pc \notin StartingPcs \ {"door", "start_failed"}

\* A start is of a run that no transaction under way knows.
StartingIsNew ==
    op.pc \in StartingPcs =>
        ~gw.session /\ (tx.pc \in EnableUndoPcs => tx.run # gw.run)

\* An Enable has a run, and not one of the future.
EnableRun ==
    /\ gw.up => gw.run # NoRun
    /\ tx.verify => tx.pc \in EnablePcs
    /\ tx.pc \in EnableUndoPcs => tx.run # NoRun /\ tx.run <= gw.run

\* What verifyGateway saw still holds when the claim is made, or the capture is
\* no longer the one to be claimed.
VerifiedRun ==
    tx.pc = "claim" /\ ~tx.verify /\ cap.run = tx.run =>
        gw.run = tx.run /\ (gw.up \/ cap.mode # "capture_only")

\* The claim of the Enable that is under way.
Claimed ==
    /\ tx.claimed /\ tx.pc \in ClaimedPcs
    /\ cap.owner = tx.id /\ Matches(tx.gen, tx.run)

\* The claim of an Enable that has succeeded.  Leaving the app clears the record
\* just before the process ends.
OnRecord == TrafficActive(journal) \/ HasUnresolved(journal)
Settled ==
    /\ tx.pc \in RestingPcs \cup DisablePcs
    /\ cap.owner = owner /\ Matches(last.gen, last.run)
    /\ op.pc # "down_service" => OnRecord

\* A capture of the desktop listens, for the gateway that runs, and has its owner.
DesktopHeld ==
    cap.mode = "desktop" =>
        /\ Listening
        /\ gw.up /\ cap.run = gw.run
        /\ op.pc \notin StartingPcs
        /\ Claimed \/ Settled

\* Disable writes back the target it found.
DisableSource == tx.pc \in DisablePcs => tx.source.target = "analysis"

\* The front door is the first thing that is undone.
UndoneFirst == tx.pc \in {"undo_claim", "undo_capture", "undo_record"} => ~tx.switched

\* Disable has moved the front door before it touches the capture.
DoorLeft ==
    tx.pc \in {"disable_pause", "disable_restored", "disable_release",
               "disable_demote", "disable_confirm"} => door # CaptureRelay

\* An Enable that has not switched the front door has not put Codex there.
EnableDoor ==
    tx.pc \in EnableUndoPcs /\ ~tx.switched /\ StillRouted /\ config.url = FrontDoor
        => door # CaptureRelay

\* A front door at the capture has the capture of the desktop behind it, unless
\* an Enable is about to move it.
RoutedCapture ==
    gw.session /\ door = CaptureRelay /\ config.url = FrontDoor =>
        \/ cap.mode = "desktop"
        \/ tx.switched /\ tx.pc \in SwitchedPcs

Control == OffIsQuiet /\ StartingIsNew /\ EnableRun /\ VerifiedRun /\ DisableSource /\ UndoneFirst
Routed == DoorLeft /\ EnableDoor /\ RoutedCapture

\* The invariant, on top of the one of the routing.
CaptureInv == Control /\ DesktopHeld /\ Routed /\ ClosedIsUnused

-----------------------------------------------------------------------------
(* Moves of the transaction.                                               *)

SameRun == /\ tx'.run = tx.run /\ tx'.gen = tx.gen /\ tx'.id = tx.id
           /\ tx'.source = tx.source

\* To another step.
Moves(pc, verify) ==
    /\ SameRun /\ tx'.claimed = tx.claimed /\ tx'.switched = tx.switched
    /\ tx'.pc = pc /\ tx'.verify = verify

\* To the first thing that is to be undone.
BacksOut ==
    /\ SameRun /\ ~tx'.verify
    /\ tx'.pc \in {"undo_door", "undo_claim", "undo_capture", "undo_record"}
    /\ tx'.pc # "undo_door" => ~tx'.switched
    /\ tx'.switched => tx'.pc = "undo_door"
    /\ tx'.claimed => tx'.pc \in {"undo_door", "undo_claim"}

Returns == tx'.pc \in {"idle", "returned"} /\ ~tx'.verify

LEMMA MovesAre ==
    ASSUME TypeOK
    PROVE  /\ \A pc : TxGoto(pc) => Moves(pc, tx.verify)
           /\ \A pc : TxThenVerify(tx, pc) => Moves(pc, TRUE)
           /\ \A ok : Return(ok) => Returns
<1>1. tx \in Tx
  BY DEF TypeOK, TrafficTypeOK
<1>2. \A pc : TxGoto(pc) => Moves(pc, tx.verify)
  BY <1>1 DEF TxGoto, Moves, SameRun, Tx
<1>3. \A pc : TxThenVerify(tx, pc) => Moves(pc, TRUE)
  BY <1>1 DEF TxThenVerify, Moves, SameRun, Tx
<1>4. \A ok : Return(ok) => Returns
  BY DEF Return, Returns, NoTx
<1>. QED BY <1>2, <1>3, <1>4

\* What is undone first.
LEMMA UndoNextMoves ==
    ASSUME NEW t \in Tx, UndoNext(t)
    PROVE  /\ tx'.run = t.run /\ tx'.gen = t.gen /\ tx'.id = t.id /\ tx'.source = t.source
           /\ tx'.switched = t.switched /\ tx'.claimed = t.claimed /\ ~tx'.verify
           /\ tx'.pc \in {"undo_door", "undo_claim", "undo_capture", "undo_record"}
           /\ tx'.pc # "undo_door" => ~t.switched
           /\ t.switched => tx'.pc = "undo_door"
           /\ t.claimed => tx'.pc \in {"undo_door", "undo_claim"}
<1>1. tx' = [t EXCEPT !.pc = FirstUndo(t), !.verify = FALSE]
  BY DEF UndoNext
<1>2. /\ FirstUndo(t) \in {"undo_door", "undo_claim", "undo_capture", "undo_record"}
      /\ FirstUndo(t) # "undo_door" => ~t.switched
      /\ t.switched => FirstUndo(t) = "undo_door"
      /\ t.claimed => FirstUndo(t) \in {"undo_door", "undo_claim"}
  <2>0. t.switched \in BOOLEAN /\ t.claimed \in BOOLEAN /\ t.started \in BOOLEAN
    BY DEF Tx
  <2>1. CASE t.switched
    <3>1. FirstUndo(t) = "undo_door"
      BY <2>0, <2>1 DEF FirstUndo
    <3>. QED BY <2>1, <3>1
  <2>2. CASE ~t.switched /\ t.claimed
    <3>1. FirstUndo(t) = "undo_claim"
      BY <2>0, <2>2 DEF FirstUndo
    <3>. QED BY <2>2, <3>1
  <2>3. CASE ~t.switched /\ ~t.claimed
    <3>1. FirstUndo(t) = "undo_capture" \/ FirstUndo(t) = "undo_record"
      BY <2>0, <2>3 DEF FirstUndo
    <3>. QED BY <2>3, <3>1
  <2>. QED BY <2>1, <2>2, <2>3
<1>3. /\ tx'.run = t.run /\ tx'.gen = t.gen /\ tx'.id = t.id /\ tx'.source = t.source
      /\ tx'.switched = t.switched /\ tx'.claimed = t.claimed /\ ~tx'.verify
      /\ tx'.pc = FirstUndo(t)
  BY <1>1 DEF Tx
<1>. QED BY <1>2, <1>3

LEMMA BackoutMoves ==
    ASSUME TypeOK, Backout
    PROVE  BacksOut /\ tx'.claimed = tx.claimed /\ tx'.switched = tx.switched
<1>1. tx \in Tx
  BY DEF TypeOK, TrafficTypeOK
<1>2. UndoNext(tx)
  BY DEF Backout
<1>. QED BY <1>1, <1>2, UndoNextMoves DEF BacksOut, SameRun
-----------------------------------------------------------------------------
(* Steps that leave the capture to whom it belonged, or were never the      *)
(* desktop's.                                                              *)

CapKept ==
    \/ cap' = cap
    \/ cap.mode # "desktop" /\ cap'.mode # "desktop"
    \/ /\ cap'.mode = cap.mode /\ cap'.run = cap.run /\ cap'.gen = cap.gen
       /\ cap'.owner = cap.owner /\ cap'.relay \in {"capturing", "passthrough"}

\* A step of a transaction changes neither the gateway nor Codex.
TxOutside == UNCHANGED <<config, gw, app>>

\* Enable and its backout go on, with the front door where it is.
EnableGoesOn ==
    /\ TxOutside /\ UNCHANGED <<door, owner, last, op>>
    /\ CapKept
    /\ tx.pc \in EnableUndoPcs /\ tx'.pc \in EnableUndoPcs
    /\ SameRun /\ tx'.switched = tx.switched /\ tx'.claimed = tx.claimed
    /\ tx'.pc = "claim" /\ ~tx'.verify => gw.up /\ gw.run = tx.run
    /\ tx'.verify => tx'.pc \in EnablePcs
    /\ cap.mode = "desktop" /\ tx.claimed /\ tx.pc \in ClaimedPcs => tx'.pc \in ClaimedPcs
    /\ tx'.pc \in {"undo_claim", "undo_capture", "undo_record"} => ~tx'.switched
    /\ tx.switched /\ tx.pc \in SwitchedPcs => tx'.pc \in SwitchedPcs

LEMMA PcFacts ==
    /\ EnableUndoPcs \cap (RestingPcs \cup DisablePcs \cup FinishPcs) = {}
    /\ ClaimedPcs \subseteq EnableUndoPcs /\ SwitchedPcs \subseteq ClaimedPcs
    /\ "claim" \in EnableUndoPcs /\ "idle" \notin EnableUndoPcs
    /\ DisablePcs \cap FinishPcs = {} /\ "idle" \in RestingPcs
    /\ RestingPcs \cap (DisablePcs \cup FinishPcs) = {}
BY DEF EnableUndoPcs, EnablePcs, UndoPcs, RestingPcs, DisablePcs, FinishPcs, ClaimedPcs, SwitchedPcs

LEMMA EnableGoesOnInv == ASSUME TypeOK, CaptureInv, EnableGoesOn PROVE CaptureInv'
<1>1. /\ UNCHANGED <<config, gw, app, door, owner, last, op>>
      /\ tx.pc \in EnableUndoPcs /\ tx'.pc \in EnableUndoPcs
      /\ tx'.pc \notin RestingPcs \cup DisablePcs /\ tx.pc \notin RestingPcs \cup DisablePcs
      /\ tx'.pc # "idle" /\ tx.pc # "idle"
  BY PcFacts DEF EnableGoesOn, TxOutside
<1>2. /\ tx'.run = tx.run /\ tx'.gen = tx.gen /\ tx'.id = tx.id
      /\ tx'.switched = tx.switched /\ tx'.claimed = tx.claimed
  BY DEF EnableGoesOn, SameRun
<1>3. app # "off" /\ door # Closed
  BY <1>1 DEF CaptureInv, Control, OffIsQuiet, ClosedIsUnused
<1>4. OffIsQuiet' /\ StartingIsNew' /\ EnableRun' /\ UndoneFirst' /\ ClosedIsUnused'
  BY <1>1, <1>2, <1>3
     DEF CaptureInv, Control, OffIsQuiet, StartingIsNew, EnableRun, UndoneFirst, ClosedIsUnused, EnableGoesOn
<1>5. VerifiedRun' /\ DisableSource'
  BY <1>1, <1>2 DEF EnableGoesOn, VerifiedRun, DisableSource
<1>6. DesktopHeld'
  <2>1. CASE cap.mode = "desktop" /\ cap'.mode = "desktop"
    <3>1. /\ cap'.run = cap.run /\ cap'.gen = cap.gen /\ cap'.owner = cap.owner
          /\ Listening => Listening'
      BY <2>1 DEF EnableGoesOn, CapKept, Listening
    <3>2. Claimed => Claimed'
      BY <1>2, <2>1, <3>1 DEF Claimed, Matches, EnableGoesOn
    <3>3. ~Settled
      BY <1>1 DEF Settled
    <3>. QED BY <1>1, <2>1, <3>1, <3>2, <3>3 DEF CaptureInv, DesktopHeld
  <2>2. CASE cap'.mode # "desktop"
    BY <2>2 DEF DesktopHeld
  <2>. QED BY <2>1, <2>2 DEF EnableGoesOn, CapKept
<1>7. DoorLeft' /\ EnableDoor'
  BY <1>1, <1>2, PcFacts DEF CaptureInv, Routed, DoorLeft, EnableDoor, StillRouted, DisablePcs
<1>8. RoutedCapture'
  BY <1>1, <1>2 DEF CaptureInv, Routed, RoutedCapture, EnableGoesOn, CapKept
<1>. QED BY <1>4, <1>5, <1>6, <1>7, <1>8 DEF CaptureInv, Control, Routed

\* Any other step of a transaction, and one of the app that goes with it.
OutsideEnable ==
    /\ UNCHANGED <<gw, app>> /\ app # "off"
    /\ config'.url = FrontDoor => config.url = FrontDoor
    /\ owner' = owner \/ (owner' = NoOwner /\ cap'.mode # "desktop")
    /\ last' = last \/ (last' = NoLast /\ cap'.mode # "desktop")
    /\ \/ CapKept
       \/ cap'.mode # "desktop" /\ (door' # CaptureRelay \/ config'.url # FrontDoor)
    /\ op' = op \/ op'.pc \notin StartingPcs
    /\ door' = door \/ (door # Closed /\ door' \notin {CaptureRelay, Closed})
    /\ tx.pc \notin SwitchedPcs /\ tx'.pc \notin EnableUndoPcs /\ ~tx'.verify
    /\ door' = Closed => tx'.pc \in RestingPcs
    /\ cap.mode = "desktop" /\ cap'.mode = "desktop" =>
         /\ tx.pc \in RestingPcs \cup DisablePcs /\ tx'.pc \in RestingPcs \cup DisablePcs
         /\ (op.pc # "down_service" => OnRecord) => (op'.pc # "down_service" => OnRecord')
    /\ DisableSource' /\ DoorLeft'

LEMMA OutsideEnableInv == ASSUME TypeOK, CaptureInv, OutsideEnable PROVE CaptureInv'
<1>1. /\ UNCHANGED <<gw, app>> /\ (config'.url = FrontDoor => config.url = FrontDoor)
      /\ tx'.pc \notin EnableUndoPcs /\ app # "off" /\ tx.pc \notin SwitchedPcs
      /\ tx'.pc # "claim" /\ tx'.pc \notin SwitchedPcs
      /\ tx'.pc \notin {"undo_claim", "undo_capture", "undo_record"}
  BY PcFacts DEF OutsideEnable, EnableUndoPcs, UndoPcs
<1>2. op'.pc \in StartingPcs => op' = op
  BY DEF OutsideEnable
<1>3. OffIsQuiet' /\ StartingIsNew' /\ EnableRun' /\ VerifiedRun' /\ DisableSource' /\ UndoneFirst'
  BY <1>1, <1>2
     DEF CaptureInv, Control, OffIsQuiet, StartingIsNew, EnableRun, VerifiedRun, UndoneFirst, OutsideEnable
<1>4. DesktopHeld'
  <2>1. CASE cap.mode = "desktop" /\ cap'.mode = "desktop"
    <3>1. /\ tx.pc \in RestingPcs \cup DisablePcs /\ tx'.pc \in RestingPcs \cup DisablePcs
          /\ (op.pc # "down_service" => OnRecord) => (op'.pc # "down_service" => OnRecord')
          /\ owner' = owner /\ last' = last
      BY <2>1 DEF OutsideEnable
    <3>2. tx.pc \notin ClaimedPcs
      BY <3>1, PcFacts
    <3>3. Settled /\ Listening /\ gw.up /\ cap.run = gw.run /\ op.pc \notin StartingPcs
      BY <2>1, <3>2 DEF CaptureInv, DesktopHeld, Claimed
    <3>4. /\ cap'.run = cap.run /\ cap'.gen = cap.gen /\ cap'.owner = cap.owner
          /\ Listening => Listening'
      BY <2>1 DEF OutsideEnable, CapKept, Listening
    <3>5. Settled'
      BY <3>1, <3>3, <3>4 DEF Settled, Matches
    <3>. QED BY <1>1, <1>2, <3>3, <3>4, <3>5 DEF DesktopHeld
  <2>2. CASE cap'.mode # "desktop"
    BY <2>2 DEF DesktopHeld
  <2>. QED BY <2>1, <2>2 DEF OutsideEnable, CapKept
<1>5. DoorLeft' /\ EnableDoor' /\ RoutedCapture'
  <2>1. DoorLeft' /\ EnableDoor'
    BY <1>1 DEF EnableDoor, OutsideEnable
  <2>2. ASSUME gw.session, door' = CaptureRelay, config'.url = FrontDoor
        PROVE  cap'.mode = "desktop"
    <3>1. door = CaptureRelay /\ config.url = FrontDoor /\ CapKept
      BY <1>1, <2>2 DEF OutsideEnable
    <3>2. cap.mode = "desktop"
      BY <1>1, <2>2, <3>1 DEF CaptureInv, Routed, RoutedCapture
    <3>. QED BY <3>1, <3>2 DEF CapKept
  <2>. QED BY <1>1, <2>1, <2>2 DEF RoutedCapture
<1>6. ClosedIsUnused'
  <2>1. NoLast.run = NoRun
    BY DEF NoLast
  <2>. QED BY <1>1, <1>2, <2>1 DEF CaptureInv, ClosedIsUnused, OutsideEnable
<1>. QED BY <1>3, <1>4, <1>5, <1>6 DEF CaptureInv, Control, Routed
-----------------------------------------------------------------------------
(* Enable and its backout.                                                 *)

\* Who may hold the capture of the desktop, by where the transaction is.
LEMMA Holders ==
    ASSUME CaptureInv
    PROVE  /\ tx.pc \notin ClaimedPcs \cup RestingPcs \cup DisablePcs => cap.mode # "desktop"
           /\ cap.mode = "desktop" /\ tx.pc \in EnableUndoPcs => Claimed
           /\ cap.mode = "desktop" /\ tx.pc \notin EnableUndoPcs => Settled
BY PcFacts DEF CaptureInv, DesktopHeld, Claimed, Settled

\* Backing out does not touch anything yet.
LEMMA BackoutGoesOn ==
    ASSUME TypeOK, CaptureInv, TxOutside, UNCHANGED <<door, owner, last, op>>, CapKept,
           tx.pc \in EnableUndoPcs, Backout
    PROVE  EnableGoesOn
<1>1. BacksOut /\ tx'.claimed = tx.claimed /\ tx'.switched = tx.switched
  BY BackoutMoves
<1>2. tx.claimed => tx'.pc \in ClaimedPcs
  BY <1>1 DEF BacksOut, ClaimedPcs
<1>3. tx.switched => tx'.pc \in SwitchedPcs
  BY <1>1 DEF BacksOut, SwitchedPcs
<1>4. tx'.pc \in EnableUndoPcs /\ tx'.pc # "claim"
  BY <1>1 DEF BacksOut, EnableUndoPcs, UndoPcs
<1>. QED BY <1>1, <1>2, <1>3, <1>4 DEF EnableGoesOn, BacksOut

LEMMA EnableBeginInv ==
    ASSUME TypeOK, CaptureInv, EnableBegin, UNCHANGED <<app, op>> PROVE CaptureInv'
<1>1. /\ UNCHANGED <<config, journal, door, gw, cap, owner, last, app, op>>
      /\ tx.pc = "begin" /\ gw.up /\ gw.session
      /\ cap.mode # "desktop"
  BY DEF EnableBegin, At, CanEnable, GatewayAvailable, CanStartCapture, CanAdoptCapture, IsCaptureOnly
<1>2. tx'.pc = "prepare" /\ tx'.run = gw.run /\ ~tx'.verify /\ gw.run \in 0..MaxRuns
  BY DEF EnableBegin, At, TypeOK, SharedTypeOK, TrafficTypeOK, Tx, Gateway
<1>3. door # Closed /\ op.pc \notin StartingPcs /\ gw.run # NoRun
  BY <1>1 DEF CaptureInv, ClosedIsUnused, Control, StartingIsNew, EnableRun
<1>4. config.url = FrontDoor => door # CaptureRelay
  BY <1>1 DEF CaptureInv, Routed, RoutedCapture, SwitchedPcs
<1>5. OffIsQuiet' /\ StartingIsNew' /\ EnableRun' /\ VerifiedRun' /\ DisableSource' /\ UndoneFirst'
  <2>1. app # "off"
    BY <1>1 DEF CaptureInv, Control, OffIsQuiet
  <2>. QED BY <1>1, <1>2, <1>3, <2>1
           DEF OffIsQuiet, StartingIsNew, EnableRun, VerifiedRun, DisableSource, UndoneFirst, DisablePcs
<1>6. DesktopHeld' /\ ClosedIsUnused'
  BY <1>1, <1>3 DEF DesktopHeld, ClosedIsUnused
<1>7. DoorLeft' /\ EnableDoor' /\ RoutedCapture'
  BY <1>1, <1>2, <1>4 DEF DoorLeft, EnableDoor, RoutedCapture
<1>. QED BY <1>5, <1>6, <1>7 DEF CaptureInv, Control, Routed

\* Steps of Enable that only look, or write the record.
LEMMA EnableLooksInv ==
    ASSUME TypeOK, CaptureInv, UNCHANGED <<app, op>>,
           EnablePrepare \/ Verify \/ EnableAdopt \/ EnableRecord \/ EnableMap \/ EnableCommit
    PROVE  CaptureInv'
<1>p. /\ {"prepare", "start", "claim", "record", "map", "switch", "commit", "confirm"} \subseteq EnableUndoPcs
      /\ {"record", "map", "switch", "commit", "confirm"} \subseteq ClaimedPcs
      /\ {"prepare", "start", "claim"} \cap (ClaimedPcs \cup RestingPcs \cup DisablePcs) = {}
  BY DEF EnableUndoPcs, EnablePcs, ClaimedPcs, RestingPcs, DisablePcs
<1>1. CASE EnablePrepare
  <2>0. tx.pc = "prepare" /\ TxOutside /\ UNCHANGED <<door, owner, last, cap>> /\ cap.mode # "desktop"
    BY <1>1, <1>p, Holders DEF EnablePrepare, At, OnlyJournal, TxOutside
  <2>1. CASE TxThenVerify(tx, "start")
    <3>1. Moves("start", TRUE)
      BY <2>1, MovesAre
    <3>. QED BY <1>p, <2>0, <3>1, EnableGoesOnInv DEF EnableGoesOn, CapKept, Moves, SwitchedPcs, EnablePcs
  <2>2. CASE Return(FALSE)
    <3>1. Returns
      BY <2>2, MovesAre
    <3>2. tx'.pc \in RestingPcs /\ tx'.pc \notin EnableUndoPcs /\ ~tx'.verify
      BY <3>1, PcFacts DEF Returns, RestingPcs
    <3>3. DisableSource' /\ DoorLeft'
      BY <3>1 DEF Returns, DisableSource, DoorLeft, DisablePcs
    <3>4. app # "off" /\ tx.pc \notin SwitchedPcs
      BY <2>0 DEF CaptureInv, Control, OffIsQuiet, SwitchedPcs
    <3>. QED BY <2>0, <3>2, <3>3, <3>4, OutsideEnableInv DEF OutsideEnable, CapKept, TxOutside
  <2>. QED BY <1>1, <2>1, <2>2 DEF EnablePrepare
<1>2. CASE Verify
  <2>0. tx.pc \in EnablePcs /\ tx.pc \in EnableUndoPcs /\ TxOutside /\ UNCHANGED <<door, owner, last, cap>>
    BY <1>2 DEF Verify, OnlyTx, shared, TxOutside, CaptureInv, Control, EnableRun, EnableUndoPcs
  <2>1. CASE GatewayAvailable /\ gw.run = tx.run
    <3>1. SameRun /\ tx'.pc = tx.pc /\ ~tx'.verify /\ tx'.claimed = tx.claimed /\ tx'.switched = tx.switched
      BY <1>2, <2>1 DEF Verify, SameRun, TypeOK, TrafficTypeOK, Tx
    <3>2. tx.pc \notin {"undo_claim", "undo_capture", "undo_record"}
      BY <2>0 DEF EnablePcs
    <3>. QED BY <2>0, <2>1, <3>1, <3>2, EnableGoesOnInv DEF EnableGoesOn, CapKept, GatewayAvailable
  <2>2. CASE ~(GatewayAvailable /\ gw.run = tx.run)
    BY <1>2, <2>0, <2>2, BackoutGoesOn, EnableGoesOnInv DEF Verify, CapKept
  <2>. QED BY <2>1, <2>2
<1>3. CASE EnableAdopt
  <2>0. tx.pc = "start" /\ tx.pc \in EnableUndoPcs /\ TxOutside /\ UNCHANGED <<door, owner, last, cap>>
    BY <1>3, <1>p DEF EnableAdopt, At, OnlyTx, shared, TxOutside
  <2>1. CASE TxThenVerify(tx, "claim")
    <3>1. Moves("claim", TRUE)
      BY <2>1, MovesAre
    <3>. QED BY <1>p, <2>0, <3>1, EnableGoesOnInv DEF EnableGoesOn, CapKept, Moves, SwitchedPcs, EnablePcs
  <2>2. CASE Backout
    BY <2>0, <2>2, BackoutGoesOn, EnableGoesOnInv DEF CapKept
  <2>. QED BY <1>3, <2>1, <2>2 DEF EnableAdopt
<1>4. CASE EnableRecord
  <2>0. tx.pc = "record" /\ tx.pc \in EnableUndoPcs /\ TxOutside /\ UNCHANGED <<door, owner, last, cap>>
    BY <1>4, <1>p DEF EnableRecord, At, OnlyJournal, TxOutside
  <2>1. CASE TxThenVerify(tx, "map")
    <3>1. Moves("map", TRUE)
      BY <2>1, MovesAre
    <3>. QED BY <1>p, <2>0, <3>1, EnableGoesOnInv DEF EnableGoesOn, CapKept, Moves, SwitchedPcs, EnablePcs
  <2>2. CASE Backout
    BY <2>0, <2>2, BackoutGoesOn, EnableGoesOnInv DEF CapKept
  <2>. QED BY <1>4, <2>1, <2>2 DEF EnableRecord
<1>5. CASE EnableMap
  <2>0. /\ tx.pc = "map" /\ ~tx.verify /\ tx.pc \in EnableUndoPcs
        /\ TxOutside /\ UNCHANGED <<door, owner, last, cap>>
    BY <1>5, <1>p DEF EnableMap, At, OnlyTx, shared, TxOutside
  <2>1. CASE TxGoto("switch")
    <3>1. Moves("switch", tx.verify)
      BY <2>1, MovesAre
    <3>. QED BY <1>p, <2>0, <3>1, EnableGoesOnInv DEF EnableGoesOn, CapKept, Moves, SwitchedPcs
  <2>2. CASE Backout
    BY <2>0, <2>2, BackoutGoesOn, EnableGoesOnInv DEF CapKept
  <2>. QED BY <1>5, <2>1, <2>2 DEF EnableMap
<1>6. CASE EnableCommit
  <2>0. tx.pc = "commit" /\ tx.pc \in EnableUndoPcs /\ TxOutside /\ UNCHANGED <<door, owner, last, cap>>
    BY <1>6, <1>p DEF EnableCommit, At, OnlyJournal, TxOutside
  <2>1. CASE TxThenVerify(tx, "confirm")
    <3>1. Moves("confirm", TRUE)
      BY <2>1, MovesAre
    <3>. QED BY <1>p, <2>0, <3>1, EnableGoesOnInv DEF EnableGoesOn, CapKept, Moves, SwitchedPcs, EnablePcs
  <2>2. CASE Backout
    BY <2>0, <2>2, BackoutGoesOn, EnableGoesOnInv DEF CapKept
  <2>. QED BY <1>6, <2>1, <2>2 DEF EnableCommit
<1>. QED BY <1>1, <1>2, <1>3, <1>4, <1>5, <1>6

\* The capture of a run that is known is started.
LEMMA EnableStartInv ==
    ASSUME TypeOK, CaptureInv, EnableStart, UNCHANGED <<app, op>> PROVE CaptureInv'
<1>1. /\ tx.pc = "start" /\ tx.pc \in EnableUndoPcs /\ TxOutside /\ UNCHANGED <<door, owner, last>>
      /\ tx.pc \notin ClaimedPcs \cup RestingPcs \cup DisablePcs /\ tx.pc \notin SwitchedPcs
  BY DEF EnableStart, At, OnlyCap, TxOutside, EnableUndoPcs, EnablePcs, ClaimedPcs, RestingPcs,
         DisablePcs, SwitchedPcs
<1>2. cap.mode # "desktop" /\ cap \in Capture
  BY <1>1, Holders DEF TypeOK, SharedTypeOK
<1>3. cap'.mode # "desktop"
  BY <1>2 DEF EnableStart, Started, Capture
<1>4. CASE Backout
  BY <1>1, <1>2, <1>3, <1>4, BackoutGoesOn, EnableGoesOnInv DEF CapKept
<1>5. CASE TxThenVerify([tx EXCEPT !.started = TRUE, !.gen = cap.gen + 1], "claim")
  <2>1. /\ tx'.pc = "claim" /\ tx'.verify /\ tx'.run = tx.run /\ tx'.switched = tx.switched
    BY <1>5 DEF TxThenVerify, TypeOK, TrafficTypeOK, Tx
  <2>2. app # "off" /\ door # Closed
    BY <1>1 DEF CaptureInv, Control, OffIsQuiet, ClosedIsUnused, RestingPcs
  <2>3. OffIsQuiet' /\ StartingIsNew' /\ EnableRun' /\ VerifiedRun' /\ DisableSource' /\ UndoneFirst'
    BY <1>1, <2>1, <2>2
       DEF CaptureInv, Control, OffIsQuiet, StartingIsNew, EnableRun, VerifiedRun, DisableSource,
           UndoneFirst, TxOutside, EnablePcs, DisablePcs
  <2>4. DesktopHeld' /\ ClosedIsUnused'
    BY <1>1, <1>3, <2>2 DEF DesktopHeld, ClosedIsUnused
  <2>5. DoorLeft' /\ EnableDoor' /\ RoutedCapture'
    BY <1>1, <1>2, <2>1
       DEF CaptureInv, Routed, DoorLeft, EnableDoor, RoutedCapture, StillRouted, TxOutside
  <2>. QED BY <2>3, <2>4, <2>5 DEF CaptureInv, Control, Routed
<1>. QED BY <1>4, <1>5 DEF EnableStart

\* The claim: the gateway that was seen is the one that runs.
LEMMA EnableClaimInv ==
    ASSUME TypeOK, CaptureInv, EnableClaim, UNCHANGED <<app, op>> PROVE CaptureInv'
<1>0. tx \in Tx /\ cap \in Capture
  BY DEF TypeOK, SharedTypeOK, TrafficTypeOK
<1>1. /\ tx.pc = "claim" /\ ~tx.verify /\ tx.pc \in EnableUndoPcs
      /\ TxOutside /\ UNCHANGED <<config, gw, app, op, door, owner, last>>
      /\ tx.pc \notin ClaimedPcs \cup RestingPcs \cup DisablePcs /\ tx.pc \notin SwitchedPcs
  BY DEF EnableClaim, At, OnlyCap, TxOutside, EnableUndoPcs, EnablePcs, ClaimedPcs, RestingPcs,
         DisablePcs, SwitchedPcs
<1>2. CASE Backout /\ UNCHANGED cap
  BY <1>1, <1>2, BackoutGoesOn, EnableGoesOnInv DEF CapKept
<1>3. CASE /\ IsCaptureOnly("capturing", tx.gen, tx.run)
           /\ cap' = [cap EXCEPT !.mode = "desktop", !.owner = tx.id]
           /\ \/ TxThenVerify([tx EXCEPT !.claimed = TRUE], "record")
              \/ UndoNext([tx EXCEPT !.claimed = TRUE])
  <2>1. /\ cap.mode = "capture_only" /\ cap.relay = "capturing" /\ cap.gen = tx.gen /\ cap.run = tx.run
        /\ cap'.owner = tx.id /\ cap'.relay = cap.relay /\ cap'.gen = cap.gen /\ cap'.run = cap.run
    BY <1>0, <1>3 DEF IsCaptureOnly, Matches, Capture
  <2>2. gw.up /\ gw.run = tx.run /\ op.pc \notin StartingPcs
    BY <1>1, <2>1 DEF CaptureInv, Control, VerifiedRun, StartingIsNew
  <2>3. /\ tx'.run = tx.run /\ tx'.gen = tx.gen /\ tx'.id = tx.id /\ tx'.switched = tx.switched
        /\ tx'.claimed /\ tx'.pc \in {"record", "undo_door", "undo_claim"}
        /\ tx'.verify => tx'.pc = "record"
        /\ tx'.pc # "undo_door" => (tx'.pc = "record" \/ ~tx'.switched)
    <3>1. CASE TxThenVerify([tx EXCEPT !.claimed = TRUE], "record")
      BY <1>0, <3>1 DEF TxThenVerify, Tx
    <3>2. CASE UndoNext([tx EXCEPT !.claimed = TRUE])
      <4>1. /\ [tx EXCEPT !.claimed = TRUE] \in Tx
            /\ [tx EXCEPT !.claimed = TRUE].run = tx.run /\ [tx EXCEPT !.claimed = TRUE].gen = tx.gen
            /\ [tx EXCEPT !.claimed = TRUE].id = tx.id /\ [tx EXCEPT !.claimed = TRUE].claimed
            /\ [tx EXCEPT !.claimed = TRUE].switched = tx.switched
        BY <1>0 DEF Tx
      <4>. QED BY <3>2, <4>1, UndoNextMoves
    <3>. QED BY <1>3, <3>1, <3>2
  <2>4. app # "off" /\ door # Closed
    BY <1>1 DEF CaptureInv, Control, OffIsQuiet, ClosedIsUnused
  <2>5. OffIsQuiet' /\ StartingIsNew' /\ EnableRun' /\ VerifiedRun' /\ DisableSource' /\ UndoneFirst'
    BY <1>1, <2>3, <2>4
       DEF CaptureInv, Control, OffIsQuiet, StartingIsNew, EnableRun, VerifiedRun, DisableSource,
           UndoneFirst, EnablePcs, DisablePcs
  <2>6. DesktopHeld'
    BY <1>1, <2>1, <2>2, <2>3 DEF DesktopHeld, Listening, Claimed, Matches, ClaimedPcs
  <2>7. ClosedIsUnused'
    BY <1>1, <2>4 DEF ClosedIsUnused
  <2>8. DoorLeft' /\ EnableDoor' /\ RoutedCapture'
    <3>1. cap.mode # "desktop"
      BY <1>1, Holders
    <3>. QED BY <1>1, <2>3, <3>1 DEF CaptureInv, Routed, DoorLeft, EnableDoor, RoutedCapture, StillRouted
  <2>. QED BY <2>5, <2>6, <2>7, <2>8 DEF CaptureInv, Control, Routed
<1>. QED BY <1>2, <1>3 DEF EnableClaim

\* The front door is switched to the capture, by an Enable that will move it back.
LEMMA EnableSwitchInv ==
    ASSUME TypeOK, CaptureInv, EnableSwitch, UNCHANGED <<app, op>> PROVE CaptureInv'
<1>1. /\ tx.pc = "switch" /\ tx.pc \in EnableUndoPcs /\ tx.pc \in ClaimedPcs
      /\ TxOutside /\ UNCHANGED <<config, gw, app, op, owner, last, cap, journal>>
      /\ tx.pc \notin RestingPcs \cup DisablePcs
  BY DEF EnableSwitch, At, OnlyDoor, TxOutside, EnableUndoPcs, EnablePcs, ClaimedPcs, RestingPcs, DisablePcs
<1>2. CASE Backout /\ UNCHANGED door
  BY <1>1, <1>2, BackoutGoesOn, EnableGoesOnInv DEF CapKept
<1>3. CASE Switch(CaptureRelay) /\ TxThenVerify([tx EXCEPT !.switched = TRUE], "commit")
  <2>1. /\ tx'.run = tx.run /\ tx'.gen = tx.gen /\ tx'.id = tx.id /\ tx'.claimed = tx.claimed
        /\ tx'.switched /\ tx'.pc = "commit" /\ tx'.verify
    BY <1>3 DEF TxThenVerify, TypeOK, TrafficTypeOK, Tx
  <2>2. app # "off" /\ door' # Closed
    <3>1. CaptureRelay # Closed
      BY DEF CaptureRelay, Closed
    <3>. QED BY <1>1, <1>3, <3>1 DEF Switch, CaptureInv, Control, OffIsQuiet, RestingPcs
  <2>3. OffIsQuiet' /\ StartingIsNew' /\ EnableRun' /\ VerifiedRun' /\ DisableSource' /\ UndoneFirst'
    BY <1>1, <2>1, <2>2
       DEF CaptureInv, Control, OffIsQuiet, StartingIsNew, EnableRun, VerifiedRun, DisableSource,
           UndoneFirst, EnablePcs, DisablePcs
  <2>4. DesktopHeld'
    <3>1. cap.mode = "desktop" => Claimed
      BY <1>1, Holders
    <3>2. Claimed => Claimed'
      BY <1>1, <2>1 DEF Claimed, Matches, ClaimedPcs
    <3>. QED BY <1>1, <3>1, <3>2 DEF CaptureInv, DesktopHeld, Listening
  <2>5. ClosedIsUnused'
    BY <2>2 DEF ClosedIsUnused
  <2>6. DoorLeft' /\ EnableDoor' /\ RoutedCapture'
    BY <2>1 DEF DoorLeft, EnableDoor, RoutedCapture, SwitchedPcs
  <2>. QED BY <2>3, <2>4, <2>5, <2>6 DEF CaptureInv, Control, Routed
<1>. QED BY <1>2, <1>3 DEF EnableSwitch

\* Enable is done: its claim is the one of the service.
LEMMA EnableConfirmInv ==
    ASSUME TypeOK, CaptureInv, EnableConfirm, UNCHANGED <<app, op>> PROVE CaptureInv'
<1>1. /\ tx.pc = "confirm" /\ tx.pc \in EnableUndoPcs /\ tx.pc \in SwitchedPcs
      /\ TxOutside /\ UNCHANGED <<config, gw, app, op, door, cap, journal>>
  BY DEF EnableConfirm, At, shared, TxOutside, EnableUndoPcs, EnablePcs, SwitchedPcs
<1>2. CASE Backout /\ UNCHANGED <<owner, last>>
  BY <1>1, <1>2, BackoutGoesOn, EnableGoesOnInv DEF CapKept
<1>3. CASE /\ TrafficActive(journal) /\ IsDesktop("capturing", tx.gen, tx.run, tx.id)
           /\ owner' = tx.id /\ last' = [run |-> tx.run, gen |-> tx.gen]
           /\ Return(TRUE)
  <2>1. /\ tx'.pc \in RestingPcs /\ tx'.pc \notin EnableUndoPcs /\ ~tx'.verify
        /\ tx'.pc \notin DisablePcs
    BY <1>3, MovesAre, PcFacts DEF Returns, RestingPcs
  <2>2. /\ app # "off" /\ door # Closed
        /\ cap.mode = "desktop" /\ cap.gen = tx.gen /\ cap.run = tx.run /\ cap.owner = tx.id
    BY <1>1, <1>3, PcFacts DEF CaptureInv, Control, OffIsQuiet, ClosedIsUnused, IsDesktop, Matches
  <2>3. OffIsQuiet' /\ StartingIsNew' /\ EnableRun' /\ VerifiedRun' /\ DisableSource' /\ UndoneFirst'
    BY <1>1, <2>1, <2>2, PcFacts
       DEF CaptureInv, Control, OffIsQuiet, StartingIsNew, EnableRun, VerifiedRun, DisableSource,
           UndoneFirst, EnableUndoPcs, UndoPcs
  <2>4. DesktopHeld'
    <3>1. Settled'
      BY <1>1, <1>3, <2>1, <2>2 DEF Settled, Matches, OnRecord, TrafficActive
    <3>. QED BY <1>1, <2>2, <3>1 DEF CaptureInv, DesktopHeld, Listening
  <2>5. ClosedIsUnused' /\ DoorLeft' /\ EnableDoor' /\ RoutedCapture'
    BY <1>1, <2>1, <2>2 DEF ClosedIsUnused, DoorLeft, EnableDoor, RoutedCapture, DisablePcs
  <2>. QED BY <2>3, <2>4, <2>5 DEF CaptureInv, Control, Routed
<1>. QED BY <1>2, <1>3 DEF EnableConfirm

-----------------------------------------------------------------------------
(* Backing out, refusals, Disable and Finish.                              *)

\* A transaction that is under way is one of a process that is there, and not
\* one that Enable has left the front door to.
LEMMA Busy ==
    ASSUME CaptureInv, tx.pc \notin EnableUndoPcs, tx.pc # "idle"
    PROVE  app # "off" /\ tx.pc \notin SwitchedPcs
BY PcFacts DEF CaptureInv, Control, OffIsQuiet

\* A caller that is sent away.
LEMMA RefusedInv ==
    ASSUME TypeOK, CaptureInv, UNCHANGED <<app, op>>, NEW kind, NEW allowed, Refused(kind, allowed)
    PROVE  CaptureInv'
<1>1. tx.pc = "begin" /\ UNCHANGED <<config, journal, door, gw, cap, owner, last, app, op>>
  BY DEF Refused, At, OnlyTx, shared
<1>2. Returns
  BY MovesAre DEF Refused
<1>3. tx.pc \in RestingPcs /\ tx.pc \notin EnableUndoPcs /\ tx'.pc \in RestingPcs /\ tx'.pc \notin EnableUndoPcs
  BY <1>1, <1>2 DEF Returns, RestingPcs, EnableUndoPcs, EnablePcs, UndoPcs
<1>4. app # "off" /\ tx.pc \notin SwitchedPcs
  BY <1>1, <1>3, Busy
<1>5. DisableSource' /\ DoorLeft'
  BY <1>2 DEF Returns, DisableSource, DoorLeft, DisablePcs
<1>. QED BY <1>1, <1>2, <1>3, <1>4, <1>5, OutsideEnableInv
         DEF OutsideEnable, CapKept, Returns, OnRecord

LEMMA UndoDoorInv ==
    ASSUME TypeOK, CaptureInv, UndoDoor, UNCHANGED <<app, op>> PROVE CaptureInv'
<1>0. tx \in Tx
  BY DEF TypeOK, TrafficTypeOK
<1>1. /\ tx.pc = "undo_door" /\ tx.pc \in EnableUndoPcs /\ tx.pc \in ClaimedPcs
      /\ tx.pc \notin RestingPcs \cup DisablePcs
      /\ UNCHANGED <<config, gw, app, op, owner, last, cap, journal>>
  BY DEF UndoDoor, At, OnlyDoor, EnableUndoPcs, UndoPcs, ClaimedPcs, RestingPcs, DisablePcs
<1>2. door # Closed /\ app # "off"
  BY <1>1 DEF CaptureInv, ClosedIsUnused, Control, OffIsQuiet, RestingPcs
<1>3. door' = GatewayBackend /\ UndoNext([tx EXCEPT !.switched = FALSE])
  BY <1>2 DEF UndoDoor, Switch
<1>4. door' # Closed /\ door' # CaptureRelay
  BY <1>3 DEF GatewayBackend, Closed, CaptureRelay
<1>5. /\ tx'.run = tx.run /\ tx'.gen = tx.gen /\ tx'.id = tx.id /\ tx'.claimed = tx.claimed
      /\ ~tx'.switched /\ ~tx'.verify
      /\ tx'.pc \in {"undo_door", "undo_claim", "undo_capture", "undo_record"}
      /\ tx'.claimed => tx'.pc \in {"undo_door", "undo_claim"}
  <2>1. /\ [tx EXCEPT !.switched = FALSE] \in Tx
        /\ [tx EXCEPT !.switched = FALSE].run = tx.run /\ [tx EXCEPT !.switched = FALSE].gen = tx.gen
        /\ [tx EXCEPT !.switched = FALSE].id = tx.id
        /\ [tx EXCEPT !.switched = FALSE].claimed = tx.claimed
        /\ ~[tx EXCEPT !.switched = FALSE].switched
    BY <1>0 DEF Tx
  <2>. QED BY <1>3, <2>1, UndoNextMoves
<1>6. OffIsQuiet' /\ StartingIsNew' /\ EnableRun' /\ VerifiedRun' /\ DisableSource' /\ UndoneFirst'
  BY <1>1, <1>2, <1>5
     DEF CaptureInv, Control, OffIsQuiet, StartingIsNew, EnableRun, VerifiedRun, DisableSource,
         UndoneFirst, DisablePcs
<1>7. DesktopHeld'
  <2>1. cap.mode = "desktop" => Claimed
    BY <1>1, Holders
  <2>2. Claimed => Claimed'
    BY <1>1, <1>5 DEF Claimed, Matches, ClaimedPcs
  <2>. QED BY <1>1, <2>1, <2>2 DEF CaptureInv, DesktopHeld, Listening
<1>8. ClosedIsUnused' /\ DoorLeft' /\ EnableDoor' /\ RoutedCapture'
  BY <1>4 DEF ClosedIsUnused, DoorLeft, EnableDoor, RoutedCapture
<1>. QED BY <1>6, <1>7, <1>8 DEF CaptureInv, Control, Routed

LEMMA UndoClaimInv ==
    ASSUME TypeOK, CaptureInv, UndoClaim, UNCHANGED <<app, op>> PROVE CaptureInv'
<1>0. tx \in Tx /\ cap \in Capture
  BY DEF TypeOK, SharedTypeOK, TrafficTypeOK
<1>1. /\ tx.pc = "undo_claim" /\ ~tx.verify /\ tx.pc \in EnableUndoPcs
      /\ tx.pc \notin RestingPcs \cup DisablePcs /\ tx.pc \notin SwitchedPcs
      /\ UNCHANGED <<config, gw, app, op, owner, last, door, journal>>
  BY DEF UndoClaim, At, OnlyCap, EnableUndoPcs, UndoPcs, SwitchedPcs, RestingPcs, DisablePcs
<1>2. ~tx.switched /\ door # Closed /\ app # "off"
  BY <1>1 DEF CaptureInv, ClosedIsUnused, Control, OffIsQuiet, RestingPcs, UndoneFirst
<1>3. CASE cap' = Released /\ UndoNext([tx EXCEPT !.claimed = FALSE])
  <2>1. cap'.mode = "capture_only"
    BY <1>0, <1>3 DEF Released, Capture
  <2>2. /\ tx'.run = tx.run /\ ~tx'.switched /\ ~tx'.verify
        /\ tx'.pc \in {"undo_door", "undo_claim", "undo_capture", "undo_record"}
    <3>1. /\ [tx EXCEPT !.claimed = FALSE] \in Tx
          /\ [tx EXCEPT !.claimed = FALSE].run = tx.run
          /\ [tx EXCEPT !.claimed = FALSE].switched = tx.switched
      BY <1>0 DEF Tx
    <3>. QED BY <1>2, <1>3, <3>1, UndoNextMoves
  <2>3. OffIsQuiet' /\ StartingIsNew' /\ EnableRun' /\ VerifiedRun' /\ DisableSource' /\ UndoneFirst'
    BY <1>1, <1>2, <2>2
       DEF CaptureInv, Control, OffIsQuiet, StartingIsNew, EnableRun, VerifiedRun, DisableSource,
           UndoneFirst, DisablePcs
  <2>4. DesktopHeld' /\ ClosedIsUnused'
    BY <1>1, <1>2, <2>1 DEF DesktopHeld, ClosedIsUnused
  <2>5. EnableDoor' /\ DoorLeft'
    BY <1>1, <1>2, <2>2 DEF CaptureInv, Routed, EnableDoor, DoorLeft, StillRouted
  <2>6. gw.session /\ config.url = FrontDoor => door # CaptureRelay
    BY <1>1, <1>2 DEF CaptureInv, Routed, EnableDoor, StillRouted
  <2>. QED BY <1>1, <2>3, <2>4, <2>5, <2>6 DEF CaptureInv, Control, Routed, RoutedCapture
<1>4. CASE ~CanRelease(tx.gen, tx.id) /\ UndoFailed /\ UNCHANGED cap
  <2>1. cap.mode # "desktop"
    BY <1>1, <1>4, Holders DEF CanRelease, Claimed, Matches
  <2>2. SameRun /\ tx'.claimed = tx.claimed /\ tx'.switched = tx.switched /\ tx'.pc = "undo_failed"
        /\ tx'.verify = tx.verify
    BY <1>0, <1>4 DEF UndoFailed, SameRun, Tx
  <2>. QED BY <1>1, <1>4, <2>1, <2>2, EnableGoesOnInv
           DEF EnableGoesOn, TxOutside, CapKept, EnableUndoPcs, UndoPcs
<1>. QED BY <1>3, <1>4 DEF UndoClaim

LEMMA UndoRestInv ==
    ASSUME TypeOK, CaptureInv, UndoCapture \/ UndoRecord \/ UndoFails, UNCHANGED <<app, op>>
    PROVE  CaptureInv'
<1>0. tx \in Tx /\ cap \in Capture
  BY DEF TypeOK, SharedTypeOK, TrafficTypeOK
<1>1. /\ tx.pc \in {"undo_capture", "undo_record", "undo_failed"} /\ ~tx.verify
      /\ tx.pc \in EnableUndoPcs /\ tx.pc \notin ClaimedPcs \cup RestingPcs \cup DisablePcs
      /\ tx.pc \notin SwitchedPcs
      /\ UNCHANGED <<config, gw, app, op, owner, last, door>>
  BY DEF UndoCapture, UndoRecord, UndoFails, At, OnlyCap, OnlyJournal, EnableUndoPcs, UndoPcs,
         SwitchedPcs, ClaimedPcs, RestingPcs, DisablePcs
<1>2. cap.mode # "desktop" /\ app # "off"
      /\ (tx.pc \in {"undo_capture", "undo_record"} => ~tx.switched)
  BY <1>1, Holders DEF CaptureInv, Control, OffIsQuiet, UndoneFirst
<1>3. cap'.mode # "desktop"
  BY <1>0, <1>2 DEF UndoCapture, UndoRecord, UndoFails, OnlyJournal, ClosedCapture, BadlyClosedCapture,
                    Capture
<1>4. CASE UndoFailed
  <2>1. SameRun /\ tx'.claimed = tx.claimed /\ tx'.switched = tx.switched /\ tx'.pc = "undo_failed"
        /\ tx'.verify = tx.verify
    BY <1>0, <1>4 DEF UndoFailed, SameRun, Tx
  <2>. QED BY <1>1, <1>2, <1>3, <2>1, EnableGoesOnInv
           DEF EnableGoesOn, TxOutside, CapKept, EnableUndoPcs, UndoPcs
<1>5. CASE UndoNext([tx EXCEPT !.started = FALSE]) /\ tx.pc = "undo_capture"
  <2>1. /\ [tx EXCEPT !.started = FALSE] \in Tx
        /\ [tx EXCEPT !.started = FALSE].run = tx.run /\ [tx EXCEPT !.started = FALSE].gen = tx.gen
        /\ [tx EXCEPT !.started = FALSE].id = tx.id /\ [tx EXCEPT !.started = FALSE].source = tx.source
        /\ [tx EXCEPT !.started = FALSE].claimed = tx.claimed
        /\ [tx EXCEPT !.started = FALSE].switched = tx.switched
    BY <1>0 DEF Tx
  <2>2. SameRun /\ tx'.claimed = tx.claimed /\ ~tx'.switched /\ ~tx'.verify
        /\ tx'.switched = tx.switched
        /\ tx'.pc \in {"undo_door", "undo_claim", "undo_capture", "undo_record"}
    BY <1>2, <1>5, <2>1, UndoNextMoves DEF SameRun
  <2>. QED BY <1>1, <1>2, <1>3, <2>2, EnableGoesOnInv
           DEF EnableGoesOn, TxOutside, CapKept, EnableUndoPcs, UndoPcs
<1>6. CASE Return(FALSE)
  <2>1. Returns
    BY <1>6, MovesAre
  <2>2. tx'.pc \in RestingPcs /\ tx'.pc \notin EnableUndoPcs
    BY <2>1 DEF Returns, RestingPcs, EnableUndoPcs, EnablePcs, UndoPcs
  <2>3. DisableSource' /\ DoorLeft'
    BY <2>1 DEF Returns, DisableSource, DoorLeft, DisablePcs
  <2>. QED BY <1>1, <1>2, <1>3, <2>1, <2>2, <2>3, OutsideEnableInv DEF OutsideEnable, CapKept, Returns
<1>. QED BY <1>4, <1>5, <1>6 DEF UndoCapture, UndoRecord, UndoFails, At

\* A checkpoint of Disable keeps the record that of an active integration.
LEMMA CheckpointOnRecord ==
    ASSUME TypeOK, NEW phase, NEW source, source.target = "analysis",
           journal' = DisableCheckpoint(journal, phase, source)
    PROVE  OnRecord'
<1>1. journal \in Journal
  BY DEF TypeOK, SharedTypeOK
<1>2. journal'.exists /\ journal'.target = "analysis"
  BY <1>1 DEF DisableCheckpoint, TrafficCheckpoint, Journal
<1>. QED BY <1>2 DEF OnRecord, TrafficActive

\* Where Disable goes on or fails, with the front door where it is.
DisableGoesOn ==
    /\ UNCHANGED <<config, gw, app, op, last, door>>
    /\ tx.pc \in DisablePcs /\ SameRun /\ ~tx'.verify
    /\ tx'.pc \in DisablePcs
    /\ tx'.pc \in {"disable_pause", "disable_restored", "disable_release", "disable_demote",
                   "disable_confirm"}
         => door # CaptureRelay

LEMMA DisableGoesOnInv ==
    ASSUME TypeOK, CaptureInv, DisableGoesOn,
           \/ CapKept /\ UNCHANGED owner /\ (OnRecord => OnRecord')
           \/ cap'.mode # "desktop" /\ door # CaptureRelay /\ owner' \in {owner, NoOwner}
    PROVE  CaptureInv'
<1>1. tx.pc \notin EnableUndoPcs \cup RestingPcs /\ tx'.pc \notin EnableUndoPcs
      /\ tx.pc # "idle"
  BY PcFacts DEF DisableGoesOn
<1>2. app # "off" /\ tx.pc \notin SwitchedPcs /\ door # Closed
  BY <1>1, Busy DEF CaptureInv, ClosedIsUnused
<1>3. DisableSource' /\ DoorLeft'
  BY DEF CaptureInv, Control, DisableSource, DoorLeft, DisableGoesOn, SameRun
<1>. QED BY <1>1, <1>2, <1>3, OutsideEnableInv DEF OutsideEnable, DisableGoesOn

\* What is read of the record is what is written back.
LEMMA DisableSavesInv ==
    ASSUME TypeOK, CaptureInv, UNCHANGED <<app, op>>,
           NEW pc \in DisablePcs, NEW phase, NEW next \in DisablePcs,
           DisableSaves(pc, phase, next),
           next \in {"disable_pause", "disable_restored", "disable_release", "disable_demote",
                     "disable_confirm"}
             => door # CaptureRelay
    PROVE  CaptureInv'
<1>1. tx.pc \in DisablePcs /\ ~tx.verify /\ UNCHANGED <<config, gw, app, op, last, door, cap, owner>>
  BY DEF DisableSaves, At, OnlyJournal
<1>2. tx.source.target = "analysis"
  BY <1>1 DEF CaptureInv, Control, DisableSource
<1>3. OnRecord => OnRecord'
  BY <1>2, CheckpointOnRecord DEF DisableSaves, Saves, SaveFails, OnRecord
<1>4. Moves(next, tx.verify) \/ Moves("disable_failed", tx.verify)
  BY MovesAre DEF DisableSaves
<1>5. DisableGoesOn
  BY <1>1, <1>4 DEF DisableGoesOn, Moves, DisablePcs
<1>. QED BY <1>1, <1>3, <1>5, DisableGoesOnInv DEF CapKept

\* Disable: the front door first, then the capture, then the record.
LEMMA DisableInv == ASSUME TypeOK, CaptureInv, DisableStep, UNCHANGED <<app, op>> PROVE CaptureInv'
<1>0. tx \in Tx /\ cap \in Capture /\ journal \in Journal
  BY DEF TypeOK, SharedTypeOK, TrafficTypeOK
<1>m. \A pc : TxGoto(pc) => Moves(pc, tx.verify)
  BY MovesAre
<1>p. {"disable_record", "disable_door", "disable_pause", "disable_restored", "disable_release",
       "disable_demote", "disable_confirm", "disable_failed"} \subseteq DisablePcs
  BY DEF DisablePcs
<1>1. CASE Refused("disable", CanDisable)
  BY <1>1, RefusedInv
<1>2. CASE DisableBegin
  <2>1. /\ tx.pc = "begin" /\ UNCHANGED <<config, gw, app, op, last, door, cap, owner, journal>>
        /\ TrafficActive(journal) /\ owner # NoOwner
    BY <1>2 DEF DisableBegin, At, OnlyTx, shared, CanDisable
  <2>2. tx'.pc = "disable_record" /\ ~tx'.verify /\ tx'.source.target = "analysis"
    BY <1>0, <1>2, <2>1 DEF DisableBegin, At, Tx, Source, TrafficActive
  <2>3. tx.pc \notin EnableUndoPcs /\ tx'.pc \notin EnableUndoPcs /\ tx.pc \in RestingPcs
        /\ tx'.pc \in DisablePcs
    BY <2>1, <2>2, <1>p, PcFacts DEF RestingPcs
  <2>4. app # "off" /\ tx.pc \notin SwitchedPcs /\ door # Closed
    BY <2>1, <2>3, Busy DEF CaptureInv, ClosedIsUnused
  <2>5. DisableSource' /\ DoorLeft'
    BY <2>2 DEF DisableSource, DoorLeft
  <2>. QED BY <2>1, <2>2, <2>3, <2>4, <2>5, OutsideEnableInv DEF OutsideEnable, CapKept, OnRecord
<1>3. CASE DisableRecord
  BY <1>3, <1>p, DisableSavesInv DEF DisableRecord
<1>4. CASE DisableDoor
  <2>1. /\ tx.pc = "disable_door" /\ ~tx.verify
        /\ UNCHANGED <<config, gw, app, op, last, cap, owner, journal>>
    BY <1>4 DEF DisableDoor, At, OnlyDoor
  <2>2. tx.pc \notin EnableUndoPcs \cup RestingPcs /\ tx.pc \in DisablePcs
    BY <2>1, <1>p, PcFacts
  <2>3. app # "off" /\ tx.pc \notin SwitchedPcs /\ door # Closed
    BY <2>1, <2>2, Busy DEF CaptureInv, ClosedIsUnused
  <2>4. door' = GatewayBackend /\ Moves("disable_pause", tx.verify)
    BY <1>4, <1>m, <2>3 DEF DisableDoor, Switch
  <2>5. door' \notin {Closed, CaptureRelay}
    BY <2>4 DEF GatewayBackend, Closed, CaptureRelay
  <2>6. tx'.pc \in DisablePcs /\ tx'.pc \notin EnableUndoPcs /\ ~tx'.verify /\ SameRun
    BY <1>p, <2>1, <2>4, PcFacts DEF Moves
  <2>7. DisableSource' /\ DoorLeft'
    BY <2>2, <2>5, <2>6 DEF CaptureInv, Control, DisableSource, DoorLeft, SameRun
  <2>. QED BY <2>1, <2>2, <2>3, <2>5, <2>6, <2>7, OutsideEnableInv DEF OutsideEnable, CapKept, OnRecord
<1>5. CASE DisablePause
  <2>1. /\ tx.pc = "disable_pause" /\ ~tx.verify
        /\ UNCHANGED <<config, gw, app, op, last, door, owner, journal>>
    BY <1>5 DEF DisablePause, At, OnlyCap
  <2>2. Moves("disable_restored", tx.verify) \/ Moves("disable_failed", tx.verify)
    BY <1>5, <1>m DEF DisablePause
  <2>3. DisableGoesOn
    BY <1>p, <2>1, <2>2 DEF DisableGoesOn, Moves, CaptureInv, Routed, DoorLeft
  <2>4. CapKept
    <3>1. CASE cap' = [cap EXCEPT !.relay = "passthrough"]
      BY <1>0, <3>1 DEF CapKept, Capture
    <3>. QED BY <1>5, <3>1 DEF DisablePause, CapKept
  <2>. QED BY <2>1, <2>3, <2>4, DisableGoesOnInv DEF OnRecord
<1>6. CASE DisableRestored
  <2>1. CASE DisableSaves("disable_restored", "config_restored", "disable_release")
    <3>1. door # CaptureRelay
      BY <2>1 DEF DisableSaves, At, CaptureInv, Routed, DoorLeft
    <3>. QED BY <1>6, <1>p, <2>1, <3>1, DisableSavesInv
  <2>2. CASE At("disable_restored") /\ TxGoto("disable_failed") /\ OnlyTx
    <3>1. DisableGoesOn
      BY <1>m, <1>p, <1>6, <2>2 DEF DisableGoesOn, Moves, At, OnlyTx, shared
    <3>. QED BY <2>2, <3>1, DisableGoesOnInv DEF OnlyTx, shared, CapKept, OnRecord
  <2>. QED BY <1>6, <2>1, <2>2 DEF DisableRestored
<1>7. CASE DisableRelease
  <2>1. /\ tx.pc = "disable_release" /\ ~tx.verify /\ door # CaptureRelay
        /\ UNCHANGED <<config, gw, app, op, last, door, journal>>
    BY <1>7 DEF DisableRelease, At, CaptureInv, Routed, DoorLeft
  <2>2. Moves("disable_demote", tx.verify) \/ Moves("disable_failed", tx.verify)
    BY <1>7, <1>m DEF DisableRelease
  <2>3. DisableGoesOn
    BY <1>p, <2>1, <2>2 DEF DisableGoesOn, Moves
  <2>4. CASE cap' = Released /\ owner' = NoOwner
    <3>1. cap'.mode # "desktop"
      BY <1>0, <2>4 DEF Released, Capture
    <3>. QED BY <2>1, <2>3, <2>4, <3>1, DisableGoesOnInv
  <2>5. CASE UNCHANGED <<cap, owner>>
    BY <2>1, <2>3, <2>5, DisableGoesOnInv DEF CapKept, OnRecord
  <2>. QED BY <1>7, <2>4, <2>5 DEF DisableRelease
<1>8. CASE DisableDemote
  <2>1. /\ tx.pc = "disable_demote" /\ ~tx.verify /\ door # CaptureRelay
        /\ UNCHANGED <<config, gw, app, op, last, door, cap, owner>>
    BY <1>8 DEF DisableDemote, At, OnlyJournal, CaptureInv, Routed, DoorLeft
  <2>2. Moves("disable_confirm", tx.verify) \/ Moves("disable_failed", tx.verify)
    BY <1>8, <1>m DEF DisableDemote
  <2>3. DisableGoesOn
    BY <1>p, <2>1, <2>2 DEF DisableGoesOn, Moves
  <2>4. CASE IsCaptureOnly("passthrough", tx.gen, tx.run)
    BY <2>1, <2>3, <2>4, DisableGoesOnInv DEF IsCaptureOnly
  <2>5. CASE ~IsCaptureOnly("passthrough", tx.gen, tx.run)
    BY <1>8, <2>1, <2>3, <2>5, DisableGoesOnInv DEF DisableDemote, CapKept, OnRecord
  <2>. QED BY <2>4, <2>5
<1>9. CASE DisableConfirm \/ DisableFails
  <2>1. /\ tx.pc \in {"disable_confirm", "disable_failed"} /\ ~tx.verify
        /\ UNCHANGED <<config, gw, app, op, last, door, cap, owner>>
    BY <1>9 DEF DisableConfirm, DisableFails, At, OnlyJournal, OnlyTx, shared
  <2>2. tx.pc \notin EnableUndoPcs \cup RestingPcs /\ tx.pc \in DisablePcs
    BY <2>1, <1>p, PcFacts
  <2>3. app # "off" /\ tx.pc \notin SwitchedPcs /\ door # Closed
    BY <2>1, <2>2, Busy DEF CaptureInv, ClosedIsUnused
  <2>4. OnRecord => OnRecord'
    <3>1. CASE DisableConfirm
      BY <3>1 DEF DisableConfirm, OnlyTx, shared, OnRecord
    <3>2. CASE DisableFails
      <4>1. tx.source.target = "analysis"
        BY <2>2 DEF CaptureInv, Control, DisableSource
      <4>. QED BY <3>2, <4>1, CheckpointOnRecord DEF DisableFails, SavesOrNot, Saves, SaveFails, OnRecord
    <3>. QED BY <1>9, <3>1, <3>2
  <2>5. CASE TxGoto("disable_failed")
    <3>1. DisableGoesOn
      BY <1>m, <1>p, <2>1, <2>5 DEF DisableGoesOn, Moves
    <3>. QED BY <2>1, <2>4, <3>1, DisableGoesOnInv DEF CapKept
  <2>6. CASE \E ok : Return(ok)
    <3>1. Returns
      BY <2>6, MovesAre
    <3>2. tx'.pc \in RestingPcs /\ tx'.pc \notin EnableUndoPcs
      BY <3>1 DEF Returns, RestingPcs, EnableUndoPcs, EnablePcs, UndoPcs
    <3>3. DisableSource' /\ DoorLeft'
      BY <3>1 DEF Returns, DisableSource, DoorLeft, DisablePcs
    <3>. QED BY <2>1, <2>2, <2>3, <2>4, <3>1, <3>2, <3>3, OutsideEnableInv
             DEF OutsideEnable, CapKept, Returns
  <2>. QED BY <1>9, <2>5, <2>6 DEF DisableConfirm, DisableFails
<1>. QED BY <1>1, <1>2, <1>3, <1>4, <1>5, <1>6, <1>7, <1>8, <1>9 DEF DisableStep

\* Finish only ever has a capture that the desktop has given back.
LEMMA FinishInv == ASSUME TypeOK, CaptureInv, FinishStep, UNCHANGED <<app, op>> PROVE CaptureInv'
<1>0. tx \in Tx /\ cap \in Capture
  BY DEF TypeOK, SharedTypeOK, TrafficTypeOK
<1>m. \A pc : TxGoto(pc) => Moves(pc, tx.verify)
  BY MovesAre
<1>1. CASE Refused("finish", CanFinish)
  BY <1>1, RefusedInv
<1>2. CASE FinishBegin
  <2>1. /\ tx.pc = "begin" /\ ~tx.verify /\ cap.mode # "desktop" /\ last.run # NoRun
        /\ UNCHANGED <<config, gw, app, op, last, door, cap, owner, journal>>
    BY <1>2 DEF FinishBegin, At, OnlyTx, shared, CanFinish, IsCaptureOnly
  <2>2. tx'.pc = "finish_record" /\ ~tx'.verify
    BY <1>0, <1>2, <2>1 DEF FinishBegin, Tx
  <2>3. tx.pc \notin EnableUndoPcs /\ tx'.pc \notin EnableUndoPcs
    BY <2>1, <2>2 DEF EnableUndoPcs, EnablePcs, UndoPcs
  <2>4. app # "off" /\ tx.pc \notin SwitchedPcs /\ door # Closed
    BY <2>1, <2>3, Busy DEF CaptureInv, ClosedIsUnused
  <2>5. DisableSource' /\ DoorLeft'
    BY <2>2 DEF DisableSource, DoorLeft, DisablePcs
  <2>. QED BY <2>1, <2>2, <2>3, <2>4, <2>5, OutsideEnableInv DEF OutsideEnable, CapKept
<1>3. CASE FinishStep /\ ~Refused("finish", CanFinish) /\ ~FinishBegin
  <2>1. /\ tx.pc \in FinishPcs /\ ~tx.verify
        /\ UNCHANGED <<config, gw, app, op, door, owner>>
    BY <1>3 DEF FinishStep, FinishRecord, FinishClose, FinishFinal, FinishConfirm, FinishFails,
                FinishSaves, At, OnlyJournal, OnlyCap, OnlyTx, shared, FinishPcs
  <2>2. tx.pc \notin EnableUndoPcs \cup RestingPcs \cup DisablePcs \cup ClaimedPcs /\ tx.pc # "idle"
    BY <2>1, PcFacts
  <2>3. app # "off" /\ tx.pc \notin SwitchedPcs /\ door # Closed /\ cap.mode # "desktop"
    BY <2>1, <2>2, Busy, Holders DEF CaptureInv, ClosedIsUnused
  <2>4. cap'.mode # "desktop" /\ last' \in {last, NoLast}
    BY <1>0, <1>3, <2>3
       DEF FinishStep, FinishRecord, FinishClose, FinishFinal, FinishConfirm, FinishFails, FinishSaves,
           OnlyJournal, OnlyCap, OnlyTx, shared, ClosedCapture, BadlyClosedCapture, Capture
  <2>5. \/ \E pc \in FinishPcs : Moves(pc, tx.verify)
        \/ Returns
    BY <1>3, <1>m, MovesAre
       DEF FinishStep, FinishRecord, FinishClose, FinishFinal, FinishConfirm, FinishFails, FinishSaves,
           FinishPcs
  <2>6. tx'.pc \in FinishPcs \cup {"idle", "returned"} /\ ~tx'.verify
    BY <2>1, <2>5 DEF Moves, Returns
  <2>7. tx'.pc \notin EnableUndoPcs \cup DisablePcs
    BY <2>6 DEF FinishPcs, EnableUndoPcs, EnablePcs, UndoPcs, DisablePcs
  <2>8. DisableSource' /\ DoorLeft'
    BY <2>7 DEF DisableSource, DoorLeft, DisablePcs
  <2>. QED BY <2>1, <2>2, <2>3, <2>4, <2>6, <2>7, <2>8, OutsideEnableInv DEF OutsideEnable, CapKept
<1>. QED BY <1>1, <1>2, <1>3

\* Every step of a transaction.
LEMMA TxInv == ASSUME TypeOK, CaptureInv, TxSteps PROVE CaptureInv'
<1>1. UNCHANGED <<app, op>>
  BY DEF TxSteps
<1>2. CASE EnableStep
  BY <1>1, <1>2, RefusedInv, EnableBeginInv, EnableLooksInv, EnableStartInv, EnableClaimInv,
     EnableSwitchInv, EnableConfirmInv DEF EnableStep
<1>3. CASE BackoutStep
  BY <1>1, <1>3, UndoDoorInv, UndoClaimInv, UndoRestInv DEF BackoutStep
<1>. QED BY <1>1, <1>2, <1>3, DisableInv, FinishInv DEF TxSteps, TxStep

-----------------------------------------------------------------------------
(* The commands of the app, recovery, and what happens by itself.          *)

LEMMA CommandCaptureInv == ASSUME TypeOK, CaptureInv, Commands PROVE CaptureInv'
<1>1. PICK kind \in {"enable", "disable", "finish"} : TrafficCommand(kind)
  BY DEF Commands
<1>2. /\ app = "up" /\ tx.pc = "idle" /\ tx'.pc = "begin" /\ ~tx'.verify
      /\ UNCHANGED <<config, gw, app, op, last, door, cap, owner, journal>>
  BY <1>1 DEF TrafficCommand, Reserve, OnlyTx, shared, NoTx
<1>3. /\ tx.pc \notin EnableUndoPcs \cup SwitchedPcs /\ tx.pc \in RestingPcs
      /\ tx'.pc \notin EnableUndoPcs \cup DisablePcs /\ tx'.pc \in RestingPcs
  BY <1>2 DEF EnableUndoPcs, EnablePcs, UndoPcs, SwitchedPcs, RestingPcs, DisablePcs
<1>4. DisableSource' /\ DoorLeft'
  BY <1>2, <1>3 DEF DisableSource, DoorLeft
<1>. QED BY <1>2, <1>3, <1>4, OutsideEnableInv DEF OutsideEnable, CapKept, OnRecord

\* Stopping and leaving wait for the traffic layer.
LEMMA TeardownCaptureInv ==
    ASSUME IInv, CaptureInv, NEW pc \in {"stop_traffic", "down_traffic"},
           NEW next \in {"stop_door", "down_door"},
           \/ TrafficTeardown(pc, next)
           \/ TrafficDown(pc, next, OpEnds) \/ TrafficDown(pc, next, OpGoto(next))
    PROVE  CaptureInv'
<1>0. TypeOK /\ op \in Op
  BY DEF IInv, TypeOK
<1>1. /\ op.pc = pc /\ app # "off" /\ tx.pc \in {"idle", "returned"}
      /\ UNCHANGED <<config, gw, app, last, door, cap, owner, journal>>
  BY DEF TrafficTeardown, TrafficDown, OpAt, IInv, OffIsIdle, Reserve, OnlyTx, shared, trafficVars
<1>2. op' = op \/ op'.pc \in {"idle", "stop_door", "down_door"}
  BY <1>0 DEF TrafficTeardown, TrafficDown, OpGoto, OpEnds, NoOp, Op
<1>3. tx' = tx \/ (tx'.pc \in {"idle", "begin"} /\ ~tx'.verify)
  <2>1. tx' = tx \/ tx' = NoTx \/ \E kind : Reserve(kind, "app")
    BY DEF TrafficTeardown, TrafficDown, trafficVars
  <2>2. \A kind, by : Reserve(kind, by) => tx'.pc = "begin" /\ ~tx'.verify
    BY DEF Reserve, NoTx
  <2>3. NoTx.pc = "idle" /\ ~NoTx.verify
    BY DEF NoTx
  <2>. QED BY <2>1, <2>2, <2>3
<1>4. /\ tx.pc \notin EnableUndoPcs \cup SwitchedPcs /\ tx.pc \in RestingPcs
      /\ tx'.pc \notin EnableUndoPcs \cup DisablePcs /\ tx'.pc \in RestingPcs
      /\ op.pc # "down_service" /\ (op' = op \/ op'.pc \notin StartingPcs)
  BY <1>1, <1>2, <1>3
     DEF EnableUndoPcs, EnablePcs, UndoPcs, SwitchedPcs, RestingPcs, DisablePcs, StartingPcs
<1>5. ~tx'.verify
  BY <1>3, <1>4 DEF CaptureInv, Control, EnableRun, EnableUndoPcs
<1>6. DisableSource' /\ DoorLeft'
  BY <1>4 DEF DisableSource, DoorLeft, DisablePcs
<1>. QED BY <1>0, <1>1, <1>4, <1>5, <1>6, OutsideEnableInv DEF OutsideEnable, CapKept, OnRecord

\* Explicit recovery is of an app that rests; it pauses or frees a capture only
\* once Codex has left the front door.
LEMMA RecoveryCaptureInv == ASSUME IInv, CaptureInv, Recovery PROVE CaptureInv'
<1>0. /\ TypeOK /\ cap \in Capture /\ config \in Config /\ journal \in Journal
      /\ journal.orig # FrontDoor
  BY Types, OriginalsAssumption DEF IInv
<1>1. /\ app = "up" /\ op.pc = "idle" /\ tx.pc = "idle"
      /\ UNCHANGED <<gw, app, op, tx, last, door, owner>>
  BY DEF Recovery, RestoreConflict, RestoreRecovery, RestoreFails, DiscardRecovery, NothingHeld,
         OpAt, RestoreKeeps, trafficVars
<1>2. /\ tx.pc \notin EnableUndoPcs \cup SwitchedPcs \cup DisablePcs /\ tx.pc \in RestingPcs
      /\ ~tx.verify
  BY <1>1 DEF EnableUndoPcs, EnablePcs, UndoPcs, SwitchedPcs, RestingPcs, DisablePcs,
              CaptureInv, Control, EnableRun
<1>3. DisableSource' /\ DoorLeft'
  BY <1>1, <1>2 DEF DisableSource, DoorLeft, DisablePcs
<1>p. ASSUME CanRestore, cap' = Paused PROVE CapKept
  <2>1. CASE cap.mode = "desktop"
    BY <1>0, <1>p, <2>1 DEF Paused, CapKept, Capture
  <2>. QED BY <1>p, <2>1 DEF Paused, CapKept
<1>f. cap' = Freed => cap'.mode # "desktop"
  BY <1>0 DEF Freed, Paused, Capture
<1>4. CASE RestoreConflict
  <2>1. config' = config /\ CapKept
    BY <1>4, <1>p DEF RestoreConflict
  <2>2. OnRecord => OnRecord'
    BY <1>0, <1>4
       DEF RestoreConflict, SavesOrNot, Saves, SaveFails, MarkConflict, OnRecord, TrafficActive,
           HasUnresolved, Journal
  <2>. QED BY <1>0, <1>1, <1>2, <1>3, <2>1, <2>2, OutsideEnableInv DEF OutsideEnable
<1>5. CASE RestoreRecovery
  <2>1. config'.url # FrontDoor
    BY <1>0, <1>5 DEF RestoreRecovery, SameRestoreTarget, OriginalUpstream, Writes, Config
  <2>2. \/ cap'.mode # "desktop"
        \/ CapKept /\ journal' = journal
    BY <1>5, <1>p, <1>f DEF RestoreRecovery, SaveFails
  <2>. QED BY <1>0, <1>1, <1>2, <1>3, <2>1, <2>2, OutsideEnableInv DEF OutsideEnable, OnRecord
<1>6. CASE RestoreFails
  <2>1. config'.url = FrontDoor => config.url = FrontDoor
    BY <1>0, <1>6 DEF RestoreFails, CommitFails, OriginalUpstream, Writes, Config
  <2>2. CapKept /\ journal' = journal
    BY <1>6, <1>p DEF RestoreFails
  <2>. QED BY <1>0, <1>1, <1>2, <1>3, <2>1, <2>2, OutsideEnableInv DEF OutsideEnable, OnRecord
<1>7. CASE DiscardRecovery
  <2>1. config' = config /\ cap' = cap /\ cap.mode # "desktop"
    BY <1>7 DEF DiscardRecovery
  <2>. QED BY <1>0, <1>1, <1>2, <1>3, <2>1, OutsideEnableInv DEF OutsideEnable, CapKept
<1>. QED BY <1>4, <1>5, <1>6, <1>7 DEF Recovery

\* A step of the app beside a transaction: Codex is only sent to the front door
\* by a start that has no session yet.
BesideTx ==
    /\ UNCHANGED <<gw, tx, owner, last>>
    /\ cap' = cap \/ (CapKept /\ gw.up /\ cap'.run \in {cap.run, NoRun})
    /\ app' = "off" => app = "off"
    /\ config'.url = FrontDoor => config.url = FrontDoor \/ op.pc \in StartingPcs
    /\ op'.pc \in StartingPcs => op.pc \in StartingPcs
    /\ op'.pc \in StartingPcs \ {"door", "start_failed"} /\ door' = Closed
         => op.pc \in StartingPcs \ {"door", "start_failed"}
    /\ door' = door \/ door' \notin {CaptureRelay, Closed}
    /\ cap.mode = "desktop" /\ (op.pc # "down_service" => OnRecord)
         => (op'.pc # "down_service" => OnRecord')

LEMMA BesideTxInv == ASSUME TypeOK, CaptureInv, BesideTx PROVE CaptureInv'
<1>1. /\ UNCHANGED <<gw, tx, owner, last>>
      /\ op'.pc \in StartingPcs => op.pc \in StartingPcs
  BY DEF BesideTx
<1>2. CapKept
  BY DEF BesideTx, CapKept
<1>3. OffIsQuiet' /\ StartingIsNew' /\ EnableRun' /\ DisableSource' /\ UndoneFirst'
  BY <1>1, <1>2
     DEF CaptureInv, Control, OffIsQuiet, StartingIsNew, EnableRun, DisableSource, UndoneFirst,
         BesideTx, CapKept
<1>4. VerifiedRun'
  <2>1. tx.pc = "claim" => tx.run # NoRun
    BY DEF CaptureInv, Control, EnableRun, EnableUndoPcs, EnablePcs
  <2>. QED BY <1>1, <2>1 DEF CaptureInv, Control, VerifiedRun, BesideTx
<1>5. DesktopHeld'
  <2>1. CASE cap.mode = "desktop" /\ cap'.mode = "desktop"
    <3>1. /\ cap'.run = cap.run /\ cap'.gen = cap.gen /\ cap'.owner = cap.owner
          /\ Listening => Listening'
      BY <1>2, <2>1 DEF CapKept, Listening
    <3>2. (Claimed => Claimed') /\ (Settled => Settled')
      BY <1>1, <2>1, <3>1 DEF Claimed, Settled, Matches, BesideTx
    <3>. QED BY <1>1, <2>1, <3>1, <3>2 DEF CaptureInv, DesktopHeld
  <2>2. CASE cap'.mode # "desktop"
    BY <2>2 DEF DesktopHeld
  <2>. QED BY <1>2, <2>1, <2>2 DEF CapKept
<1>6. DoorLeft' /\ EnableDoor' /\ RoutedCapture'
  <2>1. op.pc \in StartingPcs => ~gw.session /\ (tx.pc \in EnableUndoPcs => ~StillRouted)
    BY DEF CaptureInv, Control, StartingIsNew, StillRouted
  <2>2. cap.mode = "desktop" => cap'.mode = "desktop"
    BY <1>2 DEF CapKept
  <2>3. DoorLeft' /\ EnableDoor'
    BY <1>1, <2>1 DEF CaptureInv, Routed, DoorLeft, EnableDoor, StillRouted, BesideTx
  <2>4. RoutedCapture'
    BY <1>1, <2>1, <2>2 DEF CaptureInv, Routed, RoutedCapture, BesideTx
  <2>. QED BY <2>3, <2>4
<1>7. ClosedIsUnused'
  BY <1>1 DEF CaptureInv, ClosedIsUnused, BesideTx
<1>. QED BY <1>3, <1>4, <1>5, <1>6, <1>7 DEF CaptureInv, Control, Routed

\* What a restore may do to the file, and what follows it.
LEMMA RestoresEffect ==
    ASSUME TypeOK, NEW next \in OpPcs, NEW nothing \in OpPcs, NEW failed \in OpPcs,
           Restores(next, nothing, failed)
    PROVE  /\ op'.pc \in {next, nothing, failed}
           /\ config'.url = FrontDoor => config.url = FrontDoor
<1>1. journal.orig # FrontDoor /\ config \in Config
  BY Types, OriginalsAssumption
<1>2. op'.pc \in {next, nothing, failed}
  BY OpControl DEF Restores
<1>3. config'.url = FrontDoor => config.url = FrontDoor
  BY <1>1 DEF Restores, Commits, CommitFails, Writes, Config
<1>. QED BY <1>2, <1>3

\* A start of the gateway beside a transaction.
LEMMA StartBesideTx ==
    ASSUME IInv, CaptureInv,
           \/ StartGateway \/ StartDoor \/ StartIntegrated \/ StartReset \/ StartResetSave
           \/ StartRedirect \/ StartRedirectCommit \/ StartRollback \/ StartRollbackSave
           \/ StartRollbackMark
    PROVE  CaptureInv'
<1>0. TypeOK /\ op \in Op /\ journal.orig \in Upstreams /\ config \in Config
  BY Types DEF IInv
<1>1. UNCHANGED <<gw, tx, owner, last, cap, app>>
  BY DEF StartGateway, StartDoor, StartIntegrated, StartReset, StartResetSave, StartRedirect,
         StartRedirectCommit, StartRollback, StartRollbackSave, StartRollbackMark, Restores,
         RestoreSaves, OnlyOp, shared, Op2Config, Op2Journal, trafficVars
<1>2. CASE StartGateway
  <2>1. op.pc = "idle" /\ op'.pc = "start" /\ UNCHANGED <<door, config, journal>>
    BY <1>2 DEF StartGateway, OpAt, OnlyOp, shared, NoOp
  <2>. QED BY <1>0, <1>1, <2>1, BesideTxInv DEF BesideTx, StartingPcs, OnRecord
<1>3. CASE ~StartGateway
  <2>1. op.pc \in StartingPcs
    BY <1>3 DEF StartDoor, StartIntegrated, StartReset, StartResetSave, StartRedirect,
         StartRedirectCommit, StartRollback, StartRollbackSave, StartRollbackMark, OpAt, StartingPcs
  <2>2. cap.mode # "desktop"
    BY <2>1 DEF CaptureInv, DesktopHeld
  <2>3. CASE StartDoor
    <3>1. op.pc = "door" /\ UNCHANGED config
          /\ \/ op'.pc = "integrated" /\ door # Closed /\ door' = door
             \/ op'.pc = "integrated" /\ door' = journal.orig
             \/ op'.pc = "start_failed" /\ door' = door
      BY <1>0, <2>3 DEF StartDoor, OpAt, OpGoto, Op, OriginalUpstream
    <3>2. journal.orig \notin {CaptureRelay, Closed}
      BY <1>0, DoorAssumption DEF Urls
    <3>. QED BY <1>0, <1>1, <2>1, <2>2, <3>1, <3>2, BesideTxInv DEF BesideTx
  <2>4. CASE ~StartDoor
    <3>1. op.pc \in StartingPcs \ {"door", "start_failed"} /\ door' = door
      BY <1>3, <2>4
         DEF StartIntegrated, StartReset, StartResetSave, StartRedirect, StartRedirectCommit,
             StartRollback, StartRollbackSave, StartRollbackMark, OpAt, StartingPcs, Restores,
             RestoreSaves, OnlyOp, shared, Op2Config, Op2Journal
    <3>. QED BY <1>0, <1>1, <2>1, <2>2, <3>1, BesideTxInv DEF BesideTx
  <2>. QED BY <2>3, <2>4
<1>. QED BY <1>2, <1>3

\* So does stopping it, leaving the app, starting it, and the user.
LEMMA StopBesideTx ==
    ASSUME IInv, CaptureInv,
           \/ StopGateway \/ StopDoor \/ Shutdown \/ Quit \/ DownDoor \/ DownConfig \/ DownSave
           \/ Startup \/ Management \/ UserEdits
    PROVE  CaptureInv'
<1>0. /\ TypeOK /\ op \in Op /\ journal.orig \in Upstreams /\ config \in Config /\ cap \in Capture
      /\ app \in {"off", "up", "closing"}
  BY Types DEF IInv
<1>1. UNCHANGED <<gw, tx, owner, last>>
  BY DEF StopGateway, StopDoor, Shutdown, Quit, DownDoor, DownConfig, DownSave, Startup, Management,
         MgmtStart, MgmtPause, MgmtResume, MgmtStop, MgmtClose, ManagedTo, UserEdits, Restores,
         RestoreSaves, OnlyOp, shared, Op2Config, Op2Journal, Op2Door, trafficVars
<1>d. journal.orig \notin {CaptureRelay, Closed}
  BY <1>0, DoorAssumption DEF Urls
<1>2. CASE StopGateway \/ Shutdown
  <2>1. /\ op.pc = "idle" /\ op'.pc \in {"stop_traffic", "stop_door", "down_traffic", "down_door"}
        /\ UNCHANGED <<door, config, journal, cap, app>>
    BY <1>2 DEF StopGateway, Shutdown, OpAt, OnlyOp, shared, NoOp
  <2>. QED BY <1>0, <1>1, <2>1, BesideTxInv DEF BesideTx, StartingPcs, OnRecord
<1>3. CASE StopDoor \/ DownDoor
  <2>1. /\ op.pc \in {"stop_door", "down_door"}
        /\ op'.pc \in {"stop_service", "down_config", "down_service"}
        /\ UNCHANGED <<config, journal, cap, app>>
        /\ door' \in {door, journal.orig}
    BY <1>0, <1>3 DEF StopDoor, DownDoor, OpAt, OpGoto, Op, Op2Door, Switch, OriginalUpstream
  <2>. QED BY <1>0, <1>1, <1>d, <2>1, BesideTxInv DEF BesideTx, StartingPcs, OnRecord
<1>4. CASE Quit
  BY <1>0, <1>1, <1>4, BesideTxInv DEF Quit, BesideTx, OnRecord
<1>5. CASE DownConfig \/ DownSave
  <2>1. /\ UNCHANGED <<door, cap, app>>
        /\ op.pc \in {"down_config", "down_save"}
    BY <1>5 DEF DownConfig, DownSave, OpAt, Restores, RestoreSaves, Op2Config, Op2Journal
  <2>2. /\ op'.pc \in {"down_save", "down_service"}
        /\ config'.url = FrontDoor => config.url = FrontDoor
        /\ op'.pc = "down_service" \/ journal' = journal
    <3>1. {"down_save", "down_service"} \subseteq OpPcs
      BY DEF OpPcs
    <3>2. CASE DownConfig
      BY <1>0, <3>1, <3>2, RestoresEffect DEF DownConfig, Restores, Op2Config
    <3>3. CASE DownSave
      BY <1>0, <3>1, <3>3, OpControl DEF DownSave, RestoreSaves, Op2Journal
    <3>. QED BY <1>5, <3>2, <3>3
  <2>. QED BY <1>0, <1>1, <2>1, <2>2, BesideTxInv DEF BesideTx, StartingPcs, OnRecord
<1>6. CASE Startup
  <2>1. /\ app = "off" /\ app' = "up" /\ UNCHANGED <<config, cap, op>>
        /\ door' \in {door, journal.orig}
    BY <1>6 DEF Startup, OriginalUpstream
  <2>2. cap.mode # "desktop" /\ op.pc = "idle"
    BY <2>1 DEF CaptureInv, Control, OffIsQuiet, IInv, OffIsIdle
  <2>. QED BY <1>0, <1>1, <1>d, <2>1, <2>2, BesideTxInv DEF BesideTx, StartingPcs
<1>7. CASE Management
  <2>1. UNCHANGED <<config, journal, door, app, op>> /\ gw.up
    BY <1>7 DEF Management, MgmtStart, MgmtPause, MgmtResume, MgmtStop, MgmtClose, ManagedTo
  <2>2. cap.mode # "desktop" /\ cap'.mode # "desktop" /\ cap'.run \in {cap.run, NoRun}
    BY <1>0, <1>7
       DEF Management, MgmtStart, MgmtPause, MgmtResume, MgmtStop, MgmtClose, ManagedTo, CanStart,
           Started, IsCaptureOnly, CanClose, ClosedCapture, Capture
  <2>. QED BY <1>0, <1>1, <2>1, <2>2, BesideTxInv DEF BesideTx, CapKept
<1>8. CASE UserEdits
  <2>1. UNCHANGED <<journal, door, cap, app, op>>
    BY <1>8 DEF UserEdits
  <2>2. config'.url = FrontDoor => config.url = FrontDoor
    BY <1>0, <1>8, OriginalsAssumption DEF UserEdits, Config
  <2>. QED BY <1>0, <1>1, <2>1, <2>2, BesideTxInv DEF BesideTx, OnRecord
<1>. QED BY <1>2, <1>3, <1>4, <1>5, <1>6, <1>7, <1>8

\* A new run, which nothing knows yet: the capture it is bound to has no relay.
LEMMA StartServiceInv == ASSUME TypeOK, CaptureInv, StartService PROVE CaptureInv'
<1>0. gw \in Gateway /\ cap \in Capture /\ op \in Op /\ gw.run \in 0..MaxRuns
  BY Types
<1>1. op.pc = "start" /\ UNCHANGED <<config, journal, door, tx, owner, last, app>>
  BY DEF StartService, OpAt, Op2Gateway, trafficVars
<1>2. CASE CanBind /\ gw.run < MaxRuns
  <2>1. /\ gw' = [run |-> gw.run + 1, up |-> TRUE, session |-> FALSE]
        /\ cap' = [cap EXCEPT !.run = gw.run + 1] /\ OpGoto("door")
    BY <1>2 DEF StartService
  <2>2. gw'.run = gw.run + 1 /\ gw'.up /\ ~gw'.session /\ op'.pc = "door"
    BY <1>0, <2>1 DEF OpGoto, Op
  <2>3. cap'.run = gw.run + 1 /\ cap'.mode = cap.mode /\ cap.mode # "desktop"
    BY <1>0, <1>2, <2>1 DEF Capture, CanBind, CaptureInv, DesktopHeld, Listening
  <2>4. tx.pc \in EnableUndoPcs => tx.run <= gw.run /\ tx.run \in Nat
    <3>1. tx.run \in Nat
      BY Types, BoundsAssumption DEF Tx
    <3>. QED BY <3>1 DEF CaptureInv, Control, EnableRun
  <2>5. gw.run + 1 # NoRun /\ (tx.pc \in EnableUndoPcs => tx.run # gw.run + 1 /\ tx.run <= gw.run + 1)
    BY <1>0, <2>4, BoundsAssumption DEF NoRun
  <2>6. OffIsQuiet' /\ StartingIsNew' /\ EnableRun' /\ DisableSource' /\ UndoneFirst'
    BY <1>1, <2>2, <2>3, <2>5
       DEF CaptureInv, Control, OffIsQuiet, StartingIsNew, EnableRun, DisableSource, UndoneFirst
  <2>7. VerifiedRun'
    BY <1>1, <2>3, <2>5, PcFacts DEF VerifiedRun
  <2>8. DesktopHeld'
    BY <2>3 DEF DesktopHeld
  <2>9. DoorLeft' /\ EnableDoor' /\ RoutedCapture'
    BY <1>1, <2>2, <2>5 DEF CaptureInv, Routed, DoorLeft, EnableDoor, RoutedCapture, StillRouted
  <2>10. ClosedIsUnused'
    BY <1>1, <2>2 DEF CaptureInv, ClosedIsUnused
  <2>. QED BY <2>6, <2>7, <2>8, <2>9, <2>10 DEF CaptureInv, Control, Routed
<1>3. CASE ~(CanBind /\ gw.run < MaxRuns)
  <2>1. UNCHANGED <<gw, cap>> /\ op'.pc = "idle"
    BY <1>3 DEF StartService, OpEnds, NoOp
  <2>. QED BY <1>1, <2>1, BesideTxInv DEF BesideTx, StartingPcs, OnRecord
<1>. QED BY <1>2, <1>3

\* The session of the run, and the front door at it.
LEMMA StartToGatewayInv == ASSUME TypeOK, CaptureInv, StartToGateway PROVE CaptureInv'
<1>0. gw \in Gateway /\ op \in Op
  BY Types
<1>1. /\ op.pc = "to_gateway" /\ op.pc \in StartingPcs \ {"door", "start_failed"}
      /\ UNCHANGED <<config, journal, cap, tx, owner, last, app>>
  BY DEF StartToGateway, OpAt, trafficVars, StartingPcs
<1>2. door # Closed /\ cap.mode # "desktop"
  BY <1>1 DEF CaptureInv, ClosedIsUnused, DesktopHeld
<1>3. /\ door' = GatewayBackend /\ op'.pc = "idle"
      /\ gw'.run = gw.run /\ gw'.up = gw.up
  BY <1>0, <1>2 DEF StartToGateway, Switch, OpEnds, NoOp, Gateway
<1>4. door' \notin {CaptureRelay, Closed} /\ op'.pc \notin StartingPcs
  BY <1>3 DEF GatewayBackend, CaptureRelay, Closed, StartingPcs
<1>5. OffIsQuiet' /\ StartingIsNew' /\ EnableRun' /\ VerifiedRun' /\ DisableSource' /\ UndoneFirst'
  BY <1>1, <1>3, <1>4
     DEF CaptureInv, Control, OffIsQuiet, StartingIsNew, EnableRun, VerifiedRun, DisableSource,
         UndoneFirst
<1>6. DesktopHeld' /\ Routed' /\ ClosedIsUnused'
  BY <1>1, <1>2, <1>4
     DEF DesktopHeld, Routed, DoorLeft, EnableDoor, RoutedCapture, ClosedIsUnused
<1>. QED BY <1>5, <1>6 DEF CaptureInv, Control

\* A gateway that is gone takes the capture of the desktop with it.
LEMMA GatewayGoneInv ==
    ASSUME TypeOK, CaptureInv, UNCHANGED <<config, door, tx, owner, last, app>>,
           gw'.run = gw.run, ~gw'.up, ~gw'.session,
           op' = op \/ op'.pc \notin StartingPcs,
           cap'.mode # "desktop",
           tx.pc = "claim" /\ ~tx.verify /\ cap'.run = tx.run =>
               gw.run = tx.run /\ cap'.mode # "capture_only"
    PROVE  CaptureInv'
<1>1. OffIsQuiet' /\ StartingIsNew' /\ EnableRun' /\ VerifiedRun' /\ DisableSource' /\ UndoneFirst'
  BY DEF CaptureInv, Control, OffIsQuiet, StartingIsNew, EnableRun, VerifiedRun, DisableSource,
         UndoneFirst
<1>2. DoorLeft' /\ EnableDoor' /\ RoutedCapture'
  BY DEF CaptureInv, Routed, DoorLeft, EnableDoor, RoutedCapture, StillRouted
<1>3. DesktopHeld' /\ ClosedIsUnused'
  BY DEF CaptureInv, DesktopHeld, ClosedIsUnused
<1>. QED BY <1>1, <1>2, <1>3 DEF CaptureInv, Control, Routed

LEMMA GatewayStopsInv ==
    ASSUME TypeOK, CaptureInv, StopService \/ StartFails \/ GatewayLost PROVE CaptureInv'
<1>0. gw \in Gateway /\ cap \in Capture /\ op \in Op
  BY Types
<1>1. /\ UNCHANGED <<config, door, tx, owner, last, app>>
      /\ gw'.run = gw.run /\ ~gw'.up /\ ~gw'.session
  BY <1>0 DEF StopService, StartFails, GatewayLost, GatewayStops, Op2Gateway, trafficVars, Gateway
<1>2. op' = op \/ op'.pc \notin StartingPcs
  BY <1>0 DEF StopService, StartFails, GatewayLost, OpGoto, OpEnds, NoOp, Op, StartingPcs
<1>3. cap.mode = "desktop" => gw.up /\ cap.run = gw.run
  BY DEF CaptureInv, DesktopHeld
<1>4. tx.pc = "claim" => tx.run # NoRun
  BY PcFacts DEF CaptureInv, Control, EnableRun
<1>5. CASE StopService \/ StartFails
  <2>1. \/ cap' = cap /\ (gw.up => cap.run # gw.run)
        \/ cap'.mode = "idle" /\ cap'.run = NoRun
    BY <1>0, <1>5 DEF StopService, StartFails, GatewayStops, AfterStop, Capture
  <2>2. cap'.mode # "desktop"
    BY <1>3, <2>1
  <2>3. tx.pc = "claim" /\ ~tx.verify /\ cap'.run = tx.run =>
            gw.run = tx.run /\ cap'.mode # "capture_only"
    BY <1>4, <2>1 DEF CaptureInv, Control, VerifiedRun
  <2>. QED BY <1>1, <1>2, <2>2, <2>3, GatewayGoneInv
<1>6. CASE GatewayLost
  <2>1. /\ cap'.run = cap.run
        /\ \/ cap' = cap /\ cap.run # gw.run
           \/ cap'.mode = "recovery" /\ cap.run = gw.run
    BY <1>0, <1>6 DEF GatewayLost, AfterLoss, Capture
  <2>2. cap'.mode # "desktop"
    BY <1>3, <2>1
  <2>3. tx.pc = "claim" /\ ~tx.verify /\ cap'.run = tx.run =>
            gw.run = tx.run /\ cap'.mode # "capture_only"
    BY <2>1 DEF CaptureInv, Control, VerifiedRun
  <2>. QED BY <1>1, <1>2, <2>2, <2>3, GatewayGoneInv
<1>. QED BY <1>5, <1>6

\* Nothing that is only in memory is left of a process.
LEMMA QuietIsFine ==
    ASSUME tx.pc = "idle", ~tx.verify, owner = NoOwner, last = NoLast, op.pc = "idle",
           cap.mode # "desktop", ~gw.up, ~gw.session, door = Closed
    PROVE  CaptureInv
<1>1. OffIsQuiet /\ StartingIsNew /\ EnableRun /\ VerifiedRun /\ DisableSource /\ UndoneFirst
  BY DEF OffIsQuiet, StartingIsNew, EnableRun, VerifiedRun, DisableSource, UndoneFirst, StartingPcs,
         EnableUndoPcs, EnablePcs, UndoPcs, DisablePcs
<1>2. DoorLeft /\ EnableDoor /\ RoutedCapture
  BY DEF DoorLeft, EnableDoor, RoutedCapture, EnableUndoPcs, EnablePcs, UndoPcs
<1>3. DesktopHeld /\ ClosedIsUnused
  BY DEF DesktopHeld, ClosedIsUnused, NoLast, RestingPcs, StartingPcs
<1>. QED BY <1>1, <1>2, <1>3 DEF CaptureInv, Control, Routed

LEMMA InitCapture == ASSUME Init PROVE CaptureInv
<1>1. /\ tx = NoTx /\ owner = NoOwner /\ last = NoLast /\ op = NoOp /\ door = Closed
      /\ cap = [mode |-> "idle", relay |-> "none", run |-> NoRun, gen |-> 0, owner |-> NoOwner]
      /\ gw = [run |-> NoRun, up |-> FALSE, session |-> FALSE]
  BY DEF Init, TrafficInit, SharedInit
<1>2. tx.pc = "idle" /\ ~tx.verify /\ op.pc = "idle"
  BY <1>1 DEF NoTx, NoOp
<1>3. cap.mode # "desktop" /\ ~gw.up /\ ~gw.session
  BY <1>1
<1>. QED BY <1>1, <1>2, <1>3, QuietIsFine

LEMMA GoneCaptureInv == ASSUME TypeOK, CaptureInv, DownService \/ Crash PROVE CaptureInv'
<1>0. ProcessGone /\ cap \in Capture /\ gw \in Gateway
  BY Types DEF DownService, Crash
<1>1. /\ tx'.pc = "idle" /\ ~tx'.verify /\ op'.pc = "idle" /\ owner' = NoOwner /\ last' = NoLast
      /\ cap'.mode # "desktop" /\ ~gw'.up /\ ~gw'.session /\ door' = Closed
  BY <1>0 DEF ProcessGone, NoTx, OpEnds, NoOp, Gateway
<1>2. /\ last'.run = NoRun /\ tx'.pc \notin EnableUndoPcs \cup DisablePcs /\ tx'.pc \in RestingPcs
      /\ op'.pc \notin StartingPcs
  BY <1>1 DEF NoLast, EnableUndoPcs, EnablePcs, UndoPcs, DisablePcs, RestingPcs, StartingPcs
<1>3. Control'
  BY <1>1, <1>2 DEF Control, OffIsQuiet, StartingIsNew, EnableRun, VerifiedRun, DisableSource, UndoneFirst
<1>4. Routed' /\ DesktopHeld' /\ ClosedIsUnused'
  BY <1>1, <1>2 DEF Routed, DoorLeft, EnableDoor, RoutedCapture, DesktopHeld, ClosedIsUnused
<1>. QED BY <1>3, <1>4 DEF CaptureInv

\* Every step of the app.
LEMMA NextCapture == ASSUME IInv, CaptureInv, [Next]_vars PROVE CaptureInv'
<1>0. TypeOK
  BY DEF IInv
<1>1. CASE StartSteps
  BY <1>0, <1>1, StartBesideTx, StartServiceInv, StartToGatewayInv, GatewayStopsInv DEF StartSteps
<1>2. CASE StopTraffic \/ DownTraffic
  BY <1>2, TeardownCaptureInv DEF StopTraffic, DownTraffic
<1>3. CASE StopSteps
  BY <1>0, <1>2, <1>3, StopBesideTx, GatewayStopsInv DEF StopSteps
<1>4. CASE DownSteps
  BY <1>0, <1>2, <1>4, StopBesideTx, GoneCaptureInv DEF DownSteps
<1>5. CASE Quit \/ Startup \/ TxSteps \/ Commands \/ Recovery
  BY <1>0, <1>5, StopBesideTx, TxInv, CommandCaptureInv, RecoveryCaptureInv
<1>6. CASE Others
  BY <1>0, <1>6, StopBesideTx, GatewayStopsInv, GoneCaptureInv DEF Others
<1>7. CASE UNCHANGED vars
  <2>1. UNCHANGED <<config, journal, door, gw, cap, tx, owner, last, app, op>>
    BY <1>7 DEF vars, shared, trafficVars
  <2>2. Control' /\ Routed' /\ ClosedIsUnused'
    BY <2>1
       DEF CaptureInv, Control, OffIsQuiet, StartingIsNew, EnableRun, VerifiedRun, DisableSource,
           UndoneFirst, Routed, DoorLeft, EnableDoor, RoutedCapture, StillRouted, ClosedIsUnused
  <2>3. DesktopHeld'
    BY <2>1 DEF CaptureInv, DesktopHeld, Listening, Claimed, Settled, Matches, OnRecord
  <2>. QED BY <2>2, <2>3 DEF CaptureInv
<1>. QED BY <1>1, <1>3, <1>4, <1>5, <1>6, <1>7 DEF Next

-----------------------------------------------------------------------------
(* The theorems.                                                           *)

\* The capture of the desktop is the running gateway's and its one owner's, and
\* no front door is left at it without one.
THEOREM CaptureInvariant == Spec => []CaptureInv
<1>1. Init => CaptureInv
  BY InitCapture
<1>2. IInv /\ CaptureInv /\ [Next]_vars => CaptureInv'
  BY NextCapture
<1>. QED BY <1>1, <1>2, RoutingInvariant, PTL DEF Spec

\* While a gateway has its session, a front door at the capture reaches one that
\* listens and forwards to that very run.
THEOREM CaptureIsServed == Spec => []CaptureServesRunningGateway
<1>1. CaptureInv => CaptureServesRunningGateway
  <2>1. SUFFICES ASSUME CaptureInv, AtRest, config.url = FrontDoor, door = CaptureRelay, gw.session
                 PROVE  Listening /\ cap.run = gw.run
    BY DEF CaptureServesRunningGateway
  <2>2. tx.pc \notin SwitchedPcs
    BY <2>1 DEF AtRest, SwitchedPcs
  <2>. QED BY <2>1, <2>2 DEF CaptureInv, Routed, RoutedCapture, DesktopHeld
<1>. QED BY <1>1, CaptureInvariant, PTL

\* A capture the desktop owns can be given back, and a crash would find it in
\* the record.
THEOREM OwnedCaptureCanBeGivenBack == Spec => []DesktopCaptureHasItsOwner
<1>1. CaptureInv => DesktopCaptureHasItsOwner
  <2>1. SUFFICES ASSUME CaptureInv, AtRest, cap.mode = "desktop"
                 PROVE  /\ cap.owner = owner /\ Matches(last.gen, last.run)
                        /\ TrafficActive(journal) \/ HasUnresolved(journal)
    BY DEF DesktopCaptureHasItsOwner
  <2>2. tx.pc \notin EnableUndoPcs /\ op.pc # "down_service"
    BY <2>1, PcFacts DEF AtRest, OpAt
  <2>. QED BY <2>1, <2>2, Holders DEF Settled, OnRecord
<1>. QED BY <1>1, CaptureInvariant, PTL

\* A transaction that touches the capture finds the front door gone from it.
LEMMA CaptureTouched ==
    ASSUME TypeOK, CaptureInv, TxSteps, tx.pc \in UndoPcs \cup DisablePcs, cap' # cap,
           StillRouted, config.url = FrontDoor
    PROVE  door # CaptureRelay
<1>1. tx.pc \in {"undo_claim", "undo_capture", "disable_pause", "disable_release"}
  <2>1. ~EnableStep
    <3>1. ASSUME EnableStep PROVE tx.pc = "begin" \/ tx.pc \in EnablePcs
      <4>1. CASE Verify
        BY <4>1 DEF Verify, CaptureInv, Control, EnableRun
      <4>2. CASE ~Verify
        BY <3>1, <4>2
           DEF EnableStep, Refused, EnableBegin, EnablePrepare, EnableStart, EnableAdopt, EnableClaim,
               EnableRecord, EnableMap, EnableSwitch, EnableCommit, EnableConfirm, At, EnablePcs
      <4>. QED BY <4>1, <4>2
    <3>. QED BY <3>1 DEF EnablePcs, UndoPcs, DisablePcs
  <2>2. ~FinishStep
    BY DEF FinishStep, Refused, FinishBegin, FinishRecord, FinishClose, FinishFinal, FinishConfirm,
           FinishFails, FinishSaves, At, UndoPcs, DisablePcs
  <2>3. CASE BackoutStep
    BY <2>3 DEF BackoutStep, UndoDoor, UndoClaim, UndoCapture, UndoRecord, UndoFails, OnlyDoor,
                OnlyJournal, At
  <2>4. CASE DisableStep
    BY <2>4 DEF DisableStep, Refused, DisableBegin, DisableRecord, DisableDoor, DisablePause,
                DisableRestored, DisableRelease, DisableDemote, DisableConfirm, DisableFails,
                DisableSaves, OnlyTx, shared, OnlyJournal, OnlyDoor, At
  <2>. QED BY <2>1, <2>2, <2>3, <2>4 DEF TxSteps, TxStep
<1>2. CASE tx.pc \in {"undo_claim", "undo_capture"}
  BY <1>2 DEF CaptureInv, Control, UndoneFirst, Routed, EnableDoor, EnableUndoPcs, UndoPcs
<1>3. CASE tx.pc \in {"disable_pause", "disable_release"}
  BY <1>3 DEF CaptureInv, Routed, DoorLeft
<1>. QED BY <1>1, <1>2, <1>3

\* Who moves a transaction that is being undone or disabled.
LEMMA TxMovers ==
    ASSUME IInv, Next, tx' # tx, app' = app, tx.pc \in UndoPcs \cup DisablePcs
    PROVE  TxSteps
<1>1. StartSteps => tx' = tx
  BY DEF StartSteps, StartGateway, StartService, StartDoor, StartIntegrated, StartReset,
         StartResetSave, StartRedirect, StartRedirectCommit, StartRollback, StartRollbackSave,
         StartRollbackMark, StartToGateway, StartFails, Restores, RestoreSaves, OnlyOp, Op2Journal,
         Op2Config, Op2Gateway, trafficVars
<1>2. ~StopTraffic /\ ~DownTraffic /\ ~Commands /\ ~Recovery
  BY DEF StopTraffic, DownTraffic, TrafficTeardown, TrafficDown, Commands, TrafficCommand, Reserve,
         Recovery, RestoreConflict, RestoreRecovery, RestoreFails, DiscardRecovery, NothingHeld,
         UndoPcs, DisablePcs
<1>3. StopGateway \/ StopDoor \/ StopService \/ Shutdown \/ DownDoor \/ DownConfig \/ DownSave
        \/ Quit \/ Startup => tx' = tx
  BY DEF StopGateway, StopDoor, StopService, Shutdown, DownDoor, DownConfig, DownSave, Quit, Startup,
         Restores, RestoreSaves, OnlyOp, Op2Journal, Op2Config, Op2Door, Op2Gateway, trafficVars
<1>4. GatewayLost \/ Management \/ UserEdits => tx' = tx
  BY DEF GatewayLost, Management, MgmtStart, MgmtPause, MgmtResume, MgmtStop, MgmtClose, ManagedTo,
         UserEdits, trafficVars
<1>5. ~DownService /\ ~Crash
  BY DEF DownService, Crash, ProcessGone, OpAt, IInv, OffIsIdle
<1>. QED BY <1>1, <1>2, <1>3, <1>4, <1>5 DEF Next, StopSteps, DownSteps, Others

\* A transaction pauses, gives back or closes the capture only once the front
\* door of a redirected Codex has left it.
THEOREM CaptureIsTouchedLast == Spec => DoorLeavesCaptureFirst
<1>1. IInv /\ CaptureInv /\ [Next]_vars =>
        [tx.pc \in UndoPcs \cup DisablePcs /\ cap' # cap /\ app' = app
           /\ tx' # tx /\ StillRouted /\ config.url = FrontDoor
         => door # CaptureRelay]_vars
  <2>1. IInv => TypeOK
    BY DEF IInv
  <2>. QED BY <2>1, TxMovers, CaptureTouched
<1>. QED BY <1>1, RoutingInvariant, CaptureInvariant, PTL DEF Spec, DoorLeavesCaptureFirst

\* An Enable that fails but may be retried leaves neither its claim nor Codex
\* behind the capture.
THEOREM FailedEnableIsUndone == Spec => FailedEnableLeavesNothing
<1>1. CaptureInv => (tx.pc = "undo_record" =>
                       /\ StillRouted /\ config.url = FrontDoor => door # CaptureRelay
                       /\ cap.mode = "desktop" => cap.owner # tx.id)
  <2>1. SUFFICES ASSUME CaptureInv, tx.pc = "undo_record"
                 PROVE  /\ StillRouted /\ config.url = FrontDoor => door # CaptureRelay
                        /\ cap.mode # "desktop"
    OBVIOUS
  <2>2. tx.pc \in EnableUndoPcs /\ tx.pc \notin ClaimedPcs \cup RestingPcs \cup DisablePcs
    BY <2>1 DEF EnableUndoPcs, UndoPcs, ClaimedPcs, RestingPcs, DisablePcs
  <2>3. ~tx.switched
    BY <2>1 DEF CaptureInv, Control, UndoneFirst
  <2>. QED BY <2>1, <2>2, <2>3, Holders DEF CaptureInv, Routed, EnableDoor
<1>2. CaptureInv /\ [Next]_vars =>
        [tx.pc = "undo_record" /\ tx'.pc \in {"idle", "returned"} =>
           /\ StillRouted /\ config.url = FrontDoor => door # CaptureRelay
           /\ cap.mode = "desktop" => cap.owner # tx.id]_vars
  BY <1>1
<1>. QED BY <1>2, CaptureInvariant, PTL DEF Spec, FailedEnableLeavesNothing

-----------------------------------------------------------------------------
(* Where the front door leads: the second layer of the invariant.          *)

\* The gateway is about to go, or the app.
LeavingPcs == {"stop_service", "down_config", "down_save", "down_service"}

\* A redirect that is under way, with the file it was prepared from.
PreparedPcs == {"redirect_commit", "rollback", "rollback_mark"}

\* The front door belongs to the process.
OffIsClosed == app = "off" => door = Closed

\* A session has the front door, until its gateway is about to stop.
RoutedSession == gw.session => door \in {GatewayBackend, CaptureRelay} \/ op.pc \in LeavingPcs

\* A record that names a target says that the front door was written, and so do
\* the records that Disable and Finish write back.
TargetApplied == journal.target # "original" => journal.exists /\ journal.applied
SourceApplied ==
    tx.pc \in DisablePcs \cup FinishPcs /\ tx.source.target # "original" => tx.source.applied

\* What was recorded of the file is no later than the file.
AfterIsOld ==
    /\ journal.after.rest <= config.rest
    /\ op.pc \in PreparedPcs => op.before.rest <= config.rest

\* A front door parked on an upstream is parked on the one it replaced, unless a
\* redirect is just done and the session comes next.
ParkedDoor ==
    config.url = FrontDoor /\ door \in Upstreams /\ replaced # Discarded /\ used.faults = 0
        => door = replaced \/ op.pc = "to_gateway"

DoorInv ==
    /\ OffIsClosed /\ RoutedSession
    /\ TargetApplied /\ SourceApplied
    /\ AfterIsOld /\ IntegratedDoorOpen
    /\ ParkedDoor

\* The upstreams are no other target of the front door.
LEMMA UpstreamsAreNot ==
    Upstreams \cap {GatewayBackend, CaptureRelay, Closed, Discarded} = {}
BY DoorAssumption DEF Urls

\* Revisions of the rest of the file.
LEMMA Revisions ==
    ASSUME TypeOK
    PROVE  /\ config.rest \in Nat /\ journal.after.rest \in Nat /\ op.before.rest \in Nat
           /\ NoHash.rest = 0
<1>1. \A h \in Hash : h.rest \in Nat
  BY EditsAssumption DEF Hash, Config, NoHash
<1>2. config \in Hash /\ journal.after \in Hash /\ op.before \in Hash
  BY Types DEF Hash, Journal, Op
<1>. QED BY <1>1, <1>2 DEF NoHash

LEMMA FaultsAreCounted ==
    ASSUME TypeOK
    PROVE  /\ Fault => used'.faults # 0
           /\ NoFault => used' = used
           /\ \A n : used' = [used EXCEPT !.exits = n] => used'.faults = used.faults
           /\ \A n : used' = [used EXCEPT !.ids = n] => used'.faults = used.faults
<1>1. used \in Budget /\ used.faults \in Nat
  BY Types, BoundsAssumption DEF Budget
<1>2. Fault => used'.faults = used.faults + 1
  BY <1>1 DEF Fault, Budget
<1>. QED BY <1>1, <1>2 DEF NoFault, Budget

\* Steps that leave the front door where it is, or where it may be.
DoorMoves ==
    /\ app' = app
    /\ \/ door' = door
       \/ app # "off" /\ door' \in {GatewayBackend, CaptureRelay}
       \/ app # "off" /\ door' = journal.orig /\ (~gw'.session \/ op'.pc \in LeavingPcs)
    /\ gw'.session => gw.session \/ door' = GatewayBackend
    /\ gw'.session /\ op.pc \in LeavingPcs => op'.pc \in LeavingPcs
    /\ op.pc = "to_gateway" => op'.pc = "to_gateway" \/ door' \notin Upstreams

\* Steps that leave the file, or put it back, or are the user's.
FileMoves ==
    /\ replaced' = replaced \/ replaced' = Discarded
    /\ used'.faults = 0 => used.faults = 0
    /\ config'.rest \in Nat /\ config.rest <= config'.rest
    /\ config'.url = FrontDoor =>
         config' = config \/ (config.url = FrontDoor /\ config.rest < config'.rest)
    /\ op'.pc \in PreparedPcs => op.pc \in PreparedPcs /\ op'.before = op.before

\* Steps that leave what the record says of the file.
RecordMoves ==
    /\ journal'.after \in {journal.after, NoHash}
    /\ journal'.target # "original" =>
         /\ journal'.exists /\ journal'.applied
         /\ journal'.after = journal.after
         /\ journal.target # "original" \/ door # Closed
    /\ SourceApplied'

LEMMA MovesKeepDoor ==
    ASSUME IInv, DoorInv, DoorMoves, FileMoves, RecordMoves PROVE DoorInv'
<1>0. TypeOK /\ journal.orig \in Upstreams
  BY Types DEF IInv
<1>u. \A u \in Upstreams : u \notin {GatewayBackend, CaptureRelay, Closed, Discarded}
  BY UpstreamsAreNot
<1>r. /\ config.rest \in Nat /\ journal.after.rest \in Nat /\ op.before.rest \in Nat
      /\ config'.rest \in Nat /\ NoHash.rest = 0
  BY <1>0, Revisions DEF FileMoves
<1>1. OffIsClosed' /\ RoutedSession'
  BY DEF DoorInv, OffIsClosed, RoutedSession, DoorMoves
<1>2. TargetApplied' /\ SourceApplied'
  BY DEF TargetApplied, RecordMoves
<1>3. AfterIsOld'
  <2>1. journal.after.rest <= config.rest /\ config.rest <= config'.rest
    BY DEF DoorInv, AfterIsOld, FileMoves
  <2>2. journal'.after.rest \in {journal.after.rest, 0}
    BY <1>r DEF RecordMoves
  <2>3. journal'.after.rest <= config'.rest
    BY <1>r, <2>1, <2>2
  <2>4. op'.pc \in PreparedPcs => op'.before.rest <= config'.rest
    <3>1. op'.pc \in PreparedPcs => op.before.rest <= config.rest /\ op'.before = op.before
      BY DEF DoorInv, AfterIsOld, FileMoves
    <3>. QED BY <1>r, <2>1, <3>1
  <2>. QED BY <2>3, <2>4 DEF AfterIsOld
<1>4. IntegratedDoorOpen'
  <2>1. SUFFICES ASSUME app' = "up", config'.url = FrontDoor, config' = journal'.after,
                        journal'.target # "original", used'.faults = 0, door' = Closed
                 PROVE  FALSE
    BY DEF IntegratedDoorOpen
  <2>2. door = Closed /\ app = "up"
    BY <1>0, <1>u, <2>1 DEF DoorMoves, GatewayBackend, CaptureRelay, Closed
  <2>3. journal'.after = journal.after /\ journal.target # "original"
    BY <2>1, <2>2 DEF RecordMoves
  <2>4. config' = config
    <3>1. journal.after.rest <= config.rest
      BY DEF DoorInv, AfterIsOld
    <3>2. ~(config.rest < config'.rest)
      BY <1>r, <2>1, <2>3, <3>1
    <3>. QED BY <2>1, <3>2 DEF FileMoves
  <2>. QED BY <2>1, <2>2, <2>3, <2>4 DEF DoorInv, IntegratedDoorOpen, FileMoves
<1>5. ParkedDoor'
  <2>1. SUFFICES ASSUME config'.url = FrontDoor, door' \in Upstreams, replaced' # Discarded,
                        used'.faults = 0
                 PROVE  door' = replaced' \/ op'.pc = "to_gateway"
    BY DEF ParkedDoor
  <2>2. config.url = FrontDoor /\ replaced' = replaced /\ used.faults = 0
    BY <2>1 DEF FileMoves
  <2>3. door' = door \/ door' = journal.orig
    BY <1>u, <2>1 DEF DoorMoves
  <2>4. journal.orig = replaced
    BY <2>1, <2>2 DEF IInv, OriginalRecoverable
  <2>. QED BY <2>1, <2>2, <2>3, <2>4 DEF DoorInv, ParkedDoor, DoorMoves
<1>. QED BY <1>1, <1>2, <1>3, <1>4, <1>5 DEF DoorInv

\* A checkpoint of the traffic layer that says what it applied.
LEMMA CheckpointMoves ==
    ASSUME TypeOK, NEW phase, NEW target, NEW applied \in BOOLEAN,
           journal' = TrafficCheckpoint(journal, phase, target, applied)
    PROVE  /\ journal'.after = journal.after /\ journal'.exists
           /\ journal'.target = target /\ journal'.applied = applied
<1>1. journal \in Journal
  BY Types
<1>. QED BY <1>1 DEF TrafficCheckpoint, Journal

\* What a transaction does to the front door, and to the faults.
LEMMA TxDoors ==
    ASSUME TypeOK, TxStep
    PROVE  /\ door' \in {door, GatewayBackend, CaptureRelay}
           /\ tx.pc # "idle" \/ tx.verify
           /\ used'.faults = 0 => used.faults = 0
<1>1. EnableStep => /\ door' \in {door, GatewayBackend, CaptureRelay}
                    /\ tx.pc # "idle" \/ tx.verify
                    /\ used' = used \/ Fault \/ \E n : used' = [used EXCEPT !.ids = n]
  BY DEF EnableStep, Refused, EnableBegin, EnablePrepare, Verify, EnableStart, EnableAdopt, EnableClaim,
         EnableRecord, EnableMap, EnableSwitch, EnableCommit, EnableConfirm, At, OnlyTx, OnlyJournal,
         OnlyDoor, OnlyCap, shared, Switch, Saves, SaveFails, NoFault
<1>2. BackoutStep => /\ door' \in {door, GatewayBackend, CaptureRelay}
                     /\ tx.pc # "idle"
                     /\ used' = used \/ Fault
  BY DEF BackoutStep, UndoDoor, UndoClaim, UndoCapture, UndoRecord, UndoFails, At, OnlyJournal,
         OnlyDoor, OnlyCap, Switch, Saves, SavesOrNot, SaveFails, NoFault
<1>3. DisableStep => /\ door' \in {door, GatewayBackend, CaptureRelay}
                     /\ tx.pc # "idle"
                     /\ used' = used \/ Fault
  BY DEF DisableStep, Refused, DisableBegin, DisableRecord, DisableDoor, DisablePause, DisableRestored,
         DisableRelease, DisableDemote, DisableConfirm, DisableFails, DisableSaves, At, OnlyTx,
         OnlyJournal, OnlyDoor, OnlyCap, shared, Switch, Saves, SavesOrNot, SaveFails, NoFault
<1>4. FinishStep => /\ door' \in {door, GatewayBackend, CaptureRelay}
                    /\ tx.pc # "idle"
                    /\ used' = used \/ Fault
  BY DEF FinishStep, Refused, FinishBegin, FinishRecord, FinishClose, FinishFinal, FinishConfirm,
         FinishFails, FinishSaves, At, OnlyTx, OnlyJournal, OnlyCap, shared, Saves, SavesOrNot,
         SaveFails, NoFault
<1>5. used' = used \/ Fault \/ (\E n : used' = [used EXCEPT !.ids = n])
        => (used'.faults = 0 => used.faults = 0)
  BY FaultsAreCounted
<1>. QED BY <1>1, <1>2, <1>3, <1>4, <1>5 DEF TxStep

\* What Enable and its backout write.
LEMMA EnableRecords ==
    ASSUME TypeOK, tx.verify => tx.pc \in EnablePcs, EnableStep \/ BackoutStep
    PROVE  /\ \/ journal' = journal
              \/ tx.pc \notin RestingPcs
                 /\ \E phase : journal' = TrafficCheckpoint(journal, phase, "analysis", TRUE)
           /\ tx'.pc \notin DisablePcs \cup FinishPcs
<1>0. tx \in Tx
  BY Types
<1>1. \/ journal' = journal
      \/ \E phase : /\ journal' = TrafficCheckpoint(journal, phase, "analysis", TRUE)
                    /\ tx.pc \in {"prepare", "record", "commit", "undo_record", "undo_failed"}
  BY DEF EnableStep, Refused, EnableBegin, EnablePrepare, Verify, EnableStart, EnableAdopt, EnableClaim,
         EnableRecord, EnableMap, EnableSwitch, EnableCommit, EnableConfirm, At, OnlyTx, OnlyJournal,
         OnlyDoor, OnlyCap, shared, BackoutStep, UndoDoor, UndoClaim, UndoCapture, UndoRecord,
         UndoFails, Saves, SavesOrNot, SaveFails, EnableCheckpoint
<1>2. /\ \A pc : TxGoto(pc) => tx'.pc = pc
      /\ \A pc : \A t \in Tx : TxThenVerify(t, pc) => tx'.pc = pc
      /\ \A ok : Return(ok) => tx'.pc \in {"idle", "returned"}
      /\ \A t \in Tx : UndoNext(t) => tx'.pc \in {"undo_door", "undo_claim", "undo_capture", "undo_record"}
      /\ UndoFailed => tx'.pc = "undo_failed"
  BY <1>0, MovesAre, UndoNextMoves DEF Moves, Returns, TxThenVerify, UndoFailed, Tx
<1>3. /\ [tx EXCEPT !.started = TRUE, !.gen = cap.gen + 1].pc = tx.pc
      /\ [tx EXCEPT !.claimed = TRUE] \in Tx /\ [tx EXCEPT !.switched = TRUE] \in Tx
      /\ [tx EXCEPT !.switched = FALSE] \in Tx /\ [tx EXCEPT !.claimed = FALSE] \in Tx
      /\ [tx EXCEPT !.started = FALSE] \in Tx
  BY <1>0 DEF Tx
<1>4. TxThenVerify([tx EXCEPT !.started = TRUE, !.gen = cap.gen + 1], "claim") => tx'.pc = "claim"
  BY <1>0 DEF TxThenVerify, Tx
<1>5. EnableBegin => tx'.pc = "prepare"
  BY <1>0 DEF EnableBegin, Tx
<1>6. Verify => tx'.pc \in EnablePcs \cup UndoPcs
  BY <1>0, <1>2 DEF Verify, Backout, Tx, UndoPcs
<1>7. EnableStep => tx'.pc \in EnablePcs \cup UndoPcs \cup {"idle", "returned"}
  BY <1>0, <1>2, <1>3, <1>4, <1>5, <1>6
     DEF EnableStep, Refused, EnablePrepare, EnableStart, EnableAdopt, EnableClaim,
         EnableRecord, EnableMap, EnableSwitch, EnableCommit, EnableConfirm, Backout, EnablePcs, UndoPcs
<1>8. BackoutStep => tx'.pc \in EnablePcs \cup UndoPcs \cup {"idle", "returned"}
  BY <1>0, <1>2, <1>3
     DEF BackoutStep, UndoDoor, UndoClaim, UndoCapture, UndoRecord, UndoFails, UndoPcs
<1>9. tx'.pc \notin DisablePcs \cup FinishPcs
  BY <1>7, <1>8 DEF EnablePcs, UndoPcs, DisablePcs, FinishPcs
<1>. QED BY <1>1, <1>9 DEF RestingPcs

\* What Disable and Finish write is what they read.
LEMMA DisableRecords ==
    ASSUME TypeOK, TargetApplied, SourceApplied, DisableStep \/ FinishStep
    PROVE  /\ \/ journal' = journal
              \/ /\ tx.pc \notin RestingPcs
                 /\ \E phase, target : \E applied \in BOOLEAN :
                      /\ journal' = TrafficCheckpoint(journal, phase, target, applied)
                      /\ target # "original" => applied
           /\ SourceApplied'
<1>0. tx \in Tx /\ tx.source.applied \in BOOLEAN /\ journal \in Journal
  BY Types DEF Tx, Sources
<1>1. \/ journal' = journal
      \/ tx.pc \in DisablePcs \cup FinishPcs
         /\ \E phase : journal' = TrafficCheckpoint(journal, phase, tx.source.target, tx.source.applied)
      \/ tx.pc \in DisablePcs \cup FinishPcs
         /\ \E phase : journal' = TrafficCheckpoint(journal, phase, "gateway", TRUE)
  <2>1. CASE DisableStep
    BY <2>1 DEF DisableStep, Refused, DisableBegin, DisableRecord, DisableDoor, DisablePause,
         DisableRestored, DisableRelease, DisableDemote, DisableConfirm, DisableFails, DisableSaves, At,
         OnlyTx, OnlyJournal, OnlyDoor, OnlyCap, shared, Saves, SavesOrNot, SaveFails,
         DisableCheckpoint, DemoteCheckpoint, DisablePcs
  <2>2. CASE FinishStep
    BY <2>2 DEF FinishStep, Refused, FinishBegin, FinishRecord, FinishClose, FinishFinal, FinishConfirm,
         FinishFails, FinishSaves, At, OnlyTx, OnlyJournal, OnlyCap, shared, Saves, SavesOrNot,
         SaveFails, DisableCheckpoint, FinishPcs
  <2>. QED BY <2>1, <2>2
<1>2. /\ \A pc : TxGoto(pc) => tx'.pc = pc /\ tx'.source = tx.source
      /\ \A ok : Return(ok) => tx'.pc \in {"idle", "returned"}
  BY <1>0, MovesAre DEF Moves, Returns, SameRun
<1>3. \/ tx'.source = tx.source /\ tx.pc \in DisablePcs \cup FinishPcs
      \/ tx'.source = Source
      \/ tx'.pc \in {"idle", "returned"}
  <2>1. DisableBegin \/ FinishBegin => tx'.source = Source
    BY <1>0 DEF DisableBegin, FinishBegin, Tx
  <2>2. CASE DisableStep
    BY <1>2, <2>1, <2>2 DEF DisableStep, Refused, DisableRecord, DisableDoor, DisablePause,
         DisableRestored, DisableRelease, DisableDemote, DisableConfirm, DisableFails, DisableSaves, At,
         DisablePcs
  <2>3. CASE FinishStep
    BY <1>2, <2>1, <2>3 DEF FinishStep, Refused, FinishRecord, FinishClose, FinishFinal, FinishConfirm,
         FinishFails, FinishSaves, At, FinishPcs
  <2>. QED BY <2>2, <2>3
<1>4. SourceApplied'
  <2>1. Source.target # "original" => Source.applied
    BY DEF Source, TargetApplied
  <2>2. "idle" \notin DisablePcs \cup FinishPcs /\ "returned" \notin DisablePcs \cup FinishPcs
    BY DEF DisablePcs, FinishPcs
  <2>. QED BY <1>3, <2>1, <2>2 DEF SourceApplied
<1>5. tx.pc \in DisablePcs \cup FinishPcs => tx.pc \notin RestingPcs
                                             /\ (tx.source.target # "original" => tx.source.applied)
  BY PcFacts DEF SourceApplied
<1>. QED BY <1>0, <1>1, <1>4, <1>5

LEMMA TxDoorInv == ASSUME IInv, CaptureInv, DoorInv, TxSteps PROVE DoorInv'
<1>0. TypeOK /\ UNCHANGED <<app, op, config, replaced, gw>> /\ config.rest \in Nat
  BY Types, Revisions, EnableFrame, BackoutFrame, DisableFrame, FinishFrame
     DEF IInv, TxSteps, TxStep, TxFrame
<1>1. /\ door' \in {door, GatewayBackend, CaptureRelay} /\ app # "off"
      /\ used'.faults = 0 => used.faults = 0
  <2>1. tx.verify => tx.pc # "idle"
    BY DEF CaptureInv, Control, EnableRun, EnablePcs
  <2>. QED BY <1>0, <2>1, TxDoors DEF TxSteps, CaptureInv, Control, OffIsQuiet
<1>2. DoorMoves
  <2>1. op.pc = "to_gateway" => door' = door \/ door' \notin Upstreams
    BY <1>1, UpstreamsAreNot
  <2>. QED BY <1>0, <1>1, <2>1 DEF DoorMoves
<1>3. FileMoves
  BY <1>0, <1>1 DEF FileMoves
<1>4. RecordMoves
  <2>1. /\ \/ journal' = journal
           \/ /\ tx.pc \notin RestingPcs
              /\ \E phase, target : \E applied \in BOOLEAN :
                   /\ journal' = TrafficCheckpoint(journal, phase, target, applied)
                   /\ target # "original" => applied
        /\ SourceApplied'
    <3>1. CASE EnableStep \/ BackoutStep
      BY <1>0, <3>1, EnableRecords DEF CaptureInv, Control, EnableRun, SourceApplied
    <3>2. CASE DisableStep \/ FinishStep
      BY <1>0, <3>2, DisableRecords DEF DoorInv
    <3>. QED BY <3>1, <3>2 DEF TxSteps, TxStep
  <2>2. CASE journal' = journal
    BY <2>1, <2>2 DEF RecordMoves, DoorInv, TargetApplied
  <2>3. CASE journal' # journal
    <3>1. door # Closed
      BY <2>1, <2>3 DEF CaptureInv, ClosedIsUnused
    <3>2. PICK phase, target : \E applied \in BOOLEAN :
                   /\ journal' = TrafficCheckpoint(journal, phase, target, applied)
                   /\ target # "original" => applied
      BY <2>1, <2>3
    <3>. QED BY <1>0, <2>1, <3>1, <3>2, CheckpointMoves DEF RecordMoves
  <2>. QED BY <2>2, <2>3
<1>. QED BY <1>2, <1>3, <1>4, MovesKeepDoor

LEMMA OtherSources ==
    ASSUME DoorInv, tx' = tx \/ tx'.pc \in RestingPcs PROVE SourceApplied'
BY PcFacts DEF DoorInv, SourceApplied

LEMMA SameRecord ==
    ASSUME DoorInv, journal' = journal, tx' = tx \/ tx'.pc \in RestingPcs PROVE RecordMoves
BY OtherSources DEF RecordMoves, DoorInv, TargetApplied

\* Steps that only write the record: what is cleared says nothing of the file.
LEMMA ClearedRecord ==
    ASSUME TypeOK, DoorInv, tx' = tx, journal' = journal \/ journal' = GatewayCleared(journal)
    PROVE  RecordMoves
<1>1. journal \in Journal
  BY Types
<1>2. CASE journal' = GatewayCleared(journal)
  <2>1. journal'.target = "original" /\ journal'.after = NoHash
    BY <1>1, <1>2 DEF GatewayCleared, Journal
  <2>. QED BY <2>1, OtherSources DEF RecordMoves
<1>. QED BY <1>2, SameRecord

\* A start of the gateway, but for the redirect.
LEMMA StartDoorInv ==
    ASSUME IInv, CaptureInv, DoorInv,
           \/ StartGateway \/ StartService \/ StartDoor \/ StartIntegrated \/ StartReset
           \/ StartResetSave \/ StartRollback \/ StartRollbackSave \/ StartToGateway \/ StartFails
    PROVE  DoorInv'
<1>0. /\ TypeOK /\ op \in Op /\ gw \in Gateway /\ config \in Config /\ config.rest \in Nat
      /\ journal.orig \in Upstreams /\ journal.orig # FrontDoor
      /\ op.pc # "idle" => app # "off"
  BY Types, Revisions, OriginalsAssumption DEF IInv, OffIsIdle
<1>1. /\ UNCHANGED <<tx, app>>
      /\ op.pc \in StartingPcs => ~gw.session
  BY DEF StartGateway, StartService, StartDoor, StartIntegrated, StartReset, StartResetSave,
         StartRollback, StartRollbackSave, StartToGateway, StartFails, Restores, RestoreSaves, OnlyOp,
         shared, Op2Config, Op2Journal, Op2Gateway, trafficVars, CaptureInv, Control, StartingIsNew
<1>2. CASE StartGateway \/ StartIntegrated
  <2>1. /\ UNCHANGED <<config, journal, door, gw, used, replaced>>
        /\ op.pc \in {"idle", "integrated"}
        /\ op'.pc \in {"start", "to_gateway", "reset", "redirect"}
    BY <1>0, <1>2 DEF StartGateway, StartIntegrated, OpAt, OpGoto, Op, OnlyOp, shared, NoOp
  <2>2. DoorMoves /\ FileMoves
    BY <1>0, <1>1, <2>1 DEF DoorMoves, FileMoves, LeavingPcs, PreparedPcs
  <2>. QED BY <1>1, <2>1, <2>2, SameRecord, MovesKeepDoor
<1>3. CASE StartService \/ StartFails
  <2>1. /\ UNCHANGED <<config, journal, door, used, replaced>>
        /\ op.pc \in {"start", "start_failed"} /\ op'.pc \in {"door", "idle"}
        /\ gw'.session => gw.session
    <3>1. CASE StartService
      BY <1>0, <3>1 DEF StartService, OpAt, OpGoto, OpEnds, Op, NoOp, Op2Gateway
    <3>2. CASE StartFails
      BY <1>0, <3>2 DEF StartFails, GatewayStops, OpAt, OpEnds, NoOp, Op2Gateway, Gateway
    <3>. QED BY <1>3, <3>1, <3>2
  <2>2. DoorMoves /\ FileMoves
    BY <1>0, <1>1, <2>1 DEF DoorMoves, FileMoves, LeavingPcs, PreparedPcs
  <2>. QED BY <1>1, <2>1, <2>2, SameRecord, MovesKeepDoor
<1>4. CASE StartDoor
  <2>1. /\ UNCHANGED <<config, journal, gw, replaced>>
        /\ op.pc = "door" /\ op'.pc \in {"integrated", "start_failed"}
        /\ door' \in {door, journal.orig} /\ ~gw.session
        /\ used'.faults = 0 => used.faults = 0
    <3>1. op.pc = "door" /\ op.pc \in StartingPcs
      BY <1>4 DEF StartDoor, OpAt, StartingPcs
    <3>. QED BY <1>0, <1>1, <1>4, <3>1, FaultsAreCounted
             DEF StartDoor, OpGoto, Op, OriginalUpstream
  <2>2. DoorMoves /\ FileMoves
    BY <1>0, <1>1, <2>1 DEF DoorMoves, FileMoves, LeavingPcs, PreparedPcs
  <2>. QED BY <1>1, <2>1, <2>2, SameRecord, MovesKeepDoor
<1>5. CASE StartToGateway
  <2>1. door # Closed
    BY <1>5 DEF StartToGateway, OpAt, CaptureInv, ClosedIsUnused, StartingPcs
  <2>2. /\ UNCHANGED <<config, journal, used, replaced>>
        /\ op.pc = "to_gateway" /\ op'.pc = "idle" /\ door' = GatewayBackend
    BY <1>5, <2>1 DEF StartToGateway, OpAt, OpEnds, NoOp, Switch
  <2>3. door' \notin Upstreams
    BY <2>2, UpstreamsAreNot
  <2>4. DoorMoves /\ FileMoves
    BY <1>0, <1>1, <2>2, <2>3 DEF DoorMoves, FileMoves, LeavingPcs, PreparedPcs
  <2>. QED BY <1>1, <2>2, <2>4, SameRecord, MovesKeepDoor
<1>6. CASE StartReset \/ StartRollback
  <2>1. /\ UNCHANGED <<journal, door, gw>>
        /\ op.pc \in {"reset", "rollback"} /\ op'.pc \in StartingPcs \ {"to_gateway"}
        /\ op'.pc \notin PreparedPcs \/ (op.pc = "rollback" /\ op'.pc = "rollback_mark" /\ op'.before = op.before)
    BY <1>0, <1>6 DEF StartReset, StartRollback, OpAt, OpGoto, Op, Restores, Op2Config, StartingPcs,
                      PreparedPcs
  <2>2. /\ config' = config \/ (config'.url # FrontDoor /\ config'.rest = config.rest)
        /\ replaced' = replaced
        /\ used'.faults = 0 => used.faults = 0
    <3>1. op.orig \in Upstreams /\ op.orig # FrontDoor
      BY <1>0, OriginalsAssumption DEF Op
    <3>2. used' = used \/ Fault
      BY <1>6 DEF StartReset, StartRollback, Restores, Commits, CommitFails, NoFault
    <3>3. /\ config' = config \/ (config'.url # FrontDoor /\ config'.rest = config.rest)
          /\ replaced' = replaced
      BY <1>0, <1>6, <3>1
         DEF StartReset, StartRollback, Restores, Commits, CommitFails, Writes, Config
    <3>. QED BY <1>0, <3>2, <3>3, FaultsAreCounted
  <2>3. DoorMoves
    BY <1>0, <1>1, <2>1 DEF DoorMoves, LeavingPcs
  <2>4. FileMoves
    BY <1>0, <2>1, <2>2 DEF FileMoves, PreparedPcs
  <2>. QED BY <1>1, <2>1, <2>3, <2>4, SameRecord, MovesKeepDoor
<1>7. CASE StartResetSave \/ StartRollbackSave
  <2>1. /\ UNCHANGED <<config, door, gw, replaced>>
        /\ op.pc \in {"reset_save", "rollback_save"} /\ op'.pc \in {"redirect", "start_failed"}
        /\ journal' = journal \/ journal' = GatewayCleared(journal)
        /\ used'.faults = 0 => used.faults = 0
    BY <1>0, <1>7, FaultsAreCounted
       DEF StartResetSave, StartRollbackSave, RestoreSaves, Saves, SaveFails, OpAt, OpGoto, Op,
           Op2Journal
  <2>2. DoorMoves /\ FileMoves
    BY <1>0, <1>1, <2>1 DEF DoorMoves, FileMoves, LeavingPcs, PreparedPcs
  <2>. QED BY <1>0, <1>1, <2>1, <2>2, ClearedRecord, MovesKeepDoor
<1>. QED BY <1>2, <1>3, <1>4, <1>5, <1>6, <1>7

\* The record of a redirect is of the file it was prepared from.
LEMMA StartRedirectDoorInv ==
    ASSUME IInv, CaptureInv, DoorInv, StartRedirect \/ StartRollbackMark PROVE DoorInv'
<1>0. /\ TypeOK /\ op \in Op /\ config \in Config /\ config.rest \in Nat /\ op.before.rest \in Nat
      /\ app # "off"
  BY Types, Revisions DEF IInv, OffIsIdle, StartRedirect, StartRollbackMark, OpAt
<1>1. /\ UNCHANGED <<config, door, gw, tx, app, replaced>>
      /\ door # Closed
      /\ op.pc \in {"redirect", "rollback_mark"}
  BY DEF StartRedirect, StartRollbackMark, Saves, SaveFails, SavesOrNot, OpAt, Op2Journal, trafficVars,
         CaptureInv, ClosedIsUnused, StartingPcs
<1>o. /\ op'.pc \in {"redirect_commit", "start_failed", "idle"}
      /\ op'.pc = "redirect_commit" => op'.before = config
  <2>1. /\ OpEnds => op'.pc = "idle"
        /\ OpGoto("start_failed") => op'.pc = "start_failed"
    BY <1>0 DEF OpEnds, OpGoto, NoOp, Op
  <2>2. op' = [op EXCEPT !.pc = "redirect_commit", !.orig = config.url, !.before = config]
          => op'.pc = "redirect_commit" /\ op'.before = config
    BY <1>0 DEF Op
  <2>3. \/ OpEnds \/ OpGoto("start_failed")
        \/ op' = [op EXCEPT !.pc = "redirect_commit", !.orig = config.url, !.before = config]
    BY DEF StartRedirect, StartRollbackMark
  <2>. QED BY <2>1, <2>2, <2>3
<1>f. used'.faults = 0 => used.faults = 0
  BY <1>0, FaultsAreCounted DEF StartRedirect, StartRollbackMark, Saves, SaveFails, SavesOrNot
<1>2. \/ journal' = journal
      \/ /\ journal'.exists /\ journal'.applied
         /\ \/ journal'.after.rest = config.rest
            \/ op.pc = "rollback_mark" /\ journal'.after.rest = op.before.rest
  <2>1. [config EXCEPT !.url = FrontDoor].rest = config.rest
    BY <1>0 DEF Config
  <2>2. op.before \in Config => [op.before EXCEPT !.url = FrontDoor].rest = op.before.rest
    BY DEF Config
  <2>3. op.pc = "rollback_mark" => op.before \in Config
    BY DEF IInv, RedirectOnRecord
  <2>4. CASE StartRedirect
    <3>1. \/ journal' = journal
          \/ journal' = GatewayApplied(journal, config.url, config, [config EXCEPT !.url = FrontDoor])
      BY <2>4 DEF StartRedirect, Saves, SaveFails
    <3>2. journal' = GatewayApplied(journal, config.url, config, [config EXCEPT !.url = FrontDoor])
            => /\ journal'.exists /\ journal'.applied
               /\ journal'.after = [config EXCEPT !.url = FrontDoor]
      BY DEF GatewayApplied
    <3>. QED BY <2>1, <3>1, <3>2
  <2>5. CASE StartRollbackMark
    BY <2>2, <2>3, <2>5 DEF StartRollbackMark, Saves, SaveFails, SavesOrNot, OpAt, GatewayApplied
  <2>. QED BY <2>4, <2>5
<1>3. OffIsClosed' /\ RoutedSession' /\ IntegratedDoorOpen'
  BY <1>0, <1>1, <1>o DEF DoorInv, OffIsClosed, RoutedSession, IntegratedDoorOpen, LeavingPcs
<1>4. TargetApplied' /\ SourceApplied'
  BY <1>1, <1>2 DEF DoorInv, TargetApplied, SourceApplied
<1>5. AfterIsOld'
  BY <1>0, <1>1, <1>2, <1>o DEF DoorInv, AfterIsOld, PreparedPcs
<1>6. ParkedDoor'
  BY <1>1, <1>f DEF DoorInv, ParkedDoor
<1>. QED BY <1>3, <1>4, <1>5, <1>6 DEF DoorInv

\* The redirect itself: if it fails by the file having been changed, Codex is where
\* it was.
LEMMA RedirectCommitDoorInv ==
    ASSUME IInv, CaptureInv, DoorInv, StartRedirectCommit PROVE DoorInv'
<1>0. /\ TypeOK /\ op \in Op /\ config \in Config /\ app # "off"
  BY Types DEF IInv, OffIsIdle, StartRedirectCommit, OpAt
<1>1. /\ UNCHANGED <<journal, door, gw, tx, app>>
      /\ door # Closed
      /\ op.pc = "redirect_commit"
  BY DEF StartRedirectCommit, OpAt, Op2Config, trafficVars, CaptureInv, ClosedIsUnused, StartingPcs
<1>2. op'.pc \in {"to_gateway", "rollback"} /\ op'.before = op.before
  BY <1>0 DEF StartRedirectCommit, OpGoto, Op
<1>3. config'.rest = config.rest
  BY <1>0 DEF StartRedirectCommit, Commits, CommitFails, Writes, Config
<1>4. \/ op'.pc = "to_gateway" \/ used'.faults # 0
      \/ UNCHANGED <<config, used, replaced>>
  <2>1. CASE Commits(FrontDoor, op.before) /\ OpGoto("to_gateway")
    BY <1>0, <2>1 DEF OpGoto, Op
  <2>2. CASE CommitFails(FrontDoor, op.before)
    BY <1>0, <2>2, FaultsAreCounted DEF CommitFails, NoFault
  <2>. QED BY <2>1, <2>2 DEF StartRedirectCommit
<1>5. OffIsClosed' /\ RoutedSession' /\ IntegratedDoorOpen'
  BY <1>0, <1>1, <1>2 DEF DoorInv, OffIsClosed, RoutedSession, IntegratedDoorOpen, LeavingPcs
<1>6. TargetApplied' /\ SourceApplied'
  BY <1>1 DEF DoorInv, TargetApplied, SourceApplied
<1>7. AfterIsOld'
  BY <1>1, <1>2, <1>3 DEF DoorInv, AfterIsOld, PreparedPcs
<1>8. ParkedDoor'
  BY <1>1, <1>4 DEF DoorInv, ParkedDoor
<1>. QED BY <1>5, <1>6, <1>7, <1>8 DEF DoorInv

\* Stopping the gateway and leaving the app: the front door is parked before its
\* gateway stops.
LEMMA StopDoorInv ==
    ASSUME IInv, CaptureInv, DoorInv,
           \/ StopGateway \/ StopDoor \/ StopService \/ Shutdown \/ DownDoor \/ DownConfig \/ DownSave
    PROVE  DoorInv'
<1>0. /\ TypeOK /\ op \in Op /\ gw \in Gateway /\ config \in Config /\ config.rest \in Nat
      /\ journal.orig \in Upstreams /\ journal.orig # FrontDoor
      /\ op.pc # "idle" => app # "off"
  BY Types, Revisions, OriginalsAssumption DEF IInv, OffIsIdle
<1>1. UNCHANGED <<tx, app>>
  BY DEF StopGateway, StopDoor, StopService, Shutdown, DownDoor, DownConfig, DownSave, Restores,
         RestoreSaves, OnlyOp, shared, Op2Config, Op2Journal, Op2Door, Op2Gateway, trafficVars
<1>2. CASE StopGateway \/ Shutdown
  <2>1. /\ op.pc = "idle" /\ op'.pc \in {"stop_traffic", "stop_door", "down_traffic", "down_door"}
        /\ UNCHANGED <<config, journal, door, gw, used, replaced>>
    BY <1>2 DEF StopGateway, Shutdown, OpAt, OnlyOp, shared, NoOp
  <2>2. DoorMoves /\ FileMoves
    BY <1>0, <1>1, <2>1 DEF DoorMoves, FileMoves, LeavingPcs, PreparedPcs
  <2>. QED BY <1>1, <2>1, <2>2, SameRecord, MovesKeepDoor
<1>3. CASE StopDoor \/ DownDoor
  <2>1. /\ op.pc \in {"stop_door", "down_door"}
        /\ op'.pc \in {"stop_service", "down_config", "down_service"}
        /\ UNCHANGED <<config, journal, gw, used, replaced>>
        /\ door' \in {door, journal.orig}
    BY <1>0, <1>3 DEF StopDoor, DownDoor, OpAt, OpGoto, Op, Op2Door, Switch, OriginalUpstream
  <2>2. DoorMoves /\ FileMoves
    BY <1>0, <1>1, <2>1 DEF DoorMoves, FileMoves, LeavingPcs, PreparedPcs
  <2>. QED BY <1>1, <2>1, <2>2, SameRecord, MovesKeepDoor
<1>4. CASE StopService
  <2>1. /\ op.pc = "stop_service" /\ op'.pc \in {"start", "idle"}
        /\ UNCHANGED <<config, journal, door, used, replaced>>
        /\ ~gw'.session
    BY <1>0, <1>4 DEF StopService, OpAt, OpGoto, OpEnds, NoOp, Op, Op2Gateway, GatewayStops, Gateway
  <2>2. DoorMoves /\ FileMoves
    BY <1>0, <1>1, <2>1 DEF DoorMoves, FileMoves, LeavingPcs, PreparedPcs
  <2>. QED BY <1>1, <2>1, <2>2, SameRecord, MovesKeepDoor
<1>5. CASE DownConfig
  <2>1. /\ UNCHANGED <<journal, door, gw>>
        /\ op.pc = "down_config" /\ op'.pc \in {"down_save", "down_service"}
    BY <1>0, <1>5 DEF DownConfig, OpAt, OpGoto, Op, Restores, Op2Config
  <2>2. used' = used \/ Fault
    BY <1>5 DEF DownConfig, Restores, Commits, CommitFails, NoFault
  <2>3. /\ config' = config \/ (config'.url # FrontDoor /\ config'.rest = config.rest)
        /\ replaced' = replaced
    BY <1>0, <1>5 DEF DownConfig, Restores, Commits, CommitFails, Writes, Config
  <2>4. DoorMoves
    BY <1>0, <1>1, <2>1 DEF DoorMoves, LeavingPcs
  <2>5. FileMoves
    BY <1>0, <2>1, <2>2, <2>3, FaultsAreCounted DEF FileMoves, PreparedPcs
  <2>. QED BY <1>1, <2>1, <2>4, <2>5, SameRecord, MovesKeepDoor
<1>6. CASE DownSave
  <2>1. /\ UNCHANGED <<config, door, gw, replaced>>
        /\ op.pc = "down_save" /\ op'.pc = "down_service"
        /\ journal' = journal \/ journal' = GatewayCleared(journal)
        /\ used'.faults = 0 => used.faults = 0
    BY <1>0, <1>6, FaultsAreCounted
       DEF DownSave, RestoreSaves, Saves, SaveFails, OpAt, OpGoto, Op, Op2Journal
  <2>2. DoorMoves /\ FileMoves
    BY <1>0, <1>1, <2>1 DEF DoorMoves, FileMoves, LeavingPcs, PreparedPcs
  <2>. QED BY <1>0, <1>1, <2>1, <2>2, ClearedRecord, MovesKeepDoor
<1>. QED BY <1>2, <1>3, <1>4, <1>5, <1>6

\* Steps of neither the start nor the stop that leave the record and the front door.
LEMMA AsideDoorInv ==
    ASSUME IInv, CaptureInv, DoorInv,
           \/ Quit \/ Commands \/ GatewayLost \/ Management \/ UserEdits
           \/ StopTraffic \/ DownTraffic
    PROVE  DoorInv'
<1>0. /\ TypeOK /\ op \in Op /\ gw \in Gateway /\ config \in Config /\ config.rest \in Nat
      /\ tx.pc = "returned" => app # "off"
  BY Types, Revisions DEF IInv, CaptureInv, Control, OffIsQuiet
<1>r. \A kind, by : Reserve(kind, by) => tx'.pc = "begin"
  BY DEF Reserve, NoTx
<1>t. "begin" \in RestingPcs /\ NoTx.pc \in RestingPcs
  BY DEF RestingPcs, NoTx
<1>1. CASE StopTraffic \/ DownTraffic
  <2>1. /\ UNCHANGED <<config, journal, door, gw, used, replaced, app>>
        /\ tx' = tx \/ tx'.pc \in RestingPcs
    BY <1>1, <1>r, <1>t
       DEF StopTraffic, DownTraffic, TrafficTeardown, TrafficDown, Reserve, OnlyTx, shared, trafficVars
  <2>2. op.pc \in {"stop_traffic", "down_traffic"}
        /\ (op' = op \/ op'.pc \in {"stop_door", "down_door", "idle"})
    BY <1>0, <1>1 DEF StopTraffic, DownTraffic, TrafficTeardown, TrafficDown, OpAt, OpGoto, OpEnds,
                      NoOp, Op
  <2>3. DoorMoves /\ FileMoves
    BY <1>0, <2>1, <2>2 DEF DoorMoves, FileMoves, LeavingPcs, PreparedPcs
  <2>. QED BY <2>1, <2>3, SameRecord, MovesKeepDoor
<1>2. CASE Commands
  <2>1. /\ UNCHANGED <<config, journal, door, gw, used, replaced, app, op>>
        /\ tx'.pc \in RestingPcs
    BY <1>2, <1>r, <1>t DEF Commands, TrafficCommand, Reserve, OnlyTx, shared
  <2>2. DoorMoves /\ FileMoves
    BY <1>0, <2>1 DEF DoorMoves, FileMoves
  <2>. QED BY <2>1, <2>2, SameRecord, MovesKeepDoor
<1>3. CASE Management
  <2>1. UNCHANGED <<config, journal, door, gw, used, replaced, app, op, tx>>
    BY <1>3 DEF Management, MgmtStart, MgmtPause, MgmtResume, MgmtStop, MgmtClose, ManagedTo,
                trafficVars
  <2>2. DoorMoves /\ FileMoves
    BY <1>0, <2>1 DEF DoorMoves, FileMoves
  <2>. QED BY <2>1, <2>2, SameRecord, MovesKeepDoor
<1>4. CASE GatewayLost
  <2>1. /\ UNCHANGED <<config, journal, door, replaced, app, op, tx>>
        /\ ~gw'.session /\ used'.faults # 0
    BY <1>0, <1>4, FaultsAreCounted DEF GatewayLost, Gateway, trafficVars
  <2>2. DoorMoves /\ FileMoves
    BY <1>0, <2>1 DEF DoorMoves, FileMoves
  <2>. QED BY <2>1, <2>2, SameRecord, MovesKeepDoor
<1>5. CASE UserEdits
  <2>1. UNCHANGED <<journal, door, gw, used, replaced, app, op, tx>>
    BY <1>5 DEF UserEdits, trafficVars
  <2>2. /\ config'.rest = config.rest + 1
        /\ config'.url = FrontDoor => config.url = FrontDoor
    BY <1>0, <1>5, OriginalsAssumption DEF UserEdits, Config
  <2>3. DoorMoves
    BY <1>0, <2>1 DEF DoorMoves
  <2>4. FileMoves
    BY <1>0, <2>1, <2>2 DEF FileMoves
  <2>. QED BY <2>1, <2>3, <2>4, SameRecord, MovesKeepDoor
<1>6. CASE Quit
  <2>1. UNCHANGED <<config, journal, door, gw, replaced, op, tx>> /\ app = "up" /\ app' = "closing"
    BY <1>6 DEF Quit, trafficVars
  <2>2. used'.faults = used.faults
    BY <1>0, <1>6, FaultsAreCounted DEF Quit
  <2>. QED BY <2>1, <2>2
       DEF DoorInv, OffIsClosed, RoutedSession, TargetApplied, SourceApplied, AfterIsOld,
           IntegratedDoorOpen, ParkedDoor
<1>. QED BY <1>1, <1>2, <1>3, <1>4, <1>5, <1>6

\* Explicit recovery: the front door stays where it is, and the record forgets no
\* more than its target.
LEMMA RecoveryDoorInv == ASSUME IInv, CaptureInv, DoorInv, Recovery PROVE DoorInv'
<1>0. /\ TypeOK /\ config \in Config /\ config.rest \in Nat /\ journal \in Journal
      /\ journal.orig # FrontDoor
  BY Types, Revisions, OriginalsAssumption DEF IInv
<1>1. UNCHANGED <<door, gw, app, op, tx>>
  BY DEF Recovery, RestoreConflict, RestoreRecovery, RestoreFails, DiscardRecovery, RestoreKeeps,
         trafficVars
<1>2. DoorMoves
  BY <1>1 DEF DoorMoves
<1>3. used' = used \/ Fault
  BY DEF Recovery, RestoreConflict, RestoreRecovery, RestoreFails, DiscardRecovery, SavesOrNot, Saves,
         SaveFails, CommitFails, NoFault
<1>4. /\ config' = config \/ (config'.url # FrontDoor /\ config'.rest = config.rest)
      /\ replaced' \in {replaced, Discarded}
  <2>1. Writes(OriginalUpstream(journal)) =>
          config'.url # FrontDoor /\ config'.rest = config.rest /\ replaced' = replaced
    BY <1>0 DEF Writes, OriginalUpstream, Config
  <2>2. CASE RestoreConflict \/ DiscardRecovery
    BY <2>2 DEF RestoreConflict, DiscardRecovery
  <2>3. CASE RestoreRecovery \/ RestoreFails
    BY <2>1, <2>3 DEF RestoreRecovery, RestoreFails, CommitFails
  <2>. QED BY <2>2, <2>3 DEF Recovery
<1>5. FileMoves
  BY <1>0, <1>1, <1>3, <1>4, FaultsAreCounted DEF FileMoves
<1>6. \/ journal' = journal \/ journal' = MarkConflict(journal)
      \/ journal' = MarkRestored(journal) \/ journal' = NoJournal
  BY DEF Recovery, RestoreConflict, RestoreRecovery, RestoreFails, DiscardRecovery, SavesOrNot, Saves,
         SaveFails
<1>7. /\ journal'.after \in {journal.after, NoHash}
      /\ journal'.target # "original" =>
           /\ journal'.target = journal.target /\ journal'.after = journal.after
           /\ journal'.exists = journal.exists /\ journal'.applied = journal.applied
  <2>1. CASE journal' = MarkConflict(journal)
    BY <1>0, <2>1 DEF MarkConflict, Journal
  <2>2. CASE journal' = MarkRestored(journal) \/ journal' = NoJournal
    <3>1. journal'.target = "original" /\ journal'.after \in {journal.after, NoHash}
      <4>1. journal' = MarkRestored(journal) =>
              journal'.target = "original" /\ journal'.after = journal.after
        BY <1>0 DEF MarkRestored, Journal
      <4>2. NoJournal.target = "original" /\ NoJournal.after = NoHash
        BY DEF NoJournal
      <4>. QED BY <2>2, <4>1, <4>2
    <3>. QED BY <3>1
  <2>. QED BY <1>6, <2>1, <2>2
<1>8. RecordMoves
  BY <1>1, <1>7, OtherSources DEF RecordMoves, DoorInv, TargetApplied
<1>. QED BY <1>2, <1>5, <1>8, MovesKeepDoor

\* An app that starts opens the front door for a Codex that is still at it.
LEMMA StartupDoorInv == ASSUME IInv, CaptureInv, DoorInv, Startup PROVE DoorInv'
<1>0. TypeOK /\ journal \in Journal /\ journal.orig \in Upstreams
  BY Types DEF IInv
<1>1. /\ app = "off" /\ app' = "up" /\ UNCHANGED <<config, gw, op, tx, replaced>>
      /\ door = Closed /\ ~gw.session
      /\ journal' = Reconciled(journal, config)
  BY DEF Startup, DoorInv, OffIsClosed, CaptureInv, ClosedIsUnused, trafficVars
<1>2. /\ journal'.target = journal.target /\ journal'.after = journal.after
      /\ journal'.exists = journal.exists /\ journal'.applied = journal.applied
  BY <1>0, <1>1 DEF Reconciled, Journal
<1>3. \/ door' = journal.orig /\ used' = used
      \/ door' = Closed /\ used'.faults # 0
      \/ door' = Closed /\ used' = used /\ Classify(journal, config) # "integrated"
  BY <1>0, <1>1, FaultsAreCounted DEF Startup, OriginalUpstream, NoFault
<1>4. /\ OffIsClosed' /\ RoutedSession' /\ TargetApplied' /\ SourceApplied'
      /\ AfterIsOld'
  BY <1>1, <1>2
     DEF DoorInv, OffIsClosed, RoutedSession, TargetApplied, SourceApplied, AfterIsOld
<1>5. IntegratedDoorOpen'
  <2>1. journal.target # "original" /\ journal.after = config
          => Classify(journal, config) = "integrated"
    BY DEF DoorInv, TargetApplied, Classify
  <2>2. journal.orig # Closed
    BY <1>0, UpstreamsAreNot
  <2>. QED BY <1>1, <1>2, <1>3, <2>1, <2>2 DEF IntegratedDoorOpen
<1>6. ParkedDoor'
  <2>1. Closed \notin Upstreams
    BY UpstreamsAreNot
  <2>. QED BY <1>1, <1>3, <2>1 DEF ParkedDoor, IInv, OriginalRecoverable
<1>. QED BY <1>4, <1>5, <1>6 DEF DoorInv

\* A process that is gone takes the front door with it.
LEMMA GoneDoorInv == ASSUME IInv, DoorInv, DownService \/ Crash PROVE DoorInv'
<1>0. ProcessGone /\ gw \in Gateway /\ UNCHANGED <<config, journal>>
  BY Types DEF DownService, Crash, IInv
<1>1. /\ app' = "off" /\ door' = Closed /\ ~gw'.session
      /\ op'.pc = "idle" /\ tx'.pc = "idle"
  BY <1>0 DEF ProcessGone, OpEnds, NoOp, NoTx, Gateway
<1>2. Closed \notin Upstreams
  BY UpstreamsAreNot
<1>3. OffIsClosed' /\ RoutedSession' /\ IntegratedDoorOpen' /\ ParkedDoor'
  BY <1>1, <1>2 DEF OffIsClosed, RoutedSession, IntegratedDoorOpen, ParkedDoor
<1>4. TargetApplied' /\ SourceApplied' /\ AfterIsOld'
  BY <1>0, <1>1
     DEF DoorInv, TargetApplied, SourceApplied, AfterIsOld, DisablePcs, FinishPcs, PreparedPcs
<1>. QED BY <1>3, <1>4 DEF DoorInv

LEMMA InitDoor == ASSUME Init PROVE DoorInv
<1>1. /\ app = "off" /\ door = Closed /\ ~gw.session
      /\ journal = NoJournal /\ op.pc = "idle" /\ tx.pc = "idle" /\ config.rest = 0
  BY DEF Init, SharedInit, TrafficInit, NoOp, NoTx
<1>2. Closed \notin Upstreams
  BY UpstreamsAreNot
<1>3. OffIsClosed /\ RoutedSession /\ IntegratedDoorOpen /\ ParkedDoor
  BY <1>1, <1>2 DEF OffIsClosed, RoutedSession, IntegratedDoorOpen, ParkedDoor
<1>4. TargetApplied /\ SourceApplied /\ AfterIsOld
  BY <1>1 DEF TargetApplied, SourceApplied, AfterIsOld, NoJournal, NoHash, DisablePcs, FinishPcs,
              PreparedPcs
<1>. QED BY <1>3, <1>4 DEF DoorInv

LEMMA NextDoor == ASSUME IInv, CaptureInv, DoorInv, [Next]_vars PROVE DoorInv'
<1>1. CASE StartSteps
  BY <1>1, StartDoorInv, StartRedirectDoorInv, RedirectCommitDoorInv DEF StartSteps
<1>2. CASE StopSteps
  BY <1>2, StopDoorInv, AsideDoorInv DEF StopSteps
<1>3. CASE DownSteps
  BY <1>3, StopDoorInv, AsideDoorInv, GoneDoorInv DEF DownSteps
<1>4. CASE Quit \/ Startup \/ TxSteps \/ Commands \/ Recovery
  BY <1>4, AsideDoorInv, StartupDoorInv, TxDoorInv, RecoveryDoorInv
<1>5. CASE Others
  BY <1>5, AsideDoorInv, GoneDoorInv DEF Others
<1>6. CASE UNCHANGED vars
  <2>1. UNCHANGED <<config, journal, door, gw, used, replaced, tx, app, op>>
    BY <1>6 DEF vars, shared, trafficVars
  <2>. QED BY <2>1
       DEF DoorInv, OffIsClosed, RoutedSession, TargetApplied, SourceApplied, AfterIsOld,
           IntegratedDoorOpen, ParkedDoor
<1>. QED BY <1>1, <1>2, <1>3, <1>4, <1>5, <1>6 DEF Next

\* The front door is open for a Codex at it, leads to the gateway that has a
\* session, and is parked on the upstream of the record otherwise.
THEOREM DoorInvariant == Spec => []DoorInv
<1>1. Init => DoorInv
  BY InitDoor
<1>2. IInv /\ CaptureInv /\ DoorInv /\ [Next]_vars => DoorInv'
  BY NextDoor
<1>. QED BY <1>1, <1>2, RoutingInvariant, CaptureInvariant, PTL DEF Spec

\* At rest, the upstream a front door is parked on is the one it took the place of.
THEOREM ParkedOnOriginal == Spec => []ParkedDoorIsOriginal
<1>1. DoorInv => ParkedDoorIsOriginal
  BY DEF DoorInv, ParkedDoor, ParkedDoorIsOriginal, AtRest, OpAt
<1>. QED BY <1>1, DoorInvariant, PTL

\* A session of a running gateway has the front door, a Codex that is still at
\* it after the app started finds it open, and a parked one keeps its upstream.
THEOREM DoorIsServed == Spec => []DoorServesCodex
<1>1. DoorInv => RunningGatewayIsRouted /\ IntegratedDoorOpen
  <2>1. op.pc = "idle" => op.pc \notin LeavingPcs
    BY DEF LeavingPcs
  <2>2. DoorInv => RunningGatewayIsRouted
    BY <2>1 DEF DoorInv, RoutedSession, RunningGatewayIsRouted, AtRest, OpAt
  <2>. QED BY <2>2 DEF DoorInv
<1>2. RunningGatewayIsRouted /\ IntegratedDoorOpen /\ ParkedDoorIsOriginal => DoorServesCodex
  BY DEF DoorServesCodex
<1>. QED BY <1>1, <1>2, DoorInvariant, ParkedOnOriginal, PTL
=============================================================================
