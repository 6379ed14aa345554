------------------------- MODULE TrafficTransaction -------------------------
(***************************************************************************)
(* The traffic transaction (internal/service/traffictransaction): Enable,  *)
(* Disable and Finish, one at a time under App.trafficMu, one step for     *)
(* each thing they read or change outside themselves.  The gateway, the    *)
(* capture's management API and config.toml move between those steps.      *)
(*                                                                         *)
(* The operation identifiers in the record, the backup fields and the      *)
(* events are left out.                                                    *)
(***************************************************************************)
EXTENDS DesktopState

VARIABLES
    tx,     \* the operation that holds trafficMu
    owner,  \* s.ownerID
    last    \* s.lastGateway and s.lastGeneration

trafficVars == <<tx, owner, last>>

Callers == {"none", "ui", "app"}
EnablePcs == {"prepare", "start", "claim", "record", "map", "switch",
              "commit", "confirm"}
UndoPcs == {"undo_door", "undo_claim", "undo_capture", "undo_record",
            "undo_failed"}
DisablePcs == {"disable_record", "disable_door", "disable_pause",
               "disable_restored", "disable_release", "disable_demote",
               "disable_confirm", "disable_failed"}
FinishPcs == {"finish_record", "finish_close", "finish_final",
              "finish_confirm", "finish_failed"}
TxPcs == EnablePcs \cup UndoPcs \cup DisablePcs \cup FinishPcs
         \cup {"idle", "begin", "returned"}

TxKinds == {"none", "enable", "disable", "finish"}

\* started, claimed and switched are FailureState; `source` is what Disable and
\* Finish read from the record and write back into it; `verify` is set where
\* verifyGateway comes next.
Sources == [target : Targets, applied : BOOLEAN]
Tx == [pc : TxPcs, kind : TxKinds, by : Callers, ok : BOOLEAN, verify : BOOLEAN,
       run : 0..MaxRuns, gen : 0..MaxRelays, id : 0..MaxIds,
       started : BOOLEAN, claimed : BOOLEAN, switched : BOOLEAN,
       source : Sources]

NoTx == [pc |-> "idle", kind |-> "none", by |-> "none", ok |-> FALSE,
         verify |-> FALSE, run |-> NoRun, gen |-> 0, id |-> NoOwner,
         started |-> FALSE, claimed |-> FALSE, switched |-> FALSE,
         source |-> [target |-> "original", applied |-> FALSE]]

NoLast == [run |-> NoRun, gen |-> 0]

TrafficTypeOK ==
    /\ tx \in Tx
    /\ owner \in 0..MaxIds
    /\ last \in [run : 0..MaxRuns, gen : 0..MaxRelays]

TrafficInit == tx = NoTx /\ owner = NoOwner /\ last = NoLast

-----------------------------------------------------------------------------
At(pc) == tx.pc = pc /\ ~tx.verify

TxGoto(pc) == tx' = [tx EXCEPT !.pc = pc]

\* The next step is preceded by a look at the gateway.
TxThenVerify(t, pc) == tx' = [t EXCEPT !.pc = pc, !.verify = TRUE]

\* A command of the UI lets go of trafficMu; the app goes on holding it and
\* reads the result.
Return(ok) ==
    tx' = IF tx.by = "ui" THEN NoTx
          ELSE [NoTx EXCEPT !.pc = "returned", !.by = tx.by, !.ok = ok]

OnlyTx == UNCHANGED <<shared, owner, last>>
OnlyJournal == UNCHANGED <<config, door, gw, cap, replaced, userUrl, owner, last>>
OnlyDoor == UNCHANGED <<config, journal, gw, cap, used, replaced, userUrl,
                        owner, last>>
OnlyCap == UNCHANGED <<config, journal, door, gw, replaced, userUrl, owner, last>>

\* reserveOperation: trafficMu is taken, so that there is never one in the way.
Reserve(kind, by) ==
    /\ tx.pc = "idle"
    /\ tx' = [NoTx EXCEPT !.pc = "begin", !.kind = kind, !.by = by]
    /\ OnlyTx

\* trafficGatewayProvider.Snapshot: the session of the running gateway.
GatewayAvailable == gw.up /\ gw.session

\* A caller that may not go on.
Refused(kind, allowed) ==
    /\ At("begin") /\ tx.kind = kind
    /\ ~allowed
    /\ Return(FALSE)
    /\ OnlyTx

-----------------------------------------------------------------------------
(* Enable.                                                                 *)

CanStartCapture == cap.mode = "idle" /\ cap.relay \in {"none", "stopped"}
CanAdoptCapture == IsCaptureOnly("capturing", cap.gen, gw.run)
CanEnable ==
    /\ GatewayAvailable
    /\ ~HasUnresolved(journal)
    /\ TrafficActive(journal) => owner # NoOwner
    /\ CanStartCapture \/ CanAdoptCapture

EnableBegin ==
    /\ At("begin") /\ tx.kind = "enable"
    /\ CanEnable
    /\ used.ids < MaxIds
    /\ used' = [used EXCEPT !.ids = @ + 1]
    /\ tx' = [tx EXCEPT !.pc = "prepare", !.run = gw.run, !.id = used.ids + 1,
                        !.gen = IF CanAdoptCapture THEN cap.gen ELSE 0]
    /\ UNCHANGED <<config, journal, door, gw, cap, replaced, userUrl, owner, last>>

\* Nothing has been done yet: the error is returned as it is.
EnablePrepare ==
    /\ At("prepare")
    /\ \/ Saves(EnableCheckpoint(journal, "prepared")) /\ TxThenVerify(tx, "start")
       \/ SaveFails /\ Return(FALSE)
    /\ OnlyJournal

\* Mutant: the claim is undone first.
FirstUndoClaimFirst(t) ==
    CASE t.claimed -> "undo_claim"
      [] ~t.claimed /\ t.started -> "undo_capture"
      [] ~t.claimed /\ ~t.started /\ t.switched -> "undo_door"
      [] OTHER -> "undo_record"

\* backout undoes what FailureState says was done, last first.
FirstUndo(t) ==
    CASE t.switched -> "undo_door"
      [] ~t.switched /\ t.claimed -> "undo_claim"
      [] ~t.switched /\ ~t.claimed /\ t.started -> "undo_capture"
      [] OTHER -> "undo_record"

UndoNext(t) == tx' = [t EXCEPT !.pc = FirstUndo(t), !.verify = FALSE]
Backout == UndoNext(tx)

\* verifyGateway.
Verify ==
    /\ tx.verify
    /\ IF GatewayAvailable /\ gw.run = tx.run
       THEN tx' = [tx EXCEPT !.verify = FALSE]
       ELSE Backout
    /\ OnlyTx

\* BindGatewayRun and StartCapture; the relay's listener may not bind.
EnableStart ==
    LET binds  == cap.relay = "none" \/ cap.run = tx.run
        starts == binds /\ cap.relay \in {"none", "stopped"} /\ cap.gen < MaxRelays
                        /\ cap.mode \in {"idle", "capture_only"}
    IN /\ At("start") /\ tx.gen = 0
       /\ \/ /\ starts /\ NoFault
             /\ cap' = Started(tx.run)
             /\ TxThenVerify([tx EXCEPT !.started = TRUE, !.gen = cap.gen + 1], "claim")
          \/ /\ starts /\ Fault /\ Backout
             /\ cap' = [cap EXCEPT !.run = tx.run, !.relay = "none"]
          \/ /\ ~starts /\ NoFault /\ Backout
             /\ cap' = IF binds THEN [cap EXCEPT !.run = tx.run] ELSE cap
       /\ OnlyCap

EnableAdopt ==
    /\ At("start") /\ tx.gen # 0
    /\ IF IsCaptureOnly("capturing", tx.gen, tx.run)
       THEN TxThenVerify(tx, "claim") ELSE Backout
    /\ OnlyTx

\* Mutant: a claim that is reported as failed is not backed out.
EnableClaimUnmarked ==
    /\ At("claim")
    /\ \/ /\ IsCaptureOnly("capturing", tx.gen, tx.run)
          /\ cap' = [cap EXCEPT !.mode = "desktop", !.owner = tx.id]
          /\ \/ TxThenVerify([tx EXCEPT !.claimed = TRUE], "record")
             \/ Backout
       \/ /\ ~IsCaptureOnly("capturing", tx.gen, tx.run)
          /\ Backout /\ UNCHANGED cap
    /\ NoFault /\ OnlyCap

\* ClaimDesktopExpected.  An observation recorded since the capture was looked
\* at makes the claim fail although it was made.
EnableClaim ==
    /\ At("claim")
    /\ \/ /\ IsCaptureOnly("capturing", tx.gen, tx.run)
          /\ cap' = [cap EXCEPT !.mode = "desktop", !.owner = tx.id]
          /\ \/ TxThenVerify([tx EXCEPT !.claimed = TRUE], "record")
             \/ UndoNext([tx EXCEPT !.claimed = TRUE])
       \/ /\ ~IsCaptureOnly("capturing", tx.gen, tx.run)
          /\ Backout /\ UNCHANGED cap
    /\ NoFault /\ OnlyCap

EnableRecord ==
    /\ At("record")
    /\ \/ Saves(EnableCheckpoint(journal, "capture_started")) /\ TxThenVerify(tx, "map")
       \/ SaveFails /\ Backout
    /\ OnlyJournal

\* SetDesktopModelMappingExpected; its undo cannot fail and is left out.
EnableMap ==
    /\ At("map")
    /\ IF IsDesktop("capturing", tx.gen, tx.run, tx.id) THEN TxGoto("switch") ELSE Backout
    /\ OnlyTx

EnableSwitch ==
    /\ At("switch")
    /\ \/ Switch(CaptureRelay) /\ TxThenVerify([tx EXCEPT !.switched = TRUE], "commit")
       \/ door = Closed /\ Backout /\ UNCHANGED door
    /\ OnlyDoor

EnableCommit ==
    /\ At("commit")
    /\ \/ Saves(EnableCheckpoint(journal, "config_committed")) /\ TxThenVerify(tx, "confirm")
       \/ SaveFails /\ Backout
    /\ OnlyJournal

\* Mutant: the generation Disable will ask for is not kept.
EnableConfirmForgets ==
    /\ At("confirm")
    /\ IF /\ TrafficActive(journal) /\ IsApplied(journal)
          /\ IsDesktop("capturing", tx.gen, tx.run, tx.id)
       THEN /\ owner' = tx.id
            /\ last' = [run |-> tx.run, gen |-> 0]
            /\ Return(TRUE)
       ELSE Backout /\ UNCHANGED <<owner, last>>
    /\ UNCHANGED shared

EnableConfirm ==
    /\ At("confirm")
    /\ IF /\ TrafficActive(journal) /\ IsApplied(journal)
          /\ IsDesktop("capturing", tx.gen, tx.run, tx.id)
       THEN /\ owner' = tx.id
            /\ last' = [run |-> tx.run, gen |-> tx.gen]
            /\ Return(TRUE)
       ELSE Backout /\ UNCHANGED <<owner, last>>
    /\ UNCHANGED shared

-----------------------------------------------------------------------------
(* backout.                                                                *)

UndoFailed == tx' = [tx EXCEPT !.pc = "undo_failed"]

UndoDoor ==
    /\ At("undo_door")
    /\ \/ Switch(GatewayBackend) /\ UndoNext([tx EXCEPT !.switched = FALSE])
       \/ door = Closed /\ UndoFailed /\ UNCHANGED door
    /\ OnlyDoor

CanRelease(gen, id) == cap.mode = "desktop" /\ cap.owner = id /\ cap.gen = gen
Released == [cap EXCEPT !.mode = "capture_only", !.owner = NoOwner]

UndoClaim ==
    /\ At("undo_claim")
    /\ \/ /\ CanRelease(tx.gen, tx.id)
          /\ cap' = Released
          /\ UndoNext([tx EXCEPT !.claimed = FALSE])
       \/ ~CanRelease(tx.gen, tx.id) /\ UndoFailed /\ UNCHANGED cap
    /\ NoFault /\ OnlyCap

UndoCapture ==
    /\ At("undo_capture")
    /\ \/ CanClose /\ cap' = ClosedCapture /\ NoFault /\ UndoNext([tx EXCEPT !.started = FALSE])
       \/ CanClose /\ cap.relay # "none" /\ cap' = BadlyClosedCapture /\ Fault /\ UndoFailed
       \/ ~CanClose /\ NoFault /\ UndoFailed /\ UNCHANGED cap
    /\ OnlyCap

UndoRecord ==
    /\ At("undo_record")
    /\ \/ Saves(EnableCheckpoint(journal, "aborted")) /\ Return(FALSE)
       \/ SaveFails /\ UndoFailed
    /\ OnlyJournal

\* requireRecovery.
UndoFails ==
    /\ At("undo_failed")
    /\ SavesOrNot(EnableCheckpoint(journal, "recovery_required"))
    /\ Return(FALSE)
    /\ OnlyJournal

-----------------------------------------------------------------------------
(* Disable.                                                                *)

\* The record keeps neither the gateway nor the generation: they are what
\* Enable left in this process.
CanDisable ==
    /\ ~HasUnresolved(journal)
    /\ TrafficActive(journal) /\ IsApplied(journal)
    /\ owner # NoOwner
    /\ cap.mode = "desktop" /\ Matches(last.gen, last.run)
    /\ cap.relay \in {"capturing", "passthrough"} /\ cap.owner = owner

Source == [target |-> journal.target, applied |-> journal.applied]

DisableBegin ==
    /\ At("begin") /\ tx.kind = "disable"
    /\ CanDisable
    /\ tx' = [tx EXCEPT !.pc = "disable_record", !.run = cap.run, !.gen = cap.gen,
                        !.id = owner, !.source = Source]
    /\ OnlyTx

\* A checkpoint of Disable: what it read, with a new phase.
DisableSaves(pc, phase, next) ==
    /\ At(pc)
    /\ \/ Saves(DisableCheckpoint(journal, phase, tx.source)) /\ TxGoto(next)
       \/ SaveFails /\ TxGoto("disable_failed")
    /\ OnlyJournal

DisableRecord == DisableSaves("disable_record", "disable_started", "disable_door")

\* Mutant: Disable goes all the way back to the original upstream.
DisableDoorToOriginal ==
    /\ At("disable_door")
    /\ \/ Switch(OriginalUpstream(journal)) /\ TxGoto("disable_pause")
       \/ door = Closed /\ TxGoto("disable_failed") /\ UNCHANGED door
    /\ OnlyDoor

DisableDoor ==
    /\ At("disable_door")
    /\ \/ Switch(GatewayBackend) /\ TxGoto("disable_pause")
       \/ door = Closed /\ TxGoto("disable_failed") /\ UNCHANGED door
    /\ OnlyDoor

\* PauseDesktopExpected.  A relay that fails to pause and an observation
\* recorded since Disable began are both failures.
CanPause(gen, run, id) ==
    cap.mode = "desktop" /\ cap.owner = id /\ Matches(gen, run) /\ Listening
DisablePause ==
    /\ At("disable_pause")
    /\ \/ /\ CanPause(tx.gen, tx.run, tx.id)
          /\ cap' = [cap EXCEPT !.relay = "passthrough"]
          /\ TxGoto("disable_restored") \/ TxGoto("disable_failed")
          /\ NoFault
       \/ /\ CanPause(tx.gen, tx.run, tx.id) /\ Fault
          /\ TxGoto("disable_failed") /\ UNCHANGED cap
       \/ /\ ~CanPause(tx.gen, tx.run, tx.id) /\ NoFault
          /\ TxGoto("disable_failed") /\ UNCHANGED cap
    /\ OnlyCap

DisableRestored ==
    IF IsDesktop("passthrough", tx.gen, tx.run, tx.id)
    THEN DisableSaves("disable_restored", "config_restored", "disable_release")
    ELSE At("disable_restored") /\ TxGoto("disable_failed") /\ OnlyTx

DisableRelease ==
    /\ At("disable_release")
    /\ IF IsDesktop("passthrough", tx.gen, tx.run, tx.id)
       THEN cap' = Released /\ owner' = NoOwner /\ TxGoto("disable_demote")
       ELSE TxGoto("disable_failed") /\ UNCHANGED <<cap, owner>>
    /\ UNCHANGED <<config, journal, door, gw, used, replaced, userUrl, last>>

\* The released capture is looked at once more before the record is demoted.
DisableDemote ==
    /\ At("disable_demote")
    /\ IF IsCaptureOnly("passthrough", tx.gen, tx.run)
       THEN \/ Saves(DemoteCheckpoint(journal)) /\ TxGoto("disable_confirm")
            \/ SaveFails /\ TxGoto("disable_failed")
       ELSE TxGoto("disable_failed") /\ UNCHANGED <<journal, used>>
    /\ OnlyJournal

DisableConfirm ==
    /\ At("disable_confirm")
    /\ IF IsDurablyInactive(journal) /\ ~TrafficActive(journal)
       THEN Return(TRUE) ELSE TxGoto("disable_failed")
    /\ OnlyTx

DisableFails ==
    /\ At("disable_failed")
    /\ SavesOrNot(DisableCheckpoint(journal, "recovery_required", tx.source))
    /\ Return(FALSE)
    /\ OnlyJournal

-----------------------------------------------------------------------------
(* Finish.                                                                 *)

CanFinish ==
    /\ ~HasUnresolved(journal)
    /\ journal.exists /\ ~TrafficActive(journal) /\ IsDurablyInactive(journal)
    /\ last.run # NoRun
    /\ IsCaptureOnly("passthrough", cap.gen, last.run)

FinishBegin ==
    /\ At("begin") /\ tx.kind = "finish"
    /\ CanFinish
    /\ tx' = [tx EXCEPT !.pc = "finish_record", !.run = cap.run, !.gen = cap.gen,
                        !.source = Source]
    /\ OnlyTx

FinishSaves(pc, next) ==
    /\ At(pc)
    /\ \/ Saves(TrafficCheckpoint(journal, "finish", tx.source.target, tx.source.applied))
          /\ TxGoto(next)
       \/ SaveFails /\ TxGoto("finish_failed")
    /\ OnlyJournal

FinishRecord == FinishSaves("finish_record", "finish_close")

FinishClose ==
    /\ At("finish_close")
    /\ \/ CanClose /\ cap' = ClosedCapture /\ NoFault /\ TxGoto("finish_final")
       \/ CanClose /\ cap.relay # "none" /\ cap' = BadlyClosedCapture /\ Fault
          /\ TxGoto("finish_failed")
       \/ ~CanClose /\ NoFault /\ TxGoto("finish_failed") /\ UNCHANGED cap
    /\ OnlyCap

IsIdle == cap.mode = "idle" /\ cap.relay = "none"

FinishFinal ==
    IF IsIdle THEN FinishSaves("finish_final", "finish_confirm")
    ELSE At("finish_final") /\ TxGoto("finish_failed") /\ OnlyTx

FinishConfirm ==
    /\ At("finish_confirm")
    /\ IF IsDurablyInactive(journal) /\ ~TrafficActive(journal) /\ IsIdle
       THEN Return(TRUE) /\ last' = NoLast
       ELSE TxGoto("finish_failed") /\ UNCHANGED last
    /\ UNCHANGED <<shared, owner>>

FinishFails ==
    /\ At("finish_failed")
    /\ SavesOrNot(DisableCheckpoint(journal, "recovery_required", tx.source))
    /\ Return(FALSE)
    /\ OnlyJournal

-----------------------------------------------------------------------------
EnableStep ==
    \/ Refused("enable", CanEnable) \/ EnableBegin \/ EnablePrepare \/ Verify
    \/ EnableStart \/ EnableAdopt \/ EnableClaim \/ EnableRecord \/ EnableMap
    \/ EnableSwitch \/ EnableCommit \/ EnableConfirm
BackoutStep ==
    UndoDoor \/ UndoClaim \/ UndoCapture \/ UndoRecord \/ UndoFails
DisableStep ==
    \/ Refused("disable", CanDisable) \/ DisableBegin \/ DisableRecord
    \/ DisableDoor \/ DisablePause \/ DisableRestored \/ DisableRelease
    \/ DisableDemote \/ DisableConfirm \/ DisableFails
FinishStep ==
    \/ Refused("finish", CanFinish) \/ FinishBegin \/ FinishRecord
    \/ FinishClose \/ FinishFinal \/ FinishConfirm \/ FinishFails

\* The operation goes on.
TxStep == EnableStep \/ BackoutStep \/ DisableStep \/ FinishStep
=============================================================================
