------------------------ MODULE DesktopRoutingProofs ------------------------
(***************************************************************************)
(* The original upstream of a redirected Codex stays on record, and a      *)
(* record is only discarded when nothing is redirected, for any number of  *)
(* gateway runs, relays, transactions, edits, faults, crashes and exits.   *)
(***************************************************************************)
EXTENDS DesktopRouting, TLAPS

USE OriginalsAssumption, EditsAssumption, BoundsAssumption, DoorAssumption

\* The values that stand for none are inside the bounds.
LEMMA NoneInBounds ==
    NoRun \in 0..MaxRuns /\ NoOwner \in 0..MaxIds /\ 0 \in 0..MaxRelays /\ 0 \in 0..MaxTrouble
<1>1. MaxRuns \in Nat /\ MaxRelays \in Nat /\ MaxIds \in Nat /\ MaxTrouble \in Nat
  BY BoundsAssumption
<1>. QED BY <1>1 DEF NoRun, NoOwner

-----------------------------------------------------------------------------
(* What the writers of the record keep.                                    *)

\* The gateway layer's own record is well formed and names the upstream it was
\* given (gatewayRecoveryWriter.Checkpoint).
LEMMA GatewayAppliedRecord ==
    ASSUME NEW j \in Journal, NEW orig \in Upstreams,
           NEW before \in Hash, NEW after \in Hash
    PROVE  /\ GatewayApplied(j, orig, before, after) \in Journal
           /\ GatewayApplied(j, orig, before, after).exists
           /\ GatewayApplied(j, orig, before, after).active
           /\ GatewayApplied(j, orig, before, after).orig = orig
           /\ GatewayApplied(j, orig, before, after).before = before
BY DEF GatewayApplied, Journal, Targets, JournalPhases

\* A cleared record is well formed.
LEMMA GatewayClearedRecord ==
    ASSUME NEW j \in Journal
    PROVE  GatewayCleared(j) \in Journal /\ GatewayCleared(j).target = "original"
           /\ GatewayCleared(j).before = NoHash
BY DEF GatewayCleared, Journal, Targets, JournalPhases, Hash, Upstreams, NoUrl

\* Every phase of the traffic layer has a durable one.
LEMMA DurablePhaseType ==
    ASSUME NEW phase \in TrafficPhases PROVE DurablePhase(phase) \in JournalPhases
BY DEF DurablePhase, TrafficPhases, JournalPhases

\* The traffic layer's checkpoints leave the original upstream and the hashes
\* alone, and an integration it records as active has a target.
LEMMA TrafficCheckpointRecord ==
    ASSUME NEW j \in Journal, NEW phase \in TrafficPhases,
           NEW target \in Targets, NEW applied \in BOOLEAN
    PROVE  /\ TrafficCheckpoint(j, phase, target, applied) \in Journal
           /\ TrafficCheckpoint(j, phase, target, applied).exists
           /\ TrafficCheckpoint(j, phase, target, applied).orig = j.orig
           /\ TrafficCheckpoint(j, phase, target, applied).before = j.before
           /\ TrafficCheckpoint(j, phase, target, applied).active
                \/ TrafficCheckpoint(j, phase, target, applied).target = "original"
<1>1. DurablePhase(phase) \in JournalPhases
  BY DurablePhaseType
<1>. QED BY <1>1 DEF TrafficCheckpoint, Journal

\* Startup changes the phase, and ends an integration only for a configuration
\* that is what it was before.
LEMMA ReconciledRecord ==
    ASSUME NEW j \in Journal, NEW cfg \in Config
    PROVE  /\ Reconciled(j, cfg) \in Journal
           /\ Reconciled(j, cfg).exists = j.exists
           /\ Reconciled(j, cfg).orig = j.orig
           /\ Reconciled(j, cfg).before = j.before
           /\ Reconciled(j, cfg).target = j.target
           /\ Reconciled(j, cfg).active = j.active \/ j.before = cfg
<1>1. Classify(j, cfg) \in {"none", "integrated", "pending_restore", "already_restored",
                           "config_conflict", "inactive"}
      /\ (Classify(j, cfg) = "already_restored" => j.before = cfg)
  BY DEF Classify, Journal
<1>2. ReconciledPhase(Classify(j, cfg)) \in JournalPhases
  BY <1>1 DEF ReconciledPhase, JournalPhases
<1>. QED BY <1>1, <1>2 DEF Reconciled, Journal

\* Explicit recovery writes well-formed records.
LEMMA RecoveryRecord ==
    ASSUME NEW j \in Journal
    PROVE  /\ MarkRestored(j) \in Journal /\ MarkRestored(j).target = "original"
           /\ MarkRestored(j).before = j.before
           /\ MarkConflict(j) \in Journal /\ MarkConflict(j).exists = j.exists
           /\ MarkConflict(j).orig = j.orig /\ MarkConflict(j).before = j.before
           /\ MarkConflict(j).target = j.target /\ MarkConflict(j).active = j.active
BY DEF MarkRestored, MarkConflict, Journal, Targets, JournalPhases, Upstreams

LEMMA NoJournalRecord == NoJournal \in Journal
BY DEF NoJournal, Journal, Targets, JournalPhases, Hash, Upstreams

-----------------------------------------------------------------------------
(* The inductive invariant.                                                *)

\* A redirect that is being written is already on record, with the upstream the
\* file had when it was prepared.
RedirectOnRecord ==
    op.pc \in {"redirect_commit", "rollback", "rollback_mark"} =>
        /\ journal.exists /\ journal.orig = op.orig
        /\ journal.active \/ journal.target = "original"
        /\ op.before \in Config /\ op.before.url = op.orig

\* The record is only cleared after the file was put back.
ClearedAfterRestore ==
    op.pc \in {"reset_save", "rollback_save", "down_save"} => config.url # FrontDoor

\* What was recorded as the file before a redirect was not redirected.
BeforeIsNotRedirected == journal.before.url # FrontDoor

\* An integration that is recorded as inactive is not in place.
InactiveIsNotRedirected ==
    journal.exists /\ journal.target # "original" /\ ~journal.active
        => config.url # FrontDoor

\* No command runs in a process that is gone.
OffIsIdle == app = "off" => op.pc = "idle"

IInv ==
    /\ TypeOK
    /\ OffIsIdle
    /\ OriginalRecoverable
    /\ RedirectOnRecord
    /\ ClearedAfterRestore
    /\ BeforeIsNotRedirected
    /\ InactiveIsNotRedirected

-----------------------------------------------------------------------------
(* The shared operators of DesktopState.                                   *)

\* A fault stays inside the bound.
LEMMA FaultType == ASSUME TypeOK, Fault PROVE used' \in Budget
BY DEF TypeOK, SharedTypeOK, Fault, MoreTrouble, Budget, Config

\* A commit of a root URL, failing or not, leaves the file as it was or with
\* that URL, and remembers what the front door took the place of.
CommitEffect(url) ==
    \/ UNCHANGED <<config, replaced>>
    \/ config' = [config EXCEPT !.url = url]
       /\ replaced' = IF url = FrontDoor /\ config.url # FrontDoor THEN config.url ELSE replaced

LEMMA CommitType ==
    ASSUME TypeOK, NEW url \in Urls, CommitEffect(url)
    PROVE  config' \in Config /\ replaced' \in Upstreams \cup {Discarded}
BY DEF TypeOK, SharedTypeOK, CommitEffect, Config, Urls

LEMMA CommitOutcome ==
    ASSUME TypeOK, NEW url \in Urls, NEW hash,
           Commits(url, hash) \/ CommitFails(url, hash)
    PROVE  CommitEffect(url) /\ used' \in Budget
BY FaultType DEF Commits, CommitFails, Writes, CommitEffect, NoFault, TypeOK, SharedTypeOK

\* What the Service does to a capture is well formed.
LEMMA CaptureTypes ==
    ASSUME TypeOK
    PROVE  /\ \A run \in 0..MaxRuns : CanStart \/ cap.gen < MaxRelays => Started(run) \in Capture
           /\ ClosedCapture \in Capture /\ BadlyClosedCapture \in Capture
           /\ AfterStop(gw.run) \in Capture /\ AfterLoss(gw.run) \in Capture
           /\ Released \in Capture /\ Paused \in Capture /\ Freed \in Capture
           /\ \A run \in 0..MaxRuns : [cap EXCEPT !.run = run] \in Capture
                                   /\ [cap EXCEPT !.run = run, !.relay = "none"] \in Capture
           /\ \A id \in 0..MaxIds : [cap EXCEPT !.mode = "desktop", !.owner = id] \in Capture
           /\ \A r \in {"capturing", "passthrough", "stopped"} : [cap EXCEPT !.relay = r] \in Capture
<1>0. cap \in Capture /\ gw \in Gateway
  BY DEF TypeOK, SharedTypeOK
<1>1. \A run \in 0..MaxRuns : CanStart \/ cap.gen < MaxRelays => Started(run) \in Capture
  <2>1. ASSUME CanStart \/ cap.gen < MaxRelays PROVE cap.gen + 1 \in 0..MaxRelays
    BY <1>0, <2>1 DEF CanStart, Capture
  <2>. QED BY <1>0, <2>1 DEF Started, Capture
<1>2. ClosedCapture \in Capture /\ BadlyClosedCapture \in Capture
  BY <1>0, NoneInBounds DEF ClosedCapture, BadlyClosedCapture, Capture
<1>3. AfterStop(gw.run) \in Capture /\ AfterLoss(gw.run) \in Capture
  BY <1>0, NoneInBounds DEF AfterStop, AfterLoss, Capture
<1>4. Released \in Capture /\ Paused \in Capture
  BY <1>0, NoneInBounds DEF Released, Paused, Capture
<1>5. Freed \in Capture
  BY <1>0, <1>4, NoneInBounds DEF Freed, Capture
<1>6. \A run \in 0..MaxRuns : /\ [cap EXCEPT !.run = run] \in Capture
                             /\ [cap EXCEPT !.run = run, !.relay = "none"] \in Capture
  BY <1>0 DEF Capture
<1>7. \A id \in 0..MaxIds : [cap EXCEPT !.mode = "desktop", !.owner = id] \in Capture
  BY <1>0 DEF Capture
<1>8. \A r \in {"capturing", "passthrough", "stopped"} : [cap EXCEPT !.relay = r] \in Capture
  BY <1>0 DEF Capture
<1>. QED BY <1>1, <1>2, <1>3, <1>4, <1>5, <1>6, <1>7, <1>8

-----------------------------------------------------------------------------
(* The traffic transaction.                                                *)

\* What a step of a transaction does to the record and leaves alone.
TxFrame ==
    /\ UNCHANGED <<config, replaced, userUrl, gw>>
    /\ \/ UNCHANGED journal
       \/ \E phase \in TrafficPhases, target \in Targets, applied \in BOOLEAN :
            journal' = TrafficCheckpoint(journal, phase, target, applied)

TxTypes == used' \in Budget /\ door' \in Doors /\ cap' \in Capture /\ TrafficTypeOK'

LEMMA CheckpointFrame ==
    ASSUME TypeOK, NEW phase \in TrafficPhases,
           \/ SavesOrNot(EnableCheckpoint(journal, phase))
           \/ SavesOrNot(DisableCheckpoint(journal, phase, tx.source))
           \/ SavesOrNot(DemoteCheckpoint(journal))
           \/ SavesOrNot(TrafficCheckpoint(journal, "finish", tx.source.target, tx.source.applied))
           \/ NoFault /\ UNCHANGED journal
    PROVE  /\ used' \in Budget
           /\ \/ UNCHANGED journal
              \/ \E ph \in TrafficPhases, target \in Targets, applied \in BOOLEAN :
                   journal' = TrafficCheckpoint(journal, ph, target, applied)
<1>1. tx.source.target \in Targets /\ tx.source.applied \in BOOLEAN
  BY DEF TypeOK, TrafficTypeOK, Tx, Sources
<1>2. used' \in Budget
  BY FaultType DEF SavesOrNot, Saves, SaveFails, NoFault, TypeOK, SharedTypeOK
<1>3. {"finish", "disable_completed"} \subseteq TrafficPhases /\ {"analysis", "gateway"} \subseteq Targets
  BY DEF TrafficPhases, Targets
<1>. QED BY <1>1, <1>2, <1>3
       DEF SavesOrNot, Saves, SaveFails, EnableCheckpoint, DisableCheckpoint, DemoteCheckpoint

\* The control states of a transaction stay inside Tx.
LEMMA TxControl ==
    ASSUME TypeOK
    PROVE  /\ \A pc \in TxPcs : TxGoto(pc) => tx' \in Tx
           /\ \A t \in Tx, pc \in TxPcs : TxThenVerify(t, pc) => tx' \in Tx
           /\ \A t \in Tx : UndoNext(t) => tx' \in Tx
           /\ \A ok \in BOOLEAN : Return(ok) => tx' \in Tx
           /\ UndoFailed => tx' \in Tx
           /\ NoTx \in Tx
<1>0. tx \in Tx
  BY DEF TypeOK, TrafficTypeOK
<1>1. \A pc \in TxPcs : TxGoto(pc) => tx' \in Tx
  BY <1>0 DEF TxGoto, Tx
<1>2. \A t \in Tx, pc \in TxPcs : TxThenVerify(t, pc) => tx' \in Tx
  BY DEF TxThenVerify, Tx
<1>3. \A t \in Tx : FirstUndo(t) \in TxPcs
  BY DEF FirstUndo, UndoPcs, TxPcs
<1>4. \A t \in Tx : UndoNext(t) => tx' \in Tx
  BY <1>3 DEF UndoNext, Tx
<1>5. {"idle", "returned", "undo_failed"} \subseteq TxPcs /\ "none" \in TxKinds
      /\ "none" \in Callers /\ "original" \in Targets
  BY DEF TxPcs, UndoPcs, TxKinds, Callers, Targets
<1>6. NoTx \in Tx
  BY <1>5, NoneInBounds DEF NoTx, Tx, Sources
<1>7. \A ok \in BOOLEAN : Return(ok) => tx' \in Tx
  BY <1>0, <1>5, <1>6 DEF Return, Tx
<1>8. UndoFailed => tx' \in Tx
  BY <1>0, <1>5 DEF UndoFailed, Tx
<1>. QED BY <1>1, <1>2, <1>4, <1>6, <1>7, <1>8

\* The control states of each operation.
LEMMA TxPcTypes ==
    /\ EnablePcs \subseteq TxPcs /\ UndoPcs \subseteq TxPcs
    /\ DisablePcs \subseteq TxPcs /\ FinishPcs \subseteq TxPcs /\ {"idle", "begin"} \subseteq TxPcs
    /\ "ui" \in Callers /\ "app" \in Callers
    /\ {"enable", "disable", "finish"} \subseteq TxKinds
BY DEF TxPcs, Callers, TxKinds

\* Steps that only move the transaction.
LEMMA OnlyTxFrame ==
    ASSUME TypeOK, OnlyTx, tx' \in Tx PROVE TxFrame /\ TxTypes
BY DEF OnlyTx, shared, TxFrame, TxTypes, TypeOK, SharedTypeOK, TrafficTypeOK

\* Steps that write a checkpoint.
LEMMA OnlyJournalFrame ==
    ASSUME TypeOK, OnlyJournal, tx' \in Tx, NEW phase \in TrafficPhases,
           \/ SavesOrNot(EnableCheckpoint(journal, phase))
           \/ SavesOrNot(DisableCheckpoint(journal, phase, tx.source))
           \/ SavesOrNot(DemoteCheckpoint(journal))
           \/ SavesOrNot(TrafficCheckpoint(journal, "finish", tx.source.target, tx.source.applied))
           \/ NoFault /\ UNCHANGED journal
    PROVE  TxFrame /\ TxTypes
BY CheckpointFrame DEF OnlyJournal, TxFrame, TxTypes, TypeOK, SharedTypeOK, TrafficTypeOK

\* Steps that switch the front door.
LEMMA OnlyDoorFrame ==
    ASSUME TypeOK, OnlyDoor, tx' \in Tx, door' \in Doors PROVE TxFrame /\ TxTypes
BY DEF OnlyDoor, TxFrame, TxTypes, TypeOK, SharedTypeOK, TrafficTypeOK

\* Steps that change the capture.
LEMMA OnlyCapFrame ==
    ASSUME TypeOK, OnlyCap, tx' \in Tx, cap' \in Capture, NoFault \/ Fault
    PROVE  TxFrame /\ TxTypes
BY FaultType DEF OnlyCap, NoFault, TxFrame, TxTypes, TypeOK, SharedTypeOK, TrafficTypeOK

LEMMA DoorTargets == {GatewayBackend, CaptureRelay, Closed} \subseteq Doors
BY DEF Doors

\* Every step of Enable is of that kind.
LEMMA EnableFrame == ASSUME TypeOK, EnableStep PROVE TxFrame /\ TxTypes
<1>0. tx \in Tx /\ tx.gen \in 0..MaxRelays /\ tx.id \in 0..MaxIds /\ tx.run \in 0..MaxRuns
      /\ owner \in 0..MaxIds /\ last \in [run : 0..MaxRuns, gen : 0..MaxRelays]
      /\ cap \in Capture /\ gw.run \in 0..MaxRuns /\ cap.gen \in 0..MaxRelays
      /\ used \in Budget /\ used.ids \in 0..MaxIds /\ door \in Doors
  BY DEF TypeOK, SharedTypeOK, TrafficTypeOK, Tx, Capture, Gateway, Budget
<1>u. Backout => tx' \in Tx
  BY <1>0, TxControl DEF Backout
<1>1. CASE Refused("enable", CanEnable)
  BY <1>1, TxControl, OnlyTxFrame DEF Refused
<1>2. CASE EnableBegin
  <2>1. used.ids + 1 \in 0..MaxIds
    BY <1>0, <1>2, BoundsAssumption DEF EnableBegin
  <2>2. used' \in Budget
    BY <1>0, <1>2, <2>1 DEF EnableBegin, Budget
  <2>3. tx' \in Tx
    BY <1>0, <1>2, <2>1, TxPcTypes, NoneInBounds DEF EnableBegin, Tx, EnablePcs
  <2>. QED BY <1>2, <2>2, <2>3 DEF EnableBegin, TxFrame, TxTypes, TypeOK, SharedTypeOK, TrafficTypeOK
<1>3. CASE EnablePrepare
  <2>1. tx' \in Tx
    BY <1>0, <1>3, TxControl, TxPcTypes DEF EnablePrepare, EnablePcs
  <2>2. "prepared" \in TrafficPhases
    BY DEF TrafficPhases
  <2>. QED BY <1>3, <2>1, <2>2, OnlyJournalFrame DEF EnablePrepare, SavesOrNot
<1>4. CASE Verify
  BY <1>0, <1>4, <1>u, OnlyTxFrame DEF Verify, Tx
<1>5. CASE EnableStart
  <2>1. ASSUME cap.gen < MaxRelays
        PROVE  [tx EXCEPT !.started = TRUE, !.gen = cap.gen + 1] \in Tx
    <3>1. cap.gen + 1 \in 0..MaxRelays
      BY <1>0, <2>1, BoundsAssumption
    <3>. QED BY <1>0, <3>1 DEF Tx
  <2>2. tx' \in Tx
    BY <1>0, <1>5, <1>u, <2>1, TxControl, TxPcTypes DEF EnableStart, EnablePcs
  <2>3. cap' \in Capture
    BY <1>0, <1>5, CaptureTypes DEF EnableStart
  <2>. QED BY <1>5, <2>2, <2>3, OnlyCapFrame DEF EnableStart
<1>6. CASE EnableAdopt
  BY <1>0, <1>6, <1>u, TxControl, TxPcTypes, OnlyTxFrame DEF EnableAdopt, EnablePcs
<1>7. CASE EnableClaim
  <2>1. [tx EXCEPT !.claimed = TRUE] \in Tx
    BY <1>0 DEF Tx
  <2>2. tx' \in Tx
    BY <1>0, <1>7, <1>u, <2>1, TxControl, TxPcTypes DEF EnableClaim, EnablePcs
  <2>3. cap' \in Capture
    BY <1>0, <1>7, CaptureTypes DEF EnableClaim
  <2>. QED BY <1>7, <2>2, <2>3, OnlyCapFrame DEF EnableClaim
<1>8. CASE EnableRecord
  <2>1. tx' \in Tx
    BY <1>0, <1>8, <1>u, TxControl, TxPcTypes DEF EnableRecord, EnablePcs
  <2>2. "capture_started" \in TrafficPhases
    BY DEF TrafficPhases
  <2>. QED BY <1>8, <2>1, <2>2, OnlyJournalFrame DEF EnableRecord, SavesOrNot
<1>9. CASE EnableMap
  BY <1>0, <1>9, <1>u, TxControl, TxPcTypes, OnlyTxFrame DEF EnableMap, EnablePcs
<1>10. CASE EnableSwitch
  <2>1. [tx EXCEPT !.switched = TRUE] \in Tx
    BY <1>0 DEF Tx
  <2>2. tx' \in Tx
    BY <1>0, <1>10, <1>u, <2>1, TxControl, TxPcTypes DEF EnableSwitch, EnablePcs
  <2>3. door' \in Doors
    BY <1>0, <1>10, DoorTargets DEF EnableSwitch, Switch
  <2>. QED BY <1>10, <2>2, <2>3, OnlyDoorFrame DEF EnableSwitch
<1>11. CASE EnableCommit
  <2>1. tx' \in Tx
    BY <1>0, <1>11, <1>u, TxControl, TxPcTypes DEF EnableCommit, EnablePcs
  <2>2. "config_committed" \in TrafficPhases
    BY DEF TrafficPhases
  <2>. QED BY <1>11, <2>1, <2>2, OnlyJournalFrame DEF EnableCommit, SavesOrNot
<1>12. CASE EnableConfirm
  <2>1. tx' \in Tx
    BY <1>0, <1>12, <1>u, TxControl DEF EnableConfirm
  <2>2. owner' \in 0..MaxIds /\ last' \in [run : 0..MaxRuns, gen : 0..MaxRelays]
    <3>1. \/ owner' = tx.id /\ last' = [run |-> tx.run, gen |-> tx.gen]
          \/ owner' = owner /\ last' = last
      BY <1>12 DEF EnableConfirm
    <3>. QED BY <1>0, <3>1
  <2>. QED BY <1>12, <2>1, <2>2 DEF EnableConfirm, shared, TxFrame, TxTypes, TypeOK, SharedTypeOK, TrafficTypeOK
<1>. QED BY <1>1, <1>2, <1>3, <1>4, <1>5, <1>6, <1>7, <1>8, <1>9, <1>10, <1>11, <1>12
         DEF EnableStep

\* So is every step of backout.
LEMMA BackoutFrame == ASSUME TypeOK, BackoutStep PROVE TxFrame /\ TxTypes
<1>0. tx \in Tx /\ cap \in Capture /\ door \in Doors
  BY DEF TypeOK, SharedTypeOK, TrafficTypeOK
<1>t. /\ [tx EXCEPT !.switched = FALSE] \in Tx
      /\ [tx EXCEPT !.claimed = FALSE] \in Tx
      /\ [tx EXCEPT !.started = FALSE] \in Tx
  BY <1>0 DEF Tx
<1>p. "aborted" \in TrafficPhases /\ "recovery_required" \in TrafficPhases
  BY DEF TrafficPhases
<1>1. CASE UndoDoor
  <2>1. tx' \in Tx
    BY <1>1, <1>t, TxControl DEF UndoDoor
  <2>2. door' \in Doors
    BY <1>0, <1>1, DoorTargets DEF UndoDoor, Switch
  <2>. QED BY <1>1, <2>1, <2>2, OnlyDoorFrame DEF UndoDoor
<1>2. CASE UndoClaim
  <2>1. tx' \in Tx
    BY <1>2, <1>t, TxControl DEF UndoClaim
  <2>2. cap' \in Capture
    BY <1>0, <1>2, CaptureTypes DEF UndoClaim
  <2>. QED BY <1>2, <2>1, <2>2, OnlyCapFrame DEF UndoClaim
<1>3. CASE UndoCapture
  <2>1. tx' \in Tx
    BY <1>3, <1>t, TxControl DEF UndoCapture
  <2>2. cap' \in Capture
    BY <1>0, <1>3, CaptureTypes DEF UndoCapture
  <2>. QED BY <1>3, <2>1, <2>2, OnlyCapFrame DEF UndoCapture
<1>4. CASE UndoRecord
  <2>1. tx' \in Tx
    BY <1>4, TxControl DEF UndoRecord
  <2>. QED BY <1>4, <1>p, <2>1, OnlyJournalFrame DEF UndoRecord, SavesOrNot
<1>5. CASE UndoFails
  <2>1. tx' \in Tx
    BY <1>5, TxControl DEF UndoFails
  <2>. QED BY <1>5, <1>p, <2>1, OnlyJournalFrame DEF UndoFails
<1>. QED BY <1>1, <1>2, <1>3, <1>4, <1>5 DEF BackoutStep

\* ... of Disable
LEMMA DisableFrame == ASSUME TypeOK, DisableStep PROVE TxFrame /\ TxTypes
<1>0. tx \in Tx /\ cap \in Capture /\ door \in Doors /\ journal \in Journal
      /\ owner \in 0..MaxIds /\ used \in Budget
  BY DEF TypeOK, SharedTypeOK, TrafficTypeOK
<1>g. \A pc \in DisablePcs : TxGoto(pc) => tx' \in Tx
  BY TxControl, TxPcTypes
<1>p. {"disable_started", "config_restored", "recovery_required"} \subseteq TrafficPhases
  BY DEF TrafficPhases
<1>s. ASSUME NEW pc, NEW phase \in TrafficPhases, NEW next \in DisablePcs,
             DisableSaves(pc, phase, next)
      PROVE  TxFrame /\ TxTypes
  <2>1. tx' \in Tx
    BY <1>s, <1>g DEF DisableSaves, DisablePcs
  <2>. QED BY <1>s, <2>1, OnlyJournalFrame DEF DisableSaves, SavesOrNot
<1>1. CASE Refused("disable", CanDisable)
  BY <1>1, TxControl, OnlyTxFrame DEF Refused
<1>2. CASE DisableBegin
  <2>1. Source \in Sources
    BY <1>0 DEF Source, Sources, Journal
  <2>2. cap.run \in 0..MaxRuns /\ cap.gen \in 0..MaxRelays /\ "disable_record" \in TxPcs
    BY <1>0, TxPcTypes DEF Capture, DisablePcs
  <2>3. tx' \in Tx
    BY <1>0, <1>2, <2>1, <2>2 DEF DisableBegin, Tx
  <2>. QED BY <1>2, <2>3, OnlyTxFrame DEF DisableBegin
<1>3. CASE DisableRecord
  BY <1>3, <1>p, <1>s DEF DisableRecord, DisablePcs
<1>4. CASE DisableDoor
  <2>1. tx' \in Tx
    BY <1>4, <1>g DEF DisableDoor, DisablePcs
  <2>2. door' \in Doors
    BY <1>0, <1>4, DoorTargets DEF DisableDoor, Switch
  <2>. QED BY <1>4, <2>1, <2>2, OnlyDoorFrame DEF DisableDoor
<1>5. CASE DisablePause
  <2>1. tx' \in Tx
    BY <1>5, <1>g DEF DisablePause, DisablePcs
  <2>2. cap' \in Capture
    BY <1>0, <1>5, CaptureTypes DEF DisablePause
  <2>. QED BY <1>5, <2>1, <2>2, OnlyCapFrame DEF DisablePause
<1>6. CASE DisableRestored
  <2>1. CASE IsDesktop("passthrough", tx.gen, tx.run, tx.id)
    BY <1>6, <2>1, <1>p, <1>s DEF DisableRestored, DisablePcs
  <2>2. CASE ~IsDesktop("passthrough", tx.gen, tx.run, tx.id)
    BY <1>6, <2>2, <1>g, OnlyTxFrame DEF DisableRestored, DisablePcs
  <2>. QED BY <2>1, <2>2
<1>7. CASE DisableRelease
  <2>1. tx' \in Tx
    BY <1>7, <1>g DEF DisableRelease, DisablePcs
  <2>2. cap' \in Capture /\ owner' \in 0..MaxIds
    BY <1>0, <1>7, CaptureTypes, NoneInBounds DEF DisableRelease
  <2>. QED BY <1>7, <2>1, <2>2 DEF DisableRelease, TxFrame, TxTypes, TypeOK, SharedTypeOK, TrafficTypeOK
<1>8. CASE DisableDemote
  <2>1. tx' \in Tx
    BY <1>8, <1>g DEF DisableDemote, DisablePcs
  <2>2. SavesOrNot(DemoteCheckpoint(journal)) \/ (NoFault /\ UNCHANGED journal)
    BY <1>8 DEF DisableDemote, SavesOrNot, NoFault
  <2>. QED BY <1>8, <1>p, <2>1, <2>2, OnlyJournalFrame DEF DisableDemote
<1>9. CASE DisableConfirm
  BY <1>9, <1>g, TxControl, OnlyTxFrame DEF DisableConfirm, DisablePcs
<1>10. CASE DisableFails
  <2>1. tx' \in Tx
    BY <1>10, TxControl DEF DisableFails
  <2>. QED BY <1>10, <1>p, <2>1, OnlyJournalFrame DEF DisableFails
<1>. QED BY <1>1, <1>2, <1>3, <1>4, <1>5, <1>6, <1>7, <1>8, <1>9, <1>10 DEF DisableStep

\* ... and of Finish.
LEMMA FinishFrame == ASSUME TypeOK, FinishStep PROVE TxFrame /\ TxTypes
<1>0. tx \in Tx /\ cap \in Capture /\ journal \in Journal
      /\ last \in [run : 0..MaxRuns, gen : 0..MaxRelays]
  BY DEF TypeOK, SharedTypeOK, TrafficTypeOK
<1>g. \A pc \in FinishPcs : TxGoto(pc) => tx' \in Tx
  BY TxControl, TxPcTypes
<1>p. {"finish", "recovery_required"} \subseteq TrafficPhases
  BY DEF TrafficPhases
<1>s. ASSUME NEW pc, NEW next \in FinishPcs, FinishSaves(pc, next)
      PROVE  TxFrame /\ TxTypes
  <2>1. tx' \in Tx
    BY <1>s, <1>g DEF FinishSaves, FinishPcs
  <2>. QED BY <1>s, <1>p, <2>1, OnlyJournalFrame DEF FinishSaves, SavesOrNot
<1>1. CASE Refused("finish", CanFinish)
  BY <1>1, TxControl, OnlyTxFrame DEF Refused
<1>2. CASE FinishBegin
  <2>1. Source \in Sources
    BY <1>0 DEF Source, Sources, Journal
  <2>2. cap.run \in 0..MaxRuns /\ cap.gen \in 0..MaxRelays /\ "finish_record" \in TxPcs
    BY <1>0, TxPcTypes DEF Capture, FinishPcs
  <2>3. tx' \in Tx
    BY <1>0, <1>2, <2>1, <2>2 DEF FinishBegin, Tx
  <2>. QED BY <1>2, <2>3, OnlyTxFrame DEF FinishBegin
<1>3. CASE FinishRecord
  BY <1>3, <1>s DEF FinishRecord, FinishPcs
<1>4. CASE FinishClose
  <2>1. tx' \in Tx
    BY <1>4, <1>g DEF FinishClose, FinishPcs
  <2>2. cap' \in Capture
    BY <1>0, <1>4, CaptureTypes DEF FinishClose
  <2>. QED BY <1>4, <2>1, <2>2, OnlyCapFrame DEF FinishClose
<1>5. CASE FinishFinal
  <2>1. CASE IsIdle
    BY <1>5, <2>1, <1>s DEF FinishFinal, FinishPcs
  <2>2. CASE ~IsIdle
    BY <1>5, <2>2, <1>g, OnlyTxFrame DEF FinishFinal, FinishPcs
  <2>. QED BY <2>1, <2>2
<1>6. CASE FinishConfirm
  <2>1. tx' \in Tx
    BY <1>6, <1>g, TxControl DEF FinishConfirm, FinishPcs
  <2>2. last' \in [run : 0..MaxRuns, gen : 0..MaxRelays]
    <3>1. last' = NoLast \/ last' = last
      BY <1>6 DEF FinishConfirm
    <3>. QED BY <1>0, <3>1, NoneInBounds DEF NoLast
  <2>. QED BY <1>6, <2>1, <2>2 DEF FinishConfirm, shared, TxFrame, TxTypes, TypeOK, SharedTypeOK, TrafficTypeOK
<1>7. CASE FinishFails
  <2>1. tx' \in Tx
    BY <1>7, TxControl DEF FinishFails
  <2>. QED BY <1>7, <1>p, <2>1, OnlyJournalFrame DEF FinishFails
<1>. QED BY <1>1, <1>2, <1>3, <1>4, <1>5, <1>6, <1>7 DEF FinishStep

-----------------------------------------------------------------------------
(* The commands of the app.                                                *)

\* Where the inductive invariant asks something of the command.
WritingPcs == {"redirect_commit", "rollback", "rollback_mark",
               "reset_save", "rollback_save", "down_save"}

\* A command that goes on elsewhere.
OpMovesOn ==
    /\ op' \in Op
    /\ op' = op \/ op'.pc \notin WritingPcs
    /\ app' = "off" => op'.pc = "idle"

\* The record is as it was, or a checkpoint of the traffic layer.
RecordKept ==
    \/ UNCHANGED journal
    \/ \E phase \in TrafficPhases, target \in Targets, applied \in BOOLEAN :
         journal' = TrafficCheckpoint(journal, phase, target, applied)

LEMMA RecordKeptFacts ==
    ASSUME TypeOK, RecordKept
    PROVE  /\ journal' \in Journal
           /\ journal'.orig = journal.orig /\ journal'.before = journal.before
           /\ UNCHANGED journal
              \/ (journal'.exists /\ (journal'.active \/ journal'.target = "original"))
<1>1. journal \in Journal
  BY DEF TypeOK, SharedTypeOK
<1>. QED BY <1>1, TrafficCheckpointRecord DEF RecordKept

\* Steps that change neither the file nor what the record says of it.
LEMMA KeepsIInv ==
    ASSUME IInv, OpMovesOn, RecordKept, UNCHANGED <<config, replaced, userUrl>>,
           used' \in Budget, door' \in Doors, gw' \in Gateway, cap' \in Capture,
           TrafficTypeOK', app' \in {"off", "up", "closing"}, txReady' \in BOOLEAN
    PROVE  IInv'
<1>r. /\ journal' \in Journal
      /\ journal'.orig = journal.orig /\ journal'.before = journal.before
      /\ UNCHANGED journal
         \/ (journal'.exists /\ (journal'.active \/ journal'.target = "original"))
  BY RecordKeptFacts DEF IInv
<1>1. TypeOK'
  BY <1>r DEF IInv, TypeOK, SharedTypeOK, OpMovesOn
<1>2. OriginalRecoverable'
  BY <1>r DEF IInv, OriginalRecoverable
<1>3. RedirectOnRecord'
  BY <1>r DEF IInv, RedirectOnRecord, OpMovesOn, WritingPcs
<1>4. ClearedAfterRestore'
  BY DEF IInv, ClearedAfterRestore, OpMovesOn, WritingPcs
<1>5. BeforeIsNotRedirected' /\ InactiveIsNotRedirected'
  BY <1>r DEF IInv, BeforeIsNotRedirected, InactiveIsNotRedirected
<1>. QED BY <1>1, <1>2, <1>3, <1>4, <1>5 DEF IInv, OffIsIdle, OpMovesOn

\* What the variables are, for the steps below.
LEMMA Types ==
    ASSUME TypeOK
    PROVE  /\ config \in Config /\ journal \in Journal /\ door \in Doors
           /\ gw \in Gateway /\ cap \in Capture /\ used \in Budget
           /\ tx \in Tx /\ TrafficTypeOK
           /\ app \in {"off", "up", "closing"} /\ op \in Op /\ txReady \in BOOLEAN
           /\ gw.run \in 0..MaxRuns /\ journal.orig \in Upstreams /\ config.url \in Urls
BY DEF TypeOK, SharedTypeOK, TrafficTypeOK, Gateway, Journal, Config

\* The control states of a command.
LEMMA OpControl ==
    ASSUME TypeOK
    PROVE  /\ \A pc \in OpPcs : OpGoto(pc) => op' \in Op /\ op'.pc = pc
           /\ OpEnds => op' \in Op /\ op'.pc = "idle"
           /\ NoOp \in Op
<1>1. op \in Op
  BY DEF TypeOK
<1>2. NoOp \in Op /\ NoOp.pc = "idle"
  BY DEF NoOp, Op, OpPcs, OpKinds, Hash, Upstreams
<1>3. \A pc \in OpPcs : OpGoto(pc) => op' \in Op /\ op'.pc = pc
  BY <1>1 DEF OpGoto, Op
<1>. QED BY <1>2, <1>3 DEF OpEnds

\* The operations of a transaction, whoever asked for them.
LEMMA TxStepInv == ASSUME IInv, TxSteps PROVE IInv'
<1>1. TypeOK
  BY DEF IInv
<1>2. TxFrame /\ TxTypes
  BY <1>1, EnableFrame, BackoutFrame, DisableFrame, FinishFrame DEF TxSteps, TxStep
<1>3. OpMovesOn /\ app' \in {"off", "up", "closing"} /\ txReady' \in BOOLEAN /\ gw' \in Gateway
  BY <1>1, <1>2, Types DEF TxSteps, OpMovesOn, IInv, OffIsIdle, TxFrame
<1>. QED BY <1>2, <1>3, KeepsIInv DEF TxFrame, TxTypes, RecordKept

LEMMA CommandInv == ASSUME IInv, Commands PROVE IInv'
<1>1. TypeOK
  BY DEF IInv
<1>2. PICK kind \in {"enable", "disable", "finish"} : TrafficCommand(kind)
  BY DEF Commands
<1>3. tx' \in Tx
  BY <1>1, <1>2, TxControl, TxPcTypes DEF TrafficCommand, Reserve, Tx
<1>4. OpMovesOn
  BY <1>1, <1>2, Types DEF TrafficCommand, OpMovesOn, IInv, OffIsIdle
<1>. QED BY <1>1, <1>2, <1>3, <1>4, Types, KeepsIInv
         DEF TrafficCommand, Reserve, OnlyTx, shared, RecordKept, TrafficTypeOK

\* The parts of a start that write neither the file nor the record.
LEMMA StartInv ==
    ASSUME IInv, StartGateway \/ StartService \/ StartDoor \/ StartIntegrated
                 \/ StartToGateway \/ StartFails
    PROVE  IInv'
<1>0. TypeOK /\ (op.pc # "idle" => app # "off")
  BY DEF IInv, OffIsIdle
<1>p. {"start", "door", "integrated", "to_gateway", "reset", "redirect", "start_failed"}
        \subseteq OpPcs \ (WritingPcs \cup {"idle"})
  BY DEF OpPcs, WritingPcs
<1>. USE DEF OpMovesOn, RecordKept
<1>1. CASE StartGateway
  <2>1. op' \in Op /\ op'.pc = "start"
    BY <1>0, <1>1, <1>p, OpControl DEF StartGateway, Op, OpKinds
  <2>2. op'.pc \notin WritingPcs
    BY <2>1, <1>p
  <2>. QED BY <1>0, <1>1, <2>1, <2>2, Types, KeepsIInv
           DEF StartGateway, OnlyOp, shared, trafficVars, TrafficTypeOK
<1>2. CASE StartService
  <2>1. gw' \in Gateway /\ cap' \in Capture
    <3>1. CASE CanBind /\ gw.run < MaxRuns
      <4>1. gw.run + 1 \in 0..MaxRuns
        BY <1>0, <3>1, Types, BoundsAssumption
      <4>2. cap' = [cap EXCEPT !.run = gw.run + 1]
            /\ gw' = [run |-> gw.run + 1, up |-> TRUE, session |-> FALSE]
        BY <1>2, <3>1 DEF StartService
      <4>3. cap' \in Capture
        BY <1>0, <4>1, <4>2, CaptureTypes
      <4>. QED BY <4>1, <4>2, <4>3 DEF Gateway
    <3>2. CASE ~(CanBind /\ gw.run < MaxRuns)
      BY <1>0, <1>2, <3>2, Types DEF StartService
    <3>. QED BY <3>1, <3>2
  <2>2. op' \in Op /\ op'.pc \notin WritingPcs
    BY <1>0, <1>2, <1>p, OpControl DEF StartService, WritingPcs
  <2>3. app # "off"
    BY <1>0, <1>2 DEF StartService, OpAt
  <2>. QED BY <1>0, <1>2, <2>1, <2>2, <2>3, Types, KeepsIInv
           DEF StartService, Op2Gateway, trafficVars, TrafficTypeOK
<1>3. CASE StartDoor
  <2>1. door' \in Doors /\ used' \in Budget
    BY <1>0, <1>3, Types, FaultType DEF StartDoor, OriginalUpstream, Doors, NoFault
  <2>2. op' \in Op /\ op'.pc \notin WritingPcs
    BY <1>0, <1>3, <1>p, OpControl DEF StartDoor
  <2>3. app # "off"
    BY <1>0, <1>3 DEF StartDoor, OpAt
  <2>. QED BY <1>0, <1>3, <2>1, <2>2, <2>3, Types, KeepsIInv
           DEF StartDoor, trafficVars, TrafficTypeOK
<1>4. CASE StartIntegrated
  <2>1. op' \in Op /\ op'.pc \notin WritingPcs
    BY <1>0, <1>4, <1>p, OpControl DEF StartIntegrated
  <2>2. app # "off"
    BY <1>0, <1>4 DEF StartIntegrated, OpAt
  <2>. QED BY <1>0, <1>4, <2>1, <2>2, Types, KeepsIInv
           DEF StartIntegrated, OnlyOp, shared, trafficVars, TrafficTypeOK
<1>5. CASE StartToGateway
  <2>1. door' \in Doors /\ gw' \in Gateway
    BY <1>0, <1>5, Types, DoorTargets DEF StartToGateway, Switch, Gateway
  <2>2. op' \in Op /\ op'.pc \notin WritingPcs
    BY <1>0, <1>5, <1>p, OpControl DEF StartToGateway, WritingPcs
  <2>3. app # "off"
    BY <1>0, <1>5 DEF StartToGateway, OpAt
  <2>. QED BY <1>0, <1>5, <2>1, <2>2, <2>3, Types, KeepsIInv
           DEF StartToGateway, trafficVars, TrafficTypeOK
<1>6. CASE StartFails
  <2>1. gw' \in Gateway /\ cap' \in Capture
    BY <1>0, <1>6, Types, CaptureTypes DEF StartFails, GatewayStops, Gateway
  <2>2. op' \in Op /\ op'.pc \notin WritingPcs
    BY <1>0, <1>6, OpControl DEF StartFails, WritingPcs
  <2>3. app # "off"
    BY <1>0, <1>6 DEF StartFails, OpAt
  <2>. QED BY <1>0, <1>6, <2>1, <2>2, <2>3, Types, KeepsIInv
           DEF StartFails, Op2Gateway, trafficVars, TrafficTypeOK
<1>. QED BY <1>1, <1>2, <1>3, <1>4, <1>5, <1>6

\* Stopping the gateway and leaving the app.
LEMMA TeardownInv ==
    ASSUME IInv, NEW pc \in OpPcs \ {"idle"}, NEW next \in OpPcs \ WritingPcs,
           \/ TrafficTeardown(pc, next)
           \/ TrafficDown(pc, next, OpEnds) \/ TrafficDown(pc, next, OpGoto(next))
    PROVE  IInv'
<1>0. TypeOK /\ app # "off"
  BY DEF IInv, OffIsIdle, TrafficTeardown, TrafficDown, OpAt
<1>1. op' \in Op /\ (op' = op \/ op'.pc \notin WritingPcs)
  BY <1>0, OpControl, Types DEF TrafficTeardown, TrafficDown, WritingPcs
<1>2. tx' \in Tx
  BY <1>0, TxControl, TxPcTypes, Types DEF TrafficTeardown, TrafficDown, Reserve, Tx, trafficVars
<1>. QED BY <1>0, <1>1, <1>2, Types, KeepsIInv
         DEF TrafficTeardown, TrafficDown, Reserve, OnlyTx, shared, trafficVars, OpMovesOn,
             RecordKept, TrafficTypeOK

LEMMA StopInv == ASSUME IInv, StopSteps \/ Quit \/ Shutdown \/ DownTraffic \/ DownDoor PROVE IInv'
<1>0. TypeOK /\ (op.pc # "idle" => app # "off")
  BY DEF IInv, OffIsIdle
<1>p. {"start", "stop_traffic", "stop_door", "stop_service", "down_traffic", "down_door",
       "down_config", "down_service"} \subseteq OpPcs \ (WritingPcs \cup {"idle"})
  BY DEF OpPcs, WritingPcs
<1>d. (door' = door \/ Switch(OriginalUpstream(journal))) => door' \in Doors
  BY <1>0, Types DEF Switch, OriginalUpstream, Doors
<1>. USE DEF OpMovesOn, RecordKept
<1>1. CASE StopGateway
  <2>1. op' \in Op /\ op'.pc \in {"stop_traffic", "stop_door"}
    BY <1>0, <1>1, <1>p, OpControl DEF StopGateway, Op, OpKinds
  <2>2. op'.pc \notin WritingPcs
    BY <2>1, <1>p
  <2>. QED BY <1>0, <1>1, <2>1, <2>2, Types, KeepsIInv
           DEF StopGateway, OnlyOp, shared, trafficVars, TrafficTypeOK
<1>2. CASE StopTraffic
  BY <1>2, <1>p, TeardownInv DEF StopTraffic
<1>3. CASE StopDoor
  <2>1. op' \in Op /\ op'.pc \notin WritingPcs
    BY <1>0, <1>3, <1>p, OpControl DEF StopDoor
  <2>2. app # "off" /\ door' \in Doors
    BY <1>0, <1>3, <1>d DEF StopDoor, OpAt
  <2>. QED BY <1>0, <1>3, <2>1, <2>2, Types, KeepsIInv
           DEF StopDoor, Op2Door, trafficVars, TrafficTypeOK
<1>4. CASE StopService
  <2>1. gw' \in Gateway /\ cap' \in Capture
    BY <1>0, <1>4, Types, CaptureTypes DEF StopService, GatewayStops, Gateway
  <2>2. op' \in Op /\ op'.pc \notin WritingPcs
    BY <1>0, <1>4, <1>p, OpControl DEF StopService, WritingPcs
  <2>3. app # "off"
    BY <1>0, <1>4 DEF StopService, OpAt
  <2>. QED BY <1>0, <1>4, <2>1, <2>2, <2>3, Types, KeepsIInv
           DEF StopService, Op2Gateway, trafficVars, TrafficTypeOK
<1>5. CASE Quit
  <2>1. used.exits + 1 \in 0..MaxTrouble
    BY <1>0, <1>5, Types, BoundsAssumption DEF Quit, MoreTrouble, Budget, Config
  <2>2. used' \in Budget
    BY <1>0, <1>5, <2>1, Types DEF Quit, Budget
  <2>. QED BY <1>0, <1>5, <2>2, Types, KeepsIInv DEF Quit, trafficVars, TrafficTypeOK
<1>6. CASE Shutdown
  <2>1. op' \in Op /\ op'.pc \in {"down_traffic", "down_door"}
    BY <1>0, <1>6, <1>p, OpControl DEF Shutdown, Op, OpKinds
  <2>2. op'.pc \notin WritingPcs
    BY <2>1, <1>p
  <2>. QED BY <1>0, <1>6, <2>1, <2>2, Types, KeepsIInv
           DEF Shutdown, OnlyOp, shared, trafficVars, TrafficTypeOK
<1>7. CASE DownTraffic
  BY <1>7, <1>p, TeardownInv DEF DownTraffic
<1>8. CASE DownDoor
  <2>1. op' \in Op /\ op'.pc \notin WritingPcs
    BY <1>0, <1>8, <1>p, OpControl DEF DownDoor
  <2>2. app # "off" /\ door' \in Doors
    BY <1>0, <1>8, <1>d DEF DownDoor, OpAt
  <2>. QED BY <1>0, <1>8, <2>1, <2>2, Types, KeepsIInv
           DEF DownDoor, Op2Door, trafficVars, TrafficTypeOK
<1>. QED BY <1>1, <1>2, <1>3, <1>4, <1>5, <1>6, <1>7, <1>8 DEF StopSteps

\* The file is put back before the record is cleared.
LEMMA RestoresInv ==
    ASSUME IInv, op.pc # "idle",
           NEW next \in {"reset_save", "down_save"},
           NEW nothing \in OpPcs \ WritingPcs, NEW failed \in OpPcs \ WritingPcs,
           Restores(next, nothing, failed)
    PROVE  IInv'
<1>0. TypeOK /\ app # "off" /\ next \in OpPcs /\ config \in Config
  BY Types DEF IInv, OffIsIdle, OpPcs
<1>1. journal.orig \in Urls /\ journal.orig # FrontDoor
  BY <1>0, Types, OriginalsAssumption DEF Urls
<1>2. \/ UNCHANGED <<config, replaced>> /\ NoFault /\ (OpGoto(nothing) \/ OpGoto(failed))
      \/ Commits(journal.orig, config) /\ OpGoto(next)
      \/ CommitFails(journal.orig, config) /\ OpGoto(failed)
  BY DEF Restores
<1>3. CommitEffect(journal.orig) /\ used' \in Budget
  BY <1>0, <1>1, <1>2, CommitOutcome, Types DEF CommitEffect, NoFault
<1>4. Commits(journal.orig, config) => config'.url # FrontDoor
  BY <1>0, <1>1 DEF Commits, Writes, Config
<1>5. UNCHANGED <<config, replaced>> \/ (config'.url # FrontDoor /\ replaced' = replaced)
  BY <1>0, <1>1, <1>3 DEF CommitEffect, Config
<1>6. op' \in Op /\ (op'.pc \notin WritingPcs \/ (op'.pc = next /\ config'.url # FrontDoor))
  BY <1>0, <1>2, <1>4, OpControl
<1>7. TypeOK'
  BY <1>0, <1>1, <1>3, <1>6, CommitType DEF TypeOK, SharedTypeOK, TrafficTypeOK, Restores, Op2Config, trafficVars
<1>8. OriginalRecoverable' /\ InactiveIsNotRedirected'
  BY <1>5 DEF IInv, OriginalRecoverable, InactiveIsNotRedirected, Restores, Op2Config
<1>9. RedirectOnRecord' /\ ClearedAfterRestore'
  BY <1>6 DEF RedirectOnRecord, ClearedAfterRestore, WritingPcs
<1>. QED BY <1>0, <1>7, <1>8, <1>9 DEF IInv, BeforeIsNotRedirected, OffIsIdle, Restores, Op2Config

\* The record is cleared.
LEMMA RestoreSavesInv ==
    ASSUME IInv, op.pc \in {"reset_save", "rollback_save", "down_save"},
           NEW next \in OpPcs \ WritingPcs, NEW failed \in OpPcs \ WritingPcs,
           RestoreSaves(next, failed)
    PROVE  IInv'
<1>0. TypeOK /\ app # "off" /\ config.url # FrontDoor
  BY DEF IInv, OffIsIdle, ClearedAfterRestore
<1>1. journal' \in Journal /\ journal'.before.url # FrontDoor
  <2>1. NoHash.url # FrontDoor
    BY DEF NoHash, FrontDoor
  <2>. QED BY <1>0, <2>1, Types, GatewayClearedRecord
           DEF RestoreSaves, Saves, SaveFails, IInv, BeforeIsNotRedirected
<1>2. op' \in Op /\ op'.pc \notin WritingPcs
  BY <1>0, OpControl DEF RestoreSaves
<1>3. used' \in Budget
  BY <1>0, FaultType, Types DEF RestoreSaves, Saves, SaveFails, NoFault
<1>4. TypeOK'
  BY <1>0, <1>1, <1>2, <1>3 DEF TypeOK, SharedTypeOK, TrafficTypeOK, RestoreSaves, Op2Journal, trafficVars
<1>5. OriginalRecoverable' /\ InactiveIsNotRedirected'
  BY <1>0 DEF OriginalRecoverable, InactiveIsNotRedirected, RestoreSaves, Op2Journal
<1>6. RedirectOnRecord' /\ ClearedAfterRestore'
  BY <1>2 DEF RedirectOnRecord, ClearedAfterRestore, WritingPcs
<1>. QED BY <1>0, <1>1, <1>4, <1>5, <1>6
         DEF IInv, BeforeIsNotRedirected, OffIsIdle, RestoreSaves, Op2Journal

LEMMA PuttingBackInv ==
    ASSUME IInv, StartReset \/ StartResetSave \/ StartRollbackSave \/ DownConfig \/ DownSave
    PROVE  IInv'
<1>p. {"redirect", "start_failed", "down_service"} \subseteq OpPcs \ WritingPcs
  BY DEF OpPcs, WritingPcs
<1>. QED BY <1>p, RestoresInv, RestoreSavesInv
         DEF StartReset, StartResetSave, StartRollbackSave, DownConfig, DownSave, OpAt

\* The record is written first, with the upstream the file has.
LEMMA RedirectInv == ASSUME IInv, StartRedirect PROVE IInv'
<1>0. TypeOK /\ app # "off" /\ config \in Config /\ journal \in Journal
  BY Types DEF IInv, OffIsIdle, StartRedirect, OpAt
<1>p. "start_failed" \in OpPcs \ WritingPcs /\ "redirect_commit" \in OpPcs
  BY DEF OpPcs, WritingPcs
<1>1. CASE config.url = FrontDoor /\ OpEnds /\ NoFault /\ UNCHANGED journal
  BY <1>0, <1>1, OpControl, Types, KeepsIInv
     DEF StartRedirect, Op2Journal, OpMovesOn, RecordKept, NoFault, trafficVars, TrafficTypeOK, WritingPcs
<1>2. CASE config.url # FrontDoor /\ SaveFails /\ OpGoto("start_failed")
  <2>1. used' \in Budget
    BY <1>0, <1>2, FaultType DEF SaveFails
  <2>. QED BY <1>0, <1>2, <1>p, <2>1, OpControl, Types, KeepsIInv
           DEF StartRedirect, Op2Journal, OpMovesOn, RecordKept, SaveFails, trafficVars, TrafficTypeOK
<1>3. CASE /\ config.url # FrontDoor
           /\ Saves(GatewayApplied(journal, config.url, config, [config EXCEPT !.url = FrontDoor]))
           /\ op' = [op EXCEPT !.pc = "redirect_commit", !.orig = config.url, !.before = config]
  <2>1. config.url \in Upstreams /\ config \in Hash /\ [config EXCEPT !.url = FrontDoor] \in Hash
    BY <1>0, <1>3 DEF Config, Urls, Hash
  <2>2. /\ journal' \in Journal /\ journal'.exists /\ journal'.active
        /\ journal'.orig = config.url /\ journal'.before = config /\ used' = used
    BY <1>0, <1>3, <2>1, GatewayAppliedRecord DEF Saves, NoFault
  <2>3. op \in Op /\ op' \in Op /\ op'.pc = "redirect_commit" /\ op'.orig = config.url /\ op'.before = config
    <3>1. op \in Op
      BY <1>0, Types
    <3>. QED BY <1>3, <1>p, <2>1, <3>1 DEF Op
  <2>4. TypeOK'
    BY <1>0, <2>2, <2>3 DEF TypeOK, SharedTypeOK, TrafficTypeOK, StartRedirect, Op2Journal, trafficVars
  <2>5. OriginalRecoverable' /\ RedirectOnRecord' /\ ClearedAfterRestore'
        /\ BeforeIsNotRedirected' /\ InactiveIsNotRedirected'
    BY <1>0, <1>3, <2>2, <2>3
       DEF OriginalRecoverable, RedirectOnRecord, ClearedAfterRestore, BeforeIsNotRedirected,
           InactiveIsNotRedirected, StartRedirect, Op2Journal
  <2>. QED BY <1>0, <2>4, <2>5 DEF IInv, OffIsIdle, StartRedirect, Op2Journal
<1>. QED BY <1>1, <1>2, <1>3 DEF StartRedirect

\* The redirect and its rollback.
LEMMA RedirectCommitInv == ASSUME IInv, StartRedirectCommit PROVE IInv'
<1>0. TypeOK /\ app # "off" /\ config \in Config /\ journal \in Journal /\ FrontDoor \in Urls
  BY Types DEF IInv, OffIsIdle, StartRedirectCommit, OpAt, Urls
<1>1. /\ journal.exists /\ journal.orig = op.orig /\ (journal.active \/ journal.target = "original")
      /\ op.before \in Config /\ op.before.url = op.orig /\ op.orig \in Upstreams /\ op.orig # FrontDoor
  BY <1>0, OriginalsAssumption, Types DEF IInv, RedirectOnRecord, StartRedirectCommit, OpAt, Op
<1>2. CommitEffect(FrontDoor) /\ used' \in Budget
  BY <1>0, CommitOutcome DEF StartRedirectCommit
<1>3. UNCHANGED <<config, replaced>> \/ (config'.url = FrontDoor /\ replaced' = journal.orig)
  BY <1>0, <1>1 DEF StartRedirectCommit, Commits, CommitFails, Writes, Config
<1>4. op' \in Op /\ op'.orig = op.orig /\ op'.before = op.before /\ op'.pc \in {"to_gateway", "rollback"}
  BY <1>0, Types DEF StartRedirectCommit, OpGoto, Op, OpPcs
<1>5. TypeOK'
  BY <1>0, <1>2, <1>4, CommitType
     DEF TypeOK, SharedTypeOK, TrafficTypeOK, StartRedirectCommit, Op2Config, trafficVars
<1>6. OriginalRecoverable' /\ InactiveIsNotRedirected' /\ BeforeIsNotRedirected'
  BY <1>1, <1>3 DEF IInv, OriginalRecoverable, InactiveIsNotRedirected, BeforeIsNotRedirected,
                    StartRedirectCommit, Op2Config
<1>7. RedirectOnRecord' /\ ClearedAfterRestore'
  BY <1>1, <1>4 DEF RedirectOnRecord, ClearedAfterRestore, StartRedirectCommit, Op2Config
<1>. QED BY <1>0, <1>5, <1>6, <1>7 DEF IInv, OffIsIdle, StartRedirectCommit, Op2Config

LEMMA RollbackInv == ASSUME IInv, StartRollback PROVE IInv'
<1>0. TypeOK /\ app # "off" /\ config \in Config /\ journal \in Journal
  BY Types DEF IInv, OffIsIdle, StartRollback, OpAt
<1>1. /\ journal.exists /\ journal.orig = op.orig /\ (journal.active \/ journal.target = "original")
      /\ op.before \in Config /\ op.before.url = op.orig /\ op.orig \in Upstreams
      /\ op.orig # FrontDoor /\ op.orig \in Urls
  BY <1>0, OriginalsAssumption, Types DEF IInv, RedirectOnRecord, StartRollback, OpAt, Op, Urls
<1>2. CommitEffect(op.orig) /\ used' \in Budget
  BY <1>0, <1>1, CommitOutcome DEF StartRollback
<1>3. UNCHANGED <<config, replaced>> \/ (config'.url # FrontDoor /\ replaced' = replaced)
  BY <1>0, <1>1, <1>2 DEF CommitEffect, Config
<1>4. /\ op' \in Op /\ op'.orig = op.orig /\ op'.before = op.before
      /\ op'.pc = "rollback_mark" \/ (op'.pc = "rollback_save" /\ config'.url # FrontDoor)
  <2>1. Commits(op.orig, config) => config'.url # FrontDoor
    BY <1>0, <1>1 DEF Commits, Writes, Config
  <2>. QED BY <1>0, <2>1, Types DEF StartRollback, OpGoto, Op, OpPcs
<1>5. TypeOK'
  BY <1>0, <1>1, <1>2, <1>4, CommitType
     DEF TypeOK, SharedTypeOK, TrafficTypeOK, StartRollback, Op2Config, trafficVars
<1>6. OriginalRecoverable' /\ InactiveIsNotRedirected' /\ BeforeIsNotRedirected'
  BY <1>3 DEF IInv, OriginalRecoverable, InactiveIsNotRedirected, BeforeIsNotRedirected,
              StartRollback, Op2Config
<1>7. RedirectOnRecord' /\ ClearedAfterRestore'
  BY <1>1, <1>4 DEF RedirectOnRecord, ClearedAfterRestore, StartRollback, Op2Config
<1>. QED BY <1>0, <1>5, <1>6, <1>7 DEF IInv, OffIsIdle, StartRollback, Op2Config

LEMMA RollbackMarkInv == ASSUME IInv, StartRollbackMark PROVE IInv'
<1>0. TypeOK /\ app # "off" /\ config \in Config /\ journal \in Journal
  BY Types DEF IInv, OffIsIdle, StartRollbackMark, OpAt
<1>1. /\ journal.exists /\ journal.orig = op.orig /\ (journal.active \/ journal.target = "original")
      /\ op.before \in Config /\ op.before.url = op.orig /\ op.orig \in Upstreams /\ op.orig # FrontDoor
  BY <1>0, OriginalsAssumption, Types DEF IInv, RedirectOnRecord, StartRollbackMark, OpAt, Op
<1>2. /\ journal' \in Journal /\ journal'.exists /\ journal'.orig = journal.orig
      /\ journal'.active \/ journal' = journal
      /\ journal'.before.url # FrontDoor
  <2>1. op.before \in Hash /\ [op.before EXCEPT !.url = FrontDoor] \in Hash
    BY <1>1 DEF Hash, Config, Urls
  <2>2. "reconciliation_required" \in JournalPhases
    BY DEF JournalPhases
  <2>3. \/ journal' = journal
        \/ journal' = [GatewayApplied(journal, op.orig, op.before, [op.before EXCEPT !.url = FrontDoor])
                         EXCEPT !.phase = "reconciliation_required"]
    BY DEF StartRollbackMark, SavesOrNot, Saves, SaveFails
  <2>4. /\ GatewayApplied(journal, op.orig, op.before, [op.before EXCEPT !.url = FrontDoor]) \in Journal
        /\ GatewayApplied(journal, op.orig, op.before, [op.before EXCEPT !.url = FrontDoor]).exists
        /\ GatewayApplied(journal, op.orig, op.before, [op.before EXCEPT !.url = FrontDoor]).active
        /\ GatewayApplied(journal, op.orig, op.before, [op.before EXCEPT !.url = FrontDoor]).orig = op.orig
        /\ GatewayApplied(journal, op.orig, op.before, [op.before EXCEPT !.url = FrontDoor]).before = op.before
    BY <1>0, <1>1, <2>1, GatewayAppliedRecord
  <2>. QED BY <1>0, <1>1, <2>2, <2>3, <2>4 DEF Journal, IInv, BeforeIsNotRedirected
<1>3. used' \in Budget
  BY <1>0, FaultType, Types DEF StartRollbackMark, SavesOrNot, Saves, SaveFails, NoFault
<1>4. op' \in Op /\ op'.pc \notin WritingPcs
  BY <1>0, OpControl DEF StartRollbackMark, WritingPcs
<1>5. TypeOK'
  BY <1>0, <1>2, <1>3, <1>4 DEF TypeOK, SharedTypeOK, TrafficTypeOK, StartRollbackMark, Op2Journal, trafficVars
<1>6. OriginalRecoverable' /\ InactiveIsNotRedirected' /\ BeforeIsNotRedirected'
  BY <1>1, <1>2 DEF IInv, OriginalRecoverable, InactiveIsNotRedirected, BeforeIsNotRedirected,
                    StartRollbackMark, Op2Journal
<1>7. RedirectOnRecord' /\ ClearedAfterRestore'
  BY <1>4 DEF RedirectOnRecord, ClearedAfterRestore, WritingPcs
<1>. QED BY <1>0, <1>5, <1>6, <1>7 DEF IInv, OffIsIdle, StartRollbackMark, Op2Journal

-----------------------------------------------------------------------------
(* The app starts, goes away, and the user recovers.                       *)

LEMMA StartupInv == ASSUME IInv, Startup PROVE IInv'
<1>0. TypeOK /\ config \in Config /\ journal \in Journal /\ op.pc = "idle"
  BY Types DEF IInv, OffIsIdle, Startup
<1>1. /\ journal' \in Journal /\ journal'.exists = journal.exists /\ journal'.orig = journal.orig
      /\ journal'.before = journal.before /\ journal'.target = journal.target
      /\ journal'.active = journal.active \/ journal.before = config
  BY <1>0, ReconciledRecord DEF Startup
<1>2. door' \in Doors /\ used' \in Budget
  BY <1>0, Types, FaultType DEF Startup, OriginalUpstream, Doors, NoFault
<1>3. TypeOK'
  BY <1>0, <1>1, <1>2 DEF TypeOK, SharedTypeOK, TrafficTypeOK, Startup, trafficVars
<1>4. OriginalRecoverable' /\ BeforeIsNotRedirected' /\ InactiveIsNotRedirected'
  BY <1>0, <1>1 DEF IInv, OriginalRecoverable, BeforeIsNotRedirected, InactiveIsNotRedirected, Startup
<1>5. RedirectOnRecord' /\ ClearedAfterRestore'
  BY <1>0 DEF RedirectOnRecord, ClearedAfterRestore, Startup
<1>. QED BY <1>3, <1>4, <1>5 DEF IInv, OffIsIdle, Startup

\* Whatever was under way, the record and the file stay.
LEMMA GoneInv == ASSUME IInv, DownService \/ Crash PROVE IInv'
<1>0. TypeOK
  BY DEF IInv
<1>1. used' \in Budget
  <2>1. CASE DownService
    BY <1>0, <2>1, Types DEF DownService
  <2>2. CASE Crash
    <3>1. used.exits + 1 \in 0..MaxTrouble
      BY <1>0, <2>2, Types, BoundsAssumption DEF Crash, MoreTrouble, Budget, Config
    <3>. QED BY <1>0, <2>2, <3>1, Types DEF Crash, Budget
  <2>. QED BY <2>1, <2>2
<1>2. ProcessGone /\ UNCHANGED <<config, journal, replaced, userUrl>>
  BY DEF DownService, Crash
<1>3. op' \in Op /\ op'.pc = "idle" /\ tx' \in Tx
  BY <1>0, <1>2, OpControl, TxControl DEF ProcessGone
<1>4. door' \in Doors /\ gw' \in Gateway
  BY <1>0, <1>2, Types, DoorTargets DEF ProcessGone, Gateway
<1>5. cap' \in Capture
  <2>1. cap.gen \in 0..MaxRelays
    BY <1>0, Types DEF Capture
  <2>. QED BY <1>2, <2>1, NoneInBounds DEF ProcessGone, Capture
<1>6. TrafficTypeOK'
  <2>1. last' = NoLast /\ owner' = NoOwner
    BY <1>2 DEF ProcessGone
  <2>. QED BY <1>3, <2>1, NoneInBounds DEF TrafficTypeOK, NoLast
<1>. QED BY <1>1, <1>2, <1>3, <1>4, <1>5, <1>6, KeepsIInv
         DEF ProcessGone, OpMovesOn, WritingPcs, RecordKept

\* Explicit recovery: the file is put back before the record says so, and only
\* the record of what is not in place is thrown away, or the user's word taken.
LEMMA RecoveryInv == ASSUME IInv, Recovery PROVE IInv'
<1>0. /\ TypeOK /\ config \in Config /\ journal \in Journal /\ cap \in Capture /\ used \in Budget
      /\ journal.orig \in Upstreams /\ journal.orig \in Urls /\ journal.orig # FrontDoor
      /\ Paused \in Capture /\ Freed \in Capture
  BY Types, CaptureTypes, OriginalsAssumption DEF IInv, Urls
<1>i. op.pc = "idle" /\ RestoreKeeps
  BY DEF Recovery, RestoreConflict, RestoreRecovery, RestoreFails, DiscardRecovery, NothingHeld, OpAt
<1>r. RedirectOnRecord' /\ ClearedAfterRestore' /\ OffIsIdle'
  BY <1>i DEF RestoreKeeps, RedirectOnRecord, ClearedAfterRestore, OffIsIdle
<1>t. ASSUME config' \in Config, journal' \in Journal, cap' \in Capture, used' \in Budget,
             replaced' \in Upstreams \cup {Discarded}, userUrl' \in Upstreams
      PROVE  TypeOK'
  BY <1>0, <1>i, <1>t DEF TypeOK, SharedTypeOK, TrafficTypeOK, RestoreKeeps, trafficVars
<1>u. userUrl \in Upstreams /\ replaced \in Upstreams \cup {Discarded}
  BY <1>0 DEF TypeOK, SharedTypeOK
<1>1. CASE RestoreConflict
  <2>1. /\ journal' \in Journal /\ journal'.exists = journal.exists /\ journal'.orig = journal.orig
        /\ journal'.before = journal.before /\ journal'.target = journal.target
        /\ journal'.active = journal.active
    BY <1>0, <1>1, RecoveryRecord DEF RestoreConflict, SavesOrNot, Saves, SaveFails
  <2>2. used' \in Budget
    BY <1>0, <1>1, FaultType DEF RestoreConflict, SavesOrNot, Saves, SaveFails, NoFault
  <2>3. TypeOK'
    BY <1>0, <1>1, <1>t, <1>u, <2>1, <2>2 DEF RestoreConflict
  <2>. QED BY <1>1, <1>r, <2>1, <2>3
           DEF IInv, OriginalRecoverable, BeforeIsNotRedirected, InactiveIsNotRedirected, RestoreConflict
<1>2. CASE RestoreRecovery
  <2>1. CommitEffect(journal.orig) /\ config'.url # FrontDoor
    BY <1>0, <1>2 DEF RestoreRecovery, SameRestoreTarget, OriginalUpstream, Writes, CommitEffect, Config
  <2>2. journal' \in Journal /\ journal'.before = journal.before
    BY <1>0, <1>2, RecoveryRecord DEF RestoreRecovery, Saves, SaveFails
  <2>3. used' \in Budget /\ cap' \in Capture /\ userUrl' \in Upstreams
    BY <1>0, <1>2, <1>u, FaultType DEF RestoreRecovery, Saves, SaveFails, NoFault, OriginalUpstream
  <2>4. TypeOK'
    BY <1>0, <1>t, <2>1, <2>2, <2>3, CommitType
  <2>. QED BY <1>r, <2>1, <2>2, <2>4
           DEF IInv, OriginalRecoverable, BeforeIsNotRedirected, InactiveIsNotRedirected
<1>3. CASE RestoreFails
  <2>1. CommitEffect(journal.orig) /\ used' \in Budget
    BY <1>0, <1>3, CommitOutcome DEF RestoreFails, OriginalUpstream
  <2>2. UNCHANGED <<config, replaced>> \/ (config'.url # FrontDoor /\ replaced' = replaced)
    BY <1>0, <2>1 DEF CommitEffect, Config
  <2>3. cap' \in Capture /\ userUrl' \in Upstreams /\ journal' = journal
    BY <1>0, <1>3, <1>u DEF RestoreFails, OriginalUpstream
  <2>4. TypeOK'
    BY <1>0, <1>t, <2>1, <2>3, CommitType
  <2>. QED BY <1>r, <2>2, <2>3, <2>4
           DEF IInv, OriginalRecoverable, BeforeIsNotRedirected, InactiveIsNotRedirected
<1>4. CASE DiscardRecovery
  <2>1. journal' = NoJournal /\ used' = used /\ config' = config /\ cap' = cap /\ userUrl' = userUrl
        /\ (replaced' = Discarded \/ (replaced' = replaced /\ config.url # FrontDoor))
    BY <1>4 DEF DiscardRecovery, Saves, NoFault
  <2>2. TypeOK'
    BY <1>0, <1>t, <1>u, <2>1, NoJournalRecord
  <2>3. NoJournal.before.url # FrontDoor /\ ~NoJournal.exists
    BY DEF NoJournal, NoHash, FrontDoor
  <2>. QED BY <1>r, <2>1, <2>2, <2>3
           DEF IInv, OriginalRecoverable, BeforeIsNotRedirected, InactiveIsNotRedirected
<1>. QED BY <1>1, <1>2, <1>3, <1>4 DEF Recovery

\* A gateway that is lost, and the management API.
LEMMA OthersInv == ASSUME IInv, Others PROVE IInv'
<1>0. TypeOK /\ app \in {"off", "up", "closing"}
  BY Types DEF IInv
<1>1. CASE GatewayLost
  <2>1. used' \in Budget
    BY <1>0, <1>1, FaultType DEF GatewayLost
  <2>2. gw' \in Gateway /\ cap' \in Capture
    BY <1>0, <1>1, Types, CaptureTypes DEF GatewayLost, Gateway
  <2>. QED BY <1>0, <1>1, <2>1, <2>2, Types, KeepsIInv
           DEF GatewayLost, trafficVars, OpMovesOn, RecordKept, TrafficTypeOK, IInv, OffIsIdle
<1>2. CASE Management
  <2>1. cap' \in Capture
    <3>1. cap.run \in 0..MaxRuns
      BY <1>0, Types DEF Capture
    <3>. QED BY <1>0, <1>2, <3>1, CaptureTypes
             DEF Management, MgmtStart, MgmtPause, MgmtResume, MgmtStop, MgmtClose, ManagedTo
  <2>2. UNCHANGED <<config, journal, door, gw, used, replaced, userUrl, trafficVars, app, op, txReady>>
    BY <1>2 DEF Management, MgmtStart, MgmtPause, MgmtResume, MgmtStop, MgmtClose, ManagedTo
  <2>. QED BY <1>0, <2>1, <2>2, Types, KeepsIInv
           DEF trafficVars, OpMovesOn, RecordKept, TrafficTypeOK, IInv, OffIsIdle
<1>3. CASE UserEdits
  <2>1. config.rest + 1 \in 0..MaxEdits
    BY <1>0, <1>3, Types, EditsAssumption DEF UserEdits, Config
  <2>2. config' \in Config /\ userUrl' \in Upstreams
        /\ (config'.url # FrontDoor \/ config'.url = config.url)
    <3>1. CASE \E u \in Upstreams : config' = [url |-> u, rest |-> config.rest + 1] /\ userUrl' = u
      BY <2>1, <3>1, OriginalsAssumption DEF Config, Urls
    <3>2. CASE config' = [config EXCEPT !.rest = @ + 1] /\ UNCHANGED userUrl
      BY <1>0, <2>1, <3>2, Types DEF Config, TypeOK, SharedTypeOK
    <3>. QED BY <1>3, <3>1, <3>2 DEF UserEdits
  <2>3. UNCHANGED <<journal, door, gw, cap, used, replaced, tx, owner, last, app, op, txReady>>
    BY <1>3 DEF UserEdits, trafficVars
  <2>4. TypeOK'
    BY <1>0, <2>2, <2>3 DEF TypeOK, SharedTypeOK, TrafficTypeOK
  <2>. QED BY <2>2, <2>3, <2>4
           DEF IInv, OffIsIdle, OriginalRecoverable, RedirectOnRecord, ClearedAfterRestore,
               BeforeIsNotRedirected, InactiveIsNotRedirected
<1>4. CASE Crash
  BY <1>4, GoneInv
<1>. QED BY <1>1, <1>2, <1>3, <1>4 DEF Others

-----------------------------------------------------------------------------
(* The theorems.                                                           *)

\* Nothing is recorded at first, and nothing is redirected.
LEMMA InitInv == ASSUME Init PROVE IInv
<1>1. config \in Config /\ config.url # FrontDoor /\ userUrl \in Upstreams
      /\ replaced \in Upstreams \cup {Discarded}
  BY OriginalsAssumption, EditsAssumption DEF Init, SharedInit, Config, Urls
<1>2. journal = NoJournal /\ journal \in Journal /\ op = NoOp /\ app = "off" /\ txReady = FALSE
  BY NoJournalRecord DEF Init, SharedInit
<1>3. door \in Doors /\ used \in Budget /\ gw \in Gateway /\ cap \in Capture
  <2>1. door = Closed /\ gw = [run |-> NoRun, up |-> FALSE, session |-> FALSE]
        /\ cap = [mode |-> "idle", relay |-> "none", run |-> NoRun, gen |-> 0, owner |-> NoOwner]
        /\ used = [faults |-> 0, exits |-> 0, ids |-> 0]
    BY DEF Init, SharedInit
  <2>2. 0 \in 0..MaxIds
    BY NoneInBounds DEF NoOwner
  <2>. QED BY <2>1, <2>2, NoneInBounds, DoorTargets DEF Gateway, Capture, Budget
<1>4. NoOp \in Op
  BY DEF NoOp, Op, OpPcs, OpKinds, Hash, Upstreams
<1>5. NoTx \in Tx
  <2>1. "idle" \in TxPcs /\ "none" \in TxKinds /\ "none" \in Callers /\ "original" \in Targets
    BY DEF TxPcs, TxKinds, Callers, Targets
  <2>. QED BY <2>1, NoneInBounds DEF NoTx, Tx, Sources
<1>6. TrafficTypeOK
  <2>1. tx = NoTx /\ owner = NoOwner /\ last = NoLast
    BY DEF Init, TrafficInit
  <2>. QED BY <1>5, <2>1, NoneInBounds DEF TrafficTypeOK, NoLast
<1>7. TypeOK
  BY <1>1, <1>2, <1>3, <1>4, <1>6 DEF TypeOK, SharedTypeOK
<1>8. NoJournal.before.url # FrontDoor /\ NoOp.pc = "idle"
  BY DEF NoJournal, NoHash, FrontDoor, NoOp
<1>. QED BY <1>1, <1>2, <1>7, <1>8
         DEF IInv, OffIsIdle, OriginalRecoverable, RedirectOnRecord, ClearedAfterRestore,
             BeforeIsNotRedirected, InactiveIsNotRedirected

\* Every step keeps the inductive invariant.
LEMMA NextInv == ASSUME IInv, [Next]_vars PROVE IInv'
<1>1. CASE Next
  BY <1>1, TxStepInv, CommandInv, StartInv, StopInv, PuttingBackInv, RedirectInv,
     RedirectCommitInv, RollbackInv, RollbackMarkInv, StartupInv, GoneInv, RecoveryInv, OthersInv
     DEF Next, StartSteps, DownSteps
<1>2. CASE UNCHANGED vars
  BY <1>2 DEF vars, shared, trafficVars, IInv, OffIsIdle, TypeOK, SharedTypeOK, TrafficTypeOK,
              OriginalRecoverable, RedirectOnRecord, ClearedAfterRestore,
              BeforeIsNotRedirected, InactiveIsNotRedirected
<1>. QED BY <1>1, <1>2

\* A record that is discarded is not that of a redirect in place.
LEMMA DiscardStep ==
    ASSUME IInv, Next, journal.exists, ~journal'.exists
    PROVE  journal.target = "original" \/ config.url # FrontDoor
<1>0. TypeOK /\ journal \in Journal /\ config \in Config
  BY Types DEF IInv
<1>k. RecordKept => journal'.exists
  BY <1>0, RecordKeptFacts
<1>1. CASE TxSteps
  BY <1>0, <1>1, <1>k, EnableFrame, BackoutFrame, DisableFrame, FinishFrame
     DEF TxSteps, TxStep, TxFrame, RecordKept
<1>2. CASE Startup
  BY <1>0, <1>2, ReconciledRecord DEF Startup
<1>3. CASE DiscardRecovery
  BY <1>3 DEF DiscardRecovery, Discardable, IInv, InactiveIsNotRedirected
<1>4. CASE RestoreConflict \/ RestoreRecovery \/ RestoreFails
  BY <1>0, <1>4 DEF RestoreConflict, RestoreRecovery, RestoreFails, SavesOrNot, Saves, SaveFails,
                    MarkConflict, MarkRestored, Journal
<1>5. CASE StartRedirect \/ StartRollbackMark
  BY <1>0, <1>5 DEF StartRedirect, StartRollbackMark, SavesOrNot, Saves, SaveFails,
                    Op2Journal, GatewayApplied
<1>6. CASE StartResetSave \/ StartRollbackSave \/ DownSave
  BY <1>0, <1>6 DEF StartResetSave, StartRollbackSave, DownSave, RestoreSaves, Saves, SaveFails,
                    GatewayCleared, Journal
<1>7. CASE UNCHANGED journal
  BY <1>7
<1>8. Next => \/ TxSteps \/ Startup \/ Recovery \/ StartRedirect \/ StartRollbackMark
              \/ StartResetSave \/ StartRollbackSave \/ DownSave \/ UNCHANGED journal
  <2>1. Commands => UNCHANGED journal
    BY DEF Commands, TrafficCommand, Reserve, OnlyTx, shared
  <2>2. StopSteps \/ Quit \/ Shutdown \/ DownTraffic \/ DownDoor => UNCHANGED journal
    BY DEF StopSteps, StopGateway, StopTraffic, StopDoor, StopService, Quit, Shutdown,
           DownTraffic, DownDoor, TrafficTeardown, TrafficDown, Reserve, OnlyTx, OnlyOp, shared,
           Op2Door, Op2Gateway
  <2>3. StartGateway \/ StartService \/ StartDoor \/ StartIntegrated \/ StartToGateway \/ StartFails
          => UNCHANGED journal
    BY DEF StartGateway, StartService, StartDoor, StartIntegrated, StartToGateway, StartFails,
           OnlyOp, shared, Op2Gateway
  <2>4. StartReset \/ StartRedirectCommit \/ StartRollback \/ DownConfig => UNCHANGED journal
    BY DEF StartReset, StartRedirectCommit, StartRollback, DownConfig, Restores, Op2Config
  <2>5. Others \/ DownService => UNCHANGED journal
    BY DEF Others, GatewayLost, Management, MgmtStart, MgmtPause, MgmtResume, MgmtStop, MgmtClose,
           ManagedTo, UserEdits, Crash, DownService
  <2>. QED BY <2>1, <2>2, <2>3, <2>4, <2>5 DEF Next, StartSteps, DownSteps
<1>. QED BY <1>1, <1>2, <1>3, <1>4, <1>5, <1>6, <1>7, <1>8 DEF Recovery

\* IInv is an invariant of the app's routing.
THEOREM RoutingInvariant == Spec => []IInv
<1>1. Init => IInv
  BY InitInv
<1>2. IInv /\ [Next]_vars => IInv'
  BY NextInv
<1>. QED BY <1>1, <1>2, PTL DEF Spec

\* The state of the app, the record and config.toml keep their types.
THEOREM RoutingTypes == Spec => []TypeOK
<1>1. IInv => TypeOK
  BY DEF IInv
<1>. QED BY <1>1, RoutingInvariant, PTL

\* As long as Codex is at the front door the record names the upstream the front
\* door took the place of, whatever fails, crashes or interleaves.
THEOREM OriginalStaysOnRecord == Spec => []OriginalRecoverable
<1>1. IInv => OriginalRecoverable
  BY DEF IInv
<1>. QED BY <1>1, RoutingInvariant, PTL

\* "Discard never changes Codex": no record of a redirect in place is discarded.
THEOREM DiscardIsSafe == Spec => DiscardKeepsRedirect
<1>1. IInv /\ [Next]_vars =>
        [journal.exists /\ ~journal'.exists => journal.target = "original" \/ config.url # FrontDoor]_vars
  BY DiscardStep
<1>. QED BY <1>1, RoutingInvariant, PTL DEF Spec, DiscardKeepsRedirect
=============================================================================
