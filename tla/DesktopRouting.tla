--------------------------- MODULE DesktopRouting ---------------------------
(***************************************************************************)
(* The desktop app's routing: starting and stopping the gateway, and the   *)
(* integration of Codex with the front door that goes with it              *)
(* (desktop-app/app.go, internal/service/gatewayintegration), the traffic  *)
(* transactions, explicit recovery (recovery_transaction_bindings.go) and  *)
(* the startup reconciliation; with crashes of the app, a gateway that     *)
(* ends by itself, the capture's management API and a user who edits       *)
(* config.toml.                                                            *)
(*                                                                         *)
(* App.operationMu is held while op.pc is not idle, App.trafficMu while    *)
(* tx.pc is not idle.  Left out: the Codex terminal, the configuration of  *)
(* the gateway, the autosave log, the exit handoff.                        *)
(***************************************************************************)
EXTENDS TrafficTransaction

VARIABLES
    app,  \* the process: off, up, closing
    op,   \* the operation that holds operationMu
    txReady  \* a.trafficTx has been made

vars == <<shared, trafficVars, app, op, txReady>>

OpPcs == {"idle", "start", "door", "integrated", "reset", "reset_save",
          "redirect", "redirect_commit", "rollback", "rollback_save",
          "rollback_mark", "to_gateway", "start_failed",
          "stop", "stop_traffic", "stop_door", "stop_service",
          "down_traffic", "down_door", "down_config", "down_save",
          "down_service"}
OpKinds == {"none", "start", "stop", "restart", "shutdown"}

\* `orig` and `before` are the prepared change of config.toml: the value to go
\* back to and the hash the file must still have.
Op == [pc : OpPcs, kind : OpKinds, orig : Upstreams, before : Hash]
NoOp == [pc |-> "idle", kind |-> "none", orig |-> NoUrl, before |-> NoHash]

TypeOK ==
    /\ SharedTypeOK
    /\ TrafficTypeOK
    /\ app \in {"off", "up", "closing"}
    /\ op \in Op
    /\ txReady \in BOOLEAN

Init ==
    /\ SharedInit
    /\ TrafficInit
    /\ app = "off"
    /\ op = NoOp
    /\ txReady = FALSE

-----------------------------------------------------------------------------
OpAt(pc) == op.pc = pc
OpGoto(pc) == op' = [op EXCEPT !.pc = pc]
OpEnds == op' = NoOp
OnlyOp == UNCHANGED <<shared, trafficVars, app, txReady>>
Op2Journal == UNCHANGED <<config, door, gw, cap, replaced, userUrl,
                          trafficVars, app, txReady>>
Op2Config == UNCHANGED <<journal, door, gw, cap, userUrl, trafficVars, app, txReady>>
Op2Door == UNCHANGED <<config, journal, gw, cap, used, replaced, userUrl,
                       trafficVars, app, txReady>>
Op2Gateway == UNCHANGED <<config, journal, door, used, replaced, userUrl,
                          trafficVars, app, txReady>>

\* svc.Stop, and EndRun with it; a run that is over is not ended again.
GatewayStops ==
    /\ gw' = [gw EXCEPT !.up = FALSE, !.session = FALSE]
    /\ cap' = IF gw.up THEN AfterStop(gw.run) ELSE cap

-----------------------------------------------------------------------------
(* startGatewayLocked.                                                     *)

StartGateway ==
    /\ app = "up" /\ OpAt("idle")
    /\ ~gw.up /\ gw.run < MaxRuns
    /\ op' = [NoOp EXCEPT !.pc = "start", !.kind = "start"]
    /\ OnlyOp

\* svc.Start; the run is refused when BindRun is.
StartService ==
    /\ OpAt("start")
    /\ IF CanBind /\ gw.run < MaxRuns
       THEN /\ gw' = [run |-> gw.run + 1, up |-> TRUE, session |-> FALSE]
            /\ cap' = [cap EXCEPT !.run = gw.run + 1]
            /\ OpGoto("door")
       ELSE OpEnds /\ UNCHANGED <<gw, cap>>
    /\ Op2Gateway

\* startFrontDoor: opened on the original upstream.
StartDoor ==
    /\ OpAt("door")
    /\ \/ door # Closed /\ OpGoto("integrated") /\ NoFault /\ UNCHANGED door
       \/ door = Closed /\ door' = OriginalUpstream(journal)
          /\ OpGoto("integrated") /\ NoFault
       \/ door = Closed /\ Fault /\ OpGoto("start_failed") /\ UNCHANGED door
    /\ UNCHANGED <<config, journal, gw, cap, replaced, userUrl, trafficVars,
                   app, txReady>>

\* codexAlreadyIntegrated
AlreadyIntegrated ==
    journal.exists /\ journal.target # "original" /\ config.url = FrontDoor
StartIntegrated ==
    /\ OpAt("integrated")
    /\ \/ AlreadyIntegrated /\ OpGoto("to_gateway")
       \/ ~AlreadyIntegrated /\ journal.target # "original" /\ OpGoto("reset")
       \/ ~AlreadyIntegrated /\ journal.target = "original" /\ OpGoto("redirect")
    /\ OnlyOp

\* gatewayintegration.Disable, the guard and the restore in one: the change is
\* committed against the file the guard was taken from.  Only a gateway target
\* is guarded, and without a target there is nothing to do.
RestoreConflicts == journal.target = "gateway" /\ journal.applied /\ config.url # FrontDoor
Restores(next, nothing, failed) ==
    /\ IF journal.target = "original"
       THEN OpGoto(nothing) /\ NoFault /\ UNCHANGED <<config, replaced>>
       ELSE IF RestoreConflicts
       THEN OpGoto(failed) /\ NoFault /\ UNCHANGED <<config, replaced>>
       ELSE \/ Commits(journal.orig, config) /\ OpGoto(next)
            \/ CommitFails(journal.orig, config) /\ OpGoto(failed)
    /\ Op2Config
RestoreSaves(next, failed) ==
    /\ \/ Saves(GatewayCleared(journal)) /\ OpGoto(next)
       \/ SaveFails /\ OpGoto(failed)
    /\ Op2Journal

\* gatewayintegration.Enable.  A record of an earlier integration is reset
\* first.
StartReset == OpAt("reset") /\ Restores("reset_save", "redirect", "start_failed")
StartResetSave == OpAt("reset_save") /\ RestoreSaves("redirect", "start_failed")

\* The record is written before the configuration.  A configuration that is at
\* the front door without a record leaves the gateway running.
StartRedirect ==
    /\ OpAt("redirect")
    /\ \/ config.url = FrontDoor /\ OpEnds /\ NoFault /\ UNCHANGED journal
       \/ /\ config.url # FrontDoor
          /\ Saves(GatewayApplied(journal, config.url, config,
                                  [config EXCEPT !.url = FrontDoor]))
          /\ op' = [op EXCEPT !.pc = "redirect_commit", !.orig = config.url,
                              !.before = config]
       \/ config.url # FrontDoor /\ SaveFails /\ OpGoto("start_failed")
    /\ Op2Journal

StartRedirectCommit ==
    /\ OpAt("redirect_commit")
    /\ \/ Commits(FrontDoor, op.before) /\ OpGoto("to_gateway")
       \/ CommitFails(FrontDoor, op.before) /\ OpGoto("rollback")
    /\ Op2Config

\* restoreOriginal reads the file again.
StartRollback ==
    /\ OpAt("rollback")
    /\ \/ Commits(op.orig, config) /\ OpGoto("rollback_save")
       \/ CommitFails(op.orig, config) /\ OpGoto("rollback_mark")
    /\ Op2Config
StartRollbackSave == OpAt("rollback_save") /\ RestoreSaves("start_failed", "start_failed")

\* ErrFailClosed: the gateway is left running.
StartRollbackMark ==
    /\ OpAt("rollback_mark")
    /\ SavesOrNot([GatewayApplied(journal, op.orig, op.before,
                                  [op.before EXCEPT !.url = FrontDoor])
                   EXCEPT !.phase = "reconciliation_required"])
    /\ OpEnds
    /\ Op2Journal

StartToGateway ==
    /\ OpAt("to_gateway")
    /\ \/ Switch(GatewayBackend) /\ OpEnds /\ gw' = [gw EXCEPT !.session = TRUE]
       \/ door = Closed /\ OpGoto("start_failed") /\ UNCHANGED <<door, gw>>
    /\ UNCHANGED <<config, journal, cap, used, replaced, userUrl, trafficVars,
                   app, txReady>>

StartFails == OpAt("start_failed") /\ GatewayStops /\ OpEnds /\ Op2Gateway

-----------------------------------------------------------------------------
(* stopGatewayLocked, and RestartGateway.                                  *)

StopGateway ==
    /\ app = "up" /\ OpAt("idle")
    /\ gw.up
    /\ \E kind \in {"stop", "restart"} :
         op' = [NoOp EXCEPT !.kind = kind,
                            !.pc = IF txReady THEN "stop_traffic" ELSE "stop_door"]
    /\ OnlyOp

\* trafficMu is waited for, then the traffic layer is taken down.
TrafficTeardown(pc, next) ==
    /\ OpAt(pc) /\ tx.pc = "idle"
    /\ \/ cap.mode = "desktop" /\ Reserve("disable", "app") /\ UNCHANGED op
       \/ IsCaptureOnly("passthrough", cap.gen, cap.run) /\ Reserve("finish", "app")
          /\ UNCHANGED op
       \/ cap.mode # "desktop" /\ ~IsCaptureOnly("passthrough", cap.gen, cap.run)
          /\ OpGoto(next) /\ UNCHANGED <<shared, trafficVars>>
    /\ UNCHANGED <<app, txReady>>
TrafficDown(pc, next, failed) ==
    /\ OpAt(pc) /\ tx.pc = "returned"
    /\ tx' = NoTx
    /\ IF tx.ok THEN OpGoto(next) ELSE failed
    /\ UNCHANGED <<shared, owner, last, app, txReady>>

StopTraffic ==
    \/ TrafficTeardown("stop_traffic", "stop_door")
    \/ TrafficDown("stop_traffic", "stop_door", OpEnds)

StopDoor ==
    /\ OpAt("stop_door")
    /\ OpGoto("stop_service")
    /\ IF door = Closed THEN UNCHANGED door ELSE Switch(OriginalUpstream(journal))
    /\ Op2Door

StopService ==
    /\ OpAt("stop_service")
    /\ GatewayStops
    /\ IF op.kind = "restart" THEN OpGoto("start") ELSE OpEnds
    /\ Op2Gateway

-----------------------------------------------------------------------------
(* shutdown: what fails is left to the next start.                         *)

\* closed and lifecycleClosing are set before operationMu is waited for.
Quit ==
    /\ app = "up" /\ MoreTrouble
    /\ app' = "closing"
    /\ used' = [used EXCEPT !.exits = @ + 1]
    /\ UNCHANGED <<config, journal, door, gw, cap, replaced, userUrl,
                   trafficVars, op, txReady>>

Shutdown ==
    /\ app = "closing" /\ OpAt("idle")
    /\ op' = [NoOp EXCEPT !.kind = "shutdown",
                          !.pc = IF txReady THEN "down_traffic" ELSE "down_door"]
    /\ OnlyOp

DownTraffic ==
    \/ TrafficTeardown("down_traffic", "down_door")
    \/ TrafficDown("down_traffic", "down_door", OpGoto("down_door"))

DownDoor ==
    /\ OpAt("down_door")
    /\ OpGoto(IF journal.target = "original" THEN "down_service" ELSE "down_config")
    /\ IF door = Closed THEN UNCHANGED door ELSE Switch(OriginalUpstream(journal))
    /\ Op2Door

DownConfig == OpAt("down_config") /\ Restores("down_save", "down_service", "down_service")
DownSave == OpAt("down_save") /\ RestoreSaves("down_service", "down_service")

\* What is only in memory is gone.
ProcessGone ==
    /\ app' = "off"
    /\ door' = Closed
    /\ gw' = [gw EXCEPT !.up = FALSE, !.session = FALSE]
    /\ cap' = [mode |-> "idle", relay |-> "none", run |-> NoRun, gen |-> cap.gen,
               owner |-> NoOwner]
    /\ tx' = NoTx /\ owner' = NoOwner /\ last' = NoLast
    /\ OpEnds
    /\ txReady' = FALSE

DownService ==
    /\ OpAt("down_service")
    /\ ProcessGone
    /\ UNCHANGED <<config, journal, used, replaced, userUrl>>

-----------------------------------------------------------------------------
(* startup: ReconcileStartup, then the front door if Codex is still at it. *)

\* Mutant: the front door is only opened again for a gateway integration.
StartupGatewayOnly ==
    /\ app = "off"
    /\ app' = "up"
    /\ journal' = Reconciled(journal, config)
    /\ IF Classify(journal, config) = "integrated" /\ journal.target = "gateway"
       THEN \/ door' = OriginalUpstream(journal) /\ NoFault
            \/ Fault /\ UNCHANGED door
       ELSE NoFault /\ UNCHANGED door
    /\ UNCHANGED <<config, gw, cap, replaced, userUrl, trafficVars, op, txReady>>

Startup ==
    /\ app = "off"
    /\ app' = "up"
    /\ journal' = Reconciled(journal, config)
    /\ IF Classify(journal, config) = "integrated"
       THEN \/ door' = OriginalUpstream(journal) /\ NoFault
            \/ Fault /\ UNCHANGED door
       ELSE NoFault /\ UNCHANGED door
    /\ UNCHANGED <<config, gw, cap, replaced, userUrl, trafficVars, op, txReady>>

-----------------------------------------------------------------------------
(* The traffic commands of the UI, under the route gate and trafficMu; the *)
(* first one makes the transaction service.                                *)

TrafficCommand(kind) ==
    /\ app = "up"
    /\ Reserve(kind, "ui")
    /\ txReady' = TRUE
    /\ UNCHANGED <<app, op>>

-----------------------------------------------------------------------------
(* RestoreRecovery and DiscardRecovery, under both locks.                  *)

NothingHeld == app = "up" /\ OpAt("idle") /\ tx.pc = "idle"

HashKnown == config \in {journal.before, journal.after}
SameRestoreTarget == config.url = OriginalUpstream(journal)

\* What the capture's mode asks for first: a desktop capture must be owned here
\* and is paused, one in recovery must have stopped listening.
CanRestore ==
    CASE cap.mode = "desktop"  -> CanPause(cap.gen, cap.run, owner)
      [] cap.mode = "recovery" -> ~Listening
      [] OTHER                 -> TRUE
Paused == IF cap.mode = "desktop" THEN [cap EXCEPT !.relay = "passthrough"] ELSE cap
\* What it gets once the record says restored.
Freed == CASE cap.mode = "desktop"  -> [Paused EXCEPT !.mode = "capture_only", !.owner = NoOwner]
           [] cap.mode = "recovery" -> [cap EXCEPT !.mode = "idle", !.owner = NoOwner]
           [] OTHER                 -> cap

RestoreKeeps == UNCHANGED <<door, gw, trafficVars, app, op, txReady>>

\* The file is neither what was recorded before nor after: confirmation needed.
RestoreConflict ==
    /\ NothingHeld /\ journal.exists /\ CanRestore
    /\ ~HashKnown
    /\ cap' = Paused
    /\ SavesOrNot(MarkConflict(journal))
    /\ UNCHANGED <<config, replaced, userUrl>> /\ RestoreKeeps

\* A user who confirms gives up what is in the file.
RestoreRecovery ==
    /\ NothingHeld /\ journal.exists /\ CanRestore
    /\ \/ SameRestoreTarget /\ UNCHANGED <<config, replaced>>
       \/ ~SameRestoreTarget /\ Writes(OriginalUpstream(journal))
    /\ userUrl' = IF SameRestoreTarget THEN userUrl ELSE OriginalUpstream(journal)
    /\ \/ Saves(MarkRestored(journal)) /\ cap' = Freed
       \/ SaveFails /\ cap' = Paused
    /\ RestoreKeeps

\* The configuration could not be written.
RestoreFails ==
    /\ NothingHeld /\ journal.exists /\ CanRestore
    /\ ~SameRestoreTarget
    /\ CommitFails(OriginalUpstream(journal), config)
    /\ cap' = Paused
    /\ userUrl' = IF config'.url = config.url THEN userUrl ELSE OriginalUpstream(journal)
    /\ UNCHANGED journal /\ RestoreKeeps

DiscardRecovery ==
    /\ NothingHeld
    /\ Discardable(journal)
    /\ cap.mode \notin {"desktop", "recovery"} /\ ~Listening
    /\ Saves(NoJournal)
    /\ replaced' = IF config.url = FrontDoor THEN Discarded ELSE replaced
    /\ UNCHANGED <<config, cap, userUrl>> /\ RestoreKeeps

Recovery == RestoreConflict \/ RestoreRecovery \/ RestoreFails \/ DiscardRecovery

-----------------------------------------------------------------------------
(* What happens by itself.                                                 *)

\* The run ends abnormally and tells the capture.
GatewayLost ==
    /\ gw.up /\ Fault
    /\ gw' = [gw EXCEPT !.up = FALSE, !.session = FALSE]
    /\ cap' = AfterLoss(gw.run)
    /\ UNCHANGED <<config, journal, door, replaced, userUrl, trafficVars, app,
                   op, txReady>>

\* The management API: refused to a capture of the desktop or in recovery.
ManagedTo(c) ==
    /\ cap' = c
    /\ UNCHANGED <<config, journal, door, gw, used, replaced, userUrl,
                   trafficVars, app, op, txReady>>
MgmtStart == gw.up /\ CanStart /\ ManagedTo(Started(cap.run))
MgmtPause == gw.up /\ IsCaptureOnly("capturing", cap.gen, cap.run)
             /\ ManagedTo([cap EXCEPT !.relay = "passthrough"])
MgmtResume == gw.up /\ IsCaptureOnly("passthrough", cap.gen, cap.run)
              /\ ManagedTo([cap EXCEPT !.relay = "capturing"])
MgmtStop == gw.up /\ cap.mode = "capture_only" /\ Listening
            /\ ManagedTo([cap EXCEPT !.relay = "stopped"])
MgmtClose == gw.up /\ CanClose /\ cap.relay # "none" /\ ManagedTo(ClosedCapture)
Management == MgmtStart \/ MgmtPause \/ MgmtResume \/ MgmtStop \/ MgmtClose

\* The user configures an upstream, or Codex writes something else.
UserEdits ==
    /\ config.rest < MaxEdits /\ MoreTrouble
    /\ \/ \E u \in Upstreams : config' = [url |-> u, rest |-> config.rest + 1] /\ userUrl' = u
       \/ config' = [config EXCEPT !.rest = @ + 1] /\ UNCHANGED userUrl
    /\ UNCHANGED <<journal, door, gw, cap, used, replaced, trafficVars, app, op, txReady>>

Crash ==
    /\ app # "off" /\ MoreTrouble
    /\ used' = [used EXCEPT !.exits = @ + 1]
    /\ ProcessGone
    /\ UNCHANGED <<config, journal, replaced, userUrl>>

-----------------------------------------------------------------------------
StartSteps ==
    \/ StartGateway \/ StartService \/ StartDoor \/ StartIntegrated
    \/ StartReset \/ StartResetSave \/ StartRedirect \/ StartRedirectCommit
    \/ StartRollback \/ StartRollbackSave \/ StartRollbackMark
    \/ StartToGateway \/ StartFails
StopSteps == StopGateway \/ StopTraffic \/ StopDoor \/ StopService
DownSteps ==
    Shutdown \/ DownTraffic \/ DownDoor \/ DownConfig \/ DownSave \/ DownService
TxSteps == TxStep /\ UNCHANGED <<app, op, txReady>>
Commands == \E kind \in {"enable", "disable", "finish"} : TrafficCommand(kind)
Others == GatewayLost \/ Management \/ UserEdits \/ Crash

Next == StartSteps \/ StopSteps \/ DownSteps \/ Quit \/ Startup
        \/ TxSteps \/ Commands \/ Recovery \/ Others

Spec == Init /\ [][Next]_vars

-----------------------------------------------------------------------------
AtRest == app = "up" /\ OpAt("idle") /\ tx.pc = "idle"

\* While Codex points at the front door, a record names the upstream the front
\* door took the place of, until the user discards it.
OriginalRecoverable ==
    config.url = FrontDoor /\ replaced # Discarded =>
        journal.exists /\ journal.orig = replaced

\* What is discarded is not the record of a redirect that is in place.
DiscardKeepsRedirect ==
    [][journal.exists /\ ~journal'.exists =>
         journal.target = "original" \/ config.url # FrontDoor]_vars

\* config.toml holds the front door or what the user last put there.
UserUpstreamKept == config.url \in {FrontDoor, userUrl}

\* While a gateway has its session, a front door at the capture reaches one that
\* listens and forwards to that very run.  (A start that failed closed leaves a
\* gateway without a session, and the front door where it was.)
CaptureServesRunningGateway ==
    AtRest /\ config.url = FrontDoor /\ door = CaptureRelay /\ gw.session =>
        Listening /\ cap.run = gw.run

\* A capture the desktop owns can be given back: the transaction service has
\* the owner, the run and the generation Disable asks for, and a crash would
\* find the capture in the record.
DesktopCaptureHasItsOwner ==
    AtRest /\ cap.mode = "desktop" =>
        /\ cap.owner = owner /\ Matches(last.gen, last.run)
        /\ TrafficActive(journal) \/ HasUnresolved(journal)

\* A front door parked on an upstream is parked on the one it replaced.
ParkedDoorIsOriginal ==
    AtRest /\ config.url = FrontDoor /\ door \in Upstreams
    /\ replaced # Discarded /\ used.faults = 0
        => door = replaced

\* A running gateway with a session is routed to.
RunningGatewayIsRouted ==
    AtRest /\ gw.up /\ gw.session => door \in {GatewayBackend, CaptureRelay}

\* An app that starts brings the front door back for a Codex that is still at
\* it, unless config.toml was changed by others or the port is taken.
IntegratedDoorOpen ==
    app = "up" /\ config.url = FrontDoor /\ config = journal.after
    /\ journal.target # "original" /\ used.faults = 0
        => door # Closed

\* The front door leads where it should: to the gateway while one runs with a
\* session, else to the upstream it took the place of, and it is there for every
\* Codex that is still at it (StartGateway, Disable, and the startup of the app).
DoorServesCodex == RunningGatewayIsRouted /\ IntegratedDoorOpen /\ ParkedDoorIsOriginal

\* The gateway of the transaction was not followed by one that has no session:
\* a start that is under way, or that failed closed.
StillRouted == gw.run = tx.run \/ gw.session

\* A transaction pauses, gives back or closes the capture only once the front door
\* of a redirected Codex has left it.
DoorLeavesCaptureFirst ==
    [][tx.pc \in UndoPcs \cup DisablePcs /\ cap' # cap /\ app' = app
       /\ tx' # tx /\ StillRouted /\ config.url = FrontDoor
         => door # CaptureRelay]_vars

\* An Enable that fails but may be retried leaves neither its claim nor Codex
\* behind the capture.
FailedEnableLeavesNothing ==
    [][tx.pc = "undo_record" /\ tx'.pc \in {"idle", "returned"} =>
         /\ StillRouted /\ config.url = FrontDoor => door # CaptureRelay
         /\ cap.mode = "desktop" => cap.owner # tx.id]_vars
=============================================================================
