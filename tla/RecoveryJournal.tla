--------------------------- MODULE RecoveryJournal ---------------------------
(***************************************************************************)
(* The recovery record (internal/service/recovery) and the three writers   *)
(* that share it: the gateway integration, the traffic transaction and the *)
(* startup reconciliation.  Every write is one read-modify-write under the *)
(* store's mutex, so each is an operator from the record to the record.    *)
(*                                                                         *)
(* Identifiers, timestamps, paths and the autosave fields are left out:    *)
(* nothing below decides by them.                                          *)
(***************************************************************************)
EXTENDS Integers

CONSTANTS
    Originals,  \* upstreams a user may have configured for Codex
    MaxEdits    \* bound on changes of config.toml by others

\* openai_base_url: the key may be absent, and the front door is the only value
\* this program ever writes into it.
NoUrl == "absent"
FrontDoor == "front_door"
Upstreams == Originals \cup {NoUrl}
Urls == Upstreams \cup {FrontDoor}

ASSUME OriginalsAssumption == FrontDoor \notin Upstreams /\ NoUrl \notin Originals
ASSUME EditsAssumption == MaxEdits \in Nat

\* The root key and a revision of everything else in config.toml.  The hash of
\* the file tells two contents apart, so it is the content.
Config == [url : Urls, rest : 0..MaxEdits]
NoHash == [url |-> "none", rest |-> 0]
Hash == Config \cup {NoHash}

Targets == {"original", "gateway", "analysis"}
JournalPhases == {"inactive", "prepared", "capture_started",
                  "integration_applied", "recovered", "aborted",
                  "reconciliation_required", "reconciliation_conflict",
                  "reconciled_restored"}

\* `active` is IntegrationActive, `orig` the original upstream (NoUrl when the
\* key was absent or nothing is recorded), `applied` whether the applied value
\* is the front door.
Journal == [exists : BOOLEAN, target : Targets, active : BOOLEAN,
            phase : JournalPhases, orig : Upstreams, applied : BOOLEAN,
            before : Hash, after : Hash]

\* No file.
NoJournal == [exists |-> FALSE, target |-> "original", active |-> FALSE,
              phase |-> "inactive", orig |-> NoUrl, applied |-> FALSE,
              before |-> NoHash, after |-> NoHash]

-----------------------------------------------------------------------------
(* gatewayRecoveryWriter: the only writer of the original upstream.        *)

GatewayApplied(j, orig, before, after) ==
    [exists |-> TRUE, target |-> "gateway", active |-> TRUE,
     phase |-> "integration_applied", orig |-> orig, applied |-> TRUE,
     before |-> before, after |-> after]

GatewayCleared(j) ==
    [j EXCEPT !.exists = TRUE, !.target = "original", !.active = FALSE,
              !.phase = "inactive", !.orig = NoUrl, !.applied = FALSE,
              !.before = NoHash, !.after = NoHash]

-----------------------------------------------------------------------------
(* trafficRecoveryWriter: the hashes it does not carry and the original    *)
(* upstream it does not own stay as they are.                              *)

TrafficPhases == {"prepared", "capture_started", "config_committed", "aborted",
                  "recovery_required", "disable_started", "config_restored",
                  "disable_completed", "finish"}

\* recoveryPhaseForCheckpoint over checkpointFor, checkpointForDisable,
\* checkpointForDisableDemote and finishCheckpoint.
DurablePhase(phase) ==
    CASE phase \in {"config_committed", "disable_started"} -> "integration_applied"
      [] phase \in {"disable_completed", "finish"}         -> "inactive"
      [] phase = "config_restored"                         -> "recovered"
      [] phase = "recovery_required"                       -> "reconciliation_required"
      [] OTHER                                             -> phase

\* Mutant: the traffic layer's checkpoint overwrites the whole record.
TrafficCheckpointForgets(j, phase, target, applied) ==
    [j EXCEPT !.exists = TRUE, !.target = target, !.active = target # "original",
              !.phase = DurablePhase(phase), !.applied = applied, !.orig = NoUrl]

TrafficCheckpoint(j, phase, target, applied) ==
    [j EXCEPT !.exists = TRUE, !.target = target, !.active = target # "original",
              !.phase = DurablePhase(phase), !.applied = applied]

\* Enable writes its own target and applied value; Disable and Finish pass on
\* what they read, except that a demote records the gateway.
EnableCheckpoint(j, phase) == TrafficCheckpoint(j, phase, "analysis", TRUE)
\* Mutant: the gateway is recorded from the first checkpoint on.
DisableCheckpointDemotes(j, phase, source) ==
    TrafficCheckpoint(j, phase, "gateway", source.applied)

DisableCheckpoint(j, phase, source) ==
    TrafficCheckpoint(j, phase, source.target, source.applied)
DemoteCheckpoint(j) == TrafficCheckpoint(j, "disable_completed", "gateway", TRUE)

\* checkpointFromRecovery: what the traffic layer takes for an active
\* integration is the target, whatever the flag says.
TrafficActive(j) == j.exists /\ j.target = "analysis"
IsApplied(j) == j.phase = "integration_applied"
IsDurablyInactive(j) ==
    j.phase \notin {"integration_applied", "recovered", "reconciliation_required",
                    "reconciliation_conflict"}

HasUnresolved(j) ==
    j.exists /\ j.phase \in {"reconciliation_required", "reconciliation_conflict"}

-----------------------------------------------------------------------------
(* ReconcileStartup: the record is classified by the hash of config.toml.  *)

\* The order of the cases is the code's; the legacy capture listener is never
\* recorded as the applied value any more.
Classify(j, cfg) ==
    LET applied == j.after = cfg
        before  == j.before = cfg
        beneath == j.target = "analysis" /\ j.orig # NoUrl
    IN CASE ~j.exists -> "none"
         [] j.exists /\ applied /\ j.applied             -> "integrated"
         [] j.exists /\ applied /\ ~j.applied            -> "pending_restore"
         [] j.exists /\ ~applied /\ before /\ beneath    -> "pending_restore"
         [] j.exists /\ ~applied /\ before /\ ~beneath   -> "already_restored"
         [] OTHER -> IF j.target # "original" THEN "config_conflict"
                                              ELSE "inactive"

ReconciledPhase(status) ==
    CASE status = "integrated"       -> "integration_applied"
      [] status = "pending_restore"  -> "reconciliation_required"
      [] status = "already_restored" -> "reconciled_restored"
      [] status = "config_conflict"  -> "reconciliation_conflict"
      [] OTHER                       -> "inactive"

Reconciled(j, cfg) ==
    LET status == Classify(j, cfg) IN
    IF status = "none" THEN j
    ELSE [j EXCEPT !.phase = ReconciledPhase(status),
                   !.active = IF status = "already_restored" THEN FALSE ELSE @]

-----------------------------------------------------------------------------
(* Explicit recovery.                                                      *)

MarkRestored(j) ==
    [j EXCEPT !.active = FALSE, !.target = "original", !.orig = NoUrl,
              !.applied = FALSE, !.phase = "reconciled_restored"]

MarkConflict(j) == [j EXCEPT !.phase = "reconciliation_conflict"]

\* Mutant: an active integration may be discarded.
DiscardableActive(j) ==
    j.exists
    /\ j.phase \notin {"reconciliation_required", "reconciliation_conflict"}

\* "Discard never changes Codex": only a record nothing depends on may go.
Discardable(j) ==
    j.exists /\ ~j.active
    /\ j.phase \notin {"reconciliation_required", "reconciliation_conflict"}

\* OriginalBaseURL / originalUpstream: NoUrl stands for the built-in default.
OriginalUpstream(j) == j.orig
=============================================================================
