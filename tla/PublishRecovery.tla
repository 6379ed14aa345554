-------------------------- MODULE PublishRecovery ---------------------------
(***************************************************************************)
(* The crash journal of a Codex home (internal/service/publishrecovery).   *)
(* Publish replaces models_catalog.json, auth.json and config.toml one     *)
(* after the other, with the previous bytes in a backout directory and a   *)
(* journal record before every step; a failed publish rolls back, and      *)
(* ReconcileStartup completes, discards or rolls back what a crash left.   *)
(*                                                                         *)
(* The service runs one call at a time (its mutex), so `pc` is the next    *)
(* effect of that call.  Every write may fail, with or without having      *)
(* taken effect (codexconfig.AtomicWrite reports the failed sync of the    *)
(* directory after its rename), every read may fail, and the process may   *)
(* die between any two effects.                                            *)
(***************************************************************************)
EXTENDS Integers, FiniteSets

CONSTANTS
    Versions,   \* contents a file may have
    MaxTx,      \* bound on transactions
    MaxFaults,  \* bound on failing effects and crashes
    MaxEdits    \* bound on changes made by others

ASSUME VersionsAssumption == Versions # {} /\ "absent" \notin Versions
ASSUME BoundsAssumption == MaxTx \in Nat /\ MaxFaults \in Nat /\ MaxEdits \in Nat

Absent == "absent"
Contents == Versions \cup {Absent}

Ids == 1..MaxTx
Budget == [faults : 0..MaxFaults, edits : 0..MaxEdits]

\* backoutOrder: the order of publication; it is undone in reverse.
Order == <<"catalog", "auth", "config">>
Files == {"catalog", "auth", "config"}
Homes == [Files -> Contents]
NoFiles == [f \in Files |-> Absent]

\* auth.json is left out when the server has no token.
Inputs == {h \in Homes : h["catalog"] # Absent /\ h["config"] # Absent}

\* What `advance` records once so many files are published.
Published == [n \in 0..3 |->
    CASE n = 0 -> "backout_copied" [] n = 1 -> "catalog_published"
      [] n = 2 -> "auth_published" [] n = 3 -> "config_published"]
Terminal == {"completed", "rolled_back", "discarded"}
Phases == Terminal \cup {Published[n] : n \in 0..3}
          \cup {"none", "prepared", "verified", "rollback_required", "rollback_failed"}

\* Timestamps, the fingerprint of the home and what Validate derives from the
\* phase (published files, commit marker, branch point) are left out.
Journal == [tx : Ids \cup {0}, phase : Phases, expected : Homes, fresh : BOOLEAN]
NoJournal == [tx |-> 0, phase |-> "none", expected |-> NoFiles, fresh |-> FALSE]

\* A transaction directory: still without its manifest, as the manifest says,
\* or changed since.  `of` is what was copied.
Backout == [state : {"none", "partial", "whole", "tampered"}, of : Homes]
NoBackout == [state |-> "none", of |-> NoFiles]

PublishPcs == {"retire_backout", "retire_journal", "prepare", "make_home", "copy",
               "manifest", "advance", "write", "verify", "save_verified", "complete"}
RollbackPcs == {"classify", "mark", "restore", "leave_home", "rolled_back", "failed"}
ReconcilePcs == {"forget_home", "promote", "promoted", "discard"}
Pcs == {"idle", "clean_backout", "clean_journal"}
       \cup PublishPcs \cup RollbackPcs \cup ReconcilePcs

VARIABLES
    home,      \* content of the three files
    dir,       \* the home directory exists
    litter,    \* a temporary file of AtomicWrite was left in it
    journal,   \* the record on disk
    backouts,  \* the transaction directories on disk
    pc, n,     \* next effect of the call under way, and the file it is about
    mem,       \* the record in memory
    published, \* the call under way, or the last one, has published its files
    prior,     \* ghost: the files when the transaction began
    touched,   \* ghost: somebody else changed the home or the backout since
    txs, used  \* transactions so far, faults and edits so far

callVars == <<pc, n, mem, published>>
homeVars == <<home, dir, litter>>
ghostVars == <<prior, touched>>
publishVars == <<home, dir, litter, journal, backouts, pc, n, mem, published,
                 prior, touched, txs, used>>

TypeOK ==
    /\ home \in Homes /\ dir \in BOOLEAN /\ litter \in BOOLEAN
    /\ journal \in Journal /\ mem \in Journal
    /\ backouts \in [Ids -> Backout]
    /\ pc \in Pcs /\ n \in 0..3 /\ published \in BOOLEAN
    /\ prior \in Homes /\ touched \in BOOLEAN
    /\ txs \in 0..MaxTx
    /\ used \in Budget

PublishInit ==
    /\ dir \in BOOLEAN
    /\ home \in Homes /\ (dir \/ home = NoFiles)
    /\ litter = FALSE
    /\ journal = NoJournal /\ mem = NoJournal
    /\ backouts = [t \in Ids |-> NoBackout]
    /\ pc = "idle" /\ n = 0 /\ published = FALSE
    /\ prior = home /\ touched = FALSE
    /\ txs = 0 /\ used = [faults |-> 0, edits |-> 0]

-----------------------------------------------------------------------------
(* Effects and how they go wrong.                                          *)

Goto(p) == pc' = p

NoFault == used' = used
Fault ==
    /\ used.faults < MaxFaults
    /\ used' = [used EXCEPT !.faults = @ + 1]

\* store.Write of a record that memory already holds; `failed` is where the
\* caller goes when it reports an error.
Save(j, ok, failed) ==
    /\ mem' = j
    /\ \/ journal' = j /\ NoFault /\ Goto(ok)
       \/ Fault /\ journal' \in {journal, j} /\ Goto(failed)

\* AtomicWrite or DurableRemove of one file of the home.
PutFile(f, content, ok, failed) ==
    \/ /\ home' = [home EXCEPT ![f] = content]
       /\ dir' = (dir \/ content # Absent)
       /\ NoFault /\ Goto(ok)
    \/ /\ Fault /\ Goto(failed)
       /\ home' \in {home, [home EXCEPT ![f] = content]}
       /\ dir' = (dir \/ content # Absent)

\* DeleteBackout; os.RemoveAll may fail half-way.
DeleteBackout(ok, failed) ==
    /\ \/ backouts' = [backouts EXCEPT ![mem.tx] = NoBackout] /\ NoFault /\ Goto(ok)
       \/ /\ Fault /\ Goto(failed)
          /\ \/ UNCHANGED backouts
             \/ /\ backouts[mem.tx].state # "none"
                /\ backouts' = [backouts EXCEPT ![mem.tx].state = "partial"]

DeleteJournal(ok, failed) ==
    \/ journal' = NoJournal /\ NoFault /\ Goto(ok)
    \/ Fault /\ UNCHANGED journal /\ Goto(failed)

\* classifyFiles.  Absence is a content like any other.
IsTarget(f, j) == home[f] = j.expected[f]
IsPrevious(f, j) == home[f] = backouts[j.tx].of[f]
AllTarget(j) == \A f \in Files : IsTarget(f, j)
NoOther(j) == \A f \in Files : IsTarget(f, j) \/ IsPrevious(f, j)
\* Mutant: one old file is enough to discard.
AnyPrevious(j) == \E f \in Files : IsPrevious(f, j) /\ ~IsTarget(f, j)
AllPrevious(j) == \A f \in Files : IsPrevious(f, j) /\ ~IsTarget(f, j)

\* removeTargetIfEmpty
HomeEmpty == home = NoFiles /\ ~litter

-----------------------------------------------------------------------------
(* Publish.                                                                *)

\* rejectUnfinished: a terminal record is cleaned up first, any other refused.
Begin(in) ==
    /\ pc = "idle"
    /\ \/ journal.phase = "none" /\ Goto("prepare")
       \/ journal.phase \in Terminal /\ Goto("retire_backout")
    /\ mem' = [journal EXCEPT !.expected = in]
    /\ published' = FALSE
    /\ UNCHANGED <<homeVars, journal, backouts, n, ghostVars, txs, used>>

Refuse ==
    /\ pc = "idle" /\ journal.phase \notin Terminal \cup {"none"}
    /\ published' = FALSE
    /\ UNCHANGED <<homeVars, journal, backouts, pc, n, mem, ghostVars, txs, used>>

\* Mutant: a backout that cannot be removed does not hold up the next publish.
RetireBackoutRegardless ==
    /\ pc = "retire_backout" /\ DeleteBackout("retire_journal", "prepare")
    /\ UNCHANGED <<homeVars, journal, n, mem, published, ghostVars, txs>>

RetireBackout ==
    /\ pc = "retire_backout" /\ DeleteBackout("retire_journal", "idle")
    /\ UNCHANGED <<homeVars, journal, n, mem, published, ghostVars, txs>>

RetireJournal ==
    /\ pc = "retire_journal" /\ DeleteJournal("prepare", "idle")
    /\ UNCHANGED <<homeVars, backouts, n, mem, published, ghostVars, txs>>

\* The home is looked up, and recorded as absent before it is created.
Prepare ==
    /\ pc = "prepare" /\ txs < MaxTx
    /\ txs' = txs + 1
    /\ Save([tx |-> txs + 1, phase |-> "prepared", expected |-> mem.expected,
             fresh |-> ~dir],
            IF dir THEN "copy" ELSE "make_home", "idle")
    /\ n' = 1
    /\ prior' = home /\ touched' = (touched /\ journal' = journal)
    /\ UNCHANGED <<homeVars, backouts, published>>

\* PrepareTargetHome
MakeHome ==
    /\ pc = "make_home"
    /\ \/ dir' = TRUE /\ NoFault /\ Goto("copy")
       \/ Fault /\ dir' \in {dir, TRUE} /\ Goto("idle")
    /\ UNCHANGED <<home, litter, journal, backouts, n, mem, published, ghostVars, txs>>

\* recheckTargetHome: a home that is gone or lies elsewhere ends the call.
HomeChanged ==
    /\ pc \in {"write", "verify"} \/ (pc = "copy" /\ n = 1)
    /\ ~dir
    /\ Goto("idle")
    /\ UNCHANGED <<homeVars, journal, backouts, n, mem, published, ghostVars, txs, used>>

\* CreateBackout: the files are copied one by one, the manifest is written last,
\* and what was made of a failed backout is removed again if it can be.
Copy ==
    /\ pc = "copy" /\ (n = 1 => dir)
    /\ \/ /\ backouts' = [backouts EXCEPT
                 ![mem.tx] = [state |-> "partial", of |-> [@.of EXCEPT ![Order[n]] = home[Order[n]]]]]
          /\ NoFault
          /\ IF n < 3 THEN n' = n + 1 /\ Goto("copy") ELSE n' = n /\ Goto("manifest")
       \/ /\ Fault /\ UNCHANGED n /\ Goto("idle")
          /\ backouts' \in {[backouts EXCEPT ![mem.tx] = NoBackout],
                            [backouts EXCEPT ![mem.tx].state = "partial"]}
    /\ UNCHANGED <<homeVars, journal, mem, published, ghostVars, txs>>

\* Mutant: a backout that could not be made does not stop the publish.
ManifestRegardless ==
    /\ pc = "manifest"
    /\ n' = 0
    /\ \/ backouts' = [backouts EXCEPT ![mem.tx].state = "whole"] /\ NoFault /\ Goto("advance")
       \/ backouts' = [backouts EXCEPT ![mem.tx] = NoBackout] /\ Fault /\ Goto("advance")
    /\ UNCHANGED <<homeVars, journal, mem, published, ghostVars, txs>>

Manifest ==
    /\ pc = "manifest"
    /\ n' = 0
    /\ \/ backouts' = [backouts EXCEPT ![mem.tx].state = "whole"] /\ NoFault /\ Goto("advance")
       \/ /\ Fault /\ Goto("idle")
          /\ \/ backouts' = [backouts EXCEPT ![mem.tx] = NoBackout]
             \/ \E s \in {"partial", "whole"} : backouts' = [backouts EXCEPT ![mem.tx].state = s]
    /\ UNCHANGED <<homeVars, journal, mem, published, ghostVars, txs>>

\* advance to the phase of n published files.  Where it fails decides whether
\* the publish is rolled back: not before a file was written, and not once all
\* of them are what they should be.
Advance ==
    /\ pc = "advance"
    /\ n' = IF n < 3 THEN n + 1 ELSE n
    /\ Save([mem EXCEPT !.phase = Published[n]],
            IF n < 3 THEN "write" ELSE "verify",
            IF n = 0 \/ (n = 3 /\ AllTarget(mem)) THEN "idle" ELSE "classify")
    /\ UNCHANGED <<homeVars, backouts, published, ghostVars, txs>>

Write ==
    /\ pc = "write" /\ dir
    /\ PutFile(Order[n], mem.expected[Order[n]], "advance", "classify")
    /\ UNCHANGED <<litter, journal, backouts, n, mem, published, ghostVars, txs>>

Verify ==
    /\ pc = "verify" /\ dir
    /\ \/ NoFault /\ Goto(IF AllTarget(mem) THEN "save_verified" ELSE "classify")
       \/ Fault /\ Goto("classify")
    /\ UNCHANGED <<homeVars, journal, backouts, n, mem, published, ghostVars, txs>>

SaveVerified ==
    /\ pc = "save_verified"
    /\ Save([mem EXCEPT !.phase = "verified"], "complete", "idle")
    /\ UNCHANGED <<homeVars, backouts, n, published, ghostVars, txs>>

\* From here on the publish has succeeded, whatever becomes of the cleanup.
Complete ==
    /\ pc = "complete"
    /\ Save([mem EXCEPT !.phase = "completed"], "clean_backout", "idle")
    /\ published' = (pc' = "clean_backout")
    /\ UNCHANGED <<homeVars, backouts, n, ghostVars, txs>>

\* Mutant: the record goes even if the backout cannot be removed.
CleanBackoutRegardless ==
    /\ pc = "clean_backout" /\ DeleteBackout("clean_journal", "clean_journal")
    /\ UNCHANGED <<homeVars, journal, n, mem, published, ghostVars, txs>>

\* The backout goes first, so that it never outlives its record.
CleanBackout ==
    /\ pc = "clean_backout" /\ DeleteBackout("clean_journal", "idle")
    /\ UNCHANGED <<homeVars, journal, n, mem, published, ghostVars, txs>>

CleanJournal ==
    /\ pc = "clean_journal" /\ DeleteJournal("idle", "idle")
    /\ UNCHANGED <<homeVars, backouts, n, mem, published, ghostVars, txs>>

-----------------------------------------------------------------------------
(* rollback                                                                *)

Unreadable(t) == backouts[t].state \in {"none", "partial"}

\* The record is read again, since memory may be ahead of a failed write.
Classify ==
    /\ pc = "classify"
    /\ mem' = journal /\ n' = 3
    /\ LET j == journal
           refused == \/ ~dir \/ j.phase \in {"rolled_back", "rollback_failed"}
                      \/ backouts[j.tx].state = "tampered"
                      \/ ~Unreadable(j.tx) /\ ~NoOther(j)
       IN \/ /\ NoFault
             /\ Goto(IF refused THEN "idle"
                     ELSE IF Unreadable(j.tx) THEN "failed"
                     ELSE IF j.phase = "rollback_required" THEN "restore" ELSE "mark")
          \/ Fault /\ pc' \in {"idle", "failed"}
    /\ UNCHANGED <<homeVars, journal, backouts, published, ghostVars, txs>>

Mark ==
    /\ pc = "mark"
    /\ Save([mem EXCEPT !.phase = "rollback_required"], "restore", "idle")
    /\ UNCHANGED <<homeVars, backouts, n, published, ghostVars, txs>>

\* restoreFile, last file first.
Restore ==
    /\ pc = "restore"
    /\ LET f == Order[n]
           was == backouts[mem.tx].of[f]
       IN IF was # Absent /\ backouts[mem.tx].state # "whole"
          THEN Goto("failed") /\ UNCHANGED <<home, dir, n, used>>
          ELSE /\ n' = IF n > 1 THEN n - 1 ELSE n
               /\ PutFile(f, was, IF n > 1 THEN "restore"
                                  ELSE IF mem.fresh THEN "leave_home" ELSE "rolled_back",
                          "failed")
    /\ UNCHANGED <<litter, journal, backouts, mem, published, ghostVars, txs>>

\* A home this transaction created is removed, if nothing else is in it.
LeaveHome ==
    /\ pc = "leave_home"
    /\ \/ dir /\ ~HomeEmpty /\ NoFault /\ Goto("failed") /\ UNCHANGED dir
       \/ (dir => HomeEmpty) /\ NoFault /\ Goto("rolled_back") /\ dir' = FALSE
       \/ Fault /\ Goto("failed") /\ UNCHANGED dir
    /\ UNCHANGED <<home, litter, journal, backouts, n, mem, published, ghostVars, txs>>

RolledBack ==
    /\ pc = "rolled_back"
    /\ Save([mem EXCEPT !.phase = "rolled_back"], "clean_backout", "idle")
    /\ UNCHANGED <<homeVars, backouts, n, published, ghostVars, txs>>

\* markRollbackFailed: a best effort.
Failed ==
    /\ pc = "failed"
    /\ Save([mem EXCEPT !.phase = "rollback_failed"], "idle", "idle")
    /\ UNCHANGED <<homeVars, backouts, n, published, ghostVars, txs>>

-----------------------------------------------------------------------------
(* ReconcileStartup: the phases it does not find in this table (no record, *)
(* rollback_failed), a home that is not there, a backout somebody changed  *)
(* and a file that is neither the old nor the new one leave all as it is.  *)

\* Phases that are settled without a look at the files.
ReconcileSettled ==
    /\ pc = "idle" /\ journal.phase \in Terminal \cup {"prepared"}
    /\ mem' = journal
    /\ Goto(IF journal.fresh /\ journal.phase \in {"prepared", "rolled_back"}
            THEN "forget_home" ELSE "clean_backout")
    /\ UNCHANGED <<homeVars, journal, backouts, n, published, ghostVars, txs, used>>

Undecided == {Published[k] : k \in 0..3} \cup {"verified", "rollback_required"}

\* Without a backout there is only forward; with one, the files decide.
ReconcileUndecided ==
    /\ pc = "idle" /\ journal.phase \in Undecided /\ dir
    /\ mem' = journal
    /\ \/ /\ \/ Unreadable(journal.tx) /\ NoFault
             \/ backouts[journal.tx].state = "whole" /\ Fault
          /\ AllTarget(journal) /\ Goto("promote")
       \/ /\ backouts[journal.tx].state = "whole" /\ NoFault /\ NoOther(journal)
          /\ Goto(IF AllTarget(journal) THEN "promote"
                  ELSE IF AllPrevious(journal) THEN "discard" ELSE "classify")
    /\ UNCHANGED <<homeVars, journal, backouts, n, published, ghostVars, txs>>

\* removeTargetForReconcile: its failure matters to a prepared record only.
ForgetHome ==
    /\ pc = "forget_home"
    /\ \/ (dir => HomeEmpty) /\ dir' = FALSE /\ NoFault /\ Goto("clean_backout")
       \/ /\ (dir /\ ~HomeEmpty /\ NoFault) \/ Fault
          /\ UNCHANGED dir
          /\ Goto(IF mem.phase = "prepared" THEN "idle" ELSE "clean_backout")
    /\ UNCHANGED <<home, litter, journal, backouts, n, mem, published, ghostVars, txs>>

\* complete: the files are verified once more.
Promote ==
    /\ pc = "promote"
    /\ IF AllTarget(mem)
       THEN Save([mem EXCEPT !.phase = "verified"], "promoted", "idle")
       ELSE Goto("idle") /\ NoFault /\ UNCHANGED <<mem, journal>>
    /\ UNCHANGED <<homeVars, backouts, n, published, ghostVars, txs>>

Promoted ==
    /\ pc = "promoted"
    /\ Save([mem EXCEPT !.phase = "completed"], "clean_backout", "idle")
    /\ UNCHANGED <<homeVars, backouts, n, published, ghostVars, txs>>

\* discardAfterBackout
Discard ==
    /\ pc = "discard"
    /\ Save([mem EXCEPT !.phase = "discarded"], "clean_backout", "idle")
    /\ UNCHANGED <<homeVars, backouts, n, published, ghostVars, txs>>

-----------------------------------------------------------------------------
(* Others, and the end of the process.                                     *)

Edit ==
    /\ used.edits < MaxEdits
    /\ used' = [used EXCEPT !.edits = @ + 1]
    /\ touched' = TRUE
    /\ UNCHANGED <<journal, callVars, prior, txs>>

\* Another program writes or removes a file, or the whole home.
EditHome ==
    /\ Edit
    /\ \/ \E f \in Files : \E v \in Contents \ {home[f]} :
            /\ home' = [home EXCEPT ![f] = v]
            /\ dir' = (dir \/ v # Absent)
            /\ UNCHANGED litter
       \/ /\ dir /\ dir' = FALSE /\ home' = NoFiles /\ litter' = FALSE
    /\ UNCHANGED backouts

\* ... or a file of a backout.
EditBackout ==
    /\ Edit
    /\ \E t \in Ids : \E s \in {"partial", "tampered"} :
         /\ backouts[t].state = "whole"
         /\ backouts' = [backouts EXCEPT ![t].state = s]
    /\ UNCHANGED homeVars

\* The process dies; in the middle of AtomicWrite it leaves a temporary file.
PublishCrash ==
    /\ Fault
    /\ pc' = "idle" /\ published' = FALSE
    /\ litter' \in {litter, litter \/ (dir /\ pc \in {"write", "restore"})}
    /\ UNCHANGED <<home, dir, journal, backouts, n, mem, ghostVars, txs>>

PublishSteps ==
    \/ RetireBackout \/ RetireJournal \/ Prepare \/ MakeHome \/ HomeChanged
    \/ Copy \/ Manifest \/ Advance \/ Write \/ Verify \/ SaveVerified \/ Complete
    \/ CleanBackout \/ CleanJournal
RollbackSteps == Classify \/ Mark \/ Restore \/ LeaveHome \/ RolledBack \/ Failed
ReconcileSteps ==
    ReconcileSettled \/ ReconcileUndecided \/ ForgetHome \/ Promote \/ Promoted \/ Discard

PublishNext ==
    \/ \E in \in Inputs : Begin(in)
    \/ Refuse \/ PublishSteps \/ RollbackSteps \/ ReconcileSteps
    \/ EditHome \/ EditBackout \/ PublishCrash

PublishSpec == PublishInit /\ [][PublishNext]_publishVars

-----------------------------------------------------------------------------
Open == journal.phase \notin Terminal \cup {"none"}

\* A transaction directory, which may hold the old auth.json, never outlives the
\* record that leads to it.
BackoutNeverOrphaned ==
    \A t \in Ids :
        backouts[t].state # "none" => journal.tx = t /\ journal.phase # "none"

\* Whatever a call left behind, startup can settle: the home is there, no file
\* is anything but the old or the new one, and the old ones are in the backout.
InterruptedCanBeSettled ==
    pc = "idle" /\ journal.phase \in Undecided /\ ~touched /\ ~journal.fresh =>
        /\ dir /\ NoOther(journal)
        /\ backouts[journal.tx] = [state |-> "whole", of |-> prior]

\* A transaction begins when nothing is left of the one before.
OneTransactionAtATime ==
    [][journal'.phase # "none" /\ journal'.tx # journal.tx =>
         /\ journal.phase = "none"
         /\ \A t \in Ids : backouts[t].state = "none"]_publishVars

\* The three files change together or not at all.
A == INSTANCE AtomicHome WITH
       files <- IF Open THEN prior ELSE home,
       offer <- IF Open THEN {journal.expected} ELSE {},
       meddled <- touched
KeepsAtomicHome == A!Spec
=============================================================================
