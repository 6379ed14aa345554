----------------------- MODULE PublishRecoveryProofs ------------------------
(***************************************************************************)
(* A Codex home is replaced as a whole or not at all, what a publish left  *)
(* behind can be settled, and a terminal runs on the home that was         *)
(* published for it: for any contents, and any number of transactions,     *)
(* faults, crashes and edits.                                              *)
(***************************************************************************)
EXTENDS CodexLauncher, TLAPS

USE VersionsAssumption, BoundsAssumption

-----------------------------------------------------------------------------
(* The inductive invariant.                                                *)

\* Where a call works on the record that is on disk.
Working == Pcs \ {"idle", "prepare", "retire_backout", "retire_journal"}

\* Where the files may be between the old and the new.
Between == {"write", "verify", "save_verified", "complete", "promote", "promoted", "discard"}
           \cup RollbackPcs

\* A call works on the record on disk, in a phase that fits its step.
CallOK ==
    /\ journal.phase # "none" => journal.tx \in Ids
    /\ pc = "prepare" => journal.phase = "none"
    /\ pc \notin {"idle", "prepare"} => journal.phase # "none" /\ mem.tx = journal.tx
    /\ pc \in Working => mem.expected = journal.expected /\ mem.fresh = journal.fresh
    /\ pc \in {"make_home", "copy", "manifest"} => journal.phase = "prepared"
    /\ pc = "advance" => \/ journal.phase = "prepared" /\ n = 0
                         \/ journal.phase \in Undecided /\ n \in 1..3
    /\ pc \in Between => journal.phase \in Undecided
    /\ pc \in {"retire_backout", "retire_journal"} => journal.phase \in Terminal
    /\ pc \in {"clean_backout", "clean_journal"} => journal.phase \in Terminal \cup {"prepared"}
    /\ pc = "forget_home" => journal.fresh /\ journal.phase \in {"prepared", "rolled_back"}
    /\ pc = "leave_home" => mem.fresh
    /\ pc \in {"copy", "write", "restore"} => n \in 1..3
    /\ pc = "make_home" => n = 1
    /\ pc = "mark" => n = 3

\* A record is only given up once its backout is gone.
BackoutOK ==
    /\ BackoutNeverOrphaned
    /\ pc \in {"clean_journal", "retire_journal"} => backouts[journal.tx].state = "none"

\* The old files are in the backout before the first of them is replaced.
Secured == backouts[journal.tx] = [state |-> "whole", of |-> prior]

\* Where the home is, unless somebody else wrote it.
HomeOK ==
    ~touched =>
        /\ journal.phase = "prepared" => home = prior
        /\ journal.phase \in Undecided =>
             Secured /\ \A f \in Files : home[f] \in {journal.expected[f], prior[f]}
        /\ pc = "copy" => \A k \in 1..3 :
             k < n => backouts[journal.tx].of[Order[k]] = prior[Order[k]]
        /\ pc = "manifest" => backouts[journal.tx].of = prior
        /\ pc = "advance" /\ n = 0 => Secured
        /\ pc \in {"save_verified", "complete", "promoted"} => home = journal.expected
        /\ pc = "restore" => \A k \in 1..3 : k > n => home[Order[k]] = prior[Order[k]]
        /\ pc \in {"leave_home", "rolled_back", "discard"} => home = prior
        /\ journal.phase \in Undecided \cup {"prepared"} /\ ~journal.fresh => dir

PublishInv == TypeOK /\ CallOK /\ BackoutOK /\ HomeOK

\* A publish that has succeeded leaves its files and at most a finished record.
PublishedOK ==
    published =>
        /\ journal.phase \in {"none", "completed"}
        /\ pc \in {"idle", "clean_backout", "clean_journal"}
        /\ ~touched => home = mem.expected
        /\ journal.phase = "completed" => journal.expected = mem.expected

\* A terminal is started on a published home, and belongs to the launch that
\* registers it or to the run that is registered.
LauncherOK ==
    /\ stage = "start" => published
    /\ term = "alive" => published /\ stage \notin {"stage_files", "publish", "start"}
    /\ term # "none" => stage = "register" \/ (run /\ status \in {"running", "stopping"})
    /\ stage \in {"stage_files", "publish", "start", "register"} => ~run /\ status = "starting"
    /\ run => status \in {"running", "stopping"}

IInv == PublishInv /\ LauncherTypeOK /\ PublishedOK /\ LauncherOK

-----------------------------------------------------------------------------
(* The effects.                                                            *)

\* Order lists the files, each once.
LEMMA OrderFacts ==
    /\ \A k \in 1..3 : Order[k] \in Files
    /\ Files = {Order[1], Order[2], Order[3]}
    /\ Order[1] # Order[2] /\ Order[1] # Order[3] /\ Order[2] # Order[3]
<1>1. Order[1] = "catalog" /\ Order[2] = "auth" /\ Order[3] = "config"
  BY DEF Order
<1>. QED BY <1>1 DEF Files

\* Two homes with the same files are the same.
LEMMA SameHome ==
    ASSUME NEW a \in Homes, NEW b \in Homes, \A f \in Files : a[f] = b[f]
    PROVE  a = b
BY DEF Homes

\* A fault stays inside the bound.
LEMMA FaultType == ASSUME TypeOK, Fault \/ NoFault PROVE used' \in Budget
BY DEF TypeOK, Fault, NoFault, Budget

\* A record that is saved is in memory, and on disk unless that failed.
LEMMA SaveEffect ==
    ASSUME TypeOK, NEW j \in Journal, NEW ok, NEW failed, Save(j, ok, failed)
    PROVE  /\ mem' = j /\ (journal' = journal \/ journal' = j)
           /\ (pc' = ok /\ journal' = j) \/ pc' = failed
           /\ used' \in Budget
BY FaultType DEF Save, Goto

\* Writing or removing one file of the home leaves the others alone.
LEMMA PutFileEffect ==
    ASSUME TypeOK, NEW f \in Files, NEW c \in Contents, NEW ok, NEW failed,
           PutFile(f, c, ok, failed)
    PROVE  /\ home' \in Homes /\ dir' \in BOOLEAN /\ (dir => dir')
           /\ \A g \in Files : g # f => home'[g] = home[g]
           /\ home'[f] = home[f] \/ home'[f] = c
           /\ (pc' = ok /\ home'[f] = c) \/ pc' = failed
           /\ used' \in Budget
<1>1. home' = home \/ home' = [home EXCEPT ![f] = c]
  BY DEF PutFile
<1>2. used' \in Budget
  BY FaultType DEF PutFile
<1>3. (pc' = ok /\ home' = [home EXCEPT ![f] = c]) \/ pc' = failed
  BY DEF PutFile, Goto
<1>4. home \in Homes /\ dir \in BOOLEAN
  BY DEF TypeOK
<1>5. dir' = (dir \/ c # Absent)
  BY DEF PutFile
<1>. QED BY <1>1, <1>2, <1>3, <1>4, <1>5 DEF Homes

\* Removing a backout touches no other, and succeeds or says so.
LEMMA DeleteBackoutEffect ==
    ASSUME TypeOK, mem.tx \in Ids, NEW ok, NEW failed, DeleteBackout(ok, failed)
    PROVE  /\ backouts' \in [Ids -> Backout]
           /\ \A t \in Ids : t # mem.tx => backouts'[t] = backouts[t]
           /\ backouts[mem.tx].state = "none" => backouts'[mem.tx].state = "none"
           /\ (pc' = ok /\ backouts'[mem.tx].state = "none") \/ pc' = failed
           /\ used' \in Budget
<1>1. used' \in Budget
  BY FaultType DEF DeleteBackout
<1>2. NoBackout \in Backout /\ NoBackout.state = "none"
  BY DEF NoBackout, Backout, NoFiles, Homes, Contents
<1>3. \/ backouts' = [backouts EXCEPT ![mem.tx] = NoBackout] /\ pc' = ok
      \/ pc' = failed /\ backouts' = backouts
      \/ /\ pc' = failed /\ backouts[mem.tx].state # "none"
         /\ backouts' = [backouts EXCEPT ![mem.tx].state = "partial"]
  BY DEF DeleteBackout, Goto
<1>4. backouts \in [Ids -> Backout]
  BY DEF TypeOK
<1>5. [backouts[mem.tx] EXCEPT !.state = "partial"] \in Backout
  BY <1>4 DEF Backout
<1>. QED BY <1>1, <1>2, <1>3, <1>4, <1>5

\* A record that is removed is gone, or still what it was.
LEMMA DeleteJournalEffect ==
    ASSUME TypeOK, NEW ok, NEW failed, DeleteJournal(ok, failed)
    PROVE  /\ (pc' = ok /\ journal' = NoJournal) \/ (pc' = failed /\ journal' = journal)
           /\ used' \in Budget
BY FaultType DEF DeleteJournal, Goto

\* No record is a record.
LEMMA NoJournalType == NoJournal \in Journal /\ NoJournal.phase = "none"
BY DEF NoJournal, Journal, Phases, NoFiles, Homes, Contents

\* The phases of a publish that counts its files.
LEMMA PublishedFacts ==
    /\ \A k \in 0..3 : Published[k] \in Undecided
    /\ Undecided = {"backout_copied", "catalog_published", "auth_published",
                    "config_published", "verified", "rollback_required"}
<1>1. /\ Published[0] = "backout_copied" /\ Published[1] = "catalog_published"
      /\ Published[2] = "auth_published" /\ Published[3] = "config_published"
  BY DEF Published
<1>2. 0..3 = {0, 1, 2, 3}
  OBVIOUS
<1>. QED BY <1>1, <1>2 DEF Undecided

\* No phase is in two of the groups.
LEMMA PhaseFacts ==
    /\ Undecided \cap Terminal = {} /\ "none" \notin Undecided /\ "prepared" \notin Undecided
    /\ "rollback_failed" \notin Undecided
    /\ Undecided \subseteq Phases /\ Terminal \subseteq Phases
    /\ "none" \notin Terminal /\ "prepared" \notin Terminal /\ "rollback_failed" \notin Terminal
    /\ Terminal = {"completed", "rolled_back", "discarded"}
    /\ {"verified", "rollback_required"} \subseteq Undecided
    /\ {"none", "prepared", "verified", "rollback_required", "rollback_failed"} \subseteq Phases
BY PublishedFacts DEF Terminal, Phases, Undecided

-----------------------------------------------------------------------------
(* Every effect keeps PublishInv.                                          *)

\* A publish that is refused changes nothing.
LEMMA RefuseKeeps ==
    ASSUME PublishInv, Refuse PROVE PublishInv'
<1>. USE DEF PublishInv
<1>1. TypeOK'
  BY FaultType, PhaseFacts DEF TypeOK, Pcs, PublishPcs, RollbackPcs, ReconcilePcs, Goto,
     Journal, Refuse, homeVars, ghostVars
<1>2. CallOK'
  BY PhaseFacts DEF TypeOK, CallOK, Working, Between, Pcs, PublishPcs, RollbackPcs,
     ReconcilePcs, Goto, Journal, Refuse, homeVars, ghostVars
<1>3. BackoutOK'
  BY PhaseFacts DEF TypeOK, CallOK, BackoutOK, BackoutNeverOrphaned, Goto, Refuse, homeVars,
     ghostVars
<1>4. HomeOK'
  BY PhaseFacts DEF TypeOK, CallOK, HomeOK, Secured, Goto, Between, RollbackPcs, Working,
     Refuse, homeVars, ghostVars
<1>. QED BY <1>1, <1>2, <1>3, <1>4 DEF PublishInv

\* The old backout is removed before its record.
LEMMA RetireBackoutKeeps ==
    ASSUME PublishInv, RetireBackout PROVE PublishInv'
<1>. USE DEF PublishInv
<1>1. mem.tx \in Ids /\ mem.tx = journal.tx
  BY DEF CallOK, RetireBackout
<1>2. /\ backouts' \in [Ids -> Backout]
      /\ \A t \in Ids : t # mem.tx => backouts'[t] = backouts[t]
      /\ backouts[mem.tx].state = "none" => backouts'[mem.tx].state = "none"
      /\ (pc' = "retire_journal" /\ backouts'[mem.tx].state = "none") \/ pc' = "idle"
      /\ used' \in Budget
  BY <1>1, DeleteBackoutEffect DEF RetireBackout
<1>3. TypeOK'
  BY <1>1, <1>2, PhaseFacts DEF TypeOK, Pcs, PublishPcs, RollbackPcs, ReconcilePcs, Goto,
     Journal, RetireBackout, homeVars, ghostVars
<1>4. CallOK'
  BY <1>1, <1>2, PhaseFacts DEF TypeOK, CallOK, Working, Between, Pcs, PublishPcs,
     RollbackPcs, ReconcilePcs, Goto, Journal, RetireBackout, homeVars, ghostVars
<1>5. BackoutOK'
  BY <1>1, <1>2, PhaseFacts DEF TypeOK, CallOK, BackoutOK, BackoutNeverOrphaned, Goto,
     RetireBackout, homeVars, ghostVars
<1>6. HomeOK'
  BY <1>1, <1>2, PhaseFacts DEF TypeOK, CallOK, HomeOK, Secured, Goto, Between, RollbackPcs,
     Working, RetireBackout, homeVars, ghostVars
<1>. QED BY <1>3, <1>4, <1>5, <1>6 DEF PublishInv

\* The backout is removed before its record.
LEMMA CleanBackoutKeeps ==
    ASSUME PublishInv, CleanBackout PROVE PublishInv'
<1>. USE DEF PublishInv
<1>1. mem.tx \in Ids /\ mem.tx = journal.tx
  BY DEF CallOK, CleanBackout
<1>2. /\ backouts' \in [Ids -> Backout]
      /\ \A t \in Ids : t # mem.tx => backouts'[t] = backouts[t]
      /\ backouts[mem.tx].state = "none" => backouts'[mem.tx].state = "none"
      /\ (pc' = "clean_journal" /\ backouts'[mem.tx].state = "none") \/ pc' = "idle"
      /\ used' \in Budget
  BY <1>1, DeleteBackoutEffect DEF CleanBackout
<1>3. TypeOK'
  BY <1>1, <1>2, PhaseFacts DEF TypeOK, Pcs, PublishPcs, RollbackPcs, ReconcilePcs, Goto,
     Journal, CleanBackout, homeVars, ghostVars
<1>4. CallOK'
  BY <1>1, <1>2, PhaseFacts DEF TypeOK, CallOK, Working, Between, Pcs, PublishPcs,
     RollbackPcs, ReconcilePcs, Goto, Journal, CleanBackout, homeVars, ghostVars
<1>5. BackoutOK'
  BY <1>1, <1>2, PhaseFacts DEF TypeOK, CallOK, BackoutOK, BackoutNeverOrphaned, Goto,
     CleanBackout, homeVars, ghostVars
<1>6. HomeOK'
  BY <1>1, <1>2, PhaseFacts DEF TypeOK, CallOK, HomeOK, Secured, Goto, Between, RollbackPcs,
     Working, CleanBackout, homeVars, ghostVars
<1>. QED BY <1>3, <1>4, <1>5, <1>6 DEF PublishInv

\* The record of a finished publish goes last.
LEMMA RetireJournalKeeps ==
    ASSUME PublishInv, RetireJournal PROVE PublishInv'
<1>. USE DEF PublishInv
<1>1. /\ (pc' = "prepare" /\ journal' = NoJournal) \/ (pc' = "idle" /\ journal' = journal)
      /\ used' \in Budget
  BY DeleteJournalEffect DEF RetireJournal
<1>2. /\ NoJournal \in Journal /\ NoJournal.phase = "none"
  BY NoJournalType
<1>3. TypeOK'
  BY <1>1, <1>2, PhaseFacts DEF TypeOK, Pcs, PublishPcs, RollbackPcs, ReconcilePcs, Goto,
     Journal, RetireJournal, homeVars, ghostVars
<1>4. CallOK'
  BY <1>1, <1>2, PhaseFacts DEF TypeOK, CallOK, Working, Between, Pcs, PublishPcs,
     RollbackPcs, ReconcilePcs, Goto, Journal, RetireJournal, homeVars, ghostVars
<1>5. BackoutOK'
  BY <1>1, <1>2, PhaseFacts DEF TypeOK, CallOK, BackoutOK, BackoutNeverOrphaned, Goto,
     RetireJournal, homeVars, ghostVars
<1>6. HomeOK'
  BY <1>1, <1>2, PhaseFacts DEF TypeOK, CallOK, HomeOK, Secured, Goto, Between, RollbackPcs,
     Working, RetireJournal, homeVars, ghostVars
<1>. QED BY <1>3, <1>4, <1>5, <1>6 DEF PublishInv

\* The record of a finished publish goes last.
LEMMA CleanJournalKeeps ==
    ASSUME PublishInv, CleanJournal PROVE PublishInv'
<1>. USE DEF PublishInv
<1>1. /\ (pc' = "idle" /\ journal' = NoJournal) \/ (pc' = "idle" /\ journal' = journal)
      /\ used' \in Budget
  BY DeleteJournalEffect DEF CleanJournal
<1>2. /\ NoJournal \in Journal /\ NoJournal.phase = "none"
  BY NoJournalType
<1>3. TypeOK'
  BY <1>1, <1>2, PhaseFacts DEF TypeOK, Pcs, PublishPcs, RollbackPcs, ReconcilePcs, Goto,
     Journal, CleanJournal, homeVars, ghostVars
<1>4. CallOK'
  BY <1>1, <1>2, PhaseFacts DEF TypeOK, CallOK, Working, Between, Pcs, PublishPcs,
     RollbackPcs, ReconcilePcs, Goto, Journal, CleanJournal, homeVars, ghostVars
<1>5. BackoutOK'
  BY <1>1, <1>2, PhaseFacts DEF TypeOK, CallOK, BackoutOK, BackoutNeverOrphaned, Goto,
     CleanJournal, homeVars, ghostVars
<1>6. HomeOK'
  BY <1>1, <1>2, PhaseFacts DEF TypeOK, CallOK, HomeOK, Secured, Goto, Between, RollbackPcs,
     Working, CleanJournal, homeVars, ghostVars
<1>. QED BY <1>3, <1>4, <1>5, <1>6 DEF PublishInv

\* A publish begins with a finished record, or none.
LEMMA BeginKeeps ==
    ASSUME PublishInv, NEW in \in Inputs, Begin(in) PROVE PublishInv'
<1>. USE DEF PublishInv
<1>1. TypeOK'
  BY FaultType, PhaseFacts DEF TypeOK, Pcs, PublishPcs, RollbackPcs, ReconcilePcs, Goto,
     Journal, homeVars, ghostVars, Begin, Inputs, Homes
<1>2. CallOK'
  BY PhaseFacts DEF TypeOK, CallOK, Working, Between, Pcs, PublishPcs, RollbackPcs,
     ReconcilePcs, Goto, Journal, homeVars, ghostVars, Begin, Inputs, Homes
<1>3. BackoutOK'
  BY PhaseFacts DEF TypeOK, CallOK, BackoutOK, BackoutNeverOrphaned, Goto, homeVars,
     ghostVars, Begin, Inputs, Homes
<1>4. HomeOK'
  BY PhaseFacts DEF TypeOK, CallOK, HomeOK, Secured, Goto, Between, RollbackPcs, Working,
     homeVars, ghostVars, Begin, Inputs, Homes
<1>. QED BY <1>1, <1>2, <1>3, <1>4 DEF PublishInv

\* A new home is empty.
LEMMA MakeHomeKeeps ==
    ASSUME PublishInv, MakeHome PROVE PublishInv'
<1>. USE DEF PublishInv
<1>1. n = 1 /\ n' = 1 /\ (dir => dir') /\ (pc' = "copy" \/ pc' = "idle")
  BY DEF CallOK, MakeHome, Goto, TypeOK
<1>2. 1 \in 1..3 /\ \A k \in 1..3 : ~(k < 1)
  OBVIOUS
<1>3. TypeOK'
  BY <1>1, <1>2, FaultType, PhaseFacts DEF TypeOK, Pcs, PublishPcs, RollbackPcs,
     ReconcilePcs, Goto, Journal, MakeHome, homeVars, ghostVars
<1>4. CallOK'
  BY <1>1, <1>2, PhaseFacts DEF TypeOK, CallOK, Working, Between, Pcs, PublishPcs,
     RollbackPcs, ReconcilePcs, Goto, Journal, MakeHome, homeVars, ghostVars
<1>5. BackoutOK'
  BY <1>1, <1>2, PhaseFacts DEF TypeOK, CallOK, BackoutOK, BackoutNeverOrphaned, Goto,
     MakeHome, homeVars, ghostVars
<1>6. HomeOK'
  BY <1>1, <1>2, PhaseFacts DEF TypeOK, CallOK, HomeOK, Secured, Goto, Between, RollbackPcs,
     Working, MakeHome, homeVars, ghostVars
<1>. QED BY <1>3, <1>4, <1>5, <1>6 DEF PublishInv

\* A call that ends changes nothing.
LEMMA HomeChangedKeeps ==
    ASSUME PublishInv, HomeChanged PROVE PublishInv'
<1>. USE DEF PublishInv
<1>1. TypeOK'
  BY FaultType, PhaseFacts DEF TypeOK, Pcs, PublishPcs, RollbackPcs, ReconcilePcs, Goto,
     Journal, HomeChanged, homeVars, ghostVars
<1>2. CallOK'
  BY PhaseFacts DEF TypeOK, CallOK, Working, Between, Pcs, PublishPcs, RollbackPcs,
     ReconcilePcs, Goto, Journal, HomeChanged, homeVars, ghostVars
<1>3. BackoutOK'
  BY PhaseFacts DEF TypeOK, CallOK, BackoutOK, BackoutNeverOrphaned, Goto, HomeChanged,
     homeVars, ghostVars
<1>4. HomeOK'
  BY PhaseFacts DEF TypeOK, CallOK, HomeOK, Secured, Goto, Between, RollbackPcs, Working,
     HomeChanged, homeVars, ghostVars
<1>. QED BY <1>1, <1>2, <1>3, <1>4 DEF PublishInv

\* Verification reads.
LEMMA VerifyKeeps ==
    ASSUME PublishInv, Verify PROVE PublishInv'
<1>. USE DEF PublishInv
<1>1. AllTarget(mem) => home = mem.expected
  BY SameHome DEF TypeOK, Journal, AllTarget, IsTarget
<1>2. TypeOK'
  BY <1>1, FaultType, PhaseFacts DEF TypeOK, Pcs, PublishPcs, RollbackPcs, ReconcilePcs,
     Goto, Journal, Verify, homeVars, ghostVars
<1>3. CallOK'
  BY <1>1, PhaseFacts DEF TypeOK, CallOK, Working, Between, Pcs, PublishPcs, RollbackPcs,
     ReconcilePcs, Goto, Journal, Verify, homeVars, ghostVars
<1>4. BackoutOK'
  BY <1>1, PhaseFacts DEF TypeOK, CallOK, BackoutOK, BackoutNeverOrphaned, Goto, Verify,
     homeVars, ghostVars
<1>5. HomeOK'
  BY <1>1, PhaseFacts DEF TypeOK, CallOK, HomeOK, Secured, Goto, Between, RollbackPcs,
     Working, Verify, homeVars, ghostVars
<1>. QED BY <1>2, <1>3, <1>4, <1>5 DEF PublishInv

\* Verified is the home that was asked for.
LEMMA SaveVerifiedKeeps ==
    ASSUME PublishInv, SaveVerified PROVE PublishInv'
<1>. USE DEF PublishInv
<1>1. [mem EXCEPT !.phase = "verified"] \in Journal
  BY PhaseFacts DEF TypeOK, Journal
<1>2. /\ mem' = [mem EXCEPT !.phase = "verified"]
      /\ journal' = journal \/ journal' = [mem EXCEPT !.phase = "verified"]
      /\ (pc' = "complete" /\ journal' = [mem EXCEPT !.phase = "verified"])
         \/ pc' = "idle"
      /\ used' \in Budget
  BY <1>1, SaveEffect DEF SaveVerified
<1>3. /\ UNCHANGED <<home, dir, litter, backouts, prior, touched, txs>>
      /\ pc = "save_verified"
  BY DEF SaveVerified, homeVars, ghostVars
<1>4. /\ mem'.tx = mem.tx /\ mem'.expected = mem.expected /\ mem'.fresh = mem.fresh
      /\ mem'.phase = "verified"
  BY <1>2 DEF TypeOK, Journal
<1>5. /\ mem.tx = journal.tx /\ mem.expected = journal.expected /\ mem.fresh = journal.fresh
      /\ journal'.tx = journal.tx /\ journal'.expected = journal.expected
      /\ journal'.fresh = journal.fresh
      /\ journal'.phase = journal.phase \/ journal'.phase = "verified"
      /\ pc' = "complete" => journal'.phase = "verified"
  BY <1>2, <1>4 DEF CallOK, Working, Pcs, PublishPcs, RollbackPcs, ReconcilePcs, SaveVerified
<1>6. TypeOK'
  BY <1>1, <1>2, <1>3, <1>4, <1>5, PhaseFacts DEF TypeOK, Pcs, PublishPcs, RollbackPcs,
     ReconcilePcs, Goto, Journal, SaveVerified
<1>7. CallOK'
  BY <1>2, <1>3, <1>4, <1>5, PhaseFacts DEF CallOK, Working, Between, Pcs, PublishPcs,
     RollbackPcs, ReconcilePcs, SaveVerified
<1>8. BackoutOK'
  BY <1>2, <1>3, <1>4, <1>5, PhaseFacts DEF CallOK, BackoutOK, BackoutNeverOrphaned
<1>9. HomeOK'
  BY <1>2, <1>3, <1>4, <1>5, PhaseFacts DEF TypeOK, CallOK, HomeOK, Secured, Between,
     RollbackPcs, SaveVerified
<1>. QED BY <1>6, <1>7, <1>8, <1>9 DEF PublishInv

\* Completed is the home that was asked for.
LEMMA CompleteKeeps ==
    ASSUME PublishInv, Complete PROVE PublishInv'
<1>. USE DEF PublishInv
<1>1. [mem EXCEPT !.phase = "completed"] \in Journal
  BY PhaseFacts DEF TypeOK, Journal
<1>2. /\ mem' = [mem EXCEPT !.phase = "completed"]
      /\ journal' = journal \/ journal' = [mem EXCEPT !.phase = "completed"]
      /\ (pc' = "clean_backout" /\ journal' = [mem EXCEPT !.phase = "completed"])
         \/ pc' = "idle"
      /\ used' \in Budget
  BY <1>1, SaveEffect DEF Complete
<1>3. /\ UNCHANGED <<home, dir, litter, backouts, prior, touched, txs>>
      /\ pc = "complete"
  BY DEF Complete, homeVars, ghostVars
<1>4. /\ mem'.tx = mem.tx /\ mem'.expected = mem.expected /\ mem'.fresh = mem.fresh
      /\ mem'.phase = "completed"
  BY <1>2 DEF TypeOK, Journal
<1>5. /\ mem.tx = journal.tx /\ mem.expected = journal.expected /\ mem.fresh = journal.fresh
      /\ journal'.tx = journal.tx /\ journal'.expected = journal.expected
      /\ journal'.fresh = journal.fresh
      /\ journal'.phase = journal.phase \/ journal'.phase = "completed"
      /\ pc' = "clean_backout" => journal'.phase = "completed"
  BY <1>2, <1>4 DEF CallOK, Working, Pcs, PublishPcs, RollbackPcs, ReconcilePcs, Complete
<1>6. TypeOK'
  BY <1>1, <1>2, <1>3, <1>4, <1>5, PhaseFacts DEF TypeOK, Pcs, PublishPcs, RollbackPcs,
     ReconcilePcs, Goto, Journal, Complete
<1>7. CallOK'
  BY <1>2, <1>3, <1>4, <1>5, PhaseFacts DEF CallOK, Working, Between, Pcs, PublishPcs,
     RollbackPcs, ReconcilePcs, Complete
<1>8. BackoutOK'
  BY <1>2, <1>3, <1>4, <1>5, PhaseFacts DEF CallOK, BackoutOK, BackoutNeverOrphaned
<1>9. HomeOK'
  BY <1>2, <1>3, <1>4, <1>5, PhaseFacts DEF TypeOK, CallOK, HomeOK, Secured, Between,
     RollbackPcs, Complete
<1>. QED BY <1>6, <1>7, <1>8, <1>9 DEF PublishInv

\* A rollback goes on record before it begins.
LEMMA MarkKeeps ==
    ASSUME PublishInv, Mark PROVE PublishInv'
<1>. USE DEF PublishInv
<1>1. n = 3 /\ 3 \in 1..3 /\ n' = n /\ \A k \in 1..3 : ~(k > 3)
  BY DEF CallOK, Mark
<1>2. [mem EXCEPT !.phase = "rollback_required"] \in Journal
  BY PhaseFacts DEF TypeOK, Journal
<1>3. /\ mem' = [mem EXCEPT !.phase = "rollback_required"]
      /\ journal' = journal \/ journal' = [mem EXCEPT !.phase = "rollback_required"]
      /\ (pc' = "restore" /\ journal' = [mem EXCEPT !.phase = "rollback_required"])
         \/ pc' = "idle"
      /\ used' \in Budget
  BY <1>2, SaveEffect DEF Mark
<1>4. /\ UNCHANGED <<home, dir, litter, backouts, prior, touched, txs>>
      /\ pc = "mark"
  BY DEF Mark, homeVars, ghostVars
<1>5. /\ mem'.tx = mem.tx /\ mem'.expected = mem.expected /\ mem'.fresh = mem.fresh
      /\ mem'.phase = "rollback_required"
  BY <1>3 DEF TypeOK, Journal
<1>6. /\ mem.tx = journal.tx /\ mem.expected = journal.expected /\ mem.fresh = journal.fresh
      /\ journal'.tx = journal.tx /\ journal'.expected = journal.expected
      /\ journal'.fresh = journal.fresh
      /\ journal'.phase = journal.phase \/ journal'.phase = "rollback_required"
      /\ pc' = "restore" => journal'.phase = "rollback_required"
  BY <1>3, <1>5 DEF CallOK, Working, Pcs, PublishPcs, RollbackPcs, ReconcilePcs, Mark
<1>7. TypeOK'
  BY <1>1, <1>2, <1>3, <1>4, <1>5, <1>6, PhaseFacts DEF TypeOK, Pcs, PublishPcs,
     RollbackPcs, ReconcilePcs, Goto, Journal, Mark
<1>8. CallOK'
  BY <1>1, <1>3, <1>4, <1>5, <1>6, PhaseFacts DEF CallOK, Working, Between, Pcs, PublishPcs,
     RollbackPcs, ReconcilePcs, Mark
<1>9. BackoutOK'
  BY <1>3, <1>4, <1>5, <1>6, PhaseFacts DEF CallOK, BackoutOK, BackoutNeverOrphaned
<1>10. HomeOK'
  BY <1>1, <1>3, <1>4, <1>5, <1>6, PhaseFacts DEF TypeOK, CallOK, HomeOK, Secured, Between,
     RollbackPcs, Mark
<1>. QED BY <1>7, <1>8, <1>9, <1>10 DEF PublishInv

\* Rolled back is the home that was there before.
LEMMA RolledBackKeeps ==
    ASSUME PublishInv, RolledBack PROVE PublishInv'
<1>. USE DEF PublishInv
<1>1. [mem EXCEPT !.phase = "rolled_back"] \in Journal
  BY PhaseFacts DEF TypeOK, Journal
<1>2. /\ mem' = [mem EXCEPT !.phase = "rolled_back"]
      /\ journal' = journal \/ journal' = [mem EXCEPT !.phase = "rolled_back"]
      /\ (pc' = "clean_backout" /\ journal' = [mem EXCEPT !.phase = "rolled_back"])
         \/ pc' = "idle"
      /\ used' \in Budget
  BY <1>1, SaveEffect DEF RolledBack
<1>3. /\ UNCHANGED <<home, dir, litter, backouts, prior, touched, txs>>
      /\ pc = "rolled_back"
  BY DEF RolledBack, homeVars, ghostVars
<1>4. /\ mem'.tx = mem.tx /\ mem'.expected = mem.expected /\ mem'.fresh = mem.fresh
      /\ mem'.phase = "rolled_back"
  BY <1>2 DEF TypeOK, Journal
<1>5. /\ mem.tx = journal.tx /\ mem.expected = journal.expected /\ mem.fresh = journal.fresh
      /\ journal'.tx = journal.tx /\ journal'.expected = journal.expected
      /\ journal'.fresh = journal.fresh
      /\ journal'.phase = journal.phase \/ journal'.phase = "rolled_back"
      /\ pc' = "clean_backout" => journal'.phase = "rolled_back"
  BY <1>2, <1>4 DEF CallOK, Working, Pcs, PublishPcs, RollbackPcs, ReconcilePcs, RolledBack
<1>6. TypeOK'
  BY <1>1, <1>2, <1>3, <1>4, <1>5, PhaseFacts DEF TypeOK, Pcs, PublishPcs, RollbackPcs,
     ReconcilePcs, Goto, Journal, RolledBack
<1>7. CallOK'
  BY <1>2, <1>3, <1>4, <1>5, PhaseFacts DEF CallOK, Working, Between, Pcs, PublishPcs,
     RollbackPcs, ReconcilePcs, RolledBack
<1>8. BackoutOK'
  BY <1>2, <1>3, <1>4, <1>5, PhaseFacts DEF CallOK, BackoutOK, BackoutNeverOrphaned
<1>9. HomeOK'
  BY <1>2, <1>3, <1>4, <1>5, PhaseFacts DEF TypeOK, CallOK, HomeOK, Secured, Between,
     RollbackPcs, RolledBack
<1>. QED BY <1>6, <1>7, <1>8, <1>9 DEF PublishInv

\* A rollback that failed stays on record.
LEMMA FailedKeeps ==
    ASSUME PublishInv, Failed PROVE PublishInv'
<1>. USE DEF PublishInv
<1>1. [mem EXCEPT !.phase = "rollback_failed"] \in Journal
  BY PhaseFacts DEF TypeOK, Journal
<1>2. /\ mem' = [mem EXCEPT !.phase = "rollback_failed"]
      /\ journal' = journal \/ journal' = [mem EXCEPT !.phase = "rollback_failed"]
      /\ (pc' = "idle" /\ journal' = [mem EXCEPT !.phase = "rollback_failed"])
         \/ pc' = "idle"
      /\ used' \in Budget
  BY <1>1, SaveEffect DEF Failed
<1>3. /\ UNCHANGED <<home, dir, litter, backouts, prior, touched, txs>>
      /\ pc = "failed"
  BY DEF Failed, homeVars, ghostVars
<1>4. /\ mem'.tx = mem.tx /\ mem'.expected = mem.expected /\ mem'.fresh = mem.fresh
      /\ mem'.phase = "rollback_failed"
  BY <1>2 DEF TypeOK, Journal
<1>5. /\ mem.tx = journal.tx /\ mem.expected = journal.expected /\ mem.fresh = journal.fresh
      /\ journal'.tx = journal.tx /\ journal'.expected = journal.expected
      /\ journal'.fresh = journal.fresh
      /\ journal'.phase = journal.phase \/ journal'.phase = "rollback_failed"
  BY <1>2, <1>4 DEF CallOK, Working, Pcs, PublishPcs, RollbackPcs, ReconcilePcs, Failed
<1>6. TypeOK'
  BY <1>1, <1>2, <1>3, <1>4, <1>5, PhaseFacts DEF TypeOK, Pcs, PublishPcs, RollbackPcs,
     ReconcilePcs, Goto, Journal, Failed
<1>7. CallOK'
  BY <1>2, <1>3, <1>4, <1>5, PhaseFacts DEF CallOK, Working, Between, Pcs, PublishPcs,
     RollbackPcs, ReconcilePcs, Failed
<1>8. BackoutOK'
  BY <1>2, <1>3, <1>4, <1>5, PhaseFacts DEF CallOK, BackoutOK, BackoutNeverOrphaned
<1>9. HomeOK'
  BY <1>2, <1>3, <1>4, <1>5, PhaseFacts DEF TypeOK, CallOK, HomeOK, Secured, Between,
     RollbackPcs, Failed
<1>. QED BY <1>6, <1>7, <1>8, <1>9 DEF PublishInv

\* Promoted is the home that was asked for.
LEMMA PromotedKeeps ==
    ASSUME PublishInv, Promoted PROVE PublishInv'
<1>. USE DEF PublishInv
<1>1. [mem EXCEPT !.phase = "completed"] \in Journal
  BY PhaseFacts DEF TypeOK, Journal
<1>2. /\ mem' = [mem EXCEPT !.phase = "completed"]
      /\ journal' = journal \/ journal' = [mem EXCEPT !.phase = "completed"]
      /\ (pc' = "clean_backout" /\ journal' = [mem EXCEPT !.phase = "completed"])
         \/ pc' = "idle"
      /\ used' \in Budget
  BY <1>1, SaveEffect DEF Promoted
<1>3. /\ UNCHANGED <<home, dir, litter, backouts, prior, touched, txs>>
      /\ pc = "promoted"
  BY DEF Promoted, homeVars, ghostVars
<1>4. /\ mem'.tx = mem.tx /\ mem'.expected = mem.expected /\ mem'.fresh = mem.fresh
      /\ mem'.phase = "completed"
  BY <1>2 DEF TypeOK, Journal
<1>5. /\ mem.tx = journal.tx /\ mem.expected = journal.expected /\ mem.fresh = journal.fresh
      /\ journal'.tx = journal.tx /\ journal'.expected = journal.expected
      /\ journal'.fresh = journal.fresh
      /\ journal'.phase = journal.phase \/ journal'.phase = "completed"
      /\ pc' = "clean_backout" => journal'.phase = "completed"
  BY <1>2, <1>4 DEF CallOK, Working, Pcs, PublishPcs, RollbackPcs, ReconcilePcs, Promoted
<1>6. TypeOK'
  BY <1>1, <1>2, <1>3, <1>4, <1>5, PhaseFacts DEF TypeOK, Pcs, PublishPcs, RollbackPcs,
     ReconcilePcs, Goto, Journal, Promoted
<1>7. CallOK'
  BY <1>2, <1>3, <1>4, <1>5, PhaseFacts DEF CallOK, Working, Between, Pcs, PublishPcs,
     RollbackPcs, ReconcilePcs, Promoted
<1>8. BackoutOK'
  BY <1>2, <1>3, <1>4, <1>5, PhaseFacts DEF CallOK, BackoutOK, BackoutNeverOrphaned
<1>9. HomeOK'
  BY <1>2, <1>3, <1>4, <1>5, PhaseFacts DEF TypeOK, CallOK, HomeOK, Secured, Between,
     RollbackPcs, Promoted
<1>. QED BY <1>6, <1>7, <1>8, <1>9 DEF PublishInv

\* Discarded is a record whose files are the old ones.
LEMMA DiscardKeeps ==
    ASSUME PublishInv, Discard PROVE PublishInv'
<1>. USE DEF PublishInv
<1>1. [mem EXCEPT !.phase = "discarded"] \in Journal
  BY PhaseFacts DEF TypeOK, Journal
<1>2. /\ mem' = [mem EXCEPT !.phase = "discarded"]
      /\ journal' = journal \/ journal' = [mem EXCEPT !.phase = "discarded"]
      /\ (pc' = "clean_backout" /\ journal' = [mem EXCEPT !.phase = "discarded"])
         \/ pc' = "idle"
      /\ used' \in Budget
  BY <1>1, SaveEffect DEF Discard
<1>3. /\ UNCHANGED <<home, dir, litter, backouts, prior, touched, txs>>
      /\ pc = "discard"
  BY DEF Discard, homeVars, ghostVars
<1>4. /\ mem'.tx = mem.tx /\ mem'.expected = mem.expected /\ mem'.fresh = mem.fresh
      /\ mem'.phase = "discarded"
  BY <1>2 DEF TypeOK, Journal
<1>5. /\ mem.tx = journal.tx /\ mem.expected = journal.expected /\ mem.fresh = journal.fresh
      /\ journal'.tx = journal.tx /\ journal'.expected = journal.expected
      /\ journal'.fresh = journal.fresh
      /\ journal'.phase = journal.phase \/ journal'.phase = "discarded"
      /\ pc' = "clean_backout" => journal'.phase = "discarded"
  BY <1>2, <1>4 DEF CallOK, Working, Pcs, PublishPcs, RollbackPcs, ReconcilePcs, Discard
<1>6. TypeOK'
  BY <1>1, <1>2, <1>3, <1>4, <1>5, PhaseFacts DEF TypeOK, Pcs, PublishPcs, RollbackPcs,
     ReconcilePcs, Goto, Journal, Discard
<1>7. CallOK'
  BY <1>2, <1>3, <1>4, <1>5, PhaseFacts DEF CallOK, Working, Between, Pcs, PublishPcs,
     RollbackPcs, ReconcilePcs, Discard
<1>8. BackoutOK'
  BY <1>2, <1>3, <1>4, <1>5, PhaseFacts DEF CallOK, BackoutOK, BackoutNeverOrphaned
<1>9. HomeOK'
  BY <1>2, <1>3, <1>4, <1>5, PhaseFacts DEF TypeOK, CallOK, HomeOK, Secured, Between,
     RollbackPcs, Discard
<1>. QED BY <1>6, <1>7, <1>8, <1>9 DEF PublishInv

\* Only a home without files is left.
LEMMA LeaveHomeKeeps ==
    ASSUME PublishInv, LeaveHome PROVE PublishInv'
<1>. USE DEF PublishInv
<1>1. TypeOK'
  BY FaultType, PhaseFacts DEF TypeOK, Pcs, PublishPcs, RollbackPcs, ReconcilePcs, Goto,
     Journal, LeaveHome, homeVars, ghostVars
<1>2. CallOK'
  BY PhaseFacts DEF TypeOK, CallOK, Working, Between, Pcs, PublishPcs, RollbackPcs,
     ReconcilePcs, Goto, Journal, LeaveHome, homeVars, ghostVars
<1>3. BackoutOK'
  BY PhaseFacts DEF TypeOK, CallOK, BackoutOK, BackoutNeverOrphaned, Goto, LeaveHome,
     homeVars, ghostVars
<1>4. HomeOK'
  BY PhaseFacts DEF TypeOK, CallOK, HomeOK, Secured, Goto, Between, RollbackPcs, Working,
     LeaveHome, homeVars, ghostVars
<1>. QED BY <1>1, <1>2, <1>3, <1>4 DEF PublishInv

\* Startup takes over a record that is settled.
LEMMA ReconcileSettledKeeps ==
    ASSUME PublishInv, ReconcileSettled PROVE PublishInv'
<1>. USE DEF PublishInv
<1>1. TypeOK'
  BY FaultType, PhaseFacts DEF TypeOK, Pcs, PublishPcs, RollbackPcs, ReconcilePcs, Goto,
     Journal, ReconcileSettled, homeVars, ghostVars
<1>2. CallOK'
  BY PhaseFacts DEF TypeOK, CallOK, Working, Between, Pcs, PublishPcs, RollbackPcs,
     ReconcilePcs, Goto, Journal, ReconcileSettled, homeVars, ghostVars
<1>3. BackoutOK'
  BY PhaseFacts DEF TypeOK, CallOK, BackoutOK, BackoutNeverOrphaned, Goto, ReconcileSettled,
     homeVars, ghostVars
<1>4. HomeOK'
  BY PhaseFacts DEF TypeOK, CallOK, HomeOK, Secured, Goto, Between, RollbackPcs, Working,
     ReconcileSettled, homeVars, ghostVars
<1>. QED BY <1>1, <1>2, <1>3, <1>4 DEF PublishInv

\* Startup takes over a record that is not.
LEMMA ReconcileUndecidedKeeps ==
    ASSUME PublishInv, ReconcileUndecided PROVE PublishInv'
<1>. USE DEF PublishInv
<1>1. TypeOK'
  BY FaultType, PhaseFacts DEF TypeOK, Pcs, PublishPcs, RollbackPcs, ReconcilePcs, Goto,
     Journal, ReconcileUndecided, homeVars, ghostVars, AllTarget, IsTarget, AllPrevious,
     IsPrevious, NoOther, Unreadable
<1>2. CallOK'
  BY PhaseFacts DEF TypeOK, CallOK, Working, Between, Pcs, PublishPcs, RollbackPcs,
     ReconcilePcs, Goto, Journal, ReconcileUndecided, homeVars, ghostVars, AllTarget,
     IsTarget, AllPrevious, IsPrevious, NoOther, Unreadable
<1>3. BackoutOK'
  BY PhaseFacts DEF TypeOK, CallOK, BackoutOK, BackoutNeverOrphaned, Goto,
     ReconcileUndecided, homeVars, ghostVars, AllTarget, IsTarget, AllPrevious, IsPrevious,
     NoOther, Unreadable
<1>4. HomeOK'
  BY PhaseFacts, SameHome DEF TypeOK, CallOK, HomeOK, Secured, Goto, Between, RollbackPcs,
     Working, ReconcileUndecided, homeVars, ghostVars, AllTarget, IsTarget, AllPrevious,
     IsPrevious, NoOther, Unreadable
<1>. QED BY <1>1, <1>2, <1>3, <1>4 DEF PublishInv

\* Only a home without files is forgotten.
LEMMA ForgetHomeKeeps ==
    ASSUME PublishInv, ForgetHome PROVE PublishInv'
<1>. USE DEF PublishInv
<1>1. TypeOK'
  BY FaultType, PhaseFacts DEF TypeOK, Pcs, PublishPcs, RollbackPcs, ReconcilePcs, Goto,
     Journal, ForgetHome, homeVars, ghostVars
<1>2. CallOK'
  BY PhaseFacts DEF TypeOK, CallOK, Working, Between, Pcs, PublishPcs, RollbackPcs,
     ReconcilePcs, Goto, Journal, ForgetHome, homeVars, ghostVars
<1>3. BackoutOK'
  BY PhaseFacts DEF TypeOK, CallOK, BackoutOK, BackoutNeverOrphaned, Goto, ForgetHome,
     homeVars, ghostVars
<1>4. HomeOK'
  BY PhaseFacts DEF TypeOK, CallOK, HomeOK, Secured, Goto, Between, RollbackPcs, Working,
     ForgetHome, homeVars, ghostVars
<1>. QED BY <1>1, <1>2, <1>3, <1>4 DEF PublishInv

\* Edits by others are noticed by the ghost.
LEMMA EditHomeKeeps ==
    ASSUME PublishInv, EditHome PROVE PublishInv'
<1>. USE DEF PublishInv
<1>1. used' \in Budget
  BY DEF TypeOK, EditHome, Edit, Budget
<1>2. home' \in Homes /\ dir' \in BOOLEAN /\ litter' \in BOOLEAN
  BY DEF TypeOK, EditHome, Homes, NoFiles, Contents
<1>3. TypeOK'
  BY <1>1, <1>2, <1>1, <1>2, PhaseFacts DEF TypeOK, Pcs, PublishPcs, RollbackPcs,
     ReconcilePcs, Goto, Journal, EditHome, homeVars, ghostVars, Edit, callVars
<1>4. CallOK'
  BY <1>1, <1>2, PhaseFacts DEF TypeOK, CallOK, Working, Between, Pcs, PublishPcs,
     RollbackPcs, ReconcilePcs, Goto, Journal, EditHome, homeVars, ghostVars, Edit, callVars
<1>5. BackoutOK'
  BY <1>1, <1>2, PhaseFacts DEF TypeOK, CallOK, BackoutOK, BackoutNeverOrphaned, Goto,
     EditHome, homeVars, ghostVars, Edit, callVars
<1>6. HomeOK'
  BY <1>1, <1>2, PhaseFacts DEF TypeOK, CallOK, HomeOK, Secured, Goto, Between, RollbackPcs,
     Working, EditHome, homeVars, ghostVars, Edit, callVars
<1>. QED BY <1>3, <1>4, <1>5, <1>6 DEF PublishInv

\* Edits by others are noticed by the ghost.
LEMMA EditBackoutKeeps ==
    ASSUME PublishInv, EditBackout PROVE PublishInv'
<1>. USE DEF PublishInv
<1>1. used' \in Budget
  BY DEF TypeOK, EditBackout, Edit, Budget
<1>2. PICK t \in Ids, s \in {"partial", "tampered"} :
         backouts[t].state = "whole" /\ backouts' = [backouts EXCEPT ![t].state = s]
  BY DEF EditBackout
<1>3. [backouts[t] EXCEPT !.state = s] \in Backout
  BY DEF TypeOK, Backout
<1>4. backouts' \in [Ids -> Backout]
  BY <1>2, <1>3 DEF TypeOK
<1>5. TypeOK'
  BY <1>1, <1>2, <1>3, <1>4, PhaseFacts DEF TypeOK, Pcs, PublishPcs, RollbackPcs,
     ReconcilePcs, Goto, Journal, EditBackout, homeVars, ghostVars, Edit, callVars
<1>6. CallOK'
  BY <1>1, <1>2, <1>3, <1>4, PhaseFacts DEF TypeOK, CallOK, Working, Between, Pcs,
     PublishPcs, RollbackPcs, ReconcilePcs, Goto, Journal, EditBackout, homeVars, ghostVars,
     Edit, callVars
<1>7. BackoutOK'
  BY <1>1, <1>2, <1>3, <1>4, PhaseFacts DEF TypeOK, CallOK, BackoutOK, BackoutNeverOrphaned,
     Goto, EditBackout, homeVars, ghostVars, Edit, callVars
<1>8. HomeOK'
  BY <1>1, <1>2, <1>3, <1>4, PhaseFacts DEF TypeOK, CallOK, HomeOK, Secured, Goto, Between,
     RollbackPcs, Working, EditBackout, homeVars, ghostVars, Edit, callVars
<1>. QED BY <1>5, <1>6, <1>7, <1>8 DEF PublishInv

\* A crash loses the call.
LEMMA PublishCrashKeeps ==
    ASSUME PublishInv, PublishCrash PROVE PublishInv'
<1>. USE DEF PublishInv
<1>1. TypeOK'
  BY FaultType, PhaseFacts DEF TypeOK, Pcs, PublishPcs, RollbackPcs, ReconcilePcs, Goto,
     Journal, PublishCrash, homeVars, ghostVars
<1>2. CallOK'
  BY PhaseFacts DEF TypeOK, CallOK, Working, Between, Pcs, PublishPcs, RollbackPcs,
     ReconcilePcs, Goto, Journal, PublishCrash, homeVars, ghostVars
<1>3. BackoutOK'
  BY PhaseFacts DEF TypeOK, CallOK, BackoutOK, BackoutNeverOrphaned, Goto, PublishCrash,
     homeVars, ghostVars
<1>4. HomeOK'
  BY PhaseFacts DEF TypeOK, CallOK, HomeOK, Secured, Goto, Between, RollbackPcs, Working,
     PublishCrash, homeVars, ghostVars
<1>. QED BY <1>1, <1>2, <1>3, <1>4 DEF PublishInv

\* A rollback reads the record again.
LEMMA ClassifyKeeps ==
    ASSUME PublishInv, Classify PROVE PublishInv'
<1>. USE DEF PublishInv
<1>1. TypeOK'
  BY FaultType, PhaseFacts DEF TypeOK, Pcs, PublishPcs, RollbackPcs, ReconcilePcs, Goto,
     Journal, Classify, homeVars, ghostVars, AllTarget, IsTarget, IsPrevious, NoOther,
     Unreadable
<1>2. CallOK'
  BY PhaseFacts DEF TypeOK, CallOK, Working, Between, Pcs, PublishPcs, RollbackPcs,
     ReconcilePcs, Goto, Journal, Classify, homeVars, ghostVars, AllTarget, IsTarget,
     IsPrevious, NoOther, Unreadable
<1>3. BackoutOK'
  BY PhaseFacts DEF TypeOK, CallOK, BackoutOK, BackoutNeverOrphaned, Goto, Classify,
     homeVars, ghostVars, AllTarget, IsTarget, IsPrevious, NoOther, Unreadable
<1>4. HomeOK'
  BY PhaseFacts DEF TypeOK, CallOK, HomeOK, Secured, Goto, Between, RollbackPcs, Working,
     Classify, homeVars, ghostVars, AllTarget, IsTarget, IsPrevious, NoOther, Unreadable
<1>. QED BY <1>1, <1>2, <1>3, <1>4 DEF PublishInv

\* What startup promotes is the home that was asked for.
LEMMA PromoteKeeps ==
    ASSUME PublishInv, Promote PROVE PublishInv'
<1>. USE DEF PublishInv
<1>1. [mem EXCEPT !.phase = "verified"] \in Journal
  BY PhaseFacts DEF TypeOK, Journal
<1>2. /\ journal' = journal \/ journal' = [mem EXCEPT !.phase = "verified"]
      /\ mem' = mem \/ mem' = [mem EXCEPT !.phase = "verified"]
      /\ \/ /\ pc' = "promoted" /\ AllTarget(mem)
            /\ journal' = [mem EXCEPT !.phase = "verified"] /\ mem' = [mem EXCEPT !.phase = "verified"]
         \/ pc' = "idle"
      /\ used' \in Budget
  BY <1>1, SaveEffect, FaultType DEF Promote, Goto
<1>3. /\ UNCHANGED <<home, dir, litter, backouts, prior, touched, txs>>
      /\ pc = "promote"
  BY DEF Promote, homeVars, ghostVars
<1>4. /\ mem.tx = journal.tx /\ mem.expected = journal.expected /\ mem.fresh = journal.fresh
      /\ mem'.tx = mem.tx /\ mem'.expected = mem.expected /\ mem'.fresh = mem.fresh
      /\ journal'.tx = journal.tx /\ journal'.expected = journal.expected
      /\ journal'.fresh = journal.fresh
      /\ journal'.phase = journal.phase \/ journal'.phase = "verified"
      /\ pc' = "promoted" => journal'.phase = "verified"
  BY <1>2, <1>3 DEF TypeOK, Journal, CallOK, Working, Pcs, PublishPcs, RollbackPcs, ReconcilePcs
<1>5. AllTarget(mem) => home = mem.expected
  BY SameHome DEF TypeOK, Journal, AllTarget, IsTarget
<1>6. TypeOK'
  BY <1>1, <1>2, <1>3, <1>4, <1>5, PhaseFacts DEF TypeOK, Pcs, PublishPcs, RollbackPcs,
     ReconcilePcs, Goto, Journal, Promote
<1>7. CallOK'
  BY <1>2, <1>3, <1>4, PhaseFacts DEF CallOK, Working, Between, Pcs, PublishPcs,
     RollbackPcs, ReconcilePcs, Promote
<1>8. BackoutOK'
  BY <1>2, <1>3, <1>4, PhaseFacts DEF CallOK, BackoutOK, BackoutNeverOrphaned
<1>9. HomeOK'
  BY <1>2, <1>3, <1>4, <1>5, PhaseFacts DEF TypeOK, CallOK, HomeOK, Secured, Between,
     RollbackPcs, Promote
<1>. QED BY <1>6, <1>7, <1>8, <1>9 DEF PublishInv

\* A record is made when nothing is left of the one before.
LEMMA PrepareKeeps ==
    ASSUME PublishInv, Prepare PROVE PublishInv'
<1>. USE DEF PublishInv
<1>1. txs + 1 \in Ids /\ txs' \in 0..MaxTx
  BY DEF TypeOK, Ids, Prepare
<1>2. [tx |-> txs + 1, phase |-> "prepared", expected |-> mem.expected, fresh |-> ~dir] \in Journal
  BY <1>1, PhaseFacts DEF TypeOK, Journal
<1>3. \E j \in Journal :
         /\ j.tx = txs + 1 /\ j.phase = "prepared" /\ j.expected = mem.expected
         /\ j.fresh = ~dir /\ mem' = j /\ (journal' = journal \/ journal' = j)
         /\ (pc' = (IF dir THEN "copy" ELSE "make_home") /\ journal' = j) \/ pc' = "idle"
         /\ used' \in Budget
  BY <1>2, SaveEffect DEF Prepare
<1>4. /\ UNCHANGED <<home, dir, litter, backouts, published>>
      /\ n' = 1 /\ prior' = home /\ touched' = (touched /\ journal' = journal)
  BY DEF Prepare, homeVars
<1>5. journal.phase = "none" /\ \A t \in Ids : backouts[t].state = "none"
  BY DEF Prepare, CallOK, BackoutOK, BackoutNeverOrphaned
<1>6. 1 \in 1..3 /\ \A k \in 1..3 : ~(k < 1)
  OBVIOUS
<1>7. TypeOK'
  BY <1>1, <1>3, <1>4 DEF TypeOK, Pcs, PublishPcs, RollbackPcs, ReconcilePcs
<1>8. CallOK'
  BY <1>1, <1>2, <1>3, <1>4, <1>5, <1>6, PhaseFacts DEF CallOK, Working, Between, Pcs,
     PublishPcs, RollbackPcs, ReconcilePcs, TypeOK
<1>9. BackoutOK'
  BY <1>3, <1>5, <1>4 DEF BackoutOK, BackoutNeverOrphaned, TypeOK
<1>10. HomeOK'
  BY <1>3, <1>4, <1>5, <1>6, PhaseFacts DEF HomeOK, TypeOK, CallOK, Between, RollbackPcs
<1>. QED BY <1>7, <1>8, <1>9, <1>10 DEF PublishInv

\* What is copied is the home as it was.
LEMMA CopyKeeps ==
    ASSUME PublishInv, Copy PROVE PublishInv'
<1>. USE DEF PublishInv
<1>1. /\ pc = "copy" /\ n \in 1..3 /\ journal.phase = "prepared"
      /\ mem.tx = journal.tx /\ mem.tx \in Ids /\ Order[n] \in Files
  BY OrderFacts DEF Copy, CallOK
<1>2. /\ backouts[mem.tx] \in Backout /\ backouts[mem.tx].of \in Homes
      /\ home \in Homes /\ prior \in Homes
  BY <1>1 DEF TypeOK, Backout
<1>3. [state |-> "partial", of |-> [backouts[mem.tx].of EXCEPT ![Order[n]] = home[Order[n]]]]
        \in Backout
  BY <1>1, <1>2 DEF Backout, Homes
<1>4. [backouts[mem.tx] EXCEPT !.state = "partial"] \in Backout /\ NoBackout \in Backout
  BY <1>2 DEF NoBackout, Backout, NoFiles, Homes, Contents
<1>5. \/ /\ backouts' = [backouts EXCEPT ![mem.tx] =
               [state |-> "partial", of |-> [backouts[mem.tx].of EXCEPT ![Order[n]] = home[Order[n]]]]]
         /\ (n < 3 /\ n' = n + 1 /\ pc' = "copy") \/ (n = 3 /\ n' = n /\ pc' = "manifest")
      \/ /\ pc' = "idle" /\ n' = n
         /\ \/ backouts' = [backouts EXCEPT ![mem.tx] = NoBackout]
            \/ backouts' = [backouts EXCEPT ![mem.tx].state = "partial"]
  BY <1>1 DEF Copy, Goto
<1>6. /\ UNCHANGED <<home, dir, litter, journal, mem, published, prior, touched, txs>>
      /\ used' \in Budget
  BY FaultType DEF Copy, homeVars, ghostVars
<1>7. backouts' \in [Ids -> Backout]
  BY <1>1, <1>3, <1>4, <1>5 DEF TypeOK
<1>8. \A t \in Ids : t # mem.tx => backouts'[t] = backouts[t]
  BY <1>1, <1>5 DEF TypeOK
<1>9. ASSUME pc' # "idle", ~touched
      PROVE  \A k \in 1..3 : k <= n => backouts'[journal.tx].of[Order[k]] = prior[Order[k]]
  <2>1. backouts'[journal.tx].of = [backouts[mem.tx].of EXCEPT ![Order[n]] = home[Order[n]]]
    BY <1>1, <1>5, <1>9 DEF TypeOK
  <2>2. home = prior /\ \A k \in 1..3 : k < n => backouts[mem.tx].of[Order[k]] = prior[Order[k]]
    BY <1>1, <1>9 DEF HomeOK
  <2>3. \A k \in 1..3 : k < n => Order[k] \in Files
    BY OrderFacts
  <2>. QED BY <1>1, <1>2, <2>1, <2>2, <2>3, OrderFacts DEF Homes
<1>10. ASSUME pc' = "manifest", ~touched PROVE backouts'[journal.tx].of = prior
  <2>1. n = 3
    BY <1>5, <1>10
  <2>2. 1 \in 1..3 /\ 2 \in 1..3 /\ 3 \in 1..3 /\ 1 <= 3 /\ 2 <= 3 /\ 3 <= 3
    OBVIOUS
  <2>3. \A f \in Files : backouts'[journal.tx].of[f] = prior[f]
    BY <1>9, <1>10, <2>1, <2>2, OrderFacts
  <2>4. backouts'[journal.tx].of \in Homes
    BY <1>1, <1>7 DEF Backout
  <2>. QED BY <1>2, <2>3, <2>4, SameHome
<1>11. TypeOK'
  BY <1>1, <1>5, <1>6, <1>7 DEF TypeOK, Pcs, PublishPcs, RollbackPcs, ReconcilePcs
<1>12. CallOK'
  BY <1>1, <1>5, <1>6, PhaseFacts DEF CallOK, Working, Between, Pcs, PublishPcs,
     RollbackPcs, ReconcilePcs
<1>13. BackoutOK'
  BY <1>1, <1>5, <1>6, <1>8, PhaseFacts DEF BackoutOK, BackoutNeverOrphaned
<1>14. HomeOK'
  BY <1>1, <1>5, <1>6, <1>9, <1>10, PhaseFacts DEF HomeOK
<1>. QED BY <1>11, <1>12, <1>13, <1>14 DEF PublishInv

\* The manifest completes the copy of the old home.
LEMMA ManifestKeeps ==
    ASSUME PublishInv, Manifest PROVE PublishInv'
<1>. USE DEF PublishInv
<1>1. /\ pc = "manifest" /\ journal.phase = "prepared"
      /\ mem.tx = journal.tx /\ mem.tx \in Ids
  BY DEF Manifest, CallOK, Working, Pcs, PublishPcs, RollbackPcs, ReconcilePcs
<1>2. backouts[mem.tx] \in Backout /\ NoBackout \in Backout
  BY <1>1 DEF TypeOK, NoBackout, Backout, NoFiles, Homes, Contents
<1>3. \E b \in Backout :
         /\ backouts' = [backouts EXCEPT ![mem.tx] = b]
         /\ pc' = "idle" \/ (pc' = "advance" /\ b = [backouts[mem.tx] EXCEPT !.state = "whole"])
  <2>1. \A s \in {"partial", "whole"} : [backouts[mem.tx] EXCEPT !.state = s] \in Backout
    BY <1>2 DEF Backout
  <2>. QED BY <1>2, <2>1 DEF Manifest, Goto
<1>4. /\ UNCHANGED <<home, dir, litter, journal, mem, published, prior, touched, txs>>
      /\ n' = 0 /\ used' \in Budget
  BY FaultType DEF Manifest, homeVars, ghostVars
<1>5. /\ backouts' \in [Ids -> Backout]
      /\ \A t \in Ids : t # mem.tx => backouts'[t] = backouts[t]
  BY <1>1, <1>3 DEF TypeOK
<1>6. ASSUME pc' = "advance", ~touched PROVE Secured'
  <2>1. backouts'[mem.tx] = [backouts[mem.tx] EXCEPT !.state = "whole"]
    BY <1>1, <1>3, <1>6 DEF TypeOK
  <2>2. backouts[mem.tx].of = prior
    BY <1>1, <1>6 DEF HomeOK
  <2>3. [backouts[mem.tx] EXCEPT !.state = "whole"] = [state |-> "whole", of |-> backouts[mem.tx].of]
    BY <1>2 DEF Backout
  <2>. QED BY <1>1, <1>4, <2>1, <2>2, <2>3 DEF Secured
<1>7. TypeOK'
  BY <1>3, <1>4, <1>5 DEF TypeOK, Pcs, PublishPcs, RollbackPcs, ReconcilePcs
<1>8. CallOK'
  BY <1>1, <1>3, <1>4, PhaseFacts DEF CallOK, Working, Between, Pcs, PublishPcs,
     RollbackPcs, ReconcilePcs
<1>9. BackoutOK'
  BY <1>1, <1>3, <1>4, <1>5, PhaseFacts DEF BackoutOK, BackoutNeverOrphaned
<1>10. HomeOK'
  BY <1>1, <1>3, <1>4, <1>6, PhaseFacts DEF HomeOK
<1>. QED BY <1>7, <1>8, <1>9, <1>10 DEF PublishInv

\* The phase follows the files that are published.
LEMMA AdvanceKeeps ==
    ASSUME PublishInv, Advance PROVE PublishInv'
<1>. USE DEF PublishInv
<1>1. /\ pc = "advance" /\ n \in 0..3 /\ Published[n] \in Undecided
      /\ (journal.phase = "prepared" /\ n = 0) \/ (journal.phase \in Undecided /\ n \in 1..3)
      /\ mem.tx = journal.tx /\ mem.expected = journal.expected /\ mem.fresh = journal.fresh
  BY PublishedFacts DEF Advance, CallOK, TypeOK, Working, Pcs, PublishPcs, RollbackPcs,
     ReconcilePcs
<1>2. [mem EXCEPT !.phase = Published[n]] \in Journal
  BY <1>1, PhaseFacts DEF TypeOK, Journal
<1>3. \E j \in Journal :
         /\ j.tx = mem.tx /\ j.expected = mem.expected /\ j.fresh = mem.fresh
         /\ j.phase = Published[n] /\ mem' = j /\ (journal' = journal \/ journal' = j)
         /\ \/ pc' = (IF n < 3 THEN "write" ELSE "verify") /\ journal' = j
            \/ pc' = (IF n = 0 \/ (n = 3 /\ AllTarget(mem)) THEN "idle" ELSE "classify")
         /\ used' \in Budget
  <2>1. /\ [mem EXCEPT !.phase = Published[n]].tx = mem.tx
        /\ [mem EXCEPT !.phase = Published[n]].expected = mem.expected
        /\ [mem EXCEPT !.phase = Published[n]].fresh = mem.fresh
        /\ [mem EXCEPT !.phase = Published[n]].phase = Published[n]
    BY DEF TypeOK, Journal
  <2>. QED BY <1>2, <2>1, SaveEffect DEF Advance
<1>4. /\ UNCHANGED <<home, dir, litter, backouts, published, prior, touched, txs>>
      /\ n' = IF n < 3 THEN n + 1 ELSE n
  BY DEF Advance, homeVars, ghostVars
<1>5. n' \in 1..3 /\ n' \in 0..3
  BY <1>1, <1>4
<1>6. /\ journal'.tx = journal.tx /\ journal'.expected = journal.expected
      /\ journal'.fresh = journal.fresh
      /\ journal'.phase = journal.phase \/ journal'.phase \in Undecided
      /\ pc' = "idle" \/ (pc' \in {"write", "verify", "classify"} /\ journal'.phase \in Undecided)
  BY <1>1, <1>3
<1>7. TypeOK'
  BY <1>3, <1>4, <1>5 DEF TypeOK, Pcs, PublishPcs, RollbackPcs, ReconcilePcs
<1>8. CallOK'
  BY <1>1, <1>3, <1>5, <1>6, PhaseFacts DEF CallOK, Working, Between, Pcs, PublishPcs,
     RollbackPcs, ReconcilePcs
<1>9. BackoutOK'
  BY <1>1, <1>4, <1>6, PhaseFacts DEF BackoutOK, BackoutNeverOrphaned, CallOK
<1>10. HomeOK'
  BY <1>1, <1>4, <1>6, PhaseFacts DEF HomeOK, Secured, TypeOK
<1>. QED BY <1>7, <1>8, <1>9, <1>10 DEF PublishInv

\* A file that is written was the old one and is the new one.
LEMMA WriteKeeps ==
    ASSUME PublishInv, Write PROVE PublishInv'
<1>. USE DEF PublishInv
<1>1. /\ pc = "write" /\ n \in 1..3 /\ Order[n] \in Files /\ journal.phase \in Undecided
      /\ mem.tx = journal.tx /\ mem.expected = journal.expected /\ mem.fresh = journal.fresh
  BY OrderFacts DEF Write, CallOK, Between, Working, Pcs, PublishPcs, RollbackPcs, ReconcilePcs
<1>2. mem.expected[Order[n]] \in Contents
  BY <1>1 DEF TypeOK, Journal, Homes
<1>3. /\ home' \in Homes /\ dir' \in BOOLEAN /\ (dir => dir')
      /\ \A g \in Files : g # Order[n] => home'[g] = home[g]
      /\ home'[Order[n]] = home[Order[n]] \/ home'[Order[n]] = journal.expected[Order[n]]
      /\ pc' = "advance" \/ pc' = "classify"
      /\ used' \in Budget
  BY <1>1, <1>2, PutFileEffect DEF Write
<1>4. UNCHANGED <<litter, journal, backouts, n, mem, published, prior, touched, txs>>
  BY DEF Write, ghostVars
<1>5. n # 0
  BY <1>1
<1>6. TypeOK'
  BY <1>3, <1>4 DEF TypeOK, Pcs, PublishPcs, RollbackPcs, ReconcilePcs
<1>7. CallOK'
  BY <1>1, <1>3, <1>4, PhaseFacts DEF CallOK, Working, Between, Pcs, PublishPcs,
     RollbackPcs, ReconcilePcs
<1>8. BackoutOK'
  BY <1>1, <1>3, <1>4, PhaseFacts DEF BackoutOK, BackoutNeverOrphaned
<1>9. HomeOK'
  BY <1>1, <1>3, <1>4, <1>5, PhaseFacts DEF HomeOK, Secured
<1>. QED BY <1>6, <1>7, <1>8, <1>9 DEF PublishInv

\* A file that is restored is the old one.
LEMMA RestoreKeeps ==
    ASSUME PublishInv, Restore PROVE PublishInv'
<1>. USE DEF PublishInv
<1>1. /\ pc = "restore" /\ n \in 1..3 /\ Order[n] \in Files /\ journal.phase \in Undecided
      /\ mem.tx = journal.tx /\ mem.tx \in Ids
      /\ mem.expected = journal.expected /\ mem.fresh = journal.fresh
  BY OrderFacts DEF Restore, CallOK, Between, Working, Pcs, PublishPcs, RollbackPcs,
     ReconcilePcs
<1>2. backouts[mem.tx].of \in Homes /\ backouts[mem.tx].of[Order[n]] \in Contents
  BY <1>1 DEF TypeOK, Backout, Homes
<1>3. ~touched => Secured /\ backouts[mem.tx].state = "whole" /\ backouts[mem.tx].of = prior
  BY <1>1 DEF HomeOK, Secured
<1>4. \/ pc' = "failed" /\ UNCHANGED <<home, dir, n, used>>
      \/ /\ n' = IF n > 1 THEN n - 1 ELSE n
         /\ PutFile(Order[n], backouts[mem.tx].of[Order[n]],
                    IF n > 1 THEN "restore" ELSE IF mem.fresh THEN "leave_home" ELSE "rolled_back",
                    "failed")
  BY DEF Restore, Goto
<1>5. /\ home' \in Homes /\ dir' \in BOOLEAN /\ (dir => dir')
      /\ \A g \in Files : g # Order[n] => home'[g] = home[g]
      /\ home'[Order[n]] = home[Order[n]] \/ home'[Order[n]] = backouts[mem.tx].of[Order[n]]
      /\ \/ pc' = "failed"
         \/ /\ pc' = IF n > 1 THEN "restore" ELSE IF mem.fresh THEN "leave_home" ELSE "rolled_back"
            /\ n' = (IF n > 1 THEN n - 1 ELSE n)
            /\ home'[Order[n]] = backouts[mem.tx].of[Order[n]]
      /\ used' \in Budget
  <2>1. CASE pc' = "failed" /\ UNCHANGED <<home, dir, n, used>>
    BY <2>1 DEF TypeOK
  <2>2. CASE /\ n' = IF n > 1 THEN n - 1 ELSE n
             /\ PutFile(Order[n], backouts[mem.tx].of[Order[n]],
                        IF n > 1 THEN "restore" ELSE IF mem.fresh THEN "leave_home" ELSE "rolled_back",
                        "failed")
    BY <1>1, <1>2, <2>2, PutFileEffect
  <2>. QED BY <1>4, <2>1, <2>2
<1>6. UNCHANGED <<litter, journal, backouts, mem, published, prior, touched, txs>>
  BY DEF Restore, ghostVars
<1>7. n' \in 0..3 /\ (pc' = "restore" => n' \in 1..3)
  BY <1>1, <1>4, <1>5
<1>8. ASSUME ~touched PROVE \A f \in Files : home'[f] \in {journal.expected[f], prior[f]}
  BY <1>1, <1>3, <1>5, <1>8 DEF HomeOK
<1>9. ASSUME ~touched, pc' # "failed" PROVE \A k \in 1..3 : k >= n => home'[Order[k]] = prior[Order[k]]
  <2>1. \A k \in 1..3 : k > n => home[Order[k]] = prior[Order[k]]
    BY <1>1, <1>9 DEF HomeOK
  <2>2. home'[Order[n]] = prior[Order[n]]
    BY <1>3, <1>5, <1>9
  <2>3. \A k \in 1..3 : k > n => home'[Order[k]] = home[Order[k]]
    BY <1>1, <1>5, OrderFacts
  <2>. QED BY <1>1, <2>1, <2>2, <2>3
<1>10. ASSUME ~touched, pc' # "failed", n = 1 PROVE home' = prior
  <2>1. 1 \in 1..3 /\ 2 \in 1..3 /\ 3 \in 1..3 /\ 1 >= 1 /\ 2 >= 1 /\ 3 >= 1
    OBVIOUS
  <2>2. \A f \in Files : home'[f] = prior[f]
    BY <1>9, <1>10, <2>1, OrderFacts
  <2>. QED BY <1>5, <2>2, SameHome DEF TypeOK
<1>11. ASSUME ~touched, pc' = "restore" PROVE \A k \in 1..3 : k > n' => home'[Order[k]] = prior[Order[k]]
  <2>1. n' = n - 1
    BY <1>1, <1>5, <1>11
  <2>. QED BY <1>1, <1>9, <1>11, <2>1
<1>12. TypeOK'
  BY <1>5, <1>6, <1>7 DEF TypeOK, Pcs, PublishPcs, RollbackPcs, ReconcilePcs
<1>13. CallOK'
  BY <1>1, <1>5, <1>6, <1>7, PhaseFacts DEF CallOK, Working, Between, Pcs, PublishPcs,
     RollbackPcs, ReconcilePcs
<1>14. BackoutOK'
  BY <1>1, <1>5, <1>6, PhaseFacts DEF BackoutOK, BackoutNeverOrphaned
<1>15. HomeOK'
  BY <1>1, <1>3, <1>5, <1>6, <1>8, <1>10, <1>11, PhaseFacts DEF HomeOK, Secured
<1>. QED BY <1>12, <1>13, <1>14, <1>15 DEF PublishInv

-----------------------------------------------------------------------------
(* What a step does to the record.                                         *)

\* Saving another phase of the record in memory keeps the rest of the record.
LEMMA SavePhase ==
    ASSUME TypeOK, NEW phase \in Phases, NEW ok, NEW failed,
           mem.tx = journal.tx, mem.expected = journal.expected,
           Save([mem EXCEPT !.phase = phase], ok, failed)
    PROVE  /\ journal'.tx = journal.tx /\ journal'.expected = journal.expected
           /\ journal'.phase = journal.phase \/ journal'.phase = phase
           /\ (pc' = ok /\ journal'.phase = phase) \/ pc' = failed
           /\ mem'.expected = mem.expected
<1>1. [mem EXCEPT !.phase = phase] \in Journal
  BY DEF TypeOK, Journal
<1>. QED BY <1>1, SaveEffect DEF TypeOK, Journal

\* The steps that save another phase.
Saving == Advance \/ SaveVerified \/ Complete \/ Mark \/ RolledBack \/ Failed
          \/ Promote \/ Promoted \/ Discard

\* They keep the record, and the home is what the new phase says it is.
LEMMA SavingStep ==
    ASSUME PublishInv, Saving
    PROVE  /\ journal'.tx = journal.tx /\ journal'.expected = journal.expected
           /\ UNCHANGED <<home, backouts, prior, touched>>
           /\ Open
           /\ \/ Open'
              \/ ~touched => home = journal.expected
              \/ ~touched => home = prior
<1>. USE DEF PublishInv
<1>1. /\ mem.tx = journal.tx /\ mem.expected = journal.expected
      /\ journal.phase \in Undecided \cup {"prepared"}
  BY DEF CallOK, Working, Between, Pcs, PublishPcs, RollbackPcs, ReconcilePcs, Saving, Advance,
         SaveVerified, Complete, Mark, RolledBack, Failed, Promote, Promoted, Discard
<1>2. Open
  BY <1>1, PhaseFacts DEF Open
<1>3. UNCHANGED <<home, backouts, prior, touched>>
  BY DEF Saving, Advance, SaveVerified, Complete, Mark, RolledBack, Failed, Promote, Promoted,
         Discard, homeVars, ghostVars
<1>4. CASE Advance
  <2>1. Published[n] \in Undecided
    BY PublishedFacts DEF TypeOK
  <2>2. Published[n] \in Phases
    BY <2>1, PhaseFacts
  <2>. QED BY <1>1, <1>2, <1>3, <1>4, <2>1, <2>2, SavePhase, PhaseFacts DEF Advance, Open
<1>5. CASE SaveVerified
  BY <1>1, <1>2, <1>3, <1>5, SavePhase, PhaseFacts DEF SaveVerified, Open
<1>6. CASE Mark
  BY <1>1, <1>2, <1>3, <1>6, SavePhase, PhaseFacts DEF Mark, Open
<1>7. CASE Failed
  BY <1>1, <1>2, <1>3, <1>7, SavePhase, PhaseFacts DEF Failed, Open
<1>8. CASE Promote
  BY <1>1, <1>2, <1>3, <1>8, SavePhase, PhaseFacts DEF Promote, Open
<1>9. CASE Complete \/ Promoted
  BY <1>1, <1>2, <1>3, <1>9, SavePhase, PhaseFacts DEF Complete, Promoted, HomeOK
<1>10. CASE RolledBack \/ Discard
  BY <1>1, <1>2, <1>3, <1>10, SavePhase, PhaseFacts DEF RolledBack, Discard, HomeOK
<1>. QED BY <1>4, <1>5, <1>6, <1>7, <1>8, <1>9, <1>10 DEF Saving

\* A record is removed when its files are not between the old and the new.
LEMMA RemovingStep ==
    ASSUME PublishInv, RetireJournal \/ CleanJournal
    PROVE  /\ UNCHANGED <<home, backouts, prior, touched>>
           /\ journal' = journal \/ journal'.phase = "none"
           /\ Open => journal.phase = "prepared"
<1>1. journal' = journal \/ journal'.phase = "none"
  BY DeleteJournalEffect, NoJournalType DEF RetireJournal, CleanJournal, PublishInv
<1>2. Open => journal.phase = "prepared"
  BY DEF Open, RetireJournal, CleanJournal, PublishInv, CallOK
<1>. QED BY <1>1, <1>2 DEF RetireJournal, CleanJournal, homeVars, ghostVars

\* A new record is made of the home as it is.
LEMMA PreparingStep ==
    ASSUME PublishInv, Prepare
    PROVE  /\ UNCHANGED <<home, backouts>> /\ prior' = home
           /\ touched' = (touched /\ journal' = journal)
           /\ journal.phase = "none" /\ \A t \in Ids : backouts[t].state = "none"
           /\ \/ journal' = journal
              \/ journal'.phase = "prepared" /\ journal'.expected \in Homes
<1>1. journal.phase = "none" /\ \A t \in Ids : backouts[t].state = "none"
  BY DEF PublishInv, Prepare, CallOK, BackoutOK, BackoutNeverOrphaned
<1>2. mem.expected \in Homes
  BY DEF PublishInv, TypeOK, Journal
<1>. QED BY <1>1, <1>2 DEF Prepare, Save, homeVars

\* The other steps leave the record and its reading of the home alone.
Other ==
    \/ Refuse \/ (\E in \in Inputs : Begin(in)) \/ RetireBackout \/ MakeHome \/ HomeChanged \/ Copy
    \/ Manifest \/ Write \/ Verify \/ CleanBackout \/ Classify \/ Restore \/ LeaveHome
    \/ ReconcileSettled \/ ReconcileUndecided \/ ForgetHome \/ PublishCrash

\* They do not touch the home of a record that is settled.
LEMMA OtherStep ==
    ASSUME PublishInv, Other
    PROVE  UNCHANGED <<journal, prior, touched>> /\ (~Open => home' = home)
<1>1. CASE Write \/ Restore
  <2>1. Open
    BY <1>1, PhaseFacts DEF PublishInv, CallOK, Between, RollbackPcs, Write, Restore, Open
  <2>. QED BY <1>1, <2>1 DEF Write, Restore, ghostVars
<1>2. CASE ~(Write \/ Restore)
  BY <1>2 DEF Other, Refuse, Begin, RetireBackout, MakeHome, HomeChanged, Copy, Manifest,
     Verify,
     CleanBackout, Classify, LeaveHome, ReconcileSettled, ReconcileUndecided, ForgetHome,
     PublishCrash, homeVars, ghostVars
<1>. QED BY <1>1, <1>2

\* Every step of the publisher is one of these.
LEMMA StepKinds ==
    PublishNext => Saving \/ RetireJournal \/ CleanJournal \/ Prepare \/ Other
                   \/ EditHome \/ EditBackout
BY DEF PublishNext, PublishSteps, RollbackSteps, ReconcileSteps, Saving, Other

\* The publisher keeps its invariant.
LEMMA PublishKeeps == ASSUME PublishInv, PublishNext PROVE PublishInv'
<1>1. CASE PublishSteps
  BY <1>1, RetireBackoutKeeps, RetireJournalKeeps, PrepareKeeps, MakeHomeKeeps,
     HomeChangedKeeps,
     CopyKeeps, ManifestKeeps, AdvanceKeeps, WriteKeeps, VerifyKeeps, SaveVerifiedKeeps,
     CompleteKeeps, CleanBackoutKeeps, CleanJournalKeeps DEF PublishSteps
<1>2. CASE RollbackSteps
  BY <1>2, ClassifyKeeps, MarkKeeps, RestoreKeeps, LeaveHomeKeeps, RolledBackKeeps, FailedKeeps
     DEF RollbackSteps
<1>3. CASE ReconcileSteps
  BY <1>3, ReconcileSettledKeeps, ReconcileUndecidedKeeps, ForgetHomeKeeps, PromoteKeeps,
     PromotedKeeps, DiscardKeeps DEF ReconcileSteps
<1>. QED BY <1>1, <1>2, <1>3, BeginKeeps, RefuseKeeps, EditHomeKeeps, EditBackoutKeeps,
            PublishCrashKeeps DEF PublishNext

-----------------------------------------------------------------------------
(* The launcher.                                                           *)

\* What the publisher does without the launcher.
OnItsOwn == PublishSteps \/ RollbackSteps \/ ReconcileSteps \/ EditHome \/ EditBackout

\* A publish that has succeeded is only cleaned up after.
LEMMA PublishedKept ==
    ASSUME PublishInv, PublishedOK, OnItsOwn
    PROVE  PublishedOK' /\ (published => published')
<1>. USE DEF PublishInv, PublishedOK
<1>1. CASE Complete
  <2>1. /\ mem.tx = journal.tx /\ mem.expected = journal.expected
        /\ ~touched => home = journal.expected
    BY <1>1 DEF CallOK, Working, Pcs, PublishPcs, HomeOK, Complete
  <2>2. published' => /\ journal'.phase = "completed" /\ journal'.expected = mem'.expected
                      /\ mem'.expected = mem.expected /\ pc' = "clean_backout"
    <3>1. /\ journal'.expected = journal.expected /\ mem'.expected = mem.expected
          /\ (pc' = "clean_backout" /\ journal'.phase = "completed") \/ pc' = "idle"
      BY <1>1, <2>1, SavePhase, PhaseFacts DEF Complete
    <3>2. published' = (pc' = "clean_backout")
      BY <1>1 DEF Complete
    <3>. QED BY <2>1, <3>1, <3>2
  <2>3. UNCHANGED <<home, touched>> /\ ~published
    BY <1>1 DEF Complete, homeVars, ghostVars
  <2>. QED BY <2>1, <2>2, <2>3
<1>2. CASE CleanBackout
  BY <1>2 DEF CleanBackout, DeleteBackout, Goto, homeVars, ghostVars
<1>3. CASE CleanJournal
  <2>1. (pc' = "idle" /\ journal' = NoJournal) \/ (pc' = "idle" /\ journal' = journal)
    BY <1>3, DeleteJournalEffect DEF CleanJournal
  <2>. QED BY <1>3, <2>1, NoJournalType DEF CleanJournal, homeVars, ghostVars
<1>4. CASE ReconcileSettled
  BY <1>4, PhaseFacts DEF ReconcileSettled, Goto, homeVars, ghostVars
<1>5. CASE EditHome \/ EditBackout
  BY <1>5 DEF EditHome, EditBackout, Edit, callVars
<1>6. CASE ReconcileUndecided
  BY <1>6, PhaseFacts DEF ReconcileUndecided, Undecided
<1>7. CASE ~(Complete \/ CleanBackout \/ CleanJournal \/ ReconcileSettled \/ EditHome \/ EditBackout
             \/ ReconcileUndecided)
  <2>1. published' = published /\ pc \notin {"idle", "clean_backout", "clean_journal"}
    <3>1. CASE PublishSteps
      BY <1>7, <3>1 DEF PublishSteps, RetireBackout, RetireJournal, Prepare, MakeHome,
         HomeChanged,
         Copy, Manifest, Advance, Write, Verify, SaveVerified
    <3>2. CASE RollbackSteps
      BY <1>7, <3>2 DEF RollbackSteps, Classify, Mark, Restore, LeaveHome, RolledBack, Failed
    <3>3. CASE ReconcileSteps
      BY <1>7, <3>3 DEF ReconcileSteps, ForgetHome, Promote, Promoted, Discard
    <3>. QED BY <1>7, <3>1, <3>2, <3>3 DEF OnItsOwn
  <2>. QED BY <2>1
<1>. QED BY <1>1, <1>2, <1>3, <1>4, <1>5, <1>6, <1>7

\* IInv holds initially.
LEMMA InitInv == Init => IInv
<1>. SUFFICES ASSUME Init PROVE IInv
  OBVIOUS
<1>1. TypeOK
  <2>1. 0 \in 0..3 /\ 0 \in 0..MaxTx /\ 0 \in 0..MaxFaults /\ 0 \in 0..MaxEdits
    OBVIOUS
  <2>2. NoBackout \in Backout
    BY DEF NoBackout, Backout, NoFiles, Homes, Contents
  <2>. QED BY <2>1, <2>2, NoJournalType DEF Init, PublishInit, TypeOK, Pcs, Budget
<1>2. CallOK
  BY NoJournalType, PhaseFacts DEF Init, PublishInit, CallOK, Working, Between, RollbackPcs
<1>3. BackoutOK
  BY DEF Init, PublishInit, BackoutOK, BackoutNeverOrphaned, NoBackout
<1>4. HomeOK
  BY NoJournalType, PhaseFacts DEF Init, PublishInit, HomeOK
<1>. QED BY <1>1, <1>2, <1>3, <1>4
         DEF Init, PublishInit, IInv, PublishInv, LauncherTypeOK, Statuses, Reasons, Stages,
             PublishedOK, LauncherOK

\* Steps of the launcher alone leave the publisher's invariants.
LEMMA PublisherIdle ==
    ASSUME PublishInv, PublishedOK, UNCHANGED publishVars
    PROVE  PublishInv' /\ PublishedOK'
BY DEF publishVars, PublishInv, PublishedOK, TypeOK, CallOK, BackoutOK, BackoutNeverOrphaned,
       HomeOK, Secured

\* IInv is preserved by every step.
LEMMA NextInv == IInv /\ [Next]_vars => IInv'
<1>. SUFFICES ASSUME IInv, [Next]_vars PROVE IInv'
  OBVIOUS
<1>. USE DEF IInv
<1>1. CASE Publisher
  <2>1. OnItsOwn /\ UNCHANGED launcherVars
    BY <1>1 DEF Publisher, OnItsOwn
  <2>2. PublishInv'
    BY <2>1, PublishKeeps DEF OnItsOwn, PublishNext
  <2>3. PublishedOK' /\ (published => published')
    BY <2>1, PublishedKept
  <2>. QED BY <2>1, <2>2, <2>3 DEF launcherVars, LauncherOK, LauncherTypeOK
<1>2. CASE LaunchPublishes
  <2>1. PublishNext /\ published' = FALSE /\ UNCHANGED <<status, run, reason, term, again>>
        /\ stage = "stage_files" /\ stage' = "publish"
    BY <1>2 DEF LaunchPublishes, PublishNext, Refuse, Begin
  <2>2. PublishInv'
    BY <2>1, PublishKeeps
  <2>. QED BY <2>1, <2>2 DEF PublishedOK, LauncherOK, LauncherTypeOK, Stages
<1>3. CASE Crash
  <2>1. PublishInv'
    BY <1>3, PublishCrashKeeps DEF Crash
  <2>. QED BY <1>3, <2>1 DEF Crash, PublishCrash, PublishedOK, LauncherOK, LauncherTypeOK,
                             Statuses, Reasons, Stages
<1>4. ASSUME UNCHANGED publishVars, LauncherTypeOK', LauncherOK' PROVE IInv'
  BY <1>4, PublisherIdle
<1>5. CASE Launch \/ LaunchFails \/ LaunchPublished \/ StartTerminal \/ RegisterRun
  <2>1. UNCHANGED publishVars
    BY <1>5 DEF Launch, LaunchFails, LaunchPublished, StartTerminal, RegisterRun
  <2>2. UNCHANGED published
    BY <2>1 DEF publishVars
  <2>3. LauncherTypeOK'
    BY <1>5 DEF Launch, BeginLaunch, LaunchFails, LaunchPublished, StartTerminal, RegisterRun,
                Fail, LauncherTypeOK, Statuses, Reasons, Stages
  <2>4. LauncherOK'
    BY <1>5, <2>2 DEF Launch, BeginLaunch, Busy, LaunchFails, LaunchPublished, StartTerminal,
                      RegisterRun, Fail, LauncherOK
  <2>. QED BY <1>4, <2>1, <2>3, <2>4
<1>6. CASE TerminalSteps
  <2>1. UNCHANGED publishVars
    BY <1>6 DEF TerminalSteps, TerminalExits, MonitorRun
  <2>2. UNCHANGED published
    BY <2>1 DEF publishVars
  <2>3. LauncherTypeOK'
    BY <1>6 DEF TerminalSteps, TerminalExits, MonitorRun, LauncherTypeOK, Statuses, Reasons
  <2>4. LauncherOK'
    BY <1>6, <2>2 DEF TerminalSteps, TerminalExits, MonitorRun, LauncherOK
  <2>. QED BY <1>4, <2>1, <2>3, <2>4
<1>7. CASE StopSteps
  <2>1. UNCHANGED publishVars
    BY <1>7 DEF StopSteps, StopNothing, Stop, Signal, Wait, Kill
  <2>2. UNCHANGED published
    BY <2>1 DEF publishVars
  <2>3. LauncherTypeOK'
    BY <1>7 DEF StopSteps, StopNothing, Stop, Signal, Wait, Kill, NextAfterStop, LauncherTypeOK,
                Statuses, Reasons, Stages
  <2>4. LauncherOK'
    BY <1>7, <2>2 DEF StopSteps, StopNothing, Stop, Signal, Wait, Kill, NextAfterStop, Busy,
                      LauncherOK
  <2>. QED BY <1>4, <2>1, <2>3, <2>4
<1>8. CASE UNCHANGED vars
  BY <1>4, <1>8 DEF vars, launcherVars, LauncherOK, LauncherTypeOK, publishVars
<1>. QED BY <1>1, <1>2, <1>3, <1>5, <1>6, <1>7, <1>8 DEF Next, LaunchSteps

\* IInv is an invariant of the launcher and its publisher.
THEOREM LauncherInvariant == Spec => []IInv
<1>. QED BY InitInv, NextInv, PTL DEF Spec

\* The record, the backouts, the home and the launcher's state keep their types.
THEOREM LauncherTypes == Spec => []AllTypesOK
<1>1. IInv => AllTypesOK
  BY DEF IInv, PublishInv, AllTypesOK
<1>. QED BY <1>1, LauncherInvariant, PTL

\* The backout is removed before its record (backout.go, reconcile.go): no copy of
\* an old auth.json is left that nothing leads to.
THEOREM NoOrphanedBackout == Spec => []BackoutNeverOrphaned
<1>1. IInv => BackoutNeverOrphaned
  BY DEF IInv, PublishInv, BackoutOK
<1>. QED BY <1>1, LauncherInvariant, PTL

\* A publish that was interrupted, wherever, has left everything ReconcileStartup
\* needs to complete it or to undo it.
THEOREM InterruptionIsRecoverable == Spec => []InterruptedCanBeSettled
<1>1. IInv => InterruptedCanBeSettled
  BY DEF IInv, PublishInv, HomeOK, Secured, InterruptedCanBeSettled, NoOther, IsTarget,
     IsPrevious
<1>. QED BY <1>1, LauncherInvariant, PTL

\* While a terminal is up nothing publishes, and the home is the one that was
\* published for it.
LEMMA TerminalHome == Spec => []TerminalRunsOnItsHome
<1>1. IInv => TerminalRunsOnItsHome
  BY DEF IInv, LauncherOK, PublishedOK, TerminalRunsOnItsHome, Open, Terminal
<1>. QED BY <1>1, LauncherInvariant, PTL

\* No terminal is up that Stop does not know of.
LEMMA TerminalOwned == Spec => []TerminalIsOwned
<1>1. IInv => TerminalIsOwned
  BY DEF IInv, LauncherOK, TerminalIsOwned
<1>. QED BY <1>1, LauncherInvariant, PTL

\* Both: every terminal that is up is known, and is on the home of its launch.
THEOREM TerminalAccounted == Spec => []TerminalIsAccountedFor
<1>1. TerminalRunsOnItsHome /\ TerminalIsOwned => TerminalIsAccountedFor
  BY DEF TerminalIsAccountedFor
<1>. QED BY <1>1, TerminalHome, TerminalOwned, PTL

-----------------------------------------------------------------------------
(* One transaction after the other, and each of them all or nothing.       *)

\* A step of the system is a step of the publisher, or leaves it alone.
LEMMA PublisherSteps == [Next]_vars => [PublishNext]_publishVars
<1>1. Publisher \/ LaunchPublishes \/ Crash => PublishNext
  BY DEF Publisher, LaunchPublishes, Crash, PublishNext
<1>2. Launch \/ LaunchFails \/ LaunchPublished \/ StartTerminal \/ RegisterRun \/ TerminalSteps
        \/ StopSteps => UNCHANGED publishVars
  BY DEF Launch, LaunchFails, LaunchPublished, StartTerminal, RegisterRun, TerminalSteps,
         TerminalExits, MonitorRun, StopSteps, StopNothing, Stop, Signal, Wait, Kill
<1>3. UNCHANGED vars => UNCHANGED publishVars
  BY DEF vars
<1>. QED BY <1>1, <1>2, <1>3 DEF Next, LaunchSteps

\* rejectUnfinished: a record is made when the one before it and its backout are gone.
THEOREM TransactionsInTurn == Spec => OneTransactionAtATime
<1>. DEFINE InTurn == journal'.phase # "none" /\ journal'.tx # journal.tx =>
                        /\ journal.phase = "none"
                        /\ \A t \in Ids : backouts[t].state = "none"
<1>1. ASSUME PublishInv, PublishNext PROVE InTurn
  <2>1. CASE Saving
    BY <1>1, <2>1, SavingStep
  <2>2. CASE RetireJournal \/ CleanJournal
    BY <1>1, <2>2, RemovingStep
  <2>3. CASE Prepare
    BY <1>1, <2>3, PreparingStep
  <2>4. CASE Other
    BY <1>1, <2>4, OtherStep
  <2>5. CASE EditHome \/ EditBackout
    BY <2>5 DEF EditHome, EditBackout, Edit
  <2>. QED BY <1>1, <2>1, <2>2, <2>3, <2>4, <2>5, StepKinds
<1>2. IInv /\ [Next]_vars => [InTurn]_publishVars
  BY <1>1, PublisherSteps DEF IInv
<1>. QED BY <1>2, LauncherInvariant, PTL DEF Spec, OneTransactionAtATime

\* The mapping of AtomicHome.
Files1 == IF Open THEN prior ELSE home
Offer1 == IF Open THEN {journal.expected} ELSE {}

\* A step that leaves the record's reading of the home alone is a stutter.
LEMMA Stutter ==
    ASSUME Open' = Open, Open => prior' = prior /\ journal'.expected = journal.expected,
           ~Open => home' = home, touched' = touched
    PROVE  UNCHANGED <<Files1, Offer1, touched>>
BY DEF Files1, Offer1

\* Every step of the publisher offers, commits, withdraws, meddles or stutters.
LEMMA AtomicStep ==
    ASSUME PublishInv, PublishInv', PublishNext
    PROVE  A!Next \/ UNCHANGED <<Files1, Offer1, touched>>
<1>. USE DEF PublishInv
<1>0. home \in Homes /\ home' \in Homes /\ prior \in Homes /\ prior' \in Homes
  BY DEF TypeOK
<1>. HIDE DEF PublishInv
<1>1. CASE Saving
  <2>1. CASE Open'
    BY <1>1, <2>1, SavingStep, Stutter
  <2>2. CASE ~Open' /\ (~touched => home = journal.expected)
    <3>1. A!Commit
      BY <1>0, <1>1, <2>2, SavingStep DEF A!Commit, A!Homes, Homes
    <3>. QED BY <3>1 DEF A!Next
  <2>3. CASE ~Open' /\ (~touched => home = prior)
    <3>1. A!Withdraw
      BY <1>0, <1>1, <2>3, SavingStep DEF A!Withdraw, A!Homes, Homes
    <3>. QED BY <3>1 DEF A!Next
  <2>. QED BY <1>1, <2>1, <2>2, <2>3, SavingStep
<1>2. CASE RetireJournal \/ CleanJournal
  <2>1. CASE Open' = Open
    <3>1. Open => journal' = journal
      BY <1>2, <2>1, RemovingStep DEF Open
    <3>. QED BY <1>2, <2>1, <3>1, RemovingStep, Stutter
  <2>2. CASE Open' # Open
    <3>1. Open /\ ~Open' /\ (~touched => home = prior) /\ UNCHANGED <<home, prior, touched>>
      BY <1>2, <2>2, RemovingStep DEF Open, PublishInv, HomeOK
    <3>2. A!Withdraw
      BY <1>0, <3>1 DEF A!Withdraw, A!Homes, Homes
    <3>. QED BY <3>2 DEF A!Next
  <2>. QED BY <2>1, <2>2
<1>3. CASE Prepare
  <2>1. CASE journal' = journal
    <3>1. touched' = touched /\ Open' = Open /\ ~Open
      BY <1>3, <2>1, PreparingStep DEF Open, PublishInv, TypeOK
    <3>. QED BY <1>3, <3>1, PreparingStep, Stutter
  <2>2. CASE journal' # journal
    <3>1. /\ ~Open /\ Open' /\ journal'.expected \in Homes /\ prior' = home /\ touched' = FALSE
      BY <1>3, <2>2, PreparingStep DEF Open, Terminal
    <3>2. A!Offer(journal'.expected)
      BY <3>1 DEF A!Offer
    <3>. QED BY <3>1, <3>2 DEF A!Next, A!Homes, Homes
  <2>. QED BY <2>1, <2>2
<1>4. CASE Other
  BY <1>4, OtherStep, Stutter DEF Open
<1>5. CASE EditHome \/ EditBackout
  <2>1. journal' = journal /\ touched' = TRUE /\ prior' = prior
    BY <1>5 DEF EditHome, EditBackout, Edit
  <2>2. A!Meddle
    BY <1>0, <2>1 DEF A!Meddle, A!Homes, Homes, Open
  <2>. QED BY <2>2 DEF A!Next
<1>. QED BY <1>1, <1>2, <1>3, <1>4, <1>5, StepKinds

\* The three files change together or not at all, whatever fails in between.
THEOREM HomeIsAtomic == Spec => KeepsAtomicHome
<1>1. Init => A!Init
  BY NoJournalType, InitInv DEF Init, PublishInit, A!Init, A!Homes, Homes, Open
<1>2. IInv /\ IInv' /\ [Next]_vars => [A!Next]_<<Files1, Offer1, touched>>
  <2>1. UNCHANGED publishVars => UNCHANGED <<Files1, Offer1, touched>>
    BY DEF publishVars, Files1, Offer1, Open
  <2>. QED BY <2>1, PublisherSteps, AtomicStep DEF IInv
<1>. QED BY <1>1, <1>2, LauncherInvariant, PTL DEF Spec, KeepsAtomicHome, A!Spec, Files1, Offer1
=============================================================================
