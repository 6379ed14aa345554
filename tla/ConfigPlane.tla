---------------------------- MODULE ConfigPlane -----------------------------
(***************************************************************************)
(* The configuration of the gateway: the configuration graph of the        *)
(* management API (internal/service/configgraph), its SQLite store         *)
(* (internal/service/store), the runtime snapshot requests are served from *)
(* (internal/service/runtime) and the staged changes of the older          *)
(* endpoints (internal/service/api).                                       *)
(*                                                                         *)
(* Every HTTP request is a goroutine of its own and nothing serialises     *)
(* them but applyMu, which only POST /changes/apply takes.  A client has   *)
(* one request in flight; its `pc` is the next access to shared state.     *)
(***************************************************************************)
EXTENDS Naturals

CONSTANTS
    Clients,       \* callers of the management API
    Desktop,       \* the desktop application, one of them (ConfigSaga)
    Resources,     \* the resources of the graph
    Values,        \* what a resource may hold
    Absent,        \* a resource that does not exist
    NoChange,      \* a resource with no staged change
    NoClient,      \* applyMu is free
    Tables,        \* the tables LoadAll reads one after the other: 1..Tables
    TableOf,       \* the table of a resource
    Hot,           \* the resources whose definitions are hot-reloadable
    ValidConfigs,  \* what Config.Validate accepts
    SeedConfig,    \* the configuration file
    MaxRequests, MaxSagas, MaxStaged, MaxRestarts  \* bounds

Contents == Values \cup {Absent}
Config == [Resources -> Contents]

ASSUME ConfigAssumption ==
    /\ ValidConfigs \subseteq Config
    /\ SeedConfig \in ValidConfigs
    /\ Tables \in Nat \ {0}
    /\ Resources # {} /\ TableOf \in [Resources -> 1..Tables]
    /\ NoClient \notin Clients /\ Desktop \in Clients
    /\ Absent \notin Values
ASSUME BoundsAssumption ==
    MaxRequests \in Nat /\ MaxSagas \in Nat /\ MaxStaged \in Nat /\ MaxRestarts \in Nat

\* PATCH of a field, POST of a resource, DELETE of one.
Ops == {op \in [kind : {"patch", "create", "delete"}, res : Resources, val : Contents] :
          op.kind = "delete" <=> op.val = Absent}

\* ApplyPatchToFileConfig, createResource and deleteResource: only an existing
\* resource is patched or deleted and only a missing one is created.
Accepts(op, c) == (op.kind = "create") <=> (c[op.res] = Absent)
Drafted(op, c) == [c EXCEPT ![op.res] = op.val]

\* The staged change of a resource that is applied last, with the row's id.
Staged == [id : 1..MaxStaged, val : Contents]
Changes == [Resources -> Staged \cup {NoChange}]
NoChanges == [r \in Resources |-> NoChange]
Applied(c, listed) ==
    [r \in Resources |-> IF listed[r] = NoChange THEN c[r] ELSE listed[r].val]

Deciding == {"load", "loaded", "save"}
GraphPcs == {"check", "save"}
ApplyPcs == {"lock", "apply"}
Results == {"none", "committed", "restart", "conflict", "rejected", "error"}
\* `stale` is history: staged changes were applied since the revision check.
Calls == [pc : {"idle", "load", "loaded", "reload"} \cup GraphPcs \cup ApplyPcs,
          job : {"graph", "apply"}, op : Ops, commit : BOOLEAN, base : Nat,
          table : 1..(Tables + 1), loaded : Config, listed : Changes,
          stale : BOOLEAN, answer : Nat, result : Results]

Budget == [requests : 0..MaxRequests, sagas : 0..MaxSagas,
           staged : 0..MaxStaged, restarts : 0..MaxRestarts]

VARIABLES
    cfg,       \* the tables of the store
    rev,       \* its graph revision
    pending,   \* its staged changes that are not applied
    run,       \* the configuration of the runtime snapshot
    applyMu,   \* who holds SQLiteConfigStore.applyMu
    call,      \* the request of each client
    used,      \* requests, sagas, staged changes and restarts so far
    stored     \* history: what the store has held for each resource

store == <<cfg, rev, pending>>
vars == <<cfg, rev, pending, run, applyMu, call, used, stored>>

Idle == [pc |-> "idle", job |-> "graph",
         op |-> CHOOSE op \in Ops : TRUE, commit |-> FALSE, base |-> 0, table |-> 1,
         loaded |-> SeedConfig, listed |-> NoChanges, stale |-> FALSE, answer |-> 0,
         result |-> "none"]

TypeOK ==
    /\ cfg \in Config /\ run \in Config /\ rev \in Nat
    /\ pending \in Changes
    /\ applyMu \in Clients \cup {NoClient}
    /\ call \in [Clients -> Calls]
    /\ used \in Budget
    /\ stored \in [Resources -> SUBSET Contents]

\* SeedFromConfig: an empty store takes the configuration file at the start.
Init ==
    /\ cfg = SeedConfig /\ run = SeedConfig /\ rev = 1
    /\ pending = NoChanges
    /\ applyMu = NoClient
    /\ call = [c \in Clients |-> Idle]
    /\ used = [requests |-> 0, sagas |-> 0, staged |-> 0, restarts |-> 0]
    /\ stored = [r \in Resources |-> {SeedConfig[r]}]

-----------------------------------------------------------------------------
Remember(new) == stored' = [r \in Resources |-> stored[r] \cup {new[r]}]
Goes(c, pc) == call' = [call EXCEPT ![c].pc = pc]
\* The end of a request.  A mutation that was saved answers with its graph and
\* its revision.  What clients other than the desktop do with their answer is not
\* modelled, so it is not kept.
Returns(c, result, graph, revision) ==
    call' = [call EXCEPT ![c] = IF c # Desktop THEN Idle
        ELSE [Idle EXCEPT !.result = result, !.loaded = graph, !.answer = revision]]
Answers(c, result) == Returns(c, result, SeedConfig, 0)
Unlocks(c) == applyMu' = IF applyMu = c THEN NoClient ELSE applyMu

Request(c, op, base, commit) ==
    /\ call[c].pc = "idle"
    /\ call' = [call EXCEPT ![c] = [Idle EXCEPT !.pc = "check", !.op = op,
                                                !.base = base, !.commit = commit]]
    /\ UNCHANGED <<store, run, applyMu, stored>>

\* The base revision must be the current one.
Check(c) ==
    /\ call[c].pc = "check"
    /\ IF call[c].base = rev
       THEN call' = [call EXCEPT ![c].pc = "load", ![c].stale = FALSE]
       ELSE Answers(c, "conflict")
    /\ UNCHANGED <<store, run, applyMu, used, stored>>

\* LoadAll: one query after the other, outside any transaction.
Load(c) ==
    LET t == call[c].table IN
    /\ call[c].pc = "load"
    /\ call' = [call EXCEPT
         ![c].pc = IF t = Tables THEN "loaded" ELSE "load",
         ![c].table = t + 1,
         ![c].loaded = [r \in Resources |-> IF TableOf[r] = t THEN cfg[r] ELSE call[c].loaded[r]]]
    /\ UNCHANGED <<store, run, applyMu, used, stored>>

\* FromFileConfig fails on what the store holds: a 500, whatever was asked.
LoadFails(c) ==
    /\ call[c].pc = "loaded" /\ call[c].loaded \notin ValidConfigs
    /\ Answers(c, "error")
    /\ Unlocks(c)
    /\ UNCHANGED <<store, run, used, stored>>

\* Mutant of Draft: the resource is laid over the runtime snapshot, which the
\* caller saw with the revision, and not over the store.
DraftFromSnapshot(c) ==
    LET op == call[c].op
        candidate == Drafted(op, run) IN
    /\ call[c].pc = "loaded" /\ call[c].job = "graph" /\ call[c].loaded \in ValidConfigs
    /\ \/ Answers(c, "rejected")
       \/ /\ Accepts(op, run) /\ candidate \in ValidConfigs
          /\ IF call[c].commit
             THEN call' = [call EXCEPT ![c].pc = "save", ![c].loaded = candidate]
             ELSE Answers(c, "committed")
    /\ UNCHANGED <<store, run, applyMu, used, stored>>

\* acceptCandidate up to the save: the candidate as a whole must be valid.
Draft(c) ==
    LET op == call[c].op
        candidate == Drafted(op, call[c].loaded) IN
    /\ call[c].pc = "loaded" /\ call[c].job = "graph" /\ call[c].loaded \in ValidConfigs
    /\ \/ Answers(c, "rejected")
       \/ /\ Accepts(op, call[c].loaded) /\ candidate \in ValidConfigs
          /\ IF call[c].commit
             THEN call' = [call EXCEPT ![c].pc = "save", ![c].loaded = candidate]
             ELSE Answers(c, "committed")
    /\ UNCHANGED <<store, run, applyMu, used, stored>>

\* Mutant of Save: only the resource of the request is written.
SaveMerged(c) ==
    /\ call[c].pc = "save"
    /\ cfg' = Drafted(call[c].op, cfg)
    /\ rev' = rev + 1
    /\ Remember(cfg')
    /\ IF call[c].op.res \in Hot
       THEN call' = [call EXCEPT ![c].pc = "reload", ![c].answer = rev']
       ELSE Returns(c, "restart", call[c].loaded, rev')
    /\ UNCHANGED <<pending, run, applyMu, used>>

\* SaveConfig replaces every table in one transaction, under a new revision.
Save(c) ==
    /\ call[c].pc = "save"
    /\ cfg' = call[c].loaded
    /\ rev' = rev + 1
    /\ Remember(cfg')
    /\ IF call[c].op.res \in Hot
       THEN call' = [call EXCEPT ![c].pc = "reload", ![c].answer = rev']
       ELSE Returns(c, "restart", call[c].loaded, rev')
    /\ UNCHANGED <<pending, run, applyMu, used>>

SaveFails(c) ==
    /\ call[c].pc = "save"
    /\ Answers(c, "error")
    /\ UNCHANGED <<store, run, applyMu, used, stored>>

\* Runtime.Reload of what was validated.
Reload(c) ==
    /\ call[c].pc = "reload"
    /\ run' = call[c].loaded
    /\ Returns(c, "committed", call[c].loaded, call[c].answer)
    /\ Unlocks(c)
    /\ UNCHANGED <<store, used, stored>>
-----------------------------------------------------------------------------
\* PUT, PATCH and DELETE of the older endpoints: checked against the snapshot.
Stage(op) ==
    LET row == [id |-> used.staged + 1, val |-> op.val] IN
    /\ used.staged < MaxStaged
    /\ op.kind = "create" \/ run[op.res] # Absent
    /\ pending' = [pending EXCEPT ![op.res] = row]
    /\ used' = [used EXCEPT !.staged = @ + 1]
    /\ UNCHANGED <<cfg, rev, run, applyMu, call, stored>>

\* POST /changes/discard does not take applyMu.
Discard ==
    /\ pending # NoChanges
    /\ pending' = NoChanges
    /\ UNCHANGED <<cfg, rev, run, applyMu, call, used, stored>>

RequestApply(c) ==
    /\ call[c].pc = "idle"
    /\ call' = [call EXCEPT ![c] = [Idle EXCEPT !.pc = "lock", !.job = "apply"]]
    /\ UNCHANGED <<store, run, applyMu, stored>>

\* ApplyPendingChanges lists the rows before its transaction.
ListChanges(c) ==
    /\ call[c].pc = "lock" /\ applyMu = NoClient
    /\ IF pending = NoChanges
       THEN Answers(c, "committed") /\ UNCHANGED applyMu
       ELSE /\ call' = [call EXCEPT ![c].pc = "apply", ![c].listed = pending]
            /\ applyMu' = c
    /\ UNCHANGED <<store, run, used, stored>>

\* The transaction: neither validated nor under a new revision.
ApplyChanges(c) ==
    LET listed == call[c].listed IN
    /\ call[c].pc = "apply"
    /\ cfg' = Applied(cfg, listed)
    /\ pending' = [r \in Resources |-> IF pending[r] = listed[r] THEN NoChange ELSE pending[r]]
    /\ Remember(cfg')
    /\ call' = [d \in Clients |-> IF d = c THEN [call[c] EXCEPT !.pc = "load"]
                                  ELSE [call[d] EXCEPT !.stale = @ \/ call[d].pc \in Deciding]]
    /\ UNCHANGED <<rev, run, applyMu, used>>

ApplyFails(c) ==
    /\ call[c].pc = "apply"
    /\ Answers(c, "error")
    /\ Unlocks(c)
    /\ UNCHANGED <<store, run, used, stored>>

\* Mutant of Apply: the runtime takes what was read without building it.
ApplyUnvalidated(c) ==
    /\ call[c].pc = "loaded" /\ call[c].job = "apply"
    /\ Goes(c, "reload")
    /\ UNCHANGED <<store, run, applyMu, used, stored>>

\* What LoadAll returned is handed to the runtime.
Apply(c) ==
    /\ call[c].pc = "loaded" /\ call[c].job = "apply" /\ call[c].loaded \in ValidConfigs
    /\ Goes(c, "reload")
    /\ UNCHANGED <<store, run, applyMu, used, stored>>

\* The process ends, or dies, and starts again: a store that does not load
\* leaves the gateway running on its configuration file.
Restart ==
    /\ used.restarts < MaxRestarts
    /\ used' = [used EXCEPT !.restarts = @ + 1]
    /\ run' = IF cfg \in ValidConfigs THEN cfg ELSE SeedConfig
    /\ call' = [c \in Clients |-> Idle]
    /\ applyMu' = NoClient
    /\ UNCHANGED <<store, stored>>

\* A client of the web console or a script, with a revision it once read.
ConsoleRequest(c) ==
    /\ used.requests < MaxRequests
    /\ used' = [used EXCEPT !.requests = @ + 1]
    /\ \/ \E op \in Ops, base \in 1..rev, commit \in BOOLEAN : Request(c, op, base, commit)
       \/ RequestApply(c)

\* The steps of a request that no other part of the system takes part in.
Serve(c) ==
    \/ Check(c) \/ Load(c) \/ LoadFails(c) \/ Draft(c) \/ SaveFails(c) \/ Reload(c)
    \/ ListChanges(c) \/ ApplyChanges(c) \/ ApplyFails(c) \/ Apply(c)

Next ==
    \/ \E c \in Clients : ConsoleRequest(c) \/ Serve(c) \/ Save(c)
    \/ \E op \in Ops : Stage(op)
    \/ Discard \/ Restart

Spec == Init /\ [][Next]_vars
-----------------------------------------------------------------------------
\* No request is ever served from a configuration that does not validate, nor
\* from a value the store has not held: whatever LoadAll mixed from two saves,
\* whatever was staged, and across a restart (Reload, ApplyPendingChanges).
RunningIsTrusted ==
    run \in ValidConfigs /\ \A r \in Resources : run[r] \in stored[r]

\* Only the staged changes can turn a store that loads into one that does not:
\* the graph replaces the configuration it validated as a whole, so that no
\* interleaving of its requests stores a mixture (acceptCandidate, SaveConfig).
OnlyApplyBreaksStore ==
    [][(cfg \in ValidConfigs /\ cfg' \notin ValidConfigs) =>
        \E c \in Clients : call[c].pc = "apply" /\ call'[c].pc = "load"]_vars

\* A save changes a resource it was not asked to change only if the store was
\* changed after the revision check of its request (Patch, DeleteResource).
Saves(c) == call[c].pc = "save" /\ rev' # rev /\ call'[c] # call[c]
NoSilentOverwrite ==
    [][\A c \in Clients : Saves(c) =>
        \/ rev # call[c].base \/ call[c].stale
        \/ \A r \in Resources \ {call[c].op.res} : cfg'[r] = cfg[r]]_vars
=============================================================================
