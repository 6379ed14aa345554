-------------------------- MODULE ConfigSagaProofs --------------------------
(***************************************************************************)
(* Proofs about ConfigPlane and ConfigSaga, for every set of clients, of   *)
(* resources and of values, every order of the tables LoadAll reads and    *)
(* every bound.  The invariant says what a request may still rely on       *)
(* between two of its accesses to the store, and what a saga knows of the  *)
(* mutation it waits for.                                                  *)
(***************************************************************************)
EXTENDS ConfigSaga, TLAPS

USE ConfigAssumption, BoundsAssumption, AttemptsAssumption

-----------------------------------------------------------------------------
\* The history of the store is complete.
StoredOK == \A r \in Resources : cfg[r] \in stored[r] /\ SeedConfig[r] \in stored[r]

\* What a request has read was in the store; what it will save or hand to the
\* runtime was validated as a whole.
ReadOK(c) ==
    LET k == call[c] IN
    /\ k.pc \in {"check", "lock", "apply"} => k.table = 1
    /\ k.pc = "load" =>
         k.table <= Tables /\ \A r \in Resources : TableOf[r] < k.table => k.loaded[r] \in stored[r]
    /\ k.pc \in {"loaded", "reload"} => \A r \in Resources : k.loaded[r] \in stored[r]
    /\ k.pc \in {"save", "reload"} => k.loaded \in ValidConfigs
    /\ k.pc = "save" => k.job = "graph"
    /\ k.pc \in {"lock", "apply"} => k.job = "apply"

\* While the revision is the one the request checked and no staged change was
\* applied since, what it has read is what the store holds.
FreshOK(c) ==
    LET k == call[c] IN
    (k.pc \in Deciding /\ k.job = "graph") =>
        /\ k.base <= rev
        /\ (~k.stale /\ rev = k.base) =>
             /\ k.pc = "load" => \A r \in Resources : TableOf[r] < k.table => k.loaded[r] = cfg[r]
             /\ k.pc = "loaded" => \A r \in Resources : k.loaded[r] = cfg[r]
             /\ k.pc = "save" => \A r \in Resources \ {k.op.res} : k.loaded[r] = cfg[r]

CallsOK == \A c \in Clients : ReadOK(c) /\ FreshOK(c)

PlaneInv == TypeOK /\ RunningIsTrusted /\ StoredOK /\ CallsOK

\* What a saga that wrote knows of it, unless it started over or went away.
KnowsOfWrite ==
    CASE saga.pc = "idle" -> saga.outcome \in Failures \ {"unconfigured"} => saga.reported
      [] saga.pc = "reconcile" -> saga.mutated
      [] saga.pc = "waiting" ->
            \/ saga.mutated
            \/ call[Desktop].pc = "reload"
            \/ call[Desktop].pc = "idle" /\ call[Desktop].result \in {"committed", "restart"}
      [] OTHER -> saga.phase # "load"

SagaOK ==
    /\ saga.todo \subseteq Targets(saga.goal)
    /\ saga.pc \in {"reconcile", "waiting"} => saga.phase = "load"
    /\ saga.unanswered \/ saga.outcome # "none" => saga.pc = "idle"
    /\ (saga.pc # "waiting" /\ ~saga.unanswered) => call[Desktop].pc = "idle"
    /\ (saga.wrote /\ ~saga.retried /\ ~saga.unanswered) => KnowsOfWrite

IInv == PlaneInv /\ SagaTypeOK /\ SagaOK

-----------------------------------------------------------------------------
(* Types.                                                                  *)

LEMMA NoChangesType == NoChanges \in Changes
BY DEF NoChanges, Changes

LEMMA OpsExist == \E op : op \in Ops
<1>1. PICK r \in Resources : TRUE
  BY ConfigAssumption
<1>2. [kind |-> "delete", res |-> r, val |-> Absent] \in Ops
  BY DEF Ops, Contents
<1>. QED BY <1>2

LEMMA IdleType ==
    /\ Idle \in Calls
    /\ Idle.pc = "idle" /\ Idle.table = 1 /\ Idle.stale = FALSE
<1>1. (CHOOSE op \in Ops : TRUE) \in Ops
  BY OpsExist
<1>2. SeedConfig \in Config
  BY ConfigAssumption
<1>3. 1 \in 1..(Tables + 1)
  BY ConfigAssumption
<1>. QED BY <1>1, <1>2, <1>3, NoChangesType DEF Idle, Calls, Results

LEMMA AppliedType ==
    ASSUME NEW c \in Config, NEW listed \in Changes
    PROVE  Applied(c, listed) \in Config
BY DEF Applied, Config, Changes, Staged

LEMMA DraftedType ==
    ASSUME NEW c \in Config, NEW op \in Ops
    PROVE  /\ Drafted(op, c) \in Config
           /\ \A r \in Resources \ {op.res} : Drafted(op, c)[r] = c[r]
BY DEF Drafted, Config, Ops

\* The end of a request leaves its client idle, with the result it was given.
LEMMA ReturnsEffect ==
    ASSUME TypeOK, NEW c \in Clients, NEW result \in Results, NEW graph \in Config,
           NEW revision \in Nat, Returns(c, result, graph, revision)
    PROVE  /\ call' \in [Clients -> Calls]
           /\ call'[c].pc = "idle"
           /\ \A d \in Clients \ {c} : call'[d] = call[d]
           /\ c = Desktop => call'[c].result = result
<1>. DEFINE k == IF c # Desktop THEN Idle
             ELSE [Idle EXCEPT !.result = result, !.loaded = graph, !.answer = revision]
<1>1. k \in Calls /\ k.pc = "idle" /\ (c = Desktop => k.result = result)
  BY IdleType DEF Calls
<1>2. call' = [call EXCEPT ![c] = k]
  BY DEF Returns
<1>. QED BY <1>1, <1>2 DEF TypeOK

LEMMA AnswersEffect ==
    ASSUME TypeOK, NEW c \in Clients, NEW result \in Results, Answers(c, result)
    PROVE  /\ call' \in [Clients -> Calls]
           /\ call'[c].pc = "idle"
           /\ \A d \in Clients \ {c} : call'[d] = call[d]
           /\ c = Desktop => call'[c].result = result
BY ReturnsEffect, 0 \in Nat, SeedConfig \in Config DEF Answers

LEMMA UnlocksType ==
    ASSUME TypeOK, NEW c \in Clients, Unlocks(c)
    PROVE  applyMu' \in Clients \cup {NoClient}
BY DEF TypeOK, Unlocks

\* What the store holds is remembered.
LEMMA RememberEffect ==
    ASSUME TypeOK, cfg' \in Config, Remember(cfg')
    PROVE  /\ stored' \in [Resources -> SUBSET Contents]
           /\ \A r \in Resources : stored[r] \subseteq stored'[r] /\ cfg'[r] \in stored'[r]
BY DEF TypeOK, Remember, Config

-----------------------------------------------------------------------------
(* The requests.                                                           *)

\* A request that is not moved keeps what it relies on, whatever is saved.
LEMMA OthersOK ==
    ASSUME TypeOK, NEW d \in Clients, ReadOK(d), FreshOK(d), call'[d] = call[d],
           \A r \in Resources : stored[r] \subseteq stored'[r],
           \/ cfg' = cfg /\ rev' = rev
           \/ rev' = rev + 1
    PROVE  ReadOK(d)' /\ FreshOK(d)'
<1>1. ReadOK(d)'
  BY DEF ReadOK
<1>2. CASE cfg' = cfg /\ rev' = rev
  BY <1>1, <1>2 DEF FreshOK
<1>3. CASE rev' = rev + 1
  <2>1. call[d].base \in Nat /\ rev \in Nat
    BY DEF TypeOK, Calls
  <2>. QED BY <1>1, <1>3, <2>1 DEF FreshOK
<1>. QED BY <1>2, <1>3

LEMMA IdleOK ==
    ASSUME NEW d \in Clients, call'[d].pc = "idle"
    PROVE  ReadOK(d)' /\ FreshOK(d)'
BY DEF ReadOK, FreshOK, Deciding

\* A step of one request that leaves the store alone.
LEMMA OneMoves ==
    ASSUME PlaneInv, NEW c \in Clients, cfg' = cfg, rev' = rev, stored' = stored,
           run' = run, pending' = pending, used' \in Budget,
           applyMu' \in Clients \cup {NoClient},
           call' \in [Clients -> Calls],
           \A d \in Clients \ {c} : call'[d] = call[d],
           ReadOK(c)' /\ FreshOK(c)'
    PROVE  PlaneInv'
<1>1. TypeOK'
  BY DEF PlaneInv, TypeOK
<1>2. RunningIsTrusted' /\ StoredOK'
  BY DEF PlaneInv, RunningIsTrusted, StoredOK
<1>3. ASSUME NEW d \in Clients PROVE ReadOK(d)' /\ FreshOK(d)'
  BY <1>3, OthersOK DEF PlaneInv, CallsOK
<1>. QED BY <1>1, <1>2, <1>3 DEF PlaneInv, CallsOK

LEMMA RequestInv ==
    ASSUME PlaneInv, NEW c \in Clients, NEW op \in Ops, NEW base \in Nat,
           NEW commit \in BOOLEAN, Request(c, op, base, commit), used' \in Budget
    PROVE  PlaneInv' /\ \A d \in Clients \ {c} : call'[d] = call[d]
<1>. DEFINE k == [Idle EXCEPT !.pc = "check", !.op = op, !.base = base, !.commit = commit]
<1>1. k \in Calls /\ k.pc = "check" /\ k.table = 1
  BY IdleType DEF Calls, GraphPcs
<1>2. call' = [call EXCEPT ![c] = k] /\ TypeOK
  BY DEF Request, PlaneInv
<1>3. /\ call' \in [Clients -> Calls] /\ call'[c] = k
      /\ \A d \in Clients \ {c} : call'[d] = call[d]
  BY <1>1, <1>2 DEF TypeOK
<1>4. ReadOK(c)' /\ FreshOK(c)'
  BY <1>1, <1>3 DEF ReadOK, FreshOK, Deciding
<1>5. /\ cfg' = cfg /\ rev' = rev /\ stored' = stored /\ run' = run /\ pending' = pending
      /\ applyMu' \in Clients \cup {NoClient}
  BY DEF Request, store, PlaneInv, TypeOK
<1>6. PlaneInv'
  BY <1>3, <1>4, <1>5, OneMoves
<1>. QED BY <1>3, <1>6

LEMMA RequestApplyInv ==
    ASSUME PlaneInv, NEW c \in Clients, RequestApply(c), used' \in Budget
    PROVE  PlaneInv' /\ \A d \in Clients \ {c} : call'[d] = call[d]
<1>. DEFINE k == [Idle EXCEPT !.pc = "lock", !.job = "apply"]
<1>1. k \in Calls /\ k.pc = "lock" /\ k.table = 1 /\ k.job = "apply"
  BY IdleType DEF Calls, ApplyPcs
<1>2. call' = [call EXCEPT ![c] = k] /\ TypeOK
  BY DEF RequestApply, PlaneInv
<1>3. /\ call' \in [Clients -> Calls] /\ call'[c] = k
      /\ \A d \in Clients \ {c} : call'[d] = call[d]
  BY <1>1, <1>2 DEF TypeOK
<1>4. ReadOK(c)' /\ FreshOK(c)'
  BY <1>1, <1>3 DEF ReadOK, FreshOK, Deciding
<1>5. /\ cfg' = cfg /\ rev' = rev /\ stored' = stored /\ run' = run /\ pending' = pending
      /\ applyMu' \in Clients \cup {NoClient}
  BY DEF RequestApply, store, PlaneInv, TypeOK
<1>6. PlaneInv'
  BY <1>3, <1>4, <1>5, OneMoves
<1>. QED BY <1>3, <1>6

\* A request that ends without touching the store or the runtime.
LEMMA EndInv ==
    ASSUME PlaneInv, NEW c \in Clients, NEW result \in Results, Answers(c, result),
           applyMu' = applyMu \/ Unlocks(c), UNCHANGED <<store, run, used, stored>>
    PROVE  /\ PlaneInv'
           /\ \A d \in Clients \ {c} : call'[d] = call[d]
           /\ call'[c].pc = "idle"
           /\ c = Desktop => call'[c].result = result
<1>. TypeOK
  BY DEF PlaneInv
<1>1. /\ call' \in [Clients -> Calls] /\ call'[c].pc = "idle"
      /\ \A d \in Clients \ {c} : call'[d] = call[d]
      /\ c = Desktop => call'[c].result = result
  BY AnswersEffect
<1>2. applyMu' \in Clients \cup {NoClient} /\ used' \in Budget
  BY UnlocksType DEF TypeOK
<1>3. cfg' = cfg /\ rev' = rev /\ pending' = pending /\ run' = run /\ stored' = stored
  BY DEF store
<1>. QED BY <1>1, <1>2, <1>3, IdleOK, OneMoves

\* A request that goes on: only its own record changes.
LEMMA GoOnInv ==
    ASSUME PlaneInv, NEW c \in Clients, NEW k \in Calls, call' = [call EXCEPT ![c] = k],
           applyMu' \in Clients \cup {NoClient}, UNCHANGED <<store, run, used, stored>>,
           ReadOK(c)' /\ FreshOK(c)'
    PROVE  PlaneInv' /\ \A d \in Clients \ {c} : call'[d] = call[d]
<1>. TypeOK
  BY DEF PlaneInv
<1>1. call' \in [Clients -> Calls] /\ \A d \in Clients \ {c} : call'[d] = call[d]
  BY DEF TypeOK
<1>2. /\ cfg' = cfg /\ rev' = rev /\ pending' = pending /\ run' = run /\ stored' = stored
      /\ used' \in Budget
  BY DEF store, TypeOK
<1>. QED BY <1>1, <1>2, OneMoves

LEMMA CheckInv ==
    ASSUME PlaneInv, NEW c \in Clients, Check(c)
    PROVE  /\ PlaneInv'
           /\ \A d \in Clients \ {c} : call'[d] = call[d]
           /\ call'[c].pc \in {"idle", "load"} /\ (c = Desktop /\ call'[c].pc = "idle" => call'[c].result = "conflict")
<1>. /\ TypeOK /\ call[c] \in Calls /\ applyMu \in Clients \cup {NoClient}
     /\ ReadOK(c) /\ FreshOK(c)
  BY DEF PlaneInv, TypeOK, CallsOK
<1>1. CASE call[c].base = rev
  <2>. DEFINE k == [call[c] EXCEPT !.pc = "load", !.stale = FALSE]
  <2>1. k \in Calls /\ call' = [call EXCEPT ![c] = k] /\ call'[c] = k
    BY <1>1 DEF Check, Calls, TypeOK
  <2>2. UNCHANGED <<store, run, applyMu, used, stored>> /\ call[c].pc = "check"
    BY DEF Check
  <2>3. k.table = 1 /\ k.pc = "load" /\ k.base = rev
    BY <1>1, <2>2 DEF ReadOK, Calls
  <2>4. \A r \in Resources : ~(TableOf[r] < 1)
    BY ConfigAssumption
  <2>5. rev' = rev /\ rev \in Nat /\ Tables >= 1
    BY <2>2, ConfigAssumption DEF store, TypeOK
  <2>6. ReadOK(c)'
    BY <2>1, <2>3, <2>4, <2>5 DEF ReadOK
  <2>8. k.base <= rev'
    BY <2>3, <2>5
  <2>9. FreshOK(c)'
    BY <2>1, <2>3, <2>4, <2>8 DEF FreshOK
  <2>7. PlaneInv' /\ \A d \in Clients \ {c} : call'[d] = call[d]
    BY <2>1, <2>2, <2>6, <2>9, GoOnInv
  <2>. QED BY <2>1, <2>3, <2>7
<1>2. CASE call[c].base # rev
  <2>1. Answers(c, "conflict") /\ UNCHANGED <<store, run, applyMu, used, stored>>
    BY <1>2 DEF Check
  <2>. QED BY <2>1, EndInv, "conflict" \in Results DEF Results
<1>. QED BY <1>1, <1>2

LEMMA LoadInv ==
    ASSUME PlaneInv, NEW c \in Clients, Load(c)
    PROVE  /\ PlaneInv'
           /\ \A d \in Clients \ {c} : call'[d] = call[d]
           /\ call'[c].pc \in {"load", "loaded"}
<1>. DEFINE t == call[c].table
            read == [r \in Resources |-> IF TableOf[r] = t THEN cfg[r] ELSE call[c].loaded[r]]
            k == [call[c] EXCEPT !.pc = IF t = Tables THEN "loaded" ELSE "load",
                                 !.table = t + 1, !.loaded = read]
<1>. /\ TypeOK /\ call[c] \in Calls /\ applyMu \in Clients \cup {NoClient}
     /\ ReadOK(c) /\ FreshOK(c) /\ StoredOK
  BY DEF PlaneInv, TypeOK, CallsOK
<1>1. call[c].pc = "load" /\ UNCHANGED <<store, run, applyMu, used, stored>>
  BY DEF Load
<1>2. t \in Nat /\ 1 <= t /\ t <= Tables /\ Tables \in Nat
  BY <1>1, ConfigAssumption DEF ReadOK, Calls
<1>3. cfg \in Config /\ call[c].loaded \in Config
  BY DEF TypeOK, Calls
<1>4. read \in Config
  BY <1>3 DEF Config
<1>5. call' = [call EXCEPT ![c] = k]
  BY DEF Load
<1>6. /\ k.pc = IF t = Tables THEN "loaded" ELSE "load"
      /\ k.table = t + 1 /\ k.loaded = read
      /\ k.job = call[c].job /\ k.base = call[c].base /\ k.stale = call[c].stale
  BY DEF Calls
<1>7. k \in Calls
  <2>1. t + 1 \in 1..(Tables + 1)
    BY <1>2
  <2>2. (IF t = Tables THEN "loaded" ELSE "load") \in {"load", "loaded"}
    OBVIOUS
  <2>3. ASSUME NEW p \in {"load", "loaded"}, NEW n \in 1..(Tables + 1)
        PROVE  [call[c] EXCEPT !.pc = p, !.table = n, !.loaded = read] \in Calls
    BY <1>4, <2>3 DEF Calls
  <2>. QED BY <2>1, <2>2, <2>3
<1>8. call'[c] = k
  BY <1>5, <1>7 DEF TypeOK
<1>9. TableOf \in [Resources -> 1..Tables]
  BY ConfigAssumption
<1>10. \A r \in Resources : TableOf[r] < t + 1 => TableOf[r] < t \/ TableOf[r] = t
  BY <1>2, <1>9
<1>11. t = Tables => \A r \in Resources : TableOf[r] < t + 1
  BY <1>2, <1>9
<1>12. \A r \in Resources : TableOf[r] < t + 1 => read[r] \in stored[r]
  BY <1>1, <1>10 DEF ReadOK, StoredOK
<1>13. ReadOK(c)'
  BY <1>1, <1>2, <1>6, <1>8, <1>11, <1>12 DEF ReadOK
<1>14. /\ call[c].job = "graph" => call[c].base <= rev
       /\ (call[c].job = "graph" /\ ~call[c].stale /\ rev = call[c].base) =>
            \A r \in Resources : TableOf[r] < t + 1 => read[r] = cfg[r]
  BY <1>1, <1>10 DEF FreshOK, Deciding
<1>15. cfg' = cfg /\ rev' = rev
  BY <1>1 DEF store
<1>16. FreshOK(c)'
  BY <1>6, <1>8, <1>11, <1>14, <1>15 DEF FreshOK
<1>17. PlaneInv' /\ \A d \in Clients \ {c} : call'[d] = call[d]
  BY <1>1, <1>5, <1>7, <1>13, <1>16, GoOnInv
<1>. QED BY <1>6, <1>8, <1>17

LEMMA DraftInv ==
    ASSUME PlaneInv, NEW c \in Clients, Draft(c)
    PROVE  /\ PlaneInv'
           /\ \A d \in Clients \ {c} : call'[d] = call[d]
           /\ call'[c].pc \in {"idle", "save"}
<1>. DEFINE op == call[c].op
            candidate == Drafted(op, call[c].loaded)
            k == [call[c] EXCEPT !.pc = "save", !.loaded = candidate]
<1>. /\ TypeOK /\ call[c] \in Calls /\ applyMu \in Clients \cup {NoClient}
     /\ ReadOK(c) /\ FreshOK(c)
  BY DEF PlaneInv, TypeOK, CallsOK
<1>1. /\ call[c].pc = "loaded" /\ call[c].job = "graph"
      /\ UNCHANGED <<store, run, applyMu, used, stored>>
  BY DEF Draft
<1>2. \/ Answers(c, "rejected") \/ Answers(c, "committed")
      \/ candidate \in ValidConfigs /\ call' = [call EXCEPT ![c] = k]
  BY DEF Draft
<1>3. CASE Answers(c, "rejected") \/ Answers(c, "committed")
  BY <1>1, <1>3, EndInv DEF Results
<1>4. CASE candidate \in ValidConfigs /\ call' = [call EXCEPT ![c] = k]
  <2>1. call[c].loaded \in Config /\ op \in Ops
    BY DEF Calls
  <2>2. candidate \in Config /\ \A r \in Resources \ {op.res} : candidate[r] = call[c].loaded[r]
    BY <2>1, DraftedType
  <2>3. /\ k.pc = "save" /\ k.loaded = candidate /\ k.job = "graph" /\ k.op = op
        /\ k.base = call[c].base /\ k.stale = call[c].stale
    BY <1>1 DEF Calls
  <2>4. k \in Calls
    BY <2>2 DEF Calls, GraphPcs
  <2>5. call'[c] = k
    BY <1>4, <2>4 DEF TypeOK
  <2>6. ReadOK(c)'
    BY <1>4, <2>3, <2>5 DEF ReadOK
  <2>7. /\ call[c].base <= rev
        /\ (~call[c].stale /\ rev = call[c].base) =>
             \A r \in Resources : call[c].loaded[r] = cfg[r]
    BY <1>1 DEF FreshOK, Deciding
  <2>8. cfg' = cfg /\ rev' = rev
    BY <1>1 DEF store
  <2>9. FreshOK(c)'
    BY <2>2, <2>3, <2>5, <2>7, <2>8 DEF FreshOK
  <2>10. PlaneInv' /\ \A d \in Clients \ {c} : call'[d] = call[d]
    BY <1>1, <1>4, <2>4, <2>6, <2>9, GoOnInv
  <2>. QED BY <2>3, <2>5, <2>10
<1>. QED BY <1>2, <1>3, <1>4

\* A save replaces the store by what was validated; every other request that
\* relied on the revision it checked now finds another one.
LEMMA SaveInv ==
    ASSUME PlaneInv, NEW c \in Clients, Save(c)
    PROVE  /\ PlaneInv'
           /\ \A d \in Clients \ {c} : call'[d] = call[d]
           /\ cfg' \in ValidConfigs
           /\ call'[c].pc \in {"idle", "reload"}
           /\ c = Desktop /\ call'[c].pc = "idle" => call'[c].result = "restart"
<1>. DEFINE k == [call[c] EXCEPT !.pc = "reload", !.answer = rev']
<1>. /\ TypeOK /\ call[c] \in Calls /\ ReadOK(c) /\ rev \in Nat
  BY DEF PlaneInv, TypeOK, CallsOK
<1>1. /\ call[c].pc = "save" /\ cfg' = call[c].loaded /\ rev' = rev + 1
      /\ Remember(cfg') /\ UNCHANGED <<pending, run, applyMu, used>>
  BY DEF Save
<1>2. cfg' \in Config /\ cfg' \in ValidConfigs
  BY <1>1 DEF ReadOK, Calls
<1>3. /\ stored' \in [Resources -> SUBSET Contents]
      /\ \A r \in Resources : stored[r] \subseteq stored'[r] /\ cfg'[r] \in stored'[r]
  BY <1>1, <1>2, RememberEffect
<1>4. rev' \in Nat
  BY <1>1
<1>5. /\ call' \in [Clients -> Calls]
      /\ \A d \in Clients \ {c} : call'[d] = call[d]
      /\ call'[c].pc \in {"idle", "reload"}
      /\ call'[c].pc = "reload" => call'[c].loaded = cfg'
      /\ c = Desktop /\ call'[c].pc = "idle" => call'[c].result = "restart"
  <2>1. CASE call[c].op.res \in Hot
    <3>1. call' = [call EXCEPT ![c] = k]
      BY <2>1 DEF Save
    <3>2. k \in Calls /\ k.pc = "reload" /\ k.loaded = call[c].loaded
      BY <1>4 DEF Calls
    <3>. QED BY <1>1, <3>1, <3>2 DEF TypeOK
  <2>2. CASE call[c].op.res \notin Hot
    <3>1. Returns(c, "restart", call[c].loaded, rev') /\ call[c].loaded \in Config
      BY <2>2 DEF Save, Calls
    <3>. QED BY <1>4, <3>1, ReturnsEffect, "restart" \in Results DEF Results
  <2>. QED BY <2>1, <2>2
<1>6. TypeOK'
  BY <1>1, <1>2, <1>3, <1>4, <1>5 DEF TypeOK
<1>7. RunningIsTrusted' /\ StoredOK'
  BY <1>1, <1>3 DEF PlaneInv, RunningIsTrusted, StoredOK
<1>8. ReadOK(c)' /\ FreshOK(c)'
  BY <1>2, <1>3, <1>5 DEF ReadOK, FreshOK, Deciding
<1>9. ASSUME NEW d \in Clients \ {c} PROVE ReadOK(d)' /\ FreshOK(d)'
  BY <1>1, <1>3, <1>5, <1>9, OthersOK DEF PlaneInv, CallsOK
<1>10. CallsOK'
  BY <1>8, <1>9 DEF CallsOK
<1>. QED BY <1>2, <1>5, <1>6, <1>7, <1>10 DEF PlaneInv

LEMMA ReloadInv ==
    ASSUME PlaneInv, NEW c \in Clients, Reload(c)
    PROVE  /\ PlaneInv'
           /\ \A d \in Clients \ {c} : call'[d] = call[d]
           /\ call'[c].pc = "idle"
           /\ c = Desktop => call'[c].result = "committed"
<1>. /\ TypeOK /\ call[c] \in Calls /\ ReadOK(c) /\ applyMu \in Clients \cup {NoClient}
  BY DEF PlaneInv, TypeOK, CallsOK
<1>1. /\ call[c].pc = "reload" /\ run' = call[c].loaded /\ Unlocks(c)
      /\ UNCHANGED <<store, used, stored>>
      /\ Returns(c, "committed", call[c].loaded, call[c].answer)
  BY DEF Reload
<1>2. call[c].loaded \in Config /\ call[c].answer \in Nat
  BY DEF Calls
<1>3. /\ call' \in [Clients -> Calls] /\ call'[c].pc = "idle"
      /\ \A d \in Clients \ {c} : call'[d] = call[d]
      /\ c = Desktop => call'[c].result = "committed"
  BY <1>1, <1>2, ReturnsEffect, "committed" \in Results DEF Results
<1>4. applyMu' \in Clients \cup {NoClient}
  BY <1>1, UnlocksType
<1>5. TypeOK'
  BY <1>1, <1>2, <1>3, <1>4 DEF TypeOK, store
<1>6. RunningIsTrusted' /\ StoredOK'
  BY <1>1 DEF PlaneInv, RunningIsTrusted, StoredOK, ReadOK, store
<1>7. ASSUME NEW d \in Clients PROVE ReadOK(d)' /\ FreshOK(d)'
  BY <1>1, <1>3, <1>7, OthersOK, IdleOK DEF PlaneInv, CallsOK, store
<1>. QED BY <1>3, <1>5, <1>6, <1>7 DEF PlaneInv, CallsOK

LEMMA ListChangesInv ==
    ASSUME PlaneInv, NEW c \in Clients, ListChanges(c)
    PROVE  PlaneInv' /\ \A d \in Clients \ {c} : call'[d] = call[d]
<1>. DEFINE k == [call[c] EXCEPT !.pc = "apply", !.listed = pending]
<1>. TypeOK /\ call[c] \in Calls /\ ReadOK(c)
  BY DEF PlaneInv, TypeOK, CallsOK
<1>1. call[c].pc = "lock" /\ UNCHANGED <<store, run, used, stored>>
  BY DEF ListChanges
<1>2. CASE pending = NoChanges
  BY <1>1, <1>2, EndInv DEF ListChanges, Results
<1>3. CASE pending # NoChanges
  <2>1. call' = [call EXCEPT ![c] = k] /\ applyMu' = c
    BY <1>3 DEF ListChanges
  <2>2. k \in Calls /\ k.pc = "apply" /\ k.table = call[c].table /\ k.job = call[c].job
    BY DEF Calls, ApplyPcs, TypeOK
  <2>3. call'[c] = k
    BY <2>1, <2>2 DEF TypeOK
  <2>4. ReadOK(c)' /\ FreshOK(c)'
    BY <1>1, <2>2, <2>3 DEF ReadOK, FreshOK, Deciding
  <2>. QED BY <1>1, <2>1, <2>2, <2>4, GoOnInv
<1>. QED BY <1>2, <1>3

\* Staged changes go into the store under the revision it has: every request
\* that is deciding is marked, for what it read may be outdated.
LEMMA ApplyChangesInv ==
    ASSUME PlaneInv, NEW c \in Clients, ApplyChanges(c)
    PROVE  /\ PlaneInv'
           /\ \A d \in Clients \ {c} : call'[d].pc = call[d].pc /\ call'[d].result = call[d].result
           /\ call[c].pc = "apply" /\ call'[c].pc = "load"
<1>. DEFINE listed == call[c].listed
            mark(d) == [call[d] EXCEPT !.stale = @ \/ call[d].pc \in Deciding]
            k == [call[c] EXCEPT !.pc = "load"]
<1>. TypeOK /\ call \in [Clients -> Calls] /\ call[c] \in Calls /\ CallsOK
  BY DEF PlaneInv, TypeOK
<1>1. /\ call[c].pc = "apply" /\ cfg' = Applied(cfg, listed) /\ Remember(cfg')
      /\ pending' = [r \in Resources |-> IF pending[r] = listed[r] THEN NoChange ELSE pending[r]]
      /\ call' = [d \in Clients |-> IF d = c THEN k ELSE mark(d)]
      /\ UNCHANGED <<rev, run, applyMu, used>>
  BY DEF ApplyChanges
<1>2. cfg' \in Config
  BY <1>1, AppliedType DEF TypeOK, Calls
<1>3. pending' \in Changes
  BY <1>1 DEF TypeOK, Changes
<1>4. /\ stored' \in [Resources -> SUBSET Contents]
      /\ \A r \in Resources : stored[r] \subseteq stored'[r] /\ cfg'[r] \in stored'[r]
  BY <1>1, <1>2, RememberEffect
<1>5. k \in Calls /\ k.pc = "load" /\ k.table = call[c].table
  BY DEF Calls
<1>6. ASSUME NEW d \in Clients
      PROVE  /\ mark(d) \in Calls
             /\ mark(d).pc = call[d].pc /\ mark(d).result = call[d].result
             /\ mark(d).table = call[d].table /\ mark(d).loaded = call[d].loaded
             /\ mark(d).job = call[d].job /\ mark(d).base = call[d].base
             /\ call[d].pc \in Deciding => mark(d).stale
  BY <1>6 DEF Calls
<1>7. call' \in [Clients -> Calls]
  BY <1>1, <1>5, <1>6
<1>8. call'[c] = k /\ \A d \in Clients \ {c} : call'[d] = mark(d)
  BY <1>1
<1>9. TypeOK'
  BY <1>1, <1>2, <1>3, <1>4, <1>7 DEF TypeOK
<1>10. RunningIsTrusted' /\ StoredOK'
  BY <1>1, <1>4 DEF PlaneInv, RunningIsTrusted, StoredOK
<1>11. ASSUME NEW d \in Clients \ {c} PROVE ReadOK(d)' /\ FreshOK(d)'
  <2>1. ReadOK(d) /\ FreshOK(d) /\ call'[d] = mark(d)
    BY <1>8 DEF CallsOK
  <2>2. ReadOK(d)'
    BY <1>4, <1>6, <2>1 DEF ReadOK
  <2>3. FreshOK(d)'
    BY <1>1, <1>6, <2>1 DEF FreshOK
  <2>. QED BY <2>2, <2>3
<1>12. ReadOK(c)' /\ FreshOK(c)'
  <2>1. \A r \in Resources : ~(TableOf[r] < 1)
    BY ConfigAssumption
  <2>2. k.table = 1 /\ k.job = "apply" /\ 1 <= Tables
    BY <1>1, <1>5, ConfigAssumption DEF CallsOK, ReadOK, Calls
  <2>. QED BY <1>5, <1>8, <2>1, <2>2 DEF ReadOK, FreshOK
<1>13. PlaneInv'
  BY <1>9, <1>10, <1>11, <1>12 DEF PlaneInv, CallsOK
<1>14. \A d \in Clients \ {c} : call'[d].pc = call[d].pc /\ call'[d].result = call[d].result
  BY <1>6, <1>8
<1>15. call'[c].pc = "load"
  BY <1>5, <1>8
<1>16. call[c].pc = "apply"
  BY <1>1
<1>. QED BY <1>13, <1>14, <1>15, <1>16

LEMMA ApplyInv ==
    ASSUME PlaneInv, NEW c \in Clients, Apply(c)
    PROVE  PlaneInv' /\ \A d \in Clients \ {c} : call'[d] = call[d]
<1>. DEFINE k == [call[c] EXCEPT !.pc = "reload"]
<1>. /\ TypeOK /\ call[c] \in Calls /\ ReadOK(c) /\ applyMu \in Clients \cup {NoClient}
  BY DEF PlaneInv, TypeOK, CallsOK
<1>1. /\ call[c].pc = "loaded" /\ call[c].loaded \in ValidConfigs
      /\ UNCHANGED <<store, run, applyMu, used, stored>>
      /\ call' = [call EXCEPT ![c] = k]
  BY DEF Apply, Goes
<1>2. k \in Calls /\ k.pc = "reload" /\ k.loaded = call[c].loaded
  BY DEF Calls
<1>3. call'[c] = k
  BY <1>1, <1>2 DEF TypeOK
<1>4. ReadOK(c)' /\ FreshOK(c)'
  BY <1>1, <1>2, <1>3 DEF ReadOK, FreshOK, Deciding
<1>. QED BY <1>1, <1>2, <1>4, GoOnInv

\* What a step of a request does to the others, and to its own answer.
LEMMA ServeInv ==
    ASSUME PlaneInv, NEW c \in Clients, Serve(c)
    PROVE  /\ PlaneInv'
           /\ \A d \in Clients \ {c} : call'[d].pc = call[d].pc /\ call'[d].result = call[d].result
           /\ call[c].pc # "idle"
           /\ call[c].pc = "reload" =>
                call'[c].pc = "idle" /\ (c = Desktop => call'[c].result = "committed")
<1>1. CASE Check(c)
  <2>1. call[c].pc = "check"
    BY <1>1 DEF Check
  <2>. QED BY <1>1, <2>1, CheckInv
<1>2. CASE Load(c)
  <2>1. call[c].pc = "load"
    BY <1>2 DEF Load
  <2>. QED BY <1>2, <2>1, LoadInv
<1>3. CASE LoadFails(c)
  <2>1. /\ call[c].pc = "loaded" /\ Answers(c, "error") /\ Unlocks(c)
        /\ UNCHANGED <<store, run, used, stored>>
    BY <1>3 DEF LoadFails
  <2>. QED BY <2>1, EndInv DEF Results
<1>4. CASE Draft(c)
  <2>1. call[c].pc = "loaded"
    BY <1>4 DEF Draft
  <2>. QED BY <1>4, <2>1, DraftInv
<1>5. CASE SaveFails(c)
  <2>1. /\ call[c].pc = "save" /\ Answers(c, "error")
        /\ UNCHANGED <<store, run, applyMu, used, stored>>
    BY <1>5 DEF SaveFails
  <2>. QED BY <2>1, EndInv DEF Results
<1>6. CASE Reload(c)
  <2>1. call[c].pc = "reload"
    BY <1>6 DEF Reload
  <2>. QED BY <1>6, <2>1, ReloadInv
<1>7. CASE ListChanges(c)
  <2>1. call[c].pc = "lock"
    BY <1>7 DEF ListChanges
  <2>. QED BY <1>7, <2>1, ListChangesInv
<1>8. CASE ApplyChanges(c)
  BY <1>8, ApplyChangesInv
<1>9. CASE ApplyFails(c)
  <2>1. /\ call[c].pc = "apply" /\ Answers(c, "error") /\ Unlocks(c)
        /\ UNCHANGED <<store, run, used, stored>>
    BY <1>9 DEF ApplyFails
  <2>. QED BY <2>1, EndInv DEF Results
<1>10. CASE Apply(c)
  <2>1. call[c].pc = "loaded"
    BY <1>10 DEF Apply
  <2>. QED BY <1>10, <2>1, ApplyInv
<1>. QED BY <1>1, <1>2, <1>3, <1>4, <1>5, <1>6, <1>7, <1>8, <1>9, <1>10 DEF Serve

\* A step that touches neither the store's tables nor a request.
LEMMA AsideInv ==
    ASSUME PlaneInv, pending' \in Changes, used' \in Budget,
           UNCHANGED <<cfg, rev, run, applyMu, call, stored>>
    PROVE  PlaneInv'
<1>1. TypeOK'
  BY DEF PlaneInv, TypeOK
<1>2. RunningIsTrusted' /\ StoredOK'
  BY DEF PlaneInv, RunningIsTrusted, StoredOK
<1>3. CallsOK'
  BY DEF PlaneInv, CallsOK, ReadOK, FreshOK
<1>. QED BY <1>1, <1>2, <1>3 DEF PlaneInv

LEMMA StageInv ==
    ASSUME PlaneInv, NEW op \in Ops, Stage(op)
    PROVE  PlaneInv' /\ call' = call
<1>. DEFINE row == [id |-> used.staged + 1, val |-> op.val]
<1>1. /\ used.staged < MaxStaged /\ pending' = [pending EXCEPT ![op.res] = row]
      /\ used' = [used EXCEPT !.staged = @ + 1]
      /\ UNCHANGED <<cfg, rev, run, applyMu, call, stored>>
  BY DEF Stage
<1>2. used \in Budget /\ pending \in Changes
  BY DEF PlaneInv, TypeOK
<1>3. used.staged + 1 \in 1..MaxStaged
  BY <1>1, <1>2, BoundsAssumption DEF Budget
<1>4. row \in Staged /\ op.res \in Resources
  BY <1>3 DEF Staged, Ops
<1>5. used' \in Budget
  BY <1>1, <1>2, <1>3 DEF Budget
<1>6. pending' \in Changes
  BY <1>1, <1>2, <1>4 DEF Changes
<1>. QED BY <1>1, <1>5, <1>6, AsideInv

LEMMA DiscardInv == ASSUME PlaneInv, Discard PROVE PlaneInv' /\ call' = call
<1>1. pending' = NoChanges /\ UNCHANGED <<cfg, rev, run, applyMu, call, used, stored>>
  BY DEF Discard
<1>2. used' \in Budget
  BY <1>1 DEF PlaneInv, TypeOK
<1>. QED BY <1>1, <1>2, NoChangesType, AsideInv

LEMMA RestartInv ==
    ASSUME PlaneInv, Restart
    PROVE  PlaneInv' /\ \A c \in Clients : call'[c].pc = "idle"
<1>1. /\ used' = [used EXCEPT !.restarts = @ + 1] /\ used.restarts < MaxRestarts
      /\ run' = (IF cfg \in ValidConfigs THEN cfg ELSE SeedConfig)
      /\ call' = [c \in Clients |-> Idle] /\ applyMu' = NoClient
      /\ UNCHANGED <<cfg, rev, pending, stored>>
  BY DEF Restart, store
<1>2. used' \in Budget
  BY <1>1, BoundsAssumption DEF PlaneInv, TypeOK, Budget
<1>3. call' \in [Clients -> Calls] /\ \A c \in Clients : call'[c].pc = "idle"
  BY <1>1, IdleType
<1>4. TypeOK'
  BY <1>1, <1>2, <1>3, ConfigAssumption DEF PlaneInv, TypeOK
<1>5. RunningIsTrusted' /\ StoredOK'
  BY <1>1, ConfigAssumption DEF PlaneInv, RunningIsTrusted, StoredOK
<1>6. CallsOK'
  BY <1>3, IdleOK DEF CallsOK
<1>. QED BY <1>3, <1>4, <1>5, <1>6 DEF PlaneInv

LEMMA ConsoleRequestInv ==
    ASSUME PlaneInv, NEW c \in Clients, ConsoleRequest(c)
    PROVE  PlaneInv' /\ \A d \in Clients \ {c} : call'[d] = call[d]
<1>1. used.requests < MaxRequests /\ used' = [used EXCEPT !.requests = @ + 1]
  BY DEF ConsoleRequest
<1>2. used' \in Budget
  BY <1>1, BoundsAssumption DEF PlaneInv, TypeOK, Budget
<1>3. CASE RequestApply(c)
  BY <1>2, <1>3, RequestApplyInv
<1>4. ASSUME NEW op \in Ops, NEW base \in 1..rev, NEW commit \in BOOLEAN,
             Request(c, op, base, commit)
      PROVE  PlaneInv' /\ \A d \in Clients \ {c} : call'[d] = call[d]
  <2>1. base \in Nat
    BY DEF PlaneInv, TypeOK
  <2>. QED BY <1>2, <1>4, <2>1, RequestInv
<1>. QED BY <1>3, <1>4 DEF ConsoleRequest

-----------------------------------------------------------------------------
(* The sagas.                                                              *)

LEMMA SagaInitially == ASSUME SagaInit PROVE IInv
<1>1. TypeOK
  BY IdleType, NoChangesType, ConfigAssumption, BoundsAssumption
  DEF SagaInit, Init, TypeOK, Budget, Config
<1>2. call \in [Clients -> Calls] /\ \A c \in Clients : call[c].pc = "idle"
  BY IdleType DEF SagaInit, Init
<1>3. RunningIsTrusted /\ StoredOK
  BY ConfigAssumption DEF SagaInit, Init, RunningIsTrusted, StoredOK
<1>4. CallsOK
  BY <1>2 DEF CallsOK, ReadOK, FreshOK, Deciding
<1>5. SagaTypeOK
  BY ConfigAssumption, AttemptsAssumption
  DEF SagaInit, SagaTypeOK, NoSaga, Sagas, Goals, NoChanges, Outcomes
<1>6. SagaOK
  BY <1>2, ConfigAssumption DEF SagaInit, SagaOK, NoSaga, KnowsOfWrite
<1>. QED BY <1>1, <1>3, <1>4, <1>5, <1>6 DEF IInv, PlaneInv

LEMMA NoSagaType ==
    /\ NoSaga \in Sagas
    /\ NoSaga.pc = "idle" /\ NoSaga.todo = {} /\ NoSaga.outcome = "none"
    /\ NoSaga.wrote = FALSE /\ NoSaga.retried = FALSE /\ NoSaga.unanswered = FALSE
BY ConfigAssumption, AttemptsAssumption DEF NoSaga, Sagas, Goals, NoChanges, Outcomes

\* A saga that ends keeps its history.
LEMMA EndsEffect ==
    ASSUME SagaTypeOK, NEW outcome \in Outcomes, NEW reported \in BOOLEAN, Ends(outcome, reported)
    PROVE  /\ saga' \in Sagas
           /\ saga'.pc = "idle" /\ saga'.todo = {}
           /\ saga'.outcome = outcome /\ saga'.reported = reported
           /\ saga'.wrote = saga.wrote /\ saga'.retried = saga.retried
           /\ saga'.unanswered = saga.unanswered
<1>1. saga.wrote \in BOOLEAN /\ saga.retried \in BOOLEAN /\ saga.unanswered \in BOOLEAN
  BY DEF SagaTypeOK, Sagas
<1>. QED BY <1>1, NoSagaType DEF Ends, Sagas

\* A saga's step that leaves the configuration alone.
LEMMA SagaMoves ==
    ASSUME IInv, UNCHANGED vars, SagaTypeOK', SagaOK'
    PROVE  IInv'
<1>1. PlaneInv'
  BY DEF IInv, PlaneInv, TypeOK, RunningIsTrusted, StoredOK, CallsOK, ReadOK, FreshOK, vars, store
<1>. QED BY <1>1 DEF IInv

LEMMA EndsInv ==
    ASSUME IInv, UNCHANGED vars, NEW outcome \in Outcomes, NEW reported \in BOOLEAN,
           Ends(outcome, reported), call[Desktop].pc = "idle",
           (saga.wrote /\ ~saga.retried /\ ~saga.unanswered /\ outcome \in Failures \ {"unconfigured"}) => reported
    PROVE  IInv'
<1>1. /\ saga' \in Sagas /\ saga'.pc = "idle" /\ saga'.todo = {}
      /\ saga'.outcome = outcome /\ saga'.reported = reported
      /\ saga'.wrote = saga.wrote /\ saga'.retried = saga.retried
      /\ saga'.unanswered = saga.unanswered
  BY EndsEffect DEF IInv
<1>2. call' = call
  BY DEF vars
<1>3. SagaOK'
  BY <1>1, <1>2 DEF SagaOK, KnowsOfWrite
<1>. QED BY <1>1, <1>3, SagaMoves DEF SagaTypeOK

LEMMA BeginInv == ASSUME IInv, Begin PROVE IInv'
<1>1. PICK goal \in Goals, mode \in {"save", "force", "slot"} :
        saga' = [NoSaga EXCEPT !.pc = "revision", !.goal = goal, !.mode = mode]
  BY DEF Begin
<1>2. /\ used.sagas < MaxSagas /\ used' = [used EXCEPT !.sagas = @ + 1]
      /\ call[Desktop].pc = "idle"
      /\ UNCHANGED <<cfg, rev, pending, run, applyMu, call, stored>>
  BY DEF Begin, store
<1>3. used' \in Budget /\ pending' \in Changes
  BY <1>2, BoundsAssumption DEF IInv, PlaneInv, TypeOK, Budget
<1>4. PlaneInv'
  BY <1>2, <1>3, AsideInv DEF IInv
<1>5. /\ saga' \in Sagas /\ saga'.pc = "revision" /\ saga'.todo = {}
      /\ saga'.wrote = FALSE /\ saga'.unanswered = FALSE /\ saga'.outcome = "none"
  BY <1>1, NoSagaType DEF Sagas
<1>6. SagaOK'
  BY <1>2, <1>5 DEF SagaOK
<1>. QED BY <1>4, <1>5, <1>6 DEF IInv, SagaTypeOK

LEMMA ReadRevisionInv == ASSUME IInv, ReadRevision PROVE IInv'
<1>1. /\ saga.pc = "revision" /\ saga \in Sagas /\ UNCHANGED vars /\ rev \in Nat
      /\ saga' = [saga EXCEPT !.pc = "snapshot", !.viewRev = rev]
  BY DEF ReadRevision, IInv, SagaTypeOK, PlaneInv, TypeOK
<1>2. SagaTypeOK'
  BY <1>1 DEF SagaTypeOK, Sagas
<1>3. /\ saga'.pc = "snapshot" /\ saga'.phase = saga.phase /\ saga'.todo = saga.todo
      /\ saga'.goal = saga.goal /\ saga'.wrote = saga.wrote /\ saga'.retried = saga.retried
      /\ saga'.unanswered = saga.unanswered /\ saga'.outcome = saga.outcome
  BY <1>1 DEF Sagas
<1>4. SagaOK'
  BY <1>1, <1>3 DEF IInv, SagaOK, KnowsOfWrite, vars
<1>. QED BY <1>1, <1>2, <1>4, SagaMoves

LEMMA ReadSnapshotInv == ASSUME IInv, ReadSnapshot PROVE IInv'
<1>1. /\ saga.pc = "snapshot" /\ saga \in Sagas /\ UNCHANGED vars /\ run \in Config
      /\ SagaOK
  BY DEF ReadSnapshot, IInv, SagaTypeOK, PlaneInv, TypeOK
<1>2. saga.unanswered = FALSE /\ call[Desktop].pc = "idle"
  BY <1>1 DEF SagaOK, Sagas
<1>3. \/ /\ saga.phase = "load"
         /\ saga' = [saga EXCEPT !.pc = "reconcile", !.view = run, !.todo = Targets(saga.goal)]
      \/ saga.phase = "load" /\ Ends("invalid", FALSE)
      \/ Ends("ok", FALSE) \/ Ends("verify_failed", TRUE) \/ Ends("exceeded", TRUE)
  BY DEF ReadSnapshot
<1>4. CASE /\ saga.phase = "load"
           /\ saga' = [saga EXCEPT !.pc = "reconcile", !.view = run, !.todo = Targets(saga.goal)]
  <2>1. Targets(saga.goal) \in SUBSET Resources
    BY DEF Targets
  <2>2. /\ saga' \in Sagas /\ saga'.pc = "reconcile" /\ saga'.phase = "load"
        /\ saga'.todo = Targets(saga.goal) /\ saga'.goal = saga.goal
        /\ saga'.wrote = saga.wrote /\ saga'.retried = saga.retried
        /\ saga'.unanswered = saga.unanswered /\ saga'.outcome = saga.outcome
    BY <1>1, <1>4, <2>1 DEF Sagas
  <2>3. ~saga.wrote \/ saga.retried
    BY <1>1, <1>2, <1>4 DEF SagaOK, KnowsOfWrite
  <2>4. SagaOK'
    BY <1>1, <1>2, <2>2, <2>3 DEF SagaOK, vars
  <2>. QED BY <1>1, <2>2, <2>4, SagaMoves DEF SagaTypeOK
<1>5. CASE Ends("ok", FALSE)
  BY <1>1, <1>2, <1>5, EndsInv DEF Outcomes, Failures
<1>6. CASE Ends("verify_failed", TRUE)
  BY <1>1, <1>2, <1>6, EndsInv DEF Outcomes
<1>7. CASE Ends("exceeded", TRUE)
  BY <1>1, <1>2, <1>7, EndsInv DEF Outcomes
<1>8. CASE saga.phase = "load" /\ Ends("invalid", FALSE)
  <2>1. ~saga.wrote \/ saga.retried
    BY <1>1, <1>2, <1>8 DEF SagaOK, KnowsOfWrite
  <2>. QED BY <1>1, <1>2, <1>8, <2>1, EndsInv DEF Outcomes
<1>. QED BY <1>3, <1>4, <1>5, <1>6, <1>7, <1>8

LEMMA UnconfiguredInv == ASSUME IInv, Unconfigured PROVE IInv'
<1>1. /\ saga.pc = "reconcile" /\ saga \in Sagas /\ UNCHANGED vars /\ SagaOK
      /\ Ends("unconfigured", FALSE)
  BY DEF Unconfigured, IInv, SagaTypeOK
<1>2. saga.unanswered = FALSE /\ call[Desktop].pc = "idle"
  BY <1>1 DEF SagaOK, Sagas
<1>. QED BY <1>1, <1>2, EndsInv DEF Outcomes

LEMMA GraphFailsInv == ASSUME IInv, GraphFails PROVE IInv'
<1>1. /\ saga.pc \in {"revision", "snapshot"} /\ saga \in Sagas /\ UNCHANGED vars /\ SagaOK
      /\ Ends("gateway_failed", saga.phase # "load")
  BY DEF GraphFails, IInv, SagaTypeOK
<1>2. saga.unanswered = FALSE /\ call[Desktop].pc = "idle"
  BY <1>1 DEF SagaOK, Sagas
<1>3. (saga.wrote /\ ~saga.retried) => saga.phase # "load"
  BY <1>1, <1>2 DEF SagaOK, KnowsOfWrite
<1>4. "gateway_failed" \in Outcomes /\ (saga.phase # "load") \in BOOLEAN
  BY DEF Outcomes
<1>. QED BY <1>1, <1>2, <1>3, <1>4, EndsInv

LEMMA ReconciledInv == ASSUME IInv, Reconciled PROVE IInv'
<1>1. /\ saga.pc = "reconcile" /\ saga \in Sagas /\ UNCHANGED vars /\ SagaOK
      /\ saga' = [saga EXCEPT !.pc = "revision", !.phase = "verify"]
  BY DEF Reconciled, IInv, SagaTypeOK
<1>2. /\ saga' \in Sagas /\ saga'.pc = "revision" /\ saga'.phase = "verify"
      /\ saga'.todo = saga.todo /\ saga'.goal = saga.goal
      /\ saga'.unanswered = saga.unanswered /\ saga'.outcome = saga.outcome
  BY <1>1 DEF Sagas
<1>3. SagaOK'
  BY <1>1, <1>2 DEF SagaOK, KnowsOfWrite, vars
<1>. QED BY <1>1, <1>2, <1>3, SagaMoves DEF SagaTypeOK

LEMMA CommittedInv == ASSUME IInv, Committed PROVE IInv'
<1>1. /\ saga.pc = "waiting" /\ call[Desktop].pc = "idle" /\ UNCHANGED vars
      /\ saga' = [saga EXCEPT !.pc = "reconcile", !.mutated = TRUE,
                              !.view = call[Desktop].loaded, !.viewRev = call[Desktop].answer]
  BY DEF Committed
<1>2. saga \in Sagas /\ SagaOK /\ call[Desktop].loaded \in Config /\ call[Desktop].answer \in Nat
  BY ConfigAssumption DEF IInv, SagaTypeOK, PlaneInv, TypeOK, Calls
<1>3. /\ saga' \in Sagas /\ saga'.pc = "reconcile" /\ saga'.mutated = TRUE
      /\ saga'.phase = saga.phase /\ saga'.todo = saga.todo /\ saga'.goal = saga.goal
      /\ saga'.unanswered = saga.unanswered /\ saga'.outcome = saga.outcome
  BY <1>1, <1>2 DEF Sagas
<1>4. SagaOK'
  BY <1>1, <1>2, <1>3 DEF SagaOK, KnowsOfWrite, vars
<1>. QED BY <1>1, <1>3, <1>4, SagaMoves DEF SagaTypeOK

LEMMA ConflictInv == ASSUME IInv, Conflict PROVE IInv'
<1>1. /\ saga.pc = "waiting" /\ call[Desktop].pc = "idle" /\ UNCHANGED vars
      /\ saga \in Sagas /\ SagaOK
  BY DEF Conflict, IInv, SagaTypeOK
<1>2. CASE saga.attempt < MaxAttempts
  <2>1. saga' = [saga EXCEPT !.pc = "revision", !.attempt = @ + 1,
                             !.mutated = FALSE, !.retried = TRUE]
    BY <1>2 DEF Conflict
  <2>2. saga.attempt + 1 \in 1..MaxAttempts
    BY <1>1, <1>2, AttemptsAssumption DEF Sagas
  <2>3. /\ saga' \in Sagas /\ saga'.pc = "revision" /\ saga'.retried = TRUE
        /\ saga'.todo = saga.todo /\ saga'.goal = saga.goal
        /\ saga'.unanswered = saga.unanswered /\ saga'.outcome = saga.outcome
    BY <1>1, <2>1, <2>2 DEF Sagas
  <2>4. SagaOK'
    BY <1>1, <2>3 DEF SagaOK, vars
  <2>. QED BY <1>1, <2>3, <2>4, SagaMoves DEF SagaTypeOK
<1>3. CASE ~(saga.attempt < MaxAttempts)
  <2>1. saga' = [saga EXCEPT !.pc = "revision", !.phase = "exceeded"]
    BY <1>3 DEF Conflict
  <2>2. /\ saga' \in Sagas /\ saga'.pc = "revision" /\ saga'.phase = "exceeded"
        /\ saga'.todo = saga.todo /\ saga'.goal = saga.goal
        /\ saga'.unanswered = saga.unanswered /\ saga'.outcome = saga.outcome
    BY <1>1, <2>1 DEF Sagas
  <2>3. SagaOK'
    BY <1>1, <2>2 DEF SagaOK, KnowsOfWrite, vars
  <2>. QED BY <1>1, <2>2, <2>3, SagaMoves DEF SagaTypeOK
<1>. QED BY <1>2, <1>3

LEMMA RefusedInv == ASSUME IInv, Refused PROVE IInv'
<1>1. /\ saga.pc = "waiting" /\ call[Desktop].pc = "idle" /\ UNCHANGED vars
      /\ saga \in Sagas /\ SagaOK
      /\ call[Desktop].result \in {"rejected", "error"}
      /\ Ends("rejected", saga.mutated) \/ Ends("gateway_failed", saga.mutated)
  BY DEF Refused, IInv, SagaTypeOK
<1>2. saga.mutated \in BOOLEAN
  BY <1>1 DEF Sagas
<1>3. (saga.wrote /\ ~saga.retried /\ ~saga.unanswered) => saga.mutated
  BY <1>1 DEF SagaOK, KnowsOfWrite
<1>. QED BY <1>1, <1>2, <1>3, EndsInv DEF Outcomes

LEMMA UnansweredInv == ASSUME IInv, Unanswered PROVE IInv'
<1>1. /\ UNCHANGED vars /\ saga \in Sagas
      /\ saga' = [NoSaga EXCEPT !.outcome = "gateway_failed", !.reported = saga.mutated,
                                !.wrote = saga.wrote, !.retried = saga.retried,
                                !.unanswered = TRUE]
  BY DEF Unanswered, IInv, SagaTypeOK
<1>2. saga.mutated \in BOOLEAN /\ saga.wrote \in BOOLEAN /\ saga.retried \in BOOLEAN
  BY <1>1 DEF Sagas
<1>3. saga' \in Sagas /\ saga'.pc = "idle" /\ saga'.todo = {} /\ saga'.unanswered = TRUE
  BY <1>1, <1>2, NoSagaType DEF Sagas, Outcomes
<1>4. SagaOK'
  BY <1>3 DEF SagaOK
<1>. QED BY <1>1, <1>3, <1>4, SagaMoves DEF SagaTypeOK

LEMMA MutateInv == ASSUME IInv, NEW r \in Resources, Mutate(r) PROVE IInv'
<1>. DEFINE op == [kind |-> IF saga.view[r] = Absent THEN "create" ELSE "patch",
                   res |-> r, val |-> saga.goal[r]]
<1>1. /\ saga.pc = "reconcile" /\ r \in saga.todo /\ used' = used
      /\ Request(Desktop, op, saga.viewRev, TRUE)
      /\ saga' = [saga EXCEPT !.pc = "waiting", !.todo = saga.todo \ {r}]
  BY DEF Mutate
<1>2. saga \in Sagas /\ SagaOK /\ PlaneInv
  BY DEF IInv, SagaTypeOK
<1>3. saga.goal[r] \in Values
  BY <1>1, <1>2 DEF SagaOK, Targets, Sagas, Goals
<1>4. op \in Ops
  <2>1. op.kind \in {"create", "patch"} /\ op.val # Absent
    BY <1>3, ConfigAssumption
  <2>2. op.val \in Contents
    BY <1>3 DEF Contents
  <2>3. \A kind \in {"create", "patch"} :
          [kind |-> kind, res |-> r, val |-> saga.goal[r]] \in Ops
    BY <1>3, <2>2, ConfigAssumption DEF Ops
  <2>. QED BY <2>3
<1>5. saga.viewRev \in Nat /\ used' \in Budget /\ Desktop \in Clients
  BY <1>1, <1>2, ConfigAssumption DEF Sagas, PlaneInv, TypeOK
<1>6. PlaneInv'
  BY <1>1, <1>2, <1>4, <1>5, RequestInv
<1>7. /\ saga' \in Sagas /\ saga'.pc = "waiting" /\ saga'.phase = saga.phase
      /\ saga'.todo \subseteq saga.todo /\ saga'.goal = saga.goal
      /\ saga'.mutated = saga.mutated /\ saga'.wrote = saga.wrote
      /\ saga'.retried = saga.retried /\ saga'.unanswered = saga.unanswered
      /\ saga'.outcome = saga.outcome
  BY <1>1, <1>2 DEF Sagas
<1>8. SagaOK'
  BY <1>1, <1>2, <1>7 DEF SagaOK, KnowsOfWrite
<1>. QED BY <1>6, <1>7, <1>8 DEF IInv, SagaTypeOK

\* A step of the API that does not touch the desktop's request, or serves it.
LEMMA ApiMoves ==
    ASSUME IInv, PlaneInv', saga' = saga,
           \/ call'[Desktop].pc = call[Desktop].pc /\ call'[Desktop].result = call[Desktop].result
           \/ /\ call[Desktop].pc # "idle"
              /\ call[Desktop].pc = "reload" =>
                   call'[Desktop].pc = "idle" /\ call'[Desktop].result = "committed"
    PROVE  IInv'
<1>1. SagaOK /\ SagaTypeOK'
  BY DEF IInv, SagaTypeOK
<1>2. KnowsOfWrite => KnowsOfWrite'
  BY DEF KnowsOfWrite
<1>3. SagaOK'
  BY <1>1, <1>2 DEF SagaOK
<1>. QED BY <1>1, <1>3 DEF IInv

LEMMA ApiInv == ASSUME IInv, ApiStep PROVE IInv'
<1>. PlaneInv /\ Desktop \in Clients
  BY ConfigAssumption DEF IInv
<1>1. saga' = saga
  BY DEF ApiStep
<1>2. ASSUME NEW c \in Clients \ {Desktop}, ConsoleRequest(c) PROVE IInv'
  BY <1>1, <1>2, ConsoleRequestInv, ApiMoves
<1>3. ASSUME NEW c \in Clients, Serve(c) PROVE IInv'
  <2>1. CASE c = Desktop
    BY <1>1, <1>3, <2>1, ServeInv, ApiMoves
  <2>2. CASE c # Desktop
    BY <1>1, <1>3, <2>2, ServeInv, ApiMoves
  <2>. QED BY <2>1, <2>2
<1>4. ASSUME NEW op \in Ops, Stage(op) PROVE IInv'
  BY <1>1, <1>4, StageInv, ApiMoves
<1>5. CASE Discard
  BY <1>1, <1>5, DiscardInv, ApiMoves
<1>. QED BY <1>2, <1>3, <1>4, <1>5 DEF ApiStep

LEMMA SagaSaveInv ==
    ASSUME IInv, NEW c \in Clients, SagaSave(c)
    PROVE  IInv' /\ cfg' \in ValidConfigs
<1>1. /\ Save(c) /\ PlaneInv /\ saga \in Sagas /\ SagaOK
      /\ saga' = [saga EXCEPT !.wrote = saga.wrote \/ c = Desktop]
      /\ call[c].pc = "save"
  BY DEF SagaSave, Save, IInv, SagaTypeOK
<1>2. /\ PlaneInv' /\ cfg' \in ValidConfigs
      /\ \A d \in Clients \ {c} : call'[d] = call[d]
      /\ call'[c].pc \in {"idle", "reload"}
      /\ c = Desktop /\ call'[c].pc = "idle" => call'[c].result = "restart"
  BY <1>1, SaveInv
<1>3. /\ saga' \in Sagas /\ saga'.pc = saga.pc /\ saga'.phase = saga.phase
      /\ saga'.todo = saga.todo /\ saga'.goal = saga.goal
      /\ saga'.outcome = saga.outcome /\ saga'.reported = saga.reported
      /\ saga'.mutated = saga.mutated /\ saga'.retried = saga.retried
      /\ saga'.unanswered = saga.unanswered
      /\ c # Desktop => saga'.wrote = saga.wrote
  BY <1>1 DEF Sagas
<1>4. CASE c = Desktop
  <2>1. saga.pc = "waiting" \/ saga.unanswered
    BY <1>1, <1>4 DEF SagaOK
  <2>. QED BY <1>1, <1>2, <1>3, <1>4, <2>1 DEF IInv, SagaTypeOK, SagaOK, KnowsOfWrite
<1>5. CASE c # Desktop
  <2>1. call'[Desktop] = call[Desktop]
    BY <1>2, <1>5, ConfigAssumption
  <2>2. SagaOK'
    BY <1>1, <1>3, <1>5, <2>1 DEF SagaOK, KnowsOfWrite
  <2>. QED BY <1>2, <1>3, <2>2 DEF IInv, SagaTypeOK
<1>. QED BY <1>4, <1>5, <1>2

LEMMA SagaRestartInv == ASSUME IInv, SagaRestart PROVE IInv'
<1>1. PlaneInv' /\ (\A c \in Clients : call'[c].pc = "idle") /\ saga' = NoSaga
  BY RestartInv DEF SagaRestart, IInv
<1>2. SagaOK'
  BY <1>1, NoSagaType, ConfigAssumption DEF SagaOK
<1>. QED BY <1>1, <1>2, NoSagaType DEF IInv, SagaTypeOK

LEMMA Inductive == ASSUME IInv, [SagaNext]_sagaVars PROVE IInv'
<1>1. CASE DesktopStep
  BY <1>1, BeginInv, ReadRevisionInv, ReadSnapshotInv, GraphFailsInv, ReconciledInv, UnconfiguredInv,
     CommittedInv, ConflictInv, RefusedInv, UnansweredInv, MutateInv DEF DesktopStep
<1>2. CASE ApiStep
  BY <1>2, ApiInv
<1>3. CASE SagaRestart
  BY <1>3, SagaRestartInv
<1>4. ASSUME NEW c \in Clients, SagaSave(c) PROVE IInv'
  BY <1>4, SagaSaveInv
<1>5. CASE UNCHANGED sagaVars
  BY <1>5 DEF sagaVars, vars, store, IInv, PlaneInv, TypeOK, RunningIsTrusted, StoredOK,
              CallsOK, ReadOK, FreshOK, SagaTypeOK, SagaOK, KnowsOfWrite
<1>. QED BY <1>1, <1>2, <1>3, <1>4, <1>5 DEF SagaNext

-----------------------------------------------------------------------------
(* The theorems.                                                           *)

\* What a request and a saga rely on between two of their steps holds whatever
\* the others do (Patch, LoadAll, SaveConfig, Reload, ApplyPendingChanges, and
\* the Save of the DeepSeek setup).
THEOREM SagaInvariant == SagaSpec => []IInv
<1>1. SagaInit => IInv
  BY SagaInitially
<1>2. IInv /\ [SagaNext]_sagaVars => IInv'
  BY Inductive
<1>. QED BY <1>1, <1>2, PTL DEF SagaSpec

\* Types: the store, the snapshot, the requests and the saga keep theirs.
THEOREM SagaTypes == SagaSpec => []AllTypesOK
<1>1. IInv => AllTypesOK
  BY DEF IInv, PlaneInv, AllTypesOK
<1>. QED BY <1>1, SagaInvariant, PTL

\* The runtime serves a configuration that validates, made of values the store
\* has held (Runtime.Reload, the start of the application).
THEOREM RunningTrusted == SagaSpec => []RunningIsTrusted
<1>1. IInv => RunningIsTrusted
  BY DEF IInv, PlaneInv
<1>. QED BY <1>1, SagaInvariant, PTL

\* A saga that failed after it wrote says so, unless it started over or never
\* got an answer (mutationError of routingprofile and of deepseek).
THEOREM FailuresAreReported == SagaSpec => []UnreportedOnlyAfterRetry
<1>1. IInv => UnreportedOnlyAfterRetry
  <2>1. SUFFICES ASSUME IInv, saga.outcome \in Failures, saga.wrote, ~saga.reported,
                        ~saga.retried, ~saga.unanswered, saga.outcome # "unconfigured"
                 PROVE  FALSE
    BY DEF UnreportedOnlyAfterRetry
  <2>2. saga.pc = "idle"
    BY <2>1 DEF IInv, SagaOK, Failures
  <2>3. KnowsOfWrite
    BY <2>1 DEF IInv, SagaOK
  <2>. QED BY <2>1, <2>2, <2>3 DEF KnowsOfWrite
<1>. QED BY <1>1, SagaInvariant, PTL

\* How a step changes the store: a save, or staged changes, or not at all.
LEMMA StoreStep ==
    ASSUME IInv, [SagaNext]_sagaVars
    PROVE  \/ cfg' = cfg /\ rev' = rev
           \/ \E c \in Clients : ApplyChanges(c)
           \/ \E c \in Clients : Save(c)
<1>1. CASE DesktopStep
  BY <1>1 DEF DesktopStep, Begin, ReadRevision, ReadSnapshot, GraphFails, Reconciled, Unconfigured, Committed,
              Conflict, Refused, Unanswered, Mutate, Request, vars, store
<1>2. CASE ApiStep
  <2>1. ASSUME NEW c \in Clients, Serve(c), ~ApplyChanges(c) PROVE cfg' = cfg /\ rev' = rev
    BY <2>1 DEF Serve, Check, Load, LoadFails, Draft, SaveFails, Reload, ListChanges,
                ApplyFails, Apply, store
  <2>. QED BY <1>2, <2>1 DEF ApiStep, ConsoleRequest, Request, RequestApply, Stage, Discard, store
<1>3. CASE SagaRestart
  BY <1>3 DEF SagaRestart, Restart, store
<1>4. ASSUME NEW c \in Clients, SagaSave(c) PROVE Save(c)
  BY <1>4 DEF SagaSave
<1>5. CASE UNCHANGED sagaVars
  BY <1>5 DEF sagaVars, vars, store
<1>. QED BY <1>1, <1>2, <1>3, <1>4, <1>5 DEF SagaNext

\* Only the staged changes, never the graph, make a store that does not load
\* (acceptCandidate validates the whole and SaveConfig replaces the whole).
THEOREM GraphKeepsStoreLoadable == SagaSpec => OnlyApplyBreaksStore
<1>. DEFINE A == (cfg \in ValidConfigs /\ cfg' \notin ValidConfigs) =>
                   \E c \in Clients : call[c].pc = "apply" /\ call'[c].pc = "load"
<1>1. ASSUME IInv, [SagaNext]_sagaVars PROVE A
  <2>1. ASSUME NEW c \in Clients, ApplyChanges(c) PROVE A
    BY <1>1, <2>1, ApplyChangesInv DEF IInv
  <2>2. ASSUME NEW c \in Clients, Save(c) PROVE A
    BY <1>1, <2>2, SaveInv DEF IInv
  <2>. QED BY <1>1, <2>1, <2>2, StoreStep
<1>2. IInv /\ [SagaNext]_sagaVars => [A]_vars
  BY <1>1
<1>. HIDE DEF A
<1>3. SagaSpec => [][A]_vars
  BY <1>2, SagaInvariant, PTL DEF SagaSpec
<1>. QED BY <1>3 DEF A, OnlyApplyBreaksStore

\* A save that overwrites somebody else's resource does so although the revision
\* it checked is gone, or after staged changes were applied (Patch, SaveConfig).
THEOREM OverwritesAreStale == SagaSpec => NoSilentOverwrite
<1>. DEFINE A == \A c \in Clients : Saves(c) =>
                   \/ rev # call[c].base \/ call[c].stale
                   \/ \A r \in Resources \ {call[c].op.res} : cfg'[r] = cfg[r]
<1>1. ASSUME IInv, [SagaNext]_sagaVars, NEW c \in Clients, Saves(c)
      PROVE  \/ rev # call[c].base \/ call[c].stale
             \/ \A r \in Resources \ {call[c].op.res} : cfg'[r] = cfg[r]
  <2>1. call[c].pc = "save" /\ rev' # rev /\ call'[c] # call[c]
    BY <1>1 DEF Saves
  <2>2. PICK d \in Clients : Save(d)
    BY <1>1, <2>1, StoreStep DEF ApplyChanges
  <2>3. d = c
    BY <1>1, <2>1, <2>2, SaveInv DEF IInv
  <2>4. cfg' = call[c].loaded
    BY <2>2, <2>3 DEF Save
  <2>5. ReadOK(c) /\ FreshOK(c)
    BY <1>1 DEF IInv, PlaneInv, CallsOK
  <2>. QED BY <2>1, <2>4, <2>5 DEF ReadOK, FreshOK, Deciding
<1>2. IInv /\ [SagaNext]_sagaVars => [A]_vars
  BY <1>1
<1>. HIDE DEF A
<1>3. SagaSpec => [][A]_vars
  BY <1>2, SagaInvariant, PTL DEF SagaSpec
<1>. QED BY <1>3 DEF A, NoSilentOverwrite
=============================================================================
