----------------------------- MODULE ConfigSaga -----------------------------
(***************************************************************************)
(* The settings the desktop writes through the management API while the    *)
(* gateway runs: routing profiles (internal/service/routingprofile) and    *)
(* the DeepSeek setup (internal/service/deepseek).  Both reconcile a goal  *)
(* over several resources, one mutation per resource, start again with a   *)
(* fresh graph after a revision conflict, and read the graph once more to  *)
(* verify.  The desktop runs one saga at a time (operationMu), beside the  *)
(* clients of ConfigPlane.                                                 *)
(***************************************************************************)
EXTENDS ConfigPlane

CONSTANTS
    Models,       \* the resources of kind model
    MaxAttempts   \* maxReconcileAttempts

ASSUME AttemptsAssumption == MaxAttempts \in Nat \ {0}

Goals == [Resources -> Values \cup {NoChange}]
Targets(goal) == {r \in Resources : goal[r] # NoChange}
Outcomes == {"none", "ok", "invalid", "unconfigured", "verify_failed", "exceeded",
             "rejected", "gateway_failed"}

VARIABLE saga

sagaVars == <<vars, saga>>

\* phase: what the graph is read for.  mode: "force" sends the patch of
\* active_profile or a new API key even when the graph shows no difference, and
\* "slot" (ActivateSlot) creates no model.  `mutated` is
\* reconcileOutcome.mutated and `reported` the MutationStarted of the error.
\* wrote, retried and unanswered are history.
Sagas == [pc : {"idle", "revision", "snapshot", "reconcile", "waiting"},
          phase : {"load", "verify", "exceeded"}, attempt : 1..MaxAttempts,
          goal : Goals, mode : {"save", "force", "slot"},
          todo : SUBSET Resources, view : Config, viewRev : Nat,
          mutated : BOOLEAN, reported : BOOLEAN, outcome : Outcomes,
          wrote : BOOLEAN, retried : BOOLEAN, unanswered : BOOLEAN]

NoSaga == [pc |-> "idle", phase |-> "load", attempt |-> 1,
           goal |-> NoChanges, mode |-> "save",
           todo |-> {}, view |-> SeedConfig, viewRev |-> 0,
           mutated |-> FALSE, reported |-> FALSE, outcome |-> "none",
           wrote |-> FALSE, retried |-> FALSE, unanswered |-> FALSE]

SagaTypeOK == saga \in Sagas
AllTypesOK == TypeOK /\ SagaTypeOK

SagaInit == Init /\ saga = NoSaga

Ends(outcome, reported) ==
    saga' = [NoSaga EXCEPT !.outcome = outcome, !.reported = reported,
                           !.wrote = saga.wrote, !.retried = saga.retried,
                           !.unanswered = saga.unanswered]

\* Save, SaveBaseline, ActivateSlot, ActivateProfile and the DeepSeek Save.
Begin ==
    /\ used.sagas < MaxSagas
    /\ saga.pc = "idle" /\ call[Desktop].pc = "idle"
    /\ \E goal \in Goals, mode \in {"save", "force", "slot"} :
         /\ Targets(goal) # {}
         /\ saga' = [NoSaga EXCEPT !.pc = "revision", !.goal = goal, !.mode = mode]
    /\ used' = [used EXCEPT !.sagas = @ + 1]
    /\ UNCHANGED <<store, run, applyMu, call, stored>>

\* Graph: the revision of the store and then the snapshot of the runtime.
ReadRevision ==
    /\ saga.pc = "revision"
    /\ saga' = [saga EXCEPT !.pc = "snapshot", !.viewRev = rev]
    /\ UNCHANGED vars

\* An unknown profile or a missing API key is refused once the graph is read.
ReadSnapshot ==
    /\ saga.pc = "snapshot"
    /\ \/ saga.phase = "load" /\ Ends("invalid", FALSE)
       \/ /\ saga.phase = "load"
          /\ saga' = [saga EXCEPT !.pc = "reconcile", !.view = run, !.todo = Targets(saga.goal)]
       \/ /\ saga.phase = "verify"
          /\ IF \A r \in Targets(saga.goal) : run[r] = saga.goal[r]
             THEN Ends("ok", FALSE)
             ELSE Ends("verify_failed", TRUE)
       \/ saga.phase = "exceeded" /\ Ends("exceeded", TRUE)
    /\ UNCHANGED vars

GraphFails ==
    /\ saga.pc \in {"revision", "snapshot"}
    /\ Ends("gateway_failed", saga.phase # "load")
    /\ UNCHANGED vars

Differs(r) == saga.mode = "force" \/ saga.view[r] # saga.goal[r]
Missing(r) == saga.mode = "slot" /\ r \in Models /\ saga.view[r] = Absent

\* A resource is created when the graph shows none, else its difference is
\* patched; any order stands for the order of the code.
Mutate(r) ==
    LET kind == IF saga.view[r] = Absent THEN "create" ELSE "patch" IN
    /\ saga.pc = "reconcile" /\ r \in saga.todo /\ Differs(r) /\ ~Missing(r)
    /\ Request(Desktop, [kind |-> kind, res |-> r, val |-> saga.goal[r]], saga.viewRev, TRUE)
    /\ saga' = [saga EXCEPT !.pc = "waiting", !.todo = @ \ {r}]
    /\ UNCHANGED used

Reconciled ==
    /\ saga.pc = "reconcile" /\ \A r \in saga.todo : ~Differs(r)
    /\ saga' = [saga EXCEPT !.pc = "revision", !.phase = "verify"]
    /\ UNCHANGED vars

\* reconcileActivate looks for the model of the slot when the extension and the
\* route are written, and then returns an error of its own.
Unconfigured ==
    /\ saga.pc = "reconcile"
    /\ \E r \in saga.todo : Missing(r) /\ \A q \in saga.todo \ {r} : ~Differs(q)
    /\ Ends("unconfigured", FALSE)
    /\ UNCHANGED vars

\* Mutant of Committed: a mutation that needs a restart does not count.
CommittedUnlessRestart ==
    /\ saga.pc = "waiting" /\ call[Desktop].pc = "idle"
    /\ call[Desktop].result \in {"committed", "restart"}
    /\ saga' = [saga EXCEPT !.pc = "reconcile",
                            !.mutated = @ \/ call[Desktop].result = "committed",
                            !.view = call[Desktop].loaded, !.viewRev = call[Desktop].answer]
    /\ UNCHANGED vars

\* apply: the answer's graph and revision are the base of the next mutation.
Committed ==
    /\ saga.pc = "waiting" /\ call[Desktop].pc = "idle"
    /\ call[Desktop].result \in {"committed", "restart"}
    /\ saga' = [saga EXCEPT !.pc = "reconcile", !.mutated = TRUE,
                            !.view = call[Desktop].loaded, !.viewRev = call[Desktop].answer]
    /\ UNCHANGED vars

\* A conflict starts over with a new reconcileOutcome, or is given up.
Conflict ==
    /\ saga.pc = "waiting" /\ call[Desktop].pc = "idle" /\ call[Desktop].result = "conflict"
    /\ saga' = IF saga.attempt < MaxAttempts
               THEN [saga EXCEPT !.pc = "revision", !.attempt = @ + 1,
                                 !.mutated = FALSE, !.retried = TRUE]
               ELSE [saga EXCEPT !.pc = "revision", !.phase = "exceeded"]
    /\ UNCHANGED vars

\* mutationError
Refused ==
    /\ saga.pc = "waiting" /\ call[Desktop].pc = "idle"
    /\ \/ call[Desktop].result = "rejected" /\ Ends("rejected", saga.mutated)
       \/ call[Desktop].result = "error" /\ Ends("gateway_failed", saga.mutated)
    /\ UNCHANGED vars

\* The client gives up after 30 seconds or loses the connection; the request
\* goes on.
Unanswered ==
    /\ saga.pc = "waiting"
    /\ saga' = [NoSaga EXCEPT !.outcome = "gateway_failed", !.reported = saga.mutated,
                              !.wrote = saga.wrote, !.retried = saga.retried,
                              !.unanswered = TRUE]
    /\ UNCHANGED vars

\* ConfigPlane with the desktop as one of its clients.
SagaSave(c) ==
    /\ Save(c)
    /\ saga' = [saga EXCEPT !.wrote = @ \/ c = Desktop]

SagaRestart == Restart /\ saga' = NoSaga

DesktopStep ==
    \/ Begin \/ ReadRevision \/ ReadSnapshot \/ GraphFails \/ Reconciled \/ Unconfigured
    \/ Committed \/ Conflict \/ Refused \/ Unanswered
    \/ \E r \in Resources : Mutate(r)

ApiStep ==
    /\ \/ \E c \in Clients \ {Desktop} : ConsoleRequest(c)
       \/ \E c \in Clients : Serve(c)
       \/ \E op \in Ops : Stage(op)
       \/ Discard
    /\ UNCHANGED saga

SagaNext ==
    \/ DesktopStep \/ ApiStep \/ SagaRestart
    \/ \E c \in Clients : SagaSave(c)

SagaSpec == SagaInit /\ [][SagaNext]_sagaVars
-----------------------------------------------------------------------------
\* A saga that failed after it changed the store says so (MutationStarted of
\* Save, ActivateSlot and ActivateProfile), unless it started over after a
\* conflict, never got the answer of a mutation, or found the model of its slot
\* missing.
Failures == Outcomes \ {"none", "ok"}
UnreportedOnlyAfterRetry ==
    (saga.outcome \in Failures /\ saga.wrote /\ ~saga.reported)
        => saga.retried \/ saga.unanswered \/ saga.outcome = "unconfigured"
=============================================================================
