-------------------------- MODULE RouterToolRounds --------------------------
(***************************************************************************)
(* The tool loop of one parent execution: the model answers with calls of  *)
(* Router tools, each call becomes a child execution, the results join the *)
(* parent's context and the model is dispatched again (executeSynchronous  *)
(* and internal/execution/router_tools.go).  The run may end between any   *)
(* two steps; recovery then continues from what the store kept.            *)
(*                                                                         *)
(* The plan binds one tool.  The store is MemoryStore, which keeps the     *)
(* whole record, or the SQLite store, whose UPDATE leaves request_payload  *)
(* and the context in it as they were at admission.                        *)
(***************************************************************************)
EXTENDS Naturals, FiniteSets

CONSTANTS
    Call,           \* tool call identifiers a model may choose
    MaximumCalls,   \* the binding's calls per parent
    TargetAttempts, \* maxSameProviderExecutionAttempts (8 in the code)
    KeepsRequest    \* whether Save stores the request's context

\* What the code guarantees of them.
ASSUME RouterToolAssumption ==
    /\ MaximumCalls \in Nat \ {0} /\ TargetAttempts \in Nat \ {0}
    /\ KeepsRequest \in BOOLEAN
    /\ IsFiniteSet(Call)

VARIABLES
    stored,     \* the parent's record in the store
    run,        \* the worker that executes it
    children,   \* status of the child of every call and round
    sent        \* dispatches of the parent: idempotency round and context

routerVars == <<stored, run, children, sent>>

\* A call and the round it was made in; a child's idempotency key names both.
MaximumRounds == TargetAttempts + MaximumCalls
Slot == Call \X (1..MaximumRounds)

\* Dispatches the parent may make in all (maximumSynchronousCycleAttempts).
MaximumDispatches == TargetAttempts + MaximumCalls

RouterInit ==
    /\ stored = [status |-> "running", attempts |-> 0, rounds |-> 0, context |-> {}]
    /\ run = [pc |-> "down"]
    /\ children = [s \in Slot |-> "none"]
    /\ sent = {}

\* Faulty variant: every run has the whole budget.
RemainingPerRun(r) == MaximumDispatches

Remaining(r) ==
    IF r.attempts < MaximumDispatches THEN MaximumDispatches - r.attempts ELSE 0

\* The run starts or recovers: the budget and the tool history are taken
\* from the record (routerToolHistory).
LoadParent ==
    /\ run.pc = "down" /\ stored.status = "running"
    /\ IF Remaining(stored) = 0
       THEN /\ stored' = [stored EXCEPT !.status = "failed"]
            /\ UNCHANGED run
       ELSE /\ run' = [pc |-> "ready", record |-> stored, left |-> Remaining(stored),
                       batch |-> {}, results |-> [c \in {} |-> "pending"]]
            /\ UNCHANGED stored
    /\ UNCHANGED <<children, sent>>

\* The next pass of the loop.  A loop that runs out returns an error and
\* leaves the record to recovery.
DispatchModel ==
    /\ run.pc = "ready"
    /\ IF run.left = 0
       THEN /\ run' = [pc |-> "down"]
            /\ UNCHANGED sent
       ELSE /\ run' = [run EXCEPT !.pc = "await", !.left = @ - 1]
            /\ sent' = sent \cup {<<run.record.rounds, run.record.context>>}
    /\ UNCHANGED <<stored, children>>

Tried(r) == [r EXCEPT !.attempts = @ + 1]

\* A Save of the record: the SQLite store keeps the context it had.
Kept(r) == [r EXCEPT !.context = IF KeepsRequest THEN @ ELSE stored.context]

FinishParent(r, status) ==
    /\ stored' = [Kept(r) EXCEPT !.status = status]
    /\ run' = [pc |-> "down"]

\* The model answers, or the dispatch fails and another target may be tried.
Answer ==
    /\ run.pc = "await"
    /\ \/ FinishParent(Tried(run.record), "succeeded")
       \/ FinishParent(Tried(run.record), "failed")
       \/ /\ run.left > 0
          /\ stored' = Kept(Tried(run.record))
          /\ run' = [run EXCEPT !.pc = "ready", !.record = Tried(@)]
    /\ UNCHANGED <<children, sent>>

\* A call identifier seen before, or more calls than the binding allows.
Refused(context, batch) ==
    \/ \E s \in context : s[1] \in batch
    \/ Cardinality(context) + Cardinality(batch) > MaximumCalls

\* The model calls tools: the attempt and the started calls are saved before
\* any child exists.
CallTools(batch) ==
    LET r == Tried(run.record)
    IN  /\ run.pc = "await" /\ batch # {}
        /\ IF Refused(r.context, batch)
           THEN FinishParent(r, "failed")
           ELSE /\ stored' = Kept(r)
                /\ run' = [run EXCEPT !.pc = "children", !.record = r, !.batch = batch,
                                      !.results = [c \in batch |-> "pending"]]
        /\ UNCHANGED <<children, sent>>

Child(c) == <<c, run.record.rounds + 1>>

\* create for a child: a new one, or the one its idempotency key names, whose
\* result is only used if it has succeeded.
StartChild(c) ==
    /\ run.pc = "children" /\ run.results[c] = "pending"
    /\ IF children[Child(c)] = "none"
       THEN /\ children' = [children EXCEPT ![Child(c)] = "open"]
            /\ run' = [run EXCEPT !.results[c] = "running"]
       ELSE /\ run' = [run EXCEPT !.results[c] =
                          IF children[Child(c)] = "succeeded" THEN "succeeded" ELSE "failed"]
            /\ UNCHANGED children
    /\ UNCHANGED <<stored, sent>>

\* A child ends, for the parent that waits for it or on its own after the
\* parent's run ended.
EndChild(s) ==
    /\ children[s] = "open"
    /\ \E end \in {"succeeded", "failed"} :
          /\ children' = [children EXCEPT ![s] = end]
          /\ run' = IF /\ run.pc = "children"
                       /\ s[1] \in run.batch /\ s = Child(s[1])
                       /\ run.results[s[1]] = "running"
                    THEN [run EXCEPT !.results[s[1]] = end] ELSE run
    /\ UNCHANGED <<stored, sent>>

Settled == \A c \in run.batch : run.results[c] \in {"succeeded", "failed"}

\* Faulty variant: the round is saved and its context is left for the next Save.
ResumeForgetful ==
    /\ run.pc = "children" /\ Settled
    /\ IF \A c \in run.batch : run.results[c] = "succeeded"
       THEN LET next == [run.record EXCEPT !.rounds = @ + 1,
                                           !.context = @ \cup {Child(c) : c \in run.batch}]
            IN  /\ stored' = [next EXCEPT !.context = stored.context]
                /\ run' = [run EXCEPT !.pc = "ready", !.record = next, !.batch = {},
                                      !.results = [c \in {} |-> "pending"]]
       ELSE FinishParent(run.record, "failed")
    /\ UNCHANGED <<children, sent>>

\* appendRouterToolResult and persistRouterToolRound: all results join the
\* context and the round is saved, or one failure fails the parent.
Resume ==
    /\ run.pc = "children" /\ Settled
    /\ IF \A c \in run.batch : run.results[c] = "succeeded"
       THEN LET next == [run.record EXCEPT !.rounds = @ + 1,
                                           !.context = @ \cup {Child(c) : c \in run.batch}]
            IN  /\ stored' = Kept(next)
                /\ run' = [run EXCEPT !.pc = "ready", !.record = next, !.batch = {},
                                      !.results = [c \in {} |-> "pending"]]
       ELSE FinishParent(run.record, "failed")
    /\ UNCHANGED <<children, sent>>

\* The process dies or loses the lease.
Interrupt ==
    /\ run.pc # "down"
    /\ run' = [pc |-> "down"]
    /\ UNCHANGED <<stored, children, sent>>

RouterNext ==
    \/ LoadParent \/ DispatchModel \/ Answer \/ Resume \/ Interrupt
    \/ \E batch \in SUBSET Call : CallTools(batch)
    \/ run.pc = "children" /\ \E c \in run.batch : StartChild(c)
    \/ \E s \in Slot : EndChild(s)

RouterSpec == RouterInit /\ [][RouterNext]_routerVars

-----------------------------------------------------------------------------
Parent ==
    [status: {"running", "succeeded", "failed"}, attempts: 0..MaximumDispatches,
     rounds: 0..MaximumRounds, context: SUBSET Slot]

RouterTypeOK ==
    /\ stored \in Parent
    /\ run.pc \in {"down", "ready", "await", "children"}
    /\ run.pc # "down" => /\ run.record \in Parent /\ run.left \in 0..MaximumDispatches
                          /\ run.batch \subseteq Call
                          /\ run.results \in [run.batch ->
                                 {"pending", "running", "succeeded", "failed"}]
    /\ children \in [Slot -> {"none", "open", "succeeded", "failed"}]
    /\ sent \subseteq (0..MaximumRounds) \X SUBSET Slot

(* One idempotency key of the parent always goes with one context, however *)
(* often a round is dispatched again (providerDispatchIdempotencyKey,      *)
(* "replay-stable identity for the current semantic parent round").        *)
ReplayStable ==
    \A s, t \in sent : s[1] = t[1] => s[2] = t[2]

(* What the model is shown as the result of a call is the result of a      *)
(* child that succeeded, also when rounds were repeated after the child or *)
(* the parent was interrupted (executeRouterToolCall).                     *)
ResultsFromSucceededChildren ==
    \A s \in stored.context : children[s] = "succeeded"

(* The committed calls of a parent stay within its binding's maximum, in   *)
(* one round and over all rounds and runs.                                 *)
CallsWithinMaximum == Cardinality(stored.context) <= MaximumCalls

(* Restarts replenish no dispatches: those recorded, and the one in        *)
(* flight, stay within the limit for the whole parent                      *)
(* (TestMaximumAttemptBudgetsRemainGlobalAcrossRecovery).                  *)
DispatchesWithinLimit ==
    stored.attempts + (IF run.pc = "await" THEN 1 ELSE 0) <= MaximumDispatches

(* Results, calls and dispatches of a parent keep to what it may have,     *)
(* over all of its runs.                                                   *)
ResultsWithinBudgets ==
    ResultsFromSucceededChildren /\ CallsWithinMaximum /\ DispatchesWithinLimit

-----------------------------------------------------------------------------
(* router_tools.go:1076: "persistRouterToolRound durably freezes parent    *)
(* context, completed attempts, and safe tool events before the next model *)
(* dispatch": every committed round has its results in the stored context. *)
ParentContextFrozen ==
    {s[2] : s \in stored.context} = 1..stored.rounds
=============================================================================
