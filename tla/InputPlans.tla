------------------------------ MODULE InputPlans ------------------------------
(***************************************************************************)
(* Input plans (internal/inputplan, prepareInputs of execution/service.go) *)
(* over the resolver: a client asks for a plan, brings it to an execution, *)
(* and the execution holds it against the world before it materializes the *)
(* inputs.  The plan, the admission of the execution and the check each    *)
(* resolve a target of their own, and the resolver lets the credentials of *)
(* the pool take turns.                                                    *)
(***************************************************************************)
EXTENDS Naturals

CONSTANTS
    Client,         \* every one with a plan of its own, in one pool
    Credential,     \* bound credentials of equal priority, numbers
    MaxChanges      \* bound on the changes of the world

VARIABLES
    cursor,         \* of the selector
    usable,         \* credentials that no filter of Resolve takes out
    catalogRevision,
    configRevision,
    resources,      \* clients whose resource is as it was planned
    live,           \* clients whose plan has not expired
    plan,           \* client -> the target its plan froze
    record,         \* client -> the target its execution was admitted to
    stage,
    drifted         \* history: clients for whom something changed since the plan

vars == <<cursor, usable, catalogRevision, configRevision, resources, live,
          plan, record, stage, drifted>>
world == <<usable, catalogRevision, configRevision, resources, live, drifted>>

Selector == INSTANCE CredentialSelector
                WITH Priority <- [c \in Credential |-> 1], Capacity <- [c \in Credential |-> 0],
                     Pool <- {"pool"}, Sparing <- {}, MaxKeys <- 1, MaxCursor <- 4,
                     turns <- <<>>

Target == [credential: Credential, catalog: Nat, config: Nat]
NoTarget == [credential |-> 0, catalog |-> 0, config |-> 0]

Init ==
    /\ cursor = <<>> /\ usable = Credential
    /\ catalogRevision = 1 /\ configRevision = 1
    /\ resources = Client /\ live = {} /\ drifted = {}
    /\ plan = [x \in Client |-> NoTarget]
    /\ record = [x \in Client |-> NoTarget]
    /\ stage = [x \in Client |-> "new"]

-----------------------------------------------------------------------------
(* Resolve: the next credential of the pool, at the revisions of now.      *)
Turn == Selector!Index(cursor, "pool")

Resolved ==
    [credential |-> Selector!Chosen(Selector!Bucket(usable, FALSE), Turn),
     catalog |-> catalogRevision, config |-> configRevision]

TakesTurn == usable # {} /\ cursor' = Selector!Moved("pool", cursor, Turn)

CreatePlan(x) ==
    /\ stage[x] = "new" /\ x \in resources
    /\ TakesTurn
    /\ plan' = [plan EXCEPT ![x] = Resolved]
    /\ live' = live \cup {x}
    /\ stage' = [stage EXCEPT ![x] = "planned"]
    /\ drifted' = drifted \ {x}
    /\ UNCHANGED <<usable, catalogRevision, configRevision, resources, record>>

(* create, with or without a plan the same.                                *)
CreateExecution(x) ==
    /\ stage[x] \in {"planned", "refused"}
    /\ TakesTurn
    /\ record' = [record EXCEPT ![x] = Resolved]
    /\ stage' = [stage EXCEPT ![x] = "admitted"]
    /\ UNCHANGED <<world, plan>>

SameFrozenTarget(a, b) == a.credential = b.credential /\ a.catalog = b.catalog
SameTarget(a, b) == a = b

(* Revalidate and the comparison in prepareInputs that follows it.         *)
Holds(x) ==
    /\ SameFrozenTarget(plan[x], Resolved)
    /\ x \in resources
    /\ SameTarget(plan[x], record[x])

PrepareInputs(x) ==
    /\ stage[x] = "admitted"
    /\ IF x \notin live
       THEN stage' = [stage EXCEPT ![x] = "expired"] /\ UNCHANGED cursor
       ELSE IF usable = {}
       THEN stage' = [stage EXCEPT ![x] = "refused"] /\ UNCHANGED cursor
       ELSE TakesTurn /\ stage' = [stage EXCEPT ![x] = IF Holds(x) THEN "prepared" ELSE "refused"]
    /\ UNCHANGED <<world, plan, record>>

-----------------------------------------------------------------------------
(* What may change.                                                        *)
Drifts(clients) == drifted' = drifted \cup clients /\ UNCHANGED <<cursor, plan, record, stage>>

Refresh ==
    /\ catalogRevision <= MaxChanges /\ catalogRevision' = catalogRevision + 1
    /\ Drifts(Client)
    /\ UNCHANGED <<usable, configRevision, resources, live>>

Configure ==
    /\ configRevision <= MaxChanges /\ configRevision' = configRevision + 1
    /\ Drifts(Client)
    /\ UNCHANGED <<usable, catalogRevision, resources, live>>

CredentialChanges(c) ==
    /\ usable' = IF c \in usable THEN usable \ {c} ELSE usable \cup {c}
    /\ Drifts(Client)
    /\ UNCHANGED <<catalogRevision, configRevision, resources, live>>

ResourceGoes(x) ==
    /\ x \in resources /\ resources' = resources \ {x}
    /\ Drifts({x})
    /\ UNCHANGED <<usable, catalogRevision, configRevision, live>>

PlanExpires(x) ==
    /\ x \in live /\ live' = live \ {x}
    /\ UNCHANGED <<cursor, usable, catalogRevision, configRevision, resources, plan,
                   record, stage, drifted>>

Next ==
    \/ \E x \in Client :
          CreatePlan(x) \/ CreateExecution(x) \/ PrepareInputs(x) \/ ResourceGoes(x) \/ PlanExpires(x)
    \/ \E c \in Credential : CredentialChanges(c)
    \/ Refresh \/ Configure

Spec == Init /\ [][Next]_vars

-----------------------------------------------------------------------------
(* "ErrCapabilityChanged reports target, catalog, capability, or resource  *)
(* drift after planning" (inputplan/types.go:25): an execution is refused  *)
(* for it only if something did change since its plan was made.            *)
RefusedOnlyAfterDrift == \A x \in Client : stage[x] = "refused" => x \in drifted
=============================================================================
