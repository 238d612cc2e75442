--------------------------- MODULE ExecutionStore ---------------------------
(***************************************************************************)
(* The durable execution store behind execution.Store, implemented by      *)
(* MemoryStore (internal/execution/store.go) and by                        *)
(* sqlitestore.ExecutionStore.  Create admits an execution once per owner  *)
(* and idempotency key; Save is a compare-and-swap on the revision that    *)
(* appends events in the same transaction.  This module holds the state of *)
(* the store and its operations; ExecutionClients adds arbitrary callers   *)
(* and ExecutionService the callers the program has.                       *)
(*                                                                         *)
(* nextEventSequence reads the log just before Save.  The compare-and-swap *)
(* succeeds only when nothing was saved since the copy was read, so the    *)
(* sequence it read is still the end of the log; the two are one step.     *)
(***************************************************************************)
EXTENDS ExecutionTypes

VARIABLES
    records,    \* current version of every execution
    feed        \* what the event log of every execution says

storeVars == <<records, feed>>

Admitted == {e \in Execution : records[e] # Absent}

\* LookupIdempotency: the executions bound to the owner's key.
Bound(q) ==
    {e \in Admitted : /\ q.key # NoKey
                      /\ records[e].request.owner = q.owner
                      /\ records[e].request.key = q.key}

StoreInit ==
    /\ records = [e \in Execution |-> Absent]
    /\ feed = [e \in Execution |-> NoFeed]

\* Faulty variant: the idempotency index also holds the request hash.
CreateResultPerHash(q) ==
    IF \E e \in Bound(q) : records[e].request.hash = q.hash
    THEN "replayed" ELSE "created"

\* Store.Create.  A bound key answers with its execution, or with a conflict
\* when that execution's request hash differs; neither changes the store.
CreateResult(q) ==
    IF Bound(q) = {} THEN "created"
    ELSE IF \A e \in Bound(q) : records[e].request.hash = q.hash
         THEN "replayed"
         ELSE "conflict"

Insert(e, q) ==
    /\ e \notin Admitted
    /\ CreateResult(q) = "created"
    /\ records' = [records EXCEPT ![e] = NewRecord(q)]
    /\ feed' = [feed EXCEPT ![e] = Follow(NoFeed, "execution.accepted")]

\* Faulty variant: any revision not older than the stored one passes.
SaveResultNotOlder(e, r, ev) ==
    IF ~RecordValid(r) THEN "invalid"
    ELSE IF r.rev < records[e].rev THEN "conflict"
    ELSE IF /\ r.status # records[e].status
            /\ ~LegalTransition(records[e].status, r.status) THEN "invalid"
    ELSE IF ~EventValid(ev, r) THEN "invalid"
    ELSE "ok"

\* Store.Save: the first check that fails decides the error.
SaveResult(e, r, ev) ==
    IF ~RecordValid(r) THEN "invalid"
    ELSE IF r.rev # records[e].rev + 1 THEN "conflict"
    ELSE IF /\ r.status # records[e].status
            /\ ~LegalTransition(records[e].status, r.status) THEN "invalid"
    ELSE IF ~EventValid(ev, r) THEN "invalid"
    ELSE "ok"

Write(e, r, ev) ==
    /\ SaveResult(e, r, ev) = "ok"
    /\ records' = [records EXCEPT ![e] = r]
    /\ feed' = [feed EXCEPT ![e] = Follow(feed[e], ev)]

StoreTypeOK ==
    /\ records \in [Execution -> Record \cup {Absent}]
    /\ feed \in [Execution -> Feed]

(* One owner and idempotency key never name two executions: Create looks   *)
(* the key up and binds it under the same lock or transaction, so two      *)
(* concurrent admissions of one key yield one execution.                   *)
OneExecutionPerKey ==
    \A e, f \in Admitted :
        /\ records[e].request.key # NoKey
        /\ records[e].request.owner = records[f].request.owner
        /\ records[e].request.key = records[f].request.key
        => e = f

(* A terminal status is never left, whatever a caller tries to save        *)
(* (Status.IsTerminal: "can never transition again").                      *)
TerminalIsFinal ==
    [][\A e \in Execution :
          IsTerminal(records[e].status) => records'[e].status = records[e].status]_storeVars

(* The status moves only along the edges ValidateTransition allows, and an *)
(* admitted execution never changes its request.                           *)
LegalHistory ==
    [][\A e \in Admitted :
          /\ records'[e].request = records[e].request
          /\ \/ records'[e].status = records[e].status
             \/ LegalTransition(records[e].status, records'[e].status)]_storeVars
=============================================================================
