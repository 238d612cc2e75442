-------------------------- MODULE MCExecutionStore --------------------------
(***************************************************************************)
(* The execution store, the row and the secrets that SQLite keeps of it,   *)
(* and the parts of the execution engine that are specified on their own,  *)
(* side by side in one run: the initial state says which of them runs, and *)
(* the others stand still.                                                 *)
(*                                                                         *)
(*   store    every caller uses one idempotency key, for one of two        *)
(*            request bodies, so that admissions compete and the one that  *)
(*            wins lives through a long history of Saves                   *)
(*   secrets  clients that save and read one row                           *)
(*   continue requests that continue one conversation                      *)
(*   retry    policies with fixed and exponential backoff, an initial      *)
(*            delay below and above the maximum, with and without a        *)
(*            maximum number of attempts, a deadline and a tool plan       *)
(*   lease    clocks read at any quarter of a second, so that fractions    *)
(*            have none, one or two digits                                 *)
(*   router   a store that keeps the context a Save gives it               *)
(***************************************************************************)
EXTENDS ExecutionClients, SqliteExecutionStore, Continuations, ExecutionRetry,
        ExecutionLease, RouterToolRounds, TLC

KeyedRequests ==
    {[owner |-> o, key |-> k, hash |-> h, deferred |-> TRUE, async |-> FALSE,
      stream |-> FALSE, plan |-> FALSE, budget |-> FALSE, max |-> 0] :
        o \in Owner, k \in Key, h \in Hash}

SomePolicies ==
    [initial: {1, 4}, maximum: {3}, multiplier: {1, 2}, exponential: BOOLEAN,
     max: {0, 2, 4}, deadline: {0, 5}, tools: {0, 2}]

VARIABLE part

Part == {"store", "secrets", "continue", "retry", "lease", "router"}

PartsInit ==
    /\ part \in Part
    /\ Init /\ SqliteInit /\ ContinuationInit /\ RetryInit /\ LeaseInit /\ RouterInit
    /\ part # "retry" => policy = CHOOSE p \in SomePolicies : TRUE
    /\ part # "lease" => now = 1

StoreStep ==
    /\ part = "store" /\ Next
    /\ UNCHANGED <<part, sqliteVars, continuationVars, retryVars, leaseVars, routerVars>>
SecretsStep ==
    /\ part = "secrets" /\ SqliteNext
    /\ UNCHANGED <<part, vars, continuationVars, retryVars, leaseVars, routerVars>>
ContinueStep ==
    /\ part = "continue" /\ ContinuationNext
    /\ UNCHANGED <<part, vars, sqliteVars, retryVars, leaseVars, routerVars>>
RetryStep ==
    /\ part = "retry" /\ RetryNext
    /\ UNCHANGED <<part, vars, sqliteVars, continuationVars, leaseVars, routerVars>>
LeaseStep ==
    /\ part = "lease" /\ LeaseNext
    /\ UNCHANGED <<part, vars, sqliteVars, continuationVars, retryVars, routerVars>>
RouterStep ==
    /\ part = "router" /\ RouterNext
    /\ UNCHANGED <<part, vars, sqliteVars, continuationVars, retryVars, leaseVars>>

PartsNext ==
    StoreStep \/ SecretsStep \/ ContinueStep \/ RetryStep \/ LeaseStep \/ RouterStep

PartsSpec ==
    PartsInit /\ [][PartsNext]_<<part, vars, sqliteVars, continuationVars,
                                 retryVars, leaseVars, routerVars>>

\* Identifiers, hashes and workers differ in nothing but their names.  Clients
\* and references do not either, and as the parts never run together they have
\* the names of executions and workers.
Symmetry == Permutations(Execution) \cup Permutations(Hash) \cup Permutations(Worker)
=============================================================================
