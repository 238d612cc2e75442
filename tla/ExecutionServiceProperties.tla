--------------------- MODULE ExecutionServiceProperties ---------------------
(***************************************************************************)
(* What the orchestrator promises: to a client that follows the event log, *)
(* to the owner who pays for provider dispatches, and to the operator who  *)
(* restarts it.  The last section holds the promises of comments and docs  *)
(* that the code does not keep.                                            *)
(***************************************************************************)
EXTENDS ExecutionService

\* The store as any number of undisciplined callers may use it.
Clients == INSTANCE ExecutionClients WITH copies <- HeldCopies

(* Every worker is a legitimate caller of the store: whatever it saves     *)
(* derives from a version it read, one revision and at most one attempt    *)
(* further, and all workers together stay within what the store allows     *)
(* arbitrary callers (ExecutionClients).                                   *)
ImplementsClients == Clients!AnyCalls

-----------------------------------------------------------------------------
(* The event log and the record tell one story: the status last announced  *)
(* is the status of the record, through every failover, retry, crash and   *)
(* race with Cancel (lifecycleEvent and Save, in one transaction).         *)
LogMatchesRecord ==
    \A e \in Execution : feed[e].told = records[e].status

(* Between acquiring and releasing a lease nobody else drives the          *)
(* execution, unless heartbeats stalled for a TTL (withExecutionLease,     *)
(* executeAdmitted).                                                       *)
ExclusiveOwner ==
    \A v, w \in Worker :
        /\ Busy(v) /\ Busy(w) /\ work[v].exec = work[w].exec
        /\ ~IsCanceller(v) /\ ~IsCanceller(w)
        /\ work[v].pc # "admit" /\ work[w].pc # "admit"
        /\ pauses = 0
        => v = w

(* The retry policy's maximum and the hard limit count every recorded      *)
(* attempt of an execution, across retries, crashes and instances          *)
(* (maximumSynchronousCycleAttempts, maximumCycleAttempts).                *)
AttemptBudget ==
    \A e \in Admitted : records[e].attempts <= MaximumAttempts(records[e].request)

(* Dispatches are accounted for: the attempts recorded stay within that    *)
(* budget, and a provider dispatch that left no recorded attempt is paid   *)
(* for by a death of the process, except for the one in flight             *)
(* (persistAttempt before any failover or retry).                          *)
DispatchesAccounted ==
    /\ AttemptBudget
    /\ \A e \in Admitted : calls[e] <= records[e].attempts + 1 + deaths + exits

(* An execution that failed after a retry was scheduled has retry.aborted  *)
(* as its last retry event, one that succeeded retry.succeeded, and a      *)
(* retry is announced only by an execution that waits for it or that       *)
(* expired (appendRetryAbortBeforeTerminalFailure, the retry.succeeded of  *)
(* executeSynchronous, Cancel).  That every sequence is closed this does   *)
(* not say: a cancelled execution may have retry.started as its last one,  *)
(* an expired one retry.scheduled.  CancelClosesRetry and                  *)
(* ExpiryClosesRetry below say it and do not hold.                         *)
RetryEndTold ==
    \A e \in Admitted :
        /\ records[e].status = "failed" /\ records[e].cycled
              => feed[e].retry = "retry.aborted"
        /\ records[e].status = "succeeded" /\ records[e].cycled
              => feed[e].retry = "retry.succeeded"
        /\ feed[e].retry = "retry.scheduled"
              => records[e].status \in {"waiting_retry", "expired"}

(* What the comment of EventRetryAborted says of cancellation: a retry     *)
(* sequence that was opened and then cancelled ends in retry.aborted.      *)
(* Cancel of a running execution does not write it, and TLC refutes this   *)
(* on the configuration of ServiceRetries.                                 *)
CancelClosesRetry ==
    \A e \in Admitted :
        records[e].status = "cancelled" /\ records[e].cycled
           => feed[e].retry = "retry.aborted"

(* What it says of the terminal statuses: a scheduled retry that becomes   *)
(* terminal ends in retry.aborted, also by expiry.  recoverRecordOnce      *)
(* expires a waiting retry without it, and TLC refutes this, too.          *)
ExpiryClosesRetry ==
    \A e \in Admitted :
        records[e].status = "expired" /\ records[e].cycled
           => feed[e].retry = "retry.aborted"

(* A retry waits for its schedule: whoever starts it, on whatever snapshot, *)
(* NextRetryAt of the version it replaces has passed (recoveryDue).        *)
RetryNotEarly ==
    [][\A e \in Admitted :
          /\ records[e].status = "waiting_retry"
          /\ records'[e] # records[e]
          /\ feed'[e].retry = "retry.started"
          => ~records[e].waits \/ records[e].rev <= ripe[e]]_vars

-----------------------------------------------------------------------------
(* A tracked task is reported cancelled only after the provider confirmed  *)
(* it, and succeeded or partially succeeded only as the provider said      *)
(* (applyTaskResult).                                                      *)
OutcomeIsConfirmed ==
    \A e \in Admitted :
        LET t == records[e].task  s == records'[e].status
        IN  /\ t # NoTask
            /\ s \in {"succeeded", "partially_succeeded", "cancelled"}
            => upstream[t] = s

(* The provider is asked to cancel a task only after the intent to do so   *)
(* is durable, so that a restart repeats it (Cancel, appendLifecycle).     *)
IntentIsDurable ==
    \A t \in Task, e \in Admitted :
        upstream'[t] = "cancelled" /\ records[e].task = t
            => upstream[t] = "cancelled" \/ records[e].cancelling

(* A cancellation is durable before the provider hears of it, and reported *)
(* when the provider has confirmed it, as every other outcome of a task.   *)
TaskOutcomeConfirmed == [][OutcomeIsConfirmed /\ IntentIsDurable]_vars

(* Every admitted execution reaches a terminal status, whatever crashes,   *)
(* exits of the recovery loop and lost leases come between (RunRecovery).  *)
EventuallyTerminal ==
    \A e \in Execution :
        records[e].status \in OpenStatus ~> IsTerminal(records[e].status)

-----------------------------------------------------------------------------
(* Promises of comments that the code does not keep.                       *)

(* service.go:517: "executeAdmitted owns one immediate execution under a   *)
(* distinct durable lease so recovery cannot replay its provider side      *)
(* effect": no dispatch of an execution that has already succeeded.        *)
NoReplayAfterSuccess ==
    [][\A e \in Admitted :
          calls'[e] # calls[e] =>
              records[e].status \notin {"succeeded", "partially_succeeded"}]_vars

(* service.go:2155: "RunRecovery polls due persisted provider tasks until  *)
(* shutdown": no execution makes it return an error.                       *)
RecoveryLoopSurvives == exits = 0
=============================================================================
