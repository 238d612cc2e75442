--------------------------- MODULE ExecutionTypes ---------------------------
(***************************************************************************)
(* The closed vocabulary of a durable execution: its statuses, the graph   *)
(* of transitions ValidateTransition admits, the events that carry or move *)
(* a status, and what Record.Validate and Event.Validate demand of one     *)
(* saved version (internal/execution/types.go).                            *)
(*                                                                         *)
(* A record keeps only what the orchestrator branches on.  Prompts,        *)
(* targets, results and failure texts are left out: Result and Failure are *)
(* written in the very Save that makes the status terminal, so the status  *)
(* stands for them.                                                        *)
(***************************************************************************)
EXTENDS Naturals

CONSTANTS
    Execution,      \* identifiers of executions
    Owner,          \* API keys that own executions
    Key,            \* caller idempotency keys
    NoKey,          \* the empty idempotency key
    Hash,           \* canonical request hashes
    Task,           \* provider tasks, as positive numbers
    AttemptLimit    \* maxSameProviderExecutionAttempts (8 in the code)

ASSUME AttemptLimitAssumption == AttemptLimit \in Nat \ {0}
ASSUME NoKeyAssumption == NoKey \notin Key
ASSUME TaskAssumption == Task \subseteq Nat \ {0}

TerminalStatus ==
    {"succeeded", "partially_succeeded", "failed", "cancelled", "expired"}

OpenStatus ==
    {"accepted", "preparing_inputs", "queued", "running", "waiting_retry"}

Status == OpenStatus \cup TerminalStatus

\* "absent" marks an identifier that was never admitted.
RecordStatus == Status \cup {"absent"}

IsTerminal(s) == s \in TerminalStatus

\* The edges ValidateTransition allows out of each open status.
Successors(s) ==
    LET always == {"failed", "cancelled", "expired"}
    IN  CASE s = "accepted" ->
                 always \cup {"preparing_inputs", "queued", "running"}
          [] s = "preparing_inputs" -> always \cup {"queued", "running"}
          [] s = "queued" -> always \cup {"running"}
          [] s = "running" ->
                 always \cup {"succeeded", "partially_succeeded",
                              "waiting_retry"}
          [] s = "waiting_retry" ->
                 always \cup {"preparing_inputs", "queued", "running"}
          [] OTHER -> {}

LegalTransition(from, to) == to \in Successors(from)

-----------------------------------------------------------------------------
(* Requests.  `deferred` is DispatchMode = deferred, `async` that the      *)
(* target needs a provider task, `stream` that provider events are saved   *)
(* as they arrive, `plan` that inputs are materialised from an input plan, *)
(* `budget` that a wall-clock budget is set, and `max` is the policy's     *)
(* MaxAttempts, 0 when omitted.                                            *)

Request ==
    [owner: Owner, key: Key \cup {NoKey}, hash: Hash,
     deferred: BOOLEAN, async: BOOLEAN, stream: BOOLEAN, plan: BOOLEAN,
     budget: BOOLEAN, max: Nat]

\* Dispatches one execution may ever record: the policy's maximum, and never
\* more than the hard limit (maximumCycleAttempts).
MaximumAttempts(q) ==
    IF q.max # 0 /\ q.max < AttemptLimit THEN q.max ELSE AttemptLimit

-----------------------------------------------------------------------------
(* One version of a record.  `attempts` is len(Attempts), `cycled` that    *)
(* RetryCycles > 0, `task` the provider task it tracks, `cancelling` that  *)
(* CancellationRequestedAt is set, and `waits` that the time recoveryDue   *)
(* consults (NextRetryAt, PollAfter or CancellationAfter) was still ahead  *)
(* when this version was saved.                                            *)

NoTask == 0

Record ==
    [status: Status, rev: Nat \ {0}, request: Request, attempts: Nat,
     cycled: BOOLEAN, task: Task \cup {NoTask}, cancelling: BOOLEAN,
     waits: BOOLEAN]

\* The version of an identifier that was never admitted.
Absent == [status |-> "absent", rev |-> 0]

NewRecord(q) ==
    [status |-> "accepted", rev |-> 1, request |-> q, attempts |-> 0,
     cycled |-> FALSE, task |-> NoTask, cancelling |-> FALSE,
     waits |-> FALSE]

\* Record.Validate, for the fields the model keeps.
RecordValid(r) ==
    /\ r.status = "waiting_retry" =>
           /\ r.request.deferred
           /\ r.attempts # 0
           /\ r.request.max # 0 => r.attempts < r.request.max
    /\ r.cycled => r.attempts # 0
    /\ r.cancelling => r.task # NoTask

-----------------------------------------------------------------------------
(* Events.  Each Save appends at most one event that says something about  *)
(* the lifecycle or the retry sequence; "none" is a Save whose events, if  *)
(* any, say neither (attempt, provider, tool and progress events).         *)

RetryEvent ==
    {"retry.scheduled", "retry.started", "retry.succeeded", "retry.aborted"}

LifecycleEvent ==
    {"execution.accepted", "input.materialization.started",
     "input.materialization.completed", "execution.queued",
     "execution.running", "execution.succeeded",
     "execution.partially_succeeded", "execution.failed",
     "execution.cancelled", "execution.expired"}

EventType ==
    RetryEvent \cup LifecycleEvent \cup {"execution.cancellation.requested",
                                         "none"}

\* The status a lifecycle event announces (Event.Validate's expectedStatus).
Announces(ev) ==
    CASE ev = "execution.accepted" -> "accepted"
      [] ev \in {"input.materialization.started",
                 "input.materialization.completed"} -> "preparing_inputs"
      [] ev = "execution.queued" -> "queued"
      [] ev = "execution.running" -> "running"
      [] ev = "execution.succeeded" -> "succeeded"
      [] ev = "execution.partially_succeeded" -> "partially_succeeded"
      [] ev = "execution.failed" -> "failed"
      [] ev = "execution.cancelled" -> "cancelled"
      [] ev = "execution.expired" -> "expired"
      [] OTHER -> "absent"

\* Event.Validate: the event's own status is the one its writer put in it,
\* which is always the status of the version it is saved with.
EventValid(ev, r) ==
    /\ ev \in LifecycleEvent => Announces(ev) = r.status
    /\ ev = "execution.cancellation.requested" =>
           r.status \in {"queued", "running"}

\* Faulty variant: the ends nobody asked for pass without an event.
EventForQuiet(s) ==
    CASE s = "preparing_inputs" -> "input.materialization.started"
      [] s = "queued" -> "execution.queued"
      [] s = "running" -> "execution.running"
      [] s = "failed" -> "execution.failed"
      [] OTHER -> "none"

\* The lifecycle event of a transition into a status.
EventFor(s) ==
    CASE s = "preparing_inputs" -> "input.materialization.started"
      [] s = "queued" -> "execution.queued"
      [] s = "running" -> "execution.running"
      [] s = "succeeded" -> "execution.succeeded"
      [] s = "partially_succeeded" -> "execution.partially_succeeded"
      [] s = "failed" -> "execution.failed"
      [] s = "cancelled" -> "execution.cancelled"
      [] s = "expired" -> "execution.expired"
      [] OTHER -> "none"

-----------------------------------------------------------------------------
(* What a client that follows the event log from the start has learned:    *)
(* the status last announced, and the last event of the retry sequence.    *)

RetryPhase == RetryEvent \cup {"none"}

Feed == [told: RecordStatus, retry: RetryPhase]

NoFeed == [told |-> "absent", retry |-> "none"]

Follow(feed, ev) ==
    [told  |-> IF ev \in LifecycleEvent THEN Announces(ev)
               ELSE IF ev = "retry.scheduled" THEN "waiting_retry"
               ELSE feed.told,
     retry |-> IF ev \in RetryEvent THEN ev ELSE feed.retry]
=============================================================================
