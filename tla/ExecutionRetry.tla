--------------------------- MODULE ExecutionRetry ---------------------------
(***************************************************************************)
(* The retry schedule of one deferred execution in time: how many failures *)
(* of a dispatch are retried, and when (executionRetryPolicy,              *)
(* maximumCycleAttempts, scheduleRetry and recoveryDue in                  *)
(* internal/execution/service.go, RetryPolicy in vcp/operations.go).       *)
(*                                                                         *)
(* One worker owns the execution here and every provider failure is        *)
(* transient; ExecutionService has the workers, crashes and other ends.    *)
(* A conversation with a tool plan also answers with tool calls, whose     *)
(* rounds have attempts of their own (RouterToolRounds).                   *)
(* Time is counted in the unit of the delays.  The multiplier is a whole   *)
(* number, so that the truncation of float64(delay) * multiplier to a      *)
(* Duration never shows.                                                   *)
(***************************************************************************)
EXTENDS Naturals

CONSTANTS
    Policies,       \* the policies callers submit, after defaults
                    \* and the calls their tool plans allow
    CycleLimit,     \* maxSameProviderExecutionAttempts (8 in the code)
    Retention,      \* ExpiresAt of the record, from its creation
    Hints,          \* how far ahead a provider may put RetryAt
    RetryHorizon    \* bound on the clock

Policy == [initial: Nat \ {0}, maximum: Nat \ {0}, multiplier: Nat \ {0},
           exponential: BOOLEAN, max: Nat, deadline: Nat, tools: Nat]

\* What the code guarantees of them.
ASSUME RetryAssumption ==
    /\ Policies \subseteq Policy
    /\ CycleLimit \in Nat \ {0} /\ Retention \in Nat /\ RetryHorizon \in Nat
    /\ Hints \subseteq Nat

VARIABLES
    policy,     \* the normalized policy of the request
    clock,
    status,
    attempts,   \* len(Attempts)
    scheduled,  \* when the pending retry was scheduled
    nextRetryAt,
    hint,       \* RetryAt of the failure that scheduled it, 0 without one
    cycles      \* RetryCycles

retryVars == <<policy, clock, status, attempts, scheduled, nextRetryAt, hint,
               cycles>>

RetryInit ==
    /\ policy \in Policies
    /\ clock = 0 /\ status = "running" /\ attempts = 0
    /\ scheduled = 0 /\ nextRetryAt = 0 /\ hint = 0 /\ cycles = 0

Smaller(a, b) == IF a <= b THEN a ELSE b

\* maximumSynchronousCycleAttempts, and maximumCycleAttempts for a task, which
\* has no tool plan: the policy's total or the limit, and the calls of the plan.
Maximum ==
    (IF policy.max # 0 THEN Smaller(policy.max, CycleLimit) ELSE CycleLimit)
        + policy.tools

\* The exponential growth of scheduleRetry: one multiplication per failure
\* cycle; a product that does not grow, or grows past the maximum, is the
\* maximum, and the maximum stays.
Grown(p) ==
    LET grow[c \in Nat] ==
            IF c = 0 THEN p.initial
            ELSE LET last == grow[c - 1]
                     next == last * p.multiplier
                 IN  IF last >= p.maximum THEN last
                     ELSE IF next <= last \/ next > p.maximum THEN p.maximum
                     ELSE next
    IN  grow

\* What a recursive definition computes is for TLC to see.
ASSUME DelaysAreNumbers ==
    \A p \in Policies : \A c \in 0..(CycleLimit + p.tools) :
        Grown(p)[c] \in Nat /\ Grown(p)[c] >= p.initial

\* Faulty variant: the configured initial delay is taken as it is.
DelayUnclamped(p, failureCycles) ==
    IF p.exponential THEN Grown(p)[failureCycles] ELSE p.initial

Delay(p, failureCycles) ==
    Smaller(IF p.exponential THEN Grown(p)[failureCycles] ELSE p.initial,
            p.maximum)

FailureCycles(n) == (n - 1) \div CycleLimit

\* The next retry must come before expiry and before the budget's deadline.
InTime(at) == at < Retention /\ (policy.deadline # 0 => at < policy.deadline)

Fail ==
    /\ status' = "failed"
    /\ UNCHANGED <<policy, clock, scheduled, nextRetryAt, hint, cycles>>

\* A dispatch fails with a transient error: another target of the provider
\* is tried at once, or a retry is scheduled, or the execution fails.  With
\* no attempt left nothing is dispatched.
DispatchFails ==
    /\ status = "running"
    /\ \/ /\ attempts >= Maximum
          /\ Fail
          /\ UNCHANGED attempts
       \/ /\ attempts + 1 < Maximum
          /\ attempts' = attempts + 1
          /\ UNCHANGED <<policy, clock, status, scheduled, nextRetryAt, hint,
                         cycles>>
       \/ /\ attempts < Maximum
          /\ attempts' = attempts + 1
          /\ \E h \in {0} \cup {clock + k : k \in Hints} :
                LET delay == Delay(policy, FailureCycles(attempts'))
                    at == IF h > clock + delay THEN h ELSE clock + delay
                IN  IF (policy.max = 0 \/ attempts' < policy.max) /\ InTime(at)
                    THEN /\ status' = "waiting_retry"
                         /\ scheduled' = clock /\ nextRetryAt' = at /\ hint' = h
                         /\ cycles' = cycles + 1
                         /\ UNCHANGED <<policy, clock>>
                    ELSE Fail

\* A dispatch answers with calls of the tool plan: its round is an attempt, and
\* the parent goes on with the results.
AnswersWithTools ==
    /\ status = "running" /\ policy.tools > 0 /\ attempts < Maximum
    /\ attempts' = attempts + 1
    /\ UNCHANGED <<policy, clock, status, scheduled, nextRetryAt, hint, cycles>>

\* recoverRecordOnce: a running record is recovered when the run that left it
\* so did not survive; expiry and the deadline come before the retry.
Recover ==
    /\ status \in {"running", "waiting_retry"}
    /\ \/ /\ clock >= Retention
          /\ status' = "expired"
       \/ /\ clock < Retention /\ policy.deadline # 0 /\ clock >= policy.deadline
          /\ status' = "failed"
       \/ /\ status = "waiting_retry" /\ InTime(clock) /\ nextRetryAt <= clock
          /\ status' = "running"
    /\ UNCHANGED <<policy, clock, attempts, scheduled, nextRetryAt, hint, cycles>>

RetryTick ==
    /\ clock < RetryHorizon /\ status \in {"running", "waiting_retry"}
    /\ clock' = clock + 1
    /\ UNCHANGED <<policy, status, attempts, scheduled, nextRetryAt, hint,
                   cycles>>

RetryNext == DispatchFails \/ AnswersWithTools \/ Recover \/ RetryTick

RetrySpec == RetryInit /\ [][RetryNext]_retryVars

-----------------------------------------------------------------------------
RetryTypeOK ==
    /\ policy \in Policies
    /\ clock \in 0..RetryHorizon
    /\ status \in {"running", "waiting_retry", "failed", "expired"}
    /\ attempts \in 0..(CycleLimit + policy.tools)
    /\ scheduled \in Nat /\ nextRetryAt \in Nat /\ hint \in Nat
    /\ cycles \in 0..(CycleLimit + policy.tools)

(* A pending retry comes no earlier than the policy's initial delay after  *)
(* it was scheduled, and within the policy's maximum delay unless the      *)
(* provider named a later time; an initial delay above the maximum, as the *)
(* default is of a smaller maximum, counts as the maximum.                 *)
WaitWithinBounds ==
    status = "waiting_retry" =>
        /\ nextRetryAt >= scheduled + Smaller(policy.initial, policy.maximum)
        /\ nextRetryAt <= scheduled + policy.maximum \/ nextRetryAt = hint

(* When a pending retry's time comes recovery can start it: it finds       *)
(* neither expiry nor the deadline passed.                                 *)
ScheduledRetryCanStart ==
    status = "waiting_retry" /\ clock = nextRetryAt =>
        /\ clock < Retention
        /\ policy.deadline = 0 \/ clock < policy.deadline

(* The dispatches stay within the budget, and no retry is scheduled once   *)
(* the policy's total is used up.                                          *)
AttemptsWithinBudget ==
    /\ attempts <= Maximum
    /\ status = "waiting_retry" /\ policy.max # 0 => attempts < policy.max

(* A pending retry keeps to the bounds of its policy (scheduleRetry): its  *)
(* delay lies between the initial and the maximum delay, it can start when *)
(* its time comes, and the attempts are within their budget.  It says      *)
(* nothing of how the delay grows between those bounds, nor that a retry   *)
(* that starts still has an attempt left: see the two properties below.    *)
RetryWithinBounds ==
    WaitWithinBounds /\ ScheduledRetryCanStart /\ AttemptsWithinBudget

(* What the comment of RetryBackoffExponential says, read in the weakest   *)
(* way: each retry but the first waits longer than the initial delay by a  *)
(* multiplication for every retry before it, up to the maximum             *)
(* (scheduleRetry counts a failure cycle only every CycleLimit attempts,   *)
(* so that TLC refutes this on the configuration of the run).              *)
BackoffGrows ==
    status = "waiting_retry" /\ policy.exponential /\ cycles > 0 =>
        nextRetryAt >= scheduled + Smaller(Grown(policy)[cycles - 1], policy.maximum)

(* What the comment of RetryPolicy.MaxAttempts says: without a maximum and *)
(* without a deadline only the retention ends the retries of transient     *)
(* failures (maximumCycleAttempts puts CycleLimit in its place).  Stated   *)
(* for providers that name no times; TLC refutes it with Hints = {}.       *)
RetriesUntilRetention ==
    Hints = {} /\ status = "failed" /\ policy.max = 0 /\ policy.deadline = 0 =>
        clock + policy.maximum >= Retention
=============================================================================
