---------------------------- MODULE Continuations ----------------------------
(***************************************************************************)
(* The continuation of one succeeded conversation, kept on its execution   *)
(* record, and the requests that continue it (resolveRequestedContinuation *)
(* and updateContinuationState of execution/service.go).  A request        *)
(* resolves it at admission, records the use, resolves it again when it is *)
(* executed, and is dispatched; what it learns on the way may revoke the   *)
(* continuation.  Every change is a read, a change of the copy and a Save  *)
(* that compares revisions, tried again a bounded number of times.         *)
(***************************************************************************)
EXTENDS Naturals

CONSTANTS
    Caller,         \* requests that continue the conversation
    Tries,          \* maxSameProviderExecutionAttempts
    ExpiresAt,      \* of the continuation
    LastMoment,     \* bound on the clock
    MaxUpdates      \* bound on the revision

ASSUME ContinuationAssumption ==
    /\ Tries \in Nat \ {0} /\ ExpiresAt \in Nat /\ ExpiresAt > 1
    /\ LastMoment \in Nat /\ MaxUpdates \in Nat

VARIABLES
    moment,         \* the clock
    continuation,   \* on the record, with its revision and UpdatedAt
    caller,         \* caller -> where it is and what it knows
    granted         \* history: caller -> the moment of its last recorded use

continuationVars == <<moment, continuation, caller, granted>>

Reason == {"expired", "target_unavailable", "provider_rejected"}

Continuation == [revision: Nat, updatedAt: Nat, lastUsed: Nat, revoked: Reason \cup {"no"}]

\* stage: of the execution: not admitted, admitted and taken up, or ended
\* want: what updateContinuationState is asked to write
CallerState ==
    [pc: {"idle", "resolve", "target", "load", "save", "admitted", "dispatch"},
     stage: {"create", "execute", "ended"}, observed: Nat,
     want: Reason \cup {"used"}, seen: Nat, tries: Nat]

(* A caller between two calls.                                             *)
Between(pc) == [pc |-> pc, stage |-> "create", observed |-> 0,
                want |-> "used", seen |-> 0, tries |-> 0]

ContinuationInit ==
    /\ moment = 1
    /\ continuation = [revision |-> 1, updatedAt |-> 1, lastUsed |-> 0, revoked |-> "no"]
    /\ caller = [c \in Caller |-> Between("idle")]
    /\ granted = [c \in Caller |-> 0]

Goes(c, pc) == caller' = [caller EXCEPT ![c].pc = pc]
Returns(c, pc) == caller' = [caller EXCEPT ![c] = Between(pc)]

(* updateContinuationState begins.                                         *)
Updates(c, stage, want, observed) ==
    caller' = [caller EXCEPT ![c] = [pc |-> "load", stage |-> stage, observed |-> observed,
                                     want |-> want, seen |-> 0, tries |-> 0]]

Revoked == continuation.revoked # "no"

-----------------------------------------------------------------------------
(* create and execute: the time is taken first, the record is read then.   *)

Calls(c, from, stage) ==
    /\ caller[c].pc = from
    /\ caller' = [caller EXCEPT ![c] = [Between("resolve") EXCEPT !.stage = stage,
                                                                  !.observed = moment]]
    /\ UNCHANGED <<moment, continuation, granted>>

BeginCreate(c) == Calls(c, "idle", "create")
BeginExecute(c) == Calls(c, "admitted", "execute")

(* Refused when it is revoked, and when it has expired, which revokes it.  *)
ResolveContinuation(c) ==
    /\ caller[c].pc = "resolve"
    /\ IF Revoked THEN Returns(c, "idle")
       ELSE IF ExpiresAt <= caller[c].observed
       THEN Updates(c, caller[c].stage, "expired", caller[c].observed)
       ELSE Goes(c, IF caller[c].stage = "create" THEN "target" ELSE "dispatch")
    /\ UNCHANGED <<moment, continuation, granted>>

(* The target, restricted to the continuation's own credential and         *)
(* endpoint: resolved, not to be had for now, or gone for good.            *)
ResolveTarget(c) ==
    /\ caller[c].pc = "target"
    /\ \/ Updates(c, "create", "used", caller[c].observed)
       \/ Returns(c, "idle")
       \/ Updates(c, "create", "target_unavailable", caller[c].observed)
    /\ UNCHANGED <<moment, continuation, granted>>

(* The provider answers, fails so that the execution ends or is executed   *)
(* again, or rejects the continuation: the execution fails and then the    *)
(* continuation is revoked.                                                *)
DispatchContinued(c) ==
    /\ caller[c].pc = "dispatch"
    /\ \/ Returns(c, "idle")
       \/ Returns(c, "admitted")
       \/ Updates(c, "ended", "provider_rejected", moment)
    /\ UNCHANGED <<moment, continuation, granted>>

-----------------------------------------------------------------------------
(* updateContinuationState.                                                *)

\* Faulty variant: what was found out at first is not looked at again.
LoadUnchecked(c) ==
    /\ caller[c].pc = "load"
    /\ caller' = [caller EXCEPT ![c].pc = "save", ![c].seen = continuation.revision]
    /\ UNCHANGED <<moment, continuation, granted>>

(* Get.  A continuation that is revoked is not revoked again, for the same *)
(* reason (which is no error) or for another one, and cannot be used.      *)
Load(c) ==
    /\ caller[c].pc = "load"
    /\ IF Revoked THEN Returns(c, "idle")
       ELSE caller' = [caller EXCEPT ![c].pc = "save", ![c].seen = continuation.revision]
    /\ UNCHANGED <<moment, continuation, granted>>

\* Faulty variant: the time the caller began with.
EffectiveAsObserved(observed) == observed

Effective(observed) ==
    IF observed < continuation.updatedAt THEN continuation.updatedAt ELSE observed

Updated(want, time) ==
    [revision |-> continuation.revision + 1, updatedAt |-> time,
     lastUsed |-> IF want = "used" THEN time ELSE continuation.lastUsed,
     revoked |-> IF want = "used" THEN "no" ELSE want]

SaveUpdate(c) ==
    LET me == caller[c]
    IN  /\ me.pc = "save" /\ continuation.revision < MaxUpdates
        /\ IF me.seen = continuation.revision
           THEN /\ continuation' = Updated(me.want, Effective(me.observed))
                /\ Returns(c, IF me.want = "used" THEN "admitted" ELSE "idle")
                /\ granted' = [granted EXCEPT ![c] = IF me.want = "used" THEN me.observed ELSE @]
           ELSE /\ IF me.tries + 1 < Tries
                   THEN caller' = [caller EXCEPT ![c].pc = "load", ![c].tries = @ + 1]
                   ELSE Returns(c, "idle")
                /\ UNCHANGED <<continuation, granted>>
        /\ UNCHANGED moment

-----------------------------------------------------------------------------
(* The process dies; an admitted execution is taken up again.              *)
Dies(c) ==
    /\ caller[c].pc # "idle"
    /\ \/ Returns(c, "idle")
       \/ caller[c].stage = "execute" /\ Returns(c, "admitted")
    /\ UNCHANGED <<moment, continuation, granted>>

TimePasses ==
    /\ moment < LastMoment
    /\ moment' = moment + 1
    /\ UNCHANGED <<continuation, caller, granted>>

ContinuationNext ==
    \/ TimePasses
    \/ \E c \in Caller :
          \/ BeginCreate(c) \/ BeginExecute(c) \/ ResolveContinuation(c) \/ ResolveTarget(c)
          \/ DispatchContinued(c) \/ Load(c) \/ SaveUpdate(c) \/ Dies(c)

ContinuationSpec == ContinuationInit /\ [][ContinuationNext]_continuationVars

-----------------------------------------------------------------------------
ContinuationTypeOK ==
    /\ moment \in Nat
    /\ continuation \in Continuation
    /\ caller \in [Caller -> CallerState]
    /\ granted \in [Caller -> Nat]

(* No use is lost or set back by another caller with an older clock: the   *)
(* record has been used as late as anyone was allowed to use it; and a     *)
(* continuation that is not revoked has an UpdatedAt before its expiry,    *)
(* without which Record.Validate refuses the whole record                  *)
(* (docs/architecture/0011, retries and continuations 6).                  *)
UsesAreRecorded ==
    /\ \A c \in Caller : granted[c] <= continuation.lastUsed
    /\ ~Revoked => continuation.updatedAt < ExpiresAt

(* Once revoked a continuation stays as it is, with its first reason,      *)
(* whatever callers that saw it alive still have to write.                 *)
RevocationStands == [][Revoked => UNCHANGED continuation]_continuationVars
=============================================================================
