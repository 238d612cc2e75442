------------------------ MODULE ExecutionPartsProofs ------------------------
(***************************************************************************)
(* Proofs about the parts of the execution engine that are specified on    *)
(* their own: Continuations, ExecutionRetry, ExecutionLease and            *)
(* RouterToolRounds, each for every value of its constants.                *)
(***************************************************************************)
EXTENDS Continuations, ExecutionRetry, ExecutionLease, RouterToolRounds,
        FiniteSetTheorems, SequenceTheorems, TLAPS

-----------------------------------------------------------------------------
(* Continuations: the inductive invariant.                                 *)

(* What a caller's state must keep to.  Whoever is to record a use began   *)
(* before the expiry, and whoever would save with success has seen the     *)
(* continuation alive.                                                     *)
CallerSound(s) ==
    /\ \/ s.pc = "target"
       \/ s.pc \in {"load", "save"} /\ s.want = "used"
       => s.observed < ExpiresAt
    /\ s.pc = "save" =>
          /\ s.seen <= continuation.revision
          /\ s.seen = continuation.revision => ~Revoked

TimesOrdered ==
    /\ continuation.lastUsed <= continuation.updatedAt
    /\ ~Revoked => continuation.updatedAt < ExpiresAt
    /\ \A c \in Caller : granted[c] <= continuation.lastUsed

ContinuationInv == ContinuationTypeOK /\ (\A c \in Caller : CallerSound(caller[c])) /\ TimesOrdered

-----------------------------------------------------------------------------
(* Steps that change what one caller knows and nothing else.               *)

LEMMA OneCaller ==
    ASSUME ContinuationInv, NEW c \in Caller, NEW s \in CallerState, CallerSound(s),
           caller' = [caller EXCEPT ![c] = s],
           UNCHANGED <<moment, continuation, granted>>
    PROVE  ContinuationInv'
  <1>1. ContinuationTypeOK'
    BY DEF ContinuationInv, ContinuationTypeOK
  <1>2. \A d \in Caller : CallerSound(caller[d])'
    <2> SUFFICES ASSUME NEW d \in Caller PROVE CallerSound(caller[d])'
      OBVIOUS
    <2>1. caller'[d] = IF d = c THEN s ELSE caller[d]
      BY DEF ContinuationInv, ContinuationTypeOK
    <2>2. CallerSound(caller[d])
      BY DEF ContinuationInv
    <2> QED BY <2>1, <2>2 DEF CallerSound, Revoked
  <1>3. TimesOrdered'
    BY DEF ContinuationInv, TimesOrdered, Revoked
  <1> QED BY <1>1, <1>2, <1>3 DEF ContinuationInv

(* A caller between two calls.                                             *)
LEMMA BetweenCalls ==
    ASSUME NEW pc \in {"idle", "admitted", "resolve"}
    PROVE  Between(pc) \in CallerState /\ CallerSound(Between(pc))
  BY DEF Between, CallerState, Reason, CallerSound

LEMMA CallerReturns ==
    ASSUME ContinuationInv, NEW c \in Caller, NEW pc \in {"idle", "admitted"}, Returns(c, pc),
           UNCHANGED <<moment, continuation, granted>>
    PROVE  ContinuationInv'
  BY BetweenCalls, OneCaller DEF Returns

(* The two ways to go on with what is asked for.                           *)
LEMMA TriesAgain ==
    ASSUME NEW me \in CallerState
    PROVE  LET s == [me EXCEPT !.pc = "load", !.tries = @ + 1]
           IN  /\ s \in CallerState /\ s.pc = "load"
               /\ s.want = me.want /\ s.observed = me.observed
  <1> DEFINE first == [me EXCEPT !.pc = "load"]
             s == [first EXCEPT !.tries = me.tries + 1]
  <1>1. /\ first \in CallerState /\ first.pc = "load"
        /\ first.want = me.want /\ first.observed = me.observed
    BY DEF CallerState
  <1> HIDE DEF first
  <1>2. /\ s \in CallerState /\ s.pc = "load"
        /\ s.want = me.want /\ s.observed = me.observed
    BY <1>1 DEF CallerState
  <1> QED BY <1>2 DEF first

LEMMA Looks ==
    ASSUME NEW me \in CallerState, NEW seen \in Nat
    PROVE  LET s == [me EXCEPT !.pc = "save", !.seen = seen]
           IN  /\ s \in CallerState /\ s.pc = "save" /\ s.seen = seen
               /\ s.want = me.want /\ s.observed = me.observed
  <1> DEFINE first == [me EXCEPT !.pc = "save"]
             s == [first EXCEPT !.seen = seen]
  <1>1. /\ first \in CallerState /\ first.pc = "save"
        /\ first.want = me.want /\ first.observed = me.observed
    BY DEF CallerState
  <1> HIDE DEF first
  <1>2. /\ s \in CallerState /\ s.pc = "save" /\ s.seen = seen
        /\ s.want = me.want /\ s.observed = me.observed
    BY <1>1 DEF CallerState
  <1> QED BY <1>2 DEF first

(* A caller that begins to change the continuation.                        *)
LEMMA CallerUpdates ==
    ASSUME ContinuationInv, NEW c \in Caller, NEW stage \in {"create", "execute", "ended"},
           NEW want \in Reason \cup {"used"}, NEW observed \in Nat,
           want = "used" => observed < ExpiresAt,
           Updates(c, stage, want, observed),
           UNCHANGED <<moment, continuation, granted>>
    PROVE  ContinuationInv'
  <1> DEFINE s == [pc |-> "load", stage |-> stage, observed |-> observed,
                   want |-> want, seen |-> 0, tries |-> 0]
  <1>1. s \in CallerState /\ CallerSound(s)
    BY DEF CallerState, CallerSound
  <1>2. caller' = [caller EXCEPT ![c] = s]
    BY DEF Updates
  <1> QED BY <1>1, <1>2, OneCaller

-----------------------------------------------------------------------------
(* The Save.                                                               *)

\* What a Save that succeeds makes of the continuation.
LEMMA SavedOrdered ==
    ASSUME ContinuationInv, NEW c \in Caller, caller[c].pc = "save",
           caller[c].seen = continuation.revision,
           continuation' = Updated(caller[c].want, Effective(caller[c].observed)),
           granted' = [granted EXCEPT ![c] =
                          IF caller[c].want = "used" THEN caller[c].observed ELSE @]
    PROVE  /\ continuation' \in Continuation
           /\ continuation'.revision = continuation.revision + 1
           /\ TimesOrdered'
  <1> DEFINE time == Effective(caller[c].observed)
             want == caller[c].want
  <1>1. /\ continuation \in Continuation /\ caller[c] \in CallerState
        /\ granted \in [Caller -> Nat] /\ ExpiresAt \in Nat
    BY ContinuationAssumption DEF ContinuationInv, ContinuationTypeOK
  <1>2. /\ time \in Nat /\ time >= continuation.updatedAt
        /\ time >= caller[c].observed
        /\ time \in {continuation.updatedAt, caller[c].observed}
    BY <1>1 DEF Effective, Continuation, CallerState
  <1> HIDE DEF time
  <1>3. /\ continuation'.revision = continuation.revision + 1
        /\ continuation'.updatedAt = time
        /\ continuation'.lastUsed = IF want = "used" THEN time ELSE continuation.lastUsed
        /\ continuation'.revoked = IF want = "used" THEN "no" ELSE want
    BY DEF Updated, time
  <1>4. continuation' \in Continuation
    BY <1>1, <1>2 DEF Updated, Continuation, CallerState, time
  <1>5. ~Revoked /\ (want = "used" => caller[c].observed < ExpiresAt)
    BY DEF ContinuationInv, CallerSound
  <1>6. want # "used" => want # "no"
    BY <1>1 DEF CallerState, Reason
  <1>7. \A d \in Caller :
           granted'[d] = IF d = c /\ want = "used" THEN caller[c].observed ELSE granted[d]
    BY <1>1
  <1>8. /\ continuation.lastUsed \in Nat /\ continuation.updatedAt \in Nat
        /\ caller[c].observed \in Nat /\ \A d \in Caller : granted[d] \in Nat
    BY <1>1 DEF Continuation, CallerState
  <1>9. /\ continuation.lastUsed <= continuation.updatedAt
        /\ continuation.updatedAt < ExpiresAt
        /\ \A d \in Caller : granted[d] <= continuation.lastUsed
    BY <1>5 DEF ContinuationInv, TimesOrdered
  <1>10. continuation'.lastUsed <= continuation'.updatedAt
    BY <1>2, <1>3, <1>8, <1>9
  <1>11. ~Revoked' => continuation'.updatedAt < ExpiresAt
    BY <1>1, <1>2, <1>3, <1>5, <1>6, <1>8, <1>9 DEF Revoked
  <1>12. \A d \in Caller : granted'[d] <= continuation'.lastUsed
    BY <1>2, <1>3, <1>7, <1>8, <1>9
  <1> QED BY <1>3, <1>4, <1>10, <1>11, <1>12 DEF TimesOrdered

LEMMA SaveStep ==
    ASSUME ContinuationInv, NEW c \in Caller, SaveUpdate(c)
    PROVE  ContinuationInv'
  <1> DEFINE me == caller[c]
  <1>1. /\ me \in CallerState /\ me.pc = "save" /\ CallerSound(me)
        /\ moment' = moment
        /\ Tries \in Nat
    BY ContinuationAssumption DEF ContinuationInv, ContinuationTypeOK, SaveUpdate
  <1>2. CASE me.seen # continuation.revision
    <2>1. UNCHANGED <<moment, continuation, granted>>
      BY <1>2, <1>1 DEF SaveUpdate
    <2>2. CASE Returns(c, "idle")
      BY <2>1, <2>2, CallerReturns
    <2>3. CASE caller' = [caller EXCEPT ![c].pc = "load", ![c].tries = @ + 1]
      <3> DEFINE s == [me EXCEPT !.pc = "load", !.tries = @ + 1]
      <3>0. /\ s \in CallerState /\ s.pc = "load"
            /\ s.want = me.want /\ s.observed = me.observed
        BY <1>1, TriesAgain
      <3>1. s \in CallerState /\ CallerSound(s)
        <4> HIDE DEF s
        <4> QED BY <1>1, <3>0 DEF CallerSound
      <3>2. caller' = [caller EXCEPT ![c] = s]
        BY <2>3
      <3> QED BY <2>1, <3>1, <3>2, OneCaller
    <2> QED BY <1>2, <2>2, <2>3 DEF SaveUpdate
  <1>3. CASE me.seen = continuation.revision
    <2>1. /\ continuation' = Updated(me.want, Effective(me.observed))
          /\ Returns(c, IF me.want = "used" THEN "admitted" ELSE "idle")
          /\ granted' = [granted EXCEPT ![c] = IF me.want = "used" THEN me.observed ELSE @]
      BY <1>3 DEF SaveUpdate
    <2>2. /\ continuation' \in Continuation
          /\ continuation'.revision = continuation.revision + 1
          /\ TimesOrdered'
      BY <1>1, <1>3, <2>1, SavedOrdered
    <2>3. PICK pc \in {"idle", "admitted"} : caller' = [caller EXCEPT ![c] = Between(pc)]
      BY <2>1 DEF Returns
    <2>4. Between(pc) \in CallerState /\ Between(pc).pc \notin {"target", "load", "save"}
      BY DEF Between, CallerState, Reason
    <2>5. ContinuationTypeOK'
      BY <1>1, <2>1, <2>2, <2>3, <2>4 DEF ContinuationInv, ContinuationTypeOK, CallerState
    <2>6. \A d \in Caller : CallerSound(caller[d])'
      <3> SUFFICES ASSUME NEW d \in Caller PROVE CallerSound(caller[d])'
        OBVIOUS
      <3>1. caller'[d] = IF d = c THEN Between(pc) ELSE caller[d]
        BY <2>3 DEF ContinuationInv, ContinuationTypeOK
      <3>2. CASE d = c
        BY <2>4, <3>1, <3>2 DEF CallerSound
      <3>3. CASE d # c
        <4>1. /\ CallerSound(caller[d]) /\ caller[d].seen \in Nat
              /\ continuation.revision \in Nat
          BY DEF ContinuationInv, ContinuationTypeOK, CallerState, Continuation
        <4>2. caller[d].pc = "save" =>
                 /\ caller[d].seen <= continuation'.revision
                 /\ caller[d].seen # continuation'.revision
          BY <2>2, <4>1 DEF CallerSound
        <4> QED BY <3>1, <3>3, <4>1, <4>2 DEF CallerSound
      <3> QED BY <3>2, <3>3
    <2> QED BY <2>2, <2>5, <2>6 DEF ContinuationInv
  <1> QED BY <1>2, <1>3

-----------------------------------------------------------------------------
LEMMA ContinuationInitInv == ContinuationInit => ContinuationInv
  BY ContinuationAssumption, BetweenCalls
     DEF ContinuationInit, ContinuationInv, ContinuationTypeOK, Continuation, TimesOrdered, Revoked

LEMMA ContinuationStepInv == ContinuationInv /\ [ContinuationNext]_continuationVars => ContinuationInv'
  <1> SUFFICES ASSUME ContinuationInv, [ContinuationNext]_continuationVars PROVE ContinuationInv'
    OBVIOUS
  <1>1. CASE UNCHANGED continuationVars
    BY <1>1 DEF continuationVars, ContinuationInv, ContinuationTypeOK, CallerSound, TimesOrdered, Revoked
  <1>2. CASE TimePasses
    BY <1>2 DEF TimePasses, ContinuationInv, ContinuationTypeOK, CallerSound, TimesOrdered, Revoked
  <1>3. ASSUME NEW c \in Caller, BeginCreate(c) \/ BeginExecute(c) PROVE ContinuationInv'
    <2>1. PICK stage \in {"create", "execute"} :
             /\ caller' = [caller EXCEPT ![c] = [Between("resolve") EXCEPT !.stage = stage,
                                                                        !.observed = moment]]
             /\ UNCHANGED <<moment, continuation, granted>>
      BY <1>3 DEF BeginCreate, BeginExecute, Calls
    <2> DEFINE s == [Between("resolve") EXCEPT !.stage = stage, !.observed = moment]
    <2>2. s \in CallerState /\ CallerSound(s)
      BY DEF ContinuationInv, ContinuationTypeOK, Between, CallerState, Reason, CallerSound
    <2> QED BY <2>1, <2>2, OneCaller
  <1>4. ASSUME NEW c \in Caller, ResolveContinuation(c) PROVE ContinuationInv'
    <2>1. /\ UNCHANGED <<moment, continuation, granted>>
          /\ caller[c] \in CallerState /\ caller[c].pc = "resolve"
          /\ ExpiresAt \in Nat
      BY <1>4, ContinuationAssumption DEF ResolveContinuation, ContinuationInv, ContinuationTypeOK
    <2>2. CASE Returns(c, "idle")
      BY <2>1, <2>2, CallerReturns
    <2>3. CASE Updates(c, caller[c].stage, "expired", caller[c].observed)
      BY <2>1, <2>3, CallerUpdates DEF CallerState, Reason
    <2>4. CASE caller[c].observed < ExpiresAt /\ \E pc \in {"target", "dispatch"} : Goes(c, pc)
      <3>1. PICK pc \in {"target", "dispatch"} : Goes(c, pc)
        BY <2>4
      <3> DEFINE s == [caller[c] EXCEPT !.pc = pc]
      <3>2. s \in CallerState /\ CallerSound(s)
        BY <2>1, <2>4 DEF CallerState, CallerSound
      <3>3. caller' = [caller EXCEPT ![c] = s]
        BY <3>1 DEF Goes
      <3> QED BY <2>1, <3>2, <3>3, OneCaller
    <2> QED BY <1>4, <2>1, <2>2, <2>3, <2>4 DEF ResolveContinuation, CallerState
  <1>5. ASSUME NEW c \in Caller, ResolveTarget(c) PROVE ContinuationInv'
    <2>1. /\ UNCHANGED <<moment, continuation, granted>>
          /\ caller[c].observed \in Nat /\ caller[c].observed < ExpiresAt
      BY <1>5 DEF ResolveTarget, ContinuationInv, ContinuationTypeOK, CallerState, CallerSound
    <2>2. CASE Returns(c, "idle")
      BY <2>1, <2>2, CallerReturns
    <2>3. CASE Updates(c, "create", "used", caller[c].observed)
      BY <2>1, <2>3, CallerUpdates
    <2>4. CASE Updates(c, "create", "target_unavailable", caller[c].observed)
      BY <2>1, <2>4, CallerUpdates DEF Reason
    <2> QED BY <1>5, <2>2, <2>3, <2>4 DEF ResolveTarget
  <1>6. ASSUME NEW c \in Caller, DispatchContinued(c) PROVE ContinuationInv'
    <2>1. UNCHANGED <<moment, continuation, granted>> /\ moment \in Nat
      BY <1>6 DEF DispatchContinued, ContinuationInv, ContinuationTypeOK
    <2>2. CASE \E pc \in {"idle", "admitted"} : Returns(c, pc)
      BY <2>1, <2>2, CallerReturns
    <2>3. CASE Updates(c, "ended", "provider_rejected", moment)
      BY <2>1, <2>3, CallerUpdates DEF Reason
    <2> QED BY <1>6, <2>2, <2>3 DEF DispatchContinued
  <1>7. ASSUME NEW c \in Caller, Load(c) PROVE ContinuationInv'
    <2>1. /\ UNCHANGED <<moment, continuation, granted>>
          /\ caller[c] \in CallerState /\ caller[c].pc = "load" /\ CallerSound(caller[c])
          /\ continuation.revision \in Nat
      BY <1>7 DEF Load, ContinuationInv, ContinuationTypeOK, Continuation
    <2>2. CASE Returns(c, "idle")
      BY <2>1, <2>2, CallerReturns
    <2>3. CASE /\ ~Revoked
               /\ caller' = [caller EXCEPT ![c].pc = "save",
                                           ![c].seen = continuation.revision]
      <3> DEFINE s == [caller[c] EXCEPT !.pc = "save", !.seen = continuation.revision]
      <3>0. /\ s \in CallerState /\ s.pc = "save" /\ s.seen = continuation.revision
            /\ s.want = caller[c].want /\ s.observed = caller[c].observed
        BY <2>1, Looks
      <3>1. s \in CallerState /\ CallerSound(s)
        <4> HIDE DEF s
        <4> QED BY <2>1, <2>3, <3>0 DEF CallerSound
      <3>2. caller' = [caller EXCEPT ![c] = s]
        BY <2>3
      <3> QED BY <2>1, <3>1, <3>2, OneCaller
    <2> QED BY <1>7, <2>2, <2>3 DEF Load
  <1>8. ASSUME NEW c \in Caller, SaveUpdate(c) PROVE ContinuationInv'
    BY <1>8, SaveStep
  <1>9. ASSUME NEW c \in Caller, Dies(c) PROVE ContinuationInv'
    BY <1>9, CallerReturns DEF Dies
  <1> QED BY <1>1, <1>2, <1>3, <1>4, <1>5, <1>6, <1>7, <1>8, <1>9 DEF ContinuationNext

(* Callers, clock and continuation keep their types.                       *)
THEOREM ContinuationTypes == ContinuationSpec => []ContinuationTypeOK
  <1>1. ContinuationInv => ContinuationTypeOK
    BY DEF ContinuationInv
  <1> QED BY ContinuationInitInv, ContinuationStepInv, <1>1, PTL DEF ContinuationSpec

(* The record has been used as late as anyone was allowed to use it, and   *)
(* is valid while it is not revoked, however callers with older clocks and *)
(* older copies interleave (updateContinuationState).                      *)
THEOREM ContinuationUsesRecorded == ContinuationSpec => []UsesAreRecorded
  <1>1. ContinuationInv => UsesAreRecorded
    BY DEF ContinuationInv, TimesOrdered, UsesAreRecorded
  <1> QED BY ContinuationInitInv, ContinuationStepInv, <1>1, PTL DEF ContinuationSpec

(* Once revoked a continuation stays as it is (updateContinuationState     *)
(* looks again after every conflict).                                      *)
THEOREM ContinuationRevocationStands == ContinuationSpec => RevocationStands
  <1>1. ContinuationInv /\ [ContinuationNext]_continuationVars
           => [Revoked => UNCHANGED continuation]_continuationVars
    <2> SUFFICES ASSUME ContinuationInv, [ContinuationNext]_continuationVars, Revoked
                 PROVE  UNCHANGED continuation
      OBVIOUS
    <2>1. ASSUME NEW c \in Caller, SaveUpdate(c) PROVE UNCHANGED continuation
      <3>1. caller[c].seen # continuation.revision
        BY <2>1 DEF SaveUpdate, ContinuationInv, CallerSound
      <3> QED BY <2>1, <3>1 DEF SaveUpdate
    <2> QED BY <2>1 DEF ContinuationNext, continuationVars, TimePasses, BeginCreate,
                        BeginExecute, Calls, ResolveContinuation, ResolveTarget,
                        DispatchContinued, Load, Dies
  <1> QED BY ContinuationInitInv, ContinuationStepInv, <1>1, PTL DEF ContinuationSpec, RevocationStands

-----------------------------------------------------------------------------
(* The retry schedule.                                                     *)

RetryInv ==
    /\ RetryTypeOK /\ cycles <= attempts /\ attempts <= Maximum
    /\ status = "waiting_retry" => /\ InTime(nextRetryAt)
                                   /\ WaitWithinBounds
                                   /\ policy.max # 0 => attempts < policy.max

LEMMA PolicyFacts ==
    ASSUME RetryTypeOK
    PROVE  /\ policy \in Policy /\ CycleLimit \in Nat \ {0} /\ attempts \in Nat
           /\ policy.tools \in Nat /\ policy.max \in Nat
           /\ Maximum \in Nat /\ Maximum <= CycleLimit + policy.tools
  <1>1. policy \in Policy /\ CycleLimit \in Nat \ {0}
    BY RetryAssumption DEF RetryTypeOK
  <1>2. policy.tools \in Nat /\ policy.max \in Nat
    BY <1>1 DEF Policy
  <1>3. attempts \in Nat
    BY <1>1, <1>2 DEF RetryTypeOK
  <1> QED
    BY <1>1, <1>2, <1>3 DEF Maximum, Smaller

LEMMA DelayWithinPolicy ==
    ASSUME RetryTypeOK, NEW n \in 1..(CycleLimit + policy.tools)
    PROVE  /\ Delay(policy, FailureCycles(n)) \in Nat
           /\ Smaller(policy.initial, policy.maximum) <= Delay(policy, FailureCycles(n))
           /\ Delay(policy, FailureCycles(n)) <= policy.maximum
  <1>1. FailureCycles(n) \in 0..(CycleLimit + policy.tools)
    BY PolicyFacts DEF FailureCycles
  <1>2. PICK c \in 0..(CycleLimit + policy.tools) : c = FailureCycles(n)
    BY <1>1
  <1>3. Grown(policy)[c] \in Nat /\ Grown(policy)[c] >= policy.initial
    BY <1>2, DelaysAreNumbers DEF RetryTypeOK
  <1>4. policy.initial \in Nat /\ policy.maximum \in Nat
    BY PolicyFacts DEF Policy
  <1> QED
    BY <1>2, <1>3, <1>4 DEF Delay, Smaller

LEMMA RetryInitInv == RetryInit => RetryInv
  <1> SUFFICES ASSUME RetryInit PROVE RetryInv
    OBVIOUS
  <1>1. policy.tools \in Nat /\ policy.max \in Nat /\ CycleLimit \in Nat \ {0}
    BY RetryAssumption DEF RetryInit, Policy
  <1> QED
    BY <1>1, RetryAssumption DEF RetryInit, RetryInv, RetryTypeOK, Maximum, Smaller

LEMMA DispatchFailsInv ==
    ASSUME RetryInv, DispatchFails
    PROVE  RetryInv'
  <1>1. /\ RetryTypeOK /\ cycles \in Nat /\ clock \in Nat /\ cycles <= attempts
        /\ attempts <= Maximum
    BY DEF RetryInv, RetryTypeOK
  <1>2. policy' = policy /\ Maximum' = Maximum
    BY DEF DispatchFails, Fail, Maximum
  <1>3. CASE Fail /\ (attempts' = attempts \/ (attempts' = attempts + 1 /\ attempts < Maximum))
    BY <1>1, <1>2, <1>3, PolicyFacts DEF RetryInv, RetryTypeOK, Fail
  <1>4. CASE /\ attempts + 1 < Maximum /\ attempts' = attempts + 1 /\ status = "running"
             /\ UNCHANGED <<policy, clock, status, scheduled, nextRetryAt, hint, cycles>>
    BY <1>1, <1>2, <1>4, PolicyFacts DEF RetryInv, RetryTypeOK
  <1>5. ASSUME NEW h \in {0} \cup {clock + k : k \in Hints}, NEW at,
               attempts < Maximum, attempts' = attempts + 1,
               at = IF h > clock + Delay(policy, FailureCycles(attempts'))
                    THEN h ELSE clock + Delay(policy, FailureCycles(attempts')),
               policy.max = 0 \/ attempts' < policy.max, InTime(at),
               status' = "waiting_retry", scheduled' = clock, nextRetryAt' = at, hint' = h,
               cycles' = cycles + 1, UNCHANGED <<policy, clock>>
        PROVE  RetryInv'
    <2>1. attempts' \in 1..(CycleLimit + policy.tools) /\ attempts' <= Maximum
      BY <1>1, <1>5, PolicyFacts
    <2>2. PICK least \in Nat, delay \in Nat :
             /\ least = Smaller(policy.initial, policy.maximum)
             /\ delay = Delay(policy, FailureCycles(attempts'))
             /\ least <= delay /\ delay <= policy.maximum /\ policy.maximum \in Nat
      <3>1. policy.initial \in Nat /\ policy.maximum \in Nat
        BY <1>1, PolicyFacts DEF Policy
      <3> QED
        BY <1>1, <2>1, <3>1, DelayWithinPolicy DEF Smaller
    <2>3. h \in Nat
      BY <1>1, <1>5, RetryAssumption
    <2>4. /\ at \in Nat /\ at >= clock + least
          /\ at = h \/ at <= clock + policy.maximum
      BY <1>1, <1>5, <2>2, <2>3
    <2>5. InTime(nextRetryAt)' /\ WaitWithinBounds'
      BY <1>5, <2>2, <2>4 DEF InTime, WaitWithinBounds
    <2>6. RetryTypeOK'
      BY <1>1, <1>5, <2>1, <2>3, <2>4, PolicyFacts DEF RetryTypeOK
    <2> QED
      BY <1>1, <1>2, <1>5, <2>1, <2>5, <2>6, PolicyFacts DEF RetryInv
  <1> QED
    BY <1>1, <1>3, <1>4, <1>5 DEF DispatchFails

LEMMA RetryStepInv == RetryInv /\ [RetryNext]_retryVars => RetryInv'
  <1> SUFFICES ASSUME RetryInv, [RetryNext]_retryVars PROVE RetryInv'
    OBVIOUS
  <1>1. CASE DispatchFails
    BY <1>1, DispatchFailsInv
  <1>2. CASE Recover
    BY <1>2 DEF Recover, RetryInv, RetryTypeOK, InTime, WaitWithinBounds, Maximum
  <1>3. CASE RetryTick
    BY <1>3, RetryAssumption
       DEF RetryTick, RetryInv, RetryTypeOK, InTime, WaitWithinBounds, Maximum
  <1>4. CASE AnswersWithTools
    <2>1. RetryTypeOK /\ attempts \in Nat /\ Maximum \in Nat
            /\ CycleLimit \in Nat /\ policy.tools \in Nat /\ Maximum <= CycleLimit + policy.tools
      BY PolicyFacts DEF RetryInv
    <2> QED
      BY <1>4, <2>1 DEF AnswersWithTools, RetryInv, RetryTypeOK, WaitWithinBounds, Maximum
  <1>5. CASE UNCHANGED retryVars
    BY <1>5 DEF retryVars, RetryInv, RetryTypeOK, InTime, WaitWithinBounds, Maximum
  <1> QED
    BY <1>1, <1>2, <1>3, <1>4, <1>5 DEF RetryNext

(* The schedule and its clock keep their types.                            *)
THEOREM RetryTypes == RetrySpec => []RetryTypeOK
  <1>1. RetryInv => RetryTypeOK
    BY DEF RetryInv
  <1> QED
    BY <1>1, RetryInitInv, RetryStepInv, PTL DEF RetrySpec

(* A retry waits no shorter than the initial and no longer than the        *)
(* maximum delay of its policy, unless the provider named a later time; it *)
(* can still start when its time has come, and the attempts stay within    *)
(* their budget (scheduleRetry and maximumSynchronousCycleAttempts).       *)
THEOREM RetriesKeepToBounds == RetrySpec => []RetryWithinBounds
  <1>1. RetryInv => RetryWithinBounds
    BY DEF RetryInv, RetryWithinBounds, WaitWithinBounds, ScheduledRetryCanStart,
           AttemptsWithinBudget, InTime
  <1> QED
    BY <1>1, RetryInitInv, RetryStepInv, PTL DEF RetrySpec

-----------------------------------------------------------------------------
(* The lease, whenever the clocks are read.                                *)

Moment == {t \in Nat : t % TicksPerSecond \in Readings}

LEMMA MomentParts ==
    ASSUME NEW t \in Moment
    PROVE  /\ t \in Nat /\ t \div 4 \in Nat /\ t % 4 \in Readings /\ t % 4 \in 0..3
           /\ t = 4 * (t \div 4) + (t % 4)
           /\ Expiry(t) \in Moment /\ Expiry(t) \in Nat /\ t < Expiry(t)
  <1>1. t \in Nat /\ t % 4 \in Readings /\ TTL \in Nat \ {0}
    BY LeaseAssumption DEF Moment, TicksPerSecond
  <1>2. t \div 4 \in Nat /\ t % 4 \in 0..3 /\ t = 4 * (t \div 4) + (t % 4)
    BY <1>1
  <1>3. t + TTL * 4 \in Nat /\ t < t + TTL * 4 /\ (t + TTL * 4) % 4 = t % 4
    BY <1>1
  <1> QED
    BY <1>1, <1>2, <1>3 DEF Expiry, Moment, TicksPerSecond

LEMMA Printed ==
    ASSUME NEW a \in Nat, NEW b \in Nat, NEW c \in Nat
    PROVE  /\ <<a>> \o <<>> \o <<9>> = <<a, 9>>
           /\ <<a>> \o <<1, b>> \o <<9>> = <<a, 1, b, 9>>
           /\ <<a>> \o <<1, b, c>> \o <<9>> = <<a, 1, b, c, 9>>
  <1>1. <<a>> \o <<>> = <<a>>
    OBVIOUS
  <1>2. <<a>> \o <<1, b>> = <<a, 1, b>>
    <2>1. <<a>> \in Seq(Nat) /\ <<1, b>> \in Seq(Nat) /\ Len(<<a>>) = 1 /\ Len(<<1, b>>) = 2
      OBVIOUS
    <2>2. PICK z : z = <<a>> \o <<1, b>>
      OBVIOUS
    <2>3. /\ z \in Seq(Nat) /\ Len(z) = 3
          /\ \A i \in 1..3 : z[i] = IF i <= 1 THEN <<a>>[i] ELSE <<1, b>>[i - 1]
      BY <2>1, <2>2, ConcatProperties
    <2>4. z[1] = a /\ z[2] = 1 /\ z[3] = b
      BY <2>3
    <2>5. z = <<a, 1, b>>
      BY <2>3, <2>4
    <2> QED
      BY <2>2, <2>5
  <1>3. <<a>> \o <<1, b, c>> = <<a, 1, b, c>>
    <2>1. /\ <<a>> \in Seq(Nat) /\ <<1, b, c>> \in Seq(Nat)
          /\ Len(<<a>>) = 1 /\ Len(<<1, b, c>>) = 3
      OBVIOUS
    <2>2. PICK z : z = <<a>> \o <<1, b, c>>
      OBVIOUS
    <2>3. /\ z \in Seq(Nat) /\ Len(z) = 4
          /\ \A i \in 1..4 : z[i] = IF i <= 1 THEN <<a>>[i] ELSE <<1, b, c>>[i - 1]
      BY <2>1, <2>2, ConcatProperties
    <2>4. z[1] = a /\ z[2] = 1 /\ z[3] = b /\ z[4] = c
      BY <2>3
    <2>5. z = <<a, 1, b, c>>
      BY <2>3, <2>4
    <2> QED
      BY <2>2, <2>5
  <1>4. /\ <<a>> \in Seq(Nat) /\ <<a>> \o <<9>> = Append(<<a>>, 9)
        /\ <<a, 1, b>> \in Seq(Nat) /\ <<a, 1, b>> \o <<9>> = Append(<<a, 1, b>>, 9)
        /\ <<a, 1, b, c>> \in Seq(Nat) /\ <<a, 1, b, c>> \o <<9>> = Append(<<a, 1, b, c>>, 9)
    BY AppendIsConcat, 9 \in Nat
  <1>5. Append(<<a>>, 9) = <<a, 9>>
    <2>1. <<a>> \in Seq(Nat) /\ Len(<<a>>) = 1
      OBVIOUS
    <2>2. PICK z : z = Append(<<a>>, 9)
      OBVIOUS
    <2>3. /\ z \in Seq(Nat) /\ Len(z) = 2 /\ z[2] = 9
          /\ \A i \in 1..1 : z[i] = <<a>>[i]
      BY <2>1, <2>2, AppendProperties
    <2>4. z[1] = a /\ z[2] = 9
      BY <2>3
    <2>5. z = <<a, 9>>
      BY <2>3, <2>4
    <2> QED
      BY <2>2, <2>5
  <1>6. Append(<<a, 1, b>>, 9) = <<a, 1, b, 9>>
    <2>1. <<a, 1, b>> \in Seq(Nat) /\ Len(<<a, 1, b>>) = 3
      OBVIOUS
    <2>2. PICK z : z = Append(<<a, 1, b>>, 9)
      OBVIOUS
    <2>3. /\ z \in Seq(Nat) /\ Len(z) = 4 /\ z[4] = 9
          /\ \A i \in 1..3 : z[i] = <<a, 1, b>>[i]
      BY <2>1, <2>2, AppendProperties
    <2>4. z[1] = a /\ z[2] = 1 /\ z[3] = b /\ z[4] = 9
      BY <2>3
    <2>5. z = <<a, 1, b, 9>>
      BY <2>3, <2>4
    <2> QED
      BY <2>2, <2>5
  <1>7. Append(<<a, 1, b, c>>, 9) = <<a, 1, b, c, 9>>
    <2>1. <<a, 1, b, c>> \in Seq(Nat) /\ Len(<<a, 1, b, c>>) = 4
      OBVIOUS
    <2>2. PICK z : z = Append(<<a, 1, b, c>>, 9)
      OBVIOUS
    <2>3. /\ z \in Seq(Nat) /\ Len(z) = 5 /\ z[5] = 9
          /\ \A i \in 1..4 : z[i] = <<a, 1, b, c>>[i]
      BY <2>1, <2>2, AppendProperties
    <2>4. z[1] = a /\ z[2] = 1 /\ z[3] = b /\ z[4] = c /\ z[5] = 9
      BY <2>3
    <2>5. z = <<a, 1, b, c, 9>>
      BY <2>3, <2>4
    <2> QED
      BY <2>2, <2>5
  <1> QED
    BY <1>1, <1>2, <1>3, <1>4, <1>5, <1>6, <1>7

LEMMA TextParts ==
    ASSUME NEW t \in Nat
    PROVE  /\ t % 4 = 0 => Text(t) = <<t \div 4, 9>>
           /\ t % 4 = 2 => Text(t) = <<t \div 4, 1, 3, 9>>
           /\ t % 4 \in {1, 3} =>
                  Text(t) = <<t \div 4, 1, 2 + ((t % 4) \div 2), 2 + ((t % 4) % 2), 9>>
  <1>1. PICK a \in Nat, f \in 0..3 : a = t \div 4 /\ f = t % 4
    OBVIOUS
  <1>2. CASE f = 0
    <2>1. Text(t) = <<a>> \o <<>> \o <<9>>
      BY <1>1, <1>2 DEF Text, TicksPerSecond, Zee
    <2>2. Text(t) = <<a, 9>>
      BY <2>1, Printed
    <2> QED
      BY <1>1, <1>2, <2>2
  <1>3. CASE f = 2
    <2>1. Text(t) = <<a>> \o <<1, 3>> \o <<9>>
      BY <1>1, <1>3 DEF Text, TicksPerSecond, Dot, Zee, Digit
    <2>2. Text(t) = <<a, 1, 3, 9>>
      BY <2>1, Printed
    <2> QED
      BY <1>1, <1>3, <2>2
  <1>4. CASE f \in {1, 3}
    <2>1. f # 0 /\ f # 2 /\ 2 + (f \div 2) \in Nat /\ 2 + (f % 2) \in Nat
      BY <1>4
    <2>2. Text(t) = <<a>> \o <<1, 2 + (f \div 2), 2 + (f % 2)>> \o <<9>>
      BY <1>1, <2>1 DEF Text, TicksPerSecond, Dot, Zee, Digit
    <2>3. Text(t) = <<a, 1, 2 + (f \div 2), 2 + (f % 2), 9>>
      BY <2>1, <2>2, Printed, Zenon
    <2> QED
      BY <1>1, <2>1, <2>3
  <1> QED
    BY <1>1, <1>2, <1>3, <1>4

(* Timestamps sort by their seconds, whatever is printed of the fractions. *)
LEMMA SecondsSort ==
    ASSUME NEW s \in Nat, NEW t \in Nat, AtMost(s, t)
    PROVE  Second(s) <= Second(t)
  <1>1. ASSUME NEW u \in Nat
        PROVE  Text(u)[1] = Second(u) /\ Second(u) \in Nat
    <2>1. u % 4 = 0 \/ u % 4 = 2 \/ u % 4 \in {1, 3}
      OBVIOUS
    <2>2. PICK a \in Nat, d \in Nat, e \in Nat :
             a = u \div 4 /\ d = 2 + ((u % 4) \div 2) /\ e = 2 + ((u % 4) % 2)
      OBVIOUS
    <2>3. Text(u) = <<a, 9>> \/ Text(u) = <<a, 1, 3, 9>> \/ Text(u) = <<a, 1, d, e, 9>>
      BY <2>1, <2>2, TextParts
    <2>4. Text(u)[1] = a
      BY <2>3
    <2> QED
      BY <2>2, <2>4 DEF Second, TicksPerSecond
  <1>2. Text(s)[1] = Second(s) /\ Text(t)[1] = Second(t)
          /\ Second(s) \in Nat /\ Second(t) \in Nat
    BY <1>1
  <1>3. CASE Text(s) = Text(t)
    BY <1>2, <1>3
  <1>4. ASSUME NEW k \in 1..Len(Text(s)), Text(s)[k] < Text(t)[k],
               \A j \in 1..(k - 1) : Text(s)[j] = Text(t)[j]
        PROVE  Second(s) <= Second(t)
    <2>1. CASE k = 1
      BY <1>2, <1>4, <2>1
    <2>2. CASE k # 1
      <3>1. 1 \in 1..(k - 1)
        BY <1>4, <2>2
      <3> QED
        BY <1>2, <1>4, <3>1
    <2> QED
      BY <2>1, <2>2
  <1> QED
    BY <1>3, <1>4 DEF AtMost

LEMMA SecondsPass ==
    ASSUME NEW s \in Nat, NEW t \in Nat, s <= t
    PROVE  Second(s) \in Nat /\ Second(t) \in Nat /\ Second(s) <= Second(t)
  BY DEF Second, TicksPerSecond

(* Whoever believes to hold the lease has the row, or the second in which  *)
(* it expires has begun; and rows and workers carry readings of the clock.                           *)
LeaseStamped ==
    /\ now \in Moment
    /\ leaseRow.owner # "none" => leaseRow.expires \in Moment
    /\ \A w \in Worker : doing[w] \in {"acquiring", "holding", "renewing"} =>
                             stamp[w] \in Moment /\ stamp[w] <= now

HeldOrOver(w) ==
    doing[w] = "holding" =>
        \/ Second(Expiry(stamp[w])) <= Second(now)
        \/ leaseRow.owner = w /\ leaseRow.expires = Expiry(stamp[w])

LeaseInv ==
    LeaseTypeOK /\ LeaseStamped /\ \A w \in Worker : HeldOrOver(w)

LEMMA LeaseInitInv == LeaseInit => LeaseInv
  <1> SUFFICES ASSUME LeaseInit PROVE LeaseInv
    OBVIOUS
  <1>1. now \in Moment /\ now \in 0..ClockHorizon
    <2>1. now \in Readings /\ now \in 0..3
      BY LeaseAssumption DEF LeaseInit, TicksPerSecond
    <2>2. now % 4 = now
      BY <2>1
    <2> QED
      BY <2>1, <2>2, LeaseAssumption DEF Moment, TicksPerSecond
  <1>2. Expiry(ClockHorizon) \in Nat
    BY LeaseAssumption DEF Expiry, TicksPerSecond
  <1> QED
    BY <1>1, <1>2, LeaseAssumption
       DEF LeaseInit, LeaseInv, LeaseTypeOK, LeaseStamped, HeldOrOver, NoRow

LEMMA ReadClockInv ==
    ASSUME LeaseInv, NEW w \in Worker, NEW from, NEW to \in {"acquiring", "renewing"},
           ReadClock(w, from, to)
    PROVE  LeaseInv'
  BY DEF ReadClock, LeaseInv, LeaseTypeOK, LeaseStamped, HeldOrOver, Moment

LEMMA NewExpiry ==
    ASSUME LeaseInv, NEW w \in Worker, doing[w] \in {"acquiring", "renewing"}
    PROVE  /\ Expiry(stamp[w]) \in Moment
           /\ Expiry(stamp[w]) \in 0..Expiry(ClockHorizon)
  <1>1. stamp[w] \in Moment /\ stamp[w] \in 0..ClockHorizon
    BY DEF LeaseInv, LeaseTypeOK, LeaseStamped
  <1>2. TTL * TicksPerSecond \in Nat /\ ClockHorizon \in Nat
    BY LeaseAssumption DEF TicksPerSecond
  <1> QED
    BY <1>1, <1>2, MomentParts DEF Expiry

LEMMA AcquireInv ==
    ASSUME LeaseInv, NEW w \in Worker, Acquire(w)
    PROVE  LeaseInv'
  <1>1. /\ LeaseTypeOK /\ LeaseStamped /\ doing[w] = "acquiring"
        /\ stamp[w] \in Moment /\ stamp[w] <= now /\ w # "none"
    BY LeaseAssumption DEF Acquire, LeaseInv, LeaseStamped
  <1>2. CASE UNCHANGED leaseRow /\ doing' = [doing EXCEPT ![w] = "idle"]
    BY <1>1, <1>2 DEF Acquire, LeaseInv, LeaseTypeOK, LeaseStamped, HeldOrOver
  <1>3. CASE /\ leaseRow = NoRow \/ leaseRow.owner = w \/ AtMost(leaseRow.expires, stamp[w])
             /\ leaseRow' = [owner |-> w, expires |-> Expiry(stamp[w])]
             /\ doing' = [doing EXCEPT ![w] = "holding"]
    <2>1. LeaseTypeOK' /\ LeaseStamped'
      BY <1>1, <1>3, NewExpiry DEF Acquire, LeaseTypeOK, LeaseStamped
    <2>2. ASSUME NEW v \in Worker PROVE HeldOrOver(v)'
      <3>1. CASE v = w
        BY <1>1, <1>3, <3>1 DEF Acquire, HeldOrOver, LeaseTypeOK
      <3>2. CASE v # w /\ doing[v] = "holding" /\ leaseRow.owner = v
                   /\ leaseRow.expires = Expiry(stamp[v])
        <4>1. v # "none" /\ leaseRow # NoRow
          BY <3>2, LeaseAssumption DEF NoRow
        <4>2. Second(leaseRow.expires) <= Second(stamp[w])
          BY <1>1, <1>3, <3>2, <4>1, SecondsSort DEF LeaseStamped, Moment
        <4>3. Second(Expiry(stamp[v])) <= Second(now)
          <5>1. stamp[w] \in Nat /\ now \in Nat /\ leaseRow.expires \in Nat
            BY <1>1, <4>1, <3>2 DEF LeaseStamped, Moment
          <5>2. Second(stamp[w]) <= Second(now) /\ Second(stamp[w]) \in Nat /\ Second(now) \in Nat
                  /\ Second(leaseRow.expires) \in Nat
            BY <1>1, <5>1, SecondsPass
          <5> QED
            BY <3>2, <4>2, <5>2
        <4> QED
          BY <4>3 DEF Acquire, HeldOrOver
      <3>3. CASE v # w /\ (doing[v] = "holding" => Second(Expiry(stamp[v])) <= Second(now))
        BY <1>1, <1>3, <3>3 DEF Acquire, HeldOrOver, LeaseTypeOK
      <3> QED
        BY <3>1, <3>2, <3>3 DEF LeaseInv, HeldOrOver
    <2> QED
      BY <2>1, <2>2 DEF LeaseInv
  <1> QED
    BY <1>2, <1>3 DEF Acquire

LEMMA RenewInv ==
    ASSUME LeaseInv, NEW w \in Worker, Renew(w)
    PROVE  LeaseInv'
  <1>1. /\ LeaseTypeOK /\ LeaseStamped /\ doing[w] = "renewing"
        /\ stamp[w] \in Moment /\ stamp[w] <= now /\ w # "none"
    BY LeaseAssumption DEF Renew, LeaseInv, LeaseStamped
  <1>2. CASE UNCHANGED leaseRow /\ doing' = [doing EXCEPT ![w] = "lost"]
    BY <1>1, <1>2 DEF Renew, LeaseInv, LeaseTypeOK, LeaseStamped, HeldOrOver
  <1>3. CASE /\ leaseRow.owner = w
             /\ leaseRow' = [leaseRow EXCEPT !.expires = Expiry(stamp[w])]
             /\ doing' = [doing EXCEPT ![w] = "holding"]
    <2>1. leaseRow'.owner = w /\ leaseRow'.expires = Expiry(stamp[w])
            /\ leaseRow' \in [owner: Worker \cup {"none"}, expires: 0..Expiry(ClockHorizon)]
      BY <1>1, <1>3, NewExpiry DEF LeaseTypeOK
    <2>2. LeaseTypeOK' /\ LeaseStamped'
      BY <1>1, <1>3, <2>1, NewExpiry DEF Renew, LeaseTypeOK, LeaseStamped
    <2>3. ASSUME NEW v \in Worker PROVE HeldOrOver(v)'
      BY <1>1, <1>3, <2>1 DEF Renew, LeaseInv, HeldOrOver, LeaseTypeOK
    <2> QED
      BY <2>2, <2>3 DEF LeaseInv
  <1> QED
    BY <1>2, <1>3 DEF Renew

LEMMA LeaseStepInv ==
    LeaseInv /\ [LeaseNext]_leaseVars => LeaseInv'
  <1> SUFFICES ASSUME LeaseInv, [LeaseNext]_leaseVars PROVE LeaseInv'
    OBVIOUS
  <1>1. ASSUME NEW w \in Worker, Release(w) PROVE LeaseInv'
    BY <1>1, LeaseAssumption
       DEF Release, NoRow, LeaseInv, LeaseTypeOK, LeaseStamped, HeldOrOver, Expiry, TicksPerSecond
  <1>2. ASSUME NEW w \in Worker, WorkerDies(w) PROVE LeaseInv'
    BY <1>2 DEF WorkerDies, LeaseInv, LeaseTypeOK, LeaseStamped, HeldOrOver
  <1>3. CASE ClockTick
    <2>1. PICK t \in (now + 1)..ClockHorizon : t % TicksPerSecond \in Readings /\ now' = t
      BY <1>3 DEF ClockTick
    <2>2. now \in Nat /\ now' \in 0..ClockHorizon /\ now < now' /\ now' \in Moment
      BY <2>1, LeaseAssumption DEF LeaseInv, LeaseTypeOK, Moment
    <2>3. LeaseTypeOK' /\ LeaseStamped'
      BY <1>3, <2>2 DEF ClockTick, LeaseInv, LeaseTypeOK, LeaseStamped, Moment
    <2>4. ASSUME NEW w \in Worker PROVE HeldOrOver(w)'
      <3>1. doing[w] = "holding" => Second(Expiry(stamp[w])) \in Nat
        <4>1. doing[w] = "holding" => Expiry(stamp[w]) \in Nat
          BY MomentParts DEF LeaseInv, LeaseStamped
        <4> QED
          BY <4>1, SecondsPass
      <3>2. now \in Nat /\ now' \in Nat /\ now <= now'
        BY <2>2
      <3>3. Second(now) <= Second(now') /\ Second(now) \in Nat /\ Second(now') \in Nat
        BY <3>2, SecondsPass
      <3> QED
        BY <1>3, <3>1, <3>3 DEF ClockTick, LeaseInv, HeldOrOver
    <2> QED
      BY <2>3, <2>4 DEF LeaseInv
  <1>4. CASE UNCHANGED leaseVars
    BY <1>4 DEF leaseVars, LeaseInv, LeaseTypeOK, LeaseStamped, HeldOrOver
  <1> QED
    BY <1>1, <1>2, <1>3, <1>4, ReadClockInv, AcquireInv, RenewInv DEF LeaseNext

(* Nobody takes, renews or releases the lease of a worker before the       *)
(* second in which it expires, whatever the fractions look like            *)
(* (AcquireLease, RenewLease and ReleaseLease of the SQLite store).        *)
THEOREM HoldersKeepTheLease == LeaseSpec => []HolderOwnsRow
  <1>1. LeaseInv => HolderOwnsRow
    <2> SUFFICES ASSUME LeaseInv, NEW w \in Worker, doing[w] = "holding",
                        Second(now) < Second(Expiry(stamp[w]))
                 PROVE  leaseRow.owner = w
      BY DEF HolderOwnsRow
    <2>1. Expiry(stamp[w]) \in Nat /\ now \in Nat
      BY MomentParts DEF LeaseInv, LeaseStamped, Moment
    <2>2. Second(Expiry(stamp[w])) \in Nat /\ Second(now) \in Nat
      BY <2>1, SecondsPass
    <2> QED
      BY <2>2 DEF LeaseInv, HeldOrOver
  <1> QED
    BY <1>1, LeaseInitInv, LeaseStepInv, PTL DEF LeaseSpec

-----------------------------------------------------------------------------
(* RouterToolRounds: the inductive invariant.                              *)

Result == {"pending", "running", "succeeded", "failed"}

(* A record of the parent counts a round only with the dispatch that asked *)
(* for it, and its context has no more than the allowed number of calls,   *)
(* each with a child that succeeded.                                       *)
RecordSound(p, child) ==
    /\ p \in Parent
    /\ p.rounds <= p.attempts
    /\ Cardinality(p.context) <= MaximumCalls
    /\ \A s \in p.context : child[s] = "succeeded"

RunState ==
    [pc: {"ready", "await", "children"}, record: Parent, left: 0..MaximumDispatches,
     batch: SUBSET Call, results: UNION {[b -> Result] : b \in SUBSET Call}]

(* A run has enough of the budget for the dispatches it may still make;    *)
(* while it waits for children its dispatch is counted, and the calls fit. *)
RunSound(r, child) ==
    /\ r \in RunState
    /\ r.results \in [r.batch -> Result]
    /\ RecordSound(r.record, child)
    /\ r.record.attempts + r.left + (IF r.pc = "await" THEN 1 ELSE 0) <= MaximumDispatches
    /\ r.pc = "children" =>
          /\ r.record.rounds + 1 <= r.record.attempts
          /\ Cardinality(r.record.context) + Cardinality(r.batch) <= MaximumCalls
          /\ \A c \in r.batch :
                r.results[c] = "succeeded" => child[<<c, r.record.rounds + 1>>] = "succeeded"

(* What the run knows of the parent is what the store would tell the next  *)
(* run, but for the context, which a store may not keep.                   *)
Agrees(r, p) ==
    /\ r.record.status = p.status
    /\ r.record.rounds = p.rounds
    /\ r.record.attempts = p.attempts

RouterInv ==
    /\ children \in [Slot -> {"none", "open", "succeeded", "failed"}]
    /\ sent \subseteq (0..MaximumRounds) \X SUBSET Slot
    /\ RecordSound(stored, children)
    /\ \/ run = [pc |-> "down"]
       \/ RunSound(run, children) /\ Agrees(run, stored)

LEMMA DispatchBound ==
    /\ MaximumDispatches \in Nat /\ MaximumRounds = MaximumDispatches
    /\ MaximumCalls \in Nat /\ 0 < MaximumDispatches
  BY RouterToolAssumption DEF MaximumDispatches, MaximumRounds

LEMMA SlotsFinite == IsFiniteSet(Slot)
  <1>1. IsFiniteSet(1..MaximumRounds)
    BY DispatchBound, FS_Interval
  <1> QED
    BY <1>1, RouterToolAssumption, FS_Product DEF Slot

(* A committed call has one entry, so a round adds no more entries than it *)
(* has calls.                                                              *)
LEMMA RoundSize ==
    ASSUME NEW context \in SUBSET Slot, NEW batch \in SUBSET Call, NEW round
    PROVE  LET added == {<<c, round>> : c \in batch}
           IN  added \subseteq Slot =>
                  Cardinality(context \cup added) <= Cardinality(context) + Cardinality(batch)
  <1> SUFFICES ASSUME {<<c, round>> : c \in batch} \subseteq Slot
               PROVE  Cardinality(context \cup {<<c, round>> : c \in batch})
                        <= Cardinality(context) + Cardinality(batch)
    OBVIOUS
  <1>1. PICK added : added = {<<c, round>> : c \in batch}
    OBVIOUS
  <1>2. IsFiniteSet(context) /\ IsFiniteSet(batch) /\ IsFiniteSet(added)
    BY <1>1, SlotsFinite, RouterToolAssumption, FS_Subset
  <1>3. Cardinality(added) <= Cardinality(batch)
    <2>1. PICK f : f = [c \in batch |-> <<c, round>>]
      OBVIOUS
    <2>2. f \in Surjection(batch, added)
      BY <1>1, <2>1 DEF Surjection
    <2> QED
      BY <1>2, <2>2, FS_Surjection
  <1>4. Cardinality(context \cup added)
          = Cardinality(context) + Cardinality(added) - Cardinality(context \cap added)
    BY <1>2, FS_Union
  <1>5. /\ Cardinality(context) \in Nat /\ Cardinality(added) \in Nat
        /\ Cardinality(batch) \in Nat /\ Cardinality(context \cap added) \in Nat
    BY <1>2, FS_CardinalityType, FS_Intersection
  <1> QED
    BY <1>1, <1>3, <1>4, <1>5

-----------------------------------------------------------------------------
(* What the operations on a record keep.                                   *)

LEMMA TriedSound ==
    ASSUME NEW child, NEW p, RecordSound(p, child), p.attempts < MaximumDispatches
    PROVE  /\ RecordSound(Tried(p), child)
           /\ Tried(p).attempts = p.attempts + 1
           /\ Tried(p).rounds = p.rounds
           /\ Tried(p).context = p.context
           /\ Tried(p).status = p.status
  BY DispatchBound DEF RecordSound, Tried, Parent

LEMMA KeptSound ==
    ASSUME NEW child, NEW p, RecordSound(p, child), RecordSound(stored, child)
    PROVE  /\ RecordSound(Kept(p), child)
           /\ Kept(p).attempts = p.attempts
           /\ Kept(p).rounds = p.rounds
           /\ Kept(p).status = p.status
  BY DEF RecordSound, Kept, Parent

LEMMA StatusSound ==
    ASSUME NEW child, NEW p, RecordSound(p, child),
           NEW outcome \in {"running", "succeeded", "failed"}
    PROVE  /\ RecordSound([p EXCEPT !.status = outcome], child)
           /\ [p EXCEPT !.status = outcome].rounds = p.rounds
           /\ [p EXCEPT !.status = outcome].context = p.context
  BY DEF RecordSound, Parent

(* Children may go on as long as those that succeeded stay so.             *)
LEMMA ChildrenMove ==
    ASSUME NEW child, NEW moved, child \in [Slot -> {"none", "open", "succeeded", "failed"}],
           \A s \in Slot : child[s] = "succeeded" => moved[s] = "succeeded"
    PROVE  /\ \A p : RecordSound(p, child) => RecordSound(p, moved)
           /\ \A r : RunSound(r, child) => RunSound(r, moved)
  <1>1. ASSUME NEW p, RecordSound(p, child) PROVE RecordSound(p, moved)
    BY <1>1 DEF RecordSound, Parent
  <1>2. ASSUME NEW r, RunSound(r, child) PROVE RunSound(r, moved)
    <2>1. RecordSound(r.record, moved)
      BY <1>1, <1>2 DEF RunSound
    <2>2. r.pc = "children" => \A c \in r.batch : <<c, r.record.rounds + 1>> \in Slot
      BY <1>2, DispatchBound DEF RunSound, RunState, Parent, Slot
    <2> QED
      BY <1>2, <2>1, <2>2 DEF RunSound
  <1> QED
    BY <1>1, <1>2

LEMMA ChildSlots ==
    ASSUME RouterInv, run.pc = "children", NEW c \in run.batch
    PROVE  Child(c) \in Slot
  BY DispatchBound DEF RouterInv, RunSound, RunState, Parent, Slot, Child

-----------------------------------------------------------------------------
(* One lemma per action that needs more than its definition.               *)

LEMMA RouterInitInv == RouterInit => RouterInv
  <1> SUFFICES ASSUME RouterInit PROVE RouterInv
    OBVIOUS
  <1>1. stored \in Parent
    BY DispatchBound DEF RouterInit, Parent
  <1>2. RecordSound(stored, children)
    BY <1>1, FS_EmptySet, DispatchBound DEF RouterInit, RecordSound
  <1> QED
    BY <1>2 DEF RouterInit, RouterInv

LEMMA FinishInv ==
    ASSUME RouterInv, NEW r, RecordSound(r, children),
           NEW outcome \in {"succeeded", "failed"}, FinishParent(r, outcome),
           UNCHANGED <<children, sent>>
    PROVE  RouterInv' /\ stored'.rounds = r.rounds
  <1>1. RecordSound(Kept(r), children) /\ Kept(r).rounds = r.rounds
    BY KeptSound DEF RouterInv
  <1>2. PICK k : k = Kept(r)
    OBVIOUS
  <1>3. stored' = [k EXCEPT !.status = outcome] /\ run' = [pc |-> "down"]
    BY <1>2 DEF FinishParent
  <1>4. RecordSound(stored', children) /\ stored'.rounds = r.rounds
    BY <1>1, <1>2, <1>3, StatusSound
  <1> QED
    BY <1>3, <1>4 DEF RouterInv

LEMMA LoadInv ==
    ASSUME RouterInv, LoadParent
    PROVE  RouterInv'
  <1>1. RecordSound(stored, children) /\ stored \in Parent /\ stored.attempts \in 0..MaximumDispatches
    BY DEF RouterInv, RecordSound, Parent
  <1>2. Remaining(stored) \in 0..MaximumDispatches
        /\ stored.attempts + Remaining(stored) <= MaximumDispatches
    BY <1>1, DispatchBound DEF Remaining
  <1>3. CASE Remaining(stored) = 0
    <2>1. RecordSound([stored EXCEPT !.status = "failed"], children)
      BY <1>1, StatusSound
    <2>2. run = [pc |-> "down"]
      BY DEF LoadParent, RouterInv, RunSound, RunState
    <2>3. run' = run /\ RecordSound(stored', children)
      BY <1>3, <2>1 DEF LoadParent
    <2> QED
      BY <2>2, <2>3 DEF LoadParent, RouterInv
  <1>4. CASE Remaining(stored) # 0
    <2>1. PICK left \in 0..MaximumDispatches :
             left = Remaining(stored) /\ stored.attempts + left <= MaximumDispatches
      BY <1>2
    <2>2. PICK none : none = [c \in {} |-> "pending"]
      OBVIOUS
    <2>3. run' = [pc |-> "ready", record |-> stored, left |-> left, batch |-> {}, results |-> none]
      BY <1>4, <2>1, <2>2 DEF LoadParent
    <2>4. none \in [{} -> Result]
      BY <2>2
    <2>5. run' \in RunState
      BY <1>1, <2>3, <2>4 DEF RunState
    <2>6. RunSound(run', children)
      BY <1>1, <2>1, <2>3, <2>4, <2>5 DEF RunSound
    <2>7. Agrees(run', stored)
      BY <2>3 DEF Agrees
    <2> QED
      BY <1>4, <2>6, <2>7 DEF LoadParent, RouterInv
  <1> QED
    BY <1>3, <1>4

LEMMA DispatchModelInv ==
    ASSUME RouterInv, DispatchModel
    PROVE  RouterInv'
  <1>1. CASE run.left = 0
    BY <1>1 DEF DispatchModel, RouterInv
  <1>2. CASE run.left # 0
    <2>1. RunSound(run, children) /\ Agrees(run, stored) /\ run.pc = "ready"
      BY DEF DispatchModel, RouterInv
    <2>2. PICK r : r = run
      OBVIOUS
    <2>3. r \in RunState /\ r.left - 1 \in 0..MaximumDispatches /\ r.record \in Parent
      BY <1>2, <2>1, <2>2, DispatchBound DEF RunSound, RunState
    <2>4. PICK l \in 0..MaximumDispatches : l = r.left - 1
      BY <2>3
    <2>5. run' = [r EXCEPT !.pc = "await", !.left = l]
      BY <1>2, <2>2, <2>4 DEF DispatchModel
    <2>6. /\ run' \in RunState /\ run'.pc = "await" /\ run'.left = l
          /\ run'.record = r.record /\ run'.batch = r.batch /\ run'.results = r.results
      BY <2>3, <2>5 DEF RunState
    <2>7. RunSound(run', children)
      BY <2>1, <2>2, <2>3, <2>4, <2>6, DispatchBound DEF RunSound, RunState, Parent
    <2>8. Agrees(run', stored)
      BY <2>1, <2>2, <2>6 DEF Agrees
    <2>9. <<r.record.rounds, r.record.context>> \in (0..MaximumRounds) \X SUBSET Slot
      BY <2>3 DEF Parent
    <2>10. sent' \subseteq (0..MaximumRounds) \X SUBSET Slot
      BY <1>2, <2>2, <2>9 DEF DispatchModel, RouterInv
    <2> QED
      BY <2>7, <2>8, <2>10 DEF DispatchModel, RouterInv
  <1> QED
    BY <1>1, <1>2

(* While an answer is awaited, one more attempt still fits.                *)
LEMMA TriedFits ==
    ASSUME RouterInv, run.pc = "await"
    PROVE  /\ RunSound(run, children) /\ Agrees(run, stored)
           /\ run.record.attempts < MaximumDispatches
           /\ RecordSound(Tried(run.record), children)
           /\ Tried(run.record).attempts = run.record.attempts + 1
           /\ Tried(run.record).rounds = run.record.rounds
           /\ Tried(run.record).context = run.record.context
           /\ Tried(run.record).status = run.record.status
  <1>1. RunSound(run, children) /\ Agrees(run, stored)
    BY DEF RouterInv
  <1>2. run.record.attempts < MaximumDispatches /\ RecordSound(run.record, children)
    BY <1>1, DispatchBound DEF RunSound, RunState, Parent
  <1> QED
    BY <1>1, <1>2, TriedSound

LEMMA AnswerInv ==
    ASSUME RouterInv, Answer
    PROVE  RouterInv' /\ stored'.rounds = stored.rounds
  <1>1. /\ run.pc = "await" /\ RunSound(run, children) /\ Agrees(run, stored)
        /\ run.record.attempts < MaximumDispatches
    BY TriedFits DEF Answer
  <1>2. PICK t : t = Tried(run.record)
    OBVIOUS
  <1>3. /\ RecordSound(t, children) /\ t.attempts = run.record.attempts + 1
        /\ t.rounds = run.record.rounds /\ t.context = run.record.context
        /\ t.status = run.record.status
    BY <1>1, <1>2, TriedFits
  <1>4. CASE \E outcome \in {"succeeded", "failed"} : FinishParent(t, outcome)
    BY <1>1, <1>3, <1>4, FinishInv DEF Answer, Agrees
  <1>5. CASE /\ stored' = Kept(t)
             /\ run' = [run EXCEPT !.pc = "ready", !.record = t]
    <2>1. /\ RecordSound(stored', children) /\ stored'.attempts = t.attempts
          /\ stored'.rounds = t.rounds /\ stored'.status = t.status
      BY <1>3, <1>5, KeptSound DEF RouterInv
    <2>2. t \in Parent /\ run \in RunState
      BY <1>1, <1>3 DEF RecordSound, RunSound
    <2>3. /\ run' \in RunState /\ run'.pc = "ready" /\ run'.record = t
          /\ run'.left = run.left /\ run'.batch = run.batch /\ run'.results = run.results
      BY <1>5, <2>2 DEF RunState
    <2>4. RunSound(run', children)
      BY <1>1, <1>3, <2>2, <2>3, DispatchBound DEF RunSound, RunState, Parent
    <2>5. Agrees(run', stored')
      BY <2>1, <2>3 DEF Agrees
    <2> QED
      BY <1>1, <1>3, <2>1, <2>4, <2>5 DEF Answer, RouterInv, Agrees
  <1> QED
    BY <1>2, <1>4, <1>5 DEF Answer

LEMMA CallToolsInv ==
    ASSUME RouterInv, NEW batch \in SUBSET Call, CallTools(batch)
    PROVE  RouterInv' /\ stored'.rounds = stored.rounds
  <1>1. /\ run.pc = "await" /\ RunSound(run, children) /\ Agrees(run, stored)
        /\ run.record.attempts < MaximumDispatches
    BY TriedFits DEF CallTools
  <1>2. PICK t : t = Tried(run.record)
    OBVIOUS
  <1>3. /\ RecordSound(t, children) /\ t.attempts = run.record.attempts + 1
        /\ t.rounds = run.record.rounds /\ t.context = run.record.context
        /\ t.status = run.record.status
    BY <1>1, <1>2, TriedFits
  <1>4. CASE Refused(t.context, batch)
    <2>1. FinishParent(t, "failed") /\ UNCHANGED <<children, sent>>
      BY <1>2, <1>4 DEF CallTools
    <2> QED
      BY <1>1, <1>3, <2>1, FinishInv DEF Agrees
  <1>5. CASE ~Refused(t.context, batch)
    <2>1. PICK results : results = [c \in batch |-> "pending"]
      OBVIOUS
    <2>2. /\ stored' = Kept(t) /\ UNCHANGED <<children, sent>>
          /\ run' = [run EXCEPT !.pc = "children", !.record = t, !.batch = batch,
                                !.results = results]
      BY <1>2, <1>5, <2>1 DEF CallTools
    <2>3. /\ RecordSound(stored', children) /\ stored'.attempts = t.attempts
          /\ stored'.rounds = t.rounds /\ stored'.status = t.status
      BY <1>3, <2>2, KeptSound DEF RouterInv
    <2>4. t \in Parent /\ run \in RunState /\ results \in [batch -> Result]
          /\ \A c \in batch : results[c] = "pending"
      BY <1>1, <1>3, <2>1 DEF RecordSound, RunSound, Result
    <2>5. /\ run' \in RunState /\ run'.pc = "children" /\ run'.record = t
          /\ run'.left = run.left /\ run'.batch = batch /\ run'.results = results
      <3>1. results \in UNION {[b -> Result] : b \in SUBSET Call}
        BY <2>4
      <3> QED
        BY <2>2, <2>4, <3>1 DEF RunState
    <2>6. Cardinality(t.context) + Cardinality(batch) <= MaximumCalls
      <3>1. IsFiniteSet(t.context) /\ IsFiniteSet(batch)
        BY <2>4, SlotsFinite, RouterToolAssumption, FS_Subset DEF Parent
      <3>2. Cardinality(t.context) \in Nat /\ Cardinality(batch) \in Nat
        BY <3>1, FS_CardinalityType
      <3> QED
        BY <1>5, <3>2, DispatchBound DEF Refused
    <2>7. t.rounds + 1 <= t.attempts /\ t.attempts + run.left <= MaximumDispatches
      BY <1>1, <1>3, <2>4, DispatchBound DEF RunSound, RecordSound, RunState, Parent
    <2>8. RunSound(run', children)
      BY <1>3, <2>4, <2>5, <2>6, <2>7 DEF RunSound, RunState, Parent
    <2>9. Agrees(run', stored')
      BY <2>3, <2>5 DEF Agrees
    <2> QED
      BY <1>1, <1>3, <2>2, <2>3, <2>8, <2>9 DEF RouterInv, Agrees
  <1> QED
    BY <1>4, <1>5

LEMMA StartChildInv ==
    ASSUME RouterInv, NEW c \in run.batch, StartChild(c)
    PROVE  RouterInv'
  <1>1. RunSound(run, children) /\ Agrees(run, stored) /\ run.pc = "children"
    BY DEF StartChild, RouterInv
  <1>2. PICK s \in Slot : s = Child(c) /\ s = <<c, run.record.rounds + 1>>
    BY <1>1, ChildSlots DEF Child
  <1>3. PICK v \in Result : /\ run' = [run EXCEPT !.results[c] = v]
                            /\ v = "succeeded" => children[s] = "succeeded"
    BY <1>2 DEF StartChild, Result
  <1>4. \A q \in Slot : children[q] = "succeeded" => children'[q] = "succeeded"
    BY <1>2 DEF StartChild, RouterInv
  <1>5. children' \in [Slot -> {"none", "open", "succeeded", "failed"}]
    BY <1>2 DEF StartChild, RouterInv
  <1>6. RunSound(run, children') /\ RecordSound(stored, children')
    BY <1>1, <1>4, ChildrenMove DEF RouterInv
  <1>7. run.results \in [run.batch -> Result] /\ run.batch \in SUBSET Call /\ run \in RunState
    BY <1>1 DEF RunSound, RunState
  <1>8. PICK f : f = [run.results EXCEPT ![c] = v]
    OBVIOUS
  <1>9. run' = [run EXCEPT !.results = f]
    BY <1>3, <1>8
  <1>10. /\ f \in [run.batch -> Result]
         /\ \A d \in run.batch : f[d] = IF d = c THEN v ELSE run.results[d]
    BY <1>7, <1>8
  <1>11. /\ run' \in RunState /\ run'.pc = run.pc /\ run'.record = run.record
         /\ run'.left = run.left /\ run'.batch = run.batch /\ run'.results = f
    <2>1. f \in UNION {[b -> Result] : b \in SUBSET Call}
      BY <1>7, <1>10
    <2> QED
      BY <1>7, <1>9, <2>1 DEF RunState
  <1>12. \A d \in run.batch :
            f[d] = "succeeded" => children'[<<d, run.record.rounds + 1>>] = "succeeded"
    BY <1>1, <1>2, <1>3, <1>4, <1>6, <1>10 DEF RunSound
  <1>13. RunSound(run', children')
    BY <1>6, <1>10, <1>11, <1>12 DEF RunSound
  <1>14. Agrees(run', stored)
    BY <1>1, <1>11 DEF Agrees
  <1> QED
    BY <1>5, <1>6, <1>13, <1>14 DEF StartChild, RouterInv

LEMMA EndChildInv ==
    ASSUME RouterInv, NEW s \in Slot, EndChild(s)
    PROVE  RouterInv'
  <1>1. PICK end \in {"succeeded", "failed"} :
           /\ children[s] = "open" /\ children' = [children EXCEPT ![s] = end]
           /\ run' = IF /\ run.pc = "children"
                        /\ s[1] \in run.batch /\ s = Child(s[1])
                        /\ run.results[s[1]] = "running"
                     THEN [run EXCEPT !.results[s[1]] = end] ELSE run
           /\ UNCHANGED <<stored, sent>>
    BY DEF EndChild
  <1>2. /\ \A q \in Slot : children[q] = "succeeded" => children'[q] = "succeeded"
        /\ children'[s] = end
        /\ children' \in [Slot -> {"none", "open", "succeeded", "failed"}]
    BY <1>1 DEF RouterInv
  <1>3. RecordSound(stored, children')
    BY <1>2, ChildrenMove DEF RouterInv
  <1>4. CASE run' = run
    BY <1>1, <1>2, <1>3, <1>4, ChildrenMove DEF RouterInv, Agrees
  <1>5. CASE run' # run
    <2>1. PICK c \in run.batch : /\ c = s[1] /\ s = <<c, run.record.rounds + 1>>
                                 /\ run.pc = "children"
                                 /\ run' = [run EXCEPT !.results[c] = end]
      BY <1>1, <1>5 DEF Child
    <2>2. RunSound(run, children) /\ Agrees(run, stored) /\ RunSound(run, children')
      BY <1>2, <2>1, ChildrenMove DEF RouterInv
    <2>3. run.results \in [run.batch -> Result] /\ run.batch \in SUBSET Call /\ run \in RunState
      BY <2>2 DEF RunSound, RunState
    <2>4. PICK f : f = [run.results EXCEPT ![c] = end]
      OBVIOUS
    <2>5. run' = [run EXCEPT !.results = f]
      BY <2>1, <2>4
    <2>6. /\ f \in [run.batch -> Result]
          /\ \A d \in run.batch : f[d] = IF d = c THEN end ELSE run.results[d]
      BY <2>3, <2>4 DEF Result
    <2>7. /\ run' \in RunState /\ run'.pc = run.pc /\ run'.record = run.record
          /\ run'.left = run.left /\ run'.batch = run.batch /\ run'.results = f
      <3>1. f \in UNION {[b -> Result] : b \in SUBSET Call}
        BY <2>3, <2>6
      <3> QED
        BY <2>3, <2>5, <3>1 DEF RunState
    <2>8. \A d \in run.batch :
             f[d] = "succeeded" => children'[<<d, run.record.rounds + 1>>] = "succeeded"
      BY <1>2, <2>1, <2>2, <2>6 DEF RunSound
    <2>9. RunSound(run', children')
      BY <2>2, <2>6, <2>7, <2>8 DEF RunSound
    <2>10. Agrees(run', stored)
      BY <2>2, <2>7 DEF Agrees
    <2> QED
      BY <1>1, <1>2, <1>3, <2>9, <2>10 DEF RouterInv
  <1> QED
    BY <1>4, <1>5

(* A resumed parent has one round more, or it has failed.                  *)
LEMMA ResumeInv ==
    ASSUME RouterInv, Resume
    PROVE  RouterInv' /\ stored'.rounds \in {stored.rounds, stored.rounds + 1}
  <1>1. RunSound(run, children) /\ Agrees(run, stored) /\ run.pc = "children"
    BY DEF Resume, RouterInv
  <1>2. PICK r : r = run.record /\ RecordSound(r, children) /\ r \in Parent
    BY <1>1 DEF RunSound, RecordSound
  <1>3. CASE ~\A c \in run.batch : run.results[c] = "succeeded"
    <2>1. FinishParent(r, "failed") /\ UNCHANGED <<children, sent>>
      BY <1>2, <1>3 DEF Resume
    <2> QED
      BY <1>1, <1>2, <2>1, FinishInv DEF Agrees
  <1>4. CASE \A c \in run.batch : run.results[c] = "succeeded"
    <2>1. PICK added : added = {<<c, r.rounds + 1>> : c \in run.batch}
      OBVIOUS
    <2>2. added = {Child(c) : c \in run.batch}
      BY <1>2, <2>1 DEF Child
    <2>3. added \subseteq Slot
      BY <1>1, <2>2, ChildSlots
    <2>4. PICK next : next = [r EXCEPT !.rounds = r.rounds + 1, !.context = r.context \cup added]
      OBVIOUS
    <2>5. PICK empty : empty = [c \in {} |-> "pending"]
      OBVIOUS
    <2>6. /\ stored' = Kept(next) /\ UNCHANGED <<children, sent>>
          /\ run' = [run EXCEPT !.pc = "ready", !.record = next, !.batch = {}, !.results = empty]
      BY <1>2, <1>4, <2>2, <2>4, <2>5 DEF Resume
    <2>7. /\ r.rounds + 1 <= r.attempts /\ r.attempts \in 0..MaximumDispatches
          /\ r.rounds \in 0..MaximumRounds /\ r.context \in SUBSET Slot
          /\ run.batch \in SUBSET Call /\ run \in RunState /\ run.left \in 0..MaximumDispatches
          /\ r.attempts + run.left <= MaximumDispatches
          /\ Cardinality(r.context) + Cardinality(run.batch) <= MaximumCalls
      BY <1>1, <1>2, DispatchBound DEF RunSound, RunState, Parent
    <2>8. Cardinality(r.context \cup added) <= MaximumCalls
      <3>1. Cardinality(r.context \cup added) <= Cardinality(r.context) + Cardinality(run.batch)
        BY <2>1, <2>3, <2>7, RoundSize
      <3>2. IsFiniteSet(r.context) /\ IsFiniteSet(run.batch) /\ IsFiniteSet(r.context \cup added)
        <4>1. r.context \cup added \in SUBSET Slot
          BY <2>3, <2>7
        <4> QED
          BY <2>7, <4>1, SlotsFinite, RouterToolAssumption, FS_Subset
      <3>3. /\ Cardinality(r.context) \in Nat /\ Cardinality(run.batch) \in Nat
            /\ Cardinality(r.context \cup added) \in Nat
        BY <3>2, FS_CardinalityType
      <3> QED
        BY <2>7, <3>1, <3>3, DispatchBound
    <2>9. r.rounds + 1 \in 0..MaximumRounds
      BY <2>7, DispatchBound
    <2>10. /\ next \in Parent /\ next.rounds = r.rounds + 1 /\ next.attempts = r.attempts
           /\ next.status = r.status /\ next.context = r.context \cup added
      BY <1>2, <2>3, <2>4, <2>7, <2>9 DEF Parent
    <2>11. \A s \in added : children[s] = "succeeded"
      BY <1>1, <1>2, <1>4, <2>1 DEF RunSound
    <2>12. RecordSound(next, children)
      BY <1>2, <2>7, <2>8, <2>10, <2>11 DEF RecordSound
    <2>13. /\ RecordSound(stored', children) /\ stored'.attempts = next.attempts
           /\ stored'.rounds = next.rounds /\ stored'.status = next.status
      BY <2>6, <2>12, KeptSound DEF RouterInv
    <2>14. empty \in [{} -> Result] /\ empty \in UNION {[b -> Result] : b \in SUBSET Call}
      <3>1. empty \in [{} -> Result] /\ {} \in SUBSET Call
        BY <2>5
      <3> QED
        BY <3>1
    <2>15. /\ run' \in RunState /\ run'.pc = "ready" /\ run'.record = next
           /\ run'.left = run.left /\ run'.batch = {} /\ run'.results = empty
      BY <2>6, <2>7, <2>10, <2>14 DEF RunState
    <2>16. RunSound(run', children)
      BY <2>7, <2>10, <2>12, <2>14, <2>15 DEF RunSound
    <2>17. Agrees(run', stored')
      BY <2>13, <2>15 DEF Agrees
    <2> QED
      BY <1>1, <1>2, <2>6, <2>10, <2>13, <2>16, <2>17 DEF RouterInv, Agrees
  <1> QED
    BY <1>3, <1>4

LEMMA RouterStepInv == RouterInv /\ [RouterNext]_routerVars => RouterInv'
  <1> SUFFICES ASSUME RouterInv, [RouterNext]_routerVars PROVE RouterInv'
    OBVIOUS
  <1>1. CASE Interrupt
    BY <1>1 DEF Interrupt, RouterInv
  <1>2. CASE UNCHANGED routerVars
    BY <1>2 DEF routerVars, RouterInv
  <1> QED
    BY <1>1, <1>2, LoadInv, DispatchModelInv, AnswerInv, CallToolsInv, StartChildInv,
       EndChildInv, ResumeInv DEF RouterNext

(* The parent's record, its run and its children keep their types; no      *)
(* round is counted beyond the limit of dispatches.                        *)
THEOREM RouterTypes == RouterSpec => []RouterTypeOK
  <1>1. RouterInv => RouterTypeOK
    <2> SUFFICES ASSUME RouterInv PROVE RouterTypeOK
      OBVIOUS
    <2>1. CASE run = [pc |-> "down"]
      BY <2>1 DEF RouterInv, RecordSound, RouterTypeOK
    <2>2. CASE RunSound(run, children)
      BY <2>2 DEF RouterInv, RecordSound, RunSound, RunState, RouterTypeOK, Result
    <2> QED
      BY <2>1, <2>2 DEF RouterInv
  <1> QED
    BY <1>1, RouterInitInv, RouterStepInv, PTL DEF RouterSpec

(* Whatever the store keeps, results are those of children that succeeded, *)
(* and calls and dispatches stay within the parent's budgets, over all of  *)
(* its runs (router_tools.go and maximumSynchronousCycleAttempts).         *)
THEOREM BudgetsHold == RouterSpec => []ResultsWithinBudgets
  <1>1. RouterInv => ResultsWithinBudgets
    <2> SUFFICES ASSUME RouterInv PROVE ResultsWithinBudgets
      OBVIOUS
    <2>1. stored.attempts \in 0..MaximumDispatches
      BY DEF RouterInv, RecordSound, Parent
    <2>2. run.pc = "await" => stored.attempts + 1 <= MaximumDispatches
      BY DispatchBound, TriedFits, <2>1 DEF Agrees
    <2> QED
      BY <2>1, <2>2, DispatchBound
         DEF RouterInv, RecordSound, ResultsWithinBudgets, ResultsFromSucceededChildren,
             CallsWithinMaximum, DispatchesWithinLimit
  <1> QED
    BY <1>1, RouterInitInv, RouterStepInv, PTL DEF RouterSpec

=============================================================================
