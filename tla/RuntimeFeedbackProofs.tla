------------------------ MODULE RuntimeFeedbackProofs ------------------------
(***************************************************************************)
(* Proofs about the routing states of RuntimeFeedback, for any requests,   *)
(* states, paths and delays.  The one idea is CopiesCurrentOrOld: a copy   *)
(* of the state's own revision is the state, so a report the store accepts *)
(* is applied to what the state is, not to what it was.                    *)
(***************************************************************************)
EXTENDS RuntimeFeedback, SequenceTheorems, TLAPS

(* A path has states.                                                      *)
LEMMA PathsType ==
    /\ Credential = 1..Len(Paths) /\ Len(Paths) \in Nat \ {0}
    /\ \A c \in Credential : /\ Paths[c] \in Seq(Key)
                             /\ DOMAIN Paths[c] = 1..Len(Paths[c])
                             /\ Len(Paths[c]) \in Nat \ {0}
  BY FeedbackAssumption DEF Credential

(* The ladder of quota windows: no window is longer than the cap, and one  *)
(* failure climbs one rung.                                                *)
LEMMA Ladder ==
    ASSUME NEW level \in 0..MaxLevel
    PROVE  /\ Cooldown(level) \in Nat /\ Cooldown(level) <= QuotaCap
           /\ NextLevel(level) \in 0..MaxLevel
           /\ NextLevel(level) = level \/ NextLevel(level) = level + 1
  <1> DEFINE power == 2^level
  <1>1. power \in Nat
    BY PowersAreNumbers
  <1>2. /\ Cooldown(level) = IF level >= MaxLevel \/ power >= QuotaCap THEN QuotaCap ELSE power
        /\ NextLevel(level) = IF level >= MaxLevel \/ power >= QuotaCap THEN level ELSE level + 1
    BY Zenon DEF Cooldown, NextLevel, AtCap
  <1> HIDE DEF power
  <1> QED
    BY <1>1, <1>2, FeedbackAssumption DEF MaxLevel

Delays == Named \cup {Transient, QuotaCap}

(* What one outcome makes of a state: the next revision, with a window     *)
(* that is the state's own or a new one of bounded length.                 *)
Follows(new, state, now) ==
    /\ new \in Record
    /\ new.rev = state.rev + 1
    /\ new.status # "absent"
    /\ new.status # "cooling" => new.level = 0
    /\ new.status = "cooling" =>
          \/ state.status = "cooling" /\ new.until = state.until
          \/ \E d \in Delays : new.until <= now + d
    /\ new.level > state.level =>
          /\ new.level = state.level + 1
          /\ state.status = "cooling" => state.until <= now

(* Every outcome makes such a state of any state.                          *)
LEMMA AfterFollows ==
    ASSUME NEW state \in Record, NEW o \in Outcome, NEW now \in Nat
    PROVE  Follows(After(state, o, now), state, now)
  <1>0. /\ state.level \in 0..MaxLevel /\ MaxLevel \in Nat
        /\ state.until \in Nat /\ state.rev \in Nat
        /\ Delays \subseteq Nat /\ Transient \in Delays /\ QuotaCap \in Delays
        /\ o.named \in Named \cup {0}
    BY FeedbackAssumption DEF MaxLevel, Record, Outcome, Success, Failure, Delays
  <1>1. CASE o.kind = "success"
    <2>1. After(state, o, now) = Cleared(state)
      BY <1>1 DEF After
    <2> QED
      BY <2>1, <1>0 DEF Cleared, Follows, Record
  <1>2. ASSUME NEW delay \in Delays
        PROVE  Follows(Cooled(state, now + delay, state.level), state, now)
    BY <1>0 DEF Follows, Record, Cooled
  <1>3. CASE o.kind # "success" /\ o.named # 0
    BY <1>0, <1>2, <1>3 DEF After, Delays
  <1>4. CASE o.kind = "transient" /\ o.named = 0
    BY <1>0, <1>2, <1>4 DEF After
  <1>5. CASE o.kind = "quota" /\ o.named = 0
    <2> DEFINE window == Window(state, now)
    <2>1. After(state, o, now) = Cooled(state, window.until, window.level)
      BY <1>5 DEF After
    <2>2. CASE state.status = "cooling" /\ state.until > now
      <3>1. window.until = state.until /\ window.level = state.level
        BY <2>2 DEF Window
      <3> HIDE DEF window
      <3> QED
        BY <2>1, <2>2, <3>1, <1>0 DEF Follows, Record, Cooled
    <2>3. CASE ~(state.status = "cooling" /\ state.until > now)
      <3>1. window.until = now + Cooldown(state.level) /\ window.level = NextLevel(state.level)
        BY <2>3 DEF Window
      <3>2. Cooldown(state.level) \in Nat /\ Cooldown(state.level) <= QuotaCap
        BY <1>0, Ladder
      <3>3. /\ NextLevel(state.level) \in 0..MaxLevel
            /\ NextLevel(state.level) = state.level \/ NextLevel(state.level) = state.level + 1
        BY <1>0, Ladder
      <3>4. window.until \in Nat /\ \E d \in Delays : window.until <= now + d
        BY <3>1, <3>2, <1>0, FeedbackAssumption
      <3>5. /\ window.level \in 0..MaxLevel
            /\ window.level = state.level \/ window.level = state.level + 1
        BY <3>1, <3>3
      <3> HIDE DEF window
      <3> QED
        BY <2>1, <2>3, <3>4, <3>5, <1>0 DEF Follows, Record, Cooled
    <2> QED
      BY <2>2, <2>3
  <1> QED
    BY <1>1, <1>3, <1>4, <1>5 DEF Outcome, Success, Failure
-----------------------------------------------------------------------------
(* Type correctness.                                                       *)

(* A request that does nothing is a well-formed one.                       *)
LEMMA IdleType == Idle \in RequestState
  BY DEF Idle, RequestState, Record, Absent, MaxLevel, Outcome, Success, Credential

(* One request moves and the clock does not: only its own state counts.    *)
LEMMA BecomesOK ==
    ASSUME TypeOK, NEW r \in Request, NEW state, RequestOK(state), Becomes(r, state),
           clock' = clock
    PROVE  /\ request' \in [Request -> RequestState]
           /\ \A q \in Request : RequestOK(request[q])'
  BY DEF TypeOK, Becomes, RequestOK

(* A sequence of more than one element has a rest.                         *)
LEMMA TailType ==
    ASSUME NEW S, NEW s \in Seq(S), s # <<>>, Len(s) # 1
    PROVE  Tail(s) \in Seq(S) /\ Tail(s) # <<>>
  <1>1. Len(s) \in Nat \ {0} /\ Len(<<>>) = 0
    BY EmptySeq
  <1>2. Tail(s) \in Seq(S) /\ Len(Tail(s)) = Len(s) - 1
    BY HeadTailProperties
  <1>3. Len(Tail(s)) # Len(<<>>)
    BY <1>1, <1>2
  <1> QED
    BY <1>2, <1>3

(* The states a request takes on, one lemma per action: first, none.       *)
LEMMA IdleOK ==
    ASSUME clock \in Nat
    PROVE  RequestOK(Idle)
  BY IdleType DEF RequestOK, Idle

(* A request begins to look with the first state of the first path.        *)
LEMMA ResolveOK ==
    ASSUME clock \in Nat, NEW since \in [Key -> Nat]
    PROVE  RequestOK([Idle EXCEPT !.pc = "resolve", !.now = clock, !.since = since])
  <1> DEFINE next == [Idle EXCEPT !.pc = "resolve", !.now = clock, !.since = since]
  <1>1. next \in RequestState
    BY IdleType DEF RequestState
  <1>2. /\ next.pc = "resolve" /\ next.now = clock /\ next.cred = 1 /\ next.step = 1
    BY DEF Idle
  <1>3. 1 \in Credential /\ 1 \in DOMAIN Paths[1]
    BY PathsType
  <1> QED
    BY <1>1, <1>2, <1>3 DEF RequestOK

(* It goes on to another state, another path, or to the choice.            *)
LEMMA LookOK ==
    ASSUME NEW me, RequestOK(me), me.pc = "resolve",
           NEW cred \in Credential, NEW step \in DOMAIN Paths[cred],
           NEW found \in SUBSET Credential
    PROVE  /\ RequestOK([me EXCEPT !.step = step]) \/ cred # me.cred
           /\ RequestOK([me EXCEPT !.cred = cred, !.step = step, !.found = found])
           /\ RequestOK([me EXCEPT !.pc = "pick", !.found = found])
  <1>1. cred \in Nat /\ step \in Nat
    BY PathsType
  <1> QED
    BY <1>1 DEF RequestOK, RequestState

(* It is sent with one of the credentials.                                 *)
LEMMA SendOK ==
    ASSUME clock \in Nat, NEW c \in Credential
    PROVE  RequestOK([Idle EXCEPT !.pc = "sent", !.cred = c])
  <1> DEFINE next == [Idle EXCEPT !.pc = "sent", !.cred = c]
  <1>1. c \in Nat
    BY PathsType
  <1>2. next \in RequestState
    BY <1>1, IdleType DEF RequestState
  <1>3. next.pc = "sent" /\ next.now = 0 /\ next.cred = c
    BY DEF Idle
  <1> QED
    BY <1>2, <1>3 DEF RequestOK

(* It comes back with the states its outcome is reported to.               *)
LEMMA ReturnOK ==
    ASSUME clock \in Nat, NEW o \in Outcome, NEW todo \in Seq(Key), todo # <<>>
    PROVE  RequestOK([Idle EXCEPT !.pc = "read", !.now = clock, !.outcome = o,
                                  !.todo = todo])
  <1> DEFINE next == [Idle EXCEPT !.pc = "read", !.now = clock, !.outcome = o, !.todo = todo]
  <1>1. next \in RequestState
    BY IdleType DEF RequestState
  <1>2. next.pc = "read" /\ next.now = clock /\ next.todo = todo
    BY DEF Idle
  <1> QED
    BY <1>1, <1>2 DEF RequestOK

(* A report holds the state it read.                                       *)
LEMMA ReadOK ==
    ASSUME NEW me, RequestOK(me), me.pc = "read", NEW copy \in Record
    PROVE  RequestOK([me EXCEPT !.pc = "save", !.copy = copy])
  BY DEF RequestOK, RequestState

(* A report goes on to its next state.                                     *)
LEMMA NextTargetOK ==
    ASSUME NEW me, RequestOK(me), me.pc \in {"read", "save"}, Len(me.todo) # 1
    PROVE  RequestOK([me EXCEPT !.pc = "read", !.todo = Tail(@)])
  <1>1. me.todo \in Seq(Key) /\ me.todo # <<>>
    BY DEF RequestOK, RequestState
  <1>2. Tail(me.todo) \in Seq(Key) /\ Tail(me.todo) # <<>>
    BY <1>1, TailType
  <1> DEFINE rest == Tail(me.todo)
  <1> HIDE DEF rest
  <1>3. RequestOK([me EXCEPT !.pc = "read", !.todo = rest])
    BY <1>2 DEF RequestOK, RequestState, rest
  <1> QED
    BY <1>3 DEF rest

(* The rest of a report's states, after one of them.                       *)
LEMMA DoneOK ==
    ASSUME TypeOK, NEW r \in Request, request[r].pc \in {"read", "save"}, Done(r),
           clock' = clock
    PROVE  /\ request' \in [Request -> RequestState]
           /\ \A q \in Request : RequestOK(request[q])'
  <1>1. clock \in Nat /\ RequestOK(request[r])
    BY FeedbackAssumption DEF TypeOK
  <1>2. CASE Len(request[r].todo) = 1
    BY <1>1, <1>2, IdleOK, BecomesOK DEF Done
  <1>3. CASE Len(request[r].todo) # 1
    BY <1>1, <1>3, NextTargetOK, BecomesOK DEF Done
  <1> QED
    BY <1>2, <1>3

(* The state a report is about, and the state it makes of it.              *)
LEMMA TargetType ==
    ASSUME TypeOK, NEW r \in Request, request[r].pc \in {"read", "save"}
    PROVE  Target(r) \in Key
  BY DEF TypeOK, RequestOK, RequestState, Target

Written(r) == After(request[r].copy, request[r].outcome, request[r].now)

(* What a report writes follows the copy it holds.                         *)
LEMMA WrittenFollows ==
    ASSUME TypeOK, NEW r \in Request
    PROVE  /\ Follows(Written(r), request[r].copy, request[r].now)
           /\ request[r].copy \in Record /\ request[r].outcome \in Outcome
           /\ request[r].now \in 0..clock
  <1>1. /\ request[r].copy \in Record /\ request[r].outcome \in Outcome
        /\ request[r].now \in Nat /\ request[r].now <= clock /\ clock \in Nat
    BY FeedbackAssumption DEF TypeOK, RequestOK, RequestState
  <1> QED
    BY <1>1, AfterFollows DEF Written

(* Every step of a request leaves requests and states well formed.         *)
LEMMA StepTypeOK ==
    ASSUME TypeOK, NEW r \in Request, Step(r)
    PROVE  TypeOK'
  <1>0. RequestOK(request[r]) /\ clock \in Nat /\ record \in [Key -> Record]
    BY FeedbackAssumption DEF TypeOK
  <1>1. CASE Resolve(r)
    <2>1. [k \in Key |-> record[k].rev] \in [Key -> Nat]
      BY <1>0 DEF Record
    <2> QED
      BY <1>0, <1>1, <2>1, ResolveOK, BecomesOK DEF Resolve, TypeOK
  <1>2. CASE Inspect(r)
    <2> DEFINE me == request[r]
               path == Paths[me.cred]
               cooling == ~EligibleAt(record[path[me.step]], me.now)
               passed == ~cooling /\ me.step = Len(path)
               found == IF passed THEN me.found \cup {me.cred} ELSE me.found
    <2>1. /\ me.pc = "resolve" /\ me.cred \in Credential /\ me.step \in 1..Len(path)
          /\ Len(path) \in Nat \ {0} /\ found \in SUBSET Credential
          /\ DOMAIN path = 1..Len(path)
      BY <1>0, <1>2, PathsType DEF Inspect, At, RequestOK, RequestState
    <2>2. \E state : RequestOK(state) /\ Becomes(r, state)
      <3>1. CASE ~cooling /\ ~passed
        <4>1. Becomes(r, [me EXCEPT !.step = me.step + 1])
          BY <1>2, <3>1 DEF Inspect
        <4>2. me.step + 1 \in DOMAIN path
          BY <2>1, <3>1
        <4> QED
          BY <1>0, <2>1, <4>1, <4>2, LookOK
      <3>2. CASE ~(~cooling /\ ~passed) /\ me.cred < Len(Paths)
        <4>1. Becomes(r, [me EXCEPT !.cred = me.cred + 1, !.step = 1, !.found = found])
          BY <1>2, <3>2 DEF Inspect
        <4>2. me.cred + 1 \in Credential
          BY <2>1, <3>2, PathsType
        <4>3. 1 \in DOMAIN Paths[me.cred + 1]
          BY <4>2, PathsType
        <4> HIDE DEF found
        <4> QED
          BY <1>0, <2>1, <4>1, <4>2, <4>3, LookOK
      <3>3. CASE ~(~cooling /\ ~passed) /\ ~(me.cred < Len(Paths))
        <4>1. Becomes(r, [me EXCEPT !.pc = "pick", !.found = found])
          BY <1>2, <3>3 DEF Inspect
        <4> HIDE DEF found
        <4> QED
          BY <1>0, <2>1, <4>1, LookOK
      <3> QED
        BY <3>1, <3>2, <3>3
    <2> QED
      BY <1>2, <2>2, BecomesOK DEF Inspect, TypeOK
  <1>3. CASE Send(r)
    <2>1. request[r].found \subseteq Credential
      BY <1>0 DEF RequestOK, RequestState
    <2>2. \E state : RequestOK(state) /\ Becomes(r, state)
      BY <1>0, <1>3, <2>1, IdleOK, SendOK DEF Send
    <2> QED
      BY <1>3, <2>2, BecomesOK DEF Send, TypeOK
  <1>4. CASE Returns(r)
    <2> DEFINE cred == request[r].cred
    <2>9. reports \in 0..MaxReports /\ MaxReports \in Nat /\ reports < MaxReports
      BY <1>4, FeedbackAssumption DEF Returns, TypeOK
    <2>0. reports + 1 \in 0..MaxReports
      BY <2>9
    <2>1. cred \in Credential
      BY <1>0, <1>4 DEF Returns, At, RequestOK
    <2>2. /\ Proven[cred] \in Seq(Key) /\ Paths[cred] \in Seq(Key)
      BY <2>1, PathsType, FeedbackAssumption
    <2>3. \E state : RequestOK(state) /\ Becomes(r, state)
      <3>1. CASE /\ Proven[cred] # <<>>
                 /\ Becomes(r, [Idle EXCEPT !.pc = "read", !.now = clock,
                                            !.outcome = Success, !.todo = Proven[cred]])
        <4>1. Success \in Outcome
          BY DEF Outcome
        <4> QED
          BY <1>0, <2>2, <3>1, <4>1, ReturnOK
      <3>2. ASSUME NEW o \in Failure, NEW i \in DOMAIN Paths[cred],
                   Becomes(r, [Idle EXCEPT !.pc = "read", !.now = clock, !.outcome = o,
                                           !.todo = <<Paths[cred][i]>>])
            PROVE  \E state : RequestOK(state) /\ Becomes(r, state)
        <4>1. o \in Outcome
          BY DEF Outcome
        <4>2. <<Paths[cred][i]>> \in Seq(Key) /\ <<Paths[cred][i]>> # <<>>
          BY <2>2
        <4> QED
          BY <1>0, <3>2, <4>1, <4>2, ReturnOK
      <3> QED
        BY <1>4, <3>1, <3>2 DEF Returns
    <2> QED
      BY <1>4, <2>0, <2>3, BecomesOK DEF Returns, TypeOK
  <1>5. CASE Unrecorded(r)
    BY <1>0, <1>5, IdleOK, BecomesOK DEF Unrecorded, TypeOK
  <1>6. CASE ReadRecord(r)
    <2>1. record[Target(r)] \in Record /\ request[r].pc = "read"
      BY <1>0, <1>6, TargetType DEF ReadRecord, At
    <2>2. /\ request' \in [Request -> RequestState]
          /\ \A q \in Request : RequestOK(request[q])'
      BY <1>0, <1>6, <2>1, ReadOK, BecomesOK, DoneOK DEF ReadRecord
    <2> QED
      BY <1>6, <2>2 DEF ReadRecord, TypeOK
  <1>7. CASE SaveRecord(r)
    <2>1. /\ request' \in [Request -> RequestState]
          /\ \A q \in Request : RequestOK(request[q])'
      BY <1>7, DoneOK DEF SaveRecord, At
    <2>2. StateOK(Written(r))
      BY WrittenFollows DEF Follows, StateOK, Record
    <2>3. \/ record' = record
          \/ record' = [record EXCEPT ![Target(r)] = Written(r)]
      BY <1>7 DEF SaveRecord, Written
    <2>4. record' \in [Key -> Record] /\ \A k \in Key : StateOK(record[k])'
      BY <2>2, <2>3 DEF TypeOK, StateOK
    <2> QED
      BY <1>7, <2>1, <2>4 DEF SaveRecord, TypeOK
  <1>8. CASE StoreFails(r)
    BY <1>8, DoneOK DEF StoreFails, TypeOK
  <1> QED
    BY <1>1, <1>2, <1>3, <1>4, <1>5, <1>6, <1>7, <1>8 DEF Step

(* Time only makes what was not in the future be in the past.              *)
LEMMA TickTypeOK ==
    ASSUME TypeOK, Tick
    PROVE  TypeOK'
  <1>1. /\ clock \in Nat /\ clock' = clock + 1 /\ clock' \in 0..Horizon
        /\ UNCHANGED <<record, request, reports>>
    BY FeedbackAssumption DEF TypeOK, Tick
  <1>2. ASSUME NEW r \in Request
        PROVE  RequestOK(request[r])'
    <2>1. RequestOK(request[r]) /\ request[r].now \in Nat
      BY DEF TypeOK, RequestOK, RequestState
    <2> QED
      BY <1>1, <2>1 DEF RequestOK
  <1> QED
    BY <1>1, <1>2 DEF TypeOK, StateOK

(* Type correctness, for any requests, states, paths and delays.           *)
THEOREM FeedbackTypeOK == Spec => []TypeOK
  <1>1. Init => TypeOK
    <2> SUFFICES ASSUME Init PROVE TypeOK
      OBVIOUS
    <2>1. clock = 0 /\ clock \in 0..Horizon /\ reports \in 0..MaxReports
      BY FeedbackAssumption DEF Init
    <2>2. StateOK(Absent)
      BY DEF StateOK, Absent, Record, MaxLevel
    <2>3. record \in [Key -> Record] /\ \A k \in Key : StateOK(record[k])
      BY <2>2 DEF Init, StateOK
    <2>4. request \in [Request -> RequestState] /\ \A r \in Request : RequestOK(request[r])
      BY <2>1, IdleType, IdleOK DEF Init
    <2> QED
      BY <2>1, <2>3, <2>4 DEF TypeOK
  <1>2. TypeOK /\ [Next]_vars => TypeOK'
    <2> SUFFICES ASSUME TypeOK, [Next]_vars PROVE TypeOK'
      OBVIOUS
    <2>1. CASE Next
      BY <2>1, StepTypeOK, TickTypeOK DEF Next
    <2>2. CASE UNCHANGED vars
      BY <2>2 DEF vars, TypeOK, RequestOK, StateOK
    <2> QED
      BY <2>1, <2>2
  <1> QED
    BY <1>1, <1>2, PTL DEF Spec

-----------------------------------------------------------------------------
(* What the routing states promise.                                        *)

(* A copy that is about to be saved is the state of its revision: if the   *)
(* state has not moved, it is the state.                                   *)
CopiesCurrentOrOld ==
    \A r \in Request : At(r, "save") =>
        LET copy == request[r].copy
            state == record[Target(r)]
        IN  copy.rev <= state.rev /\ (copy.rev = state.rev => copy = state)

(* A step on one state: nothing, or one outcome applied to the state.      *)
Reported(k) ==
    \/ record'[k] = record[k]
    \/ \E r \in Request :
          /\ record'[k] = After(record[k], request[r].outcome, request[r].now)
          /\ request[r].outcome \in Outcome /\ request[r].now \in 0..clock

(* A state only changes by one whole outcome: a save the store accepts is  *)
(* of a copy that is the state itself.                                     *)
LEMMA StepReports ==
    ASSUME TypeOK, CopiesCurrentOrOld, [Next]_vars, NEW k \in Key
    PROVE  Reported(k)
  <1>1. CASE \E r \in Request : SaveRecord(r)
    <2> PICK r \in Request : SaveRecord(r)
      BY <1>1
    <2>1. /\ At(r, "save") /\ Target(r) \in Key
          /\ request[r].copy \in Record /\ record[Target(r)] \in Record
          /\ request[r].outcome \in Outcome /\ request[r].now \in 0..clock
      BY TargetType, WrittenFollows DEF SaveRecord, At, TypeOK
    <2>2. CASE Accepts(record[Target(r)], Written(r))
      <3>1. record' = [record EXCEPT ![Target(r)] = Written(r)]
        BY <2>2 DEF SaveRecord, Written
      <3>2. Written(r).rev = request[r].copy.rev + 1
        BY WrittenFollows DEF Follows
      <3>3. request[r].copy = record[Target(r)]
        BY <2>1, <2>2, <3>2 DEF CopiesCurrentOrOld, Accepts, Record
      <3> QED
        BY <2>1, <3>1, <3>3 DEF Reported, Written, TypeOK
    <2>3. CASE ~Accepts(record[Target(r)], Written(r))
      BY <2>3 DEF SaveRecord, Written, Reported
    <2> QED
      BY <2>2, <2>3
  <1>2. CASE ~\E r \in Request : SaveRecord(r)
    <2>1. record' = record
      BY <1>2 DEF Next, Step, Resolve, Inspect, Send, Returns, Unrecorded, ReadRecord,
                  StoreFails, Tick, vars
    <2> QED
      BY <2>1 DEF Reported
  <1> QED
    BY <1>1, <1>2

(* A state only moves up, and whoever holds it as a copy is behind then.   *)
LEMMA RevisionsRise ==
    ASSUME TypeOK, CopiesCurrentOrOld, [Next]_vars, NEW k \in Key
    PROVE  record'[k] = record[k] \/ record'[k].rev = record[k].rev + 1
  <1>1. ASSUME NEW r \in Request,
               record'[k] = After(record[k], request[r].outcome, request[r].now),
               request[r].outcome \in Outcome, request[r].now \in 0..clock
        PROVE  record'[k].rev = record[k].rev + 1
    <2>1. record[k] \in Record /\ request[r].now \in Nat
      BY <1>1, FeedbackAssumption DEF TypeOK
    <2> QED
      BY <1>1, <2>1, AfterFollows DEF Follows
  <1> QED
    BY <1>1, StepReports DEF Reported

(* After a report on one state, a request holds no copy that it will save. *)
LEMMA DoneState ==
    ASSUME TypeOK, NEW r \in Request, Done(r)
    PROVE  \E state : Becomes(r, state) /\ state.pc # "save"
  <1>1. request[r] \in RequestState
    BY DEF TypeOK
  <1>2. Idle.pc = "idle"
    BY DEF Idle
  <1>3. [request[r] EXCEPT !.pc = "read", !.todo = Tail(@)].pc = "read"
    BY <1>1 DEF RequestState
  <1> QED
    BY <1>2, <1>3 DEF Done

(* No step but the reading of a state leads to a save.                     *)
LEMMA OtherState ==
    ASSUME TypeOK, NEW r \in Request, Step(r), ~ReadRecord(r)
    PROVE  \E state : Becomes(r, state) /\ state.pc # "save"
  <1> DEFINE me == request[r]
  <1>0. me \in RequestState /\ Idle.pc = "idle"
    BY DEF TypeOK, Idle
  <1>1. CASE Resolve(r)
    <2> DEFINE next == [Idle EXCEPT !.pc = "resolve", !.now = clock,
                                    !.since = [k \in Key |-> record[k].rev]]
    <2>1. Becomes(r, next)
      BY <1>1 DEF Resolve
    <2>2. next.pc = "resolve"
      BY DEF Idle
    <2> QED
      BY <2>1, <2>2
  <1>2. CASE Inspect(r)
    <2> DEFINE path == Paths[me.cred]
               cooling == ~EligibleAt(record[path[me.step]], me.now)
               passed == ~cooling /\ me.step = Len(path)
               found == IF passed THEN me.found \cup {me.cred} ELSE me.found
               later == [me EXCEPT !.step = @ + 1]
               next == [me EXCEPT !.cred = @ + 1, !.step = 1, !.found = found]
               last == [me EXCEPT !.pc = "pick", !.found = found]
    <2>1. me.pc = "resolve"
      BY <1>2 DEF Inspect, At
    <2>2. later.pc # "save" /\ next.pc # "save" /\ last.pc # "save"
      <3> HIDE DEF me, found
      <3> QED
        BY <1>0, <2>1 DEF RequestState
    <2>3. Becomes(r, later) \/ Becomes(r, next) \/ Becomes(r, last)
      BY <1>2, Zenon DEF Inspect
    <2> HIDE DEF later, next, last
    <2> QED
      BY <2>2, <2>3
  <1>3. CASE Send(r)
    <2>1. \A c : [Idle EXCEPT !.pc = "sent", !.cred = c].pc = "sent"
      BY DEF Idle
    <2>2. \/ Becomes(r, Idle)
          \/ \E c : Becomes(r, [Idle EXCEPT !.pc = "sent", !.cred = c])
      BY <1>3 DEF Send
    <2> QED
      BY <1>0, <2>1, <2>2
  <1>4. CASE Returns(r)
    <2>1. \A o, todo : [Idle EXCEPT !.pc = "read", !.now = clock, !.outcome = o,
                                    !.todo = todo].pc = "read"
      BY DEF Idle
    <2>2. \E o, todo : Becomes(r, [Idle EXCEPT !.pc = "read", !.now = clock,
                                              !.outcome = o, !.todo = todo])
      BY <1>4 DEF Returns
    <2> QED
      BY <2>1, <2>2
  <1>5. CASE Unrecorded(r)
    BY <1>0, <1>5 DEF Unrecorded
  <1>6. CASE SaveRecord(r) \/ StoreFails(r)
    BY <1>6, DoneState DEF SaveRecord, StoreFails
  <1> QED
    BY <1>1, <1>2, <1>3, <1>4, <1>5, <1>6 DEF Step

(* Copies stay current or old: the reader's is current, and no other step  *)
(* moves a state back or makes a copy.                                     *)
LEMMA CopiesInductive ==
    ASSUME TypeOK, TypeOK', CopiesCurrentOrOld, [Next]_vars
    PROVE  CopiesCurrentOrOld'
  <1> SUFFICES ASSUME NEW r \in Request, request'[r].pc = "save"
               PROVE  LET copy == request'[r].copy
                          state == record'[Head(request'[r].todo)]
                      IN  copy.rev <= state.rev /\ (copy.rev = state.rev => copy = state)
    BY DEF CopiesCurrentOrOld, At, Target
  <1>1. request'[r] = request[r] \/ ReadRecord(r)
    <2>1. ASSUME NEW q \in Request, Step(q), ~ReadRecord(q)
          PROVE  request'[r] = request[r]
      <3>1. \E state : Becomes(q, state) /\ state.pc # "save"
        BY <2>1, OtherState
      <3> QED
        BY <3>1 DEF Becomes, TypeOK
    <2>2. ASSUME NEW q \in Request, ReadRecord(q), q # r
          PROVE  request'[r] = request[r]
      BY <2>2 DEF ReadRecord, Done, Becomes, TypeOK
    <2> QED
      BY <2>1, <2>2 DEF Next, Tick, vars
  <1>2. CASE ReadRecord(r)
    <2>1. record' = record /\ request[r].pc = "read"
      BY <1>2 DEF ReadRecord, At
    <2>2. Becomes(r, [request[r] EXCEPT !.pc = "save", !.copy = record[Target(r)]])
      <3>1. ASSUME Done(r) PROVE FALSE
        <4>1. \E state : Becomes(r, state) /\ state.pc # "save"
          BY <3>1, DoneState
        <4> QED
          BY <4>1 DEF Becomes, TypeOK
      <3> QED
        BY <1>2, <3>1 DEF ReadRecord
    <2>3. /\ request'[r].copy = record[Target(r)]
          /\ request'[r].todo = request[r].todo
      BY <2>2 DEF Becomes, TypeOK, RequestState
    <2>4. record[Target(r)].rev \in Nat
      BY <2>1, TargetType DEF TypeOK, Record
    <2> QED
      BY <2>1, <2>3, <2>4 DEF Target
  <1>3. CASE request'[r] = request[r]
    <2> DEFINE copy == request[r].copy
               k == Target(r)
    <2>1. k \in Key /\ copy.rev <= record[k].rev /\ (copy.rev = record[k].rev => copy = record[k])
      BY <1>3, TargetType DEF CopiesCurrentOrOld, At
    <2>2. copy.rev \in Nat /\ record[k].rev \in Nat
      BY <2>1 DEF TypeOK, RequestState, Record
    <2>3. record'[k] = record[k] \/ record'[k].rev = record[k].rev + 1
      BY <2>1, RevisionsRise
    <2> HIDE DEF copy, k
    <2>4. copy.rev <= record'[k].rev /\ (copy.rev = record'[k].rev => copy = record'[k])
      BY <2>1, <2>2, <2>3
    <2> QED
      BY <1>3, <2>4 DEF copy, k, Target
  <1> QED
    BY <1>1, <1>2, <1>3

(* In every behaviour, a report that is about to be saved holds the state  *)
(* of its revision, however many requests read and save the same state.    *)
THEOREM FeedbackCopies == Spec => []CopiesCurrentOrOld
  <1>1. Init => CopiesCurrentOrOld
    BY DEF Init, CopiesCurrentOrOld, At, Idle
  <1>2. TypeOK /\ TypeOK' /\ CopiesCurrentOrOld /\ [Next]_vars => CopiesCurrentOrOld'
    BY CopiesInductive
  <1> QED
    BY <1>1, <1>2, FeedbackTypeOK, PTL DEF Spec

(* Reports of several requests on one state never mix: a state changes by  *)
(* one whole outcome, applied to what the state was at that moment.        *)
THEOREM FeedbackWholeOutcomes == Spec => WholeOutcomes
  <1>1. TypeOK /\ CopiesCurrentOrOld /\ [Next]_vars =>
           [\A k \in Key : record'[k] # record[k] =>
               \E o \in Outcome, now \in 0..clock : record'[k] = After(record[k], o, now)]_vars
    BY StepReports DEF Reported
  <1> QED
    BY <1>1, FeedbackTypeOK, FeedbackCopies, PTL DEF Spec, WholeOutcomes

(* However many requests exhaust the quota, the ladder of windows is       *)
(* climbed one rung at a time, and only when the last window is over.      *)
THEOREM FeedbackOneEscalation == Spec => OneEscalationPerWindow
  <1>1. TypeOK /\ CopiesCurrentOrOld /\ [Next]_vars =>
           [\A k \in Key : record'[k].level > record[k].level =>
               /\ record'[k].level = record[k].level + 1
               /\ record[k].status = "cooling" => record[k].until <= clock]_vars
    <2> SUFFICES ASSUME TypeOK, CopiesCurrentOrOld, [Next]_vars, NEW k \in Key,
                        record'[k].level > record[k].level
                 PROVE  /\ record'[k].level = record[k].level + 1
                        /\ record[k].status = "cooling" => record[k].until <= clock
      OBVIOUS
    <2>0. record[k] \in Record
      BY DEF TypeOK
    <2>1. record[k].level \in Nat /\ record[k].until \in Nat
      BY <2>0 DEF Record, MaxLevel
    <2>2. record'[k] # record[k]
      BY <2>1
    <2>3. PICK r \in Request :
             /\ record'[k] = After(record[k], request[r].outcome, request[r].now)
             /\ request[r].outcome \in Outcome /\ request[r].now \in 0..clock
      BY <2>2, StepReports DEF Reported
    <2>4. clock \in Nat /\ request[r].now \in Nat /\ request[r].now <= clock
      <3>1. clock \in Nat
        BY FeedbackAssumption DEF TypeOK
      <3> QED
        BY <2>3, <3>1
    <2>5. Follows(record'[k], record[k], request[r].now)
      BY <2>0, <2>3, <2>4, AfterFollows
    <2> QED
      BY <2>1, <2>4, <2>5 DEF Follows
  <1> QED
    BY <1>1, FeedbackTypeOK, FeedbackCopies, PTL DEF Spec, OneEscalationPerWindow

(* No outcome keeps a credential out for longer than the longest single    *)
(* delay, however many failures of however many requests come together.    *)
THEOREM FeedbackCoolingBounded == Spec => []CoolingBounded
  <1>1. Init => CoolingBounded
    BY DEF Init, CoolingBounded, Absent
  <1>2. TypeOK /\ TypeOK' /\ CopiesCurrentOrOld /\ CoolingBounded /\ [Next]_vars
           => CoolingBounded'
    <2> SUFFICES ASSUME TypeOK, TypeOK', CopiesCurrentOrOld, CoolingBounded, [Next]_vars,
                        NEW k \in Key, record'[k].status = "cooling"
                 PROVE  \E d \in Delays : record'[k].until <= clock' + d
      BY DEF CoolingBounded, Delays
    <2>1. /\ clock \in Nat /\ clock' \in Nat /\ clock <= clock' /\ Delays \subseteq Nat
          /\ record[k] \in Record /\ record[k].until \in Nat
          /\ record'[k] \in Record /\ record'[k].until \in Nat
      <3>1. clock' = clock \/ clock' = clock + 1
        BY DEF Next, Step, Resolve, Inspect, Send, Returns, Unrecorded, ReadRecord,
               SaveRecord, StoreFails, Tick, vars
      <3>2. record[k] \in Record /\ record'[k] \in Record /\ clock \in Nat
        BY FeedbackAssumption DEF TypeOK
      <3>3. Delays \subseteq Nat
        BY FeedbackAssumption DEF Delays
      <3> QED
        BY <3>1, <3>2, <3>3 DEF Record
    <2>2. record[k].status = "cooling" => \E d \in Delays : record[k].until <= clock + d
      BY DEF CoolingBounded, Delays
    <2>3. CASE record'[k] = record[k]
      BY <2>1, <2>2, <2>3
    <2>4. ASSUME NEW r \in Request,
                 record'[k] = After(record[k], request[r].outcome, request[r].now),
                 request[r].outcome \in Outcome, request[r].now \in 0..clock
          PROVE  \E d \in Delays : record'[k].until <= clock' + d
      <3>1. Follows(record'[k], record[k], request[r].now) /\ request[r].now \in Nat
        BY <2>1, <2>4, AfterFollows
      <3>2. CASE record[k].status = "cooling" /\ record'[k].until = record[k].until
        BY <2>1, <2>2, <3>2
      <3>3. CASE \E d \in Delays : record'[k].until <= request[r].now + d
        BY <2>1, <2>4, <3>3
      <3> QED
        BY <3>1, <3>2, <3>3 DEF Follows
    <2> QED
      BY <2>3, <2>4, StepReports DEF Reported
  <1> QED
    BY <1>1, <1>2, FeedbackTypeOK, FeedbackCopies, PTL DEF Spec

(***************************************************************************)
(* No request is sent into a cooling that had begun when it looked.        *)
(***************************************************************************)

(* What a request found, against the states as they are: it began no later *)
(* than they, and every state of a candidate, and on the path it is on     *)
(* every state it has passed, is eligible or saved since.                  *)
LookStands(me, states) ==
    LET stands(k) == EligibleAt(states[k], me.now) \/ states[k].rev > me.since[k]
    IN  me.pc \in {"resolve", "pick"} =>
           /\ \A k \in Key : me.since[k] <= states[k].rev
           /\ \A c \in me.found : \A i \in DOMAIN Paths[c] : stands(Paths[c][i])
           /\ me.pc = "resolve" =>
                 \A i \in DOMAIN Paths[me.cred] : i < me.step => stands(Paths[me.cred][i])

FoundStands == \A r \in Request : LookStands(request[r], record)

(* What a request found stays true when states are saved: a saved state is *)
(* newer than the request's beginning.                                     *)
LEMMA StandsStable ==
    ASSUME NEW me \in RequestState, NEW states \in [Key -> Record], NEW new \in [Key -> Record],
           \A k \in Key : new[k] = states[k] \/ new[k].rev = states[k].rev + 1,
           me.pc = "resolve" => me.cred \in Credential, LookStands(me, states)
    PROVE  LookStands(me, new)
  <1> SUFFICES ASSUME me.pc \in {"resolve", "pick"}
               PROVE  LookStands(me, new)
    BY DEF LookStands
  <1>1. /\ \A k \in Key : me.since[k] \in Nat /\ states[k].rev \in Nat /\ new[k].rev \in Nat
        /\ \A c \in me.found : c \in Credential
    BY DEF RequestState, Record
  <1>2. \A k \in Key : me.since[k] <= states[k].rev
    BY DEF LookStands
  <1>3. \A k \in Key : me.since[k] <= new[k].rev
    BY <1>1, <1>2
  <1>4. \A k \in Key : EligibleAt(states[k], me.now) \/ states[k].rev > me.since[k]
                          => EligibleAt(new[k], me.now) \/ new[k].rev > me.since[k]
    BY <1>1, <1>2
  <1>5. \A c \in Credential : \A i \in DOMAIN Paths[c] : Paths[c][i] \in Key
    BY PathsType
  <1>6. \A c \in me.found : \A i \in DOMAIN Paths[c] :
           EligibleAt(new[Paths[c][i]], me.now) \/ new[Paths[c][i]].rev > me.since[Paths[c][i]]
    BY <1>1, <1>4, <1>5 DEF LookStands
  <1>7. me.pc = "resolve" =>
           \A i \in DOMAIN Paths[me.cred] : i < me.step =>
              \/ EligibleAt(new[Paths[me.cred][i]], me.now)
              \/ new[Paths[me.cred][i]].rev > me.since[Paths[me.cred][i]]
    BY <1>4, <1>5 DEF LookStands
  <1> QED
    BY <1>3, <1>6, <1>7 DEF LookStands

(* So only the state of the request that moves is in question.             *)
LEMMA BecomesStands ==
    ASSUME TypeOK, TypeOK', CopiesCurrentOrOld, [Next]_vars, FoundStands,
           NEW r \in Request, NEW state, Becomes(r, state), LookStands(state, record')
    PROVE  FoundStands'
  <1>1. /\ record \in [Key -> Record] /\ record' \in [Key -> Record]
        /\ \A q \in Request :
              /\ request[q] \in RequestState
              /\ request[q].pc = "resolve" => request[q].cred \in Credential
    BY DEF TypeOK, RequestOK
  <1>2. \A k \in Key : record'[k] = record[k] \/ record'[k].rev = record[k].rev + 1
    BY RevisionsRise
  <1>3. \A q \in Request : LookStands(request[q], record')
    BY <1>1, <1>2, StandsStable DEF FoundStands
  <1>4. \A q \in Request : request'[q] = state \/ request'[q] = request[q]
    BY DEF Becomes, TypeOK
  <1> QED
    BY <1>3, <1>4 DEF FoundStands

(* The path of a credential is passed state by state, and the credential   *)
(* becomes a candidate with the last of them.                              *)
LEMMA InspectStands ==
    ASSUME TypeOK, FoundStands, NEW r \in Request, Inspect(r)
    PROVE  \E state : Becomes(r, state) /\ LookStands(state, record)
  <1> DEFINE me == request[r]
             path == Paths[me.cred]
             cooling == ~EligibleAt(record[path[me.step]], me.now)
             passed == ~cooling /\ me.step = Len(path)
             found == IF passed THEN me.found \cup {me.cred} ELSE me.found
             stands(k) == EligibleAt(record[k], me.now) \/ record[k].rev > me.since[k]
             later == [me EXCEPT !.step = me.step + 1]
             next == [me EXCEPT !.cred = me.cred + 1, !.step = 1, !.found = found]
             last == [me EXCEPT !.pc = "pick", !.found = found]
  <1>1. /\ me.pc = "resolve" /\ me.cred \in Credential /\ me.step \in 1..Len(path)
        /\ Len(path) \in Nat /\ DOMAIN path = 1..Len(path) /\ me \in RequestState
    BY PathsType DEF Inspect, At, TypeOK, RequestOK
  <1>2. /\ \A k \in Key : me.since[k] <= record[k].rev
        /\ \A c \in me.found : \A i \in DOMAIN Paths[c] : stands(Paths[c][i])
        /\ \A i \in DOMAIN path : i < me.step => stands(path[i])
    BY <1>1 DEF FoundStands, LookStands
  <1>3. ~cooling => \A i \in 1..me.step : stands(path[i])
    <2>1. \A i \in 1..me.step : i \in DOMAIN path /\ (i < me.step \/ i = me.step)
      BY <1>1
    <2> QED
      BY <1>2, <2>1
  <1>4. \A c \in found : \A i \in DOMAIN Paths[c] : stands(Paths[c][i])
    BY <1>1, <1>2, <1>3
  <1>5. /\ later.pc = "resolve" /\ later.since = me.since /\ later.now = me.now
        /\ later.cred = me.cred /\ later.step = me.step + 1 /\ later.found = me.found
    BY <1>1 DEF RequestState
  <1>6. /\ next.pc = "resolve" /\ next.since = me.since /\ next.now = me.now
        /\ next.step = 1 /\ next.found = found
    <2> HIDE DEF found, me
    <2> QED
      BY <1>1 DEF RequestState
  <1>7. /\ last.pc = "pick" /\ last.since = me.since /\ last.now = me.now
        /\ last.found = found
    <2> HIDE DEF found, me
    <2> QED
      BY <1>1 DEF RequestState
  <1>8. CASE ~cooling /\ ~passed
    <2>1. Becomes(r, later)
      BY <1>8 DEF Inspect
    <2>2. \A i \in DOMAIN path : i < me.step + 1 => stands(path[i])
      <3>1. \A i \in DOMAIN path : i < me.step + 1 => i \in 1..me.step
        <4> HIDE DEF me, path
        <4> QED
          BY <1>1
      <3>2. \A i \in 1..me.step : stands(path[i])
        BY <1>3, <1>8
      <3> HIDE DEF stands, path, me
      <3> QED
        BY <3>1, <3>2
    <2> HIDE DEF later, stands, me
    <2>3. LookStands(later, record)
      BY <1>1, <1>2, <1>5, <2>2 DEF LookStands, stands
    <2> QED
      BY <2>1, <2>3
  <1>9. CASE ~(~cooling /\ ~passed) /\ me.cred < Len(Paths)
    <2>1. Becomes(r, next)
      BY <1>9 DEF Inspect
    <2>2. \A i \in DOMAIN Paths[next.cred] : i < 1 => stands(Paths[next.cred][i])
      <3>1. next.cred \in Credential
        <4> HIDE DEF found
        <4> QED
          BY <1>1, <1>9, PathsType DEF RequestState
      <3> HIDE DEF next
      <3> QED
        BY <3>1, PathsType
    <2> HIDE DEF next, found, stands, me
    <2>3. LookStands(next, record)
      BY <1>2, <1>4, <1>6, <2>2 DEF LookStands, stands
    <2> QED
      BY <2>1, <2>3
  <1>10. CASE ~(~cooling /\ ~passed) /\ ~(me.cred < Len(Paths))
    <2>1. Becomes(r, last)
      BY <1>10 DEF Inspect
    <2> HIDE DEF last, found, stands, me
    <2>2. LookStands(last, record)
      BY <1>2, <1>4, <1>7 DEF LookStands, stands
    <2> QED
      BY <2>1, <2>2
  <1> QED
    BY <1>8, <1>9, <1>10

(* A request that begins to look has found nothing, and one that does not  *)
(* look claims nothing.                                                    *)
LEMMA ResolveStands ==
    ASSUME TypeOK, NEW r \in Request, Resolve(r)
    PROVE  \E state : Becomes(r, state) /\ LookStands(state, record)
  <1> DEFINE since == [k \in Key |-> record[k].rev]
             next == [Idle EXCEPT !.pc = "resolve", !.now = clock, !.since = since]
  <1>1. Becomes(r, next)
    BY DEF Resolve
  <1>2. /\ next.pc = "resolve" /\ next.found = {} /\ next.cred = 1 /\ next.step = 1
        /\ next.since = since
    BY DEF Idle
  <1>3. \A k \in Key : since[k] <= record[k].rev
    BY DEF TypeOK, Record
  <1>4. \A i \in DOMAIN Paths[1] : ~(i < 1)
    BY PathsType
  <1> HIDE DEF next, since
  <1> QED
    BY <1>1, <1>2, <1>3, <1>4 DEF LookStands

(* Once sent, a request does not look any more.                            *)
LEMMA OthersStand ==
    ASSUME TypeOK, NEW r \in Request, Step(r), ~Resolve(r), ~Inspect(r)
    PROVE  \E state : Becomes(r, state) /\ state.pc \notin {"resolve", "pick"}
  <1>0. request[r] \in RequestState /\ Idle.pc = "idle"
    BY DEF TypeOK, Idle
  <1>1. CASE Send(r)
    <2>1. \A c : [Idle EXCEPT !.pc = "sent", !.cred = c].pc = "sent"
      BY DEF Idle
    <2>2. \/ Becomes(r, Idle)
          \/ \E c : Becomes(r, [Idle EXCEPT !.pc = "sent", !.cred = c])
      BY <1>1 DEF Send
    <2> QED
      BY <1>0, <2>1, <2>2
  <1>2. CASE Returns(r)
    <2>1. \A o, todo : [Idle EXCEPT !.pc = "read", !.now = clock, !.outcome = o,
                                    !.todo = todo].pc = "read"
      BY DEF Idle
    <2>2. \E o, todo : Becomes(r, [Idle EXCEPT !.pc = "read", !.now = clock,
                                              !.outcome = o, !.todo = todo])
      BY <1>2 DEF Returns
    <2> QED
      BY <2>1, <2>2
  <1>3. CASE Unrecorded(r)
    BY <1>0, <1>3 DEF Unrecorded
  <1>4. ASSUME Done(r)
        PROVE  \E state : Becomes(r, state) /\ state.pc \notin {"resolve", "pick"}
    <2>1. [request[r] EXCEPT !.pc = "read", !.todo = Tail(@)].pc = "read"
      BY <1>0 DEF RequestState
    <2> QED
      BY <1>0, <1>4, <2>1 DEF Done
  <1>5. CASE ReadRecord(r)
    <2>1. \A copy : [request[r] EXCEPT !.pc = "save", !.copy = copy].pc = "save"
      BY <1>0 DEF RequestState
    <2>2. Done(r) \/ \E copy : Becomes(r, [request[r] EXCEPT !.pc = "save", !.copy = copy])
      BY <1>5 DEF ReadRecord
    <2> QED
      BY <1>4, <2>1, <2>2
  <1>6. CASE SaveRecord(r) \/ StoreFails(r)
    BY <1>4, <1>6 DEF SaveRecord, StoreFails
  <1> QED
    BY <1>1, <1>2, <1>3, <1>5, <1>6 DEF Step

(* What requests found stands in every behaviour.                          *)
LEMMA FoundInductive ==
    ASSUME TypeOK, TypeOK', CopiesCurrentOrOld, FoundStands, [Next]_vars
    PROVE  FoundStands'
  <1>1. CASE Tick \/ UNCHANGED vars
    BY <1>1 DEF Tick, vars, FoundStands
  <1>2. ASSUME NEW r \in Request, Resolve(r) \/ Inspect(r)
        PROVE  FoundStands'
    <2>1. record' = record
      BY <1>2 DEF Resolve, Inspect
    <2>2. \E state : Becomes(r, state) /\ LookStands(state, record)
      BY <1>2, ResolveStands, InspectStands
    <2> QED
      BY <2>1, <2>2, BecomesStands
  <1>3. ASSUME NEW r \in Request, Step(r), ~Resolve(r), ~Inspect(r)
        PROVE  FoundStands'
    <2>1. PICK state : Becomes(r, state) /\ state.pc \notin {"resolve", "pick"}
      BY <1>3, OthersStand
    <2>2. LookStands(state, record')
      BY <2>1 DEF LookStands
    <2> QED
      BY <2>1, <2>2, BecomesStands
  <1> QED
    BY <1>1, <1>2, <1>3 DEF Next

(* However saves of other requests fall between its reads, no request is   *)
(* sent along a path with a state that was cooling when the request began  *)
(* to look and has not been saved since.                                   *)
THEOREM FeedbackCoolingRespected == Spec => CoolingRespected
  <1>1. Init => FoundStands
    BY DEF Init, FoundStands, LookStands, Idle
  <1>2. TypeOK /\ TypeOK' /\ CopiesCurrentOrOld /\ FoundStands /\ [Next]_vars => FoundStands'
    BY FoundInductive
  <1>3. TypeOK /\ FoundStands /\ [Next]_vars =>
           [\A r \in Request : At(r, "pick") /\ request'[r].pc = "sent" =>
               \A i \in DOMAIN Paths[request'[r].cred] :
                  LET k == Paths[request'[r].cred][i]
                  IN  \/ EligibleAt(record[k], request[r].now)
                      \/ record[k].rev > request[r].since[k]]_vars
    <2> SUFFICES ASSUME TypeOK, FoundStands, [Next]_vars, NEW r \in Request,
                        At(r, "pick"), request'[r].pc = "sent",
                        NEW i \in DOMAIN Paths[request'[r].cred]
                 PROVE  LET k == Paths[request'[r].cred][i]
                        IN  \/ EligibleAt(record[k], request[r].now)
                            \/ record[k].rev > request[r].since[k]
      OBVIOUS
    <2>1. request'[r].cred \in request[r].found
      <3>1. request'[r] # request[r]
        BY DEF At
      <3>2. Send(r)
        <4>1. ASSUME NEW q \in Request, Step(q)
              PROVE  q = r
          <5>1. \E state : Becomes(q, state)
            BY <4>1 DEF Step, Resolve, Inspect, Send, Returns, Unrecorded, ReadRecord,
                        SaveRecord, StoreFails, Done
          <5> QED
            BY <3>1, <5>1 DEF Becomes, TypeOK
        <4>2. Step(r)
          BY <3>1, <4>1 DEF Next, Tick, vars
        <4> QED
          BY <4>2 DEF Step, Resolve, Inspect, Returns, Unrecorded, ReadRecord, SaveRecord,
                      StoreFails, At
      <3>3. \A c : [Idle EXCEPT !.pc = "sent", !.cred = c].cred = c
        BY DEF Idle
      <3>4. Idle.pc = "idle"
        BY DEF Idle
      <3> QED
        BY <3>2, <3>3, <3>4 DEF Send, Becomes, TypeOK
    <2> QED
      BY <2>1 DEF FoundStands, LookStands, At
  <1> QED
    BY <1>1, <1>2, <1>3, FeedbackTypeOK, FeedbackCopies, PTL DEF Spec, CoolingRespected
=============================================================================
