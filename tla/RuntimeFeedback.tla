-------------------------- MODULE RuntimeFeedback --------------------------
(***************************************************************************)
(* What the outcome of a request does to the choice of credentials: the    *)
(* resolver reads the routing states of every path it may take             *)
(* (internal/resolve), the request is sent, and the feedback controller    *)
(* (internal/runtimefeedback) applies the outcome to the states            *)
(* (internal/routingstate, internal/sqlitestore).                          *)
(*                                                                         *)
(* A state is kept per credential and model, credential, endpoint,         *)
(* provider and shared account; here it is a record under a key.  Reading  *)
(* and saving are two calls, and a save must be of a newer revision.       *)
(***************************************************************************)
EXTENDS Naturals, Sequences

CONSTANTS
    Request,
    Key,            \* states
    Paths,          \* per credential, the states its path depends on, as they are read
    Proven,         \* per credential, those of them a success clears, in order
    Transient,      \* transientErrorCooldown
    QuotaCap,       \* quotaBackoffMax; the base is one tick
    Named,          \* delays a provider names
    Horizon,        \* bound on the clock
    MaxReports      \* bound on the outcomes

Credential == DOMAIN Paths

ASSUME FeedbackAssumption ==
    /\ Paths \in Seq(Seq(Key) \ {<<>>}) \ {<<>>}
    /\ Proven \in [Credential -> Seq(Key)]
    /\ Transient \in Nat \ {0} /\ QuotaCap \in Nat \ {0} /\ Named \subseteq Nat \ {0}
    /\ Horizon \in Nat /\ MaxReports \in Nat

\* The level from which nextQuotaCooldown computes no power any more.
MaxLevel == 11

\* The provers know nothing of powers.
ASSUME PowersAreNumbers == \A level \in 0..MaxLevel : 2^level \in Nat

VARIABLES
    clock,
    record,
    request,
    reports         \* outcomes so far

vars == <<clock, record, request, reports>>

Absent == [status |-> "absent", until |-> 0, level |-> 0, rev |-> 0]
Record ==
    [status : {"absent", "ready", "cooling"}, until : Nat, level : 0..MaxLevel, rev : Nat]

\* Kinds of outcome: a success, an exhausted quota, any other classified
\* failure; `named' is the delay the provider named, 0 for none.
Success == [kind |-> "success", named |-> 0]
Failure == [kind : {"quota", "transient"}, named : Named \cup {0}]
Outcome == {Success} \cup Failure

\* `since' are the revisions when the request began to look.
Idle == [pc |-> "idle", now |-> 0, cred |-> 1, step |-> 1, found |-> {},
         outcome |-> Success, todo |-> <<>>, copy |-> Absent,
         since |-> [k \in Key |-> 0]]

RequestState ==
    [pc : {"idle", "resolve", "pick", "sent", "read", "save"},
     now : Nat, cred : Nat, step : Nat, found : SUBSET Credential,
     outcome : Outcome, todo : Seq(Key), copy : Record, since : [Key -> Nat]]

StateOK(state) ==
    /\ state \in Record
    /\ state.status = "absent" <=> state.rev = 0
    /\ state.status # "cooling" => state.level = 0

RequestOK(state) ==
    /\ state \in RequestState /\ state.now <= clock
    /\ state.pc = "resolve" => /\ state.cred \in Credential
                              /\ state.step \in DOMAIN Paths[state.cred]
    /\ state.pc = "sent" => state.cred \in Credential
    /\ state.pc \in {"read", "save"} => state.todo # <<>>

TypeOK ==
    /\ clock \in 0..Horizon /\ reports \in 0..MaxReports
    /\ record \in [Key -> Record] /\ \A k \in Key : StateOK(record[k])
    /\ request \in [Request -> RequestState] /\ \A r \in Request : RequestOK(request[r])

Init ==
    /\ clock = 0 /\ reports = 0
    /\ record = [k \in Key |-> Absent]
    /\ request = [r \in Request |-> Idle]

At(r, pc) == request[r].pc = pc
Becomes(r, state) == request' = [request EXCEPT ![r] = state]

-----------------------------------------------------------------------------
(* Resolve: the states of all paths, one after the other, as of one time.  *)

EligibleAt(state, now) == state.status = "cooling" => state.until <= now

Resolve(r) ==
    /\ At(r, "idle")
    /\ Becomes(r, [Idle EXCEPT !.pc = "resolve", !.now = clock,
                               !.since = [k \in Key |-> record[k].rev]])
    /\ UNCHANGED <<clock, record, reports>>

\* Faulty variant: what is left of a path after its first state is skipped.
InspectFirst(r) ==
    LET me == request[r]
        cooling == ~EligibleAt(record[Paths[me.cred][1]], me.now)
        found == IF cooling THEN me.found ELSE me.found \cup {me.cred}
    IN  /\ At(r, "resolve")
        /\ IF me.cred < Len(Paths)
           THEN Becomes(r, [me EXCEPT !.cred = @ + 1, !.step = 1, !.found = found])
           ELSE Becomes(r, [me EXCEPT !.pc = "pick", !.found = found])
        /\ UNCHANGED <<clock, record, reports>>

\* The credential is out at the first state that is cooling, and a candidate
\* after the last one.
Inspect(r) ==
    LET me == request[r]
        path == Paths[me.cred]
        cooling == ~EligibleAt(record[path[me.step]], me.now)
        passed == ~cooling /\ me.step = Len(path)
        found == IF passed THEN me.found \cup {me.cred} ELSE me.found
    IN  /\ At(r, "resolve")
        /\ IF ~cooling /\ ~passed THEN Becomes(r, [me EXCEPT !.step = @ + 1])
           ELSE IF me.cred < Len(Paths)
           THEN Becomes(r, [me EXCEPT !.cred = @ + 1, !.step = 1, !.found = found])
           ELSE Becomes(r, [me EXCEPT !.pc = "pick", !.found = found])
        /\ UNCHANGED <<clock, record, reports>>

\* Which candidate it is, is the selector's business (CredentialSelector);
\* without one the request is refused.
Send(r) ==
    /\ At(r, "pick")
    /\ IF request[r].found = {} THEN Becomes(r, Idle)
       ELSE \E c \in request[r].found :
               Becomes(r, [Idle EXCEPT !.pc = "sent", !.cred = c])
    /\ UNCHANGED <<clock, record, reports>>

-----------------------------------------------------------------------------
(* The outcome, and what RecordSuccess and RecordFailure make of it.       *)

Returns(r) ==
    /\ At(r, "sent") /\ reports < MaxReports
    /\ reports' = reports + 1
    /\ \/ /\ Proven[request[r].cred] # <<>>
          /\ Becomes(r, [Idle EXCEPT !.pc = "read", !.now = clock, !.outcome = Success,
                                     !.todo = Proven[request[r].cred]])
       \/ \E o \in Failure, i \in DOMAIN Paths[request[r].cred] :
             Becomes(r, [Idle EXCEPT !.pc = "read", !.now = clock, !.outcome = o,
                                     !.todo = <<Paths[request[r].cred][i]>>])
    /\ UNCHANGED <<clock, record>>

\* The outcome of a failure nobody classified, or of scope "request".
Unrecorded(r) ==
    /\ At(r, "sent") /\ Becomes(r, Idle)
    /\ UNCHANGED <<clock, record, reports>>

Target(r) == Head(request[r].todo)

Done(r) ==
    IF Len(request[r].todo) = 1 THEN Becomes(r, Idle)
    ELSE Becomes(r, [request[r] EXCEPT !.pc = "read", !.todo = Tail(@)])

\* A state that does not exist is as healthy as a success can make it.
ReadRecord(r) ==
    LET state == record[Target(r)]
    IN  /\ At(r, "read")
        /\ IF request[r].outcome.kind = "success" /\ state.status = "absent" THEN Done(r)
           ELSE Becomes(r, [request[r] EXCEPT !.pc = "save", !.copy = state])
        /\ UNCHANGED <<clock, record, reports>>

\* nextQuotaCooldown: a second, doubled with every window, up to the maximum.
AtCap(level) == level >= MaxLevel \/ 2^level >= QuotaCap
Cooldown(level) == IF AtCap(level) THEN QuotaCap ELSE 2^level
NextLevel(level) == IF AtCap(level) THEN level ELSE level + 1

\* Faulty variant: every failure opens a longer window.
WindowEachFailure(state, now) ==
    [until |-> now + Cooldown(state.level), level |-> NextLevel(state.level)]

\* Faulty variant: a failure within a window extends it.
WindowExtended(state, now) ==
    IF state.status = "cooling" /\ state.until > now
    THEN [until |-> state.until + Cooldown(state.level), level |-> state.level]
    ELSE [until |-> now + Cooldown(state.level), level |-> NextLevel(state.level)]

\* A quota window that is still open stays as it is; only a failure after its
\* end opens the next, longer one.
Window(state, now) ==
    IF state.status = "cooling" /\ state.until > now
    THEN [until |-> state.until, level |-> state.level]
    ELSE [until |-> now + Cooldown(state.level), level |-> NextLevel(state.level)]

Cleared(state) == [status |-> "ready", until |-> 0, level |-> 0, rev |-> state.rev + 1]

Cooled(state, until, level) ==
    [status |-> "cooling", until |-> until, level |-> level, rev |-> state.rev + 1]

After(state, o, now) ==
    IF o.kind = "success" THEN Cleared(state)
    ELSE IF o.named # 0 THEN Cooled(state, now + o.named, state.level)
    ELSE IF o.kind = "transient" THEN Cooled(state, now + Transient, state.level)
    ELSE Cooled(state, Window(state, now).until, Window(state, now).level)

\* Faulty variant: the store takes what is not older.
AcceptsNotOlder(state, new) == new.rev >= state.rev

Accepts(state, new) == new.rev > state.rev

\* A conflict is an error, which the callers of the controller ignore.
SaveRecord(r) ==
    LET new == After(request[r].copy, request[r].outcome, request[r].now)
        k == Target(r)
    IN  /\ At(r, "save") /\ Done(r)
        /\ record' = IF Accepts(record[k], new) THEN [record EXCEPT ![k] = new] ELSE record
        /\ UNCHANGED <<clock, reports>>

\* So is an error of the store, at either call.
StoreFails(r) ==
    /\ request[r].pc \in {"read", "save"} /\ Done(r)
    /\ UNCHANGED <<clock, record, reports>>

Tick ==
    /\ clock < Horizon /\ clock' = clock + 1
    /\ UNCHANGED <<record, request, reports>>

Step(r) ==
    \/ Resolve(r) \/ Inspect(r) \/ Send(r) \/ Returns(r) \/ Unrecorded(r)
    \/ ReadRecord(r) \/ SaveRecord(r) \/ StoreFails(r)

Next == Tick \/ \E r \in Request : Step(r)

Spec == Init /\ [][Next]_vars
-----------------------------------------------------------------------------
\* Reports of several requests on one state never mix: a state changes by one
\* whole outcome, applied to what the state was at that moment.
WholeOutcomes ==
    [][\A k \in Key : record'[k] # record[k] =>
          \E o \in Outcome, now \in 0..clock : record'[k] = After(record[k], o, now)]_vars

\* "once-per-window escalation": however many requests exhaust the quota, the
\* ladder moves one step, and only when the last window is over.
OneEscalationPerWindow ==
    [][\A k \in Key : record'[k].level > record[k].level =>
          /\ record'[k].level = record[k].level + 1
          /\ record[k].status = "cooling" => record[k].until <= clock]_vars

\* No outcome keeps a credential out for longer than the longest single delay.
CoolingBounded ==
    \A k \in Key : record[k].status = "cooling" =>
        \E d \in Named \cup {Transient, QuotaCap} : record[k].until <= clock + d

\* No request is sent along a path with a state that was cooling already when
\* the request began to look, and has not been saved since.
CoolingRespected ==
    [][\A r \in Request : At(r, "pick") /\ request'[r].pc = "sent" =>
          \A i \in DOMAIN Paths[request'[r].cred] :
             LET k == Paths[request'[r].cred][i]
             IN  \/ EligibleAt(record[k], request[r].now)
                 \/ record[k].rev > request[r].since[k]]_vars

\* "classifyAndRecordFailure returns one trusted classification and persists
\* its runtime-state effect": a failure that is saved changes the state.
FailurePersisted ==
    [][\A r \in Request : SaveRecord(r) /\ request[r].outcome # Success =>
          record' # record]_vars
=============================================================================
