------------------------ MODULE ExecutionServiceProofs ------------------------
(***************************************************************************)
(* Proofs about the orchestrator, for any instances, executions, requests, *)
(* crashes, lost leases and cancellations.                                 *)
(*                                                                         *)
(* What a worker is about to save is a chain of versions, each derived     *)
(* from the one before it, and the first from the copy the worker holds.   *)
(***************************************************************************)
EXTENDS ExecutionServiceProperties, SequenceTheorems, WellFoundedInduction, TLAPS

-----------------------------------------------------------------------------
(* Chains of versions.                                                     *)

(* Only a target that needs one tracks a provider task, only while it is   *)
(* open, and only a tracked task is being cancelled.                       *)
VersionOK(r) ==
    /\ r.task # NoTask => r.request.async /\ ~IsTerminal(r.status)
    /\ r.cancelling => r.task # NoTask

(* The task and the wish to cancel it pass from version r to version s,    *)
(* unless s ends the execution.                                            *)
Carries(r, s) ==
    /\ VersionOK(r) => VersionOK(s)
    /\ IsTerminal(s.status) \/ (s.task = r.task /\ (r.cancelling => s.cancelling))

(* Version s is made from version r and saved with event ev: the next      *)
(* revision of the same request and attempts; and what ev tells of the     *)
(* status is true of s.                                                    *)
StepOK(r, s, ev) ==
    /\ s \in Record /\ ev \in EventType /\ Carries(r, s)
    /\ s.rev = r.rev + 1 /\ s.request = r.request /\ s.attempts = r.attempts
    /\ IF ev \in LifecycleEvent THEN Announces(ev) = s.status
       ELSE IF ev = "retry.scheduled" THEN s.status = "waiting_retry"
       ELSE s.status = r.status

Chain(r, saves) ==
    /\ r \in Record /\ saves \in Seq(Pending)
    /\ saves # <<>> => StepOK(r, saves[1].rec, saves[1].ev)
    /\ \A n \in 1..Len(saves) : n + 1 \in 1..Len(saves) =>
          StepOK(saves[n].rec, saves[n + 1].rec, saves[n + 1].ev)

(* A worker adds to its copy what the provider's answer tells: an attempt, *)
(* a task.                                                                 *)
Adopts(held, r) ==
    /\ r \in Record
    /\ r.rev = held.rev /\ r.request = held.request /\ r.status = held.status
    /\ r.attempts \in {held.attempts, held.attempts + 1}
    /\ VersionOK(held) => VersionOK(r)
    /\ held.task # NoTask => r.task = held.task
    /\ held.cancelling => r.cancelling

LEMMA ChainNone == ASSUME NEW r \in Record PROVE Chain(r, <<>>)
  <1>1. <<>> \in Seq(Pending) /\ Len(<<>>) = 0
    BY EmptySeq
  <1> QED
    BY <1>1 DEF Chain

LEMMA ChainOne ==
    ASSUME NEW r \in Record, NEW s, NEW ev, StepOK(r, s, ev),
           NEW mode \in {"plain", "illegal", "detached"}
    PROVE  /\ Chain(r, Saves(s, ev, mode))
           /\ Saves(s, ev, mode) # <<>>
           /\ After(r, Saves(s, ev, mode)) = s
  <1>1. PICK p \in Pending : p = [rec |-> s, ev |-> ev, mode |-> mode]
    BY DEF StepOK, Pending
  <1>2. Saves(s, ev, mode) = <<p>> /\ p.rec = s /\ p.ev = ev
    BY <1>1 DEF Saves
  <1>3. <<p>> \in Seq(Pending) /\ Len(<<p>>) = 1 /\ <<p>>[1] = p /\ <<p>> # <<>>
    OBVIOUS
  <1>4. Chain(r, <<p>>)
    BY <1>2, <1>3 DEF Chain
  <1> QED
    BY <1>2, <1>3, <1>4 DEF After

LEMMA Joined ==
    ASSUME NEW S, NEW s \in Seq(S), NEW t \in Seq(S)
    PROVE  /\ s \o t \in Seq(S) /\ Len(s \o t) = Len(s) + Len(t)
           /\ \A n \in 1..Len(s) : (s \o t)[n] = s[n]
           /\ \A n \in 1..Len(t) : (s \o t)[Len(s) + n] = t[n]
  <1>u. PICK u : u = s \o t
    OBVIOUS
  <1>l. PICK L \in Nat, M \in Nat : L = Len(s) /\ M = Len(t)
    BY LenProperties
  <1>1. L = Len(s) /\ M = Len(t) /\ u = s \o t
    BY <1>u, <1>l
  <1>2. /\ u \in Seq(S) /\ Len(u) = L + M
        /\ \A n \in 1..L + M : u[n] = IF n <= L THEN s[n] ELSE t[n - L]
    BY <1>1, ConcatProperties
  <1>3. ASSUME NEW n \in 1..L PROVE u[n] = s[n]
    <2>1. n \in 1..L + M /\ n <= L
      OBVIOUS
    <2> QED
      BY <1>2, <2>1
  <1>4. ASSUME NEW n \in 1..M PROVE u[L + n] = t[n]
    <2>1. L + n \in 1..L + M /\ ~(L + n <= L) /\ (L + n) - L = n
      OBVIOUS
    <2>2. u[L + n] = IF L + n <= L THEN s[L + n] ELSE t[(L + n) - L]
      BY <1>2, <2>1
    <2> QED
      BY <2>1, <2>2
  <1> QED
    BY <1>1, <1>2, <1>3, <1>4

(* Where a chain ends another one goes on.                                 *)
LEMMA ChainAfter ==
    ASSUME NEW r, NEW saves, Chain(r, saves)
    PROVE  After(r, saves) \in Record
  <1>1. CASE saves = <<>>
    BY <1>1 DEF After, Chain
  <1>2. CASE saves # <<>>
    <2>1. saves[Len(saves)] \in Pending
      BY <1>2, EmptySeq, ElementOfSeq DEF Chain
    <2> QED
      BY <1>2, <2>1 DEF After, Pending
  <1> QED
    BY <1>1, <1>2

LEMMA ChainJoin ==
    ASSUME NEW r, NEW a, NEW b, Chain(r, a), Chain(After(r, a), b)
    PROVE  Chain(r, a \o b) /\ After(r, a \o b) = After(After(r, a), b)
  <1>1. r \in Record /\ a \in Seq(Pending) /\ b \in Seq(Pending)
    BY DEF Chain
  <1>2. CASE a = <<>>
    <2>1. a \o b = b /\ After(r, a) = r
      BY <1>1, <1>2, ConcatEmptySeq DEF After
    <2> QED
      BY <2>1
  <1>3. CASE b = <<>>
    <2>1. a \o b = a /\ After(After(r, a), b) = After(r, a)
      BY <1>1, <1>3, ConcatEmptySeq DEF After
    <2> QED
      BY <2>1
  <1>4. CASE a # <<>> /\ b # <<>>
    <2>1. PICK L \in Nat, M \in Nat : L = Len(a) /\ M = Len(b)
      BY <1>1, LenProperties
    <2>2. L # 0 /\ M # 0
      BY <1>1, <1>4, <2>1, EmptySeq
    <2>3. /\ a \o b \in Seq(Pending) /\ Len(a \o b) = Len(a) + Len(b)
          /\ \A n \in 1..Len(a) : (a \o b)[n] = a[n]
          /\ \A n \in 1..Len(b) : (a \o b)[Len(a) + n] = b[n]
      <3>1. a \o b \in Seq(Pending) /\ Len(a \o b) = Len(a) + Len(b)
        BY <1>1, Joined
      <3>2. ASSUME NEW n \in 1..Len(a) PROVE (a \o b)[n] = a[n]
        BY <1>1, Joined
      <3>3. ASSUME NEW n \in 1..Len(b) PROVE (a \o b)[Len(a) + n] = b[n]
        BY <1>1, Joined
      <3> QED
        BY <3>1, <3>2, <3>3
    <2>4. PICK c \in Seq(Pending) : c = a \o b
      BY <2>3
    <2>5. /\ Len(c) = L + M
          /\ \A n \in 1..L : c[n] = a[n]
          /\ \A n \in 1..M : c[L + n] = b[n]
      BY <2>1, <2>3, <2>4
    <2>6. c # <<>> /\ After(r, c) = c[L + M].rec /\ c[L + M] = b[M]
      BY <2>2, <2>5 DEF After
    <2>7. After(After(r, a), b) = b[M].rec /\ After(r, a) = a[L].rec
      BY <1>4, <2>1 DEF After
    <2>8. StepOK(r, c[1].rec, c[1].ev)
      <3>1. 1 \in 1..L
        BY <2>2
      <3> QED
        BY <1>4, <2>5, <3>1 DEF Chain
    <2>9. ASSUME NEW n \in 1..L + M, n + 1 \in 1..L + M
          PROVE  StepOK(c[n].rec, c[n + 1].rec, c[n + 1].ev)
      <3>1. CASE n + 1 \in 1..L
        <4>1. n \in 1..L
          BY <3>1
        <4>2. StepOK(a[n].rec, a[n + 1].rec, a[n + 1].ev)
          BY <2>1, <3>1, <4>1 DEF Chain
        <4> QED
          BY <2>5, <3>1, <4>1, <4>2
      <3>2. CASE n = L
        <4>1. L \in 1..L /\ 1 \in 1..M
          BY <2>2
        <4>2. StepOK(a[L].rec, b[1].rec, b[1].ev)
          BY <1>4, <2>7 DEF Chain
        <4> QED
          BY <2>5, <3>2, <4>1, <4>2
      <3>3. CASE n \notin 1..L
        <4>1. PICK m \in 1..M : n = L + m
          <5>1. n - L \in 1..M /\ n = L + (n - L)
            BY <3>3
          <5> QED
            BY <5>1
        <4>2. m + 1 \in 1..M /\ n + 1 = L + (m + 1)
          BY <4>1, <2>9
        <4>3. StepOK(b[m].rec, b[m + 1].rec, b[m + 1].ev)
          BY <2>1, <4>1, <4>2 DEF Chain
        <4> QED
          BY <2>5, <4>1, <4>2, <4>3
      <3>4. n + 1 \in 1..L \/ n = L \/ n \notin 1..L
        OBVIOUS
      <3> QED
        BY <3>1, <3>2, <3>3, <3>4
    <2>10. Chain(r, c)
      BY <1>1, <2>5, <2>8, <2>9 DEF Chain
    <2> QED
      BY <2>4, <2>6, <2>7, <2>10
  <1> QED
    BY <1>2, <1>3, <1>4

(* The first save of a chain, and the chain after it.                      *)
LEMMA ChainHead ==
    ASSUME NEW r, NEW saves, Chain(r, saves), saves # <<>>
    PROVE  /\ Head(saves) \in Pending
           /\ StepOK(r, Head(saves).rec, Head(saves).ev)
           /\ Chain(Head(saves).rec, Tail(saves))
  <1>1. PICK L \in Nat : L = Len(saves)
    BY LenProperties DEF Chain
  <1>2. L # 0
    BY <1>1, EmptySeq DEF Chain
  <1>3. PICK p \in Pending, rest \in Seq(Pending) : p = Head(saves) /\ rest = Tail(saves)
    BY HeadTailProperties DEF Chain
  <1>4. p = saves[1] /\ Len(rest) = L - 1 /\ \A n \in 1..L - 1 : rest[n] = saves[n + 1]
    BY <1>1, <1>3, HeadTailProperties DEF Chain
  <1>5. p.rec \in Record /\ StepOK(r, p.rec, p.ev)
    BY <1>4 DEF Chain, Pending
  <1>6. rest # <<>> => StepOK(p.rec, rest[1].rec, rest[1].ev)
    <2>1. SUFFICES ASSUME rest # <<>> PROVE StepOK(p.rec, rest[1].rec, rest[1].ev)
      OBVIOUS
    <2>2. L - 1 # 0
      BY <1>4, <2>1, EmptySeq
    <2>3. 1 \in 1..L - 1 /\ 1 \in 1..L /\ 1 + 1 \in 1..L
      BY <1>2, <2>2
    <2>4. StepOK(saves[1].rec, saves[1 + 1].rec, saves[1 + 1].ev)
      BY <1>1, <2>3 DEF Chain
    <2> QED
      BY <1>4, <2>3, <2>4
  <1>7. ASSUME NEW n \in 1..L - 1, n + 1 \in 1..L - 1
        PROVE  StepOK(rest[n].rec, rest[n + 1].rec, rest[n + 1].ev)
    <2>1. n + 1 \in 1..L /\ (n + 1) + 1 \in 1..L
      BY <1>7
    <2>2. StepOK(saves[n + 1].rec, saves[(n + 1) + 1].rec, saves[(n + 1) + 1].ev)
      BY <1>1, <2>1 DEF Chain
    <2> QED
      BY <1>4, <1>7, <2>2
  <1>8. Chain(p.rec, rest)
    BY <1>4, <1>5, <1>6, <1>7 DEF Chain
  <1> QED
    BY <1>3, <1>5, <1>8

-----------------------------------------------------------------------------
(* Everything a worker prepares is a chain.                                *)

\* What transition() and succeedWithStatus move to.
Target == {"preparing_inputs", "queued", "running"} \cup TerminalStatus

LEMMA Announced ==
    ASSUME NEW s \in Target
    PROVE  /\ EventFor(s) \in EventType /\ EventFor(s) \in LifecycleEvent
           /\ Announces(EventFor(s)) = s /\ s \in Status
  <1>1. s \in {"preparing_inputs", "queued", "running", "succeeded",
               "partially_succeeded", "failed", "cancelled", "expired"}
    BY DEF Target, TerminalStatus
  <1>2. CASE s = "preparing_inputs"
    BY <1>2 DEF EventFor, EventType, LifecycleEvent, Announces, Status, OpenStatus
  <1>3. CASE s = "queued"
    BY <1>3 DEF EventFor, EventType, LifecycleEvent, Announces, Status, OpenStatus
  <1>4. CASE s = "running"
    BY <1>4 DEF EventFor, EventType, LifecycleEvent, Announces, Status, OpenStatus
  <1>5. CASE s = "succeeded"
    BY <1>5 DEF EventFor, EventType, LifecycleEvent, Announces, Status, TerminalStatus
  <1>6. CASE s = "partially_succeeded"
    BY <1>6 DEF EventFor, EventType, LifecycleEvent, Announces, Status, TerminalStatus
  <1>7. CASE s = "failed"
    BY <1>7 DEF EventFor, EventType, LifecycleEvent, Announces, Status, TerminalStatus
  <1>8. CASE s = "cancelled"
    BY <1>8 DEF EventFor, EventType, LifecycleEvent, Announces, Status, TerminalStatus
  <1>9. CASE s = "expired"
    BY <1>9 DEF EventFor, EventType, LifecycleEvent, Announces, Status, TerminalStatus
  <1> QED
    BY <1>1, <1>2, <1>3, <1>4, <1>5, <1>6, <1>7, <1>8, <1>9

LEMMA NextRevision ==
    ASSUME NEW r \in Record
    PROVE  \E n \in Nat \ {0} : n = r.rev + 1
  <1>1. r.rev \in Nat
    BY DEF Record
  <1>2. r.rev + 1 \in Nat \ {0}
    BY <1>1
  <1> QED
    BY <1>2

LEMMA MovedStep ==
    ASSUME NEW r \in Record, NEW s \in Target
    PROVE  StepOK(r, Moved(r, s), EventFor(s))
  <1>1. Moved(r, s) \in Record /\ Moved(r, s).rev = r.rev + 1 /\ Moved(r, s).status = s
        /\ Moved(r, s).request = r.request /\ Moved(r, s).attempts = r.attempts
        /\ Carries(r, Moved(r, s))
    <2>1. s \in Status
      BY Announced
    <2>n. PICK n \in Nat \ {0} : n = r.rev + 1
      BY NextRevision
    <2>2. CASE IsTerminal(s)
      <3>1. Moved(r, s) = [r EXCEPT !.rev = n, !.status = s, !.task = NoTask,
                                    !.cancelling = FALSE, !.waits = FALSE]
        BY <2>2, <2>n DEF Moved
      <3> QED
        BY <2>1, <2>2, <2>n, <3>1 DEF Record, NoTask, Carries, VersionOK
    <2>3. CASE ~IsTerminal(s)
      <3>1. PICK waits \in BOOLEAN : waits = (r.waits /\ r.task # NoTask)
        OBVIOUS
      <3>2. Moved(r, s) = [r EXCEPT !.rev = n, !.status = s, !.waits = waits]
        BY <2>3, <2>n, <3>1 DEF Moved
      <3> QED
        BY <2>1, <2>3, <2>n, <3>2 DEF Record, Carries, VersionOK
    <2> QED
      BY <2>2, <2>3
  <1> QED
    BY <1>1, Announced DEF StepOK

\* Events that say nothing of the status, or that inputs are being prepared
\* while they are.
LEMMA NoteStep ==
    ASSUME NEW r \in Record, NEW ev \in EventType,
           \/ ev \notin LifecycleEvent \cup {"retry.scheduled"}
           \/ ev = "input.materialization.completed" /\ r.status = "preparing_inputs"
    PROVE  StepOK(r, [r EXCEPT !.rev = @ + 1], ev)
  <1>n. PICK n \in Nat \ {0} : n = r.rev + 1
    BY NextRevision
  <1>e. [r EXCEPT !.rev = n] \in Record
    BY DEF Record
  <1>1. PICK s \in Record : s = [r EXCEPT !.rev = @ + 1]
    BY <1>n, <1>e
  <1>2. s.rev = r.rev + 1 /\ s.request = r.request /\ s.attempts = r.attempts
        /\ s.status = r.status /\ s.task = r.task /\ s.cancelling = r.cancelling
    BY <1>1 DEF Record
  <1>c. Carries(r, s)
    BY <1>2 DEF Carries, VersionOK
  <1>3. CASE ev \notin LifecycleEvent \cup {"retry.scheduled"}
    BY <1>1, <1>2, <1>c, <1>3 DEF StepOK
  <1>4. CASE ev = "input.materialization.completed" /\ r.status = "preparing_inputs"
    <2>1. ev \in LifecycleEvent /\ Announces(ev) = r.status
      BY <1>4 DEF LifecycleEvent, Announces
    <2> QED
      BY <1>1, <1>2, <1>c, <2>1 DEF StepOK
  <1> QED
    BY <1>3, <1>4

LEMMA NoteChain ==
    ASSUME NEW r \in Record, NEW ev \in EventType,
           \/ ev \notin LifecycleEvent \cup {"retry.scheduled"}
           \/ ev = "input.materialization.completed" /\ r.status = "preparing_inputs"
    PROVE  Chain(r, Note(r, ev)) /\ After(r, Note(r, ev)) \in Record
           /\ Note(r, ev) # <<>>
  <1>1. StepOK(r, [r EXCEPT !.rev = @ + 1], ev)
    BY NoteStep
  <1>2. PICK s \in Record : s = [r EXCEPT !.rev = @ + 1]
    BY <1>1 DEF StepOK
  <1>3. Note(r, ev) = Saves(s, ev, "plain") /\ StepOK(r, s, ev)
    BY <1>1, <1>2 DEF Note
  <1> QED
    BY <1>2, <1>3, ChainOne

LEMMA TransitionChain ==
    ASSUME NEW r \in Record, NEW s \in Target
    PROVE  Chain(r, Transition(r, s))
  <1>1. CASE r.status = s
    BY <1>1, ChainNone DEF Transition
  <1>2. CASE r.status # s
    <2>1. PICK mode \in {"plain", "illegal"} :
               Transition(r, s) = Saves(Moved(r, s), EventFor(s), mode)
      BY <1>2 DEF Transition
    <2>2. StepOK(r, Moved(r, s), EventFor(s))
      BY MovedStep
    <2> QED
      BY <2>1, <2>2, ChainOne
  <1> QED
    BY <1>1, <1>2

LEMMA SucceedChain ==
    ASSUME NEW r \in Record, NEW s \in {"succeeded", "partially_succeeded"}
    PROVE  Chain(r, Succeed(r, s))
  <1>1. s \in Target
    BY DEF Target, TerminalStatus
  <1>2. StepOK(r, Moved(r, s), EventFor(s))
    BY <1>1, MovedStep
  <1> QED
    BY <1>2, ChainOne DEF Succeed

LEMMA FailChain ==
    ASSUME NEW r \in Record
    PROVE  Chain(r, Fail(r))
  <1>1. PICK abort : abort = IF r.cycled THEN Note(r, "retry.aborted") ELSE <<>>
    OBVIOUS
  <1>2. Chain(r, abort)
    <2>1. "retry.aborted" \in EventType /\ "retry.aborted" \notin LifecycleEvent \cup {"retry.scheduled"}
      BY DEF EventType, RetryEvent, LifecycleEvent
    <2>2. Chain(r, Note(r, "retry.aborted"))
      BY <2>1, NoteChain
    <2> QED
      BY <1>1, <2>2, ChainNone
  <1>3. PICK last \in Record : last = After(r, abort)
    BY <1>2, ChainAfter
  <1>4. Chain(last, Transition(last, "failed"))
    BY TransitionChain DEF Target, TerminalStatus
  <1>5. Fail(r) = abort \o Transition(last, "failed")
    BY <1>1, <1>3 DEF Fail
  <1>6. PICK moved : moved = Transition(last, "failed")
    OBVIOUS
  <1> QED
    BY <1>2, <1>3, <1>4, <1>5, <1>6, ChainJoin

LEMMA ScheduleChain ==
    ASSUME NEW r \in Record
    PROVE  Chain(r, ScheduleRetry(r))
  <1>n. PICK n \in Nat \ {0} : n = r.rev + 1
    BY NextRevision
  <1>e. [r EXCEPT !.rev = n, !.status = "waiting_retry",
                  !.cycled = TRUE, !.waits = TRUE] \in Record
    BY DEF Record, Status, OpenStatus
  <1>1. PICK s \in Record : s = [r EXCEPT !.rev = @ + 1, !.status = "waiting_retry",
                                          !.cycled = TRUE, !.waits = TRUE]
    BY <1>n, <1>e
  <1>2. /\ s.rev = r.rev + 1 /\ s.request = r.request /\ s.attempts = r.attempts
        /\ s.status = "waiting_retry" /\ s.task = r.task /\ s.cancelling = r.cancelling
    BY <1>1 DEF Record
  <1>c. Carries(r, s)
    BY <1>2 DEF Carries, VersionOK, IsTerminal, TerminalStatus
  <1>3. StepOK(r, s, "retry.scheduled")
    BY <1>2, <1>c DEF StepOK, EventType, RetryEvent, LifecycleEvent
  <1>4. ScheduleRetry(r) = Saves(s, "retry.scheduled", "plain")
    BY <1>1 DEF ScheduleRetry
  <1> QED
    BY <1>3, <1>4, ChainOne

LEMMA ObserveChain ==
    ASSUME NEW r \in Record, NEW s, NEW sound
    PROVE  Chain(r, Observe(r, s, sound))
  <1>1. "none" \in EventType /\ "none" \notin LifecycleEvent \cup {"retry.scheduled"}
    BY DEF EventType, LifecycleEvent
  <1>2. CASE s \in {"queued", "running"}
    <2>1. Observe(r, s, sound) = IF r.status = s THEN Note(r, "none") ELSE Transition(r, s)
      BY <1>2 DEF Observe
    <2>2. Chain(r, Note(r, "none"))
      BY <1>1, NoteChain
    <2>3. Chain(r, Transition(r, s))
      BY <1>2, TransitionChain DEF Target
    <2> QED
      BY <2>1, <2>2, <2>3
  <1>3. CASE s \in {"succeeded", "partially_succeeded"}
    <2>1. PICK running : running = Transition(r, "running")
      OBVIOUS
    <2>2. Chain(r, running)
      BY <2>1, TransitionChain DEF Target
    <2>3. PICK last \in Record : last = After(r, running)
      BY <2>2, ChainAfter
    <2>4. PICK rest : rest = IF sound THEN Succeed(last, s) ELSE Fail(last)
      OBVIOUS
    <2>5. Observe(r, s, sound) = running \o rest
      BY <1>3, <2>1, <2>3, <2>4 DEF Observe
    <2>6. Chain(last, rest)
      BY <1>3, <2>4, SucceedChain, FailChain
    <2> QED
      BY <2>2, <2>3, <2>5, <2>6, ChainJoin
  <1>4. CASE s = "failed"
    BY <1>4, FailChain DEF Observe
  <1>5. CASE s = "cancelled"
    <2>1. Observe(r, s, sound) = Transition(r, "cancelled")
      BY <1>5 DEF Observe
    <2>2. Chain(r, Transition(r, "cancelled"))
      BY TransitionChain DEF Target, TerminalStatus
    <2> QED
      BY <2>1, <2>2
  <1>6. CASE s \notin {"queued", "running", "succeeded", "partially_succeeded", "failed", "cancelled"}
    BY <1>6, ChainNone DEF Observe
  <1> QED
    BY <1>2, <1>3, <1>4, <1>5, <1>6

-----------------------------------------------------------------------------
(* What the provider's answer says of the versions made from it.           *)

\* What a tracked task may only end in when the provider has said so.
Outcome == {"succeeded", "partially_succeeded", "cancelled"}

(* The saves report no outcome but x.                                      *)
Told(saves, x) ==
    \A n \in 1..Len(saves) : saves[n].rec.status \in Outcome => saves[n].rec.status = x

LEMMA ToldNone == ASSUME NEW x PROVE Told(<<>>, x)
  <1>1. Len(<<>>) = 0
    BY EmptySeq
  <1> QED
    BY <1>1 DEF Told

LEMMA ToldOne ==
    ASSUME NEW s, NEW ev, NEW mode, NEW x, s.status \in Outcome => s.status = x
    PROVE  Told(Saves(s, ev, mode), x)
  <1>1. PICK p : p = [rec |-> s, ev |-> ev, mode |-> mode]
    OBVIOUS
  <1>2. Saves(s, ev, mode) = <<p>> /\ p.rec = s
    BY <1>1 DEF Saves
  <1>3. Len(<<p>>) = 1 /\ <<p>>[1] = p
    OBVIOUS
  <1> QED
    BY <1>2, <1>3 DEF Told

LEMMA ToldJoin ==
    ASSUME NEW a \in Seq(Pending), NEW b \in Seq(Pending), NEW x, Told(a, x), Told(b, x)
    PROVE  Told(a \o b, x)
  <1>1. PICK L \in Nat, M \in Nat : L = Len(a) /\ M = Len(b)
    BY LenProperties
  <1>2. PICK c : c = a \o b
    OBVIOUS
  <1>3. Len(c) = L + M
    BY <1>1, <1>2, Joined
  <1>4. \A n \in 1..L : c[n] = a[n]
    BY <1>1, <1>2, Joined
  <1>5. \A n \in 1..M : c[L + n] = b[n]
    BY <1>1, <1>2, Joined
  <1>6. ASSUME NEW n \in 1..L + M, c[n].rec.status \in Outcome
        PROVE  c[n].rec.status = x
    <2>1. CASE n \in 1..L
      BY <1>1, <1>4, <1>6, <2>1 DEF Told
    <2>2. CASE n \notin 1..L
      <3>1. PICK m \in 1..M : n = L + m
        <4>1. n - L \in 1..M /\ n = L + (n - L)
          BY <2>2
        <4> QED
          BY <4>1
      <3> QED
        BY <1>1, <1>5, <1>6, <3>1 DEF Told
    <2> QED
      BY <2>1, <2>2
  <1> QED
    BY <1>2, <1>3, <1>6 DEF Told

LEMMA ToldNote ==
    ASSUME NEW r \in Record, NEW ev, NEW x, r.status \notin Outcome
    PROVE  Told(Note(r, ev), x)
  <1>1. PICK s : s = [r EXCEPT !.rev = @ + 1]
    OBVIOUS
  <1>2. s.status = r.status
    BY <1>1 DEF Record
  <1> QED
    BY <1>1, <1>2, ToldOne DEF Note

LEMMA MovedStatus == ASSUME NEW r \in Record, NEW s PROVE Moved(r, s).status = s
  BY DEF Moved, Record

LEMMA ToldTransition ==
    ASSUME NEW r \in Record, NEW s, NEW x, s \in Outcome => s = x
    PROVE  Told(Transition(r, s), x)
  <1>1. Moved(r, s).status = s
    BY MovedStatus
  <1> QED
    BY <1>1, ToldNone, ToldOne DEF Transition

LEMMA ToldFail ==
    ASSUME NEW r \in Record, NEW x, r.status \notin Outcome
    PROVE  Told(Fail(r), x)
  <1>1. PICK abort : abort = IF r.cycled THEN Note(r, "retry.aborted") ELSE <<>>
    OBVIOUS
  <1>2. Told(abort, x)
    BY <1>1, ToldNote, ToldNone
  <1>3. Chain(r, abort)
    <2>1. "retry.aborted" \in EventType /\ "retry.aborted" \notin LifecycleEvent \cup {"retry.scheduled"}
      BY DEF EventType, RetryEvent, LifecycleEvent
    <2>2. Chain(r, Note(r, "retry.aborted"))
      BY <2>1, NoteChain
    <2> QED
      BY <1>1, <2>2, ChainNone
  <1>4. PICK last \in Record : last = After(r, abort)
    BY <1>3, ChainAfter
  <1>5. PICK moved : moved = Transition(last, "failed")
    OBVIOUS
  <1>6. Told(moved, x) /\ moved \in Seq(Pending)
    <2>1. "failed" \in Target /\ "failed" \notin Outcome
      BY DEF Target, TerminalStatus, Outcome
    <2>2. Chain(last, Transition(last, "failed")) /\ Told(Transition(last, "failed"), x)
      BY <2>1, TransitionChain, ToldTransition
    <2> QED
      BY <1>5, <2>2 DEF Chain
  <1>7. Fail(r) = abort \o moved /\ abort \in Seq(Pending)
    BY <1>1, <1>3, <1>4, <1>5 DEF Fail, Chain
  <1> QED
    BY <1>2, <1>6, <1>7, ToldJoin

LEMMA ToldSchedule ==
    ASSUME NEW r \in Record, NEW x
    PROVE  Told(ScheduleRetry(r), x)
  <1>1. PICK s : s = [r EXCEPT !.rev = @ + 1, !.status = "waiting_retry",
                               !.cycled = TRUE, !.waits = TRUE]
    OBVIOUS
  <1>2. s.status = "waiting_retry" /\ s.status \notin Outcome
    BY <1>1 DEF Record, Outcome
  <1> QED
    BY <1>1, <1>2, ToldOne DEF ScheduleRetry

(* An observed task ends as the provider says, or in failure.              *)
LEMMA ToldObserve ==
    ASSUME NEW r \in Record, NEW s, NEW sound, r.status \notin Outcome
    PROVE  Told(Observe(r, s, sound), s)
  <1>1. CASE s \in {"queued", "running"}
    BY <1>1, ToldNote, ToldTransition DEF Observe
  <1>2. CASE s \in {"succeeded", "partially_succeeded"}
    <2>1. PICK running : running = Transition(r, "running")
      OBVIOUS
    <2>2. Chain(r, running) /\ Told(running, s)
      BY <2>1, TransitionChain, ToldTransition DEF Target, Outcome
    <2>3. PICK last \in Record : last = After(r, running)
      BY <2>2, ChainAfter
    <2>4. last.status = "running"
      <3>1. CASE r.status = "running"
        BY <2>1, <2>3, <3>1 DEF Transition, After
      <3>2. CASE r.status # "running"
        <4>1. PICK mode \in {"plain", "illegal"} :
                     running = Saves(Moved(r, "running"), EventFor("running"), mode)
          BY <2>1, <3>2 DEF Transition
        <4>2. StepOK(r, Moved(r, "running"), EventFor("running"))
          BY MovedStep DEF Target
        <4>3. After(r, running) = Moved(r, "running")
          BY <4>1, <4>2, ChainOne
        <4> QED
          BY <2>3, <4>3, MovedStatus
      <3> QED
        BY <3>1, <3>2
    <2>5. PICK rest : rest = IF sound THEN Succeed(last, s) ELSE Fail(last)
      OBVIOUS
    <2>6. Observe(r, s, sound) = running \o rest
      BY <1>2, <2>1, <2>3, <2>5 DEF Observe
    <2>7. Chain(last, rest)
      BY <1>2, <2>5, SucceedChain, FailChain
    <2>8. Told(rest, s)
      <3>1. Told(Fail(last), s)
        BY <2>4, ToldFail DEF Outcome
      <3>2. Told(Succeed(last, s), s)
        BY MovedStatus, ToldOne DEF Succeed
      <3> QED
        BY <2>5, <3>1, <3>2
    <2> QED
      BY <2>2, <2>6, <2>7, <2>8, ToldJoin DEF Chain
  <1>3. CASE s = "failed"
    BY <1>3, ToldFail DEF Observe
  <1>4. CASE s = "cancelled"
    BY <1>4, ToldTransition DEF Observe
  <1>5. CASE s \notin {"queued", "running", "succeeded", "partially_succeeded", "failed", "cancelled"}
    BY <1>5, ToldNone DEF Observe
  <1> QED
    BY <1>1, <1>2, <1>3, <1>4, <1>5

-----------------------------------------------------------------------------
(* The inductive invariant: types, what workers are about to save, and who *)
(* owns a lease.                                                           *)

UpstreamState == {"none", "queued", "running", "succeeded", "partially_succeeded",
                  "failed", "cancelled"}

EnvOK ==
    /\ scenario \in Scenarios
    /\ active \in [Instance -> SUBSET Execution]
    /\ upstream \in [Task -> UpstreamState]
    /\ calls \in [Execution -> Nat]
    /\ clock \in [Execution -> SUBSET {"spent", "overdue"}]
    /\ ripe \in [Execution -> Nat]
    /\ up \subseteq Instance
    /\ deaths \in Nat /\ exits \in Nat /\ pauses \in Nat /\ cancels \in Nat

\* What the provider has said of a task stands, and no task is forgotten.
ProviderMoves ==
    /\ upstream' \in [Task -> UpstreamState]
    /\ \A t \in Task : /\ upstream[t] \in Outcome => upstream'[t] = upstream[t]
                       /\ upstream[t] # "none" => upstream'[t] # "none"

LEMMA ProviderStays == ASSUME EnvOK, UNCHANGED upstream PROVE ProviderMoves
  BY DEF EnvOK, ProviderMoves

\* Where a worker has not yet heard of a provider task of its execution.
Starting == {"admit", "execute", "materialize", "ready", "dispatch", "await", "emit"}

(* Version r is one to go on with at this place: a task is started only    *)
(* for an open execution that has none, and a task is cancelled only when  *)
(* the intent is saved.                                                    *)
Fit(place, r) ==
    /\ place \in Starting /\ r.request.async => r.task = NoTask /\ ~IsTerminal(r.status)
    /\ place = "cancelcall" => r.cancelling

(* What a worker is about to save derives from its copy r, and of a task   *)
(* it tracks or has started it tells what the provider said.  `from` is    *)
(* what the provider's tasks are.                                          *)
Promise(task, r, saves, next, from) ==
    /\ \E b \in Record : Adopts(r, b) /\ b.task \in {r.task, task} /\ Chain(b, saves)
    /\ \A t \in {r.task, task} \ {NoTask} : Told(saves, from[t])
    /\ next \in Place \ {"save"}
    /\ saves = <<>> => Fit(next, r)
    /\ \A n \in 1..Len(saves) : Fit(next, saves[n].rec)
    /\ task # NoTask => r.request.async /\ next = "done"

Sound(j, from) ==
    /\ j \in Job /\ j.next # "save"
    /\ j.pc = "save" => j.todo # <<>> /\ Promise(j.task, j.rec, j.todo, j.next, from)
    /\ j.pc # "save" => Fit(j.pc, j.rec)
    /\ j.pc # "save" /\ j.task # NoTask => j.rec.request.async /\ j.pc = "await"

OpenRecord == {r \in Record : ~IsTerminal(r.status)}

JobsOK ==
    /\ work \in [Worker -> Job \cup {Idle}]
    /\ \A v \in Worker : Busy(v) => Sound(work[v], upstream)
    /\ scan \in [Instance -> SUBSET (Execution \X OpenRecord)]

LEMMA SoundLater ==
    ASSUME NEW j, NEW from, NEW later, Sound(j, from),
           \A t \in Task : from[t] \in Outcome => later[t] = from[t]
    PROVE  Sound(j, later)
  <1>1. j \in Job /\ j.rec.task \in Task \cup {NoTask} /\ j.task \in Task \cup {NoTask}
    BY DEF Sound, Job, Record
  <1>2. ASSUME NEW t \in {j.rec.task, j.task} \ {NoTask}, Told(j.todo, from[t])
        PROVE  Told(j.todo, later[t])
    <2>1. from[t] \in Outcome => later[t] = from[t]
      BY <1>1
    <2> QED
      BY <1>2, <2>1 DEF Told
  <1>3. ASSUME Promise(j.task, j.rec, j.todo, j.next, from)
        PROVE  Promise(j.task, j.rec, j.todo, j.next, later)
    BY <1>2, <1>3 DEF Promise
  <1> QED
    BY <1>3 DEF Sound

(* Of what a worker is about to save, p is the first and rest remains.     *)
NextSave(task, r, p, rest, next, from) ==
    /\ p \in Pending /\ Promise(task, p.rec, rest, next, from)
    /\ \E b \in Record : Adopts(r, b) /\ StepOK(b, p.rec, p.ev)
    /\ p.rec.task \in {NoTask, r.task, task}
    /\ \A t \in {r.task, task} \ {NoTask} :
          p.rec.status \in Outcome => p.rec.status = from[t]

LEMMA PromiseTail ==
    ASSUME NEW task, NEW r, VersionOK(r), NEW saves, saves # <<>>, NEW next, NEW from,
           Promise(task, r, saves, next, from)
    PROVE  NextSave(task, r, Head(saves), Tail(saves), next, from)
  <1>1. PICK b \in Record : Adopts(r, b) /\ b.task \in {r.task, task} /\ Chain(b, saves)
    BY DEF Promise
  <1>2. PICK p, rest : p = Head(saves) /\ rest = Tail(saves)
    OBVIOUS
  <1>3. p \in Pending /\ StepOK(b, p.rec, p.ev) /\ Chain(p.rec, rest)
    BY <1>1, <1>2, ChainHead
  <1>4. PICK L \in Nat : L = Len(saves) /\ L # 0
    <2>1. saves \in Seq(Pending)
      BY <1>1 DEF Chain
    <2> QED
      BY <2>1, LenProperties, EmptySeq
  <1>5. p = saves[1] /\ Len(rest) = L - 1 /\ \A n \in 1..L - 1 : rest[n] = saves[n + 1]
    <2>1. saves \in Seq(Pending)
      BY <1>1 DEF Chain
    <2> QED
      BY <1>2, <1>4, <2>1, HeadTailProperties
  <1>6. 1 \in 1..L /\ \A n \in 1..L - 1 : n + 1 \in 1..L
    BY <1>4
  <1>7. p.rec.task \in {NoTask, r.task, task}
    <2>1. VersionOK(b) /\ Carries(b, p.rec)
      BY <1>1, <1>3 DEF Adopts, StepOK
    <2> QED
      BY <1>1, <2>1 DEF Carries, VersionOK
  <1>8. \A n \in 1..L : Fit(next, saves[n].rec)
    BY <1>4 DEF Promise
  <1>9. ASSUME NEW t \in {r.task, task} \ {NoTask}
        PROVE  /\ Told(rest, from[t])
               /\ p.rec.status \in Outcome => p.rec.status = from[t]
    <2>1. \A n \in 1..L : saves[n].rec.status \in Outcome => saves[n].rec.status = from[t]
      BY <1>4 DEF Promise, Told
    <2> QED
      BY <1>5, <1>6, <2>1 DEF Told
  <1>10. Fit(next, p.rec) /\ \A n \in 1..Len(rest) : Fit(next, rest[n].rec)
    BY <1>5, <1>6, <1>8
  <1>11. p.rec \in Record /\ Adopts(p.rec, p.rec) /\ p.rec.request = r.request
    BY <1>1, <1>3 DEF StepOK, Adopts
  <1>12. Promise(task, p.rec, rest, next, from)
    <2>1. \E c \in Record : /\ Adopts(p.rec, c) /\ c.task \in {p.rec.task, task}
                            /\ Chain(c, rest)
      BY <1>3, <1>11
    <2>2. \A t \in {p.rec.task, task} \ {NoTask} : Told(rest, from[t])
      BY <1>7, <1>9
    <2>3. next \in Place \ {"save"} /\ (task # NoTask => p.rec.request.async /\ next = "done")
      BY <1>11 DEF Promise
    <2> QED
      BY <1>10, <2>1, <2>2, <2>3 DEF Promise
  <1> QED
    BY <1>1, <1>2, <1>3, <1>7, <1>9, <1>12 DEF NextSave

\* While heartbeats get through, whoever drives an execution has its lease.
Driving(v) == Busy(v) /\ ~IsCanceller(v) /\ work[v].pc # "admit"
Owns(v) == Driving(v) => pauses # 0 \/ lease[work[v].exec] = v

LeaseOK ==
    /\ lease \in [Execution -> Worker \cup {Free, Gone}]
    /\ \A v \in Worker : Owns(v)

LEMMA Workers ==
    /\ \A i \in Instance : /\ Loop(i) \in Worker /\ ~IsCanceller(Loop(i))
                           /\ IsLoop(Loop(i)) /\ Loop(i)[2] = i
    /\ \A e \in Execution : /\ Direct(e) \in Worker /\ ~IsCanceller(Direct(e))
                            /\ ~IsLoop(Direct(e))
    /\ \A e \in Execution : Canceller(e) \in Worker /\ IsCanceller(Canceller(e))
    /\ Free \notin Worker /\ Gone \notin Worker /\ Free # Gone
    /\ \A w \in Worker : IsLoop(w) => w[2] \in Instance /\ w = Loop(w[2])
  <1>1. \A i \in Instance : /\ Loop(i) \in Worker /\ ~IsCanceller(Loop(i))
                            /\ IsLoop(Loop(i)) /\ Loop(i)[2] = i
    BY DEF Worker, IsLoop, IsCanceller, Loop, Direct, Canceller
  <1>2. \A e \in Execution : /\ Direct(e) \in Worker /\ ~IsCanceller(Direct(e))
                             /\ ~IsLoop(Direct(e))
    BY DEF Worker, IsLoop, IsCanceller, Loop, Direct, Canceller
  <1>3. \A e \in Execution : Canceller(e) \in Worker /\ IsCanceller(Canceller(e))
    BY DEF Worker, IsLoop, IsCanceller, Loop, Direct, Canceller
  <1>4. Free \notin Worker /\ Gone \notin Worker /\ Free # Gone
    BY DEF Worker, Loop, Direct, Canceller, Free, Gone
  <1>5. \A w \in Worker : IsLoop(w) => w[2] \in Instance /\ w = Loop(w[2])
    BY DEF IsLoop, Loop
  <1> QED
    BY <1>1, <1>2, <1>3, <1>4, <1>5

LEMMA BusyWorker ==
    ASSUME JobsOK, NEW w \in Worker
    PROVE  /\ Busy(w) <=> work[w] \in Job
           /\ Busy(w) => work[w].exec \in Execution /\ work[w].rec \in Record
           /\ Busy(w) => HeldBy(w) \in HeldCopies
  <1>1. Busy(w) <=> work[w] \in Job
    BY DEF JobsOK, Busy, Idle, Job, Place
  <1>2. Busy(w) => work[w].exec \in Execution /\ work[w].rec \in Record
    BY <1>1 DEF Job
  <1>3. Busy(w) => HeldBy(w) \in HeldCopies
    BY DEF HeldCopies
  <1> QED
    BY <1>1, <1>2, <1>3

LEMMA HeldTypes ==
    ASSUME JobsOK
    PROVE  HeldCopies \subseteq Execution \X Record
  <1>1. ASSUME NEW w \in Worker, Busy(w) PROVE HeldBy(w) \in Execution \X Record
    BY <1>1, BusyWorker DEF HeldBy
  <1>2. ASSUME NEW i \in Instance PROVE scan[i] \subseteq Execution \X Record
    BY DEF JobsOK, OpenRecord
  <1> QED
    BY <1>1, <1>2 DEF HeldCopies

\* No worker holds a copy beyond these after the step.
LEMMA HeldWithin ==
    ASSUME NEW pool,
           \A v \in Worker : Busy(v)' => HeldBy(v)' \in pool,
           \A i \in Instance : scan'[i] \subseteq pool
    PROVE  HeldCopies' \subseteq pool
  BY DEF HeldCopies

\* One worker goes on with another job, or ends.
LEMMA OneWorkerMoves ==
    ASSUME JobsOK, NEW w \in Worker, NEW pool, HeldCopies \subseteq pool, NEW j,
           work' = [work EXCEPT ![w] = j],
           j = Idle \/ (Sound(j, upstream') /\ <<j.exec, j.rec>> \in pool), ProviderMoves,
           scan' \in [Instance -> SUBSET (Execution \X OpenRecord)],
           \A i \in Instance : scan'[i] \subseteq pool
    PROVE  JobsOK' /\ HeldCopies' \subseteq pool
  <1>1. j \in Job \cup {Idle}
    BY DEF Sound
  <1>l. ASSUME NEW k, Sound(k, upstream) PROVE Sound(k, upstream')
    <2>1. PICK from, later : from = upstream /\ later = upstream'
      OBVIOUS
    <2>2. \A t \in Task : from[t] \in Outcome => later[t] = from[t]
      BY <2>1 DEF ProviderMoves
    <2> QED
      BY <1>l, <2>1, <2>2, SoundLater
  <1>2. work' \in [Worker -> Job \cup {Idle}]
    BY <1>1 DEF JobsOK
  <1>3. work'[w] = j /\ \A v \in Worker : v # w => work'[v] = work[v]
    BY DEF JobsOK
  <1>4. ASSUME NEW v \in Worker, work'[v].pc # "idle"
        PROVE  Sound(work'[v], upstream') /\ <<work'[v].exec, work'[v].rec>> \in pool
    <2>1. CASE v = w
      BY <1>3, <1>4, <2>1 DEF Idle
    <2>2. CASE v # w
      <3>1. work'[v] = work[v] /\ Busy(v)
        BY <1>3, <1>4, <2>2 DEF Busy
      <3>2. Sound(work[v], upstream') /\ HeldBy(v) \in pool
        BY <1>l, <3>1, BusyWorker DEF JobsOK
      <3> QED
        BY <3>1, <3>2 DEF HeldBy
    <2> QED
      BY <2>1, <2>2
  <1>5. JobsOK'
    BY <1>2, <1>4 DEF JobsOK, Busy
  <1>6. \A v \in Worker : Busy(v)' => HeldBy(v)' \in pool
    BY <1>4 DEF Busy, HeldBy
  <1> QED
    BY <1>5, <1>6, HeldWithin

\* Workers end, or are told to give up.
LEMMA WorkersStop ==
    ASSUME JobsOK, work' \in [Worker -> Job \cup {Idle}],
           \A v \in Worker : \/ work'[v] = work[v] \/ work'[v] = Idle
                             \/ Busy(v) /\ work'[v] = [work[v] EXCEPT !.cut = TRUE],
           scan' \in [Instance -> SUBSET (Execution \X OpenRecord)],
           \A i \in Instance : scan'[i] \subseteq scan[i], ProviderMoves
    PROVE  JobsOK' /\ HeldCopies' \subseteq HeldCopies
  <1>l. ASSUME NEW k, Sound(k, upstream) PROVE Sound(k, upstream')
    <2>1. PICK from, later : from = upstream /\ later = upstream'
      OBVIOUS
    <2>2. \A t \in Task : from[t] \in Outcome => later[t] = from[t]
      BY <2>1 DEF ProviderMoves
    <2> QED
      BY <1>l, <2>1, <2>2, SoundLater
  <1>1. ASSUME NEW v \in Worker, work'[v].pc # "idle"
        PROVE  Sound(work'[v], upstream') /\ <<work'[v].exec, work'[v].rec>> \in HeldCopies
    <2>1. work'[v] # Idle
      BY <1>1 DEF Idle
    <2>2. CASE work'[v] = work[v]
      BY <1>l, <1>1, <2>2, BusyWorker DEF JobsOK, Busy, HeldBy
    <2>3. CASE Busy(v) /\ work'[v] = [work[v] EXCEPT !.cut = TRUE]
      <3>1. PICK j \in Job : j = work[v] /\ Sound(j, upstream') /\ <<j.exec, j.rec>> \in HeldCopies
        BY <1>l, <2>3, BusyWorker DEF JobsOK, HeldBy
      <3>2. PICK k \in Job : k = [j EXCEPT !.cut = TRUE]
        BY DEF Job
      <3>3. k.pc = j.pc /\ k.rec = j.rec /\ k.exec = j.exec /\ k.todo = j.todo
             /\ k.next = j.next /\ k.task = j.task
        BY <3>2 DEF Job
      <3>4. Sound(k, upstream')
        BY <3>1, <3>3 DEF Sound
      <3> QED
        BY <2>3, <3>1, <3>2, <3>3, <3>4
    <2> QED
      BY <2>1, <2>2, <2>3
  <1>2. JobsOK'
    BY <1>1 DEF JobsOK, Busy
  <1>3. \A v \in Worker : Busy(v)' => HeldBy(v)' \in HeldCopies
    BY <1>1 DEF Busy, HeldBy
  <1>4. \A i \in Instance : scan'[i] \subseteq HeldCopies
    BY DEF HeldCopies
  <1> QED
    BY <1>2, <1>3, <1>4, HeldWithin

-----------------------------------------------------------------------------
(* Leases.                                                                 *)

\* Nobody takes or gives up a lease, or begins to drive without one.
LEMMA OwnersStay ==
    ASSUME LeaseOK, UNCHANGED <<lease, pauses>>,
           \A v \in Worker :
              \/ work'[v] = work[v] \/ work'[v] = Idle \/ IsCanceller(v)
              \/ work'[v].pc = "admit"
              \/ Driving(v) /\ work'[v].exec = work[v].exec
    PROVE  LeaseOK'
  <1>1. ASSUME NEW v \in Worker PROVE Owns(v)'
    <2>1. Owns(v)
      BY DEF LeaseOK
    <2> QED
      BY <2>1 DEF Owns, Driving, Busy, Idle
  <1> QED
    BY <1>1 DEF LeaseOK

\* A worker that drives nothing any more may release its lease.
LEMMA OwnerLeaves ==
    ASSUME LeaseOK, NEW w \in Worker, NEW e \in Execution, UNCHANGED pauses,
           work'[w] = Idle, \A v \in Worker : v # w => work'[v] = work[v],
           lease' = [lease EXCEPT ![e] = IF @ = w THEN Free ELSE @]
    PROVE  LeaseOK'
  <1>1. lease' \in [Execution -> Worker \cup {Free, Gone}]
    BY DEF LeaseOK
  <1>2. ASSUME NEW v \in Worker PROVE Owns(v)'
    <2>1. CASE v = w
      BY <2>1 DEF Owns, Driving, Busy, Idle
    <2>2. CASE v # w
      <3>1. work'[v] = work[v] /\ Owns(v)
        BY <2>2 DEF LeaseOK
      <3>2. ASSUME NEW f, lease[f] = v PROVE lease'[f] = v
        BY <2>2, <3>2 DEF LeaseOK
      <3> QED
        BY <3>1, <3>2 DEF Owns, Driving, Busy
    <2> QED
      BY <2>1, <2>2
  <1> QED
    BY <1>1, <1>2 DEF LeaseOK

\* A lease is taken only when it is free, so nobody drives the execution.
LEMMA OwnerEnters ==
    ASSUME LeaseOK, NEW w \in Worker, NEW e \in Execution, UNCHANGED pauses,
           lease[e] = Free, lease' = [lease EXCEPT ![e] = w],
           work'[w].exec = e, \A v \in Worker : v # w => work'[v] = work[v]
    PROVE  LeaseOK'
  <1>1. lease' \in [Execution -> Worker \cup {Free, Gone}] /\ lease'[e] = w
    BY DEF LeaseOK
  <1>2. ASSUME NEW v \in Worker PROVE Owns(v)'
    <2>1. CASE v = w
      BY <1>1, <2>1 DEF Owns
    <2>2. CASE v # w
      <3>1. work'[v] = work[v] /\ Owns(v)
        BY <2>2 DEF LeaseOK
      <3>2. ASSUME NEW f, lease[f] = v PROVE lease'[f] = v
        <4>1. f # e
          BY <3>2, Workers
        <4> QED
          BY <3>2, <4>1 DEF LeaseOK
      <3> QED
        BY <3>1, <3>2 DEF Owns, Driving, Busy
    <2> QED
      BY <2>1, <2>2
  <1> QED
    BY <1>1, <1>2 DEF LeaseOK

-----------------------------------------------------------------------------
(* How workers go on and end.                                              *)

LEMMA EndKeeps ==
    ASSUME JobsOK, LeaseOK, EnvOK, NEW w \in Worker, Busy(w), End(w), UNCHANGED pauses,
           ProviderMoves,
           scan' \in [Instance -> SUBSET (Execution \X OpenRecord)],
           \A i \in Instance : scan'[i] \subseteq scan[i]
    PROVE  /\ JobsOK' /\ LeaseOK' /\ HeldCopies' \subseteq HeldCopies
           /\ active' \in [Instance -> SUBSET Execution]
  <1>1. PICK e \in Execution, i \in Instance : e = work[w].exec /\ i = work[w].host
    BY BusyWorker DEF Job
  <1>2. /\ work' = [work EXCEPT ![w] = Idle]
        /\ lease' = [lease EXCEPT ![e] = IF @ = w THEN Free ELSE @]
        /\ active' = [active EXCEPT ![i] = IF w = Direct(e) THEN @ \ {e} ELSE @]
    BY <1>1 DEF End
  <1>3. work' \in [Worker -> Job \cup {Idle}]
    BY <1>2 DEF JobsOK
  <1>4. work'[w] = Idle /\ \A v \in Worker : v # w => work'[v] = work[v]
    BY <1>2 DEF JobsOK
  <1>5. JobsOK' /\ HeldCopies' \subseteq HeldCopies
    BY <1>3, <1>4, WorkersStop
  <1>6. LeaseOK'
    BY <1>2, <1>4, OwnerLeaves
  <1>7. active' \in [Instance -> SUBSET Execution]
    BY <1>2 DEF EnvOK
  <1> QED
    BY <1>5, <1>6, <1>7

\* A worker that drives, or a canceller, goes on with version r.
LEMMA ProceedKeeps ==
    ASSUME JobsOK, LeaseOK, EnvOK, NEW w \in Worker, Busy(w), work[w].pc # "admit",
           NEW pool, HeldCopies \subseteq pool,
           NEW r \in Record, <<work[w].exec, r>> \in pool,
           NEW saves, NEW next, Promise(work[w].task, r, saves, next, upstream'),
           Proceed(w, r, saves, next), UNCHANGED pauses, ProviderMoves
    PROVE  /\ JobsOK' /\ LeaseOK' /\ HeldCopies' \subseteq pool
           /\ active' \in [Instance -> SUBSET Execution]
  <1>1. CASE saves = <<>> /\ next = "done"
    <2>1. End(w) /\ scan' = scan
      BY <1>1 DEF Proceed
    <2>2. scan' \in [Instance -> SUBSET (Execution \X OpenRecord)]
      BY <2>1 DEF JobsOK
    <2>3. JobsOK' /\ LeaseOK' /\ HeldCopies' \subseteq HeldCopies
          /\ active' \in [Instance -> SUBSET Execution]
      BY <2>1, <2>2, EndKeeps
    <2> QED
      BY <2>3
  <1>2. CASE ~(saves = <<>> /\ next = "done")
    <2>1. PICK k \in Job : k = work[w] /\ k.pc # "admit"
      BY BusyWorker
    <2>2. PICK pc \in Place : pc = IF saves = <<>> THEN next ELSE "save"
      BY DEF Place, Promise
    <2>3. PICK j : j = [k EXCEPT !.rec = r, !.todo = saves, !.pc = pc, !.next = next]
      OBVIOUS
    <2>4. work' = [work EXCEPT ![w] = j] /\ UNCHANGED <<scan, active, lease>>
      BY <1>2, <2>1, <2>2, <2>3 DEF Proceed, JobsOK
    <2>5. saves \in Seq(Pending) /\ next \in Place \ {"save"}
      BY DEF Chain, Promise
    <2>6. j \in Job /\ j.rec = r /\ j.todo = saves /\ j.pc = pc /\ j.next = next
          /\ j.exec = k.exec /\ j.task = k.task
      BY <2>1, <2>2, <2>3, <2>5 DEF Job
    <2>7. Sound(j, upstream')
      <3>1. Promise(j.task, r, saves, next, upstream')
        BY <2>1, <2>6
      <3>2. CASE saves = <<>>
        <4>1. pc = next /\ next # "save" /\ next # "done"
          BY <1>2, <2>2, <2>5, <3>2
        <4>2. Fit(next, r) /\ j.task = NoTask
          BY <3>1, <3>2, <4>1 DEF Promise
        <4> QED
          BY <2>6, <4>1, <4>2 DEF Sound
      <3>3. CASE saves # <<>>
        <4>1. pc = "save" /\ next # "save"
          BY <2>2, <2>5, <3>3
        <4> QED
          BY <2>6, <3>1, <3>3, <4>1 DEF Sound
      <3> QED
        BY <3>2, <3>3
    <2>8. scan' \in [Instance -> SUBSET (Execution \X OpenRecord)]
          /\ \A i \in Instance : scan'[i] \subseteq pool
      BY <2>4 DEF JobsOK, HeldCopies
    <2>9. JobsOK' /\ HeldCopies' \subseteq pool
      BY <2>1, <2>4, <2>6, <2>7, <2>8, OneWorkerMoves
    <2>10. work'[w] = j /\ \A v \in Worker : v # w => work'[v] = work[v]
      BY <2>4 DEF JobsOK
    <2>11. LeaseOK'
      <3>1. UNCHANGED <<lease, pauses>>
        BY <2>4
      <3>2. IsCanceller(w) \/ (Driving(w) /\ work'[w].exec = work[w].exec)
        BY <2>1, <2>6, <2>10 DEF Driving
      <3> QED
        BY <2>10, <3>1, <3>2, OwnersStay
    <2> QED
      BY <2>4, <2>9, <2>11 DEF EnvOK
  <1> QED
    BY <1>1, <1>2

\* A process dies, and with it all its workers.
LEMMA StopKeeps ==
    ASSUME JobsOK, LeaseOK, EnvOK, NEW i \in Instance, Stop(i), UNCHANGED pauses, ProviderMoves
    PROVE  /\ JobsOK' /\ LeaseOK' /\ HeldCopies' \subseteq HeldCopies
           /\ active' \in [Instance -> SUBSET Execution] /\ up' \subseteq Instance
  <1>1. PICK gone \in SUBSET Worker : gone = {w \in Worker : Busy(w) /\ work[w].host = i}
    OBVIOUS
  <1>2. /\ up' = up \ {i}
        /\ work' = [w \in Worker |-> IF w \in gone THEN Idle ELSE work[w]]
        /\ lease' = [e \in Execution |-> IF lease[e] \in gone THEN Gone ELSE lease[e]]
        /\ active' = [active EXCEPT ![i] = {}]
        /\ scan' = [scan EXCEPT ![i] = {}]
    BY <1>1 DEF Stop
  <1>3. work' \in [Worker -> Job \cup {Idle}]
        /\ \A v \in Worker : work'[v] = work[v] \/ work'[v] = Idle
    BY <1>2 DEF JobsOK
  <1>4. scan' \in [Instance -> SUBSET (Execution \X OpenRecord)]
        /\ \A n \in Instance : scan'[n] \subseteq scan[n]
    BY <1>2 DEF JobsOK
  <1>5. JobsOK' /\ HeldCopies' \subseteq HeldCopies
    BY <1>3, <1>4, WorkersStop
  <1>6. lease' \in [Execution -> Worker \cup {Free, Gone}]
    BY <1>2 DEF LeaseOK
  <1>7. ASSUME NEW v \in Worker PROVE Owns(v)'
    <2>1. CASE v \in gone
      <3>1. work'[v] = Idle
        BY <1>2, <2>1
      <3> QED
        BY <3>1 DEF Owns, Driving, Busy, Idle
    <2>2. CASE v \notin gone
      <3>1. work'[v] = work[v] /\ Owns(v)
        BY <1>2, <2>2 DEF LeaseOK
      <3>2. ASSUME NEW f \in Execution, lease[f] = v PROVE lease'[f] = v
        BY <1>2, <2>2, <3>2
      <3>3. Busy(v) => work[v].exec \in Execution
        BY BusyWorker
      <3> QED
        BY <3>1, <3>2, <3>3 DEF Owns, Driving, Busy
    <2> QED
      BY <2>1, <2>2
  <1>8. active' \in [Instance -> SUBSET Execution] /\ up' \subseteq Instance
    BY <1>2 DEF EnvOK
  <1> QED
    BY <1>5, <1>6, <1>7, <1>8 DEF LeaseOK

LEMMA AbortKeeps ==
    ASSUME JobsOK, LeaseOK, EnvOK, NEW w \in Worker, Busy(w), Abort(w), UNCHANGED envVars
    PROVE  JobsOK' /\ LeaseOK' /\ EnvOK' /\ HeldCopies' \subseteq HeldCopies
  <1>p. ProviderMoves
    BY ProviderStays DEF envVars
  <1>1. CASE IsLoop(w)
    <2>1. PICK i \in Instance : i = w[2]
      BY <1>1, Workers
    <2>2. Stop(i) /\ exits' = exits + 1 /\ UNCHANGED <<deaths, pauses, cancels, scenario>>
      BY <1>1, <2>1 DEF Abort
    <2>3. /\ JobsOK' /\ LeaseOK' /\ HeldCopies' \subseteq HeldCopies
          /\ active' \in [Instance -> SUBSET Execution] /\ up' \subseteq Instance
      BY <1>p, <2>2, StopKeeps
    <2>4. EnvOK'
      BY <2>2, <2>3 DEF EnvOK, envVars
    <2> QED
      BY <2>3, <2>4
  <1>2. CASE ~IsLoop(w)
    <2>1. End(w) /\ scan' = scan /\ UNCHANGED lifeVars
      BY <1>2 DEF Abort
    <2>2. scan' \in [Instance -> SUBSET (Execution \X OpenRecord)] /\ UNCHANGED pauses
      BY <2>1 DEF JobsOK, lifeVars
    <2>3. /\ JobsOK' /\ LeaseOK' /\ HeldCopies' \subseteq HeldCopies
          /\ active' \in [Instance -> SUBSET Execution]
      BY <1>p, <2>1, <2>2, EndKeeps
    <2>4. EnvOK'
      BY <2>1, <2>3 DEF EnvOK, envVars, lifeVars
    <2> QED
      BY <2>3, <2>4
  <1> QED
    BY <1>1, <1>2
-----------------------------------------------------------------------------
(* Every step as a call of the store: it leaves the store alone and may    *)
(* read it, or saves a version that derives from a copy in hand, or admits *)
(* an execution.                                                           *)

\* What CopiesAreVersions of ExecutionClients says of the copies held here.
Versions ==
    \A c \in HeldCopies :
        /\ c[1] \in Admitted
        /\ c[2].rev <= records[c[1]].rev
        /\ c[2].rev = records[c[1]].rev => c[2] = records[c[1]]

(* The task of a copy, old as it may be, is the task of its record until   *)
(* the execution has ended, and an intent to cancel it stays.              *)
Tracks(r, now) ==
    /\ VersionOK(r) /\ r.request = now.request
    /\ r.task # NoTask => \/ IsTerminal(now.status)
                          \/ now.task = r.task /\ (r.cancelling => now.cancelling)

TasksOK ==
    /\ \A e \in Admitted : VersionOK(records[e])
    /\ \A c \in HeldCopies : Tracks(c[2], records[c[1]])

Current == {<<e, records[e]>> : e \in Admitted}

\* Task t is, or was, or is about to be, the one of execution e.
Claimed(e, t) ==
    \/ \E c \in HeldCopies \cup Current : c[1] = e /\ c[2].task = t
    \/ \E v \in Worker : Busy(v) /\ work[v].exec = e /\ work[v].task = t

\* A provider task serves one execution.
OneClaimant ==
    \A e \in Execution, t \in Task : Claimed(e, t) =>
        /\ upstream[t] # "none"
        /\ \A f \in Execution : Claimed(f, t) => f = e

ServiceInv ==
    /\ StoreTypeOK /\ EnvOK /\ JobsOK /\ LeaseOK
    /\ Versions /\ TasksOK /\ LogMatchesRecord

OnlyReads == UNCHANGED storeVars /\ HeldCopies' \subseteq HeldCopies \cup Current

Derives ==
    \E c \in HeldCopies : \E r, s \in Record, ev \in EventType :
        /\ Adopts(c[2], r) /\ StepOK(r, s, ev)
        /\ Write(c[1], s, ev)
        /\ HeldCopies' \subseteq HeldCopies \cup {<<c[1], s>>}
        /\ s.task # NoTask => Claimed(c[1], s.task)
        /\ c[2].task # NoTask /\ s.status \in Outcome => s.status = upstream[c[2].task]

Admits ==
    \E e \in Execution, q \in Requests :
        /\ Insert(e, q)
        /\ HeldCopies' \subseteq HeldCopies \cup {<<e, NewRecord(q)>>}

StoreKept ==
    /\ StoreTypeOK' /\ Versions' /\ TasksOK' /\ LogMatchesRecord'
    /\ [Clients!AnyCall]_(Clients!vars)

(* ExecutionClients speaks of the same store.                              *)
LEMMA SameStore ==
    /\ Clients!Admitted = Admitted
    /\ \A q : Clients!CreateResult(q) = CreateResult(q)
    /\ \A q : Clients!NewRecord(q) = NewRecord(q)
    /\ \A f, ev : Clients!Follow(f, ev) = Follow(f, ev)
    /\ \A e, r, ev : Clients!SaveResult(e, r, ev) = SaveResult(e, r, ev)
    /\ Clients!Record = Record /\ Clients!EventType = EventType
    /\ Clients!Status = Status /\ Clients!NoTask = NoTask
  <1>1. Clients!Admitted = Admitted
    BY DEF Clients!Admitted, Admitted, Clients!Absent, Absent
  <1>2. ASSUME NEW q PROVE Clients!CreateResult(q) = CreateResult(q)
    <2>1. Clients!Bound(q) = Bound(q)
      BY <1>1 DEF Clients!Bound, Bound
    <2> QED
      BY <2>1 DEF Clients!CreateResult, CreateResult
  <1>3. ASSUME NEW q PROVE Clients!NewRecord(q) = NewRecord(q)
    BY DEF Clients!NewRecord, NewRecord, Clients!NoTask, NoTask
  <1>4. Clients!LifecycleEvent = LifecycleEvent /\ Clients!RetryEvent = RetryEvent
        /\ Clients!EventType = EventType
    BY DEF Clients!LifecycleEvent, LifecycleEvent, Clients!RetryEvent, RetryEvent,
           Clients!EventType, EventType
  <1>5. ASSUME NEW ev PROVE Clients!Announces(ev) = Announces(ev)
    BY DEF Clients!Announces, Announces
  <1>6. ASSUME NEW f, NEW ev PROVE Clients!Follow(f, ev) = Follow(f, ev)
    BY <1>4, <1>5 DEF Clients!Follow, Follow
  <1>7. ASSUME NEW e, NEW r, NEW ev
        PROVE  Clients!SaveResult(e, r, ev) = SaveResult(e, r, ev)
    <2>1. Clients!RecordValid(r) <=> RecordValid(r)
      BY DEF Clients!RecordValid, RecordValid, Clients!NoTask, NoTask
    <2>2. Clients!EventValid(ev, r) <=> EventValid(ev, r)
      BY <1>4, <1>5 DEF Clients!EventValid, EventValid
    <2>3. ASSUME NEW s, NEW n PROVE Clients!LegalTransition(s, n) <=> LegalTransition(s, n)
      BY DEF Clients!LegalTransition, LegalTransition, Clients!Successors, Successors
    <2> QED
      BY <2>1, <2>2, <2>3 DEF Clients!SaveResult, SaveResult
  <1>8. Clients!Status = Status /\ Clients!NoTask = NoTask
    BY DEF Clients!Status, Status, Clients!OpenStatus, OpenStatus,
           Clients!TerminalStatus, TerminalStatus, Clients!NoTask, NoTask
  <1>9. Clients!Record = Record
    BY <1>8 DEF Clients!Record, Record, Clients!Request, Request
  <1> QED
    BY <1>1, <1>2, <1>3, <1>4, <1>6, <1>7, <1>8, <1>9

LEMMA AbsentIsNoRecord ==
    ASSUME NEW r \in Record PROVE r # Absent
  BY DEF Record, Absent, Status, OpenStatus, TerminalStatus

LEMMA FollowsTheLog ==
    ASSUME NEW f \in Feed, NEW ev \in EventType
    PROVE  Follow(f, ev) \in Feed
  BY DEF Feed, Follow, Announces, EventType, RetryEvent, LifecycleEvent,
         RetryPhase, RecordStatus, Status, OpenStatus, TerminalStatus

LEMMA NewRecordType ==
    ASSUME NEW q \in Requests
    PROVE  NewRecord(q) \in Record
  <1>1. q \in Request
    BY ScenariosAssumption DEF Requests, Scenario
  <1> QED
    BY <1>1 DEF NewRecord, Record, Status, OpenStatus, NoTask

LEMMA AdmittedRecords ==
    ASSUME StoreTypeOK, NEW e \in Admitted
    PROVE  e \in Execution /\ records[e] \in Record
  BY DEF StoreTypeOK, Admitted

LEMMA ReadsKeep ==
    ASSUME ServiceInv, OnlyReads
    PROVE  StoreKept
  <1>1. records' = records /\ feed' = feed
    BY DEF OnlyReads, storeVars
  <1>2. StoreTypeOK' /\ LogMatchesRecord' /\ Admitted' = Admitted
    BY <1>1 DEF ServiceInv, StoreTypeOK, LogMatchesRecord, Admitted
  <1>3. Versions'
    <2> SUFFICES ASSUME NEW c \in HeldCopies'
                 PROVE  /\ c[1] \in Admitted
                        /\ c[2].rev <= records[c[1]].rev
                        /\ c[2].rev = records[c[1]].rev => c[2] = records[c[1]]
      BY <1>1, <1>2 DEF Versions
    <2>1. CASE c \in HeldCopies
      BY <2>1 DEF ServiceInv, Versions
    <2>2. ASSUME NEW e \in Admitted, c = <<e, records[e]>>
          PROVE  c[1] \in Admitted /\ c[2].rev <= records[c[1]].rev /\ c[2] = records[c[1]]
      <3>1. c[1] = e /\ c[2] = records[e] /\ records[e].rev \in Nat
        BY <2>2, AdmittedRecords DEF ServiceInv, Record
      <3> QED
        BY <3>1
    <2> QED
      BY <2>1, <2>2 DEF OnlyReads, Current
  <1>t. TasksOK'
    <2>1. ASSUME NEW c \in HeldCopies' PROVE Tracks(c[2], records[c[1]])
      <3>1. CASE c \in HeldCopies
        BY <3>1 DEF ServiceInv, TasksOK
      <3>2. ASSUME NEW e \in Admitted, c = <<e, records[e]>>
            PROVE  Tracks(c[2], records[c[1]])
        BY <3>2 DEF ServiceInv, TasksOK, Tracks
      <3> QED
        BY <3>1, <3>2 DEF OnlyReads, Current
    <2> QED
      BY <1>1, <1>2, <2>1 DEF ServiceInv, TasksOK
  <1>4. Clients!AnyCall
    <2>1. Clients!Read(Admitted)
      BY SameStore DEF OnlyReads, Current, Clients!Read, Clients!Hold, Clients!storeVars,
                       storeVars
    <2> QED
      BY <2>1, SameStore DEF Clients!AnyCall
  <1> QED
    BY <1>2, <1>3, <1>t, <1>4 DEF StoreKept

\* Nothing leaves a terminal status.
LEMMA EndsStay ==
    ASSUME NEW from, NEW to, IsTerminal(from) PROVE ~LegalTransition(from, to)
  <1>1. from \in {"succeeded", "partially_succeeded", "failed", "cancelled", "expired"}
    BY DEF IsTerminal, TerminalStatus
  <1>2. Successors(from) = {}
    BY <1>1 DEF Successors
  <1> QED
    BY <1>2 DEF LegalTransition

\* The execution of the copy from which a version derives is at that copy.
LEMMA DerivesFromCurrent ==
    ASSUME ServiceInv, NEW c \in HeldCopies, NEW r \in Record, NEW s \in Record,
           NEW ev \in EventType, Adopts(c[2], r), StepOK(r, s, ev), Write(c[1], s, ev)
    PROVE  c[1] \in Admitted /\ c[2] = records[c[1]]
  <1>1. PICK e \in Execution, held \in Record : c = <<e, held>>
    BY HeldTypes DEF ServiceInv
  <1>2. s.rev = records[e].rev + 1
    BY <1>1 DEF Write, SaveResult
  <1>3. e \in Admitted /\ records[e] \in Record /\ held.rev <= records[e].rev
        /\ (held.rev = records[e].rev => held = records[e])
    BY <1>1, AdmittedRecords DEF ServiceInv, Versions
  <1>4. held.rev \in Nat /\ records[e].rev \in Nat /\ s.rev = held.rev + 1
    BY <1>1, <1>3 DEF Record, Adopts, StepOK
  <1> QED
    BY <1>1, <1>2, <1>3, <1>4

LEMMA DerivesKeeps ==
    ASSUME ServiceInv, Derives
    PROVE  StoreKept
  <1>1. PICK c \in HeldCopies : \E r, s \in Record, ev \in EventType :
              /\ Adopts(c[2], r) /\ StepOK(r, s, ev) /\ Write(c[1], s, ev)
              /\ HeldCopies' \subseteq HeldCopies \cup {<<c[1], s>>}
    BY DEF Derives
  <1>2. PICK e \in Execution, held \in Record : c = <<e, held>>
    BY HeldTypes DEF ServiceInv
  <1>3. PICK r \in Record, s \in Record, ev \in EventType :
              /\ Adopts(held, r) /\ StepOK(r, s, ev) /\ Write(e, s, ev)
              /\ HeldCopies' \subseteq HeldCopies \cup {<<e, s>>}
    BY <1>1, <1>2
  <1>4. /\ SaveResult(e, s, ev) = "ok"
        /\ records' = [records EXCEPT ![e] = s]
        /\ feed' = [feed EXCEPT ![e] = Follow(feed[e], ev)]
    BY <1>3 DEF Write
  <1>5. s.rev = records[e].rev + 1
    BY <1>4 DEF SaveResult
  <1>6. e \in Admitted /\ records[e] \in Record /\ held.rev <= records[e].rev
        /\ (held.rev = records[e].rev => held = records[e])
    BY <1>2, AdmittedRecords DEF ServiceInv, Versions
  <1>7. held = records[e]
    BY <1>2, <1>3, DerivesFromCurrent
  <1>8. StoreTypeOK'
    <2>1. Follow(feed[e], ev) \in Feed
      BY FollowsTheLog DEF ServiceInv, StoreTypeOK
    <2> QED
      BY <1>4, <2>1 DEF ServiceInv, StoreTypeOK
  <1>9. records'[e] = s /\ \A f \in Execution : f # e => records'[f] = records[f]
    BY <1>4 DEF ServiceInv, StoreTypeOK
  <1>10. Admitted' = Admitted
    <2>1. s # Absent
      BY AbsentIsNoRecord
    <2> QED
      BY <1>6, <1>9, <2>1 DEF Admitted
  <1>11. Versions'
    <2> SUFFICES ASSUME NEW d \in HeldCopies'
                 PROVE  /\ d[1] \in Admitted
                        /\ d[2].rev <= records'[d[1]].rev
                        /\ d[2].rev = records'[d[1]].rev => d[2] = records'[d[1]]
      BY <1>10 DEF Versions
    <2>1. CASE d \in HeldCopies
      <3>1. PICK f \in Execution, old \in Record : d = <<f, old>>
        BY <2>1, HeldTypes DEF ServiceInv
      <3>2. f \in Admitted /\ old.rev <= records[f].rev
            /\ (old.rev = records[f].rev => old = records[f])
        BY <2>1, <3>1 DEF ServiceInv, Versions
      <3>3. CASE f = e
        <4>1. old.rev \in Nat /\ records[e].rev \in Nat
          BY <1>6 DEF Record
        <4>2. old.rev < s.rev /\ old.rev <= s.rev /\ old.rev # s.rev
          BY <1>5, <3>2, <3>3, <4>1
        <4> QED
          BY <1>9, <3>1, <3>2, <3>3, <4>2
      <3>4. CASE f # e
        BY <1>9, <3>1, <3>2, <3>4
      <3> QED
        BY <3>3, <3>4
    <2>2. CASE d = <<e, s>>
      <3>1. s.rev \in Nat
        BY DEF Record
      <3> QED
        BY <1>6, <1>9, <2>2, <3>1
    <2> QED
      BY <1>3, <2>1, <2>2
  <1>t. TasksOK'
    <2>1. VersionOK(held) /\ VersionOK(r) /\ VersionOK(s) /\ Carries(r, s)
      BY <1>3, <1>6, <1>7 DEF ServiceInv, TasksOK, Adopts, StepOK, Carries
    <2>2. /\ s.request = held.request
          /\ IsTerminal(held.status) => IsTerminal(s.status)
          /\ held.task # NoTask => \/ IsTerminal(s.status)
                                   \/ s.task = held.task /\ (held.cancelling => s.cancelling)
      <3>1. r.request = held.request /\ s.request = r.request
        BY <1>3 DEF Adopts, StepOK
      <3>2. s.status = held.status \/ LegalTransition(held.status, s.status)
        BY <1>4, <1>7 DEF SaveResult
      <3>3. held.task # NoTask => r.task = held.task /\ (held.cancelling => r.cancelling)
        BY <1>3 DEF Adopts
      <3> QED
        BY <2>1, <3>1, <3>2, <3>3, EndsStay DEF Carries
    <2>3. ASSUME NEW d \in HeldCopies' PROVE Tracks(d[2], records'[d[1]])
      <3>1. CASE d = <<e, s>>
        BY <1>9, <2>1, <3>1 DEF Tracks
      <3>2. CASE d \in HeldCopies
        <4>1. PICK f \in Execution, old \in Record : d = <<f, old>>
          BY <3>2, HeldTypes DEF ServiceInv
        <4>2. Tracks(old, records[f])
          BY <3>2, <4>1 DEF ServiceInv, TasksOK
        <4>3. CASE f = e
          <5>1. Tracks(old, held)
            BY <1>7, <4>2, <4>3
          <5>2. Tracks(old, s)
            BY <2>2, <5>1 DEF Tracks
          <5> QED
            BY <1>9, <4>1, <4>3, <5>2
        <4>4. CASE f # e
          BY <1>9, <4>1, <4>2, <4>4
        <4> QED
          BY <4>3, <4>4
      <3> QED
        BY <1>3, <3>1, <3>2
    <2>4. ASSUME NEW f \in Admitted PROVE VersionOK(records'[f])
      BY <1>9, <2>1 DEF ServiceInv, TasksOK, Admitted
    <2> QED
      BY <1>10, <2>3, <2>4 DEF TasksOK
  <1>12. LogMatchesRecord'
    <2>1. feed'[e].told = s.status
      <3>1. feed[e].told = records[e].status
        BY DEF ServiceInv, LogMatchesRecord
      <3>2. feed'[e] = Follow(feed[e], ev)
        BY <1>4 DEF ServiceInv, StoreTypeOK
      <3> QED
        BY <1>3, <1>7, <3>1, <3>2 DEF Follow, StepOK, Adopts
    <2>2. \A f \in Execution : f # e => feed'[f] = feed[f]
      BY <1>4 DEF ServiceInv, StoreTypeOK
    <2> QED
      BY <1>9, <2>1, <2>2 DEF ServiceInv, LogMatchesRecord
  <1>13. Clients!AnyCall
    <2>1. s \in Clients!Derived(held)
      BY <1>3, SameStore DEF Clients!Derived, Record, StepOK, Adopts
    <2>2. SaveResult(e, s, "none") = "ok"
      BY <1>4 DEF SaveResult, EventValid, LifecycleEvent
    <2>3. Clients!Hold({<<e, s>>})
      BY <1>3 DEF Clients!Hold
    <2>4. Clients!Write(e, s, ev)
      BY <1>4, SameStore DEF Clients!Write
    <2>5. Clients!Save(c[1], c[2])
      BY <1>2, <2>1, <2>2, <2>3, <2>4, SameStore DEF Clients!Save
    <2> QED
      BY <2>5 DEF Clients!AnyCall
  <1> QED
    BY <1>8, <1>11, <1>t, <1>12, <1>13 DEF StoreKept

LEMMA AdmitsKeeps ==
    ASSUME ServiceInv, Admits
    PROVE  StoreKept
  <1>1. PICK e \in Execution, q \in Requests :
              /\ Insert(e, q)
              /\ HeldCopies' \subseteq HeldCopies \cup {<<e, NewRecord(q)>>}
    BY DEF Admits
  <1>2. PICK s \in Record : s = NewRecord(q)
    BY NewRecordType
  <1>3. s.rev = 1 /\ s.status = "accepted" /\ VersionOK(s) /\ s.task = NoTask
    BY <1>2 DEF NewRecord, VersionOK
  <1>4. /\ e \notin Admitted
        /\ records' = [records EXCEPT ![e] = s]
        /\ feed' = [feed EXCEPT ![e] = Follow(NoFeed, "execution.accepted")]
    BY <1>1, <1>2 DEF Insert
  <1>5. Follow(NoFeed, "execution.accepted") \in Feed
        /\ Follow(NoFeed, "execution.accepted").told = "accepted"
    <2>1. NoFeed \in Feed /\ "execution.accepted" \in EventType
      BY DEF NoFeed, Feed, RecordStatus, RetryPhase, EventType, LifecycleEvent
    <2>2. Follow(NoFeed, "execution.accepted").told = "accepted"
      BY DEF Follow, LifecycleEvent, Announces
    <2> QED
      BY <2>1, <2>2, FollowsTheLog
  <1>6. StoreTypeOK'
    BY <1>4, <1>5 DEF ServiceInv, StoreTypeOK
  <1>7. records'[e] = s /\ \A f \in Execution : f # e => records'[f] = records[f]
    BY <1>4 DEF ServiceInv, StoreTypeOK
  <1>8. Admitted' = Admitted \cup {e}
    <2>1. s # Absent
      BY AbsentIsNoRecord
    <2> QED
      BY <1>7, <2>1 DEF Admitted
  <1>9. Versions'
    <2> SUFFICES ASSUME NEW d \in HeldCopies'
                 PROVE  /\ d[1] \in Admitted'
                        /\ d[2].rev <= records'[d[1]].rev
                        /\ d[2].rev = records'[d[1]].rev => d[2] = records'[d[1]]
      BY DEF Versions
    <2>1. CASE d \in HeldCopies
      <3>1. d[1] \in Admitted /\ d[1] \in Execution /\ d[1] # e
        BY <1>4, <2>1 DEF ServiceInv, Versions, Admitted
      <3> QED
        BY <1>7, <1>8, <2>1, <3>1 DEF ServiceInv, Versions
    <2>2. CASE d = <<e, s>>
      <3>1. s.rev \in Nat
        BY DEF Record
      <3> QED
        BY <1>7, <1>8, <2>2, <3>1
    <2> QED
      BY <1>1, <1>2, <2>1, <2>2
  <1>t. TasksOK'
    <2>1. ASSUME NEW d \in HeldCopies' PROVE Tracks(d[2], records'[d[1]])
      <3>1. CASE d \in HeldCopies
        <4>1. d[1] \in Admitted /\ d[1] \in Execution /\ d[1] # e
          BY <1>4, <3>1 DEF ServiceInv, Versions, Admitted
        <4> QED
          BY <1>7, <3>1, <4>1 DEF ServiceInv, TasksOK
      <3>2. CASE d = <<e, s>>
        BY <1>3, <1>7, <3>2 DEF Tracks
      <3> QED
        BY <1>1, <1>2, <3>1, <3>2
    <2>2. ASSUME NEW f \in Admitted' PROVE VersionOK(records'[f])
      BY <1>3, <1>7, <1>8, <2>2 DEF ServiceInv, TasksOK, Admitted
    <2> QED
      BY <2>1, <2>2 DEF TasksOK
  <1>10. LogMatchesRecord'
    <2>1. feed'[e].told = "accepted" /\ \A f \in Execution : f # e => feed'[f] = feed[f]
      BY <1>4, <1>5 DEF ServiceInv, StoreTypeOK
    <2> QED
      BY <1>3, <1>7, <2>1 DEF ServiceInv, LogMatchesRecord
  <1>11. Clients!AnyCall
    <2>1. Clients!Insert(e, q)
      BY <1>1, SameStore DEF Clients!Insert, Insert, Clients!NoFeed, NoFeed
    <2>2. Clients!Create(e, q)
      BY <1>1, <2>1, SameStore DEF Clients!Create, Clients!Hold
    <2> QED
      BY <2>2 DEF Clients!AnyCall
  <1> QED
    BY <1>6, <1>9, <1>t, <1>10, <1>11 DEF StoreKept
-----------------------------------------------------------------------------
(* Every action keeps the invariant.                                       *)

Kept ==
    /\ JobsOK' /\ LeaseOK' /\ EnvOK'
    /\ OnlyReads \/ Derives \/ Admits

(* What is known of a busy worker.                                         *)
LEMMA Hands ==
    ASSUME ServiceInv, NEW w \in Worker, Busy(w)
    PROVE  \E k \in Job :
              /\ k = work[w] /\ Sound(k, upstream) /\ k.exec \in Execution /\ k.rec \in Record
              /\ <<k.exec, k.rec>> \in HeldCopies
              /\ records[k.exec] \in Record /\ <<k.exec, records[k.exec]>> \in Current
  <1>1. PICK k \in Job : k = work[w]
    BY BusyWorker DEF ServiceInv
  <1>2. /\ Sound(k, upstream) /\ k.exec \in Execution /\ k.rec \in Record
        /\ <<k.exec, k.rec>> \in HeldCopies
    BY <1>1, BusyWorker DEF ServiceInv, JobsOK, HeldBy
  <1>3. k.exec \in Admitted
    BY <1>2 DEF ServiceInv, Versions
  <1>4. records[k.exec] \in Record /\ <<k.exec, records[k.exec]>> \in Current
    BY <1>3, AdmittedRecords DEF ServiceInv, Current
  <1> QED
    BY <1>1, <1>2, <1>4

LEMMA AdoptsItself == ASSUME NEW r \in Record PROVE Adopts(r, r)
  BY DEF Adopts

LEMMA HandVersions ==
    ASSUME ServiceInv, NEW w \in Worker, Busy(w)
    PROVE  /\ VersionOK(work[w].rec) /\ VersionOK(records[work[w].exec])
           /\ records[work[w].exec].request = work[w].rec.request
  <1>1. HeldBy(w) \in HeldCopies
    BY BusyWorker DEF ServiceInv
  <1>2. PICK c \in HeldCopies : c = <<work[w].exec, work[w].rec>>
    BY <1>1 DEF HeldBy
  <1>3. c[1] = work[w].exec /\ c[2] = work[w].rec
    BY <1>2
  <1> QED
    BY <1>3 DEF ServiceInv, Versions, TasksOK, Tracks

LEMMA OutcomesEnd == ASSUME NEW s \in Outcome PROVE IsTerminal(s)
  BY DEF Outcome, IsTerminal, TerminalStatus

\* Anything may end, or be cut off.
LEMMA FitsTheEnd ==
    ASSUME NEW place \in {"done", "cut", "poll"}, NEW r PROVE Fit(place, r)
  BY DEF Fit, Starting

\* A worker that has heard of no task.
LEMMA NoTaskYet ==
    ASSUME ServiceInv, NEW w \in Worker, Busy(w), work[w].pc \in Starting
    PROVE  /\ Fit(work[w].pc, work[w].rec) /\ work[w].rec.task = NoTask
           /\ work[w].rec.request.async => ~IsTerminal(work[w].rec.status)
           /\ work[w].task # NoTask => work[w].rec.request.async /\ work[w].pc = "await"
  <1>1. Sound(work[w], upstream) /\ work[w].pc # "save"
    BY DEF ServiceInv, JobsOK, Starting
  <1>2. VersionOK(work[w].rec)
    BY HandVersions
  <1> QED
    BY <1>1, <1>2 DEF Sound, Fit, VersionOK

LEMMA PromiseDone ==
    ASSUME NEW task, NEW r, NEW b \in Record, NEW saves, NEW from,
           Adopts(r, b), b.task \in {r.task, task}, Chain(b, saves),
           \A t \in {r.task, task} \ {NoTask} : Told(saves, from[t]),
           task # NoTask => r.request.async,
           NEW next \in {"done", "cut"}, task # NoTask => next = "done"
    PROVE  Promise(task, r, saves, next, from)
  BY FitsTheEnd DEF Promise, Place

LEMMA PromiseStart ==
    ASSUME NEW r \in Record, r.task = NoTask, NEW saves, NEW from, Chain(r, saves),
           NEW next \in Place \ {"save"}, saves = <<>> => Fit(next, r),
           \A n \in 1..Len(saves) : Fit(next, saves[n].rec)
    PROVE  Promise(NoTask, r, saves, next, from)
  BY AdoptsItself DEF Promise

LEMMA PromiseTried ==
    ASSUME NEW r \in Record, r.task = NoTask, NEW b \in Record, Adopts(r, b), b.task = NoTask,
           NEW saves, NEW from, Chain(b, saves),
           NEW next \in Place \ {"save"}, saves = <<>> => Fit(next, r),
           \A n \in 1..Len(saves) : Fit(next, saves[n].rec)
    PROVE  Promise(NoTask, r, saves, next, from)
  BY DEF Promise

LEMMA FitNone ==
    ASSUME NEW place PROVE \A n \in 1..Len(<<>>) : Fit(place, <<>>[n].rec)
  <1>1. Len(<<>>) = 0
    BY EmptySeq
  <1> QED
    BY <1>1

LEMMA FitOne ==
    ASSUME NEW s, NEW ev, NEW mode, NEW place, Fit(place, s)
    PROVE  \A n \in 1..Len(Saves(s, ev, mode)) : Fit(place, Saves(s, ev, mode)[n].rec)
  <1>1. PICK p : p = [rec |-> s, ev |-> ev, mode |-> mode]
    OBVIOUS
  <1>2. Saves(s, ev, mode) = <<p>> /\ p.rec = s
    BY <1>1 DEF Saves
  <1>3. Len(<<p>>) = 1 /\ <<p>>[1] = p
    OBVIOUS
  <1> QED
    BY <1>2, <1>3

LEMMA NoteFits ==
    ASSUME NEW r \in Record, NEW ev, NEW place, Fit(place, r)
    PROVE  \A n \in 1..Len(Note(r, ev)) : Fit(place, Note(r, ev)[n].rec)
  <1>1. PICK s : s = [r EXCEPT !.rev = @ + 1]
    OBVIOUS
  <1>2. s.status = r.status /\ s.task = r.task /\ s.request = r.request
        /\ s.cancelling = r.cancelling
    BY <1>1 DEF Record
  <1>3. Fit(place, s)
    BY <1>2 DEF Fit
  <1> QED
    BY <1>1, <1>3, FitOne DEF Note

LEMMA TransitionFits ==
    ASSUME NEW r \in Record, NEW s \in {"preparing_inputs", "running"},
           NEW place \in Starting, Fit(place, r)
    PROVE  \A n \in 1..Len(Transition(r, s)) : Fit(place, Transition(r, s)[n].rec)
  <1>1. ~IsTerminal(s)
    BY DEF IsTerminal, TerminalStatus
  <1>2. PICK m : m = Moved(r, s)
    OBVIOUS
  <1>3. m.status = s /\ m.task = r.task /\ m.request = r.request
    BY <1>1, <1>2 DEF Moved, Record
  <1>4. Fit(place, m)
    BY <1>1, <1>3 DEF Fit, Starting
  <1>5. CASE r.status = s
    <2>1. Transition(r, s) = <<>>
      BY <1>5 DEF Transition
    <2> QED
      BY <2>1, FitNone
  <1>6. CASE r.status # s
    <2>1. PICK mode \in {"plain", "illegal"} : Transition(r, s) = Saves(m, EventFor(s), mode)
      BY <1>2, <1>6 DEF Transition
    <2> QED
      BY <1>4, <2>1, FitOne
  <1> QED
    BY <1>5, <1>6

(* A worker goes on, and nothing is saved.                                 *)
LEMMA GoesOn ==
    ASSUME ServiceInv, NEW w \in Worker, Busy(w), work[w].pc # "admit",
           NEW r \in Record, <<work[w].exec, r>> \in HeldCopies \cup Current,
           NEW saves, NEW next, Promise(work[w].task, r, saves, next, upstream'),
           Proceed(w, r, saves, next),
           UNCHANGED <<storeVars, clock, ripe, lifeVars>>,
           ProviderMoves, calls' \in [Execution -> Nat]
    PROVE  Kept
  <1>1. PICK pool : pool = HeldCopies \cup Current
    OBVIOUS
  <1>2. HeldCopies \subseteq pool /\ <<work[w].exec, r>> \in pool
    BY <1>1
  <1>3. JobsOK /\ LeaseOK /\ EnvOK /\ UNCHANGED pauses
    BY DEF ServiceInv, lifeVars
  <1>4. /\ JobsOK' /\ LeaseOK' /\ HeldCopies' \subseteq pool
        /\ active' \in [Instance -> SUBSET Execution]
    BY <1>2, <1>3, ProceedKeeps
  <1>5. EnvOK'
    BY <1>3, <1>4 DEF EnvOK, ProviderMoves, lifeVars
  <1>6. OnlyReads
    BY <1>1, <1>4 DEF OnlyReads
  <1> QED
    BY <1>4, <1>5, <1>6 DEF Kept

(* A worker ends, and nothing is saved.                                    *)
LEMMA Ends ==
    ASSUME ServiceInv, NEW w \in Worker, Busy(w), End(w),
           UNCHANGED <<storeVars, envVars, lifeVars>>,
           scan' \in [Instance -> SUBSET (Execution \X OpenRecord)],
           \A i \in Instance : scan'[i] \subseteq scan[i]
    PROVE  Kept
  <1>1. JobsOK /\ LeaseOK /\ EnvOK /\ UNCHANGED pauses
    BY DEF ServiceInv, lifeVars
  <1>2. /\ JobsOK' /\ LeaseOK' /\ HeldCopies' \subseteq HeldCopies
        /\ active' \in [Instance -> SUBSET Execution]
    BY <1>1, EndKeeps, ProviderStays DEF envVars
  <1>3. EnvOK'
    BY <1>1, <1>2 DEF EnvOK, lifeVars, envVars
  <1> QED
    BY <1>2, <1>3 DEF Kept, OnlyReads

LEMMA ScanEnds ==
    ASSUME ServiceInv, NEW w \in Worker, EndScan(w) \/ UNCHANGED scan
    PROVE  /\ scan' \in [Instance -> SUBSET (Execution \X OpenRecord)]
           /\ \A i \in Instance : scan'[i] \subseteq scan[i]
  <1>1. CASE IsLoop(w) /\ EndScan(w)
    <2>1. PICK i \in Instance : i = w[2]
      BY <1>1, Workers
    <2>2. scan' = [scan EXCEPT ![i] = {}]
      BY <1>1, <2>1 DEF EndScan
    <2> QED
      BY <2>2 DEF ServiceInv, JobsOK
  <1>2. CASE UNCHANGED scan \/ ~IsLoop(w)
    <2>1. scan' = scan
      BY <1>2 DEF EndScan
    <2> QED
      BY <2>1 DEF ServiceInv, JobsOK
  <1> QED
    BY <1>1, <1>2

LEMMA SaveKeeps ==
    ASSUME ServiceInv, NEW w \in Worker, Save(w)
    PROVE  Kept
  <1>1. Busy(w) /\ work[w].pc = "save" /\ UNCHANGED envVars
    BY DEF Save, Busy
  <1>2. PICK k \in Job :
              /\ k = work[w] /\ Sound(k, upstream) /\ k.exec \in Execution /\ k.rec \in Record
              /\ <<k.exec, k.rec>> \in HeldCopies
              /\ records[k.exec] \in Record /\ <<k.exec, records[k.exec]>> \in Current
    BY <1>1, Hands
  <1>3. /\ k.todo # <<>> /\ Promise(k.task, k.rec, k.todo, k.next, upstream)
        /\ VersionOK(k.rec) /\ upstream' = upstream
    BY <1>1, <1>2, HandVersions DEF Sound, envVars
  <1>4. PICK p, rest, from : /\ p = Head(k.todo) /\ rest = Tail(k.todo)
                             /\ from = upstream
    OBVIOUS
  <1>t. NextSave(k.task, k.rec, p, rest, k.next, from)
    BY <1>3, <1>4, PromiseTail
  <1>b. PICK b \in Record : Adopts(k.rec, b) /\ StepOK(b, p.rec, p.ev)
    BY <1>t DEF NextSave
  <1>5. p.rec \in Record /\ p.ev \in EventType
    BY <1>b DEF StepOK
  <1>6. CASE Write(k.exec, p.rec, p.ev) /\ Proceed(w, p.rec, rest, k.next) /\ UNCHANGED lifeVars
    <2>1. PICK pool : pool = HeldCopies \cup {<<k.exec, p.rec>>}
      OBVIOUS
    <2>2. HeldCopies \subseteq pool /\ <<work[w].exec, p.rec>> \in pool
      BY <1>2, <2>1
    <2>3. JobsOK /\ LeaseOK /\ EnvOK /\ UNCHANGED pauses /\ ProviderMoves
      BY <1>3, <1>6, ProviderStays DEF ServiceInv, lifeVars
    <2>4. Promise(work[w].task, p.rec, rest, k.next, upstream')
      BY <1>2, <1>3, <1>4, <1>t DEF NextSave
    <2>6. /\ JobsOK' /\ LeaseOK' /\ HeldCopies' \subseteq pool
          /\ active' \in [Instance -> SUBSET Execution]
      BY <1>1, <1>5, <1>6, <2>2, <2>3, <2>4, ProceedKeeps
    <2>7. EnvOK'
      BY <1>1, <1>6, <2>3, <2>6 DEF EnvOK, lifeVars, envVars
    <2>8. Derives
      <3>1. PICK c \in HeldCopies : c = <<k.exec, k.rec>>
        BY <1>2
      <3>2. c[1] = k.exec /\ c[2] = k.rec
        BY <3>1
      <3>3. p.rec.task # NoTask => Claimed(c[1], p.rec.task)
        BY <1>1, <1>2, <1>t, <3>2 DEF Claimed, NextSave
      <3>4. c[2].task # NoTask /\ p.rec.status \in Outcome
               => p.rec.status = upstream[c[2].task]
        BY <1>2, <1>4, <1>t, <3>2 DEF NextSave
      <3>5. /\ Adopts(c[2], b) /\ StepOK(b, p.rec, p.ev) /\ Write(c[1], p.rec, p.ev)
            /\ HeldCopies' \subseteq HeldCopies \cup {<<c[1], p.rec>>}
        BY <1>b, <1>6, <2>1, <2>6, <3>2
      <3> QED
        BY <1>5, <3>3, <3>4, <3>5 DEF Derives
    <2> QED
      BY <2>6, <2>7, <2>8 DEF Kept
  <1>7. CASE End(w) /\ (EndScan(w) \/ UNCHANGED scan) /\ UNCHANGED <<storeVars, lifeVars>>
    <2>1. /\ scan' \in [Instance -> SUBSET (Execution \X OpenRecord)]
          /\ \A i \in Instance : scan'[i] \subseteq scan[i]
      BY <1>7, ScanEnds
    <2> QED
      BY <1>1, <1>7, <2>1, Ends
  <1>8. CASE Abort(w) /\ UNCHANGED storeVars
    <2>1. JobsOK' /\ LeaseOK' /\ EnvOK' /\ HeldCopies' \subseteq HeldCopies
      BY <1>1, <1>8, AbortKeeps DEF ServiceInv
    <2> QED
      BY <1>8, <2>1 DEF Kept, OnlyReads
  <1>9. \/ Write(k.exec, p.rec, p.ev) /\ Proceed(w, p.rec, rest, k.next) /\ UNCHANGED lifeVars
        \/ End(w) /\ (EndScan(w) \/ UNCHANGED scan) /\ UNCHANGED <<storeVars, lifeVars>>
        \/ Abort(w) /\ UNCHANGED storeVars
    BY <1>2, <1>4 DEF Save
  <1> QED
    BY <1>6, <1>7, <1>8, <1>9

LEMMA ExecuteKeeps ==
    ASSUME ServiceInv, NEW w \in Worker, Execute(w)
    PROVE  Kept
  <1>1. Busy(w) /\ work[w].pc # "admit" /\ UNCHANGED <<storeVars, envVars, lifeVars>>
    BY DEF Execute, Busy
  <1>2. PICK k \in Job :
              /\ k = work[w] /\ Sound(k, upstream) /\ k.exec \in Execution /\ k.rec \in Record
              /\ <<k.exec, k.rec>> \in HeldCopies
              /\ records[k.exec] \in Record /\ <<k.exec, records[k.exec]>> \in Current
    BY <1>1, Hands
  <1>3. PICK r \in Record : r = k.rec
    BY <1>2
  <1>f. Fit(k.pc, r) /\ k.pc \in Starting /\ r.task = NoTask /\ k.task = NoTask
    BY <1>1, <1>2, <1>3, NoTaskYet DEF Execute, Starting
  <1>g. ASSUME NEW place \in Starting PROVE Fit(place, r)
    BY <1>f DEF Fit, Starting
  <1>4. \E saves, next : /\ Proceed(w, r, saves, next)
                         /\ Promise(NoTask, r, saves, next, upstream')
    <2>1. CASE Proceed(w, r, Fail(r), "done")
      <3>1. PICK saves : saves = Fail(r) /\ Chain(r, saves)
        BY FailChain
      <3>2. Promise(NoTask, r, saves, "done", upstream')
        BY <1>f, <3>1, PromiseStart, FitsTheEnd DEF Place
      <3> QED
        BY <2>1, <3>1, <3>2
    <2>2. CASE Proceed(w, r, Transition(r, "preparing_inputs"), "materialize")
      <3>1. PICK saves : saves = Transition(r, "preparing_inputs") /\ Chain(r, saves)
        BY TransitionChain DEF Target
      <3>2. Fit("materialize", r) /\ "materialize" \in Starting
        BY <1>g DEF Starting
      <3>3. \A n \in 1..Len(saves) : Fit("materialize", saves[n].rec)
        BY <3>1, <3>2, TransitionFits
      <3>4. Promise(NoTask, r, saves, "materialize", upstream')
        BY <1>f, <3>1, <3>2, <3>3, PromiseStart DEF Place
      <3> QED
        BY <2>2, <3>1, <3>4
    <2>3. CASE Proceed(w, r, <<>>, "materialize")
      <3>1. PICK saves : saves = <<>> /\ Chain(r, saves)
        BY ChainNone
      <3>2. Fit("materialize", r) /\ \A n \in 1..Len(saves) : Fit("materialize", saves[n].rec)
        BY <1>g, <3>1, FitNone DEF Starting
      <3>3. Promise(NoTask, r, saves, "materialize", upstream')
        BY <1>f, <3>1, <3>2, PromiseStart DEF Place
      <3> QED
        BY <2>3, <3>1, <3>3
    <2>4. CASE Proceed(w, r, <<>>, "ready")
      <3>1. PICK saves : saves = <<>> /\ Chain(r, saves)
        BY ChainNone
      <3>2. Fit("ready", r) /\ \A n \in 1..Len(saves) : Fit("ready", saves[n].rec)
        BY <1>g, <3>1, FitNone DEF Starting
      <3>3. Promise(NoTask, r, saves, "ready", upstream')
        BY <1>f, <3>1, <3>2, PromiseStart DEF Place
      <3> QED
        BY <2>4, <3>1, <3>3
    <2>5. \/ Proceed(w, r, Fail(r), "done")
          \/ Proceed(w, r, Transition(r, "preparing_inputs"), "materialize")
          \/ Proceed(w, r, <<>>, "materialize")
          \/ Proceed(w, r, <<>>, "ready")
      <3>1. CASE Spent(k.exec, r)
        BY <1>2, <1>3, <3>1 DEF Execute
      <3>2. CASE ~Spent(k.exec, r) /\ r.request.plan
        BY <1>2, <1>3, <3>2 DEF Execute
      <3>3. CASE ~Spent(k.exec, r) /\ ~r.request.plan
        BY <1>2, <1>3, <3>3 DEF Execute
      <3> QED
        BY <3>1, <3>2, <3>3
    <2> QED
      BY <2>1, <2>2, <2>3, <2>4, <2>5
  <1>5. PICK saves, next : /\ Proceed(w, r, saves, next)
                           /\ Promise(NoTask, r, saves, next, upstream')
    BY <1>4
  <1>6. <<work[w].exec, r>> \in HeldCopies \cup Current /\ work[w].task = NoTask
    BY <1>2, <1>3, <1>f
  <1>7. /\ UNCHANGED <<storeVars, clock, ripe, lifeVars>>
        /\ ProviderMoves /\ calls' \in [Execution -> Nat]
    BY <1>1, ProviderStays DEF envVars, ServiceInv, EnvOK
  <1> QED
    BY <1>1, <1>5, <1>6, <1>7, GoesOn

LEMMA MaterializeKeeps ==
    ASSUME ServiceInv, NEW w \in Worker, Materialize(w)
    PROVE  Kept
  <1>1. Busy(w) /\ work[w].pc # "admit" /\ UNCHANGED <<storeVars, envVars, lifeVars>>
    BY DEF Materialize, Busy
  <1>2. PICK k \in Job :
              /\ k = work[w] /\ Sound(k, upstream) /\ k.exec \in Execution /\ k.rec \in Record
              /\ <<k.exec, k.rec>> \in HeldCopies
              /\ records[k.exec] \in Record /\ <<k.exec, records[k.exec]>> \in Current
    BY <1>1, Hands
  <1>3. PICK r \in Record : r = k.rec
    BY <1>2
  <1>f. Fit(k.pc, r) /\ k.pc \in Starting /\ r.task = NoTask /\ k.task = NoTask
    BY <1>1, <1>2, <1>3, NoTaskYet DEF Materialize, Starting
  <1>g. ASSUME NEW place \in Starting PROVE Fit(place, r)
    BY <1>f DEF Fit, Starting
  <1>4. \E saves, next : /\ Proceed(w, r, saves, next)
                         /\ Promise(NoTask, r, saves, next, upstream')
    <2>1. CASE Proceed(w, r, Fail(r), "done")
      <3>1. PICK saves : saves = Fail(r) /\ Chain(r, saves)
        BY FailChain
      <3>2. Promise(NoTask, r, saves, "done", upstream')
        BY <1>f, <3>1, PromiseStart, FitsTheEnd DEF Place
      <3> QED
        BY <2>1, <3>1, <3>2
    <2>2. CASE r.status = "preparing_inputs"
               /\ Proceed(w, r, Note(r, "input.materialization.completed"), "ready")
      <3>1. "input.materialization.completed" \in EventType
        BY DEF EventType, LifecycleEvent
      <3>2. PICK saves : /\ saves = Note(r, "input.materialization.completed")
                         /\ Chain(r, saves)
        BY <2>2, <3>1, NoteChain
      <3>3. Fit("ready", r)
        BY <1>g DEF Starting
      <3>4. \A n \in 1..Len(saves) : Fit("ready", saves[n].rec)
        BY <3>2, <3>3, NoteFits
      <3>5. Promise(NoTask, r, saves, "ready", upstream')
        BY <1>f, <3>2, <3>3, <3>4, PromiseStart DEF Place
      <3> QED
        BY <2>2, <3>2, <3>5
    <2>3. CASE Proceed(w, r, <<>>, "ready")
      <3>1. PICK saves : saves = <<>> /\ Chain(r, saves)
        BY ChainNone
      <3>2. Fit("ready", r) /\ \A n \in 1..Len(saves) : Fit("ready", saves[n].rec)
        BY <1>g, <3>1, FitNone DEF Starting
      <3>3. Promise(NoTask, r, saves, "ready", upstream')
        BY <1>f, <3>1, <3>2, PromiseStart DEF Place
      <3> QED
        BY <2>3, <3>1, <3>3
    <2>4. \/ Proceed(w, r, Fail(r), "done")
          \/ /\ r.status = "preparing_inputs"
             /\ Proceed(w, r, Note(r, "input.materialization.completed"), "ready")
          \/ Proceed(w, r, <<>>, "ready")
      <3>1. CASE r.status = "preparing_inputs"
        BY <1>2, <1>3, <3>1 DEF Materialize
      <3>2. CASE r.status # "preparing_inputs"
        BY <1>2, <1>3, <3>2 DEF Materialize
      <3> QED
        BY <3>1, <3>2
    <2> QED
      BY <2>1, <2>2, <2>3, <2>4
  <1>5. PICK saves, next : /\ Proceed(w, r, saves, next)
                           /\ Promise(NoTask, r, saves, next, upstream')
    BY <1>4
  <1>6. <<work[w].exec, r>> \in HeldCopies \cup Current /\ work[w].task = NoTask
    BY <1>2, <1>3, <1>f
  <1>7. /\ UNCHANGED <<storeVars, clock, ripe, lifeVars>>
        /\ ProviderMoves /\ calls' \in [Execution -> Nat]
    BY <1>1, ProviderStays DEF envVars, ServiceInv, EnvOK
  <1> QED
    BY <1>1, <1>5, <1>6, <1>7, GoesOn

(* A worker changes its job and nothing of its lease.                      *)
LEMMA Turns ==
    ASSUME ServiceInv, NEW w \in Worker, Busy(w), work[w].pc # "admit",
           NEW pool, HeldCopies \subseteq pool, NEW j, Sound(j, upstream'),
           j.exec = work[w].exec, <<j.exec, j.rec>> \in pool,
           work' = [work EXCEPT ![w] = j],
           UNCHANGED <<scan, active, lease, clock, ripe, lifeVars>>,
           ProviderMoves, calls' \in [Execution -> Nat]
    PROVE  JobsOK' /\ LeaseOK' /\ EnvOK' /\ HeldCopies' \subseteq pool
  <1>1. /\ scan' \in [Instance -> SUBSET (Execution \X OpenRecord)]
        /\ \A i \in Instance : scan'[i] \subseteq pool
    BY DEF ServiceInv, JobsOK, HeldCopies
  <1>2. JobsOK /\ LeaseOK /\ EnvOK /\ UNCHANGED <<lease, pauses>>
    BY DEF ServiceInv, lifeVars
  <1>3. JobsOK' /\ HeldCopies' \subseteq pool
    BY <1>1, <1>2, OneWorkerMoves
  <1>4. work'[w] = j /\ \A v \in Worker : v # w => work'[v] = work[v]
    BY <1>2 DEF JobsOK
  <1>5. IsCanceller(w) \/ (Driving(w) /\ work'[w].exec = work[w].exec)
    BY <1>4 DEF Driving
  <1>6. LeaseOK'
    BY <1>2, <1>4, <1>5, OwnersStay
  <1>7. EnvOK'
    BY <1>2 DEF EnvOK, ProviderMoves, lifeVars
  <1> QED
    BY <1>3, <1>6, <1>7

LEMMA ReadyKeeps ==
    ASSUME ServiceInv, NEW w \in Worker, Ready(w)
    PROVE  Kept
  <1>1. Busy(w) /\ work[w].pc # "admit" /\ UNCHANGED <<storeVars, envVars, lifeVars>>
    BY DEF Ready, Busy
  <1>2. PICK k \in Job :
              /\ k = work[w] /\ Sound(k, upstream) /\ k.exec \in Execution /\ k.rec \in Record
              /\ <<k.exec, k.rec>> \in HeldCopies
              /\ records[k.exec] \in Record /\ <<k.exec, records[k.exec]>> \in Current
    BY <1>1, Hands
  <1>3. PICK r \in Record : r = k.rec
    BY <1>2
  <1>f. Fit(k.pc, r) /\ k.pc = "ready" /\ r.task = NoTask /\ k.task = NoTask
    BY <1>1, <1>2, <1>3, NoTaskYet DEF Ready, Starting
  <1>g. Fit("dispatch", r)
    BY <1>f DEF Fit, Starting
  <1>4. <<work[w].exec, r>> \in HeldCopies \cup Current /\ work[w].task = NoTask
    BY <1>2, <1>3, <1>f
  <1>5. /\ UNCHANGED <<storeVars, clock, ripe, lifeVars>>
        /\ ProviderMoves /\ calls' \in [Execution -> Nat]
    BY <1>1, ProviderStays DEF envVars, ServiceInv, EnvOK
  <1>6. CASE Proceed(w, r, Fail(r), "done")
    <2>1. PICK saves : saves = Fail(r) /\ Chain(r, saves)
      BY FailChain
    <2>2. Promise(NoTask, r, saves, "done", upstream')
      BY <1>f, <2>1, PromiseStart, FitsTheEnd DEF Place
    <2> QED
      BY <1>1, <1>4, <1>5, <1>6, <2>1, <2>2, GoesOn
  <1>7. CASE Proceed(w, r, <<>>, "dispatch")
    <2>1. PICK saves : saves = <<>> /\ Chain(r, saves)
      BY ChainNone
    <2>2. Promise(NoTask, r, saves, "dispatch", upstream')
      <3>1. \A n \in 1..Len(saves) : Fit("dispatch", saves[n].rec)
        BY <2>1, FitNone
      <3> QED
        BY <1>f, <1>g, <2>1, <3>1, PromiseStart DEF Place
    <2> QED
      BY <1>1, <1>4, <1>5, <1>7, <2>1, <2>2, GoesOn
  <1>8. PICK running : running = Transition(r, "running") /\ Chain(r, running)
    BY TransitionChain DEF Target
  <1>9. CASE /\ work' = [work EXCEPT ![w].sync = TRUE, ![w].todo = running,
                               ![w].pc = IF running = <<>> THEN "dispatch" ELSE "save",
                               ![w].next = "dispatch"]
             /\ UNCHANGED <<scan, active, lease>>
    <2>1. PICK pc \in {"dispatch", "save"} : pc = IF running = <<>> THEN "dispatch" ELSE "save"
      OBVIOUS
    <2>2. PICK j : j = [k EXCEPT !.sync = TRUE, !.todo = running, !.pc = pc, !.next = "dispatch"]
      OBVIOUS
    <2>3. work' = [work EXCEPT ![w] = j]
      BY <1>2, <1>9, <2>1, <2>2 DEF ServiceInv, JobsOK
    <2>4. j \in Job /\ j.rec = r /\ j.todo = running /\ j.pc = pc /\ j.next = "dispatch"
          /\ j.exec = k.exec /\ j.task = NoTask
      BY <1>3, <1>f, <1>8, <2>1, <2>2 DEF Job, Place, Chain
    <2>5. Sound(j, upstream')
      <3>1. \A n \in 1..Len(running) : Fit("dispatch", running[n].rec)
        BY <1>g, <1>8, TransitionFits DEF Starting
      <3>2. Promise(NoTask, r, running, "dispatch", upstream')
        BY <1>f, <1>g, <1>8, <3>1, PromiseStart DEF Place
      <3> QED
        BY <1>g, <2>1, <2>4, <3>2 DEF Sound
    <2>6. PICK pool : pool = HeldCopies
      OBVIOUS
    <2>7. JobsOK' /\ LeaseOK' /\ EnvOK' /\ HeldCopies' \subseteq pool
      <3>1. HeldCopies \subseteq pool /\ j.exec = work[w].exec /\ <<j.exec, j.rec>> \in pool
        BY <1>2, <1>3, <2>4, <2>6
      <3>2. UNCHANGED <<scan, active, lease, clock, ripe, lifeVars>>
        BY <1>5, <1>9
      <3> QED
        BY <1>1, <1>5, <2>3, <2>5, <3>1, <3>2, Turns
    <2> QED
      BY <1>1, <2>6, <2>7 DEF Kept, OnlyReads
  <1>10. \/ Proceed(w, r, Fail(r), "done")
         \/ Proceed(w, r, <<>>, "dispatch")
         \/ /\ work' = [work EXCEPT ![w].sync = TRUE, ![w].todo = running,
                               ![w].pc = IF running = <<>> THEN "dispatch" ELSE "save",
                               ![w].next = "dispatch"]
            /\ UNCHANGED <<scan, active, lease>>
    BY <1>2, <1>3, <1>8 DEF Ready
  <1> QED
    BY <1>6, <1>7, <1>9, <1>10

\* Of some tasks there is a first one.
LEMMA FirstTask ==
    ASSUME NEW S \in SUBSET Task, S # {}
    PROVE  \E x \in S : \A y \in S : x <= y
  <1>1. S \subseteq Nat
    BY TaskAssumption
  <1>2. PICK x \in S : \A y \in Nat : <<y, x>> \in OpToRel(<, Nat) => y \notin S
    BY <1>1, NatLessThanWellFounded, WFMin, Zenon
  <1>3. \A y \in S : ~(y < x)
    BY <1>1, <1>2, Zenon DEF OpToRel
  <1> QED
    BY <1>1, <1>3

LEMMA DispatchKeeps ==
    ASSUME ServiceInv, NEW w \in Worker, Dispatch(w)
    PROVE  Kept
  <1>1. Busy(w) /\ work[w].pc # "admit" /\ UNCHANGED <<storeVars, lifeVars>>
    BY DEF Dispatch, Busy
  <1>2. PICK k \in Job :
              /\ k = work[w] /\ Sound(k, upstream) /\ k.exec \in Execution /\ k.rec \in Record
              /\ <<k.exec, k.rec>> \in HeldCopies
              /\ records[k.exec] \in Record /\ <<k.exec, records[k.exec]>> \in Current
    BY <1>1, Hands
  <1>3. PICK r \in Record : r = k.rec
    BY <1>2
  <1>f. Fit(k.pc, r) /\ k.pc = "dispatch" /\ r.task = NoTask /\ k.task = NoTask
    BY <1>1, <1>2, <1>3, NoTaskYet DEF Dispatch, Starting
  <1>4. PICK unused \in SUBSET Task : unused = {t \in Task : upstream[t] = "none"}
    OBVIOUS
  <1>5. CASE Proceed(w, r, Fail(r), "done") /\ UNCHANGED envVars
    <2>1. PICK saves : saves = Fail(r) /\ Chain(r, saves)
      BY FailChain
    <2>2. <<work[w].exec, r>> \in HeldCopies \cup Current /\ work[w].task = NoTask
      BY <1>2, <1>3, <1>f
    <2>3. /\ UNCHANGED <<storeVars, clock, ripe, lifeVars>>
          /\ ProviderMoves /\ calls' \in [Execution -> Nat]
      BY <1>1, <1>5, ProviderStays DEF envVars, ServiceInv, EnvOK
    <2>4. Promise(NoTask, r, saves, "done", upstream')
      BY <1>f, <2>1, PromiseStart, FitsTheEnd DEF Place
    <2> QED
      BY <1>1, <1>5, <2>1, <2>2, <2>3, <2>4, GoesOn
  <1>6. CASE \E task \in Task \cup {NoTask} :
               /\ work' = [work EXCEPT ![w].pc = "await", ![w].spoke = FALSE, ![w].task = task]
               /\ calls' = [calls EXCEPT ![k.exec] = @ + 1]
               /\ ProviderMoves /\ (task # NoTask => r.request.async)
               /\ UNCHANGED <<scan, active, lease, clock, ripe>>
    <2>1. PICK task \in Task \cup {NoTask} :
               /\ work' = [work EXCEPT ![w].pc = "await", ![w].spoke = FALSE, ![w].task = task]
               /\ calls' = [calls EXCEPT ![k.exec] = @ + 1]
               /\ ProviderMoves /\ (task # NoTask => r.request.async)
               /\ UNCHANGED <<scan, active, lease, clock, ripe>>
      BY <1>6
    <2>2. PICK j : j = [k EXCEPT !.pc = "await", !.spoke = FALSE, !.task = task]
      OBVIOUS
    <2>3. work' = [work EXCEPT ![w] = j]
      BY <1>2, <2>1, <2>2 DEF ServiceInv, JobsOK
    <2>4. j \in Job /\ j.rec = r /\ j.pc = "await" /\ j.next = k.next /\ j.exec = k.exec
          /\ j.task = task
      BY <1>3, <2>1, <2>2 DEF Job, Place
    <2>5. Sound(j, upstream')
      <3>1. Fit("await", r)
        BY <1>f DEF Fit, Starting
      <3> QED
        BY <1>2, <2>1, <2>4, <3>1 DEF Sound
    <2>6. PICK pool : pool = HeldCopies
      OBVIOUS
    <2>7. calls' \in [Execution -> Nat]
      BY <1>2, <2>1 DEF ServiceInv, EnvOK
    <2>8. JobsOK' /\ LeaseOK' /\ EnvOK' /\ HeldCopies' \subseteq pool
      <3>1. HeldCopies \subseteq pool /\ j.exec = work[w].exec /\ <<j.exec, j.rec>> \in pool
        BY <1>2, <1>3, <2>4, <2>6
      <3>2. UNCHANGED <<scan, active, lease, clock, ripe, lifeVars>>
        BY <1>1, <2>1
      <3> QED
        BY <1>1, <2>1, <2>3, <2>5, <2>7, <3>1, <3>2, Turns
    <2> QED
      BY <1>1, <2>6, <2>8 DEF Kept, OnlyReads
  <1>7. \/ Proceed(w, r, Fail(r), "done") /\ UNCHANGED envVars
        \/ \E task \in Task \cup {NoTask} :
               /\ work' = [work EXCEPT ![w].pc = "await", ![w].spoke = FALSE, ![w].task = task]
               /\ calls' = [calls EXCEPT ![k.exec] = @ + 1]
               /\ ProviderMoves /\ (task # NoTask => r.request.async)
               /\ UNCHANGED <<scan, active, lease, clock, ripe>>
    <2>1. ASSUME work' = [work EXCEPT ![w].pc = "await", ![w].spoke = FALSE, ![w].task = NoTask],
                 calls' = [calls EXCEPT ![k.exec] = @ + 1], UNCHANGED upstream,
                 UNCHANGED <<scan, active, lease, clock, ripe>>
          PROVE  \E task \in Task \cup {NoTask} :
                   /\ work' = [work EXCEPT ![w].pc = "await", ![w].spoke = FALSE, ![w].task = task]
                   /\ calls' = [calls EXCEPT ![k.exec] = @ + 1]
                   /\ ProviderMoves /\ (task # NoTask => r.request.async)
                   /\ UNCHANGED <<scan, active, lease, clock, ripe>>
      <3>1. NoTask \in Task \cup {NoTask} /\ ProviderMoves
        BY <2>1, ProviderStays DEF ServiceInv
      <3> QED
        BY <2>1, <3>1
    <2>2. PICK t : t = CHOOSE x \in unused : \A y \in unused : x <= y
      OBVIOUS
    <2>3. ASSUME unused # {}, r.request.async, calls' = [calls EXCEPT ![k.exec] = @ + 1],
                 work' = [work EXCEPT ![w].pc = "await", ![w].spoke = FALSE, ![w].task = t],
                 upstream' = [upstream EXCEPT ![t] = "queued"],
                 UNCHANGED <<scan, active, lease, clock, ripe>>
          PROVE  \E task \in Task \cup {NoTask} :
                   /\ work' = [work EXCEPT ![w].pc = "await", ![w].spoke = FALSE, ![w].task = task]
                   /\ calls' = [calls EXCEPT ![k.exec] = @ + 1]
                   /\ ProviderMoves /\ (task # NoTask => r.request.async)
                   /\ UNCHANGED <<scan, active, lease, clock, ripe>>
      <3>1. t \in Task /\ upstream[t] = "none"
        BY <1>4, <2>2, <2>3, FirstTask
      <3>2. ProviderMoves
        BY <2>3, <3>1 DEF ServiceInv, EnvOK, UpstreamState, ProviderMoves, Outcome
      <3> QED
        BY <2>3, <3>1, <3>2
    <2> QED
      BY <1>2, <1>3, <1>4, <2>1, <2>2, <2>3 DEF Dispatch
  <1> QED
    BY <1>5, <1>6, <1>7

LEMMA ReturnKeeps ==
    ASSUME ServiceInv, NEW w \in Worker, Return(w)
    PROVE  Kept
  <1>1. Busy(w) /\ work[w].pc # "admit" /\ UNCHANGED <<storeVars, envVars, lifeVars>>
    BY DEF Return, Busy
  <1>2. PICK k \in Job :
              /\ k = work[w] /\ Sound(k, upstream) /\ k.exec \in Execution /\ k.rec \in Record
              /\ <<k.exec, k.rec>> \in HeldCopies
              /\ records[k.exec] \in Record /\ <<k.exec, records[k.exec]>> \in Current
    BY <1>1, Hands
  <1>3. PICK r \in Record : r = k.rec
    BY <1>2
  <1>f. /\ r.task = NoTask /\ (r.request.async => ~IsTerminal(r.status))
        /\ k.task # NoTask => r.request.async
        /\ VersionOK(r) /\ VersionOK(records[k.exec])
        /\ records[k.exec].request = r.request
    <2>1. work[w].pc \in Starting
      BY DEF Return, Starting
    <2> QED
      BY <1>1, <1>2, <1>3, <2>1, NoTaskYet, HandVersions
  <1>4. PICK from \in Record : /\ from = Returned(k) /\ <<k.exec, from>> \in HeldCopies \cup Current
                               /\ from.task = NoTask /\ Fit("dispatch", from)
    <2>1. CASE Streams(k.rec)
      <3>1. Returned(k) = records[k.exec] /\ ~r.request.async
        BY <1>3, <2>1 DEF Returned, Streams
      <3>2. records[k.exec].task = NoTask /\ Fit("dispatch", records[k.exec])
        BY <1>f, <3>1 DEF VersionOK, Fit
      <3> QED
        BY <1>2, <3>1, <3>2
    <2>2. CASE ~Streams(k.rec)
      <3>1. Returned(k) = r /\ Fit("dispatch", r)
        BY <1>3, <1>f, <2>2 DEF Returned, Fit
      <3> QED
        BY <1>2, <1>3, <1>f, <3>1
    <2> QED
      BY <2>1, <2>2
  <1>5. ASSUME NEW c \in Record
        PROVE  \E b \in Record : /\ b = [c EXCEPT !.attempts = @ + 1] /\ Adopts(c, b)
                                 /\ b.task = c.task /\ b.status = c.status
                                 /\ b.request = c.request
    <2>1. PICK n \in Nat : n = c.attempts + 1
      BY DEF Record
    <2>2. [c EXCEPT !.attempts = n] \in Record
      BY DEF Record
    <2>3. PICK b \in Record : b = [c EXCEPT !.attempts = n]
      BY <2>2
    <2>4. b.rev = c.rev /\ b.request = c.request /\ b.status = c.status /\ b.attempts = n
          /\ b.task = c.task /\ b.cancelling = c.cancelling
      BY <2>3 DEF Record
    <2> QED
      BY <2>1, <2>3, <2>4 DEF Adopts, VersionOK
  <1>6. "none" \in EventType /\ "none" \notin LifecycleEvent \cup {"retry.scheduled"}
        /\ "retry.succeeded" \in EventType
        /\ "retry.succeeded" \notin LifecycleEvent \cup {"retry.scheduled"}
    BY DEF EventType, LifecycleEvent, RetryEvent
  <1>7. ASSUME NEW sound \in BOOLEAN, ReturnSuccess(w, sound), k.task = NoTask
        PROVE  \E saves : /\ Proceed(w, from, saves, "done")
                          /\ Promise(k.task, from, saves, "done", upstream')
    <2>1. PICK b \in Record : /\ b = [from EXCEPT !.attempts = @ + 1] /\ Adopts(from, b)
                              /\ b.task = from.task
      BY <1>5
    <2>2. PICK closed : closed = IF b.cycled THEN Note(b, "retry.succeeded") ELSE <<>>
      OBVIOUS
    <2>3. Chain(b, closed)
      BY <1>6, <2>2, NoteChain, ChainNone
    <2>4. PICK last \in Record : last = After(b, closed)
      BY <2>3, ChainAfter
    <2>5. PICK ending : ending = Succeed(last, "succeeded") /\ Chain(last, ending)
      BY SucceedChain
    <2>6. Chain(b, closed \o ending)
      BY <2>3, <2>4, <2>5, ChainJoin
    <2>7. PICK saves : saves = IF sound THEN closed \o ending ELSE Fail(b)
      OBVIOUS
    <2>8. Chain(b, saves)
      BY <2>6, <2>7, FailChain
    <2>9. Proceed(w, from, saves, "done")
      BY <1>2, <1>4, <1>7, <2>1, <2>2, <2>4, <2>5, <2>7 DEF ReturnSuccess
    <2>10. Promise(NoTask, from, saves, "done", upstream')
      BY <1>4, <2>1, <2>8, PromiseTried, FitsTheEnd DEF Place
    <2> QED
      BY <1>7, <2>9, <2>10
  <1>8. ASSUME ReturnFailure(w), k.task = NoTask
        PROVE  \E saves, next : /\ Proceed(w, from, saves, next)
                                /\ Promise(k.task, from, saves, next, upstream')
    <2>1. PICK b \in Record : /\ b = [from EXCEPT !.attempts = @ + 1] /\ Adopts(from, b)
                              /\ b.task = from.task /\ b.status = from.status
                              /\ b.request = from.request
      BY <1>5
    <2>2. PICK tried : tried = Attempted(from)
      OBVIOUS
    <2>3. tried = [b EXCEPT !.rev = @ + 1]
      BY <2>1, <2>2 DEF Attempted, Record
    <2>4. StepOK(b, tried, "none")
      BY <1>6, <2>3, NoteStep
    <2>5. tried \in Record
      BY <2>4 DEF StepOK
    <2>6. PICK persisted : persisted = Saves(tried, "none", "plain")
      OBVIOUS
    <2>7. Chain(b, persisted) /\ After(b, persisted) = tried
      BY <2>4, <2>6, ChainOne
    <2>e. ASSUME NEW saves, Chain(b, saves)
          PROVE  Promise(NoTask, from, saves, "done", upstream')
      BY <1>4, <2>1, <2>e, PromiseTried, FitsTheEnd DEF Place
    <2>8. CASE Proceed(w, from, persisted, "dispatch")
      <3>1. tried.task = b.task /\ tried.status = b.status /\ tried.request = b.request
        BY <2>3 DEF Record
      <3>2. Fit("dispatch", tried)
        BY <1>4, <2>1, <3>1 DEF Fit
      <3>3. \A n \in 1..Len(persisted) : Fit("dispatch", persisted[n].rec)
        BY <2>6, <3>2, FitOne
      <3>4. Promise(NoTask, from, persisted, "dispatch", upstream')
        BY <1>4, <2>1, <2>7, <3>3, PromiseTried DEF Place
      <3> QED
        BY <1>8, <2>8, <3>4
    <2>9. CASE Proceed(w, from, persisted \o ScheduleRetry(tried), "done")
      <3>1. PICK rest : rest = ScheduleRetry(tried) /\ Chain(tried, rest)
        BY <2>5, ScheduleChain
      <3>2. PICK saves : saves = persisted \o rest /\ Chain(b, saves)
        BY <2>7, <3>1, ChainJoin
      <3> QED
        BY <1>8, <2>9, <2>e, <3>1, <3>2
    <2>10. CASE Proceed(w, from, persisted \o Fail(tried), "done")
      <3>1. PICK rest : rest = Fail(tried) /\ Chain(tried, rest)
        BY <2>5, FailChain
      <3>2. PICK saves : saves = persisted \o rest /\ Chain(b, saves)
        BY <2>7, <3>1, ChainJoin
      <3> QED
        BY <1>8, <2>10, <2>e, <3>1, <3>2
    <2>11. \/ Proceed(w, from, persisted, "dispatch")
           \/ Proceed(w, from, persisted \o ScheduleRetry(tried), "done")
           \/ Proceed(w, from, persisted \o Fail(tried), "done")
      BY <1>2, <1>4, <1>8, <2>2, <2>6 DEF ReturnFailure
    <2> QED
      BY <2>8, <2>9, <2>10, <2>11
  <1>9. ASSUME NEW later \in BOOLEAN, ReturnTask(w, later), k.task # NoTask
        PROVE  \E saves : /\ Proceed(w, r, saves, "done")
                          /\ Promise(k.task, r, saves, "done", upstream')
    <2>1. PICK b \in Record : b = [r EXCEPT !.attempts = @ + 1] /\ Adopts(r, b)
      BY <1>5
    <2>2. PICK task \in Task \cup {NoTask} : task = k.task
      BY DEF Job
    <2>3. [b EXCEPT !.task = task, !.waits = later] \in Record
      BY DEF Record
    <2>4. PICK c \in Record : c = [b EXCEPT !.task = task, !.waits = later]
      BY <2>3
    <2>5. c = [r EXCEPT !.attempts = @ + 1, !.task = k.task, !.waits = later]
      BY <2>1, <2>2, <2>4 DEF Record
    <2>6. Adopts(r, c) /\ c.task = task /\ c.status \notin Outcome
      <3>1. /\ c.rev = b.rev /\ c.request = b.request /\ c.status = b.status /\ c.task = task
            /\ c.attempts = b.attempts /\ c.cancelling = b.cancelling
        BY <2>4 DEF Record
      <3>2. b.status = r.status /\ b.request = r.request
        BY <2>1 DEF Record
      <3>3. r.request.async /\ ~IsTerminal(r.status) /\ task # NoTask
        BY <1>9, <1>f, <2>2
      <3>4. Adopts(r, c)
        BY <1>f, <2>1, <3>1, <3>2, <3>3 DEF Adopts, VersionOK
      <3> QED
        BY <3>1, <3>2, <3>3, <3>4, OutcomesEnd
    <2>7. PICK sound \in BOOLEAN : Proceed(w, r, Observe(c, upstream[k.task], sound), "done")
      BY <1>2, <1>3, <1>9, <2>5 DEF ReturnTask
    <2>8. PICK s : s = upstream[k.task] /\ s = upstream'[k.task]
      BY <1>1 DEF envVars
    <2>9. PICK saves : saves = Observe(c, s, sound) /\ Chain(c, saves) /\ Told(saves, s)
      BY <2>6, ObserveChain, ToldObserve
    <2>10. Promise(k.task, r, saves, "done", upstream')
      <3>1. \A t \in {r.task, k.task} \ {NoTask} : Told(saves, upstream'[t])
        BY <1>f, <2>8, <2>9
      <3> QED
        BY <1>f, <2>2, <2>6, <2>9, <3>1, PromiseDone
    <2> QED
      BY <2>7, <2>8, <2>9, <2>10
  <1>10. \E c \in Record : /\ <<k.exec, c>> \in HeldCopies \cup Current
                           /\ \E saves, next : /\ Proceed(w, c, saves, next)
                                               /\ Promise(k.task, c, saves, next, upstream')
    <2>1. CASE ~r.request.async /\ \E sound \in BOOLEAN : ReturnSuccess(w, sound)
      BY <1>4, <1>7, <1>f, <2>1
    <2>2. CASE k.task = NoTask /\ ReturnFailure(w)
      BY <1>4, <1>8, <2>2
    <2>3. CASE k.task # NoTask /\ \E later \in BOOLEAN : ReturnTask(w, later)
      BY <1>2, <1>3, <1>9, <2>3
    <2> QED
      BY <1>2, <1>3, <2>1, <2>2, <2>3 DEF Return
  <1>11. PICK c \in Record : /\ <<k.exec, c>> \in HeldCopies \cup Current
                             /\ \E saves, next : /\ Proceed(w, c, saves, next)
                                                 /\ Promise(k.task, c, saves, next, upstream')
    BY <1>10
  <1>12. PICK saves, next : /\ Proceed(w, c, saves, next)
                            /\ Promise(work[w].task, c, saves, next, upstream')
    BY <1>2, <1>11
  <1>13. /\ UNCHANGED <<storeVars, clock, ripe, lifeVars>>
         /\ ProviderMoves /\ calls' \in [Execution -> Nat]
    BY <1>1, ProviderStays DEF envVars, ServiceInv, EnvOK
  <1> QED
    BY <1>1, <1>2, <1>11, <1>12, <1>13, GoesOn

LEMMA GiveUpKeeps ==
    ASSUME ServiceInv, NEW w \in Worker, GiveUp(w)
    PROVE  Kept
  <1>1. Busy(w) /\ End(w) /\ UNCHANGED <<storeVars, envVars, lifeVars>>
        /\ (EndScan(w) \/ UNCHANGED scan)
    BY DEF GiveUp, Busy
  <1>2. /\ scan' \in [Instance -> SUBSET (Execution \X OpenRecord)]
        /\ \A i \in Instance : scan'[i] \subseteq scan[i]
    BY <1>1, ScanEnds
  <1> QED
    BY <1>1, <1>2, Ends

LEMMA EmitReadKeeps ==
    ASSUME ServiceInv, NEW w \in Worker, EmitRead(w)
    PROVE  Kept
  <1>1. Busy(w) /\ work[w].pc # "admit"
        /\ UNCHANGED <<storeVars, scan, active, lease, envVars, lifeVars>>
    BY DEF EmitRead, Busy
  <1>2. PICK k \in Job :
              /\ k = work[w] /\ Sound(k, upstream) /\ k.exec \in Execution /\ k.rec \in Record
              /\ <<k.exec, k.rec>> \in HeldCopies
              /\ records[k.exec] \in Record /\ <<k.exec, records[k.exec]>> \in Current
    BY <1>1, Hands
  <1>3. PICK r \in Record : r = records[k.exec]
    BY <1>2
  <1>4. PICK j : j = [k EXCEPT !.pc = "emit", !.rec = r]
    OBVIOUS
  <1>5. work' = [work EXCEPT ![w] = j]
    BY <1>2, <1>3, <1>4 DEF EmitRead, ServiceInv, JobsOK
  <1>6. j \in Job /\ j.rec = r /\ j.pc = "emit" /\ j.next = k.next /\ j.exec = k.exec
        /\ j.task = k.task
    BY <1>4 DEF Job, Place
  <1>7. Sound(j, upstream')
    <2>1. ~r.request.async /\ VersionOK(r) /\ k.task = NoTask
      <3>1. work[w].pc \in Starting /\ ~k.rec.request.async
        BY <1>2 DEF EmitRead, Streams, Starting
      <3> QED
        BY <1>1, <1>2, <1>3, <3>1, NoTaskYet, HandVersions
    <2>2. Fit("emit", r)
      BY <2>1 DEF Fit, VersionOK
    <2> QED
      BY <1>2, <1>6, <2>1, <2>2 DEF Sound
  <1>8. PICK pool : pool = HeldCopies \cup Current
    OBVIOUS
  <1>9. HeldCopies \subseteq pool /\ j.exec = work[w].exec /\ <<j.exec, j.rec>> \in pool
    BY <1>2, <1>3, <1>6, <1>8
  <1>10. /\ UNCHANGED <<scan, active, lease, clock, ripe, lifeVars>>
         /\ ProviderMoves /\ calls' \in [Execution -> Nat]
    BY <1>1, ProviderStays DEF envVars, ServiceInv, EnvOK
  <1>11. JobsOK' /\ LeaseOK' /\ EnvOK' /\ HeldCopies' \subseteq pool
    BY <1>1, <1>5, <1>7, <1>9, <1>10, Turns
  <1> QED
    BY <1>1, <1>8, <1>11 DEF Kept, OnlyReads

LEMMA EmitSaveKeeps ==
    ASSUME ServiceInv, NEW w \in Worker, EmitSave(w)
    PROVE  Kept
  <1>1. Busy(w) /\ work[w].pc # "admit"
        /\ UNCHANGED <<scan, active, lease, envVars, lifeVars>>
    BY DEF EmitSave, Busy
  <1>2. PICK k \in Job :
              /\ k = work[w] /\ Sound(k, upstream) /\ k.exec \in Execution /\ k.rec \in Record
              /\ <<k.exec, k.rec>> \in HeldCopies
              /\ records[k.exec] \in Record /\ <<k.exec, records[k.exec]>> \in Current
    BY <1>1, Hands
  <1>3. /\ UNCHANGED <<scan, active, lease, clock, ripe, lifeVars>>
        /\ ProviderMoves /\ calls' \in [Execution -> Nat]
    BY <1>1, ProviderStays DEF envVars, ServiceInv, EnvOK
  <1>f. Fit("emit", k.rec) /\ k.rec.task = NoTask /\ k.task = NoTask
    <2>1. work[w].pc = "emit" /\ work[w].pc \in Starting
      BY DEF EmitSave, Starting
    <2> QED
      BY <1>1, <1>2, <2>1, NoTaskYet
  <1>4. "none" \in EventType /\ "none" \notin LifecycleEvent \cup {"retry.scheduled"}
    BY DEF EventType, LifecycleEvent
  <1>5. StepOK(k.rec, [k.rec EXCEPT !.rev = @ + 1], "none")
    BY <1>2, <1>4, NoteStep
  <1>6. PICK s \in Record : s = [k.rec EXCEPT !.rev = @ + 1] /\ StepOK(k.rec, s, "none")
    BY <1>5 DEF StepOK
  <1>7. CASE /\ Write(k.exec, s, "none")
             /\ work' = [work EXCEPT ![w].pc = "await", ![w].rec = s, ![w].spoke = TRUE]
    <2>1. PICK j : j = [k EXCEPT !.pc = "await", !.rec = s, !.spoke = TRUE]
      OBVIOUS
    <2>2. work' = [work EXCEPT ![w] = j]
      BY <1>2, <1>7, <2>1 DEF ServiceInv, JobsOK
    <2>3. j \in Job /\ j.rec = s /\ j.pc = "await" /\ j.next = k.next /\ j.exec = k.exec
          /\ j.task = k.task
      BY <2>1 DEF Job, Place
    <2>s. s.task = NoTask /\ Fit("await", s)
      <3>1. s.task = k.rec.task /\ s.status = k.rec.status /\ s.request = k.rec.request
        BY <1>6 DEF Record
      <3> QED
        BY <1>f, <3>1 DEF Fit, Starting
    <2>4. Sound(j, upstream')
      BY <1>2, <1>f, <2>3, <2>s DEF Sound
    <2>5. PICK pool : pool = HeldCopies \cup {<<k.exec, s>>}
      OBVIOUS
    <2>6. HeldCopies \subseteq pool /\ j.exec = work[w].exec /\ <<j.exec, j.rec>> \in pool
      BY <1>2, <2>3, <2>5
    <2>7. JobsOK' /\ LeaseOK' /\ EnvOK' /\ HeldCopies' \subseteq pool
      BY <1>1, <1>3, <2>2, <2>4, <2>6, Turns
    <2>8. Derives
      <3>1. PICK c \in HeldCopies : c = <<k.exec, k.rec>>
        BY <1>2
      <3>2. c[1] = k.exec /\ c[2] = k.rec
        BY <3>1
      <3>3. /\ Adopts(c[2], k.rec) /\ StepOK(k.rec, s, "none") /\ Write(c[1], s, "none")
            /\ HeldCopies' \subseteq HeldCopies \cup {<<c[1], s>>}
        BY <1>2, <1>6, <1>7, <2>5, <2>7, <3>2, AdoptsItself
      <3> QED
        BY <1>2, <1>4, <1>f, <2>s, <3>2, <3>3 DEF Derives
    <2> QED
      BY <2>7, <2>8 DEF Kept
  <1>8. CASE work' = [work EXCEPT ![w].pc = "await"] /\ UNCHANGED storeVars
    <2>1. PICK j : j = [k EXCEPT !.pc = "await"]
      OBVIOUS
    <2>2. work' = [work EXCEPT ![w] = j]
      BY <1>2, <1>8, <2>1 DEF ServiceInv, JobsOK
    <2>3. j \in Job /\ j.rec = k.rec /\ j.pc = "await" /\ j.next = k.next /\ j.exec = k.exec
          /\ j.task = k.task
      BY <2>1 DEF Job, Place
    <2>4. Sound(j, upstream')
      <3>1. Fit("await", k.rec)
        BY <1>f DEF Fit, Starting
      <3> QED
        BY <1>2, <1>f, <2>3, <3>1 DEF Sound
    <2>5. PICK pool : pool = HeldCopies
      OBVIOUS
    <2>6. HeldCopies \subseteq pool /\ j.exec = work[w].exec /\ <<j.exec, j.rec>> \in pool
      BY <1>2, <2>3, <2>5
    <2>7. JobsOK' /\ LeaseOK' /\ EnvOK' /\ HeldCopies' \subseteq pool
      BY <1>1, <1>3, <2>2, <2>4, <2>6, Turns
    <2> QED
      BY <1>8, <2>5, <2>7 DEF Kept, OnlyReads
  <1>9. \/ /\ Write(k.exec, s, "none")
           /\ work' = [work EXCEPT ![w].pc = "await", ![w].rec = s, ![w].spoke = TRUE]
        \/ work' = [work EXCEPT ![w].pc = "await"] /\ UNCHANGED storeVars
    BY <1>2, <1>6 DEF EmitSave
  <1> QED
    BY <1>7, <1>8, <1>9

LEMMA PollKeeps ==
    ASSUME ServiceInv, NEW w \in Worker, Poll(w)
    PROVE  Kept
  <1>1. Busy(w) /\ work[w].pc # "admit" /\ UNCHANGED <<storeVars, envVars, lifeVars>>
    BY DEF Poll, Busy
  <1>2. PICK k \in Job :
              /\ k = work[w] /\ Sound(k, upstream) /\ k.exec \in Execution /\ k.rec \in Record
              /\ <<k.exec, k.rec>> \in HeldCopies
              /\ records[k.exec] \in Record /\ <<k.exec, records[k.exec]>> \in Current
    BY <1>1, Hands
  <1>3. PICK r \in Record : r = k.rec
    BY <1>2
  <1>s. PICK s : s = upstream[k.rec.task] /\ s = upstream'[k.rec.task]
    BY <1>1 DEF envVars
  <1>f. k.task = NoTask /\ VersionOK(r)
    <2>1. k.pc = "poll"
      BY <1>2 DEF Poll
    <2> QED
      BY <1>1, <1>2, <1>3, <2>1, HandVersions DEF Sound
  <1>4. ASSUME NEW later \in BOOLEAN
        PROVE  \E b \in Record : /\ b = [r EXCEPT !.waits = later] /\ Adopts(r, b)
                                 /\ b.task = r.task /\ b.status = r.status
    <2>1. [r EXCEPT !.waits = later] \in Record
      BY DEF Record
    <2>2. PICK b \in Record : b = [r EXCEPT !.waits = later]
      BY <2>1
    <2>3. b.rev = r.rev /\ b.request = r.request /\ b.status = r.status
          /\ b.attempts = r.attempts /\ b.task = r.task /\ b.cancelling = r.cancelling
      BY <2>2 DEF Record
    <2> QED
      BY <2>2, <2>3 DEF Adopts, VersionOK
  <1>p. ASSUME NEW b \in Record, Adopts(r, b), b.task = r.task, NEW saves, Chain(b, saves),
               r.task # NoTask => Told(saves, s)
        PROVE  Promise(k.task, r, saves, "done", upstream')
    <2>1. \A t \in {r.task, k.task} \ {NoTask} : Told(saves, upstream'[t])
      BY <1>3, <1>s, <1>f, <1>p
    <2> QED
      BY <1>f, <1>p, <2>1, PromiseDone
  <1>o. ASSUME NEW b, b.task = r.task, b.status = r.status, r.task # NoTask
        PROVE  b.status \notin Outcome
    BY <1>f, <1>o, OutcomesEnd DEF VersionOK
  <1>5. \E saves : Proceed(w, r, saves, "done") /\ Promise(k.task, r, saves, "done", upstream')
    <2>1. CASE Proceed(w, r, Note([r EXCEPT !.waits = TRUE], "none"), "done")
      <3>1. PICK b \in Record : /\ b = [r EXCEPT !.waits = TRUE] /\ Adopts(r, b)
                                /\ b.task = r.task /\ b.status = r.status
        BY <1>4
      <3>2. PICK saves : saves = Note(b, "none") /\ Chain(b, saves)
        BY NoteChain DEF EventType, LifecycleEvent
      <3>3. r.task # NoTask => Told(saves, s)
        BY <1>o, <3>1, <3>2, ToldNote
      <3> QED
        BY <1>p, <2>1, <3>1, <3>2, <3>3
    <2>2. CASE \E later, sound \in BOOLEAN :
                 Proceed(w, r, Observe([r EXCEPT !.waits = later], s, sound), "done")
      <3>1. PICK later \in BOOLEAN, sound \in BOOLEAN :
                 Proceed(w, r, Observe([r EXCEPT !.waits = later], s, sound), "done")
        BY <2>2
      <3>2. PICK b \in Record : /\ b = [r EXCEPT !.waits = later] /\ Adopts(r, b)
                                /\ b.task = r.task /\ b.status = r.status
        BY <1>4
      <3>3. PICK saves : saves = Observe(b, s, sound) /\ Chain(b, saves)
        BY ObserveChain
      <3>4. r.task # NoTask => Told(saves, s)
        BY <1>o, <3>2, <3>3, ToldObserve
      <3> QED
        BY <1>p, <3>1, <3>2, <3>3, <3>4
    <2>3. \/ Proceed(w, r, Note([r EXCEPT !.waits = TRUE], "none"), "done")
          \/ \E later, sound \in BOOLEAN :
                 Proceed(w, r, Observe([r EXCEPT !.waits = later], s, sound), "done")
      BY <1>2, <1>3, <1>s DEF Poll
    <2> QED
      BY <2>1, <2>2, <2>3
  <1>6. PICK saves : /\ Proceed(w, r, saves, "done")
                     /\ Promise(work[w].task, r, saves, "done", upstream')
    BY <1>2, <1>5
  <1>7. <<work[w].exec, r>> \in HeldCopies \cup Current
    BY <1>2, <1>3
  <1>8. /\ UNCHANGED <<storeVars, clock, ripe, lifeVars>>
        /\ ProviderMoves /\ calls' \in [Execution -> Nat]
    BY <1>1, ProviderStays DEF envVars, ServiceInv, EnvOK
  <1> QED
    BY <1>1, <1>6, <1>7, <1>8, GoesOn

LEMMA CancelCallKeeps ==
    ASSUME ServiceInv, NEW w \in Worker, CancelCall(w)
    PROVE  Kept
  <1>1. Busy(w) /\ work[w].pc # "admit" /\ UNCHANGED <<storeVars, calls, clock, ripe, lifeVars>>
    BY DEF CancelCall, Busy
  <1>2. PICK k \in Job :
              /\ k = work[w] /\ Sound(k, upstream) /\ k.exec \in Execution /\ k.rec \in Record
              /\ <<k.exec, k.rec>> \in HeldCopies
              /\ records[k.exec] \in Record /\ <<k.exec, records[k.exec]>> \in Current
    BY <1>1, Hands
  <1>3. PICK held \in Record : held = k.rec
    BY <1>2
  <1>s. PICK task, s : task = held.task /\ s = upstream[task]
    OBVIOUS
  <1>4. PICK r \in Record : r = [held EXCEPT !.waits = TRUE]
    <2>1. [held EXCEPT !.waits = TRUE] \in Record
      BY DEF Record
    <2> QED
      BY <2>1
  <1>f. /\ k.task = NoTask /\ VersionOK(held) /\ task \in Task
        /\ ~IsTerminal(held.status) /\ task # NoTask
    <2>1. k.pc = "cancelcall"
      BY <1>2 DEF CancelCall
    <2>2. k.task = NoTask /\ held.cancelling /\ VersionOK(held)
      BY <1>1, <1>2, <1>3, <2>1, HandVersions DEF Sound, Fit
    <2> QED
      BY <1>s, <2>2 DEF VersionOK, Record
  <1>5. Adopts(held, r) /\ r.task = task /\ r.status \notin Outcome
    <2>1. /\ r.rev = held.rev /\ r.request = held.request /\ r.status = held.status
          /\ r.attempts = held.attempts /\ r.task = held.task /\ r.cancelling = held.cancelling
      BY <1>4 DEF Record
    <2> QED
      BY <1>s, <1>f, <2>1, OutcomesEnd DEF Adopts, VersionOK
  <1>6. "none" \in EventType /\ "none" \notin LifecycleEvent \cup {"retry.scheduled"}
    BY DEF EventType, LifecycleEvent
  <1>7. \/ /\ Proceed(w, held, Saves([r EXCEPT !.rev = @ + 1], "none", "detached"), "done")
           /\ UNCHANGED upstream
        \/ /\ s \notin TerminalStatus /\ upstream' = [upstream EXCEPT ![task] = "cancelled"]
           /\ Proceed(w, held, Observe(r, "cancelled", TRUE), "done")
        \/ /\ UNCHANGED upstream
           /\ \E sound \in BOOLEAN : Proceed(w, held, Observe(r, s, sound), "done")
    BY <1>2, <1>3, <1>s, <1>4, <1>5 DEF CancelCall
  <1>8. \E saves : /\ Proceed(w, held, saves, "done") /\ Chain(r, saves)
                   /\ Told(saves, upstream'[task]) /\ ProviderMoves
    <2>1. CASE /\ Proceed(w, held, Saves([r EXCEPT !.rev = @ + 1], "none", "detached"), "done")
               /\ UNCHANGED upstream
      <3>1. PICK next : next = [r EXCEPT !.rev = @ + 1] /\ StepOK(r, next, "none")
        BY <1>6, NoteStep
      <3>2. next.status \notin Outcome
        BY <1>5, <1>6, <3>1 DEF StepOK
      <3>3. PICK saves : /\ saves = Saves(next, "none", "detached") /\ Chain(r, saves)
                         /\ Told(saves, s)
        BY <3>1, <3>2, ChainOne, ToldOne
      <3> QED
        BY <1>s, <2>1, <3>1, <3>3, ProviderStays DEF ServiceInv
    <2>2. CASE /\ s \notin TerminalStatus /\ upstream' = [upstream EXCEPT ![task] = "cancelled"]
               /\ Proceed(w, held, Observe(r, "cancelled", TRUE), "done")
      <3>1. PICK saves : /\ saves = Observe(r, "cancelled", TRUE) /\ Chain(r, saves)
                         /\ Told(saves, "cancelled")
        BY <1>5, ObserveChain, ToldObserve
      <3>2. upstream'[task] = "cancelled"
        BY <1>f, <2>2 DEF ServiceInv, EnvOK
      <3>3. ProviderMoves
        BY <1>s, <1>f, <2>2 DEF ServiceInv, EnvOK, UpstreamState, ProviderMoves, Outcome,
                                TerminalStatus
      <3> QED
        BY <2>2, <3>1, <3>2, <3>3
    <2>3. CASE /\ UNCHANGED upstream
               /\ \E sound \in BOOLEAN : Proceed(w, held, Observe(r, s, sound), "done")
      <3>1. PICK sound \in BOOLEAN : Proceed(w, held, Observe(r, s, sound), "done")
        BY <2>3
      <3>2. PICK saves : /\ saves = Observe(r, s, sound) /\ Chain(r, saves)
                         /\ Told(saves, s)
        BY <1>5, ObserveChain, ToldObserve
      <3> QED
        BY <1>s, <2>3, <3>1, <3>2, ProviderStays DEF ServiceInv
    <2> QED
      BY <1>7, <2>1, <2>2, <2>3
  <1>9. PICK saves : /\ Proceed(w, held, saves, "done") /\ Chain(r, saves)
                     /\ Told(saves, upstream'[task]) /\ ProviderMoves
    BY <1>8
  <1>10. Promise(work[w].task, held, saves, "done", upstream')
    <2>1. \A t \in {held.task, k.task} \ {NoTask} : Told(saves, upstream'[t])
      BY <1>s, <1>f, <1>9
    <2> QED
      BY <1>2, <1>s, <1>f, <1>5, <1>9, <2>1, PromiseDone
  <1>11. <<work[w].exec, held>> \in HeldCopies \cup Current
    BY <1>2, <1>3
  <1>12. calls' \in [Execution -> Nat]
    BY <1>1 DEF ServiceInv, EnvOK
  <1> QED
    BY <1>1, <1>9, <1>10, <1>11, <1>12, GoesOn

LEMMA CutKeeps ==
    ASSUME ServiceInv, NEW w \in Worker, Cut(w)
    PROVE  Kept
  <1>1. UNCHANGED <<storeVars, scan, active, lease, envVars, lifeVars>>
    BY DEF Cut
  <1>2. ASSUME NEW v \in Worker
        PROVE  \/ work'[v] = work[v] \/ work'[v] = Idle
               \/ Busy(v) /\ work'[v] = [work[v] EXCEPT !.cut = TRUE]
    BY DEF Cut
  <1>3. work' \in [Worker -> Job \cup {Idle}]
    <2>1. ASSUME NEW v \in Worker PROVE work'[v] \in Job \cup {Idle}
      <3>1. work[v] \in Job \cup {Idle} /\ (Busy(v) => work[v] \in Job)
        BY BusyWorker DEF ServiceInv, JobsOK
      <3>2. ASSUME NEW k \in Job PROVE [k EXCEPT !.cut = TRUE] \in Job
        BY DEF Job
      <3> QED
        BY <1>2, <3>1, <3>2
    <2>2. work' = [v \in Worker |-> work'[v]]
      BY DEF Cut
    <2> QED
      BY <2>1, <2>2
  <1>4. scan' \in [Instance -> SUBSET (Execution \X OpenRecord)]
        /\ \A i \in Instance : scan'[i] \subseteq scan[i]
    BY <1>1 DEF ServiceInv, JobsOK
  <1>p. ProviderMoves
    BY <1>1, ProviderStays DEF ServiceInv, envVars
  <1>5. JobsOK' /\ HeldCopies' \subseteq HeldCopies
    BY <1>2, <1>3, <1>4, <1>p, WorkersStop DEF ServiceInv
  <1>6. ASSUME NEW v \in Worker
        PROVE  \/ work'[v] = work[v] \/ work'[v] = Idle \/ IsCanceller(v)
               \/ work'[v].pc = "admit"
               \/ Driving(v) /\ work'[v].exec = work[v].exec
    <2>1. CASE Busy(v) /\ work'[v] = [work[v] EXCEPT !.cut = TRUE]
      <3>1. work[v] \in Job
        BY <2>1, BusyWorker DEF ServiceInv
      <3>2. work'[v].pc = work[v].pc /\ work'[v].exec = work[v].exec
        BY <2>1, <3>1 DEF Job
      <3> QED
        BY <2>1, <3>2 DEF Driving
    <2> QED
      BY <1>2, <2>1
  <1>7. LeaseOK'
    BY <1>1, <1>6, OwnersStay DEF ServiceInv, lifeVars
  <1>8. EnvOK'
    BY <1>1 DEF ServiceInv, EnvOK, envVars, lifeVars
  <1> QED
    BY <1>1, <1>5, <1>7, <1>8 DEF Kept, OnlyReads

LEMMA HeartbeatLostKeeps ==
    ASSUME ServiceInv, NEW w \in Worker, HeartbeatLost(w)
    PROVE  Kept
  <1>1. /\ Busy(w) /\ work[w].pc # "admit"
        /\ UNCHANGED <<storeVars, scan, active, lease, envVars, lifeVars>>
    BY DEF HeartbeatLost
  <1>2. PICK k \in Job :
              /\ k = work[w] /\ Sound(k, upstream) /\ k.exec \in Execution /\ k.rec \in Record
              /\ <<k.exec, k.rec>> \in HeldCopies
              /\ records[k.exec] \in Record /\ <<k.exec, records[k.exec]>> \in Current
    BY <1>1, Hands
  <1>3. PICK j : j = [k EXCEPT !.cut = TRUE]
    OBVIOUS
  <1>4. work' = [work EXCEPT ![w] = j]
    BY <1>2, <1>3 DEF HeartbeatLost, ServiceInv, JobsOK
  <1>5. /\ j \in Job /\ j.rec = k.rec /\ j.pc = k.pc /\ j.next = k.next /\ j.exec = k.exec
        /\ j.todo = k.todo /\ j.task = k.task
    BY <1>3 DEF Job
  <1>6. Sound(j, upstream')
    BY <1>1, <1>2, <1>5 DEF Sound, envVars
  <1>7. PICK pool : pool = HeldCopies
    OBVIOUS
  <1>8. HeldCopies \subseteq pool /\ j.exec = work[w].exec /\ <<j.exec, j.rec>> \in pool
    BY <1>2, <1>5, <1>7
  <1>9. /\ UNCHANGED <<scan, active, lease, clock, ripe, lifeVars>>
        /\ ProviderMoves /\ calls' \in [Execution -> Nat]
    BY <1>1, ProviderStays DEF envVars, ServiceInv, EnvOK
  <1>10. JobsOK' /\ LeaseOK' /\ EnvOK' /\ HeldCopies' \subseteq pool
    BY <1>1, <1>4, <1>6, <1>8, <1>9, Turns
  <1> QED
    BY <1>1, <1>7, <1>10 DEF Kept, OnlyReads

LEMMA CreateKeeps ==
    ASSUME ServiceInv, NEW i \in Instance, NEW e \in Execution, NEW q \in Requests,
           Create(i, e, q)
    PROVE  Kept
  <1>1. Insert(e, q) /\ UNCHANGED <<scan, lease, envVars, lifeVars>>
    BY DEF Create
  <1>2. PICK r \in Record : r = NewRecord(q)
    BY NewRecordType
  <1>3. PICK pool : pool = HeldCopies \cup {<<e, r>>}
    OBVIOUS
  <1>4. /\ scan' \in [Instance -> SUBSET (Execution \X OpenRecord)]
        /\ \A n \in Instance : scan'[n] \subseteq scan[n]
        /\ \A n \in Instance : scan'[n] \subseteq pool
    BY <1>1, <1>3 DEF ServiceInv, JobsOK, HeldCopies
  <1>p. ProviderMoves
    BY <1>1, ProviderStays DEF ServiceInv, envVars
  <1>5. CASE UNCHANGED <<work, active>>
    <2>1. JobsOK' /\ HeldCopies' \subseteq HeldCopies
      BY <1>4, <1>5, <1>p, WorkersStop DEF ServiceInv, JobsOK
    <2>2. LeaseOK'
      BY <1>1, <1>5, OwnersStay DEF ServiceInv, lifeVars
    <2>3. EnvOK'
      BY <1>1, <1>5 DEF ServiceInv, EnvOK, envVars, lifeVars
    <2> QED
      BY <1>1, <2>1, <2>2, <2>3 DEF Kept, Admits
  <1>6. CASE /\ work' = [work EXCEPT ![Direct(e)] = NewJob(i, e, NewRecord(q), "admit")]
             /\ active' = [active EXCEPT ![i] = @ \cup {e}]
    <2>1. PICK w \in Worker : w = Direct(e)
      BY Workers
    <2>2. PICK j : j = NewJob(i, e, r, "admit")
      OBVIOUS
    <2>3. j \in Job /\ j.pc = "admit" /\ j.next = "done" /\ j.exec = e /\ j.rec = r
          /\ j.task = NoTask
      BY <2>2, EmptySeq DEF NewJob, Job, Place, NoTask
    <2>4. Sound(j, upstream') /\ <<j.exec, j.rec>> \in pool
      <3>1. r.task = NoTask /\ ~IsTerminal(r.status)
        BY <1>2 DEF NewRecord, IsTerminal, TerminalStatus
      <3>2. Fit("admit", r)
        BY <3>1 DEF Fit
      <3> QED
        BY <1>3, <2>3, <3>2 DEF Sound
    <2>5. work' = [work EXCEPT ![w] = j]
      BY <1>2, <1>6, <2>1, <2>2
    <2>6. JobsOK' /\ HeldCopies' \subseteq pool
      <3>1. HeldCopies \subseteq pool
        BY <1>3
      <3> QED
        BY <1>4, <1>p, <2>4, <2>5, <3>1, OneWorkerMoves DEF ServiceInv
    <2>7. work'[w].pc = "admit" /\ \A v \in Worker : v # w => work'[v] = work[v]
      BY <2>3, <2>5 DEF ServiceInv, JobsOK
    <2>8. LeaseOK'
      BY <1>1, <2>7, OwnersStay DEF ServiceInv, lifeVars
    <2>9. EnvOK'
      BY <1>1, <1>6 DEF ServiceInv, EnvOK, envVars, lifeVars
    <2>10. Admits
      BY <1>1, <1>2, <1>3, <2>6 DEF Admits
    <2> QED
      BY <2>6, <2>8, <2>9, <2>10 DEF Kept
  <1> QED
    BY <1>5, <1>6 DEF Create

LEMMA AdmitKeeps ==
    ASSUME ServiceInv, NEW w \in Worker, Admit(w)
    PROVE  Kept
  <1>1. Busy(w) /\ UNCHANGED <<storeVars, scan, envVars, lifeVars>>
    BY DEF Admit, Busy
  <1>2. PICK k \in Job :
              /\ k = work[w] /\ Sound(k, upstream) /\ k.exec \in Execution /\ k.rec \in Record
              /\ <<k.exec, k.rec>> \in HeldCopies
              /\ records[k.exec] \in Record /\ <<k.exec, records[k.exec]>> \in Current
    BY <1>1, Hands
  <1>3. /\ scan' \in [Instance -> SUBSET (Execution \X OpenRecord)]
        /\ \A n \in Instance : scan'[n] \subseteq scan[n]
        /\ \A n \in Instance : scan'[n] \subseteq HeldCopies
    BY <1>1 DEF ServiceInv, JobsOK, HeldCopies
  <1>4. CASE End(w)
    BY <1>1, <1>3, <1>4, Ends
  <1>5. CASE /\ lease[k.exec] = Free /\ lease' = [lease EXCEPT ![k.exec] = w]
             /\ work' = [work EXCEPT ![w].pc = "execute"] /\ UNCHANGED active
    <2>1. PICK j : j = [k EXCEPT !.pc = "execute"]
      OBVIOUS
    <2>2. work' = [work EXCEPT ![w] = j]
      BY <1>2, <1>5, <2>1 DEF ServiceInv, JobsOK
    <2>3. j \in Job /\ j.rec = k.rec /\ j.pc = "execute" /\ j.next = k.next /\ j.exec = k.exec
          /\ j.task = k.task
      BY <2>1 DEF Job, Place
    <2>4. PICK pool : pool = HeldCopies
      OBVIOUS
    <2>5. Sound(j, upstream') /\ <<j.exec, j.rec>> \in pool /\ HeldCopies \subseteq pool
      <3>1. k.pc = "admit" /\ k.pc \in Starting
        BY <1>2 DEF Admit, Starting
      <3>2. Fit("admit", k.rec) /\ k.task = NoTask
        BY <1>1, <1>2, <3>1, NoTaskYet
      <3>3. Fit("execute", k.rec)
        BY <3>2 DEF Fit, Starting
      <3> QED
        BY <1>2, <2>3, <2>4, <3>2, <3>3 DEF Sound
    <2>p. ProviderMoves
      BY <1>1, ProviderStays DEF ServiceInv, envVars
    <2>6. JobsOK' /\ HeldCopies' \subseteq pool
      BY <1>3, <2>p, <2>2, <2>4, <2>5, OneWorkerMoves DEF ServiceInv
    <2>7. work'[w].exec = k.exec /\ \A v \in Worker : v # w => work'[v] = work[v]
      BY <2>2, <2>3 DEF ServiceInv, JobsOK
    <2>8. LeaseOK'
      BY <1>1, <1>2, <1>5, <2>7, OwnerEnters DEF ServiceInv, lifeVars
    <2>9. EnvOK'
      BY <1>1, <1>5 DEF ServiceInv, EnvOK, envVars, lifeVars
    <2> QED
      BY <1>1, <2>4, <2>6, <2>8, <2>9 DEF Kept, OnlyReads
  <1>6. CASE lease[k.exec] = Free
    BY <1>2, <1>5, <1>6 DEF Admit
  <1>7. CASE lease[k.exec] # Free
    BY <1>2, <1>4, <1>7 DEF Admit
  <1> QED
    BY <1>6, <1>7

(* The job a worker begins with.                                           *)
Begun(i, e, r, saves, next) ==
    [NewJob(i, e, r, IF saves = <<>> THEN next ELSE "save")
        EXCEPT !.todo = saves, !.next = next]

LEMMA Begins ==
    ASSUME NEW i \in Instance, NEW e \in Execution, NEW r \in Record,
           NEW saves, NEW next, NEW from, Promise(NoTask, r, saves, next, from)
    PROVE  /\ Sound(Begun(i, e, r, saves, next), from)
           /\ Begun(i, e, r, saves, next).exec = e
           /\ Begun(i, e, r, saves, next).rec = r
           /\ Begun(i, e, r, saves, next).task = NoTask
  <1>1. PICK pc \in Place : pc = IF saves = <<>> THEN next ELSE "save"
    BY DEF Place, Promise
  <1>2. saves \in Seq(Pending) /\ next \in Place \ {"save"}
    BY DEF Chain, Promise
  <1>3. PICK j : j = [pc |-> pc, next |-> next, host |-> i, exec |-> e, rec |-> r,
                      todo |-> saves, sync |-> FALSE, cut |-> FALSE, spoke |-> FALSE,
                      task |-> NoTask]
    OBVIOUS
  <1>4. Begun(i, e, r, saves, next) = j
    <2>1. PICK fresh : fresh = NewJob(i, e, r, pc)
      OBVIOUS
    <2>2. Begun(i, e, r, saves, next) = [fresh EXCEPT !.todo = saves, !.next = next]
      BY <1>1, <2>1 DEF Begun
    <2> QED
      BY <1>3, <2>1, <2>2 DEF NewJob
  <1>5. /\ j \in Job /\ j.pc = pc /\ j.next = next /\ j.exec = e /\ j.rec = r /\ j.todo = saves
        /\ j.task = NoTask
    BY <1>1, <1>2, <1>3 DEF Job, NoTask
  <1>6. Sound(j, from)
    <2>1. CASE saves = <<>>
      <3>1. pc = next /\ Fit(pc, r) /\ pc # "save"
        BY <1>1, <1>2, <2>1 DEF Promise
      <3> QED
        BY <1>2, <1>5, <3>1 DEF Sound
    <2>2. CASE saves # <<>>
      BY <1>1, <1>2, <1>5, <2>2 DEF Sound
    <2> QED
      BY <2>1, <2>2
  <1> QED
    BY <1>4, <1>5, <1>6

LEMMA ListKeeps ==
    ASSUME ServiceInv, NEW i \in Instance, List(i)
    PROVE  Kept
  <1>1. UNCHANGED <<storeVars, work, active, lease, envVars, lifeVars>>
    BY DEF List
  <1>2. PICK open \in SUBSET Admitted :
          /\ scan' = [scan EXCEPT ![i] = {<<e, records[e]>> : e \in open}]
          /\ \A e \in open : ~IsTerminal(records[e].status)
    BY DEF List
  <1>3. {<<e, records[e]>> : e \in open} \subseteq Current
    BY DEF Current
  <1>4. {<<e, records[e]>> : e \in open} \subseteq Execution \X OpenRecord
    BY <1>2, AdmittedRecords DEF ServiceInv, OpenRecord
  <1>5. scan' \in [Instance -> SUBSET (Execution \X OpenRecord)]
    BY <1>2, <1>3, <1>4 DEF ServiceInv, JobsOK
  <1>6. \A n \in Instance : scan'[n] \subseteq HeldCopies \cup Current
    BY <1>2, <1>3 DEF ServiceInv, JobsOK, HeldCopies
  <1>7. PICK pool : pool = HeldCopies \cup Current
    OBVIOUS
  <1>8. \A v \in Worker : Busy(v)' => HeldBy(v)' \in pool
    BY <1>1, <1>7 DEF Busy, HeldBy, HeldCopies
  <1>9. HeldCopies' \subseteq pool
    BY <1>6, <1>7, <1>8, HeldWithin
  <1>10. JobsOK'
    BY <1>1, <1>5 DEF ServiceInv, JobsOK, Busy, envVars
  <1>11. LeaseOK' /\ EnvOK'
    BY <1>1, OwnersStay DEF ServiceInv, EnvOK, envVars, lifeVars
  <1> QED
    BY <1>1, <1>7, <1>9, <1>10, <1>11 DEF Kept, OnlyReads

LEMMA TakeKeeps ==
    ASSUME ServiceInv, NEW i \in Instance, Take(i)
    PROVE  Kept
  <1>1. UNCHANGED <<storeVars, envVars, lifeVars>>
    BY DEF Take
  <1>2. PICK c \in scan[i] :
          /\ scan' = [scan EXCEPT ![i] = @ \ {c}]
          /\ \/ lease[c[1]] = Free /\ Recover(i, c[1], c[2])
             \/ UNCHANGED <<work, active, lease>>
    BY DEF Take
  <1>3. PICK e \in Execution, r \in Record : c = <<e, r>> /\ ~IsTerminal(r.status)
    BY DEF ServiceInv, JobsOK, OpenRecord
  <1>v. VersionOK(r) /\ r.status \notin Outcome
    <2>1. c \in HeldCopies /\ c[2] = r
      BY <1>3 DEF HeldCopies
    <2> QED
      BY <1>3, <2>1, OutcomesEnd DEF ServiceInv, TasksOK, Tracks
  <1>p. ProviderMoves
    BY <1>1, ProviderStays DEF ServiceInv, envVars
  <1>4. PICK pool : pool = HeldCopies
    OBVIOUS
  <1>5. /\ scan' \in [Instance -> SUBSET (Execution \X OpenRecord)]
        /\ \A n \in Instance : scan'[n] \subseteq scan[n]
        /\ \A n \in Instance : scan'[n] \subseteq pool
    BY <1>2, <1>4 DEF ServiceInv, JobsOK, HeldCopies
  <1>6. CASE UNCHANGED <<work, active, lease>>
    <2>1. JobsOK' /\ HeldCopies' \subseteq HeldCopies
      BY <1>5, <1>6, <1>p, WorkersStop DEF ServiceInv, JobsOK
    <2>2. LeaseOK'
      BY <1>1, <1>6, OwnersStay DEF ServiceInv, lifeVars
    <2>3. EnvOK'
      BY <1>1, <1>6 DEF ServiceInv, EnvOK, envVars, lifeVars
    <2> QED
      BY <1>1, <2>1, <2>2, <2>3 DEF Kept, OnlyReads
  <1>7. CASE lease[e] = Free /\ Recover(i, e, r)
    <2>1. PICK w \in Worker : w = Loop(i)
      BY Workers
    <2>2. PICK saves : saves = IF "overdue" \in clock[e] THEN Transition(r, "expired")
                 ELSE IF Spent(e, r) THEN Fail(r)
                 ELSE IF r.status = "waiting_retry"
                      THEN Note([r EXCEPT !.waits = FALSE], "retry.started")
                      ELSE <<>>
      OBVIOUS
    <2>3. PICK next : next = IF "overdue" \in clock[e] \/ Spent(e, r) THEN "done"
                ELSE IF r.task = NoTask THEN "execute"
                ELSE IF r.cancelling THEN "cancelcall" ELSE "poll"
      OBVIOUS
    <2>4. PICK j : j = Begun(i, e, r, saves, next)
      OBVIOUS
    <2>5. /\ lease' = [lease EXCEPT ![e] = w]
          /\ work' = [work EXCEPT ![w] = j]
          /\ UNCHANGED active
      BY <1>7, <2>1, <2>2, <2>3, <2>4 DEF Recover, Begun
    <2>6. next \in Place \ {"save"}
      BY <2>3 DEF Place
    <2>f. ASSUME NEW b, b.task = r.task, b.status = r.status, b.cancelling = r.cancelling
          PROVE  Fit(next, b)
      BY <1>3, <2>3, <2>f DEF Fit, Starting
    <2>e. ASSUME NEW b \in Record, Adopts(r, b), b.task = r.task, Chain(b, saves),
                 \A t : Told(saves, upstream'[t]),
                 \A n \in 1..Len(saves) : Fit(next, saves[n].rec)
          PROVE  Promise(NoTask, r, saves, next, upstream')
      BY <2>e, <2>6, <2>f DEF Promise
    <2>7. Promise(NoTask, r, saves, next, upstream')
      <3>1. CASE next = "done" /\ (saves = Transition(r, "expired") \/ saves = Fail(r))
        <4>1. Chain(r, Transition(r, "expired")) /\ Chain(r, Fail(r))
          BY TransitionChain, FailChain DEF Target, TerminalStatus
        <4>2. ASSUME NEW t
              PROVE  Told(Transition(r, "expired"), upstream'[t]) /\ Told(Fail(r), upstream'[t])
          BY <1>v, ToldTransition, ToldFail DEF Outcome
        <4>3. \A n \in 1..Len(saves) : Fit(next, saves[n].rec)
          BY <3>1, FitsTheEnd
        <4> QED
          BY <2>e, <3>1, <4>1, <4>2, <4>3, AdoptsItself
      <3>2. CASE saves = Note([r EXCEPT !.waits = FALSE], "retry.started")
        <4>1. [r EXCEPT !.waits = FALSE] \in Record
          BY DEF Record
        <4>2. PICK b \in Record : b = [r EXCEPT !.waits = FALSE]
          BY <4>1
        <4>3. b.rev = r.rev /\ b.request = r.request /\ b.status = r.status
              /\ b.attempts = r.attempts /\ b.task = r.task /\ b.cancelling = r.cancelling
          BY <4>2 DEF Record
        <4>4. Chain(b, Note(b, "retry.started"))
          BY NoteChain DEF EventType, RetryEvent, LifecycleEvent
        <4>5. Adopts(r, b)
          BY <4>3 DEF Adopts, VersionOK
        <4>6. ASSUME NEW t PROVE Told(saves, upstream'[t])
          BY <1>v, <3>2, <4>2, <4>3, ToldNote
        <4>7. \A n \in 1..Len(saves) : Fit(next, saves[n].rec)
          BY <2>f, <3>2, <4>2, <4>3, NoteFits
        <4> QED
          BY <2>e, <3>2, <4>2, <4>3, <4>4, <4>5, <4>6, <4>7
      <3>3. CASE saves = <<>>
        <4>1. ASSUME NEW t PROVE Told(saves, upstream'[t])
          BY <3>3, ToldNone
        <4>2. \A n \in 1..Len(saves) : Fit(next, saves[n].rec)
          BY <3>3, FitNone
        <4> QED
          BY <2>e, <3>3, <4>1, <4>2, ChainNone, AdoptsItself
      <3> QED
        BY <2>2, <2>3, <3>1, <3>2, <3>3
    <2>9. Sound(j, upstream') /\ j.exec = e /\ j.rec = r
      BY <2>4, <2>7, Begins
    <2>10. <<j.exec, j.rec>> \in pool /\ HeldCopies \subseteq pool
      BY <1>2, <1>3, <1>4, <2>9 DEF HeldCopies
    <2>11. JobsOK' /\ HeldCopies' \subseteq pool
      BY <1>5, <1>p, <2>5, <2>9, <2>10, OneWorkerMoves DEF ServiceInv
    <2>12. work'[w].exec = e /\ \A v \in Worker : v # w => work'[v] = work[v]
      BY <2>5, <2>9 DEF ServiceInv, JobsOK
    <2>13. LeaseOK'
      BY <1>1, <1>7, <2>5, <2>12, OwnerEnters DEF ServiceInv, lifeVars
    <2>14. EnvOK'
      BY <1>1, <2>5 DEF ServiceInv, EnvOK, envVars, lifeVars
    <2> QED
      BY <1>1, <1>4, <2>11, <2>13, <2>14 DEF Kept, OnlyReads
  <1> QED
    BY <1>2, <1>3, <1>6, <1>7

LEMMA CancelKeeps ==
    ASSUME ServiceInv, NEW i \in Instance, NEW e \in Execution, Cancel(i, e)
    PROVE  Kept
  <1>1. /\ UNCHANGED <<storeVars, scan, active, lease, envVars,
                       up, deaths, exits, pauses, scenario>>
        /\ cancels' = cancels + 1 /\ e \in Admitted
    BY DEF Cancel
  <1>2. PICK w \in Worker : w = Canceller(e) /\ IsCanceller(w)
    BY Workers
  <1>3. PICK r \in Record : r = records[e]
    BY <1>1, AdmittedRecords DEF ServiceInv
  <1>v. VersionOK(r) /\ r.status \notin Outcome
    <2>1. ~IsTerminal(r.status)
      BY <1>3 DEF Cancel
    <2> QED
      BY <1>1, <1>3, <2>1, OutcomesEnd DEF ServiceInv, TasksOK
  <1>p. ProviderMoves
    BY <1>1, ProviderStays DEF ServiceInv, envVars
  <1>4. PICK abort : abort = Note(r, "retry.aborted")
    OBVIOUS
  <1>5. Chain(r, abort)
    BY <1>4, NoteChain DEF EventType, RetryEvent, LifecycleEvent
  <1>6. \E saves, next :
           /\ work' = [work EXCEPT ![w] = Begun(i, e, r, saves, next)]
           /\ \/ r.task # NoTask /\ next = "cancelcall" /\ saves = Intent(r)
              \/ /\ r.task = NoTask /\ next \in {"done", "cut"}
                 /\ \/ saves = abort \o Transition(After(r, abort), "cancelled")
                    \/ saves = Transition(r, "cancelled")
    BY <1>2, <1>3, <1>4 DEF Cancel, Begun
  <1>7. PICK saves, next :
           /\ work' = [work EXCEPT ![w] = Begun(i, e, r, saves, next)]
           /\ \/ r.task # NoTask /\ next = "cancelcall" /\ saves = Intent(r)
              \/ /\ r.task = NoTask /\ next \in {"done", "cut"}
                 /\ \/ saves = abort \o Transition(After(r, abort), "cancelled")
                    \/ saves = Transition(r, "cancelled")
    BY <1>6
  <1>8. Promise(NoTask, r, saves, next, upstream')
    <2>1. CASE r.task # NoTask /\ next = "cancelcall" /\ saves = Intent(r)
      <3>e. ASSUME NEW b \in Record, Adopts(r, b), b.task = r.task, Chain(b, saves),
                   \A t : Told(saves, upstream'[t]), saves = <<>> => Fit(next, r),
                   \A n \in 1..Len(saves) : Fit(next, saves[n].rec)
            PROVE  Promise(NoTask, r, saves, next, upstream')
        BY <2>1, <3>e DEF Promise, Place
      <3>1. CASE r.cancelling
        <4>1. saves = <<>> /\ Fit(next, r)
          BY <2>1, <3>1 DEF Intent, Fit, Starting
        <4>2. ASSUME NEW t PROVE Told(saves, upstream'[t])
          BY <4>1, ToldNone
        <4>3. \A n \in 1..Len(saves) : Fit(next, saves[n].rec)
          BY <4>1, FitNone
        <4> QED
          BY <3>e, <4>1, <4>2, <4>3, ChainNone, AdoptsItself
      <3>2. CASE ~r.cancelling
        <4>1. [r EXCEPT !.cancelling = TRUE, !.waits = FALSE] \in Record
          BY DEF Record
        <4>2. PICK b \in Record : b = [r EXCEPT !.cancelling = TRUE, !.waits = FALSE]
          BY <4>1
        <4>3. b.rev = r.rev /\ b.request = r.request /\ b.status = r.status
              /\ b.attempts = r.attempts /\ b.task = r.task /\ b.cancelling
          BY <4>2 DEF Record
        <4>4. Chain(b, Note(b, "execution.cancellation.requested"))
              /\ Note(b, "execution.cancellation.requested") # <<>>
          BY NoteChain DEF EventType, RetryEvent, LifecycleEvent
        <4>5. Adopts(r, b) /\ saves = Note(b, "execution.cancellation.requested")
          BY <2>1, <3>2, <4>2, <4>3 DEF Adopts, VersionOK, Intent
        <4>6. ASSUME NEW t PROVE Told(saves, upstream'[t])
          BY <1>v, <4>3, <4>5, ToldNote
        <4>7. Fit(next, b)
          BY <2>1, <4>3 DEF Fit, Starting
        <4>8. \A n \in 1..Len(saves) : Fit(next, saves[n].rec)
          BY <4>5, <4>7, NoteFits
        <4> QED
          BY <3>e, <4>3, <4>4, <4>5, <4>6, <4>8
      <3> QED
        BY <3>1, <3>2
    <2>2. CASE /\ r.task = NoTask /\ next \in {"done", "cut"}
               /\ \/ saves = abort \o Transition(After(r, abort), "cancelled")
                  \/ saves = Transition(r, "cancelled")
      <3>1. PICK last \in Record : last = After(r, abort)
        BY <1>5, ChainAfter
      <3>2. PICK rest : rest = Transition(last, "cancelled")
        OBVIOUS
      <3>3. Chain(last, rest) /\ Chain(r, Transition(r, "cancelled"))
        BY <3>2, TransitionChain DEF Target, TerminalStatus
      <3>4. Chain(r, abort \o rest)
        BY <1>5, <3>1, <3>3, ChainJoin
      <3>5. Chain(r, saves)
        BY <2>2, <3>1, <3>2, <3>3, <3>4
      <3> QED
        BY <2>2, <3>5, PromiseStart, FitsTheEnd DEF Place
    <2> QED
      BY <1>7, <2>1, <2>2
  <1>10. PICK j : j = Begun(i, e, r, saves, next)
    OBVIOUS
  <1>12. Sound(j, upstream') /\ j.exec = e /\ j.rec = r
    BY <1>8, <1>10, Begins
  <1>13. PICK pool : pool = HeldCopies \cup Current
    OBVIOUS
  <1>14. <<j.exec, j.rec>> \in pool /\ HeldCopies \subseteq pool
    BY <1>1, <1>3, <1>12, <1>13 DEF Current
  <1>15. /\ scan' \in [Instance -> SUBSET (Execution \X OpenRecord)]
         /\ \A n \in Instance : scan'[n] \subseteq pool
    BY <1>1, <1>13 DEF ServiceInv, JobsOK, HeldCopies
  <1>16. work' = [work EXCEPT ![w] = j]
    BY <1>7, <1>10
  <1>17. JobsOK' /\ HeldCopies' \subseteq pool
    BY <1>p, <1>12, <1>14, <1>15, <1>16, OneWorkerMoves DEF ServiceInv
  <1>18. \A v \in Worker : v # w => work'[v] = work[v]
    BY <1>16 DEF ServiceInv, JobsOK
  <1>19. LeaseOK'
    BY <1>1, <1>2, <1>18, OwnersStay DEF ServiceInv
  <1>20. EnvOK'
    BY <1>1 DEF ServiceInv, EnvOK, envVars
  <1> QED
    BY <1>1, <1>13, <1>17, <1>19, <1>20 DEF Kept, OnlyReads

(* A crash loses the workers of one process and nothing of the store.      *)
LEMMA CrashKeeps ==
    ASSUME ServiceInv, NEW i \in Instance, Crash(i)
    PROVE  Kept
  <1>1. /\ Stop(i) /\ deaths' = deaths + 1
        /\ UNCHANGED <<storeVars, envVars, exits, pauses, cancels, scenario>>
    BY DEF Crash
  <1>2. /\ JobsOK' /\ LeaseOK' /\ HeldCopies' \subseteq HeldCopies
        /\ active' \in [Instance -> SUBSET Execution] /\ up' \subseteq Instance
    BY <1>1, StopKeeps, ProviderStays DEF ServiceInv, envVars
  <1>3. EnvOK'
    BY <1>1, <1>2 DEF ServiceInv, EnvOK, envVars
  <1> QED
    BY <1>1, <1>2, <1>3 DEF Kept, OnlyReads

(* Nothing moves but time, the provider and the set of running processes.  *)
LEMMA OthersKeep ==
    ASSUME ServiceInv, EnvOK', LeaseOK', UNCHANGED <<storeVars, work, scan>>, ProviderMoves
    PROVE  Kept
  <1>1. JobsOK'
    BY WorkersStop DEF ServiceInv, JobsOK
  <1>2. HeldCopies' = HeldCopies
    BY DEF HeldCopies, Busy, HeldBy
  <1> QED
    BY <1>1, <1>2 DEF Kept, OnlyReads

LEMMA LeaseExpiresKeeps ==
    ASSUME ServiceInv, NEW e \in Execution, LeaseExpires(e)
    PROVE  Kept
  <1>1. /\ lease' = [lease EXCEPT ![e] = Free]
        /\ \/ lease[e] = Gone /\ UNCHANGED pauses
           \/ lease[e] \in Worker /\ pauses' = pauses + 1
        /\ UNCHANGED <<storeVars, work, scan, active, envVars,
                       up, deaths, exits, cancels, scenario>>
    BY DEF LeaseExpires
  <1>2. EnvOK'
    BY <1>1 DEF ServiceInv, EnvOK, envVars
  <1>3. lease' \in [Execution -> Worker \cup {Free, Gone}]
    BY <1>1 DEF ServiceInv, LeaseOK
  <1>4. ASSUME NEW v \in Worker PROVE Owns(v)'
    <2>1. Owns(v) /\ (Driving(v)' <=> Driving(v)) /\ work'[v] = work[v]
      BY <1>1 DEF ServiceInv, LeaseOK, Driving, Busy
    <2>2. CASE pauses' = pauses + 1
      <3>1. pauses' # 0
        BY <2>2 DEF ServiceInv, EnvOK
      <3> QED
        BY <3>1 DEF Owns
    <2>3. CASE lease[e] = Gone /\ UNCHANGED pauses
      <3>1. ASSUME NEW f, lease[f] = v PROVE lease'[f] = v
        <4>1. f # e
          BY <2>3, <3>1, Workers
        <4> QED
          BY <1>1, <3>1, <4>1 DEF ServiceInv, LeaseOK
      <3> QED
        BY <2>1, <2>3, <3>1 DEF Owns
    <2> QED
      BY <1>1, <2>2, <2>3
  <1>5. LeaseOK'
    BY <1>3, <1>4 DEF LeaseOK
  <1>6. ProviderMoves
    BY <1>1, ProviderStays DEF ServiceInv, envVars
  <1> QED
    BY <1>1, <1>2, <1>5, <1>6, OthersKeep

LEMMA SurroundingsKeep ==
    ASSUME ServiceInv,
           \/ \E i \in Instance : Restart(i)
           \/ \E e \in Execution : Ripen(e)
           \/ \E e \in Execution, d \in {"spent", "overdue"} : Age(e, d)
           \/ \E t \in Task : Advance(t)
    PROVE  Kept
  <1>1. UNCHANGED <<storeVars, work, scan, active, lease, pauses>>
    BY DEF Restart, Ripen, Age, Advance, procVars, lifeVars
  <1>2. LeaseOK'
    BY <1>1, OwnersStay DEF ServiceInv
  <1>3. EnvOK'
    <2>1. ASSUME NEW i \in Instance, Restart(i) PROVE EnvOK'
      BY <1>1, <2>1 DEF Restart, envVars, ServiceInv, EnvOK
    <2>2. ASSUME NEW e \in Execution, Ripen(e) PROVE EnvOK'
      <3>1. records[e].rev \in Nat
        BY <2>2, AdmittedRecords DEF Ripen, Record, ServiceInv
      <3> QED
        BY <1>1, <2>2, <3>1 DEF Ripen, lifeVars, ServiceInv, EnvOK
    <2>3. ASSUME NEW e \in Execution, NEW d \in {"spent", "overdue"}, Age(e, d) PROVE EnvOK'
      BY <1>1, <2>3 DEF Age, lifeVars, ServiceInv, EnvOK
    <2>4. ASSUME NEW t \in Task, Advance(t) PROVE EnvOK'
      <3>1. upstream' \in [Task -> UpstreamState]
        BY <2>4 DEF Advance, ServiceInv, EnvOK, UpstreamState
      <3> QED
        BY <1>1, <2>4, <3>1 DEF Advance, lifeVars, ServiceInv, EnvOK
    <2> QED
      BY <2>1, <2>2, <2>3, <2>4
  <1>4. ProviderMoves
    <2>1. CASE \E t \in Task : Advance(t)
      BY <2>1 DEF Advance, ServiceInv, EnvOK, UpstreamState, ProviderMoves, Outcome
    <2>2. CASE ~\E t \in Task : Advance(t)
      <3>1. UNCHANGED upstream
        BY <2>2 DEF Restart, Ripen, Age, envVars
      <3> QED
        BY <3>1, ProviderStays DEF ServiceInv
    <2> QED
      BY <2>1, <2>2
  <1> QED
    BY <1>1, <1>2, <1>3, <1>4, OthersKeep

-----------------------------------------------------------------------------
LEMMA ServiceInitially == Init => ServiceInv /\ Clients!Init
  <1> SUFFICES ASSUME Init PROVE ServiceInv /\ Clients!Init
    OBVIOUS
  <1>1. StoreTypeOK /\ LogMatchesRecord
    BY DEF Init, StoreInit, StoreTypeOK, LogMatchesRecord, Absent, NoFeed, Feed,
           RecordStatus, RetryPhase
  <1>2. \A w \in Worker : ~Busy(w)
    BY DEF Init, Busy, Idle
  <1>3. JobsOK /\ HeldCopies = {}
    BY <1>2 DEF Init, JobsOK, HeldCopies
  <1>t. TasksOK
    BY <1>1, <1>3 DEF Init, StoreInit, TasksOK, Admitted
  <1>4. LeaseOK
    BY <1>2 DEF Init, LeaseOK, Owns, Driving
  <1>5. EnvOK
    BY ScenariosAssumption DEF Init, EnvOK, UpstreamState, Scenario
  <1>6. Versions
    BY <1>3 DEF Versions
  <1>7. Clients!Init
    BY <1>3 DEF Init, StoreInit, Clients!Init, Clients!StoreInit, Clients!Absent, Absent,
                Clients!NoFeed, NoFeed
  <1> QED
    BY <1>1, <1>3, <1>t, <1>4, <1>5, <1>6, <1>7 DEF ServiceInv

LEMMA StepKeeps ==
    ASSUME ServiceInv, [Next]_vars
    PROVE  Kept
  <1>1. CASE UNCHANGED vars
    <2>1. UNCHANGED <<storeVars, work, scan>>
      BY <1>1 DEF vars, storeVars
    <2>2. LeaseOK'
      BY <1>1, OwnersStay DEF ServiceInv, vars
    <2>3. EnvOK'
      BY <1>1 DEF ServiceInv, EnvOK, vars
    <2>4. ProviderMoves
      BY <1>1, ProviderStays DEF ServiceInv, vars
    <2> QED
      BY <2>1, <2>2, <2>3, <2>4, OthersKeep
  <1>2. CASE Next
    <2>1. ASSUME NEW i \in Instance, NEW e \in Execution, NEW q \in Requests, Create(i, e, q)
          PROVE  Kept
      BY <2>1, CreateKeeps
    <2>2. ASSUME NEW w \in Worker, Step(w) \/ HeartbeatLost(w)
          PROVE  Kept
      BY <2>2, SaveKeeps, AdmitKeeps, ExecuteKeeps, MaterializeKeeps, ReadyKeeps,
         DispatchKeeps, ReturnKeeps, GiveUpKeeps, EmitReadKeeps, EmitSaveKeeps,
         PollKeeps, CancelCallKeeps, CutKeeps, HeartbeatLostKeeps DEF Step
    <2>3. ASSUME NEW i \in Instance, List(i) \/ Take(i) \/ Crash(i)
          PROVE  Kept
      BY <2>3, ListKeeps, TakeKeeps, CrashKeeps
    <2>4. ASSUME NEW i \in Instance, NEW e \in Execution, Cancel(i, e)
          PROVE  Kept
      BY <2>4, CancelKeeps
    <2>5. ASSUME NEW e \in Execution, LeaseExpires(e)
          PROVE  Kept
      BY <2>5, LeaseExpiresKeeps
    <2> QED
      BY <1>2, <2>1, <2>2, <2>3, <2>4, <2>5, SurroundingsKeep DEF Next
  <1> QED
    BY <1>1, <1>2

LEMMA ServiceStep ==
    ASSUME ServiceInv, [Next]_vars
    PROVE  ServiceInv' /\ [Clients!AnyCall]_(Clients!vars)
  <1>1. Kept
    BY StepKeeps
  <1> QED
    BY <1>1, ReadsKeep, DerivesKeeps, AdmitsKeeps DEF Kept, StoreKept, ServiceInv

-----------------------------------------------------------------------------
(* A provider task serves one execution.                                   *)

\* What a worker does leaves the task it has started with it.
TaskKept(v) ==
    \/ work'[v] = work[v] \/ work'[v] = Idle \/ work'[v].task = NoTask
    \/ Busy(v) /\ work'[v].exec = work[v].exec /\ work'[v].task = work[v].task

LEMMA OneTurns ==
    ASSUME JobsOK, NEW w \in Worker, NEW j, work' = [work EXCEPT ![w] = j],
           \/ j = Idle \/ j.task = NoTask
           \/ Busy(w) /\ j.exec = work[w].exec /\ j.task = work[w].task
    PROVE  \A v \in Worker : TaskKept(v)
  <1>1. work'[w] = j /\ \A v \in Worker : v # w => work'[v] = work[v]
    BY DEF JobsOK
  <1> QED
    BY <1>1 DEF TaskKept

LEMMA EndTurns ==
    ASSUME JobsOK, NEW w \in Worker, End(w)
    PROVE  \A v \in Worker : TaskKept(v)
  BY OneTurns DEF End

LEMMA StopTurns ==
    ASSUME NEW i, Stop(i)
    PROVE  \A v \in Worker : TaskKept(v)
  BY DEF Stop, TaskKept

LEMMA AbortTurns ==
    ASSUME JobsOK, NEW w \in Worker, Abort(w)
    PROVE  \A v \in Worker : TaskKept(v)
  BY EndTurns, StopTurns DEF Abort

LEMMA ProceedTurns ==
    ASSUME JobsOK, NEW w \in Worker, Busy(w), NEW r, NEW saves, NEW next,
           Proceed(w, r, saves, next)
    PROVE  \A v \in Worker : TaskKept(v)
  <1>1. CASE End(w)
    BY <1>1, EndTurns
  <1>2. CASE ~End(w)
    <2>1. PICK k \in Job : k = work[w]
      BY BusyWorker
    <2>p. PICK pc : pc = IF saves = <<>> THEN next ELSE "save"
      OBVIOUS
    <2>2. PICK j : j = [k EXCEPT !.rec = r, !.todo = saves, !.pc = pc, !.next = next]
      OBVIOUS
    <2>3. work' = [work EXCEPT ![w] = j]
      BY <1>2, <2>1, <2>p, <2>2 DEF Proceed, JobsOK
    <2>4. j.exec = k.exec /\ j.task = k.task
      BY <2>2 DEF Job
    <2> QED
      BY <2>1, <2>3, <2>4, OneTurns
  <1> QED
    BY <1>1, <1>2

(* Only the start call of Dispatch gives a task to a worker.               *)
LEMMA StepTurns ==
    ASSUME JobsOK, NEW w \in Worker, Step(w) \/ HeartbeatLost(w), ~Dispatch(w)
    PROVE  \A v \in Worker : TaskKept(v)
  <1>1. PICK k : k = work[w] /\ (Busy(w) => k \in Job)
    BY BusyWorker
  <1>2. CASE Save(w)
    <2>1. Busy(w)
      BY <1>2 DEF Save, Busy
    <2> QED
      BY <1>2, <2>1, ProceedTurns, EndTurns, AbortTurns DEF Save
  <1>3. CASE Admit(w)
    <2>1. Busy(w)
      BY <1>3 DEF Admit, Busy
    <2>2. CASE End(w)
      BY <2>2, EndTurns
    <2>3. CASE work' = [work EXCEPT ![w].pc = "execute"]
      <3>1. PICK j : j = [k EXCEPT !.pc = "execute"]
        OBVIOUS
      <3>2. work' = [work EXCEPT ![w] = j] /\ j.exec = k.exec /\ j.task = k.task
        BY <1>1, <2>1, <2>3, <3>1 DEF JobsOK, Job
      <3> QED
        BY <1>1, <2>1, <3>2, OneTurns
    <2> QED
      BY <1>3, <2>2, <2>3 DEF Admit
  <1>4. CASE Execute(w)
    <2>1. Busy(w)
      BY <1>4 DEF Execute, Busy
    <2> QED
      BY <1>4, <2>1, ProceedTurns DEF Execute
  <1>5. CASE Materialize(w)
    <2>1. Busy(w)
      BY <1>5 DEF Materialize, Busy
    <2> QED
      BY <1>5, <2>1, ProceedTurns DEF Materialize
  <1>6. CASE Ready(w)
    <2>1. Busy(w)
      BY <1>6 DEF Ready, Busy
    <2>2. PICK running, pc : /\ running = Transition(work[w].rec, "running")
                            /\ pc = IF running = <<>> THEN "dispatch" ELSE "save"
      OBVIOUS
    <2>3. CASE work' = [work EXCEPT ![w].sync = TRUE, ![w].todo = running,
                              ![w].pc = pc, ![w].next = "dispatch"]
      <3>1. PICK j : j = [k EXCEPT !.sync = TRUE, !.todo = running, !.pc = pc, !.next = "dispatch"]
        OBVIOUS
      <3>2. work' = [work EXCEPT ![w] = j] /\ j.exec = k.exec /\ j.task = k.task
        BY <1>1, <2>1, <2>3, <3>1 DEF JobsOK, Job
      <3> QED
        BY <1>1, <2>1, <3>2, OneTurns
    <2> QED
      BY <1>6, <2>1, <2>2, <2>3, ProceedTurns DEF Ready
  <1>7. CASE Return(w)
    <2>1. Busy(w)
      BY <1>7 DEF Return, Busy
    <2> QED
      BY <1>7, <2>1, ProceedTurns DEF Return, ReturnSuccess, ReturnFailure, ReturnTask
  <1>8. CASE GiveUp(w)
    BY <1>8, EndTurns DEF GiveUp
  <1>9. CASE EmitRead(w)
    <2>1. Busy(w) /\ work' = [work EXCEPT ![w].pc = "emit", ![w].rec = records[work[w].exec]]
      BY <1>9 DEF EmitRead, Busy
    <2>2. PICK r : r = records[work[w].exec]
      OBVIOUS
    <2>3. PICK j : j = [k EXCEPT !.pc = "emit", !.rec = r]
      OBVIOUS
    <2>4. work' = [work EXCEPT ![w] = j] /\ j.exec = k.exec /\ j.task = k.task
      BY <1>1, <2>1, <2>2, <2>3 DEF JobsOK, Job
    <2> QED
      BY <1>1, <2>1, <2>4, OneTurns
  <1>10. CASE EmitSave(w)
    <2>1. Busy(w)
      BY <1>10 DEF EmitSave, Busy
    <2>2. PICK r : r = [work[w].rec EXCEPT !.rev = @ + 1]
      OBVIOUS
    <2>3. PICK j \in {[k EXCEPT !.pc = "await", !.rec = r, !.spoke = TRUE],
                      [k EXCEPT !.pc = "await"]} : work' = [work EXCEPT ![w] = j]
      BY <1>1, <1>10, <2>1, <2>2 DEF EmitSave, JobsOK
    <2>4. j.exec = k.exec /\ j.task = k.task
      BY <1>1, <2>1, <2>3 DEF Job
    <2> QED
      BY <1>1, <2>1, <2>3, <2>4, OneTurns
  <1>11. CASE Poll(w)
    <2>1. Busy(w)
      BY <1>11 DEF Poll, Busy
    <2> QED
      BY <1>11, <2>1, ProceedTurns DEF Poll
  <1>12. CASE CancelCall(w)
    <2>1. Busy(w)
      BY <1>12 DEF CancelCall, Busy
    <2> QED
      BY <1>12, <2>1, ProceedTurns DEF CancelCall
  <1>13. CASE Cut(w) \/ HeartbeatLost(w)
    <2>1. ASSUME NEW v \in Worker
          PROVE  \/ work'[v] = work[v] \/ work'[v] = Idle
                 \/ Busy(v) /\ work'[v] = [work[v] EXCEPT !.cut = TRUE]
      BY <1>13 DEF Cut, HeartbeatLost, JobsOK
    <2>2. ASSUME NEW v \in Worker, Busy(v), work'[v] = [work[v] EXCEPT !.cut = TRUE]
          PROVE  TaskKept(v)
      <3>1. PICK n \in Job : n = work[v]
        BY <2>2, BusyWorker
      <3>2. work'[v].exec = n.exec /\ work'[v].task = n.task
        BY <2>2, <3>1 DEF Job
      <3> QED
        BY <2>2, <3>1, <3>2 DEF TaskKept
    <2> QED
      BY <2>1, <2>2 DEF TaskKept
  <1> QED
    BY <1>2, <1>3, <1>4, <1>5, <1>6, <1>7, <1>8, <1>9, <1>10, <1>11, <1>12, <1>13 DEF Step

(* A task is handed out once, when the provider has just created it.       *)
FreshlyTasked(d, n) ==
    n # NoTask => /\ upstream[n] = "none" /\ upstream'[n] # "none"
                  /\ work'[d].task = n

(* The provider is asked to cancel a task that is in the hands of a worker *)
(* which knows the intent to be saved.                                     *)
Asked(n) ==
    \E w \in Worker : /\ Busy(w) /\ work[w].rec.task = n /\ n # NoTask
                      /\ work[w].rec.cancelling

TaskStep ==
    /\ ProviderMoves
    /\ \A n \in Task : upstream'[n] = "cancelled" => upstream[n] = "cancelled" \/ Asked(n)
    /\ \E d \in Worker, n \in Task \cup {NoTask} :
          /\ FreshlyTasked(d, n)
          /\ \A v \in Worker : TaskKept(v) \/ (v = d /\ n # NoTask)

LEMMA QuietStep ==
    ASSUME ServiceInv, UNCHANGED upstream, \A v \in Worker : TaskKept(v),
           NEW w \in Worker
    PROVE  TaskStep
  <1>1. ProviderMoves
    BY ProviderStays DEF ServiceInv
  <1>2. PICK n \in Task \cup {NoTask} : n = NoTask
    OBVIOUS
  <1>3. FreshlyTasked(w, n)
    BY <1>2 DEF FreshlyTasked
  <1> QED
    BY <1>1, <1>3 DEF TaskStep

LEMMA DispatchTasks ==
    ASSUME ServiceInv, NEW w \in Worker, Dispatch(w)
    PROVE  TaskStep
  <1>1. Busy(w) /\ JobsOK
    BY DEF Dispatch, Busy, ServiceInv
  <1>2. PICK k \in Job : k = work[w]
    BY <1>1, BusyWorker
  <1>3. CASE UNCHANGED upstream
    <2>1. CASE \E saves, next, r : Proceed(w, r, saves, next)
      BY <1>1, <1>3, <2>1, ProceedTurns, QuietStep
    <2>2. CASE work' = [work EXCEPT ![w].pc = "await", ![w].spoke = FALSE, ![w].task = NoTask]
      <3>1. PICK j : j = [k EXCEPT !.pc = "await", !.spoke = FALSE, !.task = NoTask]
        OBVIOUS
      <3>2. work' = [work EXCEPT ![w] = j] /\ j.task = NoTask
        BY <1>1, <1>2, <2>2, <3>1 DEF JobsOK, Job
      <3>3. \A v \in Worker : TaskKept(v)
        BY <1>1, <3>2, OneTurns
      <3> QED
        BY <1>3, <3>3, QuietStep
    <2>3. PICK unused \in SUBSET Task : unused = {t \in Task : upstream[t] = "none"}
      OBVIOUS
    <2>4. PICK n : n = CHOOSE x \in unused : \A y \in unused : x <= y
      OBVIOUS
    <2>5. ~(unused # {} /\ upstream' = [upstream EXCEPT ![n] = "queued"])
      <3>1. SUFFICES ASSUME unused # {}, upstream' = [upstream EXCEPT ![n] = "queued"]
                     PROVE  FALSE
        OBVIOUS
      <3>2. n \in Task /\ upstream[n] = "none"
        BY <2>3, <2>4, <3>1, FirstTask
      <3>3. upstream'[n] = "queued"
        BY <3>1, <3>2 DEF ServiceInv, EnvOK
      <3> QED
        BY <1>3, <3>2, <3>3
    <2> QED
      BY <2>1, <2>2, <2>3, <2>4, <2>5 DEF Dispatch
  <1>4. CASE ~UNCHANGED upstream
    <2>1. PICK unused \in SUBSET Task : unused = {t \in Task : upstream[t] = "none"}
      OBVIOUS
    <2>2. PICK n : n = CHOOSE x \in unused : \A y \in unused : x <= y
      OBVIOUS
    <2>3. /\ unused # {} /\ upstream' = [upstream EXCEPT ![n] = "queued"]
          /\ work' = [work EXCEPT ![w].pc = "await", ![w].spoke = FALSE, ![w].task = n]
      BY <1>4, <2>1, <2>2 DEF Dispatch, envVars
    <2>4. n \in Task /\ upstream[n] = "none"
      BY <2>1, <2>2, <2>3, FirstTask
    <2>5. PICK j : j = [k EXCEPT !.pc = "await", !.spoke = FALSE, !.task = n]
      OBVIOUS
    <2>6. work' = [work EXCEPT ![w] = j] /\ j.task = n
      BY <1>1, <1>2, <2>3, <2>5 DEF JobsOK, Job
    <2>7. work'[w].task = n /\ \A v \in Worker : v # w => work'[v] = work[v]
      BY <1>1, <2>6 DEF JobsOK
    <2>8. n # NoTask /\ \A v \in Worker : TaskKept(v) \/ (v = w /\ n # NoTask)
      BY <2>4, <2>7, TaskAssumption DEF TaskKept, NoTask
    <2>9. upstream'[n] = "queued" /\ \A m \in Task : m # n => upstream'[m] = upstream[m]
      BY <2>3, <2>4 DEF ServiceInv, EnvOK
    <2>10. ProviderMoves
      BY <2>3, <2>4 DEF ServiceInv, EnvOK, UpstreamState, ProviderMoves, Outcome
    <2>11. FreshlyTasked(w, n)
      BY <2>4, <2>7, <2>9 DEF FreshlyTasked
    <2> QED
      BY <2>4, <2>8, <2>9, <2>10, <2>11 DEF TaskStep
  <1> QED
    BY <1>3, <1>4

LEMMA CancelCallTasks ==
    ASSUME ServiceInv, NEW w \in Worker, CancelCall(w)
    PROVE  TaskStep
  <1>1. Busy(w) /\ JobsOK /\ \A v \in Worker : TaskKept(v)
    <2>1. Busy(w) /\ JobsOK /\ Step(w) /\ ~Dispatch(w)
      BY DEF CancelCall, Dispatch, Busy, ServiceInv, Step
    <2> QED
      BY <2>1, StepTurns
  <1>2. CASE UNCHANGED upstream
    BY <1>1, <1>2, QuietStep
  <1>3. CASE ~UNCHANGED upstream
    <2>1. PICK held \in Record : /\ held = work[w].rec /\ VersionOK(held) /\ held.cancelling
      <3>1. Sound(work[w], upstream) /\ work[w].pc = "cancelcall"
        BY <1>1 DEF JobsOK, ServiceInv, CancelCall
      <3> QED
        BY <1>1, <3>1, BusyWorker, HandVersions DEF Sound, Fit
    <2>2. PICK n : n = [held EXCEPT !.waits = TRUE].task
      OBVIOUS
    <2>3. n = held.task /\ n \in Task /\ n # NoTask
      BY <2>1, <2>2 DEF Record, VersionOK
    <2>4. upstream[n] \notin TerminalStatus /\ upstream' = [upstream EXCEPT ![n] = "cancelled"]
      BY <1>3, <2>1, <2>2 DEF CancelCall
    <2>5. ProviderMoves
      BY <2>3, <2>4 DEF ServiceInv, EnvOK, UpstreamState, ProviderMoves, Outcome, TerminalStatus
    <2>6. Asked(n) /\ \A m \in Task : m # n => upstream'[m] = upstream[m]
      BY <1>1, <2>1, <2>3, <2>4 DEF Asked, ServiceInv, EnvOK
    <2>7. PICK no \in Task \cup {NoTask} : no = NoTask
      OBVIOUS
    <2>8. FreshlyTasked(w, no)
      BY <2>7 DEF FreshlyTasked
    <2> QED
      BY <1>1, <2>5, <2>6, <2>8 DEF TaskStep
  <1> QED
    BY <1>2, <1>3

LEMMA NextTasks ==
    ASSUME ServiceInv, [Next]_vars, NEW d \in Worker
    PROVE  TaskStep
  <1>1. CASE UNCHANGED vars
    <2>1. UNCHANGED upstream /\ \A v \in Worker : TaskKept(v)
      BY <1>1 DEF vars, TaskKept
    <2> QED
      BY <2>1, QuietStep
  <1>2. ASSUME NEW w \in Worker, Step(w) \/ HeartbeatLost(w) PROVE TaskStep
    <2>1. CASE Dispatch(w) \/ CancelCall(w)
      BY <2>1, DispatchTasks, CancelCallTasks
    <2>2. CASE ~Dispatch(w) /\ ~CancelCall(w)
      <3>1. \A v \in Worker : TaskKept(v)
        BY <1>2, <2>2, StepTurns DEF ServiceInv
      <3>2. UNCHANGED upstream
        BY <1>2, <2>2 DEF Step, HeartbeatLost, Save, Admit, Execute, Materialize, Ready, Return,
                          GiveUp, EmitRead, EmitSave, Poll, Cut, envVars
      <3> QED
        BY <3>1, <3>2, QuietStep
    <2> QED
      BY <2>1, <2>2
  <1>3. ASSUME NEW i \in Instance, NEW e \in Execution, NEW q \in Requests, Create(i, e, q)
        PROVE  TaskStep
    <2>1. UNCHANGED upstream
      BY <1>3 DEF Create, envVars
    <2>2. CASE UNCHANGED work
      BY <2>1, <2>2, QuietStep DEF TaskKept
    <2>3. CASE work' = [work EXCEPT ![Direct(e)] = NewJob(i, e, NewRecord(q), "admit")]
      <3>1. PICK w \in Worker : w = Direct(e)
        BY Workers
      <3>j. PICK j : j = NewJob(i, e, NewRecord(q), "admit")
        OBVIOUS
      <3>2. j.task = NoTask
        BY <3>j DEF NewJob
      <3> QED
        BY <2>1, <2>3, <3>1, <3>j, <3>2, OneTurns, QuietStep DEF ServiceInv
    <2> QED
      BY <1>3, <2>2, <2>3 DEF Create
  <1>4. ASSUME NEW i \in Instance, List(i) \/ Take(i) \/ Crash(i) PROVE TaskStep
    <2>1. UNCHANGED upstream
      BY <1>4 DEF List, Take, Crash, envVars
    <2>2. CASE UNCHANGED work
      BY <2>1, <2>2, QuietStep DEF TaskKept
    <2>3. CASE Stop(i)
      BY <2>1, <2>3, StopTurns, QuietStep
    <2>4. ASSUME NEW c, Recover(i, c[1], c[2]) PROVE TaskStep
      <3>1. PICK j : work' = [work EXCEPT ![Loop(i)] = j] /\ j.task = NoTask
        <4>1. PICK saves, next : work' = [work EXCEPT ![Loop(i)] = Begun(i, c[1], c[2], saves, next)]
          BY <2>4 DEF Recover, Begun
        <4>2. PICK fresh : fresh = NewJob(i, c[1], c[2], IF saves = <<>> THEN next ELSE "save")
          OBVIOUS
        <4>3. Begun(i, c[1], c[2], saves, next).task = NoTask
          BY <4>2 DEF Begun, NewJob
        <4> QED
          BY <4>1, <4>3
      <3>2. PICK w \in Worker : w = Loop(i)
        BY Workers
      <3> QED
        BY <2>1, <3>1, <3>2, OneTurns, QuietStep DEF ServiceInv
    <2> QED
      BY <1>4, <2>2, <2>3, <2>4 DEF List, Take, Crash
  <1>5. ASSUME NEW i \in Instance, NEW e \in Execution, Cancel(i, e) PROVE TaskStep
    <2>1. UNCHANGED upstream
      BY <1>5 DEF Cancel, envVars
    <2>2. PICK saves, next :
             work' = [work EXCEPT ![Canceller(e)] = Begun(i, e, records[e], saves, next)]
      BY <1>5 DEF Cancel, Begun
    <2>3. PICK r, fresh : /\ r = records[e]
                          /\ fresh = NewJob(i, e, r, IF saves = <<>> THEN next ELSE "save")
      OBVIOUS
    <2>4. PICK w \in Worker : w = Canceller(e)
      BY Workers
    <2>j. PICK j : j = Begun(i, e, r, saves, next)
      OBVIOUS
    <2>5. j.task = NoTask
      BY <2>3, <2>j DEF Begun, NewJob
    <2> QED
      BY <2>1, <2>2, <2>3, <2>4, <2>j, <2>5, OneTurns, QuietStep DEF ServiceInv
  <1>6. ASSUME NEW t \in Task, Advance(t) PROVE TaskStep
    <2>1. UNCHANGED work /\ \A v \in Worker : TaskKept(v)
      BY <1>6 DEF Advance, procVars, TaskKept
    <2>2. ProviderMoves /\ \A n \in Task : upstream'[n] = "cancelled" => upstream[n] = "cancelled"
      BY <1>6 DEF Advance, ServiceInv, EnvOK, UpstreamState, ProviderMoves, Outcome
    <2>3. PICK no \in Task \cup {NoTask} : no = NoTask
      OBVIOUS
    <2>4. FreshlyTasked(d, no)
      BY <2>3 DEF FreshlyTasked
    <2> QED
      BY <2>1, <2>2, <2>4 DEF TaskStep
  <1>7. CASE \/ \E i \in Instance : Restart(i)
             \/ \E e \in Execution : LeaseExpires(e) \/ Ripen(e)
             \/ \E e \in Execution, deadline \in {"spent", "overdue"} : Age(e, deadline)
    <2>1. UNCHANGED work /\ UNCHANGED upstream
      BY <1>7 DEF Restart, LeaseExpires, Ripen, Age, procVars, envVars
    <2> QED
      BY <2>1, QuietStep DEF TaskKept
  <1> QED
    BY <1>1, <1>2, <1>3, <1>4, <1>5, <1>6, <1>7 DEF Next

(* Whoever holds a version with a task has had it from who claimed it.     *)
LEMMA ClaimsPass ==
    ASSUME ServiceInv, Kept, NEW c \in HeldCopies' \cup Current', c[2].task # NoTask
    PROVE  Claimed(c[1], c[2].task)
  <1>1. ASSUME NEW d \in HeldCopies \cup Current PROVE Claimed(d[1], d[2].task)
    BY DEF Claimed
  <1>2. CASE OnlyReads
    <2>1. Current' = Current
      BY <1>2 DEF OnlyReads, storeVars, Current, Admitted
    <2> QED
      BY <1>1, <1>2, <2>1 DEF OnlyReads
  <1>3. CASE Derives
    <2>1. PICK d \in HeldCopies, r \in Record, s \in Record, ev \in EventType :
              /\ Adopts(d[2], r) /\ StepOK(r, s, ev) /\ Write(d[1], s, ev)
              /\ HeldCopies' \subseteq HeldCopies \cup {<<d[1], s>>}
              /\ s.task # NoTask => Claimed(d[1], s.task)
      BY <1>3 DEF Derives
    <2>e. PICK e \in Execution : e = d[1]
      BY HeldTypes DEF ServiceInv
    <2>p. PICK p : p = <<e, s>>
      OBVIOUS
    <2>2. p = <<e, s>> /\ e = d[1] /\ p[1] = e /\ p[2] = s
      BY <2>e, <2>p
    <2>3. records'[e] = s /\ \A f \in Execution : f # e => records'[f] = records[f]
      BY <2>1, <2>2 DEF Write, ServiceInv, StoreTypeOK
    <2>4. Current' \subseteq Current \cup {p}
      <3>1. ASSUME NEW f \in Admitted' PROVE <<f, records'[f]>> \in Current \cup {p}
        <4>1. f \in Execution /\ records'[f] # Absent
          BY DEF Admitted
        <4>2. CASE f = e
          BY <2>2, <2>3, <4>2
        <4>3. CASE f # e
          BY <2>3, <4>1, <4>3 DEF Admitted, Current
        <4> QED
          BY <4>2, <4>3
      <3> QED
        BY <3>1 DEF Current
    <2>5. c \in HeldCopies \cup Current \cup {p}
      BY <2>1, <2>2, <2>4
    <2> QED
      BY <1>1, <2>1, <2>2, <2>5
  <1>4. CASE Admits
    <2>1. PICK e \in Execution, q \in Requests :
              /\ Insert(e, q) /\ HeldCopies' \subseteq HeldCopies \cup {<<e, NewRecord(q)>>}
      BY <1>4 DEF Admits
    <2>s. PICK s : s = NewRecord(q)
      OBVIOUS
    <2>p. PICK p : p = <<e, s>>
      OBVIOUS
    <2>2. s = NewRecord(q) /\ p = <<e, s>> /\ p[2] = s /\ s.task = NoTask
      BY <2>s, <2>p DEF NewRecord
    <2>3. records'[e] = s /\ \A f \in Execution : f # e => records'[f] = records[f]
      BY <2>1, <2>2 DEF Insert, ServiceInv, StoreTypeOK
    <2>4. Current' \subseteq Current \cup {p}
      <3>1. ASSUME NEW f \in Admitted' PROVE <<f, records'[f]>> \in Current \cup {p}
        <4>1. f \in Execution /\ records'[f] # Absent
          BY DEF Admitted
        <4>2. CASE f = e
          BY <2>2, <2>3, <4>2
        <4>3. CASE f # e
          BY <2>3, <4>1, <4>3 DEF Admitted, Current
        <4> QED
          BY <4>2, <4>3
      <3> QED
        BY <3>1 DEF Current
    <2>5. c \in HeldCopies \cup Current
      BY <2>1, <2>2, <2>4
    <2> QED
      BY <1>1, <2>5
  <1> QED
    BY <1>2, <1>3, <1>4 DEF Kept

LEMMA ClaimStep ==
    ASSUME ServiceInv, OneClaimant, [Next]_vars
    PROVE  OneClaimant'
  <1> SUFFICES ASSUME NEW e \in Execution, NEW t \in Task, Claimed(e, t)'
               PROVE  /\ upstream'[t] # "none"
                      /\ \A f \in Execution : Claimed(f, t)' => f = e
    BY DEF OneClaimant
  <1>1. Kept /\ TaskStep /\ t # NoTask
    BY StepKeeps, NextTasks, Workers, TaskAssumption DEF NoTask
  <1>2. PICK d \in Worker, n \in Task \cup {NoTask} :
          /\ FreshlyTasked(d, n)
          /\ \A v \in Worker : TaskKept(v) \/ (v = d /\ n # NoTask)
    BY <1>1 DEF TaskStep
  <1>3. ASSUME NEW f \in Execution, Claimed(f, t)'
        PROVE  Claimed(f, t) \/ (t = n /\ f = work'[d].exec /\ n # NoTask)
    <2>1. ASSUME NEW c \in HeldCopies' \cup Current', c[1] = f, c[2].task = t
          PROVE  Claimed(f, t)
      BY <1>1, <2>1, ClaimsPass
    <2>2. ASSUME NEW v \in Worker, Busy(v)', work'[v].exec = f, work'[v].task = t
          PROVE  Claimed(f, t) \/ (t = n /\ f = work'[d].exec /\ n # NoTask)
      <3>1. CASE TaskKept(v)
        <4>1. Busy(v) /\ work[v].exec = f /\ work[v].task = t
          BY <1>1, <2>2, <3>1 DEF TaskKept, Busy, Idle
        <4> QED
          BY <4>1 DEF Claimed
      <3>2. CASE v = d /\ n # NoTask
        BY <1>2, <2>2, <3>2 DEF FreshlyTasked
      <3> QED
        BY <1>2, <3>1, <3>2
    <2> QED
      BY <1>3, <2>1, <2>2 DEF Claimed
  <1>4. upstream[t] # "none" => upstream'[t] # "none"
    BY <1>1 DEF TaskStep, ProviderMoves
  <1>5. ASSUME NEW f \in Execution, Claimed(f, t)
        PROVE  upstream[t] # "none" /\ \A h \in Execution : Claimed(h, t) => h = f
    BY <1>5 DEF OneClaimant
  <1> QED
    BY <1>2, <1>3, <1>4, <1>5 DEF FreshlyTasked

LEMMA ConfirmedStep ==
    ASSUME ServiceInv, OneClaimant, [Next]_vars
    PROVE  OutcomeIsConfirmed
  <1> SUFFICES ASSUME NEW e \in Admitted, records[e].task # NoTask,
                      records'[e].status \in {"succeeded", "partially_succeeded", "cancelled"}
               PROVE  upstream[records[e].task] = records'[e].status
    BY DEF OutcomeIsConfirmed
  <1>1. e \in Execution /\ records'[e].status \in Outcome /\ records'[e] # records[e]
    <2>1. VersionOK(records[e])
      BY DEF ServiceInv, TasksOK
    <2> QED
      BY <2>1, OutcomesEnd DEF VersionOK, Outcome, Admitted
  <1>2. Derives
    <2>1. ~OnlyReads
      BY <1>1 DEF OnlyReads, storeVars
    <2>2. ~Admits
      BY <1>1 DEF Admits, Insert, ServiceInv, StoreTypeOK
    <2> QED
      BY <2>1, <2>2, StepKeeps DEF Kept
  <1>3. PICK c \in HeldCopies, r \in Record, s \in Record, ev \in EventType :
          /\ Adopts(c[2], r) /\ StepOK(r, s, ev) /\ Write(c[1], s, ev)
          /\ c[2].task # NoTask /\ s.status \in Outcome => s.status = upstream[c[2].task]
    BY <1>2 DEF Derives
  <1>4. c[1] = e /\ records'[e] = s
    BY <1>1, <1>3 DEF Write, ServiceInv, StoreTypeOK
  <1>5. c[2] = records[e]
    BY <1>3, <1>4, DerivesFromCurrent
  <1> QED
    BY <1>1, <1>3, <1>4, <1>5

LEMMA DurableStep ==
    ASSUME ServiceInv, OneClaimant, [Next]_vars
    PROVE  IntentIsDurable
  <1> SUFFICES ASSUME NEW t \in Task, NEW e \in Admitted, upstream'[t] = "cancelled",
                      records[e].task = t, upstream[t] # "cancelled"
               PROVE  records[e].cancelling
    BY DEF IntentIsDurable
  <1>1. e \in Execution
    BY DEF Admitted
  <1>2. TaskStep
    BY <1>1, NextTasks, Workers
  <1>3. PICK w \in Worker : /\ Busy(w) /\ work[w].rec.task = t /\ t # NoTask
                            /\ work[w].rec.cancelling
    BY <1>2 DEF TaskStep, Asked
  <1>4. PICK c \in HeldCopies : c = <<work[w].exec, work[w].rec>>
    BY <1>3, BusyWorker DEF ServiceInv, HeldBy
  <1>5. c[1] = work[w].exec /\ c[2] = work[w].rec
    BY <1>4
  <1>6. work[w].exec \in Execution /\ Claimed(work[w].exec, t) /\ Claimed(e, t)
    <2>1. PICK now \in Current : now = <<e, records[e]>>
      BY DEF Current
    <2> QED
      BY <1>3, <1>5, <2>1, BusyWorker DEF ServiceInv, Claimed
  <1>7. work[w].exec = e
    BY <1>1, <1>6 DEF OneClaimant
  <1>8. Tracks(work[w].rec, records[e]) /\ VersionOK(records[e])
    BY <1>5, <1>7 DEF ServiceInv, TasksOK
  <1> QED
    BY <1>3, <1>8 DEF Tracks, VersionOK

-----------------------------------------------------------------------------
(* Attempts and retry sequences of calls that are not streamed.            *)

(* Version r tells the truth about a retry sequence in phase p.  A task is *)
(* never retried: it cannot be started from any status in which a retry    *)
(* may be scheduled.                                                       *)
Settled(r, p) ==
    /\ r.status = "failed" /\ r.cycled => p = "retry.aborted"
    /\ r.status = "succeeded" /\ r.cycled => p = "retry.succeeded"
    /\ p = "retry.scheduled" => r.cycled /\ r.status \in {"waiting_retry", "expired"}
    /\ r.request.async => /\ ~r.cycled /\ r.status # "waiting_retry"
                          /\ r.status \in {"queued", "running"} => r.task # NoTask

Phase(p, ev) == IF ev \in RetryEvent THEN ev ELSE p

(* If the store lets s replace r in phase p, the story goes on truly, and  *)
(* no more than m attempts are recorded.                                   *)
Follows(m, p, r, s, ev) ==
    /\ ~IsTerminal(r.status) /\ s.attempts <= m
    /\ Settled(r, p) /\ (s.status = r.status \/ LegalTransition(r.status, s.status))
          => Settled(s, Phase(p, ev))

\* What the save at n replaces, and in which phases, from r in one of P.
Prior(r, saves, n) == IF n = 1 THEN r ELSE saves[n - 1].rec

Phases(P, saves, n) ==
    IF n = 1 THEN P
    ELSE IF saves[n - 1].ev \in RetryEvent THEN {saves[n - 1].ev}
    ELSE RetryPhase

Tells(m, P, r, saves) ==
    \A n \in 1..Len(saves) : \A p \in Phases(P, saves, n) :
        Follows(m, p, Prior(r, saves, n), saves[n].rec, saves[n].ev)

LEMMA TellsNone == ASSUME NEW m, NEW P, NEW r PROVE Tells(m, P, r, <<>>)
  <1>1. Len(<<>>) = 0
    BY EmptySeq
  <1> QED
    BY <1>1 DEF Tells

LEMMA TellsOne ==
    ASSUME NEW m, NEW P, NEW r, NEW s, NEW ev, NEW mode,
           \A p \in P : Follows(m, p, r, s, ev)
    PROVE  Tells(m, P, r, Saves(s, ev, mode))
  <1>1. PICK x : x = [rec |-> s, ev |-> ev, mode |-> mode]
    OBVIOUS
  <1>2. Saves(s, ev, mode) = <<x>> /\ x.rec = s /\ x.ev = ev
    BY <1>1 DEF Saves
  <1>3. Len(<<x>>) = 1 /\ <<x>>[1] = x
    OBVIOUS
  <1> QED
    BY <1>2, <1>3 DEF Tells, Phases, Prior

LEMMA TellsJoin ==
    ASSUME NEW m, NEW P, NEW r, NEW a \in Seq(Pending), NEW b \in Seq(Pending),
           Tells(m, P, r, a),
           Tells(m, Phases(P, a, Len(a) + 1), Prior(r, a, Len(a) + 1), b)
    PROVE  Tells(m, P, r, a \o b)
  <1>1. PICK L \in Nat, M \in Nat : L = Len(a) /\ M = Len(b)
    BY LenProperties
  <1>2. PICK c : c = a \o b
    OBVIOUS
  <1>3. Len(c) = L + M
    BY <1>1, <1>2, Joined
  <1>4. \A n \in 1..L : c[n] = a[n]
    BY <1>1, <1>2, Joined
  <1>5. \A n \in 1..M : c[L + n] = b[n]
    BY <1>1, <1>2, Joined
  <1>6. ASSUME NEW n \in 1..L + M, NEW p \in Phases(P, c, n)
        PROVE  Follows(m, p, Prior(r, c, n), c[n].rec, c[n].ev)
    <2>1. CASE n \in 1..L
      <3>1. n = 1 \/ n - 1 \in 1..L
        BY <2>1
      <3>2. c[n] = a[n] /\ (n # 1 => c[n - 1] = a[n - 1])
        BY <1>4, <2>1, <3>1
      <3>3. Prior(r, c, n) = Prior(r, a, n) /\ Phases(P, c, n) = Phases(P, a, n)
        BY <3>2 DEF Prior, Phases
      <3> QED
        BY <1>1, <1>6, <2>1, <3>2, <3>3 DEF Tells
    <2>2. CASE n = L + 1
      <3>1. 1 \in 1..M /\ c[n] = b[1]
        BY <1>5, <2>2
      <3>2. L = 0 \/ c[L] = a[L]
        BY <1>4
      <3>3. n - 1 = L /\ (n = 1 <=> L = 0) /\ n = Len(a) + 1
        BY <1>1, <2>2
      <3>4. Prior(r, c, n) = Prior(r, a, n) /\ Phases(P, c, n) = Phases(P, a, n)
        BY <3>2, <3>3 DEF Prior, Phases
      <3>5. p \in Phases(P, a, n)
        BY <1>6, <3>4
      <3>6. Follows(m, p, Prior(r, a, n), b[1].rec, b[1].ev)
        <4>1. /\ Phases(Phases(P, a, n), b, 1) = Phases(P, a, n)
              /\ Prior(Prior(r, a, n), b, 1) = Prior(r, a, n)
          BY DEF Phases, Prior
        <4> QED
          BY <1>1, <3>1, <3>3, <3>5, <4>1 DEF Tells
      <3> QED
        BY <3>1, <3>4, <3>6
    <2>3. CASE n \notin 1..L + 1
      <3>1. PICK k \in 1..M : n = L + k /\ k # 1
        <4>1. n - L \in 1..M /\ n = L + (n - L) /\ n - L # 1
          BY <2>3
        <4> QED
          BY <4>1
      <3>2. k - 1 \in 1..M /\ n - 1 = L + (k - 1) /\ n # 1
        BY <3>1
      <3>3. c[n] = b[k] /\ c[n - 1] = b[k - 1]
        BY <1>5, <3>1, <3>2
      <3>4. \A R, Q : Prior(r, c, n) = Prior(R, b, k) /\ Phases(P, c, n) = Phases(Q, b, k)
        BY <3>1, <3>2, <3>3 DEF Prior, Phases
      <3> QED
        BY <1>1, <1>6, <3>1, <3>3, <3>4 DEF Tells
    <2> QED
      BY <2>1, <2>2, <2>3
  <1> QED
    BY <1>2, <1>3, <1>6 DEF Tells

\* What is told from more phases is told from fewer.
LEMMA TellsFewer ==
    ASSUME NEW m, NEW P, NEW Q, P \subseteq Q, NEW r, NEW saves, Tells(m, Q, r, saves)
    PROVE  Tells(m, P, r, saves)
  <1>1. \A n : Phases(P, saves, n) \subseteq Phases(Q, saves, n)
    BY DEF Phases
  <1> QED
    BY <1>1 DEF Tells

\* What is told of b is told of r, if b is like r for the retry sequence.
LEMMA TellsFrom ==
    ASSUME NEW m, NEW P, NEW r, NEW b, NEW saves, Tells(m, P, b, saves),
           b.status = r.status, \A p \in P : Settled(r, p) => Settled(b, p)
    PROVE  Tells(m, P, r, saves)
  <1>1. ASSUME NEW n \in 1..Len(saves), NEW p \in Phases(P, saves, n)
        PROVE  Follows(m, p, Prior(r, saves, n), saves[n].rec, saves[n].ev)
    <2>1. Follows(m, p, Prior(b, saves, n), saves[n].rec, saves[n].ev)
      BY <1>1 DEF Tells
    <2>2. CASE n = 1
      <3>1. Prior(b, saves, n) = b /\ Prior(r, saves, n) = r /\ p \in P
        BY <1>1, <2>2 DEF Prior, Phases
      <3> QED
        BY <2>1, <3>1 DEF Follows
    <2>3. CASE n # 1
      <3>1. Prior(b, saves, n) = Prior(r, saves, n)
        BY <2>3 DEF Prior
      <3> QED
        BY <2>1, <3>1
    <2> QED
      BY <2>2, <2>3
  <1> QED
    BY <1>1 DEF Tells

\* A chain ends where the rest of it ends.
LEMMA AfterTail ==
    ASSUME NEW r, NEW saves \in Seq(Pending), saves # <<>>
    PROVE  After(Head(saves).rec, Tail(saves)) = After(r, saves)
  <1>0. PICK x, rest : x = Head(saves) /\ rest = Tail(saves)
    OBVIOUS
  <1>1. PICK L \in Nat : L = Len(saves) /\ L # 0
    BY LenProperties, EmptySeq
  <1>2. x \in Pending /\ rest \in Seq(Pending)
    BY <1>0, HeadTailProperties
  <1>3. x = saves[1] /\ Len(rest) = L - 1 /\ \A n \in 1..L - 1 : rest[n] = saves[n + 1]
    BY <1>0, <1>1, <1>2, HeadTailProperties
  <1>4. CASE rest = <<>>
    <2>l. Len(<<>>) = 0
      BY EmptySeq
    <2>k. L - 1 = 0
      BY <1>3, <1>4, <2>l
    <2>1. L = 1
      BY <2>k
    <2>2. After(x.rec, rest) = x.rec
      BY <1>4 DEF After
    <2>3. After(r, saves) = saves[L].rec
      BY <1>1 DEF After
    <2> QED
      BY <1>0, <1>3, <2>1, <2>2, <2>3
  <1>5. CASE rest # <<>>
    <2>1. L - 1 # 0
      BY <1>2, <1>3, <1>5, EmptySeq
    <2>2. L - 1 \in 1..L - 1 /\ (L - 1) + 1 = L
      BY <1>1, <2>1
    <2>3. rest[L - 1] = saves[L]
      BY <1>3, <2>2
    <2>4. After(x.rec, rest) = rest[L - 1].rec
      BY <1>3, <1>5 DEF After
    <2>5. After(r, saves) = saves[L].rec
      BY <1>1 DEF After
    <2> QED
      BY <1>0, <2>3, <2>4, <2>5
  <1> QED
    BY <1>4, <1>5

(* The first of what is told, and the rest from there.                     *)
LEMMA TellsTail ==
    ASSUME NEW m, NEW p \in RetryPhase, NEW r, NEW saves \in Seq(Pending), saves # <<>>,
           NEW P, P = {p}, Tells(m, P, r, saves),
           NEW x, x = Head(saves), NEW rest, rest = Tail(saves)
    PROVE  /\ Follows(m, p, r, x.rec, x.ev)
           /\ Tells(m, {Phase(p, x.ev)}, x.rec, rest)
  <1>1. PICK L \in Nat : L = Len(saves) /\ L # 0
    BY LenProperties, EmptySeq
  <1>2. x \in Pending /\ rest \in Seq(Pending)
    BY HeadTailProperties
  <1>3. x = saves[1] /\ Len(rest) = L - 1 /\ \A n \in 1..L - 1 : rest[n] = saves[n + 1]
    BY <1>1, <1>2, HeadTailProperties
  <1>4. 1 \in 1..L /\ \A n \in 1..L - 1 : n + 1 \in 1..L /\ (n + 1) - 1 = n /\ n + 1 # 1
    BY <1>1
  <1>5. Follows(m, p, r, x.rec, x.ev)
    <2>1. Phases({p}, saves, 1) = {p} /\ Prior(r, saves, 1) = r
      BY DEF Phases, Prior
    <2> QED
      BY <1>1, <1>3, <1>4, <2>1 DEF Tells
  <1>6. ASSUME NEW n \in 1..L - 1, NEW q \in Phases({Phase(p, x.ev)}, rest, n)
        PROVE  Follows(m, q, Prior(x.rec, rest, n), rest[n].rec, rest[n].ev)
    <2>1. Follows(m, q, Prior(r, saves, n + 1), saves[n + 1].rec, saves[n + 1].ev)
            \/ q \notin Phases({p}, saves, n + 1)
      BY <1>1, <1>4 DEF Tells
    <2>2. CASE n = 1
      <3>1. q = Phase(p, x.ev) /\ Prior(x.rec, rest, n) = x.rec
        BY <1>6, <2>2 DEF Phases, Prior
      <3>2. q \in Phases({p}, saves, n + 1) /\ Prior(r, saves, n + 1) = x.rec
        BY <1>3, <1>4, <1>6, <2>2, <3>1 DEF Phases, Prior, Phase
      <3> QED
        BY <1>3, <2>1, <3>1, <3>2
    <2>3. CASE n # 1
      <3>1. n - 1 \in 1..L - 1 /\ (n - 1) + 1 = n
        BY <1>1, <1>6, <2>3
      <3>2. rest[n - 1] = saves[n]
        BY <1>3, <3>1
      <3>3. /\ Prior(x.rec, rest, n) = Prior(r, saves, n + 1)
            /\ Phases({Phase(p, x.ev)}, rest, n) = Phases({p}, saves, n + 1)
        BY <1>4, <2>3, <3>2 DEF Phases, Prior
      <3> QED
        BY <1>3, <1>6, <2>1, <3>3
    <2> QED
      BY <2>2, <2>3
  <1>8. Tells(m, {Phase(p, x.ev)}, x.rec, rest)
    BY <1>3, <1>6 DEF Tells
  <1> QED
    BY <1>5, <1>8

-----------------------------------------------------------------------------
(* What the code prepares is told.                                         *)

\* The last version of one save, or of none.
LEMMA LastOfOne ==
    ASSUME NEW r, NEW s, NEW ev, NEW mode
    PROVE  After(r, Saves(s, ev, mode)) = s
  <1>1. PICK x : x = [rec |-> s, ev |-> ev, mode |-> mode]
    OBVIOUS
  <1>2. Saves(s, ev, mode) = <<x>> /\ x.rec = s
    BY <1>1 DEF Saves
  <1>3. Len(<<x>>) = 1 /\ <<x>>[1] = x /\ <<x>> # <<>>
    OBVIOUS
  <1> QED
    BY <1>2, <1>3 DEF After

LEMMA LengthOfOne ==
    ASSUME NEW s, NEW ev, NEW mode
    PROVE  /\ Len(Saves(s, ev, mode)) = 1
           /\ Saves(s, ev, mode)[1].rec = s /\ Saves(s, ev, mode)[1].ev = ev
  <1>1. PICK x : x = [rec |-> s, ev |-> ev, mode |-> mode]
    OBVIOUS
  <1>2. Saves(s, ev, mode) = <<x>> /\ x.rec = s /\ x.ev = ev
    BY <1>1 DEF Saves
  <1>3. Len(<<x>>) = 1 /\ <<x>>[1] = x
    OBVIOUS
  <1> QED
    BY <1>2, <1>3

LEMMA LifecycleIsNoRetry ==
    ASSUME NEW s \in Target
    PROVE  EventFor(s) \notin RetryEvent
  BY Announced DEF LifecycleEvent, RetryEvent

LEMMA MovedFields ==
    ASSUME NEW r \in Record, NEW s
    PROVE  /\ Moved(r, s).status = s /\ Moved(r, s).cycled = r.cycled
           /\ Moved(r, s).request = r.request /\ Moved(r, s).attempts = r.attempts
           /\ IsTerminal(s) \/ Moved(r, s).task = r.task
  BY DEF Moved, Record

(* A move to status s is told in the phases in which it may be made: a     *)
(* failure or success of a retried execution after its closing event, and  *)
(* out of a retry that waits only if it expires.                           *)
MayMove(r, s, p) ==
    /\ s = "failed" /\ r.cycled => p = "retry.aborted"
    /\ s = "succeeded" /\ r.cycled => p = "retry.succeeded"
    /\ p = "retry.scheduled" => s = "expired" \/ r.status # "waiting_retry"
    /\ r.request.async /\ s \in {"queued", "running"} => r.task # NoTask

LEMMA MovedFollows ==
    ASSUME NEW m, NEW p, NEW r \in Record, NEW s \in Target,
           ~IsTerminal(r.status), r.attempts <= m, Settled(r, p) => MayMove(r, s, p)
    PROVE  Follows(m, p, r, Moved(r, s), EventFor(s))
  <1>1. PICK n : n = Moved(r, s)
    OBVIOUS
  <1>2. /\ n.status = s /\ n.cycled = r.cycled /\ n.request = r.request
        /\ n.attempts = r.attempts /\ (IsTerminal(s) \/ n.task = r.task)
    BY <1>1, MovedFields
  <1>3. Phase(p, EventFor(s)) = p
    BY LifecycleIsNoRetry DEF Phase
  <1>4. ASSUME Settled(r, p) PROVE Settled(n, p)
    <2>1. MayMove(r, s, p)
      BY <1>4
    <2>2. s # "waiting_retry" /\ (s \in {"queued", "running"} => ~IsTerminal(s))
      BY DEF Target, TerminalStatus, IsTerminal
    <2>3. p = "retry.scheduled" => r.status \in {"waiting_retry", "expired"} /\ r.status # "expired"
      BY <1>4 DEF Settled, IsTerminal, TerminalStatus
    <2> QED
      BY <1>2, <1>4, <2>1, <2>2, <2>3 DEF Settled, MayMove
  <1> QED
    BY <1>1, <1>2, <1>3, <1>4 DEF Follows

LEMMA TransitionTells ==
    ASSUME NEW m, NEW P, NEW r \in Record, NEW s \in Target,
           ~IsTerminal(r.status), r.attempts <= m,
           \A p \in P : Settled(r, p) => MayMove(r, s, p)
    PROVE  Tells(m, P, r, Transition(r, s)) /\ After(r, Transition(r, s)).status = s
  <1>1. CASE r.status = s
    BY <1>1, TellsNone DEF Transition, After
  <1>2. CASE r.status # s
    <2>1. PICK mode : Transition(r, s) = Saves(Moved(r, s), EventFor(s), mode)
      BY <1>2 DEF Transition
    <2>2. \A p \in P : Follows(m, p, r, Moved(r, s), EventFor(s))
      BY MovedFollows
    <2>3. Tells(m, P, r, Transition(r, s))
      BY <2>1, <2>2, TellsOne
    <2>4. After(r, Transition(r, s)) = Moved(r, s)
      BY <2>1, LastOfOne
    <2> QED
      BY <2>3, <2>4, MovedFields
  <1> QED
    BY <1>1, <1>2

(* A note leaves the status, and an event of the retry sequence that does  *)
(* not schedule a retry is true of any open version.                       *)
LEMMA NoteTells ==
    ASSUME NEW m, NEW P, NEW r \in Record, NEW ev, ev # "retry.scheduled",
           ~IsTerminal(r.status), r.attempts <= m
    PROVE  /\ Tells(m, P, r, Note(r, ev))
           /\ After(r, Note(r, ev)).status = r.status
           /\ After(r, Note(r, ev)).cycled = r.cycled
           /\ After(r, Note(r, ev)).attempts = r.attempts
           /\ After(r, Note(r, ev)).task = r.task
  <1>1. PICK s : s = [r EXCEPT !.rev = @ + 1]
    OBVIOUS
  <1>2. /\ s.status = r.status /\ s.cycled = r.cycled /\ s.request = r.request
        /\ s.attempts = r.attempts /\ s.task = r.task
    BY <1>1 DEF Record
  <1>3. ASSUME NEW p PROVE Follows(m, p, r, s, ev)
    <2>1. Settled(r, p) => Settled(s, Phase(p, ev))
      <3>1. CASE ev \in RetryEvent
        BY <1>2, <3>1 DEF Settled, Phase, IsTerminal, TerminalStatus
      <3>2. CASE ev \notin RetryEvent
        BY <1>2, <3>2 DEF Settled, Phase
      <3> QED
        BY <3>1, <3>2
    <2> QED
      BY <1>2, <2>1 DEF Follows
  <1>4. Note(r, ev) = Saves(s, ev, "plain")
    BY <1>1 DEF Note
  <1>5. Tells(m, P, r, Note(r, ev))
    BY <1>3, <1>4, TellsOne
  <1>6. After(r, Note(r, ev)) = s
    BY <1>4, LastOfOne
  <1> QED
    BY <1>2, <1>5, <1>6

(* An attempt is recorded where the limit leaves one.                      *)
LEMMA AttemptTells ==
    ASSUME NEW m, NEW P, NEW r \in Record, ~IsTerminal(r.status), r.attempts + 1 <= m
    PROVE  Tells(m, P, r, Saves(Attempted(r), "none", "plain"))
  <1>1. PICK n \in Nat, k \in Nat : n = r.rev + 1 /\ k = r.attempts + 1
    <2>1. r.rev \in Nat /\ r.attempts \in Nat
      BY DEF Record
    <2>2. r.rev + 1 \in Nat /\ r.attempts + 1 \in Nat
      BY <2>1
    <2> QED
      BY <2>2
  <1>2. PICK s : s = [r EXCEPT !.rev = n, !.attempts = k]
    OBVIOUS
  <1>3. /\ s.status = r.status /\ s.cycled = r.cycled /\ s.request = r.request
        /\ s.attempts = k /\ s.task = r.task
    BY <1>2 DEF Record
  <1>4. Attempted(r) = s
    BY <1>1, <1>2 DEF Attempted
  <1>5. "none" \notin RetryEvent
    BY DEF RetryEvent
  <1>6. ASSUME NEW p PROVE Follows(m, p, r, s, "none")
    BY <1>1, <1>3, <1>5 DEF Follows, Settled, Phase
  <1> QED
    BY <1>4, <1>6, TellsOne

(* A failure closes the retry sequence first.                              *)
LEMMA FailTells ==
    ASSUME NEW m, NEW P, NEW r \in Record, ~IsTerminal(r.status), r.attempts <= m
    PROVE  Tells(m, P, r, Fail(r))
  <1>t. "failed" \in Target /\ "failed" \notin {"succeeded", "queued", "running"}
    BY DEF Target, TerminalStatus
  <1>1. CASE r.cycled
    <2>1. PICK abort : abort = Note(r, "retry.aborted") /\ Chain(r, abort)
                       /\ Tells(m, P, r, abort)
      <3>1. "retry.aborted" \in EventType /\ "retry.aborted" \notin LifecycleEvent \cup {"retry.scheduled"}
        BY DEF EventType, RetryEvent, LifecycleEvent
      <3>2. Chain(r, Note(r, "retry.aborted")) /\ Tells(m, P, r, Note(r, "retry.aborted"))
        BY <3>1, NoteChain, NoteTells
      <3> QED
        BY <3>2
    <2>2. PICK last \in Record : last = After(r, abort)
      BY <2>1, ChainAfter
    <2>3. last.status = r.status /\ last.attempts = r.attempts
      BY <2>1, <2>2, NoteTells
    <2>4. PICK failed : failed = Transition(last, "failed") /\ Chain(last, failed)
                        /\ Tells(m, {"retry.aborted"}, last, failed)
      <3>1. MayMove(last, "failed", "retry.aborted")
        BY <1>t DEF MayMove
      <3>2. Chain(last, Transition(last, "failed"))
            /\ Tells(m, {"retry.aborted"}, last, Transition(last, "failed"))
        BY <1>t, <2>3, <3>1, TransitionChain, TransitionTells
      <3> QED
        BY <3>2
    <2>5. /\ Phases(P, abort, Len(abort) + 1) = {"retry.aborted"}
          /\ Prior(r, abort, Len(abort) + 1) = last
      <3>1. PICK s : s = [r EXCEPT !.rev = @ + 1]
        OBVIOUS
      <3>2. abort = Saves(s, "retry.aborted", "plain")
        BY <2>1, <3>1 DEF Note
      <3>3. "retry.aborted" \in RetryEvent /\ last = s
        BY <2>2, <3>2, LastOfOne DEF RetryEvent
      <3>4. Len(abort) = 1 /\ abort[1].rec = s /\ abort[1].ev = "retry.aborted"
        BY <3>2, LengthOfOne
      <3>5. Len(abort) + 1 # 1 /\ (Len(abort) + 1) - 1 = 1
        BY <3>4
      <3> QED
        BY <3>3, <3>4, <3>5 DEF Prior, Phases
    <2>6. Fail(r) = abort \o failed
      BY <1>1, <2>1, <2>2, <2>4 DEF Fail
    <2> QED
      BY <2>1, <2>4, <2>5, <2>6, TellsJoin DEF Chain
  <1>2. CASE ~r.cycled
    <2>1. PICK failed : failed = Transition(r, "failed") /\ Chain(r, failed)
      BY <1>t, TransitionChain
    <2>2. Fail(r) = failed
      <3>1. Fail(r) = <<>> \o failed
        BY <1>2, <2>1 DEF Fail, After
      <3> QED
        BY <2>1, <3>1, ConcatEmptySeq DEF Chain
    <2>3. \A p \in P : Settled(r, p) => MayMove(r, "failed", p)
      BY <1>2, <1>t DEF MayMove, Settled
    <2> QED
      BY <1>t, <2>1, <2>2, <2>3, TransitionTells
  <1> QED
    BY <1>1, <1>2

(* A retry is scheduled where the store accepts it: not for a task.        *)
LEMMA ScheduleTells ==
    ASSUME NEW m, NEW P, NEW r \in Record, ~IsTerminal(r.status), r.attempts <= m,
           r.request.async => r.task = NoTask
    PROVE  Tells(m, P, r, ScheduleRetry(r))
  <1>1. PICK n \in Nat \ {0} : n = r.rev + 1
    BY NextRevision
  <1>2. PICK s : s = [r EXCEPT !.rev = n, !.status = "waiting_retry",
                               !.cycled = TRUE, !.waits = TRUE]
    OBVIOUS
  <1>3. /\ s.status = "waiting_retry" /\ s.cycled = TRUE /\ s.request = r.request
        /\ s.attempts = r.attempts
    BY <1>2 DEF Record
  <1>4. ScheduleRetry(r) = Saves(s, "retry.scheduled", "plain")
    BY <1>1, <1>2 DEF ScheduleRetry
  <1>5. ASSUME NEW p, Settled(r, p), r.request.async
        PROVE  ~(s.status = r.status \/ LegalTransition(r.status, s.status))
    <2>1. r.status \in {"accepted", "preparing_inputs"}
      <3>1. r.status \in OpenStatus
        BY DEF Record, Status, IsTerminal
      <3> QED
        BY <1>5, <3>1 DEF Settled, OpenStatus
    <2> QED
      BY <1>3, <2>1 DEF LegalTransition, Successors
  <1>6. ASSUME NEW p PROVE Follows(m, p, r, s, "retry.scheduled")
    <2>1. CASE r.request.async
      BY <1>3, <1>5, <2>1 DEF Follows
    <2>2. CASE ~r.request.async
      BY <1>3, <2>2 DEF Follows, Settled, Phase, RetryEvent
    <2> QED
      BY <2>1, <2>2
  <1> QED
    BY <1>4, <1>6, TellsOne

LEMMA SucceedTells ==
    ASSUME NEW m, NEW P, NEW r \in Record, NEW s \in {"succeeded", "partially_succeeded"},
           ~IsTerminal(r.status), r.attempts <= m,
           \A p \in P : Settled(r, p) => MayMove(r, s, p)
    PROVE  Tells(m, P, r, Succeed(r, s))
  <1>1. s \in Target
    BY DEF Target, TerminalStatus
  <1>2. \A p \in P : Follows(m, p, r, Moved(r, s), EventFor(s))
    BY <1>1, MovedFollows
  <1> QED
    BY <1>2, TellsOne DEF Succeed

(* What comes after one save that is no event of the retry sequence.       *)
LEMMA TellsAfterOne ==
    ASSUME NEW m, NEW P, NEW r, NEW s, NEW ev, NEW mode, NEW a \in Seq(Pending),
           NEW b \in Seq(Pending), a = Saves(s, ev, mode),
           Tells(m, P, r, a),
           Tells(m, IF ev \in RetryEvent THEN {ev} ELSE RetryPhase, s, b)
    PROVE  Tells(m, P, r, a \o b)
  <1>1. Len(a) = 1 /\ a[1].rec = s /\ a[1].ev = ev
    BY LengthOfOne
  <1>2. Len(a) + 1 # 1 /\ (Len(a) + 1) - 1 = 1
    BY <1>1
  <1>3. /\ Prior(r, a, Len(a) + 1) = s
        /\ Phases(P, a, Len(a) + 1) = IF ev \in RetryEvent THEN {ev} ELSE RetryPhase
    BY <1>1, <1>2 DEF Prior, Phases
  <1> QED
    BY <1>3, TellsJoin

(* A task's outcome: no task is ever retried.                              *)
LEMMA ObserveTells ==
    ASSUME NEW m, NEW r \in Record, NEW s, NEW sound,
           ~IsTerminal(r.status), r.attempts <= m, r.request.async, r.task # NoTask
    PROVE  Tells(m, RetryPhase, r, Observe(r, s, sound))
  <1>1. \A p, n : n \notin {"failed", "succeeded"} /\ Settled(r, p) => MayMove(r, n, p)
    BY DEF MayMove, Settled, IsTerminal, TerminalStatus
  <1>2. CASE s \in {"queued", "running"}
    <2>1. Tells(m, RetryPhase, r, Note(r, "none"))
      BY NoteTells
    <2>2. s \in Target /\ s \notin {"failed", "succeeded"}
      BY <1>2 DEF Target
    <2>3. Tells(m, RetryPhase, r, Transition(r, s))
      BY <1>1, <2>2, TransitionTells
    <2> QED
      BY <1>2, <2>1, <2>3 DEF Observe
  <1>3. CASE s \in {"succeeded", "partially_succeeded"}
    <2>1. "running" \in Target /\ "running" \notin {"failed", "succeeded"} /\ ~IsTerminal("running")
      BY DEF Target, IsTerminal, TerminalStatus
    <2>2. PICK running : running = Transition(r, "running") /\ Chain(r, running)
                         /\ Tells(m, RetryPhase, r, running)
      BY <1>1, <2>1, TransitionChain, TransitionTells
    <2>3. PICK last \in Record : last = After(r, running)
      BY <2>2, ChainAfter
    <2>4. PICK rest : rest = IF sound THEN Succeed(last, s) ELSE Fail(last)
      OBVIOUS
    <2>5. Observe(r, s, sound) = running \o rest /\ Chain(last, rest)
      BY <1>3, <2>2, <2>3, <2>4, SucceedChain, FailChain DEF Observe
    <2>l. /\ last.status = "running" /\ last.attempts = r.attempts
          /\ last.request = r.request
      <3>1. last.status = "running"
        BY <1>1, <2>1, <2>2, <2>3, TransitionTells
      <3>2. CASE r.status = "running"
        BY <2>2, <2>3, <3>2 DEF Transition, After
      <3>3. CASE r.status # "running"
        <4>1. PICK mode : running = Saves(Moved(r, "running"), EventFor("running"), mode)
          BY <2>2, <3>3 DEF Transition
        <4>2. last = Moved(r, "running")
          BY <2>3, <4>1, LastOfOne
        <4> QED
          BY <3>1, <4>2, MovedFields
      <3> QED
        BY <3>1, <3>2, <3>3
    <2>6. ASSUME NEW P PROVE Tells(m, P, last, rest)
      <3>1. Tells(m, P, last, Fail(last))
        BY <2>1, <2>l, FailTells
      <3>2. \A p \in P : Settled(last, p) => MayMove(last, s, p)
        BY <1>3, <2>l DEF MayMove, Settled
      <3>3. Tells(m, P, last, Succeed(last, s))
        BY <1>3, <2>1, <2>l, <3>2, SucceedTells
      <3> QED
        BY <2>4, <3>1, <3>3
    <2>7. CASE r.status = "running"
      <3>1. running = <<>> /\ last = r
        BY <2>2, <2>3, <2>7 DEF Transition, After
      <3>2. running \o rest = rest
        BY <2>5, <3>1, ConcatEmptySeq DEF Chain
      <3> QED
        BY <2>5, <2>6, <3>1, <3>2
    <2>8. CASE r.status # "running"
      <3>1. PICK n, mode : running = Saves(n, EventFor("running"), mode) /\ n = last
        <4>1. PICK mode : running = Saves(Moved(r, "running"), EventFor("running"), mode)
          BY <2>2, <2>8 DEF Transition
        <4>2. last = Moved(r, "running")
          BY <2>3, <4>1, LastOfOne
        <4> QED
          BY <4>1, <4>2
      <3>2. running \in Seq(Pending) /\ rest \in Seq(Pending)
        BY <2>2, <2>5 DEF Chain
      <3>3. Tells(m, RetryPhase, r, running \o rest)
        BY <2>2, <2>6, <3>1, <3>2, TellsAfterOne
      <3> QED
        BY <2>5, <3>3
    <2> QED
      BY <2>7, <2>8
  <1>4. CASE s = "failed"
    BY <1>4, FailTells DEF Observe
  <1>5. CASE s = "cancelled"
    <2>1. s \in Target /\ s \notin {"failed", "succeeded"}
      BY <1>5 DEF Target, TerminalStatus
    <2>2. Tells(m, RetryPhase, r, Transition(r, s))
      BY <1>1, <2>1, TransitionTells
    <2> QED
      BY <1>5, <2>2 DEF Observe
  <1>6. CASE s \notin {"queued", "running", "succeeded", "partially_succeeded", "failed", "cancelled"}
    BY <1>6, TellsNone DEF Observe
  <1> QED
    BY <1>2, <1>3, <1>4, <1>5, <1>6

\* How ReturnSuccess ends an execution.
Concludes(r) ==
    LET closed == IF r.cycled THEN Note(r, "retry.succeeded") ELSE <<>>
    IN  closed \o Succeed(After(r, closed), "succeeded")

(* A success closes the retry sequence first.                              *)
LEMMA ConcludesTells ==
    ASSUME NEW m, NEW P, NEW r \in Record, ~IsTerminal(r.status), r.attempts <= m
    PROVE  Tells(m, P, r, Concludes(r))
  <1>1. CASE r.cycled
    <2>e. "retry.succeeded" \in EventType /\ "retry.succeeded" \in RetryEvent
          /\ "retry.succeeded" \notin LifecycleEvent \cup {"retry.scheduled"}
      BY DEF EventType, RetryEvent, LifecycleEvent
    <2>1. PICK closed : closed = Note(r, "retry.succeeded") /\ Chain(r, closed)
                        /\ Tells(m, P, r, closed)
      BY <2>e, NoteChain, NoteTells
    <2>2. PICK last \in Record : last = After(r, closed)
      BY <2>1, ChainAfter
    <2>3. last.status = r.status /\ last.attempts = r.attempts
      BY <2>1, <2>2, <2>e, NoteTells
    <2>4. PICK rest : rest = Succeed(last, "succeeded") /\ Chain(last, rest)
      BY SucceedChain
    <2>5. MayMove(last, "succeeded", "retry.succeeded")
      BY DEF MayMove
    <2>6. Tells(m, {"retry.succeeded"}, last, rest)
      BY <2>3, <2>4, <2>5, SucceedTells
    <2>7. PICK s : s = [r EXCEPT !.rev = @ + 1]
      OBVIOUS
    <2>8. closed = Saves(s, "retry.succeeded", "plain") /\ last = s
      BY <2>1, <2>2, <2>7, LastOfOne DEF Note
    <2>9. Tells(m, P, r, closed \o rest)
      BY <2>1, <2>4, <2>6, <2>8, <2>e, TellsAfterOne DEF Chain
    <2> QED
      BY <1>1, <2>1, <2>2, <2>4, <2>9 DEF Concludes
  <1>2. CASE ~r.cycled
    <2>1. PICK rest : rest = Succeed(r, "succeeded") /\ Chain(r, rest)
      BY SucceedChain
    <2>2. Concludes(r) = rest
      <3>1. Concludes(r) = <<>> \o rest
        BY <1>2, <2>1 DEF Concludes, After
      <3> QED
        BY <2>1, <3>1, ConcatEmptySeq DEF Chain
    <2>3. \A p \in P : Settled(r, p) => MayMove(r, "succeeded", p)
      BY <1>2 DEF MayMove, Settled
    <2> QED
      BY <2>1, <2>2, <2>3, SucceedTells
  <1> QED
    BY <1>1, <1>2

-----------------------------------------------------------------------------
(* The second invariant: what workers with a current copy go on with.      *)

\* Where a worker goes on with a record whose retry, if any, has begun.
Opening == {"admit", "execute", "materialize", "ready"}

(* With version r, in phase p, what a worker saves is told truly, and it   *)
(* goes on afterwards only with what is open, and calls the provider only  *)
(* within the budget.                                                      *)
Course(p, r, saves, next) ==
    /\ Tells(MaximumAttempts(r.request), {p}, r, saves)
    /\ next # "emit"
    /\ next = "await" => saves = <<>> /\ r.attempts < MaximumAttempts(r.request)
    /\ next \notin {"done", "cut"} => ~IsTerminal(After(r, saves).status)
    /\ next = "poll" => After(r, saves).task # NoTask
    /\ next \in Opening =>
          IF saves = <<>> THEN p # "retry.scheduled"
          ELSE \A n \in 1..Len(saves) : Phase(p, saves[n].ev) # "retry.scheduled"

OnCourse(j, now, p) ==
    j.rec = now /\ ~Streams(now) =>
        IF j.pc = "save" THEN Course(p, now, j.todo, j.next)
        ELSE Course(p, now, <<>>, j.pc)

CoursesOK ==
    \A v \in Worker : Busy(v) =>
        OnCourse(work[v], records[work[v].exec], feed[work[v].exec].retry)

\* A record that is not streamed tells the truth, and keeps to its budget.
Truthful(r, p) ==
    ~Streams(r) => Settled(r, p) /\ r.attempts <= MaximumAttempts(r.request)

RetriesInv ==
    /\ CoursesOK
    /\ \A e \in Admitted : Truthful(records[e], feed[e].retry)

LEMMA CourseTail ==
    ASSUME NEW p \in RetryPhase, NEW r, NEW saves \in Seq(Pending), saves # <<>>, NEW next,
           Course(p, r, saves, next), Head(saves).rec.request = r.request
    PROVE  /\ Course(Phase(p, Head(saves).ev), Head(saves).rec, Tail(saves), next)
           /\ Follows(MaximumAttempts(r.request), p, r, Head(saves).rec, Head(saves).ev)
  <1>1. PICK x \in Pending, rest \in Seq(Pending) : x = Head(saves) /\ rest = Tail(saves)
    BY HeadTailProperties
  <1>2. PICK L \in Nat : L = Len(saves) /\ L # 0
    BY LenProperties, EmptySeq
  <1>3. x = saves[1] /\ Len(rest) = L - 1 /\ \A n \in 1..L - 1 : rest[n] = saves[n + 1]
    BY <1>1, <1>2, HeadTailProperties
  <1>4. 1 \in 1..L /\ \A n \in 1..L - 1 : n + 1 \in 1..L
    BY <1>2
  <1>5. PICK m : m = MaximumAttempts(r.request)
    OBVIOUS
  <1>6. Tells(m, {p}, r, saves)
    BY <1>5 DEF Course
  <1>7. /\ Follows(m, p, r, x.rec, x.ev)
        /\ Tells(m, {Phase(p, x.ev)}, x.rec, rest)
        /\ After(x.rec, rest) = After(r, saves)
    <2>1. PICK P : P = {p}
      OBVIOUS
    <2>2. Tells(m, P, r, saves)
      BY <1>6, <2>1
    <2>3. After(x.rec, rest) = After(r, saves)
      <3>1. After(Head(saves).rec, Tail(saves)) = After(r, saves)
        BY AfterTail
      <3> QED
        BY <1>1, <3>1
    <2> QED
      BY <1>1, <2>1, <2>2, <2>3, TellsTail
  <1>8. ASSUME next \in Opening
        PROVE  IF rest = <<>> THEN Phase(p, x.ev) # "retry.scheduled"
               ELSE \A n \in 1..Len(rest) : Phase(Phase(p, x.ev), rest[n].ev) # "retry.scheduled"
    <2>1. \A n \in 1..L : Phase(p, saves[n].ev) # "retry.scheduled"
      BY <1>2, <1>8 DEF Course
    <2>2. ASSUME NEW n \in 1..L - 1
          PROVE  Phase(Phase(p, x.ev), rest[n].ev) # "retry.scheduled"
      <3>1. Phase(p, rest[n].ev) # "retry.scheduled" /\ Phase(p, x.ev) # "retry.scheduled"
        BY <1>3, <1>4, <2>1, <2>2
      <3> QED
        BY <3>1 DEF Phase
    <2> QED
      BY <1>3, <1>4, <2>1, <2>2
  <1>9. next # "await" /\ next # "emit"
    BY DEF Course
  <1>10. Course(Phase(p, x.ev), x.rec, rest, next)
    BY <1>1, <1>5, <1>7, <1>8, <1>9 DEF Course
  <1> QED
    BY <1>1, <1>5, <1>7, <1>10

\* What a worker's job becomes when nothing of its execution is saved.
Onward(v) ==
    \/ work'[v] = Idle
    \/ work'[v] = work[v]
    \/ OnCourse(work'[v], records[work'[v].exec], feed[work'[v].exec].retry)

LEMMA OnwardKeeps ==
    ASSUME RetriesInv, UNCHANGED storeVars, \A v \in Worker : Onward(v)
    PROVE  RetriesInv'
  <1>1. records' = records /\ feed' = feed /\ Admitted' = Admitted
    BY DEF storeVars, Admitted
  <1>2. ASSUME NEW v \in Worker, Busy(v)'
        PROVE  OnCourse(work'[v], records[work'[v].exec], feed[work'[v].exec].retry)
    <2>1. work'[v] # Idle
      BY <1>2 DEF Busy, Idle
    <2>2. work'[v] = work[v] => Busy(v)
      BY <1>2 DEF Busy
    <2> QED
      BY <2>1, <2>2 DEF Onward, RetriesInv, CoursesOK
  <1> QED
    BY <1>1, <1>2 DEF RetriesInv, CoursesOK

LEMMA OneOnward ==
    ASSUME JobsOK, NEW w \in Worker, NEW j, work' = [work EXCEPT ![w] = j],
           j = Idle \/ OnCourse(j, records[j.exec], feed[j.exec].retry)
    PROVE  \A v \in Worker : Onward(v)
  <1>1. work'[w] = j /\ \A v \in Worker : v # w => work'[v] = work[v]
    BY DEF JobsOK
  <1> QED
    BY <1>1 DEF Onward

LEMMA EndOnward ==
    ASSUME JobsOK, NEW w \in Worker, End(w)
    PROVE  \A v \in Worker : Onward(v)
  BY OneOnward DEF End

LEMMA StopOnward ==
    ASSUME NEW i, Stop(i)
    PROVE  \A v \in Worker : Onward(v)
  BY DEF Stop, Onward

LEMMA AbortOnward ==
    ASSUME JobsOK, NEW w \in Worker, Abort(w)
    PROVE  \A v \in Worker : Onward(v)
  BY EndOnward, StopOnward DEF Abort

\* Where a worker proceeds to.
LEMMA ProceedJob ==
    ASSUME JobsOK, NEW w \in Worker, Busy(w), NEW r, NEW saves, NEW next,
           Proceed(w, r, saves, next)
    PROVE  \E j : /\ work' = [work EXCEPT ![w] = j]
                  /\ \/ j = Idle
                     \/ /\ j.exec = work[w].exec /\ j.rec = r /\ j.todo = saves
                        /\ j.next = next /\ j.host = work[w].host /\ j.task = work[w].task
                        /\ j.cut = work[w].cut
                        /\ j.pc = IF saves = <<>> THEN next ELSE "save"
  <1>1. CASE End(w)
    BY <1>1 DEF End
  <1>2. CASE ~End(w)
    <2>1. PICK k \in Job : k = work[w]
      BY BusyWorker
    <2>p. PICK pc : pc = IF saves = <<>> THEN next ELSE "save"
      OBVIOUS
    <2>2. PICK j : j = [k EXCEPT !.rec = r, !.todo = saves, !.pc = pc, !.next = next]
      OBVIOUS
    <2>3. work' = [work EXCEPT ![w] = j]
      BY <1>2, <2>1, <2>p, <2>2 DEF Proceed, JobsOK
    <2>4. /\ j.exec = k.exec /\ j.rec = r /\ j.todo = saves /\ j.next = next
          /\ j.host = k.host /\ j.task = k.task /\ j.pc = pc /\ j.cut = k.cut
      BY <2>2 DEF Job
    <2> QED
      BY <2>1, <2>p, <2>3, <2>4
  <1> QED
    BY <1>1, <1>2

LEMMA ProceedOnward ==
    ASSUME JobsOK, NEW w \in Worker, Busy(w), NEW r, NEW saves, NEW next, next # "save",
           Proceed(w, r, saves, next),
           NEW now, now = records[work[w].exec], NEW p, p = feed[work[w].exec].retry,
           r = now /\ ~Streams(now) => Course(p, now, saves, next)
    PROVE  \A v \in Worker : Onward(v)
  <1>1. PICK j : /\ work' = [work EXCEPT ![w] = j]
                 /\ \/ j = Idle
                    \/ /\ j.exec = work[w].exec /\ j.rec = r /\ j.todo = saves
                       /\ j.next = next
                       /\ j.pc = IF saves = <<>> THEN next ELSE "save"
    BY ProceedJob
  <1>2. j = Idle \/ OnCourse(j, records[j.exec], feed[j.exec].retry)
    BY <1>1 DEF OnCourse
  <1> QED
    BY <1>1, <1>2, OneOnward

(* What a worker with a current copy of an execution that is not streamed  *)
(* knows of it, before it decides what to save.                            *)
Knows(k, now, p) ==
    k.rec = now /\ ~Streams(now) =>
        /\ Settled(now, p) /\ now.attempts <= MaximumAttempts(now.request)
        /\ Course(p, now, <<>>, k.pc)
        /\ k.pc \notin {"done", "cut"} => ~IsTerminal(now.status)
        /\ k.pc \in Opening => p # "retry.scheduled"
        /\ k.pc = "await" => now.attempts < MaximumAttempts(now.request)
        /\ k.pc = "poll" => now.task # NoTask
        /\ VersionOK(now)

LEMMA Underway ==
    ASSUME ServiceInv, RetriesInv, NEW w \in Worker, Busy(w), work[w].pc # "save"
    PROVE  \E k \in Job, now \in Record, p \in RetryPhase :
              /\ k = work[w] /\ now = records[k.exec] /\ p = feed[k.exec].retry
              /\ k.rec \in Record /\ Knows(k, now, p)
  <1>1. PICK k \in Job : /\ k = work[w] /\ k.exec \in Execution
                         /\ records[k.exec] \in Record
                         /\ <<k.exec, k.rec>> \in HeldCopies
    BY Hands
  <1>2. k.exec \in Admitted
    BY <1>1 DEF ServiceInv, Versions
  <1>3. feed[k.exec].retry \in RetryPhase
    BY <1>1 DEF ServiceInv, StoreTypeOK, Feed
  <1>4. PICK now \in Record, p \in RetryPhase : now = records[k.exec] /\ p = feed[k.exec].retry
    BY <1>1, <1>3
  <1>5. ASSUME k.rec = now, ~Streams(now)
        PROVE  /\ Settled(now, p) /\ now.attempts <= MaximumAttempts(now.request)
               /\ Course(p, now, <<>>, k.pc)
               /\ k.pc \notin {"done", "cut"} => ~IsTerminal(now.status)
               /\ k.pc \in Opening => p # "retry.scheduled"
               /\ k.pc = "await" => now.attempts < MaximumAttempts(now.request)
               /\ k.pc = "poll" => now.task # NoTask
               /\ VersionOK(now)
    <2>1. Settled(now, p) /\ now.attempts <= MaximumAttempts(now.request)
      BY <1>2, <1>4, <1>5 DEF RetriesInv, Truthful
    <2>2. Course(p, now, <<>>, k.pc)
      BY <1>1, <1>4, <1>5 DEF RetriesInv, CoursesOK, OnCourse
    <2>3. After(now, <<>>) = now
      BY DEF After
    <2>4. VersionOK(now)
      BY <1>1, <1>4, HandVersions
    <2> QED
      BY <2>1, <2>2, <2>3, <2>4 DEF Course
  <1>6. Knows(k, now, p)
    BY <1>5 DEF Knows
  <1>7. k.rec \in Record
    BY DEF Job
  <1> QED
    BY <1>1, <1>4, <1>6, <1>7

-----------------------------------------------------------------------------
(* The courses on which the code sets out.                                 *)

LEMMA BudgetIsNat ==
    ASSUME NEW r \in Record
    PROVE  MaximumAttempts(r.request) \in Nat \ {0} /\ r.attempts \in Nat
  <1>1. r.request.max \in Nat
    BY DEF Record, Request
  <1> QED
    BY <1>1, AttemptLimitAssumption DEF MaximumAttempts, Record

LEMMA CourseEnds ==
    ASSUME NEW p, NEW r, NEW saves, NEW next \in {"done", "cut"},
           Tells(MaximumAttempts(r.request), {p}, r, saves)
    PROVE  Course(p, r, saves, next)
  BY DEF Course, Opening

LEMMA CourseIdle ==
    ASSUME NEW p, NEW r, NEW next \in {"admit", "execute", "materialize", "ready",
                                        "dispatch", "cancelcall", "done"},
           ~IsTerminal(r.status), next \in Opening => p # "retry.scheduled"
    PROVE  Course(p, r, <<>>, next)
  BY TellsNone DEF Course, After

LEMMA CourseOne ==
    ASSUME NEW p, NEW r, NEW s, NEW ev, NEW mode,
           NEW next \in Place \ {"await", "emit"},
           Follows(MaximumAttempts(r.request), p, r, s, ev),
           ~IsTerminal(s.status),
           next \in Opening => Phase(p, ev) # "retry.scheduled",
           next = "poll" => s.task # NoTask
    PROVE  Course(p, r, Saves(s, ev, mode), next)
  <1>1. PICK saves : saves = Saves(s, ev, mode)
    OBVIOUS
  <1>2. Len(saves) = 1 /\ saves[1].ev = ev /\ After(r, saves) = s
    BY <1>1, LengthOfOne, LastOfOne
  <1>3. PICK P : P = {p}
    OBVIOUS
  <1>4. \A q \in P : Follows(MaximumAttempts(r.request), q, r, s, ev)
    BY <1>3
  <1>5. Tells(MaximumAttempts(r.request), {p}, r, saves)
    BY <1>1, <1>3, <1>4, TellsOne
  <1>6. saves # <<>>
    BY <1>2, EmptySeq
  <1>7. ASSUME next \in Opening, NEW n \in 1..Len(saves)
        PROVE  Phase(p, saves[n].ev) # "retry.scheduled"
    <2>1. n = 1
      BY <1>2, <1>7
    <2> QED
      BY <1>2, <1>7, <2>1
  <1> QED
    BY <1>1, <1>2, <1>5, <1>6, <1>7 DEF Course

LEMMA CourseMove ==
    ASSUME NEW p, NEW r \in Record, NEW s \in {"preparing_inputs", "running"},
           NEW next \in {"materialize", "dispatch"},
           ~IsTerminal(r.status), r.attempts <= MaximumAttempts(r.request),
           p # "retry.scheduled", s = "running" => ~r.request.async
    PROVE  Course(p, r, Transition(r, s), next)
  <1>1. CASE r.status = s
    <2>1. Transition(r, s) = <<>>
      BY <1>1 DEF Transition
    <2> QED
      BY <2>1, CourseIdle
  <1>2. CASE r.status # s
    <2>1. PICK mode : Transition(r, s) = Saves(Moved(r, s), EventFor(s), mode)
      BY <1>2 DEF Transition
    <2>2. PICK n : n = Moved(r, s) /\ n.status = s
      BY MovedFields
    <2>3. s \in Target /\ ~IsTerminal(s)
      BY DEF Target, IsTerminal, TerminalStatus
    <2>4. MayMove(r, s, p)
      BY DEF MayMove
    <2>5. Follows(MaximumAttempts(r.request), p, r, n, EventFor(s))
      BY <2>2, <2>3, <2>4, MovedFollows
    <2>6. Phase(p, EventFor(s)) = p
      BY <2>3, LifecycleIsNoRetry DEF Phase
    <2> QED
      BY <2>1, <2>2, <2>3, <2>5, <2>6, CourseOne DEF Place
  <1> QED
    BY <1>1, <1>2

LEMMA CourseFails ==
    ASSUME NEW p, NEW r \in Record, ~IsTerminal(r.status),
           r.attempts <= MaximumAttempts(r.request)
    PROVE  Course(p, r, Fail(r), "done")
  <1>1. PICK P : P = {p}
    OBVIOUS
  <1>2. Tells(MaximumAttempts(r.request), P, r, Fail(r))
    BY FailTells
  <1> QED
    BY <1>1, <1>2, CourseEnds

\* A note, if it is not the schedule of a retry.
LEMMA NoteFollows ==
    ASSUME NEW m, NEW p, NEW r \in Record, NEW s, s = [r EXCEPT !.rev = @ + 1],
           NEW ev, ev # "retry.scheduled", ~IsTerminal(r.status), r.attempts <= m
    PROVE  Follows(m, p, r, s, ev)
  <1>1. /\ s.status = r.status /\ s.cycled = r.cycled /\ s.request = r.request
        /\ s.attempts = r.attempts /\ s.task = r.task
    BY DEF Record
  <1>2. CASE ev \in RetryEvent
    BY <1>1, <1>2 DEF Follows, Settled, Phase, IsTerminal, TerminalStatus
  <1>3. CASE ev \notin RetryEvent
    BY <1>1, <1>3 DEF Follows, Settled, Phase
  <1> QED
    BY <1>2, <1>3

\* A note made of b, which is like r for the retry sequence.
LEMMA CourseNote ==
    ASSUME NEW p, NEW r \in Record, NEW b \in Record, NEW ev, ev # "retry.scheduled",
           NEW next \in Place \ {"await", "emit"},
           ~IsTerminal(r.status), r.attempts <= MaximumAttempts(r.request),
           b.status = r.status, b.attempts = r.attempts, b.request = r.request,
           b.cycled = r.cycled, b.task = r.task,
           next \in Opening => p # "retry.scheduled" \/ ev \in RetryEvent,
           next = "poll" => r.task # NoTask
    PROVE  Course(p, r, Note(b, ev), next)
  <1>1. PICK m : m = MaximumAttempts(r.request)
    OBVIOUS
  <1>0. PICK s : s = [b EXCEPT !.rev = @ + 1]
    OBVIOUS
  <1>2. /\ Note(b, ev) = Saves(s, ev, "plain") /\ Follows(m, p, b, s, ev)
        /\ s.status = r.status /\ s.task = r.task
    <2>1. ~IsTerminal(b.status) /\ b.attempts <= m
      BY <1>1
    <2>2. Follows(m, p, b, s, ev)
      BY <1>0, <2>1, NoteFollows
    <2>3. s.status = b.status /\ s.task = b.task
      BY <1>0 DEF Record
    <2> QED
      BY <1>0, <2>2, <2>3 DEF Note
  <1>3. Follows(m, p, r, s, ev)
    BY <1>2 DEF Follows, Settled
  <1>4. next \in Opening => Phase(p, ev) # "retry.scheduled"
    BY DEF Phase
  <1> QED
    BY <1>1, <1>2, <1>3, <1>4, CourseOne

\* What is told of b is on course for r, if b is like r for the retry sequence.
LEMMA CourseFrom ==
    ASSUME NEW p \in RetryPhase, NEW r, NEW b, NEW saves,
           b.status = r.status, b.cycled = r.cycled, b.request = r.request,
           r.request.async /\ r.task # NoTask => b.task # NoTask,
           Tells(MaximumAttempts(r.request), RetryPhase, b, saves)
    PROVE  Course(p, r, saves, "done")
  <1>1. PICK P : P = {p}
    OBVIOUS
  <1>2. \A q \in P : Settled(r, q) => Settled(b, q)
    BY DEF Settled
  <1>3. Tells(MaximumAttempts(r.request), P, b, saves)
    BY <1>1, TellsFewer
  <1>4. Tells(MaximumAttempts(r.request), P, r, saves)
    BY <1>2, <1>3, TellsFrom
  <1> QED
    BY <1>1, <1>4, CourseEnds

-----------------------------------------------------------------------------
(* Nothing of its execution is saved, and a worker stays on course.        *)

LEMMA AdmitOnward ==
    ASSUME ServiceInv, RetriesInv, NEW w \in Worker, Admit(w)
    PROVE  \A v \in Worker : Onward(v)
  <1>1. Busy(w) /\ work[w].pc = "admit" /\ JobsOK
    BY DEF Admit, Busy, ServiceInv
  <1>2. PICK k \in Job, now \in Record, p \in RetryPhase :
              /\ k = work[w] /\ now = records[k.exec] /\ p = feed[k.exec].retry
              /\ k.rec \in Record /\ Knows(k, now, p)
    BY <1>1, Underway
  <1>3. CASE End(w)
    BY <1>1, <1>3, EndOnward
  <1>4. CASE work' = [work EXCEPT ![w].pc = "execute"]
    <2>1. PICK j : j = [k EXCEPT !.pc = "execute"]
      OBVIOUS
    <2>2. work' = [work EXCEPT ![w] = j]
      BY <1>1, <1>2, <1>4, <2>1 DEF JobsOK
    <2>3. j.pc = "execute" /\ j.rec = k.rec /\ j.exec = k.exec
      BY <2>1 DEF Job
    <2>4. ASSUME k.rec = now, ~Streams(now) PROVE Course(p, now, <<>>, "execute")
      BY <1>1, <1>2, <2>4, CourseIdle DEF Knows, Opening
    <2>5. OnCourse(j, records[j.exec], feed[j.exec].retry)
      BY <1>2, <2>3, <2>4 DEF OnCourse
    <2> QED
      BY <1>1, <2>2, <2>5, OneOnward
  <1> QED
    BY <1>3, <1>4 DEF Admit

LEMMA ExecuteOnward ==
    ASSUME ServiceInv, RetriesInv, NEW w \in Worker, Execute(w)
    PROVE  \A v \in Worker : Onward(v)
  <1>1. Busy(w) /\ work[w].pc = "execute" /\ JobsOK
    BY DEF Execute, Busy, ServiceInv
  <1>2. PICK k \in Job, now \in Record, p \in RetryPhase :
              /\ k = work[w] /\ now = records[k.exec] /\ p = feed[k.exec].retry
              /\ k.rec \in Record /\ Knows(k, now, p)
    BY <1>1, Underway
  <1>3. PICK r \in Record : r = k.rec
    BY <1>2
  <1>4. r = now /\ ~Streams(now) =>
          /\ now.attempts <= MaximumAttempts(now.request)
          /\ ~IsTerminal(now.status) /\ p # "retry.scheduled"
    BY <1>1, <1>2, <1>3 DEF Knows, Opening
  <1>5. CASE Proceed(w, r, Fail(r), "done")
    <2>1. r = now /\ ~Streams(now) => Course(p, now, Fail(r), "done")
      BY <1>4, CourseFails
    <2> QED
      BY <1>1, <1>2, <1>5, <2>1, ProceedOnward
  <1>6. CASE Proceed(w, r, Transition(r, "preparing_inputs"), "materialize")
    <2>1. r = now /\ ~Streams(now)
             => Course(p, now, Transition(r, "preparing_inputs"), "materialize")
      BY <1>4, CourseMove
    <2> QED
      BY <1>1, <1>2, <1>6, <2>1, ProceedOnward
  <1>7. ASSUME NEW next \in {"materialize", "ready"}, Proceed(w, r, <<>>, next)
        PROVE  \A v \in Worker : Onward(v)
    <2>1. r = now /\ ~Streams(now) => Course(p, now, <<>>, next)
      BY <1>4, CourseIdle
    <2> QED
      BY <1>1, <1>2, <1>7, <2>1, ProceedOnward
  <1>8. \/ Proceed(w, r, Fail(r), "done")
        \/ Proceed(w, r, Transition(r, "preparing_inputs"), "materialize")
        \/ Proceed(w, r, <<>>, "materialize")
        \/ Proceed(w, r, <<>>, "ready")
    <2>1. CASE Spent(k.exec, r)
      BY <1>2, <1>3, <2>1 DEF Execute
    <2>2. CASE ~Spent(k.exec, r) /\ r.request.plan
      BY <1>2, <1>3, <2>2 DEF Execute
    <2>3. CASE ~Spent(k.exec, r) /\ ~r.request.plan
      BY <1>2, <1>3, <2>3 DEF Execute
    <2> QED
      BY <2>1, <2>2, <2>3
  <1> QED
    BY <1>5, <1>6, <1>7, <1>8

LEMMA MaterializeOnward ==
    ASSUME ServiceInv, RetriesInv, NEW w \in Worker, Materialize(w)
    PROVE  \A v \in Worker : Onward(v)
  <1>1. Busy(w) /\ work[w].pc = "materialize" /\ JobsOK
    BY DEF Materialize, Busy, ServiceInv
  <1>2. PICK k \in Job, now \in Record, p \in RetryPhase :
              /\ k = work[w] /\ now = records[k.exec] /\ p = feed[k.exec].retry
              /\ k.rec \in Record /\ Knows(k, now, p)
    BY <1>1, Underway
  <1>3. PICK r \in Record : r = k.rec
    BY <1>2
  <1>4. r = now /\ ~Streams(now) =>
          /\ now.attempts <= MaximumAttempts(now.request)
          /\ ~IsTerminal(now.status) /\ p # "retry.scheduled"
    BY <1>1, <1>2, <1>3 DEF Knows, Opening
  <1>5. CASE Proceed(w, r, Fail(r), "done")
    <2>1. r = now /\ ~Streams(now) => Course(p, now, Fail(r), "done")
      BY <1>4, CourseFails
    <2> QED
      BY <1>1, <1>2, <1>5, <2>1, ProceedOnward
  <1>6. CASE Proceed(w, r, Note(r, "input.materialization.completed"), "ready")
    <2>1. r = now /\ ~Streams(now)
             => Course(p, now, Note(r, "input.materialization.completed"), "ready")
      BY <1>4, CourseNote DEF Place
    <2> QED
      BY <1>1, <1>2, <1>6, <2>1, ProceedOnward
  <1>7. CASE Proceed(w, r, <<>>, "ready")
    <2>1. r = now /\ ~Streams(now) => Course(p, now, <<>>, "ready")
      BY <1>4, CourseIdle
    <2> QED
      BY <1>1, <1>2, <1>7, <2>1, ProceedOnward
  <1>8. \/ Proceed(w, r, Fail(r), "done")
        \/ Proceed(w, r, Note(r, "input.materialization.completed"), "ready")
        \/ Proceed(w, r, <<>>, "ready")
    <2>1. CASE r.status = "preparing_inputs"
      BY <1>2, <1>3, <2>1 DEF Materialize
    <2>2. CASE r.status # "preparing_inputs"
      BY <1>2, <1>3, <2>2 DEF Materialize
    <2> QED
      BY <2>1, <2>2
  <1> QED
    BY <1>5, <1>6, <1>7, <1>8

LEMMA ReadyOnward ==
    ASSUME ServiceInv, RetriesInv, NEW w \in Worker, Ready(w)
    PROVE  \A v \in Worker : Onward(v)
  <1>1. Busy(w) /\ work[w].pc = "ready" /\ JobsOK
    BY DEF Ready, Busy, ServiceInv
  <1>2. PICK k \in Job, now \in Record, p \in RetryPhase :
              /\ k = work[w] /\ now = records[k.exec] /\ p = feed[k.exec].retry
              /\ k.rec \in Record /\ Knows(k, now, p)
    BY <1>1, Underway
  <1>3. PICK r \in Record : r = k.rec
    BY <1>2
  <1>4. r = now /\ ~Streams(now) =>
          /\ now.attempts <= MaximumAttempts(now.request)
          /\ ~IsTerminal(now.status) /\ p # "retry.scheduled"
    BY <1>1, <1>2, <1>3 DEF Knows, Opening
  <1>5. CASE Proceed(w, r, Fail(r), "done")
    <2>1. r = now /\ ~Streams(now) => Course(p, now, Fail(r), "done")
      BY <1>4, CourseFails
    <2> QED
      BY <1>1, <1>2, <1>5, <2>1, ProceedOnward
  <1>6. CASE Proceed(w, r, <<>>, "dispatch")
    <2>1. r = now /\ ~Streams(now) => Course(p, now, <<>>, "dispatch")
      BY <1>4, CourseIdle
    <2> QED
      BY <1>1, <1>2, <1>6, <2>1, ProceedOnward
  <1>7. PICK running : running = Transition(r, "running")
    OBVIOUS
  <1>8. CASE /\ ~r.request.async
             /\ work' = [work EXCEPT ![w].sync = TRUE, ![w].todo = running,
                               ![w].pc = IF running = <<>> THEN "dispatch" ELSE "save",
                               ![w].next = "dispatch"]
    <2>1. PICK pc : pc = IF running = <<>> THEN "dispatch" ELSE "save"
      OBVIOUS
    <2>2. PICK j : j = [k EXCEPT !.sync = TRUE, !.todo = running, !.pc = pc, !.next = "dispatch"]
      OBVIOUS
    <2>3. work' = [work EXCEPT ![w] = j]
      BY <1>1, <1>2, <1>8, <2>1, <2>2 DEF JobsOK
    <2>4. /\ j.rec = r /\ j.todo = running /\ j.pc = pc /\ j.next = "dispatch"
          /\ j.exec = k.exec
      BY <1>3, <2>2 DEF Job
    <2>5. r = now /\ ~Streams(now) => Course(p, now, running, "dispatch")
      BY <1>4, <1>7, <1>8, CourseMove
    <2>6. OnCourse(j, records[j.exec], feed[j.exec].retry)
      BY <1>2, <2>1, <2>4, <2>5 DEF OnCourse
    <2> QED
      BY <1>1, <2>3, <2>6, OneOnward
  <1>9. \/ Proceed(w, r, Fail(r), "done")
        \/ Proceed(w, r, <<>>, "dispatch")
        \/ /\ ~r.request.async
           /\ work' = [work EXCEPT ![w].sync = TRUE, ![w].todo = running,
                               ![w].pc = IF running = <<>> THEN "dispatch" ELSE "save",
                               ![w].next = "dispatch"]
    BY <1>2, <1>3, <1>7 DEF Ready
  <1> QED
    BY <1>5, <1>6, <1>8, <1>9

LEMMA DispatchOnward ==
    ASSUME ServiceInv, RetriesInv, NEW w \in Worker, Dispatch(w)
    PROVE  \A v \in Worker : Onward(v)
  <1>1. Busy(w) /\ work[w].pc = "dispatch" /\ JobsOK
    BY DEF Dispatch, Busy, ServiceInv
  <1>2. PICK k \in Job, now \in Record, p \in RetryPhase :
              /\ k = work[w] /\ now = records[k.exec] /\ p = feed[k.exec].retry
              /\ k.rec \in Record /\ Knows(k, now, p)
    BY <1>1, Underway
  <1>3. PICK r \in Record : r = k.rec
    BY <1>2
  <1>4. r = now /\ ~Streams(now) =>
          now.attempts <= MaximumAttempts(now.request) /\ ~IsTerminal(now.status)
    BY <1>1, <1>2, <1>3 DEF Knows
  <1>5. CASE Proceed(w, r, Fail(r), "done")
    <2>1. r = now /\ ~Streams(now) => Course(p, now, Fail(r), "done")
      BY <1>4, CourseFails
    <2> QED
      BY <1>1, <1>2, <1>5, <2>1, ProceedOnward
  <1>6. ASSUME ~Exhausted(r), NEW t,
               work' = [work EXCEPT ![w].pc = "await", ![w].spoke = FALSE, ![w].task = t]
        PROVE  \A v \in Worker : Onward(v)
    <2>1. PICK j : j = [k EXCEPT !.pc = "await", !.spoke = FALSE, !.task = t]
      OBVIOUS
    <2>2. work' = [work EXCEPT ![w] = j]
      BY <1>1, <1>2, <1>6, <2>1 DEF JobsOK
    <2>3. j.pc = "await" /\ j.rec = r /\ j.exec = k.exec
      BY <1>3, <2>1 DEF Job
    <2>4. r.attempts < MaximumAttempts(r.request)
      BY <1>6, BudgetIsNat DEF Exhausted
    <2>5. r = now /\ ~Streams(now) => Course(p, now, <<>>, "await")
      BY <1>4, <2>4, TellsNone DEF Course, After, Opening
    <2>6. OnCourse(j, records[j.exec], feed[j.exec].retry)
      BY <1>2, <2>3, <2>5 DEF OnCourse
    <2> QED
      BY <1>1, <2>2, <2>6, OneOnward
  <1>7. \/ Proceed(w, r, Fail(r), "done")
        \/ /\ ~Exhausted(r)
           /\ \E t : work' = [work EXCEPT ![w].pc = "await", ![w].spoke = FALSE, ![w].task = t]
    BY <1>2, <1>3 DEF Dispatch
  <1> QED
    BY <1>5, <1>6, <1>7

\* A recorded attempt, and what follows it.
LEMMA TriedChain ==
    ASSUME NEW r \in Record
    PROVE  /\ Attempted(r) \in Record
           /\ Attempted(r).status = r.status /\ Attempted(r).task = r.task
           /\ Attempted(r).request = r.request /\ Attempted(r).attempts = r.attempts + 1
           /\ Saves(Attempted(r), "none", "plain") \in Seq(Pending)
  <1>1. PICK n \in Nat \ {0}, k \in Nat : n = r.rev + 1 /\ k = r.attempts + 1
    <2>1. r.attempts + 1 \in Nat
      BY DEF Record
    <2> QED
      BY <2>1, NextRevision
  <1>2. PICK s : s = [r EXCEPT !.rev = n, !.attempts = k]
    OBVIOUS
  <1>3. Attempted(r) = s
    BY <1>1, <1>2 DEF Attempted
  <1>4. s \in Record /\ s.status = r.status /\ s.task = r.task /\ s.request = r.request
        /\ s.attempts = k
    BY <1>2 DEF Record
  <1>5. Saves(s, "none", "plain") \in Seq(Pending)
    <2>1. PICK x \in Pending : x = [rec |-> s, ev |-> "none", mode |-> "plain"]
      BY <1>4 DEF Pending, EventType
    <2>2. Saves(s, "none", "plain") = <<x>>
      BY <2>1 DEF Saves
    <2>3. <<x>> \in Seq(Pending)
      OBVIOUS
    <2> QED
      BY <2>2, <2>3
  <1> QED
    BY <1>1, <1>3, <1>4, <1>5

LEMMA TriedTells ==
    ASSUME NEW m, NEW P, NEW r \in Record, ~IsTerminal(r.status), r.attempts + 1 <= m,
           NEW tried, tried = Attempted(r), NEW rest \in Seq(Pending),
           Tells(m, RetryPhase, tried, rest)
    PROVE  Tells(m, P, r, Saves(tried, "none", "plain") \o rest)
  <1>1. PICK a \in Seq(Pending) : a = Saves(tried, "none", "plain")
    BY TriedChain
  <1>2. Tells(m, P, r, a)
    BY <1>1, AttemptTells
  <1>3. "none" \notin RetryEvent
    BY DEF RetryEvent
  <1> QED
    BY <1>1, <1>2, <1>3, TellsAfterOne

LEMMA ReturnOnward ==
    ASSUME ServiceInv, RetriesInv, NEW w \in Worker, Return(w)
    PROVE  \A v \in Worker : Onward(v)
  <1>1. Busy(w) /\ work[w].pc = "await" /\ JobsOK
    BY DEF Return, Busy, ServiceInv
  <1>2. PICK k \in Job, now \in Record, p \in RetryPhase :
              /\ k = work[w] /\ now = records[k.exec] /\ p = feed[k.exec].retry
              /\ k.rec \in Record /\ Knows(k, now, p)
    BY <1>1, Underway
  <1>3. PICK m : m = MaximumAttempts(now.request)
    OBVIOUS
  <1>4. now.request = k.rec.request
    BY <1>1, <1>2, HandVersions
  <1>5. k.rec.task = NoTask /\ (k.task # NoTask => k.rec.request.async)
    <2>1. work[w].pc \in Starting
      BY <1>1 DEF Starting
    <2> QED
      BY <1>1, <1>2, <2>1, NoTaskYet
  <1>6. k.rec = now /\ ~Streams(now) =>
          ~IsTerminal(now.status) /\ now.attempts + 1 <= m /\ now.attempts <= m
    BY <1>1, <1>2, <1>3, BudgetIsNat DEF Knows
  <1>7. PICK from : from = Returned(k)
    OBVIOUS
  <1>8. from = k.rec \/ Streams(now)
    BY <1>4, <1>7 DEF Returned, Streams
  <1>9. ASSUME NEW saves, NEW next, next # "save", Proceed(w, from, saves, next),
               k.rec = now /\ ~Streams(now) => Course(p, now, saves, next)
        PROVE  \A v \in Worker : Onward(v)
    <2>1. from = now /\ ~Streams(now) => Course(p, now, saves, next)
      BY <1>8, <1>9
    <2> QED
      BY <1>1, <1>2, <1>9, <2>1, ProceedOnward
  <1>10. PICK n \in Nat : n = now.attempts + 1
    <2>1. now.attempts + 1 \in Nat
      BY DEF Record
    <2> QED
      BY <2>1
  <1>11. CASE \E sound \in BOOLEAN : ReturnSuccess(w, sound)
    <2>1. PICK sound \in BOOLEAN : ReturnSuccess(w, sound)
      BY <1>11
    <2>2. PICK b : b = [from EXCEPT !.attempts = @ + 1]
      OBVIOUS
    <2>3. PICK saves : saves = IF sound THEN Concludes(b) ELSE Fail(b)
      OBVIOUS
    <2>4. Proceed(w, from, saves, "done")
      BY <1>2, <1>7, <2>1, <2>2, <2>3 DEF ReturnSuccess, Concludes
    <2>5. ASSUME k.rec = now, ~Streams(now) PROVE Course(p, now, saves, "done")
      <3>1. b = [now EXCEPT !.attempts = n]
        BY <1>8, <1>10, <2>2, <2>5
      <3>2. /\ b \in Record /\ b.status = now.status /\ b.cycled = now.cycled
            /\ b.request = now.request /\ b.task = now.task /\ b.attempts = n
        BY <3>1 DEF Record
      <3>3. Tells(m, RetryPhase, b, saves)
        BY <1>6, <1>10, <2>3, <2>5, <3>2, ConcludesTells, FailTells
      <3> QED
        BY <1>3, <3>2, <3>3, CourseFrom
    <2> QED
      BY <1>9, <2>4, <2>5
  <1>12. CASE ReturnFailure(w)
    <2>1. PICK tried, persisted : tried = Attempted(from)
                                  /\ persisted = Saves(tried, "none", "plain")
      OBVIOUS
    <2>2. \/ Proceed(w, from, persisted, "dispatch")
          \/ Proceed(w, from, persisted \o ScheduleRetry(tried), "done")
          \/ Proceed(w, from, persisted \o Fail(tried), "done")
      BY <1>2, <1>7, <1>12, <2>1 DEF ReturnFailure
    <2>3. ASSUME k.rec = now, ~Streams(now)
          PROVE  /\ Course(p, now, persisted, "dispatch")
                 /\ Course(p, now, persisted \o ScheduleRetry(tried), "done")
                 /\ Course(p, now, persisted \o Fail(tried), "done")
      <3>1. from = now /\ ~IsTerminal(now.status) /\ now.attempts + 1 <= m
        BY <1>6, <1>8, <2>3
      <3>2. /\ tried \in Record /\ tried.status = now.status /\ tried.task = NoTask
            /\ tried.attempts <= m
        BY <1>5, <2>1, <2>3, <3>1, TriedChain
      <3>3. Course(p, now, persisted, "dispatch")
        <4>1. PICK P : P = {p}
          OBVIOUS
        <4>2. Tells(m, P, now, persisted)
          BY <2>1, <3>1, AttemptTells
        <4>3. After(now, persisted) = tried
          BY <2>1, LastOfOne
        <4> QED
          BY <1>3, <3>1, <3>2, <4>1, <4>2, <4>3 DEF Course, Opening
      <3>4. ASSUME NEW rest, Chain(tried, rest), Tells(m, RetryPhase, tried, rest)
            PROVE  Course(p, now, persisted \o rest, "done")
        <4>1. rest \in Seq(Pending)
          BY <3>4 DEF Chain
        <4>2. Tells(m, {p}, now, persisted \o rest)
          BY <2>1, <3>1, <3>4, <4>1, TriedTells
        <4> QED
          BY <1>3, <4>2, CourseEnds
      <3>5. Chain(tried, ScheduleRetry(tried)) /\ Tells(m, RetryPhase, tried, ScheduleRetry(tried))
        BY <3>1, <3>2, ScheduleChain, ScheduleTells
      <3>6. Chain(tried, Fail(tried)) /\ Tells(m, RetryPhase, tried, Fail(tried))
        BY <3>1, <3>2, FailChain, FailTells
      <3> QED
        BY <3>3, <3>4, <3>5, <3>6
    <2> QED
      BY <1>9, <2>2, <2>3
  <1>13. CASE k.task # NoTask /\ \E later \in BOOLEAN : ReturnTask(w, later)
    <2>1. PICK later \in BOOLEAN : ReturnTask(w, later)
      BY <1>13
    <2>2. PICK r, b : r = k.rec
                      /\ b = [r EXCEPT !.attempts = @ + 1, !.task = k.task, !.waits = later]
      OBVIOUS
    <2>3. PICK s, sound : Proceed(w, r, Observe(b, s, sound), "done")
      BY <1>2, <2>1, <2>2 DEF ReturnTask
    <2>4. ASSUME r = now, ~Streams(now) PROVE Course(p, now, Observe(b, s, sound), "done")
      <3>1. b = [now EXCEPT !.attempts = n, !.task = k.task, !.waits = later]
        BY <1>10, <2>2, <2>4
      <3>2. /\ b \in Record /\ b.status = now.status /\ b.cycled = now.cycled
            /\ b.request = now.request /\ b.task = k.task /\ b.attempts = n
        BY <3>1 DEF Record, Job
      <3>3. /\ b.request.async /\ b.task # NoTask /\ b.attempts <= m
            /\ ~IsTerminal(b.status)
        BY <1>4, <1>5, <1>6, <1>10, <1>13, <2>2, <2>4, <3>2
      <3>4. Tells(m, RetryPhase, b, Observe(b, s, sound))
        BY <3>2, <3>3, ObserveTells
      <3> QED
        BY <1>3, <3>2, <3>3, <3>4, CourseFrom
    <2> QED
      BY <1>1, <1>2, <2>2, <2>3, <2>4, ProceedOnward
  <1> QED
    BY <1>2, <1>11, <1>12, <1>13 DEF Return

LEMMA EmitReadOnward ==
    ASSUME ServiceInv, NEW w \in Worker, EmitRead(w)
    PROVE  \A v \in Worker : Onward(v)
  <1>1. Busy(w) /\ JobsOK
    BY DEF EmitRead, Busy, ServiceInv
  <1>2. PICK k \in Job : k = work[w]
    BY <1>1, BusyWorker
  <1>3. PICK now : now = records[k.exec]
    OBVIOUS
  <1>4. PICK j : j = [k EXCEPT !.pc = "emit", !.rec = now]
    OBVIOUS
  <1>5. work' = [work EXCEPT ![w] = j] /\ Streams(k.rec)
    BY <1>1, <1>2, <1>3, <1>4 DEF EmitRead, JobsOK
  <1>6. Streams(now)
    <2>1. now.request = k.rec.request
      BY <1>1, <1>2, <1>3, HandVersions
    <2> QED
      BY <1>5, <2>1 DEF Streams
  <1>7. j.exec = k.exec
    BY <1>4 DEF Job
  <1>8. OnCourse(j, records[j.exec], feed[j.exec].retry)
    BY <1>3, <1>6, <1>7 DEF OnCourse
  <1> QED
    BY <1>1, <1>5, <1>8, OneOnward

\* A version like r, but for when it is due.
LEMMA WaitingVersion ==
    ASSUME NEW r \in Record, NEW later \in BOOLEAN, NEW b, b = [r EXCEPT !.waits = later]
    PROVE  /\ b \in Record /\ b.status = r.status /\ b.attempts = r.attempts
           /\ b.request = r.request /\ b.cycled = r.cycled /\ b.task = r.task
  BY DEF Record

\* What a worker makes of the state of the task it tracks.
LEMMA CourseObserve ==
    ASSUME NEW p \in RetryPhase, NEW r \in Record, NEW later \in BOOLEAN, NEW s, NEW sound,
           ~IsTerminal(r.status), r.attempts <= MaximumAttempts(r.request),
           VersionOK(r), r.task # NoTask
    PROVE  Course(p, r, Observe([r EXCEPT !.waits = later], s, sound), "done")
  <1>1. PICK b : b = [r EXCEPT !.waits = later]
    OBVIOUS
  <1>2. /\ b \in Record /\ b.status = r.status /\ b.attempts = r.attempts
        /\ b.request = r.request /\ b.cycled = r.cycled /\ b.task = r.task
    BY <1>1, WaitingVersion
  <1>3. b.request.async
    BY <1>2 DEF VersionOK
  <1>4. Tells(MaximumAttempts(r.request), RetryPhase, b, Observe(b, s, sound))
    BY <1>2, <1>3, ObserveTells
  <1>5. Course(p, r, Observe(b, s, sound), "done")
    BY <1>2, <1>4, CourseFrom
  <1> QED
    BY <1>1, <1>5

LEMMA CourseWaits ==
    ASSUME NEW p, NEW r \in Record, NEW mode,
           ~IsTerminal(r.status), r.attempts <= MaximumAttempts(r.request)
    PROVE  \A b : b = [r EXCEPT !.waits = TRUE]
             => Course(p, r, Saves([b EXCEPT !.rev = @ + 1], "none", mode), "done")
  <1> SUFFICES ASSUME NEW b, b = [r EXCEPT !.waits = TRUE]
               PROVE  Course(p, r, Saves([b EXCEPT !.rev = @ + 1], "none", mode), "done")
    OBVIOUS
  <1>1. /\ b \in Record /\ b.status = r.status /\ b.attempts = r.attempts
        /\ b.request = r.request /\ b.cycled = r.cycled /\ b.task = r.task
    BY WaitingVersion
  <1>2. PICK m : m = MaximumAttempts(r.request)
    OBVIOUS
  <1>3. PICK s : s = [b EXCEPT !.rev = @ + 1]
    OBVIOUS
  <1>4. Follows(m, p, b, s, "none")
    BY <1>1, <1>2, <1>3, NoteFollows
  <1>5. Follows(m, p, r, s, "none")
    BY <1>1, <1>4 DEF Follows, Settled
  <1>6. ~IsTerminal(s.status)
    BY <1>1, <1>3 DEF Record
  <1> QED
    BY <1>2, <1>3, <1>5, <1>6, CourseOne DEF Place, Opening

LEMMA PollOnward ==
    ASSUME ServiceInv, RetriesInv, NEW w \in Worker, Poll(w)
    PROVE  \A v \in Worker : Onward(v)
  <1>1. Busy(w) /\ work[w].pc = "poll" /\ JobsOK
    BY DEF Poll, Busy, ServiceInv
  <1>2. PICK k \in Job, now \in Record, p \in RetryPhase :
              /\ k = work[w] /\ now = records[k.exec] /\ p = feed[k.exec].retry
              /\ k.rec \in Record /\ Knows(k, now, p)
    BY <1>1, Underway
  <1>3. PICK r \in Record : r = k.rec
    BY <1>2
  <1>s. PICK s : s = upstream[r.task]
    OBVIOUS
  <1>4. r = now /\ ~Streams(now) =>
          /\ now.attempts <= MaximumAttempts(now.request) /\ ~IsTerminal(now.status)
          /\ VersionOK(now) /\ now.task # NoTask
    BY <1>1, <1>2, <1>3 DEF Knows
  <1>5. CASE Proceed(w, r, Note([r EXCEPT !.waits = TRUE], "none"), "done")
    <2>1. r = now /\ ~Streams(now)
             => Course(p, now, Note([r EXCEPT !.waits = TRUE], "none"), "done")
      BY <1>4, CourseWaits DEF Note
    <2> QED
      BY <1>1, <1>2, <1>5, <2>1, ProceedOnward
  <1>6. ASSUME NEW later \in BOOLEAN, NEW sound \in BOOLEAN,
               Proceed(w, r, Observe([r EXCEPT !.waits = later], s, sound), "done")
        PROVE  \A v \in Worker : Onward(v)
    <2>1. PICK saves : saves = Observe([r EXCEPT !.waits = later], s, sound)
      OBVIOUS
    <2>2. r = now /\ ~Streams(now) => Course(p, now, saves, "done")
      BY <1>4, <2>1, CourseObserve
    <2> QED
      BY <1>1, <1>2, <1>6, <2>1, <2>2, ProceedOnward
  <1> QED
    BY <1>2, <1>3, <1>s, <1>5, <1>6 DEF Poll

LEMMA CancelCallOnward ==
    ASSUME ServiceInv, RetriesInv, NEW w \in Worker, CancelCall(w)
    PROVE  \A v \in Worker : Onward(v)
  <1>1. Busy(w) /\ work[w].pc = "cancelcall" /\ JobsOK
    BY DEF CancelCall, Busy, ServiceInv
  <1>2. PICK k \in Job, now \in Record, p \in RetryPhase :
              /\ k = work[w] /\ now = records[k.exec] /\ p = feed[k.exec].retry
              /\ k.rec \in Record /\ Knows(k, now, p)
    BY <1>1, Underway
  <1>3. PICK held \in Record : held = k.rec
    BY <1>2
  <1>4. PICK r \in Record : r = [held EXCEPT !.waits = TRUE]
    BY WaitingVersion
  <1>5. PICK s : s = upstream[r.task]
    OBVIOUS
  <1>6. held.task # NoTask
    <2>1. Fit(k.pc, held) /\ VersionOK(held)
      BY <1>1, <1>2, <1>3, HandVersions DEF JobsOK, Sound
    <2> QED
      BY <1>1, <1>2, <2>1 DEF Fit, VersionOK
  <1>7. held = now /\ ~Streams(now) =>
          /\ now.attempts <= MaximumAttempts(now.request) /\ ~IsTerminal(now.status)
          /\ VersionOK(now) /\ now.task # NoTask
    BY <1>1, <1>2, <1>3, <1>6 DEF Knows
  <1>8. CASE Proceed(w, held, Saves([r EXCEPT !.rev = @ + 1], "none", "detached"), "done")
    <2>1. held = now /\ ~Streams(now)
             => Course(p, now, Saves([r EXCEPT !.rev = @ + 1], "none", "detached"), "done")
      BY <1>4, <1>7, CourseWaits
    <2> QED
      BY <1>1, <1>2, <1>3, <1>8, <2>1, ProceedOnward
  <1>9. ASSUME NEW a, NEW sound, Proceed(w, held, Observe(r, a, sound), "done")
        PROVE  \A v \in Worker : Onward(v)
    <2>1. PICK saves : saves = Observe(r, a, sound)
      OBVIOUS
    <2>2. held = now /\ ~Streams(now) => Course(p, now, saves, "done")
      BY <1>4, <1>7, <2>1, CourseObserve
    <2> QED
      BY <1>1, <1>2, <1>3, <1>9, <2>1, <2>2, ProceedOnward
  <1>10. \/ Proceed(w, held, Saves([r EXCEPT !.rev = @ + 1], "none", "detached"), "done")
         \/ \E a, sound : Proceed(w, held, Observe(r, a, sound), "done")
    BY <1>2, <1>3, <1>4 DEF CancelCall
  <1> QED
    BY <1>8, <1>9, <1>10

\* Losing the lease, or the cancel function, leaves a worker on course.
LEMMA CutOnward ==
    ASSUME ServiceInv, RetriesInv, NEW w \in Worker, Cut(w) \/ HeartbeatLost(w)
    PROVE  \A v \in Worker : Onward(v)
  <1>1. ASSUME NEW v \in Worker
        PROVE  \/ work'[v] = work[v] \/ work'[v] = Idle
               \/ Busy(v) /\ work'[v] = [work[v] EXCEPT !.cut = TRUE]
    BY DEF Cut, HeartbeatLost, ServiceInv, JobsOK
  <1>2. ASSUME NEW v \in Worker, Busy(v), work'[v] = [work[v] EXCEPT !.cut = TRUE]
        PROVE  Onward(v)
    <2>1. PICK n \in Job : n = work[v]
      BY <1>2, BusyWorker DEF ServiceInv
    <2>2. PICK j : j = [n EXCEPT !.cut = TRUE]
      OBVIOUS
    <2>3. /\ work'[v] = j /\ j.exec = n.exec /\ j.rec = n.rec /\ j.todo = n.todo
          /\ j.pc = n.pc /\ j.next = n.next
      BY <1>2, <2>1, <2>2 DEF Job
    <2>4. OnCourse(n, records[n.exec], feed[n.exec].retry)
      BY <1>2, <2>1 DEF RetriesInv, CoursesOK
    <2>5. OnCourse(j, records[j.exec], feed[j.exec].retry)
      BY <2>3, <2>4 DEF OnCourse
    <2> QED
      BY <2>3, <2>5 DEF Onward
  <1> QED
    BY <1>1, <1>2 DEF Onward

\* Where a worker begins.
LEMMA BegunOnward ==
    ASSUME JobsOK, NEW w \in Worker, NEW i, NEW e, NEW r, NEW saves, NEW next, next # "save",
           work' = [work EXCEPT ![w] = Begun(i, e, r, saves, next)],
           r = records[e] /\ ~Streams(r) => Course(feed[e].retry, r, saves, next)
    PROVE  \A v \in Worker : Onward(v)
  <1>1. PICK pc : pc = IF saves = <<>> THEN next ELSE "save"
    OBVIOUS
  <1>2. PICK j : j = [pc |-> pc, next |-> next, host |-> i, exec |-> e, rec |-> r,
                      todo |-> saves, sync |-> FALSE, cut |-> FALSE, spoke |-> FALSE,
                      task |-> NoTask]
    OBVIOUS
  <1>3. Begun(i, e, r, saves, next) = j
    <2>1. PICK fresh : fresh = NewJob(i, e, r, pc)
      OBVIOUS
    <2>2. Begun(i, e, r, saves, next) = [fresh EXCEPT !.todo = saves, !.next = next]
      BY <1>1, <2>1 DEF Begun
    <2> QED
      BY <1>2, <2>1, <2>2 DEF NewJob
  <1>4. j.pc = pc /\ j.next = next /\ j.exec = e /\ j.rec = r /\ j.todo = saves
    BY <1>2
  <1>5. OnCourse(j, records[j.exec], feed[j.exec].retry)
    BY <1>1, <1>4 DEF OnCourse
  <1> QED
    BY <1>3, <1>5, OneOnward

\* What is known of a record that is not streamed.
LEMMA Stands ==
    ASSUME ServiceInv, RetriesInv, NEW e \in Admitted
    PROVE  /\ records[e] \in Record /\ feed[e].retry \in RetryPhase /\ VersionOK(records[e])
           /\ ~Streams(records[e]) =>
                 /\ Settled(records[e], feed[e].retry)
                 /\ records[e].attempts <= MaximumAttempts(records[e].request)
  <1>1. e \in Execution /\ records[e] \in Record
    BY AdmittedRecords DEF ServiceInv
  <1>2. feed[e].retry \in RetryPhase
    BY <1>1 DEF ServiceInv, StoreTypeOK, Feed
  <1> QED
    BY <1>1, <1>2 DEF ServiceInv, TasksOK, RetriesInv, Truthful

LEMMA RecoverOnward ==
    ASSUME ServiceInv, RetriesInv, NEW i \in Instance, NEW e \in Admitted, NEW r \in Record,
           ~IsTerminal(r.status), Recover(i, e, r)
    PROVE  \A v \in Worker : Onward(v)
  <1>1. PICK w \in Worker : w = Loop(i)
    BY Workers
  <1>2. PICK saves : saves = IF "overdue" \in clock[e] THEN Transition(r, "expired")
               ELSE IF Spent(e, r) THEN Fail(r)
               ELSE IF r.status = "waiting_retry"
                    THEN Note([r EXCEPT !.waits = FALSE], "retry.started")
                    ELSE <<>>
    OBVIOUS
  <1>3. PICK next : next = IF "overdue" \in clock[e] \/ Spent(e, r) THEN "done"
              ELSE IF r.task = NoTask THEN "execute"
              ELSE IF r.cancelling THEN "cancelcall" ELSE "poll"
    OBVIOUS
  <1>4. work' = [work EXCEPT ![w] = Begun(i, e, r, saves, next)]
    BY <1>1, <1>2, <1>3 DEF Recover, Begun
  <1>5. PICK p \in RetryPhase : p = feed[e].retry
    BY Stands
  <1>6. ASSUME r = records[e], ~Streams(r) PROVE Course(p, r, saves, next)
    <2>1. Settled(r, p) /\ r.attempts <= MaximumAttempts(r.request) /\ VersionOK(r)
      BY <1>5, <1>6, Stands
    <2>2. PICK P : P = {p}
      OBVIOUS
    <2>3. CASE "overdue" \in clock[e]
      <3>1. saves = Transition(r, "expired") /\ next = "done"
        BY <1>2, <1>3, <2>3
      <3>2. "expired" \in Target
        BY DEF Target, TerminalStatus
      <3>3. \A q \in P : Settled(r, q) => MayMove(r, "expired", q)
        BY DEF MayMove
      <3>4. Tells(MaximumAttempts(r.request), P, r, saves)
        BY <2>1, <3>1, <3>2, <3>3, TransitionTells
      <3> QED
        BY <2>2, <3>1, <3>4, CourseEnds
    <2>4. CASE "overdue" \notin clock[e] /\ Spent(e, r)
      <3>1. saves = Fail(r) /\ next = "done"
        BY <1>2, <1>3, <2>4
      <3> QED
        BY <2>1, <3>1, CourseFails
    <2>5. CASE "overdue" \notin clock[e] /\ ~Spent(e, r) /\ r.status = "waiting_retry"
      <3>1. PICK b : b = [r EXCEPT !.waits = FALSE]
        OBVIOUS
      <3>2. /\ b \in Record /\ b.status = r.status /\ b.attempts = r.attempts
            /\ b.request = r.request /\ b.cycled = r.cycled /\ b.task = r.task
        BY <3>1, WaitingVersion
      <3>3. saves = Note(b, "retry.started")
        BY <1>2, <2>5, <3>1
      <3>4. next \in {"execute", "cancelcall", "poll"} /\ (next = "poll" => r.task # NoTask)
        BY <1>3, <2>5
      <3>5. "retry.started" \in RetryEvent
        BY DEF RetryEvent
      <3> QED
        BY <2>1, <3>2, <3>3, <3>4, <3>5, CourseNote DEF Place
    <2>6. CASE "overdue" \notin clock[e] /\ ~Spent(e, r) /\ r.status # "waiting_retry"
      <3>1. saves = <<>>
        BY <1>2, <2>6
      <3>2. p # "retry.scheduled"
        BY <2>1, <2>6 DEF Settled, IsTerminal, TerminalStatus
      <3>3. CASE next \in {"execute", "cancelcall"}
        BY <3>1, <3>2, <3>3, CourseIdle
      <3>4. CASE next = "poll"
        <4>1. r.task # NoTask
          BY <1>3, <3>4
        <4> QED
          BY <3>1, <3>4, <4>1, TellsNone DEF Course, After, Opening
      <3> QED
        BY <1>3, <2>6, <3>3, <3>4
    <2> QED
      BY <2>3, <2>4, <2>5, <2>6
  <1>7. next # "save" /\ JobsOK
    BY <1>3 DEF ServiceInv
  <1> QED
    BY <1>4, <1>5, <1>6, <1>7, BegunOnward

LEMMA TakeOnward ==
    ASSUME ServiceInv, RetriesInv, NEW i \in Instance, Take(i)
    PROVE  \A v \in Worker : Onward(v)
  <1>1. PICK c \in scan[i] : Recover(i, c[1], c[2]) \/ UNCHANGED work
    BY DEF Take
  <1>2. PICK e \in Execution, r \in Record : c = <<e, r>> /\ ~IsTerminal(r.status)
    BY DEF ServiceInv, JobsOK, OpenRecord
  <1>3. e \in Admitted
    <2>1. c \in HeldCopies /\ c[1] = e
      BY <1>2 DEF HeldCopies
    <2> QED
      BY <2>1 DEF ServiceInv, Versions
  <1>4. CASE UNCHANGED work
    BY <1>4 DEF Onward
  <1> QED
    BY <1>1, <1>2, <1>3, <1>4, RecoverOnward

\* A waiting retry is abandoned, then cancelled.
LEMMA AbandonTells ==
    ASSUME NEW m, NEW P, NEW r \in Record, ~IsTerminal(r.status), r.attempts <= m,
           NEW abort, abort = Note(r, "retry.aborted")
    PROVE  Tells(m, P, r, abort \o Transition(After(r, abort), "cancelled"))
  <1>e. "retry.aborted" \in EventType /\ "retry.aborted" \in RetryEvent
        /\ "retry.aborted" \notin LifecycleEvent \cup {"retry.scheduled"}
    BY DEF EventType, RetryEvent, LifecycleEvent
  <1>1. Chain(r, abort) /\ Tells(m, P, r, abort)
    BY <1>e, NoteChain, NoteTells
  <1>2. PICK last \in Record : last = After(r, abort)
    BY <1>1, ChainAfter
  <1>3. last.status = r.status /\ last.attempts = r.attempts
    BY <1>1, <1>2, <1>e, NoteTells
  <1>t. "cancelled" \in Target /\ "cancelled" \notin {"failed", "succeeded", "queued", "running"}
    BY DEF Target, TerminalStatus
  <1>4. PICK rest : rest = Transition(last, "cancelled") /\ Chain(last, rest)
    BY <1>t, TransitionChain
  <1>5. MayMove(last, "cancelled", "retry.aborted")
    BY <1>t DEF MayMove
  <1>6. Tells(m, {"retry.aborted"}, last, rest)
    BY <1>3, <1>4, <1>5, <1>t, TransitionTells
  <1>7. PICK s : s = [r EXCEPT !.rev = @ + 1]
    OBVIOUS
  <1>8. abort = Saves(s, "retry.aborted", "plain") /\ last = s
    BY <1>2, <1>7, LastOfOne DEF Note
  <1>9. Tells(m, P, r, abort \o rest)
    BY <1>1, <1>4, <1>6, <1>8, <1>e, TellsAfterOne DEF Chain
  <1> QED
    BY <1>2, <1>4, <1>9

LEMMA CancelOnward ==
    ASSUME ServiceInv, RetriesInv, NEW i \in Instance, NEW e \in Execution, Cancel(i, e)
    PROVE  \A v \in Worker : Onward(v)
  <1>1. e \in Admitted /\ ~IsTerminal(records[e].status) /\ JobsOK
    BY DEF Cancel, ServiceInv
  <1>2. PICK w \in Worker : w = Canceller(e)
    BY DEF Worker
  <1>3. PICK r \in Record, p \in RetryPhase : r = records[e] /\ p = feed[e].retry
    BY <1>1, Stands
  <1>4. ~Streams(r) => Settled(r, p) /\ r.attempts <= MaximumAttempts(r.request)
    BY <1>1, <1>3, Stands
  <1>5. PICK abort : abort = Note(r, "retry.aborted")
    OBVIOUS
  <1>6. ASSUME NEW saves, NEW next, next # "save",
               work' = [work EXCEPT ![w] = Begun(i, e, r, saves, next)],
               ~Streams(r) => Course(p, r, saves, next)
        PROVE  \A v \in Worker : Onward(v)
    BY <1>1, <1>3, <1>6, BegunOnward
  <1>7. CASE work' = [work EXCEPT ![w] = Begun(i, e, r, Intent(r), "cancelcall")]
    <2>1. ASSUME ~Streams(r) PROVE Course(p, r, Intent(r), "cancelcall")
      <3>1. CASE r.cancelling
        BY <1>1, <1>3, <3>1, CourseIdle DEF Intent, Opening
      <3>2. CASE ~r.cancelling
        <4>1. PICK b : b = [r EXCEPT !.cancelling = TRUE, !.waits = FALSE]
          OBVIOUS
        <4>2. /\ b \in Record /\ b.status = r.status /\ b.attempts = r.attempts
              /\ b.request = r.request /\ b.cycled = r.cycled /\ b.task = r.task
          BY <4>1 DEF Record
        <4>3. Intent(r) = Note(b, "execution.cancellation.requested")
          BY <3>2, <4>1 DEF Intent
        <4> QED
          BY <1>1, <1>3, <1>4, <2>1, <4>2, <4>3, CourseNote DEF Place, Opening
      <3> QED
        BY <3>1, <3>2
    <2> QED
      BY <1>6, <1>7, <2>1
  <1>8. CASE work' = [work EXCEPT ![w] =
                 Begun(i, e, r, abort \o Transition(After(r, abort), "cancelled"), "done")]
    <2>1. ASSUME ~Streams(r)
          PROVE  Course(p, r, abort \o Transition(After(r, abort), "cancelled"), "done")
      <3>1. PICK saves : saves = abort \o Transition(After(r, abort), "cancelled")
        OBVIOUS
      <3>2. Tells(MaximumAttempts(r.request), {p}, r, saves)
        BY <1>1, <1>3, <1>4, <1>5, <2>1, <3>1, AbandonTells
      <3> QED
        BY <3>1, <3>2, CourseEnds
    <2> QED
      BY <1>6, <1>8, <2>1
  <1>9. ASSUME NEW next \in {"done", "cut"}, r.status # "waiting_retry",
               work' = [work EXCEPT ![w] = Begun(i, e, r, Transition(r, "cancelled"), next)]
        PROVE  \A v \in Worker : Onward(v)
    <2>1. ASSUME ~Streams(r) PROVE Course(p, r, Transition(r, "cancelled"), next)
      <3>1. "cancelled" \in Target /\ "cancelled" \notin {"failed", "succeeded", "queued", "running"}
        BY DEF Target, TerminalStatus
      <3>2. PICK P : P = {p}
        OBVIOUS
      <3>3. \A q \in P : Settled(r, q) => MayMove(r, "cancelled", q)
        BY <1>9, <3>1 DEF MayMove
      <3>4. Tells(MaximumAttempts(r.request), P, r, Transition(r, "cancelled"))
        BY <1>1, <1>3, <1>4, <2>1, <3>1, <3>3, TransitionTells
      <3> QED
        BY <3>2, <3>4, CourseEnds
    <2> QED
      BY <1>6, <1>9, <2>1
  <1>10. \/ work' = [work EXCEPT ![w] = Begun(i, e, r, Intent(r), "cancelcall")]
         \/ work' = [work EXCEPT ![w] =
                 Begun(i, e, r, abort \o Transition(After(r, abort), "cancelled"), "done")]
         \/ /\ r.status # "waiting_retry"
            /\ \E next \in {"done", "cut"} :
                  work' = [work EXCEPT ![w] = Begun(i, e, r, Transition(r, "cancelled"), next)]
    BY <1>2, <1>3, <1>5 DEF Cancel, Begun
  <1> QED
    BY <1>7, <1>8, <1>9, <1>10

-----------------------------------------------------------------------------
(* What is saved.                                                          *)

\* The log follows what is saved.
LEMMA PhasesFollow ==
    ASSUME NEW f, NEW ev
    PROVE  Follow(f, ev).retry = Phase(f.retry, ev)
  BY DEF Follow, Phase

(* Whoever saves goes on from the version saved, or ends; whoever else has *)
(* a copy of the execution has an older one.                               *)
LEMMA WrittenKeeps ==
    ASSUME ServiceInv, RetriesInv, NEW w \in Worker, NEW e \in Admitted,
           NEW s \in Record, NEW ev \in EventType, Write(e, s, ev),
           \A v \in Worker : v # w => work'[v] = work[v],
           \/ work'[w] = Idle
           \/ work'[w].exec = e /\ OnCourse(work'[w], s, Phase(feed[e].retry, ev)),
           Truthful(s, Phase(feed[e].retry, ev))
    PROVE  RetriesInv'
  <1>1. PICK now \in Record, f \in Feed : e \in Execution /\ now = records[e] /\ f = feed[e]
    BY AdmittedRecords DEF ServiceInv, StoreTypeOK
  <1>2. /\ records' = [records EXCEPT ![e] = s]
        /\ feed' = [feed EXCEPT ![e] = Follow(f, ev)]
        /\ s.rev = now.rev + 1
    BY <1>1 DEF Write, SaveResult
  <1>3. /\ records'[e] = s /\ feed'[e].retry = Phase(f.retry, ev)
        /\ \A d \in Execution : d # e => records'[d] = records[d] /\ feed'[d] = feed[d]
    <2>1. feed'[e] = Follow(f, ev)
      BY <1>1, <1>2 DEF ServiceInv, StoreTypeOK
    <2> QED
      BY <1>1, <1>2, <2>1, PhasesFollow DEF ServiceInv, StoreTypeOK
  <1>4. ASSUME NEW v \in Worker, v # w, Busy(v)
        PROVE  work[v].exec = e => work[v].rec # s
    <2>1. PICK c \in HeldCopies : c = <<work[v].exec, work[v].rec>>
      BY <1>4, BusyWorker DEF HeldBy, ServiceInv
    <2>2. c[2].rev <= records[c[1]].rev /\ c[1] = work[v].exec /\ c[2] = work[v].rec
      BY <2>1 DEF ServiceInv, Versions
    <2>3. work[v].rec \in Record
      BY <1>4, BusyWorker DEF ServiceInv
    <2>4. ~(now.rev + 1 <= now.rev)
      BY DEF Record
    <2> QED
      BY <1>1, <1>2, <2>2, <2>4
  <1>5. ASSUME NEW v \in Worker, Busy(v)'
        PROVE  OnCourse(work'[v], records'[work'[v].exec], feed'[work'[v].exec].retry)
    <2>1. CASE v = w
      <3>1. work'[w] # Idle
        BY <1>5, <2>1 DEF Busy, Idle
      <3> QED
        BY <1>1, <1>3, <2>1, <3>1
    <2>2. CASE v # w
      <3>1. work'[v] = work[v] /\ Busy(v)
        BY <1>5, <2>2 DEF Busy
      <3>2. work[v].exec \in Execution
        BY <3>1, BusyWorker DEF ServiceInv
      <3>3. CASE work[v].exec = e
        BY <1>3, <1>4, <2>2, <3>1, <3>3 DEF OnCourse
      <3>4. CASE work[v].exec # e
        BY <1>3, <3>1, <3>2, <3>4 DEF RetriesInv, CoursesOK
      <3> QED
        BY <3>3, <3>4
    <2> QED
      BY <2>1, <2>2
  <1>6. ASSUME NEW d \in Admitted' PROVE Truthful(records'[d], feed'[d].retry)
    <2>1. CASE d = e
      BY <1>1, <1>3, <2>1
    <2>2. CASE d # e
      <3>1. d \in Admitted /\ records'[d] = records[d] /\ feed'[d] = feed[d]
        BY <1>3, <2>2 DEF Admitted
      <3> QED
        BY <3>1 DEF RetriesInv
    <2> QED
      BY <2>1, <2>2
  <1> QED
    BY <1>5, <1>6 DEF RetriesInv, CoursesOK

LEMMA WriterIsCurrent ==
    ASSUME ServiceInv, NEW w \in Worker, Busy(w), NEW b \in Record, NEW s \in Record,
           NEW ev \in EventType, Adopts(work[w].rec, b), StepOK(b, s, ev),
           Write(work[w].exec, s, ev)
    PROVE  /\ work[w].exec \in Admitted /\ work[w].rec = records[work[w].exec]
           /\ s.request = work[w].rec.request
  <1>1. PICK c \in HeldCopies : c = <<work[w].exec, work[w].rec>>
    BY BusyWorker DEF HeldBy, ServiceInv
  <1>2. c[1] = work[w].exec /\ c[2] = work[w].rec
    BY <1>1
  <1>3. c[1] \in Admitted /\ c[2] = records[c[1]]
    BY <1>2, DerivesFromCurrent
  <1>4. s.request = work[w].rec.request
    BY DEF Adopts, StepOK
  <1> QED
    BY <1>2, <1>3, <1>4

LEMMA SaveTruly ==
    ASSUME ServiceInv, RetriesInv, NEW w \in Worker, Save(w)
    PROVE  RetriesInv'
  <1>1. Busy(w) /\ work[w].pc = "save" /\ JobsOK
    BY DEF Save, Busy, ServiceInv
  <1>2. PICK k \in Job :
              /\ k = work[w] /\ Sound(k, upstream) /\ k.exec \in Execution /\ k.rec \in Record
              /\ <<k.exec, k.rec>> \in HeldCopies
              /\ records[k.exec] \in Record /\ <<k.exec, records[k.exec]>> \in Current
    BY <1>1, Hands
  <1>3. /\ k.todo # <<>> /\ Promise(k.task, k.rec, k.todo, k.next, upstream)
        /\ VersionOK(k.rec) /\ k.todo \in Seq(Pending)
    BY <1>1, <1>2, HandVersions DEF Sound, Job
  <1>4. PICK x, rest, from : /\ x = Head(k.todo) /\ rest = Tail(k.todo)
                             /\ from = upstream
    OBVIOUS
  <1>5. NextSave(k.task, k.rec, x, rest, k.next, from)
    BY <1>3, <1>4, PromiseTail
  <1>6. PICK b \in Record : Adopts(k.rec, b) /\ StepOK(b, x.rec, x.ev)
    BY <1>5 DEF NextSave
  <1>7. x.rec \in Record /\ x.ev \in EventType
    BY <1>6 DEF StepOK
  <1>8. CASE Write(k.exec, x.rec, x.ev) /\ Proceed(w, x.rec, rest, k.next)
    <2>1. PICK now, p : now = records[k.exec] /\ p = feed[k.exec].retry
      OBVIOUS
    <2>2. k.exec \in Admitted /\ k.rec = now /\ x.rec.request = now.request
      BY <1>1, <1>2, <1>6, <1>7, <1>8, <2>1, WriterIsCurrent
    <2>3. p \in RetryPhase /\ now \in Record
          /\ (~Streams(now) => Settled(now, p))
      BY <2>1, <2>2, Stands
    <2>4. PICK q, s : q = Phase(p, x.ev) /\ s = x.rec
      OBVIOUS
    <2>5. ASSUME ~Streams(now)
          PROVE  /\ Course(q, s, rest, k.next)
                 /\ Follows(MaximumAttempts(now.request), p, now, s, x.ev)
      <3>1. Course(p, now, k.todo, k.next)
        BY <1>1, <1>2, <2>1, <2>2, <2>5 DEF RetriesInv, CoursesOK, OnCourse
      <3> QED
        BY <1>3, <1>4, <2>2, <2>3, <2>4, <3>1, CourseTail
    <2>6. Streams(s) <=> Streams(now)
      BY <2>2, <2>4 DEF Streams
    <2>7. s.status = now.status \/ LegalTransition(now.status, s.status)
      BY <1>8, <2>1, <2>4 DEF Write, SaveResult
    <2>8. Truthful(s, q)
      BY <2>2, <2>3, <2>4, <2>5, <2>6, <2>7 DEF Truthful, Follows
    <2>9. PICK j : /\ work' = [work EXCEPT ![w] = j]
                   /\ \/ j = Idle
                      \/ /\ j.exec = work[w].exec /\ j.rec = s /\ j.todo = rest
                         /\ j.next = k.next
                         /\ j.pc = IF rest = <<>> THEN k.next ELSE "save"
      BY <1>1, <1>8, <2>4, ProceedJob
    <2>10. k.next # "save"
      BY <1>2 DEF Sound
    <2>11. j = Idle \/ (j.exec = k.exec /\ OnCourse(j, s, q))
      BY <1>2, <2>5, <2>6, <2>9, <2>10 DEF OnCourse
    <2>12. work'[w] = j /\ \A v \in Worker : v # w => work'[v] = work[v]
      BY <1>1, <2>9 DEF JobsOK
    <2> QED
      BY <1>7, <1>8, <2>1, <2>2, <2>4, <2>8, <2>11, <2>12, WrittenKeeps
  <1>9. CASE (End(w) \/ Abort(w)) /\ UNCHANGED storeVars
    BY <1>1, <1>9, EndOnward, AbortOnward, OnwardKeeps
  <1>10. \/ Write(k.exec, x.rec, x.ev) /\ Proceed(w, x.rec, rest, k.next)
         \/ (End(w) \/ Abort(w)) /\ UNCHANGED storeVars
    BY <1>2, <1>4 DEF Save
  <1> QED
    BY <1>8, <1>9, <1>10

LEMMA EmitSaveTruly ==
    ASSUME ServiceInv, RetriesInv, NEW w \in Worker, EmitSave(w)
    PROVE  RetriesInv'
  <1>1. Busy(w) /\ work[w].pc = "emit" /\ JobsOK
    BY DEF EmitSave, Busy, ServiceInv
  <1>2. PICK k \in Job, now \in Record, p \in RetryPhase :
              /\ k = work[w] /\ now = records[k.exec] /\ p = feed[k.exec].retry
              /\ k.rec \in Record /\ Knows(k, now, p)
    BY <1>1, Underway
  <1>3. k.rec = now => Streams(now)
    BY <1>1, <1>2 DEF Knows, Course
  <1>4. PICK s : s = [k.rec EXCEPT !.rev = @ + 1]
    OBVIOUS
  <1>5. CASE /\ Write(k.exec, s, "none")
             /\ work' = [work EXCEPT ![w].pc = "await", ![w].rec = s, ![w].spoke = TRUE]
    <2>1. "none" \in EventType /\ "none" \notin LifecycleEvent \cup {"retry.scheduled"}
      BY DEF EventType, LifecycleEvent
    <2>2. StepOK(k.rec, s, "none") /\ Adopts(k.rec, k.rec)
      BY <1>2, <1>4, <2>1, NoteStep, AdoptsItself
    <2>3. s \in Record
      BY <2>2 DEF StepOK
    <2>4. k.exec \in Admitted /\ k.rec = now /\ s.request = now.request
      BY <1>1, <1>2, <1>5, <2>1, <2>2, <2>3, WriterIsCurrent
    <2>5. Streams(s)
      BY <1>3, <2>4 DEF Streams
    <2>6. PICK j : j = [k EXCEPT !.pc = "await", !.rec = s, !.spoke = TRUE]
      OBVIOUS
    <2>7. work' = [work EXCEPT ![w] = j] /\ j.exec = k.exec
      BY <1>1, <1>2, <1>5, <2>6 DEF JobsOK, Job
    <2>8. work'[w] = j /\ \A v \in Worker : v # w => work'[v] = work[v]
      BY <1>1, <2>7 DEF JobsOK
    <2>9. Truthful(s, Phase(feed[k.exec].retry, "none"))
          /\ OnCourse(j, s, Phase(feed[k.exec].retry, "none"))
      BY <2>5 DEF Truthful, OnCourse
    <2> QED
      BY <1>5, <2>1, <2>3, <2>4, <2>7, <2>8, <2>9, WrittenKeeps
  <1>6. CASE UNCHANGED storeVars /\ work' = [work EXCEPT ![w].pc = "await"]
    <2>1. PICK j : j = [k EXCEPT !.pc = "await"]
      OBVIOUS
    <2>2. work' = [work EXCEPT ![w] = j] /\ j.exec = k.exec /\ j.rec = k.rec
      BY <1>1, <1>2, <1>6, <2>1 DEF JobsOK, Job
    <2>3. OnCourse(j, records[j.exec], feed[j.exec].retry)
      BY <1>2, <1>3, <2>2 DEF OnCourse
    <2> QED
      BY <1>1, <1>6, <2>2, <2>3, OneOnward, OnwardKeeps
  <1> QED
    BY <1>2, <1>4, <1>5, <1>6 DEF EmitSave

LEMMA CreateTruly ==
    ASSUME ServiceInv, RetriesInv, NEW i \in Instance, NEW e \in Execution, NEW q \in Requests,
           Create(i, e, q)
    PROVE  RetriesInv'
  <1>1. PICK s \in Record : s = NewRecord(q)
    BY NewRecordType
  <1>2. /\ e \notin Admitted
        /\ records' = [records EXCEPT ![e] = s]
        /\ feed' = [feed EXCEPT ![e] = Follow(NoFeed, "execution.accepted")]
    BY <1>1 DEF Create, Insert
  <1>3. Follow(NoFeed, "execution.accepted").retry = "none"
    BY DEF Follow, RetryEvent, NoFeed
  <1>4. /\ records'[e] = s /\ feed'[e].retry = "none"
        /\ \A d \in Execution : d # e => records'[d] = records[d] /\ feed'[d] = feed[d]
    BY <1>2, <1>3 DEF ServiceInv, StoreTypeOK
  <1>5. s.status = "accepted" /\ ~s.cycled /\ s.attempts = 0 /\ s.task = NoTask
        /\ ~IsTerminal(s.status)
    BY <1>1 DEF NewRecord, IsTerminal, TerminalStatus
  <1>6. Truthful(s, "none")
    BY <1>5, BudgetIsNat DEF Truthful, Settled
  <1>7. ASSUME NEW v \in Worker, Busy(v)
        PROVE  work[v].exec \in Execution /\ work[v].exec # e
    <2>1. PICK c \in HeldCopies : c = <<work[v].exec, work[v].rec>>
      BY <1>7, BusyWorker DEF HeldBy, ServiceInv
    <2>2. c[1] \in Admitted /\ c[1] = work[v].exec
      BY <2>1 DEF ServiceInv, Versions
    <2> QED
      BY <1>2, <2>2 DEF Admitted
  <1>8. PICK j : j = NewJob(i, e, s, "admit")
    OBVIOUS
  <1>9. j.exec = e /\ j.rec = s /\ j.pc = "admit"
    BY <1>8 DEF NewJob
  <1>10. OnCourse(j, s, "none")
    BY <1>5, <1>9, CourseIdle DEF OnCourse
  <1>11. ASSUME NEW v \in Worker
         PROVE  work'[v] = work[v] \/ work'[v] = j
    <2>1. UNCHANGED work \/ work' = [work EXCEPT ![Direct(e)] = j]
      BY <1>1, <1>8 DEF Create
    <2> QED
      BY <2>1 DEF ServiceInv, JobsOK
  <1>12. ASSUME NEW v \in Worker, Busy(v)'
         PROVE  OnCourse(work'[v], records'[work'[v].exec], feed'[work'[v].exec].retry)
    <2>1. CASE work'[v] = j
      BY <1>4, <1>9, <1>10, <2>1
    <2>2. CASE work'[v] = work[v]
      <3>1. Busy(v)
        BY <1>12, <2>2 DEF Busy
      <3> QED
        BY <1>4, <1>7, <2>2, <3>1 DEF RetriesInv, CoursesOK
    <2> QED
      BY <1>11, <2>1, <2>2
  <1>13. ASSUME NEW d \in Admitted' PROVE Truthful(records'[d], feed'[d].retry)
    <2>1. CASE d = e
      BY <1>4, <1>6, <2>1
    <2>2. CASE d # e
      <3>1. d \in Admitted /\ records'[d] = records[d] /\ feed'[d] = feed[d]
        BY <1>4, <2>2 DEF Admitted
      <3> QED
        BY <3>1 DEF RetriesInv
    <2> QED
      BY <2>1, <2>2
  <1> QED
    BY <1>12, <1>13 DEF RetriesInv, CoursesOK

LEMMA RetriesInitially == Init => RetriesInv
  <1> SUFFICES ASSUME Init PROVE RetriesInv
    OBVIOUS
  <1>1. \A v \in Worker : ~Busy(v)
    BY DEF Init, Busy, Idle
  <1>2. Admitted = {}
    BY DEF Init, StoreInit, Admitted
  <1> QED
    BY <1>1, <1>2 DEF RetriesInv, CoursesOK

LEMMA RetriesStep ==
    ASSUME ServiceInv, RetriesInv, [Next]_vars
    PROVE  RetriesInv'
  <1>1. ASSUME UNCHANGED storeVars, UNCHANGED work PROVE RetriesInv'
    BY <1>1, OnwardKeeps DEF Onward
  <1>2. ASSUME NEW w \in Worker, Step(w) \/ HeartbeatLost(w) PROVE RetriesInv'
    <2>1. CASE Save(w) \/ EmitSave(w)
      BY <2>1, SaveTruly, EmitSaveTruly
    <2>2. CASE Admit(w) \/ Execute(w) \/ Materialize(w) \/ Ready(w) \/ Dispatch(w)
      <3>1. UNCHANGED storeVars
        BY <2>2 DEF Admit, Execute, Materialize, Ready, Dispatch
      <3> QED
        BY <2>2, <3>1, AdmitOnward, ExecuteOnward, MaterializeOnward, ReadyOnward,
           DispatchOnward, OnwardKeeps
    <2>3. CASE Return(w) \/ GiveUp(w) \/ EmitRead(w)
      <3>1. UNCHANGED storeVars
        BY <2>3 DEF Return, GiveUp, EmitRead
      <3>2. GiveUp(w) => \A v \in Worker : Onward(v)
        BY EndOnward DEF GiveUp, ServiceInv
      <3> QED
        BY <2>3, <3>1, <3>2, ReturnOnward, EmitReadOnward, OnwardKeeps
    <2>4. CASE Poll(w) \/ CancelCall(w) \/ Cut(w) \/ HeartbeatLost(w)
      <3>1. UNCHANGED storeVars
        BY <2>4 DEF Poll, CancelCall, Cut, HeartbeatLost
      <3> QED
        BY <2>4, <3>1, PollOnward, CancelCallOnward, CutOnward, OnwardKeeps
    <2> QED
      BY <1>2, <2>1, <2>2, <2>3, <2>4 DEF Step
  <1>3. ASSUME NEW i \in Instance, List(i) \/ Take(i) \/ Crash(i) \/ Restart(i)
        PROVE  RetriesInv'
    <2>1. UNCHANGED storeVars
      BY <1>3 DEF List, Take, Crash, Restart
    <2>2. List(i) \/ Restart(i) => UNCHANGED work
      BY DEF List, Restart, procVars
    <2>3. Crash(i) => \A v \in Worker : Onward(v)
      BY StopOnward DEF Crash
    <2> QED
      BY <1>1, <1>3, <2>1, <2>2, <2>3, TakeOnward, OnwardKeeps
  <1>4. ASSUME NEW i \in Instance, NEW e \in Execution, Cancel(i, e)
        PROVE  RetriesInv'
    <2>1. UNCHANGED storeVars
      BY <1>4 DEF Cancel
    <2> QED
      BY <1>4, <2>1, CancelOnward, OnwardKeeps
  <1>5. ASSUME NEW e \in Execution,
               LeaseExpires(e) \/ Ripen(e) \/ \E d \in {"spent", "overdue"} : Age(e, d)
        PROVE  RetriesInv'
    BY <1>1, <1>5 DEF LeaseExpires, Ripen, Age, procVars
  <1>6. ASSUME NEW t \in Task, Advance(t) PROVE RetriesInv'
    BY <1>1, <1>6 DEF Advance, procVars
  <1>7. CASE UNCHANGED vars
    BY <1>1, <1>7 DEF vars, storeVars
  <1> QED
    BY <1>2, <1>3, <1>4, <1>5, <1>6, <1>7, CreateTruly DEF Next

\* An execution is one that some scenario's callers submit.
LEMMA RequestsStay ==
    ASSUME ServiceInv, [Next]_vars, \A e \in Admitted : records[e].request \in Requests
    PROVE  \A e \in Admitted' : records'[e].request \in Requests
  <1>1. CASE OnlyReads
    BY <1>1 DEF OnlyReads, storeVars, Admitted
  <1>2. CASE Derives
    <2>1. PICK c \in HeldCopies : \E r, s \in Record, ev \in EventType :
              Adopts(c[2], r) /\ StepOK(r, s, ev) /\ Write(c[1], s, ev)
      BY <1>2 DEF Derives
    <2>2. PICK r \in Record, s \in Record, ev \in EventType :
              Adopts(c[2], r) /\ StepOK(r, s, ev) /\ Write(c[1], s, ev)
      BY <2>1
    <2>3. c[1] \in Admitted /\ c[2] = records[c[1]]
      BY <2>2, DerivesFromCurrent
    <2>4. s.request \in Requests
      BY <2>2, <2>3 DEF Adopts, StepOK
    <2>5. records' = [records EXCEPT ![c[1]] = s]
      BY <2>2 DEF Write
    <2> QED
      BY <2>3, <2>4, <2>5 DEF Admitted, ServiceInv, StoreTypeOK
  <1>3. CASE Admits
    <2>1. PICK e \in Execution, q \in Requests : Insert(e, q)
      BY <1>3 DEF Admits
    <2>2. PICK s \in Record : s = NewRecord(q)
      BY NewRecordType
    <2>3. s.request = q /\ records' = [records EXCEPT ![e] = s]
      BY <2>1, <2>2 DEF NewRecord, Insert
    <2> QED
      BY <2>3 DEF Admitted, ServiceInv, StoreTypeOK
  <1> QED
    BY <1>1, <1>2, <1>3, StepKeeps DEF Kept

LEMMA NoRequestIsStreamed ==
    ASSUME \A q \in Requests : q.stream => q.async, NEW r, r.request \in Requests
    PROVE  ~Streams(r)
  BY DEF Streams

-----------------------------------------------------------------------------
(* Provider dispatches of one process that keeps its leases.               *)

(* Of what Scenarios say: one process at a time, whose heartbeats do not   *)
(* stall, and synchronous requests that the recovery loop executes.        *)
SoleProcess ==
    \A s \in Scenarios :
        /\ s.pauses = 0
        /\ \A i, h \in s.instances : i = h
        /\ \A q \in s.requests : q.deferred /\ ~q.async /\ ~q.stream

\* Where a recovery loop has its execution, before the provider is called.
Early == {"execute", "materialize", "ready", "dispatch"}

(* A copy r that is older than the record is the copy of an execution that *)
(* has ended, or of a retry whose wait a Cancel has broken off: nothing is *)
(* saved from either.                                                      *)
Lags(r, now) == r = now \/ IsTerminal(now.status) \/ r.status = "waiting_retry"

\* The first of what is saved records an attempt more than r has.
Tried(r, saves) == saves[1].rec.attempts # r.attempts

(* The job of loop i, when the record is now: no wait for a retry is left  *)
(* when the provider is about to be called, or its answer to be saved.     *)
LoopFits(i, j, now) ==
    /\ j.host = i /\ Lags(j.rec, now) /\ (j.cut => IsTerminal(now.status))
    /\ j.pc \in Early \cup {"await", "save"}
    /\ j.pc \in Early \cup {"await"} => ~IsTerminal(j.rec.status)
    /\ j.pc \in {"materialize", "dispatch", "await"} => j.rec.status # "waiting_retry"
    /\ j.pc = "save" =>
          /\ j.next \in Early \cup {"done"}
          /\ j.next \in {"materialize", "dispatch"} =>
                After(j.rec, j.todo).status # "waiting_retry"
          /\ Tried(j.rec, j.todo) => j.rec.status # "waiting_retry"

(* A Cancel saves that the execution is cancelled, or, before that, that   *)
(* its retry is abandoned.                                                 *)
Cancels(r, saves, next) ==
    /\ next \in {"done", "cut"}
    /\ \A n \in 1..Len(saves) :
          \/ saves[n].rec.status = "cancelled"
          \/ next = "done" /\ Prior(r, saves, n).status = "waiting_retry"

CancellerFits(j, now) ==
    /\ j.pc \in {"save", "cut"}
    /\ j.pc = "save" => Cancels(j.rec, j.todo, j.next)
    /\ j.pc = "cut" => IsTerminal(now.status)

Drives(i, e)  == Busy(Loop(i)) /\ work[Loop(i)].exec = e
Listed(i, e)  == \E c \in scan[i] : c[1] = e

LoopsFit ==
    \A i \in Instance : Busy(Loop(i)) =>
        /\ i \in up /\ LoopFits(i, work[Loop(i)], records[work[Loop(i)].exec])
        /\ \A c \in scan[i] : c[1] # work[Loop(i)].exec

ScansFit ==
    \A i \in Instance :
        /\ scan[i] # {} => i \in up
        /\ \A c \in scan[i] : Lags(c[2], records[c[1]])
        /\ \A c, d \in scan[i] : c[1] = d[1] => c = d

CancellersFit ==
    \A e \in Execution : Busy(Canceller(e)) =>
        CancellerFits(work[Canceller(e)], records[work[Canceller(e)].exec])

OneIsUp ==
    /\ pauses = 0 /\ up \subseteq scenario.instances
    /\ \A i, h \in scenario.instances : i = h
    /\ \A e \in Execution : ~Busy(Direct(e))

Submitted == \A e \in Admitted : records[e].request \in Requests

SoloInv == OneIsUp /\ LoopsFit /\ ScansFit /\ CancellersFit

(* A dispatch of execution e that no attempt is recorded of: its answer is *)
(* awaited or about to be saved; or it never will be, since the execution  *)
(* was cancelled meanwhile.                                                *)
Aloft(i, e) ==
    /\ Drives(i, e)
    /\ \/ work[Loop(i)].pc = "await"
       \/ work[Loop(i)].pc = "save" /\ Tried(work[Loop(i)].rec, work[Loop(i)].todo)

Setting(i, e) == Drives(i, e) /\ work[Loop(i)].pc \in Early

InFlight(e) ==
    \/ \E i \in Instance : Aloft(i, e)
    \/ /\ IsTerminal(records[e].status)
       /\ \A i \in Instance : ~Listed(i, e) /\ ~Setting(i, e)

Owed(e) ==
    calls[e] <= records[e].attempts + deaths + exits + (IF InFlight(e) THEN 1 ELSE 0)

Accounted == \A e \in Execution : IF e \in Admitted THEN Owed(e) ELSE calls[e] = 0

(* What was in flight still is, has been recorded, or was lost with its    *)
(* process.                                                                *)
Paid(e) ==
    InFlight(e) => \/ InFlight(e)'
                   \/ records'[e].attempts > records[e].attempts
                   \/ deaths' + exits' > deaths + exits

Grows(e) ==
    /\ deaths' \in Nat /\ exits' \in Nat /\ deaths' + exits' >= deaths + exits
    /\ records'[e].attempts \in Nat /\ records'[e].attempts >= records[e].attempts

LEMMA CountedOne ==
    ASSUME ServiceInv, NEW e \in Admitted, Owed(e), Paid(e), Grows(e), calls'[e] = calls[e]
    PROVE  Owed(e)'
  <1>1. PICK n \in Nat, a \in Nat, d \in Nat, x \in Nat :
            n = calls[e] /\ a = records[e].attempts /\ d = deaths /\ x = exits
    <2>1. records[e] \in Record /\ e \in Execution
      BY AdmittedRecords DEF ServiceInv
    <2>2. calls[e] \in Nat /\ records[e].attempts \in Nat
      BY <2>1 DEF ServiceInv, EnvOK, Record
    <2> QED
      BY <2>2 DEF ServiceInv, EnvOK
  <1>2. PICK m \in Nat, y \in Nat, z \in Nat :
            m = records'[e].attempts /\ y = deaths' /\ z = exits'
    BY DEF Grows
  <1>3. PICK f, g : f = (IF InFlight(e) THEN 1 ELSE 0) /\ g = (IF InFlight(e)' THEN 1 ELSE 0)
    OBVIOUS
  <1>4. n <= a + d + x + f /\ calls'[e] = n
    BY <1>1, <1>3 DEF Owed
  <1>5. m >= a /\ y + z >= d + x
    BY <1>1, <1>2 DEF Grows
  <1>6. f = 0 \/ (f = 1 /\ (g = 1 \/ m > a \/ y + z > d + x))
    BY <1>1, <1>2, <1>3 DEF Paid
  <1>7. g \in {0, 1}
    BY <1>3
  <1>8. n <= m + y + z + g
    BY <1>4, <1>5, <1>6, <1>7
  <1> QED
    BY <1>2, <1>3, <1>4, <1>8 DEF Owed

LEMMA Counted ==
    ASSUME ServiceInv, Accounted, UNCHANGED calls, Admitted' = Admitted,
           \A e \in Admitted : Paid(e) /\ Grows(e)
    PROVE  Accounted'
  <1>1. ASSUME NEW e \in Execution, e \in Admitted PROVE Owed(e)'
    BY <1>1, CountedOne DEF Accounted
  <1>2. ASSUME NEW e \in Execution, e \notin Admitted PROVE calls'[e] = 0
    BY <1>2 DEF Accounted
  <1> QED
    BY <1>1, <1>2 DEF Accounted

\* A flight goes on unless its loop is disturbed.
LEMMA FlightStays ==
    ASSUME NEW e, InFlight(e), IsTerminal(records[e].status) => IsTerminal(records'[e].status),
           \A i \in Instance : /\ Aloft(i, e) => Aloft(i, e)'
                               /\ Listed(i, e)' => Listed(i, e)
                               /\ Setting(i, e)' => Setting(i, e)
    PROVE  InFlight(e)'
  BY DEF InFlight

\* Nothing is in flight where nothing is awaited of an open record.
LEMMA Grounded ==
    ASSUME NEW e, \A i \in Instance : ~Aloft(i, e),
           \/ ~IsTerminal(records[e].status)
           \/ \E i \in Instance : Listed(i, e) \/ Setting(i, e)
    PROVE  ~InFlight(e)
  BY DEF InFlight

\* Where the record has ended and its loop lets go, the flight is over.
LEMMA Landed ==
    ASSUME NEW e, IsTerminal(records'[e].status),
           \A i \in Instance : ~Listed(i, e)' /\ ~Setting(i, e)'
    PROVE  InFlight(e)'
  BY DEF InFlight

\* Loops of different instances are not at work at once.
LEMMA OneLoop ==
    ASSUME SoloInv, NEW i \in Instance, NEW h \in Instance, i \in up,
           Busy(Loop(h)) \/ scan[h] # {}
    PROVE  h = i
  <1>1. h \in up
    BY DEF SoloInv, LoopsFit, ScansFit
  <1> QED
    BY <1>1 DEF SoloInv, OneIsUp

\* Who is at work.
LEMMA WhoIsBusy ==
    ASSUME SoloInv, NEW w \in Worker, Busy(w)
    PROVE  \/ \E i \in Instance : w = Loop(i) /\ i \in up
           \/ \E e \in Execution : w = Canceller(e)
  BY DEF SoloInv, OneIsUp, LoopsFit, Worker

LEMMA LagsOn ==
    ASSUME NEW r, NEW now, NEW s, Lags(r, now),
           IsTerminal(now.status) => IsTerminal(s.status),
           s.status = "cancelled" \/ now.status = "waiting_retry"
    PROVE  Lags(r, s)
  BY DEF Lags, IsTerminal, TerminalStatus

\* What does not concern the loops and scans.
Steady == UNCHANGED <<up, pauses, scenario>> /\ \A h \in Instance : scan'[h] \subseteq scan[h]

LEMMA LoopTurns ==
    ASSUME ServiceInv, SoloInv, NEW i \in Instance, i \in up, UNCHANGED storeVars, Steady,
           NEW j, work' = [work EXCEPT ![Loop(i)] = j],
           j = Idle \/ (LoopFits(i, j, records[j.exec]) /\ \A c \in scan'[i] : c[1] # j.exec)
    PROVE  SoloInv'
  <1>1. PICK w \in Worker : w = Loop(i) /\ ~IsCanceller(w) /\ ~(\E e \in Execution : w = Direct(e))
    BY Workers
  <1>2. work'[w] = j /\ \A v \in Worker : v # w => work'[v] = work[v]
    BY <1>1 DEF ServiceInv, JobsOK
  <1>3. records' = records /\ up' = up
    BY DEF storeVars, Steady
  <1>4. OneIsUp'
    <2>1. ASSUME NEW e \in Execution PROVE ~Busy(Direct(e))'
      <3>1. Direct(e) \in Worker /\ Direct(e) # w
        BY <1>1, Workers
      <3> QED
        BY <1>2, <3>1 DEF SoloInv, OneIsUp, Busy
    <2> QED
      BY <2>1 DEF SoloInv, OneIsUp, Steady
  <1>5. LoopsFit'
    <2>1. ASSUME NEW h \in Instance, Busy(Loop(h))'
          PROVE  /\ h \in up'
                 /\ LoopFits(h, work'[Loop(h)], records'[work'[Loop(h)].exec])
                 /\ \A c \in scan'[h] : c[1] # work'[Loop(h)].exec
      <3>1. h = i
        <4>1. CASE Loop(h) = w
          BY <1>1, <4>1 DEF Loop
        <4>2. CASE Loop(h) # w
          <5>1. Busy(Loop(h))
            BY <1>2, <2>1, <4>2, Workers DEF Busy
          <5> QED
            BY <5>1, OneLoop
        <4> QED
          BY <4>1, <4>2
      <3>2. j # Idle
        BY <1>1, <1>2, <2>1, <3>1 DEF Busy, Idle
      <3> QED
        BY <1>1, <1>2, <1>3, <3>1, <3>2
    <2> QED
      BY <2>1 DEF LoopsFit
  <1>6. ScansFit'
    BY <1>3 DEF SoloInv, ScansFit, Steady
  <1>7. CancellersFit'
    <2>1. ASSUME NEW e \in Execution, Busy(Canceller(e))'
          PROVE  CancellerFits(work'[Canceller(e)], records'[work'[Canceller(e)].exec])
      <3>1. Canceller(e) \in Worker /\ Canceller(e) # w
        BY <1>1, Workers
      <3>2. work'[Canceller(e)] = work[Canceller(e)] /\ Busy(Canceller(e))
        BY <1>2, <2>1, <3>1 DEF Busy
      <3> QED
        BY <1>3, <3>2 DEF SoloInv, CancellersFit
    <2> QED
      BY <2>1 DEF CancellersFit
  <1> QED
    BY <1>4, <1>5, <1>6, <1>7 DEF SoloInv

\* Executions a loop does not work on are as they were.
LEMMA OthersFly ==
    ASSUME ServiceInv, SoloInv, NEW i \in Instance, i \in up, NEW d,
           \A h \in Instance : scan'[h] \subseteq scan[h],
           NEW j, work' = [work EXCEPT ![Loop(i)] = j], j = Idle \/ j.exec # d,
           ~Drives(i, d), IsTerminal(records[d].status) => IsTerminal(records'[d].status)
    PROVE  Paid(d)
  <1>1. Loop(i) \in Worker /\ work'[Loop(i)] = j
    BY Workers DEF ServiceInv, JobsOK
  <1>2. ASSUME NEW h \in Instance PROVE ~Aloft(h, d) /\ ~Setting(h, d)'
    <2>1. Drives(h, d) => h = i
      BY OneLoop DEF Drives
    <2>2. Drives(h, d)' => Drives(h, d)
      <3>1. CASE Loop(h) = Loop(i)
        BY <1>1, <3>1 DEF Drives, Busy, Idle
      <3>2. CASE Loop(h) # Loop(i)
        <4>1. work'[Loop(h)] = work[Loop(h)]
          BY <3>2, Workers DEF ServiceInv, JobsOK
        <4> QED
          BY <4>1 DEF Drives, Busy
      <3> QED
        BY <3>1, <3>2
    <2> QED
      BY <2>1, <2>2 DEF Aloft, Setting
  <1>3. \A h \in Instance : Listed(h, d)' => Listed(h, d)
    BY DEF Listed
  <1> QED
    BY <1>2, <1>3, FlightStays DEF Paid

\* A loop goes on with its execution, or from one place to the next.
LEMMA LoopGoesOn ==
    ASSUME ServiceInv, SoloInv, NEW i \in Instance, Busy(Loop(i)), UNCHANGED <<storeVars, scan>>,
           Steady, NEW k, k = work[Loop(i)],
           NEW j, work' = [work EXCEPT ![Loop(i)] = j], j.exec = k.exec, j # Idle,
           LoopFits(i, j, records[k.exec]),
           \/ k.pc \in Early
           \/ /\ j.pc \notin Early
              /\ Aloft(i, k.exec) => j.pc = "save" /\ Tried(j.rec, j.todo)
    PROVE  SoloInv' /\ \A d \in Admitted : Paid(d)
  <1>1. i \in up /\ ~Listed(i, k.exec)
    BY DEF SoloInv, LoopsFit, Listed
  <1>2. SoloInv'
    <2>1. \A c \in scan'[i] : c[1] # j.exec
      BY <1>1 DEF Listed
    <2> QED
      BY <1>1, <2>1, LoopTurns
  <1>3. ASSUME NEW d \in Admitted, d # k.exec PROVE Paid(d)
    <2>1. ~Drives(i, d) /\ records' = records
      BY <1>3 DEF Drives, storeVars
    <2>2. \A h \in Instance : scan'[h] \subseteq scan[h]
      BY DEF Steady
    <2> QED
      BY <1>1, <1>3, <2>1, <2>2, OthersFly
  <1>4. Paid(k.exec)
    <2>1. \A h \in Instance : Aloft(h, k.exec) => h = i
      BY <1>1, OneLoop DEF Aloft, Drives
    <2>2. CASE k.pc \in Early
      <3>1. ~Aloft(i, k.exec) /\ Setting(i, k.exec)
        BY <2>2 DEF Aloft, Setting, Drives, Early
      <3>2. ~InFlight(k.exec)
        BY <2>1, <3>1, Grounded
      <3> QED
        BY <3>2 DEF Paid
    <2>3. CASE k.pc \notin Early
      <3>1. Loop(i) \in Worker /\ work'[Loop(i)] = j /\ records' = records
        BY Workers DEF ServiceInv, JobsOK, storeVars
      <3>2. Aloft(i, k.exec) => Aloft(i, k.exec)'
        <4>1. Aloft(i, k.exec) => Busy(Loop(i))'
          BY <2>3, <3>1 DEF Busy
        <4> QED
          BY <2>3, <3>1, <4>1 DEF Aloft, Drives
      <3>3. ~Setting(i, k.exec)'
        BY <2>3, <3>1 DEF Setting
      <3>4. ASSUME NEW h \in Instance
            PROVE  /\ Aloft(h, k.exec) => Aloft(h, k.exec)'
                   /\ Listed(h, k.exec)' => Listed(h, k.exec)
                   /\ Setting(h, k.exec)' => Setting(h, k.exec)
        <4>1. CASE h = i
          BY <3>2, <3>3, <4>1 DEF Listed
        <4>2. CASE h # i
          <5>1. Loop(h) \in Worker /\ Loop(h) # Loop(i)
            BY <4>2, Workers
          <5>2. work'[Loop(h)] = work[Loop(h)]
            BY <5>1 DEF ServiceInv, JobsOK
          <5> QED
            BY <2>1, <4>2, <5>2 DEF Setting, Drives, Busy, Listed
        <4> QED
          BY <4>1, <4>2
      <3> QED
        BY <3>1, <3>4, FlightStays DEF Paid
    <2> QED
      BY <2>2, <2>3
  <1> QED
    BY <1>2, <1>3, <1>4

LEMMA LoopLetsGo ==
    ASSUME ServiceInv, SoloInv, NEW i \in Instance, Busy(Loop(i)), UNCHANGED storeVars, Steady,
           work' = [work EXCEPT ![Loop(i)] = Idle],
           NEW e, e = work[Loop(i)].exec, IsTerminal(records[e].status) \/ ~Aloft(i, e)
    PROVE  SoloInv' /\ \A d \in Admitted : Paid(d)
  <1>1. i \in up /\ ~Listed(i, e)
    BY DEF SoloInv, LoopsFit, Listed
  <1>2. SoloInv'
    BY <1>1, LoopTurns
  <1>3. \A h \in Instance : scan'[h] \subseteq scan[h]
    BY DEF Steady
  <1>4. ASSUME NEW d \in Admitted, d # e PROVE Paid(d)
    <2>1. ~Drives(i, d) /\ records' = records
      BY <1>4 DEF Drives, storeVars
    <2> QED
      BY <1>1, <1>3, <2>1, OthersFly
  <1>5. CASE IsTerminal(records[e].status)
    <2>1. IsTerminal(records'[e].status)
      BY <1>5 DEF storeVars
    <2>2. ASSUME NEW h \in Instance PROVE ~Listed(h, e)' /\ ~Setting(h, e)'
      <3>1. Listed(h, e)' => h = i /\ Listed(i, e)
        <4>1. Listed(h, e)' => Listed(h, e) /\ scan[h] # {}
          BY <1>3 DEF Listed
        <4>2. scan[h] # {} => h = i
          BY <1>1, OneLoop
        <4> QED
          BY <4>1, <4>2
      <3>2. ~Setting(h, e)'
        <4>1. CASE Loop(h) = Loop(i)
          <5>1. work'[Loop(h)] = Idle
            BY <4>1, Workers DEF ServiceInv, JobsOK
          <5> QED
            BY <5>1 DEF Setting, Drives, Busy, Idle
        <4>2. CASE Loop(h) # Loop(i)
          <5>1. work'[Loop(h)] = work[Loop(h)]
            BY <4>2, Workers DEF ServiceInv, JobsOK
          <5>2. ~Busy(Loop(h))
            BY <1>1, <4>2, OneLoop
          <5> QED
            BY <5>1, <5>2 DEF Setting, Drives, Busy
        <4> QED
          BY <4>1, <4>2
      <3> QED
        BY <1>1, <3>1, <3>2
    <2> QED
      BY <1>2, <1>4, <2>1, <2>2, Landed DEF Paid
  <1>6. CASE ~IsTerminal(records[e].status) /\ ~Aloft(i, e)
    <2>1. \A h \in Instance : ~Aloft(h, e)
      BY <1>1, <1>6, OneLoop DEF Aloft, Drives
    <2>2. ~InFlight(e)
      BY <1>6, <2>1, Grounded
    <2> QED
      BY <1>2, <1>4, <2>2 DEF Paid
  <1> QED
    BY <1>5, <1>6

LEMMA LoopFitsOn ==
    ASSUME NEW i, NEW j, NEW now, NEW s, LoopFits(i, j, now), Lags(j.rec, s),
           IsTerminal(now.status) => IsTerminal(s.status)
    PROVE  LoopFits(i, j, s)
  BY DEF LoopFits

LEMMA CancellerFitsOn ==
    ASSUME NEW j, NEW now, NEW s, CancellerFits(j, now),
           IsTerminal(now.status) => IsTerminal(s.status)
    PROVE  CancellerFits(j, s)
  BY DEF CancellerFits

LEMMA DirectsStay ==
    ASSUME SoloInv, Steady, \A e \in Execution : work'[Direct(e)] = work[Direct(e)]
    PROVE  OneIsUp'
  BY DEF SoloInv, OneIsUp, Steady, Busy

\* The loop saves: only a Cancel of the same execution has another copy.
LEMMA LoopWrites ==
    ASSUME ServiceInv, SoloInv, NEW i \in Instance, Busy(Loop(i)), UNCHANGED scan, Steady,
           NEW k, k = work[Loop(i)], k.pc = "save", k.exec \in Admitted,
           NEW s \in Record, NEW ev, Write(k.exec, s, ev),
           k.rec = records[k.exec], ~IsTerminal(k.rec.status),
           s.attempts >= k.rec.attempts,
           Tried(k.rec, k.todo) => s.attempts > k.rec.attempts,
           NEW j, work' = [work EXCEPT ![Loop(i)] = j],
           j = Idle \/ (j.exec = k.exec /\ LoopFits(i, j, s))
    PROVE  SoloInv' /\ \A d \in Admitted : Paid(d)
  <1>1. PICK w \in Worker : w = Loop(i) /\ ~IsCanceller(w) /\ ~(\E e \in Execution : w = Direct(e))
    BY Workers
  <1>2. work'[w] = j /\ \A v \in Worker : v # w => work'[v] = work[v]
    BY <1>1 DEF ServiceInv, JobsOK
  <1>3. i \in up /\ \A c \in scan[i] : c[1] # k.exec
    BY DEF SoloInv, LoopsFit
  <1>4. PICK e \in Execution : e = k.exec
    BY DEF Admitted
  <1>5. records'[e] = s /\ \A d : d # e => records'[d] = records[d]
    BY <1>4 DEF Write, ServiceInv, StoreTypeOK
  <1>6. OneIsUp'
    <2>1. ASSUME NEW d \in Execution PROVE work'[Direct(d)] = work[Direct(d)]
      BY <1>1, <1>2, Workers
    <2> QED
      BY <2>1, DirectsStay
  <1>7. LoopsFit'
    <2>1. ASSUME NEW h \in Instance, Busy(Loop(h))'
          PROVE  /\ h \in up'
                 /\ LoopFits(h, work'[Loop(h)], records'[work'[Loop(h)].exec])
                 /\ \A c \in scan'[h] : c[1] # work'[Loop(h)].exec
      <3>1. h = i
        <4>1. CASE Loop(h) = w
          BY <1>1, <4>1 DEF Loop
        <4>2. CASE Loop(h) # w
          <5>1. Busy(Loop(h))
            BY <1>2, <2>1, <4>2, Workers DEF Busy
          <5> QED
            BY <1>3, <5>1, OneLoop
        <4> QED
          BY <4>1, <4>2
      <3>2. j # Idle /\ work'[Loop(h)] = j
        BY <1>1, <1>2, <2>1, <3>1 DEF Busy, Idle
      <3> QED
        BY <1>3, <1>4, <1>5, <3>1, <3>2 DEF Steady
    <2> QED
      BY <2>1 DEF LoopsFit
  <1>8. ScansFit'
    <2>1. ASSUME NEW h \in Instance, NEW c \in scan'[h] PROVE Lags(c[2], records'[c[1]])
      <3>1. c \in scan[h] /\ h = i
        BY <1>3, OneLoop
      <3>2. records'[c[1]] = records[c[1]]
        BY <1>3, <1>4, <1>5, <3>1
      <3> QED
        BY <3>1, <3>2 DEF SoloInv, ScansFit
    <2> QED
      BY <2>1 DEF SoloInv, ScansFit, Steady
  <1>9. CancellersFit'
    <2>1. ASSUME NEW d \in Execution, Busy(Canceller(d))'
          PROVE  CancellerFits(work'[Canceller(d)], records'[work'[Canceller(d)].exec])
      <3>1. work'[Canceller(d)] = work[Canceller(d)] /\ Busy(Canceller(d))
        BY <1>1, <1>2, <2>1, Workers DEF Busy
      <3>2. PICK job : job = work[Canceller(d)]
        OBVIOUS
      <3>3. CancellerFits(job, records[job.exec])
        BY <3>1, <3>2 DEF SoloInv, CancellersFit
      <3>4. CASE job.exec = e
        BY <1>4, <1>5, <3>1, <3>2, <3>3, <3>4, CancellerFitsOn
      <3>5. CASE job.exec # e
        BY <1>5, <3>1, <3>2, <3>3, <3>5
      <3> QED
        BY <3>4, <3>5
    <2> QED
      BY <2>1 DEF CancellersFit
  <1>10. ASSUME NEW d \in Admitted, d # e PROVE Paid(d)
    <2>1. ~Drives(i, d) /\ records'[d] = records[d]
      BY <1>4, <1>5, <1>10 DEF Drives
    <2>2. \A h \in Instance : scan'[h] \subseteq scan[h]
      BY DEF Steady
    <2> QED
      BY <1>3, <1>4, <1>10, <2>1, <2>2, OthersFly
  <1>11. Paid(e)
    <2>1. CASE Tried(k.rec, k.todo)
      BY <1>4, <1>5, <2>1 DEF Paid, Record
    <2>2. CASE ~Tried(k.rec, k.todo)
      <3>1. ~Aloft(i, e)
        BY <2>2 DEF Aloft
      <3>2. \A h \in Instance : ~Aloft(h, e)
        BY <1>3, <3>1, OneLoop DEF Aloft, Drives
      <3>3. ~InFlight(e)
        BY <1>4, <3>2, Grounded
      <3> QED
        BY <3>3 DEF Paid
    <2> QED
      BY <2>1, <2>2
  <1> QED
    BY <1>6, <1>7, <1>8, <1>9, <1>10, <1>11 DEF SoloInv

\* A step that leaves the loops at work leaves what is in flight.
LEMMA LoopsAlike ==
    ASSUME UNCHANGED scan, NEW d, IsTerminal(records[d].status) => IsTerminal(records'[d].status),
           \A h \in Instance :
              /\ Busy(Loop(h))' <=> Busy(Loop(h))
              /\ Busy(Loop(h)) => /\ work'[Loop(h)].exec = work[Loop(h)].exec
                                  /\ work'[Loop(h)].pc = work[Loop(h)].pc
                                  /\ work'[Loop(h)].rec = work[Loop(h)].rec
                                  /\ work'[Loop(h)].todo = work[Loop(h)].todo
    PROVE  Paid(d)
  <1>1. ASSUME NEW h \in Instance
        PROVE  /\ Aloft(h, d) => Aloft(h, d)'
               /\ Listed(h, d)' => Listed(h, d)
               /\ Setting(h, d)' => Setting(h, d)
    BY DEF Aloft, Listed, Setting, Drives
  <1> QED
    BY <1>1, FlightStays DEF Paid

\* A Cancel saves: its execution has ended, or its retry is abandoned.
LEMMA CancellerWrites ==
    ASSUME ServiceInv, SoloInv, NEW c \in Execution, Busy(Canceller(c)), UNCHANGED scan, Steady,
           NEW k, k = work[Canceller(c)], k.exec \in Admitted,
           NEW s \in Record, NEW ev, Write(k.exec, s, ev),
           NEW now, now = records[k.exec],
           IsTerminal(now.status) => IsTerminal(s.status),
           s.status = "cancelled" \/ now.status = "waiting_retry",
           NEW j, work' = [work EXCEPT ![Canceller(c)] = j],
           j = Idle \/ (j.exec = k.exec /\ CancellerFits(j, s))
    PROVE  SoloInv' /\ \A d \in Admitted : Paid(d)
  <1>1. PICK w \in Worker : /\ w = Canceller(c) /\ \A e \in Execution : w # Direct(e)
                            /\ \A h \in Instance : w # Loop(h)
    BY Workers
  <1>2. work'[w] = j /\ \A v \in Worker : v # w => work'[v] = work[v]
    BY <1>1 DEF ServiceInv, JobsOK
  <1>3. PICK e \in Execution : e = k.exec
    BY DEF Admitted
  <1>4. records'[e] = s /\ \A d : d # e => records'[d] = records[d]
    BY <1>3 DEF Write, ServiceInv, StoreTypeOK
  <1>5. \A d : IsTerminal(records[d].status) => IsTerminal(records'[d].status)
    BY <1>3, <1>4
  <1>6. ASSUME NEW r, NEW d, Lags(r, records[d]) PROVE Lags(r, records'[d])
    BY <1>3, <1>4, <1>6, LagsOn
  <1>7. OneIsUp'
    BY <1>1, <1>2, Workers, DirectsStay
  <1>8. \A h \in Instance : work'[Loop(h)] = work[Loop(h)]
    BY <1>1, <1>2, Workers
  <1>9. LoopsFit'
    <2>1. ASSUME NEW h \in Instance, Busy(Loop(h))'
          PROVE  /\ h \in up'
                 /\ LoopFits(h, work'[Loop(h)], records'[work'[Loop(h)].exec])
                 /\ \A d \in scan'[h] : d[1] # work'[Loop(h)].exec
      <3>1. PICK job : job = work[Loop(h)]
        OBVIOUS
      <3>2. /\ h \in up /\ LoopFits(h, job, records[job.exec])
            /\ \A d \in scan[h] : d[1] # job.exec
        BY <1>8, <2>1, <3>1 DEF SoloInv, LoopsFit, Busy
      <3>3. Lags(job.rec, records'[job.exec])
        BY <1>6, <3>2 DEF LoopFits
      <3>4. LoopFits(h, job, records'[job.exec])
        BY <1>5, <3>2, <3>3, LoopFitsOn
      <3> QED
        BY <1>8, <3>1, <3>2, <3>4 DEF Steady
    <2> QED
      BY <2>1 DEF LoopsFit
  <1>10. ScansFit'
    BY <1>6 DEF SoloInv, ScansFit, Steady
  <1>11. CancellersFit'
    <2>1. ASSUME NEW d \in Execution, Busy(Canceller(d))'
          PROVE  CancellerFits(work'[Canceller(d)], records'[work'[Canceller(d)].exec])
      <3>1. CASE Canceller(d) = w
        <4>1. j # Idle
          BY <1>2, <2>1, <3>1 DEF Busy, Idle
        <4> QED
          BY <1>2, <1>3, <1>4, <3>1, <4>1
      <3>2. CASE Canceller(d) # w
        <4>1. work'[Canceller(d)] = work[Canceller(d)] /\ Busy(Canceller(d))
          BY <1>2, <2>1, <3>2, Workers DEF Busy
        <4>2. PICK job : job = work[Canceller(d)]
          OBVIOUS
        <4>3. CancellerFits(job, records[job.exec])
          BY <4>1, <4>2 DEF SoloInv, CancellersFit
        <4> QED
          BY <1>5, <4>1, <4>2, <4>3, CancellerFitsOn
      <3> QED
        BY <3>1, <3>2
    <2> QED
      BY <2>1 DEF CancellersFit
  <1>12. ASSUME NEW d \in Admitted PROVE Paid(d)
    BY <1>5, <1>8, LoopsAlike DEF Busy
  <1> QED
    BY <1>7, <1>9, <1>10, <1>11, <1>12 DEF SoloInv

\* A Cancel begins, gives up, or goes on, while the store stays.
LEMMA CancellerTurns ==
    ASSUME ServiceInv, SoloInv, NEW c \in Execution, UNCHANGED <<storeVars, scan>>, Steady,
           NEW j, work' = [work EXCEPT ![Canceller(c)] = j],
           j = Idle \/ CancellerFits(j, records[j.exec])
    PROVE  SoloInv' /\ \A d \in Admitted : Paid(d)
  <1>1. PICK w \in Worker : /\ w = Canceller(c) /\ \A e \in Execution : w # Direct(e)
                            /\ \A h \in Instance : w # Loop(h)
    BY Workers
  <1>2. work'[w] = j /\ \A v \in Worker : v # w => work'[v] = work[v]
    BY <1>1 DEF ServiceInv, JobsOK
  <1>3. records' = records
    BY DEF storeVars
  <1>4. OneIsUp'
    BY <1>1, <1>2, Workers, DirectsStay
  <1>5. \A h \in Instance : work'[Loop(h)] = work[Loop(h)]
    BY <1>1, <1>2, Workers
  <1>6. LoopsFit' /\ ScansFit'
    BY <1>3, <1>5 DEF SoloInv, LoopsFit, ScansFit, Busy, Steady
  <1>7. CancellersFit'
    <2>1. ASSUME NEW d \in Execution, Busy(Canceller(d))'
          PROVE  CancellerFits(work'[Canceller(d)], records'[work'[Canceller(d)].exec])
      <3>1. CASE Canceller(d) = w
        <4>1. j # Idle
          BY <1>2, <2>1, <3>1 DEF Busy, Idle
        <4> QED
          BY <1>2, <1>3, <3>1, <4>1
      <3>2. CASE Canceller(d) # w
        <4>1. work'[Canceller(d)] = work[Canceller(d)] /\ Busy(Canceller(d))
          BY <1>2, <2>1, <3>2, Workers DEF Busy
        <4> QED
          BY <1>3, <4>1 DEF SoloInv, CancellersFit
      <3> QED
        BY <3>1, <3>2
    <2> QED
      BY <2>1 DEF CancellersFit
  <1>8. ASSUME NEW d \in Admitted PROVE Paid(d)
    BY <1>3, <1>5, LoopsAlike DEF Busy
  <1> QED
    BY <1>4, <1>6, <1>7, <1>8 DEF SoloInv

\* A process dies, and the only loop at work with it.
LEMMA LoopDies ==
    ASSUME ServiceInv, SoloInv, NEW i \in Instance, Stop(i),
           UNCHANGED <<storeVars, pauses, scenario>>,
           deaths' + exits' > deaths + exits
    PROVE  SoloInv' /\ \A d \in Admitted : Paid(d)
  <1>1. /\ up' = up \ {i} /\ records' = records
        /\ \A h \in Instance : scan'[h] = IF h = i THEN {} ELSE scan[h]
    BY DEF Stop, storeVars, ServiceInv, JobsOK
  <1>2. ASSUME NEW v \in Worker, Busy(v)'
        PROVE  Busy(v) /\ work'[v] = work[v] /\ work[v].host # i
    BY <1>2 DEF Stop, Busy, Idle
  <1>3. OneIsUp'
    <2>1. \A e \in Execution : ~Busy(Direct(e))'
      BY <1>2, Workers DEF SoloInv, OneIsUp
    <2> QED
      BY <1>1, <2>1 DEF SoloInv, OneIsUp
  <1>4. LoopsFit'
    <2>1. ASSUME NEW h \in Instance, Busy(Loop(h))'
          PROVE  /\ h \in up'
                 /\ LoopFits(h, work'[Loop(h)], records'[work'[Loop(h)].exec])
                 /\ \A c \in scan'[h] : c[1] # work'[Loop(h)].exec
      <3>1. Busy(Loop(h)) /\ work'[Loop(h)] = work[Loop(h)] /\ work[Loop(h)].host # i
        BY <1>2, <2>1, Workers
      <3>2. /\ h \in up /\ LoopFits(h, work[Loop(h)], records[work[Loop(h)].exec])
            /\ \A c \in scan[h] : c[1] # work[Loop(h)].exec
        BY <3>1 DEF SoloInv, LoopsFit
      <3>3. h # i
        BY <3>1, <3>2 DEF LoopFits
      <3> QED
        BY <1>1, <3>1, <3>2, <3>3
    <2> QED
      BY <2>1 DEF LoopsFit
  <1>5. ScansFit'
    BY <1>1 DEF SoloInv, ScansFit
  <1>6. CancellersFit'
    BY <1>1, <1>2, Workers DEF SoloInv, CancellersFit
  <1> QED
    BY <1>3, <1>4, <1>5, <1>6 DEF SoloInv, Paid

-----------------------------------------------------------------------------
(* What a loop and a Cancel do next.                                       *)

Sole == SoleProcess /\ ServiceInv /\ RetriesInv /\ Submitted /\ SoloInv

LEMMA AtLoop ==
    ASSUME Sole, NEW i \in Instance, Busy(Loop(i))
    PROVE  \E k \in Job, now \in Record :
              /\ k = work[Loop(i)] /\ now = records[k.exec] /\ k.exec \in Admitted
              /\ k.rec \in Record /\ k.rec.task = NoTask /\ i \in up
              /\ ~k.rec.request.async /\ ~Streams(k.rec)
              /\ LoopFits(i, k, now)
  <1>1. PICK w \in Worker : w = Loop(i)
    BY Workers
  <1>2. PICK k \in Job : /\ k = work[w] /\ k.exec \in Execution /\ k.rec \in Record
                         /\ <<k.exec, k.rec>> \in HeldCopies
                         /\ records[k.exec] \in Record
    BY <1>1, Hands DEF Sole
  <1>3. k.exec \in Admitted
    BY <1>2 DEF Sole, ServiceInv, Versions
  <1>4. VersionOK(k.rec) /\ records[k.exec].request = k.rec.request
    BY <1>1, <1>2, HandVersions DEF Sole
  <1>5. ~k.rec.request.async /\ ~k.rec.request.stream
    <2>1. k.rec.request \in Requests
      BY <1>3, <1>4 DEF Sole, Submitted
    <2> QED
      BY <2>1 DEF Requests, Sole, SoleProcess
  <1>6. k.rec.task = NoTask /\ ~Streams(k.rec)
    BY <1>4, <1>5 DEF VersionOK, Streams
  <1>7. i \in up /\ LoopFits(i, k, records[k.exec])
    BY <1>1, <1>2 DEF Sole, SoloInv, LoopsFit
  <1> QED
    BY <1>1, <1>2, <1>3, <1>5, <1>6, <1>7

LEMMA ChainTried ==
    ASSUME NEW r, NEW saves, Chain(r, saves), saves # <<>>
    PROVE  saves[1].rec.attempts = r.attempts
  BY DEF Chain, StepOK

LEMMA SteadyHere == ASSUME UNCHANGED <<scan, lifeVars>> PROVE Steady
  BY DEF Steady, lifeVars

\* From a place before the provider is called.
LEMMA LoopProceeds ==
    ASSUME Sole, NEW i \in Instance, Busy(Loop(i)), NEW k, k = work[Loop(i)], k.pc \in Early,
           NEW saves, NEW next \in Early \cup {"done"}, Chain(k.rec, saves),
           Proceed(Loop(i), k.rec, saves, next), UNCHANGED <<storeVars, lifeVars>>,
           next \in {"materialize", "dispatch"} => After(k.rec, saves).status # "waiting_retry"
    PROVE  SoloInv' /\ \A d \in Admitted : Paid(d)
  <1>1. UNCHANGED scan
    BY DEF Proceed
  <1>2. Steady
    BY <1>1, SteadyHere
  <1>3. LoopFits(i, k, records[k.exec]) /\ Loop(i) \in Worker
    BY Workers DEF Sole, SoloInv, LoopsFit
  <1>4. CASE work' = [work EXCEPT ![Loop(i)] = Idle]
    <2>1. ~Aloft(i, k.exec)
      BY DEF Aloft, Early
    <2> QED
      BY <1>2, <1>4, <2>1, LoopLetsGo DEF Sole
  <1>5. CASE work' # [work EXCEPT ![Loop(i)] = Idle]
    <2>1. PICK j : /\ work' = [work EXCEPT ![Loop(i)] = j] /\ j # Idle
                   /\ j.exec = k.exec /\ j.rec = k.rec /\ j.todo = saves
                   /\ j.next = next /\ j.host = k.host /\ j.cut = k.cut
                   /\ j.pc = IF saves = <<>> THEN next ELSE "save"
      BY <1>3, <1>5, ProceedJob DEF Sole, ServiceInv
    <2>2. ~(saves = <<>> /\ next = "done")
      BY <1>5 DEF Proceed, End
    <2>3. saves # <<>> => ~Tried(j.rec, j.todo)
      BY <2>1, ChainTried DEF Tried
    <2>4. saves = <<>> => After(k.rec, saves) = k.rec
      BY DEF After
    <2>5. LoopFits(i, j, records[k.exec])
      BY <1>3, <2>1, <2>2, <2>3, <2>4 DEF LoopFits, Early
    <2> QED
      BY <1>1, <1>2, <2>1, <2>5, LoopGoesOn DEF Sole
  <1> QED
    BY <1>4, <1>5

LEMMA ExecuteSole ==
    ASSUME Sole, NEW i \in Instance, Execute(Loop(i))
    PROVE  SoloInv' /\ \A d \in Admitted : Paid(d)
  <1>1. Busy(Loop(i)) /\ work[Loop(i)].pc = "execute" /\ UNCHANGED <<storeVars, lifeVars>>
    BY DEF Execute, Busy
  <1>2. PICK k \in Job : k = work[Loop(i)] /\ k.rec \in Record
    BY <1>1, AtLoop
  <1>3. PICK r \in Record : r = k.rec
    BY <1>2
  <1>4. k.pc \in Early
    BY <1>1, <1>2 DEF Early
  <1>5. ASSUME NEW saves, NEW next \in Early \cup {"done"}, Chain(r, saves),
               Proceed(Loop(i), r, saves, next),
               next \in {"materialize", "dispatch"} => After(r, saves).status # "waiting_retry"
        PROVE  SoloInv' /\ \A d \in Admitted : Paid(d)
    BY <1>1, <1>2, <1>3, <1>4, <1>5, LoopProceeds
  <1>6. CASE Proceed(Loop(i), r, Fail(r), "done")
    BY <1>5, <1>6, FailChain
  <1>7. CASE /\ Proceed(Loop(i), r, Transition(r, "preparing_inputs"), "materialize")
             /\ r.status \in {"accepted", "waiting_retry"}
    <2>1. "preparing_inputs" \in Target /\ "materialize" \in Early
      BY DEF Target, Early
    <2>2. PICK m : m = Moved(r, "preparing_inputs")
      OBVIOUS
    <2>3. m.status = "preparing_inputs"
      BY <2>2, MovedFields
    <2>4. After(r, Transition(r, "preparing_inputs")) = m
      BY <1>7, <2>2, LastOfOne DEF Transition
    <2> QED
      BY <1>5, <1>7, <2>1, <2>3, <2>4, TransitionChain
  <1>8. CASE /\ Proceed(Loop(i), r, <<>>, "materialize")
             /\ r.status \notin {"accepted", "waiting_retry"}
    <2>1. After(r, <<>>) = r /\ "materialize" \in Early
      BY DEF After, Early
    <2> QED
      BY <1>5, <1>8, <2>1, ChainNone
  <1>9. CASE Proceed(Loop(i), r, <<>>, "ready")
    <2>1. "ready" \in Early
      BY DEF Early
    <2> QED
      BY <1>5, <1>9, <2>1, ChainNone
  <1>10. \/ Proceed(Loop(i), r, Fail(r), "done")
         \/ /\ Proceed(Loop(i), r, Transition(r, "preparing_inputs"), "materialize")
            /\ r.status \in {"accepted", "waiting_retry"}
         \/ /\ Proceed(Loop(i), r, <<>>, "materialize")
            /\ r.status \notin {"accepted", "waiting_retry"}
         \/ Proceed(Loop(i), r, <<>>, "ready")
    <2>1. CASE Spent(k.exec, r)
      BY <1>2, <1>3, <2>1 DEF Execute
    <2>2. CASE ~Spent(k.exec, r) /\ r.request.plan
      BY <1>2, <1>3, <2>2 DEF Execute
    <2>3. CASE ~Spent(k.exec, r) /\ ~r.request.plan
      BY <1>2, <1>3, <2>3 DEF Execute
    <2> QED
      BY <2>1, <2>2, <2>3
  <1> QED
    BY <1>6, <1>7, <1>8, <1>9, <1>10

LEMMA MaterializeSole ==
    ASSUME Sole, NEW i \in Instance, Materialize(Loop(i))
    PROVE  SoloInv' /\ \A d \in Admitted : Paid(d)
  <1>1. Busy(Loop(i)) /\ work[Loop(i)].pc = "materialize" /\ UNCHANGED <<storeVars, lifeVars>>
    BY DEF Materialize, Busy
  <1>2. PICK k \in Job : k = work[Loop(i)] /\ k.rec \in Record
    BY <1>1, AtLoop
  <1>3. PICK r \in Record : r = k.rec
    BY <1>2
  <1>4. k.pc \in Early /\ "ready" \in Early
    BY <1>1, <1>2 DEF Early
  <1>5. ASSUME NEW saves, NEW next \in {"ready", "done"}, Chain(r, saves),
               Proceed(Loop(i), r, saves, next)
        PROVE  SoloInv' /\ \A d \in Admitted : Paid(d)
    BY <1>1, <1>2, <1>3, <1>4, <1>5, LoopProceeds
  <1>6. CASE Proceed(Loop(i), r, Fail(r), "done")
    BY <1>5, <1>6, FailChain
  <1>7. CASE /\ r.status = "preparing_inputs"
             /\ Proceed(Loop(i), r, Note(r, "input.materialization.completed"), "ready")
    <2>1. "input.materialization.completed" \in EventType
      BY DEF EventType, LifecycleEvent
    <2> QED
      BY <1>5, <1>7, <2>1, NoteChain
  <1>8. CASE Proceed(Loop(i), r, <<>>, "ready")
    BY <1>5, <1>8, ChainNone
  <1>9. \/ Proceed(Loop(i), r, Fail(r), "done")
        \/ /\ r.status = "preparing_inputs"
           /\ Proceed(Loop(i), r, Note(r, "input.materialization.completed"), "ready")
        \/ Proceed(Loop(i), r, <<>>, "ready")
    <2>1. CASE r.status = "preparing_inputs"
      BY <1>2, <1>3, <2>1 DEF Materialize
    <2>2. CASE r.status # "preparing_inputs"
      BY <1>2, <1>3, <2>2 DEF Materialize
    <2> QED
      BY <2>1, <2>2
  <1> QED
    BY <1>6, <1>7, <1>8, <1>9

LEMMA ReadySole ==
    ASSUME Sole, NEW i \in Instance, Ready(Loop(i))
    PROVE  SoloInv' /\ \A d \in Admitted : Paid(d)
  <1>1. Busy(Loop(i)) /\ work[Loop(i)].pc = "ready" /\ UNCHANGED <<storeVars, lifeVars>>
    BY DEF Ready, Busy
  <1>2. PICK k \in Job : /\ k = work[Loop(i)] /\ k.rec \in Record /\ ~k.rec.request.async
                         /\ LoopFits(i, k, records[k.exec])
    BY <1>1, AtLoop
  <1>3. PICK r \in Record : r = k.rec
    BY <1>2
  <1>4. k.pc \in Early
    BY <1>1, <1>2 DEF Early
  <1>5. CASE Proceed(Loop(i), r, Fail(r), "done")
    BY <1>1, <1>2, <1>3, <1>4, <1>5, LoopProceeds, FailChain
  <1>6. PICK running : running = Transition(r, "running")
    OBVIOUS
  <1>7. CASE /\ work' = [work EXCEPT ![Loop(i)].sync = TRUE, ![Loop(i)].todo = running,
                               ![Loop(i)].pc = IF running = <<>> THEN "dispatch" ELSE "save",
                               ![Loop(i)].next = "dispatch"]
             /\ UNCHANGED scan
    <2>1. PICK pc : pc = IF running = <<>> THEN "dispatch" ELSE "save"
      OBVIOUS
    <2>2. PICK j : j = [k EXCEPT !.sync = TRUE, !.todo = running, !.pc = pc, !.next = "dispatch"]
      OBVIOUS
    <2>3. work' = [work EXCEPT ![Loop(i)] = j]
      BY <1>2, <1>7, <2>1, <2>2, Workers DEF Sole, ServiceInv, JobsOK
    <2>4. /\ j.rec = r /\ j.todo = running /\ j.pc = pc /\ j.next = "dispatch"
          /\ j.exec = k.exec /\ j.host = k.host /\ j.cut = k.cut
      BY <1>3, <2>2 DEF Job
    <2>5. j # Idle
      BY <2>1, <2>4 DEF Idle
    <2>6. "running" \in Target
      BY DEF Target
    <2>7. running # <<>> => ~Tried(r, running)
      BY <1>6, <2>6, TransitionChain, ChainTried DEF Tried
    <2>8. IF running = <<>> THEN r.status = "running"
          ELSE After(r, running).status = "running"
      <3>1. CASE r.status = "running"
        BY <1>6, <3>1 DEF Transition
      <3>2. CASE r.status # "running"
        <4>1. PICK m : m = Moved(r, "running")
          OBVIOUS
        <4>2. After(r, running) = m /\ running # <<>>
          BY <1>6, <3>2, <4>1, LastOfOne DEF Transition, Saves
        <4> QED
          BY <4>1, <4>2, MovedFields
      <3> QED
        BY <3>1, <3>2
    <2>9. LoopFits(i, j, records[k.exec])
      BY <1>1, <1>2, <1>3, <2>1, <2>4, <2>7, <2>8 DEF LoopFits, Early
    <2>10. Steady
      BY <1>1, <1>7, SteadyHere
    <2> QED
      BY <1>1, <1>2, <1>4, <1>7, <2>3, <2>4, <2>5, <2>9, <2>10, LoopGoesOn DEF Sole
  <1>8. \/ Proceed(Loop(i), r, Fail(r), "done")
        \/ /\ work' = [work EXCEPT ![Loop(i)].sync = TRUE, ![Loop(i)].todo = running,
                               ![Loop(i)].pc = IF running = <<>> THEN "dispatch" ELSE "save",
                               ![Loop(i)].next = "dispatch"]
           /\ UNCHANGED scan
    BY <1>2, <1>3, <1>6 DEF Ready
  <1> QED
    BY <1>5, <1>7, <1>8

LEMMA GrowsSame ==
    ASSUME ServiceInv, UNCHANGED storeVars, deaths' \in Nat, exits' \in Nat,
           deaths' + exits' >= deaths + exits
    PROVE  Admitted' = Admitted /\ \A e \in Admitted : Grows(e)
  <1>1. records' = records /\ Admitted' = Admitted
    BY DEF storeVars, Admitted
  <1>2. ASSUME NEW e \in Admitted PROVE Grows(e)
    <2>1. PICK n \in Nat : n = records[e].attempts
      <3>1. records[e] \in Record
        BY AdmittedRecords DEF ServiceInv
      <3> QED
        BY <3>1 DEF Record
    <2>2. records'[e].attempts = n /\ n >= n
      BY <1>1, <2>1
    <2> QED
      BY <2>1, <2>2 DEF Grows
  <1> QED
    BY <1>1, <1>2

LEMMA DispatchSole ==
    ASSUME Sole, Accounted, NEW i \in Instance, Dispatch(Loop(i))
    PROVE  SoloInv' /\ Accounted'
  <1>1. Busy(Loop(i)) /\ work[Loop(i)].pc = "dispatch" /\ UNCHANGED <<storeVars, lifeVars>>
    BY DEF Dispatch, Busy
  <1>2. PICK k \in Job : /\ k = work[Loop(i)] /\ k.rec \in Record /\ ~k.rec.request.async
                         /\ LoopFits(i, k, records[k.exec]) /\ k.exec \in Admitted /\ i \in up
    BY <1>1, AtLoop
  <1>3. k.pc \in Early
    BY <1>1, <1>2 DEF Early
  <1>4. deaths' = deaths /\ exits' = exits /\ deaths \in Nat /\ exits \in Nat
    BY <1>1 DEF lifeVars, Sole, ServiceInv, EnvOK
  <1>5. Admitted' = Admitted /\ \A d \in Admitted : Grows(d)
    <2>1. deaths' + exits' >= deaths + exits
      BY <1>4
    <2> QED
      BY <1>1, <1>4, <2>1, GrowsSame DEF Sole
  <1>6. CASE Proceed(Loop(i), k.rec, Fail(k.rec), "done") /\ UNCHANGED envVars
    <2>1. SoloInv' /\ \A d \in Admitted : Paid(d)
      BY <1>1, <1>2, <1>3, <1>6, FailChain, LoopProceeds
    <2> QED
      BY <1>5, <1>6, <2>1, Counted DEF Sole, envVars
  <1>7. CASE /\ calls' = [calls EXCEPT ![k.exec] = @ + 1]
             /\ work' = [work EXCEPT ![Loop(i)].pc = "await", ![Loop(i)].spoke = FALSE,
                                     ![Loop(i)].task = NoTask]
             /\ UNCHANGED scan
    <2>1. PICK j : j = [k EXCEPT !.pc = "await", !.spoke = FALSE, !.task = NoTask]
      OBVIOUS
    <2>2. work' = [work EXCEPT ![Loop(i)] = j]
      BY <1>2, <1>7, <2>1, Workers DEF Sole, ServiceInv, JobsOK
    <2>3. /\ j.rec = k.rec /\ j.pc = "await" /\ j.exec = k.exec /\ j.host = k.host
          /\ j.cut = k.cut
      BY <2>1 DEF Job
    <2>4. j # Idle
      BY <2>3 DEF Idle
    <2>5. LoopFits(i, j, records[k.exec])
      BY <1>1, <1>2, <2>3 DEF LoopFits, Early
    <2>6. Steady
      BY <1>1, <1>7, SteadyHere
    <2>7. SoloInv' /\ \A d \in Admitted : Paid(d)
      BY <1>1, <1>2, <1>3, <1>7, <2>2, <2>3, <2>4, <2>5, <2>6, LoopGoesOn DEF Sole
    <2>8. PICK e \in Execution : e = k.exec /\ e \in Admitted
      BY <1>2 DEF Admitted
    <2>9. calls'[e] = calls[e] + 1 /\ \A d \in Execution : d # e => calls'[d] = calls[d]
      BY <1>7, <2>8 DEF Sole, ServiceInv, EnvOK
    <2>10. ASSUME NEW d \in Admitted, d # e PROVE Owed(d)'
      <3>1. d \in Execution
        BY DEF Admitted
      <3> QED
        BY <1>5, <2>7, <2>9, <2>10, <3>1, CountedOne DEF Sole, Accounted
    <2>11. Owed(e)'
      <3>1. ~InFlight(e)
        <4>1. \A h \in Instance : ~Aloft(h, e)
          <5>1. ~Aloft(i, e)
            BY <1>1 DEF Aloft
          <5> QED
            BY <1>2, <5>1, OneLoop DEF Aloft, Drives, Sole
        <4>2. Setting(i, e)
          BY <1>1, <1>2, <1>3, <2>8 DEF Setting, Drives
        <4> QED
          BY <4>1, <4>2, Grounded
      <3>2. InFlight(e)'
        <4>1. work'[Loop(i)] = j
          BY <2>2, Workers DEF Sole, ServiceInv, JobsOK
        <4>2. Aloft(i, e)'
          BY <2>3, <2>8, <4>1 DEF Aloft, Drives, Busy
        <4> QED
          BY <4>2 DEF InFlight
      <3>3. calls[e] <= records[e].attempts + deaths + exits + 0
        BY <2>8, <3>1 DEF Accounted, Owed
      <3>4. PICK n \in Nat, a \in Nat, x \in Nat, y \in Nat :
                n = calls[e] /\ a = records[e].attempts /\ x = deaths /\ y = exits
        <4>1. records[e] \in Record
          BY <2>8, AdmittedRecords DEF Sole, ServiceInv
        <4>2. calls[e] \in Nat /\ records[e].attempts \in Nat
          BY <4>1 DEF Sole, ServiceInv, EnvOK, Record
        <4> QED
          BY <1>4, <4>2
      <3>5. n + 1 <= a + x + y + 1
        BY <3>3, <3>4
      <3>6. records' = records
        BY <1>1 DEF storeVars
      <3> QED
        BY <1>4, <2>9, <3>2, <3>4, <3>5, <3>6 DEF Owed
    <2>12. ASSUME NEW d \in Execution, d \notin Admitted PROVE calls'[d] = 0
      BY <2>8, <2>9, <2>12 DEF Accounted
    <2> QED
      BY <1>5, <2>7, <2>10, <2>11, <2>12 DEF Accounted
  <1>8. \/ Proceed(Loop(i), k.rec, Fail(k.rec), "done") /\ UNCHANGED envVars
        \/ /\ calls' = [calls EXCEPT ![k.exec] = @ + 1]
           /\ work' = [work EXCEPT ![Loop(i)].pc = "await", ![Loop(i)].spoke = FALSE,
                                   ![Loop(i)].task = NoTask]
           /\ UNCHANGED scan
    BY <1>2 DEF Dispatch
  <1> QED
    BY <1>6, <1>7, <1>8

LEMMA ChainOfTwo ==
    ASSUME NEW r, NEW a, NEW b, Chain(r, a), Chain(After(r, a), b), b # <<>>
    PROVE  a \o b # <<>> /\ (a \o b)[1].rec.attempts = r.attempts
  <1>1. Chain(r, a \o b)
    BY ChainJoin
  <1>2. a \in Seq(Pending) /\ b \in Seq(Pending)
    BY DEF Chain
  <1>3. Len(b) \in Nat \ {0} /\ Len(a) \in Nat
    BY <1>2, LenProperties, EmptySeq
  <1>4. Len(a \o b) # 0
    BY <1>2, <1>3, Joined
  <1>5. a \o b # <<>>
    BY <1>4, EmptySeq
  <1> QED
    BY <1>1, <1>5, ChainTried

LEMMA SavesNothingNot ==
    ASSUME NEW r, NEW ev, NEW mode
    PROVE  Saves(r, ev, mode) # <<>>
  BY DEF Saves

LEMMA FailTried ==
    ASSUME NEW r \in Record, ~IsTerminal(r.status)
    PROVE  Fail(r) # <<>> /\ Fail(r)[1].rec.attempts = r.attempts
  <1>1. PICK abort : abort = IF r.cycled THEN Note(r, "retry.aborted") ELSE <<>>
    OBVIOUS
  <1>2. Chain(r, abort) /\ After(r, abort).status = r.status /\ After(r, abort) \in Record
    <2>1. CASE r.cycled
      <3>1. "retry.aborted" \in EventType
            /\ "retry.aborted" \notin LifecycleEvent \cup {"retry.scheduled"}
        BY DEF EventType, RetryEvent, LifecycleEvent
      <3>2. PICK s : s = [r EXCEPT !.rev = @ + 1]
        OBVIOUS
      <3>3. After(r, abort) = s
        BY <1>1, <2>1, <3>2, LastOfOne DEF Note
      <3>4. s.status = r.status
        BY <3>2 DEF Record
      <3> QED
        BY <1>1, <2>1, <3>1, <3>3, <3>4, NoteChain
    <2>2. CASE ~r.cycled
      BY <1>1, <2>2, ChainNone DEF After
    <2> QED
      BY <2>1, <2>2
  <1>3. PICK b : b = Transition(After(r, abort), "failed")
    OBVIOUS
  <1>4. Chain(After(r, abort), b)
    <2>1. "failed" \in Target
      BY DEF Target, TerminalStatus
    <2> QED
      BY <1>2, <1>3, <2>1, TransitionChain
  <1>5. b # <<>>
    <2>1. After(r, abort).status # "failed"
      BY <1>2 DEF IsTerminal, TerminalStatus
    <2> QED
      BY <1>3, <2>1, SavesNothingNot DEF Transition
  <1>6. Fail(r) = abort \o b
    BY <1>1, <1>3 DEF Fail
  <1> QED
    BY <1>2, <1>4, <1>5, <1>6, ChainOfTwo

LEMMA TriedFirst ==
    ASSUME NEW r \in Record, NEW b \in Seq(Pending),
           NEW a, a = Saves(Attempted(r), "none", "plain")
    PROVE  /\ a \o b # <<>> /\ (a \o b)[1].rec.attempts = r.attempts + 1
           /\ a # <<>> /\ a[1].rec.attempts = r.attempts + 1
           /\ After(r, a) = Attempted(r)
  <1>1. PICK t \in Record : t = Attempted(r) /\ t.attempts = r.attempts + 1
    BY TriedChain
  <1>2. a \in Seq(Pending)
    BY TriedChain
  <1>3. Len(a) = 1 /\ a[1].rec = t
    BY <1>1, LengthOfOne
  <1>4. Len(a \o b) = 1 + Len(b) /\ (a \o b)[1] = a[1] /\ Len(b) \in Nat
    <2>1. \A n \in 1..Len(a) : (a \o b)[n] = a[n]
      BY <1>2, Joined
    <2>2. 1 \in 1..Len(a)
      BY <1>3
    <2> QED
      BY <1>2, <1>3, <2>1, <2>2, Joined, LenProperties
  <1>5. a \o b # <<>> /\ a # <<>>
    BY <1>3, <1>4, EmptySeq
  <1>6. After(r, a) = t
    BY <1>1, LastOfOne
  <1> QED
    BY <1>1, <1>3, <1>4, <1>5, <1>6

LEMMA ReturnSole ==
    ASSUME Sole, NEW i \in Instance, Return(Loop(i))
    PROVE  SoloInv' /\ \A d \in Admitted : Paid(d)
  <1>1. Busy(Loop(i)) /\ work[Loop(i)].pc = "await" /\ UNCHANGED <<storeVars, lifeVars>>
    BY DEF Return, Busy
  <1>2. PICK k \in Job : /\ k = work[Loop(i)] /\ k.rec \in Record /\ ~k.rec.request.async
                         /\ ~Streams(k.rec) /\ LoopFits(i, k, records[k.exec])
    BY <1>1, AtLoop
  <1>3. PICK r \in Record : r = k.rec
    BY <1>2
  <1>4. ~IsTerminal(r.status) /\ r.status # "waiting_retry" /\ r.attempts \in Nat
    BY <1>1, <1>2, <1>3 DEF LoopFits, Record
  <1>5. ASSUME NEW saves, NEW next \in {"dispatch", "done"}, saves # <<>>,
               saves[1].rec.attempts = r.attempts + 1,
               next = "dispatch" => After(r, saves).status # "waiting_retry",
               Proceed(Loop(i), r, saves, next)
        PROVE  SoloInv' /\ \A d \in Admitted : Paid(d)
    <2>1. PICK j : j = [k EXCEPT !.rec = r, !.todo = saves, !.pc = "save", !.next = next]
      OBVIOUS
    <2>2. /\ work' = [work EXCEPT ![Loop(i)] = j]
          /\ j # Idle /\ j.pc = "save" /\ j.exec = k.exec /\ j.rec = r /\ j.todo = saves
          /\ j.next = next /\ j.host = k.host /\ j.cut = k.cut
      <3>1. /\ j.exec = k.exec /\ j.rec = r /\ j.todo = saves /\ j.next = next
            /\ j.host = k.host /\ j.cut = k.cut /\ j.pc = "save"
        BY <2>1 DEF Job
      <3>2. work' = [work EXCEPT ![Loop(i)] = j]
        BY <1>2, <1>5, <2>1, Workers DEF Proceed, Sole, ServiceInv, JobsOK
      <3> QED
        BY <3>1, <3>2 DEF Idle
    <2>3. UNCHANGED scan
      BY <1>5 DEF Proceed
    <2>4. LoopFits(i, j, records[k.exec])
      BY <1>2, <1>3, <1>4, <1>5, <2>2 DEF LoopFits, Early
    <2>5. Tried(j.rec, j.todo)
      <3>1. r.attempts + 1 # r.attempts
        BY <1>4
      <3> QED
        BY <1>5, <2>2, <3>1 DEF Tried
    <2>6. Steady
      BY <1>1, <2>3, SteadyHere
    <2>7. j.pc \notin Early
      BY <2>2 DEF Early
    <2> QED
      BY <1>1, <1>2, <2>1, <2>2, <2>3, <2>4, <2>5, <2>6, <2>7, LoopGoesOn DEF Sole
  <1>6. Returned(k) = r
    BY <1>2, <1>3 DEF Returned
  <1>7. CASE \E sound \in BOOLEAN : ReturnSuccess(Loop(i), sound)
    <2>1. PICK sound \in BOOLEAN : ReturnSuccess(Loop(i), sound)
      BY <1>7
    <2>2. PICK b \in Record : /\ b = [r EXCEPT !.attempts = @ + 1] /\ b.status = r.status
                              /\ b.attempts = r.attempts + 1
      <3>1. PICK n \in Nat : n = r.attempts + 1
        BY <1>4
      <3>2. PICK b : b = [r EXCEPT !.attempts = n]
        OBVIOUS
      <3>3. b \in Record /\ b.status = r.status /\ b.attempts = n
        BY <3>2 DEF Record
      <3>4. [r EXCEPT !.attempts = @ + 1] = b
        BY <3>1, <3>2
      <3> QED
        BY <3>1, <3>3, <3>4
    <2>3. PICK closed : closed = IF b.cycled THEN Note(b, "retry.succeeded") ELSE <<>>
      OBVIOUS
    <2>4. Chain(b, closed) /\ After(b, closed) \in Record
      <3>1. CASE b.cycled
        <4>1. "retry.succeeded" \in EventType
              /\ "retry.succeeded" \notin LifecycleEvent \cup {"retry.scheduled"}
          BY DEF EventType, RetryEvent, LifecycleEvent
        <4> QED
          BY <2>3, <3>1, <4>1, NoteChain
      <3>2. CASE ~b.cycled
        BY <2>3, <3>2, ChainNone DEF After
      <3> QED
        BY <3>1, <3>2
    <2>5. PICK last : last = Succeed(After(b, closed), "succeeded")
      OBVIOUS
    <2>6. Chain(After(b, closed), last) /\ last # <<>>
      BY <2>4, <2>5, SucceedChain, SavesNothingNot DEF Succeed
    <2>7. CASE Proceed(Loop(i), r, closed \o last, "done")
      <3>1. closed \o last # <<>> /\ (closed \o last)[1].rec.attempts = r.attempts + 1
        <4>1. closed \o last # <<>> /\ (closed \o last)[1].rec.attempts = b.attempts
          BY <2>4, <2>6, ChainOfTwo
        <4> QED
          BY <2>2, <4>1
      <3> QED
        BY <1>5, <2>7, <3>1
    <2>8. CASE Proceed(Loop(i), r, Fail(b), "done")
      BY <1>4, <1>5, <2>2, <2>8, FailTried
    <2>9. Proceed(Loop(i), r, IF sound THEN closed \o last ELSE Fail(b), "done")
      BY <1>2, <1>6, <2>1, <2>2, <2>3, <2>5 DEF ReturnSuccess
    <2> QED
      BY <2>7, <2>8, <2>9
  <1>8. CASE ReturnFailure(Loop(i))
    <2>1. PICK t \in Record : t = Attempted(r) /\ t.status = r.status
      BY TriedChain
    <2>2. PICK first : first = Saves(t, "none", "plain")
      OBVIOUS
    <2>3. CASE Proceed(Loop(i), r, first, "dispatch")
      <3>1. <<>> \in Seq(Pending)
        BY EmptySeq
      <3> QED
        BY <1>4, <1>5, <2>1, <2>2, <2>3, <3>1, TriedFirst
    <2>4. CASE Proceed(Loop(i), r, first \o ScheduleRetry(t), "done")
      <3>1. ScheduleRetry(t) \in Seq(Pending)
        BY ScheduleChain DEF Chain
      <3> QED
        BY <1>5, <2>1, <2>2, <2>4, <3>1, TriedFirst
    <2>5. CASE Proceed(Loop(i), r, first \o Fail(t), "done")
      <3>1. Fail(t) \in Seq(Pending)
        BY FailChain DEF Chain
      <3> QED
        BY <1>5, <2>1, <2>2, <2>5, <3>1, TriedFirst
    <2> QED
      BY <1>2, <1>6, <1>8, <2>1, <2>2, <2>3, <2>4, <2>5 DEF ReturnFailure
  <1>9. work[Loop(i)].task = NoTask
    <2>1. Loop(i) \in Worker /\ work[Loop(i)].pc \in Starting
      BY <1>1, Workers DEF Starting
    <2> QED
      BY <1>1, <1>2, <2>1, NoTaskYet DEF Sole
  <1> QED
    BY <1>7, <1>8, <1>9 DEF Return

LEMMA GiveUpSole ==
    ASSUME Sole, NEW i \in Instance, GiveUp(Loop(i))
    PROVE  SoloInv' /\ \A d \in Admitted : Paid(d)
  <1>1. /\ Busy(Loop(i)) /\ work[Loop(i)].cut /\ UNCHANGED <<storeVars, lifeVars>>
        /\ End(Loop(i)) /\ (UNCHANGED scan \/ EndScan(Loop(i)))
    BY DEF GiveUp, Busy
  <1>2. PICK k \in Job, now \in Record :
            k = work[Loop(i)] /\ now = records[k.exec] /\ LoopFits(i, k, now)
    BY <1>1, AtLoop
  <1>3. Steady
    BY <1>1, ScanEnds, Workers DEF Steady, lifeVars, Sole
  <1>4. IsTerminal(now.status)
    BY <1>1, <1>2 DEF LoopFits
  <1> QED
    BY <1>1, <1>2, <1>3, <1>4, LoopLetsGo DEF End, Sole

\* What is about to be saved.
LEMMA AboutToSave ==
    ASSUME Sole, NEW w \in Worker, Busy(w), work[w].pc = "save"
    PROVE  \E k \in Job, x \in Pending, rest \in Seq(Pending), now \in Record :
              /\ k = work[w] /\ k.rec \in Record /\ k.todo # <<>> /\ k.todo \in Seq(Pending)
              /\ x = Head(k.todo) /\ rest = Tail(k.todo) /\ x.rec \in Record
              /\ k.exec \in Admitted /\ now = records[k.exec]
              /\ x.rec.rev = k.rec.rev + 1 /\ k.rec.rev \in Nat
              /\ x.rec.attempts \in {k.rec.attempts, k.rec.attempts + 1}
              /\ k.rec.attempts \in Nat /\ k.next # "save"
              /\ rest # <<>> => rest[1].rec.attempts = x.rec.attempts
              /\ After(x.rec, rest) = After(k.rec, k.todo)
              /\ x = k.todo[1] /\ x.rec.request = k.rec.request /\ x.ev \in EventType
              /\ \A n \in 1..Len(rest) : n + 1 \in 1..Len(k.todo) /\ rest[n] = k.todo[n + 1]
  <1>2. PICK k \in Job : /\ k = work[w] /\ Sound(k, upstream) /\ k.exec \in Execution
                         /\ k.rec \in Record /\ <<k.exec, k.rec>> \in HeldCopies
                         /\ records[k.exec] \in Record
    BY Hands DEF Sole
  <1>3. /\ k.todo # <<>> /\ Promise(k.task, k.rec, k.todo, k.next, upstream)
        /\ k.todo \in Seq(Pending) /\ k.next # "save"
    BY <1>2 DEF Sound, Job
  <1>4. PICK b \in Record : Adopts(k.rec, b) /\ Chain(b, k.todo)
    BY <1>3 DEF Promise
  <1>5. PICK x, rest : x = Head(k.todo) /\ rest = Tail(k.todo)
    OBVIOUS
  <1>6. x \in Pending /\ StepOK(b, x.rec, x.ev) /\ Chain(x.rec, rest)
    BY <1>3, <1>4, <1>5, ChainHead
  <1>7. PICK L \in Nat : L = Len(k.todo) /\ L # 0
    BY <1>3, LenProperties, EmptySeq
  <1>8. x = k.todo[1] /\ Len(rest) = L - 1 /\ \A n \in 1..L - 1 : rest[n] = k.todo[n + 1]
    BY <1>3, <1>5, <1>7, HeadTailProperties
  <1>9. \A n \in 1..L - 1 : n + 1 \in 1..L
    BY <1>7
  <1>10. After(x.rec, rest) = After(k.rec, k.todo)
    BY <1>3, <1>5, AfterTail
  <1>11. k.exec \in Admitted
    BY <1>2 DEF Sole, ServiceInv, Versions
  <1>12. rest # <<>> => rest[1].rec.attempts = x.rec.attempts
    BY <1>6, ChainTried
  <1>13. /\ x.rec.rev = k.rec.rev + 1 /\ k.rec.rev \in Nat /\ x.rec \in Record
         /\ x.rec.attempts \in {k.rec.attempts, k.rec.attempts + 1} /\ k.rec.attempts \in Nat
         /\ x.rec.request = k.rec.request /\ x.ev \in EventType
    BY <1>2, <1>4, <1>6 DEF StepOK, Adopts, Record
  <1>14. rest \in Seq(Pending)
    BY <1>6 DEF Chain
  <1>15. PICK now \in Record : now = records[k.exec]
    BY <1>2
  <1> QED
    BY <1>2, <1>3, <1>5, <1>6, <1>7, <1>8, <1>9, <1>10, <1>11, <1>12, <1>13, <1>14, <1>15

\* A conflict is found by a copy that lags behind.
LEMMA ConflictLags ==
    ASSUME NEW e, NEW r, NEW s, NEW ev, s.rev = r.rev + 1, SaveResult(e, s, ev) = "conflict"
    PROVE  r # records[e]
  BY DEF SaveResult

LEMMA AccountsKept ==
    ASSUME ServiceInv, Accounted, UNCHANGED <<storeVars, calls>>,
           deaths' \in Nat, exits' \in Nat, deaths' + exits' >= deaths + exits,
           \A d \in Admitted : Paid(d)
    PROVE  Accounted'
  BY GrowsSame, Counted

LEMMA AccountsStay ==
    ASSUME ServiceInv, Accounted, UNCHANGED <<storeVars, calls, deaths, exits>>,
           \A d \in Admitted : Paid(d)
    PROVE  Accounted'
  <1>1. PICK d \in Nat, x \in Nat : d = deaths /\ x = exits /\ d + x >= d + x
    BY DEF ServiceInv, EnvOK
  <1>2. deaths' \in Nat /\ exits' \in Nat /\ deaths' + exits' >= deaths + exits
    BY <1>1
  <1> QED
    BY <1>2, AccountsKept

LEMMA AccountsSaved ==
    ASSUME ServiceInv, Accounted, NEW e \in Admitted, NEW s \in Record, NEW ev, Write(e, s, ev),
           s.attempts >= records[e].attempts, UNCHANGED <<calls, deaths, exits>>,
           \A d \in Admitted : Paid(d)
    PROVE  Accounted'
  <1>1. e \in Execution /\ records[e] \in Record
    BY AdmittedRecords DEF ServiceInv
  <1>2. records'[e] = s /\ \A d \in Execution : d # e => records'[d] = records[d]
    BY <1>1 DEF Write, ServiceInv, StoreTypeOK
  <1>3. s # Absent
    BY AbsentIsNoRecord
  <1>4. Admitted' = Admitted
    BY <1>1, <1>2, <1>3 DEF Admitted
  <1>5. PICK d \in Nat, x \in Nat : d = deaths /\ x = exits /\ d + x >= d + x
    BY DEF ServiceInv, EnvOK
  <1>6. deaths' \in Nat /\ exits' \in Nat /\ deaths' + exits' >= deaths + exits
    BY <1>5
  <1>7. ASSUME NEW f \in Admitted PROVE Grows(f)
    <2>1. PICK n \in Nat : n = records[f].attempts /\ n >= n
      <3>1. records[f] \in Record
        BY AdmittedRecords DEF ServiceInv
      <3> QED
        BY <3>1 DEF Record
    <2>2. CASE f = e
      <3>1. s.attempts \in Nat
        BY DEF Record
      <3> QED
        BY <1>2, <1>6, <2>2, <3>1 DEF Grows
    <2>3. CASE f # e
      <3>1. records'[f].attempts = n
        BY <1>2, <2>1, <2>3 DEF Admitted
      <3> QED
        BY <1>6, <2>1, <3>1 DEF Grows
    <2> QED
      BY <2>2, <2>3
  <1> QED
    BY <1>4, <1>7, Counted

\* Who saves has the current version.
LEMMA WriterHasTheRecord ==
    ASSUME ServiceInv, NEW w \in Worker, Busy(w), NEW s, NEW ev,
           s.rev = work[w].rec.rev + 1, Write(work[w].exec, s, ev)
    PROVE  work[w].rec = records[work[w].exec]
  <1>1. PICK c \in HeldCopies : c = <<work[w].exec, work[w].rec>>
    BY BusyWorker DEF HeldBy, ServiceInv
  <1>2. c[1] = work[w].exec /\ c[2] = work[w].rec
    BY <1>1
  <1>3. c[1] \in Admitted /\ (c[2].rev = records[c[1]].rev => c[2] = records[c[1]])
    BY DEF ServiceInv, Versions
  <1>4. records[c[1]].rev \in Nat /\ c[2].rev \in Nat
    BY <1>2, <1>3, BusyWorker, AdmittedRecords DEF ServiceInv, Record
  <1>5. s.rev = records[c[1]].rev + 1
    BY <1>2 DEF Write, SaveResult
  <1> QED
    BY <1>2, <1>3, <1>4, <1>5

LEMMA SaveLoopSole ==
    ASSUME Sole, Accounted, NEW i \in Instance, Save(Loop(i))
    PROVE  SoloInv' /\ Accounted'
  <1>1. /\ Busy(Loop(i)) /\ work[Loop(i)].pc = "save" /\ UNCHANGED calls
        /\ Loop(i) \in Worker /\ IsLoop(Loop(i)) /\ Loop(i)[2] = i
    BY Workers DEF Save, Busy, envVars
  <1>2. PICK k \in Job, x \in Pending, rest \in Seq(Pending), now \in Record :
              /\ k = work[Loop(i)] /\ k.rec \in Record /\ k.todo # <<>> /\ k.todo \in Seq(Pending)
              /\ x = Head(k.todo) /\ rest = Tail(k.todo) /\ x.rec \in Record
              /\ k.exec \in Admitted /\ now = records[k.exec]
              /\ x.rec.rev = k.rec.rev + 1 /\ k.rec.rev \in Nat
              /\ x.rec.attempts \in {k.rec.attempts, k.rec.attempts + 1}
              /\ k.rec.attempts \in Nat /\ k.next # "save"
              /\ rest # <<>> => rest[1].rec.attempts = x.rec.attempts
              /\ After(x.rec, rest) = After(k.rec, k.todo)
              /\ x = k.todo[1] /\ x.rec.request = k.rec.request /\ x.ev \in EventType
              /\ \A n \in 1..Len(rest) : n + 1 \in 1..Len(k.todo) /\ rest[n] = k.todo[n + 1]
    BY <1>1, AboutToSave
  <1>3. LoopFits(i, k, now) /\ ~Streams(k.rec) /\ ~Streams(now)
    <2>1. LoopFits(i, k, now) /\ ~Streams(k.rec)
      BY <1>1, <1>2, AtLoop
    <2>2. now.request = k.rec.request
      BY <1>1, <1>2, HandVersions DEF Sole
    <2> QED
      BY <2>1, <2>2 DEF Streams
  <1>4. PICK s \in Record : s = x.rec
    BY <1>2
  <1>5. CASE /\ Write(k.exec, s, x.ev) /\ Proceed(Loop(i), s, rest, k.next)
             /\ UNCHANGED lifeVars
    <2>1. k.rec = now
      BY <1>1, <1>2, <1>4, <1>5, WriterHasTheRecord DEF Sole
    <2>2. PICK p \in RetryPhase : p = feed[k.exec].retry
      BY <1>2 DEF Sole, ServiceInv, StoreTypeOK, Feed, Admitted
    <2>3. Course(p, k.rec, k.todo, k.next)
      BY <1>1, <1>2, <1>3, <2>1, <2>2 DEF Sole, RetriesInv, CoursesOK, OnCourse
    <2>4. ~IsTerminal(now.status)
      BY <1>2, <2>1, <2>2, <2>3, CourseTail DEF Follows
    <2>5. ~k.cut
      BY <1>3, <2>4 DEF LoopFits
    <2>6. k.next \in Early => ~IsTerminal(After(s, rest).status)
      BY <1>2, <1>4, <2>3 DEF Course, Early
    <2>7. UNCHANGED scan
      BY <1>5 DEF Proceed
    <2>8. Steady
      BY <1>5, <2>7, SteadyHere
    <2>9. /\ s.attempts >= k.rec.attempts
          /\ Tried(k.rec, k.todo) => s.attempts > k.rec.attempts
      <3>1. PICK n \in Nat : n = k.rec.attempts
        BY <1>2
      <3>2. s.attempts = n \/ s.attempts = n + 1
        BY <1>2, <1>4, <3>1
      <3>3. Tried(k.rec, k.todo) => s.attempts # n
        BY <1>2, <1>4, <3>1 DEF Tried
      <3> QED
        BY <3>1, <3>2, <3>3
    <2>10. PICK j : /\ work' = [work EXCEPT ![Loop(i)] = j]
                    /\ j = Idle \/ (j.exec = k.exec /\ LoopFits(i, j, s))
      <3>1. CASE rest = <<>> /\ k.next = "done"
        BY <1>5, <3>1 DEF Proceed, End
      <3>2. CASE ~(rest = <<>> /\ k.next = "done")
        <4>1. PICK pc : pc = IF rest = <<>> THEN k.next ELSE "save"
          OBVIOUS
        <4>2. PICK j : j = [k EXCEPT !.rec = s, !.todo = rest, !.pc = pc, !.next = k.next]
          OBVIOUS
        <4>3. work' = [work EXCEPT ![Loop(i)] = j]
          BY <1>1, <1>2, <1>5, <3>2, <4>1, <4>2 DEF Proceed, Sole, ServiceInv, JobsOK
        <4>4. /\ j.exec = k.exec /\ j.rec = s /\ j.todo = rest /\ j.next = k.next
              /\ j.host = k.host /\ j.cut = k.cut /\ j.pc = pc
          BY <4>2 DEF Job
        <4>5. rest = <<>> => After(s, rest) = s
          BY DEF After
        <4>6. rest # <<>> => ~Tried(s, rest)
          BY <1>2, <1>4 DEF Tried
        <4>7. /\ k.next \in Early \cup {"done"}
              /\ k.next \in {"materialize", "dispatch"} =>
                    After(s, rest).status # "waiting_retry"
          BY <1>1, <1>2, <1>3, <1>4 DEF LoopFits
        <4>8. LoopFits(i, j, s)
          BY <1>3, <2>5, <2>6, <3>2, <4>1, <4>4, <4>5, <4>6, <4>7 DEF LoopFits, Lags, Early
        <4> QED
          BY <4>3, <4>4, <4>8
      <3> QED
        BY <3>1, <3>2
    <2>11. SoloInv' /\ \A d \in Admitted : Paid(d)
      <3>1. /\ ServiceInv /\ SoloInv /\ Busy(Loop(i)) /\ k = work[Loop(i)] /\ k.pc = "save"
            /\ k.exec \in Admitted /\ Write(k.exec, s, x.ev)
            /\ k.rec = records[k.exec] /\ ~IsTerminal(k.rec.status)
        BY <1>1, <1>2, <1>5, <2>1, <2>4 DEF Sole
      <3> QED
        BY <2>7, <2>8, <2>9, <2>10, <3>1, LoopWrites
    <2> QED
      BY <1>1, <1>2, <1>5, <2>1, <2>9, <2>11, AccountsSaved DEF Sole, lifeVars
  <1>6. CASE /\ SaveResult(k.exec, s, x.ev) = "conflict"
             /\ End(Loop(i)) /\ UNCHANGED <<storeVars, scan, lifeVars>>
    <2>1. k.rec # now
      BY <1>2, <1>4, <1>6, ConflictLags
    <2>2. IsTerminal(now.status) \/ ~Aloft(i, k.exec)
      BY <1>1, <1>2, <1>3, <2>1 DEF LoopFits, Lags, Aloft
    <2>3. Steady
      BY <1>6, SteadyHere
    <2>4. SoloInv' /\ \A d \in Admitted : Paid(d)
      BY <1>1, <1>2, <1>6, <2>2, <2>3, LoopLetsGo DEF Sole, End
    <2> QED
      BY <1>1, <1>6, <2>4, AccountsStay DEF Sole, lifeVars
  <1>7. CASE /\ k.cut /\ End(Loop(i)) /\ EndScan(Loop(i)) /\ UNCHANGED <<storeVars, lifeVars>>
    <2>1. IsTerminal(now.status)
      BY <1>3, <1>7 DEF LoopFits
    <2>2. Steady
      BY <1>1, <1>7, ScanEnds DEF Steady, lifeVars, Sole
    <2>3. SoloInv' /\ \A d \in Admitted : Paid(d)
      BY <1>1, <1>2, <1>7, <2>1, <2>2, LoopLetsGo DEF Sole, End
    <2> QED
      BY <1>1, <1>7, <2>3, AccountsStay DEF Sole, lifeVars
  <1>8. CASE Abort(Loop(i)) /\ UNCHANGED storeVars
    <2>1. Stop(i) /\ exits' = exits + 1 /\ UNCHANGED <<deaths, pauses, scenario>>
      BY <1>1, <1>8 DEF Abort
    <2>2. deaths' \in Nat /\ exits' \in Nat /\ deaths' + exits' > deaths + exits
          /\ deaths' + exits' >= deaths + exits
      BY <2>1 DEF Sole, ServiceInv, EnvOK
    <2>3. SoloInv' /\ \A d \in Admitted : Paid(d)
      BY <1>8, <2>1, <2>2, LoopDies DEF Sole
    <2> QED
      BY <1>1, <1>8, <2>2, <2>3, AccountsKept DEF Sole
  <1> QED
    BY <1>2, <1>4, <1>5, <1>6, <1>7, <1>8 DEF Save

LEMMA CancelsTail ==
    ASSUME NEW r, NEW saves \in Seq(Pending), NEW next, NEW s, NEW rest \in Seq(Pending),
           Cancels(r, saves, next), saves[1].rec = s,
           \A n \in 1..Len(rest) : n + 1 \in 1..Len(saves) /\ rest[n] = saves[n + 1]
    PROVE  Cancels(s, rest, next)
  <1>1. Len(rest) \in Nat
    BY LenProperties
  <1>2. ASSUME NEW n \in 1..Len(rest)
        PROVE  /\ rest[n].rec.status = saves[n + 1].rec.status
               /\ Prior(s, rest, n) = Prior(r, saves, n + 1)
    <2>1. n \in Nat /\ n # 0 /\ n + 1 # 1 /\ n + 1 - 1 = n
      BY <1>1
    <2>2. CASE n = 1
      BY <2>1, <2>2 DEF Prior
    <2>3. CASE n # 1
      <3>1. PICK m \in 1..Len(rest) : m = n - 1 /\ m + 1 = n
        BY <1>1, <2>1, <2>3
      <3>2. rest[m] = saves[n]
        BY <3>1
      <3>3. Prior(s, rest, n) = rest[m].rec
        BY <2>3, <3>1 DEF Prior
      <3>4. Prior(r, saves, n + 1) = saves[n].rec
        BY <2>1 DEF Prior
      <3> QED
        BY <3>2, <3>3, <3>4
    <2> QED
      BY <2>2, <2>3
  <1>3. ASSUME NEW n \in 1..Len(rest)
        PROVE  \/ rest[n].rec.status = "cancelled"
               \/ next = "done" /\ Prior(s, rest, n).status = "waiting_retry"
    <2>1. PICK m \in 1..Len(saves) : m = n + 1
      OBVIOUS
    <2>2. \/ saves[m].rec.status = "cancelled"
          \/ next = "done" /\ Prior(r, saves, m).status = "waiting_retry"
      BY DEF Cancels
    <2> QED
      BY <1>2, <2>1, <2>2
  <1> QED
    BY <1>3 DEF Cancels

LEMMA SaveCancellerSole ==
    ASSUME Sole, Accounted, NEW c \in Execution, Save(Canceller(c))
    PROVE  SoloInv' /\ Accounted'
  <1>1. PICK w \in Worker : w = Canceller(c) /\ ~IsLoop(w)
    BY Workers DEF IsCanceller, IsLoop, Loop, Canceller
  <1>2. Busy(w) /\ work[w].pc = "save" /\ UNCHANGED calls
    BY <1>1 DEF Save, Busy, envVars
  <1>3. PICK k \in Job, x \in Pending, rest \in Seq(Pending), now \in Record :
              /\ k = work[w] /\ k.rec \in Record /\ k.todo # <<>> /\ k.todo \in Seq(Pending)
              /\ x = Head(k.todo) /\ rest = Tail(k.todo) /\ x.rec \in Record
              /\ k.exec \in Admitted /\ now = records[k.exec]
              /\ x.rec.rev = k.rec.rev + 1 /\ k.rec.rev \in Nat
              /\ x.rec.attempts \in {k.rec.attempts, k.rec.attempts + 1}
              /\ k.rec.attempts \in Nat /\ k.next # "save"
              /\ rest # <<>> => rest[1].rec.attempts = x.rec.attempts
              /\ After(x.rec, rest) = After(k.rec, k.todo)
              /\ x = k.todo[1] /\ x.rec.request = k.rec.request /\ x.ev \in EventType
              /\ \A n \in 1..Len(rest) : n + 1 \in 1..Len(k.todo) /\ rest[n] = k.todo[n + 1]
    BY <1>2, AboutToSave
  <1>4. PICK s \in Record : s = x.rec
    BY <1>3
  <1>5. CancellerFits(k, now)
    BY <1>1, <1>2, <1>3 DEF Sole, SoloInv, CancellersFit
  <1>6. Cancels(k.rec, k.todo, k.next)
    BY <1>2, <1>3, <1>5 DEF CancellerFits
  <1>7. CASE /\ Write(k.exec, s, x.ev) /\ Proceed(w, s, rest, k.next) /\ UNCHANGED lifeVars
    <2>1. k.rec = now
      BY <1>2, <1>3, <1>4, <1>7, WriterHasTheRecord DEF Sole
    <2>2. IsTerminal(now.status) => IsTerminal(s.status)
      <3>1. s.status = now.status \/ LegalTransition(now.status, s.status)
        BY <1>3, <1>7 DEF Write, SaveResult
      <3> QED
        BY <3>1, EndsStay
    <2>3. s.status = "cancelled" \/ (k.next = "done" /\ now.status = "waiting_retry")
      <3>1. PICK L \in Nat : L = Len(k.todo) /\ L # 0
        BY <1>3, LenProperties, EmptySeq
      <3>2. 1 \in 1..Len(k.todo)
        BY <3>1
      <3>3. Prior(k.rec, k.todo, 1) = k.rec
        BY DEF Prior
      <3> QED
        BY <1>3, <1>4, <1>6, <2>1, <3>2, <3>3 DEF Cancels
    <2>4. UNCHANGED scan
      BY <1>7 DEF Proceed
    <2>5. Steady
      BY <1>7, <2>4, SteadyHere
    <2>6. PICK j : /\ work' = [work EXCEPT ![w] = j]
                   /\ j = Idle \/ (j.exec = k.exec /\ CancellerFits(j, s))
      <3>1. CASE rest = <<>> /\ k.next = "done"
        BY <1>7, <3>1 DEF Proceed, End
      <3>2. CASE ~(rest = <<>> /\ k.next = "done")
        <4>1. PICK pc : pc = IF rest = <<>> THEN k.next ELSE "save"
          OBVIOUS
        <4>2. PICK j : j = [k EXCEPT !.rec = s, !.todo = rest, !.pc = pc, !.next = k.next]
          OBVIOUS
        <4>3. work' = [work EXCEPT ![w] = j]
          BY <1>3, <1>7, <3>2, <4>1, <4>2 DEF Proceed, Sole, ServiceInv, JobsOK
        <4>4. j.exec = k.exec /\ j.rec = s /\ j.todo = rest /\ j.next = k.next /\ j.pc = pc
          BY <4>2 DEF Job
        <4>5. Cancels(s, rest, k.next)
          BY <1>3, <1>4, <1>6, CancelsTail
        <4>6. k.next # "done" => k.next = "cut" /\ IsTerminal(s.status)
          BY <1>6, <2>3 DEF Cancels, IsTerminal, TerminalStatus
        <4>7. CancellerFits(j, s)
          BY <3>2, <4>1, <4>4, <4>5, <4>6 DEF CancellerFits
        <4> QED
          BY <4>3, <4>4, <4>7
      <3> QED
        BY <3>1, <3>2
    <2>7. SoloInv' /\ \A d \in Admitted : Paid(d)
      <3>1. /\ ServiceInv /\ SoloInv /\ Busy(Canceller(c)) /\ k = work[Canceller(c)]
            /\ k.exec \in Admitted /\ Write(k.exec, s, x.ev) /\ now = records[k.exec]
        BY <1>1, <1>2, <1>3, <1>7 DEF Sole
      <3> QED
        BY <1>1, <2>2, <2>3, <2>4, <2>5, <2>6, <3>1, CancellerWrites
    <2>8. s.attempts >= records[k.exec].attempts
      <3>1. PICK n \in Nat : n = k.rec.attempts
        BY <1>3
      <3>2. s.attempts = n \/ s.attempts = n + 1
        BY <1>3, <1>4, <3>1
      <3> QED
        BY <1>3, <2>1, <3>1, <3>2
    <2> QED
      BY <1>2, <1>3, <1>7, <2>7, <2>8, AccountsSaved DEF Sole, lifeVars
  <1>8. CASE End(w) /\ UNCHANGED <<storeVars, scan, lifeVars>>
    <2>1. work' = [work EXCEPT ![Canceller(c)] = Idle] /\ Steady
      BY <1>1, <1>8, SteadyHere DEF End
    <2>2. SoloInv' /\ \A d \in Admitted : Paid(d)
      BY <1>8, <2>1, CancellerTurns DEF Sole
    <2> QED
      BY <1>2, <1>8, <2>2, AccountsStay DEF Sole, lifeVars
  <1>9. \/ Write(k.exec, s, x.ev) /\ Proceed(w, s, rest, k.next) /\ UNCHANGED lifeVars
        \/ End(w) /\ UNCHANGED <<storeVars, scan, lifeVars>>
    BY <1>1, <1>3, <1>4 DEF Save, Abort, EndScan
  <1> QED
    BY <1>7, <1>8, <1>9

\* The cancel function of a run is called once the record says cancelled.
LEMMA CutSole ==
    ASSUME Sole, Accounted, NEW c \in Execution, Cut(Canceller(c))
    PROVE  SoloInv' /\ Accounted'
  <1>1. PICK w \in Worker : w = Canceller(c)
    BY Workers
  <1>2. Busy(w) /\ work[w].pc = "cut" /\ UNCHANGED <<storeVars, scan, calls, lifeVars>>
    BY <1>1 DEF Cut, Busy, envVars
  <1>3. PICK k \in Job : k = work[w]
    BY <1>2, BusyWorker DEF Sole, ServiceInv
  <1>4. IsTerminal(records[k.exec].status)
    BY <1>1, <1>2, <1>3 DEF Sole, SoloInv, CancellersFit, CancellerFits
  <1>5. ASSUME NEW v \in Worker
        PROVE  \/ v = w /\ work'[v] = Idle
               \/ work'[v] = work[v]
               \/ work'[v] = [work[v] EXCEPT !.cut = TRUE] /\ work[v].exec = k.exec /\ Busy(v)
    BY <1>1, <1>3 DEF Cut
  <1>6. ASSUME NEW v \in Worker, v # w
        PROVE  /\ Busy(v)' <=> Busy(v)
               /\ Busy(v) => /\ work'[v].exec = work[v].exec /\ work'[v].pc = work[v].pc
                             /\ work'[v].rec = work[v].rec /\ work'[v].todo = work[v].todo
                             /\ work'[v].next = work[v].next /\ work'[v].host = work[v].host
                             /\ work'[v].cut => \/ work[v].cut
                                                \/ work[v].exec = k.exec
    <2>1. CASE work'[v] = work[v]
      BY <2>1 DEF Busy
    <2>2. CASE work'[v] = [work[v] EXCEPT !.cut = TRUE] /\ work[v].exec = k.exec /\ Busy(v)
      <3>1. PICK j \in Job : j = work[v]
        BY <2>2, BusyWorker DEF Sole, ServiceInv
      <3>2. PICK h : h = [j EXCEPT !.cut = TRUE]
        OBVIOUS
      <3>3. /\ h.exec = j.exec /\ h.pc = j.pc /\ h.rec = j.rec /\ h.todo = j.todo
            /\ h.next = j.next /\ h.host = j.host
        BY <3>2 DEF Job
      <3> QED
        BY <2>2, <3>1, <3>2, <3>3 DEF Busy
    <2> QED
      BY <1>5, <1>6, <2>1, <2>2
  <1>7. records' = records
    BY <1>2 DEF storeVars
  <1>8. OneIsUp'
    <2>1. \A e \in Execution : ~Busy(Direct(e))'
      <3>1. ASSUME NEW e \in Execution PROVE ~Busy(Direct(e))'
        <4>1. Direct(e) \in Worker /\ Direct(e) # w
          BY <1>1, Workers
        <4> QED
          BY <1>6, <4>1 DEF Sole, SoloInv, OneIsUp
      <3> QED
        BY <3>1
    <2> QED
      BY <1>2, <2>1 DEF Sole, SoloInv, OneIsUp, lifeVars
  <1>9. ASSUME NEW h \in Instance
        PROVE  Loop(h) \in Worker /\ Loop(h) # w
    BY <1>1, Workers
  <1>10. LoopsFit'
    <2>1. ASSUME NEW h \in Instance, Busy(Loop(h))'
          PROVE  /\ h \in up'
                 /\ LoopFits(h, work'[Loop(h)], records'[work'[Loop(h)].exec])
                 /\ \A d \in scan'[h] : d[1] # work'[Loop(h)].exec
      <3>1. PICK j, m : j = work[Loop(h)] /\ m = work'[Loop(h)]
        OBVIOUS
      <3>2. /\ Busy(Loop(h))
            /\ m.exec = j.exec /\ m.pc = j.pc /\ m.rec = j.rec /\ m.todo = j.todo
            /\ m.next = j.next /\ m.host = j.host
            /\ m.cut => j.cut \/ j.exec = k.exec
        BY <1>6, <1>9, <2>1, <3>1
      <3>3. /\ h \in up /\ LoopFits(h, j, records[j.exec])
            /\ \A d \in scan[h] : d[1] # j.exec
        BY <3>1, <3>2 DEF Sole, SoloInv, LoopsFit
      <3>4. LoopFits(h, m, records[j.exec])
        BY <1>4, <3>2, <3>3 DEF LoopFits
      <3> QED
        BY <1>2, <1>7, <3>1, <3>2, <3>3, <3>4 DEF lifeVars
    <2> QED
      BY <2>1 DEF LoopsFit
  <1>11. ScansFit'
    BY <1>2, <1>7 DEF Sole, SoloInv, ScansFit, lifeVars
  <1>12. CancellersFit'
    <2>1. ASSUME NEW d \in Execution, Busy(Canceller(d))'
          PROVE  CancellerFits(work'[Canceller(d)], records'[work'[Canceller(d)].exec])
      <3>1. PICK v \in Worker : v = Canceller(d)
        BY Workers
      <3>2. v # w
        BY <1>1, <2>1, <3>1 DEF Cut, Busy, Idle
      <3>3. PICK j, m : j = work[v] /\ m = work'[v]
        OBVIOUS
      <3>4. /\ Busy(v) /\ m.exec = j.exec /\ m.pc = j.pc /\ m.rec = j.rec
            /\ m.todo = j.todo /\ m.next = j.next
        BY <1>6, <2>1, <3>1, <3>2, <3>3
      <3>5. CancellerFits(j, records[j.exec])
        BY <3>1, <3>3, <3>4 DEF Sole, SoloInv, CancellersFit
      <3>6. CancellerFits(m, records[j.exec])
        BY <3>4, <3>5 DEF CancellerFits
      <3> QED
        BY <1>7, <3>1, <3>3, <3>4, <3>6
    <2> QED
      BY <2>1 DEF CancellersFit
  <1>13. ASSUME NEW d \in Admitted PROVE Paid(d)
    <2>1. \A h \in Instance :
              /\ Busy(Loop(h))' <=> Busy(Loop(h))
              /\ Busy(Loop(h)) => /\ work'[Loop(h)].exec = work[Loop(h)].exec
                                  /\ work'[Loop(h)].pc = work[Loop(h)].pc
                                  /\ work'[Loop(h)].rec = work[Loop(h)].rec
                                  /\ work'[Loop(h)].todo = work[Loop(h)].todo
      BY <1>6, <1>9
    <2> QED
      BY <1>2, <1>7, <2>1, LoopsAlike
  <1>14. Accounted'
    BY <1>2, <1>13, AccountsStay DEF Sole, lifeVars
  <1> QED
    BY <1>8, <1>10, <1>11, <1>12, <1>14 DEF SoloInv

\* Steps of nobody at work.
LEMMA NobodyMoves ==
    ASSUME Sole, Accounted, UNCHANGED <<storeVars, work, scan, calls>>,
           UNCHANGED <<up, deaths, exits, pauses, scenario>>
    PROVE  SoloInv' /\ Accounted'
  <1>1. records' = records
    BY DEF storeVars
  <1>2. SoloInv'
    BY <1>1 DEF Sole, SoloInv, OneIsUp, LoopsFit, ScansFit, CancellersFit, Busy
  <1>3. ASSUME NEW d \in Admitted PROVE Paid(d)
    BY <1>1, LoopsAlike DEF Busy
  <1> QED
    BY <1>2, <1>3, AccountsStay DEF Sole

LEMMA RestartSole ==
    ASSUME Sole, Accounted, NEW i \in Instance, Restart(i)
    PROVE  SoloInv' /\ Accounted'
  <1>1. /\ UNCHANGED <<storeVars, work, scan, calls, deaths, exits, pauses, scenario>>
        /\ i \in scenario.instances /\ up' = up \cup {i}
    BY DEF Restart, procVars, envVars
  <1>2. records' = records
    BY <1>1 DEF storeVars
  <1>3. OneIsUp'
    BY <1>1 DEF Sole, SoloInv, OneIsUp, Busy
  <1>4. LoopsFit' /\ ScansFit' /\ CancellersFit'
    BY <1>1, <1>2 DEF Sole, SoloInv, LoopsFit, ScansFit, CancellersFit, Busy
  <1>5. ASSUME NEW d \in Admitted PROVE Paid(d)
    BY <1>1, <1>2, LoopsAlike DEF Busy
  <1> QED
    BY <1>1, <1>3, <1>4, <1>5, AccountsStay DEF Sole, SoloInv

LEMMA CrashSole ==
    ASSUME Sole, Accounted, NEW i \in Instance, Crash(i)
    PROVE  SoloInv' /\ Accounted'
  <1>1. /\ Stop(i) /\ deaths' = deaths + 1
        /\ UNCHANGED <<storeVars, calls, exits, pauses, scenario>>
    BY DEF Crash, envVars
  <1>2. deaths' \in Nat /\ exits' \in Nat /\ deaths' + exits' > deaths + exits
        /\ deaths' + exits' >= deaths + exits
    BY <1>1 DEF Sole, ServiceInv, EnvOK
  <1>3. SoloInv' /\ \A d \in Admitted : Paid(d)
    BY <1>1, <1>2, LoopDies DEF Sole
  <1> QED
    BY <1>1, <1>2, <1>3, AccountsKept DEF Sole

LEMMA LeaseExpiresSole ==
    ASSUME Sole, Accounted, NEW e \in Execution, LeaseExpires(e)
    PROVE  SoloInv' /\ Accounted'
  <1>1. scenario.pauses = 0 /\ pauses = 0
    BY DEF Sole, SoleProcess, SoloInv, OneIsUp, ServiceInv, EnvOK
  <1>2. ~(pauses < scenario.pauses)
    BY <1>1
  <1>3. /\ UNCHANGED <<storeVars, work, scan, calls>>
        /\ UNCHANGED <<up, deaths, exits, pauses, scenario>>
    BY <1>2 DEF LeaseExpires, envVars
  <1> QED
    BY <1>3, NobodyMoves

\* The lease of whoever drives an execution is its own.
LEMMA NoHeartbeatIsLost ==
    ASSUME Sole, NEW w \in Worker PROVE ~HeartbeatLost(w)
  <1>1. pauses = 0
    BY DEF Sole, SoloInv, OneIsUp
  <1> QED
    BY <1>1 DEF Sole, ServiceInv, LeaseOK, Owns, Driving, HeartbeatLost

LEMMA CreateSole ==
    ASSUME Sole, Accounted, NEW i \in Instance, NEW e \in Execution, NEW q \in Requests,
           Create(i, e, q)
    PROVE  SoloInv' /\ Accounted'
  <1>1. PICK s \in Record : s = NewRecord(q)
    BY NewRecordType
  <1>2. /\ e \notin Admitted
        /\ records' = [records EXCEPT ![e] = s]
        /\ UNCHANGED <<scan, calls, lifeVars>>
    BY <1>1 DEF Create, Insert, envVars
  <1>3. records'[e] = s /\ \A d \in Execution : d # e => records'[d] = records[d]
    BY <1>2 DEF Sole, ServiceInv, StoreTypeOK
  <1>4. q.deferred
    BY DEF Create, Sole, SoleProcess, ServiceInv, EnvOK
  <1>5. work' = work
    BY <1>4 DEF Create
  <1>6. s.attempts = 0
    BY <1>1 DEF NewRecord
  <1>7. ASSUME NEW v \in Worker, Busy(v)
        PROVE  records'[work[v].exec] = records[work[v].exec]
    <2>1. PICK c \in HeldCopies : c = <<work[v].exec, work[v].rec>>
      BY <1>7, BusyWorker DEF HeldBy, Sole, ServiceInv
    <2>2. c[1] \in Admitted /\ c[1] = work[v].exec
      BY <2>1 DEF Sole, ServiceInv, Versions
    <2> QED
      BY <1>2, <1>3, <2>2 DEF Admitted
  <1>8. ASSUME NEW h \in Instance, NEW c \in scan[h]
        PROVE  records'[c[1]] = records[c[1]]
    <2>1. c \in HeldCopies
      BY DEF HeldCopies
    <2>2. c[1] \in Admitted
      BY <2>1 DEF Sole, ServiceInv, Versions
    <2> QED
      BY <1>2, <1>3, <2>2 DEF Admitted
  <1>9. OneIsUp'
    BY <1>2, <1>5 DEF Sole, SoloInv, OneIsUp, Busy, lifeVars
  <1>10. LoopsFit'
    BY <1>2, <1>5, <1>7, Workers DEF Sole, SoloInv, LoopsFit, Busy, lifeVars
  <1>11. ScansFit'
    BY <1>2, <1>8 DEF Sole, SoloInv, ScansFit, lifeVars
  <1>12. CancellersFit'
    BY <1>5, <1>7, Workers DEF Sole, SoloInv, CancellersFit, Busy
  <1>13. Admitted' = Admitted \cup {e}
    <2>1. s # Absent
      BY AbsentIsNoRecord
    <2> QED
      BY <1>3, <2>1 DEF Admitted
  <1>14. PICK d \in Nat, x \in Nat : d = deaths /\ x = exits /\ d + x >= d + x
    BY DEF Sole, ServiceInv, EnvOK
  <1>15. deaths' = d /\ exits' = x
    BY <1>2, <1>14 DEF lifeVars
  <1>16. ASSUME NEW f \in Admitted PROVE Owed(f)'
    <2>1. f \in Execution /\ f # e /\ records'[f] = records[f]
      BY <1>2, <1>3 DEF Admitted
    <2>2. Paid(f)
      BY <1>2, <1>5, <2>1, LoopsAlike DEF Busy
    <2>3. PICK n \in Nat : n = records[f].attempts /\ n >= n
      <3>1. records[f] \in Record
        BY AdmittedRecords DEF Sole, ServiceInv
      <3> QED
        BY <3>1 DEF Record
    <2>4. Grows(f)
      BY <1>14, <1>15, <2>1, <2>3 DEF Grows
    <2> QED
      BY <1>2, <2>1, <2>2, <2>4, CountedOne DEF Sole, Accounted
  <1>17. Owed(e)'
    <2>1. calls'[e] = 0
      BY <1>2 DEF Accounted
    <2>2. PICK g : g = (IF InFlight(e)' THEN 1 ELSE 0)
      OBVIOUS
    <2>3. 0 <= 0 + d + x + g
      BY <2>2
    <2> QED
      BY <1>3, <1>6, <1>15, <2>1, <2>2, <2>3 DEF Owed
  <1>18. ASSUME NEW f \in Execution, f \notin Admitted' PROVE calls'[f] = 0
    BY <1>2, <1>13, <1>18 DEF Accounted
  <1> QED
    BY <1>9, <1>10, <1>11, <1>12, <1>13, <1>16, <1>17, <1>18 DEF SoloInv, Accounted

LEMMA BegunJob ==
    ASSUME NEW i, NEW e, NEW r, NEW saves, NEW next,
           NEW j, j = Begun(i, e, r, saves, next)
    PROVE  /\ j.pc = (IF saves = <<>> THEN next ELSE "save") /\ j.next = next
           /\ j.host = i /\ j.exec = e /\ j.rec = r /\ j.todo = saves /\ ~j.cut
  <1>1. PICK pc : pc = IF saves = <<>> THEN next ELSE "save"
    OBVIOUS
  <1>2. PICK k : k = [pc |-> pc, next |-> next, host |-> i, exec |-> e, rec |-> r,
                      todo |-> saves, sync |-> FALSE, cut |-> FALSE, spoke |-> FALSE,
                      task |-> NoTask]
    OBVIOUS
  <1>3. Begun(i, e, r, saves, next) = k
    <2>1. PICK fresh : fresh = NewJob(i, e, r, pc)
      OBVIOUS
    <2>2. Begun(i, e, r, saves, next) = [fresh EXCEPT !.todo = saves, !.next = next]
      BY <1>1, <2>1 DEF Begun
    <2> QED
      BY <1>2, <2>1, <2>2 DEF NewJob
  <1>4. /\ k.pc = pc /\ k.next = next /\ k.host = i /\ k.exec = e /\ k.rec = r
        /\ k.todo = saves /\ ~k.cut
    BY <1>2
  <1> QED
    BY <1>1, <1>3, <1>4

\* Synchronous requests have no provider tasks.
LEMMA NoTasksHere ==
    ASSUME Sole, NEW e \in Admitted, NEW r, VersionOK(r), r.request = records[e].request
    PROVE  r.task = NoTask
  <1>1. r.request \in Requests
    BY DEF Sole, Submitted
  <1> QED
    BY <1>1 DEF Requests, Sole, SoleProcess, VersionOK

LEMMA ListSole ==
    ASSUME Sole, Accounted, NEW i \in Instance, List(i)
    PROVE  SoloInv' /\ Accounted'
  <1>1. PICK open : open = {e \in Admitted : ~IsTerminal(records[e].status)}
    OBVIOUS
  <1>2. /\ i \in up /\ ~Busy(Loop(i)) /\ scan[i] = {}
        /\ scan' = [scan EXCEPT ![i] = {<<e, records[e]>> : e \in open}]
        /\ UNCHANGED <<storeVars, work, calls, lifeVars>>
    BY <1>1 DEF List, envVars
  <1>3. /\ \A c \in scan'[i] : \E e \in open : c = <<e, records[e]>>
        /\ \A h \in Instance : h # i => scan'[h] = scan[h]
    BY <1>2 DEF Sole, ServiceInv, JobsOK
  <1>4. records' = records
    BY <1>2 DEF storeVars
  <1>5. \A h \in Instance : ~Busy(Loop(h)) /\ ~Busy(Loop(h))'
    BY <1>2, OneLoop DEF Sole, Busy
  <1>6. OneIsUp' /\ LoopsFit' /\ CancellersFit'
    BY <1>2, <1>4, <1>5 DEF Sole, SoloInv, OneIsUp, LoopsFit, CancellersFit, Busy, lifeVars
  <1>7. ScansFit'
    <2>1. ASSUME NEW h \in Instance
          PROVE  /\ scan'[h] # {} => h \in up'
                 /\ \A c \in scan'[h] : Lags(c[2], records'[c[1]])
                 /\ \A c, d \in scan'[h] : c[1] = d[1] => c = d
      <3>1. CASE h = i
        <4>1. \A c \in scan'[i] : Lags(c[2], records[c[1]])
          BY <1>3 DEF Lags
        <4>2. \A c, d \in scan'[i] : c[1] = d[1] => c = d
          BY <1>3
        <4> QED
          BY <1>2, <1>4, <3>1, <4>1, <4>2 DEF lifeVars
      <3>2. CASE h # i
        BY <1>2, <1>3, <1>4, <3>2 DEF Sole, SoloInv, ScansFit, lifeVars
      <3> QED
        BY <3>1, <3>2
    <2> QED
      BY <2>1 DEF ScansFit
  <1>8. ASSUME NEW d \in Admitted PROVE Paid(d)
    <2>1. \A h \in Instance : ~Aloft(h, d) /\ ~Setting(h, d)'
      BY <1>5 DEF Aloft, Setting, Drives
    <2>2. ASSUME InFlight(d), NEW h \in Instance PROVE ~Listed(h, d)'
      <3>1. IsTerminal(records[d].status) /\ ~Listed(h, d)
        BY <2>1, <2>2 DEF InFlight
      <3>2. CASE h = i
        BY <1>1, <1>3, <3>1, <3>2 DEF Listed
      <3>3. CASE h # i
        BY <1>3, <3>1, <3>3 DEF Listed
      <3> QED
        BY <3>2, <3>3
    <2>3. InFlight(d) => IsTerminal(records'[d].status)
      BY <1>4, <2>1 DEF InFlight
    <2> QED
      BY <2>1, <2>2, <2>3, Landed DEF Paid
  <1> QED
    BY <1>2, <1>6, <1>7, <1>8, AccountsStay DEF Sole, SoloInv, lifeVars

\* What a recovery begins with.
LEMMA RecoverFits ==
    ASSUME Sole, NEW i \in Instance, NEW e \in Admitted, NEW r \in Record,
           ~IsTerminal(r.status), r.task = NoTask, Lags(r, records[e]), Recover(i, e, r)
    PROVE  \E j : /\ work' = [work EXCEPT ![Loop(i)] = j] /\ j # Idle /\ j.exec = e
                  /\ LoopFits(i, j, records[e])
  <1>1. PICK saves : saves = IF "overdue" \in clock[e] THEN Transition(r, "expired")
               ELSE IF Spent(e, r) THEN Fail(r)
               ELSE IF r.status = "waiting_retry"
                    THEN Note([r EXCEPT !.waits = FALSE], "retry.started")
                    ELSE <<>>
    OBVIOUS
  <1>2. PICK next : next = IF "overdue" \in clock[e] \/ Spent(e, r) THEN "done" ELSE "execute"
    OBVIOUS
  <1>3. PICK j : j = Begun(i, e, r, saves, next)
    OBVIOUS
  <1>4. work' = [work EXCEPT ![Loop(i)] = j]
    BY <1>1, <1>2, <1>3 DEF Recover, Begun
  <1>5. /\ j.pc = (IF saves = <<>> THEN next ELSE "save") /\ j.next = next
        /\ j.host = i /\ j.exec = e /\ j.rec = r /\ j.todo = saves /\ ~j.cut
    BY <1>3, BegunJob
  <1>6. /\ saves # <<>> => saves[1].rec.attempts = r.attempts
        /\ saves = <<>> => next = "execute"
    <2>1. CASE "overdue" \in clock[e]
      <3>1. "expired" \in Target
        BY DEF Target, TerminalStatus
      <3>2. r.status # "expired"
        BY DEF IsTerminal, TerminalStatus
      <3> QED
        BY <1>1, <2>1, <3>1, <3>2, TransitionChain, ChainTried, SavesNothingNot DEF Transition
    <2>2. CASE "overdue" \notin clock[e] /\ Spent(e, r)
      BY <1>1, <2>2, FailTried
    <2>3. CASE "overdue" \notin clock[e] /\ ~Spent(e, r) /\ r.status = "waiting_retry"
      <3>1. PICK b : b = [r EXCEPT !.waits = FALSE]
        OBVIOUS
      <3>2. b \in Record /\ b.attempts = r.attempts
        BY <3>1, WaitingVersion
      <3>3. "retry.started" \in EventType
            /\ "retry.started" \notin LifecycleEvent \cup {"retry.scheduled"}
        BY DEF EventType, RetryEvent, LifecycleEvent
      <3>4. saves = Note(b, "retry.started")
        BY <1>1, <2>3, <3>1
      <3> QED
        BY <3>2, <3>3, <3>4, NoteChain, ChainTried
    <2>4. CASE "overdue" \notin clock[e] /\ ~Spent(e, r) /\ r.status # "waiting_retry"
      BY <1>1, <1>2, <2>4
    <2> QED
      BY <2>1, <2>2, <2>3, <2>4
  <1>7. j.pc \in {"execute", "save"} /\ next \in {"execute", "done"}
    BY <1>2, <1>5, <1>6
  <1>8. j.pc = "save" => ~Tried(r, saves)
    BY <1>5, <1>6, <1>7 DEF Tried
  <1>9. LoopFits(i, j, records[e])
    BY <1>5, <1>7, <1>8 DEF LoopFits, Early
  <1>10. j # Idle
    BY <1>7 DEF Idle
  <1> QED
    BY <1>4, <1>5, <1>9, <1>10

LEMMA TakeSole ==
    ASSUME Sole, Accounted, NEW i \in Instance, Take(i)
    PROVE  SoloInv' /\ Accounted'
  <1>1. PICK c \in scan[i] :
            /\ scan' = [scan EXCEPT ![i] = @ \ {c}]
            /\ Recover(i, c[1], c[2]) \/ UNCHANGED work
    BY DEF Take
  <1>2. i \in up /\ ~Busy(Loop(i)) /\ UNCHANGED <<storeVars, calls, lifeVars>>
    BY DEF Take, envVars
  <1>3. PICK e \in Execution, r \in Record : c = <<e, r>> /\ ~IsTerminal(r.status)
    BY DEF Sole, ServiceInv, JobsOK, OpenRecord
  <1>4. c[1] = e /\ c[2] = r
    BY <1>3
  <1>5. e \in Admitted /\ r.task = NoTask
    <2>1. c \in HeldCopies
      BY DEF HeldCopies
    <2>2. e \in Admitted /\ Tracks(r, records[e])
      BY <1>4, <2>1 DEF Sole, ServiceInv, Versions, TasksOK
    <2> QED
      BY <2>2, NoTasksHere DEF Tracks
  <1>6. /\ \A d \in scan'[i] : d \in scan[i] /\ d # c
        /\ \A h \in Instance : scan'[h] \subseteq scan[h]
    BY <1>1 DEF Sole, ServiceInv, JobsOK
  <1>7. Steady
    BY <1>2, <1>6 DEF Steady, lifeVars
  <1>8. Lags(r, records[e]) /\ \A d \in scan'[i] : d[1] # e
    BY <1>4, <1>6 DEF Sole, SoloInv, ScansFit
  <1>9. PICK j : /\ work' = [work EXCEPT ![Loop(i)] = j]
                 /\ \/ j = Idle
                    \/ j.exec = e /\ LoopFits(i, j, records[e])
    <2>1. CASE Recover(i, c[1], c[2])
      <3>1. Recover(i, e, r)
        BY <1>4, <2>1
      <3> QED
        BY <1>3, <1>5, <1>8, <3>1, RecoverFits
    <2>2. CASE UNCHANGED work
      <3>1. work[Loop(i)] = Idle
        BY <1>2, BusyWorker, Workers DEF Sole, ServiceInv, JobsOK
      <3>2. work' = [work EXCEPT ![Loop(i)] = Idle]
        BY <2>2, <3>1, Workers DEF Sole, ServiceInv, JobsOK
      <3> QED
        BY <3>2
    <2> QED
      BY <1>1, <2>1, <2>2
  <1>10. SoloInv'
    BY <1>2, <1>7, <1>8, <1>9, LoopTurns DEF Sole
  <1>11. ASSUME NEW d \in Admitted PROVE Paid(d)
    <2>1. CASE d = e
      <3>1. \A h \in Instance : ~Aloft(h, e)
        BY <1>2, OneLoop DEF Sole, Aloft, Drives
      <3>2. Listed(i, e)
        BY <1>4 DEF Listed
      <3>3. ~InFlight(e)
        BY <3>1, <3>2, Grounded
      <3> QED
        BY <2>1, <3>3 DEF Paid
    <2>2. CASE d # e
      <3>1. ~Drives(i, d) /\ records' = records
        BY <1>2 DEF Drives, storeVars
      <3>2. j = Idle \/ j.exec # d
        BY <1>9, <2>2
      <3> QED
        BY <1>2, <1>6, <1>9, <3>1, <3>2, OthersFly DEF Sole
    <2> QED
      BY <2>1, <2>2
  <1> QED
    BY <1>2, <1>10, <1>11, AccountsStay DEF Sole, lifeVars

LEMMA AbandonCancels ==
    ASSUME NEW r \in Record, r.status = "waiting_retry",
           NEW abort, abort = Note(r, "retry.aborted"),
           NEW saves, saves = abort \o Transition(After(r, abort), "cancelled")
    PROVE  saves # <<>> /\ Cancels(r, saves, "done")
  <1>1. PICK s : s = [r EXCEPT !.rev = @ + 1]
    OBVIOUS
  <1>2. "retry.aborted" \in EventType
        /\ "retry.aborted" \notin LifecycleEvent \cup {"retry.scheduled"}
    BY DEF EventType, RetryEvent, LifecycleEvent
  <1>3. Chain(r, abort) /\ After(r, abort) = s /\ s \in Record
    BY <1>1, <1>2, NoteChain, LastOfOne DEF Note
  <1>4. s.status = "waiting_retry" /\ Len(abort) = 1 /\ abort[1].rec = s
    BY <1>1, LengthOfOne DEF Record, Note
  <1>5. PICK m : m = Moved(s, "cancelled")
    OBVIOUS
  <1>6. PICK b : b = Transition(s, "cancelled")
    OBVIOUS
  <1>7. Len(b) = 1 /\ b[1].rec = m /\ m.status = "cancelled"
    <2>1. PICK mode : b = Saves(m, EventFor("cancelled"), mode)
      BY <1>4, <1>5, <1>6 DEF Transition
    <2> QED
      BY <1>3, <1>5, <2>1, LengthOfOne, MovedFields
  <1>8. abort \in Seq(Pending) /\ b \in Seq(Pending)
    <2>1. "cancelled" \in Target
      BY DEF Target, TerminalStatus
    <2> QED
      BY <1>3, <1>6, <2>1, TransitionChain DEF Chain
  <1>9. saves = abort \o b
    BY <1>3, <1>6
  <1>10. Len(saves) = 2 /\ saves[2] = b[1]
    <2>1. 1 \in 1..Len(b) /\ Len(abort) + 1 = 2 /\ Len(abort) + Len(b) = 2
      BY <1>4, <1>7
    <2> QED
      BY <1>8, <1>9, <2>1, Joined
  <1>11. ASSUME NEW n \in 1..Len(saves)
         PROVE  saves[n].rec.status = "cancelled" \/ Prior(r, saves, n).status = "waiting_retry"
    <2>1. n = 1 \/ n = 2
      BY <1>10
    <2>2. CASE n = 1
      BY <2>2 DEF Prior
    <2>3. CASE n = 2
      BY <1>7, <1>10, <2>3
    <2> QED
      BY <2>1, <2>2, <2>3
  <1>12. saves # <<>>
    BY <1>10, EmptySeq
  <1> QED
    BY <1>11, <1>12 DEF Cancels

LEMMA MoveCancels ==
    ASSUME NEW r \in Record, ~IsTerminal(r.status), NEW next \in {"done", "cut"},
           NEW saves, saves = Transition(r, "cancelled")
    PROVE  saves # <<>> /\ Cancels(r, saves, next)
  <1>1. PICK m : m = Moved(r, "cancelled")
    OBVIOUS
  <1>2. r.status # "cancelled"
    BY DEF IsTerminal, TerminalStatus
  <1>3. PICK mode : saves = Saves(m, EventFor("cancelled"), mode)
    BY <1>1, <1>2 DEF Transition
  <1>4. Len(saves) = 1 /\ saves[1].rec.status = "cancelled"
    BY <1>1, <1>3, LengthOfOne, MovedFields
  <1>5. \A n \in 1..Len(saves) : n = 1
    <2>1. \A n \in 1..1 : n = 1
      OBVIOUS
    <2> QED
      BY <1>4, <2>1
  <1>6. saves # <<>>
    BY <1>4, EmptySeq
  <1> QED
    BY <1>4, <1>5, <1>6 DEF Cancels

LEMMA CancelSole ==
    ASSUME Sole, Accounted, NEW i \in Instance, NEW e \in Execution, Cancel(i, e)
    PROVE  SoloInv' /\ Accounted'
  <1>1. /\ e \in Admitted /\ ~IsTerminal(records[e].status)
        /\ UNCHANGED <<storeVars, scan, calls, up, deaths, exits, pauses, scenario>>
    BY DEF Cancel, envVars
  <1>2. PICK r \in Record : r = records[e] /\ VersionOK(r)
    BY <1>1, Stands DEF Sole
  <1>3. r.task = NoTask
    BY <1>1, <1>2, NoTasksHere
  <1>4. PICK abort : abort = Note(r, "retry.aborted")
    OBVIOUS
  <1>5. ASSUME NEW saves, NEW next, saves # <<>>, Cancels(r, saves, next),
               work' = [work EXCEPT ![Canceller(e)] = Begun(i, e, r, saves, next)]
        PROVE  SoloInv' /\ Accounted'
    <2>1. PICK j : j = Begun(i, e, r, saves, next)
      OBVIOUS
    <2>2. /\ j.pc = "save" /\ j.next = next /\ j.exec = e /\ j.rec = r /\ j.todo = saves
      BY <1>5, <2>1, BegunJob
    <2>3. CancellerFits(j, records[j.exec])
      BY <1>5, <2>2 DEF CancellerFits
    <2>4. Steady
      BY <1>1 DEF Steady
    <2>5. SoloInv' /\ \A d \in Admitted : Paid(d)
      BY <1>1, <1>5, <2>1, <2>3, <2>4, CancellerTurns DEF Sole
    <2> QED
      BY <1>1, <2>5, AccountsStay DEF Sole
  <1>6. CASE /\ r.status = "waiting_retry"
             /\ work' = [work EXCEPT ![Canceller(e)] =
                    Begun(i, e, r, abort \o Transition(After(r, abort), "cancelled"), "done")]
    BY <1>4, <1>5, <1>6, AbandonCancels
  <1>7. ASSUME NEW next \in {"done", "cut"},
               work' = [work EXCEPT ![Canceller(e)] =
                    Begun(i, e, r, Transition(r, "cancelled"), next)]
        PROVE  SoloInv' /\ Accounted'
    BY <1>1, <1>2, <1>5, <1>7, MoveCancels
  <1>8. \/ /\ r.status = "waiting_retry"
           /\ work' = [work EXCEPT ![Canceller(e)] =
                    Begun(i, e, r, abort \o Transition(After(r, abort), "cancelled"), "done")]
        \/ \E next \in {"done", "cut"} :
              work' = [work EXCEPT ![Canceller(e)] =
                    Begun(i, e, r, Transition(r, "cancelled"), next)]
    BY <1>2, <1>3, <1>4 DEF Cancel, Begun
  <1> QED
    BY <1>6, <1>7, <1>8

LEMMA StepsAtWork == ASSUME NEW w, Step(w) PROVE Busy(w)
  BY DEF Step, Save, Admit, Execute, Materialize, Ready, Dispatch, Return, GiveUp, EmitRead,
         EmitSave, Poll, CancelCall, Cut, Busy

LEMMA LoopSole ==
    ASSUME Sole, Accounted, NEW i \in Instance, Step(Loop(i))
    PROVE  SoloInv' /\ Accounted'
  <1>1. Busy(Loop(i))
    BY StepsAtWork
  <1>2. /\ work[Loop(i)].pc \in Early \cup {"await", "save"} /\ ~Streams(work[Loop(i)].rec)
    BY <1>1, AtLoop DEF LoopFits
  <1>3. ASSUME UNCHANGED <<storeVars, envVars, lifeVars>>,
               SoloInv' /\ \A d \in Admitted : Paid(d)
        PROVE  SoloInv' /\ Accounted'
    BY <1>3, AccountsStay DEF Sole, envVars, lifeVars
  <1>4. CASE Execute(Loop(i))
    <2>1. UNCHANGED <<storeVars, envVars, lifeVars>>
      BY <1>4 DEF Execute
    <2> QED
      BY <1>3, <1>4, <2>1, ExecuteSole
  <1>5. CASE Materialize(Loop(i))
    <2>1. UNCHANGED <<storeVars, envVars, lifeVars>>
      BY <1>5 DEF Materialize
    <2> QED
      BY <1>3, <1>5, <2>1, MaterializeSole
  <1>6. CASE Ready(Loop(i))
    <2>1. UNCHANGED <<storeVars, envVars, lifeVars>>
      BY <1>6 DEF Ready
    <2> QED
      BY <1>3, <1>6, <2>1, ReadySole
  <1>7. CASE Return(Loop(i))
    <2>1. UNCHANGED <<storeVars, envVars, lifeVars>>
      BY <1>7 DEF Return
    <2> QED
      BY <1>3, <1>7, <2>1, ReturnSole
  <1>8. CASE GiveUp(Loop(i))
    <2>1. UNCHANGED <<storeVars, envVars, lifeVars>>
      BY <1>8 DEF GiveUp
    <2> QED
      BY <1>3, <1>8, <2>1, GiveUpSole
  <1>9. /\ ~Admit(Loop(i)) /\ ~EmitRead(Loop(i)) /\ ~EmitSave(Loop(i)) /\ ~Poll(Loop(i))
        /\ ~CancelCall(Loop(i)) /\ ~Cut(Loop(i))
    BY <1>2 DEF Admit, EmitRead, EmitSave, Poll, CancelCall, Cut, Early
  <1> QED
    BY <1>4, <1>5, <1>6, <1>7, <1>8, <1>9, DispatchSole, SaveLoopSole DEF Step

LEMMA CancellerSole ==
    ASSUME Sole, Accounted, NEW c \in Execution, Step(Canceller(c))
    PROVE  SoloInv' /\ Accounted'
  <1>1. Busy(Canceller(c))
    BY StepsAtWork
  <1>2. work[Canceller(c)].pc \in {"save", "cut"}
    BY <1>1 DEF Sole, SoloInv, CancellersFit, CancellerFits
  <1>3. Save(Canceller(c)) \/ Cut(Canceller(c))
    BY <1>2 DEF Step, Admit, Execute, Materialize, Ready, Dispatch, Return, GiveUp, EmitRead,
                EmitSave, Poll, CancelCall
  <1> QED
    BY <1>3, SaveCancellerSole, CutSole

LEMMA SoloInitially ==
    ASSUME SoleProcess, Init
    PROVE  SoloInv /\ Accounted /\ Submitted
  <1>1. \A w \in Worker : ~Busy(w)
    BY DEF Init, Busy, Idle
  <1>2. Admitted = {} /\ \A e \in Execution : calls[e] = 0
    BY DEF Init, StoreInit, Admitted
  <1>3. OneIsUp
    BY <1>1, Workers DEF Init, OneIsUp, SoleProcess
  <1>4. LoopsFit /\ ScansFit /\ CancellersFit
    BY <1>1, Workers DEF Init, LoopsFit, ScansFit, CancellersFit
  <1> QED
    BY <1>2, <1>3, <1>4 DEF SoloInv, Accounted, Submitted

LEMMA SoloStep ==
    ASSUME Sole, Accounted, [Next]_vars
    PROVE  SoloInv' /\ Accounted'
  <1>1. ASSUME NEW w \in Worker, Step(w) PROVE SoloInv' /\ Accounted'
    <2>1. \/ \E i \in Instance : w = Loop(i)
          \/ \E e \in Execution : w = Canceller(e)
      <3>1. Busy(w)
        BY <1>1, StepsAtWork
      <3> QED
        BY <3>1, WhoIsBusy DEF Sole
    <2> QED
      BY <1>1, <2>1, LoopSole, CancellerSole
  <1>2. ASSUME NEW i \in Instance, List(i) \/ Take(i) \/ Crash(i) \/ Restart(i)
        PROVE  SoloInv' /\ Accounted'
    BY <1>2, ListSole, TakeSole, CrashSole, RestartSole
  <1>3. ASSUME NEW e \in Execution, Ripen(e) \/ \E d \in {"spent", "overdue"} : Age(e, d)
        PROVE  SoloInv' /\ Accounted'
    BY <1>3, NobodyMoves DEF Ripen, Age, procVars, lifeVars
  <1>4. ASSUME NEW t \in Task, Advance(t) PROVE SoloInv' /\ Accounted'
    BY <1>4, NobodyMoves DEF Advance, procVars, lifeVars
  <1>5. CASE UNCHANGED vars
    BY <1>5, NobodyMoves DEF vars, storeVars
  <1> QED
    BY <1>1, <1>2, <1>3, <1>4, <1>5, CreateSole, CancelSole, LeaseExpiresSole,
       NoHeartbeatIsLost DEF Next

-----------------------------------------------------------------------------
(* What is proved of the orchestrator.                                     *)

(* Whatever workers do and whenever processes die, all state keeps its     *)
(* type, what is about to be saved derives from the copy in hand, and a    *)
(* copy in hand is a version of its record.                                *)
THEOREM ServiceTypes == Spec => []ServiceInv
  <1>1. Init => ServiceInv
    BY ServiceInitially
  <1>2. ServiceInv /\ [Next]_vars => ServiceInv'
    BY ServiceStep
  <1> QED
    BY <1>1, <1>2, PTL DEF Spec

(* The status last announced in the log is the status of the record: each  *)
(* Save of a worker announces the status it moves to, and the compare-and- *)
(* swap admits only the Save whose worker holds the current version.       *)
THEOREM LogTellsTheRecord == Spec => []LogMatchesRecord
  <1>1. ServiceInv => LogMatchesRecord
    BY DEF ServiceInv
  <1> QED
    BY <1>1, ServiceTypes, PTL

(* Of the workers of all processes at most one drives an execution, as     *)
(* long as no live worker's lease has expired: it is the lease's owner.    *)
THEOREM OwnersExclude == Spec => []ExclusiveOwner
  <1>1. ServiceInv => ExclusiveOwner
    BY DEF ServiceInv, LeaseOK, Owns, Driving, ExclusiveOwner
  <1> QED
    BY <1>1, ServiceTypes, PTL

(* A task the provider has created belongs to one execution, in the record *)
(* and in whatever copy of it a worker still holds: only the start call of *)
(* Dispatch hands one out, and a Save passes on the task of its copy.      *)
THEOREM TasksServeOne == Spec => []OneClaimant
  <1>1. Init => OneClaimant
    <2>1. SUFFICES ASSUME Init PROVE OneClaimant
      OBVIOUS
    <2>2. \A w \in Worker : ~Busy(w)
      BY <2>1 DEF Init, Busy, Idle
    <2>3. HeldCopies = {} /\ Current = {}
      BY <2>1, <2>2 DEF Init, StoreInit, HeldCopies, Current, Admitted
    <2> QED
      BY <2>2, <2>3 DEF OneClaimant, Claimed
  <1>2. ServiceInv /\ OneClaimant /\ [Next]_vars => OneClaimant'
    BY ClaimStep
  <1> QED
    BY <1>1, <1>2, ServiceTypes, PTL DEF Spec

(* A tracked task is reported succeeded, partially succeeded or cancelled  *)
(* only when the provider has said so, and the provider is asked to cancel *)
(* it only when its record says so: whoever calls holds a version in which *)
(* the intent is saved, of the one execution that tracks the task, and the *)
(* intent stays in the versions after it.                                  *)
THEOREM TasksEndAsConfirmed == Spec => TaskOutcomeConfirmed
  <1>1. ServiceInv /\ OneClaimant /\ [Next]_vars => OutcomeIsConfirmed /\ IntentIsDurable
    BY ConfirmedStep, DurableStep
  <1> QED
    BY <1>1, ServiceTypes, TasksServeOne, PTL DEF Spec, TaskOutcomeConfirmed

(* Whatever processes crash, lose their leases or are told to cancel, the  *)
(* record of an execution that is not streamed keeps to its budget of      *)
(* attempts; after a retry its log ends in retry.aborted if it failed and  *)
(* in retry.succeeded if it succeeded, and announces a retry only while it *)
(* waits for one or when it expired.  Only the version a worker goes on    *)
(* from decides, and only a worker whose copy is that version saves.  Of   *)
(* cancelled executions, which may have retry.started as their last retry  *)
(* event, it says only that they announce none.                            *)
THEOREM RetriesAreTold ==
    Spec => [](\A e \in Admitted : Truthful(records[e], feed[e].retry))
  <1>1. Init => RetriesInv
    BY RetriesInitially
  <1>2. ServiceInv /\ RetriesInv /\ [Next]_vars => RetriesInv'
    BY RetriesStep
  <1>3. RetriesInv => \A e \in Admitted : Truthful(records[e], feed[e].retry)
    BY DEF RetriesInv
  <1> QED
    BY <1>1, <1>2, <1>3, ServiceTypes, PTL DEF Spec

(* Where no synchronous request is streamed, the last retry event of an    *)
(* execution that failed or succeeded after a retry says so, a retry is    *)
(* announced only by one that waits or expired (RetryEndTold), and the     *)
(* recorded attempts keep to their budget.  A stream is left out           *)
(* because the record it is read from again at its end may no longer be    *)
(* the one its worker drove, once the lease is lost.                       *)
THEOREM RetryEndsAreTold ==
    ASSUME \A q \in Requests : q.stream => q.async
    PROVE  Spec => [](RetryEndTold /\ AttemptBudget)
  <1>1. Init => \A e \in Admitted : records[e].request \in Requests
    BY DEF Init, StoreInit, Admitted
  <1>2. ServiceInv /\ (\A e \in Admitted : records[e].request \in Requests) /\ [Next]_vars
          => (\A e \in Admitted : records[e].request \in Requests)'
    BY RequestsStay
  <1>3. /\ \A e \in Admitted : records[e].request \in Requests
        /\ \A e \in Admitted : Truthful(records[e], feed[e].retry)
        => RetryEndTold /\ AttemptBudget
    <2> SUFFICES ASSUME NEW e \in Admitted, records[e].request \in Requests,
                        Truthful(records[e], feed[e].retry)
                 PROVE  /\ records[e].status = "failed" /\ records[e].cycled
                              => feed[e].retry = "retry.aborted"
                        /\ records[e].status = "succeeded" /\ records[e].cycled
                              => feed[e].retry = "retry.succeeded"
                        /\ feed[e].retry = "retry.scheduled"
                              => records[e].status \in {"waiting_retry", "expired"}
                        /\ records[e].attempts <= MaximumAttempts(records[e].request)
      BY DEF RetryEndTold, AttemptBudget
    <2>1. ~Streams(records[e])
      BY NoRequestIsStreamed
    <2> QED
      BY <2>1 DEF Truthful, Settled
  <1> QED
    BY <1>1, <1>2, <1>3, ServiceTypes, RetriesAreTold, PTL DEF Spec

(* Where one process serves synchronous requests that its recovery loop    *)
(* executes, and its heartbeats do not stall, every dispatch is recorded   *)
(* as an attempt, except the one in flight and what a death of the process *)
(* has cost, and the attempts keep to their budget.                        *)
THEOREM DispatchesAreCounted ==
    ASSUME SoleProcess
    PROVE  Spec => []DispatchesAccounted
  <1>1. Init => SoloInv /\ Accounted /\ Submitted
    BY SoloInitially
  <1>2. Init => RetriesInv
    BY RetriesInitially
  <1>3. ServiceInv /\ Submitted /\ [Next]_vars => Submitted'
    BY RequestsStay DEF Submitted
  <1>4. ServiceInv /\ RetriesInv /\ [Next]_vars => RetriesInv'
    BY RetriesStep
  <1>5. /\ ServiceInv /\ RetriesInv /\ Submitted /\ SoloInv /\ Accounted /\ [Next]_vars
        => SoloInv' /\ Accounted'
    BY SoloStep DEF Sole
  <1>6. ServiceInv /\ RetriesInv /\ Submitted /\ Accounted => DispatchesAccounted
    <2> SUFFICES ASSUME ServiceInv, RetriesInv, Submitted, Accounted, NEW e \in Admitted
                 PROVE  /\ records[e].attempts <= MaximumAttempts(records[e].request)
                        /\ calls[e] <= records[e].attempts + 1 + deaths + exits
      BY DEF DispatchesAccounted, AttemptBudget
    <2>1. e \in Execution /\ records[e] \in Record
      BY AdmittedRecords DEF ServiceInv
    <2>2. records[e].attempts <= MaximumAttempts(records[e].request)
      <3>1. ~Streams(records[e])
        BY DEF Submitted, Requests, SoleProcess, Streams
      <3> QED
        BY <3>1, Stands
    <2>3. PICK n \in Nat, a \in Nat, d \in Nat, x \in Nat :
              n = calls[e] /\ a = records[e].attempts /\ d = deaths /\ x = exits
      <3>1. calls[e] \in Nat /\ records[e].attempts \in Nat
        BY <2>1 DEF ServiceInv, EnvOK, Record
      <3> QED
        BY <3>1 DEF ServiceInv, EnvOK
    <2>4. PICK f \in {0, 1} : f = (IF InFlight(e) THEN 1 ELSE 0)
      OBVIOUS
    <2>5. n <= a + d + x + f
      BY <2>1, <2>3, <2>4 DEF Accounted, Owed
    <2>6. n <= a + 1 + d + x
      BY <2>5
    <2> QED
      BY <2>2, <2>3, <2>6
  <1> QED
    BY <1>1, <1>2, <1>3, <1>4, <1>5, <1>6, ServiceTypes, PTL DEF Spec

(* The orchestrator implements ExecutionClients: each of its steps is one  *)
(* call of a legitimate caller of the store, or none.                      *)
THEOREM WorkersAreClients == Spec => ImplementsClients
  <1>1. Init => ServiceInv /\ Clients!Init
    BY ServiceInitially
  <1>2. ServiceInv /\ [Next]_vars => ServiceInv' /\ [Clients!AnyCall]_(Clients!vars)
    BY ServiceStep
  <1> QED
    BY <1>1, <1>2, PTL DEF Spec, ImplementsClients, Clients!AnyCalls
=============================================================================
