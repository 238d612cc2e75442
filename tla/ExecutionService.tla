-------------------------- MODULE ExecutionService --------------------------
(***************************************************************************)
(* The execution orchestrator (internal/execution/service.go) of one or    *)
(* more processes that share a store: immediate executions run by the      *)
(* request that admitted them, the recovery loop that runs deferred and    *)
(* interrupted ones under a lease, cancellation, and the provider behind.  *)
(*                                                                         *)
(* A worker is one goroutine: the recovery loop of an instance, or the     *)
(* request that executes or cancels one execution.  It holds the version   *)
(* it last read or wrote and the Saves it is about to make, and every      *)
(* Save, provider call and lease operation is a step of its own; between   *)
(* two of them other workers act, the process may die, and time passes.    *)
(***************************************************************************)
EXTENDS ExecutionStore, Sequences

CONSTANTS
    Instance,       \* processes
    Scenarios,      \* the situations considered, one of them per behaviour
    MaxRevision     \* no empty observation is saved beyond this revision

\* A scenario names the instances that run, the requests callers submit, and
\* bounds the crashes, the leases that expire under a live worker and the
\* calls of Cancel.
Scenario ==
    [instances: SUBSET Instance, requests: SUBSET Request,
     deaths: Nat, pauses: Nat, cancels: Nat]

ASSUME ScenariosAssumption == Scenarios \subseteq Scenario
ASSUME MaxRevisionAssumption == MaxRevision \in Nat

Requests == UNION {s.requests : s \in Scenarios}

VARIABLES
    work,       \* what every worker is doing
    scan,       \* the recovery loop's remaining ListRecoverable snapshot
    active,     \* activeExecutions of every instance
    lease,      \* owner of the unexpired lease of every execution
    upstream,   \* the provider's tasks
    calls,      \* provider dispatches made for every execution
    clock,      \* deadlines of every execution that have passed
    ripe,       \* latest revision whose schedule has come due
    up,         \* instances that are running
    deaths,     \* crashes so far
    exits,      \* times a recovery loop returned an error and ended its process
    pauses,
    cancels,
    scenario    \* chosen once

procVars == <<work, scan, active, lease>>
envVars  == <<upstream, calls, clock, ripe>>
lifeVars == <<up, deaths, exits, pauses, cancels, scenario>>
vars == <<records, feed, work, scan, active, lease, upstream, calls,
          clock, ripe, up, deaths, exits, pauses, cancels, scenario>>

Loop(i)      == <<"loop", i>>
Direct(e)    == <<"direct", e>>
Canceller(e) == <<"cancel", e>>

Worker == {Loop(i) : i \in Instance} \cup {Direct(e) : e \in Execution}
             \cup {Canceller(e) : e \in Execution}

IsLoop(w)      == w \in {Loop(i) : i \in Instance}
IsCanceller(w) == w \in {Canceller(e) : e \in Execution}

\* One pending Save: the version, its event, and its mode: "illegal" when the
\* transition() that prepared it fails its own ValidateTransition, "detached"
\* when it is saved under context.WithoutCancel.
Pending == [rec: Record, ev: EventType, mode: {"plain", "illegal", "detached"}]

\* pc says what the worker does next; after `todo` is saved it goes to `next`.
\* `sync` is set while executionContextForBudget's context is registered,
\* `cut` once its context is cancelled, `spoke` once a stream saved an event,
\* and `task` is the provider task a start call has created.
Place == {"admit", "execute", "materialize", "ready", "dispatch", "await",
          "emit", "poll", "cancelcall", "cut", "save", "done"}

Job == [pc: Place, next: Place, host: Instance, exec: Execution, rec: Record,
        todo: Seq(Pending), sync: BOOLEAN, cut: BOOLEAN, spoke: BOOLEAN,
        task: Task \cup {NoTask}]

Idle == [pc |-> "idle"]

Free == <<"free">>      \* no lease row, or one that has expired
Gone == <<"gone">>      \* an unexpired lease of a process that died

Busy(w) == work[w].pc # "idle"
HeldBy(w) == <<work[w].exec, work[w].rec>>

\* Every copy of a record in some worker's hands.
HeldCopies ==
    {HeldBy(w) : w \in {v \in Worker : Busy(v)}}
        \cup UNION {scan[i] : i \in Instance}

Init ==
    /\ scenario \in Scenarios
    /\ StoreInit
    /\ work = [w \in Worker |-> Idle]
    /\ scan = [i \in Instance |-> {}]
    /\ active = [i \in Instance |-> {}]
    /\ lease = [e \in Execution |-> Free]
    /\ upstream = [t \in Task |-> "none"]
    /\ calls = [e \in Execution |-> 0]
    /\ clock = [e \in Execution |-> {}]
    /\ ripe = [e \in Execution |-> 0]
    /\ up = scenario.instances
    /\ deaths = 0 /\ exits = 0 /\ pauses = 0 /\ cancels = 0

-----------------------------------------------------------------------------
(* The versions a worker prepares, as sequences of pending Saves.          *)

Saves(r, ev, mode) == <<[rec |-> r, ev |-> ev, mode |-> mode]>>

After(r, saves) == IF saves = <<>> THEN r ELSE saves[Len(saves)].rec

\* appendLifecycle, appendRetryEvent, saveTaskObservation: no status change.
Note(r, ev) == Saves([r EXCEPT !.rev = @ + 1], ev, "plain")

\* A terminal version drops its provider task.
Moved(r, s) ==
    IF IsTerminal(s)
    THEN [r EXCEPT !.rev = @ + 1, !.status = s, !.task = NoTask,
                   !.cancelling = FALSE, !.waits = FALSE]
    ELSE [r EXCEPT !.rev = @ + 1, !.status = s,
                   !.waits = @ /\ r.task # NoTask]

Transition(r, s) ==
    IF r.status = s THEN <<>>
    ELSE Saves(Moved(r, s), EventFor(s),
               IF LegalTransition(r.status, s) THEN "plain" ELSE "illegal")

\* Faulty variant: the failure leaves the retry sequence open.
FailOpen(r) == Transition(r, "failed")

\* fail, with appendRetryAbortBeforeTerminalFailure.
Fail(r) ==
    LET abort == IF r.cycled THEN Note(r, "retry.aborted") ELSE <<>>
    IN  abort \o Transition(After(r, abort), "failed")

\* succeedWithStatus leaves the legality of the move to the store.
Succeed(r, s) == Saves(Moved(r, s), EventFor(s), "plain")

\* Faulty variants: the attempt is forgotten, or recorded twice.
AttemptForgotten(r) == [r EXCEPT !.rev = @ + 1]
AttemptedTwice(r) == [r EXCEPT !.rev = @ + 1, !.attempts = @ + 2]

\* persistAttempt: the attempt is recorded, whatever became of it.
Attempted(r) == [r EXCEPT !.rev = @ + 1, !.attempts = @ + 1]

\* executionBudgetExpired.
Spent(e, r) == r.request.budget /\ "spent" \in clock[e]

\* scheduleRetry: the next retry must come before expiry and deadline.
MaySchedule(e, r) ==
    /\ r.request.deferred
    /\ r.request.max = 0 \/ r.attempts < r.request.max
    /\ "overdue" \notin clock[e] /\ ~Spent(e, r)

ScheduleRetry(r) ==
    Saves([r EXCEPT !.rev = @ + 1, !.status = "waiting_retry",
                    !.cycled = TRUE, !.waits = TRUE],
          "retry.scheduled", "plain")

\* applyTaskResult for a provider state s; `sound` is that a final result
\* validates and its resources can be stored.
Observe(r, s, sound) ==
    CASE s \in {"queued", "running"} ->
             IF r.status = s THEN Note(r, "none") ELSE Transition(r, s)
      [] s \in {"succeeded", "partially_succeeded"} ->
             LET running == Transition(r, "running")
                 last == After(r, running)
             IN  running \o (IF sound THEN Succeed(last, s) ELSE Fail(last))
      [] s = "failed" -> Fail(r)
      [] s = "cancelled" -> Transition(r, "cancelled")
      [] OTHER -> <<>>

-----------------------------------------------------------------------------
(* The end of a worker's run.                                              *)

\* Faulty variant: the lease is left to expire, while its owner lives on.
EndKeepingLease(w) ==
    LET e == work[w].exec  i == work[w].host
    IN  /\ work' = [work EXCEPT ![w] = Idle]
        /\ active' = [active EXCEPT ![i] = IF w = Direct(e) THEN @ \ {e} ELSE @]
        /\ UNCHANGED lease

\* withExecutionLease releases the lease if it is still its own, and create
\* unregisters the active execution.
End(w) ==
    LET e == work[w].exec  i == work[w].host
    IN  /\ work' = [work EXCEPT ![w] = Idle]
        /\ lease' = [lease EXCEPT ![e] = IF @ = w THEN Free ELSE @]
        /\ active' = [active EXCEPT ![i] = IF w = Direct(e) THEN @ \ {e} ELSE @]

\* The rest of a scan is dropped when RecoverOnce returns an error.
EndScan(w) ==
    scan' = IF IsLoop(w) THEN [scan EXCEPT ![w[2]] = {}] ELSE scan

\* The process dies: its goroutines and its random worker identity are gone,
\* its leases stay until they expire.
Stop(i) ==
    LET gone == {w \in Worker : Busy(w) /\ work[w].host = i}
    IN  /\ up' = up \ {i}
        /\ work' = [w \in Worker |-> IF w \in gone THEN Idle ELSE work[w]]
        /\ lease' = [e \in Execution |-> IF lease[e] \in gone THEN Gone ELSE lease[e]]
        /\ active' = [active EXCEPT ![i] = {}]
        /\ scan' = [scan EXCEPT ![i] = {}]

\* Continue with version r: make the saves, then go to `next`.
Proceed(w, r, saves, next) ==
    IF saves = <<>> /\ next = "done"
    THEN End(w) /\ UNCHANGED scan
    ELSE /\ work' = [work EXCEPT ![w].rec = r, ![w].todo = saves,
                                 ![w].pc = IF saves = <<>> THEN next ELSE "save",
                                 ![w].next = next]
         /\ UNCHANGED <<scan, active, lease>>

\* A synchronous dispatch runs under the budget's deadline.
OutOfTime(j) == j.sync /\ Spent(j.exec, j.rec)

\* An error other than a revision conflict or a cancelled context: a request
\* reports it, RunRecovery returns it and main ends the process.
Abort(w) ==
    IF IsLoop(w)
    THEN /\ Stop(w[2])
         /\ exits' = exits + 1
         /\ UNCHANGED <<deaths, pauses, cancels, scenario>>
    ELSE End(w) /\ UNCHANGED <<scan, lifeVars>>

\* The next pending Save of a worker.
Save(w) ==
    LET j == work[w]
        s == Head(j.todo)
        result == SaveResult(j.exec, s.rec, s.ev)
        stopped == (j.cut \/ OutOfTime(j)) /\ s.mode # "detached"
    IN  /\ j.pc = "save"
        /\ UNCHANGED envVars
        /\ \/ /\ s.mode # "illegal" /\ ~stopped
              /\ Write(j.exec, s.rec, s.ev)
              /\ Proceed(w, s.rec, Tail(j.todo), j.next)
              /\ UNCHANGED lifeVars
           \/ /\ s.mode # "illegal" /\ ~stopped /\ result = "conflict"
              /\ End(w)
              /\ UNCHANGED <<storeVars, scan, lifeVars>>
           \/ /\ s.mode # "illegal" /\ stopped /\ j.cut
              /\ End(w) /\ EndScan(w)
              /\ UNCHANGED <<storeVars, lifeVars>>
           \/ /\ \/ s.mode = "illegal"
                 \/ stopped /\ ~j.cut
                 \/ ~stopped /\ result = "invalid"
              /\ Abort(w)
              /\ UNCHANGED storeVars

-----------------------------------------------------------------------------
(* Admission (create, executeAdmitted).                                    *)

NewJob(i, e, r, pc) ==
    [pc |-> pc, next |-> "done", host |-> i, exec |-> e, rec |-> r,
     todo |-> <<>>, sync |-> FALSE, cut |-> FALSE, spoke |-> FALSE,
     task |-> NoTask]

\* The active execution is registered before the record becomes visible.
Create(i, e, q) ==
    /\ i \in up /\ q \in scenario.requests
    /\ Insert(e, q)
    /\ IF q.deferred
       THEN UNCHANGED <<work, active>>
       ELSE /\ work' = [work EXCEPT ![Direct(e)] = NewJob(i, e, NewRecord(q), "admit")]
            /\ active' = [active EXCEPT ![i] = @ \cup {e}]
    /\ UNCHANGED <<scan, lease, envVars, lifeVars>>

Admit(w) ==
    LET e == work[w].exec
    IN  /\ work[w].pc = "admit"
        /\ IF lease[e] = Free
           THEN /\ lease' = [lease EXCEPT ![e] = w]
                /\ work' = [work EXCEPT ![w].pc = "execute"]
                /\ UNCHANGED active
           ELSE End(w)
        /\ UNCHANGED <<storeVars, scan, envVars, lifeVars>>

-----------------------------------------------------------------------------
(* execute: budget, inputs, binding, then the dispatch.                    *)

Execute(w) ==
    LET j == work[w]  r == j.rec
    IN  /\ j.pc = "execute"
        /\ IF Spent(j.exec, r)
           THEN Proceed(w, r, Fail(r), "done")
           ELSE IF r.request.plan
           THEN Proceed(w, r,
                        IF r.status \in {"accepted", "waiting_retry"}
                        THEN Transition(r, "preparing_inputs") ELSE <<>>,
                        "materialize")
           ELSE Proceed(w, r, <<>>, "ready")
        /\ UNCHANGED <<storeVars, envVars, lifeVars>>

\* prepareInputs after its first transition: revalidation and download may
\* fail; completion is announced only while preparing.
Materialize(w) ==
    LET r == work[w].rec
    IN  /\ work[w].pc = "materialize"
        /\ \/ Proceed(w, r, Fail(r), "done")
           \/ Proceed(w, r,
                      IF r.status = "preparing_inputs"
                      THEN Note(r, "input.materialization.completed") ELSE <<>>,
                      "ready")
        /\ UNCHANGED <<storeVars, envVars, lifeVars>>

\* loadBinding, resolvePreparedWorkflow and resolveRequestedContinuation may
\* fail; a synchronous execution then registers its cancel function.
Ready(w) ==
    LET r == work[w].rec
        running == Transition(r, "running")
    IN  /\ work[w].pc = "ready"
        /\ \/ Proceed(w, r, Fail(r), "done")
           \/ /\ r.request.async
              /\ Proceed(w, r, <<>>, "dispatch")
           \/ /\ ~r.request.async
              /\ work' = [work EXCEPT ![w].sync = TRUE, ![w].todo = running,
                             ![w].pc = IF running = <<>> THEN "dispatch" ELSE "save",
                             ![w].next = "dispatch"]
              /\ UNCHANGED <<scan, active, lease>>
        /\ UNCHANGED <<storeVars, envVars, lifeVars>>

Exhausted(r) == r.attempts >= MaximumAttempts(r.request)

\* One round of executeSynchronous or startTask: the provider is called
\* unless the recorded attempts leave no budget.  A start call may create a
\* task at the provider.
Dispatch(w) ==
    LET j == work[w]  e == j.exec
        unused == {t \in Task : upstream[t] = "none"}
    IN  /\ j.pc = "dispatch" /\ ~j.cut
        /\ \/ /\ Exhausted(j.rec)
              /\ Proceed(w, j.rec, Fail(j.rec), "done")
              /\ UNCHANGED envVars
           \/ /\ ~Exhausted(j.rec)
              /\ calls' = [calls EXCEPT ![e] = @ + 1]
              /\ \/ /\ work' = [work EXCEPT ![w].pc = "await", ![w].spoke = FALSE,
                                            ![w].task = NoTask]
                    /\ UNCHANGED upstream
                 \/ /\ j.rec.request.async /\ unused # {}
                    /\ LET t == CHOOSE x \in unused : \A y \in unused : x <= y
                       IN  /\ work' = [work EXCEPT ![w].pc = "await",
                                          ![w].spoke = FALSE, ![w].task = t]
                           /\ upstream' = [upstream EXCEPT ![t] = "queued"]
              /\ UNCHANGED <<scan, active, lease, clock, ripe>>
        /\ UNCHANGED <<storeVars, lifeVars>>

-----------------------------------------------------------------------------
(* What comes back from the provider.                                      *)

\* Only a synchronous call is given a sink for the events of its stream.
Streams(r) == r.request.stream /\ ~r.request.async

\* After a streaming call the record is read again.
Returned(j) == IF Streams(j.rec) THEN records[j.exec] ELSE j.rec

\* An alternate credential or endpoint of the same provider instance: only
\* for a classified failure, before any output, without materialised inputs.
MayFailOver(j, r) ==
    ~j.spoke /\ ~r.request.plan /\ r.attempts + 1 < MaximumAttempts(r.request)

\* A synchronous success, closing an open retry sequence first.  `sound` is
\* that the generated resources could be stored.
ReturnSuccess(w, sound) ==
    LET from == Returned(work[w])
        r == [from EXCEPT !.attempts = @ + 1]
        closed == IF r.cycled THEN Note(r, "retry.succeeded") ELSE <<>>
    IN  Proceed(w, from,
                IF sound THEN closed \o Succeed(After(r, closed), "succeeded")
                ELSE Fail(r), "done")

\* A failure is recorded as an attempt; then another target is tried, or a
\* retry is scheduled, or the execution fails.
ReturnFailure(w) ==
    LET j == work[w]  r == Returned(j)
        tried == Attempted(r)
        persisted == Saves(tried, "none", "plain")
    IN  \/ MayFailOver(j, r) /\ Proceed(w, r, persisted, "dispatch")
        \/ /\ MaySchedule(j.exec, tried) /\ ~j.spoke
           /\ Proceed(w, r, persisted \o ScheduleRetry(tried), "done")
        \/ Proceed(w, r, persisted \o Fail(tried), "done")

\* The started task is adopted with the state the provider answers.
ReturnTask(w, later) ==
    LET j == work[w]
        r == [j.rec EXCEPT !.attempts = @ + 1, !.task = j.task, !.waits = later]
    IN  \E sound \in BOOLEAN :
            Proceed(w, j.rec, Observe(r, upstream[j.task], sound), "done")

Return(w) ==
    /\ work[w].pc = "await"
    /\ \/ ~work[w].rec.request.async /\ \E sound \in BOOLEAN : ReturnSuccess(w, sound)
       \/ work[w].task = NoTask /\ ReturnFailure(w)
       \/ work[w].task # NoTask /\ \E later \in BOOLEAN : ReturnTask(w, later)
    /\ UNCHANGED <<storeVars, envVars, lifeVars>>

\* A provider call under a cancelled context gives up.  executeSynchronous
\* returns the cancelled record if there is one, any other caller the
\* context's error, and that ends the scan.
GiveUp(w) ==
    /\ work[w].pc \in {"dispatch", "await", "poll"} /\ work[w].cut
    /\ End(w)
    /\ IF work[w].sync /\ records[work[w].exec].status = "cancelled"
       THEN UNCHANGED scan ELSE EndScan(w)
    /\ UNCHANGED <<storeVars, envVars, lifeVars>>

\* durableProviderEventSink: while a stream is read, each event is saved on
\* the current version, or the sink reports that it is closed.
EmitRead(w) ==
    LET j == work[w]
    IN  /\ j.pc = "await" /\ Streams(j.rec) /\ ~j.cut
        /\ ~IsTerminal(records[j.exec].status)
        /\ records[j.exec].rev < MaxRevision
        /\ work' = [work EXCEPT ![w].pc = "emit", ![w].rec = records[j.exec]]
        /\ UNCHANGED <<storeVars, scan, active, lease, envVars, lifeVars>>

EmitSave(w) ==
    LET j == work[w]
        r == [j.rec EXCEPT !.rev = @ + 1]
    IN  /\ j.pc = "emit"
        /\ IF SaveResult(j.exec, r, "none") = "ok" /\ ~j.cut
           THEN /\ Write(j.exec, r, "none")
                /\ work' = [work EXCEPT ![w].pc = "await", ![w].rec = r,
                                        ![w].spoke = TRUE]
           ELSE /\ work' = [work EXCEPT ![w].pc = "await"]
                /\ UNCHANGED storeVars
        /\ UNCHANGED <<scan, active, lease, envVars, lifeVars>>

-----------------------------------------------------------------------------
(* The recovery loop (RunRecovery, RecoverOnce, recoverRecordOnce).        *)

List(i) ==
    LET w == Loop(i)
        open == {e \in Admitted : ~IsTerminal(records[e].status)}
    IN  /\ i \in up /\ ~Busy(w) /\ scan[i] = {} /\ open # {}
        /\ scan' = [scan EXCEPT ![i] = {<<e, records[e]>> : e \in open}]
        /\ UNCHANGED <<storeVars, work, active, lease, envVars, lifeVars>>

\* Faulty variant: any schedule of the execution that has passed will do.
DueOnce(e, r) ==
    "overdue" \in clock[e] \/ Spent(e, r) \/ ~r.waits \/ ripe[e] # 0

\* recoveryDue, decided on the snapshot.
Due(e, r) ==
    "overdue" \in clock[e] \/ Spent(e, r) \/ ~r.waits \/ r.rev <= ripe[e]

\* The first decisions of recoverRecordOnce, up to the next provider call.
Recover(i, e, r) ==
    LET w == Loop(i)
        saves == IF "overdue" \in clock[e] THEN Transition(r, "expired")
                 ELSE IF Spent(e, r) THEN Fail(r)
                 ELSE IF r.status = "waiting_retry"
                      THEN Note([r EXCEPT !.waits = FALSE], "retry.started")
                      ELSE <<>>
        next == IF "overdue" \in clock[e] \/ Spent(e, r) THEN "done"
                ELSE IF r.task = NoTask THEN "execute"
                ELSE IF r.cancelling THEN "cancelcall" ELSE "poll"
    IN  /\ lease' = [lease EXCEPT ![e] = w]
        /\ work' = [work EXCEPT ![w] =
                      [NewJob(i, e, r, IF saves = <<>> THEN next ELSE "save")
                         EXCEPT !.todo = saves, !.next = next]]
        /\ UNCHANGED active

\* Faulty variant: the loop is trusted to be alone.
TakeUnleased(i) ==
    /\ i \in up /\ ~Busy(Loop(i))
    /\ \E c \in scan[i] :
          /\ scan' = [scan EXCEPT ![i] = @ \ {c}]
          /\ IF c[1] \notin active[i] /\ Due(c[1], c[2])
             THEN Recover(i, c[1], c[2])
             ELSE UNCHANGED <<work, active, lease>>
    /\ UNCHANGED <<storeVars, envVars, lifeVars>>

\* The next record of the snapshot: skipped while this process executes it,
\* before it is due, or when its lease is taken.
Take(i) ==
    /\ i \in up /\ ~Busy(Loop(i))
    /\ \E c \in scan[i] :
          /\ scan' = [scan EXCEPT ![i] = @ \ {c}]
          /\ IF c[1] \notin active[i] /\ Due(c[1], c[2]) /\ lease[c[1]] = Free
             THEN Recover(i, c[1], c[2])
             ELSE UNCHANGED <<work, active, lease>>
    /\ UNCHANGED <<storeVars, envVars, lifeVars>>

\* PollTask: a transport error backs off, an answer is applied.  Beyond
\* MaxRevision the provider answers with news only.
Poll(w) ==
    LET r == work[w].rec
        s == upstream[r.task]
    IN  /\ work[w].pc = "poll" /\ ~work[w].cut
        /\ \/ r.rev < MaxRevision
              /\ Proceed(w, r, Note([r EXCEPT !.waits = TRUE], "none"), "done")
           \/ \E later, sound \in BOOLEAN :
                 /\ s = r.status => r.rev < MaxRevision
                 /\ s \in {"queued", "running"} => sound
                 /\ Proceed(w, r, Observe([r EXCEPT !.waits = later], s, sound), "done")
        /\ UNCHANGED <<storeVars, envVars, lifeVars>>

\* cancelProviderTaskOnce: the call fails and is retried later, or the
\* provider answers, having cancelled the task or not.
CancelCall(w) ==
    LET held == work[w].rec
        r == [held EXCEPT !.waits = TRUE]
        t == r.task
        ended == upstream[t] \in TerminalStatus
    IN  /\ work[w].pc = "cancelcall"
        /\ \/ /\ r.rev < MaxRevision \/ work[w].cut
              /\ Proceed(w, held, Saves([r EXCEPT !.rev = @ + 1], "none", "detached"), "done")
              /\ UNCHANGED upstream
           \/ /\ ~ended /\ ~work[w].cut
              /\ upstream' = [upstream EXCEPT ![t] = "cancelled"]
              /\ Proceed(w, held, Observe(r, "cancelled", TRUE), "done")
           \/ /\ ended \/ r.rev < MaxRevision
              /\ ~work[w].cut
              /\ \E sound \in BOOLEAN :
                    Proceed(w, held, Observe(r, upstream[t], sound), "done")
              /\ UNCHANGED upstream
        /\ UNCHANGED <<storeVars, calls, clock, ripe, lifeVars>>

-----------------------------------------------------------------------------
(* Cancel.  It takes no lease: only the revision orders it with others.    *)

Cancellable(i, e) ==
    \E w \in Worker : Busy(w) /\ work[w].host = i /\ work[w].exec = e /\ work[w].sync

\* Faulty variant: the intent is only remembered.
IntentUnsaved(r) == <<>>

\* The cancellation intent is saved before the provider hears of it.
Intent(r) ==
    IF r.cancelling THEN <<>>
    ELSE Note([r EXCEPT !.cancelling = TRUE, !.waits = FALSE],
              "execution.cancellation.requested")

Cancel(i, e) ==
    LET w == Canceller(e)  r == records[e]
        Begin(saves, next) ==
            work' = [work EXCEPT ![w] =
                       [NewJob(i, e, r, IF saves = <<>> THEN next ELSE "save")
                          EXCEPT !.todo = saves, !.next = next]]
        abort == Note(r, "retry.aborted")
    IN  /\ i \in up /\ ~Busy(w) /\ cancels < scenario.cancels
        /\ e \in Admitted /\ ~IsTerminal(r.status)
        /\ \/ /\ r.task # NoTask
              /\ Begin(Intent(r), "cancelcall")
           \/ /\ r.status = "waiting_retry" /\ r.task = NoTask
              /\ Begin(abort \o Transition(After(r, abort), "cancelled"), "done")
           \/ /\ r.status = "running" /\ r.task = NoTask /\ Cancellable(i, e)
              /\ Begin(Transition(r, "cancelled"), "cut")
           \/ /\ r.status \in {"accepted", "preparing_inputs"} /\ r.task = NoTask
              /\ Begin(Transition(r, "cancelled"), "done")
        /\ cancels' = cancels + 1
        /\ UNCHANGED <<storeVars, scan, active, lease, envVars,
                       up, deaths, exits, pauses, scenario>>

\* The registered cancel function of this process.
Cut(w) ==
    LET j == work[w]
        Hit(v) == Busy(v) /\ v # w /\ work[v].host = j.host
                    /\ work[v].exec = j.exec /\ work[v].sync
    IN  /\ j.pc = "cut"
        /\ work' = [v \in Worker |->
                      IF v = w THEN Idle
                      ELSE IF Hit(v) THEN [work[v] EXCEPT !.cut = TRUE]
                      ELSE work[v]]
        /\ UNCHANGED <<storeVars, scan, active, lease, envVars, lifeVars>>

-----------------------------------------------------------------------------
(* Time, failures and the provider.                                        *)

\* A lease of a dead process expires; under a live one only when heartbeats
\* stall for a whole TTL.
LeaseExpires(e) ==
    /\ \/ lease[e] = Gone /\ UNCHANGED pauses
       \/ lease[e] \in Worker /\ pauses < scenario.pauses /\ pauses' = pauses + 1
    /\ lease' = [lease EXCEPT ![e] = Free]
    /\ UNCHANGED <<storeVars, work, scan, active, envVars,
                   up, deaths, exits, cancels, scenario>>

\* The heartbeat cannot renew and cancels the worker's context.
HeartbeatLost(w) ==
    /\ Busy(w) /\ ~IsCanceller(w) /\ work[w].pc # "admit" /\ ~work[w].cut
    /\ lease[work[w].exec] # w
    /\ work' = [work EXCEPT ![w].cut = TRUE]
    /\ UNCHANGED <<storeVars, scan, active, lease, envVars, lifeVars>>

Crash(i) ==
    /\ i \in up /\ deaths < scenario.deaths
    /\ Stop(i)
    /\ deaths' = deaths + 1
    /\ UNCHANGED <<storeVars, envVars, exits, pauses, cancels, scenario>>

Restart(i) ==
    /\ i \in scenario.instances \ up
    /\ up' = up \cup {i}
    /\ UNCHANGED <<storeVars, procVars, envVars, deaths, exits, pauses, cancels, scenario>>

\* NextRetryAt, PollAfter or CancellationAfter of the current version passes.
Ripen(e) ==
    /\ e \in Admitted /\ records[e].status \in OpenStatus
    /\ records[e].waits /\ ripe[e] < records[e].rev
    /\ ripe' = [ripe EXCEPT ![e] = records[e].rev]
    /\ UNCHANGED <<storeVars, procVars, upstream, calls, clock, lifeVars>>

\* The budget's deadline, or the retention limit, of an execution passes.
Age(e, deadline) ==
    /\ e \in Admitted /\ deadline \notin clock[e] /\ ~IsTerminal(records[e].status)
    /\ deadline = "spent" => records[e].request.budget
    /\ clock' = [clock EXCEPT ![e] = @ \cup {deadline}]
    /\ UNCHANGED <<storeVars, procVars, upstream, calls, ripe, lifeVars>>

\* The provider works on its task.
Advance(t) ==
    /\ \/ /\ upstream[t] = "queued"
          /\ upstream' = [upstream EXCEPT ![t] = "running"]
       \/ /\ upstream[t] = "running"
          /\ \E s \in {"succeeded", "partially_succeeded", "failed"} :
                upstream' = [upstream EXCEPT ![t] = s]
    /\ UNCHANGED <<storeVars, procVars, calls, clock, ripe, lifeVars>>

-----------------------------------------------------------------------------
Step(w) ==
    \/ Save(w) \/ Admit(w) \/ Execute(w) \/ Materialize(w) \/ Ready(w)
    \/ Dispatch(w) \/ Return(w) \/ GiveUp(w) \/ EmitRead(w) \/ EmitSave(w)
    \/ Poll(w) \/ CancelCall(w) \/ Cut(w)

Next ==
    \/ \E i \in Instance, e \in Execution, q \in Requests : Create(i, e, q)
    \/ \E w \in Worker : Step(w) \/ HeartbeatLost(w)
    \/ \E i \in Instance : List(i) \/ Take(i) \/ Crash(i) \/ Restart(i)
    \/ \E i \in Instance, e \in Execution : Cancel(i, e)
    \/ \E e \in Execution : LeaseExpires(e) \/ Ripen(e)
    \/ \E e \in Execution, d \in {"spent", "overdue"} : Age(e, d)
    \/ \E t \in Task : Advance(t)

Spec == Init /\ [][Next]_vars

(* Goroutines run, supervisors restart processes, leases of dead processes *)
(* run out, schedules and retention limits pass, and providers finish      *)
(* their tasks.  Nothing is assumed of callers, crashes or the budget.     *)
Fairness ==
    /\ \A w \in Worker : WF_vars(Step(w))
    /\ \A i \in Instance : WF_vars(List(i)) /\ WF_vars(Take(i)) /\ WF_vars(Restart(i))
    /\ \A e \in Execution :
          /\ WF_vars(lease[e] = Gone /\ LeaseExpires(e))
          /\ WF_vars(Ripen(e))
          /\ WF_vars(Age(e, "overdue"))
    /\ \A t \in Task : WF_vars(Advance(t))

FairSpec == Spec /\ Fairness
=============================================================================
