------------------------- MODULE RefreshCoordinator -------------------------
(***************************************************************************)
(* refresh/coordinator.go and the lock registry of refresh/service.go: who *)
(* refreshes which provider instance, and when.  Triggers are deduplicated *)
(* by the pending set and wait in a bounded queue; workers take them out;  *)
(* HTTP handlers refresh an instance themselves without passing the queue. *)
(* What keeps two refreshes of one instance apart is a mutex per instance  *)
(* that is created on demand and dropped when its last user leaves.        *)
(***************************************************************************)
EXTENDS Naturals, Sequences, FiniteSets

CONSTANTS
    Instance,        \* provider instances
    Worker,          \* background workers
    Handler,         \* HTTP handlers that refresh synchronously
    QueueLimit,      \* 1024 in the code
    Free             \* no lock, no holder, nothing in hand

ASSUME QueueLimitPositive == QueueLimit \in Nat \ {0}

Refresher == Worker \cup Handler

ASSUME RefresherAssumption ==
    /\ IsFiniteSet(Refresher) /\ Worker \cap Handler = {}
    /\ Free \notin Instance \cup Refresher \cup Nat

VARIABLES
    due,             \* instances whose jitter timer of a scan is running
    pending,         \* the deduplication set
    entering,        \* triggers between marking pending and the queue
    queue,
    hand,            \* the instance a refresher works on
    step,            \* where in the refresh it is
    registry,        \* instance -> its current lock, if any
    mine,            \* refresher -> the lock it took out of the registry
    references,      \* lock -> users, waiting or active
    holder           \* lock -> the refresher that holds its mutex

vars == <<due, pending, entering, queue, hand, step, registry, mine, references, holder>>
scheduling == <<due, pending, entering, queue>>
locking == <<registry, mine, references, holder>>

(* A lock is used again once nobody refers to it; one per refresher is     *)
(* enough for a fresh one to be there always.                              *)
Lock == 1..(Cardinality(Refresher) + 1)

Init ==
    /\ due = {} /\ pending = {} /\ entering = {} /\ queue = <<>>
    /\ hand = [r \in Refresher |-> Free]
    /\ step = [r \in Refresher |-> "idle"]
    /\ registry = [i \in Instance |-> Free]
    /\ mine = [r \in Refresher |-> Free]
    /\ references = [l \in Lock |-> 0]
    /\ holder = [l \in Lock |-> Free]

----------------------------------------------------------------------------
(* Scheduling.                                                             *)

(* scheduleAll: a jitter timer for every instance.                         *)
Scan ==
    /\ due' = Instance
    /\ UNCHANGED <<pending, entering, queue, hand, step, locking>>

\* Faulty variant: an instance that is queued or refreshed is taken again.
AdmitsUnqueued(i) == i \notin entering

(* Trigger, by a timer or by the HTTP API: an instance that is queued or   *)
(* being refreshed already is skipped.                                     *)
Admits(i) == i \notin pending

Trigger(i) ==
    /\ IF Admits(i)
       THEN pending' = pending \cup {i} /\ entering' = entering \cup {i}
       ELSE UNCHANGED <<pending, entering>>
    /\ UNCHANGED <<queue, hand, step, locking>>

TimerFires(i) == i \in due /\ due' = due \ {i} /\ Trigger(i)
ApiTriggers(i) == UNCHANGED due /\ Trigger(i)

(* The send on the queue's channel; a full queue rejects the trigger.      *)
HasRoom == Len(queue) < QueueLimit

Enqueue(i) ==
    /\ i \in entering
    /\ entering' = entering \ {i}
    /\ IF HasRoom
       THEN queue' = Append(queue, i) /\ UNCHANGED pending
       ELSE pending' = pending \ {i} /\ UNCHANGED queue
    /\ UNCHANGED <<due, hand, step, locking>>

Take(w) ==
    /\ step[w] = "idle" /\ queue # <<>>
    /\ hand' = [hand EXCEPT ![w] = Head(queue)]
    /\ step' = [step EXCEPT ![w] = "enter"]
    /\ queue' = Tail(queue)
    /\ UNCHANGED <<due, pending, entering, locking>>

HandlerStarts(h, i) ==
    /\ step[h] = "idle"
    /\ hand' = [hand EXCEPT ![h] = i]
    /\ step' = [step EXCEPT ![h] = "enter"]
    /\ UNCHANGED <<scheduling, locking>>

----------------------------------------------------------------------------
(* The refresh, between lockInstanceRefresh and the release it returns.    *)

(* Under the registry's mutex: find or create the lock, and count in.      *)
Enter(r) ==
    LET i == hand[r]
        unused == {l \in Lock : references[l] = 0 /\ holder[l] = Free /\ \A j \in Instance : registry[j] # l}
        lock == IF registry[i] # Free THEN registry[i] ELSE CHOOSE l \in unused : TRUE
    IN /\ step[r] = "enter"
       /\ registry' = [registry EXCEPT ![i] = lock]
       /\ mine' = [mine EXCEPT ![r] = lock]
       /\ references' = [references EXCEPT ![lock] = @ + 1]
       /\ step' = [step EXCEPT ![r] = "wait"]
       /\ UNCHANGED <<scheduling, hand, holder>>

Acquire(r) ==
    /\ step[r] = "wait" /\ holder[mine[r]] = Free
    /\ holder' = [holder EXCEPT ![mine[r]] = r]
    /\ step' = [step EXCEPT ![r] = "refresh"]
    /\ UNCHANGED <<scheduling, hand, registry, mine, references>>

(* The refresh has ended, by its result or by its timeout.                 *)
Unlock(r) ==
    /\ step[r] = "refresh"
    /\ holder' = [holder EXCEPT ![mine[r]] = Free]
    /\ step' = [step EXCEPT ![r] = "leave"]
    /\ UNCHANGED <<scheduling, hand, registry, mine, references>>

\* Faulty variant: the lock is dropped as soon as nobody holds it.
NotHeld(l) == holder[l] = Free

(* Count out, and drop the lock with its last user.                        *)
Droppable(l) == references[l] = 1

Leave(r) ==
    LET i == hand[r]
        lock == mine[r]
    IN /\ step[r] = "leave"
       /\ references' = [references EXCEPT ![lock] = @ - 1]
       /\ registry' = IF Droppable(lock) /\ registry[i] = lock
                      THEN [registry EXCEPT ![i] = Free] ELSE registry
       /\ mine' = [mine EXCEPT ![r] = Free]
       /\ step' = [step EXCEPT ![r] = "finish"]
       /\ UNCHANGED <<scheduling, hand, holder>>

\* Faulty variant: a worker ends with its first refresh.
FinishAndStop(r) ==
    /\ step[r] = "finish"
    /\ pending' = IF r \in Worker THEN pending \ {hand[r]} ELSE pending
    /\ hand' = [hand EXCEPT ![r] = Free]
    /\ step' = [step EXCEPT ![r] = IF r \in Worker THEN "stopped" ELSE "idle"]
    /\ UNCHANGED <<due, entering, queue, locking>>

(* A worker takes the instance out of the pending set, a handler answers.  *)
Finish(r) ==
    /\ step[r] = "finish"
    /\ pending' = IF r \in Worker THEN pending \ {hand[r]} ELSE pending
    /\ hand' = [hand EXCEPT ![r] = Free]
    /\ step' = [step EXCEPT ![r] = "idle"]
    /\ UNCHANGED <<due, entering, queue, locking>>

----------------------------------------------------------------------------
Scheduling == Scan \/ \E i \in Instance : TimerFires(i) \/ ApiTriggers(i) \/ Enqueue(i)
Moving(r) == Enter(r) \/ Unlock(r) \/ Leave(r) \/ Finish(r)

Next ==
    \/ Scheduling
    \/ \E w \in Worker : Take(w)
    \/ \E h \in Handler, i \in Instance : HandlerStarts(h, i)
    \/ \E r \in Refresher : Moving(r) \/ Acquire(r)

Spec == Init /\ [][Next]_vars

(* Goroutines run, a refresh has a timeout, and a waiter is not passed     *)
(* over forever (sync.Mutex hands itself to one that waits for too long).  *)
(* Nothing makes a trigger, a scan or a request come.                      *)
Fairness ==
    /\ WF_vars(\E w \in Worker : Take(w))
    /\ \A r \in Refresher : WF_vars(Moving(r)) /\ SF_vars(Acquire(r))

FairSpec == Spec /\ Fairness

----------------------------------------------------------------------------
TypeOK ==
    /\ due \subseteq Instance /\ pending \subseteq Instance /\ entering \subseteq Instance
    /\ queue \in Seq(Instance) /\ Len(queue) <= QueueLimit
    /\ hand \in [Refresher -> Instance \cup {Free}]
    /\ step \in [Refresher -> {"idle", "enter", "wait", "refresh", "leave", "finish"}]
    /\ registry \in [Instance -> Lock \cup {Free}]
    /\ mine \in [Refresher -> Lock \cup {Free}]
    /\ references \in [Lock -> 0..Cardinality(Refresher)]
    /\ holder \in [Lock -> Refresher \cup {Free}]

(* At most one refresher is at work on an instance, background or HTTP,    *)
(* although locks come and go with their users.                            *)
OneRefresher ==
    \A r, s \in Refresher :
        step[r] = "refresh" /\ step[s] = "refresh" /\ hand[r] = hand[s] => r = s

(* The pending set is exact: an instance is in it when it is on its way to *)
(* the queue, queued, or with a worker, and it is in one of these places   *)
(* only.                                                                   *)
Places(i) ==
    (IF i \in entering THEN 1 ELSE 0)
    + Cardinality({n \in DOMAIN queue : queue[n] = i})
    + Cardinality({w \in Worker : hand[w] = i})
PendingExact == \A i \in Instance : Places(i) = IF i \in pending THEN 1 ELSE 0

(* A trigger that was accepted is taken up: a worker takes the instance    *)
(* out of the queue and comes to its refresh, for which it holds the lock  *)
(* here.  That the refresh succeeds it does not say, and Refresh may end   *)
(* before it asks for the lock, for want of a credential that can be read  *)
(* or by an error (refresh/service.go:158), or when it has it, because its *)
(* context ended while it waited (refresh/service.go:247).                 *)
AcceptedIsRefreshed ==
    \A i \in Instance :
        (\E n \in DOMAIN queue : queue[n] = i)
            ~> (\E w \in Worker : hand[w] = i /\ step[w] = "refresh")
=============================================================================
