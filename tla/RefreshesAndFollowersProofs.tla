---------------------- MODULE RefreshesAndFollowersProofs ----------------------
(***************************************************************************)
(* Proofs about RefreshCoordinator, for any instances, workers and         *)
(* handlers and a queue of any length, and about EventFollower, for any    *)
(* clients, logs and breaks.                                               *)
(***************************************************************************)
EXTENDS EventFollower, RefreshCoordinator, FiniteSetTheorems, SequenceTheorems, TLAPS

-----------------------------------------------------------------------------
(* Locks: the inductive invariant.                                         *)

UsersOf(m, l) == {r \in Refresher : m[r] = l}

HandsFit ==
    \A r \in Refresher : /\ step[r] = "idle" <=> hand[r] = Free
                         /\ mine[r] = Free <=> step[r] \notin {"wait", "refresh", "leave"}

(* A lock stays in the registry as long as someone refers to it, and it    *)
(* is there for one instance only.                                         *)
LocksFit ==
    /\ \A r \in Refresher : mine[r] # Free => registry[hand[r]] = mine[r]
    /\ \A i, j \in Instance : registry[i] = registry[j] /\ registry[i] # Free => i = j
    /\ \A i \in Instance : registry[i] # Free => \E r \in Refresher : mine[r] = registry[i]

Counted == \A l \in Lock : references[l] = Cardinality(UsersOf(mine, l))

HoldersFit ==
    /\ \A r \in Refresher : step[r] = "refresh" => holder[mine[r]] = r
    /\ \A l \in Lock : holder[l] # Free => step[holder[l]] = "refresh" /\ mine[holder[l]] = l

LockInv == TypeOK /\ HandsFit /\ LocksFit /\ Counted /\ HoldersFit

-----------------------------------------------------------------------------
(* Counting.                                                               *)

LEMMA UsersFinite ==
    ASSUME NEW m, NEW l
    PROVE  /\ Cardinality(Refresher) \in Nat
           /\ IsFiniteSet(UsersOf(m, l))
           /\ Cardinality(UsersOf(m, l)) \in 0..Cardinality(Refresher)
           /\ Cardinality(UsersOf(m, l)) = 0 <=> UsersOf(m, l) = {}
  <1>1. IsFiniteSet(Refresher) /\ Cardinality(Refresher) \in Nat
    BY RefresherAssumption, FS_CardinalityType
  <1>2. UsersOf(m, l) \subseteq Refresher
    BY DEF UsersOf
  <1>3. IsFiniteSet(UsersOf(m, l)) /\ Cardinality(UsersOf(m, l)) <= Cardinality(Refresher)
    BY <1>1, <1>2, FS_Subset
  <1>4. Cardinality(UsersOf(m, l)) \in Nat
    BY <1>3, FS_CardinalityType
  <1> QED
    BY <1>1, <1>3, <1>4, FS_EmptySet

(* One refresher changes its lock.                                         *)
LEMMA OneChanges ==
    ASSUME NEW m, NEW n, NEW r \in Refresher, n[r] # m[r],
           \A s \in Refresher \ {r} : n[s] = m[s]
    PROVE  /\ Cardinality(UsersOf(n, n[r])) = Cardinality(UsersOf(m, n[r])) + 1
           /\ Cardinality(UsersOf(n, m[r])) = Cardinality(UsersOf(m, m[r])) - 1
           /\ \A k : k # n[r] /\ k # m[r] => UsersOf(n, k) = UsersOf(m, k)
  <1>1. UsersOf(n, n[r]) = UsersOf(m, n[r]) \cup {r} /\ r \notin UsersOf(m, n[r])
    BY DEF UsersOf
  <1>2. UsersOf(n, m[r]) = UsersOf(m, m[r]) \ {r} /\ r \in UsersOf(m, m[r])
    BY DEF UsersOf
  <1>3. \A k : k # n[r] /\ k # m[r] => UsersOf(n, k) = UsersOf(m, k)
    BY DEF UsersOf
  <1>4. Cardinality(UsersOf(n, n[r])) = Cardinality(UsersOf(m, n[r])) + 1
    BY <1>1, UsersFinite, FS_AddElement
  <1>5. Cardinality(UsersOf(n, m[r])) = Cardinality(UsersOf(m, m[r])) - 1
    <2>1. PICK U : U = UsersOf(m, m[r])
      OBVIOUS
    <2>2. IsFiniteSet(U)
      BY <2>1, UsersFinite
    <2> QED
      BY <1>2, <2>1, <2>2, FS_RemoveElement
  <1> QED
    BY <1>3, <1>4, <1>5

LEMMA OnlyUser ==
    ASSUME NEW m, NEW l, Cardinality(UsersOf(m, l)) = 1,
           NEW r \in Refresher, m[r] = l, NEW s \in Refresher, m[s] = l
    PROVE  s = r
  <1>1. PICK x : UsersOf(m, l) = {x}
    BY UsersFinite, FS_Singleton
  <1> QED
    BY <1>1 DEF UsersOf

(* There is a lock nobody refers to: there are more locks than refreshers. *)
LEMMA SomeLockIsUnused ==
    ASSUME LockInv
    PROVE  \E l \in Lock : /\ references[l] = 0 /\ holder[l] = Free
                           /\ \A j \in Instance : registry[j] # l
  <1>1. PICK l \in Lock : \A s \in Refresher : mine[s] # l
    <2>1. IsFiniteSet(Refresher) /\ Cardinality(Refresher) \in Nat
      BY RefresherAssumption, FS_CardinalityType
    <2>2. IsFiniteSet(Lock) /\ Cardinality(Lock) = Cardinality(Refresher) + 1
      BY <2>1, FS_Interval DEF Lock
    <2>3. ASSUME \A k \in Lock : \E s \in Refresher : mine[s] = k
          PROVE  FALSE
      <3> DEFINE f == [k \in Lock |-> CHOOSE s \in Refresher : mine[s] = k]
      <3>1. f \in [Lock -> Refresher] /\ \A k \in Lock : mine[f[k]] = k
        BY <2>3
      <3> HIDE DEF f
      <3>2. \E x, y \in Lock : x # y /\ f[x] = f[y]
        BY <2>1, <2>2, <3>1, FS_PigeonHole
      <3> QED
        BY <3>1, <3>2
    <2> QED
      BY <2>3
  <1>2. UsersOf(mine, l) = {}
    BY <1>1 DEF UsersOf
  <1>3. references[l] = 0
    BY <1>2, UsersFinite DEF LockInv, Counted
  <1>4. holder[l] = Free
    <2>1. holder[l] \in Refresher \cup {Free}
      BY DEF LockInv, TypeOK
    <2> QED
      BY <1>1, <2>1 DEF LockInv, HoldersFit
  <1>5. \A j \in Instance : registry[j] # l
    <2>1. l # Free
      BY RefresherAssumption, UsersFinite DEF Lock
    <2> QED
      BY <1>1, <2>1 DEF LockInv, LocksFit
  <1> QED
    BY <1>3, <1>4, <1>5

-----------------------------------------------------------------------------
(* Every step keeps the locks in order.                                    *)

LEMMA EnterKeepsLocks ==
    ASSUME LockInv, NEW r \in Refresher, Enter(r)
    PROVE  LockInv'
  <1>1. PICK i \in Instance : i = hand[r] /\ step[r] = "enter" /\ mine[r] = Free
    BY DEF LockInv, TypeOK, HandsFit, Enter
  <1>2. PICK l \in Lock :
            /\ l # Free
            /\ \/ registry[i] = l
               \/ /\ registry[i] = Free /\ references[l] = 0 /\ holder[l] = Free
                  /\ \A j \in Instance : registry[j] # l
            /\ registry' = [registry EXCEPT ![i] = l] /\ mine' = [mine EXCEPT ![r] = l]
            /\ references' = [references EXCEPT ![l] = @ + 1]
    <2>1. \A l \in Lock : l # Free
      BY RefresherAssumption, UsersFinite DEF Lock
    <2>2. registry[i] \in Lock \cup {Free}
      BY DEF LockInv, TypeOK
    <2> DEFINE unused == {l \in Lock : /\ references[l] = 0 /\ holder[l] = Free
                                       /\ \A j \in Instance : registry[j] # l}
    <2>3. CASE registry[i] # Free
      BY <1>1, <2>1, <2>2, <2>3 DEF Enter
    <2>4. CASE registry[i] = Free
      <3>1. (CHOOSE l \in unused : TRUE) \in unused
        BY SomeLockIsUnused
      <3>2. /\ registry' = [registry EXCEPT ![i] = CHOOSE l \in unused : TRUE]
            /\ mine' = [mine EXCEPT ![r] = CHOOSE l \in unused : TRUE]
            /\ references' = [references EXCEPT ![CHOOSE l \in unused : TRUE] = @ + 1]
        BY <1>1, <2>4 DEF Enter
      <3> QED
        BY <2>1, <2>4, <3>1, <3>2
    <2> QED
      BY <2>3, <2>4
  <1>3. /\ step' = [step EXCEPT ![r] = "wait"]
        /\ UNCHANGED <<due, pending, entering, queue, hand, holder>>
    BY DEF Enter, scheduling
  <1>4. /\ mine \in [Refresher -> Lock \cup {Free}] /\ mine' \in [Refresher -> Lock \cup {Free}]
        /\ registry \in [Instance -> Lock \cup {Free}] /\ registry' \in [Instance -> Lock \cup {Free}]
        /\ references \in [Lock -> 0..Cardinality(Refresher)]
        /\ \A s \in Refresher : s # r => mine'[s] = mine[s] /\ step'[s] = step[s]
        /\ mine'[r] = l /\ step'[r] = "wait" /\ registry'[i] = l
        /\ \A j \in Instance : j # i => registry'[j] = registry[j]
    BY <1>2, <1>3 DEF LockInv, TypeOK
  <1>5. Counted'
    <2>0. PICK m, n : m = mine /\ n = mine'
      OBVIOUS
    <2>a. /\ n[r] = l /\ \A s \in Refresher \ {r} : n[s] = m[s]
          /\ m[r] = Free
      BY <2>0, <1>1, <1>2, <1>4
    <2>b. n[r] # m[r]
      BY <1>2, <2>a
    <2>c. /\ Cardinality(UsersOf(n, n[r])) = Cardinality(UsersOf(m, n[r])) + 1
          /\ Cardinality(UsersOf(n, m[r])) = Cardinality(UsersOf(m, m[r])) - 1
          /\ \A k : k # n[r] /\ k # m[r] => UsersOf(n, k) = UsersOf(m, k)
      BY <2>a, <2>b, OneChanges
    <2>1. /\ Cardinality(UsersOf(n, l)) = Cardinality(UsersOf(m, l)) + 1
          /\ \A k : k # l /\ k # Free => UsersOf(n, k) = UsersOf(m, k)
      BY <2>a, <2>c
    <2>2. \A k \in Lock : k # Free
      BY RefresherAssumption, UsersFinite DEF Lock
    <2>3. references'[l] = references[l] + 1 /\ \A k \in Lock \ {l} : references'[k] = references[k]
      BY <1>2, <1>4
    <2> QED
      BY <2>0, <2>1, <2>2, <2>3 DEF LockInv, Counted
  <1>6. TypeOK'
    <2>1. references' \in [Lock -> 0..Cardinality(Refresher)]
      <3>1. \A k \in Lock : references'[k] \in 0..Cardinality(Refresher)
        BY <1>5, UsersFinite DEF Counted
      <3> QED
        BY <1>2, <1>4, <3>1
    <2> QED
      BY <1>3, <1>4, <2>1 DEF LockInv, TypeOK
  <1>7. HandsFit'
    BY <1>1, <1>2, <1>3, <1>4 DEF LockInv, HandsFit
  <1>8. LocksFit'
    <2>1. \A s \in Refresher : mine'[s] # Free => registry'[hand'[s]] = mine'[s]
      <3>1. ASSUME NEW s \in Refresher, mine[s] # Free PROVE hand[s] \in Instance
        BY <3>1 DEF LockInv, HandsFit, TypeOK
      <3> QED
        BY <1>1, <1>2, <1>3, <1>4, <3>1 DEF LockInv, LocksFit
    <2>2. \A j, k \in Instance : registry'[j] = registry'[k] /\ registry'[j] # Free => j = k
      BY <1>2, <1>4 DEF LockInv, LocksFit
    <2>3. \A j \in Instance : registry'[j] # Free => \E s \in Refresher : mine'[s] = registry'[j]
      BY <1>1, <1>2, <1>4 DEF LockInv, LocksFit
    <2> QED
      BY <2>1, <2>2, <2>3 DEF LocksFit
  <1>9. HoldersFit'
    BY <1>1, <1>2, <1>3, <1>4 DEF LockInv, HoldersFit, TypeOK
  <1> QED
    BY <1>5, <1>6, <1>7, <1>8, <1>9 DEF LockInv

LEMMA AcquireKeepsLocks ==
    ASSUME LockInv, NEW r \in Refresher, Acquire(r) \/ Unlock(r)
    PROVE  LockInv'
  <1>1. PICK l \in Lock : l = mine[r] /\ l # Free
    BY DEF LockInv, TypeOK, HandsFit, Acquire, Unlock
  <1>2. UNCHANGED <<due, pending, entering, queue, hand, registry, mine, references>>
    BY DEF Acquire, Unlock, scheduling
  <1>3. r # Free
    BY RefresherAssumption
  <1>4. LocksFit' /\ Counted'
    BY <1>2 DEF LockInv, LocksFit, Counted
  <1>5. CASE Acquire(r)
    <2>1. /\ step[r] = "wait" /\ holder[l] = Free
          /\ holder' = [holder EXCEPT ![l] = r] /\ step' = [step EXCEPT ![r] = "refresh"]
      BY <1>1, <1>5 DEF Acquire
    <2>2. TypeOK' /\ HandsFit'
      BY <1>2, <2>1 DEF LockInv, TypeOK, HandsFit
    <2>3. \A s \in Refresher : step'[s] = "refresh" => holder'[mine'[s]] = s
      <3>1. holder'[l] = r /\ \A k \in Lock : k # l => holder'[k] = holder[k]
        BY <2>1 DEF LockInv, TypeOK
      <3>2. ASSUME NEW s \in Refresher, step'[s] = "refresh", s # r
            PROVE  holder'[mine'[s]] = s
        <4>1. step[s] = "refresh" /\ mine[s] \in Lock /\ holder[mine[s]] = s
          BY <2>1, <3>2 DEF LockInv, TypeOK, HandsFit, HoldersFit
        <4>2. mine[s] # l
          BY <2>1, <4>1, RefresherAssumption
        <4> QED
          BY <1>2, <3>1, <4>1, <4>2
      <3> QED
        BY <1>1, <1>2, <3>1, <3>2
    <2>4. \A k \in Lock : holder'[k] # Free => step'[holder'[k]] = "refresh" /\ mine'[holder'[k]] = k
      BY <1>1, <1>2, <1>3, <2>1 DEF LockInv, TypeOK, HoldersFit
    <2> QED
      BY <1>4, <2>2, <2>3, <2>4 DEF LockInv, HoldersFit
  <1>6. CASE Unlock(r)
    <2>1. /\ step[r] = "refresh" /\ holder[l] = r
          /\ holder' = [holder EXCEPT ![l] = Free] /\ step' = [step EXCEPT ![r] = "leave"]
      BY <1>1, <1>6 DEF LockInv, HoldersFit, Unlock
    <2>2. TypeOK' /\ HandsFit'
      BY <1>2, <2>1 DEF LockInv, TypeOK, HandsFit
    <2>3. HoldersFit'
      BY <1>1, <1>2, <1>3, <2>1 DEF LockInv, TypeOK, HoldersFit
    <2> QED
      BY <1>4, <2>2, <2>3 DEF LockInv
  <1> QED
    BY <1>5, <1>6

LEMMA LeaveKeepsLocks ==
    ASSUME LockInv, NEW r \in Refresher, Leave(r)
    PROVE  LockInv'
  <1>1. PICK l \in Lock, i \in Instance :
            l = mine[r] /\ l # Free /\ i = hand[r] /\ registry[i] = l /\ step[r] = "leave"
    BY DEF LockInv, TypeOK, HandsFit, LocksFit, Leave
  <1>2. /\ references' = [references EXCEPT ![l] = @ - 1]
        /\ registry' = IF references[l] = 1 THEN [registry EXCEPT ![i] = Free] ELSE registry
        /\ mine' = [mine EXCEPT ![r] = Free] /\ step' = [step EXCEPT ![r] = "finish"]
        /\ UNCHANGED <<due, pending, entering, queue, hand, holder>>
    BY <1>1 DEF Leave, Droppable, scheduling
  <1>3. /\ mine \in [Refresher -> Lock \cup {Free}] /\ mine' \in [Refresher -> Lock \cup {Free}]
        /\ registry \in [Instance -> Lock \cup {Free}] /\ registry' \in [Instance -> Lock \cup {Free}]
        /\ references \in [Lock -> 0..Cardinality(Refresher)]
        /\ \A s \in Refresher : s # r => mine'[s] = mine[s] /\ step'[s] = step[s]
        /\ mine'[r] = Free /\ step'[r] = "finish"
        /\ \A j \in Instance : j # i => registry'[j] = registry[j]
    BY <1>2 DEF LockInv, TypeOK
  <1>4. references[l] = Cardinality(UsersOf(mine, l))
    BY DEF LockInv, Counted
  <1>5. Counted'
    <2>0. PICK m, n : m = mine /\ n = mine'
      OBVIOUS
    <2>a. /\ n[r] = Free /\ \A s \in Refresher \ {r} : n[s] = m[s]
          /\ m[r] = l
      BY <2>0, <1>1, <1>2, <1>3
    <2>b. n[r] # m[r]
      BY <1>1, <2>a
    <2>c. /\ Cardinality(UsersOf(n, n[r])) = Cardinality(UsersOf(m, n[r])) + 1
          /\ Cardinality(UsersOf(n, m[r])) = Cardinality(UsersOf(m, m[r])) - 1
          /\ \A k : k # n[r] /\ k # m[r] => UsersOf(n, k) = UsersOf(m, k)
      BY <2>a, <2>b, OneChanges
    <2>1. /\ Cardinality(UsersOf(n, l)) = Cardinality(UsersOf(m, l)) - 1
          /\ \A k : k # l /\ k # Free => UsersOf(n, k) = UsersOf(m, k)
      BY <2>a, <2>c
    <2>2. \A k \in Lock : k # Free
      BY RefresherAssumption, UsersFinite DEF Lock
    <2>3. references'[l] = references[l] - 1 /\ \A k \in Lock \ {l} : references'[k] = references[k]
      BY <1>2, <1>3
    <2> QED
      BY <2>0, <2>1, <2>2, <2>3 DEF LockInv, Counted
  <1>6. TypeOK'
    <2>1. references' \in [Lock -> 0..Cardinality(Refresher)]
      <3>1. \A k \in Lock : references'[k] \in 0..Cardinality(Refresher)
        BY <1>5, UsersFinite DEF Counted
      <3> QED
        BY <1>2, <1>3, <3>1
    <2> QED
      BY <1>2, <1>3, <2>1 DEF LockInv, TypeOK
  <1>7. HandsFit'
    BY <1>1, <1>2, <1>3 DEF LockInv, HandsFit
  <1>8. ASSUME NEW s \in Refresher, s # r, mine[s] = l
        PROVE  registry' = registry
    BY <1>1, <1>2, <1>4, <1>8, OnlyUser
  <1>9. LocksFit'
    <2>1. \A s \in Refresher : mine'[s] # Free => registry'[hand'[s]] = mine'[s]
      <3>1. ASSUME NEW s \in Refresher, mine'[s] # Free
            PROVE  registry'[hand'[s]] = mine'[s]
        <4>1. s # r /\ mine[s] = mine'[s] /\ hand[s] \in Instance /\ registry[hand[s]] = mine[s]
          BY <1>3, <3>1 DEF LockInv, HandsFit, TypeOK, LocksFit
        <4>2. CASE hand[s] = i
          BY <1>1, <1>2, <1>8, <4>1, <4>2
        <4>3. CASE hand[s] # i
          BY <1>2, <1>3, <4>1, <4>3
        <4> QED
          BY <4>2, <4>3
      <3> QED
        BY <3>1
    <2>2. \A j, k \in Instance : registry'[j] = registry'[k] /\ registry'[j] # Free => j = k
      BY <1>1, <1>2, <1>3 DEF LockInv, LocksFit
    <2>3. ASSUME NEW j \in Instance, registry'[j] # Free
          PROVE  \E s \in Refresher : mine'[s] = registry'[j]
      <3>1. registry'[j] = registry[j]
        BY <1>2, <1>3, <2>3
      <3>2. PICK s \in Refresher : mine[s] = registry[j]
        BY <2>3, <3>1 DEF LockInv, LocksFit
      <3>3. CASE s # r
        BY <1>3, <3>1, <3>2, <3>3
      <3>4. CASE s = r
        <4>1. j = i /\ references[l] # 1
          BY <1>1, <1>2, <1>3, <2>3, <3>1, <3>2, <3>4 DEF LockInv, LocksFit
        <4>2. \E t \in Refresher : t # r /\ mine[t] = l
          <5>1. SUFFICES ASSUME \A t \in Refresher : mine[t] = l => t = r PROVE FALSE
            OBVIOUS
          <5>2. UsersOf(mine, l) = {r}
            BY <1>1, <5>1 DEF UsersOf
          <5>3. Cardinality({r}) = 1
            BY FS_Singleton
          <5> QED
            BY <1>4, <4>1, <5>2, <5>3
        <4> QED
          BY <1>1, <1>3, <3>1, <4>1, <4>2
      <3> QED
        BY <3>3, <3>4
    <2> QED
      BY <2>1, <2>2, <2>3 DEF LocksFit
  <1>10. HoldersFit'
    BY <1>1, <1>2, <1>3 DEF LockInv, HoldersFit, TypeOK
  <1> QED
    BY <1>5, <1>6, <1>7, <1>9, <1>10 DEF LockInv

(* Steps that are no step of a refresh.                                    *)
LEMMA StartKeepsLocks ==
    ASSUME LockInv, TypeOK', NEW r \in Refresher, NEW i \in Instance, step[r] = "idle",
           hand' = [hand EXCEPT ![r] = i], step' = [step EXCEPT ![r] = "enter"],
           UNCHANGED locking
    PROVE  LockInv'
  <1>1. /\ UNCHANGED <<registry, mine, references, holder>> /\ i # Free /\ mine[r] = Free
        /\ hand'[r] = i /\ step'[r] = "enter"
        /\ \A s \in Refresher \ {r} : hand'[s] = hand[s] /\ step'[s] = step[s]
    BY RefresherAssumption DEF LockInv, TypeOK, HandsFit, locking
  <1>2. HandsFit'
    BY <1>1 DEF LockInv, HandsFit
  <1>3. LocksFit' /\ Counted'
    BY <1>1 DEF LockInv, LocksFit, Counted
  <1>4. HoldersFit'
    BY <1>1 DEF LockInv, TypeOK, HoldersFit
  <1> QED
    BY <1>2, <1>3, <1>4 DEF LockInv

LEMMA FinishKeepsLocks ==
    ASSUME LockInv, TypeOK', NEW r \in Refresher, Finish(r)
    PROVE  LockInv'
  <1>1. /\ UNCHANGED <<registry, mine, references, holder>> /\ step[r] = "finish" /\ mine[r] = Free
        /\ hand'[r] = Free /\ step'[r] = "idle"
        /\ \A s \in Refresher \ {r} : hand'[s] = hand[s] /\ step'[s] = step[s]
    BY DEF LockInv, TypeOK, HandsFit, locking, Finish
  <1>2. HandsFit'
    BY <1>1 DEF LockInv, HandsFit
  <1>3. LocksFit' /\ Counted'
    BY <1>1 DEF LockInv, LocksFit, Counted
  <1>4. HoldersFit'
    BY <1>1 DEF LockInv, TypeOK, HoldersFit
  <1> QED
    BY <1>2, <1>3, <1>4 DEF LockInv

LEMMA SchedulingKeepsLocks ==
    ASSUME LockInv, TypeOK', UNCHANGED <<hand, step, locking>>
    PROVE  LockInv'
  BY DEF LockInv, HandsFit, LocksFit, Counted, HoldersFit, locking

-----------------------------------------------------------------------------
(* The pending set.                                                        *)

Queued(i) == \E n \in DOMAIN queue : queue[n] = i
Busy(i) == \E w \in Worker : hand[w] = i

OnItsWay ==
    \A i \in Instance :
        /\ i \in pending <=> i \in entering \/ Queued(i) \/ Busy(i)
        /\ i \in entering => ~Queued(i) /\ ~Busy(i)
        /\ Queued(i) => ~Busy(i)

NoneTwice ==
    /\ \A m, n \in DOMAIN queue : queue[m] = queue[n] => m = n
    /\ \A v, w \in Worker : hand[v] = hand[w] /\ hand[v] # Free => v = w

PendingInv == OnItsWay /\ NoneTwice

RefreshInv == LockInv /\ PendingInv

LEMMA OneOrNone ==
    ASSUME NEW S, IsFiniteSet(S), NEW P, P \subseteq S, \A x, y \in P : x = y
    PROVE  Cardinality(P) = IF P = {} THEN 0 ELSE 1
  <1>1. IsFiniteSet(P)
    BY FS_Subset
  <1>2. CASE P = {}
    BY <1>2, FS_EmptySet
  <1>3. CASE P # {}
    <2>1. PICK x : P = {x}
      BY <1>3
    <2> QED
      BY <1>3, <2>1, FS_Singleton
  <1> QED
    BY <1>2, <1>3

LEMMA PendingIsExact == RefreshInv => PendingExact
  <1> SUFFICES ASSUME RefreshInv, NEW i \in Instance
               PROVE  Places(i) = IF i \in pending THEN 1 ELSE 0
    BY DEF PendingExact
  <1> DEFINE Q == {n \in DOMAIN queue : queue[n] = i}
             B == {w \in Worker : hand[w] = i}
  <1>1. Cardinality(Q) = IF Queued(i) THEN 1 ELSE 0
    <2>1. queue \in Seq(Instance) /\ Len(queue) \in Nat /\ DOMAIN queue = 1..Len(queue)
      BY LenProperties DEF RefreshInv, LockInv, TypeOK
    <2>2. IsFiniteSet(DOMAIN queue)
      BY <2>1, FS_Interval
    <2>3. \A x, y \in Q : x = y
      BY DEF RefreshInv, PendingInv, NoneTwice
    <2>4. Cardinality(Q) = IF Q = {} THEN 0 ELSE 1
      BY <2>2, <2>3, OneOrNone
    <2> QED
      BY <2>4 DEF Queued
  <1>2. Cardinality(B) = IF Busy(i) THEN 1 ELSE 0
    <2>1. IsFiniteSet(Worker)
      BY RefresherAssumption, FS_Subset DEF Refresher
    <2>2. \A x, y \in B : x = y
      BY RefresherAssumption DEF RefreshInv, PendingInv, NoneTwice
    <2>3. Cardinality(B) = IF B = {} THEN 0 ELSE 1
      BY <2>1, <2>2, OneOrNone
    <2> QED
      BY <2>3 DEF Busy
  <1>3. Places(i) = (IF i \in entering THEN 1 ELSE 0) + Cardinality(Q) + Cardinality(B)
    BY DEF Places
  <1> HIDE DEF Q, B
  <1> QED
    BY <1>1, <1>2, <1>3 DEF RefreshInv, PendingInv, OnItsWay

LEMMA InOneRefresh == LockInv => OneRefresher
  BY DEF LockInv, HandsFit, LocksFit, HoldersFit, OneRefresher

LEMMA RefreshStarts == Init => RefreshInv
  <1> SUFFICES ASSUME Init PROVE RefreshInv
    OBVIOUS
  <1>1. /\ Cardinality(Refresher) \in Nat
        /\ \A l \in Lock : l # Free
    BY UsersFinite, RefresherAssumption DEF Lock
  <1>2. TypeOK
    BY <1>1, QueueLimitPositive DEF Init, TypeOK
  <1>3. HandsFit /\ LocksFit /\ HoldersFit
    BY DEF Init, HandsFit, LocksFit, HoldersFit
  <1>4. Counted
    <2>1. ASSUME NEW l \in Lock PROVE references[l] = Cardinality(UsersOf(mine, l))
      <3>1. UsersOf(mine, l) = {}
        BY <1>1 DEF Init, UsersOf
      <3> QED
        BY <3>1, FS_EmptySet DEF Init
    <2> QED
      BY <2>1 DEF Counted
  <1>5. PendingInv
    BY RefresherAssumption DEF Init, PendingInv, OnItsWay, NoneTwice, Queued, Busy, Refresher
  <1> QED
    BY <1>2, <1>3, <1>4, <1>5 DEF RefreshInv, LockInv

LEMMA TriggerKeeps ==
    ASSUME RefreshInv, NEW i \in Instance, Trigger(i), due' \subseteq Instance
    PROVE  RefreshInv'
  <1>1. /\ UNCHANGED <<queue, hand, step, locking>>
        /\ UNCHANGED <<registry, mine, references, holder>>
        /\ \/ /\ i \notin pending
              /\ pending' = pending \cup {i} /\ entering' = entering \cup {i}
           \/ UNCHANGED <<pending, entering>>
    BY DEF Trigger, Admits, locking
  <1>2. TypeOK'
    BY <1>1 DEF RefreshInv, LockInv, TypeOK
  <1>3. PendingInv'
    BY <1>1 DEF RefreshInv, PendingInv, OnItsWay, NoneTwice, Queued, Busy
  <1> QED
    BY <1>1, <1>2, <1>3, SchedulingKeepsLocks DEF RefreshInv

LEMMA EnqueueKeeps ==
    ASSUME RefreshInv, NEW i \in Instance, Enqueue(i)
    PROVE  RefreshInv'
  <1>1. /\ UNCHANGED <<due, hand, step, locking>>
        /\ UNCHANGED <<registry, mine, references, holder>>
        /\ i \in entering /\ entering' = entering \ {i}
    BY DEF Enqueue, locking
  <1>2. queue \in Seq(Instance) /\ Len(queue) \in Nat /\ DOMAIN queue = 1..Len(queue)
    BY LenProperties DEF RefreshInv, LockInv, TypeOK
  <1>3. CASE HasRoom
    <2>1. queue' = Append(queue, i) /\ pending' = pending
      BY <1>3 DEF Enqueue
    <2>2. /\ queue' \in Seq(Instance) /\ Len(queue') = Len(queue) + 1 /\ queue'[Len(queue) + 1] = i
          /\ \A n \in 1..Len(queue) : queue'[n] = queue[n]
      BY <1>2, <2>1, AppendProperties
    <2>3. DOMAIN queue' = DOMAIN queue \cup {Len(queue) + 1}
      BY <1>2, <2>2, LenProperties
    <2>4. \A j : Queued(j)' <=> Queued(j) \/ j = i
      BY <1>2, <2>2, <2>3 DEF Queued
    <2>5. TypeOK'
      BY <1>1, <1>2, <1>3, <2>1, <2>2, QueueLimitPositive DEF RefreshInv, LockInv, TypeOK, HasRoom
    <2>6. NoneTwice'
      <3>1. ~Queued(i)
        BY <1>1 DEF RefreshInv, PendingInv, OnItsWay, LockInv, TypeOK
      <3> QED
        BY <1>1, <1>2, <2>2, <2>3, <3>1 DEF RefreshInv, PendingInv, NoneTwice, Queued
    <2>7. OnItsWay'
      BY <1>1, <2>1, <2>4 DEF RefreshInv, PendingInv, OnItsWay, Busy
    <2> QED
      BY <1>1, <2>5, <2>6, <2>7, SchedulingKeepsLocks DEF RefreshInv, PendingInv
  <1>4. CASE ~HasRoom
    <2>1. pending' = pending \ {i} /\ queue' = queue
      BY <1>4 DEF Enqueue
    <2>2. TypeOK'
      BY <1>1, <2>1 DEF RefreshInv, LockInv, TypeOK
    <2>3. PendingInv'
      BY <1>1, <2>1 DEF RefreshInv, PendingInv, OnItsWay, NoneTwice, Queued, Busy
    <2> QED
      BY <1>1, <2>2, <2>3, SchedulingKeepsLocks DEF RefreshInv
  <1> QED
    BY <1>3, <1>4

LEMMA TakeKeeps ==
    ASSUME RefreshInv, NEW w \in Worker, Take(w)
    PROVE  RefreshInv'
  <1>1. /\ UNCHANGED <<due, pending, entering>> /\ UNCHANGED <<registry, mine, references, holder>>
        /\ UNCHANGED locking
        /\ w \in Refresher /\ step[w] = "idle" /\ hand[w] = Free /\ queue # <<>>
        /\ hand' = [hand EXCEPT ![w] = Head(queue)] /\ step' = [step EXCEPT ![w] = "enter"]
        /\ queue' = Tail(queue)
    BY DEF Take, Refresher, RefreshInv, LockInv, HandsFit, locking
  <1>2. queue \in Seq(Instance) /\ Len(queue) \in Nat /\ DOMAIN queue = 1..Len(queue)
    BY LenProperties DEF RefreshInv, LockInv, TypeOK
  <1>3. PICK i \in Instance : i = Head(queue) /\ i = queue[1]
    BY <1>1, <1>2, HeadTailProperties
  <1>4. /\ queue' \in Seq(Instance) /\ Len(queue') = Len(queue) - 1 /\ Len(queue') \in Nat
        /\ \A n \in 1..Len(queue') : queue'[n] = queue[n + 1]
        /\ DOMAIN queue' = 1..Len(queue')
    BY <1>1, <1>2, HeadTailProperties, LenProperties
  <1>5. \A j : j # i => (Queued(j)' <=> Queued(j))
    <2>1. ASSUME NEW j, j # i, Queued(j) PROVE Queued(j)'
      <3>1. PICK n \in 1..Len(queue) : queue[n] = j
        BY <1>2, <2>1 DEF Queued
      <3>2. n - 1 \in 1..Len(queue') /\ queue'[n - 1] = j
        BY <1>2, <1>3, <1>4, <2>1, <3>1
      <3> QED
        BY <1>4, <3>2 DEF Queued
    <2>2. ASSUME NEW j, Queued(j)' PROVE Queued(j)
      BY <1>2, <1>4, <2>2 DEF Queued
    <2> QED
      BY <2>1, <2>2
  <1>6. Queued(i) /\ ~Queued(i)'
    <2>1. 1 \in DOMAIN queue
      BY <1>2, <1>4
    <2>2. Queued(i)
      BY <1>3, <2>1 DEF Queued
    <2>3. ASSUME NEW n \in 1..Len(queue'), queue'[n] = i PROVE FALSE
      <3>1. n + 1 \in DOMAIN queue /\ queue[n + 1] = queue[1] /\ n + 1 # 1
        BY <1>2, <1>3, <1>4, <2>3
      <3> QED
        BY <2>1, <3>1 DEF RefreshInv, PendingInv, NoneTwice
    <2> QED
      BY <1>4, <2>2, <2>3 DEF Queued
  <1>7. /\ hand \in [Refresher -> Instance \cup {Free}] /\ hand'[w] = i
        /\ \A v \in Refresher \ {w} : hand'[v] = hand[v]
    BY <1>1, <1>3 DEF RefreshInv, LockInv, TypeOK
  <1>8. TypeOK'
    BY <1>1, <1>3, <1>4, QueueLimitPositive DEF RefreshInv, LockInv, TypeOK
  <1>9. \A j : Busy(j)' <=> j = i \/ (Busy(j) /\ j # Free) \/ (j = Free /\ \E v \in Worker \ {w} : hand[v] = Free)
    BY <1>1, <1>7, RefresherAssumption DEF Busy, Refresher
  <1>10. OnItsWay'
    <2>1. \A j \in Instance : j # Free
      BY RefresherAssumption
    <2> QED
      BY <1>1, <1>5, <1>6, <1>9, <2>1 DEF RefreshInv, PendingInv, OnItsWay
  <1>11. NoneTwice'
    <2>1. \A m, n \in DOMAIN queue' : queue'[m] = queue'[n] => m = n
      <3>1. ASSUME NEW m \in 1..Len(queue'), NEW n \in 1..Len(queue'), queue'[m] = queue'[n]
            PROVE  m = n
        <4>1. m + 1 \in DOMAIN queue /\ n + 1 \in DOMAIN queue /\ queue[m + 1] = queue[n + 1]
          BY <1>2, <1>4, <3>1
        <4>2. m + 1 = n + 1
          BY <4>1 DEF RefreshInv, PendingInv, NoneTwice
        <4> QED
          BY <4>2
      <3> QED
        BY <1>4, <3>1
    <2>2. ~Busy(i)
      BY <1>6 DEF RefreshInv, PendingInv, OnItsWay
    <2>3. \A u, v \in Worker : hand'[u] = hand'[v] /\ hand'[u] # Free => u = v
      BY <1>7, <2>2 DEF RefreshInv, PendingInv, NoneTwice, Busy, Refresher
    <2> QED
      BY <2>1, <2>3 DEF NoneTwice
  <1>12. LockInv'
    BY <1>1, <1>3, <1>8, StartKeepsLocks DEF RefreshInv
  <1> QED
    BY <1>10, <1>11, <1>12 DEF RefreshInv, PendingInv

LEMMA HandlerStartsKeeps ==
    ASSUME RefreshInv, NEW h \in Handler, NEW i \in Instance, HandlerStarts(h, i)
    PROVE  RefreshInv'
  <1>1. /\ UNCHANGED <<due, pending, entering, queue>> /\ UNCHANGED <<registry, mine, references, holder>>
        /\ UNCHANGED locking /\ h \in Refresher /\ h \notin Worker /\ step[h] = "idle"
        /\ hand' = [hand EXCEPT ![h] = i] /\ step' = [step EXCEPT ![h] = "enter"]
    BY RefresherAssumption DEF HandlerStarts, Refresher, scheduling, locking
  <1>2. TypeOK'
    BY <1>1 DEF RefreshInv, LockInv, TypeOK
  <1>3. \A w \in Worker : hand'[w] = hand[w]
    BY <1>1 DEF RefreshInv, LockInv, TypeOK, Refresher
  <1>4. PendingInv'
    BY <1>1, <1>3 DEF RefreshInv, PendingInv, OnItsWay, NoneTwice, Queued, Busy
  <1> QED
    BY <1>1, <1>2, <1>4, StartKeepsLocks DEF RefreshInv

LEMMA FinishKeeps ==
    ASSUME RefreshInv, NEW r \in Refresher, Finish(r)
    PROVE  RefreshInv'
  <1>1. /\ UNCHANGED <<due, entering, queue>> /\ UNCHANGED <<registry, mine, references, holder>>
        /\ hand' = [hand EXCEPT ![r] = Free] /\ step' = [step EXCEPT ![r] = "idle"]
        /\ pending' = IF r \in Worker THEN pending \ {hand[r]} ELSE pending
    BY DEF Finish, locking
  <1>2. TypeOK'
    BY <1>1 DEF RefreshInv, LockInv, TypeOK
  <1>3. hand'[r] = Free /\ hand[r] # Free /\ \A s \in Refresher \ {r} : hand'[s] = hand[s]
    BY <1>1 DEF RefreshInv, LockInv, TypeOK, HandsFit, Finish
  <1>4. CASE r \in Worker
    <2>1. \A i \in Instance : Busy(i)' <=> Busy(i) /\ i # hand[r]
      BY <1>3, <1>4, RefresherAssumption DEF Busy, Refresher, RefreshInv, PendingInv, NoneTwice
    <2>2. Busy(hand[r])
      BY <1>4 DEF Busy
    <2>3. OnItsWay'
      BY <1>1, <1>4, <2>1, <2>2 DEF RefreshInv, PendingInv, OnItsWay, Queued
    <2>4. NoneTwice'
      BY <1>1, <1>3 DEF RefreshInv, PendingInv, NoneTwice, Refresher
    <2> QED
      BY <1>2, <2>3, <2>4, FinishKeepsLocks DEF RefreshInv, PendingInv
  <1>5. CASE r \notin Worker
    <2>1. \A w \in Worker : hand'[w] = hand[w]
      BY <1>3, <1>5 DEF Refresher
    <2>2. PendingInv'
      BY <1>1, <1>5, <2>1 DEF RefreshInv, PendingInv, OnItsWay, NoneTwice, Queued, Busy
    <2> QED
      BY <1>2, <2>2, FinishKeepsLocks DEF RefreshInv
  <1> QED
    BY <1>4, <1>5

LEMMA RefreshGoesOn == RefreshInv /\ [Next]_vars => RefreshInv'
  <1> SUFFICES ASSUME RefreshInv, [Next]_vars PROVE RefreshInv'
    OBVIOUS
  <1>1. CASE Scan
    <2>1. UNCHANGED <<pending, entering, queue, hand, step, registry, mine, references, holder, locking>>
          /\ due' = Instance
      BY <1>1 DEF Scan, locking
    <2>2. TypeOK'
      BY <2>1 DEF RefreshInv, LockInv, TypeOK
    <2>3. PendingInv'
      BY <2>1 DEF RefreshInv, PendingInv, OnItsWay, NoneTwice, Queued, Busy
    <2> QED
      BY <2>1, <2>2, <2>3, SchedulingKeepsLocks DEF RefreshInv
  <1>2. ASSUME NEW i \in Instance, TimerFires(i) \/ ApiTriggers(i) \/ Enqueue(i)
        PROVE  RefreshInv'
    BY <1>2, TriggerKeeps, EnqueueKeeps DEF TimerFires, ApiTriggers, RefreshInv, LockInv, TypeOK
  <1>3. ASSUME NEW r \in Refresher, Enter(r) \/ Unlock(r) \/ Leave(r) \/ Acquire(r)
        PROVE  RefreshInv'
    <2>1. LockInv'
      BY <1>3, EnterKeepsLocks, AcquireKeepsLocks, LeaveKeepsLocks DEF RefreshInv
    <2>2. UNCHANGED <<pending, entering, queue, hand>>
      BY <1>3 DEF Enter, Unlock, Leave, Acquire, scheduling
    <2>3. PendingInv'
      BY <2>2 DEF RefreshInv, PendingInv, OnItsWay, NoneTwice, Queued, Busy
    <2> QED
      BY <2>1, <2>3 DEF RefreshInv
  <1>4. CASE UNCHANGED vars
    BY <1>4 DEF vars, RefreshInv, LockInv, TypeOK, HandsFit, LocksFit, Counted, HoldersFit,
       PendingInv, OnItsWay, NoneTwice, Queued, Busy
  <1> QED
    BY <1>1, <1>2, <1>3, <1>4, TakeKeeps, HandlerStartsKeeps, FinishKeeps
       DEF Next, Scheduling, Moving

LEMMA RefreshAlways == Spec => []RefreshInv
  <1>1. Init => RefreshInv
    BY RefreshStarts
  <1>2. RefreshInv /\ [Next]_vars => RefreshInv'
    BY RefreshGoesOn
  <1> QED
    BY <1>1, <1>2, PTL DEF Spec

(* The coordinator's state has its type: in particular the queue never     *)
(* holds more than its capacity, and no lock counts more users than there  *)
(* are refreshers.                                                         *)
THEOREM RefreshTypes == Spec => []TypeOK
  <1>1. RefreshInv => TypeOK
    BY DEF RefreshInv, LockInv
  <1> QED
    BY <1>1, RefreshAlways, PTL

(* Workers and handlers, as many as there are, never refresh one instance  *)
(* at the same time, although its lock is dropped with its last user and   *)
(* made anew by the next (lockInstanceRefresh of refresh/service.go).      *)
THEOREM RefreshesExclude == Spec => []OneRefresher
  <1>1. RefreshInv => OneRefresher
    BY InOneRefresh DEF RefreshInv
  <1> QED
    BY <1>1, RefreshAlways, PTL

(* An instance in the pending set is on its way to the queue, queued, or   *)
(* with one worker, and nothing else is (Trigger and finish of             *)
(* refresh/coordinator.go).                                                *)
THEOREM PendingStaysExact == Spec => []PendingExact
  <1>1. RefreshInv => PendingExact
    BY PendingIsExact
  <1> QED
    BY <1>1, RefreshAlways, PTL

-----------------------------------------------------------------------------
(* Followers: the inductive invariant.  What a client has and what is      *)
(* under way to it are the beginning of the log, up to where its handler   *)
(* is; a connection that is closed has nothing under way.                  *)

Numbers(log) == \A n \in 1..Len(log) : log[n].sequence = n

Part(log, got, wired, place, at) ==
    /\ Len(got) + Len(wired) <= Len(log)
    /\ \A n \in 1..Len(got) : got[n] = log[n]
    /\ \A n \in 1..Len(wired) : wired[n] = log[Len(got) + n]
    /\ place # "closed" => at = Len(got) + Len(wired)
    /\ place = "closed" => wired = <<>>

Follows(f) == Part(events, received[f], wire[f], connection[f], after[f])

FollowerInv == FollowerTypeOK /\ Numbers(events) /\ \A f \in Follower : Follows(f)

-----------------------------------------------------------------------------
(* Parts of a log, whatever the log and the part are.                      *)

(* Sequences one after the other, and the rest of one, without subtraction *)
(* of lengths.                                                             *)
LEMMA Joined ==
    ASSUME NEW S, NEW s \in Seq(S), NEW t \in Seq(S)
    PROVE  /\ s \o t \in Seq(S) /\ Len(s \o t) = Len(s) + Len(t)
           /\ \A n \in 1..Len(s) : (s \o t)[n] = s[n]
           /\ \A n \in 1..Len(t) : (s \o t)[Len(s) + n] = t[n]
  <1>u. PICK u : u = s \o t
    OBVIOUS
  <1>l. PICK L \in Nat, M \in Nat : L = Len(s) /\ M = Len(t)
    BY LenProperties
  <1>1. L = Len(s) /\ M = Len(t) /\ u = s \o t
    BY <1>u, <1>l
  <1>2. /\ u \in Seq(S) /\ Len(u) = L + M
        /\ \A n \in 1..L + M : u[n] = IF n <= L THEN s[n] ELSE t[n - L]
    BY <1>1, ConcatProperties
  <1>3. ASSUME NEW n \in 1..L PROVE u[n] = s[n]
    <2>1. n \in 1..L + M /\ n <= L
      OBVIOUS
    <2> QED
      BY <1>2, <2>1
  <1>4. ASSUME NEW n \in 1..M PROVE u[L + n] = t[n]
    <2>1. L + n \in 1..L + M /\ ~(L + n <= L) /\ (L + n) - L = n
      OBVIOUS
    <2>2. u[L + n] = IF L + n <= L THEN s[L + n] ELSE t[(L + n) - L]
      BY <1>2, <2>1
    <2> QED
      BY <2>1, <2>2
  <1> QED
    BY <1>1, <1>2, <1>3, <1>4

LEMMA RestOf ==
    ASSUME NEW S, NEW s \in Seq(S), NEW a \in Nat, a <= Len(s)
    PROVE  /\ SubSeq(s, a + 1, Len(s)) \in Seq(S)
           /\ Len(SubSeq(s, a + 1, Len(s))) = Len(s) - a
           /\ \A n \in 1..Len(s) - a : SubSeq(s, a + 1, Len(s))[n] = s[a + n]
  <1>1. PICK L \in Nat, b \in Nat : L = Len(s) /\ b = a + 1
    BY LenProperties
  <1>2. \A n \in 1..L : s[n] \in S
    BY <1>1, ElementOfSeq
  <1>3. b \in Int /\ L \in Int /\ \A n \in b..L : s[n] \in S
    BY <1>1, <1>2
  <1>4. /\ SubSeq(s, b, L) \in Seq(S)
        /\ Len(SubSeq(s, b, L)) = IF b <= L THEN L - b + 1 ELSE 0
        /\ \A n \in 1..L - b + 1 : SubSeq(s, b, L)[n] = s[b + n - 1]
    BY <1>3, SubSeqProperties
  <1>5. PICK t \in Seq(S) : t = SubSeq(s, b, L)
    BY <1>4
  <1>6. a <= L /\ Len(t) = L - a
    BY <1>1, <1>4, <1>5
  <1>7. ASSUME NEW n \in 1..L - a PROVE t[n] = s[a + n]
    <2>1. n \in 1..L - b + 1 /\ b + n - 1 = a + n
      BY <1>1
    <2> QED
      BY <1>4, <1>5, <2>1
  <1> QED
    BY <1>1, <1>5, <1>6, <1>7

(* A part that starts at the beginning is the beginning.                   *)
LEMMA PartIsPrefix ==
    ASSUME NEW E, NEW log \in Seq(E), NEW got \in Seq(E), NEW wired \in Seq(E),
           NEW place, NEW at, Part(log, got, wired, place, at)
    PROVE  Len(got) <= Len(log) /\ got = SubSeq(log, 1, Len(got))
  <1>1. PICK L \in Nat, R \in Nat, W \in Nat : L = Len(log) /\ R = Len(got) /\ W = Len(wired)
    BY LenProperties
  <1>2. R <= L /\ \A n \in 1..R : got[n] = log[n]
    BY <1>1 DEF Part
  <1>3. \A n \in 1..L : log[n] \in E
    BY <1>1, ElementOfSeq
  <1>4. \A n \in 1..R : log[n] \in E
    BY <1>2, <1>3
  <1>5. /\ SubSeq(log, 1, R) \in Seq(E)
        /\ Len(SubSeq(log, 1, R)) = IF 1 <= R THEN R - 1 + 1 ELSE 0
        /\ \A n \in 1..R - 1 + 1 : SubSeq(log, 1, R)[n] = log[1 + n - 1]
    BY <1>4, SubSeqProperties
  <1>6. PICK s \in Seq(E) : s = SubSeq(log, 1, R)
    BY <1>5
  <1>7. Len(s) = R /\ \A n \in 1..R : s[n] = log[n]
    BY <1>5, <1>6
  <1>8. Len(s) = Len(got) /\ \A n \in 1..Len(s) : s[n] = got[n]
    BY <1>1, <1>2, <1>7
  <1>9. s = got
    BY <1>8, SeqEqual
  <1> QED
    BY <1>1, <1>2, <1>6, <1>9

(* It stays a part when the log grows.                                     *)
LEMMA PartGrows ==
    ASSUME NEW E, NEW log \in Seq(E), NEW longer \in Seq(E),
           NEW got \in Seq(E), NEW wired \in Seq(E), NEW place, NEW at,
           Part(log, got, wired, place, at),
           Len(log) <= Len(longer), \A n \in 1..Len(log) : longer[n] = log[n]
    PROVE  Part(longer, got, wired, place, at)
  <1>1. PICK L \in Nat, M \in Nat, R \in Nat, W \in Nat :
             L = Len(log) /\ M = Len(longer) /\ R = Len(got) /\ W = Len(wired)
    BY LenProperties
  <1>2. /\ R + W <= L /\ L <= M
        /\ \A n \in 1..R : got[n] = log[n]
        /\ \A n \in 1..W : wired[n] = log[R + n]
        /\ \A n \in 1..L : longer[n] = log[n]
    BY <1>1 DEF Part
  <1>3. R + W <= M
    BY <1>2
  <1>4. ASSUME NEW n \in 1..R PROVE got[n] = longer[n]
    <2>1. n \in 1..L
      BY <1>2
    <2> QED
      BY <1>2, <2>1
  <1>5. ASSUME NEW n \in 1..W PROVE wired[n] = longer[R + n]
    <2>1. R + n \in 1..L
      BY <1>2
    <2> QED
      BY <1>2, <2>1
  <1> QED
    BY <1>1, <1>3, <1>4, <1>5 DEF Part

(* What was written and not read is lost with the connection; the number   *)
(* of the last event that was read is where the next connection goes on.   *)
LEMMA PartConnects ==
    ASSUME NEW E, NEW log \in Seq(E), NEW got \in Seq(E), NEW wired \in Seq(E),
           NEW place, NEW at, Part(log, got, wired, "closed", at), Numbers(log)
    PROVE  /\ wired = <<>>
           /\ Part(log, got, wired, place, Len(got)) /\ Len(got) \in Nat
           /\ got = <<>> => Len(got) = 0
           /\ got # <<>> => got[Len(got)].sequence = Len(got)
  <1>1. wired = <<>>
    BY DEF Part
  <1>2. PICK L \in Nat, R \in Nat : L = Len(log) /\ R = Len(got)
    BY LenProperties
  <1>3. Len(wired) = 0
    BY <1>1
  <1>4. R + 0 <= L /\ \A n \in 1..R : got[n] = log[n]
    BY <1>2, <1>3 DEF Part
  <1>5. Part(log, got, wired, place, Len(got))
    BY <1>1, <1>2, <1>3, <1>4 DEF Part
  <1>6. got # <<>> => got[R].sequence = R
    <2>1. SUFFICES ASSUME got # <<>> PROVE got[R].sequence = R
      OBVIOUS
    <2>2. R \in 1..R /\ R \in 1..L
      BY <1>2, <1>4, <2>1, EmptySeq
    <2> QED
      BY <1>2, <1>4, <2>2 DEF Numbers
  <1> QED
    BY <1>1, <1>2, <1>5, <1>6

(* A batch is the rest of the log.                                         *)
LEMMA PartWrites ==
    ASSUME NEW E, NEW log \in Seq(E), NEW got \in Seq(E), NEW wired \in Seq(E),
           NEW place, NEW at, NEW next, Part(log, got, wired, place, at), Numbers(log),
           place # "closed", next # "closed"
    PROVE  \E batch \in Seq(E) :
              /\ batch = SubSeq(log, at + 1, Len(log))
              /\ wired \o batch \in Seq(E)
              /\ Part(log, got, wired \o batch, next, Len(log)) /\ Len(log) \in Nat
              /\ batch = <<>> => at = Len(log)
              /\ batch # <<>> => batch[Len(batch)].sequence = Len(log)
  <1>b. PICK batch : batch = SubSeq(log, at + 1, Len(log))
    OBVIOUS
  <1>1. PICK L \in Nat, R \in Nat, W \in Nat : L = Len(log) /\ R = Len(got) /\ W = Len(wired)
    BY LenProperties
  <1>2. /\ R + W <= L /\ at = R + W
        /\ \A n \in 1..R : got[n] = log[n]
        /\ \A n \in 1..W : wired[n] = log[R + n]
    BY <1>1 DEF Part
  <1>3. PICK a \in Nat : a = at
    BY <1>2
  <1>4. a <= L /\ a <= Len(log) /\ batch = SubSeq(log, a + 1, Len(log))
    BY <1>b, <1>1, <1>2, <1>3
  <1>r. /\ SubSeq(log, a + 1, Len(log)) \in Seq(E)
        /\ Len(SubSeq(log, a + 1, Len(log))) = Len(log) - a
        /\ \A n \in 1..Len(log) - a : SubSeq(log, a + 1, Len(log))[n] = log[a + n]
    BY <1>4, RestOf
  <1>5. batch \in Seq(E) /\ Len(batch) = L - a /\ \A n \in 1..L - a : batch[n] = log[a + n]
    BY <1>1, <1>4, <1>r
  <1>6. PICK B \in Nat : B = L - a /\ a + B = L
    BY <1>4
  <1>7. Len(batch) = B /\ \A n \in 1..B : batch[n] = log[a + n]
    BY <1>5, <1>6
  <1>8. PICK grown : grown = wired \o batch
    OBVIOUS
  <1>j. /\ wired \o batch \in Seq(E) /\ Len(wired \o batch) = Len(wired) + Len(batch)
        /\ \A n \in 1..Len(wired) : (wired \o batch)[n] = wired[n]
        /\ \A n \in 1..Len(batch) : (wired \o batch)[Len(wired) + n] = batch[n]
    <2>1. wired \in Seq(E) /\ batch \in Seq(E)
      BY <1>5
    <2>2. wired \o batch \in Seq(E) /\ Len(wired \o batch) = Len(wired) + Len(batch)
      BY <2>1, Joined
    <2>3. ASSUME NEW n \in 1..Len(wired) PROVE (wired \o batch)[n] = wired[n]
      BY <2>1, Joined
    <2>4. ASSUME NEW n \in 1..Len(batch) PROVE (wired \o batch)[Len(wired) + n] = batch[n]
      BY <2>1, Joined
    <2> QED
      BY <2>2, <2>3, <2>4
  <1>9. /\ grown \in Seq(E) /\ Len(grown) = W + B
        /\ \A n \in 1..W : grown[n] = wired[n]
        /\ \A n \in 1..B : grown[W + n] = batch[n]
    BY <1>1, <1>7, <1>8, <1>j
  <1>10. ASSUME NEW n \in 1..W + B PROVE grown[n] = log[R + n]
    <2>1. CASE n \in 1..W
      BY <1>2, <1>9, <2>1
    <2>2. CASE n \notin 1..W
      <3>1. PICK m \in 1..B : n = W + m
        <4>1. n - W \in 1..B /\ n = W + (n - W)
          BY <2>2
        <4> QED
          BY <4>1
      <3>2. grown[n] = batch[m] /\ batch[m] = log[a + m]
        BY <1>7, <1>9, <3>1
      <3>3. a + m = R + n
        BY <1>2, <1>3, <3>1
      <3> QED
        BY <3>2, <3>3
    <2> QED
      BY <2>1, <2>2
  <1>11. R + (W + B) = L
    BY <1>2, <1>3, <1>6
  <1>12. Part(log, got, grown, next, L)
    <2>1. Len(got) = R /\ Len(grown) = W + B /\ Len(log) = L /\ R + (W + B) <= L
      BY <1>1, <1>9, <1>11
    <2> QED
      BY <1>2, <1>10, <1>11, <2>1 DEF Part
  <1>13. batch = <<>> => at = L
    <2>1. batch = <<>> => B = 0
      BY <1>7
    <2> QED
      BY <1>3, <1>6, <2>1
  <1>14. batch # <<>> => batch[B].sequence = L
    <2>1. SUFFICES ASSUME batch # <<>> PROVE batch[B].sequence = L
      OBVIOUS
    <2>2. B # 0
      BY <1>5, <1>7, <2>1, EmptySeq
    <2>3. B \in 1..B /\ L \in 1..L
      BY <1>6, <2>2
    <2>4. batch[B] = log[L]
      BY <1>6, <1>7, <2>3
    <2> QED
      BY <1>1, <2>3, <2>4 DEF Numbers
  <1> QED
    BY <1>b, <1>1, <1>5, <1>7, <1>8, <1>9, <1>12, <1>13, <1>14

(* The client reads in the order of the writes.                            *)
LEMMA PartReceives ==
    ASSUME NEW E, NEW log \in Seq(E), NEW got \in Seq(E), NEW wired \in Seq(E),
           NEW place, NEW at, Part(log, got, wired, place, at), wired # <<>>
    PROVE  /\ Append(got, Head(wired)) \in Seq(E) /\ Tail(wired) \in Seq(E)
           /\ Part(log, Append(got, Head(wired)), Tail(wired), place, at)
  <1>1. PICK L \in Nat, R \in Nat, W \in Nat : L = Len(log) /\ R = Len(got) /\ W = Len(wired)
    BY LenProperties
  <1>2. /\ R + W <= L
        /\ \A n \in 1..R : got[n] = log[n]
        /\ \A n \in 1..W : wired[n] = log[R + n]
        /\ place # "closed" /\ at = R + W
    BY <1>1 DEF Part
  <1>3. W # 0
    BY <1>1, EmptySeq
  <1>4. PICK e \in E, rest \in Seq(E) : e = Head(wired) /\ rest = Tail(wired)
    BY HeadTailProperties
  <1>5. e = wired[1] /\ Len(rest) = W - 1 /\ \A n \in 1..W - 1 : rest[n] = wired[n + 1]
    BY <1>1, <1>4, HeadTailProperties
  <1>6. PICK more \in Seq(E) : more = Append(got, e)
    BY AppendProperties
  <1>7. Len(more) = R + 1 /\ more[R + 1] = e /\ \A n \in 1..R : more[n] = got[n]
    BY <1>1, <1>6, AppendProperties
  <1>8. e = log[R + 1]
    BY <1>2, <1>3, <1>5
  <1>9. ASSUME NEW n \in 1..R + 1 PROVE more[n] = log[n]
    <2>1. n \in 1..R \/ n = R + 1
      OBVIOUS
    <2> QED
      BY <1>2, <1>7, <1>8, <2>1
  <1>10. ASSUME NEW n \in 1..W - 1 PROVE rest[n] = log[(R + 1) + n]
    <2>1. n + 1 \in 1..W /\ R + (n + 1) = (R + 1) + n
      OBVIOUS
    <2> QED
      BY <1>2, <1>5, <2>1
  <1>11. (R + 1) + (W - 1) = R + W
    OBVIOUS
  <1>12. Part(log, more, rest, place, at)
    BY <1>1, <1>2, <1>5, <1>7, <1>9, <1>10, <1>11 DEF Part
  <1> QED
    BY <1>4, <1>6, <1>12

LEMMA PartCloses ==
    ASSUME NEW E, NEW log \in Seq(E), NEW got \in Seq(E), NEW wired \in Seq(E),
           NEW place, NEW at, Part(log, got, wired, place, at), NEW kept \in {got, <<>>}
    PROVE  Part(log, kept, <<>>, "closed", at)
  <1>1. PICK L \in Nat, R \in Nat, W \in Nat : L = Len(log) /\ R = Len(got) /\ W = Len(wired)
    BY LenProperties
  <1>2. R + W <= L /\ \A n \in 1..R : got[n] = log[n]
    BY <1>1 DEF Part
  <1>3. Len(<<>>) = 0
    OBVIOUS
  <1>4. R + 0 <= L /\ 0 + 0 <= L
    BY <1>2
  <1>5. CASE kept = got
    BY <1>1, <1>2, <1>3, <1>4, <1>5 DEF Part
  <1>6. CASE kept = <<>>
    BY <1>1, <1>3, <1>4, <1>6 DEF Part
  <1> QED
    BY <1>5, <1>6

(* Events are numbered on from the last one.                               *)
LEMMA LogGrows ==
    ASSUME NEW log \in Seq(Event), Numbers(log), NEW notes \in Seq(Note),
           NEW longer,
           longer = log \o [n \in 1..Len(notes) |->
                              [sequence |-> Len(log) + n, note |-> notes[n]]]
    PROVE  /\ longer \in Seq(Event) /\ Len(log) <= Len(longer)
           /\ \A n \in 1..Len(log) : longer[n] = log[n]
           /\ Numbers(longer)
  <1>1. PICK L \in Nat, M \in Nat : L = Len(log) /\ M = Len(notes)
    BY LenProperties
  <1>2. \A n \in 1..M : notes[n] \in Note
    BY <1>1, ElementOfSeq
  <1>3. PICK more : more = [n \in 1..M |-> [sequence |-> L + n, note |-> notes[n]]]
    OBVIOUS
  <1>4. ASSUME NEW n \in 1..M
        PROVE  more[n] \in Event /\ more[n].sequence = L + n
    <2>1. L + n \in Nat /\ notes[n] \in Note
      BY <1>2
    <2> QED
      BY <1>3, <2>1 DEF Event
  <1>5. more \in Seq(Event) /\ Len(more) = M
    <2>1. more \in [1..M -> Event]
      BY <1>3, <1>4
    <2> QED
      BY <2>1
  <1>6. longer = log \o more
    BY <1>1, <1>3
  <1>j. /\ log \o more \in Seq(Event) /\ Len(log \o more) = Len(log) + Len(more)
        /\ \A n \in 1..Len(log) : (log \o more)[n] = log[n]
        /\ \A n \in 1..Len(more) : (log \o more)[Len(log) + n] = more[n]
    <2>1. log \in Seq(Event) /\ more \in Seq(Event)
      BY <1>5
    <2>2. log \o more \in Seq(Event) /\ Len(log \o more) = Len(log) + Len(more)
      BY <2>1, Joined
    <2>3. ASSUME NEW n \in 1..Len(log) PROVE (log \o more)[n] = log[n]
      BY <2>1, Joined
    <2>4. ASSUME NEW n \in 1..Len(more) PROVE (log \o more)[Len(log) + n] = more[n]
      BY <2>1, Joined
    <2> QED
      BY <2>2, <2>3, <2>4
  <1>7. /\ longer \in Seq(Event) /\ Len(longer) = L + M
        /\ \A n \in 1..L : longer[n] = log[n]
        /\ \A n \in 1..M : longer[L + n] = more[n]
    BY <1>1, <1>5, <1>6, <1>j
  <1>8. ASSUME NEW n \in 1..L + M PROVE longer[n].sequence = n
    <2>1. CASE n \in 1..L
      BY <1>1, <1>7, <2>1 DEF Numbers
    <2>2. CASE n \notin 1..L
      <3>1. PICK m \in 1..M : n = L + m
        <4>1. n - L \in 1..M /\ n = L + (n - L)
          BY <2>2
        <4> QED
          BY <4>1
      <3> QED
        BY <1>4, <1>7, <3>1
    <2> QED
      BY <2>1, <2>2
  <1>9. L <= L + M
    OBVIOUS
  <1> QED
    BY <1>1, <1>7, <1>8, <1>9 DEF Numbers

-----------------------------------------------------------------------------
(* The state.                                                              *)

LEMMA FollowerParts ==
    ASSUME FollowerInv
    PROVE  /\ FollowerTypeOK /\ Numbers(events) /\ events \in Seq(Event)
           /\ \A f \in Follower : received[f] \in Seq(Event) /\ wire[f] \in Seq(Event)
    BY DEF FollowerInv, FollowerTypeOK

LEMMA InOrder == FollowerInv => DeliveredInOrder
  <1> SUFFICES ASSUME FollowerInv, NEW f \in Follower
               PROVE  /\ Len(received[f]) <= Len(events)
                      /\ received[f] = SubSeq(events, 1, Len(received[f]))
    BY DEF DeliveredInOrder
  <1>1. Part(events, received[f], wire[f], connection[f], after[f])
    BY DEF FollowerInv, Follows
  <1> QED
    BY <1>1, FollowerParts, PartIsPrefix

LEMMA FollowersStart == FollowerInit => FollowerInv
  <1> SUFFICES ASSUME FollowerInit PROVE FollowerInv
    OBVIOUS
  <1>1. [sequence |-> 1, note |-> "started"] \in Event
    BY DEF Event, Note
  <1>2. PICK e \in Event : e = [sequence |-> 1, note |-> "started"]
    BY <1>1
  <1>3. events = <<e>> /\ e.sequence = 1
    BY <1>2 DEF FollowerInit
  <1>4. events \in Seq(Event) /\ Len(events) = 1 /\ events[1].sequence = 1
    BY <1>3
  <1>5. <<>> \in Seq(Event) /\ Len(<<>>) = 0
    OBVIOUS
  <1>6. author \in [Author -> [pc: {"new", "get", "sequence", "save", "conflict",
                                    "refused", "closed"}, revision: Nat, last: Nat]]
    BY DEF FollowerInit
  <1>7. FollowerTypeOK
    BY <1>4, <1>5, <1>6 DEF FollowerInit, FollowerTypeOK
  <1>8. Numbers(events)
    BY <1>4 DEF Numbers
  <1>9. ASSUME NEW f \in Follower PROVE Follows(f)
    <2>1. received[f] = <<>> /\ wire[f] = <<>> /\ connection[f] = "closed"
      BY DEF FollowerInit
    <2> QED
      BY <1>4, <1>5, <2>1 DEF Follows, Part
  <1> QED
    BY <1>7, <1>8, <1>9 DEF FollowerInv

-----------------------------------------------------------------------------
(* Writers: what they do to the log leaves every client's part alone.      *)

Writer == [pc: {"new", "get", "sequence", "save", "conflict", "refused", "closed"},
           revision: Nat, last: Nat]

LEMMA WritersKeep ==
    ASSUME FollowerInv, UNCHANGED clientVars,
           revision' \in Nat, ended' \in BOOLEAN, author' \in [Author -> Writer],
           \/ UNCHANGED events
           \/ \E notes \in Seq(Note) : Appended(Len(events), notes)
    PROVE  FollowerInv'
  <1>1. UNCHANGED <<connection, after, wire, received, breaks>>
    BY DEF clientVars
  <1>2. PICK log \in Seq(Event) : log = events /\ Numbers(log)
    BY FollowerParts
  <1>3. PICK longer : longer = events'
    OBVIOUS
  <1>4. /\ longer \in Seq(Event) /\ Len(log) <= Len(longer)
        /\ \A n \in 1..Len(log) : longer[n] = log[n]
        /\ Numbers(longer)
    <2>1. CASE UNCHANGED events
      <3>1. Len(log) \in Nat
        BY LenProperties
      <3> QED
        BY <1>2, <1>3, <2>1, <3>1
    <2>2. CASE \E notes \in Seq(Note) : Appended(Len(events), notes)
      <3>1. PICK notes \in Seq(Note) :
                 longer = log \o [n \in 1..Len(notes) |->
                                    [sequence |-> Len(log) + n, note |-> notes[n]]]
        BY <1>2, <1>3, <2>2 DEF Appended
      <3> QED
        BY <1>2, <3>1, LogGrows
    <2> QED
      BY <2>1, <2>2
  <1>5. events' \in Seq(Event) /\ Numbers(events)'
    BY <1>3, <1>4
  <1>6. FollowerTypeOK'
    BY <1>1, <1>5 DEF FollowerInv, FollowerTypeOK, Writer
  <1>7. ASSUME NEW f \in Follower PROVE Follows(f)'
    <2>1. PICK got \in Seq(Event), wired \in Seq(Event) : got = received[f] /\ wired = wire[f]
      BY FollowerParts
    <2>2. Part(log, got, wired, connection[f], after[f])
      BY <1>2, <2>1 DEF FollowerInv, Follows
    <2>3. Part(longer, got, wired, connection[f], after[f])
      BY <1>4, <2>2, PartGrows
    <2> QED
      BY <1>1, <1>3, <2>1, <2>3 DEF Follows
  <1> QED
    BY <1>5, <1>6, <1>7 DEF FollowerInv

(* A writer's own state: what it learns, and what it does with it.         *)
LEMMA AuthorsFit ==
    ASSUME author \in [Author -> Writer], NEW a \in Author, NEW n \in Nat,
           NEW pc \in {"new", "get", "sequence", "save", "conflict", "refused", "closed"}
    PROVE  /\ [author EXCEPT ![a].pc = pc] \in [Author -> Writer]
           /\ [author EXCEPT ![a].pc = pc, ![a].last = n] \in [Author -> Writer]
           /\ [author EXCEPT ![a].pc = pc, ![a].revision = n] \in [Author -> Writer]
    BY DEF Writer

LEMMA WriterStepKeeps ==
    ASSUME FollowerInv, SinkStep \/ WorkerStep
    PROVE  FollowerInv'
  <1>1. /\ author \in [Author -> Writer] /\ Len(events) \in Nat
        /\ revision \in Nat /\ ended \in BOOLEAN
        /\ "sink" \in Author /\ "worker" \in Author
    BY FollowerParts, LenProperties DEF FollowerTypeOK, Author, Writer
  <1>2. ASSUME NEW a \in Author, NEW from, NEW to \in {"get", "save", "sequence"},
               LearnsSequence(a, from, to) \/ Gets(a, from, to)
        PROVE  FollowerInv'
    <2>1. UNCHANGED <<revision, ended, events>> /\ UNCHANGED clientVars
      BY <1>2 DEF LearnsSequence, Gets, recordVars
    <2>2. CASE LearnsSequence(a, from, to)
      <3>1. author' = [author EXCEPT ![a].pc = to, ![a].last = Len(events)]
        BY <2>2 DEF LearnsSequence
      <3>2. author' \in [Author -> Writer]
        BY <1>1, <3>1, AuthorsFit
      <3> QED
        BY <1>1, <2>1, <3>2, WritersKeep
    <2>3. CASE Gets(a, from, to)
      <3>1. PICK pc \in {"get", "save", "sequence", "closed"} :
                 author' = [author EXCEPT ![a].pc = pc, ![a].revision = revision]
        BY <2>3 DEF Gets
      <3>2. author' \in [Author -> Writer]
        BY <1>1, <3>1, AuthorsFit
      <3> QED
        BY <1>1, <2>1, <3>2, WritersKeep
    <2> QED
      BY <1>2, <2>2, <2>3
  <1> QED
    BY <1>1, <1>2 DEF SinkStep, WorkerStep

LEMMA SinkSavesKeeps ==
    ASSUME FollowerInv, SinkSaves
    PROVE  FollowerInv'
  <1>1. /\ author \in [Author -> Writer] /\ Len(events) \in Nat
        /\ revision \in Nat /\ ended \in BOOLEAN
        /\ "sink" \in Author
    BY FollowerParts, LenProperties DEF FollowerTypeOK, Author, Writer
  <1>2. UNCHANGED clientVars
    BY DEF SinkSaves
  <1>3. CASE (Moves("sink", "conflict") \/ Moves("sink", "refused")) /\ UNCHANGED recordVars
    <2>1. UNCHANGED <<revision, ended, events>>
      BY <1>3 DEF recordVars
    <2>2. PICK pc \in {"conflict", "refused"} : author' = [author EXCEPT !["sink"].pc = pc]
      BY <1>3 DEF Moves
    <2>3. author' \in [Author -> Writer]
      BY <1>1, <2>2, AuthorsFit
    <2> QED
      BY <1>1, <1>2, <2>1, <2>3, WritersKeep
  <1>4. CASE /\ Appendable(author["sink"].last, 1)
             /\ Appended(author["sink"].last, <<"semantic">>)
             /\ author' = [author EXCEPT !["sink"].pc = "get", !["sink"].last = @ + 1]
             /\ UNCHANGED ended
    <2>1. PICK n \in Nat : n = author["sink"].last + 1
      BY <1>1 DEF Writer
    <2>2. author' = [author EXCEPT !["sink"].pc = "get", !["sink"].last = n]
      BY <1>1, <1>4, <2>1 DEF Writer
    <2>3. author' \in [Author -> Writer]
      BY <1>1, <2>2, AuthorsFit
    <2>4. <<"semantic">> \in Seq(Note)
      BY DEF Note
    <2>5. Appended(Len(events), <<"semantic">>) /\ revision' = revision + 1
      BY <1>4 DEF Appendable, Appended
    <2>6. \E notes \in Seq(Note) : Appended(Len(events), notes)
      BY <2>4, <2>5
    <2>7. revision' \in Nat /\ ended' \in BOOLEAN
      BY <1>1, <1>4, <2>5
    <2> QED
      BY <1>2, <2>3, <2>6, <2>7, WritersKeep
  <1> QED
    BY <1>3, <1>4 DEF SinkSaves

LEMMA WorkerSavesKeeps ==
    ASSUME FollowerInv, WorkerSaves
    PROVE  FollowerInv'
  <1>1. /\ author \in [Author -> Writer] /\ Len(events) \in Nat
        /\ revision \in Nat /\ ended \in BOOLEAN
        /\ "worker" \in Author
    BY FollowerParts, LenProperties DEF FollowerTypeOK, Author, Writer
  <1>2. UNCHANGED clientVars
    BY DEF WorkerSaves
  <1>3. author' \in [Author -> Writer]
    BY <1>1, AuthorsFit DEF WorkerSaves, Moves
  <1>4. CASE UNCHANGED recordVars \/ (revision' = revision + 1 /\ UNCHANGED <<events, ended>>)
    <2>1. UNCHANGED <<ended, events>> /\ revision' \in Nat
      BY <1>1, <1>4 DEF recordVars
    <2> QED
      BY <1>1, <1>2, <1>3, <2>1, WritersKeep
  <1>5. ASSUME NEW notes \in Seq(Note),
               Appendable(author["worker"].last, Len(notes)),
               Appended(author["worker"].last, notes), ended' \in BOOLEAN
        PROVE  FollowerInv'
    <2>1. Appended(Len(events), notes) /\ revision' = revision + 1
      BY <1>5 DEF Appendable, Appended
    <2> QED
      BY <1>1, <1>2, <1>3, <1>5, <2>1, WritersKeep
  <1>6. /\ <<"lifecycle">> \in Seq(Note) /\ Len(<<"lifecycle">>) = 1
        /\ <<"terminal">> \in Seq(Note) /\ <<"semantic", "terminal">> \in Seq(Note)
    BY DEF Note
  <1>7. CASE /\ Appendable(author["worker"].last, 1)
             /\ Appended(author["worker"].last, <<"lifecycle">>)
             /\ UNCHANGED ended
    BY <1>1, <1>5, <1>6, <1>7
  <1>8. CASE \E notes \in {<<"terminal">>, <<"semantic", "terminal">>} :
                /\ Appendable(author["worker"].last, Len(notes))
                /\ Appended(author["worker"].last, notes)
                /\ ended' = TRUE
    BY <1>5, <1>6, <1>8
  <1> QED
    BY <1>4, <1>7, <1>8 DEF WorkerSaves

-----------------------------------------------------------------------------
(* Handlers and clients.                                                   *)

(* Only one client's side of the state changes.                            *)
LEMMA OneFollowerMoves ==
    ASSUME FollowerInv, NEW f \in Follower, UNCHANGED <<revision, ended, events, author>>,
           NEW place \in {"closed", "list", "check", "wait", "ending"}, NEW at \in Nat,
           NEW wired \in Seq(Event), NEW got \in Seq(Event), breaks' \in Nat,
           connection' = [connection EXCEPT ![f] = place],
           after' = [after EXCEPT ![f] = at],
           wire' = [wire EXCEPT ![f] = wired],
           received' = [received EXCEPT ![f] = got],
           Part(events, got, wired, place, at)
    PROVE  FollowerInv'
  <1>1. FollowerTypeOK
    BY FollowerParts
  <1>2. FollowerTypeOK'
    BY <1>1 DEF FollowerTypeOK
  <1>3. Numbers(events)'
    BY FollowerParts
  <1>4. /\ connection'[f] = place /\ after'[f] = at /\ wire'[f] = wired /\ received'[f] = got
    BY <1>1 DEF FollowerTypeOK
  <1>5. Follows(f)'
    BY <1>4 DEF Follows
  <1>6. ASSUME NEW g \in Follower, g # f PROVE Follows(g)'
    <2>1. /\ connection'[g] = connection[g] /\ after'[g] = after[g]
          /\ wire'[g] = wire[g] /\ received'[g] = received[g]
      BY <1>1, <1>6 DEF FollowerTypeOK
    <2>2. Follows(g)
      BY DEF FollowerInv
    <2> QED
      BY <2>1, <2>2 DEF Follows
  <1> QED
    BY <1>2, <1>3, <1>5, <1>6 DEF FollowerInv

(* A client's side, named.                                                 *)
LEMMA OneFollower ==
    ASSUME FollowerInv, NEW f \in Follower
    PROVE  \E place \in {"closed", "list", "check", "wait", "ending"}, at \in Nat,
              wired \in Seq(Event), got \in Seq(Event) :
                 /\ connection = [connection EXCEPT ![f] = place] /\ connection[f] = place
                 /\ after = [after EXCEPT ![f] = at] /\ after[f] = at
                 /\ wire = [wire EXCEPT ![f] = wired] /\ wire[f] = wired
                 /\ received = [received EXCEPT ![f] = got] /\ received[f] = got
                 /\ Part(events, got, wired, place, at)
  <1>1. /\ connection[f] \in {"closed", "list", "check", "wait", "ending"}
        /\ after[f] \in Nat /\ wire[f] \in Seq(Event) /\ received[f] \in Seq(Event)
    BY FollowerParts DEF FollowerTypeOK
  <1>2. /\ connection = [connection EXCEPT ![f] = connection[f]]
        /\ after = [after EXCEPT ![f] = after[f]]
        /\ wire = [wire EXCEPT ![f] = wire[f]]
        /\ received = [received EXCEPT ![f] = received[f]]
    BY FollowerParts DEF FollowerTypeOK
  <1>3. Part(events, received[f], wire[f], connection[f], after[f])
    BY DEF FollowerInv, Follows
  <1> QED
    BY <1>1, <1>2, <1>3

LEMMA ConnectKeeps ==
    ASSUME FollowerInv, NEW f \in Follower, Connect(f)
    PROVE  FollowerInv'
  <1>1. PICK place \in {"closed", "list", "check", "wait", "ending"}, at \in Nat,
             wired \in Seq(Event), got \in Seq(Event) :
                 /\ connection = [connection EXCEPT ![f] = place] /\ connection[f] = place
                 /\ after = [after EXCEPT ![f] = at] /\ after[f] = at
                 /\ wire = [wire EXCEPT ![f] = wired] /\ wire[f] = wired
                 /\ received = [received EXCEPT ![f] = got] /\ received[f] = got
                 /\ Part(events, got, wired, place, at)
    BY OneFollower
  <1>2. Part(events, got, wired, "closed", at)
    BY <1>1 DEF Connect
  <1>3. /\ Part(events, got, wired, "list", Len(got)) /\ Len(got) \in Nat
        /\ got = <<>> => Len(got) = 0
        /\ got # <<>> => got[Len(got)].sequence = Len(got)
    BY <1>2, PartConnects, FollowerParts
  <1>4. /\ after' = [after EXCEPT ![f] = Len(got)]
        /\ connection' = [connection EXCEPT ![f] = "list"]
        /\ UNCHANGED <<revision, ended, events, author, wire, received, breaks>>
    BY <1>1, <1>3 DEF Connect, Opens, recordVars
  <1>5. breaks' \in Nat
    BY <1>4, FollowerParts DEF FollowerTypeOK
  <1> QED
    BY <1>1, <1>3, <1>4, <1>5, OneFollowerMoves

LEMMA WritesKeeps ==
    ASSUME FollowerInv, NEW f \in Follower, NEW next \in {"check", "list"},
           connection[f] # "closed", Writes(f, next)
    PROVE  FollowerInv'
  <1>1. PICK place \in {"closed", "list", "check", "wait", "ending"}, at \in Nat,
             wired \in Seq(Event), got \in Seq(Event) :
                 /\ connection = [connection EXCEPT ![f] = place] /\ connection[f] = place
                 /\ after = [after EXCEPT ![f] = at] /\ after[f] = at
                 /\ wire = [wire EXCEPT ![f] = wired] /\ wire[f] = wired
                 /\ received = [received EXCEPT ![f] = got] /\ received[f] = got
                 /\ Part(events, got, wired, place, at)
    BY OneFollower
  <1>2. place # "closed" /\ next # "closed"
    BY <1>1
  <1>3. PICK batch \in Seq(Event) :
                 /\ batch = SubSeq(events, at + 1, Len(events))
                 /\ wired \o batch \in Seq(Event)
                 /\ Part(events, got, wired \o batch, next, Len(events)) /\ Len(events) \in Nat
                 /\ batch = <<>> => at = Len(events)
                 /\ batch # <<>> => batch[Len(batch)].sequence = Len(events)
    <2>1. /\ Part(events, got, wired, place, at) /\ Numbers(events) /\ events \in Seq(Event)
      BY <1>1, FollowerParts
    <2> QED
      BY <1>2, <2>1, PartWrites
  <1>4. Following(after[f]) = batch
    BY <1>1, <1>3 DEF Following
  <1>5. /\ wire' = [wire EXCEPT ![f] = wired \o batch]
        /\ connection' = [connection EXCEPT ![f] = next]
        /\ after' = [after EXCEPT ![f] = IF batch = <<>> THEN at ELSE batch[Len(batch)].sequence]
        /\ UNCHANGED <<revision, ended, events, author, received, breaks>>
    BY <1>1, <1>4 DEF Writes, recordVars
  <1>6. after' = [after EXCEPT ![f] = Len(events)]
    BY <1>3, <1>5
  <1>7. PICK L \in Nat, grown \in Seq(Event) :
             L = Len(events) /\ grown = wired \o batch /\ Part(events, got, grown, next, L)
    BY <1>3
  <1>8. /\ connection' = [connection EXCEPT ![f] = next]
        /\ after' = [after EXCEPT ![f] = L]
        /\ wire' = [wire EXCEPT ![f] = grown]
        /\ received' = [received EXCEPT ![f] = got]
        /\ breaks' \in Nat /\ UNCHANGED <<revision, ended, events, author>>
    BY <1>1, <1>5, <1>6, <1>7, FollowerParts DEF FollowerTypeOK
  <1> QED
    BY <1>7, <1>8, OneFollowerMoves

LEMMA ReceiveKeeps ==
    ASSUME FollowerInv, NEW f \in Follower, Receive(f)
    PROVE  FollowerInv'
  <1>1. PICK place \in {"closed", "list", "check", "wait", "ending"}, at \in Nat,
             wired \in Seq(Event), got \in Seq(Event) :
                 /\ connection = [connection EXCEPT ![f] = place] /\ connection[f] = place
                 /\ after = [after EXCEPT ![f] = at] /\ after[f] = at
                 /\ wire = [wire EXCEPT ![f] = wired] /\ wire[f] = wired
                 /\ received = [received EXCEPT ![f] = got] /\ received[f] = got
                 /\ Part(events, got, wired, place, at)
    BY OneFollower
  <1>2. wired # <<>>
    BY <1>1 DEF Receive
  <1>3. /\ Append(got, Head(wired)) \in Seq(Event) /\ Tail(wired) \in Seq(Event)
        /\ Part(events, Append(got, Head(wired)), Tail(wired), place, at)
    BY <1>1, <1>2, PartReceives, FollowerParts
  <1>4. /\ received' = [received EXCEPT ![f] = Append(got, Head(wired))]
        /\ wire' = [wire EXCEPT ![f] = Tail(wired)]
        /\ UNCHANGED <<revision, ended, events, author, connection, after, breaks>>
    BY <1>1 DEF Receive, recordVars
  <1>5. PICK more \in Seq(Event), rest \in Seq(Event) :
             /\ more = Append(got, Head(wired)) /\ rest = Tail(wired)
             /\ Part(events, more, rest, place, at)
    BY <1>3
  <1>6. /\ connection' = [connection EXCEPT ![f] = place]
        /\ after' = [after EXCEPT ![f] = at]
        /\ wire' = [wire EXCEPT ![f] = rest]
        /\ received' = [received EXCEPT ![f] = more]
        /\ breaks' \in Nat /\ UNCHANGED <<revision, ended, events, author>>
    BY <1>1, <1>4, <1>5, FollowerParts DEF FollowerTypeOK
  <1> QED
    BY <1>5, <1>6, OneFollowerMoves

LEMMA ClosingKeeps ==
    ASSUME FollowerInv, NEW f \in Follower, Hangup(f) \/ Break(f)
    PROVE  FollowerInv'
  <1>1. PICK place \in {"closed", "list", "check", "wait", "ending"}, at \in Nat,
             wired \in Seq(Event), got \in Seq(Event) :
                 /\ connection = [connection EXCEPT ![f] = place] /\ connection[f] = place
                 /\ after = [after EXCEPT ![f] = at] /\ after[f] = at
                 /\ wire = [wire EXCEPT ![f] = wired] /\ wire[f] = wired
                 /\ received = [received EXCEPT ![f] = got] /\ received[f] = got
                 /\ Part(events, got, wired, place, at)
    BY OneFollower
  <1>2. breaks' \in Nat
    BY FollowerParts DEF FollowerTypeOK, Hangup, Break
  <1>3. /\ connection' = [connection EXCEPT ![f] = "closed"]
        /\ wire' = [wire EXCEPT ![f] = <<>>]
        /\ UNCHANGED <<revision, ended, events, author, after>>
    BY <1>1 DEF Hangup, Break, recordVars
  <1>4. PICK kept \in {got, <<>>} : received' = [received EXCEPT ![f] = kept]
    BY <1>1 DEF Hangup, Break
  <1>5. kept \in Seq(Event) /\ <<>> \in Seq(Event)
    BY <1>4, EmptySeq
  <1>6. Part(events, kept, <<>>, "closed", at)
    BY <1>1, PartCloses, FollowerParts
  <1> QED
    BY <1>1, <1>2, <1>3, <1>4, <1>5, <1>6, OneFollowerMoves

LEMMA ServeKeeps ==
    ASSUME FollowerInv, NEW f \in Follower, Serve(f)
    PROVE  FollowerInv'
  <1>1. CASE List(f)
    BY <1>1, WritesKeeps DEF List
  <1>2. CASE Wait(f) /\ Writes(f, "list")
    BY <1>2, WritesKeeps DEF Wait
  <1>3. ASSUME NEW next \in {"list", "wait", "ending"}, connection[f] # "closed",
               connection' = [connection EXCEPT ![f] = next],
               UNCHANGED <<recordVars, author, after, wire, received, breaks>>
        PROVE  FollowerInv'
    <2>1. PICK place \in {"closed", "list", "check", "wait", "ending"}, at \in Nat,
               wired \in Seq(Event), got \in Seq(Event) :
                   /\ connection = [connection EXCEPT ![f] = place] /\ connection[f] = place
                   /\ after = [after EXCEPT ![f] = at] /\ after[f] = at
                   /\ wire = [wire EXCEPT ![f] = wired] /\ wire[f] = wired
                   /\ received = [received EXCEPT ![f] = got] /\ received[f] = got
                   /\ Part(events, got, wired, place, at)
      BY OneFollower
    <2>2. UNCHANGED <<revision, ended, events, author, after, wire, received, breaks>>
      BY <1>3 DEF recordVars
    <2>3. Part(events, got, wired, next, at)
      BY <1>3, <2>1 DEF Part
    <2>4. /\ connection' = [connection EXCEPT ![f] = next]
          /\ after' = [after EXCEPT ![f] = at]
          /\ wire' = [wire EXCEPT ![f] = wired]
          /\ received' = [received EXCEPT ![f] = got]
          /\ breaks' \in Nat /\ UNCHANGED <<revision, ended, events, author>>
      BY <1>3, <2>1, <2>2, FollowerParts DEF FollowerTypeOK
    <2> QED
      BY <2>3, <2>4, OneFollowerMoves
  <1>4. CASE Check(f)
    BY <1>3, <1>4 DEF Check
  <1>5. CASE Wait(f) /\ ~Writes(f, "list")
    BY <1>3, <1>5 DEF Wait
  <1> QED
    BY <1>1, <1>2, <1>4, <1>5 DEF Serve

LEMMA FollowersGoOn == FollowerInv /\ [FollowerNext]_followerVars => FollowerInv'
  <1> SUFFICES ASSUME FollowerInv, [FollowerNext]_followerVars PROVE FollowerInv'
    OBVIOUS
  <1>1. CASE SinkStep \/ SinkSaves \/ WorkerStep \/ WorkerSaves
    BY <1>1, WriterStepKeeps, SinkSavesKeeps, WorkerSavesKeeps
  <1>2. ASSUME NEW f \in Follower, Serve(f) \/ Reading(f) \/ Break(f)
        PROVE  FollowerInv'
    BY <1>2, ServeKeeps, ConnectKeeps, ReceiveKeeps, ClosingKeeps DEF Reading
  <1>3. CASE UNCHANGED followerVars
    BY <1>3 DEF followerVars, FollowerInv, FollowerTypeOK, Follows
  <1> QED
    BY <1>1, <1>2, <1>3 DEF FollowerNext

LEMMA FollowersAlways == FollowerSpec => []FollowerInv
  <1>1. FollowerInit => FollowerInv
    BY FollowersStart
  <1>2. FollowerInv /\ [FollowerNext]_followerVars => FollowerInv'
    BY FollowersGoOn
  <1> QED
    BY <1>1, <1>2, PTL DEF FollowerSpec

(* Whatever a client has received is the beginning of the log: no event    *)
(* missing, none twice and none out of order, for any number of clients,   *)
(* writers' races and connections that break (handleExecutionEvents of     *)
(* httpapi/executions.go, ListEvents, Save).                               *)
THEOREM FollowersInOrder == FollowerSpec => []DeliveredInOrder
  <1>1. FollowerInv => DeliveredInOrder
    BY InOrder
  <1> QED
    BY <1>1, FollowersAlways, PTL
=============================================================================
