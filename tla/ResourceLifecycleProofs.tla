----------------------- MODULE ResourceLifecycleProofs -----------------------
(***************************************************************************)
(* Proofs about ResourceLifecycle: for any resources, uploads and calls,   *)
(* with every step of every call free to fail and the process free to die, *)
(* what is stored in one place can be found from another.                  *)
(***************************************************************************)
EXTENDS ResourceLifecycle, FiniteSetTheorems, SequenceTheorems, WellFoundedInduction, TLAPS

-----------------------------------------------------------------------------
(* The inductive invariant.                                                *)

Creating == {"stream", "commit", "unpublish", "fail"}
Looking  == {"find", "check", "open", "upload"}
Carrying == {"protect", "bind", "dropSecret", "dropAsset"}
Cleaning == {"secret", "asset", "unbind", "unsecret"}
Deleting == {"list", "unlink", "finish"} \cup Cleaning

Leaving == {"deleting", "deleted"}
Offered == {"ready", "expired"} \cup Leaving

Subject(j) == Head(j.queue).res
Known(j)   == Head(j.queue).row.state

(* What a call knows of itself: its place says what it has read of its     *)
(* resource and whether bindings are left to clean.                        *)
Placed(j) ==
    /\ j.pc = "expire" => Known(j) = "ready"
    /\ j.pc = "begin" => Known(j) \in {"ready", "expired"}
    /\ j.pc \in Deleting => Known(j) = "deleting"
    /\ j.pc \in {"asset", "unbind", "unsecret"} => j.todo # {}
    /\ j.todo # {} => j.pc \in Cleaning
    /\ j.pc \notin Creating =>
          \A n \in DOMAIN j.queue : j.queue[n].row.state \in {"ready", "expired", "deleting"}

(* The row has gone on from what was read of it.                           *)
RowsAgree(j) ==
    /\ j.pc \in Creating => row[Subject(j)].state = "receiving"
    /\ j.pc \in Looking \cup Carrying => row[Subject(j)].state \in Offered
    /\ \A n \in DOMAIN j.queue :
          j.queue[n].row.state = "deleting" => row[j.queue[n].res].state \in Leaving

ObjectsAgree(j) ==
    /\ j.pc = "stream" => Subject(j) \notin objects
    /\ j.pc \in {"commit", "unpublish"} => Subject(j) \in objects
    /\ j.pc = "fail" => lost \/ Subject(j) \notin objects
    /\ j.pc = "finish" => Subject(j) \notin objects

(* An upload that is carried is not bound yet; one that is being cleaned   *)
(* away loses its asset, its binding and its secret, in this order.        *)
UploadsAgree(j) ==
    /\ j.pc \in Carrying =>
          j.up \in Upload /\ source[j.up] = Subject(j) /\ j.up \notin bindings
    /\ j.pc = "protect" => j.up \in assets /\ j.up \notin secrets
    /\ j.pc = "bind" => j.up \in assets /\ j.up \in secrets
    /\ j.pc = "dropAsset" => lost \/ j.up \notin secrets
    /\ \A u \in j.todo : source[u] = Subject(j)
    /\ j.pc = "unbind" => First(j.todo) \notin assets
    /\ j.pc = "unsecret" => First(j.todo) \notin bindings

(* No two calls create one resource or carry one upload, and an upload     *)
(* that is carried was never listed for a cleanup.                         *)
Apart(j, k) ==
    /\ j.pc \in Creating /\ k.pc \in Creating => Subject(j) # Subject(k)
    /\ j.pc \in Carrying /\ k.pc \in Carrying => j.up # k.up
    /\ j.pc \in Carrying => j.up \notin k.todo
    /\ k.pc \in Carrying => k.up \notin j.todo

Rank(state) ==
    CASE state = "none" -> 0 [] state = "receiving" -> 1 [] state \in {"ready", "failed"} -> 2
      [] state = "expired" -> 3 [] state = "deleting" -> 4 [] OTHER -> 5

(* Rows, objects and uploads by themselves.                                *)
Stored ==
    /\ \A r \in Resource : row[r].rev <= Rank(row[r].state)
    /\ \A r \in objects : row[r].state # "none"
    /\ \A u \in Upload : source[u] # NoResource => row[source[u]].state \in Offered

Agree ==
    \A c \in Call : /\ Placed(call[c]) /\ RowsAgree(call[c])
                    /\ ObjectsAgree(call[c]) /\ UploadsAgree(call[c])

AllApart == \A c, d \in Call : c # d => Apart(call[c], call[d])

(* NothingOrphaned, owner by owner.                                        *)
Carries(u) == \E c \in Call : call[c].pc \in Carrying /\ call[c].up = u
Releases(u) == \E c \in Call : call[c].pc = "unsecret" /\ First(call[c].todo) = u
Publishes(r) == \E c \in Call : call[c].pc \in {"commit", "unpublish"} /\ Subject(call[c]) = r

Accounted ==
    lost \/ /\ \A u \in assets : u \in bindings \/ Carries(u)
            /\ \A u \in secrets : u \in bindings \/ Carries(u) \/ Releases(u)
            /\ \A r \in objects :
                  row[r].state \in {"ready", "expired", "deleting"} \/ Publishes(r)

Found == ReusableBindingsWork /\ CleanupCanResume /\ Accounted

IInv == TypeOK /\ Stored /\ Agree /\ AllApart /\ Found

-----------------------------------------------------------------------------
(* Small facts.                                                            *)

LEMMA AccountedMeansFound == TypeOK /\ Accounted => NothingOrphaned
  BY DEF Accounted, NothingOrphaned, Carries, Releases, Publishes, InHand, HeldOpen,
         Carrying, Subject, This, TypeOK

(* The first of a non-empty set of uploads is one of them.                 *)
LEMMA MinimumExists ==
    ASSUME NEW Less, NEW All, IsWellFoundedOn(Less, All), NEW Some, Some \subseteq All, Some # {}
    PROVE  \E x \in Some : \A y \in Some : ~ (<<y, x>> \in Less)
  BY WFMin

LEMMA LeastNumber ==
    ASSUME NEW Less, \A x, y \in Nat : x < y => <<x, y>> \in Less,
           NEW Some, Some \subseteq Nat,
           NEW x \in Some, \A y \in Some : ~ (<<y, x>> \in Less)
    PROVE  \A y \in Some : x =< y
  <1> SUFFICES ASSUME NEW y \in Some PROVE x =< y
    OBVIOUS
  <1>1. ~ (y < x)
    OBVIOUS
  <1> QED
    BY <1>1

LEMMA FirstIsOne ==
    ASSUME NEW S \in SUBSET Upload, S # {}
    PROVE  First(S) \in S
  <1>1. \A x, y \in Nat : x < y => <<x, y>> \in OpToRel(<, Nat)
    BY DEF OpToRel
  <1>2. S \subseteq Nat
    BY UploadAssumption
  <1>3. PICK x \in S : \A y \in S : ~ (<<y, x>> \in OpToRel(<, Nat))
    BY <1>2, MinimumExists, NatLessThanWellFounded, Zenon
  <1>4. \A y \in S : x =< y
    BY <1>1, <1>2, <1>3, LeastNumber, Zenon
  <1> QED
    BY <1>4, Zenon DEF First, Min

(* The head of the queue of a call that is under way.                      *)
LEMMA HeadIsItem ==
    ASSUME NEW j \in Working, j.queue # <<>>
    PROVE  /\ Head(j.queue) \in Item /\ Subject(j) \in Resource
           /\ 1 \in DOMAIN j.queue /\ Head(j.queue) = j.queue[1]
           /\ \A n \in DOMAIN j.queue : j.queue[n] \in Item
  <1>1. j.queue \in Seq(Item)
    BY DEF Working
  <1>2. /\ Head(j.queue) \in Item /\ Len(j.queue) \in Nat \ {0}
        /\ DOMAIN j.queue = 1..Len(j.queue) /\ Head(j.queue) = j.queue[1]
        /\ \A n \in 1..Len(j.queue) : j.queue[n] \in Item
    BY <1>1, HeadTailProperties, ElementOfSeq, LenProperties, EmptySeq
  <1> QED
    BY <1>2 DEF Item, Subject

LEMMA IdleFits ==
    /\ Idle \in Working /\ (Idle.pc = "idle" <=> Idle.queue = <<>>)
    /\ Placed(Idle) /\ RowsAgree(Idle) /\ ObjectsAgree(Idle) /\ UploadsAgree(Idle)
    /\ \A k : Apart(Idle, k) \/ k.pc \in Carrying
    /\ Idle.pc = "idle" /\ Idle.todo = {}
  BY DEF Idle, Working, Place, Placed, RowsAgree, ObjectsAgree, UploadsAgree, Apart,
         Creating, Looking, Carrying, Cleaning, Deleting

(* A call that goes on to another place with what it has in hand.          *)
LEMMA GoesOn ==
    ASSUME TypeOK, NEW c \in Call, call[c].pc # "idle", NEW pc \in Place \ {"idle"}
    PROVE  LET k == call[c]  j == [call[c] EXCEPT !.pc = pc]
           IN  /\ k \in Working /\ k.queue # <<>> /\ This(c) = Subject(k)
               /\ Subject(k) \in Resource /\ Seen(c).state = Known(k)
               /\ j \in Working /\ j.queue # <<>> /\ j.pc = pc
               /\ j.queue = k.queue /\ j.todo = k.todo /\ j.up = k.up
               /\ Subject(j) = Subject(k) /\ Known(j) = Known(k)
  <1>1. call[c] \in Working /\ call[c].queue # <<>>
    BY DEF TypeOK
  <1>2. Subject(call[c]) \in Resource
    BY <1>1, HeadIsItem
  <1> QED
    BY <1>1, <1>2 DEF Working, This, Seen, Subject, Known

-----------------------------------------------------------------------------
(* One call takes a step.                                                  *)

LEMMA ApartIsMutual ==
    ASSUME NEW j \in Working, NEW k \in Working, Apart(j, k)
    PROVE  Apart(k, j)
  BY DEF Apart

LEMMA Continues ==
    ASSUME IInv, NEW c \in Call, NEW j \in Working, j.pc = "idle" <=> j.queue = <<>>,
           call' = [call EXCEPT ![c] = j],
           Placed(j), RowsAgree(j)', ObjectsAgree(j)', UploadsAgree(j)',
           \A d \in Call \ {c} : Apart(j, call[d]),
           \A d \in Call \ {c} : \A k \in Working :
               k = call[d] => RowsAgree(k)' /\ ObjectsAgree(k)' /\ UploadsAgree(k)'
    PROVE  /\ call' \in [Call -> Working]
           /\ \A d \in Call : call'[d].pc = "idle" <=> call'[d].queue = <<>>
           /\ Agree' /\ AllApart'
  <1>1. call \in [Call -> Working] /\ \A d \in Call : call[d].pc = "idle" <=> call[d].queue = <<>>
    BY DEF IInv, TypeOK
  <1>2. call'[c] = j /\ \A d \in Call \ {c} : call'[d] = call[d]
    BY <1>1
  <1>3. call' \in [Call -> Working]
    BY <1>1
  <1>4. \A d \in Call : call'[d].pc = "idle" <=> call'[d].queue = <<>>
    BY <1>1, <1>2
  <1>5. Agree'
    <2> SUFFICES ASSUME NEW d \in Call
                 PROVE  /\ Placed(call'[d]) /\ RowsAgree(call[d])'
                        /\ ObjectsAgree(call[d])' /\ UploadsAgree(call[d])'
      BY DEF Agree, Placed
    <2>1. CASE d = c
      BY <2>1, <1>2 DEF RowsAgree, ObjectsAgree, UploadsAgree
    <2>2. CASE d # c
      <3>1. Placed(call[d])
        BY DEF IInv, Agree
      <3> DEFINE k == call[d]
      <3>2. k \in Working /\ call'[d] = k
        BY <1>1, <1>2, <2>2
      <3>3. RowsAgree(k)' /\ ObjectsAgree(k)' /\ UploadsAgree(k)'
        BY <3>2, <2>2 DEF RowsAgree, ObjectsAgree, UploadsAgree
      <3> QED
        BY <3>1, <3>2, <3>3
    <2> QED
      BY <2>1, <2>2
  <1>6. AllApart'
    <2> SUFFICES ASSUME NEW d \in Call, NEW e \in Call, d # e
                 PROVE  Apart(call'[d], call'[e])
      BY DEF AllApart, Apart
    <2>1. CASE d = c
      BY <2>1, <1>2
    <2>2. CASE e = c
      BY <2>2, <1>1, <1>2, ApartIsMutual
    <2>3. CASE d # c /\ e # c
      BY <2>3, <1>2 DEF IInv, AllApart
    <2> QED
      BY <2>1, <2>2, <2>3
  <1> QED
    BY <1>3, <1>4, <1>5, <1>6

(* What a step that changes no store must not let go of.                   *)
Keeps(k, j) ==
    /\ k.pc \in Carrying => j.pc \in Carrying /\ j.up = k.up
    /\ k.pc = "unsecret" => j.pc = "unsecret" /\ j.todo = k.todo
    /\ k.pc \in {"commit", "unpublish"} =>
          j.pc \in {"commit", "unpublish"} /\ Subject(j) = Subject(k)

LEMMA QuietStep ==
    ASSUME IInv, NEW c \in Call, NEW j \in Working, j.pc = "idle" <=> j.queue = <<>>,
           call' = [call EXCEPT ![c] = j], UNCHANGED <<stores, clock, lost>>,
           Placed(j), RowsAgree(j), ObjectsAgree(j), UploadsAgree(j),
           \A d \in Call \ {c} : Apart(j, call[d]), Keeps(call[c], j)
    PROVE  IInv'
  <1>0. UNCHANGED <<row, objects, source, assets, secrets, bindings, elapsed, lapsed, lost>>
    BY DEF stores, clock
  <1>1. \A k \in Working : /\ RowsAgree(k) => RowsAgree(k)'
                           /\ ObjectsAgree(k) => ObjectsAgree(k)'
                           /\ UploadsAgree(k) => UploadsAgree(k)'
    BY <1>0 DEF RowsAgree, ObjectsAgree, UploadsAgree
  <1>2. /\ call' \in [Call -> Working]
        /\ \A d \in Call : call'[d].pc = "idle" <=> call'[d].queue = <<>>
        /\ Agree' /\ AllApart'
    <2>1. \A d \in Call \ {c} : \A k \in Working :
              k = call[d] => RowsAgree(k)' /\ ObjectsAgree(k)' /\ UploadsAgree(k)'
      BY <1>1 DEF IInv, Agree
    <2> QED
      BY <1>1, <2>1, Continues
  <1>3. TypeOK'
    BY <1>0, <1>2 DEF IInv, TypeOK
  <1>4. Stored'
    BY <1>0 DEF IInv, Stored
  <1>5. Found'
    <2>1. ReusableBindingsWork' /\ CleanupCanResume'
      BY <1>0 DEF IInv, Found, ReusableBindingsWork, CleanupCanResume
    <2>2. call'[c] = j /\ \A d \in Call \ {c} : call'[d] = call[d]
      BY DEF IInv, TypeOK
    <2>3. /\ \A u : Carries(u) => Carries(u)'
          /\ \A u : Releases(u) => Releases(u)'
          /\ \A r : Publishes(r) => Publishes(r)'
      BY <2>2 DEF Carries, Releases, Publishes, Keeps
    <2>4. Accounted'
      BY <1>0, <2>3 DEF IInv, Found, Accounted
    <2> QED
      BY <2>1, <2>4 DEF Found
  <1> QED
    BY <1>2, <1>3, <1>4, <1>5 DEF IInv

(* A call ends without having changed anything.                            *)
LEMMA QuietEnd ==
    ASSUME IInv, NEW c \in Call, Finished(c), UNCHANGED <<stores, clock, lost>>,
           call[c].pc \notin Carrying \cup {"unsecret", "commit", "unpublish"}
    PROVE  IInv'
  <1>1. \A d \in Call \ {c} : Apart(Idle, call[d])
    BY DEF IInv, Apart, Idle, Creating, Carrying
  <1>2. Keeps(call[c], Idle)
    BY DEF Keeps
  <1> QED
    BY <1>1, <1>2, IdleFits, QuietStep DEF Finished

(* A call goes on to another place, having changed nothing.                *)
LEMMA QuietMove ==
    ASSUME IInv, NEW c \in Call, call[c].pc # "idle", NEW pc \in Place \ {"idle"},
           To(c, pc), UNCHANGED <<stores, clock, lost>>,
           \/ call[c].pc \in Looking /\ pc \in Looking
           \/ call[c].pc = "stream" /\ pc = "fail"
           \/ call[c].pc = "commit" /\ pc = "unpublish"
           \/ call[c].pc = "protect" /\ pc = "dropAsset"
           \/ call[c].pc = "bind" /\ pc = "dropSecret"
           \/ call[c].pc = "secret" /\ pc = "unlink" /\ call[c].todo = {}
           \/ call[c].pc = "secret" /\ pc = "asset" /\ call[c].todo # {}
    PROVE  IInv'
  <1> DEFINE k == call[c]
             j == [call[c] EXCEPT !.pc = pc]
  <1>1. /\ k \in Working /\ k.queue # <<>> /\ j \in Working /\ j.queue # <<>> /\ j.pc = pc
        /\ j.queue = k.queue /\ j.todo = k.todo /\ j.up = k.up
        /\ Subject(j) = Subject(k) /\ Known(j) = Known(k)
    BY GoesOn DEF IInv
  <1>2. call' = [call EXCEPT ![c] = j]
    BY DEF To
  <1>3. Placed(k) /\ RowsAgree(k) /\ ObjectsAgree(k) /\ UploadsAgree(k)
    BY DEF IInv, Agree
  <1>4. \A d \in Call \ {c} : Apart(k, call[d])
    BY DEF IInv, AllApart
  <1> HIDE DEF k, j
  <1>5. Placed(j)
    BY <1>1, <1>3 DEF k, Placed, Creating, Looking, Carrying, Cleaning, Deleting
  <1>6. RowsAgree(j)
    BY <1>1, <1>3 DEF k, RowsAgree, Creating, Looking, Carrying
  <1>7. ObjectsAgree(j)
    BY <1>1, <1>3 DEF k, ObjectsAgree, Looking
  <1>8. UploadsAgree(j)
    BY <1>1, <1>3 DEF k, UploadsAgree, Looking, Carrying
  <1>9. \A d \in Call \ {c} : Apart(j, call[d])
    BY <1>1, <1>4 DEF k, Apart, Creating, Looking, Carrying
  <1>10. Keeps(call[c], j)
    BY <1>1 DEF k, Keeps, Looking, Carrying
  <1> QED
    BY <1>1, <1>2, <1>5, <1>6, <1>7, <1>8, <1>9, <1>10, QuietStep DEF Place

(* A call begins with rows as they are now.                                *)
LEMMA QuietStart ==
    ASSUME IInv, NEW c \in Call, NEW pc \in {"find", "expire", "begin", "list"},
           NEW items \in Seq(Item), items # <<>>, Start(c, pc, items),
           UNCHANGED <<stores, clock, lost>>,
           \A n \in DOMAIN items :
               /\ items[n].row = row[items[n].res]
               /\ items[n].row.state \in {"ready", "expired", "deleting"},
           pc = "expire" => items[1].row.state = "ready",
           pc = "begin" => items[1].row.state \in {"ready", "expired"},
           pc = "list" => items[1].row.state = "deleting"
    PROVE  IInv'
  <1> DEFINE k == call[c]
             j == [call[c] EXCEPT !.pc = pc, !.queue = items]
  <1>1. k \in Working /\ k.pc = "idle" /\ Placed(k)
    BY DEF IInv, TypeOK, Agree, Start, At
  <1>2. k.todo = {}
    BY <1>1 DEF Placed, Cleaning
  <1>3. j \in Working /\ j.pc = pc /\ j.queue = items /\ j.todo = {}
    BY <1>1, <1>2 DEF Working, Place
  <1>4. call' = [call EXCEPT ![c] = j]
    BY DEF Start
  <1>5. \A d \in Call \ {c} : call[d] \in Working
    BY DEF IInv, TypeOK
  <1> HIDE DEF k, j
  <1>6. /\ Head(j.queue) = j.queue[1] /\ 1 \in DOMAIN items /\ Subject(j) \in Resource
        /\ Known(j) = items[1].row.state
    BY <1>3, HeadIsItem DEF Known
  <1>7. Placed(j)
    BY <1>3, <1>6 DEF Placed, Creating, Cleaning, Deleting
  <1>8. RowsAgree(j)
    BY <1>3, <1>6 DEF RowsAgree, Creating, Looking, Carrying, Offered, Leaving, Subject
  <1>9. ObjectsAgree(j) /\ UploadsAgree(j)
    BY <1>3 DEF ObjectsAgree, UploadsAgree, Carrying
  <1>10. \A d \in Call \ {c} : Apart(j, call[d])
    BY <1>3 DEF Apart, Creating, Carrying
  <1>11. Keeps(call[c], j)
    BY <1>1 DEF k, Keeps, Carrying
  <1> QED
    BY <1>3, <1>4, <1>7, <1>8, <1>9, <1>10, <1>11, QuietStep

LEMMA OneItem ==
    ASSUME TypeOK, NEW r \in Resource, NEW item, item = [res |-> r, row |-> row[r]]
    PROVE  /\ <<item>> \in Seq(Item) /\ <<item>> # <<>> /\ DOMAIN <<item>> = 1..1
           /\ <<item>>[1].res = r /\ <<item>>[1].row = row[r]
  BY DEF TypeOK, Item

LEMMA StartingPreserves ==
    ASSUME IInv, NEW c \in Call, NEW r \in Resource, Materialize(c, r) \/ Delete(c, r)
    PROVE  IInv'
  <1> DEFINE items == <<[res |-> r, row |-> row[r]]>>
  <1>1. /\ items \in Seq(Item) /\ items # <<>> /\ DOMAIN items = 1..1
        /\ items[1].res = r /\ items[1].row = row[r]
    BY OneItem DEF IInv
  <1>2. row[r].state \in {"ready", "expired", "deleting"} /\ UNCHANGED <<stores, clock, lost>>
    BY DEF Materialize, Delete
  <1>3. CASE Materialize(c, r)
    <2>1. Start(c, "find", items)
      BY <1>3 DEF Materialize
    <2> HIDE DEF items
    <2> QED
      BY <1>1, <1>2, <2>1, QuietStart
  <1>4. CASE Delete(c, r)
    <2>1. Start(c, IF row[r].state = "deleting" THEN "list" ELSE "begin", items)
      BY <1>4 DEF Delete
    <2> HIDE DEF items
    <2>2. CASE row[r].state = "deleting"
      BY <1>1, <1>2, <2>1, <2>2, QuietStart
    <2>3. CASE row[r].state # "deleting"
      BY <1>1, <1>2, <2>1, <2>3, QuietStart
    <2> QED
      BY <2>2, <2>3
  <1> QED
    BY <1>3, <1>4

LEMMA OrdersOfCandidates ==
    ASSUME NEW S, S \subseteq Resource, S # {}, NEW order \in SetToSeqs(S)
    PROVE  /\ order \in [1..Cardinality(S) -> S] /\ Cardinality(S) \in Nat \ {0}
  <1>1. IsFiniteSet(S)
    BY ResourceAssumption, FS_Subset
  <1>2. Cardinality(S) \in Nat /\ Cardinality(S) # 0
    BY <1>1, FS_CardinalityType, FS_EmptySet
  <1> QED
    BY <1>2 DEF SetToSeqs

LEMMA ListExpiredPreserves ==
    ASSUME IInv, NEW c \in Call, ListExpired(c)
    PROVE  IInv'
  <1>1. PICK order \in SetToSeqs(Candidates) :
            Start(c, Entry(row[order[1]].state),
                  [i \in DOMAIN order |-> [res |-> order[i], row |-> row[order[i]]]])
    BY DEF ListExpired
  <1> DEFINE items == [i \in DOMAIN order |-> [res |-> order[i], row |-> row[order[i]]]]
             N == Cardinality(Candidates)
  <1>2. Candidates # {} /\ Candidates \subseteq Resource /\ UNCHANGED <<stores, clock, lost>>
    BY DEF ListExpired, Candidates
  <1>3. order \in [1..N -> Candidates] /\ N \in Nat \ {0}
    BY <1>2, OrdersOfCandidates
  <1>4. \A r \in Candidates : row[r] \in Row /\ row[r].state \in {"ready", "expired", "deleting"}
    BY DEF IInv, TypeOK, Candidates
  <1>5. Start(c, Entry(row[order[1]].state), items)
    BY <1>1
  <1> HIDE DEF N
  <1>6. \A n \in 1..N : order[n] \in Candidates /\ order[n] \in Resource
    BY <1>2, <1>3
  <1>7. DOMAIN items = 1..N /\ \A n \in 1..N : items[n] = [res |-> order[n], row |-> row[order[n]]]
    BY <1>3
  <1>8. \A n \in 1..N : items[n] \in Item /\ items[n].row = row[items[n].res]
                          /\ items[n].row.state \in {"ready", "expired", "deleting"}
    BY <1>4, <1>6, <1>7 DEF Item
  <1>9. items \in [1..N -> Item]
    BY <1>3, <1>4, <1>6 DEF Item
  <1>10. items \in Seq(Item)
    BY <1>3, <1>9
  <1>11. 1 \in 1..N /\ items[1].row.state = row[order[1]].state
    BY <1>3, <1>7
  <1> HIDE DEF items
  <1>12. items # <<>>
    <2>1. Len(items) \in Nat /\ DOMAIN items = 1..Len(items)
      BY <1>10, LenProperties
    <2>2. 1 \in DOMAIN items
      BY <1>7, <1>11
    <2>3. Len(items) # 0
      BY <2>1, <2>2
    <2> QED
      BY <1>10, <2>3, EmptySeq
  <1>13. CASE row[order[1]].state = "ready"
    BY <1>2, <1>5, <1>7, <1>8, <1>10, <1>11, <1>12, <1>13, QuietStart DEF Entry
  <1>14. CASE row[order[1]].state = "expired"
    BY <1>2, <1>5, <1>7, <1>8, <1>10, <1>11, <1>12, <1>14, QuietStart DEF Entry
  <1>15. CASE row[order[1]].state = "deleting"
    BY <1>2, <1>5, <1>7, <1>8, <1>10, <1>11, <1>12, <1>15, QuietStart DEF Entry
  <1> QED
    BY <1>8, <1>11, <1>13, <1>14, <1>15

LEMMA ListByResourcePreserves ==
    ASSUME IInv, NEW c \in Call, ListByResource(c)
    PROVE  IInv'
  <1> DEFINE k == call[c]
             j == [call[c] EXCEPT !.pc = "secret", !.todo = Bound(This(c))]
  <1>1. /\ k \in Working /\ k.pc = "list" /\ k.queue # <<>> /\ This(c) = Subject(k)
        /\ Placed(k) /\ RowsAgree(k)
    BY DEF IInv, TypeOK, Agree, ListByResource, At, This, Subject
  <1>2. Bound(This(c)) \subseteq Upload \cap bindings
    BY DEF Bound, IInv, TypeOK
  <1>3. /\ j \in Working /\ j.pc = "secret" /\ j.queue = k.queue
        /\ j.todo = Bound(Subject(k)) /\ Subject(j) = Subject(k) /\ Known(j) = Known(k)
    BY <1>1, <1>2 DEF Working, Place, Subject, Known
  <1>4. call' = [call EXCEPT ![c] = j] /\ UNCHANGED <<stores, clock, lost>>
    BY DEF ListByResource
  <1>5. \A d \in Call \ {c} : call[d].pc \in Carrying => call[d].up \notin bindings
    BY DEF IInv, Agree, UploadsAgree
  <1> HIDE DEF k, j
  <1>6. Placed(j) /\ RowsAgree(j)
    BY <1>1, <1>3 DEF Placed, RowsAgree, Creating, Looking, Carrying, Cleaning, Deleting
  <1>7. ObjectsAgree(j) /\ UploadsAgree(j)
    BY <1>3 DEF ObjectsAgree, UploadsAgree, Carrying, Bound
  <1>8. \A d \in Call \ {c} : Apart(j, call[d])
    BY <1>2, <1>3, <1>5 DEF Apart, Creating, Carrying, Bound
  <1>9. Keeps(call[c], j)
    BY <1>1 DEF k, Keeps, Carrying
  <1> QED
    BY <1>1, <1>3, <1>4, <1>6, <1>7, <1>8, <1>9, QuietStep

(* The steps that only move a call, and the steps it ends with.            *)
LEMMA QuietPreserves ==
    ASSUME IInv, NEW c \in Call,
           \/ StreamFails(c) \/ CommitFails(c) \/ FindExact(c) \/ CheckReady(c)
           \/ Open(c) \/ ReadSecret(c) \/ Fails(c)
    PROVE  IInv'
  <1>1. CASE StreamFails(c)
    BY <1>1, QuietMove DEF StreamFails, At, Place
  <1>2. CASE CommitFails(c)
    BY <1>2, QuietMove DEF CommitFails, At, Place
  <1>3. CASE FindExact(c)
    <2>1. CASE To(c, "check")
      BY <1>3, <2>1, QuietMove DEF FindExact, At, Place, Looking
    <2>2. CASE Finished(c)
      BY <1>3, <2>2, QuietEnd DEF FindExact, At, Carrying
    <2> QED
      BY <1>3, <2>1, <2>2 DEF FindExact
  <1>4. CASE CheckReady(c)
    <2>1. CASE To(c, "open")
      BY <1>4, <2>1, QuietMove DEF CheckReady, At, Place, Looking
    <2>2. CASE Finished(c)
      BY <1>4, <2>2, QuietEnd DEF CheckReady, At, Carrying
    <2> QED
      BY <1>4, <2>1, <2>2 DEF CheckReady
  <1>5. CASE Open(c)
    <2>1. CASE To(c, "upload")
      BY <1>5, <2>1, QuietMove DEF Open, At, Place, Looking
    <2>2. CASE Finished(c)
      BY <1>5, <2>2, QuietEnd DEF Open, At, Carrying
    <2> QED
      BY <1>5, <2>1, <2>2 DEF Open
  <1>6. CASE ReadSecret(c)
    <2>1. CASE call[c].todo = {} /\ To(c, "unlink")
      BY <1>6, <2>1, QuietMove DEF ReadSecret, At, Place
    <2>2. CASE call[c].todo # {} /\ To(c, "asset")
      BY <1>6, <2>2, QuietMove DEF ReadSecret, At, Place
    <2>3. CASE Finished(c)
      BY <1>6, <2>3, QuietEnd DEF ReadSecret, At, Carrying
    <2> QED
      BY <1>6, <2>1, <2>2, <2>3 DEF ReadSecret
  <1>7. CASE Fails(c)
    BY <1>7, QuietEnd DEF Fails, Carrying
  <1> QED
    BY <1>1, <1>2, <1>3, <1>4, <1>5, <1>6, <1>7

-----------------------------------------------------------------------------
(* The steps that change a store.                                          *)

StoresTyped ==
    /\ row \in [Resource -> Row]
    /\ objects \subseteq Resource /\ elapsed \subseteq Resource \ Lasting
    /\ source \in [Upload -> Resource \cup {NoResource}]
    /\ assets \cup secrets \cup bindings \cup lapsed
           \subseteq {u \in Upload : source[u] # NoResource}
    /\ lost \in BOOLEAN

Agrees(k) == Placed(k) /\ RowsAgree(k) /\ ObjectsAgree(k) /\ UploadsAgree(k)
Shaped(k) == k \in Working /\ (k.pc = "idle" <=> k.queue = <<>>)

LEMMA Everyone ==
    ASSUME IInv, NEW c \in Call
    PROVE  /\ Shaped(call[c]) /\ Agrees(call[c]) /\ StoresTyped
           /\ \A d \in Call \ {c} : /\ Shaped(call[d]) /\ Agrees(call[d])
                                    /\ Apart(call[c], call[d])
  BY DEF IInv, TypeOK, StoresTyped, Agree, AllApart, Agrees, Shaped

LEMMA Changes ==
    ASSUME IInv, NEW c \in Call, NEW j, Shaped(j), call' = [call EXCEPT ![c] = j],
           Placed(j), RowsAgree(j)', ObjectsAgree(j)', UploadsAgree(j)',
           \A m \in Working :
               Shaped(m) /\ Agrees(m) /\ Apart(call[c], m) =>
                   RowsAgree(m)' /\ ObjectsAgree(m)' /\ UploadsAgree(m)' /\ Apart(j, m),
           StoresTyped', Stored', Found'
    PROVE  IInv'
  <1>1. \A d \in Call \ {c} : Shaped(call[d]) /\ Agrees(call[d]) /\ Apart(call[c], call[d])
    BY Everyone
  <1>2. \A d \in Call \ {c} : Apart(j, call[d])
    BY <1>1 DEF Shaped
  <1>3. \A d \in Call \ {c} : \A m \in Working :
            m = call[d] => RowsAgree(m)' /\ ObjectsAgree(m)' /\ UploadsAgree(m)'
    BY <1>1
  <1>4. /\ call' \in [Call -> Working]
        /\ \A d \in Call : call'[d].pc = "idle" <=> call'[d].queue = <<>>
        /\ Agree' /\ AllApart'
    BY <1>2, <1>3, Continues DEF Shaped
  <1>5. TypeOK'
    BY <1>4 DEF TypeOK, StoresTyped
  <1> QED
    BY <1>4, <1>5 DEF IInv

(* Who answers for what is stored, after a step of one call.               *)
LEMMA Owners ==
    ASSUME IInv, NEW c \in Call, NEW j, call' = [call EXCEPT ![c] = j]
    PROVE  /\ \A u : Carries(u) =>
                  Carries(u)' \/ (call[c].pc \in Carrying /\ u = call[c].up)
           /\ \A u : Releases(u) =>
                  Releases(u)' \/ (call[c].pc = "unsecret" /\ u = First(call[c].todo))
           /\ \A r : Publishes(r) =>
                  Publishes(r)' \/ (call[c].pc \in {"commit", "unpublish"} /\ r = Subject(call[c]))
           /\ j.pc \in Carrying => Carries(j.up)'
           /\ j.pc = "unsecret" => Releases(First(j.todo))'
           /\ j.pc \in {"commit", "unpublish"} => Publishes(Subject(j))'
  <1>1. call'[c] = j /\ \A d \in Call \ {c} : call'[d] = call[d]
    BY DEF IInv, TypeOK
  <1> QED
    BY <1>1 DEF Carries, Releases, Publishes

(* The row of a resource a call is deleting says so.                       *)
LEMMA DeletedRows ==
    ASSUME NEW k, Shaped(k), Agrees(k), k.pc \in Deleting
    PROVE  row[Subject(k)].state \in Leaving
  <1>1. k \in Working /\ k.queue # <<>>
    BY DEF Shaped, Deleting, Cleaning
  <1>2. 1 \in DOMAIN k.queue /\ Head(k.queue) = k.queue[1] /\ Known(k) = "deleting"
    BY <1>1, HeadIsItem DEF Agrees, Placed
  <1> QED
    BY <1>2 DEF Agrees, RowsAgree, Subject, Known

(* A call goes on, with what it has in hand, or ends.                      *)
LEMMA MovesOn ==
    ASSUME IInv, NEW c \in Call, call[c].pc # "idle", NEW pc \in Place \ {"idle"}, To(c, pc)
    PROVE  \E k, j \in Working :
             /\ k = call[c] /\ Shaped(k) /\ Agrees(k)
             /\ This(c) = Subject(k) /\ Subject(k) \in Resource
             /\ call' = [call EXCEPT ![c] = j] /\ Shaped(j) /\ j.pc = pc
             /\ j.queue = k.queue /\ j.todo = k.todo /\ j.up = k.up
             /\ Subject(j) = Subject(k) /\ Known(j) = Known(k)
  <1> DEFINE k == call[c]
             j == [call[c] EXCEPT !.pc = pc]
  <1>1. /\ k \in Working /\ k.queue # <<>> /\ This(c) = Subject(k)
        /\ Subject(k) \in Resource
        /\ j \in Working /\ j.queue # <<>> /\ j.pc = pc
        /\ j.queue = k.queue /\ j.todo = k.todo /\ j.up = k.up
        /\ Subject(j) = Subject(k) /\ Known(j) = Known(k)
    BY GoesOn DEF IInv
  <1>2. call' = [call EXCEPT ![c] = j]
    BY DEF To
  <1>3. Shaped(k) /\ Agrees(k)
    BY Everyone
  <1> HIDE DEF k, j
  <1>4. Shaped(j)
    BY <1>1 DEF Shaped
  <1> QED
    BY <1>1, <1>2, <1>3, <1>4 DEF k

LEMMA Ends ==
    ASSUME IInv, NEW c \in Call, Finished(c),
           \A m \in Working :
               Shaped(m) /\ Agrees(m) /\ Apart(call[c], m) =>
                   /\ RowsAgree(m)' /\ ObjectsAgree(m)' /\ UploadsAgree(m)',
           StoresTyped', Stored', Found'
    PROVE  IInv'
  <1>1. call' = [call EXCEPT ![c] = Idle]
    BY DEF Finished
  <1>2. Shaped(Idle) /\ Placed(Idle)
    BY IdleFits DEF Shaped
  <1>3. RowsAgree(Idle)' /\ ObjectsAgree(Idle)' /\ UploadsAgree(Idle)'
    BY DEF RowsAgree, ObjectsAgree, UploadsAgree, Idle, Creating, Looking, Carrying
  <1>4. \A d \in Call \ {c} : \A m \in Working :
            m = call[d] => RowsAgree(m)' /\ ObjectsAgree(m)' /\ UploadsAgree(m)'
    BY Everyone
  <1>5. \A d \in Call \ {c} : Apart(Idle, call[d])
    BY DEF IInv, Apart, Idle, Creating, Carrying
  <1>6. /\ call' \in [Call -> Working]
        /\ \A d \in Call : call'[d].pc = "idle" <=> call'[d].queue = <<>>
        /\ Agree' /\ AllApart'
    BY <1>1, <1>2, <1>3, <1>4, <1>5, Continues DEF Shaped
  <1>7. TypeOK'
    BY <1>6 DEF TypeOK, StoresTyped
  <1> QED
    BY <1>6, <1>7 DEF IInv

LEMMA PublishPreserves ==
    ASSUME IInv, NEW c \in Call, Publish(c)
    PROVE  IInv'
  <1>1. PICK k, j \in Working :
             /\ k = call[c] /\ Shaped(k) /\ Agrees(k)
             /\ This(c) = Subject(k) /\ Subject(k) \in Resource
             /\ call' = [call EXCEPT ![c] = j] /\ Shaped(j) /\ j.pc = "commit"
             /\ j.queue = k.queue /\ j.todo = k.todo /\ j.up = k.up
             /\ Subject(j) = Subject(k) /\ Known(j) = Known(k)
    BY MovesOn DEF Publish, At, Place
  <1>2. k.pc = "stream" /\ objects' = objects \cup {Subject(k)}
    BY <1>1 DEF Publish, At
  <1>3. StoresTyped /\ Stored /\ Found
    BY Everyone DEF IInv
  <1>4. UNCHANGED <<row, source, assets, secrets, bindings, elapsed, lapsed, lost>>
    BY DEF Publish, clock
  <1>5. row[Subject(k)].state = "receiving"
    BY <1>1, <1>2 DEF Agrees, RowsAgree, Creating
  <1>6. Placed(j) /\ RowsAgree(j)' /\ ObjectsAgree(j)' /\ UploadsAgree(j)'
    BY <1>1, <1>2, <1>3, <1>4 DEF Agrees, Placed, RowsAgree, ObjectsAgree, UploadsAgree,
       Creating, Looking, Carrying, Cleaning, Deleting
  <1>7. ASSUME NEW m \in Working, Shaped(m), Agrees(m), Apart(k, m)
        PROVE  RowsAgree(m)' /\ ObjectsAgree(m)' /\ UploadsAgree(m)' /\ Apart(j, m)
    <2>1. m.pc \in Creating => Subject(m) # Subject(k)
      BY <1>2, <1>7 DEF Apart, Creating
    <2>2. m.pc = "finish" => Subject(m) # Subject(k)
      BY <1>5, <1>7, DeletedRows DEF Deleting, Leaving
    <2> QED
      BY <1>1, <1>2, <1>4, <1>7, <2>1, <2>2 DEF Agrees, RowsAgree, ObjectsAgree, UploadsAgree,
         Apart, Creating, Carrying
  <1>8. StoresTyped' /\ Stored'
    BY <1>1, <1>2, <1>3, <1>4, <1>5 DEF StoresTyped, Stored
  <1>9. Found'
    <2>1. /\ \A u : Carries(u) => Carries(u)'
          /\ \A u : Releases(u) => Releases(u)'
          /\ \A x : Publishes(x) => Publishes(x)'
          /\ Publishes(Subject(k))'
      BY <1>1, <1>2, Owners DEF Carrying
    <2> QED
      BY <1>2, <1>3, <1>4, <2>1 DEF Found, ReusableBindingsWork, CleanupCanResume, Accounted
  <1> QED
    BY <1>1, <1>6, <1>7, <1>8, <1>9, Changes

LEMMA UnpublishPreserves ==
    ASSUME IInv, NEW c \in Call, Unpublish(c)
    PROVE  IInv'
  <1>1. PICK k, j \in Working :
             /\ k = call[c] /\ Shaped(k) /\ Agrees(k)
             /\ This(c) = Subject(k) /\ Subject(k) \in Resource
             /\ call' = [call EXCEPT ![c] = j] /\ Shaped(j) /\ j.pc = "fail"
             /\ j.queue = k.queue /\ j.todo = k.todo /\ j.up = k.up
             /\ Subject(j) = Subject(k) /\ Known(j) = Known(k)
    BY MovesOn DEF Unpublish, At, Place
  <1>2. k.pc = "unpublish" /\ ((objects' = objects \ {Subject(k)} /\ lost' = lost) \/ (lost' = TRUE /\ objects' = objects))
    BY <1>1 DEF Unpublish, At
  <1>3. StoresTyped /\ Stored /\ Found
    BY Everyone DEF IInv
  <1>4. UNCHANGED <<row, source, assets, secrets, bindings, elapsed, lapsed>>
    BY DEF Unpublish, clock
  <1>5. row[Subject(k)].state = "receiving"
    BY <1>1, <1>2, <1>3 DEF Agrees, RowsAgree, Creating
  <1>6. Placed(j) /\ RowsAgree(j)' /\ ObjectsAgree(j)' /\ UploadsAgree(j)'
    BY <1>1, <1>2, <1>3, <1>4, <1>5 DEF Agrees, Placed, RowsAgree, ObjectsAgree, UploadsAgree,
       Creating, Looking, Carrying, Cleaning, Deleting
  <1>7. ASSUME NEW m \in Working, Shaped(m), Agrees(m), Apart(k, m)
        PROVE  RowsAgree(m)' /\ ObjectsAgree(m)' /\ UploadsAgree(m)' /\ Apart(j, m)
    <2>1. m.pc \in Creating => Subject(m) # Subject(k)
      BY <1>2, <1>7 DEF Apart, Creating
    <2> QED
      BY <1>1, <1>2, <1>3, <1>4, <1>5, <1>7, <2>1 DEF Agrees, RowsAgree, ObjectsAgree, UploadsAgree,
         Apart, Creating, Looking, Carrying
  <1>8. StoresTyped' /\ Stored'
    BY <1>1, <1>2, <1>3, <1>4, <1>5 DEF StoresTyped, Stored
  <1>9. Found'
    <2>1. /\ \A u : Carries(u) => Carries(u)'
          /\ \A u : Releases(u) => Releases(u)'
          /\ \A r : r # Subject(k) /\ Publishes(r) => Publishes(r)'
      BY <1>1, <1>2, Owners DEF Carrying
    <2> QED
      BY <1>1, <1>2, <1>3, <1>4, <1>5, <2>1 DEF Found, ReusableBindingsWork, CleanupCanResume, Accounted
  <1> QED
    BY <1>1, <1>6, <1>7, <1>8, <1>9, Changes

LEMMA RemoveObjectPreserves ==
    ASSUME IInv, NEW c \in Call, RemoveObject(c)
    PROVE  IInv'
  <1>1. PICK k, j \in Working :
             /\ k = call[c] /\ Shaped(k) /\ Agrees(k)
             /\ This(c) = Subject(k) /\ Subject(k) \in Resource
             /\ call' = [call EXCEPT ![c] = j] /\ Shaped(j) /\ j.pc = "finish"
             /\ j.queue = k.queue /\ j.todo = k.todo /\ j.up = k.up
             /\ Subject(j) = Subject(k) /\ Known(j) = Known(k)
    BY MovesOn DEF RemoveObject, At, Place
  <1>2. k.pc = "unlink" /\ objects' = objects \ {Subject(k)}
    BY <1>1 DEF RemoveObject, At
  <1>3. StoresTyped /\ Stored /\ Found
    BY Everyone DEF IInv
  <1>4. UNCHANGED <<row, source, assets, secrets, bindings, elapsed, lapsed, lost>>
    BY DEF RemoveObject, clock
  <1>5. row[Subject(k)].state \in Leaving
    BY <1>1, <1>2, <1>3, DeletedRows DEF Deleting
  <1>6. Placed(j) /\ RowsAgree(j)' /\ ObjectsAgree(j)' /\ UploadsAgree(j)'
    BY <1>1, <1>2, <1>3, <1>4, <1>5 DEF Agrees, Placed, RowsAgree, ObjectsAgree, UploadsAgree,
       Creating, Looking, Carrying, Cleaning, Deleting
  <1>7. ASSUME NEW m \in Working, Shaped(m), Agrees(m), Apart(k, m)
        PROVE  RowsAgree(m)' /\ ObjectsAgree(m)' /\ UploadsAgree(m)' /\ Apart(j, m)
    <2>1. m.pc \in Creating => Subject(m) # Subject(k)
      BY <1>5, <1>7 DEF Agrees, RowsAgree, Leaving
    <2> QED
      BY <1>1, <1>2, <1>3, <1>4, <1>5, <1>7, <2>1 DEF Agrees, RowsAgree, ObjectsAgree, UploadsAgree,
         Apart, Creating, Looking, Carrying
  <1>8. StoresTyped' /\ Stored'
    BY <1>1, <1>2, <1>3, <1>4, <1>5 DEF StoresTyped, Stored
  <1>9. Found'
    <2>1. /\ \A u : Carries(u) => Carries(u)'
          /\ \A u : Releases(u) => Releases(u)'
          /\ \A r : Publishes(r) => Publishes(r)'
      BY <1>1, <1>2, Owners DEF Carrying
    <2> QED
      BY <1>1, <1>2, <1>3, <1>4, <1>5, <2>1 DEF Found, ReusableBindingsWork, CleanupCanResume, Accounted
  <1> QED
    BY <1>1, <1>6, <1>7, <1>8, <1>9, Changes

LEMMA DropSecretPreserves ==
    ASSUME IInv, NEW c \in Call, DropSecret(c)
    PROVE  IInv'
  <1>1. PICK k, j \in Working :
             /\ k = call[c] /\ Shaped(k) /\ Agrees(k)
             /\ This(c) = Subject(k) /\ Subject(k) \in Resource
             /\ call' = [call EXCEPT ![c] = j] /\ Shaped(j) /\ j.pc = "dropAsset"
             /\ j.queue = k.queue /\ j.todo = k.todo /\ j.up = k.up
             /\ Subject(j) = Subject(k) /\ Known(j) = Known(k)
    BY MovesOn DEF DropSecret, At, Place
  <1>2. k.pc = "dropSecret" /\ ((secrets' = secrets \ {k.up} /\ lost' = lost) \/ (lost' = TRUE /\ secrets' = secrets))
    BY <1>1 DEF DropSecret, At
  <1>3. StoresTyped /\ Stored /\ Found
    BY Everyone DEF IInv
  <1>4. UNCHANGED <<row, objects, source, assets, bindings, elapsed, lapsed>>
    BY DEF DropSecret, clock
  <1>5. k.up \in Upload /\ k.up \notin bindings
    BY <1>1, <1>2, <1>3 DEF Agrees, UploadsAgree, Carrying
  <1>6. Placed(j) /\ RowsAgree(j)' /\ ObjectsAgree(j)' /\ UploadsAgree(j)'
    BY <1>1, <1>2, <1>3, <1>4, <1>5 DEF Agrees, Placed, RowsAgree, ObjectsAgree, UploadsAgree,
       Creating, Looking, Carrying, Cleaning, Deleting
  <1>7. ASSUME NEW m \in Working, Shaped(m), Agrees(m), Apart(k, m)
        PROVE  RowsAgree(m)' /\ ObjectsAgree(m)' /\ UploadsAgree(m)' /\ Apart(j, m)
    <2>1. m.pc \in Carrying => m.up # k.up
      BY <1>2, <1>7 DEF Apart, Carrying
    <2> QED
      BY <1>1, <1>2, <1>3, <1>4, <1>5, <1>7, <2>1 DEF Agrees, RowsAgree, ObjectsAgree, UploadsAgree,
         Apart, Creating, Looking, Carrying
  <1>8. StoresTyped' /\ Stored'
    BY <1>1, <1>2, <1>3, <1>4, <1>5 DEF StoresTyped, Stored
  <1>9. Found'
    <2>1. /\ \A u : Carries(u) => Carries(u)'
          /\ \A u : Releases(u) => Releases(u)'
          /\ \A r : Publishes(r) => Publishes(r)'
      BY <1>1, <1>2, Owners DEF Carrying
    <2> QED
      BY <1>1, <1>2, <1>3, <1>4, <1>5, <2>1 DEF Found, ReusableBindingsWork, CleanupCanResume, Accounted
  <1> QED
    BY <1>1, <1>6, <1>7, <1>8, <1>9, Changes

LEMMA RemoveAssetPreserves ==
    ASSUME IInv, NEW c \in Call, RemoveAsset(c)
    PROVE  IInv'
  <1>1. PICK k, j \in Working :
             /\ k = call[c] /\ Shaped(k) /\ Agrees(k)
             /\ This(c) = Subject(k) /\ Subject(k) \in Resource
             /\ call' = [call EXCEPT ![c] = j] /\ Shaped(j) /\ j.pc = "unbind"
             /\ j.queue = k.queue /\ j.todo = k.todo /\ j.up = k.up
             /\ Subject(j) = Subject(k) /\ Known(j) = Known(k)
    BY MovesOn DEF RemoveAsset, At, Place
  <1>2. k.pc = "asset" /\ assets' = assets \ {First(k.todo)}
    BY <1>1 DEF RemoveAsset, At
  <1>3. StoresTyped /\ Stored /\ Found
    BY Everyone DEF IInv
  <1>4. UNCHANGED <<row, objects, source, secrets, bindings, elapsed, lapsed, lost>>
    BY DEF RemoveAsset, clock
  <1>5. First(k.todo) \in k.todo /\ source[First(k.todo)] = Subject(k)
        /\ row[Subject(k)].state \in Leaving
    BY <1>1, <1>2, <1>3, FirstIsOne, DeletedRows
       DEF Agrees, Placed, UploadsAgree, Working, Deleting, Cleaning
  <1>6. Placed(j) /\ RowsAgree(j)' /\ ObjectsAgree(j)' /\ UploadsAgree(j)'
    BY <1>1, <1>2, <1>3, <1>4, <1>5 DEF Agrees, Placed, RowsAgree, ObjectsAgree, UploadsAgree,
       Creating, Looking, Carrying, Cleaning, Deleting
  <1>7. ASSUME NEW m \in Working, Shaped(m), Agrees(m), Apart(k, m)
        PROVE  RowsAgree(m)' /\ ObjectsAgree(m)' /\ UploadsAgree(m)' /\ Apart(j, m)
    <2>1. m.pc \in Carrying => m.up # First(k.todo)
      BY <1>5, <1>7 DEF Apart
    <2> QED
      BY <1>1, <1>2, <1>3, <1>4, <1>5, <1>7, <2>1 DEF Agrees, RowsAgree, ObjectsAgree, UploadsAgree,
         Apart, Creating, Looking, Carrying
  <1>8. StoresTyped' /\ Stored'
    BY <1>1, <1>2, <1>3, <1>4, <1>5 DEF StoresTyped, Stored
  <1>9. Found'
    <2>1. /\ \A u : Carries(u) => Carries(u)'
          /\ \A u : Releases(u) => Releases(u)'
          /\ \A r : Publishes(r) => Publishes(r)'
      BY <1>1, <1>2, Owners DEF Carrying
    <2> QED
      BY <1>1, <1>2, <1>3, <1>4, <1>5, <2>1 DEF Found, ReusableBindingsWork, CleanupCanResume, Accounted, Leaving
  <1> QED
    BY <1>1, <1>6, <1>7, <1>8, <1>9, Changes

LEMMA RemoveBindingPreserves ==
    ASSUME IInv, NEW c \in Call, RemoveBinding(c)
    PROVE  IInv'
  <1>1. PICK k, j \in Working :
             /\ k = call[c] /\ Shaped(k) /\ Agrees(k)
             /\ This(c) = Subject(k) /\ Subject(k) \in Resource
             /\ call' = [call EXCEPT ![c] = j] /\ Shaped(j) /\ j.pc = "unsecret"
             /\ j.queue = k.queue /\ j.todo = k.todo /\ j.up = k.up
             /\ Subject(j) = Subject(k) /\ Known(j) = Known(k)
    BY MovesOn DEF RemoveBinding, At, Place
  <1>2. k.pc = "unbind" /\ bindings' = bindings \ {First(k.todo)}
    BY <1>1 DEF RemoveBinding, At
  <1>3. StoresTyped /\ Stored /\ Found
    BY Everyone DEF IInv
  <1>4. UNCHANGED <<row, objects, source, assets, secrets, elapsed, lapsed, lost>>
    BY DEF RemoveBinding, clock
  <1>5. First(k.todo) \notin assets
    BY <1>1, <1>2, <1>3 DEF Agrees, UploadsAgree
  <1>6. Placed(j) /\ RowsAgree(j)' /\ ObjectsAgree(j)' /\ UploadsAgree(j)'
    BY <1>1, <1>2, <1>3, <1>4, <1>5 DEF Agrees, Placed, RowsAgree, ObjectsAgree, UploadsAgree,
       Creating, Looking, Carrying, Cleaning, Deleting
  <1>7. ASSUME NEW m \in Working, Shaped(m), Agrees(m), Apart(k, m)
        PROVE  RowsAgree(m)' /\ ObjectsAgree(m)' /\ UploadsAgree(m)' /\ Apart(j, m)
    <2> QED
      BY <1>1, <1>2, <1>3, <1>4, <1>5, <1>7 DEF Agrees, RowsAgree, ObjectsAgree, UploadsAgree,
         Apart, Creating, Looking, Carrying
  <1>8. StoresTyped' /\ Stored'
    BY <1>1, <1>2, <1>3, <1>4, <1>5 DEF StoresTyped, Stored
  <1>9. Found'
    <2>1. /\ \A u : Carries(u) => Carries(u)'
          /\ \A u : Releases(u) => Releases(u)'
          /\ \A r : Publishes(r) => Publishes(r)'
          /\ Releases(First(k.todo))'
      BY <1>1, <1>2, Owners DEF Carrying
    <2> QED
      BY <1>1, <1>2, <1>3, <1>4, <1>5, <2>1 DEF Found, ReusableBindingsWork, CleanupCanResume, Accounted
  <1> QED
    BY <1>1, <1>6, <1>7, <1>8, <1>9, Changes

LEMMA ProtectPreserves ==
    ASSUME IInv, NEW c \in Call, Protect(c)
    PROVE  IInv'
  <1>a. CASE UNCHANGED secrets /\ To(c, "dropAsset")
    BY <1>a, QuietMove DEF Protect, At, Place, stores
  <1>b. CASE secrets' = secrets \cup {call[c].up} /\ To(c, "bind")
    <2>1. PICK k, j \in Working :
             /\ k = call[c] /\ Shaped(k) /\ Agrees(k)
             /\ This(c) = Subject(k) /\ Subject(k) \in Resource
             /\ call' = [call EXCEPT ![c] = j] /\ Shaped(j) /\ j.pc = "bind"
             /\ j.queue = k.queue /\ j.todo = k.todo /\ j.up = k.up
             /\ Subject(j) = Subject(k) /\ Known(j) = Known(k)
      BY <1>b, MovesOn DEF Protect, At, Place
    <2>2. k.pc = "protect" /\ secrets' = secrets \cup {k.up}
      BY <1>b, <2>1 DEF Protect, At
    <2>3. StoresTyped /\ Stored /\ Found
      BY Everyone DEF IInv
    <2>4. UNCHANGED <<row, objects, source, assets, bindings, elapsed, lapsed, lost>>
      BY DEF Protect, clock
    <2>5. k.up \in Upload /\ source[k.up] = Subject(k)
      BY <2>1, <2>2 DEF Agrees, UploadsAgree, Carrying
    <2>6. Placed(j) /\ RowsAgree(j)' /\ ObjectsAgree(j)' /\ UploadsAgree(j)'
      BY <2>1, <2>2, <2>4, <2>5 DEF Agrees, Placed, RowsAgree, ObjectsAgree, UploadsAgree,
         Creating, Looking, Carrying, Cleaning, Deleting
    <2>7. ASSUME NEW m \in Working, Shaped(m), Agrees(m), Apart(k, m)
          PROVE  RowsAgree(m)' /\ ObjectsAgree(m)' /\ UploadsAgree(m)' /\ Apart(j, m)
      <3>1. m.pc \in Carrying => m.up # k.up
        BY <2>2, <2>7 DEF Apart, Carrying
      <3> QED
        BY <2>1, <2>2, <2>4, <2>7, <3>1 DEF Agrees, RowsAgree, ObjectsAgree, UploadsAgree,
           Apart, Creating, Carrying
    <2>8. StoresTyped' /\ Stored'
      BY <2>1, <2>2, <2>3, <2>4, <2>5, NoResourceAssumption DEF StoresTyped, Stored
    <2>9. Found'
      <3>1. /\ \A u : Carries(u) => Carries(u)'
            /\ \A u : Releases(u) => Releases(u)'
            /\ \A r : Publishes(r) => Publishes(r)'
            /\ Carries(k.up)'
        BY <2>1, <2>2, Owners DEF Carrying
      <3> QED
        BY <2>2, <2>3, <2>4, <3>1 DEF Found, ReusableBindingsWork, CleanupCanResume, Accounted
    <2> QED
      BY <2>1, <2>6, <2>7, <2>8, <2>9, Changes
  <1> QED
    BY <1>a, <1>b DEF Protect

LEMMA BindPreserves ==
    ASSUME IInv, NEW c \in Call, Bind(c)
    PROVE  IInv'
  <1>a. CASE UNCHANGED bindings /\ To(c, "dropSecret")
    BY <1>a, QuietMove DEF Bind, At, Place, stores
  <1>b. CASE bindings' = bindings \cup {call[c].up} /\ Finished(c)
    <2>1. PICK k \in Working : k = call[c] /\ Shaped(k) /\ Agrees(k) /\ k.pc = "bind"
      BY Everyone DEF Shaped, Bind, At
    <2>2. bindings' = bindings \cup {k.up}
      BY <1>b, <2>1
    <2>3. StoresTyped /\ Stored /\ Found
      BY Everyone DEF IInv
    <2>4. UNCHANGED <<row, objects, source, assets, secrets, elapsed, lapsed, lost>>
      BY DEF Bind, clock
    <2>5. k.up \in Upload /\ k.up \in assets \cap secrets
      BY <2>1 DEF Agrees, UploadsAgree, Carrying
    <2>6. ASSUME NEW m \in Working, Shaped(m), Agrees(m), Apart(k, m)
          PROVE  RowsAgree(m)' /\ ObjectsAgree(m)' /\ UploadsAgree(m)'
      <3>1. /\ m.pc \in Carrying => m.up # k.up
            /\ k.up \notin m.todo
        BY <2>1, <2>6 DEF Apart, Carrying
      <3>2. m.pc = "unsecret" => First(m.todo) \in m.todo
        BY <2>6, FirstIsOne DEF Working, Agrees, Placed
      <3> QED
        BY <2>2, <2>4, <2>6, <3>1, <3>2 DEF Agrees, RowsAgree, ObjectsAgree, UploadsAgree
    <2>7. StoresTyped' /\ Stored'
      BY <2>2, <2>3, <2>4, <2>5 DEF StoresTyped, Stored
    <2>8. Found'
      <3>1. /\ \A u : u # k.up /\ Carries(u) => Carries(u)'
            /\ \A u : Releases(u) => Releases(u)'
            /\ \A r : Publishes(r) => Publishes(r)'
        BY <1>b, <2>1, Owners DEF Finished
      <3> QED
        BY <2>2, <2>3, <2>4, <2>5, <3>1 DEF Found, ReusableBindingsWork, CleanupCanResume, Accounted
    <2> QED
      BY <1>b, <2>1, <2>6, <2>7, <2>8, Ends
  <1> QED
    BY <1>a, <1>b DEF Bind

LEMMA DropAssetPreserves ==
    ASSUME IInv, NEW c \in Call, DropAsset(c)
    PROVE  IInv'
  <1>1. PICK k \in Working : k = call[c] /\ Shaped(k) /\ Agrees(k) /\ k.pc = "dropAsset"
    BY Everyone DEF Shaped, DropAsset, At
  <1>2. \/ assets' = assets \ {k.up} /\ lost' = lost
        \/ lost' = TRUE /\ assets' = assets
    BY <1>1 DEF DropAsset
  <1>3. StoresTyped /\ Stored /\ Found /\ Finished(c)
    BY Everyone DEF IInv, DropAsset
  <1>4. UNCHANGED <<row, objects, source, secrets, bindings, elapsed, lapsed>>
    BY DEF DropAsset, clock
  <1>5. k.up \notin bindings /\ (lost \/ k.up \notin secrets)
    BY <1>1 DEF Agrees, UploadsAgree, Carrying
  <1>6. ASSUME NEW m \in Working, Shaped(m), Agrees(m), Apart(k, m)
        PROVE  RowsAgree(m)' /\ ObjectsAgree(m)' /\ UploadsAgree(m)'
    <2>1. m.pc \in Carrying => m.up # k.up
      BY <1>1, <1>6 DEF Apart, Carrying
    <2> QED
      BY <1>2, <1>4, <1>6, <2>1 DEF Agrees, RowsAgree, ObjectsAgree, UploadsAgree, Carrying
  <1>7. StoresTyped' /\ Stored'
    BY <1>2, <1>3, <1>4 DEF StoresTyped, Stored
  <1>8. Found'
    <2>1. /\ \A u : u # k.up /\ Carries(u) => Carries(u)'
          /\ \A u : Releases(u) => Releases(u)'
          /\ \A r : Publishes(r) => Publishes(r)'
      BY <1>1, <1>3, Owners DEF Finished
    <2> QED
      BY <1>2, <1>3, <1>4, <1>5, <2>1 DEF Found, ReusableBindingsWork, CleanupCanResume, Accounted
  <1> QED
    BY <1>1, <1>3, <1>6, <1>7, <1>8, Ends

LEMMA UploadAssetPreserves ==
    ASSUME IInv, NEW c \in Call, UploadAsset(c)
    PROVE  IInv'
  <1>0. PICK u \in Upload :
            /\ source[u] = NoResource /\ call[c].pc = "upload"
            /\ source' = [source EXCEPT ![u] = This(c)] /\ assets' = assets \cup {u}
            /\ call' = [call EXCEPT ![c].pc = "protect", ![c].up = u]
    BY DEF UploadAsset, At
  <1>1. PICK k, j \in Working :
             /\ k = call[c] /\ Shaped(k) /\ Agrees(k) /\ k.pc = "upload"
             /\ This(c) = Subject(k) /\ Subject(k) \in Resource
             /\ call' = [call EXCEPT ![c] = j] /\ Shaped(j) /\ j.pc = "protect"
             /\ j.queue = k.queue /\ j.todo = k.todo /\ j.up = u
             /\ Subject(j) = Subject(k) /\ Known(j) = Known(k)
    <2> DEFINE k == call[c]
               j == [call[c] EXCEPT !.pc = "protect", !.up = u]
    <2>1. /\ k \in Working /\ k.queue # <<>> /\ k.pc = "upload" /\ Shaped(k) /\ Agrees(k)
          /\ This(c) = Subject(k)
      BY <1>0, Everyone DEF Shaped, This, Subject
    <2>2. Subject(k) \in Resource
      BY <2>1, HeadIsItem
    <2>3. /\ j \in Working /\ j.pc = "protect" /\ j.queue = k.queue /\ j.todo = k.todo /\ j.up = u
          /\ Subject(j) = Subject(k) /\ Known(j) = Known(k)
      BY <2>1 DEF Working, Place, Subject, Known
    <2>4. call' = [call EXCEPT ![c] = j]
      BY <1>0
    <2> HIDE DEF k, j
    <2> QED
      BY <2>1, <2>2, <2>3, <2>4 DEF Shaped, k
  <1>2. source' = [source EXCEPT ![u] = Subject(k)] /\ assets' = assets \cup {u}
    BY <1>0, <1>1
  <1>3. StoresTyped /\ Stored /\ Found
    BY Everyone DEF IInv
  <1>4. UNCHANGED <<row, objects, secrets, bindings, elapsed, lapsed, lost>>
    BY DEF UploadAsset, clock
  <1>5. /\ u \notin assets \cup secrets \cup bindings \cup lapsed
        /\ row[Subject(k)].state \in Offered
        /\ source'[u] = Subject(k) /\ \A v \in Upload \ {u} : source'[v] = source[v]
    BY <1>0, <1>1, <1>2, <1>3 DEF StoresTyped, Agrees, RowsAgree, Looking
  <1>6. Placed(j) /\ RowsAgree(j)' /\ ObjectsAgree(j)' /\ UploadsAgree(j)'
    BY <1>1, <1>2, <1>4, <1>5 DEF Agrees, Placed, RowsAgree, ObjectsAgree, UploadsAgree,
       Creating, Looking, Carrying, Cleaning, Deleting
  <1>7. ASSUME NEW m \in Working, Shaped(m), Agrees(m), Apart(k, m)
        PROVE  RowsAgree(m)' /\ ObjectsAgree(m)' /\ UploadsAgree(m)' /\ Apart(j, m)
    <2>1. m.pc # "idle" => Subject(m) \in Resource
      BY <1>7, HeadIsItem DEF Shaped
    <2>2. m.pc \in Carrying => m.up # u
      BY <1>0, <1>7, <2>1, NoResourceAssumption DEF Agrees, UploadsAgree, Carrying
    <2>3. m.todo # {} => m.pc # "idle"
      BY <1>7 DEF Agrees, Placed, Cleaning
    <2>4. u \notin m.todo
      BY <1>0, <1>7, <2>1, <2>3, NoResourceAssumption DEF Agrees, UploadsAgree
    <2>5. m.pc = "unbind" => First(m.todo) \in m.todo
      BY <1>7, FirstIsOne DEF Working, Agrees, Placed
    <2>6. m.todo \subseteq Upload
      BY DEF Working
    <2>7. RowsAgree(m)' /\ ObjectsAgree(m)'
      BY <1>4, <1>7 DEF Agrees, RowsAgree, ObjectsAgree
    <2>8. UploadsAgree(m)'
      BY <1>2, <1>4, <1>5, <1>7, <2>2, <2>4, <2>5, <2>6 DEF Agrees, UploadsAgree
    <2>9. Apart(j, m)
      BY <1>1, <1>7, <2>2, <2>4 DEF Apart, Creating, Carrying
    <2> QED
      BY <2>7, <2>8, <2>9
  <1>8. StoresTyped' /\ Stored'
    <2>1. source' \in [Upload -> Resource \cup {NoResource}]
      BY <1>1, <1>2, <1>3 DEF StoresTyped
    <2>2. Subject(k) # NoResource
      BY <1>1, NoResourceAssumption
    <2> QED
      BY <1>1, <1>2, <1>3, <1>4, <1>5, <2>1, <2>2 DEF StoresTyped, Stored
  <1>9. Found'
    <2>1. /\ \A v : Carries(v) => Carries(v)'
          /\ \A v : Releases(v) => Releases(v)'
          /\ \A r : Publishes(r) => Publishes(r)'
          /\ Carries(u)'
      BY <1>1, Owners DEF Carrying
    <2>2. bindings \subseteq Upload \ {u}
      BY <1>3, <1>5 DEF StoresTyped
    <2> QED
      BY <1>2, <1>3, <1>4, <1>5, <2>1, <2>2 DEF Found, ReusableBindingsWork, CleanupCanResume, Accounted
  <1> QED
    BY <1>1, <1>6, <1>7, <1>8, <1>9, Changes

LEMMA RemoveSecretPreserves ==
    ASSUME IInv, NEW c \in Call, RemoveSecret(c)
    PROVE  IInv'
  <1>1. PICK k \in Working : k = call[c] /\ Shaped(k) /\ Agrees(k) /\ k.pc = "unsecret"
    BY Everyone DEF Shaped, RemoveSecret, At
  <1>2. PICK u : u = First(k.todo)
    OBVIOUS
  <1>3. StoresTyped /\ Stored /\ Found
    BY Everyone DEF IInv
  <1>4. UNCHANGED <<row, objects, source, assets, bindings, elapsed, lapsed>>
    BY DEF RemoveSecret, clock
  <1>5. u \in k.todo /\ u \notin bindings
    BY <1>1, <1>2, FirstIsOne DEF Agrees, Placed, UploadsAgree, Working
  <1>a. CASE lost' = TRUE /\ UNCHANGED secrets /\ Finished(c)
    <2>1. ASSUME NEW m \in Working, Shaped(m), Agrees(m), Apart(k, m)
          PROVE  RowsAgree(m)' /\ ObjectsAgree(m)' /\ UploadsAgree(m)'
      BY <1>a, <1>4, <2>1 DEF Agrees, RowsAgree, ObjectsAgree, UploadsAgree
    <2>2. StoresTyped' /\ Stored'
      BY <1>a, <1>3, <1>4 DEF StoresTyped, Stored
    <2>3. Found'
      BY <1>a, <1>3, <1>4 DEF Found, ReusableBindingsWork, CleanupCanResume, Accounted
    <2> QED
      BY <1>a, <1>1, <2>1, <2>2, <2>3, Ends
  <1>b. CASE /\ secrets' = secrets \ {u} /\ UNCHANGED lost
             /\ call' = [call EXCEPT ![c].pc = "secret", ![c].todo = @ \ {u}]
    <2>1. PICK j \in Working :
             /\ call' = [call EXCEPT ![c] = j] /\ Shaped(j) /\ j.pc = "secret"
             /\ j.queue = k.queue /\ j.todo = k.todo \ {u}
             /\ Subject(j) = Subject(k) /\ Known(j) = Known(k)
      <3> DEFINE j == [call[c] EXCEPT !.pc = "secret", !.todo = @ \ {u}]
      <3>1. k.queue # <<>>
        BY <1>1 DEF Shaped
      <3>2. /\ j \in Working /\ j.pc = "secret" /\ j.queue = k.queue /\ j.todo = k.todo \ {u}
            /\ Subject(j) = Subject(k) /\ Known(j) = Known(k)
        BY <1>1 DEF Working, Place, Subject, Known
      <3>3. call' = [call EXCEPT ![c] = j]
        BY <1>b
      <3> HIDE DEF j
      <3> QED
        BY <3>1, <3>2, <3>3 DEF Shaped
    <2>2. secrets' = secrets \ {u} /\ lost' = lost
      BY <1>b
    <2>3. Placed(j) /\ RowsAgree(j)' /\ ObjectsAgree(j)' /\ UploadsAgree(j)'
      BY <1>1, <1>4, <2>1, <2>2 DEF Agrees, Placed, RowsAgree, ObjectsAgree, UploadsAgree,
         Creating, Looking, Carrying, Cleaning, Deleting
    <2>4. ASSUME NEW m \in Working, Shaped(m), Agrees(m), Apart(k, m)
          PROVE  RowsAgree(m)' /\ ObjectsAgree(m)' /\ UploadsAgree(m)' /\ Apart(j, m)
      <3>1. m.pc \in Carrying => m.up # u
        BY <1>5, <2>4 DEF Apart
      <3> QED
        BY <1>1, <1>4, <2>1, <2>2, <2>4, <3>1 DEF Agrees, RowsAgree, ObjectsAgree, UploadsAgree,
           Apart, Creating, Carrying
    <2>5. StoresTyped' /\ Stored'
      BY <1>3, <1>4, <2>2 DEF StoresTyped, Stored
    <2>6. Found'
      <3>1. /\ \A v : Carries(v) => Carries(v)'
            /\ \A v : v # u /\ Releases(v) => Releases(v)'
            /\ \A r : Publishes(r) => Publishes(r)'
        BY <1>1, <1>2, <2>1, Owners DEF Carrying
      <3> QED
        BY <1>3, <1>4, <1>5, <2>2, <3>1 DEF Found, ReusableBindingsWork, CleanupCanResume, Accounted
    <2> QED
      BY <1>1, <2>1, <2>3, <2>4, <2>5, <2>6, Changes
  <1> QED
    BY <1>1, <1>2, <1>a, <1>b DEF RemoveSecret

-----------------------------------------------------------------------------
(* The clock, and the death of the process.                                *)

LEMMA ElapsePreserves ==
    ASSUME IInv, NEW r \in Resource, Elapse(r)
    PROVE  IInv'
  <1>1. UNCHANGED <<row, objects, source, assets, secrets, bindings, lapsed, call, lost>>
    BY DEF Elapse, stores
  <1>2. TypeOK'
    BY <1>1 DEF IInv, TypeOK, Elapse
  <1>3. Stored' /\ AllApart' /\ Found'
    BY <1>1 DEF IInv, Stored, AllApart, Apart, Found, ReusableBindingsWork, CleanupCanResume,
       Accounted, Carries, Releases, Publishes
  <1>4. Agree'
    BY <1>1 DEF IInv, Agree, Placed, RowsAgree, ObjectsAgree, UploadsAgree
  <1> QED
    BY <1>2, <1>3, <1>4 DEF IInv

LEMMA LapsePreserves ==
    ASSUME IInv, NEW u \in Upload, Lapse(u)
    PROVE  IInv'
  <1>1. /\ UNCHANGED <<row, objects, source, secrets, bindings, elapsed, call, lost>>
        /\ u \in bindings /\ assets' = assets \ {u} /\ lapsed' = lapsed \cup {u}
    BY DEF Lapse
  <1>2. TypeOK'
    BY <1>1 DEF IInv, TypeOK
  <1>3. Stored' /\ AllApart'
    BY <1>1 DEF IInv, Stored, AllApart, Apart
  <1>4. Found'
    BY <1>1 DEF IInv, Found, ReusableBindingsWork, CleanupCanResume,
       Accounted, Carries, Releases, Publishes
  <1>5. Agree'
    <2> SUFFICES ASSUME NEW c \in Call
                 PROVE  /\ Placed(call[c])' /\ RowsAgree(call[c])'
                        /\ ObjectsAgree(call[c])' /\ UploadsAgree(call[c])'
      BY DEF Agree
    <2>1. Placed(call[c])' /\ RowsAgree(call[c])' /\ ObjectsAgree(call[c])'
      BY <1>1 DEF IInv, Agree, Placed, RowsAgree, ObjectsAgree
    <2>2. UploadsAgree(call[c])'
      BY <1>1 DEF IInv, Agree, UploadsAgree, Carrying
    <2> QED
      BY <2>1, <2>2
  <1> QED
    BY <1>2, <1>3, <1>4, <1>5 DEF IInv

LEMMA DiePreserves ==
    ASSUME IInv, Die
    PROVE  IInv'
  <1>1. /\ UNCHANGED <<row, objects, source, assets, secrets, bindings, elapsed, lapsed>>
        /\ lost' = TRUE /\ \A c \in Call : call'[c] = Idle
        /\ call' = [c \in Call |-> Idle]
    BY DEF Die, stores, clock
  <1>2. TypeOK'
    BY <1>1, IdleFits DEF IInv, TypeOK
  <1>3. Stored' /\ Found'
    BY <1>1 DEF IInv, Stored, Found, ReusableBindingsWork, CleanupCanResume, Accounted
  <1>4. AllApart'
    BY <1>1 DEF AllApart, Apart, Idle, Creating, Carrying
  <1>5. Agree'
    BY <1>1 DEF Agree, Placed, RowsAgree, ObjectsAgree, UploadsAgree, Idle,
       Creating, Looking, Carrying, Cleaning, Deleting
  <1> QED
    BY <1>2, <1>3, <1>4, <1>5 DEF IInv

-----------------------------------------------------------------------------
(* The steps that turn a row.                                              *)

Turns(r, new) ==
    /\ row' = [row EXCEPT ![r] = [state |-> new, rev |-> row[r].rev + 1]]
    /\ \/ row[r].state = "none" /\ new = "receiving"
       \/ row[r].state = "receiving" /\ new \in {"ready", "failed"}
       \/ row[r].state = "ready" /\ new = "expired"
       \/ row[r].state \in {"ready", "expired"} /\ new = "deleting"
       \/ row[r].state = "deleting" /\ new = "deleted"

LEMMA ItemsTyped ==
    ASSUME NEW m \in Working
    PROVE  \A n \in DOMAIN m.queue : m.queue[n] \in Item /\ m.queue[n].res \in Resource
  <1>1. m.queue \in Seq(Item)
    BY DEF Working
  <1>2. DOMAIN m.queue = 1..Len(m.queue) /\ \A n \in 1..Len(m.queue) : m.queue[n] \in Item
    BY <1>1, ElementOfSeq, LenProperties
  <1> QED
    BY <1>2 DEF Item

LEMMA TurnKeeps ==
    ASSUME StoresTyped, Stored, ReusableBindingsWork, CleanupCanResume,
           NEW r \in Resource, NEW new, Turns(r, new),
           UNCHANGED <<objects, source, assets, secrets, bindings, elapsed, lapsed>>
    PROVE  /\ row'[r] = [state |-> new, rev |-> row[r].rev + 1] /\ row'[r] \in Row
           /\ \A x \in Resource \ {r} : row'[x] = row[x]
           /\ lost' \in BOOLEAN => StoresTyped'
           /\ Stored' /\ ReusableBindingsWork' /\ CleanupCanResume'
  <1>1. row'[r] = [state |-> new, rev |-> row[r].rev + 1]
        /\ \A x \in Resource \ {r} : row'[x] = row[x]
    BY DEF StoresTyped, Turns
  <1>2. row[r].rev \in 0..5 /\ row[r].rev =< Rank(row[r].state)
    BY DEF StoresTyped, Stored, Row
  <1>3. row[r].rev + 1 \in 0..5 /\ row[r].rev + 1 =< Rank(new)
    BY <1>2 DEF Turns, Rank
  <1>4. row'[r] \in Row
    BY <1>1, <1>3 DEF Turns, Row, State
  <1>5. row' \in [Resource -> Row]
    BY <1>1, <1>4 DEF StoresTyped, Turns
  <1>6. Stored'
    <2>1. \A x \in Resource : row'[x].rev =< Rank(row'[x].state)
      BY <1>1, <1>3 DEF Stored
    <2>2. \A x \in objects' : row'[x].state # "none"
      BY <1>1 DEF Stored, StoresTyped, Turns
    <2>3. \A u \in Upload : source'[u] # NoResource => row'[source'[u]].state \in Offered
      BY <1>1 DEF Stored, StoresTyped, Turns, Offered, Leaving
    <2> QED
      BY <2>1, <2>2, <2>3 DEF Stored, Rank, Offered, Leaving
  <1>7. ReusableBindingsWork'
    BY <1>1 DEF ReusableBindingsWork, Stored, StoresTyped, Turns, Offered, Leaving
  <1> QED
    BY <1>1, <1>4, <1>5, <1>6, <1>7 DEF StoresTyped, CleanupCanResume

LEMMA TurnOthers ==
    ASSUME StoresTyped, Stored, ReusableBindingsWork, CleanupCanResume,
           NEW r \in Resource, NEW new, Turns(r, new),
           UNCHANGED <<objects, source, assets, secrets, bindings, elapsed, lapsed>>,
           lost => lost',
           NEW m \in Working, Shaped(m), Agrees(m), m.pc \in Creating => Subject(m) # r
    PROVE  RowsAgree(m)' /\ ObjectsAgree(m)' /\ UploadsAgree(m)'
  <1>1. row'[r] = [state |-> new, rev |-> row[r].rev + 1]
        /\ \A x \in Resource \ {r} : row'[x] = row[x]
    BY TurnKeeps
  <1>2. m.pc # "idle" => Subject(m) \in Resource
    BY HeadIsItem DEF Shaped
  <1>3. \A n \in DOMAIN m.queue : m.queue[n].res \in Resource
    BY ItemsTyped
  <1>4. RowsAgree(m)'
    BY <1>1, <1>2, <1>3 DEF Agrees, RowsAgree, Turns, Creating, Looking, Carrying, Offered, Leaving
  <1>5. ObjectsAgree(m)' /\ UploadsAgree(m)'
    BY DEF Agrees, ObjectsAgree, UploadsAgree
  <1> QED
    BY <1>4, <1>5

LEMMA CreateReceivingPreserves ==
    ASSUME IInv, NEW c \in Call, NEW r \in Resource, CreateReceiving(c, r)
    PROVE  IInv'
  <1>0. PICK t : t = [state |-> "receiving", rev |-> row[r].rev + 1]
    OBVIOUS
  <1>1. StoresTyped /\ Stored /\ Found
    BY Everyone DEF IInv
  <1>2. /\ UNCHANGED <<objects, source, assets, secrets, bindings, elapsed, lapsed, lost>>
        /\ row[r].state = "none" /\ Turns(r, "receiving")
    BY DEF CreateReceiving, Turn, Turned, Turns, clock
  <1>3. /\ row'[r] = t /\ t \in Row /\ StoresTyped' /\ Stored'
        /\ ReusableBindingsWork' /\ CleanupCanResume'
        /\ \A x \in Resource \ {r} : row'[x] = row[x]
    BY <1>0, <1>1, <1>2, TurnKeeps DEF Found, StoresTyped
  <1>4. PICK k, j \in Working :
             /\ k = call[c] /\ Shaped(k) /\ Agrees(k) /\ k.pc = "idle"
             /\ call' = [call EXCEPT ![c] = j] /\ Shaped(j) /\ j.pc = "stream"
             /\ j.queue = <<[res |-> r, row |-> t]>> /\ j.todo = {} /\ Subject(j) = r
    <2> DEFINE k == call[c]
               j == [call[c] EXCEPT !.pc = "stream", !.queue = <<[res |-> r, row |-> t]>>]
    <2>1. k \in Working /\ Shaped(k) /\ Agrees(k) /\ k.pc = "idle"
      BY Everyone DEF Shaped, CreateReceiving, Start, At
    <2>2. k.todo = {}
      BY <2>1 DEF Agrees, Placed, Cleaning
    <2>a. [res |-> r, row |-> t] \in Item
      BY <1>3 DEF Item
    <2>b. <<[res |-> r, row |-> t]>> \in Seq(Item)
      BY <2>a
    <2>3. j \in Working /\ j.pc = "stream" /\ j.todo = {} /\ j.queue = <<[res |-> r, row |-> t]>>
      BY <2>b, <2>1, <2>2 DEF Working, Place
    <2>c. j.queue # <<>> /\ Subject(j) = r
      BY <2>3 DEF Subject
    <2>4. call' = [call EXCEPT ![c] = j]
      BY <1>0 DEF CreateReceiving, Start, Turned
    <2> HIDE DEF k, j
    <2> QED
      BY <2>1, <2>3, <2>4, <2>c DEF Shaped, k
  <1>5. DOMAIN j.queue = 1..1 /\ j.queue[1].row.state = "receiving"
    BY <1>0, <1>4
  <1>6. Placed(j) /\ RowsAgree(j)' /\ ObjectsAgree(j)' /\ UploadsAgree(j)'
    BY <1>0, <1>1, <1>2, <1>3, <1>4, <1>5 DEF Placed, RowsAgree, ObjectsAgree, UploadsAgree, Stored,
       Creating, Looking, Carrying, Cleaning, Deleting
  <1>7. ASSUME NEW m \in Working, Shaped(m), Agrees(m), Apart(k, m)
        PROVE  RowsAgree(m)' /\ ObjectsAgree(m)' /\ UploadsAgree(m)' /\ Apart(j, m)
    <2>1. m.pc \in Creating => Subject(m) # r
      BY <1>2, <1>7 DEF Agrees, RowsAgree
    <2>2. RowsAgree(m)' /\ ObjectsAgree(m)' /\ UploadsAgree(m)'
      BY <1>1, <1>2, <1>7, <2>1, TurnOthers DEF Found
    <2> QED
      BY <1>4, <2>1, <2>2 DEF Apart, Creating, Carrying
  <1>8. Found'
    <2>1. /\ \A u : Carries(u) => Carries(u)'
          /\ \A u : Releases(u) => Releases(u)'
          /\ \A x : Publishes(x) => Publishes(x)'
      BY <1>4, Owners DEF Carrying
    <2>2. r \notin objects /\ objects \subseteq Resource
      BY <1>1, <1>2 DEF Stored, StoresTyped
    <2> QED
      BY <1>1, <1>2, <1>3, <2>1, <2>2 DEF Found, Accounted
  <1> QED
    BY <1>3, <1>4, <1>6, <1>7, <1>8, Changes

LEMMA CommitReadyPreserves ==
    ASSUME IInv, NEW c \in Call, CommitReady(c)
    PROVE  IInv'
  <1>1. PICK k \in Working : k = call[c] /\ Shaped(k) /\ Agrees(k) /\ k.pc = "commit"
    BY Everyone DEF Shaped, CommitReady, At
  <1>2. PICK r \in Resource : r = Subject(k) /\ r = This(c)
    BY <1>1, HeadIsItem DEF Shaped, This, Subject
  <1>3. StoresTyped /\ Stored /\ Found /\ Finished(c)
    BY Everyone DEF IInv, CommitReady
  <1>4. /\ UNCHANGED <<objects, source, assets, secrets, bindings, elapsed, lapsed, lost>>
        /\ row[r].state = "receiving" /\ Turns(r, "ready")
    BY <1>2 DEF CommitReady, Commits, Turn, Turned, Turns, clock
  <1>5. /\ row'[r].state = "ready" /\ StoresTyped' /\ Stored'
        /\ ReusableBindingsWork' /\ CleanupCanResume'
        /\ \A x \in Resource \ {r} : row'[x] = row[x]
    <2>1. lost' \in BOOLEAN
      BY <1>3, <1>4 DEF StoresTyped
    <2>2. row'[r] = [state |-> "ready", rev |-> row[r].rev + 1]
          /\ \A x \in Resource \ {r} : row'[x] = row[x]
      BY <1>3, <1>4, TurnKeeps DEF Found
    <2>3. StoresTyped' /\ Stored' /\ ReusableBindingsWork' /\ CleanupCanResume'
      BY <1>3, <1>4, <2>1, TurnKeeps DEF Found
    <2> QED
      BY <2>2, <2>3
  <1>6. ASSUME NEW m \in Working, Shaped(m), Agrees(m), Apart(k, m)
        PROVE  RowsAgree(m)' /\ ObjectsAgree(m)' /\ UploadsAgree(m)'
    <2>1. m.pc \in Creating => Subject(m) # r
      BY <1>1, <1>2, <1>6 DEF Apart, Creating
    <2> QED
      BY <1>3, <1>4, <1>6, <2>1, TurnOthers DEF Found
  <1>7. Found'
    <2>1. /\ \A u : Carries(u) => Carries(u)'
          /\ \A u : Releases(u) => Releases(u)'
          /\ \A x : x # r /\ Publishes(x) => Publishes(x)'
      BY <1>1, <1>2, <1>3, Owners DEF Finished, Carrying
    <2>2. objects \subseteq Resource
      BY <1>3 DEF StoresTyped
    <2> QED
      BY <1>3, <1>4, <1>5, <2>1, <2>2 DEF Found, Accounted
  <1> QED
    BY <1>1, <1>3, <1>5, <1>6, <1>7, Ends

LEMMA MarkFailedPreserves ==
    ASSUME IInv, NEW c \in Call, MarkFailed(c)
    PROVE  IInv'
  <1>1. PICK k \in Working : k = call[c] /\ Shaped(k) /\ Agrees(k) /\ k.pc = "fail"
    BY Everyone DEF Shaped, MarkFailed, At
  <1>2. PICK r \in Resource : r = Subject(k) /\ r = This(c)
    BY <1>1, HeadIsItem DEF Shaped, This, Subject
  <1>3. StoresTyped /\ Stored /\ Found /\ Finished(c)
    BY Everyone DEF IInv, MarkFailed
  <1>4. UNCHANGED <<objects, source, assets, secrets, bindings, elapsed, lapsed>>
    BY DEF MarkFailed, clock
  <1>5. \/ row[r].state = "receiving" /\ Turns(r, "failed") /\ lost' = lost
        \/ lost' = TRUE /\ row' = row
    BY <1>2 DEF MarkFailed, Turn, Turned, Turns
  <1>6. StoresTyped' /\ Stored' /\ ReusableBindingsWork' /\ CleanupCanResume'
    <2>1. CASE Turns(r, "failed") /\ lost' = lost
      BY <1>3, <1>4, <2>1, TurnKeeps DEF Found, StoresTyped
    <2>2. CASE lost' = TRUE /\ row' = row
      BY <1>3, <1>4, <2>2 DEF Found, StoresTyped, Stored, ReusableBindingsWork, CleanupCanResume
    <2> QED
      BY <1>5, <2>1, <2>2
  <1>7. ASSUME NEW m \in Working, Shaped(m), Agrees(m), Apart(k, m)
        PROVE  RowsAgree(m)' /\ ObjectsAgree(m)' /\ UploadsAgree(m)'
    <2>1. m.pc \in Creating => Subject(m) # r
      BY <1>1, <1>2, <1>7 DEF Apart, Creating
    <2>2. CASE Turns(r, "failed") /\ lost' = lost
      BY <1>3, <1>4, <1>7, <2>1, <2>2, TurnOthers DEF Found
    <2>3. CASE lost' = TRUE /\ row' = row
      BY <1>4, <1>7, <2>3 DEF Agrees, RowsAgree, ObjectsAgree, UploadsAgree
    <2> QED
      BY <1>5, <2>2, <2>3
  <1>8. Found'
    <2>1. /\ \A u : Carries(u) => Carries(u)'
          /\ \A u : Releases(u) => Releases(u)'
          /\ \A x : Publishes(x) => Publishes(x)'
      BY <1>1, <1>3, Owners DEF Finished, Carrying
    <2>2. objects \subseteq Resource \ {r} \/ lost
      BY <1>1, <1>2, <1>3 DEF StoresTyped, Agrees, ObjectsAgree
    <2>3. CASE lost' = TRUE
      BY <1>6, <2>3 DEF Found, Accounted
    <2>4. CASE lost' = lost /\ Turns(r, "failed")
      <3>1. \A x \in Resource \ {r} : row'[x] = row[x]
        BY <1>3, <1>4, <2>4, TurnKeeps DEF Found
      <3> QED
        BY <1>3, <1>4, <1>6, <2>1, <2>2, <2>4, <3>1 DEF Found, Accounted
    <2> QED
      BY <1>5, <2>3, <2>4
  <1> QED
    BY <1>1, <1>3, <1>6, <1>7, <1>8, Ends

(* The row a call has read, and that is still as it was read.              *)
LEMMA AdvancePreserves ==
    ASSUME IInv, NEW c \in Call, NEW new, NEW pc, Unchanged(c), Advance(c, new, pc),
           \/ At(c, "expire") /\ new = "expired" /\ pc = "begin"
           \/ At(c, "begin") /\ new = "deleting" /\ pc = "list",
           UNCHANGED <<objects, source, assets, secrets, bindings, clock, lost>>
    PROVE  IInv'
  <1>1. PICK k \in Working : /\ k = call[c] /\ Shaped(k) /\ Agrees(k)
                             /\ k.pc \in {"expire", "begin"} /\ k.queue # <<>>
    BY Everyone DEF Shaped, At
  <1>2. PICK r \in Resource : r = Subject(k) /\ r = This(c) /\ row[r] = Head(k.queue).row
    BY <1>1, HeadIsItem DEF This, Subject, Unchanged, Seen
  <1>3. StoresTyped /\ Stored /\ Found
    BY Everyone DEF IInv
  <1>4. /\ UNCHANGED <<objects, source, assets, secrets, bindings, elapsed, lapsed, lost>>
        /\ row[r].state \in {"ready", "expired"} /\ Turns(r, new)
    BY <1>1, <1>2 DEF Agrees, Placed, Known, Advance, Turn, Turned, Turns, clock, At
  <1>5. PICK t : t = [state |-> new, rev |-> row[r].rev + 1]
    OBVIOUS
  <1>6. row'[r] = t /\ \A x \in Resource \ {r} : row'[x] = row[x]
    BY <1>3, <1>4, <1>5, TurnKeeps DEF Found
  <1>7. /\ t \in Row /\ StoresTyped' /\ Stored' /\ ReusableBindingsWork' /\ CleanupCanResume'
    <2>1. lost' \in BOOLEAN
      BY <1>3, <1>4 DEF StoresTyped
    <2> QED
      BY <1>3, <1>4, <1>6, <2>1, TurnKeeps DEF Found
  <1>8. /\ \A n \in DOMAIN k.queue : k.queue[n] \in Item /\ k.queue[n].res \in Resource
        /\ 1 \in DOMAIN k.queue /\ Head(k.queue) = k.queue[1]
        /\ k.queue[1].res = r
    BY <1>1, <1>2, ItemsTyped, HeadIsItem DEF Subject
  <1>9. PICK j \in Working :
             /\ call' = [call EXCEPT ![c] = j] /\ Shaped(j) /\ j.pc = pc
             /\ j.todo = k.todo /\ DOMAIN j.queue = DOMAIN k.queue
             /\ Subject(j) = r /\ Known(j) = new
             /\ j.queue[1].res = r /\ j.queue[1].row = t
             /\ \A n \in DOMAIN k.queue : n # 1 => j.queue[n] = k.queue[n]
    <2> DEFINE q == [k.queue EXCEPT ![1].row = t]
               j == [k EXCEPT !.pc = pc, !.queue = q]
    <2>1. call' = [call EXCEPT ![c] = j]
      BY <1>1, <1>2, <1>5 DEF Advance, Turned
    <2>2. k.queue \in Seq(Item)
      BY DEF Working
    <2>3. DOMAIN k.queue = 1..Len(k.queue) /\ Len(k.queue) \in Nat \ {0}
      BY <1>1, <2>2, LenProperties, EmptySeq
    <2>4. q[1] = [k.queue[1] EXCEPT !.row = t]
      BY <1>8
    <2>5. q[1].res = r /\ q[1].row = t /\ q[1] \in Item
      BY <1>7, <1>8, <2>4 DEF Item
    <2>6. DOMAIN q = DOMAIN k.queue /\ \A n \in DOMAIN k.queue : n # 1 => q[n] = k.queue[n]
      OBVIOUS
    <2>7. q = [n \in DOMAIN k.queue |-> q[n]]
      OBVIOUS
    <2>8. \A n \in DOMAIN k.queue : q[n] \in Item
      BY <1>8, <2>5, <2>6
    <2> HIDE DEF q
    <2>9. q \in [1..Len(k.queue) -> Item]
      BY <2>3, <2>7, <2>8
    <2>10. q \in Seq(Item)
      BY <2>3, <2>9
    <2>11. q # <<>>
      <3>1. Len(q) \in Nat /\ DOMAIN q = 1..Len(q)
        BY <2>10, LenProperties
      <3>2. 1 \in DOMAIN q
        BY <1>8, <2>6
      <3>3. Len(q) # 0
        BY <3>1, <3>2
      <3> QED
        BY <2>10, <3>3, EmptySeq
    <2>12. j \in Working /\ j.pc = pc /\ j.todo = k.todo /\ j.queue = q
      BY <2>10 DEF Working, Place, At
    <2>13. Head(j.queue) = q[1]
      BY <2>11, <2>12, HeadIsItem
    <2>14. Subject(j) = r /\ Known(j) = new
      BY <1>5, <2>5, <2>13 DEF Subject, Known
    <2>15. Shaped(j)
      BY <2>11, <2>12 DEF Shaped, At
    <2> HIDE DEF j
    <2> QED
      BY <2>1, <2>5, <2>6, <2>12, <2>14, <2>15
  <1>10. Placed(j)
    BY <1>1, <1>5, <1>9 DEF At, Agrees, Placed, Creating, Cleaning, Deleting
  <1>11. RowsAgree(j)'
    <2>1. j.pc \notin Creating \cup Looking \cup Carrying
      BY <1>9 DEF At, Creating, Looking, Carrying
    <2>2. ASSUME NEW n \in DOMAIN j.queue, j.queue[n].row.state = "deleting"
          PROVE  row'[j.queue[n].res].state \in Leaving
      <3>1. CASE n = 1
        BY <1>5, <1>6, <1>9, <2>2, <3>1 DEF Leaving
      <3>2. CASE n # 1
        <4>1. row[j.queue[n].res].state \in Leaving /\ j.queue[n].res \in Resource
          BY <1>1, <1>8, <1>9, <2>2, <3>2 DEF Agrees, RowsAgree
        <4> QED
          BY <1>4, <1>6, <4>1 DEF Leaving
      <3> QED
        BY <3>1, <3>2
    <2> QED
      BY <2>1, <2>2 DEF RowsAgree
  <1>12. ObjectsAgree(j)' /\ UploadsAgree(j)'
    <2>1. k.todo = {}
      BY <1>1 DEF Agrees, Placed, Cleaning
    <2> QED
      BY <1>9, <2>1 DEF At, ObjectsAgree, UploadsAgree, Carrying
  <1>13. ASSUME NEW m \in Working, Shaped(m), Agrees(m), Apart(k, m)
         PROVE  RowsAgree(m)' /\ ObjectsAgree(m)' /\ UploadsAgree(m)' /\ Apart(j, m)
    <2>1. m.pc \in Creating => Subject(m) # r
      BY <1>4, <1>13 DEF Agrees, RowsAgree
    <2>2. RowsAgree(m)' /\ ObjectsAgree(m)' /\ UploadsAgree(m)'
      BY <1>3, <1>4, <1>13, <2>1, TurnOthers DEF Found
    <2>3. Apart(j, m)
      BY <1>9, <1>13 DEF At, Apart, Creating, Carrying
    <2> QED
      BY <2>2, <2>3
  <1>14. Found'
    <2>1. /\ \A u : Carries(u) => Carries(u)'
          /\ \A u : Releases(u) => Releases(u)'
          /\ \A x : Publishes(x) => Publishes(x)'
      BY <1>1, <1>9, Owners DEF Carrying
    <2>2. objects \subseteq Resource /\ row'[r].state \in {"expired", "deleting"}
      BY <1>3, <1>5, <1>6 DEF StoresTyped
    <2> QED
      BY <1>3, <1>4, <1>6, <1>7, <2>1, <2>2 DEF Found, Accounted
  <1> QED
    BY <1>1, <1>7, <1>9, <1>10, <1>11, <1>12, <1>13, <1>14, Changes

LEMMA AdvancingPreserves ==
    ASSUME IInv, NEW c \in Call, MarkExpired(c) \/ BeginDelete(c)
    PROVE  IInv'
  <1>1. CASE MarkExpired(c)
    <2>1. CASE Unchanged(c)
      BY <1>1, <2>1, AdvancePreserves DEF MarkExpired
    <2>2. CASE ~Unchanged(c)
      BY <1>1, <2>2, QuietEnd DEF MarkExpired, At, Carrying, stores
    <2> QED
      BY <2>1, <2>2
  <1>2. CASE BeginDelete(c)
    <2>1. CASE Unchanged(c)
      BY <1>2, <2>1, AdvancePreserves DEF BeginDelete
    <2>2. CASE ~Unchanged(c)
      BY <1>2, <2>2, QuietEnd DEF BeginDelete, At, Carrying, stores
    <2> QED
      BY <2>1, <2>2
  <1> QED
    BY <1>1, <1>2

(* The last step of a deletion; a cleanup goes on with its next candidate. *)
LEMMA FinishDeletePreserves ==
    ASSUME IInv, NEW c \in Call, FinishDelete(c)
    PROVE  IInv'
  <1>1. PICK k \in Working : /\ k = call[c] /\ Shaped(k) /\ Agrees(k)
                             /\ k.pc = "finish" /\ k.queue # <<>>
    BY Everyone DEF Shaped, FinishDelete, At
  <1>a. CASE ~Unchanged(c)
    BY <1>a, QuietEnd DEF FinishDelete, At, Carrying, stores
  <1>b. CASE Unchanged(c)
    <2>1. PICK r \in Resource : r = Subject(k) /\ r = This(c) /\ row[r] = Head(k.queue).row
      BY <1>b, <1>1, HeadIsItem DEF This, Subject, Unchanged, Seen
    <2>2. StoresTyped /\ Stored /\ Found
      BY Everyone DEF IInv
    <2>3. /\ UNCHANGED <<objects, source, assets, secrets, bindings, elapsed, lapsed, lost>>
          /\ row[r].state = "deleting" /\ Turns(r, "deleted")
      BY <1>b, <1>1, <2>1 DEF Agrees, Placed, Known, Deleting, FinishDelete, Turn, Turned, Turns, clock
    <2>4. row'[r].state = "deleted" /\ \A x \in Resource \ {r} : row'[x] = row[x]
      <3>1. row'[r] = [state |-> "deleted", rev |-> row[r].rev + 1]
            /\ \A x \in Resource \ {r} : row'[x] = row[x]
        BY <2>2, <2>3, TurnKeeps DEF Found
      <3> QED
        BY <3>1
    <2>5. /\ StoresTyped' /\ Stored' /\ ReusableBindingsWork' /\ CleanupCanResume'
      <3>1. lost' \in BOOLEAN
        BY <2>2, <2>3 DEF StoresTyped
      <3> QED
        BY <2>2, <2>3, <3>1, TurnKeeps DEF Found
    <2>6. ASSUME NEW m \in Working, Shaped(m), Agrees(m), Apart(k, m)
          PROVE  RowsAgree(m)' /\ ObjectsAgree(m)' /\ UploadsAgree(m)'
      <3>1. m.pc \in Creating => Subject(m) # r
        BY <2>3, <2>6 DEF Agrees, RowsAgree
      <3> QED
        BY <2>2, <2>3, <2>6, <3>1, TurnOthers DEF Found
    <2>7. r \notin objects /\ objects \subseteq Resource
      BY <1>1, <2>1, <2>2 DEF Agrees, ObjectsAgree, StoresTyped
    <2>8. ASSUME NEW j, call' = [call EXCEPT ![c] = j]
          PROVE  Found'
      <3>1. /\ \A u : Carries(u) => Carries(u)'
            /\ \A u : Releases(u) => Releases(u)'
            /\ \A x : Publishes(x) => Publishes(x)'
        BY <1>1, <2>8, Owners DEF Carrying
      <3> QED
        BY <2>2, <2>3, <2>4, <2>5, <2>7, <3>1 DEF Found, Accounted
    <2>9. CASE Tail(k.queue) = <<>>
      <3>1. Finished(c)
        BY <1>b, <1>1, <2>9 DEF FinishDelete
      <3> QED
        BY <1>1, <2>5, <2>6, <2>8, <3>1, Ends DEF Finished
    <2>10. CASE Tail(k.queue) # <<>>
      <3>1. PICK rest : rest = Tail(k.queue)
        OBVIOUS
      <3>2. k.queue \in Seq(Item)
        BY DEF Working
      <3>3. rest \in Seq(Item) /\ Len(rest) = Len(k.queue) - 1
            /\ \A n \in 1..Len(rest) : rest[n] = k.queue[n + 1]
        BY <1>1, <3>1, <3>2, HeadTailProperties
      <3>4. /\ DOMAIN rest = 1..Len(rest) /\ Len(rest) \in Nat \ {0}
            /\ DOMAIN k.queue = 1..Len(k.queue) /\ Len(k.queue) \in Nat
        BY <2>10, <3>1, <3>2, <3>3, LenProperties, EmptySeq
      <3>5. \A n \in DOMAIN rest : n + 1 \in DOMAIN k.queue /\ rest[n] = k.queue[n + 1]
        BY <3>3, <3>4
      <3>6. \A n \in DOMAIN rest : rest[n].row.state \in {"ready", "expired", "deleting"}
        BY <1>1, <3>5 DEF Agrees, Placed, Creating
      <3>7. 1 \in DOMAIN rest
        BY <3>4
      <3>8. PICK pc : pc = Entry(rest[1].row.state)
        OBVIOUS
      <3>9. /\ pc \in {"expire", "begin", "list"}
            /\ pc = "expire" => rest[1].row.state = "ready"
            /\ pc = "begin" => rest[1].row.state = "expired"
            /\ pc = "list" => rest[1].row.state = "deleting"
        BY <3>6, <3>7, <3>8 DEF Entry
      <3>10. PICK j \in Working :
                /\ call' = [call EXCEPT ![c] = j] /\ Shaped(j) /\ j.pc = pc
                /\ j.queue = rest /\ j.todo = {} /\ Known(j) = rest[1].row.state
        <4> DEFINE j == [k EXCEPT !.pc = pc, !.queue = rest]
        <4>1. call' = [call EXCEPT ![c] = j]
          BY <1>b, <1>1, <2>10, <3>1, <3>8 DEF FinishDelete
        <4>2. k.todo = {}
          BY <1>1 DEF Agrees, Placed, Cleaning
        <4>3. j \in Working /\ j.pc = pc /\ j.queue = rest /\ j.todo = {}
          BY <3>3, <3>9, <4>2 DEF Working, Place
        <4>4. Known(j) = rest[1].row.state
          BY <2>10, <3>1, <4>3, HeadIsItem DEF Known
        <4>5. Shaped(j)
          BY <2>10, <3>1, <3>9, <4>3 DEF Shaped
        <4> HIDE DEF j
        <4> QED
          BY <4>1, <4>3, <4>4, <4>5
      <3>11. Placed(j)
        BY <3>6, <3>9, <3>10 DEF Placed, Cleaning, Deleting
      <3>12. RowsAgree(j)'
        <4>1. j.pc \notin Creating \cup Looking \cup Carrying
          BY <3>9, <3>10 DEF Creating, Looking, Carrying
        <4>2. ASSUME NEW n \in DOMAIN rest, rest[n].row.state = "deleting"
              PROVE  row'[rest[n].res].state \in Leaving
          <5>1. row[rest[n].res].state \in Leaving /\ rest[n].res \in Resource
            BY <1>1, <3>5, <4>2, ItemsTyped DEF Agrees, RowsAgree
          <5> QED
            BY <2>4, <5>1 DEF Leaving
        <4> QED
          BY <3>10, <4>1, <4>2 DEF RowsAgree
      <3>13. ObjectsAgree(j)' /\ UploadsAgree(j)'
        BY <3>9, <3>10 DEF ObjectsAgree, UploadsAgree, Carrying
      <3>14. ASSUME NEW m \in Working, Shaped(m), Agrees(m), Apart(k, m)
             PROVE  RowsAgree(m)' /\ ObjectsAgree(m)' /\ UploadsAgree(m)' /\ Apart(j, m)
        <4>1. Apart(j, m)
          BY <3>9, <3>10 DEF Apart, Creating, Carrying
        <4> QED
          BY <2>6, <3>14, <4>1
      <3> QED
        BY <1>1, <2>5, <2>8, <3>10, <3>11, <3>12, <3>13, <3>14, Changes
    <2> QED
      BY <2>9, <2>10
  <1> QED
    BY <1>a, <1>b

-----------------------------------------------------------------------------
LEMMA InitiallyAgrees == Init => IInv
  <1> SUFFICES ASSUME Init PROVE IInv
    OBVIOUS
  <1>1. TypeOK
    <2>1. [state |-> "none", rev |-> 0] \in Row
      BY DEF Row, State
    <2>2. row \in [Resource -> Row]
      BY <2>1 DEF Init
    <2>3. call \in [Call -> Working] /\ \A c \in Call : call[c] = Idle
      BY IdleFits DEF Init
    <2>4. \A c \in Call : call[c].pc = "idle" <=> call[c].queue = <<>>
      BY <2>3, IdleFits
    <2> QED
      BY <2>2, <2>3, <2>4 DEF Init, TypeOK
  <1>2. Stored
    BY DEF Init, Stored, Rank
  <1>3. Agree
    BY DEF Init, Agree, Placed, RowsAgree, ObjectsAgree, UploadsAgree, Idle,
       Creating, Looking, Carrying, Cleaning, Deleting
  <1>4. AllApart
    BY DEF Init, AllApart, Apart, Idle, Creating, Carrying
  <1>5. Found
    BY DEF Init, Found, ReusableBindingsWork, CleanupCanResume, Accounted
  <1> QED
    BY <1>1, <1>2, <1>3, <1>4, <1>5 DEF IInv

LEMMA EveryStepAgrees == IInv /\ [Next]_vars => IInv'
  <1> SUFFICES ASSUME IInv, [Next]_vars PROVE IInv'
    OBVIOUS
  <1>1. ASSUME NEW c \in Call, Step(c)
        PROVE  IInv'
    <2>1. CASE \E r \in Resource : CreateReceiving(c, r) \/ Materialize(c, r) \/ Delete(c, r)
      BY <2>1, CreateReceivingPreserves, StartingPreserves
    <2>2. CASE \/ StreamFails(c) \/ CommitFails(c) \/ FindExact(c) \/ CheckReady(c)
               \/ Open(c) \/ ReadSecret(c) \/ Fails(c)
      BY <2>2, QuietPreserves
    <2>3. CASE Publish(c) \/ Unpublish(c) \/ CommitReady(c) \/ MarkFailed(c)
      BY <2>3, PublishPreserves, UnpublishPreserves, CommitReadyPreserves, MarkFailedPreserves
    <2>4. CASE UploadAsset(c) \/ Protect(c) \/ Bind(c) \/ DropSecret(c) \/ DropAsset(c)
      BY <2>4, UploadAssetPreserves, ProtectPreserves, BindPreserves, DropSecretPreserves,
         DropAssetPreserves
    <2>5. CASE ListExpired(c) \/ MarkExpired(c) \/ BeginDelete(c) \/ ListByResource(c)
      BY <2>5, ListExpiredPreserves, AdvancingPreserves, ListByResourcePreserves
    <2>6. CASE RemoveAsset(c) \/ RemoveBinding(c) \/ RemoveSecret(c) \/ RemoveObject(c)
               \/ FinishDelete(c)
      BY <2>6, RemoveAssetPreserves, RemoveBindingPreserves, RemoveSecretPreserves,
         RemoveObjectPreserves, FinishDeletePreserves
    <2> QED
      BY <1>1, <2>1, <2>2, <2>3, <2>4, <2>5, <2>6 DEF Step
  <1>2. ASSUME NEW r \in Resource, Elapse(r)
        PROVE  IInv'
    BY <1>2, ElapsePreserves
  <1>3. ASSUME NEW u \in Upload, Lapse(u)
        PROVE  IInv'
    BY <1>3, LapsePreserves
  <1>4. CASE Die
    BY <1>4, DiePreserves
  <1>5. CASE UNCHANGED vars
    BY <1>5 DEF vars, stores, clock, IInv, TypeOK, Stored, Agree, Placed, RowsAgree, ObjectsAgree,
       UploadsAgree, AllApart, Apart, Found, ReusableBindingsWork, CleanupCanResume,
       Accounted, Carries, Releases, Publishes
  <1> QED
    BY <1>1, <1>2, <1>3, <1>4, <1>5 DEF Next

LEMMA AlwaysAgrees == Spec => []IInv
  <1>1. Init => IInv
    BY InitiallyAgrees
  <1>2. IInv /\ [Next]_vars => IInv'
    BY EveryStepAgrees
  <1> QED
    BY <1>1, <1>2, PTL DEF Spec

(* The state has its type: a row is written at most five times, whatever   *)
(* calls compete for it, and an upload that is kept anywhere was made for  *)
(* a resource (internal/sqlitestore/resource.go, transition).              *)
THEOREM ResourceTypes == Spec => []TypeOK
  <1>1. IInv => TypeOK
    BY DEF IInv
  <1> QED
    BY <1>1, AlwaysAgrees, PTL

(* A binding that Materialize may reuse resolves to a handle and an asset, *)
(* whatever cleanups run beside it: CleanupResourceBindings touches them   *)
(* only after the row has been turned to deleting.                         *)
THEOREM BindingsStayReusable == Spec => []ReusableBindingsWork
  <1>1. IInv => ReusableBindingsWork
    BY DEF IInv, Found
  <1> QED
    BY <1>1, AlwaysAgrees, PTL

(* Wherever a cleanup stopped, also beside others of the same resource,    *)
(* the handle of every binding it has left is there, so the next one can   *)
(* read it: asset, binding and handle are removed in this order.           *)
THEOREM CleanupsResume == Spec => []CleanupCanResume
  <1>1. IInv => CleanupCanResume
    BY DEF IInv, Found
  <1> QED
    BY <1>1, AlwaysAgrees, PTL

(* As long as no process died and no ignored step failed, every asset,     *)
(* handle and object is recorded in the database or in the hands of a call *)
(* that is still to record or remove it.                                   *)
THEOREM NothingIsOrphaned == Spec => []NothingOrphaned
  <1>1. IInv => NothingOrphaned
    BY AccountedMeansFound DEF IInv, Found
  <1> QED
    BY <1>1, AlwaysAgrees, PTL

-----------------------------------------------------------------------------
(* The contract of the callers, step by step.                              *)

Available == {r \in Resource : row[r].state = "ready"}
Past == {r \in Resource : row[r].state \in {"failed", "expired", "deleting", "deleted"}}
Same == Available' = Available /\ Past' = Past /\ objects' = objects

LEMMA ContractTotal == \A S : Contract!Total(S) = Bytes(S)
  BY Zenon DEF Contract!Total, Bytes, Contract!MapThenSumSet, MapThenSumSet,
               Contract!MapThenFoldSet, MapThenFoldSet

LEMMA SameIsStutter == Same => UNCHANGED Contract!vars
  BY DEF Same, Available, Past, Contract!vars

LEMMA RowsSame ==
    ASSUME UNCHANGED <<row, objects>>
    PROVE  Same
  BY DEF Same, Available, Past

LEMMA TurnMaps ==
    ASSUME StoresTyped, NEW r \in Resource, NEW new, Turns(r, new)
    PROVE  /\ new \in {"receiving", "deleted"} => Available' = Available /\ Past' = Past
           /\ new = "ready" =>
                 Available' = Available \cup {r} /\ Past' = Past /\ r \notin Available \cup Past
           /\ new \in {"failed", "expired"} \/ (new = "deleting" /\ row[r].state = "ready") =>
                 Available' = Available \ {r} /\ Past' = Past \cup {r} /\ r \notin Past
           /\ new = "deleting" /\ row[r].state = "expired" => Available' = Available /\ Past' = Past
  <1>1. row'[r].state = new /\ \A x \in Resource \ {r} : row'[x] = row[x]
    BY DEF StoresTyped, Turns
  <1>2. CASE row[r].state = "none"
    BY <1>1, <1>2 DEF Turns, Available, Past
  <1>3. CASE row[r].state = "receiving"
    BY <1>1, <1>3 DEF Turns, Available, Past
  <1>4. CASE row[r].state = "ready"
    BY <1>1, <1>4 DEF Turns, Available, Past
  <1>5. CASE row[r].state = "expired"
    BY <1>1, <1>5 DEF Turns, Available, Past
  <1>6. CASE row[r].state = "deleting"
    BY <1>1, <1>6 DEF Turns, Available, Past
  <1> QED
    BY <1>2, <1>3, <1>4, <1>5, <1>6 DEF Turns

(* What a call reads of itself before it changes a row or an object.       *)
LEMMA SubjectTyped ==
    ASSUME IInv, NEW c \in Call, call[c].pc # "idle"
    PROVE  /\ This(c) \in Resource /\ Agrees(call[c]) /\ Shaped(call[c]) /\ StoresTyped
           /\ This(c) = Subject(call[c]) /\ Seen(c).state = Known(call[c])
  <1>1. Agrees(call[c]) /\ Shaped(call[c]) /\ StoresTyped
    BY Everyone
  <1> QED
    BY <1>1, HeadIsItem DEF Shaped, This, Subject, Seen, Known

LEMMA CreationImplements ==
    ASSUME IInv, NEW c \in Call,
           \/ \E r \in Resource : CreateReceiving(c, r)
           \/ Publish(c) \/ CommitReady(c) \/ Unpublish(c) \/ MarkFailed(c)
    PROVE  Contract!Next \/ Same
  <1>1. CASE \E r \in Resource : CreateReceiving(c, r)
    <2>1. PICK r \in Resource : CreateReceiving(c, r)
      BY <1>1
    <2>2. Turns(r, "receiving") /\ objects' = objects
      BY <2>1 DEF CreateReceiving, Turn, Turned, Turns
    <2> QED
      BY <2>2, TurnMaps, Everyone DEF Same
  <1> SUFFICES ASSUME Publish(c) \/ CommitReady(c) \/ Unpublish(c) \/ MarkFailed(c)
               PROVE  Contract!Next \/ Same
    BY <1>1
  <1>2. PICK r \in Resource : r = This(c) /\ r = Subject(call[c])
    BY SubjectTyped DEF Publish, CommitReady, Unpublish, MarkFailed, At
  <1>3. Agrees(call[c]) /\ StoresTyped
    BY SubjectTyped DEF Publish, CommitReady, Unpublish, MarkFailed, At
  <1>4. r \notin Available \cup Past
    BY <1>2, <1>3 DEF Agrees, RowsAgree, Creating, Available, Past,
       Publish, CommitReady, Unpublish, MarkFailed, At
  <1>5. CASE Publish(c)
    <2>1. Available' = Available /\ Past' = Past /\ objects' = objects \cup {r}
      BY <1>2, <1>5 DEF Publish, Available, Past
    <2>2. r \notin objects
      BY <1>2, <1>3, <1>5 DEF Agrees, ObjectsAgree, Publish, At
    <2> QED
      BY <1>4, <2>1, <2>2 DEF Contract!Next, Contract!Store, Available, Past
  <1>6. CASE CommitReady(c)
    <2>1. Turns(r, "ready") /\ objects' = objects /\ Size[r] =< Quota - Bytes(Available)
      BY <1>2, <1>6 DEF CommitReady, Commits, Turn, Turned, Turns, ReadyBytes, Available
    <2>2. Available' = Available \cup {r} /\ Past' = Past
      BY <1>3, <2>1, TurnMaps
    <2>3. r \in objects
      BY <1>2, <1>3, <1>6 DEF Agrees, ObjectsAgree, CommitReady, At
    <2>4. Bytes(Available) \in Nat /\ Bytes(Available \cup {r}) = Bytes(Available) + Size[r]
      BY <1>4, BytesAddUp DEF Available
    <2>5. Contract!Total(Available \cup {r}) =< Quota
      <3>1. Size[r] \in Nat /\ Quota \in Nat
        BY SizeAssumption
      <3>2. Bytes(Available \cup {r}) =< Quota
        BY <2>1, <2>4, <3>1
      <3> QED
        BY <3>2, ContractTotal
    <2>6. Contract!Offer(r)
      BY <1>4, <2>1, <2>2, <2>3, <2>5 DEF Contract!Offer, Available, Past
    <2> QED
      BY <2>6 DEF Contract!Next
  <1>7. CASE Unpublish(c)
    <2>1. r \in objects
      BY <1>2, <1>3, <1>7 DEF Agrees, ObjectsAgree, Unpublish, At
    <2>2. /\ Available' = Available /\ Past' = Past
          /\ objects' = objects \ {r} \/ objects' = objects
      BY <1>2, <1>7 DEF Unpublish, Available, Past
    <2> QED
      BY <1>4, <2>1, <2>2 DEF Same, Contract!Next, Contract!Remove, Available, Past
  <1>8. CASE MarkFailed(c)
    <2>1. objects' = objects /\ (Turns(r, "failed") \/ row' = row)
      BY <1>2, <1>8 DEF MarkFailed, Turn, Turned, Turns
    <2>2. CASE row' = row
      BY <2>1, <2>2, RowsSame
    <2>3. CASE Turns(r, "failed")
      <3>1. Available' = Available \ {r} /\ Past' = Past \cup {r} /\ r \notin Past
        BY <1>3, <2>3, TurnMaps
      <3> QED
        BY <2>1, <3>1 DEF Contract!Next, Contract!Withdraw, Available, Past
    <2> QED
      BY <2>1, <2>2, <2>3
  <1> QED
    BY <1>5, <1>6, <1>7, <1>8

LEMMA DeletionImplements ==
    ASSUME IInv, NEW c \in Call,
           MarkExpired(c) \/ BeginDelete(c) \/ RemoveObject(c) \/ FinishDelete(c)
    PROVE  Contract!Next \/ Same
  <1>1. PICK r \in Resource : r = This(c) /\ r = Subject(call[c])
    BY SubjectTyped DEF MarkExpired, BeginDelete, RemoveObject, FinishDelete, At
  <1>2. Agrees(call[c]) /\ Shaped(call[c]) /\ StoresTyped /\ Seen(c).state = Known(call[c])
    BY SubjectTyped DEF MarkExpired, BeginDelete, RemoveObject, FinishDelete, At
  <1>3. CASE RemoveObject(c)
    <2>1. Available' = Available /\ Past' = Past /\ objects' = objects \ {r}
      BY <1>1, <1>3 DEF RemoveObject, Available, Past
    <2>2. row[r].state \in Leaving
      BY <1>1, <1>2, <1>3, DeletedRows DEF RemoveObject, At, Deleting
    <2>3. CASE r \in objects
      BY <2>1, <2>2, <2>3 DEF Contract!Next, Contract!Remove, Available, Past, Leaving
    <2>4. CASE r \notin objects
      BY <2>1, <2>4 DEF Same
    <2> QED
      BY <2>3, <2>4
  <1>4. CASE (MarkExpired(c) \/ BeginDelete(c) \/ FinishDelete(c)) /\ row' = row
    <2>1. objects' = objects
      BY <1>4 DEF MarkExpired, BeginDelete, FinishDelete
    <2> QED
      BY <1>4, <2>1, RowsSame
  <1>5. CASE MarkExpired(c) /\ row' # row
    <2>1. Turns(r, "expired") /\ objects' = objects
      BY <1>1, <1>2, <1>5 DEF MarkExpired, Advance, Unchanged, Turn, Turned, Turns,
         Agrees, Placed, At
    <2>2. Available' = Available \ {r} /\ Past' = Past \cup {r} /\ r \notin Past
      BY <1>2, <2>1, TurnMaps
    <2> QED
      BY <2>1, <2>2 DEF Contract!Next, Contract!Withdraw, Available, Past
  <1>6. CASE BeginDelete(c) /\ row' # row
    <2>1. Turns(r, "deleting") /\ objects' = objects /\ row[r].state \in {"ready", "expired"}
      BY <1>1, <1>2, <1>6 DEF BeginDelete, Advance, Unchanged, Turn, Turned, Turns,
         Agrees, Placed, At
    <2>2. CASE row[r].state = "ready"
      <3>1. Available' = Available \ {r} /\ Past' = Past \cup {r} /\ r \notin Past
        BY <1>2, <2>1, <2>2, TurnMaps
      <3> QED
        BY <2>1, <3>1 DEF Contract!Next, Contract!Withdraw, Available, Past
    <2>3. CASE row[r].state = "expired"
      BY <1>2, <2>1, <2>3, TurnMaps DEF Same
    <2> QED
      BY <2>1, <2>2, <2>3
  <1>7. CASE FinishDelete(c) /\ row' # row
    <2>1. Turns(r, "deleted") /\ objects' = objects
      BY <1>1, <1>2, <1>7 DEF FinishDelete, Unchanged, Turn, Turned, Turns,
         Agrees, Placed, At, Deleting
    <2> QED
      BY <1>2, <2>1, TurnMaps DEF Same
  <1> QED
    BY <1>3, <1>4, <1>5, <1>6, <1>7

LEMMA EveryStepImplements == IInv /\ [Next]_vars => [Contract!Next]_(Contract!vars)
  <1> SUFFICES ASSUME IInv, [Next]_vars PROVE Contract!Next \/ Same
    BY SameIsStutter
  <1>1. ASSUME NEW c \in Call, Step(c)
        PROVE  Contract!Next \/ Same
    <2>1. CASE \/ \E r \in Resource : CreateReceiving(c, r)
               \/ Publish(c) \/ CommitReady(c) \/ Unpublish(c) \/ MarkFailed(c)
      BY <2>1, CreationImplements
    <2>2. CASE MarkExpired(c) \/ BeginDelete(c) \/ RemoveObject(c) \/ FinishDelete(c)
      BY <2>2, DeletionImplements
    <2>3. CASE \/ \E r \in Resource : Materialize(c, r) \/ Delete(c, r)
               \/ StreamFails(c) \/ CommitFails(c) \/ FindExact(c) \/ CheckReady(c)
               \/ Open(c) \/ ReadSecret(c) \/ Fails(c) \/ UploadAsset(c)
               \/ Protect(c) \/ Bind(c) \/ DropSecret(c) \/ DropAsset(c)
               \/ ListExpired(c) \/ ListByResource(c)
               \/ RemoveAsset(c) \/ RemoveBinding(c) \/ RemoveSecret(c)
      <3>1. UNCHANGED <<row, objects>>
        BY <2>3 DEF Materialize, Delete, StreamFails, CommitFails, FindExact, CheckReady, Open,
           ReadSecret, Fails, UploadAsset, Protect, Bind, DropSecret, DropAsset, ListExpired,
           ListByResource, RemoveAsset, RemoveBinding, RemoveSecret, stores
      <3> QED
        BY <3>1, RowsSame
    <2> QED
      BY <1>1, <2>1, <2>2, <2>3 DEF Step
  <1>2. CASE (\E r \in Resource : Elapse(r)) \/ (\E u \in Upload : Lapse(u)) \/ Die \/ UNCHANGED vars
    <2>1. UNCHANGED <<row, objects>>
      BY <1>2 DEF Elapse, Lapse, Die, vars, stores
    <2> QED
      BY <2>1, RowsSame
  <1> QED
    BY <1>1, <1>2 DEF Next

(* The calls keep the contract of their callers, whatever the quota and    *)
(* the sizes: what is offered was stored, fits the quota together with     *)
(* everything else that is offered, is withdrawn once and for good, and    *)
(* its bytes are removed only after that (internal/resource/service.go,    *)
(* CommitReady and FinishDelete in internal/sqlitestore/resource.go).      *)
THEOREM KeepsContract == Spec => ImplementsContract
  <1>1. Init => Contract!Init
    BY DEF Init, Contract!Init
  <1>2. IInv /\ [Next]_vars => [Contract!Next]_(Contract!vars)
    BY EveryStepImplements
  <1> QED
    BY <1>1, <1>2, AlwaysAgrees, PTL DEF Spec, ImplementsContract, Contract!Spec
=============================================================================
