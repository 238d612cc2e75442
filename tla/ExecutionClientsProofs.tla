----------------------- MODULE ExecutionClientsProofs -----------------------
(***************************************************************************)
(* Proofs about the execution store under arbitrary callers, for every set *)
(* of executions, requests and tasks.  The one idea is CopiesAreVersions:  *)
(* the revision identifies the version, so a Save that passes the          *)
(* comparison of revisions starts from the current version.                *)
(***************************************************************************)
EXTENDS ExecutionClients, TLAPS

(* The versions a caller derives are records of the next revision.         *)
LEMMA DerivedType ==
    ASSUME NEW from \in Record, NEW r \in Derived(from)
    PROVE  /\ r \in Record
           /\ r.rev = from.rev + 1
           /\ r.request = from.request
  BY DEF Derived, Record

(* A version that passes Save is the next revision, along a legal edge.    *)
LEMMA WriteEffect ==
    ASSUME StoreTypeOK, NEW e \in Execution, NEW r \in Record,
           NEW ev \in EventType, Write(e, r, ev)
    PROVE  /\ r.rev = records[e].rev + 1
           /\ \/ r.status = records[e].status
              \/ LegalTransition(records[e].status, r.status)
           /\ records' = [records EXCEPT ![e] = r]
           /\ feed' = [feed EXCEPT ![e] = Follow(feed[e], ev)]
  <1>1. SaveResult(e, r, ev) = "ok"
    BY DEF Write
  <1> QED
    BY <1>1 DEF Write, SaveResult

(* Only statuses are announced, and following the log keeps a Feed.        *)
LEMMA FollowType ==
    ASSUME NEW f \in Feed, NEW ev \in EventType
    PROVE  Follow(f, ev) \in Feed
  BY DEF Feed, Follow, Announces, EventType, RetryEvent, LifecycleEvent,
         RetryPhase, RecordStatus, Status, OpenStatus, TerminalStatus

LEMMA NewRecordType ==
    ASSUME NEW q \in Request
    PROVE  NewRecord(q) \in Record
  BY DEF NewRecord, Record, Status, OpenStatus, NoTask

(* Absent is not a record, and no record is absent.                        *)
LEMMA AbsentIsNoRecord ==
    ASSUME NEW r \in Record
    PROVE  r # Absent
  BY DEF Record, Absent, Status, OpenStatus, TerminalStatus

(* The bound that Spec puts on revisions only takes behaviours away.       *)
LEMMA BoundedCalls == Spec => AnyCalls
  <1>1. [Next]_vars => [AnyCall]_vars
    BY DEF Next, AnyCall
  <1> QED
    BY <1>1, PTL DEF Spec, AnyCalls

(* Type correctness of the store and of the copies its callers hold, for   *)
(* any callers of Create, Get, ListRecoverable and Save.                   *)
THEOREM ClientsTypeOK == AnyCalls => []TypeOK
  <1>1. Init => TypeOK
    BY DEF Init, StoreInit, TypeOK, StoreTypeOK, NoFeed, Feed, RecordStatus,
           RetryPhase
  <1>2. TypeOK /\ [AnyCall]_vars => TypeOK'
    <2> SUFFICES ASSUME TypeOK, [AnyCall]_vars PROVE TypeOK'
      OBVIOUS
    <2> USE DEF TypeOK, StoreTypeOK
    <2>1. ASSUME NEW e \in Execution, NEW q \in Requests, Create(e, q)
          PROVE  TypeOK'
      <3>1. q \in Request
        BY RequestsAssumption
      <3>2. NewRecord(q) \in Record
        BY <3>1, NewRecordType
      <3>3. Follow(NoFeed, "execution.accepted") \in Feed
        BY FollowType DEF NoFeed, Feed, RecordStatus, RetryPhase, EventType,
                          LifecycleEvent
      <3> QED
        BY <2>1, <3>2, <3>3 DEF Create, Insert, Hold
    <2>2. ASSUME NEW S \in SUBSET Admitted, Read(S)
          PROVE  TypeOK'
      <3>1. \A e \in S : e \in Execution /\ records[e] \in Record
        BY DEF Admitted
      <3> QED
        BY <2>2, <3>1 DEF Read, Hold, storeVars
    <2>3. ASSUME NEW c \in copies, Save(c[1], c[2])
          PROVE  TypeOK'
      <3>1. c[1] \in Execution /\ c[2] \in Record
        OBVIOUS
      <3>2. PICK r \in Derived(c[2]), ev \in EventType :
                Write(c[1], r, ev) /\ Hold({<<c[1], r>>})
        BY <2>3 DEF Save
      <3>3. r \in Record
        BY <3>1, DerivedType
      <3>4. Follow(feed[c[1]], ev) \in Feed
        BY <3>1, FollowType
      <3> QED
        BY <3>1, <3>2, <3>3, <3>4, WriteEffect DEF Hold
    <2>4. CASE UNCHANGED vars
      BY <2>4 DEF vars
    <2> QED
      BY <2>1, <2>2, <2>3, <2>4 DEF AnyCall
  <1> QED
    BY <1>1, <1>2, PTL DEF AnyCalls

-----------------------------------------------------------------------------
(* The copy a successful Save starts from is the current version: its      *)
(* revision is the record's, and the revision identifies the version.      *)
LEMMA SaveStartsFromCurrent ==
    ASSUME TypeOK, CopiesAreVersions, NEW c \in copies,
           NEW r \in Derived(c[2]), NEW ev \in EventType, Write(c[1], r, ev)
    PROVE  /\ c[1] \in Execution /\ c[2] \in Record /\ r \in Record
           /\ records[c[1]] = c[2]
           /\ c[1] \in Admitted
           /\ r.request = records[c[1]].request
           /\ r.rev = records[c[1]].rev + 1
  <1>1. c[1] \in Execution /\ c[2] \in Record
    BY DEF TypeOK
  <1>2. r \in Record /\ r.rev = c[2].rev + 1 /\ r.request = c[2].request
    BY <1>1, DerivedType
  <1>3. r.rev = records[c[1]].rev + 1
    BY <1>1, <1>2, WriteEffect DEF TypeOK
  <1>4. c[1] \in Admitted /\ records[c[1]] \in Record
    BY <1>1 DEF CopiesAreVersions, Admitted, TypeOK, StoreTypeOK
  <1>5. c[2].rev = records[c[1]].rev
    BY <1>1, <1>2, <1>3, <1>4 DEF Record
  <1> QED
    BY <1>1, <1>2, <1>3, <1>4, <1>5 DEF CopiesAreVersions

(* The inductive step of CopiesAreVersions.                                *)
LEMMA CopiesStep ==
    ASSUME TypeOK, CopiesAreVersions, [AnyCall]_vars
    PROVE  CopiesAreVersions'
  <1> USE DEF TypeOK, StoreTypeOK
  <1>1. ASSUME NEW e \in Execution, NEW q \in Requests, Create(e, q)
        PROVE  CopiesAreVersions'
    <2>1. e \notin Admitted /\ records' = [records EXCEPT ![e] = NewRecord(q)]
      BY <1>1 DEF Create, Insert
    <2>2. NewRecord(q) \in Record
      BY NewRecordType, RequestsAssumption
    <2>3. Admitted' = Admitted \cup {e}
      BY <2>1, <2>2, AbsentIsNoRecord DEF Admitted
    <2> SUFFICES ASSUME NEW c \in copies'
                 PROVE  /\ c[1] \in Admitted'
                        /\ c[2].rev <= records'[c[1]].rev
                        /\ c[2].rev = records'[c[1]].rev => c[2] = records'[c[1]]
      BY DEF CopiesAreVersions
    <2>4. CASE c \in copies
      <3>1. c[1] \in Admitted /\ c[1] # e /\ c[1] \in Execution
        BY <2>1, <2>4 DEF CopiesAreVersions
      <3>2. records'[c[1]] = records[c[1]]
        BY <2>1, <3>1
      <3> QED
        BY <2>3, <2>4, <3>1, <3>2 DEF CopiesAreVersions
    <2>5. CASE c = <<e, NewRecord(q)>>
      BY <2>1, <2>2, <2>3, <2>5 DEF Record
    <2> QED
      BY <1>1, <2>4, <2>5 DEF Create, Hold
  <1>2. ASSUME NEW S \in SUBSET Admitted, Read(S)
        PROVE  CopiesAreVersions'
    <2>1. \A e \in S : e \in Execution /\ records[e] \in Record
      BY DEF Admitted
    <2> SUFFICES ASSUME NEW c \in copies'
                 PROVE  /\ c[1] \in Admitted
                        /\ c[2].rev <= records[c[1]].rev
                        /\ c[2].rev = records[c[1]].rev => c[2] = records[c[1]]
      BY <1>2 DEF CopiesAreVersions, Read, storeVars, Admitted
    <2>2. CASE c \in copies
      BY <2>2 DEF CopiesAreVersions
    <2>3. ASSUME NEW e \in S, c = <<e, records[e]>>
          PROVE  /\ c[1] \in Admitted
                 /\ c[2].rev <= records[c[1]].rev
                 /\ c[2] = records[c[1]]
      BY <2>1, <2>3 DEF Record
    <2> QED
      BY <1>2, <2>2, <2>3 DEF Read, Hold
  <1>3. ASSUME NEW c \in copies, Save(c[1], c[2])
        PROVE  CopiesAreVersions'
    <2>1. PICK r \in Derived(c[2]), ev \in EventType :
              Write(c[1], r, ev) /\ Hold({<<c[1], r>>})
      BY <1>3 DEF Save
    <2>2. /\ c[1] \in Execution /\ r \in Record /\ c[1] \in Admitted
          /\ records[c[1]] \in Record
          /\ r.rev = records[c[1]].rev + 1
          /\ records' = [records EXCEPT ![c[1]] = r]
      BY <2>1, SaveStartsFromCurrent, WriteEffect
    <2>3. Admitted' = Admitted
      BY <2>2, AbsentIsNoRecord DEF Admitted
    <2> SUFFICES ASSUME NEW d \in copies'
                 PROVE  /\ d[1] \in Admitted'
                        /\ d[2].rev <= records'[d[1]].rev
                        /\ d[2].rev = records'[d[1]].rev => d[2] = records'[d[1]]
      BY DEF CopiesAreVersions
    <2>4. CASE d \in copies /\ d[1] = c[1]
      <3>1. d[2] \in Record /\ d[2].rev <= records[c[1]].rev
        BY <2>4 DEF CopiesAreVersions
      <3>2. d[2].rev < r.rev
        BY <2>2, <3>1 DEF Record
      <3> QED
        BY <2>2, <2>3, <2>4, <3>1, <3>2 DEF Record
    <2>5. CASE d \in copies /\ d[1] # c[1]
      <3>1. d[1] \in Execution /\ records'[d[1]] = records[d[1]]
        BY <2>2, <2>5
      <3> QED
        BY <2>3, <2>5, <3>1 DEF CopiesAreVersions
    <2>6. CASE d = <<c[1], r>>
      BY <2>2, <2>3, <2>6 DEF Record
    <2> QED
      BY <2>1, <2>4, <2>5, <2>6 DEF Hold
  <1>4. CASE UNCHANGED vars
    BY <1>4 DEF vars, CopiesAreVersions, Admitted
  <1> QED
    BY <1>1, <1>2, <1>3, <1>4 DEF AnyCall

(* A copy in a caller's hands is a past version, or the current one when   *)
(* the revisions agree.                                                    *)
THEOREM CopiesVersioned == AnyCalls => []CopiesAreVersions
  <1>1. Init => CopiesAreVersions
    BY DEF Init, CopiesAreVersions
  <1>2. TypeOK /\ CopiesAreVersions /\ [AnyCall]_vars => CopiesAreVersions'
    BY CopiesStep
  <1> QED
    BY <1>1, <1>2, ClientsTypeOK, PTL DEF AnyCalls

-----------------------------------------------------------------------------
(* How any step changes the record of one admitted execution: not at all,  *)
(* or by a Save from a copy of its current version.                        *)
LEMMA RecordStep ==
    ASSUME TypeOK, CopiesAreVersions, [AnyCall]_vars, NEW e \in Admitted
    PROVE  \/ records'[e] = records[e]
           \/ /\ <<e, records[e]>> \in copies
              /\ records'[e] \in Record
              /\ records'[e].rev = records[e].rev + 1
              /\ records'[e].request = records[e].request
              /\ \/ records'[e].status = records[e].status
                 \/ LegalTransition(records[e].status, records'[e].status)
  <1> USE DEF TypeOK, StoreTypeOK
  <1>0. e \in Execution
    BY DEF Admitted
  <1>1. ASSUME NEW f \in Execution, NEW q \in Requests, Create(f, q)
        PROVE  records'[e] = records[e]
    BY <1>0, <1>1 DEF Create, Insert
  <1>2. ASSUME NEW S \in SUBSET Admitted, Read(S)
        PROVE  records'[e] = records[e]
    BY <1>2 DEF Read, storeVars
  <1>3. ASSUME NEW c \in copies, Save(c[1], c[2])
        PROVE  \/ records'[e] = records[e]
               \/ /\ <<e, records[e]>> \in copies
                  /\ records'[e] \in Record
                  /\ records'[e].rev = records[e].rev + 1
                  /\ records'[e].request = records[e].request
                  /\ \/ records'[e].status = records[e].status
                     \/ LegalTransition(records[e].status, records'[e].status)
    <2>1. PICK r \in Derived(c[2]), ev \in EventType : Write(c[1], r, ev)
      BY <1>3 DEF Save
    <2>2. /\ c[1] \in Execution /\ r \in Record
          /\ records[c[1]] = c[2]
          /\ r.request = records[c[1]].request
          /\ r.rev = records[c[1]].rev + 1
      BY <2>1, SaveStartsFromCurrent
    <2>3. /\ records' = [records EXCEPT ![c[1]] = r]
          /\ \/ r.status = records[c[1]].status
             \/ LegalTransition(records[c[1]].status, r.status)
      BY <2>1, <2>2, WriteEffect
    <2>4. c = <<c[1], c[2]>>
      OBVIOUS
    <2>5. CASE c[1] = e
      BY <1>0, <2>2, <2>3, <2>4, <2>5
    <2>6. CASE c[1] # e
      BY <1>0, <2>3, <2>6
    <2> QED
      BY <2>5, <2>6
  <1>4. CASE UNCHANGED vars
    BY <1>4 DEF vars
  <1> QED
    BY <1>1, <1>2, <1>3, <1>4 DEF AnyCall

(* No edge of ValidateTransition leaves a terminal status.                 *)
LEMMA TerminalHasNoSuccessor ==
    ASSUME NEW s, NEW t, IsTerminal(s)
    PROVE  ~LegalTransition(s, t)
  BY DEF IsTerminal, TerminalStatus, LegalTransition, Successors

(* No caller, however stale its copy, moves an execution out of a terminal *)
(* status.                                                                 *)
THEOREM StoreTerminalIsFinal == AnyCalls => TerminalIsFinal
  <1>1. TypeOK /\ CopiesAreVersions /\ [AnyCall]_vars =>
            [\A e \in Execution :
               IsTerminal(records[e].status) =>
                   records'[e].status = records[e].status]_storeVars
    <2> SUFFICES ASSUME TypeOK, CopiesAreVersions, [AnyCall]_vars,
                        NEW e \in Execution, IsTerminal(records[e].status)
                 PROVE  records'[e].status = records[e].status
      OBVIOUS
    <2>1. e \in Admitted
      BY DEF Admitted, Absent, IsTerminal, TerminalStatus
    <2> QED
      BY <2>1, RecordStep, TerminalHasNoSuccessor
  <1> QED
    BY <1>1, ClientsTypeOK, CopiesVersioned, PTL DEF AnyCalls, TerminalIsFinal

(* Statuses move along legal edges only, and requests never change.        *)
THEOREM StoreLegalHistory == AnyCalls => LegalHistory
  <1>1. TypeOK /\ CopiesAreVersions /\ [AnyCall]_vars =>
            [\A e \in Admitted :
               /\ records'[e].request = records[e].request
               /\ \/ records'[e].status = records[e].status
                  \/ LegalTransition(records[e].status, records'[e].status)]_storeVars
    BY RecordStep
  <1> QED
    BY <1>1, ClientsTypeOK, CopiesVersioned, PTL DEF AnyCalls, LegalHistory

(* Every version that is replaced was in the hands of the caller who       *)
(* replaced it: no update is lost.                                         *)
THEOREM StoreNoLostUpdate == AnyCalls => NoLostUpdate
  <1>1. TypeOK /\ CopiesAreVersions /\ [AnyCall]_vars =>
            [\A e \in Admitted :
               records'[e] # records[e] =>
                   /\ <<e, records[e]>> \in copies
                   /\ records'[e].rev = records[e].rev + 1]_vars
    BY RecordStep
  <1> QED
    BY <1>1, ClientsTypeOK, CopiesVersioned, PTL DEF AnyCalls, NoLostUpdate

-----------------------------------------------------------------------------
(* One owner and idempotency key never name two executions: Create looks   *)
(* the key up in the step that binds it, and no Save changes a request.    *)
THEOREM StoreOneExecutionPerKey == AnyCalls => []OneExecutionPerKey
  <1>1. Init => OneExecutionPerKey
    BY DEF Init, StoreInit, OneExecutionPerKey, Admitted
  <1>2. TypeOK /\ CopiesAreVersions /\ OneExecutionPerKey /\ [AnyCall]_vars
            => OneExecutionPerKey'
    <2> SUFFICES ASSUME TypeOK, CopiesAreVersions, OneExecutionPerKey, [AnyCall]_vars
                 PROVE  OneExecutionPerKey'
      OBVIOUS
    <2>1. ASSUME NEW e \in Execution, NEW q \in Requests, Create(e, q)
          PROVE  OneExecutionPerKey'
      <3>1. /\ e \notin Admitted
            /\ Bound(q) = {}
            /\ records' = [records EXCEPT ![e] = NewRecord(q)]
        BY <2>1 DEF Create, Insert, CreateResult
      <3>2. NewRecord(q).request = q
        BY DEF NewRecord
      <3>3. \A f \in Admitted : \/ records[f].request.key # q.key
                                \/ records[f].request.owner # q.owner
                                \/ q.key = NoKey
        BY <3>1 DEF Bound
      <3>4. /\ records'[e] = NewRecord(q)
            /\ \A f \in Execution \ {e} : records'[f] = records[f]
        BY <3>1 DEF TypeOK, StoreTypeOK
      <3> SUFFICES ASSUME NEW f \in Admitted', NEW g \in Admitted',
                          records'[f].request.key # NoKey,
                          records'[f].request.owner = records'[g].request.owner,
                          records'[f].request.key = records'[g].request.key
                   PROVE  f = g
        BY DEF OneExecutionPerKey
      <3>5. /\ f = e \/ (f \in Admitted /\ records'[f] = records[f])
            /\ g = e \/ (g \in Admitted /\ records'[g] = records[g])
        BY <3>4 DEF Admitted
      <3> QED
        BY <3>2, <3>3, <3>4, <3>5 DEF OneExecutionPerKey
    <2>2. ASSUME ~\E e \in Execution, q \in Requests : Create(e, q)
          PROVE  OneExecutionPerKey'
      <3>1. ASSUME NEW e \in Execution \ Admitted
            PROVE  records'[e] = records[e]
        <4>1. ASSUME NEW c \in copies, Save(c[1], c[2])
              PROVE  records'[e] = records[e]
          <5>1. PICK r \in Derived(c[2]), ev \in EventType : Write(c[1], r, ev)
            BY <4>1 DEF Save
          <5> QED
            BY <5>1, <3>1, SaveStartsFromCurrent DEF Write, TypeOK, StoreTypeOK
        <4> QED
          BY <2>2, <4>1 DEF AnyCall, Read, vars, storeVars
      <3>2. Admitted' \subseteq Admitted
        BY <3>1 DEF Admitted
      <3>3. \A e \in Admitted : records'[e].request = records[e].request
        BY RecordStep
      <3> QED
        BY <3>2, <3>3 DEF OneExecutionPerKey
    <2> QED
      BY <2>1, <2>2
  <1> QED
    BY <1>1, <1>2, ClientsTypeOK, CopiesVersioned, PTL DEF AnyCalls
=============================================================================
