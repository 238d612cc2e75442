-------------------------- MODULE ExecutionClients --------------------------
(***************************************************************************)
(* The execution store with arbitrary callers: the most any user of        *)
(* execution.Store may do.  Get and ListRecoverable hand out copies, and a *)
(* caller keeps its copy for as long as it likes, across a provider call   *)
(* of minutes, before it saves a version derived from it.  `copies` is the *)
(* set of all copies still in some caller's hands.                         *)
(***************************************************************************)
EXTENDS ExecutionStore

CONSTANTS
    Requests,       \* the requests callers submit
    MaxRevision     \* bound on the versions of one record, of Spec only

ASSUME RequestsAssumption == Requests \subseteq Request
ASSUME MaxRevisionAssumption == MaxRevision \in Nat

VARIABLE copies

vars == <<records, feed, copies>>

\* What a caller may make of its copy: the next revision of the same request,
\* with at most one more attempt.
Derived(r) ==
    [status: Status, rev: {r.rev + 1}, request: {r.request},
     attempts: {r.attempts, r.attempts + 1}, cycled: BOOLEAN,
     task: Task \cup {NoTask}, cancelling: BOOLEAN, waits: BOOLEAN]

Init == StoreInit /\ copies = {}

\* Callers keep, of the copies they had and the new ones, what they like.
Hold(new) == copies' \in SUBSET (copies \cup new)

Create(e, q) == Insert(e, q) /\ Hold({<<e, NewRecord(q)>>})

\* Get and ListRecoverable: copies of current versions.
Read(S) == UNCHANGED storeVars /\ Hold({<<e, records[e]>> : e \in S})

Save(e, from) ==
    \E r \in {d \in Derived(from) : SaveResult(e, d, "none") = "ok"} :
        \E ev \in EventType : Write(e, r, ev) /\ Hold({<<e, r>>})

AnyCall ==
    \/ \E e \in Execution, q \in Requests : Create(e, q)
    \/ \E S \in SUBSET Admitted : Read(S)
    \/ \E c \in copies : Save(c[1], c[2])

\* What the proofs are about, and what ExecutionService implements.
AnyCalls == Init /\ [][AnyCall]_vars

Next ==
    \/ \E e \in Execution, q \in Requests : Create(e, q)
    \/ \E S \in SUBSET Admitted : Read(S)
    \/ \E c \in copies : c[2].rev < MaxRevision /\ Save(c[1], c[2])

Spec == Init /\ [][Next]_vars
-----------------------------------------------------------------------------
TypeOK ==
    /\ StoreTypeOK
    /\ copies \subseteq (Execution \X Record)

(* A copy is never newer than the record, and a copy with the record's     *)
(* revision is that record, every field of it: this is what makes the      *)
(* comparison of one number in Save a protection against lost updates.     *)
CopiesAreVersions ==
    \A c \in copies :
        /\ c[1] \in Admitted
        /\ c[2].rev <= records[c[1]].rev
        /\ c[2].rev = records[c[1]].rev => c[2] = records[c[1]]

(* No Save overwrites a version its caller has not read: the version it    *)
(* replaces is one of the copies in hand.                                  *)
NoLostUpdate ==
    [][\A e \in Admitted :
          records'[e] # records[e] =>
              /\ <<e, records[e]>> \in copies
              /\ records'[e].rev = records[e].rev + 1]_vars
=============================================================================
