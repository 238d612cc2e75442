--------------------- MODULE SqliteExecutionStoreProofs ---------------------
(***************************************************************************)
(* Proofs about one row of the SQLite store and its secrets, for any       *)
(* number of clients and references.  Secrets are put before and deleted   *)
(* after the commit that concerns them, by clients that know nothing of    *)
(* each other; what protects a secret is that its reference is either      *)
(* still private to the client that made it, or in the current row, or     *)
(* replaced for good, and that a transaction that has not lost yet started *)
(* from the current row.                                                   *)
(***************************************************************************)
EXTENDS SqliteExecutionStore, TLAPS

(* A version in a client's hands is one the row once had; the revision     *)
(* identifies it.                                                          *)
Versions ==
    /\ row.rev = 1 => row = First
    /\ \A c \in Client :
          /\ client[c].held.rev <= row.rev
          /\ client[c].held.rev = row.rev => client[c].held = row

(* A transaction no other has overtaken started from the current row.      *)
Transactions ==
    \A c \in Client : client[c].pc \in {"encode", "update", "commit"} =>
        /\ client[c].snapshot <= commits
        /\ client[c].wanted.rev = client[c].held.rev + 1
        /\ client[c].snapshot = commits => client[c].held = row

(* Whoever is about to commit holds the write lock, and nobody has         *)
(* committed since its transaction began.                                  *)
Writing ==
    \A c \in Client : client[c].pc = "commit" =>
        writer = c /\ client[c].snapshot = commits

(* A reference that is about to be deleted has left the row for good.      *)
Replacing ==
    \A c \in Client : client[c].pc = "replace" =>
        /\ client[c].wanted.rev <= row.rev
        /\ client[c].wanted.rev = row.rev => client[c].wanted = row
        /\ client[c].held.ref \notin {NoSecret, client[c].wanted.ref}
               => client[c].held.ref # row.ref

Creating(c) ==
    /\ client[c].pc \in {"encode", "update", "commit", "cleanup", "undo"}
    /\ Starts(c)

(* A new reference is its client's own until the commit.                   *)
Created ==
    \A c \in Client : Creating(c) =>
        /\ client[c].wanted.ref # row.ref
        /\ \A d \in Client \ {c} :
              /\ client[c].wanted.ref # client[d].held.ref
              /\ client[c].wanted.ref # client[d].wanted.ref

(* The references of the row, and of the row to come, resolve.             *)
Stored ==
    /\ NoDanglingReference
    /\ \A c \in Client :
          client[c].pc \in {"update", "commit"} /\ client[c].snapshot = commits
              => client[c].wanted.ref \in secrets \cup {NoSecret}

\* Client c is going to commit or to delete reference s.
Owns(c, s) ==
    \/ /\ client[c].pc \in {"update", "commit", "cleanup", "undo"}
       /\ Starts(c) /\ client[c].wanted.ref = s
    \/ /\ client[c].pc = "replace"
       /\ client[c].held.ref = s /\ client[c].wanted.ref # s

(* Unless a client died, somebody is going to take care of every other     *)
(* secret, or tried to and was refused.                                    *)
Owned ==
    deaths = 0 =>
        \A s \in secrets \ ({row.ref} \cup undeleted) : \E c \in Client : Owns(c, s)

IInv ==
    /\ Versions /\ Transactions /\ Writing /\ Replacing /\ Created /\ Stored
    /\ Owned /\ ReadFailsOnlyWhenReplaced

-----------------------------------------------------------------------------
(* Type correctness of the row, the secrets and the clients' transactions. *)
THEOREM SqliteTypeOK == SqliteSpec => []SqliteRowTypeOK
  <1> USE SecretAssumption, BoundsAssumption
  <1>1. SqliteInit => SqliteRowTypeOK
    BY DEF SqliteInit, SqliteRowTypeOK, First, Rest, Row, Activity, Place
  <1>2. SqliteRowTypeOK /\ [SqliteNext]_sqliteVars => SqliteRowTypeOK'
    <2> SUFFICES ASSUME SqliteRowTypeOK, [SqliteNext]_sqliteVars PROVE SqliteRowTypeOK'
      OBVIOUS
    <2> USE DEF SqliteRowTypeOK, Activity, Place
    <2>0. Rest \in Activity
      BY DEF Rest, First, Row
    <2>1. ASSUME NEW c \in Client, Select(c) PROVE SqliteRowTypeOK'
      BY <2>1 DEF Select
    <2>2. ASSUME NEW c \in Client, Resolve(c) PROVE SqliteRowTypeOK'
      BY <2>0, <2>2 DEF Resolve
    <2>3. ASSUME NEW c \in Client, GiveUp(c) PROVE SqliteRowTypeOK'
      BY <2>0, <2>3 DEF GiveUp
    <2>4. ASSUME NEW c \in Client, Begin(c) PROVE SqliteRowTypeOK'
      <3>1. CASE row.rev # client[c].held.rev
        BY <2>0, <2>4, <3>1 DEF Begin
      <3>2. CASE row.rev = client[c].held.rev
        <4>1. PICK r \in Row : client' = [client EXCEPT ![c] =
                  [pc |-> "encode", held |-> client[c].held, wanted |-> r,
                   expected |-> client[c].held.rev, snapshot |-> commits]]
          BY <2>4, <3>2 DEF Begin, Wanted
        <4>2. client[c].held.rev \in 1..MaxVersion
          BY DEF Row
        <4> QED
          BY <2>4, <4>1, <4>2 DEF Begin
      <3> QED
        BY <3>1, <3>2
    <2>5. ASSUME NEW c \in Client, Encode(c) PROVE SqliteRowTypeOK'
      BY <2>5 DEF Encode, Starts, Row
    <2>6. ASSUME NEW c \in Client, Update(c) PROVE SqliteRowTypeOK'
      BY <2>6 DEF Update
    <2>7. ASSUME NEW c \in Client, Rollback(c) PROVE SqliteRowTypeOK'
      BY <2>7 DEF Rollback
    <2>8. ASSUME NEW c \in Client, Commit(c) PROVE SqliteRowTypeOK'
      BY <2>8 DEF Commit
    <2>9. ASSUME NEW c \in Client, Replace(c) PROVE SqliteRowTypeOK'
      <3>1. client[c].wanted \in Row
        OBVIOUS
      <3>2. [client[c] EXCEPT !.pc = "held", !.held = client[c].wanted]
                \in Activity
        BY <3>1
      <3> QED
        BY <2>0, <2>9, <3>2 DEF Replace, DeleteSecret
    <2>10. ASSUME NEW c \in Client, Cleanup(c) PROVE SqliteRowTypeOK'
      BY <2>0, <2>10 DEF Cleanup, DeleteSecret, Starts
    <2>11. ASSUME NEW c \in Client, Crash(c) PROVE SqliteRowTypeOK'
      BY <2>0, <2>11 DEF Crash
    <2>12. ASSUME OtherCommit PROVE SqliteRowTypeOK'
      BY <2>12 DEF OtherCommit
    <2>13. ASSUME UNCHANGED sqliteVars PROVE SqliteRowTypeOK'
      BY <2>13 DEF sqliteVars
    <2> QED
      BY <2>1, <2>2, <2>3, <2>4, <2>5, <2>6, <2>7, <2>8, <2>9, <2>10, <2>11,
         <2>12, <2>13 DEF SqliteNext
  <1> QED
    BY <1>1, <1>2, PTL DEF SqliteSpec

(* The inductive invariant: Replacing, Created and Stored protect the      *)
(* secrets, Versions, Transactions and Writing the row, Owned the cleanup. *)
THEOREM SqliteInvariant == SqliteSpec => [](SqliteRowTypeOK /\ IInv)
  <1> USE SecretAssumption, BoundsAssumption, NobodyAssumption
  <1>1. SqliteInit => IInv
    <2> SUFFICES ASSUME SqliteInit PROVE IInv
      OBVIOUS
    <2>1. row = First /\ First.rev = 1 /\ First.ref = NoSecret
      BY DEF SqliteInit, First
    <2>2. \A c \in Client : client[c].pc = "idle" /\ client[c].held = First
      BY DEF SqliteInit, Rest
    <2>3. secrets = {}
      BY DEF SqliteInit
    <2> QED
      BY <2>1, <2>2, <2>3 DEF IInv, Versions, Transactions, Writing,
         Replacing, Created, Creating, Stored, NoDanglingReference, Owned,
         ReadFailsOnlyWhenReplaced
  <1>2. SqliteRowTypeOK /\ SqliteRowTypeOK' /\ IInv /\ [SqliteNext]_sqliteVars => IInv'
    <2> SUFFICES ASSUME SqliteRowTypeOK, SqliteRowTypeOK', IInv, [SqliteNext]_sqliteVars PROVE IInv'
      OBVIOUS
    <2> USE DEF SqliteRowTypeOK, Activity, IInv
    <2>1. ASSUME NEW c \in Client, Select(c) PROVE IInv'
      <3>1. \A d \in Client \ {c} : client'[d] = client[d]
        BY <2>1 DEF Select
      <3>2. /\ client'[c].pc = "resolve"
            /\ client'[c].held = row
            /\ client'[c].wanted = client[c].wanted
        BY <2>1 DEF Select
      <3>3. UNCHANGED <<row, secrets, undeleted, commits, writer, deaths>>
        BY <2>1 DEF Select
      <3>4. Versions'
        BY <2>1, <3>1, <3>2, <3>3 DEF Select, Versions, Row
      <3>5. Transactions'
        BY <2>1, <3>1, <3>2, <3>3 DEF Select, Transactions
      <3>6. Writing'
        BY <2>1, <3>1, <3>2, <3>3 DEF Select, Writing
      <3>7. Replacing'
        BY <2>1, <3>1, <3>2, <3>3 DEF Select, Replacing
      <3>8. Created'
        BY <3>1, <3>2, <3>3 DEF Created, Creating, Starts
      <3>9. Stored'
        BY <2>1, <3>1, <3>2, <3>3 DEF Select, Stored, NoDanglingReference
      <3>10. Owned'
        BY <2>1, <3>1, <3>2, <3>3 DEF Select, Owned, Owns, Starts
      <3>11. ReadFailsOnlyWhenReplaced'
        BY <2>1, <3>1, <3>2, <3>3 DEF Select, ReadFailsOnlyWhenReplaced
      <3> QED
        BY <3>4, <3>5, <3>6, <3>7, <3>8, <3>9, <3>10, <3>11
    <2>2. ASSUME NEW c \in Client, Resolve(c) PROVE IInv'
      <3>1. \A d \in Client \ {c} : client'[d] = client[d]
        BY <2>2 DEF Resolve
      <3>2. \/ client'[c] = Rest
            \/ /\ client'[c].pc \in {"held", "unreadable"}
               /\ client'[c].held = client[c].held
               /\ client'[c].wanted = client[c].wanted
               /\ client'[c].snapshot = client[c].snapshot
        BY <2>2 DEF Resolve
      <3>3. /\ Rest.pc = "idle" /\ Rest.held = First /\ Rest.wanted = First
            /\ First.rev = 1 /\ First.ref = NoSecret
        BY DEF Rest, First
      <3>4. UNCHANGED <<row, secrets, undeleted, commits, writer, deaths>>
        BY <2>2 DEF Resolve
      <3>5. Versions'
        BY <2>2, <3>1, <3>2, <3>3, <3>4 DEF Resolve, Versions, Row
      <3>6. Transactions'
        BY <2>2, <3>1, <3>2, <3>3, <3>4 DEF Resolve, Transactions
      <3>7. Writing'
        BY <2>2, <3>1, <3>2, <3>3, <3>4 DEF Resolve, Writing
      <3>8. Replacing'
        BY <2>2, <3>1, <3>2, <3>3, <3>4 DEF Resolve, Replacing
      <3>9. Created'
        BY <3>1, <3>2, <3>3, <3>4 DEF Created, Creating, Starts
      <3>10. Stored'
        BY <2>2, <3>1, <3>2, <3>3, <3>4 DEF Resolve, Stored,
           NoDanglingReference
      <3>11. Owned'
        BY <2>2, <3>1, <3>2, <3>3, <3>4 DEF Resolve, Owned, Owns, Starts
      <3>12. ReadFailsOnlyWhenReplaced'
        BY <2>2, <3>1, <3>2, <3>3, <3>4 DEF Resolve,
           ReadFailsOnlyWhenReplaced, Stored, NoDanglingReference, Versions
      <3> QED
        BY <3>5, <3>6, <3>7, <3>8, <3>9, <3>10, <3>11, <3>12
    <2>3. ASSUME NEW c \in Client, GiveUp(c) PROVE IInv'
      <3>1. \A d \in Client \ {c} : client'[d] = client[d]
        BY <2>3 DEF GiveUp
      <3>2. Versions'
        BY <2>3, <3>1 DEF GiveUp, Rest, First, Versions, Row
      <3>3. Transactions'
        BY <2>3, <3>1 DEF GiveUp, Rest, First, Transactions
      <3>4. Writing'
        BY <2>3, <3>1 DEF GiveUp, Rest, First, Writing
      <3>5. Replacing'
        BY <2>3, <3>1 DEF GiveUp, Rest, First, Replacing
      <3>6. Created'
        BY <2>3, <3>1 DEF GiveUp, Rest, First, Created, Creating, Starts
      <3>7. Stored'
        BY <2>3, <3>1 DEF GiveUp, Rest, First, Stored, NoDanglingReference
      <3>8. Owned'
        BY <2>3, <3>1 DEF GiveUp, Rest, First, Owned, Owns, Starts
      <3>9. ReadFailsOnlyWhenReplaced'
        BY <2>3, <3>1 DEF GiveUp, Rest, First, ReadFailsOnlyWhenReplaced
      <3> QED
        BY <3>2, <3>3, <3>4, <3>5, <3>6, <3>7, <3>8, <3>9
    <2>4. ASSUME NEW c \in Client, Begin(c) PROVE IInv'
      <3>1. \A d \in Client \ {c} : client'[d] = client[d]
        BY <2>4 DEF Begin
      <3>2. \/ client'[c] = Rest
            \/ /\ client[c].held = row
               /\ client'[c].pc = "encode"
               /\ client'[c].held = row
               /\ client'[c].wanted.rev = row.rev + 1
               /\ client'[c].snapshot = commits
        BY <2>4 DEF Begin, Wanted, Versions
      <3>3. UNCHANGED <<row, secrets, undeleted, commits, writer, deaths>>
        BY <2>4 DEF Begin
      <3>4. Versions'
        BY <2>4, <3>1, <3>2, <3>3 DEF Begin, Rest, First, Wanted, Fresh,
           Versions, Row
      <3>5. Transactions'
        BY <3>1, <3>2, <3>3 DEF Transactions, Versions, Writing, Row, Rest,
           First
      <3>6. Writing'
        BY <2>4, <3>1, <3>2, <3>3 DEF Begin, Rest, First, Wanted, Fresh,
           Writing
      <3>7. Replacing'
        BY <2>4, <3>1, <3>2, <3>3 DEF Begin, Rest, First, Wanted, Fresh,
           Replacing
      <3>8. Created'
        <4>1. CASE client'[c] = Rest
          <5>1. Rest.pc = "idle" /\ Rest.held.ref = NoSecret /\ Rest.wanted.ref = NoSecret
            BY DEF Rest, First
          <5> QED
            BY <3>1, <3>3, <4>1, <5>1 DEF Created, Creating, Starts
        <4>2. ASSUME NEW r \in Wanted(client[c].held),
                     client' = [client EXCEPT ![c] =
                       [pc |-> "encode", held |-> client[c].held, wanted |-> r,
                        expected |-> client[c].held.rev, snapshot |-> commits]]
              PROVE  Created'
          <5>1. r.ref \in {client[c].held.ref, NoSecret} \cup Fresh
            BY DEF Wanted
          <5>2. client'[c].held = client[c].held /\ client'[c].wanted = r
            BY <4>2
          <5>3. ASSUME r.ref \in Fresh
                PROVE  /\ r.ref # row.ref
                       /\ \A d \in Client : r.ref # client[d].held.ref /\ r.ref # client[d].wanted.ref
            BY <5>3 DEF Fresh
          <5>4. \A d \in Client \ {c} : Creating(d) =>
                    client[d].wanted.ref \notin {client[c].held.ref, NoSecret}
            BY DEF Created, Creating, Starts
          <5> QED
            BY <3>1, <3>3, <5>1, <5>2, <5>3, <5>4 DEF Created, Creating, Starts
        <4> QED
          BY <2>4, <4>1, <4>2 DEF Begin
      <3>9. Stored'
        BY <2>4, <3>1, <3>2, <3>3 DEF Begin, Rest, First, Wanted, Fresh,
           Stored, NoDanglingReference
      <3>10. Owned'
        BY <2>4, <3>1, <3>2, <3>3 DEF Begin, Rest, First, Wanted, Fresh,
           Owned, Owns, Starts
      <3>11. ReadFailsOnlyWhenReplaced'
        BY <2>4, <3>1, <3>2, <3>3 DEF Begin, Rest, First, Wanted, Fresh,
           ReadFailsOnlyWhenReplaced
      <3> QED
        BY <3>4, <3>5, <3>6, <3>7, <3>8, <3>9, <3>10, <3>11
    <2>5. ASSUME NEW c \in Client, Encode(c) PROVE IInv'
      <3>1. \A d \in Client \ {c} : client'[d] = client[d]
        BY <2>5 DEF Encode
      <3>2. /\ client[c].pc = "encode"
            /\ client'[c].pc \in {"update", "rejected"}
        BY <2>5 DEF Encode
      <3>3. /\ client'[c].held = client[c].held
            /\ client'[c].wanted = client[c].wanted
            /\ client'[c].snapshot = client[c].snapshot
        BY <2>5 DEF Encode
      <3>4. client'[c].pc = "update"
                => client[c].wanted.ref \in secrets' \cup {NoSecret}
        BY <2>5 DEF Encode
      <3>5. UNCHANGED <<row, undeleted, commits, writer, deaths>>
        BY <2>5 DEF Encode
      <3>6. \/ /\ client'[c].pc = "update"
               /\ secrets' = IF Starts(c) THEN secrets \cup {client[c].wanted.ref}
                             ELSE secrets
            \/ client'[c].pc = "rejected" /\ UNCHANGED secrets
        BY <2>5 DEF Encode
      <3>7. Versions'
        BY <3>1, <3>3, <3>5 DEF Versions
      <3>8. Transactions'
        BY <3>1, <3>2, <3>3, <3>5 DEF Transactions
      <3>9. Writing'
        BY <2>5, <3>1, <3>2, <3>3, <3>4, <3>5, <3>6 DEF Encode, Starts,
           Writing
      <3>10. Replacing'
        BY <3>1, <3>2, <3>3, <3>5 DEF Replacing, Row
      <3>11. Created'
        BY <3>1, <3>2, <3>3, <3>5 DEF Created, Creating, Starts
      <3>12. Stored'
        BY <3>1, <3>2, <3>3, <3>4, <3>5, <3>6 DEF Stored, NoDanglingReference,
           Created, Creating, Starts, Replacing, Transactions, Writing,
           Versions
      <3>13. Owned'
        BY <3>1, <3>2, <3>3, <3>4, <3>5, <3>6 DEF Owned, Owns, Starts,
           Transactions, Writing, Created, Creating
      <3>14. ReadFailsOnlyWhenReplaced'
        BY <2>5, <3>1, <3>2, <3>3, <3>4, <3>5, <3>6 DEF Encode, Starts,
           ReadFailsOnlyWhenReplaced
      <3> QED
        BY <3>7, <3>8, <3>9, <3>10, <3>11, <3>12, <3>13, <3>14
    <2>6. ASSUME NEW c \in Client, Update(c) PROVE IInv'
      <3>1. \A d \in Client \ {c} : client'[d] = client[d]
        BY <2>6 DEF Update
      <3>2. client'[c].pc \in {"commit", "cleanup"}
        BY <2>6 DEF Update
      <3>3. /\ client'[c].held = client[c].held
            /\ client'[c].wanted = client[c].wanted
            /\ client'[c].snapshot = client[c].snapshot
        BY <2>6 DEF Update
      <3>4. Versions'
        BY <2>6, <3>1, <3>2, <3>3 DEF Update, Versions, Row
      <3>5. Transactions'
        BY <2>6, <3>1, <3>2, <3>3 DEF Update, Transactions
      <3>6. Writing'
        BY <2>6, <3>1, <3>2, <3>3 DEF Update, Writing
      <3>7. Replacing'
        BY <2>6, <3>1, <3>2, <3>3 DEF Update, Replacing
      <3>8. Created'
        BY <2>6, <3>1, <3>2, <3>3 DEF Update, Created, Creating, Starts
      <3>9. Stored'
        BY <2>6, <3>1, <3>2, <3>3 DEF Update, Stored, NoDanglingReference
      <3>10. Owned'
        BY <2>6, <3>1, <3>2, <3>3 DEF Update, Owned, Owns, Starts
      <3>11. ReadFailsOnlyWhenReplaced'
        BY <2>6, <3>1, <3>2, <3>3 DEF Update, ReadFailsOnlyWhenReplaced
      <3> QED
        BY <3>4, <3>5, <3>6, <3>7, <3>8, <3>9, <3>10, <3>11
    <2>7. ASSUME NEW c \in Client, Rollback(c) PROVE IInv'
      <3>1. \A d \in Client \ {c} : client'[d] = client[d]
        BY <2>7 DEF Rollback
      <3>2. Versions'
        BY <2>7, <3>1 DEF Rollback, Versions, Row
      <3>3. Transactions'
        BY <2>7, <3>1 DEF Rollback, Transactions
      <3>4. Writing'
        BY <2>7, <3>1 DEF Rollback, Writing
      <3>5. Replacing'
        BY <2>7, <3>1 DEF Rollback, Replacing
      <3>6. Created'
        BY <2>7, <3>1 DEF Rollback, Created, Creating, Starts
      <3>7. Stored'
        BY <2>7, <3>1 DEF Rollback, Stored, NoDanglingReference
      <3>8. Owned'
        BY <2>7, <3>1 DEF Rollback, Owned, Owns, Starts
      <3>9. ReadFailsOnlyWhenReplaced'
        BY <2>7, <3>1 DEF Rollback, ReadFailsOnlyWhenReplaced
      <3> QED
        BY <3>2, <3>3, <3>4, <3>5, <3>6, <3>7, <3>8, <3>9
    <2>8. ASSUME NEW c \in Client, Commit(c) PROVE IInv'
      <3>1. \A d \in Client \ {c} : client'[d] = client[d]
        BY <2>8 DEF Commit
      <3>2. /\ client[c].held = row
            /\ row' = client[c].wanted
            /\ row'.rev = row.rev + 1
            /\ row'.rev # 1
        BY <2>8 DEF Commit, Transactions, Writing, Row
      <3>3. /\ client[c].pc = "commit"
            /\ client'[c].pc = "replace"
        BY <2>8 DEF Commit
      <3>4. /\ client'[c].held = client[c].held
            /\ client'[c].wanted = client[c].wanted
            /\ client'[c].snapshot = client[c].snapshot
        BY <2>8 DEF Commit
      <3>5. /\ UNCHANGED <<secrets, undeleted, deaths>>
            /\ commits' = commits + 1
        BY <2>8 DEF Commit
      <3>6. /\ client[c].snapshot = commits
            /\ \A d \in Client \ {c} : client[d].pc # "commit"
        BY <2>8 DEF Commit, Writing
      <3>7. Versions'
        BY <2>8, <3>1, <3>2, <3>3, <3>4, <3>5, <3>6 DEF Commit, Versions, Row
      <3>8. Transactions'
        BY <2>8, <3>1, <3>2, <3>3, <3>4, <3>5, <3>6 DEF Commit, Transactions
      <3>9. Writing'
        BY <2>8, <3>1, <3>2, <3>3, <3>4, <3>5, <3>6 DEF Commit, Writing
      <3>10. Replacing'
        BY <3>1, <3>2, <3>3, <3>4, <3>5, <3>6 DEF Replacing, Created,
           Creating, Starts, Transactions, Writing, Versions, Row
      <3>11. Created'
        BY <2>8, <3>1, <3>2, <3>3, <3>4, <3>5, <3>6 DEF Commit, Created,
           Creating, Starts
      <3>12. Stored'
        BY <2>8, <3>1, <3>2, <3>3, <3>4, <3>5, <3>6 DEF Commit, Stored,
           NoDanglingReference, Created, Creating, Starts, Replacing,
           Transactions, Writing, Versions
      <3>13. Owned'
        BY <2>8, <3>1, <3>2, <3>3, <3>4, <3>5, <3>6 DEF Commit, Owned, Owns,
           Starts
      <3>14. ReadFailsOnlyWhenReplaced'
        BY <3>1, <3>2, <3>3, <3>4, <3>5, <3>6 DEF ReadFailsOnlyWhenReplaced,
           Stored, NoDanglingReference, Versions, Transactions, Writing, Row
      <3> QED
        BY <3>7, <3>8, <3>9, <3>10, <3>11, <3>12, <3>13, <3>14
    <2>9. ASSUME NEW c \in Client, Replace(c) PROVE IInv'
      <3>1. \A d \in Client \ {c} : client'[d] = client[d]
        BY <2>9 DEF Replace
      <3>2. Versions'
        BY <2>9, <3>1 DEF Replace, DeleteSecret, Rest, First, Versions, Transactions,
           Writing, Replacing, Row
      <3>3. Transactions'
        BY <2>9, <3>1 DEF Replace, DeleteSecret, Rest, First, Transactions
      <3>4. Writing'
        BY <2>9, <3>1 DEF Replace, DeleteSecret, Rest, First, Writing
      <3>5. Replacing'
        BY <2>9, <3>1 DEF Replace, DeleteSecret, Rest, First, Replacing
      <3>6. Created'
        BY <2>9, <3>1 DEF Replace, DeleteSecret, Rest, First, Created, Creating, Starts
      <3>7. Stored'
        BY <2>9, <3>1 DEF Replace, DeleteSecret, Rest, First, Stored, NoDanglingReference,
           Created, Creating, Starts, Replacing, Transactions, Writing,
           Versions
      <3>8. Owned'
        BY <2>9, <3>1 DEF Replace, DeleteSecret, Rest, First, Owned, Owns, Starts
      <3>9. ReadFailsOnlyWhenReplaced'
        BY <2>9, <3>1 DEF Replace, DeleteSecret, Rest, First, ReadFailsOnlyWhenReplaced
      <3> QED
        BY <3>2, <3>3, <3>4, <3>5, <3>6, <3>7, <3>8, <3>9
    <2>10. ASSUME NEW c \in Client, Cleanup(c) PROVE IInv'
      <3>1. \A d \in Client \ {c} : client'[d] = client[d]
        BY <2>10 DEF Cleanup
      <3>2. Versions'
        BY <2>10, <3>1 DEF Cleanup, DeleteSecret, Rest, First, Starts, Versions, Row
      <3>3. Transactions'
        BY <2>10, <3>1 DEF Cleanup, DeleteSecret, Rest, First, Starts, Transactions
      <3>4. Writing'
        BY <2>10, <3>1 DEF Cleanup, DeleteSecret, Rest, First, Starts, Writing
      <3>5. Replacing'
        BY <2>10, <3>1 DEF Cleanup, DeleteSecret, Rest, First, Starts, Replacing
      <3>6. Created'
        BY <2>10, <3>1 DEF Cleanup, DeleteSecret, Rest, First, Starts, Created, Creating
      <3>7. Stored'
        BY <2>10, <3>1 DEF Cleanup, DeleteSecret, Rest, First, Starts, Stored,
           NoDanglingReference, Created, Creating
      <3>8. Owned'
        BY <2>10, <3>1 DEF Cleanup, DeleteSecret, Rest, First, Starts, Owned, Owns
      <3>9. ReadFailsOnlyWhenReplaced'
        BY <2>10, <3>1 DEF Cleanup, DeleteSecret, Rest, First, Starts,
           ReadFailsOnlyWhenReplaced
      <3> QED
        BY <3>2, <3>3, <3>4, <3>5, <3>6, <3>7, <3>8, <3>9
    <2>11. ASSUME NEW c \in Client, Crash(c) PROVE IInv'
      <3>1. \A d \in Client \ {c} : client'[d] = client[d]
        BY <2>11 DEF Crash
      <3>2. Versions'
        BY <2>11, <3>1 DEF Crash, Rest, First, Versions, Row
      <3>3. Transactions'
        BY <2>11, <3>1 DEF Crash, Rest, First, Transactions
      <3>4. Writing'
        BY <2>11, <3>1 DEF Crash, Rest, First, Writing
      <3>5. Replacing'
        BY <2>11, <3>1 DEF Crash, Rest, First, Replacing
      <3>6. Created'
        BY <2>11, <3>1 DEF Crash, Rest, First, Created, Creating, Starts
      <3>7. Stored'
        BY <2>11, <3>1 DEF Crash, Rest, First, Stored, NoDanglingReference
      <3>8. Owned'
        BY <2>11, <3>1 DEF Crash, Rest, First, Owned, Owns, Starts
      <3>9. ReadFailsOnlyWhenReplaced'
        BY <2>11, <3>1 DEF Crash, Rest, First, ReadFailsOnlyWhenReplaced
      <3> QED
        BY <3>2, <3>3, <3>4, <3>5, <3>6, <3>7, <3>8, <3>9
    <2>12. ASSUME OtherCommit PROVE IInv'
      BY <2>12 DEF OtherCommit, Versions, Transactions, Writing, Replacing,
         Created, Creating, Stored, NoDanglingReference, Owned, Owns, Starts,
         ReadFailsOnlyWhenReplaced
    <2>13. ASSUME UNCHANGED sqliteVars PROVE IInv'
      BY <2>13 DEF sqliteVars, Versions, Transactions, Writing, Replacing, Created,
         Creating, Stored, NoDanglingReference, Owned, Owns, Starts,
         ReadFailsOnlyWhenReplaced
    <2> QED
      BY <2>1, <2>2, <2>3, <2>4, <2>5, <2>6, <2>7, <2>8, <2>9, <2>10, <2>11,
         <2>12, <2>13 DEF SqliteNext
  <1> QED
    BY <1>1, <1>2, SqliteTypeOK, PTL DEF SqliteSpec

(* The task identifier of the committed row resolves in every state:       *)
(* crashes, rollbacks and lost races never delete a secret the row needs,  *)
(* nor commit a reference before its secret (Save).                        *)
THEOREM SqliteNoDanglingReference == SqliteSpec => []NoDanglingReference
  <1>1. IInv => NoDanglingReference
    BY DEF IInv, Stored
  <1> QED
    BY <1>1, SqliteInvariant, PTL

(* As long as no process dies, whoever puts a secret or replaces one asks  *)
(* the secret store to delete it once no row will refer to it, so that     *)
(* only what the store failed to delete is left over                       *)
(* (cleanupCreatedExecutionSecrets, deleteReplacedExecutionSecret).        *)
THEOREM SqliteNoOrphanSecrets == SqliteSpec => []NoOrphanSecrets
  <1>1. IInv => NoOrphanSecrets
    BY DEF IInv, Owned, Owns, NoOrphanSecrets
  <1> QED
    BY <1>1, SqliteInvariant, PTL

(* A read that cannot resolve its reference has read a row that is no      *)
(* longer current (scanExecution).                                         *)
THEOREM SqliteReadFailsOnlyWhenReplaced == SqliteSpec => []ReadFailsOnlyWhenReplaced
  <1>1. IInv => ReadFailsOnlyWhenReplaced
    BY DEF IInv
  <1> QED
    BY <1>1, SqliteInvariant, PTL

(* A commit replaces the version its client had read, although the check   *)
(* of the revision and the UPDATE are separate statements (Save).          *)
THEOREM SqliteNoLostUpdate == SqliteSpec => NoLostCommit
  <1>1. SqliteRowTypeOK /\ IInv /\ [SqliteNext]_sqliteVars
           => [row' # row => \E c \in Client :
                  client[c].pc = "commit" /\ client[c].held = row]_sqliteVars
    <2> SUFFICES ASSUME IInv, SqliteNext, row' # row
                 PROVE  \E c \in Client :
                            client[c].pc = "commit" /\ client[c].held = row
      OBVIOUS
    <2>1. PICK c \in Client : Commit(c)
      BY DEF SqliteNext, Select, Resolve, GiveUp, Begin, Encode, Update, Rollback,
             Replace, Cleanup, Crash, OtherCommit
    <2> QED
      BY <2>1 DEF Commit, IInv, Transactions, Writing
  <1> QED
    BY <1>1, SqliteInvariant, PTL DEF SqliteSpec, NoLostCommit
=============================================================================
