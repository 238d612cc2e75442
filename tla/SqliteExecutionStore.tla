------------------------ MODULE SqliteExecutionStore ------------------------
(***************************************************************************)
(* One row of the SQLite execution store and the secrets it refers to      *)
(* (internal/sqlitestore/execution_store.go).  The identifier of a         *)
(* provider task is kept in the secret store, outside of the database; the *)
(* row holds a reference.  Store.Save is one transaction around calls to   *)
(* the secret store, and a read resolves the reference after it has the    *)
(* row.  ExecutionStore takes each of them for one step; here they are     *)
(* taken apart.  Every call to the secret store may fail.                  *)
(*                                                                         *)
(* The database is in WAL mode and its transactions start deferred: the    *)
(* first read takes a snapshot, and the first write fails at once when     *)
(* another connection writes or has committed since.                       *)
(***************************************************************************)
EXTENDS Naturals

CONSTANTS
    Client,         \* goroutines that use the store, each its own process
    Secret,         \* references the secret store may hand out
    NoSecret,
    MaxVersion,    \* bound on versions of the row
    MaxOther,       \* bound on commits to other rows and tables
    MaxDeaths       \* bound on crashes

ASSUME SecretAssumption == NoSecret \notin Secret
ASSUME BoundsAssumption ==
    MaxVersion \in Nat \ {0} /\ MaxOther \in Nat /\ MaxDeaths \in Nat

VARIABLES
    row,        \* the committed row
    secrets,    \* references that resolve
    undeleted,  \* history: those the secret store failed to delete
    client,     \* what every client is doing
    commits,    \* commits to the database so far
    writer,     \* who holds the write lock
    other,      \* commits of other repositories so far
    deaths

sqliteVars == <<row, secrets, undeleted, client, commits, writer, other, deaths>>

Row == [rev: 1..MaxVersion, open: BOOLEAN, ref: Secret \cup {NoSecret}]

Nobody == "nobody"

ASSUME NobodyAssumption == Nobody \notin Client

\* `held` is the version last read, `wanted` the one to save, `expected` the
\* revision it replaces, `snapshot` the commits the transaction sees.
Place == {"idle", "resolve", "held", "encode", "update", "commit", "replace",
          "cleanup", "undo", "unreadable", "rejected"}

Activity == [pc: Place, held: Row, wanted: Row, expected: 1..MaxVersion,
             snapshot: Nat]

First == [rev |-> 1, open |-> TRUE, ref |-> NoSecret]
Rest == [pc |-> "idle", held |-> First, wanted |-> First, expected |-> 1,
         snapshot |-> 0]

\* The row as Create left it.
SqliteInit ==
    /\ row = First
    /\ secrets = {} /\ undeleted = {}
    /\ client = [c \in Client |-> Rest]
    /\ commits = 0 /\ writer = Nobody /\ other = 0 /\ deaths = 0

\* References are random: never one that is still written anywhere.
Fresh ==
    Secret \ (secrets \cup {row.ref}
                \cup UNION {{client[c].held.ref, client[c].wanted.ref} : c \in Client})

(* secrets.Delete, whose error both callers discard.                       *)
DeleteSecret(s) ==
    \/ secrets' = secrets \ {s} /\ UNCHANGED undeleted
    \/ s \in secrets /\ UNCHANGED secrets /\ undeleted' = undeleted \cup {s}

-----------------------------------------------------------------------------
(* Get and ListRecoverable.                                                *)

Select(c) ==
    /\ client[c].pc = "idle" /\ row.open
    /\ client' = [client EXCEPT ![c].pc = "resolve", ![c].held = row]
    /\ UNCHANGED <<row, secrets, undeleted, commits, writer, other, deaths>>

\* scanExecution: a reference that does not resolve is an error of the read,
\* and an error of the secret store itself ends it.
Resolve(c) ==
    /\ client[c].pc = "resolve"
    /\ \/ client' = [client EXCEPT ![c].pc =
                        IF client[c].held.ref \in secrets \cup {NoSecret}
                        THEN "held" ELSE "unreadable"]
       \/ client[c].held.ref # NoSecret /\ client' = [client EXCEPT ![c] = Rest]
    /\ UNCHANGED <<row, secrets, undeleted, commits, writer, other, deaths>>

\* An error ends the call; the client drops its copy.
GiveUp(c) ==
    /\ client[c].pc \in {"held", "unreadable", "rejected"}
    /\ client' = [client EXCEPT ![c] = Rest]
    /\ UNCHANGED <<row, secrets, undeleted, commits, writer, other, deaths>>

-----------------------------------------------------------------------------
(* Save.                                                                   *)

\* What orchestration makes of a version: a change beside the task, the end
\* of the execution and its task, or a task that starts.
Wanted(held) ==
    {r \in Row : /\ r.rev = held.rev + 1
                 /\ \/ r.open = held.open /\ r.ref = held.ref
                    \/ ~r.open /\ r.ref = NoSecret
                    \/ r.open = held.open /\ held.ref = NoSecret /\ r.ref \in Fresh}

Starts(c) == client[c].wanted.ref \notin {client[c].held.ref, NoSecret}

\* Faulty variant: the revision found is the revision expected.
BeginUnchecked(c) ==
    LET held == client[c].held
    IN  /\ client[c].pc = "held" /\ held.rev < MaxVersion
        /\ \E r \in Wanted(held) :
              client' = [client EXCEPT ![c] =
                  [pc |-> "encode", held |-> held, wanted |-> r,
                   expected |-> row.rev, snapshot |-> commits]]
        /\ UNCHANGED <<row, secrets, undeleted, commits, writer, other, deaths>>

\* BEGIN and the SELECT of the current row, which must have the revision the
\* caller read.  The reference a new task will get is chosen with its version.
Begin(c) ==
    LET held == client[c].held
    IN  /\ client[c].pc = "held" /\ held.rev < MaxVersion
        /\ IF row.rev # held.rev
           THEN client' = [client EXCEPT ![c] = Rest]
           ELSE \E r \in Wanted(held) :
                   client' = [client EXCEPT ![c] =
                       [pc |-> "encode", held |-> held, wanted |-> r,
                        expected |-> held.rev, snapshot |-> commits]]
        /\ UNCHANGED <<row, secrets, undeleted, commits, writer, other, deaths>>

\* ensureExecutionSecret: a new identifier is put into the secret store, one
\* with a reference is compared with what is stored under it; without a task
\* there is nothing to ask for.
Encode(c) ==
    LET j == client[c]
    IN  /\ j.pc = "encode"
        /\ \/ /\ secrets' = IF Starts(c) THEN secrets \cup {j.wanted.ref} ELSE secrets
              /\ j.wanted.ref \in secrets' \cup {NoSecret}
              /\ client' = [client EXCEPT ![c].pc = "update"]
           \/ /\ j.wanted.ref # NoSecret
              /\ UNCHANGED secrets
              /\ client' = [client EXCEPT ![c].pc = "rejected"]
        /\ UNCHANGED <<row, undeleted, commits, writer, other, deaths>>

\* Faulty variant: the replaced secret goes with the UPDATE.
UpdateAndDelete(c) ==
    LET j == client[c]
    IN  /\ j.pc = "update"
        /\ IF writer = Nobody /\ commits = j.snapshot /\ row.rev = j.expected
           THEN /\ client' = [client EXCEPT ![c].pc = "commit"]
                /\ writer' = c
                /\ secrets' = IF j.held.ref # j.wanted.ref THEN secrets \ {j.held.ref}
                              ELSE secrets
           ELSE /\ client' = [client EXCEPT ![c].pc = "cleanup"]
                /\ UNCHANGED <<writer, secrets>>
        /\ UNCHANGED <<row, undeleted, commits, other, deaths>>

\* The UPDATE: SQLite refuses it while another connection writes and after
\* another has committed, with an error that is no revision conflict.
Update(c) ==
    LET j == client[c]
    IN  /\ j.pc = "update"
        /\ IF writer = Nobody /\ commits = j.snapshot /\ row.rev = j.expected
           THEN /\ client' = [client EXCEPT ![c].pc = "commit"]
                /\ writer' = c
           ELSE /\ client' = [client EXCEPT ![c].pc = "cleanup"]
                /\ UNCHANGED writer
        /\ UNCHANGED <<row, secrets, undeleted, commits, other, deaths>>

\* The caller's context ends while the transaction is open: it is rolled back.
Rollback(c) ==
    /\ client[c].pc \in {"update", "commit"}
    /\ client' = [client EXCEPT ![c].pc = "undo"]
    /\ writer' = IF writer = c THEN Nobody ELSE writer
    /\ UNCHANGED <<row, secrets, undeleted, commits, other, deaths>>

Commit(c) ==
    /\ client[c].pc = "commit"
    /\ row' = client[c].wanted
    /\ commits' = commits + 1
    /\ writer' = Nobody
    /\ client' = [client EXCEPT ![c].pc = "replace"]
    /\ UNCHANGED <<secrets, undeleted, other, deaths>>

\* deleteReplacedExecutionSecret, then the caller goes on with its version,
\* whether the secret is gone or not.
Replace(c) ==
    LET j == client[c]
    IN  /\ j.pc = "replace"
        /\ IF j.held.ref # j.wanted.ref THEN DeleteSecret(j.held.ref)
           ELSE UNCHANGED <<secrets, undeleted>>
        /\ client' = [client EXCEPT ![c] =
                         IF j.wanted.open THEN [@ EXCEPT !.pc = "held", !.held = j.wanted]
                         ELSE Rest]
        /\ UNCHANGED <<row, commits, writer, other, deaths>>

\* Faulty variant: the cleanup runs under the context that was cancelled.
CleanupCancelled(c) ==
    /\ client[c].pc \in {"cleanup", "undo"}
    /\ client' = [client EXCEPT ![c] = IF @.pc = "undo" THEN Rest ELSE [@ EXCEPT !.pc = "rejected"]]
    /\ UNCHANGED <<row, secrets, undeleted, commits, writer, other, deaths>>

\* cleanupCreatedExecutionSecrets after any failure.
Cleanup(c) ==
    /\ client[c].pc \in {"cleanup", "undo"}
    /\ IF Starts(c) THEN DeleteSecret(client[c].wanted.ref)
       ELSE UNCHANGED <<secrets, undeleted>>
    /\ client' = [client EXCEPT ![c] = IF @.pc = "undo" THEN Rest ELSE [@ EXCEPT !.pc = "rejected"]]
    /\ UNCHANGED <<row, commits, writer, other, deaths>>

-----------------------------------------------------------------------------
\* Another repository, or another execution, commits.
OtherCommit ==
    /\ other < MaxOther /\ writer = Nobody
    /\ other' = other + 1 /\ commits' = commits + 1
    /\ UNCHANGED <<row, secrets, undeleted, client, writer, deaths>>

Crash(c) ==
    /\ deaths < MaxDeaths /\ client[c].pc # "idle"
    /\ deaths' = deaths + 1
    /\ client' = [client EXCEPT ![c] = Rest]
    /\ writer' = IF writer = c THEN Nobody ELSE writer
    /\ UNCHANGED <<row, secrets, undeleted, commits, other>>

SqliteNext ==
    \/ \E c \in Client : \/ Select(c) \/ Resolve(c) \/ GiveUp(c) \/ Begin(c) \/ Encode(c)
                         \/ Update(c) \/ Rollback(c) \/ Commit(c) \/ Replace(c)
                         \/ Cleanup(c) \/ Crash(c)
    \/ OtherCommit

SqliteSpec == SqliteInit /\ [][SqliteNext]_sqliteVars
-----------------------------------------------------------------------------
SqliteRowTypeOK ==
    /\ row \in Row
    /\ secrets \subseteq Secret /\ undeleted \subseteq Secret
    /\ client \in [Client -> Activity]
    /\ commits \in Nat
    /\ writer \in Client \cup {Nobody}
    /\ other \in 0..MaxOther
    /\ deaths \in 0..MaxDeaths

(* The reference of the committed row always resolves, also after a crash, *)
(* a rolled-back transaction or a lost race (deleteReplacedExecutionSecret *)
(* "removes an old protected value only after its SQL reference was        *)
(* committed away").                                                       *)
NoDanglingReference == row.ref \in secrets \cup {NoSecret}

(* When nobody is at work and nobody crashed, the secret store holds what  *)
(* the row refers to and what it failed to delete when it was asked to,    *)
(* nothing else: no path of Save forgets a secret it put or replaced       *)
(* (cleanupCreatedExecutionSecrets, deleteReplacedExecutionSecret).  What  *)
(* a failed deletion leaves stays for ever: the error is discarded, and    *)
(* nobody asks again.                                                      *)
NoOrphanSecrets ==
    deaths = 0 /\ (\A c \in Client : client[c].pc \in {"idle", "held", "rejected"})
        => secrets \subseteq {row.ref} \cup undeleted

(* A commit replaces the very version its caller had read, although the    *)
(* check and the write are separate statements (Save).                     *)
NoLostCommit ==
    [][row' # row => \E c \in Client : client[c].pc = "commit" /\ client[c].held = row]_sqliteVars

(* A read fails to find its secret only for a row that is no longer the    *)
(* current one: the secret of the current row is never taken from under a  *)
(* reader, so a reader that tries again finds it (scanExecution, which     *)
(* resolves the handle after it has the row).                              *)
ReadFailsOnlyWhenReplaced ==
    \A c \in Client : client[c].pc = "unreadable" => client[c].held # row
=============================================================================
