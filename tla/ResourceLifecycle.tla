------------------------- MODULE ResourceLifecycle -------------------------
(***************************************************************************)
(* Router resources (internal/resource, internal/sqlitestore): the calls   *)
(* that create, materialize, delete and expire them, over the four places  *)
(* their parts are kept: metadata rows and provider bindings in SQLite,    *)
(* bytes in the object store, handles in the secret store and assets at    *)
(* the provider.  No transaction spans two of them, so every call is a     *)
(* sequence of steps; any step may fail, and the process may die between   *)
(* two of them.                                                            *)
(***************************************************************************)
EXTENDS Naturals, Sequences, FiniteSets, FiniteSetsExt, SequencesExt

CONSTANTS
    Resource,
    Media,          \* resources whose kind has parsed metadata
    Lasting,        \* resources of persistent retention
    Handled,        \* resources a plan materializes as a provider handle
    Size, Quota,    \* MaxReadyBytes
    Call,           \* concurrent calls
    Upload          \* bounds the provider uploads, in the order of binding ids

ASSUME ResourceAssumption ==
    IsFiniteSet(Resource) /\ Media \subseteq Resource /\ Lasting \subseteq Resource /\ Handled \subseteq Resource
ASSUME SizeAssumption == Size \in [Resource -> Nat \ {0}] /\ Quota \in Nat
ASSUME UploadAssumption == Upload \subseteq Nat

VARIABLES
    row,            \* router_resources
    objects,        \* resources whose object key exists
    source,         \* the resource an upload was made for
    assets,         \* uploads the provider holds
    secrets,        \* uploads whose handle is protected
    bindings,       \* provider_asset_bindings
    elapsed,        \* resources past their expiry
    lapsed,         \* uploads past the expiry the provider gave them
    call,
    lost            \* a process died, or an ignored step failed

stores == <<row, objects, source, assets, secrets, bindings>>
clock == <<elapsed, lapsed>>
vars == <<stores, clock, call, lost>>

NoResource == "none"
ASSUME NoResourceAssumption == NoResource \notin Resource

State == {"none", "receiving", "ready", "failed", "expired", "deleting", "deleted"}
Row == [state : State, rev : 0..5]
Item == [res : Resource, row : Row]
Place == {"idle", "stream", "commit", "unpublish", "fail",
          "find", "check", "open", "upload", "protect", "bind",
          "dropSecret", "dropAsset",
          "expire", "begin", "list", "secret", "asset", "unbind", "unsecret",
          "unlink", "finish"}

Working == [pc : Place, queue : Seq(Item), todo : SUBSET Upload, up : Upload \cup {0}]

Idle == [pc |-> "idle", queue |-> <<>>, todo |-> {}, up |-> 0]

TypeOK ==
    /\ row \in [Resource -> Row]
    /\ objects \subseteq Resource /\ elapsed \subseteq Resource \ Lasting
    /\ source \in [Upload -> Resource \cup {NoResource}]
    /\ assets \cup secrets \cup bindings \cup lapsed
           \subseteq {u \in Upload : source[u] # NoResource}
    /\ call \in [Call -> Working]
    /\ \A c \in Call : call[c].pc = "idle" <=> call[c].queue = <<>>
    /\ lost \in BOOLEAN

Init ==
    /\ row = [r \in Resource |-> [state |-> "none", rev |-> 0]]
    /\ objects = {} /\ source = [u \in Upload |-> NoResource]
    /\ assets = {} /\ secrets = {} /\ bindings = {}
    /\ elapsed = {} /\ lapsed = {}
    /\ call = [c \in Call |-> Idle] /\ lost = FALSE

At(c, pc) == call[c].pc = pc
This(c) == Head(call[c].queue).res
Seen(c) == Head(call[c].queue).row
To(c, pc) == call' = [call EXCEPT ![c].pc = pc]
Finished(c) == call' = [call EXCEPT ![c] = Idle]
Start(c, pc, items) ==
    At(c, "idle") /\ call' = [call EXCEPT ![c].pc = pc, ![c].queue = items]

Turned(r, state) == [state |-> state, rev |-> row[r].rev + 1]
Turn(r, state) == row' = [row EXCEPT ![r] = Turned(r, state)]

\* Resource.Validate, which every read of a row ends with, allows parsed
\* metadata on a ready resource only.
Readable(r) == row[r].state \in {"expired", "deleting"} => r \notin Media

-----------------------------------------------------------------------------
(* Service.Create.                                                         *)

CreateReceiving(c, r) ==
    /\ row[r].state = "none"
    /\ Turn(r, "receiving")
    /\ Start(c, "stream", <<[res |-> r, row |-> Turned(r, "receiving")]>>)
    /\ UNCHANGED <<objects, source, assets, secrets, bindings, clock, lost>>

Publish(c) ==
    /\ At(c, "stream")
    /\ objects' = objects \cup {This(c)} /\ To(c, "commit")
    /\ UNCHANGED <<row, source, assets, secrets, bindings, clock, lost>>

\* A stream that breaks, is empty or too large, or that the probe rejects.
StreamFails(c) ==
    /\ At(c, "stream") /\ To(c, "fail")
    /\ UNCHANGED <<stores, clock, lost>>

Bytes(S) == MapThenSumSet(LAMBDA r : Size[r], S)
ReadyBytes == Bytes({r \in Resource : row[r].state = "ready"})

\* The provers know nothing of sums over a set.
ASSUME BytesAddUp ==
    \A S \in SUBSET Resource :
        /\ Bytes(S) \in Nat
        /\ \A r \in Resource \ S : Bytes(S \cup {r}) = Bytes(S) + Size[r]

\* Faulty variant: the quota bounds each resource by itself.
CommitsAlone(c, r) ==
    /\ row[r] = Seen(c) /\ row[r].state = "receiving"
    /\ Size[r] <= Quota

Commits(c, r) ==
    /\ row[r] = Seen(c) /\ row[r].state = "receiving"
    /\ Size[r] <= Quota - ReadyBytes

CommitReady(c) ==
    /\ At(c, "commit")
    /\ Commits(c, This(c))
    /\ Turn(This(c), "ready") /\ Finished(c)
    /\ UNCHANGED <<objects, source, assets, secrets, bindings, clock, lost>>

\* The quota, or any other error of the transaction.
CommitFails(c) ==
    /\ At(c, "commit") /\ To(c, "unpublish")
    /\ UNCHANGED <<stores, clock, lost>>

\* The error of this deletion is ignored.
Unpublish(c) ==
    /\ At(c, "unpublish") /\ To(c, "fail")
    /\ \/ objects' = objects \ {This(c)} /\ UNCHANGED lost
       \/ lost' = TRUE /\ UNCHANGED objects
    /\ UNCHANGED <<row, source, assets, secrets, bindings, clock>>

\* MarkFailed, whose error is ignored as well.
MarkFailed(c) ==
    /\ At(c, "fail") /\ Finished(c)
    /\ \/ row[This(c)].state = "receiving" /\ Turn(This(c), "failed") /\ UNCHANGED lost
       \/ lost' = TRUE /\ UNCHANGED row
    /\ UNCHANGED <<objects, source, assets, secrets, bindings, clock>>

-----------------------------------------------------------------------------
(* Materializer.Materialize of one input whose upstream form is a handle;  *)
(* the inline and the remote form only read.                               *)

\* The facts of the plan still hold of the row: they do until the tombstone
\* clears them, whatever the state says.
Materialize(c, r) ==
    /\ r \in Handled
    /\ row[r].state \in {"ready", "expired", "deleting"} /\ Readable(r)
    /\ Start(c, "find", <<[res |-> r, row |-> row[r]]>>)
    /\ UNCHANGED <<stores, clock, lost>>

Bound(r) == {u \in bindings : source[u] = r}
First(S) == Min(S)

\* With a live binding, its handle is read from the secret store and the call
\* ends, one way or the other.
FindExact(c) ==
    LET live == Bound(This(c)) \ lapsed
    IN  /\ At(c, "find")
        /\ IF live = {} THEN To(c, "check") ELSE Finished(c)
        /\ UNCHANGED <<stores, clock, lost>>

\* OpenContent: the state and the expiry are read first, the file is opened
\* next; a file that is open stays readable when it is removed.
CheckReady(c) ==
    /\ At(c, "check")
    /\ IF row[This(c)].state = "ready" /\ This(c) \notin elapsed
       THEN To(c, "open") ELSE Finished(c)
    /\ UNCHANGED <<stores, clock, lost>>

Open(c) ==
    /\ At(c, "open")
    /\ IF This(c) \in objects THEN To(c, "upload") ELSE Finished(c)
    /\ UNCHANGED <<stores, clock, lost>>

UploadAsset(c) ==
    \E u \in {v \in Upload : source[v] = NoResource} :
        /\ At(c, "upload")
        /\ source' = [source EXCEPT ![u] = This(c)]
        /\ assets' = assets \cup {u}
        /\ call' = [call EXCEPT ![c].pc = "protect", ![c].up = u]
        /\ UNCHANGED <<row, objects, secrets, bindings, clock, lost>>

\* Faulty variant: a handle that cannot be protected leaves its asset behind.
ProtectForgetful(c) ==
    /\ At(c, "protect")
    /\ \/ secrets' = secrets \cup {call[c].up} /\ To(c, "bind")
       \/ UNCHANGED secrets /\ Finished(c)
    /\ UNCHANGED <<row, objects, source, assets, bindings, clock, lost>>

Protect(c) ==
    /\ At(c, "protect")
    /\ \/ secrets' = secrets \cup {call[c].up} /\ To(c, "bind")
       \/ UNCHANGED secrets /\ To(c, "dropAsset")
    /\ UNCHANGED <<row, objects, source, assets, bindings, clock, lost>>

\* Nothing but the row's existence is asked of the resource here.
Bind(c) ==
    /\ At(c, "bind")
    /\ \/ bindings' = bindings \cup {call[c].up} /\ Finished(c)
       \/ UNCHANGED bindings /\ To(c, "dropSecret")
    /\ UNCHANGED <<row, objects, source, assets, secrets, clock, lost>>

\* Compensation, whose errors are ignored.
DropSecret(c) ==
    /\ At(c, "dropSecret") /\ To(c, "dropAsset")
    /\ \/ secrets' = secrets \ {call[c].up} /\ UNCHANGED lost
       \/ lost' = TRUE /\ UNCHANGED secrets
    /\ UNCHANGED <<row, objects, source, assets, bindings, clock>>

DropAsset(c) ==
    /\ At(c, "dropAsset") /\ Finished(c)
    /\ \/ assets' = assets \ {call[c].up} /\ UNCHANGED lost
       \/ lost' = TRUE /\ UNCHANGED assets
    /\ UNCHANGED <<row, objects, source, secrets, bindings, clock>>

-----------------------------------------------------------------------------
(* Service.Delete and Service.CleanupExpired.  A call works through a      *)
(* queue of the rows it has read: Delete has one, CleanupExpired what      *)
(* ListExpired returned.                                                   *)

Entry(state) ==
    CASE state = "ready" -> "expire" [] state = "expired" -> "begin"
      [] state = "deleting" -> "list"

\* Faulty variant: the bindings are removed before the row says so.
DeleteUnannounced(c, r) ==
    /\ row[r].state \in {"ready", "expired", "deleting"} /\ Readable(r)
    /\ Start(c, "list", <<[res |-> r, row |-> row[r]]>>)
    /\ UNCHANGED <<stores, clock, lost>>

Delete(c, r) ==
    /\ row[r].state \in {"ready", "expired", "deleting"} /\ Readable(r)
    /\ Start(c, IF row[r].state = "deleting" THEN "list" ELSE "begin",
                <<[res |-> r, row |-> row[r]]>>)
    /\ UNCHANGED <<stores, clock, lost>>

Candidates ==
    {r \in Resource : \/ row[r].state \in {"ready", "expired"} /\ r \in elapsed
                      \/ row[r].state = "deleting"}

\* One candidate that cannot be read fails the whole list.
ListExpired(c) ==
    /\ Candidates # {} /\ \A r \in Candidates : Readable(r)
    /\ \E order \in SetToSeqs(Candidates) :
          Start(c, Entry(row[order[1]].state),
                [i \in DOMAIN order |-> [res |-> order[i], row |-> row[order[i]]]])
    /\ UNCHANGED <<stores, clock, lost>>

\* A transition: the row is as it was read, and readable.
Unchanged(c) == row[This(c)] = Seen(c) /\ Readable(This(c))

Advance(c, state, pc) ==
    /\ Turn(This(c), state)
    /\ call' = [call EXCEPT ![c].pc = pc, ![c].queue[1].row = Turned(This(c), state)]

MarkExpired(c) ==
    /\ At(c, "expire")
    /\ IF Unchanged(c) THEN Advance(c, "expired", "begin")
       ELSE Finished(c) /\ UNCHANGED row
    /\ UNCHANGED <<objects, source, assets, secrets, bindings, clock, lost>>

BeginDelete(c) ==
    /\ At(c, "begin")
    /\ IF Unchanged(c) THEN Advance(c, "deleting", "list")
       ELSE Finished(c) /\ UNCHANGED row
    /\ UNCHANGED <<objects, source, assets, secrets, bindings, clock, lost>>

\* CleanupResourceBindings, from here to RemoveSecret.
ListByResource(c) ==
    /\ At(c, "list")
    /\ call' = [call EXCEPT ![c].pc = "secret", ![c].todo = Bound(This(c))]
    /\ UNCHANGED <<stores, clock, lost>>

\* A handle that does not resolve ends the call.
ReadSecret(c) ==
    LET todo == call[c].todo
    IN  /\ At(c, "secret")
        /\ CASE todo = {} -> To(c, "unlink")
             [] todo # {} /\ First(todo) \in secrets -> To(c, "asset")
             [] OTHER -> Finished(c)
        /\ UNCHANGED <<stores, clock, lost>>

\* Faulty variant: the handle goes with the asset, before the binding.
RemoveAssetAndSecret(c) ==
    /\ At(c, "asset")
    /\ assets' = assets \ {First(call[c].todo)} /\ To(c, "unbind")
    /\ secrets' = secrets \ {First(call[c].todo)}
    /\ UNCHANGED <<row, objects, source, bindings, clock, lost>>

RemoveAsset(c) ==
    /\ At(c, "asset")
    /\ assets' = assets \ {First(call[c].todo)} /\ To(c, "unbind")
    /\ UNCHANGED <<row, objects, source, secrets, bindings, clock, lost>>

RemoveBinding(c) ==
    /\ At(c, "unbind")
    /\ bindings' = bindings \ {First(call[c].todo)} /\ To(c, "unsecret")
    /\ UNCHANGED <<row, objects, source, assets, secrets, clock, lost>>

\* The binding that named it is gone: a secret left here is never found again.
RemoveSecret(c) ==
    LET u == First(call[c].todo)
    IN  /\ At(c, "unsecret")
        /\ \/ /\ secrets' = secrets \ {u} /\ UNCHANGED lost
              /\ call' = [call EXCEPT ![c].pc = "secret", ![c].todo = @ \ {u}]
           \/ lost' = TRUE /\ UNCHANGED secrets /\ Finished(c)
        /\ UNCHANGED <<row, objects, source, assets, bindings, clock>>

RemoveObject(c) ==
    /\ At(c, "unlink")
    /\ objects' = objects \ {This(c)} /\ To(c, "finish")
    /\ UNCHANGED <<row, source, assets, secrets, bindings, clock, lost>>

FinishDelete(c) ==
    LET rest == Tail(call[c].queue)
    IN  /\ At(c, "finish")
        /\ IF ~Unchanged(c) THEN Finished(c) /\ UNCHANGED row
           ELSE /\ Turn(This(c), "deleted")
                /\ IF rest = <<>> THEN Finished(c)
                   ELSE call' = [call EXCEPT ![c].pc = Entry(rest[1].row.state),
                                             ![c].queue = rest]
        /\ UNCHANGED <<objects, source, assets, secrets, bindings, clock, lost>>

-----------------------------------------------------------------------------
(* Failures, the clock and the death of the process.                       *)

\* Steps whose error ends the call and leaves everything as it was.
Fails(c) ==
    /\ call[c].pc \in {"find", "check", "open", "upload", "expire", "begin", "list",
                       "secret", "asset", "unbind", "unlink", "finish"}
    /\ Finished(c)
    /\ UNCHANGED <<stores, clock, lost>>

\* Nothing looks at the expiry of a row that is past being ready.
Elapse(r) ==
    /\ r \notin elapsed \cup Lasting /\ row[r].state \in {"receiving", "ready"}
    /\ elapsed' = elapsed \cup {r}
    /\ UNCHANGED <<stores, lapsed, call, lost>>

\* The provider lets go of an asset when the expiry it gave is past; what
\* lapses before its binding is saved might as well lapse right after.
Lapse(u) ==
    /\ u \in assets \cap bindings
    /\ lapsed' = lapsed \cup {u} /\ assets' = assets \ {u}
    /\ UNCHANGED <<row, objects, source, secrets, bindings, elapsed, call, lost>>

Die ==
    /\ \E c \in Call : ~At(c, "idle")
    /\ call' = [c \in Call |-> Idle] /\ lost' = TRUE
    /\ UNCHANGED <<stores, clock>>

Step(c) ==
    \/ \E r \in Resource : CreateReceiving(c, r) \/ Materialize(c, r) \/ Delete(c, r)
    \/ Publish(c) \/ StreamFails(c) \/ CommitReady(c) \/ CommitFails(c)
    \/ Unpublish(c) \/ MarkFailed(c)
    \/ FindExact(c) \/ CheckReady(c) \/ Open(c) \/ UploadAsset(c)
    \/ Protect(c) \/ Bind(c) \/ DropSecret(c) \/ DropAsset(c)
    \/ ListExpired(c) \/ MarkExpired(c) \/ BeginDelete(c) \/ ListByResource(c)
    \/ ReadSecret(c) \/ RemoveAsset(c) \/ RemoveBinding(c) \/ RemoveSecret(c)
    \/ RemoveObject(c) \/ FinishDelete(c) \/ Fails(c)

Next ==
    \/ \E c \in Call : Step(c)
    \/ \E r \in Resource : Elapse(r)
    \/ \E u \in Upload : Lapse(u)
    \/ Die

Spec == Init /\ [][Next]_vars

-----------------------------------------------------------------------------
\* A binding a materialization may reuse has its asset and its handle, as
\* long as nothing has begun to delete the resource.
ReusableBindingsWork ==
    \A u \in bindings \ lapsed :
        row[source[u]].state \in {"ready", "expired"} => u \in assets \cap secrets

\* What a cleanup that stopped anywhere needs to go on is still there: the
\* handle of every binding that is left resolves, so no retry is stuck in
\* ReadSecret.
CleanupCanResume == bindings \subseteq secrets

InHand(c) == IF call[c].pc \in {"protect", "bind", "dropSecret", "dropAsset"}
             THEN {call[c].up} ELSE {}
HeldOpen(c) == IF call[c].pc \in {"unsecret"} THEN {First(call[c].todo)} ELSE {}

\* Unless the process died or an ignored error occurred, whatever is stored
\* outside of the database can be found from it, or is in the hands of a call
\* that is still going to remove or record it.
NothingOrphaned ==
    lost \/ /\ assets \subseteq bindings \cup UNION {InHand(c) : c \in Call}
            /\ secrets \subseteq bindings \cup UNION {InHand(c) \cup HeldOpen(c) : c \in Call}
            /\ \A r \in objects :
                  \/ row[r].state \in {"ready", "expired", "deleting"}
                  \/ \E c \in Call : call[c].pc \in {"commit", "unpublish"} /\ This(c) = r

\* The service keeps the contract of its callers.
Contract == INSTANCE ResourceContract WITH
    available <- {r \in Resource : row[r].state = "ready"},
    past <- {r \in Resource : row[r].state \in {"failed", "expired", "deleting", "deleted"}},
    bytes <- objects
ImplementsContract == Contract!Spec

\* "Delete removes provider bindings, local bytes, and leaves a metadata-safe
\* tombstone": a row that is being deleted can be read again, as its last step
\* has to.
DeletionCanFinish == \A r \in Resource : row[r].state = "deleting" => Readable(r)
=============================================================================
