------------------------- MODULE ProviderCredentials -------------------------
(***************************************************************************)
(* The credentials of one provider instance, the catalog snapshot that     *)
(* holds their account metadata, and the four operations that change them: *)
(* a metadata refresh (refresh/service.go), a token rotation (management's *)
(* token services), an attachment and a deletion (management/service.go).  *)
(*                                                                         *)
(* No operation is a transaction.  Each is a sequence of reads and writes  *)
(* of three stores (configuration, secrets, catalog), every write is       *)
(* optimistic on a revision, and what a lost race leaves behind is undone  *)
(* by compensating writes that can lose a race themselves.  Only refreshes *)
(* share a lock.  Reads that the code issues back to back are one step; an *)
(* error that leaves every store unchanged ends the call.  The secret      *)
(* store may fail to delete a value; the writes of the other two stores    *)
(* fail by a lost race only.                                               *)
(***************************************************************************)
EXTENDS Naturals, FiniteSets

CONSTANTS
    Credential,      \* the credential identifiers of the instance
    Held,            \* the ones configured, bound and cataloged at the start
    Refresh,         \* calls of refreshCredentialMetadata
    Rotation,        \* calls that replace a credential's secret
    Supplied,        \* ... those whose replacement an operator supplies
    Edit,            \* calls of UpdateCredential
    Attachment,      \* calls of attachCredential
    Deletion,        \* calls of DeleteCredential
    Target,          \* the credential each call is about
    None             \* no credential row, no metadata, no lock holder

Caller == Refresh \cup Rotation \cup Edit \cup Attachment \cup Deletion

\* Every call is of one kind, and what calls and credentials are named by is
\* of one kind, too.
ASSUME CallsAssumption ==
    /\ Held \subseteq Credential /\ Supplied \subseteq Rotation
    /\ Target \in [Caller -> Credential]
    /\ Refresh \cap (Rotation \cup Edit \cup Attachment \cup Deletion) = {}
    /\ Rotation \cap (Edit \cup Attachment \cup Deletion) = {}
    /\ Edit \cap (Attachment \cup Deletion) = {}
    /\ Attachment \cap Deletion = {}
    /\ Held \cap Caller = {} /\ None \notin Caller

(* Identifiers are generated, so an attachment brings a new one, and no    *)
(* two attachments bring the same.                                         *)
ASSUME FreshAttachments ==
    \A a \in Attachment :
        Target[a] \notin Held /\ \A b \in Attachment \ {a} : Target[b] # Target[a]

(* A secret is named by what put it: a credential of the start, or the     *)
(* call whose Put stored it.                                               *)
Secret == Held \cup Rotation \cup Attachment

(* What the snapshot says of a credential: nothing, what it said at the    *)
(* start, or what the named call observed.                                 *)
Observation == {None, "initial"} \cup Refresh \cup Attachment

VARIABLES
    config,          \* credential rows: revision and secret reference
    bound,           \* credentials with access bindings
    instance,        \* lifecycle status and revision of the instance
    material,        \* stored protected values
    undeleted,       \* history: the values the secret store failed to delete
    catalog,         \* revision and account metadata of the snapshot
    lock,            \* the refresh that holds the instance's refresh lock
    calls            \* per call: next step and local copies

credentialVars == <<config, bound, instance, material, undeleted, catalog, lock, calls>>
credentialStores == <<config, bound, instance, material, undeleted, catalog>>

CredentialRow == [revision : Nat, secret : Secret]

ASSUME NoneAssumption == None \notin CredentialRow

Instance == [status : {"draft", "ready"}, revision : Nat]
Snapshot == [revision : Nat, meta : [Credential -> Observation]]

CallStep == {"begin", "found", "read", "observed", "got", "put", "saved",
             "discard", "bound", "reread", "cataloged", "activate", "undo",
             "fetch", "graph", "uncatalog", "unsecret", "restore", "rebind",
             "reinstate", "inspect", "overwrite", "failed", "done"}

Locals == [step : CallStep,
           row : CredentialRow \cup {None},       \* credential as read
           snap : Snapshot,             \* catalog as last read
           original : Snapshot,         \* catalog before an attachment
           graph : SUBSET Credential,   \* bindings as read
           seen : Instance,             \* instance as first read
           now : Instance]              \* instance as last read

FirstSnapshot ==
    [revision |-> 1, meta |-> [c \in Credential |-> IF c \in Held THEN "initial" ELSE None]]
FirstInstance == [status |-> IF Held = {} THEN "draft" ELSE "ready", revision |-> 1]
Fresh(step) ==
    [step |-> step, row |-> None, snap |-> FirstSnapshot, original |-> FirstSnapshot,
     graph |-> {}, seen |-> FirstInstance, now |-> FirstInstance]

Ended == {"done", "failed"}
Configured == {c \in Credential : config[c] # None}

CredentialsInit ==
    /\ config = [c \in Credential |-> IF c \in Held THEN [revision |-> 1, secret |-> c] ELSE None]
    /\ bound = Held
    /\ instance = FirstInstance
    /\ material = Held
    /\ undeleted = {}
    /\ catalog = FirstSnapshot
    /\ lock = None
    /\ calls = [k \in Caller |-> Fresh("begin")]

Doing(k, step) == calls[k].step = step

(* A call that has ended keeps its outcome and none of its copies.         *)
Goto(k, step) ==
    calls' = [calls EXCEPT ![k] =
                IF step \in Ended THEN Fresh(step) ELSE [@ EXCEPT !.step = step]]

----------------------------------------------------------------------------
(* The stores' conditional writes.                                         *)

\* Faulty variant: a snapshot of the same revision replaces the stored one.
NotOlder(revision) == revision >= catalog.revision

(* catalog Save: a snapshot replaces the stored one only if its revision   *)
(* is higher.                                                              *)
Replaces(revision) == revision > catalog.revision

SaveSnapshot(revision, meta) ==
    /\ Replaces(revision)
    /\ catalog' = [revision |-> revision, meta |-> meta]

\* Faulty variant: the revision of the row that is there is not compared.
UpsertsAny(c, row) == row.revision \in Nat

(* SaveCredential: an upsert.  A row that is not there is inserted,        *)
(* whatever revision it carries.                                           *)
Upserts(c, row) == c \in Configured => row.revision > config[c].revision

SaveCredential(c, row) ==
    /\ Upserts(c, row)
    /\ config' = [config EXCEPT ![c] = row]

(* secrets.Delete: an error leaves the value where it is.                  *)
DeleteMaterial(s) ==
    \/ material' = material \ {s} /\ UNCHANGED undeleted
    \/ s \in material /\ UNCHANGED material /\ undeleted' = undeleted \cup {s}

(* What the caller is told; that the value is not there is an error, too.  *)
WasDeleted(s) == s \in material \ material'

----------------------------------------------------------------------------
(* Metadata refresh: one refresher of the instance at a time.              *)

Unlock(k, step) == lock' = None /\ Goto(k, step)

RefreshLock(k) ==
    /\ Doing(k, "begin") /\ lock = None
    /\ IF Target[k] \in Configured
       THEN /\ lock' = k
            /\ calls' = [calls EXCEPT ![k].step = "found", ![k].row = config[Target[k]]]
       ELSE Unlock(k, "failed")
    /\ UNCHANGED credentialStores

RefreshRead(k) ==
    /\ Doing(k, "found")
    /\ calls' = [calls EXCEPT ![k].step = "read", ![k].snap = catalog]
    /\ UNCHANGED <<credentialStores, lock>>

(* The driver reads the secret of the row it was given and asks the        *)
(* provider, which may refuse.                                             *)
RefreshObserve(k) ==
    /\ Doing(k, "read")
    /\ \/ calls[k].row.secret \in material /\ Goto(k, "observed") /\ UNCHANGED lock
       \/ Unlock(k, "failed")
    /\ UNCHANGED credentialStores

RefreshSave(k) ==
    LET snap == calls[k].snap
        revision == snap.revision + 1
    IN /\ Doing(k, "observed")
       /\ \/ /\ SaveSnapshot(revision, [snap.meta EXCEPT ![Target[k]] = k])
             /\ Unlock(k, "done")
          \/ /\ ~Replaces(revision)
             /\ UNCHANGED catalog
             /\ Unlock(k, "failed")
       /\ UNCHANGED <<config, bound, instance, material, undeleted>>

----------------------------------------------------------------------------
(* Replacing a secret.  A token service exchanges the stored token, one    *)
(* flight per credential: a caller that comes while another is under way   *)
(* waits for that one's result and is not a new call.  RotateCredential-   *)
(* Secret and ReauthorizeCredential bring the replacement and join no      *)
(* flight.                                                                 *)

InFlight(k) == calls[k].step \notin Ended \cup {"begin"}
FlightFree(k) ==
    k \notin Supplied => \A r \in Rotation \ Supplied : InFlight(r) => Target[r] # Target[k]

RotateRead(k) ==
    /\ Doing(k, "begin") /\ FlightFree(k)
    /\ IF Target[k] \in Configured
       THEN calls' = [calls EXCEPT ![k].step = IF k \in Supplied THEN "got" ELSE "found",
                                 ![k].row = config[Target[k]]]
       ELSE Goto(k, "failed")
    /\ UNCHANGED <<credentialStores, lock>>

(* secrets.Get, then the exchange with the provider, which may refuse.     *)
RotateExchange(k) ==
    /\ Doing(k, "found")
    /\ \/ calls[k].row.secret \in material /\ Goto(k, "got")
       \/ Goto(k, "failed")
    /\ UNCHANGED <<credentialStores, lock>>

RotatePut(k) ==
    /\ Doing(k, "got")
    /\ material' = material \cup {k}
    /\ Goto(k, "put")
    /\ UNCHANGED <<config, bound, instance, undeleted, catalog, lock>>

Rotated(k) == [revision |-> calls[k].row.revision + 1, secret |-> k]

RotateSave(k) ==
    /\ Doing(k, "put")
    /\ \/ SaveCredential(Target[k], Rotated(k)) /\ Goto(k, "saved")
       \/ ~Upserts(Target[k], Rotated(k)) /\ UNCHANGED config /\ Goto(k, "discard")
    /\ UNCHANGED <<bound, instance, material, undeleted, catalog, lock>>

(* The superseded secret goes after the row that referred to it; if it     *)
(* cannot be deleted, the call fails although the replacement is in place. *)
RotateDrop(k) ==
    /\ Doing(k, "saved")
    /\ DeleteMaterial(calls[k].row.secret)
    /\ Goto(k, IF WasDeleted(calls[k].row.secret) THEN "done" ELSE "failed")
    /\ UNCHANGED <<config, bound, instance, catalog, lock>>


(* The write lost: the replacement is deleted, although the provider has   *)
(* already exchanged the token it replaces.                                *)
RotateDiscard(k) ==
    /\ Doing(k, "discard")
    /\ DeleteMaterial(k)
    /\ Goto(k, "failed")
    /\ UNCHANGED <<config, bound, instance, catalog, lock>>

----------------------------------------------------------------------------
(* UpdateCredential: the row is read and written back one revision higher. *)

EditRead(k) ==
    /\ Doing(k, "begin")
    /\ IF Target[k] \in Configured
       THEN calls' = [calls EXCEPT ![k].step = "found", ![k].row = config[Target[k]]]
       ELSE Goto(k, "failed")
    /\ UNCHANGED <<credentialStores, lock>>

EditSave(k) ==
    LET row == [calls[k].row EXCEPT !.revision = @ + 1]
    IN /\ Doing(k, "found")
       /\ \/ SaveCredential(Target[k], row) /\ Goto(k, "done")
          \/ ~Upserts(Target[k], row) /\ UNCHANGED config /\ Goto(k, "failed")
       /\ UNCHANGED <<bound, instance, material, undeleted, catalog, lock>>

----------------------------------------------------------------------------
(* Deletion, also what an attachment runs to undo itself.                  *)

Deletes(k) == Doing(k, IF k \in Attachment THEN "undo" ELSE "begin")

Finish(k, outcome) == Goto(k, IF k \in Attachment THEN "inspect" ELSE outcome)

(* GetInstance, ListBindings and the catalog, read before anything goes.   *)
DeleteRead(k) ==
    /\ Deletes(k)
    /\ calls' = [calls EXCEPT ![k].step = "fetch", ![k].snap = catalog,
                            ![k].graph = bound, ![k].seen = instance]
    /\ UNCHANGED <<credentialStores, lock>>

(* DeleteCredentialGraph reads the row and the instance ...                *)
DeleteFetch(k) ==
    /\ Doing(k, "fetch")
    /\ IF Target[k] \in Configured
       THEN calls' = [calls EXCEPT ![k].step = "graph", ![k].row = config[Target[k]],
                                 ![k].now = instance]
       ELSE Finish(k, "failed")
    /\ UNCHANGED <<credentialStores, lock>>

(* ... and then deletes, in one transaction, the bindings and the row it   *)
(* has read, and drafts an instance that has no credential left.           *)
DeleteGraph(k) ==
    LET c == Target[k]
        last == Configured = {c}
    IN /\ Doing(k, "graph")
       /\ IF config[c] = calls[k].row /\ (last => instance = calls[k].now)
          THEN /\ config' = [config EXCEPT ![c] = None]
               /\ bound' = bound \ {c}
               /\ instance' = IF last THEN [status |-> "draft", revision |-> instance.revision + 1]
                                      ELSE instance
               /\ Goto(k, "uncatalog")
          ELSE Finish(k, "failed") /\ UNCHANGED <<config, bound, instance>>
       /\ UNCHANGED <<material, undeleted, catalog, lock>>

DeleteCatalog(k) ==
    LET snap == calls[k].snap
        revision == snap.revision + 1
    IN /\ Doing(k, "uncatalog")
       /\ \/ SaveSnapshot(revision, [snap.meta EXCEPT ![Target[k]] = None]) /\ Goto(k, "unsecret")
          \/ ~Replaces(revision) /\ UNCHANGED catalog /\ Goto(k, "restore")
       /\ UNCHANGED <<config, bound, instance, material, undeleted, lock>>

(* The rows are gone by now, and stay gone if the secret cannot be deleted. *)
DeleteSecret(k) ==
    /\ Doing(k, "unsecret")
    /\ DeleteMaterial(calls[k].row.secret)
    /\ Finish(k, IF WasDeleted(calls[k].row.secret) THEN "done" ELSE "failed")
    /\ UNCHANGED <<config, bound, instance, catalog, lock>>

(* The catalog write lost: restoreDeletedCredentialConfiguration puts back *)
(* the row, then its bindings, then the status, and stops at an error.     *)
RestoreRow(k) ==
    LET c == Target[k]
        row == calls[k].row
    IN /\ Doing(k, "restore")
       /\ \/ /\ SaveCredential(c, row)
             /\ calls' = [calls EXCEPT ![k].step = "rebind", ![k].now = instance]
          \/ ~Upserts(c, row) /\ UNCHANGED config /\ Finish(k, "failed")
       /\ UNCHANGED <<bound, instance, material, undeleted, catalog, lock>>

RestoreBindings(k) ==
    LET c == Target[k]
    IN /\ Doing(k, "rebind")
       /\ IF c \in calls[k].graph
          THEN IF c \in Configured
               THEN bound' = bound \cup {c} /\ Goto(k, "reinstate")
               ELSE UNCHANGED bound /\ Finish(k, "failed")
          ELSE UNCHANGED bound /\ Goto(k, "reinstate")
       /\ UNCHANGED <<config, instance, material, undeleted, catalog, lock>>

RestoreInstance(k) ==
    /\ Doing(k, "reinstate")
    /\ instance' = IF /\ calls[k].now.status # calls[k].seen.status
                      /\ instance.revision = calls[k].now.revision
                   THEN [status |-> calls[k].seen.status, revision |-> instance.revision + 1]
                   ELSE instance
    /\ Finish(k, "failed")
    /\ UNCHANGED <<config, bound, material, undeleted, catalog, lock>>

----------------------------------------------------------------------------
(* Attachment of a new credential.                                         *)

AttachRead(k) ==
    /\ Doing(k, "begin")
    /\ calls' = [calls EXCEPT ![k].step = "read", ![k].graph = bound, ![k].original = catalog]
    /\ UNCHANGED <<credentialStores, lock>>

AttachPut(k) ==
    /\ Doing(k, "read")
    /\ material' = material \cup {k}
    /\ Goto(k, "put")
    /\ UNCHANGED <<config, bound, instance, undeleted, catalog, lock>>

AttachSave(k) ==
    /\ Doing(k, "put")
    /\ SaveCredential(Target[k], [revision |-> 1, secret |-> k])
    /\ Goto(k, "saved")
    /\ UNCHANGED <<bound, instance, material, undeleted, catalog, lock>>

\* Faulty variant: the graph is replaced whatever it has become.
GraphUnchecked(k) == Target[k] \in Configured

(* ReplaceAccessGraph: the graph must still be the one that was read, and  *)
(* every binding must have its credential.                                 *)
GraphReplaceable(k) == bound = calls[k].graph /\ Target[k] \in Configured

AttachBind(k) ==
    /\ Doing(k, "saved")
    /\ \/ /\ GraphReplaceable(k)
          /\ bound' = calls[k].graph \cup {Target[k]}
          /\ Goto(k, "bound")
       \/ ~GraphReplaceable(k) /\ UNCHANGED bound /\ Goto(k, "undo")
    /\ UNCHANGED <<config, instance, material, undeleted, catalog, lock>>

AttachReread(k) ==
    /\ Doing(k, "bound")
    /\ calls' = [calls EXCEPT ![k].step = "reread", ![k].snap = catalog]
    /\ UNCHANGED <<credentialStores, lock>>

(* The new credential's metadata, taken from its token.                    *)
AttachCatalog(k) ==
    LET snap == calls[k].snap
        revision == snap.revision + 1
    IN /\ Doing(k, "reread")
       /\ \/ SaveSnapshot(revision, [snap.meta EXCEPT ![Target[k]] = k]) /\ Goto(k, "cataloged")
          \/ ~Replaces(revision) /\ UNCHANGED catalog /\ Goto(k, "undo")
       /\ UNCHANGED <<config, bound, instance, material, undeleted, lock>>

(* ActivateInstance: nothing to do for a ready instance, an error without  *)
(* a usable binding.                                                       *)
AttachInspect(k) ==
    /\ Doing(k, "cataloged")
    /\ CASE bound = {} -> Goto(k, "undo")
         [] bound # {} /\ instance.status = "ready" -> Goto(k, "done")
         [] OTHER -> calls' = [calls EXCEPT ![k].step = "activate", ![k].now = instance]
    /\ UNCHANGED <<credentialStores, lock>>

AttachActivate(k) ==
    /\ Doing(k, "activate")
    /\ IF instance.revision = calls[k].now.revision
       THEN /\ instance' = [status |-> "ready", revision |-> instance.revision + 1]
            /\ Goto(k, "done")
       ELSE UNCHANGED instance /\ Goto(k, "undo")
    /\ UNCHANGED <<config, bound, material, undeleted, catalog, lock>>

(* compensateCredentialAttachment, once its DeleteCredential has ended:    *)
(* the snapshot of before the attachment is saved again if it is no longer *)
(* the current one.                                                        *)
UndoInspect(k) ==
    /\ Doing(k, "inspect")
    /\ IF catalog.revision > calls[k].original.revision
       THEN calls' = [calls EXCEPT ![k].step = "overwrite", ![k].snap = catalog]
       ELSE Goto(k, "failed")
    /\ UNCHANGED <<credentialStores, lock>>

UndoCatalog(k) ==
    /\ Doing(k, "overwrite")
    /\ \/ SaveSnapshot(calls[k].snap.revision + 1, calls[k].original.meta)
       \/ ~Replaces(calls[k].snap.revision + 1) /\ UNCHANGED catalog
    /\ Goto(k, "failed")
    /\ UNCHANGED <<config, bound, instance, material, undeleted, lock>>

----------------------------------------------------------------------------
Refreshing(k) == RefreshLock(k) \/ RefreshRead(k) \/ RefreshObserve(k) \/ RefreshSave(k)

Rotating(k) ==
    \/ RotateRead(k) \/ RotateExchange(k) \/ RotatePut(k)
    \/ RotateSave(k) \/ RotateDrop(k) \/ RotateDiscard(k)

Editing(k) == EditRead(k) \/ EditSave(k)

Deleting(k) ==
    \/ DeleteRead(k) \/ DeleteFetch(k) \/ DeleteGraph(k) \/ DeleteCatalog(k) \/ DeleteSecret(k)
    \/ RestoreRow(k) \/ RestoreBindings(k) \/ RestoreInstance(k)

Attaching(k) ==
    \/ AttachRead(k) \/ AttachPut(k) \/ AttachSave(k) \/ AttachBind(k) \/ AttachReread(k)
    \/ AttachCatalog(k) \/ AttachInspect(k) \/ AttachActivate(k)
    \/ UndoInspect(k) \/ UndoCatalog(k)

CredentialsNext ==
    \/ \E k \in Refresh : Refreshing(k)
    \/ \E k \in Rotation : Rotating(k)
    \/ \E k \in Edit : Editing(k)
    \/ \E k \in Deletion \cup Attachment : Deleting(k)
    \/ \E k \in Attachment : Attaching(k)

CredentialsSpec == CredentialsInit /\ [][CredentialsNext]_credentialVars

----------------------------------------------------------------------------
CredentialsTypeOK ==
    /\ config \in [Credential -> CredentialRow \cup {None}]
    /\ bound \subseteq Credential
    /\ instance \in Instance
    /\ material \subseteq Secret /\ undeleted \subseteq Secret
    /\ catalog \in Snapshot
    /\ lock \in Refresh \cup {None}
    /\ calls \in [Caller -> Locals]

(* A binding's credential exists: an attachment that replaces the whole    *)
(* access graph by the one it read earlier does not bring back the         *)
(* bindings of a credential deleted meanwhile.                             *)
BindingsHaveCredentials == bound \subseteq Configured

(* As long as nobody has begun to delete it, a configured credential works: *)
(* the secret its row refers to is stored, through every rotation, edit and *)
(* undone attachment.  A late write can put a deleted row back with a       *)
(* secret that is gone: DeletionIsFinal.                                    *)
DeletionBegun(c) == \E d \in Deletion : Target[d] = c /\ ~Doing(d, "begin")
NoDanglingSecret == \A c \in Configured : DeletionBegun(c) \/ config[c].secret \in material

(* Once every call has ended, a stored secret is the one its credential's  *)
(* row refers to, or the secret store failed to delete it, or it belongs   *)
(* to a credential whose deletion failed.  Nobody deletes it a second time *)
(* (persistCredentialSecretReplacement and DeleteCredential only report    *)
(* the error; compensateCredentialAttachment goes on).                     *)
Quiet == \A k \in Caller : calls[k].step \in Ended
Owner(s) == IF s \in Held THEN s ELSE Target[s]
Kept(c) == IF c \in Configured THEN {config[c].secret} ELSE {}
DeletionFailed(c) == \E d \in Deletion : Target[d] = c /\ Doing(d, "failed")
NoOrphanSecret ==
    Quiet => \A s \in material :
                s \in undeleted \cup Kept(Owner(s)) \/ DeletionFailed(Owner(s))


(* What the catalog says of a credential changes only in a call about that *)
(* credential; the one exception is the snapshot an attachment puts back.  *)
OthersKept ==
    [][\A c \in Credential : catalog'.meta[c] # catalog.meta[c] =>
          \E k \in Caller : calls'[k] # calls[k] /\ (Target[k] = c \/ Doing(k, "overwrite"))]_credentialVars

(* An attachment that failed has left no credential behind.                *)
FailedAttachmentUndone ==
    Quiet => \A a \in Attachment : Doing(a, "failed") => Target[a] \notin Configured

(* A credential whose deletion was reported as done does not come back.    *)
DeletionIsFinal == \A d \in Deletion : Doing(d, "done") => Target[d] \notin Configured
=============================================================================
