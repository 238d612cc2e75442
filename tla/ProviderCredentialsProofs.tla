---------------------- MODULE ProviderCredentialsProofs ----------------------
(***************************************************************************)
(* Proofs about ProviderCredentials, for any credentials and any calls:    *)
(* bindings have credentials, calls about one credential leave the others' *)
(* metadata alone, and a configured credential's secret is stored.         *)
(***************************************************************************)
EXTENDS ProviderCredentials, TLAPS

-----------------------------------------------------------------------------
(* One call moves.                                                         *)

\* The steps of a call at which it has a credential row in hand.
HasRow(k, step) ==
    \/ k \in Refresh /\ step \in {"found", "read", "observed"}
    \/ k \in Rotation /\ step \in {"found", "got", "put", "saved", "discard"}
    \/ k \in Edit /\ step = "found"
    \/ k \in Deletion \cup Attachment
         /\ step \in {"graph", "uncatalog", "unsecret", "restore", "rebind", "reinstate"}

\* The steps of a rotation whose replacement is in no row.
Unsaved == {"begin", "found", "got", "put", "discard"}

RowsRead == \A k \in Caller : HasRow(k, calls[k].step) => calls[k].row # None

(* What a step may put into a call's hands: what it had, what the stores   *)
(* say, or nothing.                                                        *)
Handed(k, j) ==
    /\ j.step \notin {"begin", calls[k].step}
    /\ j.snap \in {calls[k].snap, catalog, FirstSnapshot}
    /\ j.original \in {calls[k].original, catalog, FirstSnapshot}
    /\ j.row \in {calls[k].row, config[Target[k]], None}
    /\ HasRow(k, j.step) => j.row # None
    /\ k \in Rotation /\ j.step \in Unsaved => calls[k].step \in Unsaved

Turn(k) == \E j \in Locals : calls' = [calls EXCEPT ![k] = j] /\ Handed(k, j)

LEMMA Firsts ==
    /\ FirstSnapshot \in Snapshot /\ FirstInstance \in Instance
    /\ \A step \in CallStep : Fresh(step) \in Locals
  <1>1. FirstSnapshot \in Snapshot
    BY DEF FirstSnapshot, Snapshot, Observation
  <1>2. FirstInstance \in Instance
    BY DEF FirstInstance, Instance
  <1> QED
    BY <1>1, <1>2 DEF Fresh, Locals

LEMMA GoesTo ==
    ASSUME CredentialsTypeOK, RowsRead, NEW k \in Caller, NEW step \in CallStep,
           Goto(k, step), step \notin {"begin", calls[k].step},
           step \notin Ended /\ HasRow(k, step) => HasRow(k, calls[k].step),
           k \in Rotation /\ step \in Unsaved => calls[k].step \in Unsaved
    PROVE  Turn(k)
  <1>1. calls[k] \in Locals
    BY DEF CredentialsTypeOK
  <1>2. CASE step \in Ended
    <2>1. calls' = [calls EXCEPT ![k] = Fresh(step)] /\ Fresh(step) \in Locals
      BY <1>2, Firsts DEF Goto
    <2>2. ~HasRow(k, step)
      BY <1>2 DEF HasRow, Ended
    <2>3. Handed(k, Fresh(step))
      BY <2>2 DEF Handed, Fresh
    <2> QED
      BY <2>1, <2>3 DEF Turn
  <1>3. CASE step \notin Ended
    <2> DEFINE j == [calls[k] EXCEPT !.step = step]
    <2>1. calls' = [calls EXCEPT ![k] = j]
      BY <1>3 DEF Goto
    <2>2. j \in Locals /\ j.step = step /\ j.snap = calls[k].snap
            /\ j.original = calls[k].original /\ j.row = calls[k].row
      BY <1>1 DEF Locals
    <2>3. Handed(k, j)
      BY <1>3, <2>2 DEF Handed, RowsRead
    <2> QED
      BY <2>1, <2>2, <2>3 DEF Turn
  <1> QED
    BY <1>2, <1>3

(* A step that is no Goto gives the call a new step and some of the copies *)
(* of Handed.                                                              *)
LEMMA Picks ==
    ASSUME CredentialsTypeOK, RowsRead, NEW k \in Caller, NEW j \in Locals,
           calls' = [calls EXCEPT ![k] = j], Handed(k, j)
    PROVE  Turn(k)
  BY DEF Turn

Reads(k) ==
    \/ k \in Refresh /\ (RefreshLock(k) \/ RefreshRead(k) \/ RefreshObserve(k))
    \/ k \in Rotation /\ (RotateRead(k) \/ RotateExchange(k))
    \/ k \in Edit /\ EditRead(k)
    \/ k \in Deletion \cup Attachment /\ (DeleteRead(k) \/ DeleteFetch(k))
    \/ k \in Attachment /\ (AttachRead(k) \/ AttachReread(k) \/ AttachInspect(k) \/ UndoInspect(k))

LEMMA ReadsTurn ==
    ASSUME CredentialsTypeOK, RowsRead, NEW k \in Caller, Reads(k)
    PROVE  Turn(k) /\ UNCHANGED credentialStores /\ lock' \in Refresh \cup {None}
  <1> USE CallsAssumption
  <1>1. /\ calls[k] \in Locals /\ Target[k] \in Credential /\ catalog \in Snapshot
        /\ instance \in Instance /\ bound \subseteq Credential /\ lock \in Refresh \cup {None}
        /\ config[Target[k]] \in CredentialRow \cup {None}
        /\ calls \in [Caller -> Locals]
    BY DEF CredentialsTypeOK
  <1>2. Target[k] \in Configured => config[Target[k]] # None
    BY DEF Configured
  <1>3. CASE k \in Refresh /\ RefreshLock(k)
    <2>1. CASE Target[k] \in Configured
      <3> DEFINE j == [calls[k] EXCEPT !.step = "found", !.row = config[Target[k]]]
      <3>1. calls' = [calls EXCEPT ![k] = j]
        BY <1>1, <1>3, <2>1 DEF RefreshLock
      <3>2. j \in Locals
        BY <1>1 DEF Locals, CallStep
      <3>3. Handed(k, j)
        BY <1>1, <1>2, <1>3, <2>1 DEF Handed, Locals, RefreshLock, Doing
      <3> QED
        BY <1>3, <2>1, <3>1, <3>2, <3>3, Picks DEF RefreshLock
    <2>2. CASE Target[k] \notin Configured
      <3>1. Goto(k, "failed")
        BY <1>3, <2>2 DEF RefreshLock, Unlock
      <3>2. Turn(k)
        BY <1>3, <3>1, GoesTo DEF RefreshLock, Doing, CallStep, Ended, Unsaved
      <3> QED
        BY <1>3, <2>2, <3>2 DEF RefreshLock, Unlock
    <2> QED
      BY <2>1, <2>2
  <1>4. CASE k \in Refresh /\ RefreshRead(k)
    <2> DEFINE j == [calls[k] EXCEPT !.step = "read", !.snap = catalog]
    <2>1. calls' = [calls EXCEPT ![k] = j]
      BY <1>1, <1>4 DEF RefreshRead
    <2>2. j \in Locals
      BY <1>1 DEF Locals, CallStep
    <2>3. Handed(k, j)
      BY <1>1, <1>4, <2>2 DEF Handed, Locals, RefreshRead, RowsRead, Doing, HasRow
    <2> QED
      BY <1>1, <1>4, <2>1, <2>2, <2>3, Picks DEF RefreshRead
  <1>5. CASE k \in Refresh /\ RefreshObserve(k)
    <2>1. CASE Goto(k, "observed") /\ UNCHANGED lock
      <3>1. Turn(k)
        BY <1>5, <2>1, GoesTo DEF RefreshObserve, Doing, CallStep, Ended, HasRow
      <3> QED
        BY <1>1, <1>5, <2>1, <3>1 DEF RefreshObserve
    <2>2. CASE Unlock(k, "failed")
      <3>1. Turn(k)
        BY <1>5, <2>2, GoesTo DEF RefreshObserve, Unlock, Doing, CallStep, Ended
      <3> QED
        BY <1>1, <1>5, <2>2, <3>1 DEF RefreshObserve, Unlock
    <2> QED
      BY <1>5, <2>1, <2>2 DEF RefreshObserve
  <1>6. CASE k \in Rotation /\ RotateRead(k)
    <2>1. CASE Target[k] \in Configured
      <3> DEFINE j == [calls[k] EXCEPT !.step = IF k \in Supplied THEN "got" ELSE "found", !.row = config[Target[k]]]
      <3>1. calls' = [calls EXCEPT ![k] = j]
        BY <1>1, <1>6, <2>1 DEF RotateRead
      <3>2. j \in Locals
        BY <1>1 DEF Locals, CallStep
      <3>3. Handed(k, j)
        BY <1>1, <1>2, <1>6, <2>1, <3>2 DEF Handed, Locals, RotateRead, Doing, HasRow, Unsaved
      <3> QED
        BY <1>1, <1>6, <2>1, <3>1, <3>2, <3>3, Picks DEF RotateRead
    <2>2. CASE ~(Target[k] \in Configured)
      <3>1. Goto(k, "failed")
        BY <1>6, <2>2 DEF RotateRead
      <3>2. Turn(k)
        BY <1>6, <3>1, GoesTo DEF RotateRead, Doing, CallStep, Ended, Unsaved, HasRow
      <3> QED
        BY <1>1, <1>6, <2>2, <3>2 DEF RotateRead
    <2> QED
      BY <2>1, <2>2
  <1>7. CASE k \in Rotation /\ RotateExchange(k)
    <2>1. PICK step \in {"got", "failed"} : Goto(k, step)
      BY <1>7 DEF RotateExchange
    <2>2. Turn(k)
      BY <1>7, <2>1, GoesTo DEF RotateExchange, Doing, CallStep, Ended, HasRow, Unsaved
    <2> QED
      BY <1>1, <1>7, <2>2 DEF RotateExchange
  <1>8. CASE k \in Edit /\ EditRead(k)
    <2>1. CASE Target[k] \in Configured
      <3> DEFINE j == [calls[k] EXCEPT !.step = "found", !.row = config[Target[k]]]
      <3>1. calls' = [calls EXCEPT ![k] = j]
        BY <1>1, <1>8, <2>1 DEF EditRead
      <3>2. j \in Locals
        BY <1>1 DEF Locals, CallStep
      <3>3. Handed(k, j)
        BY <1>1, <1>2, <1>8, <2>1, <3>2 DEF Handed, Locals, EditRead, Doing, HasRow, Unsaved
      <3> QED
        BY <1>1, <1>8, <2>1, <3>1, <3>2, <3>3, Picks DEF EditRead
    <2>2. CASE ~(Target[k] \in Configured)
      <3>1. Goto(k, "failed")
        BY <1>8, <2>2 DEF EditRead
      <3>2. Turn(k)
        BY <1>8, <3>1, GoesTo DEF EditRead, Doing, CallStep, Ended, Unsaved, HasRow
      <3> QED
        BY <1>1, <1>8, <2>2, <3>2 DEF EditRead
    <2> QED
      BY <2>1, <2>2
  <1>9. CASE k \in Deletion \cup Attachment /\ DeleteRead(k)
    <2> DEFINE j == [calls[k] EXCEPT !.step = "fetch", !.snap = catalog, !.graph = bound, !.seen = instance]
    <2>1. calls' = [calls EXCEPT ![k] = j]
      BY <1>1, <1>9 DEF DeleteRead
    <2>2. j \in Locals
      BY <1>1 DEF Locals, CallStep
    <2>3. Handed(k, j)
      BY <1>1, <1>9, <2>2 DEF Handed, Locals, DeleteRead, Doing, HasRow, Deletes
    <2> QED
      BY <1>1, <1>9, <2>1, <2>2, <2>3, Picks DEF DeleteRead
  <1>10. CASE k \in Deletion \cup Attachment /\ DeleteFetch(k)
    <2>1. CASE Target[k] \in Configured
      <3> DEFINE j == [calls[k] EXCEPT !.step = "graph", !.row = config[Target[k]], !.now = instance]
      <3>1. calls' = [calls EXCEPT ![k] = j]
        BY <1>1, <1>10, <2>1 DEF DeleteFetch
      <3>2. j \in Locals
        BY <1>1 DEF Locals, CallStep
      <3>3. Handed(k, j)
        BY <1>1, <1>2, <1>10, <2>1, <3>2 DEF Handed, Locals, DeleteFetch, Doing, HasRow, Unsaved
      <3> QED
        BY <1>1, <1>10, <2>1, <3>1, <3>2, <3>3, Picks DEF DeleteFetch
    <2>2. CASE ~(Target[k] \in Configured)
      <3>1. Goto(k, IF k \in Attachment THEN "inspect" ELSE "failed")
        BY <1>10, <2>2 DEF DeleteFetch, Finish
      <3>2. Turn(k)
        BY <1>10, <3>1, GoesTo DEF DeleteFetch, Doing, CallStep, Ended, Unsaved, HasRow
      <3> QED
        BY <1>1, <1>10, <2>2, <3>2 DEF DeleteFetch
    <2> QED
      BY <2>1, <2>2
  <1>11. CASE k \in Attachment /\ AttachRead(k)
    <2> DEFINE j == [calls[k] EXCEPT !.step = "read", !.graph = bound, !.original = catalog]
    <2>1. calls' = [calls EXCEPT ![k] = j]
      BY <1>1, <1>11 DEF AttachRead
    <2>2. j \in Locals
      BY <1>1 DEF Locals, CallStep
    <2>3. Handed(k, j)
      BY <1>1, <1>11, <2>2 DEF Handed, Locals, AttachRead, Doing, HasRow
    <2> QED
      BY <1>1, <1>11, <2>1, <2>2, <2>3, Picks DEF AttachRead
  <1>12. CASE k \in Attachment /\ AttachReread(k)
    <2> DEFINE j == [calls[k] EXCEPT !.step = "reread", !.snap = catalog]
    <2>1. calls' = [calls EXCEPT ![k] = j]
      BY <1>1, <1>12 DEF AttachReread
    <2>2. j \in Locals
      BY <1>1 DEF Locals, CallStep
    <2>3. Handed(k, j)
      BY <1>1, <1>12, <2>2 DEF Handed, Locals, AttachReread, Doing, HasRow
    <2> QED
      BY <1>1, <1>12, <2>1, <2>2, <2>3, Picks DEF AttachReread
  <1>13. CASE k \in Attachment /\ AttachInspect(k)
    <2>1. CASE bound = {} \/ instance.status = "ready"
      <3>1. PICK step \in {"undo", "done"} : Goto(k, step)
        BY <1>13, <2>1 DEF AttachInspect
      <3>2. Turn(k)
        BY <1>13, <3>1, GoesTo DEF AttachInspect, Doing, CallStep, Ended, HasRow, Unsaved
      <3> QED
        BY <1>1, <1>13, <3>2 DEF AttachInspect
    <2>2. CASE ~(bound = {} \/ instance.status = "ready")
      <3> DEFINE j == [calls[k] EXCEPT !.step = "activate", !.now = instance]
      <3>1. calls' = [calls EXCEPT ![k] = j]
        BY <1>1, <1>13, <2>2 DEF AttachInspect
      <3>2. j \in Locals
        BY <1>1 DEF Locals, CallStep
      <3>3. Handed(k, j)
        BY <1>1, <1>13, <3>2 DEF Handed, Locals, AttachInspect, Doing, HasRow
      <3> QED
        BY <1>1, <1>13, <3>1, <3>2, <3>3, Picks DEF AttachInspect
    <2> QED
      BY <2>1, <2>2
  <1>14. CASE k \in Attachment /\ UndoInspect(k)
    <2>1. CASE catalog.revision > calls[k].original.revision
      <3> DEFINE j == [calls[k] EXCEPT !.step = "overwrite", !.snap = catalog]
      <3>1. calls' = [calls EXCEPT ![k] = j]
        BY <1>1, <1>14, <2>1 DEF UndoInspect
      <3>2. j \in Locals
        BY <1>1 DEF Locals, CallStep
      <3>3. Handed(k, j)
        BY <1>1, <1>2, <1>14, <2>1, <3>2 DEF Handed, Locals, UndoInspect, Doing, HasRow, Unsaved
      <3> QED
        BY <1>1, <1>14, <2>1, <3>1, <3>2, <3>3, Picks DEF UndoInspect
    <2>2. CASE ~(catalog.revision > calls[k].original.revision)
      <3>1. Goto(k, "failed")
        BY <1>14, <2>2 DEF UndoInspect
      <3>2. Turn(k)
        BY <1>14, <3>1, GoesTo DEF UndoInspect, Doing, CallStep, Ended, Unsaved, HasRow
      <3> QED
        BY <1>1, <1>14, <2>2, <3>2 DEF UndoInspect
    <2> QED
      BY <2>1, <2>2
  <1> QED
    BY <1>3, <1>4, <1>5, <1>6, <1>7, <1>8, <1>9, <1>10, <1>11, <1>12, <1>13, <1>14 DEF Reads

Writes(k) ==
    \/ k \in Refresh /\ RefreshSave(k)
    \/ k \in Rotation /\ (RotatePut(k) \/ RotateSave(k) \/ RotateDrop(k) \/ RotateDiscard(k))
    \/ k \in Edit /\ EditSave(k)
    \/ k \in Deletion \cup Attachment
         /\ \/ DeleteGraph(k) \/ DeleteCatalog(k) \/ DeleteSecret(k)
            \/ RestoreRow(k) \/ RestoreBindings(k) \/ RestoreInstance(k)
    \/ k \in Attachment
         /\ \/ AttachPut(k) \/ AttachSave(k) \/ AttachBind(k) \/ AttachCatalog(k)
            \/ AttachActivate(k) \/ UndoCatalog(k)

LEMMA WritesTurn ==
    ASSUME CredentialsTypeOK, RowsRead, NEW k \in Caller, Writes(k)
    PROVE  Turn(k) /\ lock' \in Refresh \cup {None}
  <1> USE CallsAssumption
  <1>1. /\ calls[k] \in Locals /\ calls \in [Caller -> Locals] /\ lock \in Refresh \cup {None}
        /\ instance \in Instance
    BY DEF CredentialsTypeOK
  <1>2. CASE k \in Refresh /\ RefreshSave(k)
    <2>1. PICK step \in {"done", "failed"} : Goto(k, step)
      BY <1>2 DEF RefreshSave, Unlock
    <2>2. Turn(k)
      BY <1>2, <2>1, GoesTo DEF RefreshSave, Doing, CallStep, Ended, HasRow, Unsaved
    <2> QED
      BY <1>1, <1>2, <2>2 DEF RefreshSave, Unlock
  <1>3. CASE k \in Rotation /\ RotatePut(k)
    <2>1. PICK step \in {"put"} : Goto(k, step)
      BY <1>3 DEF RotatePut
    <2>2. Turn(k)
      BY <1>3, <2>1, GoesTo DEF RotatePut, Doing, CallStep, Ended, HasRow, Unsaved
    <2> QED
      BY <1>1, <1>3, <2>2 DEF RotatePut
  <1>4. CASE k \in Rotation /\ RotateSave(k)
    <2>1. PICK step \in {"saved", "discard"} : Goto(k, step)
      BY <1>4 DEF RotateSave
    <2>2. Turn(k)
      BY <1>4, <2>1, GoesTo DEF RotateSave, Doing, CallStep, Ended, HasRow, Unsaved
    <2> QED
      BY <1>1, <1>4, <2>2 DEF RotateSave
  <1>5. CASE k \in Rotation /\ RotateDrop(k)
    <2>1. PICK step \in {"done", "failed"} : Goto(k, step)
      BY <1>5 DEF RotateDrop
    <2>2. Turn(k)
      BY <1>5, <2>1, GoesTo DEF RotateDrop, Doing, CallStep, Ended, HasRow, Unsaved
    <2> QED
      BY <1>1, <1>5, <2>2 DEF RotateDrop
  <1>6. CASE k \in Rotation /\ RotateDiscard(k)
    <2>1. PICK step \in {"failed"} : Goto(k, step)
      BY <1>6 DEF RotateDiscard
    <2>2. Turn(k)
      BY <1>6, <2>1, GoesTo DEF RotateDiscard, Doing, CallStep, Ended, HasRow, Unsaved
    <2> QED
      BY <1>1, <1>6, <2>2 DEF RotateDiscard
  <1>7. CASE k \in Edit /\ EditSave(k)
    <2>1. PICK step \in {"done", "failed"} : Goto(k, step)
      BY <1>7 DEF EditSave
    <2>2. Turn(k)
      BY <1>7, <2>1, GoesTo DEF EditSave, Doing, CallStep, Ended, HasRow, Unsaved
    <2> QED
      BY <1>1, <1>7, <2>2 DEF EditSave
  <1>8. CASE k \in Deletion \cup Attachment /\ DeleteGraph(k)
    <2>1. PICK step \in {"uncatalog", "inspect", "failed"} : Goto(k, step)
      BY <1>8 DEF DeleteGraph, Finish
    <2>2. Turn(k)
      BY <1>8, <2>1, GoesTo DEF DeleteGraph, Doing, CallStep, Ended, HasRow, Unsaved
    <2> QED
      BY <1>1, <1>8, <2>2 DEF DeleteGraph
  <1>9. CASE k \in Deletion \cup Attachment /\ DeleteCatalog(k)
    <2>1. PICK step \in {"unsecret", "restore"} : Goto(k, step)
      BY <1>9 DEF DeleteCatalog
    <2>2. Turn(k)
      BY <1>9, <2>1, GoesTo DEF DeleteCatalog, Doing, CallStep, Ended, HasRow, Unsaved
    <2> QED
      BY <1>1, <1>9, <2>2 DEF DeleteCatalog
  <1>10. CASE k \in Deletion \cup Attachment /\ DeleteSecret(k)
    <2>1. PICK step \in {"inspect", "done", "failed"} : Goto(k, step)
      BY <1>10 DEF DeleteSecret, Finish
    <2>2. Turn(k)
      BY <1>10, <2>1, GoesTo DEF DeleteSecret, Doing, CallStep, Ended, HasRow, Unsaved
    <2> QED
      BY <1>1, <1>10, <2>2 DEF DeleteSecret
  <1>11. CASE k \in Deletion \cup Attachment /\ RestoreBindings(k)
    <2>1. PICK step \in {"reinstate", "inspect", "failed"} : Goto(k, step)
      BY <1>11 DEF RestoreBindings, Finish
    <2>2. Turn(k)
      BY <1>11, <2>1, GoesTo DEF RestoreBindings, Doing, CallStep, Ended, HasRow, Unsaved
    <2> QED
      BY <1>1, <1>11, <2>2 DEF RestoreBindings
  <1>12. CASE k \in Deletion \cup Attachment /\ RestoreInstance(k)
    <2>1. PICK step \in {"inspect", "failed"} : Goto(k, step)
      BY <1>12 DEF RestoreInstance, Finish
    <2>2. Turn(k)
      BY <1>12, <2>1, GoesTo DEF RestoreInstance, Doing, CallStep, Ended, HasRow, Unsaved
    <2> QED
      BY <1>1, <1>12, <2>2 DEF RestoreInstance
  <1>13. CASE k \in Attachment /\ AttachPut(k)
    <2>1. PICK step \in {"put"} : Goto(k, step)
      BY <1>13 DEF AttachPut
    <2>2. Turn(k)
      BY <1>13, <2>1, GoesTo DEF AttachPut, Doing, CallStep, Ended, HasRow, Unsaved
    <2> QED
      BY <1>1, <1>13, <2>2 DEF AttachPut
  <1>14. CASE k \in Attachment /\ AttachSave(k)
    <2>1. PICK step \in {"saved"} : Goto(k, step)
      BY <1>14 DEF AttachSave
    <2>2. Turn(k)
      BY <1>14, <2>1, GoesTo DEF AttachSave, Doing, CallStep, Ended, HasRow, Unsaved
    <2> QED
      BY <1>1, <1>14, <2>2 DEF AttachSave
  <1>15. CASE k \in Attachment /\ AttachBind(k)
    <2>1. PICK step \in {"bound", "undo"} : Goto(k, step)
      BY <1>15 DEF AttachBind
    <2>2. Turn(k)
      BY <1>15, <2>1, GoesTo DEF AttachBind, Doing, CallStep, Ended, HasRow, Unsaved
    <2> QED
      BY <1>1, <1>15, <2>2 DEF AttachBind
  <1>16. CASE k \in Attachment /\ AttachCatalog(k)
    <2>1. PICK step \in {"cataloged", "undo"} : Goto(k, step)
      BY <1>16 DEF AttachCatalog
    <2>2. Turn(k)
      BY <1>16, <2>1, GoesTo DEF AttachCatalog, Doing, CallStep, Ended, HasRow, Unsaved
    <2> QED
      BY <1>1, <1>16, <2>2 DEF AttachCatalog
  <1>17. CASE k \in Attachment /\ AttachActivate(k)
    <2>1. PICK step \in {"done", "undo"} : Goto(k, step)
      BY <1>17 DEF AttachActivate
    <2>2. Turn(k)
      BY <1>17, <2>1, GoesTo DEF AttachActivate, Doing, CallStep, Ended, HasRow, Unsaved
    <2> QED
      BY <1>1, <1>17, <2>2 DEF AttachActivate
  <1>18. CASE k \in Attachment /\ UndoCatalog(k)
    <2>1. PICK step \in {"failed"} : Goto(k, step)
      BY <1>18 DEF UndoCatalog
    <2>2. Turn(k)
      BY <1>18, <2>1, GoesTo DEF UndoCatalog, Doing, CallStep, Ended, HasRow, Unsaved
    <2> QED
      BY <1>1, <1>18, <2>2 DEF UndoCatalog
  <1>19. CASE k \in Deletion \cup Attachment /\ RestoreRow(k)
    <2>1. CASE \E step \in {"inspect", "failed"} : Goto(k, step)
      <3>1. PICK step \in {"inspect", "failed"} : Goto(k, step)
        BY <2>1
      <3>2. Turn(k)
        BY <1>19, <3>1, GoesTo DEF RestoreRow, Doing, CallStep, Ended, HasRow, Unsaved
      <3> QED
        BY <1>1, <1>19, <3>2 DEF RestoreRow
    <2>2. CASE calls' = [calls EXCEPT ![k].step = "rebind", ![k].now = instance]
      <3> DEFINE j == [calls[k] EXCEPT !.step = "rebind", !.now = instance]
      <3>1. calls' = [calls EXCEPT ![k] = j]
        BY <1>1, <2>2
      <3>2. j \in Locals
        BY <1>1 DEF Locals, CallStep
      <3>3. Handed(k, j)
        BY <1>1, <1>19, <3>2 DEF Handed, Locals, RestoreRow, RowsRead, Doing, HasRow, Unsaved
      <3> QED
        BY <1>1, <1>19, <3>1, <3>2, <3>3, Picks DEF RestoreRow
    <2> QED
      BY <1>19, <2>1, <2>2 DEF RestoreRow, Finish
  <1> QED
    BY <1>2, <1>3, <1>4, <1>5, <1>6, <1>7, <1>8, <1>9, <1>10, <1>11, <1>12, <1>13, <1>14, <1>15, <1>16, <1>17, <1>18, <1>19 DEF Writes

LEMMA NextMoves ==
    ASSUME CredentialsNext
    PROVE  \E k \in Caller : Reads(k) \/ Writes(k)
  BY DEF CredentialsNext, Caller, Refreshing, Rotating, Editing, Deleting, Attaching, Reads, Writes

LEMMA Turned ==
    ASSUME CredentialsTypeOK, RowsRead, NEW k \in Caller, Turn(k)
    PROVE  /\ calls' \in [Caller -> Locals] /\ RowsRead'
           /\ \A h \in Caller \ {k} : calls'[h] = calls[h]
           /\ Handed(k, calls'[k])
  <1>1. PICK j \in Locals : calls' = [calls EXCEPT ![k] = j] /\ Handed(k, j)
    BY DEF Turn
  <1>2. /\ calls' \in [Caller -> Locals] /\ calls'[k] = j
        /\ \A h \in Caller \ {k} : calls'[h] = calls[h]
    BY <1>1 DEF CredentialsTypeOK
  <1>3. RowsRead'
    BY <1>1, <1>2 DEF RowsRead, Handed, HasRow
  <1> QED
    BY <1>1, <1>2, <1>3

-----------------------------------------------------------------------------
(* What a step writes, store by store.                                     *)

\* A snapshot follows the one that was read; only the last step of an undone
\* attachment says something of other credentials.
Recorded(k) ==
    \E m \in [Credential -> Observation] :
        /\ calls[k].snap.revision + 1 > catalog.revision
        /\ catalog' = [revision |-> calls[k].snap.revision + 1, meta |-> m]
        /\ Doing(k, "overwrite")
             \/ \A c \in Credential \ {Target[k]} : m[c] = calls[k].snap.meta[c]

CatalogMoves(k) ==
    /\ UNCHANGED <<config, bound, instance, material, undeleted>>
    /\ UNCHANGED catalog \/ Recorded(k)

\* The rows a call may save.
Made(k, row) ==
    \/ k \in Rotation /\ Doing(k, "put") /\ row = Rotated(k)
    \/ k \in Edit /\ Doing(k, "found") /\ row = [calls[k].row EXCEPT !.revision = @ + 1]
    \/ k \in Deletion \cup Attachment /\ Doing(k, "restore") /\ row = calls[k].row
    \/ k \in Attachment /\ Doing(k, "put") /\ row = [revision |-> 1, secret |-> k]

ConfigMoves(k) ==
    /\ UNCHANGED <<bound, instance, material, undeleted, catalog>>
    /\ \/ UNCHANGED config
       \/ \E row \in CredentialRow :
             /\ Made(k, row) /\ Upserts(Target[k], row)
             /\ config' = [config EXCEPT ![Target[k]] = row]

GraphMoves(k) ==
    /\ UNCHANGED <<material, undeleted, catalog>>
    /\ k \in Deletion \cup Attachment /\ Doing(k, "graph")
    /\ \/ UNCHANGED <<config, bound, instance>> /\ calls'[k].step \in {"inspect", "failed"}
       \/ /\ config' = [config EXCEPT ![Target[k]] = None]
          /\ bound' = bound \ {Target[k]} /\ instance' \in Instance

BindingsMove(k) ==
    /\ UNCHANGED <<config, material, undeleted, catalog, instance>>
    /\ \/ UNCHANGED bound
       \/ bound' = bound \cup {Target[k]} /\ Target[k] \in Configured

InstanceMoves == UNCHANGED <<config, bound, material, undeleted, catalog>> /\ instance' \in Instance

MaterialMoves(k) ==
    /\ UNCHANGED <<config, bound, instance, catalog>>
    /\ \/ k \in Rotation \cup Attachment /\ material' = material \cup {k} /\ UNCHANGED undeleted
       \/ k \in Rotation /\ Doing(k, "saved") /\ DeleteMaterial(calls[k].row.secret)
       \/ k \in Rotation /\ Doing(k, "discard") /\ DeleteMaterial(k)
       \/ /\ k \in Deletion \cup Attachment /\ Doing(k, "unsecret")
          /\ DeleteMaterial(calls[k].row.secret)

Moves(k) ==
    \/ CatalogMoves(k) \/ ConfigMoves(k) \/ GraphMoves(k)
    \/ BindingsMove(k) \/ InstanceMoves \/ MaterialMoves(k)

LEMMA RowsAreRows ==
    ASSUME CredentialsTypeOK, RowsRead, NEW k \in Caller, HasRow(k, calls[k].step)
    PROVE  calls[k].row \in CredentialRow
  BY DEF CredentialsTypeOK, RowsRead, Locals

LEMMA CatalogWrites ==
    ASSUME CredentialsTypeOK, RowsRead, NEW k \in Caller,
           \/ k \in Refresh /\ RefreshSave(k)
           \/ k \in Deletion \cup Attachment /\ DeleteCatalog(k)
           \/ k \in Attachment /\ (AttachCatalog(k) \/ UndoCatalog(k))
    PROVE  CatalogMoves(k)
  <1>1. calls[k] \in Locals /\ Target[k] \in Credential
    BY CallsAssumption DEF CredentialsTypeOK
  <1>2. /\ calls[k].snap \in Snapshot /\ calls[k].original \in Snapshot
        /\ calls[k].snap.meta \in [Credential -> Observation]
        /\ calls[k].original.meta \in [Credential -> Observation]
    BY <1>1 DEF Locals, Snapshot
  <1>3. ASSUME NEW o \in Observation,
               SaveSnapshot(calls[k].snap.revision + 1, [calls[k].snap.meta EXCEPT ![Target[k]] = o])
        PROVE  Recorded(k)
    <2> DEFINE m == [calls[k].snap.meta EXCEPT ![Target[k]] = o]
    <2>1. m \in [Credential -> Observation]
            /\ \A c \in Credential \ {Target[k]} : m[c] = calls[k].snap.meta[c]
      BY <1>2
    <2> QED
      BY <1>3, <2>1 DEF Recorded, SaveSnapshot, Replaces
  <1>4. CASE k \in Refresh /\ RefreshSave(k)
    BY <1>3, <1>4 DEF RefreshSave, CatalogMoves, Observation
  <1>5. CASE k \in Deletion \cup Attachment /\ DeleteCatalog(k)
    BY <1>3, <1>5 DEF DeleteCatalog, CatalogMoves, Observation
  <1>6. CASE k \in Attachment /\ AttachCatalog(k)
    BY <1>3, <1>6 DEF AttachCatalog, CatalogMoves, Observation
  <1>7. CASE k \in Attachment /\ UndoCatalog(k)
    BY <1>2, <1>7 DEF UndoCatalog, CatalogMoves, Recorded, SaveSnapshot, Replaces
  <1> QED
    BY <1>4, <1>5, <1>6, <1>7

LEMMA ConfigWrites ==
    ASSUME CredentialsTypeOK, RowsRead, NEW k \in Caller, Turn(k),
           \/ k \in Rotation /\ RotateSave(k)
           \/ k \in Edit /\ EditSave(k)
           \/ k \in Deletion \cup Attachment /\ RestoreRow(k)
           \/ k \in Attachment /\ AttachSave(k)
    PROVE  ConfigMoves(k)
  <1>1. calls[k] \in Locals /\ calls \in [Caller -> Locals] /\ Target[k] \in Credential
    BY CallsAssumption DEF CredentialsTypeOK
  <1>2. CASE k \in Rotation /\ RotateSave(k)
    <2>1. calls[k].row \in CredentialRow
      BY <1>2, RowsAreRows DEF RotateSave, Doing, HasRow
    <2>2. Rotated(k) \in CredentialRow
      BY <1>2, <2>1 DEF Rotated, CredentialRow, Secret
    <2>3. CASE SaveCredential(Target[k], Rotated(k))
      BY <1>2, <2>2, <2>3 DEF RotateSave, SaveCredential, ConfigMoves, Made
    <2>4. CASE UNCHANGED config /\ Goto(k, "discard")
      BY <1>2, <2>4 DEF RotateSave, ConfigMoves
    <2> QED
      BY <1>2, <2>3, <2>4 DEF RotateSave
  <1>3. CASE k \in Edit /\ EditSave(k)
    <2>1. calls[k].row \in CredentialRow
      BY <1>3, RowsAreRows DEF EditSave, Doing, HasRow
    <2> DEFINE row == [calls[k].row EXCEPT !.revision = @ + 1]
    <2>2. row \in CredentialRow
      BY <2>1 DEF CredentialRow
    <2>3. CASE SaveCredential(Target[k], row)
      BY <1>3, <2>2, <2>3 DEF EditSave, SaveCredential, ConfigMoves, Made
    <2>4. CASE UNCHANGED config /\ Goto(k, "failed")
      BY <1>3, <2>4 DEF EditSave, ConfigMoves
    <2> QED
      BY <1>3, <2>3, <2>4 DEF EditSave
  <1>4. CASE k \in Deletion \cup Attachment /\ RestoreRow(k)
    <2>1. calls[k].row \in CredentialRow
      BY <1>4, RowsAreRows DEF RestoreRow, Doing, HasRow
    <2>3. CASE SaveCredential(Target[k], calls[k].row)
      BY <1>4, <2>1, <2>3 DEF RestoreRow, SaveCredential, ConfigMoves, Made
    <2>4. CASE UNCHANGED config /\ Finish(k, "failed")
      BY <1>4, <2>4 DEF RestoreRow, ConfigMoves
    <2> QED
      BY <1>4, <2>3, <2>4 DEF RestoreRow
  <1>5. CASE k \in Attachment /\ AttachSave(k)
    <2>1. [revision |-> 1, secret |-> k] \in CredentialRow
      BY <1>5 DEF CredentialRow, Secret
    <2> QED
      BY <1>5, <2>1 DEF AttachSave, SaveCredential, ConfigMoves, Made
  <1> QED
    BY <1>2, <1>3, <1>4, <1>5

LEMMA OtherWrites ==
    ASSUME CredentialsTypeOK, RowsRead, NEW k \in Caller
    PROVE  /\ k \in Deletion \cup Attachment /\ DeleteGraph(k) => GraphMoves(k)
           /\ k \in Deletion \cup Attachment /\ RestoreBindings(k) => BindingsMove(k)
           /\ k \in Attachment /\ AttachBind(k) => BindingsMove(k)
           /\ RestoreInstance(k) \/ AttachActivate(k) => InstanceMoves
           /\ \/ k \in Rotation /\ (RotatePut(k) \/ RotateDrop(k) \/ RotateDiscard(k))
              \/ k \in Deletion \cup Attachment /\ DeleteSecret(k)
              \/ k \in Attachment /\ AttachPut(k)
              => MaterialMoves(k)
  <1>1. calls[k] \in Locals /\ calls \in [Caller -> Locals] /\ instance \in Instance
    BY DEF CredentialsTypeOK
  <1>2. instance.revision + 1 \in Nat /\ calls[k].seen.status \in {"draft", "ready"}
    BY <1>1 DEF Instance, Locals
  <1>3. ASSUME k \in Deletion \cup Attachment, DeleteGraph(k) PROVE GraphMoves(k)
    <2>1. CASE Goto(k, "uncatalog") /\ UNCHANGED <<material, undeleted, catalog>>
               /\ config' = [config EXCEPT ![Target[k]] = None] /\ bound' = bound \ {Target[k]}
      BY <1>1, <1>2, <1>3, <2>1 DEF DeleteGraph, GraphMoves, Instance
    <2>2. CASE Finish(k, "failed") /\ UNCHANGED <<material, undeleted, catalog, config, bound, instance>>
      BY <1>1, <1>3, <2>2 DEF DeleteGraph, GraphMoves, Finish, Goto, Ended, Fresh, Locals
    <2> QED
      BY <1>3, <2>1, <2>2 DEF DeleteGraph
  <1>4. ASSUME RestoreBindings(k) PROVE BindingsMove(k)
    BY <1>4 DEF RestoreBindings, BindingsMove
  <1>5. ASSUME AttachBind(k) PROVE BindingsMove(k)
    BY <1>5 DEF AttachBind, GraphReplaceable, BindingsMove
  <1>6. ASSUME RestoreInstance(k) \/ AttachActivate(k) PROVE InstanceMoves
    BY <1>1, <1>2, <1>6 DEF RestoreInstance, AttachActivate, InstanceMoves, Instance
  <1>7. ASSUME k \in Rotation, RotatePut(k) \/ RotateDrop(k) \/ RotateDiscard(k)
        PROVE  MaterialMoves(k)
    BY <1>7 DEF RotatePut, RotateDrop, RotateDiscard, MaterialMoves
  <1>8. ASSUME k \in Deletion \cup Attachment, DeleteSecret(k) PROVE MaterialMoves(k)
    BY <1>8 DEF DeleteSecret, MaterialMoves
  <1>9. ASSUME k \in Attachment, AttachPut(k) PROVE MaterialMoves(k)
    BY <1>9 DEF AttachPut, MaterialMoves
  <1> QED
    BY <1>3, <1>4, <1>5, <1>6, <1>7, <1>8, <1>9

(* Where the steps lead that the invariant speaks of: a secret is put      *)
(* before it is used, a rotation saves its row before it drops anything,   *)
(* and an attachment that is undone loses its row before its secret.       *)
Stored == {"put", "saved", "bound", "reread", "cataloged", "activate", "undo", "fetch",
           "graph", "uncatalog", "unsecret", "restore", "rebind", "reinstate"}
Unrowed == {"uncatalog", "unsecret", "restore"}

Leads(k) ==
    /\ k \in Rotation => (UNCHANGED config \/ calls'[k].step = "saved")
    /\ k \in Rotation /\ calls'[k].step = "put" => k \in material'
    /\ k \in Rotation /\ calls'[k].step = "saved" =>
          /\ Doing(k, "put") /\ calls'[k].row = calls[k].row
          /\ Upserts(Target[k], Rotated(k)) /\ config' = [config EXCEPT ![Target[k]] = Rotated(k)]
    /\ k \in Attachment /\ calls'[k].step \in Stored =>
          \/ k \in material'
          \/ calls[k].step \in Stored /\ UNCHANGED material
    /\ k \in Attachment /\ calls'[k].step \in Unrowed =>
          \/ config'[Target[k]] = None
          \/ calls[k].step \in Unrowed /\ UNCHANGED config

LEMMA GoneTo ==
    ASSUME CredentialsTypeOK, NEW k \in Caller, NEW step \in CallStep, Goto(k, step)
    PROVE  /\ calls'[k].step = step
           /\ step \notin Ended => calls'[k].row = calls[k].row
  <1>1. calls \in [Caller -> Locals] /\ calls[k] \in Locals
    BY DEF CredentialsTypeOK
  <1> QED
    BY <1>1 DEF Goto, Fresh, Locals

LEMMA RotationsLead ==
    ASSUME CredentialsTypeOK, NEW k \in Rotation, Rotating(k)
    PROVE  Leads(k)
  <1>1. k \in Caller /\ k \notin Attachment /\ Target[k] \in Credential
    BY CallsAssumption DEF Caller
  <1>2. calls \in [Caller -> Locals] /\ calls[k] \in Locals
    BY <1>1 DEF CredentialsTypeOK
  <1>3. CASE RotateRead(k)
    <2>1. calls'[k].step \in {"got", "found", "failed"}
      BY <1>1, <1>2, <1>3, GoneTo DEF RotateRead, CallStep, Locals
    <2> QED
      BY <1>1, <1>3, <2>1 DEF Leads, RotateRead, credentialStores
  <1>4. CASE RotateExchange(k)
    <2>1. calls'[k].step \in {"got", "failed"}
      BY <1>1, <1>4, GoneTo DEF RotateExchange, CallStep
    <2> QED
      BY <1>1, <1>4, <2>1 DEF Leads, RotateExchange, credentialStores
  <1>5. CASE RotatePut(k)
    <2>1. calls'[k].step = "put"
      BY <1>1, <1>5, GoneTo DEF RotatePut, CallStep
    <2> QED
      BY <1>1, <1>5, <2>1 DEF Leads, RotatePut
  <1>6. CASE RotateSave(k)
    <2>1. CASE SaveCredential(Target[k], Rotated(k)) /\ Goto(k, "saved")
      <3>1. calls'[k].step = "saved" /\ calls'[k].row = calls[k].row
        BY <1>1, <2>1, GoneTo DEF CallStep, Ended
      <3> QED
        BY <1>1, <1>6, <2>1, <3>1 DEF Leads, RotateSave, SaveCredential
    <2>2. CASE UNCHANGED config /\ Goto(k, "discard")
      <3>1. calls'[k].step = "discard"
        BY <1>1, <2>2, GoneTo DEF CallStep
      <3> QED
        BY <1>1, <2>2, <3>1 DEF Leads
    <2> QED
      BY <1>6, <2>1, <2>2 DEF RotateSave
  <1>7. CASE RotateDrop(k) \/ RotateDiscard(k)
    <2>1. calls'[k].step \in {"done", "failed"}
      BY <1>1, <1>7, GoneTo DEF RotateDrop, RotateDiscard, CallStep
    <2> QED
      BY <1>1, <1>7, <2>1 DEF Leads, RotateDrop, RotateDiscard
  <1> QED
    BY <1>3, <1>4, <1>5, <1>6, <1>7 DEF Rotating

LEMMA AttachmentsLead ==
    ASSUME CredentialsTypeOK, NEW k \in Attachment, Deleting(k) \/ Attaching(k)
    PROVE  Leads(k)
  <1>1. k \in Caller /\ k \notin Rotation /\ Target[k] \in Credential
    BY CallsAssumption DEF Caller
  <1>2. calls \in [Caller -> Locals] /\ calls[k] \in Locals
          /\ config \in [Credential -> CredentialRow \cup {None}]
    BY <1>1 DEF CredentialsTypeOK
  <1>3. CASE AttachRead(k)
    <2>1. calls'[k].step = "read"
      BY <1>1, <1>2, <1>3 DEF AttachRead, Locals
    <2> QED
      BY <1>1, <2>1 DEF Leads, Stored, Unrowed
  <1>4. CASE AttachPut(k)
    <2>1. calls'[k].step = "put"
      BY <1>1, <1>4, GoneTo DEF AttachPut, CallStep
    <2> QED
      BY <1>1, <1>4, <2>1 DEF Leads, Unrowed, AttachPut
  <1>5. CASE AttachSave(k) \/ AttachBind(k) \/ AttachCatalog(k) \/ AttachActivate(k)
    <2>1. calls'[k].step \in {"saved", "bound", "cataloged", "done", "undo"}
      BY <1>1, <1>5, GoneTo DEF AttachSave, AttachBind, AttachCatalog, AttachActivate, CallStep
    <2>2. calls[k].step \in Stored /\ UNCHANGED material
      BY <1>5 DEF AttachSave, AttachBind, AttachCatalog, AttachActivate, Doing, Stored
    <2> QED
      BY <1>1, <2>1, <2>2 DEF Leads, Unrowed
  <1>6. CASE AttachReread(k) \/ AttachInspect(k)
    <2>1. calls'[k].step \in {"reread", "undo", "done", "activate"}
      BY <1>1, <1>2, <1>6, GoneTo DEF AttachReread, AttachInspect, CallStep, Locals
    <2>2. calls[k].step \in Stored /\ UNCHANGED material
      BY <1>6 DEF AttachReread, AttachInspect, credentialStores, Doing, Stored
    <2> QED
      BY <1>1, <2>1, <2>2 DEF Leads, Unrowed
  <1>7. CASE UndoInspect(k) \/ UndoCatalog(k)
    <2>1. calls'[k].step \in {"overwrite", "failed"}
      BY <1>1, <1>2, <1>7, GoneTo DEF UndoInspect, UndoCatalog, CallStep, Locals
    <2> QED
      BY <1>1, <2>1 DEF Leads, Stored, Unrowed
  <1>8. CASE DeleteRead(k) \/ DeleteFetch(k)
    <2>1. calls'[k].step \in {"fetch", "graph", "inspect"}
      BY <1>1, <1>2, <1>8, GoneTo DEF DeleteRead, DeleteFetch, Finish, CallStep, Locals
    <2>2. calls[k].step \in Stored /\ UNCHANGED material
      BY <1>8 DEF DeleteRead, DeleteFetch, Deletes, credentialStores, Doing, Stored
    <2> QED
      BY <1>1, <2>1, <2>2 DEF Leads, Unrowed
  <1>9. CASE DeleteGraph(k)
    <2>1. calls[k].step \in Stored /\ UNCHANGED material
      BY <1>9 DEF DeleteGraph, Doing, Stored
    <2>2. CASE config' = [config EXCEPT ![Target[k]] = None]
      BY <1>1, <1>2, <2>1, <2>2 DEF Leads
    <2>3. CASE Finish(k, "failed")
      <3>1. calls'[k].step = "inspect"
        BY <1>1, <2>3, GoneTo DEF Finish, CallStep
      <3> QED
        BY <1>1, <3>1 DEF Leads, Stored, Unrowed
    <2> QED
      BY <1>9, <2>2, <2>3 DEF DeleteGraph
  <1>10. CASE DeleteCatalog(k)
    BY <1>1, <1>10 DEF DeleteCatalog, Doing, Leads, Stored, Unrowed
  <1>11. CASE DeleteSecret(k)
    <2>1. calls'[k].step = "inspect"
      BY <1>1, <1>11, GoneTo DEF DeleteSecret, Finish, CallStep
    <2> QED
      BY <1>1, <2>1 DEF Leads, Stored, Unrowed
  <1>12. CASE RestoreRow(k) \/ RestoreBindings(k) \/ RestoreInstance(k)
    <2>1. calls'[k].step \in {"rebind", "reinstate", "inspect"}
      BY <1>1, <1>2, <1>12, GoneTo DEF RestoreRow, RestoreBindings, RestoreInstance, Finish,
                                       CallStep, Locals
    <2>2. calls[k].step \in Stored /\ UNCHANGED material
      BY <1>12 DEF RestoreRow, RestoreBindings, RestoreInstance, Doing, Stored
    <2> QED
      BY <1>1, <2>1, <2>2 DEF Leads, Unrowed
  <1> QED
    BY <1>3, <1>4, <1>5, <1>6, <1>7, <1>8, <1>9, <1>10, <1>11, <1>12 DEF Deleting, Attaching

(* Every step is a turn of one call and at most one move of the stores.    *)
LEMMA OneMove ==
    ASSUME CredentialsTypeOK, RowsRead, CredentialsNext
    PROVE  /\ lock' \in Refresh \cup {None}
           /\ \E k \in Caller :
                 Turn(k) /\ Leads(k) /\ (UNCHANGED credentialStores \/ Moves(k))
  <1>1. PICK k \in Caller : Reads(k) \/ Writes(k)
    BY NextMoves
  <1>2. Leads(k)
    <2>1. CASE k \in Rotation
      BY <1>1, <2>1, RotationsLead, CallsAssumption
         DEF Reads, Writes, Rotating
    <2>2. CASE k \in Attachment
      BY <1>1, <2>2, AttachmentsLead, CallsAssumption
         DEF Reads, Writes, Deleting, Attaching
    <2>3. CASE k \notin Rotation /\ k \notin Attachment
      BY <2>3 DEF Leads
    <2> QED
      BY <2>1, <2>2, <2>3
  <1>3. CASE Reads(k)
    BY <1>2, <1>3, ReadsTurn
  <1>4. CASE Writes(k)
    <2>1. Turn(k) /\ lock' \in Refresh \cup {None}
      BY <1>4, WritesTurn
    <2>2. Moves(k)
      BY <1>4, <2>1, CatalogWrites, ConfigWrites, OtherWrites DEF Writes, Moves
    <2> QED
      BY <1>2, <2>1, <2>2
  <1> QED
    BY <1>1, <1>3, <1>4

-----------------------------------------------------------------------------
(* The inductive invariant.                                                *)

(* A snapshot in a call's hands is one the catalog had: with the current   *)
(* revision it is the current one.                                         *)
SnapOK(s) == s.revision <= catalog.revision /\ (s.revision = catalog.revision => s = catalog)

Snapshots ==
    /\ SnapOK(FirstSnapshot)
    /\ \A k \in Caller : SnapOK(calls[k].snap) /\ SnapOK(calls[k].original)

(* A secret belongs to one credential, and no row refers to the secret of  *)
(* a rotation that has not saved it.                                       *)
SecretsOwned ==
    /\ \A c \in Configured : Owner(config[c].secret) = c
    /\ \A k \in Caller : calls[k].row # None => Owner(calls[k].row.secret) = Target[k]

Private(k) ==
    /\ \A c \in Configured : config[c].secret # k
    /\ \A h \in Caller : calls[h].row # None => calls[h].row.secret # k

RotationsPrivate ==
    \A k \in Rotation :
        /\ calls[k].step \in Unsaved => Private(k)
        /\ Doing(k, "put") => k \in material

(* A credential of the start that nobody has begun to delete has a row     *)
(* whose secret is stored; a copy of its row with the current revision is  *)
(* the row; and a rotation that is about to drop a secret has put another  *)
(* one in its place.                                                       *)
Works(c) ==
    /\ config[c] # None /\ config[c].secret \in material
    /\ \A k \in Caller :
          Target[k] = c /\ calls[k].row # None =>
              /\ calls[k].row.revision <= config[c].revision
              /\ calls[k].row.revision = config[c].revision => calls[k].row = config[c]
    /\ \A k \in Rotation :
          Target[k] = c /\ Doing(k, "saved") =>
              /\ calls[k].row.revision < config[c].revision
              /\ calls[k].row.secret # config[c].secret

HeldWork == \A c \in Held : DeletionBegun(c) \/ Works(c)

(* The credential of an attachment that no other call is about.            *)
Alone(a) == \A k \in Caller \ {a} : Target[k] # Target[a]

Brought(a) == [revision |-> 1, secret |-> a]

AttachedWork ==
    \A a \in Attachment : Alone(a) =>
        /\ config[Target[a]] \in {None, Brought(a)}
        /\ calls[a].row \in {None, Brought(a)}
        /\ calls[a].step \in Stored \/ config[Target[a]] # None => a \in material
        /\ calls[a].step \in Unrowed => config[Target[a]] = None

CredentialsInv ==
    /\ CredentialsTypeOK /\ RowsRead /\ BindingsHaveCredentials /\ Snapshots
    /\ SecretsOwned /\ RotationsPrivate /\ HeldWork /\ AttachedWork

\* A step of call k, as the lemmas below see it.
Stepped(k) ==
    CredentialsInv /\ Turn(k) /\ Leads(k) /\ (UNCHANGED credentialStores \/ Moves(k))

Removed(k, c) == /\ k \in Deletion \cup Attachment /\ Doing(k, "graph")
                 /\ c = Target[k] /\ config'[c] = None
Upserted(k, c) == /\ c = Target[k] /\ config'[c] \in CredentialRow
                  /\ Made(k, config'[c]) /\ Upserts(c, config'[c])

LEMMA RowsChange ==
    ASSUME NEW k \in Caller, Stepped(k), NEW c \in Credential
    PROVE  config'[c] = config[c] \/ Removed(k, c) \/ Upserted(k, c)
  <1>1. config \in [Credential -> CredentialRow \cup {None}] /\ Target[k] \in Credential
    BY CallsAssumption DEF Stepped, CredentialsInv, CredentialsTypeOK
  <1>2. CASE UNCHANGED config
    BY <1>2
  <1>3. CASE GraphMoves(k)
    BY <1>1, <1>3 DEF GraphMoves, Removed
  <1>4. CASE ConfigMoves(k)
    BY <1>1, <1>4 DEF ConfigMoves, Upserted
  <1>5. UNCHANGED config \/ GraphMoves(k) \/ ConfigMoves(k)
    BY DEF Stepped, Moves, credentialStores, CatalogMoves, BindingsMove, InstanceMoves,
           MaterialMoves
  <1> QED
    BY <1>2, <1>3, <1>4, <1>5

LEMMA TypesKept ==
    ASSUME NEW k \in Caller, Stepped(k), lock' \in Refresh \cup {None}
    PROVE  CredentialsTypeOK' /\ RowsRead' /\ BindingsHaveCredentials'
  <1>1. CredentialsTypeOK /\ RowsRead /\ BindingsHaveCredentials /\ Turn(k)
    BY DEF Stepped, CredentialsInv
  <1>2. calls' \in [Caller -> Locals] /\ RowsRead'
    BY <1>1, Turned
  <1>3. Target[k] \in Credential
    BY CallsAssumption
  <1>4. CASE UNCHANGED credentialStores
    BY <1>1, <1>2, <1>4 DEF credentialStores, CredentialsTypeOK, BindingsHaveCredentials, Configured
  <1>5. CASE CatalogMoves(k)
    <2>1. catalog' \in Snapshot
      <3>1. CASE UNCHANGED catalog
        BY <1>1, <3>1 DEF CredentialsTypeOK
      <3>2. CASE Recorded(k)
        <4>1. calls[k].snap.revision \in Nat
          BY <1>1 DEF CredentialsTypeOK, Locals, Snapshot
        <4> QED
          BY <3>2, <4>1 DEF Recorded, Snapshot
      <3> QED
        BY <1>5, <3>1, <3>2 DEF CatalogMoves
    <2> QED
      BY <1>1, <1>2, <1>5, <2>1 DEF CatalogMoves, CredentialsTypeOK, BindingsHaveCredentials,
                                    Configured
  <1>6. CASE ConfigMoves(k)
    <2>1. CASE UNCHANGED config
      BY <1>1, <1>2, <1>6, <2>1 DEF ConfigMoves, CredentialsTypeOK, BindingsHaveCredentials,
                                    Configured
    <2>2. ASSUME NEW row \in CredentialRow, config' = [config EXCEPT ![Target[k]] = row]
          PROVE  CredentialsTypeOK' /\ BindingsHaveCredentials'
      <3>1. config' \in [Credential -> CredentialRow \cup {None}]
        BY <1>1, <2>2 DEF CredentialsTypeOK
      <3>2. Configured' = Configured \cup {Target[k]}
        BY <1>1, <1>3, <2>2, NoneAssumption DEF CredentialsTypeOK, Configured
      <3> QED
        BY <1>1, <1>2, <1>6, <3>1, <3>2 DEF ConfigMoves, CredentialsTypeOK, BindingsHaveCredentials
    <2> QED
      BY <1>2, <1>6, <2>1, <2>2 DEF ConfigMoves
  <1>7. CASE GraphMoves(k)
    <2>1. CASE UNCHANGED <<config, bound, instance>>
      BY <1>1, <1>2, <1>7, <2>1 DEF GraphMoves, CredentialsTypeOK, BindingsHaveCredentials,
                                    Configured
    <2>2. CASE /\ config' = [config EXCEPT ![Target[k]] = None]
               /\ bound' = bound \ {Target[k]} /\ instance' \in Instance
      <3>1. config' \in [Credential -> CredentialRow \cup {None}]
        BY <1>1, <2>2 DEF CredentialsTypeOK
      <3>2. Configured' = Configured \ {Target[k]}
        BY <1>1, <1>3, <2>2 DEF CredentialsTypeOK, Configured
      <3> QED
        BY <1>1, <1>2, <1>7, <2>2, <3>1, <3>2 DEF GraphMoves, CredentialsTypeOK,
                                                  BindingsHaveCredentials
    <2> QED
      BY <1>7, <2>1, <2>2 DEF GraphMoves
  <1>8. CASE BindingsMove(k)
    BY <1>1, <1>2, <1>3, <1>8 DEF BindingsMove, CredentialsTypeOK, BindingsHaveCredentials,
                                  Configured
  <1>9. CASE InstanceMoves
    BY <1>1, <1>2, <1>9 DEF InstanceMoves, CredentialsTypeOK, BindingsHaveCredentials, Configured
  <1>10. CASE MaterialMoves(k)
    BY <1>1, <1>2, <1>10 DEF MaterialMoves, DeleteMaterial, CredentialsTypeOK,
                             BindingsHaveCredentials, Configured, Secret
  <1> QED
    BY <1>2, <1>4, <1>5, <1>6, <1>7, <1>8, <1>9, <1>10 DEF Stepped, Moves

LEMMA SnapshotsKept ==
    ASSUME NEW k \in Caller, Stepped(k)
    PROVE  Snapshots'
  <1>1. CredentialsTypeOK /\ RowsRead /\ Snapshots /\ Turn(k)
    BY DEF Stepped, CredentialsInv
  <1>2. /\ Handed(k, calls'[k])
        /\ \A h \in Caller \ {k} : calls'[h] = calls[h]
    BY <1>1, Turned
  <1>3. /\ catalog \in Snapshot /\ FirstSnapshot \in Snapshot
        /\ \A h \in Caller : calls[h].snap \in Snapshot /\ calls[h].original \in Snapshot
    BY <1>1, Firsts DEF CredentialsTypeOK, Locals
  <1>4. \/ catalog' = catalog
        \/ catalog'.revision \in Nat /\ catalog'.revision > catalog.revision
    <2>1. UNCHANGED catalog \/ Recorded(k)
      BY DEF Stepped, Moves, credentialStores, CatalogMoves, ConfigMoves, GraphMoves,
             BindingsMove, InstanceMoves, MaterialMoves
    <2>2. CASE Recorded(k)
      BY <1>3, <2>2 DEF Recorded, Snapshot
    <2> QED
      BY <2>1, <2>2
  <1>5. \A s \in Snapshot : SnapOK(s) =>
            s.revision <= catalog'.revision /\ (s.revision = catalog'.revision => s = catalog')
    BY <1>3, <1>4 DEF SnapOK, Snapshot
  <1>6. SnapOK(catalog)
    BY <1>3 DEF SnapOK, Snapshot
  <1>7. \A h \in Caller :
            /\ calls'[h].snap \in Snapshot /\ SnapOK(calls'[h].snap)
            /\ calls'[h].original \in Snapshot /\ SnapOK(calls'[h].original)
    BY <1>1, <1>2, <1>3, <1>6 DEF Snapshots, Handed
  <1> QED
    BY <1>1, <1>3, <1>5, <1>7 DEF Snapshots, SnapOK

(* A copy of a row is an older copy or the row itself.                     *)
LEMMA RowsInHand ==
    ASSUME NEW k \in Caller, Stepped(k), NEW h \in Caller, calls'[h].row # None
    PROVE  \/ calls'[h].row = calls[h].row
           \/ h = k /\ Target[k] \in Configured /\ calls'[h].row = config[Target[k]]
  <1>1. CredentialsTypeOK /\ RowsRead /\ Turn(k)
    BY DEF Stepped, CredentialsInv
  <1>2. /\ Handed(k, calls'[k])
        /\ \A g \in Caller \ {k} : calls'[g] = calls[g]
    BY <1>1, Turned
  <1>3. Target[k] \in Credential
    BY CallsAssumption
  <1> QED
    BY <1>2, <1>3 DEF Handed, Configured

LEMMA OwnersKept ==
    ASSUME NEW k \in Caller, Stepped(k)
    PROVE  SecretsOwned'
  <1>1. CredentialsTypeOK /\ RowsRead /\ SecretsOwned
    BY DEF Stepped, CredentialsInv
  <1>2. Target[k] \in Credential /\ Owner(k) = Target[k]
    BY CallsAssumption DEF Owner
  <1>3. ASSUME NEW c \in Credential, config'[c] # None
        PROVE  Owner(config'[c].secret) = c
    <2>1. CASE config'[c] = config[c]
      BY <1>1, <1>3, <2>1 DEF SecretsOwned, Configured
    <2>2. CASE Upserted(k, c)
      <3>1. CASE config'[c].secret = k
        BY <1>2, <2>2, <3>1 DEF Upserted
      <3>2. CASE HasRow(k, calls[k].step) /\ config'[c].secret = calls[k].row.secret
        BY <1>1, <1>2, <2>2, <3>2 DEF Upserted, SecretsOwned, RowsRead
      <3>3. config'[c].secret = k
              \/ (HasRow(k, calls[k].step) /\ config'[c].secret = calls[k].row.secret)
        <4>1. HasRow(k, calls[k].step) => calls[k].row \in CredentialRow
          BY <1>1, RowsAreRows
        <4> QED
          BY <2>2, <4>1 DEF Upserted, Made, Rotated, HasRow, Doing, CredentialRow
      <3> QED
        BY <3>1, <3>2, <3>3
    <2> QED
      BY <1>3, <2>1, <2>2, RowsChange DEF Removed
  <1>4. ASSUME NEW h \in Caller, calls'[h].row # None
        PROVE  Owner(calls'[h].row.secret) = Target[h]
    <2>1. CASE calls'[h].row = calls[h].row
      BY <1>1, <1>4, <2>1 DEF SecretsOwned
    <2>2. CASE h = k /\ Target[k] \in Configured /\ calls'[h].row = config[Target[k]]
      BY <1>1, <2>2 DEF SecretsOwned
    <2> QED
      BY <1>4, <2>1, <2>2, RowsInHand
  <1> QED
    BY <1>3, <1>4 DEF SecretsOwned, Configured, Owner

(* What a step takes out of the store: a secret a row it read refers to,   *)
(* or a rotation's own.                                                    *)
LEMMA SecretsGo ==
    ASSUME NEW k \in Caller, Stepped(k), NEW s \in material, s \notin material'
    PROVE  \/ HasRow(k, calls[k].step) /\ s = calls[k].row.secret
                /\ \/ k \in Rotation /\ Doing(k, "saved")
                   \/ k \in Deletion \cup Attachment /\ Doing(k, "unsecret")
           \/ k \in Rotation /\ Doing(k, "discard") /\ s = k
  BY DEF Stepped, Moves, credentialStores, CatalogMoves, ConfigMoves, GraphMoves, BindingsMove,
         InstanceMoves, MaterialMoves, DeleteMaterial, HasRow, Doing

LEMMA RotationsKept ==
    ASSUME NEW k \in Caller, Stepped(k)
    PROVE  RotationsPrivate'
  <1>1. CredentialsTypeOK /\ RowsRead /\ RotationsPrivate /\ Turn(k) /\ Leads(k)
    BY DEF Stepped, CredentialsInv
  <1>2. /\ Handed(k, calls'[k])
        /\ \A h \in Caller \ {k} : calls'[h] = calls[h]
    BY <1>1, Turned
  <1>3. ASSUME NEW r \in Rotation, calls'[r].step \in Unsaved
        PROVE  Private(r)'
    <2>1. r \in Caller /\ calls[r].step \in Unsaved
      BY <1>2, <1>3 DEF Handed, Caller
    <2>2. Private(r)
      BY <1>1, <2>1 DEF RotationsPrivate
    <2>3. ASSUME NEW c \in Credential, config'[c] # None
          PROVE  config'[c].secret # r
      <3>1. CASE config'[c] = config[c]
        BY <2>2, <2>3, <3>1 DEF Private, Configured
      <3>2. CASE Upserted(k, c)
        <4>1. HasRow(k, calls[k].step) => calls[k].row \in CredentialRow /\ calls[k].row # None
          BY <1>1, RowsAreRows DEF RowsRead
        <4>2. CASE k \in Rotation /\ Doing(k, "put") /\ config'[c] = Rotated(k)
          <5>1. k # r
            <6>1. SUFFICES ASSUME k = r PROVE FALSE
              OBVIOUS
            <6>2. config'[c] # config[c]
              BY <2>2, <2>3, <4>2, <6>1 DEF Private, Configured, Rotated
            <6> QED
              BY <1>1, <1>3, <4>2, <6>1, <6>2 DEF Leads, Unsaved
          <5> QED
            BY <4>2, <5>1 DEF Rotated
        <4>3. CASE k \in Edit /\ Doing(k, "found")
                     /\ config'[c] = [calls[k].row EXCEPT !.revision = @ + 1]
          BY <2>2, <4>1, <4>3 DEF Private, HasRow, Doing, CredentialRow
        <4>4. CASE k \in Deletion \cup Attachment /\ Doing(k, "restore")
                     /\ config'[c] = calls[k].row
          BY <2>2, <4>1, <4>4 DEF Private, HasRow, Doing
        <4>5. CASE k \in Attachment /\ config'[c] = [revision |-> 1, secret |-> k]
          BY <4>5, CallsAssumption
        <4> QED
          BY <3>2, <4>2, <4>3, <4>4, <4>5 DEF Upserted, Made
      <3> QED
        BY <2>3, <3>1, <3>2, RowsChange DEF Removed
    <2>4. ASSUME NEW h \in Caller, calls'[h].row # None
          PROVE  calls'[h].row.secret # r
      BY <2>2, <2>4, RowsInHand DEF Private
    <2> QED
      BY <2>3, <2>4 DEF Private, Configured
  <1>4. ASSUME NEW r \in Rotation, calls'[r].step = "put"
        PROVE  r \in material'
    <2>1. CASE r = k
      BY <1>1, <1>4, <2>1 DEF Leads
    <2>2. CASE r # k
      <3>1. r \in Caller /\ calls[r].step = "put"
        BY <1>2, <1>4, <2>2 DEF Caller
      <3>2. r \in material /\ Private(r)
        BY <1>1, <3>1 DEF RotationsPrivate, Doing, Unsaved
      <3>3. HasRow(k, calls[k].step) => calls[k].row.secret # r
        BY <1>1, <3>2 DEF RowsRead, Private
      <3> QED
        BY <2>2, <3>2, <3>3, SecretsGo
    <2> QED
      BY <2>1, <2>2
  <1> QED
    BY <1>3, <1>4 DEF RotationsPrivate, Doing

LEMMA HeldKept ==
    ASSUME NEW k \in Caller, Stepped(k)
    PROVE  HeldWork'
  <1>1. /\ CredentialsTypeOK /\ RowsRead /\ SecretsOwned /\ RotationsPrivate /\ HeldWork
        /\ Turn(k) /\ Leads(k) /\ SecretsOwned'
    BY OwnersKept DEF Stepped, CredentialsInv
  <1>2. /\ Handed(k, calls'[k])
        /\ \A h \in Caller \ {k} : calls'[h] = calls[h]
    BY <1>1, Turned
  <1> SUFFICES ASSUME NEW c \in Held, ~DeletionBegun(c)'
               PROVE  Works(c)'
    BY DEF HeldWork
  <1>3. c \in Credential /\ config \in [Credential -> CredentialRow \cup {None}]
    BY <1>1, CallsAssumption DEF CredentialsTypeOK
  <1>4. ~DeletionBegun(c)
    BY <1>2 DEF DeletionBegun, Doing, Handed, Caller
  <1>5. Works(c) /\ config[c] \in CredentialRow /\ config[c].revision \in Nat
    BY <1>1, <1>3, <1>4 DEF HeldWork, Works, CredentialRow
  <1>6. Target[k] = c => ~(k \in Deletion /\ ~Doing(k, "begin")) /\ k \notin Attachment
    BY <1>4, FreshAttachments DEF DeletionBegun
  <1>7. HasRow(k, calls[k].step) => calls[k].row \in CredentialRow /\ calls[k].row # None
    BY <1>1, RowsAreRows DEF RowsRead
  <1> DEFINE Replaced == k \in Rotation /\ Doing(k, "put") /\ config'[c] = Rotated(k)
  (* What replaces the row is made from the row.                            *)
  <1>8. ASSUME HasRow(k, calls[k].step), Target[k] = c,
               calls[k].row.revision + 1 > config[c].revision
        PROVE  calls[k].row = config[c]
    BY <1>5, <1>7, <1>8 DEF Works, CredentialRow
  <1>9. /\ config'[c] # None
        /\ \/ config'[c] = config[c]
           \/ /\ config'[c].revision = config[c].revision + 1 /\ calls[k].row = config[c]
              /\ config'[c].secret = config[c].secret \/ Replaced
    <2>1. CASE config'[c] = config[c]
      BY <1>5, <2>1 DEF Works
    <2>2. CASE Upserted(k, c)
      <3>1. Target[k] = c /\ config'[c] # None /\ config'[c].revision > config[c].revision
        BY <1>3, <1>5, <2>2, NoneAssumption DEF Upserted, Upserts, Configured, Works
      <3>2. CASE k \in Rotation /\ Doing(k, "put") /\ config'[c] = Rotated(k)
        <4>1. calls[k].row = config[c]
          BY <1>8, <3>1, <3>2 DEF Rotated, HasRow, Doing
        <4> QED
          BY <3>1, <3>2, <4>1 DEF Rotated
      <3>3. CASE k \in Edit /\ Doing(k, "found")
                   /\ config'[c] = [calls[k].row EXCEPT !.revision = @ + 1]
        <4>1. HasRow(k, calls[k].step)
          BY <3>3 DEF HasRow, Doing
        <4>2. /\ config'[c].revision = calls[k].row.revision + 1
              /\ config'[c].secret = calls[k].row.secret
          BY <1>7, <3>3, <4>1 DEF CredentialRow
        <4>3. calls[k].row = config[c]
          BY <1>8, <3>1, <4>1, <4>2
        <4> QED
          BY <3>1, <4>2, <4>3
      <3> QED
        BY <1>6, <2>2, <3>1, <3>2, <3>3 DEF Upserted, Made, Doing
    <2>3. ~Removed(k, c)
      BY <1>6 DEF Removed, Doing
    <2> QED
      BY <1>3, <2>1, <2>2, <2>3, RowsChange
  <1>10. Doing(k, "put") /\ k \in Rotation => Private(k) /\ k \in material
    BY <1>1 DEF RotationsPrivate, Doing, Unsaved
  <1>11. config'[c].secret \in material'
    <2>1. config'[c].secret \in material
      BY <1>5, <1>9, <1>10 DEF Works, Rotated
    <2>2. ASSUME config'[c].secret \notin material' PROVE FALSE
      <3>1. CASE HasRow(k, calls[k].step) /\ config'[c].secret = calls[k].row.secret
                   /\ ((k \in Rotation /\ Doing(k, "saved"))
                        \/ (k \in Deletion \cup Attachment /\ Doing(k, "unsecret")))
        <4>1. Target[k] = c
          <5>1. Owner(config'[c].secret) = c
            BY <1>1, <1>3, <1>9 DEF SecretsOwned, Configured, Owner
          <5>2. Owner(calls[k].row.secret) = Target[k]
            BY <1>1, <1>7, <3>1 DEF SecretsOwned
          <5> QED
            BY <3>1, <5>1, <5>2
        <4>2. k \in Rotation /\ Doing(k, "saved")
          BY <1>6, <3>1, <4>1 DEF Doing
        <4>3. calls[k].row.secret # config[c].secret /\ calls[k].row # config[c]
          BY <1>5, <4>1, <4>2 DEF Works
        <4> QED
          BY <1>9, <3>1, <4>3
      <3>2. CASE k \in Rotation /\ Doing(k, "discard") /\ config'[c].secret = k
        <4>1. Private(k)
          BY <1>1, <3>2 DEF RotationsPrivate, Doing, Unsaved
        <4>2. config[c].secret # k
          BY <1>3, <1>5, <4>1 DEF Private, Configured, Works
        <4> QED
          BY <1>9, <3>2, <4>2 DEF Doing
      <3> QED
        BY <2>1, <2>2, <3>1, <3>2, SecretsGo
    <2> QED
      BY <2>2
  <1>12. ASSUME NEW h \in Caller, Target[h] = c, calls'[h].row # None
         PROVE  /\ calls'[h].row.revision <= config'[c].revision
                /\ calls'[h].row.revision = config'[c].revision => calls'[h].row = config'[c]
    <2>1. calls'[h].row \in CredentialRow
      <3>1. calls'[h] \in Locals
        BY <1>1, Turned
      <3> QED
        BY <1>12, <3>1 DEF Locals
    <2>2. /\ calls'[h].row.revision <= config[c].revision
          /\ calls'[h].row.revision = config[c].revision => calls'[h].row = config[c]
      BY <1>5, <1>12, RowsInHand DEF Works
    <2> QED
      BY <1>5, <1>9, <2>1, <2>2 DEF CredentialRow
  <1>13. ASSUME NEW r \in Rotation, Target[r] = c, calls'[r].step = "saved"
         PROVE  /\ calls'[r].row.revision < config'[c].revision
                /\ calls'[r].row.secret # config'[c].secret
    <2>1. CASE r = k
      <3>1. /\ Doing(k, "put") /\ calls'[k].row = calls[k].row
            /\ Upserts(c, Rotated(k)) /\ config'[c] = Rotated(k)
        BY <1>1, <1>3, <1>13, <2>1 DEF Leads
      <3>2. HasRow(k, calls[k].step) /\ calls[k].row.revision + 1 > config[c].revision
        BY <1>3, <1>5, <2>1, <3>1 DEF HasRow, Doing, Upserts, Rotated, Configured, Works
      <3>3. calls[k].row = config[c]
        BY <1>8, <1>13, <2>1, <3>2
      <3>4. calls[k].row.secret # k
        BY <1>7, <1>10, <2>1, <3>1, <3>2 DEF Private
      <3> QED
        BY <1>5, <2>1, <3>1, <3>3, <3>4 DEF Rotated
    <2>2. CASE r # k
      <3>1. r \in Caller /\ calls'[r] = calls[r] /\ Doing(r, "saved")
        BY <1>2, <1>13, <2>2 DEF Caller, Doing
      <3>2. calls[r].row.revision < config[c].revision /\ calls[r].row.secret # config[c].secret
        BY <1>5, <1>13, <3>1 DEF Works
      <3>3. calls[r].row # None /\ calls[r].row.revision \in Nat
        <4>1. HasRow(r, calls[r].step)
          BY <3>1 DEF HasRow, Doing
        <4> QED
          BY <1>1, <3>1, <4>1, RowsAreRows DEF RowsRead, CredentialRow
      <3>4. Replaced => calls[r].row.secret # k
        BY <1>10, <3>1, <3>3 DEF Private
      <3> QED
        BY <1>5, <1>9, <3>1, <3>2, <3>3, <3>4 DEF Rotated
    <2> QED
      BY <2>1, <2>2
  <1> QED
    BY <1>9, <1>11, <1>12, <1>13 DEF Works, Doing

LEMMA AttachedKept ==
    ASSUME NEW k \in Caller, Stepped(k)
    PROVE  AttachedWork'
  <1>1. /\ CredentialsTypeOK /\ RowsRead /\ SecretsOwned /\ AttachedWork
        /\ Turn(k) /\ Leads(k)
    BY DEF Stepped, CredentialsInv
  <1>2. /\ Handed(k, calls'[k])
        /\ \A h \in Caller \ {k} : calls'[h] = calls[h]
    BY <1>1, Turned
  <1> SUFFICES ASSUME NEW a \in Attachment, Alone(a)
               PROVE  /\ config'[Target[a]] \in {None, Brought(a)}
                      /\ calls'[a].row \in {None, Brought(a)}
                      /\ calls'[a].step \in Stored \/ config'[Target[a]] # None => a \in material'
                      /\ calls'[a].step \in Unrowed => config'[Target[a]] = None
    BY DEF AttachedWork
  <1> DEFINE c == Target[a]
  <1>3. a \in Caller /\ c \in Credential /\ Owner(a) = c /\ a \notin Rotation /\ a \notin Edit
    BY CallsAssumption DEF Caller, Owner
  <1>4. /\ config[c] \in {None, Brought(a)} /\ calls[a].row \in {None, Brought(a)}
        /\ calls[a].step \in Stored \/ config[c] # None => a \in material
        /\ calls[a].step \in Unrowed => config[c] = None
    BY <1>1 DEF AttachedWork
  <1>5. k # a => Target[k] # c
    BY DEF Alone
  <1>6. CASE k # a
    <2>1. config'[c] = config[c] /\ calls'[a] = calls[a]
      BY <1>2, <1>3, <1>5, <1>6, RowsChange DEF Removed, Upserted
    <2>2. ASSUME a \in material PROVE a \in material'
      <3>1. HasRow(k, calls[k].step) => calls[k].row.secret # a
        BY <1>1, <1>3, <1>5, <1>6 DEF RowsRead, SecretsOwned
      <3> QED
        BY <1>6, <2>2, <3>1, SecretsGo
    <2> QED
      BY <1>4, <2>1, <2>2
  <1>7. CASE k = a
    <2>1. config'[c] \in {config[c], None} \/ (Upserted(a, c) /\ config'[c] # None)
      BY <1>3, <1>7, RowsChange, NoneAssumption DEF Removed, Upserted
    <2>2. ASSUME Upserted(a, c), config'[c] # None
          PROVE  config'[c] = Brought(a) /\ calls[a].step \in {"put", "restore"}
      BY <1>3, <1>4, <2>2 DEF Upserted, Made, Brought, Doing
    <2>3. config'[c] \in {None, Brought(a)}
      BY <1>4, <2>1, <2>2
    <2>4. calls'[a].row \in {None, Brought(a)}
      BY <1>3, <1>4, <1>7, RowsInHand
    <2>5. ASSUME config'[c] # None PROVE a \in material'
      <3>1. a \in material
        BY <1>4, <2>1, <2>2, <2>5 DEF Stored
      <3>2. calls[a].step # "unsecret"
        <4>1. CASE config[c] # None
          BY <1>4, <4>1 DEF Unrowed
        <4>2. CASE config[c] = None
          BY <2>1, <2>2, <2>5, <4>2
        <4> QED
          BY <4>1, <4>2
      <3> QED
        BY <1>3, <1>7, <3>1, <3>2, SecretsGo DEF Doing
    <2>6. calls'[a].step \in Stored => a \in material'
      BY <1>1, <1>4, <1>7 DEF Leads
    <2>7. calls'[a].step \in Unrowed => config'[c] = None
      BY <1>1, <1>4, <1>7 DEF Leads
    <2> QED
      BY <2>3, <2>4, <2>5, <2>6, <2>7
  <1> QED
    BY <1>6, <1>7

-----------------------------------------------------------------------------
(* The invariant holds.                                                    *)

LEMMA InitInv ==
    ASSUME CredentialsInit
    PROVE  CredentialsInv
  <1> USE CallsAssumption
  <1>1. /\ config \in [Credential -> CredentialRow \cup {None}]
        /\ \A c \in Held : config[c] = [revision |-> 1, secret |-> c]
        /\ \A c \in Credential \ Held : config[c] = None
    BY DEF CredentialsInit, CredentialRow, Secret
  <1>2. Configured = Held
    <2>1. \A c \in Held : [revision |-> 1, secret |-> c] \in CredentialRow
      BY DEF CredentialRow, Secret
    <2>2. \A c \in Held : config[c] # None /\ c \in Credential
      BY <1>1, <2>1, NoneAssumption
    <2> QED
      BY <1>1, <2>2 DEF Configured
  <1>3. \A k \in Caller : /\ calls[k] = Fresh("begin") /\ calls[k].step = "begin"
                          /\ calls[k].row = None
                          /\ calls[k].snap = FirstSnapshot /\ calls[k].original = FirstSnapshot
    BY DEF CredentialsInit, Fresh
  <1>4. \A c \in Configured : config[c].secret = c /\ c \in Held
    <2>1. \A c \in Held : [revision |-> 1, secret |-> c].secret = c
      OBVIOUS
    <2>2. \A c \in Held : config[c].secret = c
      BY <1>1, <2>1, Zenon
    <2> QED
      BY <1>2, <2>2
  <1>5. CredentialsTypeOK
    <2>1. calls \in [Caller -> Locals]
      BY Firsts DEF CredentialsInit, CallStep
    <2> QED
      BY <1>1, <2>1, Firsts DEF CredentialsInit, CredentialsTypeOK, Secret
  <1>6. RowsRead
    BY <1>3 DEF RowsRead, HasRow
  <1>7. BindingsHaveCredentials
    BY <1>2 DEF CredentialsInit, BindingsHaveCredentials
  <1>8. Snapshots
    BY <1>3 DEF CredentialsInit, Snapshots, SnapOK, FirstSnapshot
  <1>9. SecretsOwned
    BY <1>3, <1>4 DEF SecretsOwned, Owner
  <1>10. RotationsPrivate
    BY <1>3, <1>4 DEF RotationsPrivate, Private, Doing, Caller
  <1>11. HeldWork
    <2>1. \A c \in Held : config[c] # None /\ config[c].secret \in material
      BY <1>1, <1>2 DEF CredentialsInit, Configured
    <2> QED
      BY <1>3, <2>1 DEF HeldWork, Works, Doing, Caller
  <1>12. AttachedWork
    <2>1. \A a \in Attachment : Target[a] \in Credential \ Held /\ a \in Caller
      BY FreshAttachments DEF Caller
    <2> QED
      BY <1>1, <1>3, <2>1 DEF AttachedWork, Stored, Unrowed
  <1> QED
    BY <1>5, <1>6, <1>7, <1>8, <1>9, <1>10, <1>11, <1>12 DEF CredentialsInv

LEMMA StepInv ==
    ASSUME CredentialsInv, [CredentialsNext]_credentialVars
    PROVE  CredentialsInv'
  <1>1. CASE CredentialsNext
    <2>1. CredentialsTypeOK /\ RowsRead
      BY DEF CredentialsInv
    <2>2. PICK k \in Caller : Turn(k) /\ Leads(k) /\ (UNCHANGED credentialStores \/ Moves(k))
      BY <1>1, <2>1, OneMove
    <2>3. Stepped(k) /\ lock' \in Refresh \cup {None}
      BY <1>1, <2>1, <2>2, OneMove DEF Stepped
    <2> QED
      BY <2>3, TypesKept, SnapshotsKept, OwnersKept, RotationsKept, HeldKept, AttachedKept
         DEF CredentialsInv
  <1>2. CASE UNCHANGED credentialVars
    <2>1. /\ CredentialsTypeOK' /\ RowsRead' /\ BindingsHaveCredentials' /\ Snapshots'
          /\ SecretsOwned' /\ RotationsPrivate'
      BY <1>2 DEF CredentialsInv, credentialVars, CredentialsTypeOK, RowsRead,
         BindingsHaveCredentials, Configured, Snapshots, SnapOK, SecretsOwned, Owner,
         RotationsPrivate, Private, Doing
    <2>2. HeldWork'
      BY <1>2 DEF CredentialsInv, credentialVars, HeldWork, Works, DeletionBegun, Doing
    <2>3. AttachedWork'
      BY <1>2 DEF CredentialsInv, credentialVars, AttachedWork
    <2> QED
      BY <2>1, <2>2, <2>3 DEF CredentialsInv
  <1> QED
    BY <1>1, <1>2

(* The stores and the calls keep their types, and everything the invariant *)
(* says of snapshots, rows and secrets holds in every reachable state.     *)
THEOREM CredentialTypes == CredentialsSpec => []CredentialsInv
  <1>1. CredentialsInit => CredentialsInv
    BY InitInv
  <1>2. CredentialsInv /\ [CredentialsNext]_credentialVars => CredentialsInv'
    BY StepInv
  <1> QED
    BY <1>1, <1>2, PTL DEF CredentialsSpec

(* ReplaceAccessGraph and the compensations of a failed deletion never     *)
(* leave a binding of a credential that is not configured.                 *)
THEOREM BindingsStayOwned == CredentialsSpec => []BindingsHaveCredentials
  <1>1. CredentialsInv => BindingsHaveCredentials
    BY DEF CredentialsInv
  <1> QED
    BY <1>1, CredentialTypes, PTL

(* A snapshot that is saved is the stored one with one credential's entry  *)
(* changed: it carries the next revision only if nobody saved in between.  *)
LEMMA OneEntry ==
    ASSUME CredentialsInv, CredentialsNext, NEW c \in Credential,
           catalog'.meta[c] # catalog.meta[c]
    PROVE  \E k \in Caller : calls'[k] # calls[k] /\ (Target[k] = c \/ Doing(k, "overwrite"))
  <1>1. CredentialsTypeOK /\ RowsRead /\ Snapshots
    BY DEF CredentialsInv
  <1>2. PICK k \in Caller : Turn(k) /\ (UNCHANGED credentialStores \/ Moves(k))
    BY <1>1, OneMove
  <1>3. calls'[k] # calls[k]
    BY <1>1, <1>2, Turned DEF Handed
  <1>4. Recorded(k)
    BY <1>2 DEF Moves, credentialStores, CatalogMoves, ConfigMoves, GraphMoves, BindingsMove,
                InstanceMoves, MaterialMoves
  <1>5. calls[k].snap = catalog
    <2>1. calls[k].snap.revision \in Nat /\ catalog.revision \in Nat
      BY <1>1 DEF CredentialsTypeOK, Locals, Snapshot
    <2> QED
      BY <1>1, <1>4, <2>1 DEF Recorded, Snapshots, SnapOK
  <1>6. Doing(k, "overwrite") \/ Target[k] = c
    BY <1>4, <1>5 DEF Recorded
  <1> QED
    BY <1>3, <1>6

(* Refreshes, attachments and deletions of other credentials leave what    *)
(* the catalog says of a credential alone, although each of them saves the *)
(* whole snapshot; an undone attachment is the only exception.             *)
THEOREM OthersStay == CredentialsSpec => OthersKept
  <1> DEFINE Entry ==
        \A c \in Credential : catalog'.meta[c] # catalog.meta[c] =>
          \E k \in Caller : calls'[k] # calls[k] /\ (Target[k] = c \/ Doing(k, "overwrite"))
  <1>1. CredentialsInv /\ [CredentialsNext]_credentialVars => [Entry]_credentialVars
    BY OneEntry
  <1> QED
    BY <1>1, CredentialTypes, PTL DEF CredentialsSpec, OthersKept

(* The secret of a configured credential is stored, for the credentials of *)
(* the start until somebody begins to delete them, and for an attached one *)
(* as long as the attachment is the only call about it: an edit of it that *)
(* meets the attachment's undoing can save its row back without a secret.  *)
SecretsStored ==
    \A c \in Configured :
        c \in Held \/ (\E a \in Attachment : Target[a] = c /\ Alone(a)) =>
            DeletionBegun(c) \/ config[c].secret \in material

(* Rotations, edits and undone attachments leave no row whose secret is    *)
(* gone.                                                                   *)
THEOREM SecretsStayStored == CredentialsSpec => []SecretsStored
  <1>1. CredentialsInv => SecretsStored
    <2> SUFFICES ASSUME CredentialsInv, NEW c \in Configured,
                        c \in Held \/ (\E a \in Attachment : Target[a] = c /\ Alone(a)),
                        ~DeletionBegun(c)
                 PROVE  config[c].secret \in material
      BY DEF SecretsStored
    <2>1. CASE c \in Held
      BY <2>1 DEF CredentialsInv, HeldWork, Works
    <2>2. ASSUME NEW a \in Attachment, Target[a] = c, Alone(a)
          PROVE  config[c].secret \in material
      <3>1. config[c] # None
        BY DEF Configured
      <3>2. config[c] = Brought(a)
        BY <2>2, <3>1 DEF CredentialsInv, AttachedWork
      <3>3. a \in material
        BY <2>2, <3>1 DEF CredentialsInv, AttachedWork
      <3> QED
        BY <3>2, <3>3 DEF Brought
    <2> QED
      BY <2>1, <2>2
  <1> QED
    BY <1>1, CredentialTypes, PTL
=============================================================================
