-------------------------- MODULE RepositoryProofs --------------------------
(***************************************************************************)
(* Proofs about one hosted repository, for any number of clients, keepers, *)
(* digests and tags, any contents of the manifests, and any chunk size.    *)
(*                                                                         *)
(* Everything rests on Inv: a process between a look and what it does on   *)
(* the strength of it holds the lock (LockHeld), so what it saw is still   *)
(* so (PushSound, EraseSound), so a commit and an erase are safe.          *)
(***************************************************************************)
EXTENDS Repository, TLAPS

(* What a manifest cannot be pulled without is part of what it holds, so   *)
(* the row that keeps a blob from being erased is there for each of them.  *)
LEMMA RequiredIsHeld ==
  ASSUME NEW m \in Manifest
  PROVE  Required(m) \subseteq Holds[m]
BY ContentAssumption DEF Required

(* Nothing has happened yet. *)
LEMMA InvInit == Init => Inv
BY ContentAssumption, ProcessAssumption
   DEF Init, Inv, Disciplined, TypeOK, PcStates, LockHeld, PushSound, EraseSound,
       BlobsPresent, TagsResolve, ChildrenPresent, Proc

-----------------------------------------------------------------------------
(***************************************************************************)
(* The discipline of the lock.  It asks nothing of what the rows say, so   *)
(* it is kept also beside one who writes rows otherwise (Restore).         *)
(***************************************************************************)

LEMMA DisciplineStep == Disciplined /\ [Next]_vars => Disciplined'
<1> SUFFICES ASSUME Disciplined, [Next]_vars
             PROVE  Disciplined'
  OBVIOUS
<1> USE ContentAssumption, ProcessAssumption
    DEF TypeOK, PcStates, Proc, Digest, vars, rows, ages, locals, Disciplined, LockHeld, LockFree
<1>1. ASSUME NEW d \in Digest,
             Settle(d)
      PROVE  Disciplined'
  BY <1>1 DEF Settle, PushSound, EraseSound,
         Missing, Needed, Held
<1>2. ASSUME NEW m \in Manifest,
             GrowOld(m)
      PROVE  Disciplined'
  BY <1>2 DEF GrowOld, PushSound, EraseSound,
         Missing, Needed, Held
<1>3. ASSUME NEW m \in Manifest,
             Pull(m)
      PROVE  Disciplined'
  BY <1>3 DEF Pull, Use, PushSound, EraseSound,
         Missing, Needed, Held
<1>4. ASSUME NEW p \in Client, NEW b \in Blob,
             PutBlob(p, b)
      PROVE  Disciplined'
  BY <1>4 DEF PutBlob, Arrive, PushSound, EraseSound,
         Missing, Needed, Held
<1>5. ASSUME NEW p \in Client, NEW m \in Manifest,
                NEW t \in Tag \cup {None},
             PushAdd(p, m, t)
      PROVE  Disciplined'
  BY <1>5 DEF PushAdd, Arrive, PushSound, EraseSound,
         Missing, Needed, Held
<1>6. ASSUME NEW p \in Client,
             PushCheck(p)
      PROVE  Disciplined'
  <2>1. PushSound'
    BY <1>6 DEF PushCheck, PushSound, Missing
  <2>2. EraseSound'
    BY <1>6 DEF PushCheck, EraseSound, Needed, Held
  <2> QED
    BY <1>6, <2>1, <2>2 DEF PushCheck
<1>7. ASSUME NEW p \in Client,
             PushRefuse(p)
      PROVE  Disciplined'
  BY <1>7 DEF PushRefuse, PushOver, PushSound, EraseSound,
         Missing, Needed, Held
<1>8. ASSUME NEW p \in Client,
             PushDeny(p)
      PROVE  Disciplined'
  BY <1>8 DEF PushDeny, PushOver, PushSound, EraseSound,
         Missing, Needed, Held
<1>9. ASSUME NEW p \in Client,
             PushCommit(p)
      PROVE  Disciplined'
  <2>1. man[p] \in Manifest /\ Missing(man[p]) = {}
    BY <1>9 DEF PushCommit, PushSound
  <2>2. \A q \in Proc : doomed[q] = None
    BY <1>9 DEF PushCommit, EraseSound
  <2>3. TypeOK' /\ LockHeld'
    BY <1>9, <2>1 DEF PushCommit, PushOver, Use
  <2>4. PushSound'
    BY <1>9 DEF PushCommit, PushOver, PushSound
  <2>5. EraseSound'
    BY <1>9, <2>2 DEF PushCommit, EraseSound
  <2> QED
    BY <2>3, <2>4, <2>5
<1>10. ASSUME NEW p \in Client, NEW t \in Tag,
              DeleteTag(p, t)
       PROVE  Disciplined'
  BY <1>10 DEF DeleteTag, PushSound, EraseSound,
         Missing, Needed, Held
<1>11. ASSUME NEW p \in Client, NEW m \in Manifest,
              DeleteManifest(p, m)
       PROVE  Disciplined'
  <2>1. \A q \in Proc : pc[q] # "checked"
    BY <1>11 DEF DeleteManifest
  <2>2. TypeOK' /\ LockHeld'
    BY <1>11, <2>1 DEF DeleteManifest, EraseRow, Released, WithoutTags
  <2>3. PushSound'
    BY <1>11, <2>1 DEF DeleteManifest, EraseRow, PushSound
  <2>4. EraseSound'
    BY <1>11 DEF DeleteManifest, EraseRow, EraseSound, Needed, Held, HeldBy
  <2> QED
    BY <2>2, <2>3, <2>4
<1>12. ASSUME NEW p \in Client, NEW d \in Digest,
              DeleteBlob(p, d)
       PROVE  Disciplined'
  BY <1>12 DEF DeleteBlob, PushSound, EraseSound,
         Missing, Needed, Held
<1>13. ASSUME NEW p \in Proc,
              Take(p)
       PROVE  Disciplined'
  BY <1>13 DEF Take, PushSound, EraseSound,
         Missing, Needed, Held
<1>14. ASSUME NEW p \in Proc, NEW d \in Digest,
              Look(p, d)
       PROVE  Disciplined'
  <2>1. EraseSound'
    BY <1>14 DEF Look, EraseSound, Needed, Held
  <2> QED
    BY <1>14, <2>1 DEF Look, PushSound, Missing
<1>15. ASSUME NEW p \in Proc,
              Erase(p)
       PROVE  Disciplined'
  <2>1. lock = p /\ ~Needed(doomed[p])
    BY <1>15 DEF Erase, EraseSound
  <2>2. TypeOK' /\ LockHeld'
    BY <1>15 DEF Erase
  <2>3. PushSound'
    BY <1>15, <2>1 DEF Erase, PushSound, EraseSound
  <2>4. EraseSound'
    BY <1>15 DEF Erase, EraseSound, Needed, Held
  <2> QED
    BY <2>2, <2>3, <2>4
<1>16. ASSUME NEW p \in Proc,
              Unlock(p)
       PROVE  Disciplined'
  BY <1>16 DEF Unlock, PushSound, EraseSound,
         Missing, Needed, Held
<1>17. ASSUME NEW p \in Keeper,
              CollectList(p)
       PROVE  Disciplined'
  BY <1>17 DEF CollectList, Unneeded, PushSound, EraseSound,
         Missing, Needed, Held
<1>18. ASSUME NEW p \in Keeper, NEW m \in Manifest,
              CollectRemove(p, m)
       PROVE  Disciplined'
  <2>1. \A q \in Proc : pc[q] # "checked"
    BY <1>18 DEF CollectRemove
  <2>2. TypeOK' /\ LockHeld'
    BY <1>18, <2>1 DEF CollectRemove, EraseRow, Released, CollectNext
  <2>3. PushSound'
    BY <1>18, <2>1 DEF CollectRemove, EraseRow, PushSound
  <2>4. EraseSound'
    BY <1>18 DEF CollectRemove, EraseRow, EraseSound, Needed, Held, HeldBy
  <2> QED
    BY <2>2, <2>3, <2>4
<1>19. ASSUME NEW p \in Keeper, NEW m \in Manifest,
              CollectSkip(p, m)
       PROVE  Disciplined'
  BY <1>19 DEF CollectSkip, CollectNext, PushSound, EraseSound,
         Missing, Needed, Held
<1>20. ASSUME NEW p \in Keeper,
              SweepWalk(p)
       PROVE  Disciplined'
  BY <1>20 DEF SweepWalk, PushSound, EraseSound,
         Missing, Needed, Held
<1>21. ASSUME NEW p \in Keeper,
              SweepMark(p)
       PROVE  Disciplined'
  BY <1>21 DEF SweepMark, PushSound, EraseSound,
         Missing, Needed, Held
<1>22. ASSUME NEW p \in Keeper,
              SweepDone(p)
       PROVE  Disciplined'
  BY <1>22 DEF SweepDone, PushSound, EraseSound,
         Missing, Needed, Held
<1>23. ASSUME NEW p \in Keeper, NEW ds \in SUBSET list[p],
              SweepChunk(p, ds)
       PROVE  Disciplined'
  BY <1>23 DEF SweepChunk, PushSound, EraseSound,
         Missing, Needed, Held
<1>24. ASSUME NEW p \in Proc,
              Fail(p)
       PROVE  Disciplined'
  BY <1>24 DEF Fail, Stop, PushSound, EraseSound,
         Missing, Needed, Held
<1>25. ASSUME NEW p \in Proc,
              GiveUp(p)
       PROVE  Disciplined'
  BY <1>25 DEF GiveUp, CollectNext, Stop, PushSound, EraseSound,
         Missing, Needed, Held
<1>26. CASE UNCHANGED vars
  BY <1>26 DEF PushSound, EraseSound,
         Missing, Needed, Held
<1> QED
  BY <1>1, <1>2, <1>3, <1>4, <1>5, <1>6, <1>7, <1>8, <1>9, <1>10, <1>11, <1>12,
     <1>13, <1>14, <1>15, <1>16, <1>17, <1>18, <1>19, <1>20, <1>21, <1>22, <1>23, <1>24, <1>25, <1>26
     DEF Next, Request, Collection, Sweep, Erasing, Time

-----------------------------------------------------------------------------
(***************************************************************************)
(* What the rows say.                                                      *)
(***************************************************************************)

(* Who changes a row.                                                      *)
LEMMA RowSteps ==
  ASSUME [Next]_vars
  PROVE  \/ UNCHANGED <<rows, withdrawn>>
         \/ \E p \in Client : PushCommit(p)
         \/ \E p \in Client, t \in Tag : DeleteTag(p, t)
         \/ \E p \in Client, m \in Manifest : DeleteManifest(p, m)
         \/ \E p \in Keeper, m \in Manifest : CollectRemove(p, m)
<1> USE DEF rows, vars
<1>1. ASSUME NEW p \in Client, Request(p),
             ~PushCommit(p), ~ \E t \in Tag : DeleteTag(p, t), ~ \E m \in Manifest : DeleteManifest(p, m)
      PROVE  UNCHANGED <<rows, withdrawn>>
  BY <1>1 DEF Request, PutBlob, PushAdd, PushCheck, PushRefuse, PushDeny, DeleteBlob
<1>2. ASSUME NEW p \in Keeper, Collection(p) \/ Sweep(p), ~ \E m \in Manifest : CollectRemove(p, m)
      PROVE  UNCHANGED <<rows, withdrawn>>
  BY <1>2 DEF Collection, CollectList, CollectSkip, Sweep, SweepWalk, SweepMark, SweepChunk, SweepDone
<1>3. ASSUME NEW p \in Proc, Erasing(p) \/ Fail(p) \/ GiveUp(p)
      PROVE  UNCHANGED <<rows, withdrawn>>
  BY <1>3 DEF Erasing, Take, Look, Erase, Unlock, Fail, GiveUp, CollectNext, Stop
<1>4. Time => UNCHANGED <<rows, withdrawn>>
  BY DEF Time, Settle, GrowOld, Pull
<1> QED
  BY <1>1, <1>2, <1>3, <1>4 DEF Next

(* The only bytes a step takes away are the ones somebody who has the lock *)
(* saw nothing to point to.                                                *)
LEMMA ErasedIsDoomed ==
  ASSUME TypeOK, [Next]_vars
  PROVE  \A d \in store \ store' : \E p \in Proc : doomed[p] = d /\ doomed[p] # None
<1> USE DEF TypeOK, Proc, vars
<1>1. CASE \E p \in Proc : Erase(p)
  BY <1>1 DEF Erase
<1>2. CASE ~ \E p \in Proc : Erase(p)
  <2> SUFFICES store \subseteq store'
    OBVIOUS
  <2>1. ASSUME NEW p \in Client, Request(p)
        PROVE  store \subseteq store'
    BY <2>1 DEF Request, PutBlob, PushAdd, Arrive, PushCheck, PushRefuse, PushDeny, PushCommit,
                DeleteTag, DeleteManifest, DeleteBlob
  <2>2. ASSUME NEW p \in Keeper, Collection(p) \/ Sweep(p)
        PROVE  store \subseteq store'
    BY <2>2 DEF Collection, CollectList, CollectRemove, CollectSkip,
                Sweep, SweepWalk, SweepMark, SweepChunk, SweepDone
  <2>3. ASSUME NEW p \in Proc, Erasing(p) \/ Fail(p) \/ GiveUp(p)
        PROVE  store \subseteq store'
    BY <1>2, <2>3 DEF Erasing, Take, Look, Unlock, Fail, GiveUp, CollectNext, Stop
  <2>4. CASE Time
    BY <2>4 DEF Time, Settle, GrowOld, Pull
  <2> QED
    BY <2>1, <2>2, <2>3, <2>4 DEF Next
<1> QED
  BY <1>1, <1>2

LEMMA TagsStep == Disciplined /\ TagsResolve /\ [Next]_vars => TagsResolve'
<1> SUFFICES ASSUME Disciplined, TagsResolve, [Next]_vars
             PROVE  TagsResolve'
  OBVIOUS
<1> USE ContentAssumption DEF Disciplined, TypeOK, Proc, TagsResolve, rows
<1>1. CASE UNCHANGED <<rows, withdrawn>>
  BY <1>1
<1>2. ASSUME NEW p \in Client, PushCommit(p)
      PROVE  TagsResolve'
  BY <1>2 DEF PushCommit, PushSound
<1>3. ASSUME NEW p \in Client, NEW t \in Tag, DeleteTag(p, t)
      PROVE  TagsResolve'
  BY <1>3 DEF DeleteTag
<1>4. ASSUME NEW p \in Client, NEW m \in Manifest, DeleteManifest(p, m)
      PROVE  TagsResolve'
  BY <1>4 DEF DeleteManifest, EraseRow, WithoutTags
<1>5. ASSUME NEW p \in Keeper, NEW m \in Manifest, CollectRemove(p, m)
      PROVE  TagsResolve'
  BY <1>5 DEF CollectRemove, EraseRow, StillUnneeded, Tagged
<1> QED
  BY <1>1, <1>2, <1>3, <1>4, <1>5, RowSteps

LEMMA BlobsStep == Disciplined /\ BlobsPresent /\ [Next]_vars => BlobsPresent'
<1> SUFFICES ASSUME Disciplined, BlobsPresent, [Next]_vars,
                    NEW m \in manifests', NEW b \in Required(m)
             PROVE  b \in store'
  BY DEF BlobsPresent
<1> USE DEF Disciplined, TypeOK, Proc
<1>1. CASE m \in manifests
  <2>1. b \in store /\ m \in Manifest
    BY <1>1 DEF BlobsPresent
  <2>2. Needed(b)
    BY <1>1, <2>1, RequiredIsHeld DEF Needed, Held, HeldBy
  <2> QED
    BY <2>1, <2>2, ErasedIsDoomed DEF EraseSound
<1>2. CASE m \notin manifests
  <2>1. PICK p \in Client : PushCommit(p) /\ m = man[p]
    <3>1. UNCHANGED <<rows, withdrawn>> => m \in manifests
      BY DEF rows
    <3>2. ASSUME NEW p \in Proc, NEW n \in Manifest, EraseRow(p, n)
          PROVE  m \in manifests
      BY <3>2 DEF EraseRow
    <3>3. ASSUME NEW p \in Client, PushCommit(p)
          PROVE  m \in manifests \cup {man[p]}
      BY <3>3 DEF PushCommit
    <3> QED
      BY <1>2, <3>1, <3>2, <3>3, RowSteps DEF DeleteTag, DeleteManifest, CollectRemove
  <2> QED
    BY <2>1 DEF PushCommit, PushSound, Missing
<1> QED
  BY <1>1, <1>2

LEMMA ChildrenStep == Disciplined /\ ChildrenPresent /\ [Next]_vars => ChildrenPresent'
<1> SUFFICES ASSUME Disciplined, ChildrenPresent, [Next]_vars
             PROVE  ChildrenPresent'
  OBVIOUS
<1> USE DEF Disciplined, TypeOK, Proc, ChildrenPresent, rows
<1>1. CASE UNCHANGED <<rows, withdrawn>>
  BY <1>1
<1>2. ASSUME NEW p \in Client, PushCommit(p)
      PROVE  ChildrenPresent'
  BY <1>2 DEF PushCommit, PushSound, Missing
<1>3. ASSUME NEW p \in Client, NEW t \in Tag, DeleteTag(p, t)
      PROVE  ChildrenPresent'
  BY <1>3 DEF DeleteTag
<1>4. ASSUME NEW p \in Client, NEW m \in Manifest, DeleteManifest(p, m)
      PROVE  ChildrenPresent'
  BY <1>4 DEF DeleteManifest, EraseRow, Children
<1>5. ASSUME NEW p \in Keeper, NEW m \in Manifest, CollectRemove(p, m)
      PROVE  ChildrenPresent'
  BY <1>5 DEF CollectRemove, EraseRow, Children, StillUnneeded, Held, HeldBy
<1> QED
  BY <1>1, <1>2, <1>3, <1>4, <1>5, RowSteps

(* No action breaks what every step is to keep.                            *)
LEMMA InvStep == Inv /\ [Next]_vars => Inv'
BY DisciplineStep, TagsStep, BlobsStep, ChildrenStep DEF Inv

-----------------------------------------------------------------------------

(* The registry keeps what it is to keep, whatever its clients and keepers *)
(* do, in whatever order, and wherever they stop.                          *)
THEOREM Safety == Spec => []Inv
<1>1. Init => Inv
  BY InvInit
<1>2. Inv /\ [Next]_vars => Inv'
  BY InvStep
<1> QED
  BY <1>1, <1>2, PTL DEF Spec

(* An indexed manifest has all it cannot be pulled without                 *)
(* (registry/manifests.go:181-183).                                        *)
THEOREM NoMissingBlobs == Spec => []BlobsPresent
BY Safety, PTL DEF Inv

(* A tag points at a manifest the index has (docs/how-it-works.md:66).     *)
THEOREM NoDanglingTags == Spec => []TagsResolve
BY Safety, PTL DEF Inv

(* Only a client takes an index's children away (gc/gc.go:652-657).        *)
THEOREM NoBrokenIndexes == Spec => []ChildrenPresent
BY Safety, PTL DEF Inv

(* No step takes away bytes something points to: the two clauses of        *)
(* EraseSound, and that nobody erases but so (docs/how-it-works.md:17-19). *)
THEOREM NothingLost == Spec => NoLoss
<1>1. Inv /\ [Next]_vars => [\A d \in store \ store' : d \notin Marks]_vars
  <2> SUFFICES ASSUME Inv, [Next]_vars, NEW d \in store \ store'
               PROVE  d \notin Marks
    OBVIOUS
  <2>1. PICK p \in Proc : doomed[p] = d /\ doomed[p] # None
    BY ErasedIsDoomed DEF Inv, Disciplined
  <2> QED
    BY <2>1 DEF Inv, Disciplined, EraseSound, Needed, Held, Marks
<1> QED
  BY <1>1, Safety, PTL DEF Spec, NoLoss

(* Every step is one the registry promises, or one it does not see.        *)
LEMMA PromiseStep == Disciplined /\ [Next]_vars => [Promise!RegistryNext]_(Promise!registryVars)
<1> SUFFICES ASSUME Disciplined, [Next]_vars
             PROVE  [Promise!RegistryNext]_(Promise!registryVars)
  OBVIOUS
<1> USE ContentAssumption, ProcessAssumption
    DEF Disciplined, TypeOK, Proc, Digest, vars, rows, ages, locals,
        Promise!RegistryNext, Promise!registryVars, Promise!Digest
<1>1. ASSUME NEW p \in Client, NEW b \in Blob,
             PutBlob(p, b)
      PROVE  [Promise!RegistryNext]_(Promise!registryVars)
  <2>1. Promise!Upload(b)
    BY <1>1 DEF PutBlob, Arrive, Promise!Upload
  <2> QED
    BY <2>1
<1>2. ASSUME NEW p \in Client, NEW m \in Manifest,
                NEW t \in Tag \cup {None},
             PushAdd(p, m, t)
      PROVE  [Promise!RegistryNext]_(Promise!registryVars)
  <2>1. Promise!Upload(m)
    BY <1>2 DEF PushAdd, Arrive, Promise!Upload
  <2> QED
    BY <2>1
<1>3. ASSUME NEW p \in Client,
             PushCommit(p)
      PROVE  [Promise!RegistryNext]_(Promise!registryVars)
  <2>1. man[p] \in Manifest /\ Missing(man[p]) = {}
    BY <1>3 DEF PushCommit, PushSound
  <2>2. Promise!Publish(man[p], tag[p])
    BY <1>3, <2>1 DEF PushCommit, Missing, Promise!Publish, Promise!Required, Promise!Children,
                      Required, Children
  <2> QED
    BY <2>1, <2>2
<1>4. ASSUME NEW p \in Client, NEW t \in Tag,
             DeleteTag(p, t)
      PROVE  [Promise!RegistryNext]_(Promise!registryVars)
  <2>1. Promise!Untag(t)
    BY <1>4 DEF DeleteTag, Promise!Untag
  <2> QED
    BY <2>1
<1>5. ASSUME NEW p \in Client, NEW m \in Manifest,
             DeleteManifest(p, m)
      PROVE  [Promise!RegistryNext]_(Promise!registryVars)
  <2>1. Promise!Withdraw(m)
    BY <1>5 DEF DeleteManifest, EraseRow, WithoutTags, Promise!Withdraw, Promise!Untagged
  <2> QED
    BY <2>1
<1>6. ASSUME NEW p \in Keeper, NEW m \in Manifest,
             CollectRemove(p, m)
      PROVE  [Promise!RegistryNext]_(Promise!registryVars)
  <2>1. Promise!Collect(m)
    BY <1>6 DEF CollectRemove, EraseRow, StillUnneeded, Tagged, Held, SubjectHere,
                Promise!Collect, Promise!Tagged, HeldBy, Promise!HeldBy
  <2> QED
    BY <2>1
<1>7. ASSUME NEW p \in Proc,
             Erase(p)
      PROVE  [Promise!RegistryNext]_(Promise!registryVars)
  <2>1. Promise!Reclaim(doomed[p])
    BY <1>7 DEF Erase, EraseSound, Needed, Held, HeldBy,
                Promise!Reclaim, Promise!Referenced, Promise!HeldBy
  <2> QED
    BY <1>7, <2>1 DEF Erase
<1>8. ASSUME NEW p \in Client,
             PushCheck(p) \/ PushRefuse(p) \/ PushDeny(p) \/ \E d \in Digest : DeleteBlob(p, d)
      PROVE  UNCHANGED Promise!registryVars
  BY <1>8 DEF PushCheck, PushRefuse, PushDeny, DeleteBlob
<1>9. ASSUME NEW p \in Keeper,
             CollectList(p) \/ (\E m \in Manifest : CollectSkip(p, m)) \/ Sweep(p)
      PROVE  UNCHANGED Promise!registryVars
  BY <1>9 DEF CollectList, CollectSkip, Sweep, SweepWalk, SweepMark, SweepChunk, SweepDone
<1>10. ASSUME NEW p \in Proc,
              Take(p) \/ (\E d \in Digest : Look(p, d)) \/ Unlock(p) \/ Fail(p) \/ GiveUp(p)
       PROVE  UNCHANGED Promise!registryVars
  BY <1>10 DEF Take, Look, Unlock, Fail, GiveUp, CollectNext, Stop
<1>11. CASE Time
  BY <1>11 DEF Time, Settle, GrowOld, Pull
<1>12. CASE UNCHANGED vars
  BY <1>12
<1> QED
  BY <1>1, <1>2, <1>3, <1>4, <1>5, <1>6, <1>7, <1>8, <1>9, <1>10, <1>11, <1>12
     DEF Next, Request, Collection, Erasing

(* The handlers and the collector implement the registry's promise.        *)
THEOREM Implementation == Spec => ImplementsRegistry
<1>1. Init => Promise!RegistryInit
  BY DEF Init, Promise!RegistryInit
<1>2. Inv /\ [Next]_vars => [Promise!RegistryNext]_(Promise!registryVars)
  BY PromiseStep DEF Inv
<1> QED
  BY <1>1, <1>2, Safety, PTL DEF Spec, ImplementsRegistry, Promise!RegistrySpec
=============================================================================
