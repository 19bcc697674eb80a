---------------------------- MODULE RestoreProofs ----------------------------
(***************************************************************************)
(* Proofs about an import and a rebuild beside a server, for any layout and *)
(* any repository.                                                         *)
(*                                                                         *)
(* What Repository's steps keep they keep here, since RepositoryProofs      *)
(* proves it of a step and not of an execution; of the invariant there only *)
(* BlobsPresent and ChildrenPresent, which a restore breaks, are left out.  *)
(***************************************************************************)
EXTENDS Restore, RepositoryProofs

(* A layout is of manifests, with what they cannot be pulled without.      *)
LEMMA LayoutDigests == Layout \cup UNION {Layers[m] : m \in Layout} \subseteq Digest
BY LayoutAssumption, ContentAssumption DEF Digest

LEMMA RestoreInit0 == RestoreInit => RestoreInv
<1>1. Init => Inv
  BY InvInit
<1> QED
  BY <1>1 DEF RestoreInit, RestoreInv, Inv

(* Rows written while nobody has the lock: nobody is between a look and what *)
(* follows, so whatever they are, nothing that was seen is made untrue.      *)
LEMMA RowsFree ==
  ASSUME Disciplined, lock = None,
         manifests' \subseteq Manifest, tags' \in [Tag -> Manifest \cup {None}],
         recent' \subseteq Manifest, spared' \in [Proc -> SUBSET Digest],
         withdrawn' \subseteq Manifest,
         UNCHANGED <<store, lock, fresh, pc, man, tag, todo, doomed, list, failures>>
  PROVE  Disciplined'
<1>1. \A p \in Proc : pc[p] \notin {"checked", "releasing", "sweeping"} /\ doomed[p] = None
  BY ProcessAssumption DEF Disciplined, LockHeld, EraseSound
<1>2. TypeOK'
  BY DEF Disciplined, TypeOK
<1>3. LockHeld' /\ PushSound' /\ EraseSound'
  BY <1>1 DEF Disciplined, LockHeld, PushSound, EraseSound
<1> QED
  BY <1>2, <1>3 DEF Disciplined

LEMMA RestoredTyped ==
  ASSUME TypeOK, NEW ms \in SUBSET Manifest, NEW new \in SUBSET Manifest, Restored(ms, new)
  PROVE  /\ manifests' \subseteq Manifest
         /\ recent' \subseteq Manifest
         /\ spared' \in [Proc -> SUBSET Digest]
         /\ withdrawn' \subseteq Manifest
BY DEF TypeOK, Restored, Digest

LEMMA ImportKeeps ==
  ASSUME RestoreInv, ImportCommit
  PROVE  RestoreInv'
<1>1. PICK new \in SUBSET (Layout \ manifests) : Restored(Layout, new)
  BY DEF ImportCommit
<1>2. tags' \in [Tag -> Manifest \cup {None}]
  BY LayoutAssumption DEF ImportCommit, ImportTags, RestoreInv, Disciplined, TypeOK
<1>3. Disciplined'
  BY <1>1, <1>2, LayoutAssumption, RestoredTyped, RowsFree DEF RestoreInv, Disciplined, ImportCommit
<1>4. TagsResolve'
  BY <1>1, LayoutAssumption DEF ImportCommit, ImportTags, Restored, RestoreInv, TagsResolve
<1> QED
  BY <1>3, <1>4 DEF RestoreInv, ImportCommit

LEMMA RebuildKeeps ==
  ASSUME RestoreInv, RebuildCommit
  PROVE  RestoreInv'
<1>1. Restored(found, found \ manifests) /\ found \subseteq Manifest
  BY DEF RebuildCommit, RebuildWrite, RestoreInv
<1>2. Disciplined'
  BY <1>1, RestoredTyped, RowsFree DEF RestoreInv, Disciplined, TypeOK, RebuildCommit, RebuildWrite
<1>3. TagsResolve'
  BY <1>1 DEF RebuildCommit, RebuildWrite, Restored, RestoreInv, TagsResolve
<1> QED
  BY <1>2, <1>3 DEF RestoreInv, RebuildCommit, RebuildWrite

(* A blob that arrives while others are between a look and what follows    *)
(* takes nothing from what they saw.                                       *)
LEMMA TakeKeeps ==
  ASSUME RestoreInv, NEW d \in left, ImportTake(d)
  PROVE  RestoreInv'
<1>1. d \in Digest
  BY DEF RestoreInv
<1>2. TypeOK'
  BY <1>1 DEF RestoreInv, Disciplined, TypeOK, ImportTake, Arrive, rows
<1>3. LockHeld' /\ PushSound' /\ EraseSound' /\ TagsResolve'
  BY DEF RestoreInv, Disciplined, LockHeld, PushSound, EraseSound, TagsResolve, ImportTake, Arrive,
         rows, Missing, Needed, Held
<1> QED
  BY <1>2, <1>3 DEF RestoreInv, Disciplined, ImportTake

(* Nothing of the repository changes but the count of failures.            *)
LEMMA QuietKeeps ==
  ASSUME RestoreInv, failures' \in Nat, UNCHANGED <<store, rows, lock, ages, locals, withdrawn>>
  PROVE  Disciplined' /\ TagsResolve'
BY DEF RestoreInv, Disciplined, TypeOK, LockHeld, PushSound, EraseSound, TagsResolve,
       rows, ages, locals, Missing, Needed, Held

LEMMA RestoreStep == RestoreInv /\ [RestoreNext]_allVars => RestoreInv'
<1> SUFFICES ASSUME RestoreInv, [RestoreNext]_allVars
             PROVE  RestoreInv'
  OBVIOUS
<1>1. CASE Next /\ UNCHANGED restoreVars
  BY <1>1, DisciplineStep, TagsStep DEF RestoreInv, restoreVars
<1>2. CASE ImportBegin
  <2>1. Disciplined' /\ TagsResolve'
    BY <1>2, QuietKeeps DEF ImportBegin, vars, RestoreInv, Disciplined, TypeOK
  <2> QED
    BY <1>2, <2>1, LayoutDigests DEF ImportBegin, RestoreInv
<1>3. ASSUME NEW d \in left, ImportTake(d)
      PROVE  RestoreInv'
  BY <1>3, TakeKeeps
<1>4. CASE ImportCommit
  BY <1>4, ImportKeeps
<1>5. CASE RebuildBegin \/ (\E m \in Manifest : RebuildRead(m)) \/ RebuildNone
  <2>1. Disciplined' /\ TagsResolve'
    BY <1>5, QuietKeeps
       DEF RebuildBegin, RebuildRead, RebuildNone, vars, RestoreInv, Disciplined, TypeOK
  <2>2. left' \subseteq Digest /\ found' \subseteq Manifest
    <3>1. CASE RebuildBegin
      BY <3>1 DEF RebuildBegin, RestoreInv, Digest
    <3>2. ASSUME NEW m \in Manifest, RebuildRead(m)
          PROVE  left' \subseteq Digest /\ found' \subseteq Manifest
      <4>1. {m} \cap store \subseteq Manifest
        BY <3>2 DEF RebuildRead
      <4> QED
        BY <3>2, <4>1 DEF RebuildRead, RestoreInv
    <3>3. CASE RebuildNone
      BY <3>3 DEF RebuildNone, RestoreInv
    <3> QED
      BY <1>5, <3>1, <3>2, <3>3
  <2> QED
    BY <1>5, <2>1, <2>2 DEF RebuildBegin, RebuildRead, RebuildNone, RestoreInv
<1>6. CASE RebuildCommit
  BY <1>6, RebuildKeeps
<1>7. CASE RestoreFail
  <2>1. Disciplined' /\ TagsResolve'
    BY <1>7, QuietKeeps DEF RestoreFail, RestoreInv, Disciplined, TypeOK
  <2> QED
    BY <1>7, <2>1 DEF RestoreFail, RestoreInv
<1>8. CASE UNCHANGED allVars
  <2>1. Disciplined' /\ TagsResolve'
    BY <1>8, QuietKeeps DEF allVars, vars, RestoreInv, Disciplined, TypeOK
  <2> QED
    BY <1>8, <2>1 DEF allVars, restoreVars, RestoreInv
<1> QED
  BY <1>1, <1>2, <1>3, <1>4, <1>5, <1>6, <1>7, <1>8 DEF RestoreNext

(* The server, an import and a rebuild keep the lock's discipline.         *)
THEOREM RestoreSafety == RestoreSpec => []RestoreInv
BY RestoreInit0, RestoreStep, PTL DEF RestoreSpec

(* No tag is left on a manifest with no row, however out of date what an   *)
(* import or a rebuild writes is (docs/operating.md:992).                  *)
THEOREM RestoredTags == RestoreSpec => []TagsResolve
<1>1. RestoreInv => TagsResolve
  BY DEF RestoreInv
<1> QED
  BY <1>1, RestoreSafety, PTL

(* Neither takes bytes away, so what is taken away is what the server does, *)
(* and that was seen under the lock to be needed by nothing.                *)
LEMMA OnlyServerErases ==
  ASSUME RestoreInv, [RestoreNext]_allVars, NEW d \in store \ store'
  PROVE  d \notin Marks
<1>1. Next
  BY DEF RestoreNext, ImportBegin, ImportTake, Arrive, ImportCommit, RebuildBegin, RebuildRead,
         RebuildNone, RebuildCommit, RebuildWrite, RestoreFail, allVars, vars
<1>2. PICK p \in Proc : doomed[p] = d /\ doomed[p] # None
  BY <1>1, ErasedIsDoomed DEF RestoreInv, Disciplined
<1> QED
  BY <1>2 DEF RestoreInv, Disciplined, EraseSound, Needed, Held, Marks

(* What a restore writes rows for is not taken away (docs/how-it-works.md:  *)
(* 17-19).                                                                  *)
THEOREM RestoredNothingLost == RestoreSpec => NoLoss
<1>1. RestoreInv /\ [RestoreNext]_allVars => [\A d \in store \ store' : d \notin Marks]_vars
  BY OnlyServerErases
<1> QED
  BY <1>1, RestoreSafety, PTL DEF RestoreSpec, NoLoss

(* Every step is one the registry promises, brings manifests back, or is    *)
(* one it does not see.                                                     *)
LEMMA RestoredPromiseStep ==
  RestoreInv /\ [RestoreNext]_allVars => [Promise!RestoredNext]_(Promise!registryVars)
<1> SUFFICES ASSUME RestoreInv, [RestoreNext]_allVars
             PROVE  [Promise!RestoredNext]_(Promise!registryVars)
  OBVIOUS
<1>1. CASE [Next]_vars
  BY <1>1, PromiseStep DEF RestoreInv, Promise!RestoredNext
<1>2. ASSUME NEW d \in left, ImportTake(d)
      PROVE  Promise!RestoredNext
  <2>1. d \in Promise!Digest
    BY <1>2 DEF RestoreInv, Digest, Promise!Digest
  <2>2. Promise!Upload(d)
    BY <1>2 DEF ImportTake, Arrive, rows, Promise!Upload
  <2> QED
    BY <2>1, <2>2 DEF Promise!RestoredNext, Promise!RegistryNext
<1>3. CASE ImportCommit
  <2>1. PICK new \in SUBSET (Layout \ manifests) : Restored(Layout, new)
    BY <1>3 DEF ImportCommit
  <2>2. \A m \in Layout : Promise!Children(m) \subseteq Layout
    BY LayoutAssumption DEF Children, Promise!Children
  <2>3. /\ tags' = [t \in Tag |-> tags'[t]]
        /\ \A t \in Tag : tags'[t] \in Layout \cup {tags[t]}
    BY <1>3, LayoutAssumption DEF ImportCommit, ImportTags
  <2>4. Promise!Bring(Layout)
    BY <1>3, <2>1, <2>2, <2>3 DEF ImportCommit, Restored, Promise!Bring
  <2> QED
    BY <2>4, LayoutAssumption DEF Promise!RestoredNext
<1>4. CASE RebuildCommit
  <2>1. Promise!Bring(found)
    BY <1>4 DEF RebuildCommit, RebuildWrite, Restored, Promise!Bring
  <2> QED
    BY <2>1 DEF RestoreInv, Promise!RestoredNext
<1>5. CASE \/ ImportBegin \/ RebuildBegin \/ (\E m \in Manifest : RebuildRead(m)) \/ RebuildNone
          \/ RestoreFail \/ UNCHANGED allVars
  BY <1>5 DEF ImportBegin, RebuildBegin, RebuildRead, RebuildNone, RestoreFail, allVars, vars, rows, Promise!registryVars
<1> QED
  BY <1>1, <1>2, <1>3, <1>4, <1>5 DEF RestoreNext

(* What the registry promises is left as it was, but that manifests come    *)
(* back.                                                                    *)
THEOREM RestoredImplementation == RestoreSpec => ImplementsRestored
<1>1. RestoreInit => Promise!RegistryInit
  BY DEF RestoreInit, Init, Promise!RegistryInit
<1> QED
  BY <1>1, RestoredPromiseStep, RestoreSafety, PTL
     DEF RestoreSpec, ImplementsRestored, Promise!RestoredSpec
=============================================================================
