----------------------------- MODULE Repository -----------------------------
(***************************************************************************)
(* One hosted repository: its store of bytes, its rows in the index, its   *)
(* lock, and the goroutines that work on the three.                        *)
(*                                                                         *)
(* Clients push blobs and manifests, delete manifests, tags and blobs      *)
(* (registry/manifests.go, registry/blobs.go).  Keepers are the goroutines *)
(* of the collector, which delete untagged manifests and sweep the store   *)
(* (gc/gc.go, gc/sweep.go); on several replicas the online and the full    *)
(* collection may run at once.                                             *)
(*                                                                         *)
(* A transaction (Index.Tx) is one step when all it does is read and write *)
(* rows, since nobody sees a row before it commits.  It is two steps when  *)
(* it looks at the store first, and what is done under Index.Lock is a     *)
(* step per look and per erase: the index and the store change separately. *)
(***************************************************************************)
EXTENDS Content, Naturals, FiniteSets

CONSTANTS
  Client,      \* goroutines that serve requests
  Keeper,      \* goroutines that collect
  ChunkSize,   \* gc.sweepChunk
  Aged,        \* gc.delay is not negative, and the store knows when bytes arrived
  MaxFailures  \* how often work is given up part way; bounds the model

Proc == Client \cup Keeper

ASSUME ProcessAssumption ==
  /\ Client \cap Keeper = {}
  /\ None \notin Proc
  /\ ChunkSize \in Nat \ {0}
  /\ Aged \in BOOLEAN
  /\ MaxFailures \in Nat

VARIABLES
  (* The repository. *)
  store,      \* digests whose bytes the repository's store has
  manifests,  \* manifests with a row in the index
  tags,       \* tags[t]: the manifest t points at, or None
  lock,       \* who has the repository's lock, or None

  (* Time, as the two ages anything asks about. *)
  fresh,      \* digests that entered the store within gc.delay
  recent,     \* manifests created or pulled within the grace period

  (* A goroutine and its locals. *)
  pc,         \* pc[p]: where p is
  man,        \* man[p]: the manifest p is pushing, or None
  tag,        \* tag[p]: the tag it is pushed by, or None
  todo,       \* todo[p]: what p has to look at under the lock
  doomed,     \* doomed[p]: what p has seen nothing refers to, or None
  list,       \* list[p]: what a collection or a sweep has yet to get to
  spared,     \* spared[p]: what is not old as of when that began

  (* For the properties. *)
  withdrawn,  \* manifests a client deleted and nobody pushed since
  failures    \* how often work was given up

rows   == <<manifests, tags>>
ages   == <<fresh, recent>>
locals == <<pc, man, tag, todo, doomed, list, spared>>
vars   == <<store, rows, lock, ages, locals, withdrawn, failures>>

PcStates == {"idle",
             "added",      \* the manifest's bytes are stored
             "checked",    \* in the transaction, nothing was missing
             "release",    \* the rows are gone, what they held is not
             "releasing",  \* the same, with the lock
             "collect",    \* between two candidates
             "walked",     \* the store was walked
             "sweep",      \* the marks were taken off; between two chunks
             "chunk",      \* has a chunk to look at
             "sweeping"}   \* the same, with the lock

TypeOK ==
  /\ store \subseteq Digest
  /\ manifests \subseteq Manifest
  /\ tags \in [Tag -> Manifest \cup {None}]
  /\ lock \in Proc \cup {None}
  /\ fresh \subseteq Digest
  /\ recent \subseteq Manifest
  /\ pc \in [Proc -> PcStates]
  /\ man \in [Proc -> Manifest \cup {None}]
  /\ tag \in [Proc -> Tag \cup {None}]
  /\ todo \in [Proc -> SUBSET Digest]
  /\ doomed \in [Proc -> Digest \cup {None}]
  /\ list \in [Proc -> SUBSET Digest]
  /\ spared \in [Proc -> SUBSET Digest]
  /\ withdrawn \subseteq Manifest
  /\ failures \in Nat

Init ==
  /\ store = {}
  /\ manifests = {}
  /\ tags = [t \in Tag |-> None]
  /\ lock = None
  /\ fresh = {}
  /\ recent = {}
  /\ pc = [p \in Proc |-> "idle"]
  /\ man = [p \in Proc |-> None]
  /\ tag = [p \in Proc |-> None]
  /\ todo = [p \in Proc |-> {}]
  /\ doomed = [p \in Proc |-> None]
  /\ list = [p \in Proc |-> {}]
  /\ spared = [p \in Proc |-> {}]
  /\ withdrawn = {}
  /\ failures = 0

-----------------------------------------------------------------------------
(***************************************************************************)
(* What the handlers ask of the index and the store.                       *)
(***************************************************************************)

(* Manifests.Holds: does a row say that some manifest holds d? *)
Held(d) == d \in HeldBy(manifests)

(* Looked at again under the lock before d is erased. *)
NeededIgnoringHolders(d) == d \in manifests
Needed(d) == Held(d) \/ d \in manifests

Tagged(m) == \E t \in Tag : tags[t] = m

(* The tags, once those on m are erased. *)
WithoutTags(m) == [t \in Tag |-> IF tags[t] = m THEN None ELSE tags[t]]

(* Manifests.Erase answers what m held that nothing refers to any more. *)
Released(m) ==
  {d \in Holds[m] : d \notin (manifests \ {m}) \cup HeldBy(manifests \ {m})}

(* What a push of m names and the repository does not have. *)
MissingChildrenOnly(m) == Children(m) \ manifests
Missing(m) == (Required(m) \ store) \cup (Children(m) \ manifests)

(* Its subject is set and in the repository, which keeps a referrer. *)
SubjectHere(m) == Subject[m] \in manifests

-----------------------------------------------------------------------------
(***************************************************************************)
(* The lock, and the ages a collection or a sweep that is under way keeps  *)
(* to.  Their cutoff is fixed when they begin, so what arrives or is used  *)
(* after that is never old to them.                                        *)
(***************************************************************************)

LockIgnored(p) == lock \in Proc \cup {None}
LockFree(p) == lock = None

Collecting(p) ==
  \/ pc[p] = "collect"
  \/ pc[p] \in {"release", "releasing"} /\ list[p] # {}

Sweeping(p) == pc[p] \in {"walked", "sweep", "chunk", "sweeping"}

(* d enters the store; one already there keeps the time it arrived. *)
Arrive(d) ==
  /\ store' = store \cup {d}
  /\ IF d \in store
     THEN UNCHANGED <<fresh, spared>>
     ELSE /\ fresh' = fresh \cup {d}
          /\ spared' = [p \in Proc |-> IF Sweeping(p) THEN spared[p] \cup {d} ELSE spared[p]]

(* m was created or pulled just now. *)
Use(m) ==
  /\ recent' = recent \cup {m}
  /\ spared' = [p \in Proc |-> IF Collecting(p) THEN spared[p] \cup {m} ELSE spared[p]]

Settle(d) ==
  /\ d \in fresh
  /\ fresh' = fresh \ {d}
  /\ UNCHANGED <<store, rows, lock, recent, locals, withdrawn, failures>>

GrowOld(m) ==
  /\ m \in recent
  /\ recent' = recent \ {m}
  /\ UNCHANGED <<store, rows, lock, fresh, locals, withdrawn, failures>>

(* A pull, once the batch it was queued in is written. *)
Pull(m) ==
  /\ m \in manifests
  /\ Use(m)
  /\ UNCHANGED <<store, rows, lock, fresh, pc, man, tag, todo, doomed, list, withdrawn, failures>>

-----------------------------------------------------------------------------
(***************************************************************************)
(* Pushes.                                                                 *)
(***************************************************************************)

(* A blob is stored: in one request, as a session's commit, or by a mount. *)
(* No lock, no index, and nothing at all for a constant blob.              *)
PutBlob(p, b) ==
  /\ pc[p] = "idle"
  /\ b \notin WellKnown
  /\ Arrive(b)
  /\ UNCHANGED <<rows, lock, recent, pc, man, tag, todo, doomed, list, withdrawn, failures>>

(* A manifest push stores the bytes first, before it asks for the lock. *)
PushAdd(p, m, t) ==
  /\ pc[p] = "idle"
  /\ Arrive(m)
  /\ pc' = [pc EXCEPT ![p] = "added"]
  /\ man' = [man EXCEPT ![p] = m]
  /\ tag' = [tag EXCEPT ![p] = t]
  /\ UNCHANGED <<rows, lock, recent, todo, doomed, list, withdrawn, failures>>

(* Inside the transaction, nothing m names is missing. *)
PushCheck(p) ==
  /\ pc[p] = "added"
  /\ LockFree(p)
  /\ Missing(man[p]) = {}
  /\ lock' = p
  /\ pc' = [pc EXCEPT ![p] = "checked"]
  /\ UNCHANGED <<store, rows, ages, man, tag, todo, doomed, list, spared, withdrawn, failures>>

PushOver(p) ==
  /\ pc' = [pc EXCEPT ![p] = "idle"]
  /\ man' = [man EXCEPT ![p] = None]
  /\ tag' = [tag EXCEPT ![p] = None]

(* Something is: MANIFEST_BLOB_UNKNOWN, and the bytes are left behind. *)
PushRefuse(p) ==
  /\ pc[p] = "added"
  /\ LockFree(p)
  /\ Missing(man[p]) # {}
  /\ PushOver(p)
  /\ UNCHANGED <<store, rows, lock, ages, todo, doomed, list, spared, withdrawn, failures>>

(* A tag rule denies making or moving the tag, and the transaction is      *)
(* rolled back.                                                            *)
PushDeny(p) ==
  /\ pc[p] = "checked"
  /\ tag[p] # None
  /\ tags[tag[p]] # man[p]
  /\ PushOver(p)
  /\ lock' = None
  /\ UNCHANGED <<store, rows, ages, todo, doomed, list, spared, withdrawn, failures>>

(* The row, if there is none yet, what it holds, and the tag. *)
PushCommit(p) ==
  /\ pc[p] = "checked"
  /\ manifests' = manifests \cup {man[p]}
  /\ IF man[p] \in manifests THEN UNCHANGED <<recent, spared>> ELSE Use(man[p])
  /\ tags' = IF tag[p] = None THEN tags ELSE [tags EXCEPT ![tag[p]] = man[p]]
  /\ withdrawn' = withdrawn \ {man[p]}
  /\ lock' = None
  /\ PushOver(p)
  /\ UNCHANGED <<store, fresh, todo, doomed, list, failures>>

-----------------------------------------------------------------------------
(***************************************************************************)
(* Deletes.  The index first; what it released is erased after.            *)
(***************************************************************************)

DeleteTag(p, t) ==
  /\ pc[p] = "idle"
  /\ LockFree(p)
  /\ tags[t] # None
  /\ tags' = [tags EXCEPT ![t] = None]
  /\ UNCHANGED <<store, manifests, lock, ages, locals, withdrawn, failures>>

(* m's row is erased in a transaction, and p has what it released to see   *)
(* to: what it held, if nothing else refers to it, and its own bytes.      *)
EraseRow(p, m) ==
  /\ manifests' = manifests \ {m}
  /\ recent' = recent \ {m}
  /\ todo' = [todo EXCEPT ![p] = Released(m) \cup {m}]
  /\ pc' = [pc EXCEPT ![p] = "release"]

DeleteManifest(p, m) ==
  /\ pc[p] = "idle"
  /\ LockFree(p)
  /\ m \in manifests
  /\ EraseRow(p, m)
  /\ tags' = WithoutTags(m)
  /\ withdrawn' = withdrawn \cup {m}
  /\ UNCHANGED <<store, lock, fresh, man, tag, doomed, list, spared, failures>>

(* A blob is looked at under the lock, and erased if nothing refers to it. *)
DeleteBlob(p, d) ==
  /\ pc[p] = "idle"
  /\ LockFree(p)
  /\ d \in store \ WellKnown
  /\ ~Needed(d)
  /\ lock' = p
  /\ todo' = [todo EXCEPT ![p] = {d}]
  /\ doomed' = [doomed EXCEPT ![p] = d]
  /\ pc' = [pc EXCEPT ![p] = "releasing"]
  /\ UNCHANGED <<store, rows, ages, man, tag, list, spared, withdrawn, failures>>

-----------------------------------------------------------------------------
(***************************************************************************)
(* Erasing under the lock: gc.Release, a blob delete, a sweep's chunk.     *)
(***************************************************************************)

Take(p) ==
  /\ pc[p] \in {"release", "chunk"}
  /\ LockFree(p)
  /\ lock' = p
  /\ pc' = [pc EXCEPT ![p] = IF @ = "release" THEN "releasing" ELSE "sweeping"]
  /\ UNCHANGED <<store, rows, ages, man, tag, todo, doomed, list, spared, withdrawn, failures>>

(* d is looked at again: kept if something refers to it by now. *)
Look(p, d) ==
  /\ pc[p] \in {"releasing", "sweeping"}
  /\ doomed[p] = None
  /\ d \in todo[p]
  /\ IF Needed(d)
     THEN /\ todo' = [todo EXCEPT ![p] = @ \ {d}]
          /\ UNCHANGED doomed
     ELSE /\ doomed' = [doomed EXCEPT ![p] = d]
          /\ UNCHANGED todo
  /\ UNCHANGED <<store, rows, lock, ages, pc, man, tag, list, spared, withdrawn, failures>>

Erase(p) ==
  /\ doomed[p] # None
  /\ store' = store \ {doomed[p]}
  /\ fresh' = fresh \ {doomed[p]}
  /\ todo' = [todo EXCEPT ![p] = @ \ {doomed[p]}]
  /\ doomed' = [doomed EXCEPT ![p] = None]
  /\ UNCHANGED <<rows, lock, recent, pc, man, tag, list, spared, withdrawn, failures>>

(* On to the next candidate or the next chunk, or done. *)
Unlock(p) ==
  /\ pc[p] \in {"releasing", "sweeping"}
  /\ doomed[p] = None
  /\ todo[p] = {}
  /\ lock' = None
  /\ pc' = [pc EXCEPT ![p] = IF @ = "sweeping" THEN "sweep"
                             ELSE IF list[p] = {} THEN "idle" ELSE "collect"]
  /\ UNCHANGED <<store, rows, ages, man, tag, todo, doomed, list, spared, withdrawn, failures>>

-----------------------------------------------------------------------------
(***************************************************************************)
(* The online collection's untagged manifests.                             *)
(***************************************************************************)

(* Manifests.Unneeded, read without the lock, with the cutoff as of now. *)
Unneeded ==
  {m \in manifests : m \notin recent /\ ~Tagged(m) /\ ~Held(m) /\ ~SubjectHere(m)}

CollectList(p) ==
  /\ pc[p] = "idle"
  /\ Unneeded # {}
  /\ list' = [list EXCEPT ![p] = Unneeded]
  /\ spared' = [spared EXCEPT ![p] = recent]
  /\ pc' = [pc EXCEPT ![p] = "collect"]
  /\ UNCHANGED <<store, rows, lock, ages, man, tag, todo, doomed, withdrawn, failures>>

(* Looked at again in the transaction that deletes it. *)
StillUnneededIgnoringHolders(p, m) ==
  m \in manifests /\ m \notin spared[p] /\ ~Tagged(m) /\ ~SubjectHere(m)
StillUnneededIgnoringTags(p, m) ==
  m \in manifests /\ m \notin spared[p] /\ ~Held(m) /\ ~SubjectHere(m)
StillUnneededIgnoringSubject(p, m) ==
  m \in manifests /\ m \notin spared[p] /\ ~Tagged(m) /\ ~Held(m)
StillUnneeded(p, m) ==
  m \in manifests /\ m \notin spared[p] /\ ~Tagged(m) /\ ~Held(m) /\ ~SubjectHere(m)

(* The last candidate is behind it when nothing is left of the list. *)
CollectNext(p, m) ==
  /\ list' = [list EXCEPT ![p] = @ \ {m}]
  /\ spared' = [spared EXCEPT ![p] = IF list[p] = {m} THEN {} ELSE @]

CollectRemove(p, m) ==
  /\ pc[p] = "collect"
  /\ m \in list[p]
  /\ LockFree(p)
  /\ StillUnneeded(p, m)
  /\ EraseRow(p, m)
  /\ CollectNext(p, m)
  /\ UNCHANGED <<store, tags, lock, fresh, man, tag, doomed, withdrawn, failures>>

CollectSkip(p, m) ==
  /\ pc[p] = "collect"
  /\ m \in list[p]
  /\ LockFree(p)
  /\ ~StillUnneeded(p, m)
  /\ CollectNext(p, m)
  /\ pc' = [pc EXCEPT ![p] = IF list[p] = {m} THEN "idle" ELSE "collect"]
  /\ UNCHANGED <<store, rows, lock, ages, man, tag, todo, doomed, withdrawn, failures>>

-----------------------------------------------------------------------------
(***************************************************************************)
(* The sweep.                                                              *)
(***************************************************************************)

(* The walk of the store, without the lock. *)
SweepWalk(p) ==
  /\ pc[p] = "idle"
  /\ list' = [list EXCEPT ![p] = store]
  /\ spared' = [spared EXCEPT ![p] = fresh]
  /\ pc' = [pc EXCEPT ![p] = "walked"]
  /\ UNCHANGED <<store, rows, lock, ages, man, tag, todo, doomed, withdrawn, failures>>

(* The marks, without it either. *)
Marks == manifests \cup HeldBy(manifests)

SweepMark(p) ==
  /\ pc[p] = "walked"
  /\ list' = [list EXCEPT ![p] = @ \ Marks]
  /\ pc' = [pc EXCEPT ![p] = "sweep"]
  /\ UNCHANGED <<store, rows, lock, ages, man, tag, todo, doomed, spared, withdrawn, failures>>

(* What is gone is left, and what was not old as of when the sweep began if *)
(* it asks, and can, how old it is.                                        *)
LeaveAll(p, d) == d \in Digest
Leave(p, d) == d \notin store \/ (Aged /\ d \in spared[p])

(* The next of the unmarked, less what is left, is looked at under the     *)
(* lock; nothing to look at takes no lock.                                 *)
SweepChunk(p, ds) ==
  /\ pc[p] = "sweep"
  /\ ds # {}
  /\ Cardinality(ds) <= ChunkSize
  /\ ds = list[p] \/ Cardinality(ds) = ChunkSize
  /\ LET look == {d \in ds : ~Leave(p, d)} IN
       /\ todo' = [todo EXCEPT ![p] = look]
       /\ pc' = [pc EXCEPT ![p] = IF look = {} THEN "sweep" ELSE "chunk"]
  /\ list' = [list EXCEPT ![p] = @ \ ds]
  /\ UNCHANGED <<store, rows, lock, ages, man, tag, doomed, spared, withdrawn, failures>>

SweepDone(p) ==
  /\ pc[p] = "sweep"
  /\ list[p] = {}
  /\ spared' = [spared EXCEPT ![p] = {}]
  /\ pc' = [pc EXCEPT ![p] = "idle"]
  /\ UNCHANGED <<store, rows, lock, ages, man, tag, todo, doomed, list, withdrawn, failures>>

-----------------------------------------------------------------------------
(***************************************************************************)
(* p stops where it is: its request is cancelled, the lock is not free in  *)
(* time, the store or the database answers an error, or the process is     *)
(* gone.  A transaction is rolled back, the lock let go (it is deferred,   *)
(* and a connection that is gone holds none), and the rest is left as it   *)
(* is.                                                                     *)
(***************************************************************************)
Stop(p) ==
  /\ failures < MaxFailures
  /\ failures' = failures + 1
  /\ lock' = IF lock = p THEN None ELSE lock
  /\ man' = [man EXCEPT ![p] = None]
  /\ tag' = [tag EXCEPT ![p] = None]
  /\ todo' = [todo EXCEPT ![p] = {}]
  /\ doomed' = [doomed EXCEPT ![p] = None]
  /\ UNCHANGED <<store, rows, ages, withdrawn>>

Fail(p) ==
  /\ pc[p] # "idle"
  /\ Stop(p)
  /\ pc' = [pc EXCEPT ![p] = "idle"]
  /\ list' = [list EXCEPT ![p] = {}]
  /\ spared' = [spared EXCEPT ![p] = {}]

(* A collection that fails to remove one candidate, or to release what it  *)
(* held, goes on to the next.                                              *)
GiveUp(p) ==
  /\ Stop(p)
  /\ \/ /\ pc[p] \in {"release", "releasing"}
        /\ list[p] # {}
        /\ pc' = [pc EXCEPT ![p] = "collect"]
        /\ UNCHANGED <<list, spared>>
     \/ /\ pc[p] = "collect"
        /\ \E m \in list[p] :
             /\ CollectNext(p, m)
             /\ pc' = [pc EXCEPT ![p] = IF list[p] = {m} THEN "idle" ELSE "collect"]

Request(p) ==
  \/ \E b \in Blob : PutBlob(p, b)
  \/ \E m \in Manifest, t \in Tag \cup {None} : PushAdd(p, m, t)
  \/ PushCheck(p) \/ PushRefuse(p) \/ PushDeny(p) \/ PushCommit(p)
  \/ \E t \in Tag : DeleteTag(p, t)
  \/ \E m \in Manifest : DeleteManifest(p, m)
  \/ \E d \in Digest : DeleteBlob(p, d)

Collection(p) ==
  \/ CollectList(p)
  \/ \E m \in Manifest : CollectRemove(p, m) \/ CollectSkip(p, m)

Sweep(p) ==
  \/ SweepWalk(p) \/ SweepMark(p) \/ SweepDone(p)
  \/ \E ds \in SUBSET list[p] : SweepChunk(p, ds)

Erasing(p) ==
  Take(p) \/ (\E d \in Digest : Look(p, d)) \/ Erase(p) \/ Unlock(p)

Time ==
  \/ \E d \in Digest : Settle(d)
  \/ \E m \in Manifest : GrowOld(m) \/ Pull(m)

Next ==
  \/ \E p \in Client : Request(p)
  \/ \E p \in Keeper : Collection(p) \/ Sweep(p)
  \/ \E p \in Proc : Erasing(p) \/ Fail(p) \/ GiveUp(p)
  \/ Time

Spec == Init /\ [][Next]_vars

-----------------------------------------------------------------------------
(***************************************************************************)
(* What the goroutines have to keep between them.                          *)
(***************************************************************************)

(* What an indexed manifest needs to be pulled is in the store, whatever   *)
(* deletes and sweeps ran beside its push: the look of putManifest and the *)
(* erases of gc.Release, deleteBlob and a sweep are under one lock for it  *)
(* (registry/manifests.go:181-183).                                        *)
BlobsPresent == \A m \in manifests : Required(m) \subseteq store

(* "a tag never points at nothing" (docs/how-it-works.md:66) in the index: *)
(* no order of pushes, deletes and collections, whose candidates were      *)
(* listed before a tag moved, leaves a tag on a manifest with no row.      *)
TagsResolve == \A t \in Tag : tags[t] \in manifests \cup {None}

(* An index lists a manifest that is not here only if a client deleted it. *)
(* The collector, which listed its candidates before the index was pushed, *)
(* never breaks one (removeManifest, gc/gc.go:652-657).                    *)
ChildrenPresent == \A m \in manifests : Children(m) \subseteq manifests \cup withdrawn

(* The lock is held by who is in the middle of something under it, and by  *)
(* nobody else: no early return, failure or hand-over of a chunk leaks it  *)
(* or runs without it.                                                     *)
LockHeld == \A p \in Proc : lock = p <=> pc[p] \in {"checked", "releasing", "sweeping"}

(* What a push saw under the lock is so until it commits: nothing it       *)
(* names has gone missing (registry/manifests.go:181-183).                 *)
PushSound ==
  \A p \in Proc :
    /\ pc[p] \in {"added", "checked"} => man[p] \in Manifest
    /\ pc[p] = "checked" => Missing(man[p]) = {}

(* What was seen to be needed by nothing still is when it is erased.       *)
EraseSound ==
  \A p \in Proc :
    doomed[p] # None => pc[p] \in {"releasing", "sweeping"} /\ ~Needed(doomed[p])

(* Between the look and the commit of a push, and the look and the erase   *)
(* of a delete or sweep, nobody else is between theirs.                    *)
Disciplined == TypeOK /\ LockHeld /\ PushSound /\ EraseSound

(* What every step keeps, and the discipline that is why. *)
Inv ==
  /\ Disciplined
  /\ BlobsPresent /\ TagsResolve /\ ChildrenPresent

(* No step "takes away bytes something still points to"                    *)
(* (docs/how-it-works.md:19): not a release of what a delete released a    *)
(* while ago, nor a sweep whose walk and marks are from before a push.     *)
NoLoss == [][\A d \in store \ store' : d \notin Marks]_vars

(* Every manifest in the index has its bytes in the store.  What           *)
(* docs/how-it-works.md:17-19 promises of all bytes, asked of a manifest's *)
(* own, which putManifest stores before it asks for the lock and does not  *)
(* look at again under it.                                                 *)
ManifestBytesPresent == manifests \subseteq store

(* Registry.tla, with the store for what has bytes.                        *)
Promise == INSTANCE Registry WITH bytes <- store

(* The handlers and the collector, between them and whatever they were     *)
(* doing when they stopped, do nothing the registry does not promise:      *)
(* every step is one of Registry's, or changes nothing it sees.            *)
ImplementsRegistry == Promise!RegistrySpec

-----------------------------------------------------------------------------
(***************************************************************************)
(* Nothing is leaked for good.  What runs goes on; a lock that is asked    *)
(* for is got in the end (Go and PostgreSQL queue those who wait for one,  *)
(* and every holder lets go); bytes and manifests grow old; and the full   *)
(* collection runs every gc.full_every.                                    *)
(***************************************************************************)
Progress(p) ==
  \/ PushDeny(p) \/ PushCommit(p)
  \/ (\E d \in Digest : Look(p, d)) \/ Erase(p) \/ Unlock(p)
  \/ SweepMark(p) \/ SweepDone(p)
  \/ \E ds \in SUBSET list[p] : SweepChunk(p, ds)

Locking(p) ==
  \/ PushCheck(p) \/ PushRefuse(p) \/ Take(p)
  \/ \E m \in Manifest : CollectRemove(p, m) \/ CollectSkip(p, m)

Fairness ==
  /\ \A p \in Proc : WF_vars(Progress(p)) /\ SF_vars(Locking(p))
  /\ \A p \in Keeper : SF_vars(SweepWalk(p))
  /\ \A d \in Digest : WF_vars(Settle(d))

FairSpec == Spec /\ Fairness

(* Bytes nothing refers to do not stay: the repository gets them back, or  *)
(* something comes to refer to them.  So what a refused push, an erased    *)
(* row whose release never ran, or a failed erase left is found by a later *)
(* sweep ("Leaks are tolerated and swept later",                           *)
(* docs/how-it-works.md:17).                                               *)
Reclaimed == \A d \in Digest : (d \in store /\ ~Needed(d)) ~> (d \notin store \/ Needed(d))
=============================================================================
