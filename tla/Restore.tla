------------------------------- MODULE Restore -------------------------------
(***************************************************************************)
(* `cr import` and `cr index rebuild` beside a server: both run in their   *)
(* own process, on PostgreSQL against a repository that goes on serving    *)
(* (cli/import.go:60-61, cli/gc.go).  They write the index in one          *)
(* transaction under the repository's lock, after a long look at files     *)
(* and at the store that holds no lock.                                    *)
(*                                                                         *)
(* Not modelled: --skip-orphaned, which leaves manifests out of the layout.*)
(***************************************************************************)
EXTENDS Repository

CONSTANTS
  Layout,      \* the manifests the layout's index.json reaches
  LayoutTags   \* the tags it names: LayoutTags[t], or None

(* A manifest the layout does not hold all of is not taken, nor what holds *)
(* it (importer/importer.go:264-301).                                      *)
ASSUME LayoutAssumption ==
  /\ Layout \subseteq Manifest
  /\ \A m \in Layout : Children(m) \subseteq Layout
  /\ LayoutTags \in [Tag -> Layout \cup {None}]

VARIABLES
  stage,  \* "idle", "taking" for an import, "walking" for a rebuild
  left,   \* digests the import has yet to take, or the walk to come to
  found   \* manifests the rebuild read from the store

restoreVars == <<stage, left, found>>
allVars == <<vars, restoreVars>>

RestoreInit ==
  /\ Init
  /\ stage = "idle"
  /\ left = {}
  /\ found = {}

-----------------------------------------------------------------------------

(* Rows for ms, those of new as of now and the rest as old as they say.    *)
RestoredUnlessPresent(ms, new) ==
  /\ manifests' = manifests \cup (ms \ store)
  /\ recent' = recent \cup new
  /\ spared' = [p \in Proc |-> IF Collecting(p) THEN spared[p] \cup new ELSE spared[p]]
  /\ withdrawn' = withdrawn \ ms
Restored(ms, new) ==
  /\ manifests' = manifests \cup ms
  /\ recent' = recent \cup new
  /\ spared' = [p \in Proc |-> IF Collecting(p) THEN spared[p] \cup new ELSE spared[p]]
  /\ withdrawn' = withdrawn \ ms

ImportBegin ==
  /\ stage = "idle"
  /\ stage' = "taking"
  /\ left' = Layout \cup UNION {Layers[m] : m \in Layout}
  /\ UNCHANGED <<vars, found>>

(* A blob is linked, with the time of its file for when it arrived, or     *)
(* copied, as of now; or it is there already, and keeps its time.          *)
ImportTake(d) ==
  /\ stage = "taking"
  /\ d \in left
  /\ left' = left \ {d}
  /\ \/ Arrive(d)
     \/ store' = store \cup {d} /\ UNCHANGED <<fresh, spared>>
  /\ UNCHANGED <<rows, lock, recent, pc, man, tag, todo, doomed, list, withdrawn, failures,
                 stage, found>>

(* The rows and the tags, once every blob was taken.  The time of a        *)
(* manifest is its file's.                                                 *)
ImportTags == [t \in Tag |-> IF LayoutTags[t] = None THEN tags[t] ELSE LayoutTags[t]]

ImportCommit ==
  /\ stage = "taking"
  /\ left = {}
  /\ lock = None
  /\ \E new \in SUBSET (Layout \ manifests) : Restored(Layout, new)
  /\ tags' = ImportTags
  /\ stage' = "idle"
  /\ UNCHANGED <<store, lock, fresh, pc, man, tag, todo, doomed, list, failures, left, found>>

(* The store is walked, and what is in it when the walk comes to it, and    *)
(* reads as a manifest, is one.                                            *)
RebuildBegin ==
  /\ stage = "idle"
  /\ stage' = "walking"
  /\ left' = Manifest
  /\ UNCHANGED <<vars, found>>

RebuildRead(m) ==
  /\ stage = "walking"
  /\ m \in left
  /\ left' = left \ {m}
  /\ found' = found \cup ({m} \cap store)
  /\ UNCHANGED <<vars, stage>>

(* Nothing found, nothing to write. *)
RebuildNone ==
  /\ stage = "walking"
  /\ left = {}
  /\ found = {}
  /\ stage' = "idle"
  /\ UNCHANGED <<vars, left, found>>

(* As of now; with no look at what they hold, and no tags. *)
RebuildWrite ==
  /\ stage = "walking"
  /\ left = {}
  /\ found # {}
  /\ Restored(found, found \ manifests)
  /\ stage' = "idle"
  /\ found' = {}
  /\ UNCHANGED <<store, tags, lock, fresh, pc, man, tag, todo, doomed, list, failures, left>>

RebuildCommitUnlocked == RebuildWrite
RebuildCommit == lock = None /\ RebuildWrite

(* It is stopped, or its transaction fails and is rolled back. *)
RestoreFail ==
  /\ stage # "idle"
  /\ failures < MaxFailures
  /\ failures' = failures + 1
  /\ stage' = "idle"
  /\ left' = {}
  /\ found' = {}
  /\ UNCHANGED <<store, rows, lock, ages, locals, withdrawn>>

RestoreNext ==
  \/ Next /\ UNCHANGED restoreVars
  \/ ImportBegin
  \/ \E d \in left : ImportTake(d)
  \/ ImportCommit
  \/ RebuildBegin
  \/ \E m \in Manifest : RebuildRead(m)
  \/ RebuildNone
  \/ RebuildCommit
  \/ RestoreFail

RestoreSpec == RestoreInit /\ [][RestoreNext]_allVars

-----------------------------------------------------------------------------

(* The lock keeps its discipline, though the two write rows otherwise: what *)
(* goes under it, and what a push and an erase rely on between a look and   *)
(* what follows, rests on nothing that they leave out.  What a layout's     *)
(* index.json names and what the store's walk saw may be long out of date   *)
(* when the rows are written; a tag still never points at a manifest with   *)
(* no row ("A tag is never in the index without its manifest",              *)
(* docs/operating.md:992).                                                  *)
RestoreInv ==
  /\ stage \in {"idle", "taking", "walking"}
  /\ left \subseteq Digest
  /\ found \subseteq Manifest
  /\ Disciplined
  /\ TagsResolve

(* Beside them the server does only what the registry promises: it still    *)
(* publishes only over what is there, and lets nothing go that is referred  *)
(* to.  They only add to it, tags with what they are on and that lists.     *)
ImplementsRestored == Promise!RestoredSpec
=============================================================================
