------------------------------ MODULE Registry ------------------------------
(***************************************************************************)
(* What one repository of the registry promises, with no locks, requests   *)
(* or collectors: a manifest is published only over content that is there, *)
(* content goes only once nothing refers to it, and what a client did not  *)
(* delete goes only once nothing needs it.                                 *)
(*                                                                         *)
(* The promises are those of docs/how-it-works.md:17-22 and of the package *)
(* comment of gc/gc.go:3-7.  Repository.tla is the handlers and the        *)
(* collector that are to keep them.                                        *)
(***************************************************************************)

EXTENDS Content

VARIABLES
  bytes,      \* the digests whose bytes the repository's store has
  manifests,  \* the manifests the index has
  tags,       \* tags[t]: the manifest t points at, or None
  withdrawn   \* the manifests a client deleted and nobody pushed since

registryVars == <<bytes, manifests, tags, withdrawn>>

-----------------------------------------------------------------------------

(* What the index refers to: its manifests and all they hold. *)
Referenced == manifests \cup HeldBy(manifests)

Tagged(m) == \E t \in Tag : tags[t] = m

(* The tags as they are once no tag points at m. *)
Untagged(m) == [t \in Tag |-> IF tags[t] = m THEN None ELSE tags[t]]

-----------------------------------------------------------------------------

RegistryInit ==
  /\ bytes = {}
  /\ manifests = {}
  /\ tags = [t \in Tag |-> None]
  /\ withdrawn = {}

(* Bytes arrive: a blob, or a manifest's own before it is published. *)
Upload(d) ==
  /\ bytes' = bytes \cup {d}
  /\ UNCHANGED <<manifests, tags, withdrawn>>

(* A manifest is published over what it needs, and t pointed at it. *)
Publish(m, t) ==
  /\ Required(m) \subseteq bytes
  /\ Children(m) \subseteq manifests
  /\ manifests' = manifests \cup {m}
  /\ tags' = IF t = None THEN tags ELSE [tags EXCEPT ![t] = m]
  /\ withdrawn' = withdrawn \ {m}
  /\ UNCHANGED bytes

(* A client deletes a manifest, and with it the tags on it. *)
Withdraw(m) ==
  /\ m \in manifests
  /\ manifests' = manifests \ {m}
  /\ tags' = Untagged(m)
  /\ withdrawn' = withdrawn \cup {m}
  /\ UNCHANGED bytes

Untag(t) ==
  /\ tags[t] # None
  /\ tags' = [tags EXCEPT ![t] = None]
  /\ UNCHANGED <<bytes, manifests, withdrawn>>

(* The registry lets a manifest go on its own: nothing tags it or holds   *)
(* it, and what it refers to is not here to be referred to.                *)
Collect(m) ==
  /\ m \in manifests
  /\ ~Tagged(m)
  /\ m \notin HeldBy(manifests)
  /\ Subject[m] \notin manifests
  /\ manifests' = manifests \ {m}
  /\ UNCHANGED <<bytes, tags, withdrawn>>

(* Bytes go only when nothing refers to them. *)
Reclaim(d) ==
  /\ d \notin Referenced
  /\ bytes' = bytes \ {d}
  /\ UNCHANGED <<manifests, tags, withdrawn>>

RegistryNext ==
  \/ \E d \in Digest : Upload(d) \/ Reclaim(d)
  \/ \E m \in Manifest, t \in Tag \cup {None} : Publish(m, t)
  \/ \E m \in Manifest : Withdraw(m) \/ Collect(m)
  \/ \E t \in Tag : Untag(t)

RegistrySpec == RegistryInit /\ [][RegistryNext]_registryVars

-----------------------------------------------------------------------------
(* What remains of it beside one who restores: manifests come back with no *)
(* look at what they need, those that bring tags with all that they list.  *)
Bring(ms) ==
  /\ manifests' = manifests \cup ms
  /\ withdrawn' = withdrawn \ ms
  /\ \/ UNCHANGED tags
     \/ /\ \A m \in ms : Children(m) \subseteq ms
        /\ tags' = [t \in Tag |-> tags'[t]]
        /\ \A t \in Tag : tags'[t] \in ms \cup {tags[t]}
  /\ UNCHANGED bytes

RestoredNext == RegistryNext \/ \E ms \in SUBSET Manifest : Bring(ms)

RestoredSpec == RegistryInit /\ [][RestoredNext]_registryVars
=============================================================================
