------------------------------- MODULE Content -------------------------------
(***************************************************************************)
(* What one repository can hold: digests of blobs and of manifests, and    *)
(* what each manifest says, as oci.ParseManifest reads it                  *)
(* (oci/manifest.go).  A digest names its content, so these are constants. *)
(***************************************************************************)

CONSTANTS
  Blob,       \* digests of blobs: configs and layers
  Manifest,   \* digests of manifests
  Tag,        \* tag names
  Layers,     \* Layers[m]: the blobs m cannot be pulled without
  Holds,      \* Holds[m]: everything m refers to but its subject
  Subject,    \* Subject[m]: the manifest m refers to, or None
  WellKnown,  \* constant blobs, answered from memory in every repository
  None        \* no tag, no manifest, no digest

Digest == Blob \cup Manifest

(***************************************************************************)
(* A layer that is not distributable is in Holds[m] and not in Layers[m].  *)
(***************************************************************************)
ASSUME ContentAssumption ==
  /\ Blob \cap Manifest = {}
  /\ Layers \in [Manifest -> SUBSET Blob]
  /\ Holds \in [Manifest -> SUBSET Digest]
  /\ \A m \in Manifest : Layers[m] \subseteq Holds[m]
  /\ Subject \in [Manifest -> Manifest \cup {None}]
  /\ WellKnown \subseteq Blob
  /\ None \notin Digest \cup Tag

(* The blobs that must be in the store for m to be pullable. *)
Required(m) == Layers[m] \ WellKnown

(* The manifests m lists, when it is an index. *)
Children(m) == Holds[m] \cap Manifest

(* What the manifests ms hold between them. *)
HeldBy(ms) == UNION {Holds[m] : m \in ms}
=============================================================================
