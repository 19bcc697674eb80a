---------------------------- MODULE MCPullThrough ----------------------------
(***************************************************************************)
(* Replicas, fills, clients and digests are interchangeable.               *)
(***************************************************************************)
EXTENDS PullThrough, TLC

Interchangeable ==
  Permutations(Digest) \cup Permutations(Replica) \cup Permutations(Fill) \cup Permutations(Client)
=============================================================================
