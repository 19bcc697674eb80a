---------------------------- MODULE MCReferrers ----------------------------
(* Referrers with named referrers and clients. *)
EXTENDS Referrers, TLC

CONSTANTS r1, c1, c2

(* Clients are alike. *)
Symmetry == Permutations(Client)

=============================================================================
