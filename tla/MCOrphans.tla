------------------------------ MODULE MCOrphans ------------------------------
(***************************************************************************)
(* An image for TLC, and a signature of it, which comes before its subject *)
(* in the order of a scan.                                                 *)
(***************************************************************************)
EXTENDS Orphans, TLC

NoLayers    == [m \in Manifest |-> {}]
PairSubject == [m \in Manifest |-> IF m = 1 THEN 2 ELSE None]
=============================================================================
