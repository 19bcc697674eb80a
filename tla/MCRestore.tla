------------------------------ MODULE MCRestore ------------------------------
(***************************************************************************)
(* A layout of one tagged image, restored to a small repository.           *)
(***************************************************************************)
EXTENDS Restore, TLC

CONSTANTS b1, m1, t1

OneLayers == m1 :> {b1}
OneHolds  == m1 :> {b1}
NoSubject == m1 :> None
OneTag    == t1 :> m1
=============================================================================
