---------------------------- MODULE MCRepository ----------------------------
(***************************************************************************)
(* Small repositories for TLC.  A manifest's contents are given as the     *)
(* operators below, one of which a configuration takes for each of Layers, *)
(* Holds and Subject.                                                      *)
(***************************************************************************)
EXTENDS Repository, TLC

CONSTANTS b1, b2, m1, m2, m3

(* One image with one layer. *)
OneLayers  == m1 :> {b1}
OneHolds   == m1 :> {b1}
NoSubject  == m1 :> None

(* Two images of a constant config, and an index of the first that is a     *)
(* signature of the second.                                                 *)
FamilyLayers  == m1 :> {b1} @@ m2 :> {b1} @@ m3 :> {}
FamilyHolds   == m1 :> {b1} @@ m2 :> {b1} @@ m3 :> {m1}
FamilySubject == m1 :> None @@ m2 :> None @@ m3 :> m2
=============================================================================
