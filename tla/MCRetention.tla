---------------------------- MODULE MCRetention ----------------------------
(* Retention with two tags, a rule that keeps the newer of them, one that   *)
(* keeps the first, and one that makes the second immutable.                *)
EXTENDS Retention, TLC

CONSTANTS t1, t2, d1, newest, first, fixed

Tags  == {t1, t2}
Rules == {newest, first, fixed}

KindsOf    == [r \in Rules |-> IF r = fixed THEN "immutable" ELSE "retention"]
OverTags   == [r \in Rules |-> CASE r = newest -> Tags [] r = first -> {t1} [] OTHER -> {t2}]
NoMatching == [r \in Rules |-> {}]
Counts     == [r \in Rules |-> IF r = fixed THEN 0 ELSE 1]

(* The first is the older. *)
Seeded == [t \in Tags |-> [digest |-> d1, moved |-> IF t = t1 THEN 1 ELSE 2]]

=============================================================================
