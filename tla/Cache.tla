------------------------------- MODULE Cache -------------------------------
(***************************************************************************)
(* What a tag of a pull-through cache promises, with no replicas, fills or *)
(* requests: it moves only to what the upstream had a moment ago, is said  *)
(* to be checked only when it was, and otherwise is only taken away        *)
(* (docs/operating.md:612-625, index/index.go:159-178).  PullThrough.tla   *)
(* is the goroutines and transactions that are to keep it.                 *)
(***************************************************************************)
EXTENDS Integers

CONSTANTS
  Digest,
  None,
  Lag      \* how old what the upstream said may be when it is written

VARIABLES
  now,
  last,    \* last[d]: when the upstream last pointed at d, or 0
  tag      \* the tag's row: digest, or None, and when that was checked

cacheVars == <<now, last, tag>>

CacheInit ==
  /\ now = 1
  /\ last \in [Digest -> 0 .. 1]
  /\ \E d \in Digest \cup {None} : tag = [digest |-> d, checked |-> 0]

(* Time goes on, or the upstream points elsewhere. *)
Pass ==
  /\ now' \in {now, now + 1}
  /\ \A d \in Digest : last'[d] \in {last[d], now'}
  /\ UNCHANGED tag

(* The upstream still has at the time at what the tag points at. *)
Confirm(at) ==
  /\ tag.digest # None
  /\ tag.checked < at
  /\ last[tag.digest] >= at
  /\ tag' = [tag EXCEPT !.checked = at]
  /\ UNCHANGED <<now, last>>

(* The tag is what the upstream had a moment ago; that it was checked only *)
(* moves forward.                                                          *)
Refresh(d, at) ==
  /\ last[d] >= now - Lag
  /\ at >= tag.checked
  /\ tag' = [digest |-> d, checked |-> at]
  /\ UNCHANGED <<now, last>>

(* An eviction, or a client's delete. *)
Drop ==
  /\ tag' = [digest |-> None, checked |-> 0]
  /\ UNCHANGED <<now, last>>

CacheNext ==
  \/ Pass
  \/ \E at \in 1 .. now : Confirm(at)
  \/ \E d \in Digest, at \in 0 .. now : Refresh(d, at)
  \/ Drop

CacheSpec == CacheInit /\ [][CacheNext]_cacheVars

=============================================================================
