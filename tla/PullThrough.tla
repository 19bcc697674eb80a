----------------------------- MODULE PullThrough -----------------------------
(***************************************************************************)
(* One tag of a repository that is a cache of an upstream                  *)
(* (registry/proxy.go).  A replica answers the tag from the index for a    *)
(* while after the upstream last confirmed it, and then asks again.        *)
(* Requests of one replica make one fill between them (registry/join.go);  *)
(* replicas share nothing but the index.  The collector evicts what nobody *)
(* pulls, and clients may delete.                                          *)
(*                                                                         *)
(* One clock is read by all replicas.  A transaction is one step.  The     *)
(* bytes, and the lock they are released under, are Repository.tla's       *)
(* matter.                                                                 *)
(***************************************************************************)
EXTENDS Integers

CONSTANTS
  Digest,        \* what the upstream may point the tag at
  None,
  Replica,
  Fill,          \* goroutines that fill
  Client,
  TagTTL,        \* how long a tag is answered without asking
  TagMaxStale,   \* how old an answer may be while the upstream fails; 0 is any
  JoinTimeout,   \* how long a fill may take
  MaxTime,       \* the clock stops here; bounds the model
  MaxVersion     \* how often the upstream's tag moves; bounds the model

ASSUME PullThroughAssumption ==
  /\ None \notin Digest
  /\ None \notin Fill
  /\ TagTTL \in Nat \ {0}
  /\ TagMaxStale \in Nat
  /\ JoinTimeout \in Nat
  /\ MaxTime \in Nat \ {0}
  /\ MaxVersion \in Nat

VARIABLES
  now,
  upstream,   \* where the upstream's tag points, or None
  version,    \* how often it has moved

  tag,        \* the tag's row: digest, or None if there is no row, and checked
  held,       \* manifests that have a row

  flights,    \* flights[r]: the fill that requests of r join, or None
  fill,       \* fill[f]: what the goroutine f is at, and its locals
  request,    \* request[c]: what the request of c is at

  recent,     \* the tag was pulled or moved within the cache's retention
  listed,     \* the collector has listed the tag as idle and it has not moved

  \* History.
  last,       \* last[d]: when the upstream last pointed at d, or 0
  seen,       \* the upstream's version that put the tag where it is
  checkedFor  \* the digest that tag.checked was recorded for, or None

origin   == <<now, upstream, version, last>>
index    == <<tag, held, seen, checkedFor>>
evictor  == <<recent, listed>>
vars     == <<origin, index, evictor, flights, fill, request>>

Time == 1 .. MaxTime
Row  == [digest : Digest \cup {None}, checked : 0 .. MaxTime]

NoRow     == [digest |-> None, checked |-> 0]
NoFill    == [pc |-> "idle", home |-> None, began |-> 0, asked |-> 0, cur |-> None,
              stale |-> FALSE, answer |-> None, version |-> 0, at |-> 0,
              outcome |-> "none", since |-> 0]
NoRequest == [pc |-> "idle", home |-> None, fill |-> None, outcome |-> "none", since |-> 0]

Outcome == {"none", "hit", "revalidated", "fetched", "stale"}

Filling ==
  {q \in [pc : {"idle", "look", "head", "known", "confirm", "get", "add", "commit", "end"},
          home : Replica \cup {None}, began : 0 .. MaxTime, asked : 0 .. MaxTime,
          cur : Digest \cup {None}, stale : BOOLEAN, answer : Digest \cup {None},
          version : 0 .. MaxVersion, at : 0 .. MaxTime,
          outcome : Outcome, since : 0 .. MaxTime] :
     q.pc \in {"known", "confirm", "add", "commit"} => q.answer \in Digest}

Requesting ==
  {q \in [pc : {"idle", "ask", "wait", "read"}, home : Replica \cup {None},
          fill : Fill \cup {None}, outcome : Outcome, since : 0 .. MaxTime] :
     q.pc = "ask" => q.home \in Replica}

TypeOK ==
  /\ now \in Time
  /\ upstream \in Digest \cup {None}
  /\ version \in 0 .. MaxVersion
  /\ tag \in Row
  /\ held \subseteq Digest
  /\ flights \in [Replica -> Fill \cup {None}]
  /\ fill \in [Fill -> Filling]
  /\ request \in [Client -> Requesting]
  /\ recent \in BOOLEAN
  /\ listed \in BOOLEAN
  /\ last \in [Digest -> 0 .. MaxTime]
  /\ seen \in 0 .. MaxVersion
  /\ checkedFor \in Digest \cup {None}

(* An empty cache, or a tag pushed before the repository was made a cache. *)
Init ==
  /\ now = 1
  /\ upstream \in Digest \cup {None}
  /\ version = 0
  /\ \/ tag = NoRow /\ held = {}
     \/ \E d \in Digest : tag = [digest |-> d, checked |-> 0] /\ held = {d}
  /\ flights = [r \in Replica |-> None]
  /\ fill = [f \in Fill |-> NoFill]
  /\ request = [c \in Client |-> NoRequest]
  /\ recent = TRUE
  /\ listed = FALSE
  /\ last = [d \in Digest |-> IF d = upstream THEN 1 ELSE 0]
  /\ seen = 0
  /\ checkedFor = None

-----------------------------------------------------------------------------
(* The clock and the upstream. *)

Tick ==
  /\ now < MaxTime
  /\ now' = now + 1
  /\ last' = [d \in Digest |-> IF d = upstream THEN now + 1 ELSE last[d]]
  /\ UNCHANGED <<upstream, version, index, evictor, flights, fill, request>>

Move(d) ==
  /\ version < MaxVersion
  /\ d # upstream
  /\ upstream' = d
  /\ version' = version + 1
  /\ last' = [e \in Digest |-> IF e = d THEN now ELSE last[e]]
  /\ UNCHANGED <<now, index, evictor, flights, fill, request>>

-----------------------------------------------------------------------------
(* Requests. *)

Fresh(checked, t) == checked # 0 /\ t - checked < TagTTL

ServableOnceChecked(checked, t) == TagMaxStale = 0 \/ checked # 0
Servable(checked, t) == TagMaxStale = 0 \/ (checked # 0 /\ t - checked <= TagMaxStale)

Present == tag.digest # None
Cached  == Present /\ Fresh(tag.checked, now)

(* The index answers alone. *)
Hit(c, r) ==
  /\ request[c].pc = "idle"
  /\ Cached
  /\ request' = [request EXCEPT ![c] =
       [NoRequest EXCEPT !.pc = "read", !.home = r, !.outcome = "hit", !.since = now]]
  /\ UNCHANGED <<origin, index, evictor, flights, fill>>

(* It does not; what follows is another step. *)
Ask(c, r) ==
  /\ request[c].pc = "idle"
  /\ ~Cached
  /\ request' = [request EXCEPT ![c] = [NoRequest EXCEPT !.pc = "ask", !.home = r]]
  /\ UNCHANGED <<origin, index, evictor, flights, fill>>

Wait(c, f) ==
  request' = [request EXCEPT ![c] = [NoRequest EXCEPT !.pc = "wait", !.fill = f]]

(* A fill of this replica is running: wait for it. *)
Join(c) ==
  /\ request[c].pc = "ask"
  /\ flights[request[c].home] # None
  /\ Wait(c, flights[request[c].home])
  /\ UNCHANGED <<origin, index, evictor, flights, fill>>

(* None is: start one.  It does not end with the request. *)
StartEach(c, f) ==
  /\ request[c].pc = "ask"
  /\ fill[f] = NoFill
  /\ fill' = [fill EXCEPT ![f] =
       [NoFill EXCEPT !.pc = "look", !.home = request[c].home, !.began = now]]
  /\ flights' = [flights EXCEPT ![request[c].home] = f]
  /\ Wait(c, f)
  /\ UNCHANGED <<origin, index, evictor>>
Start(c, f) ==
  /\ request[c].pc = "ask"
  /\ flights[request[c].home] = None
  /\ fill[f] = NoFill
  /\ fill' = [fill EXCEPT ![f] =
       [NoFill EXCEPT !.pc = "look", !.home = request[c].home, !.began = now]]
  /\ flights' = [flights EXCEPT ![request[c].home] = f]
  /\ Wait(c, f)
  /\ UNCHANGED <<origin, index, evictor>>

(* The request's own context ends first. *)
LeaveForgets(c) ==
  /\ request[c].pc = "wait"
  /\ request' = [request EXCEPT ![c] = NoRequest]
  /\ flights' = [r \in Replica |-> IF flights[r] = request[c].fill THEN None ELSE flights[r]]
  /\ UNCHANGED <<origin, index, evictor, fill>>
Leave(c) ==
  /\ request[c].pc = "wait"
  /\ request' = [request EXCEPT ![c] = NoRequest]
  /\ UNCHANGED <<origin, index, evictor, flights, fill>>

(* getManifest goes on to read the row, whatever that is by now, and a pull *)
(* is noted.                                                                *)
Read(c) ==
  /\ request[c].pc = "read"
  /\ request' = [request EXCEPT ![c] = NoRequest]
  /\ recent' = (recent \/ tag.digest \in held)
  /\ UNCHANGED <<origin, index, listed, flights, fill>>

-----------------------------------------------------------------------------
(* Fills.  What a fill waits for fails once its time is up. *)

InTimeUnbounded(f) == TRUE
InTime(f) == now <= fill[f].began + JoinTimeout

(* The fill returns.  What it was, and when that was decided, is for those  *)
(* who wait.                                                               *)
Ended(f, outcome, since) ==
  fill' = [fill EXCEPT ![f] =
    [NoFill EXCEPT !.pc = "end", !.home = fill[f].home, !.outcome = outcome, !.since = since]]

(* Only then is its key freed, and until then requests join it; those who   *)
(* wait go on.  A request that is answered with an error is over.           *)
Woken(outcome, since) ==
  IF outcome = "none" THEN NoRequest
  ELSE [NoRequest EXCEPT !.pc = "read", !.outcome = outcome, !.since = since]

EndSilently(f) ==
  /\ fill[f].pc = "end"
  /\ fill' = [fill EXCEPT ![f] = NoFill]
  /\ flights' = [flights EXCEPT ![fill[f].home] = None]
  /\ UNCHANGED <<origin, index, evictor, request>>
End(f) ==
  /\ fill[f].pc = "end"
  /\ fill' = [fill EXCEPT ![f] = NoFill]
  /\ flights' = [flights EXCEPT ![fill[f].home] = None]
  /\ request' = [c \in Client |->
       IF request[c].pc = "wait" /\ request[c].fill = f
       THEN Woken(fill[f].outcome, fill[f].since) ELSE request[c]]
  /\ UNCHANGED <<origin, index, evictor>>

(* It asks again what the index has, since a fill may have just ended.  What *)
(* it reads, and when, decides whether the tag may be answered stale.        *)
Look(f) ==
  /\ fill[f].pc = "look"
  /\ InTime(f)
  /\ ~Cached
  /\ fill' = [fill EXCEPT ![f].pc = "head", ![f].asked = now, ![f].cur = tag.digest,
                       ![f].stale = Present /\ Servable(tag.checked, now)]
  /\ UNCHANGED <<origin, index, evictor, flights, request>>

LookHit(f) ==
  /\ fill[f].pc = "look"
  /\ InTime(f)
  /\ Cached
  /\ Ended(f, "hit", now)
  /\ UNCHANGED <<origin, index, evictor, flights, request>>

(* The row cannot be read. *)
LookFail(f) ==
  /\ fill[f].pc = "look"
  /\ Ended(f, "none", 0)
  /\ UNCHANGED <<origin, index, evictor, flights, request>>

(* The upstream says where its tag points, and it may be where the row does. *)
HeadSame(f) ==
  /\ fill[f].pc = "head"
  /\ InTime(f)
  /\ upstream # None
  /\ upstream = fill[f].cur
  /\ fill' = [fill EXCEPT ![f].pc = "known", ![f].cur = None, ![f].answer = upstream, ![f].version = version]
  /\ UNCHANGED <<origin, index, evictor, flights, request>>

(* It points elsewhere, or the upstream gives no digest. *)
HeadFetch(f) ==
  /\ fill[f].pc = "head"
  /\ InTime(f)
  /\ upstream # None
  /\ fill' = [fill EXCEPT ![f].pc = "get", ![f].cur = None]
  /\ UNCHANGED <<origin, index, evictor, flights, request>>

(* There is no such tag upstream, and the client is told so. *)
HeadUnknown(f) ==
  /\ fill[f].pc = "head"
  /\ InTime(f)
  /\ upstream = None
  /\ Ended(f, "none", 0)
  /\ UNCHANGED <<origin, index, evictor, flights, request>>

(* The manifest may have been evicted, or not be readable. *)
Known(f) ==
  /\ fill[f].pc = "known"
  /\ \/ /\ InTime(f)
        /\ fill[f].answer \in held
        /\ fill' = [fill EXCEPT ![f].pc = "confirm"]
     \/ fill' = [fill EXCEPT ![f].pc = "get", ![f].answer = None, ![f].version = 0]
  /\ UNCHANGED <<origin, index, evictor, flights, request>>

(* tags.Check: nothing if the row is elsewhere, and forward only. *)
CheckAnywhere(row, d, at) == IF row.checked < at THEN [row EXCEPT !.checked = at] ELSE row
Check(row, d, at) == IF row.digest = d /\ row.checked < at THEN [row EXCEPT !.checked = at] ELSE row

(* The digest the time of check was recorded for, after Check. *)
CheckedFor(row, d, at) == IF row.digest = d /\ row.checked <= at THEN d ELSE checkedFor

(* The check is recorded, or it cannot be and is only a check made again.  *)
(* No transaction.                                                         *)
Confirm(f) ==
  /\ fill[f].pc = "confirm"
  /\ \/ /\ InTime(f)
        /\ tag' = Check(tag, fill[f].answer, fill[f].asked)
        /\ checkedFor' = CheckedFor(tag, fill[f].answer, fill[f].asked)
        /\ seen' = IF tag.digest = fill[f].answer THEN fill[f].version ELSE seen
     \/ UNCHANGED <<tag, checkedFor, seen>>
  /\ Ended(f, "revalidated", fill[f].asked)
  /\ UNCHANGED <<origin, held, evictor, flights, request>>

(* fetch: the manifest the upstream's tag has now, which HEAD did not fix. *)
Get(f) ==
  /\ fill[f].pc = "get"
  /\ InTime(f)
  /\ upstream # None
  /\ fill' = [fill EXCEPT ![f].pc = "add", ![f].answer = upstream, ![f].version = version]
  /\ UNCHANGED <<origin, index, evictor, flights, request>>

(* Its bytes are stored, and then the clock is read. *)
Add(f) ==
  /\ fill[f].pc = "add"
  /\ InTime(f)
  /\ fill' = [fill EXCEPT ![f].pc = "commit", ![f].at = now]
  /\ UNCHANGED <<origin, index, evictor, flights, request>>

(* tags.Set: moving a tag leaves when it was checked. *)
Set(row, d) == [row EXCEPT !.digest = d]

(* The transaction: the manifest's row, the tag's, and the check. *)
Commit(f) ==
  LET d == fill[f].answer
      row == Set(tag, d)
  IN /\ fill[f].pc = "commit"
     /\ InTime(f)
     /\ held' = held \cup {d}
     /\ tag' = Check(row, d, fill[f].at)
     /\ checkedFor' = CheckedFor(row, d, fill[f].at)
     /\ seen' = fill[f].version
     /\ recent' = (recent \/ tag.digest # d)
     /\ listed' = (listed /\ tag.digest = d)
     /\ Ended(f, "fetched", fill[f].asked)
     /\ UNCHANGED <<origin, flights, request>>

(* The upstream, the store or the index fails, or the fill's time is up. *)
Break(f) ==
  /\ fill[f].pc \in {"head", "get", "add", "commit"}
  /\ IF fill[f].stale THEN Ended(f, "stale", fill[f].asked) ELSE Ended(f, "none", 0)
  /\ UNCHANGED <<origin, index, evictor, flights, request>>

-----------------------------------------------------------------------------
(* What takes things away. *)

Forget ==
  /\ tag' = NoRow
  /\ checkedFor' = None
  /\ listed' = FALSE

(* The tag is not pulled for as long as the cache keeps what is not pulled. *)
GrowOld ==
  /\ recent
  /\ recent' = FALSE
  /\ UNCHANGED <<origin, index, listed, flights, fill, request>>

(* evict reads the tags with no lock. *)
EvictList ==
  /\ Present
  /\ ~recent
  /\ ~listed
  /\ listed' = TRUE
  /\ UNCHANGED <<origin, index, recent, flights, fill, request>>

(* The transaction, which looks again at where the tag points and when it *)
(* moved, and not at when it was pulled.                                  *)
EvictTag ==
  /\ listed
  /\ Forget
  /\ UNCHANGED <<origin, held, seen, recent, flights, fill, request>>

(* The transaction fails; the next collection lists again. *)
EvictFail ==
  /\ listed
  /\ listed' = FALSE
  /\ UNCHANGED <<origin, index, recent, flights, fill, request>>

(* untaggedBefore: a manifest the tag does not point at, once it is old. *)
EvictManifest(d) ==
  /\ d \in held
  /\ tag.digest # d
  /\ held' = held \ {d}
  /\ UNCHANGED <<origin, tag, seen, checkedFor, evictor, flights, fill, request>>

(* A client deletes the tag, or a manifest and the tag if it points there. *)
DeleteTag ==
  /\ Present
  /\ Forget
  /\ UNCHANGED <<origin, held, seen, recent, flights, fill, request>>

DeleteManifest(d) ==
  /\ d \in held
  /\ held' = held \ {d}
  /\ IF tag.digest = d THEN Forget ELSE UNCHANGED <<tag, checkedFor, listed>>
  /\ UNCHANGED <<origin, seen, recent, flights, fill, request>>

-----------------------------------------------------------------------------
Progress(f) ==
  \/ Look(f) \/ LookHit(f) \/ LookFail(f)
  \/ HeadSame(f) \/ HeadFetch(f) \/ HeadUnknown(f)
  \/ Known(f) \/ Confirm(f) \/ Get(f) \/ Add(f) \/ Commit(f) \/ Break(f)
  \/ End(f)

Request(c) ==
  \/ \E r \in Replica : Hit(c, r) \/ Ask(c, r)
  \/ Join(c) \/ (\E f \in Fill : Start(c, f)) \/ Leave(c) \/ Read(c)

Evict == GrowOld \/ EvictList \/ EvictTag \/ EvictFail \/ \E d \in Digest : EvictManifest(d)

Delete == DeleteTag \/ \E d \in Digest : DeleteManifest(d)

Next ==
  \/ Tick \/ \E d \in Digest \cup {None} : Move(d)
  \/ \E c \in Client : Request(c)
  \/ \E f \in Fill : Progress(f)
  \/ Evict \/ Delete

Spec == Init /\ [][Next]_vars

(***************************************************************************)
(* A fill goes on: what it waits for answers, fails, or is cut off when    *)
(* the fill's time is up (context.WithTimeout, join.go).  A request that   *)
(* asks goes on to join or to start.  Nothing is asked of the upstream, of *)
(* the collector or of clients.                                            *)
(***************************************************************************)
FairSpec ==
  /\ Spec
  /\ \A f \in Fill : WF_vars(Progress(f))

-----------------------------------------------------------------------------
(* Properties. *)

(* What the tag points at was there upstream no longer than a fill takes   *)
(* before the time the tag says it was checked, whichever replicas wrote   *)
(* the one and the other (index/index.go, Tag.CheckedAt).                  *)
Confirmed == tag.checked # 0 => tag.digest # None /\ last[tag.digest] >= tag.checked - JoinTimeout

(* How long before it was decided to answer a tag the upstream may have    *)
(* last pointed at what is answered: the bound that applies, and a fill.   *)
Bound(outcome) ==
  CASE outcome = "hit"   -> TagTTL - 1
    [] outcome = "stale" -> TagMaxStale
    [] OTHER             -> 0
Oldest(outcome) == JoinTimeout + Bound(outcome)

(* The tag points at what was there upstream at t or later. *)
Since(t) == Present => last[tag.digest] >= t

(* What was decided at a time is recent enough for how it was.             *)
Decided(outcome, since) ==
  TagMaxStale # 0 => since <= now /\ Since(since - Oldest(outcome))

OriginSound ==
  /\ \A d \in Digest : last[d] <= now
  /\ upstream # None => last[upstream] = now
  /\ tag.checked <= now

(* What a fill knows of the upstream, and of the tag it found. *)
Asking   == {"head", "known", "confirm", "get", "add", "commit"}
FillSound(f) ==
  /\ fill[f].began <= now
  /\ fill[f].pc \in Asking =>
       /\ fill[f].asked <= now
       /\ fill[f].asked <= fill[f].began + JoinTimeout
       /\ fill[f].stale /\ TagMaxStale # 0 => Since(fill[f].asked - Oldest("stale"))
  /\ fill[f].pc = "head" => tag.digest = fill[f].cur \/ Since(fill[f].asked - JoinTimeout)
  /\ fill[f].pc \in {"known", "confirm"} =>
       /\ last[fill[f].answer] >= fill[f].asked
       /\ tag.digest = fill[f].answer \/ Since(fill[f].asked - JoinTimeout)
  /\ fill[f].pc \in {"add", "commit"} =>
       last[fill[f].answer] >= fill[f].began
  /\ fill[f].pc = "commit" => fill[f].at <= now /\ fill[f].at <= fill[f].began + JoinTimeout
  /\ fill[f].pc = "end" /\ fill[f].outcome # "none" => Decided(fill[f].outcome, fill[f].since)

(* What a request is about to read is recent enough for how it was decided. *)
RequestSound(c) == request[c].pc = "read" => Decided(request[c].outcome, request[c].since)

(* The inductive invariant: what replicas that share only rows may rely on, *)
(* that a tag's digest was the upstream's about when its row says so, and   *)
(* that every fill and request in progress is as recent as it takes itself. *)
Inv ==
  /\ TypeOK
  /\ OriginSound
  /\ \A f \in Fill : FillSound(f)
  /\ \A c \in Client : RequestSound(c)
  /\ Confirmed

(* A client that asks for a tag gets what the upstream had within the TTL, *)
(* or within the bound on stale tags while the upstream fails, though the  *)
(* row is read after that was decided and others may have written it.      *)
AnswersRecent ==
  [][\A c \in Client :
       /\ request[c].pc = "read"
       /\ request'[c].pc = "idle"
       /\ Present
       /\ TagMaxStale # 0
       => last[tag.digest] >= request[c].since - Oldest(request[c].outcome)]_vars

(* With one replica the tag never goes back to an earlier answer of the    *)
(* upstream: fills of one tag follow one another (join.go), though those   *)
(* who began them have long left.                                          *)
NeverBack == [][Present /\ Present' => seen' >= seen]_vars

(* index/index.go: CheckedAt is when the upstream last confirmed Digest.   *)
(* With one replica it is so.  With two, a late commit of an older answer  *)
(* moves the tag and leaves the time at which the other one was confirmed. *)
CheckedOfDigest == tag.checked # 0 => checkedFor = tag.digest

(* Why: the goroutine that fills is the one its replica has in flight, so   *)
(* where there is one replica it is the only one, and what it is told by    *)
(* the upstream and writes is no older than what it finds written.          *)
OneReplica == \A q, r \in Replica : q = r

FlightSound(f) ==
  /\ fill[f].pc # "idle" => fill[f].home \in Replica /\ flights[fill[f].home] = f
  /\ fill[f].version <= version

Ahead(f) ==
  /\ fill[f].pc \in {"known", "confirm", "add", "commit"} => seen <= fill[f].version
  /\ fill[f].pc = "commit" => tag.checked <= fill[f].at

AloneSound ==
  /\ seen <= version
  /\ \A f \in Fill : FlightSound(f)
  /\ OneReplica => CheckedOfDigest /\ \A f \in Fill : Ahead(f)

(* Whatever replicas, fills and requests do to it, the tag is an atomic     *)
(* cache's: each write of it is one the upstream bore out, no longer ago    *)
(* than a fill may take, and no check of it is undone                       *)
(* (registry/proxy.go:248-297,402-457).                                     *)
Promise == INSTANCE Cache WITH Lag <- JoinTimeout
ImplementsCache == Promise!CacheSpec

(* A request that waits for a fill is answered, or leaves: a fill does not *)
(* hang, and whoever waits on it is woken when it ends.                    *)
Answered == \A c \in Client : request[c].pc = "wait" ~> request[c].pc # "wait"

=============================================================================
