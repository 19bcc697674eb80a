-------------------------- MODULE PullThroughProofs --------------------------
(***************************************************************************)
(* Proofs about a tag of a pull-through cache, for any number of replicas, *)
(* fills and clients, and any bounds on how old an answer may be: that Inv *)
(* holds and answers are recent, that the replicas implement an atomic     *)
(* Cache, and that where there is one it is never wrong (AloneSound).      *)
(***************************************************************************)
EXTENDS PullThrough, TLAPS

-----------------------------------------------------------------------------
(***************************************************************************)
(* Types.                                                                  *)
(***************************************************************************)

LEMMA ClockTyped == TypeOK => now \in 0 .. MaxTime /\ now \in Nat /\ MaxTime \in Nat
BY PullThroughAssumption DEF TypeOK, Time

LEMMA Blank == NoFill \in Filling /\ NoRequest \in Requesting /\ NoRow \in Row
BY PullThroughAssumption DEF NoFill, NoRequest, NoRow, Filling, Requesting, Row, Outcome

(* What a request that is woken goes on with.                              *)
LEMMA WokenTyped ==
  ASSUME NEW outcome \in Outcome, NEW since \in 0 .. MaxTime
  PROVE  Woken(outcome, since) \in Requesting
BY Blank DEF Woken, NoRequest, Requesting

(* A fill that has returned is a goroutine still.                          *)
LEMMA EndedTyped ==
  ASSUME TypeOK, NEW f \in Fill, NEW outcome \in Outcome, NEW since \in 0 .. MaxTime,
         Ended(f, outcome, since)
  PROVE  fill' \in [Fill -> Filling]
<1> DEFINE q == [NoFill EXCEPT !.pc = "end", !.home = fill[f].home,
                               !.outcome = outcome, !.since = since]
<1>1. fill[f].home \in Replica \cup {None}
  BY DEF TypeOK, Filling
<1>2. q \in Filling
  BY <1>1, Blank DEF NoFill, Filling
<1> QED
  BY <1>2 DEF TypeOK, Ended

(* What it comes to leaves goroutines, keys and requests well typed.       *)
LEMMA EndTyped ==
  ASSUME TypeOK, NEW f \in Fill, End(f)
  PROVE  TypeOK'
<1>1. fill[f].outcome \in Outcome /\ fill[f].since \in 0 .. MaxTime
  BY DEF TypeOK, Filling
<1>2. fill' \in [Fill -> Filling] /\ flights' \in [Replica -> Fill \cup {None}]
  BY Blank DEF TypeOK, End
<1>3. request' \in [Client -> Requesting]
  BY <1>1, WokenTyped DEF TypeOK, End
<1> QED
  BY <1>2, <1>3 DEF End, TypeOK, origin, index, evictor

LEMMA TypeInit == Init => TypeOK
<1> SUFFICES ASSUME Init PROVE TypeOK
  OBVIOUS
<1>1. tag \in Row /\ held \subseteq Digest
  BY PullThroughAssumption, Blank DEF Init, Row
<1>2. /\ fill \in [Fill -> Filling]
      /\ request \in [Client -> Requesting]
      /\ flights \in [Replica -> Fill \cup {None}]
  BY Blank DEF Init
<1>3. /\ now \in Time
      /\ last \in [Digest -> 0 .. MaxTime]
      /\ version \in 0 .. MaxVersion
      /\ seen \in 0 .. MaxVersion
  BY PullThroughAssumption DEF Init, Time
<1> QED
  BY <1>1, <1>2, <1>3 DEF Init, TypeOK

(* Requests and the upstream keep the types.                               *)
LEMMA OutsideTyped ==
  ASSUME TypeOK,
         \/ Tick \/ \E d \in Digest \cup {None} : Move(d)
         \/ \E c \in Client : Request(c)
  PROVE  TypeOK'
<1>1. CASE Tick
  BY <1>1, ClockTyped DEF Tick, TypeOK, Time, index, evictor
<1>2. ASSUME NEW d \in Digest \cup {None}, Move(d)
      PROVE  TypeOK'
  BY <1>2, ClockTyped, PullThroughAssumption DEF Move, TypeOK, index, evictor
<1>3. ASSUME NEW c \in Client, Request(c)
      PROVE  TypeOK'
  <2>1. UNCHANGED origin /\ UNCHANGED index /\ UNCHANGED listed /\ recent' \in BOOLEAN
    BY <1>3 DEF Request, Hit, Ask, Join, Start, Leave, Read, origin, index, evictor, TypeOK
  <2>2. ASSUME NEW f \in Fill
        PROVE  [NoRequest EXCEPT !.pc = "wait", !.fill = f] \in Requesting
    BY Blank DEF NoRequest, Requesting
  <2>3. ASSUME NEW r \in Replica
        PROVE  /\ [NoRequest EXCEPT !.pc = "ask", !.home = r] \in Requesting
               /\ [NoRequest EXCEPT !.pc = "read", !.home = r, !.outcome = "hit", !.since = now]
                    \in Requesting
    BY Blank, ClockTyped DEF NoRequest, Requesting, Outcome
  <2>4. /\ request[c].home \in Replica \cup {None}
        /\ request[c].pc = "ask" => request[c].home \in Replica
    BY DEF TypeOK, Requesting
  <2>5. CASE (\E r \in Replica : Hit(c, r) \/ Ask(c, r)) \/ Leave(c) \/ Read(c)
    <3>1. request' \in [Client -> Requesting]
      BY <2>5, <2>3, Blank DEF Hit, Ask, Leave, Read, TypeOK
    <3> QED
      BY <2>5, <2>1, <3>1 DEF Hit, Ask, Leave, Read, TypeOK, origin, index
  <2>6. CASE Join(c)
    <3>1. flights[request[c].home] \in Fill
      BY <2>6, <2>4 DEF Join, TypeOK
    <3>2. request' \in [Client -> Requesting]
      BY <2>6, <2>2, <3>1 DEF Join, Wait, TypeOK
    <3> QED
      BY <2>6, <2>1, <3>2 DEF Join, TypeOK, origin, index
  <2>7. ASSUME NEW f \in Fill, Start(c, f)
        PROVE  TypeOK'
    <3>1. request' \in [Client -> Requesting]
      BY <2>7, <2>2 DEF Start, Wait, TypeOK
    <3>2. [NoFill EXCEPT !.pc = "look", !.home = request[c].home, !.began = now] \in Filling
      BY <2>4, Blank, ClockTyped DEF NoFill, Filling
    <3>3. fill' \in [Fill -> Filling] /\ flights' \in [Replica -> Fill \cup {None}]
      BY <2>7, <3>2 DEF Start, TypeOK
    <3> QED
      BY <2>1, <3>1, <3>3 DEF TypeOK, origin, index
  <2> QED
    BY <1>3, <2>5, <2>6, <2>7 DEF Request
<1> QED
  BY <1>1, <1>2, <1>3

(* So do fills.                                                            *)
LEMMA ProgressTyped ==
  ASSUME TypeOK, NEW f \in Fill, Progress(f)
  PROVE  TypeOK'
<1>1. CASE Look(f) \/ HeadSame(f) \/ HeadFetch(f) \/ Known(f) \/ Get(f) \/ Add(f)
  <2>1. fill' \in [Fill -> Filling]
    BY <1>1, ClockTyped
       DEF Look, HeadSame, HeadFetch, Known, Get, Add, Filling, TypeOK, Row, Servable, Present
  <2> QED
    BY <1>1, <2>1 DEF Look, HeadSame, HeadFetch, Known, Get, Add, TypeOK, origin, index, evictor
<1>2. CASE LookHit(f) \/ LookFail(f) \/ HeadUnknown(f) \/ Break(f)
  <2>1. fill[f].asked \in 0 .. MaxTime /\ fill[f].stale \in BOOLEAN
    BY DEF TypeOK, Filling
  <2>2. PICK outcome \in Outcome, since \in 0 .. MaxTime : Ended(f, outcome, since)
    <3>1. ASSUME NEW outcome \in Outcome, NEW since \in 0 .. MaxTime, Ended(f, outcome, since)
          PROVE  \E o \in Outcome, s \in 0 .. MaxTime : Ended(f, o, s)
      BY <3>1
    <3>2. 0 \in 0 .. MaxTime /\ now \in 0 .. MaxTime
      BY ClockTyped
    <3> QED
      BY <1>2, <2>1, <3>1, <3>2 DEF LookHit, LookFail, HeadUnknown, Break, Outcome
  <2> QED
    BY <1>2, <2>2, EndedTyped
       DEF LookHit, LookFail, HeadUnknown, Break, TypeOK, origin, index, evictor
<1>3. CASE Confirm(f) \/ Commit(f)
  <2>1. /\ fill[f].asked \in 0 .. MaxTime
        /\ fill[f].at \in 0 .. MaxTime
        /\ fill[f].version \in 0 .. MaxVersion
        /\ fill[f].answer \in Digest \cup {None}
        /\ fill[f].pc = "commit" => fill[f].answer \in Digest
    BY DEF TypeOK, Filling
  <2>2. PICK outcome \in Outcome : Ended(f, outcome, fill[f].asked)
    BY <1>3 DEF Confirm, Commit, Outcome
  <2>3. tag' \in Row /\ checkedFor' \in Digest \cup {None}
    BY <1>3, <2>1 DEF Confirm, Commit, Check, CheckedFor, Set, TypeOK, Row
  <2>4. fill' \in [Fill -> Filling]
    BY <2>1, <2>2, EndedTyped
  <2>5. /\ held' \subseteq Digest
        /\ seen' \in 0 .. MaxVersion
        /\ recent' \in BOOLEAN
        /\ listed' \in BOOLEAN
    <3>1. CASE Confirm(f)
      BY <3>1, <2>1 DEF Confirm, TypeOK, evictor
    <3>2. CASE Commit(f)
      BY <3>2, <2>1 DEF Commit, TypeOK
    <3> QED
      BY <1>3, <3>1, <3>2
  <2> QED
    BY <1>3, <2>3, <2>4, <2>5 DEF Confirm, Commit, TypeOK, origin
<1> QED
  BY <1>1, <1>2, <1>3, EndTyped DEF Progress

(* And what takes things away.                                             *)
LEMMA TakingTyped ==
  ASSUME TypeOK, Evict \/ Delete
  PROVE  TypeOK'
BY Blank DEF Evict, GrowOld, EvictList, EvictTag, EvictFail, EvictManifest, Delete, DeleteTag,
             DeleteManifest, Forget, TypeOK, origin, index, evictor

LEMMA TypeStep == TypeOK /\ [Next]_vars => TypeOK'
<1>1. TypeOK /\ UNCHANGED vars => TypeOK'
  BY DEF TypeOK, vars, origin, index, evictor
<1> QED
  BY <1>1, OutsideTyped, ProgressTyped, TakingTyped DEF Next

-----------------------------------------------------------------------------
(***************************************************************************)
(* What any step may do to the tag and to the upstream's history, and what *)
(* that leaves true of the goroutines that take no part in it.             *)
(***************************************************************************)

(* The tag stays where it is, goes, or moves to what the upstream had no   *)
(* longer ago than a fill may take.                                        *)
TagMoves ==
  \/ tag'.digest = tag.digest
  \/ tag'.digest = None
  \/ last'[tag'.digest] >= now - JoinTimeout

Evolves ==
  /\ now <= now'
  /\ \A d \in Digest : last[d] <= last'[d]
  /\ TagMoves

LEMMA Longest == \A outcome : Oldest(outcome) \in Int /\ Oldest(outcome) >= JoinTimeout
BY PullThroughAssumption DEF Oldest, Bound

Numbers ==
  /\ now \in Int
  /\ tag.digest \in Digest \cup {None}
  /\ tag.checked \in Int
  /\ \A d \in Digest : last[d] \in Int
  /\ \A f \in Fill : /\ fill[f].began \in Int
                     /\ fill[f].asked \in Int
                     /\ fill[f].at \in Int
                     /\ fill[f].since \in Int
                     /\ fill[f].answer \in Digest \cup {None}
                     /\ fill[f].pc \in {"known", "confirm", "add", "commit"}
                          => fill[f].answer \in Digest
  /\ \A c \in Client : request[c].since \in Int

LEMMA NumbersTyped == TypeOK => Numbers
BY PullThroughAssumption DEF Numbers, TypeOK, Time, Row, Filling, Requesting

LEMMA NumbersTypedNext == TypeOK' => Numbers'
BY PullThroughAssumption DEF Numbers, TypeOK, Time, Row, Filling, Requesting

(* What is recent enough by as much as a fill may take stays so.           *)
LEMMA SinceKept ==
  ASSUME TypeOK, TypeOK', Evolves, NEW t \in Int, t <= now - JoinTimeout, Since(t)
  PROVE  Since(t)'
BY NumbersTyped, NumbersTypedNext, PullThroughAssumption
   DEF Numbers, Since, Present, Evolves, TagMoves

(* So does what was decided.                                               *)
LEMMA DecidedKept ==
  ASSUME TypeOK, TypeOK', Evolves, NEW outcome, NEW since \in Int, Decided(outcome, since)
  PROVE  Decided(outcome, since)'
<1> USE NumbersTyped, NumbersTypedNext, Longest, PullThroughAssumption DEF Numbers
<1> SUFFICES ASSUME TagMaxStale # 0
             PROVE  since <= now' /\ Since(since - Oldest(outcome))'
  BY DEF Decided
<1>1. since <= now /\ Since(since - Oldest(outcome))
  BY DEF Decided
<1>2. PICK t \in Int : t = since - Oldest(outcome)
  OBVIOUS
<1>3. Since(t)'
  BY <1>1, <1>2, SinceKept
<1> QED
  BY <1>1, <1>2, <1>3 DEF Evolves

LEMMA FillKept ==
  ASSUME TypeOK, TypeOK', Evolves, NEW g \in Fill, FillSound(g), fill'[g] = fill[g]
  PROVE  FillSound(g)'
<1> USE NumbersTyped, NumbersTypedNext, Longest, PullThroughAssumption DEF Numbers
<1>1. fill[g].began <= now'
  BY DEF FillSound, Evolves
<1>2. CASE fill[g].pc \in Asking
  <2>1. fill[g].asked <= now /\ fill[g].asked <= now'
    BY <1>2 DEF FillSound, Evolves
  <2>2. Since(fill[g].asked - Oldest("stale")) => Since(fill[g].asked - Oldest("stale"))'
    <3>1. fill[g].asked - Oldest("stale") \in Int
      OBVIOUS
    <3>2. fill[g].asked - Oldest("stale") <= now - JoinTimeout
      BY <2>1
    <3>3. Oldest("stale")' = Oldest("stale")
      BY DEF Oldest, Bound
    <3>4. ASSUME Since(fill[g].asked - Oldest("stale"))
          PROVE  Since(fill[g].asked - Oldest("stale"))'
      BY <3>1, <3>2, <3>4, SinceKept DEF Oldest, Bound, Since
    <3> QED
      BY <3>4
  <2>3. Since(fill[g].asked - JoinTimeout) => Since(fill[g].asked - JoinTimeout)'
    BY <2>1, SinceKept
  <2>4. \A d \in Digest : tag.digest = d =>
          tag'.digest = d \/ Since(fill[g].asked - JoinTimeout)'
    BY <2>1 DEF Since, Present, Evolves, TagMoves
  <2>5. tag.digest = None => tag'.digest = None \/ Since(fill[g].asked - JoinTimeout)'
    BY <2>1 DEF Since, Present, Evolves, TagMoves
  <2> QED
    BY <1>1, <1>2, <2>1, <2>2, <2>3, <2>4, <2>5 DEF FillSound, Evolves, Asking
<1>3. CASE fill[g].pc \notin Asking
  <2>1. PICK o, s : s \in Int /\ o = fill[g].outcome /\ s = fill[g].since
    OBVIOUS
  <2>2. Decided(o, s) => Decided(o, s)'
    BY <2>1, DecidedKept DEF Decided, Since, Present, Oldest, Bound
  <2>3. fill[g].pc = "end" /\ o # "none" => Decided(o, s)
    BY <2>1 DEF FillSound
  <2>4. fill'[g].pc = "end" /\ fill'[g].outcome # "none" => Decided(o, s)'
    BY <2>1, <2>2, <2>3
  <2>5. Decided(fill[g].outcome, fill[g].since)' <=> Decided(o, s)'
    BY <2>1 DEF Decided, Since, Present, Oldest, Bound
  <2>6. fill'[g].pc = "end" /\ fill'[g].outcome # "none"
          => Decided(fill[g].outcome, fill[g].since)'
    BY <2>4, <2>5
  <2> QED
    BY <1>1, <1>3, <2>6 DEF FillSound, Asking
<1> QED
  BY <1>2, <1>3

LEMMA RequestKept ==
  ASSUME TypeOK, TypeOK', Evolves, NEW c \in Client, RequestSound(c), request'[c] = request[c]
  PROVE  RequestSound(c)'
<1> USE NumbersTyped, NumbersTypedNext, Longest, PullThroughAssumption DEF Numbers
<1> SUFFICES ASSUME request[c].pc = "read"
             PROVE  Decided(request[c].outcome, request[c].since)'
  BY DEF RequestSound
<1>1. PICK o, s : s \in Int /\ o = request[c].outcome /\ s = request[c].since
  OBVIOUS
<1>2. Decided(o, s)
  BY <1>1 DEF RequestSound
<1>3. Decided(o, s)'
  BY <1>1, <1>2, DecidedKept DEF Decided, Since, Present, Oldest, Bound
<1> QED
  BY <1>1, <1>3 DEF Decided, Since, Present, Oldest, Bound

(* A fill that returns leaves every goroutine sound, if what it answers is *)
(* recent enough for how it was decided.                                   *)
LEMMA EndedSound ==
  ASSUME TypeOK, TypeOK', Evolves,
         \A g \in Fill : FillSound(g), \A c \in Client : RequestSound(c),
         NEW f \in Fill, NEW outcome \in Outcome, NEW since \in Int,
         Ended(f, outcome, since), UNCHANGED request,
         outcome # "none" => Decided(outcome, since)'
  PROVE  (\A g \in Fill : FillSound(g)') /\ (\A c \in Client : RequestSound(c)')
<1>1. ASSUME NEW g \in Fill
      PROVE  FillSound(g)'
  <2>1. CASE g = f
    <3>1. /\ fill'[g].pc = "end" /\ fill'[g].began = 0
          /\ fill'[g].outcome = outcome /\ fill'[g].since = since
      BY <2>1 DEF Ended, TypeOK, NoFill
    <3>2. 0 <= now'
      BY NumbersTypedNext DEF TypeOK, Time
    <3>3. outcome # "none" => Decided(fill[g].outcome, fill[g].since)'
      BY <3>1 DEF Decided, Since, Present, Oldest, Bound
    <3> QED
      BY <3>1, <3>2, <3>3 DEF FillSound, Asking
  <2>2. CASE g # f
    BY <2>2, FillKept DEF Ended, TypeOK
  <2> QED
    BY <2>1, <2>2
<1>2. \A c \in Client : RequestSound(c)'
  BY RequestKept
<1> QED
  BY <1>1, <1>2

(* What a check makes of a row.                                            *)
LEMMA Checked ==
  ASSUME NEW row \in Row, NEW d, NEW at
  PROVE  /\ Check(row, d, at).digest = row.digest
         /\ \/ Check(row, d, at).checked = row.checked
            \/ Check(row, d, at).checked = at /\ row.digest = d
BY DEF Check, Row

LEMMA InvInit == Init => Inv
<1> SUFFICES ASSUME Init PROVE Inv
  OBVIOUS
<1>1. TypeOK
  BY TypeInit
<1>2. OriginSound
  BY PullThroughAssumption DEF Init, OriginSound, NoRow
<1>3. \A f \in Fill : FillSound(f)
  BY DEF Init, FillSound, NoFill, Asking
<1>4. \A c \in Client : RequestSound(c)
  BY DEF Init, RequestSound, NoRequest
<1>5. Confirmed
  BY DEF Init, Confirmed, NoRow
<1> QED
  BY <1>1, <1>2, <1>3, <1>4, <1>5 DEF Inv

-----------------------------------------------------------------------------
(***************************************************************************)
(* Every step keeps the invariant.                                         *)
(***************************************************************************)

(* The tag and the upstream's history are what they were.                  *)
LEMMA StillEvolves == TypeOK /\ UNCHANGED <<origin, tag>> => Evolves
BY NumbersTyped DEF Numbers, Evolves, TagMoves, origin

LEMMA StillSound ==
  ASSUME Inv, UNCHANGED <<origin, tag>>
  PROVE  OriginSound' /\ Confirmed'
BY DEF Inv, OriginSound, Confirmed, origin

(* Nothing that a goroutine or a request is at changes.                    *)
LEMMA BystandersKept ==
  ASSUME Inv, TypeOK', Evolves, UNCHANGED <<fill, request>>
  PROVE  (\A g \in Fill : FillSound(g)') /\ (\A c \in Client : RequestSound(c)')
BY FillKept, RequestKept DEF Inv

LEMMA TickKeeps ==
  ASSUME Inv, TypeOK', Tick
  PROVE  Inv'
<1>1. Evolves
  BY NumbersTyped DEF Numbers, Inv, OriginSound, Tick, Evolves, TagMoves, index, TypeOK
<1>2. OriginSound' /\ Confirmed'
  BY NumbersTyped, NumbersTypedNext, PullThroughAssumption
     DEF Numbers, Inv, OriginSound, Confirmed, Tick, index, TypeOK, Row
<1> QED
  BY <1>1, <1>2, BystandersKept DEF Tick, Inv

LEMMA MoveKeeps ==
  ASSUME Inv, TypeOK', NEW d \in Digest \cup {None}, Move(d)
  PROVE  Inv'
<1>1. Evolves
  BY NumbersTyped DEF Numbers, Inv, OriginSound, Move, Evolves, TagMoves, index, TypeOK
<1>2. OriginSound' /\ Confirmed'
  BY NumbersTyped, NumbersTypedNext, PullThroughAssumption
     DEF Numbers, Inv, OriginSound, Confirmed, Move, index, TypeOK, Row
<1> QED
  BY <1>1, <1>2, BystandersKept DEF Move, Inv

(* A request that the index does not answer alone has nothing to read yet. *)
LEMMA NothingRead ==
  ASSUME TypeOK, NEW c \in Client, Request(c), ~ \E r \in Replica : Hit(c, r)
  PROVE  request'[c].pc # "read"
<1> USE DEF NoRequest, TypeOK
<1>1. ASSUME NEW r \in Replica, Ask(c, r)
      PROVE  request'[c].pc # "read"
  BY <1>1 DEF Ask
<1>2. ASSUME NEW f \in Fill, Start(c, f)
      PROVE  request'[c].pc # "read"
  BY <1>2 DEF Start, Wait
<1>3. CASE Join(c)
  BY <1>3 DEF Join, Wait
<1>4. CASE Leave(c)
  BY <1>4 DEF Leave
<1>5. CASE Read(c)
  BY <1>5 DEF Read
<1> QED
  BY <1>1, <1>2, <1>3, <1>4, <1>5 DEF Request

(* A request reads nothing it has not been told of.                        *)
LEMMA RequestKeeps ==
  ASSUME Inv, TypeOK', NEW c \in Client, Request(c)
  PROVE  Inv'
<1> USE NumbersTyped, NumbersTypedNext, PullThroughAssumption DEF Numbers
<1>1. UNCHANGED <<origin, tag>>
  BY DEF Request, Hit, Ask, Join, Start, Leave, Read, index
<1>2. Evolves /\ OriginSound' /\ Confirmed'
  BY <1>1, StillEvolves, StillSound DEF Inv
<1>3. ASSUME NEW e \in Client, e # c
      PROVE  RequestSound(e)'
  <2>1. request'[e] = request[e]
    BY <1>3 DEF Request, Hit, Ask, Join, Start, Leave, Read, Wait, Inv, TypeOK
  <2> QED
    BY <1>2, <2>1, RequestKept DEF Inv
<1>4. RequestSound(c)'
  <2>1. ASSUME NEW r \in Replica, Hit(c, r)
        PROVE  RequestSound(c)'
    <3>1. request'[c].since = now /\ request'[c].outcome = "hit" /\ now' = now
      BY <2>1 DEF Hit, NoRequest, origin, Inv, TypeOK
    <3>2. tag.digest \in Digest /\ tag.checked > now - TagTTL /\ tag.checked # 0
      BY <2>1 DEF Hit, Cached, Present, Fresh, Inv
    <3>3. last[tag.digest] >= now - TagTTL + 1 - JoinTimeout
      BY <3>2 DEF Inv, Confirmed
    <3>4. Oldest("hit") >= JoinTimeout + TagTTL - 1 /\ Oldest("hit") \in Int
      BY DEF Oldest, Bound
    <3>5. last[tag.digest] >= now - Oldest("hit")
      BY <3>2, <3>3, <3>4 DEF Inv
    <3> QED
      BY <1>1, <3>1, <3>5 DEF RequestSound, Decided, Since, Oldest, Bound, origin, Inv
  <2>2. CASE ~ \E r \in Replica : Hit(c, r)
    BY <2>2, NothingRead DEF Inv, RequestSound
  <2> QED
    BY <2>1, <2>2
<1>5. ASSUME NEW g \in Fill
      PROVE  FillSound(g)'
  <2>1. CASE fill'[g] = fill[g]
    BY <1>2, <2>1, FillKept DEF Inv
  <2>2. CASE fill'[g] # fill[g]
    <3>1. Start(c, g)
      BY <2>2 DEF Request, Hit, Ask, Join, Start, Leave, Read, Inv, TypeOK
    <3>2. fill'[g].pc = "look" /\ fill'[g].began = now /\ now' = now
      BY <3>1 DEF Start, NoFill, origin, Inv, TypeOK
    <3> QED
      BY <3>2 DEF FillSound, Asking, Inv
  <2> QED
    BY <2>1, <2>2
<1> QED
  BY <1>2, <1>3, <1>4, <1>5 DEF Inv

(* What takes a row away confirms nothing.                                 *)
LEMMA TakingKeeps ==
  ASSUME Inv, TypeOK', Evict \/ Delete
  PROVE  Inv'
<1>1. /\ UNCHANGED <<origin, fill, request>>
      /\ tag' = tag \/ tag' = NoRow
  BY DEF Evict, GrowOld, EvictList, EvictTag, EvictFail, EvictManifest,
         Delete, DeleteTag, DeleteManifest, Forget, index
<1>2. Evolves
  BY <1>1, NumbersTyped DEF Numbers, Inv, Evolves, TagMoves, NoRow, origin
<1>3. OriginSound' /\ Confirmed'
  BY <1>1, NumbersTyped DEF Numbers, Inv, OriginSound, Confirmed, NoRow, origin, TypeOK, Time
<1> QED
  BY <1>1, <1>2, <1>3, BystandersKept DEF Inv

(* A fill goes on without touching the tag.                                *)
LEMMA AdvanceKeeps ==
  ASSUME Inv, TypeOK', NEW f \in Fill,
         Look(f) \/ HeadSame(f) \/ HeadFetch(f) \/ Known(f) \/ Get(f) \/ Add(f)
  PROVE  Inv'
<1> USE NumbersTyped, NumbersTypedNext, PullThroughAssumption DEF Numbers
<1>1. UNCHANGED <<origin, tag, request>>
  BY DEF Look, HeadSame, HeadFetch, Known, Get, Add, index
<1>2. Evolves /\ OriginSound' /\ Confirmed'
  BY <1>1, StillEvolves, StillSound DEF Inv
<1>3. \A c \in Client : RequestSound(c)'
  BY <1>1, <1>2, RequestKept DEF Inv
<1>4. ASSUME NEW g \in Fill, g # f
      PROVE  FillSound(g)'
  <2>1. fill'[g] = fill[g]
    BY <1>4 DEF Look, HeadSame, HeadFetch, Known, Get, Add, Inv, TypeOK
  <2> QED
    BY <1>2, <2>1, FillKept DEF Inv
<1>5. FillSound(f)'
  <2>1. now' = now /\ last' = last /\ tag' = tag /\ TypeOK /\ FillSound(f)
    BY <1>1 DEF origin, Inv
  <2>2. CASE Look(f)
    <3>1. /\ fill'[f].pc = "head" /\ fill'[f].began = fill[f].began
          /\ fill'[f].asked = now /\ fill'[f].cur = tag.digest
      BY <2>1, <2>2 DEF Look, TypeOK, Filling
    <3>5. fill'[f].stale => Present /\ Servable(tag.checked, now)
      BY <2>1, <2>2 DEF Look, TypeOK, Filling
    <3>6. fill[f].began <= now /\ now <= fill[f].began + JoinTimeout
      BY <2>1, <2>2 DEF Look, InTime, FillSound
    <3>2. Oldest("stale") >= JoinTimeout + TagMaxStale /\ Oldest("stale") \in Int
      BY DEF Oldest, Bound
    <3>3. Present /\ Servable(tag.checked, now) /\ TagMaxStale # 0 =>
            Since(now - Oldest("stale"))
      BY <3>2 DEF Servable, Since, Present, Inv, Confirmed
    <3>4. Since(now - Oldest("stale"))' <=> Since(now - Oldest("stale"))
      BY <2>1 DEF Since, Present, Oldest, Bound
    <3> QED
      BY <2>1, <3>1, <3>3, <3>4, <3>5, <3>6 DEF FillSound, Oldest, Bound, Since
  <2>3. CASE HeadSame(f)
    <3>1. /\ fill'[f].pc = "known" /\ fill'[f].answer = upstream
          /\ fill'[f].began = fill[f].began /\ fill'[f].asked = fill[f].asked
          /\ fill'[f].stale = fill[f].stale
      BY <2>1, <2>3 DEF HeadSame, TypeOK, Filling
    <3>2. upstream \in Digest /\ last[upstream] = now
      BY <2>3 DEF HeadSame, Inv, TypeOK, OriginSound
    <3> QED
      BY <2>1, <2>3, <3>1, <3>2 DEF FillSound, Asking, HeadSame, Since, Present, Oldest, Bound
  <2>4. CASE HeadFetch(f)
    <3>1. /\ fill'[f].pc = "get"
          /\ fill'[f].began = fill[f].began /\ fill'[f].asked = fill[f].asked
          /\ fill'[f].stale = fill[f].stale
      BY <2>1, <2>4 DEF HeadFetch, TypeOK, Filling
    <3> QED
      BY <2>1, <2>4, <3>1 DEF FillSound, Asking, HeadFetch, Since, Present, Oldest, Bound
  <2>5. CASE Known(f)
    <3>1. /\ fill'[f].began = fill[f].began /\ fill'[f].asked = fill[f].asked
          /\ fill'[f].stale = fill[f].stale
          /\ \/ fill'[f].pc = "confirm" /\ fill'[f].answer = fill[f].answer
             \/ fill'[f].pc = "get"
      BY <2>1, <2>5 DEF Known, TypeOK, Filling
    <3> QED
      BY <2>1, <2>5, <3>1 DEF FillSound, Asking, Known, Since, Present, Oldest, Bound
  <2>6. CASE Get(f)
    <3>1. /\ fill'[f].pc = "add" /\ fill'[f].answer = upstream
          /\ fill'[f].began = fill[f].began /\ fill'[f].asked = fill[f].asked
          /\ fill'[f].stale = fill[f].stale
      BY <2>1, <2>6 DEF Get, TypeOK, Filling
    <3>2. upstream \in Digest /\ last[upstream] = now
      BY <2>6 DEF Get, Inv, TypeOK, OriginSound
    <3> QED
      BY <2>1, <2>6, <3>1, <3>2 DEF FillSound, Asking, Get, Since, Present, Oldest, Bound
  <2>7. CASE Add(f)
    <3>1. /\ fill'[f].pc = "commit" /\ fill'[f].answer = fill[f].answer /\ fill'[f].at = now
          /\ fill'[f].began = fill[f].began /\ fill'[f].asked = fill[f].asked
          /\ fill'[f].stale = fill[f].stale
      BY <2>1, <2>7 DEF Add, TypeOK, Filling
    <3> QED
      BY <2>1, <2>7, <3>1 DEF FillSound, Asking, Add, InTime, Since, Present, Oldest, Bound
  <2> QED
    BY <2>2, <2>3, <2>4, <2>5, <2>6, <2>7
<1> QED
  BY <1>2, <1>3, <1>4, <1>5 DEF Inv

(* A fill that fails, or finds that it need not ask, answers what there is. *)
LEMMA FailKeeps ==
  ASSUME Inv, TypeOK', NEW f \in Fill,
         LookHit(f) \/ LookFail(f) \/ HeadUnknown(f) \/ Break(f)
  PROVE  Inv'
<1> USE NumbersTyped, NumbersTypedNext, PullThroughAssumption DEF Numbers
<1>1. UNCHANGED <<origin, tag, request>>
  BY DEF LookHit, LookFail, HeadUnknown, Break, index
<1>2. Evolves /\ OriginSound' /\ Confirmed'
  BY <1>1, StillEvolves, StillSound DEF Inv
<1>3. now' = now /\ last' = last /\ tag' = tag /\ TypeOK /\ FillSound(f)
  BY <1>1 DEF origin, Inv
<1>4. PICK outcome \in Outcome, since \in Int :
        /\ Ended(f, outcome, since)
        /\ outcome # "none" =>
             since <= now /\ (TagMaxStale # 0 => Since(since - Oldest(outcome)))
  <2> DEFINE Sound(o, s) ==
        /\ Ended(f, o, s)
        /\ o # "none" => s <= now /\ (TagMaxStale # 0 => Since(s - Oldest(o)))
  <2> SUFFICES \E o \in Outcome, s \in Int : Sound(o, s)
    OBVIOUS
  <2>1. CASE LookHit(f)
    <3>1. Oldest("hit") >= JoinTimeout + TagTTL - 1 /\ Oldest("hit") \in Int
      BY DEF Oldest, Bound
    <3>2. tag.digest \in Digest /\ last[tag.digest] >= now - Oldest("hit")
      BY <2>1, <3>1 DEF LookHit, Cached, Present, Fresh, Inv, Confirmed
    <3>3. Since(now - Oldest("hit"))
      BY <3>2 DEF Since
    <3>4. Ended(f, "hit", now) /\ "hit" \in Outcome
      BY <2>1 DEF LookHit, Outcome
    <3>5. Sound("hit", now)
      BY <1>3, <3>3, <3>4
    <3> QED
      BY <1>3, <3>4, <3>5
  <2>2. CASE LookFail(f) \/ HeadUnknown(f)
    BY <2>2 DEF LookFail, HeadUnknown, Outcome
  <2>3. CASE Break(f) /\ ~fill[f].stale
    BY <2>3 DEF Break, Outcome
  <2>4. CASE Break(f) /\ fill[f].stale
    <3>1. /\ fill[f].asked <= now
          /\ TagMaxStale # 0 => Since(fill[f].asked - Oldest("stale"))
      BY <1>3, <2>4 DEF Break, FillSound, Asking
    <3>2. Ended(f, "stale", fill[f].asked) /\ "stale" \in Outcome
      BY <2>4 DEF Break, Outcome
    <3>3. Sound("stale", fill[f].asked)
      BY <3>1, <3>2
    <3> QED
      BY <1>3, <3>2, <3>3
  <2> QED
    BY <2>1, <2>2, <2>3, <2>4
<1>5. outcome # "none" => Decided(outcome, since)'
  BY <1>3, <1>4 DEF Decided, Since, Present, Oldest, Bound
<1>6. (\A g \in Fill : FillSound(g)') /\ (\A c \in Client : RequestSound(c)')
  BY <1>1, <1>2, <1>4, <1>5, EndedSound DEF Inv
<1> QED
  BY <1>2, <1>6 DEF Inv

(* What it comes to is what those who wait go on with.                     *)
LEMMA EndKeeps ==
  ASSUME Inv, TypeOK', NEW f \in Fill, End(f)
  PROVE  Inv'
<1>1. UNCHANGED <<origin, tag>>
  BY DEF End, index
<1>2. Evolves /\ OriginSound' /\ Confirmed'
  BY <1>1, StillEvolves, StillSound DEF Inv
<1>3. TypeOK /\ FillSound(f) /\ now' = now /\ last' = last /\ tag' = tag
  BY <1>1 DEF Inv, origin
<1>4. ASSUME NEW g \in Fill
      PROVE  FillSound(g)'
  <2>1. CASE g = f
    <3>1. fill'[g] = NoFill
      BY <1>3, <2>1 DEF End, TypeOK
    <3>2. 0 <= now'
      BY NumbersTypedNext DEF TypeOK, Time
    <3> QED
      BY <3>1, <3>2 DEF NoFill, FillSound, Asking
  <2>2. CASE g # f
    <3>1. fill'[g] = fill[g]
      BY <1>3, <2>2 DEF End, TypeOK
    <3> QED
      BY <1>2, <3>1, FillKept DEF Inv
  <2> QED
    BY <2>1, <2>2
<1>5. ASSUME NEW c \in Client
      PROVE  RequestSound(c)'
  <2>1. CASE request'[c] = request[c]
    BY <1>2, <2>1, RequestKept DEF Inv
  <2>2. CASE request'[c] # request[c]
    <3>1. request'[c] = Woken(fill[f].outcome, fill[f].since) /\ fill[f].pc = "end"
      BY <1>3, <2>2 DEF End, TypeOK
    <3>2. CASE fill[f].outcome = "none"
      BY <3>1, <3>2 DEF Woken, NoRequest, RequestSound
    <3>3. CASE fill[f].outcome # "none"
      <4>1. /\ request'[c].outcome = fill[f].outcome
            /\ request'[c].since = fill[f].since
        BY <3>1, <3>3 DEF Woken, NoRequest
      <4>2. Decided(fill[f].outcome, fill[f].since)
        BY <1>3, <3>1, <3>3 DEF FillSound
      <4> QED
        BY <1>3, <4>1, <4>2 DEF RequestSound, Decided, Since, Present, Oldest, Bound
    <3> QED
      BY <3>2, <3>3
  <2> QED
    BY <2>1, <2>2
<1> QED
  BY <1>2, <1>4, <1>5 DEF Inv

(* A check that is recorded does not move the tag; one that comes after    *)
(* the tag has moved records nothing.                                      *)
LEMMA ConfirmKeeps ==
  ASSUME Inv, TypeOK', NEW f \in Fill, Confirm(f)
  PROVE  Inv'
<1> USE NumbersTyped, NumbersTypedNext, PullThroughAssumption DEF Numbers
<1>1. /\ TypeOK /\ FillSound(f)
      /\ now' = now /\ last' = last /\ upstream' = upstream
      /\ fill[f].pc = "confirm" /\ request' = request
      /\ Ended(f, "revalidated", fill[f].asked)
  BY DEF Confirm, Inv, origin
<1>2. fill[f].asked <= now /\ last[fill[f].answer] >= fill[f].asked
  BY <1>1 DEF FillSound, Asking
<1>3. /\ tag'.digest = tag.digest
      /\ \/ tag'.checked = tag.checked
         \/ tag'.checked = fill[f].asked /\ tag.digest = fill[f].answer
  <2>1. tag' = Check(tag, fill[f].answer, fill[f].asked) \/ tag' = tag
    BY DEF Confirm
  <2>2. tag \in Row
    BY DEF Inv, TypeOK
  <2> QED
    BY <2>1, <2>2, Checked
<1>4. Evolves
  BY <1>1, <1>3 DEF Evolves, TagMoves
<1>5. OriginSound'
  BY <1>1, <1>2, <1>3 DEF Inv, OriginSound
<1>6. Confirmed'
  BY <1>1, <1>2, <1>3 DEF Inv, Confirmed
<1>7. PICK since \in Int : since = fill[f].asked
  BY <1>1
<1>8. Since(since - Oldest("revalidated"))'
  <2>1. tag.digest = fill[f].answer \/ Since(since - JoinTimeout)
    BY <1>1, <1>7 DEF FillSound
  <2>2. Oldest("revalidated") >= JoinTimeout /\ Oldest("revalidated") \in Int
    BY Longest
  <2>3. tag.digest # None => last[tag.digest] >= since - Oldest("revalidated")
    BY <1>1, <1>2, <1>7, <2>1, <2>2 DEF Since, Present
  <2> QED
    BY <1>1, <1>3, <2>3 DEF Since, Present, Oldest, Bound
<1>9. (\A g \in Fill : FillSound(g)') /\ (\A c \in Client : RequestSound(c)')
  <2>1. "revalidated" \in Outcome /\ Decided("revalidated", since)'
    BY <1>1, <1>2, <1>7, <1>8 DEF Outcome, Decided
  <2>2. /\ \A g \in Fill : FillSound(g)
        /\ \A c \in Client : RequestSound(c)
    BY DEF Inv
  <2> QED
    BY <1>1, <1>4, <1>7, <2>1, <2>2, EndedSound
<1> QED
  BY <1>5, <1>6, <1>9 DEF Inv

(* A commit moves the tag to what the upstream answered within the time a  *)
(* fill may take, whatever was checked meanwhile.                          *)
LEMMA CommitKeeps ==
  ASSUME Inv, TypeOK', NEW f \in Fill, Commit(f)
  PROVE  Inv'
<1> USE NumbersTyped, NumbersTypedNext, PullThroughAssumption DEF Numbers
<1> DEFINE d == fill[f].answer
<1>1. /\ TypeOK /\ FillSound(f)
      /\ now' = now /\ last' = last /\ upstream' = upstream
      /\ fill[f].pc = "commit"
      /\ now <= fill[f].began + JoinTimeout /\ request' = request
      /\ Ended(f, "fetched", fill[f].asked)
  BY DEF Commit, Inv, origin, InTime
<1>2. /\ fill[f].asked <= now
      /\ last[d] >= fill[f].began
      /\ fill[f].at <= now /\ fill[f].at <= fill[f].began + JoinTimeout
      /\ d \in Digest
  BY <1>1 DEF FillSound, Asking
<1>3. /\ tag'.digest = d
      /\ tag'.checked = tag.checked \/ tag'.checked = fill[f].at
  BY <1>1 DEF Commit, Check, Set, TypeOK, Row
<1>4. last'[d] >= now - JoinTimeout
  BY <1>1, <1>2
<1>5. Evolves
  BY <1>1, <1>3, <1>4 DEF Evolves, TagMoves
<1>6. OriginSound'
  BY <1>1, <1>2, <1>3 DEF Inv, OriginSound
<1>7. Confirmed'
  BY <1>1, <1>2, <1>3, <1>4 DEF Inv, OriginSound, Confirmed
<1>8. PICK since \in Int : since = fill[f].asked
  BY <1>1
<1>9. Since(since - Oldest("fetched"))'
  <2>1. Oldest("fetched") >= JoinTimeout /\ Oldest("fetched") \in Int
    BY Longest
  <2>2. last'[d] >= since - Oldest("fetched")
    BY <1>1, <1>2, <1>4, <1>8, <2>1
  <2> QED
    BY <1>3, <2>2 DEF Since, Oldest, Bound
<1>10. (\A g \in Fill : FillSound(g)') /\ (\A c \in Client : RequestSound(c)')
  <2>1. "fetched" \in Outcome /\ Decided("fetched", since)'
    BY <1>1, <1>2, <1>8, <1>9 DEF Outcome, Decided
  <2>2. /\ \A g \in Fill : FillSound(g)
        /\ \A c \in Client : RequestSound(c)
    BY DEF Inv
  <2> QED
    BY <1>1, <1>5, <1>8, <2>1, <2>2, EndedSound
<1> QED
  BY <1>6, <1>7, <1>10 DEF Inv

LEMMA InvStep == Inv /\ [Next]_vars => Inv'
<1> SUFFICES ASSUME Inv, [Next]_vars PROVE Inv'
  OBVIOUS
<1>1. TypeOK'
  BY TypeStep DEF Inv
<1>2. CASE Tick
  BY <1>1, <1>2, TickKeeps
<1>3. ASSUME NEW d \in Digest \cup {None}, Move(d)
      PROVE  Inv'
  BY <1>1, <1>3, MoveKeeps
<1>4. ASSUME NEW c \in Client, Request(c)
      PROVE  Inv'
  BY <1>1, <1>4, RequestKeeps
<1>5. ASSUME NEW f \in Fill, Progress(f)
      PROVE  Inv'
  BY <1>1, <1>5, AdvanceKeeps, FailKeeps, ConfirmKeeps, CommitKeeps, EndKeeps DEF Progress
<1>6. CASE Evict \/ Delete
  BY <1>1, <1>6, TakingKeeps
<1>7. CASE UNCHANGED vars
  <2>1. UNCHANGED <<origin, tag>> /\ UNCHANGED <<fill, request>>
    BY <1>7 DEF vars, index
  <2> QED
    BY <1>1, <2>1, StillEvolves, StillSound, BystandersKept DEF Inv
<1> QED
  BY <1>2, <1>3, <1>4, <1>5, <1>6, <1>7 DEF Next

-----------------------------------------------------------------------------

(* The inductive invariant, for any number of replicas.                    *)
THEOREM Soundness == Spec => []Inv
BY InvInit, InvStep, PTL DEF Spec

(* What a tag of the cache points at was there upstream no longer than a   *)
(* fill takes before the time its row was last checked.                    *)
THEOREM CheckedInTime == Spec => []Confirmed
<1>1. Inv => Confirmed
  BY DEF Inv
<1> QED
  BY <1>1, Soundness, PTL

(* What a client is answered is no older than the bound that applied when  *)
(* it was decided to answer it, and a fill.                                *)
THEOREM Recency == Spec => AnswersRecent
<1>1. Inv => [\A c \in Client :
                /\ request[c].pc = "read"
                /\ request'[c].pc = "idle"
                /\ Present
                /\ TagMaxStale # 0
                => last[tag.digest] >= request[c].since - Oldest(request[c].outcome)]_vars
  BY DEF Inv, RequestSound, Decided, Since
<1> QED
  BY <1>1, Soundness, PTL DEF AnswersRecent

-----------------------------------------------------------------------------
(***************************************************************************)
(* What holds where there is one replica, whatever fills were left behind  *)
(* by the requests that began them.                                        *)
(***************************************************************************)

LEMMA VersionTyped ==
  TypeOK => /\ version \in Nat /\ seen \in Nat
            /\ \A f \in Fill : fill[f].version \in Nat
BY PullThroughAssumption DEF TypeOK, Filling

LEMMA VersionTypedNext ==
  TypeOK' => /\ version' \in Nat /\ seen' \in Nat
             /\ \A f \in Fill : fill'[f].version \in Nat
BY PullThroughAssumption DEF TypeOK, Filling

(* A goroutine that goes on keeps the key it fills, and what the upstream   *)
(* tells it is what the upstream has now.                                  *)
LEMMA AdvanceFlight ==
  ASSUME TypeOK, NEW f \in Fill,
         Look(f) \/ HeadSame(f) \/ HeadFetch(f) \/ Known(f) \/ Get(f) \/ Add(f)
  PROVE  /\ fill[f].pc # "idle"
         /\ fill'[f].home = fill[f].home
         /\ fill'[f].version \in {0, fill[f].version, version}
         /\ \A g \in Fill : g # f => fill'[g] = fill[g]
         /\ UNCHANGED <<flights, origin, index>>
BY DEF Look, HeadSame, HeadFetch, Known, Get, Add, TypeOK, Filling

(* Each goroutine that fills is the one its replica has in flight.          *)
LEMMA FlightsStep ==
  ASSUME TypeOK, TypeOK', \A f \in Fill : FlightSound(f), [Next]_vars
  PROVE  \A f \in Fill : FlightSound(f)'
<1> USE VersionTyped, VersionTypedNext
<1>1. CASE UNCHANGED <<fill, flights>> /\ version <= version'
  BY <1>1 DEF FlightSound
<1>2. ASSUME NEW c \in Client, NEW f \in Fill, Start(c, f)
      PROVE  \A g \in Fill : FlightSound(g)'
  <2>1. /\ request[c].home \in Replica
        /\ flights[request[c].home] = None
        /\ version' = version
    BY <1>2 DEF Start, TypeOK, Requesting, origin
  <2>2. FlightSound(f)'
    BY <1>2, <2>1 DEF Start, NoFill, FlightSound, TypeOK
  <2>3. ASSUME NEW g \in Fill, g # f
        PROVE  FlightSound(g)'
    BY <1>2, <2>1, <2>3, PullThroughAssumption DEF Start, FlightSound, TypeOK
  <2> QED
    BY <2>2, <2>3
<1>3. ASSUME NEW f \in Fill,
             Look(f) \/ HeadSame(f) \/ HeadFetch(f) \/ Known(f) \/ Get(f) \/ Add(f)
      PROVE  \A g \in Fill : FlightSound(g)'
  BY <1>3, AdvanceFlight DEF FlightSound, origin
<1>4. ASSUME NEW f \in Fill, NEW outcome, NEW since,
             fill[f].pc # "idle", Ended(f, outcome, since), UNCHANGED <<version, flights>>
      PROVE  \A g \in Fill : FlightSound(g)'
  <2>1. FlightSound(f)'
    BY <1>4 DEF Ended, NoFill, FlightSound, TypeOK
  <2>2. ASSUME NEW g \in Fill, g # f
        PROVE  FlightSound(g)'
    BY <1>4, <2>2 DEF Ended, FlightSound, TypeOK
  <2> QED
    BY <2>1, <2>2
<1>8. ASSUME NEW f \in Fill, End(f)
      PROVE  \A g \in Fill : FlightSound(g)'
  <2>1. fill[f].pc # "idle" /\ version' = version
    BY <1>8 DEF End, origin
  <2>2. FlightSound(f)'
    BY <1>8, <2>1 DEF End, NoFill, FlightSound, TypeOK
  <2>3. ASSUME NEW g \in Fill, g # f
        PROVE  FlightSound(g)'
    BY <1>8, <2>1, <2>3 DEF End, FlightSound, TypeOK
  <2> QED
    BY <2>2, <2>3
<1>5. CASE Tick \/ (\E d \in Digest \cup {None} : Move(d)) \/ Evict \/ Delete \/ UNCHANGED vars
  <2>1. UNCHANGED <<fill, flights>> /\ version <= version'
    BY <1>5 DEF Tick, Move, Evict, GrowOld, EvictList, EvictTag, EvictFail, EvictManifest,
                Delete, DeleteTag, DeleteManifest, vars, origin
  <2> QED
    BY <1>1, <2>1
<1>6. ASSUME NEW c \in Client, Request(c)
      PROVE  \A g \in Fill : FlightSound(g)'
  <2>1. CASE \E f \in Fill : Start(c, f)
    BY <1>2, <2>1
  <2>2. CASE ~ \E f \in Fill : Start(c, f)
    <3>1. (\E r \in Replica : Hit(c, r) \/ Ask(c, r)) \/ Join(c) \/ Leave(c) \/ Read(c)
      BY <1>6, <2>2 DEF Request
    <3>2. UNCHANGED <<fill, flights>> /\ version' = version
      BY <3>1 DEF Hit, Ask, Join, Leave, Read, origin
    <3> QED
      BY <1>1, <3>2
  <2> QED
    BY <2>1, <2>2
<1>7. ASSUME NEW f \in Fill, Progress(f)
      PROVE  \A g \in Fill : FlightSound(g)'
  <2>1. CASE Look(f) \/ HeadSame(f) \/ HeadFetch(f) \/ Known(f) \/ Get(f) \/ Add(f)
    BY <1>3, <2>1
  <2>2. CASE LookHit(f) \/ LookFail(f) \/ HeadUnknown(f) \/ Confirm(f) \/ Commit(f) \/ Break(f)
    <3>1. /\ fill[f].pc # "idle"
          /\ UNCHANGED <<version, flights>>
          /\ \E outcome, since : Ended(f, outcome, since)
      BY <2>2 DEF LookHit, LookFail, HeadUnknown, Confirm, Commit, Break, origin
    <3> QED
      BY <1>4, <3>1
  <2> QED
    BY <1>7, <1>8, <2>1, <2>2 DEF Progress
<1> QED
  BY <1>5, <1>6, <1>7 DEF Next

(* One replica fills a tag with one goroutine at a time.                    *)
LEMMA OneAtATime ==
  ASSUME OneReplica, NEW f \in Fill, NEW g \in Fill, FlightSound(f), FlightSound(g),
         fill[f].pc # "idle", fill[g].pc # "idle"
  PROVE  f = g
BY DEF OneReplica, FlightSound

(* What a step of its only fill makes of a tag.                             *)
LEMMA OnlyStep ==
  ASSUME Inv, TypeOK', AloneSound, OneReplica, NEW f \in Fill, Progress(f)
  PROVE  /\ CheckedOfDigest'
         /\ seen <= seen' /\ seen' <= version'
         /\ \A g \in Fill : Ahead(g)'
<1> USE VersionTyped, VersionTypedNext, NumbersTyped, NumbersTypedNext DEF Numbers
<1>1. /\ TypeOK /\ CheckedOfDigest /\ Ahead(f) /\ FlightSound(f)
      /\ seen <= version /\ version' = version
  BY DEF Inv, AloneSound, Progress, Look, LookHit, LookFail, HeadSame, HeadFetch, HeadUnknown,
         Known, Confirm, Get, Add, Commit, Break, End, origin
<1>2. fill[f].pc # "idle"
  BY DEF Progress, Look, LookHit, LookFail, HeadSame, HeadFetch, HeadUnknown,
         Known, Confirm, Get, Add, Commit, Break, End
<1>3. ASSUME NEW g \in Fill, g # f
      PROVE  Ahead(g)'
  <2>1. fill[g].pc = "idle"
    BY <1>2, <1>3, OneAtATime DEF AloneSound
  <2>2. fill'[g] = fill[g]
    BY <1>1, <1>3 DEF Progress, Look, LookHit, LookFail, HeadSame, HeadFetch, HeadUnknown,
         Known, Confirm, Get, Add, Commit, Break, End, Ended, TypeOK
  <2> QED
    BY <2>1, <2>2 DEF Ahead
<1>4. CASE Look(f) \/ HeadSame(f) \/ HeadFetch(f) \/ Known(f) \/ Get(f) \/ Add(f)
  <2>1. UNCHANGED index
    BY <1>1, <1>4, AdvanceFlight
  <2>2. Ahead(f)'
    <3>1. CASE Look(f) \/ HeadFetch(f)
      BY <1>1, <3>1 DEF Look, HeadFetch, Ahead, TypeOK, Filling
    <3>2. CASE HeadSame(f) \/ Get(f)
      BY <1>1, <2>1, <3>2 DEF HeadSame, Get, Ahead, TypeOK, Filling, index
    <3>3. CASE Known(f)
      BY <1>1, <2>1, <3>3 DEF Known, Ahead, TypeOK, Filling, index
    <3>4. CASE Add(f)
      BY <1>1, <2>1, <3>4 DEF Add, Ahead, TypeOK, Filling, Inv, OriginSound, index
    <3> QED
      BY <1>4, <3>1, <3>2, <3>3, <3>4
  <2> QED
    BY <1>1, <1>3, <2>1, <2>2 DEF CheckedOfDigest, index
<1>5. CASE LookHit(f) \/ LookFail(f) \/ HeadUnknown(f) \/ Confirm(f) \/ Commit(f) \/ Break(f)
  <2>1. Ahead(f)'
    <3>1. \E outcome, since : Ended(f, outcome, since)
      BY <1>5 DEF LookHit, LookFail, HeadUnknown, Confirm, Commit, Break
    <3>2. fill'[f].pc = "end"
      BY <1>1, <3>1 DEF Ended, NoFill, TypeOK
    <3> QED
      BY <3>2 DEF Ahead
  <2>2. CASE LookHit(f) \/ LookFail(f) \/ HeadUnknown(f) \/ Break(f)
    BY <1>1, <1>3, <2>1, <2>2 DEF LookHit, LookFail, HeadUnknown, Break, CheckedOfDigest, index
  <2>3. CASE Confirm(f)
    <3>1. fill[f].version <= version /\ seen <= fill[f].version
      BY <1>1, <2>3 DEF Confirm, FlightSound, Ahead
    <3>2. seen' \in {seen, fill[f].version}
      BY <2>3 DEF Confirm
    <3>3. CheckedOfDigest'
      BY <1>1, <2>3 DEF Confirm, Check, CheckedFor, CheckedOfDigest, TypeOK, Row
    <3> QED
      BY <1>1, <1>3, <2>1, <3>1, <3>2, <3>3
  <2>4. CASE Commit(f)
    <3>1. /\ fill[f].version <= version /\ seen <= fill[f].version
          /\ tag.checked <= fill[f].at
      BY <1>1, <2>4 DEF Commit, FlightSound, Ahead
    <3>2. seen' = fill[f].version
      BY <2>4 DEF Commit
    <3>3. tag'.digest = fill[f].answer /\ checkedFor' = fill[f].answer
      BY <1>1, <2>4, <3>1 DEF Commit, Check, CheckedFor, Set, TypeOK, Row
    <3> QED
      BY <1>1, <1>3, <2>1, <3>1, <3>2, <3>3 DEF CheckedOfDigest
  <2> QED
    BY <1>5, <2>2, <2>3, <2>4
<1>6. CASE End(f)
  <2>1. UNCHANGED index /\ fill'[f] = NoFill
    BY <1>1, <1>6 DEF End, TypeOK
  <2> QED
    BY <1>1, <1>3, <2>1 DEF CheckedOfDigest, Ahead, NoFill, index
<1> QED
  BY <1>4, <1>5, <1>6 DEF Progress

(* Every other step leaves the tag to the fill that runs.                   *)
LEMMA OthersStep ==
  ASSUME Inv, AloneSound, OneReplica, [Next]_vars, ~ \E f \in Fill : Progress(f)
  PROVE  CheckedOfDigest' /\ seen' = seen /\ \A g \in Fill : Ahead(g)'
<1>1. TypeOK /\ CheckedOfDigest /\ \A g \in Fill : Ahead(g)
  BY DEF Inv, AloneSound
<1>2. /\ seen' = seen
      /\ \/ tag' = tag /\ checkedFor' = checkedFor
         \/ tag' = NoRow
  BY DEF Next, Tick, Move, Request, Hit, Ask, Join, Start, Leave, Read,
         Evict, GrowOld, EvictList, EvictTag, EvictFail, EvictManifest,
         Delete, DeleteTag, DeleteManifest, Forget, vars, index
<1>3. CheckedOfDigest'
  BY <1>1, <1>2 DEF CheckedOfDigest, NoRow
<1>4. ASSUME NEW g \in Fill
      PROVE  Ahead(g)'
  <2>1. CASE fill'[g] = fill[g]
    BY <1>1, <1>2, <2>1, NumbersTyped, PullThroughAssumption
       DEF Numbers, Ahead, NoRow, TypeOK, Filling
  <2>2. CASE fill'[g] # fill[g]
    <3>1. \E c \in Client, f \in Fill : Start(c, f)
      BY <2>2 DEF Next, Tick, Move, Request, Hit, Ask, Join, Leave, Read,
         Evict, GrowOld, EvictList, EvictTag, EvictFail, EvictManifest,
         Delete, DeleteTag, DeleteManifest, vars
    <3>2. fill'[g].pc = "look"
      BY <1>1, <2>2, <3>1 DEF Start, NoFill, TypeOK
    <3> QED
      BY <3>2 DEF Ahead
  <2> QED
    BY <2>1, <2>2
<1> QED
  BY <1>2, <1>3, <1>4

LEMMA AloneInit == Init => AloneSound
BY PullThroughAssumption DEF Init, AloneSound, FlightSound, Ahead, CheckedOfDigest, NoFill, NoRow

(* What a fill that has ended, or that runs, leaves of its tag's version.   *)
LEMMA SeenStep ==
  ASSUME Inv, TypeOK', AloneSound, [Next]_vars
  PROVE  seen' <= version'
<1> USE VersionTyped, VersionTypedNext
<1>1. seen <= version /\ \A f \in Fill : fill[f].version <= version
  BY DEF AloneSound, FlightSound
<1>2. version' = version \/ version' = version + 1
  BY DEF Next, Tick, Move, Request, Hit, Ask, Join, Start, Leave,
         Read, Progress, Look, LookHit, LookFail, HeadSame, HeadFetch, HeadUnknown, Known,
         Confirm, Get, Add, Commit, Break, End, Evict, GrowOld, EvictList, EvictTag, EvictFail,
         EvictManifest, Delete, DeleteTag, DeleteManifest, vars, origin
<1>3. seen' = seen \/ \E f \in Fill : seen' = fill[f].version
  BY DEF Next, Tick, Move, Request, Hit, Ask, Join, Start, Leave,
         Read, Progress, Look, LookHit, LookFail, HeadSame, HeadFetch, HeadUnknown, Known,
         Confirm, Get, Add, Commit, Break, End, Evict, GrowOld, EvictList, EvictTag, EvictFail,
         EvictManifest, Delete, DeleteTag, DeleteManifest, vars, index
<1> QED
  BY <1>1, <1>2, <1>3 DEF Inv

LEMMA AloneStep == Inv /\ AloneSound /\ [Next]_vars => AloneSound'
<1> SUFFICES ASSUME Inv, AloneSound, [Next]_vars PROVE AloneSound'
  OBVIOUS
<1>1. TypeOK /\ TypeOK'
  BY TypeStep DEF Inv
<1>2. \A f \in Fill : FlightSound(f)'
  BY <1>1, FlightsStep DEF AloneSound
<1>3. seen' <= version'
  BY <1>1, SeenStep
<1>4. OneReplica => CheckedOfDigest' /\ \A f \in Fill : Ahead(f)'
  BY <1>1, OnlyStep, OthersStep
<1> QED
  BY <1>2, <1>3, <1>4 DEF AloneSound, OneReplica

(* The goroutine that fills is the one its replica has in flight; with one  *)
(* replica, what it knows is ahead of what it finds written.                *)
THEOREM Alone == Spec => []AloneSound
BY InvInit, InvStep, AloneInit, AloneStep, PTL DEF Spec

(* With one replica, a row's time of check is the one recorded for the      *)
(* digest the tag points at.                                               *)
THEOREM CheckedAsSaid ==
  ASSUME OneReplica
  PROVE  Spec => []CheckedOfDigest
<1>1. AloneSound => CheckedOfDigest
  BY DEF AloneSound
<1> QED
  BY <1>1, Alone, PTL

(* With one replica, a tag never goes back to an earlier answer of the      *)
(* upstream.                                                               *)
THEOREM NoWayBack ==
  ASSUME OneReplica
  PROVE  Spec => NeverBack
<1>1. Inv /\ AloneSound /\ [Next]_vars => [Present /\ Present' => seen' >= seen]_vars
  <2> SUFFICES ASSUME Inv, AloneSound, [Next]_vars PROVE seen' >= seen
    OBVIOUS
  <2>1. TypeOK /\ TypeOK'
    BY TypeStep DEF Inv
  <2>2. seen <= seen'
    BY <2>1, OnlyStep, OthersStep, VersionTyped
  <2> QED
    BY <2>1, <2>2, VersionTyped, VersionTypedNext
<1> QED
  BY <1>1, Soundness, Alone, PTL DEF NeverBack, Spec

-----------------------------------------------------------------------------
(***************************************************************************)
(* Replicas that share only rows implement the atomic cache.                *)
(***************************************************************************)

LEMMA CacheBegins == Init => Promise!CacheInit
<1> SUFFICES ASSUME Init PROVE Promise!CacheInit
  OBVIOUS
<1>1. last \in [Digest -> 0 .. 1]
  BY DEF Init
<1>2. \E d \in Digest \cup {None} : tag = [digest |-> d, checked |-> 0]
  BY DEF Init, NoRow
<1> QED
  BY <1>1, <1>2 DEF Init, Promise!CacheInit

(* The clock, and the upstream's moves, are the world's.                    *)
LEMMA PassStep ==
  ASSUME TypeOK, Tick \/ \E d \in Digest \cup {None} : Move(d)
  PROVE  Promise!Pass
<1>1. now \in Int /\ last \in [Digest -> 0 .. MaxTime]
  BY ClockTyped DEF TypeOK
<1>2. CASE Tick
  BY <1>1, <1>2 DEF Tick, Promise!Pass, index
<1>3. CASE \E d \in Digest \cup {None} : Move(d)
  BY <1>1, <1>3 DEF Move, Promise!Pass, index
<1> QED
  BY <1>2, <1>3

(* A check is recorded for what the upstream still had when it was asked.   *)
LEMMA ConfirmStep ==
  ASSUME Inv, NEW f \in Fill, Confirm(f)
  PROVE  (\E at \in 1 .. now : Promise!Confirm(at)) \/ UNCHANGED <<now, last, tag>>
<1> USE NumbersTyped, PullThroughAssumption DEF Numbers
<1>1. /\ TypeOK /\ FillSound(f) /\ fill[f].pc = "confirm"
      /\ now' = now /\ last' = last
      /\ tag' = Check(tag, fill[f].answer, fill[f].asked) \/ tag' = tag
  BY DEF Confirm, Inv, origin
<1>2. /\ fill[f].asked <= now /\ last[fill[f].answer] >= fill[f].asked
      /\ fill[f].answer \in Digest /\ fill[f].answer # None
  BY <1>1 DEF FillSound, Asking
<1>3. CASE tag.digest = fill[f].answer /\ tag.checked < fill[f].asked /\ tag' # tag
  <2>1. tag' = [tag EXCEPT !.checked = fill[f].asked]
    BY <1>1, <1>3 DEF Check
  <2>2. fill[f].asked \in 1 .. now
    BY <1>1, <1>2, <1>3 DEF TypeOK, Row
  <2>3. Promise!Confirm(fill[f].asked)
    BY <1>1, <1>2, <1>3, <2>1 DEF Promise!Confirm
  <2> QED
    BY <2>2, <2>3
<1>4. CASE ~(tag.digest = fill[f].answer /\ tag.checked < fill[f].asked /\ tag' # tag)
  BY <1>1, <1>4 DEF Check
<1> QED
  BY <1>3, <1>4

(* A fetch that is in time commits what the upstream had a moment ago.      *)
LEMMA RefreshStep ==
  ASSUME Inv, NEW f \in Fill, Commit(f)
  PROVE  \E d \in Digest, at \in 0 .. now : Promise!Refresh(d, at)
<1> USE NumbersTyped, PullThroughAssumption DEF Numbers
<1> DEFINE d == fill[f].answer
<1>1. /\ TypeOK /\ FillSound(f) /\ OriginSound /\ fill[f].pc = "commit"
      /\ now' = now /\ last' = last /\ now <= fill[f].began + JoinTimeout
      /\ tag' = Check(Set(tag, d), d, fill[f].at)
  BY DEF Commit, Inv, origin, InTime
<1>2. /\ last[d] >= now - JoinTimeout /\ d \in Digest
      /\ fill[f].at <= now /\ tag.checked <= now
      /\ fill[f].at \in 0 .. MaxTime /\ tag.checked \in 0 .. MaxTime
  BY <1>1 DEF FillSound, Asking, OriginSound, TypeOK, Filling, Row
<1>3. PICK at \in 0 .. now : tag' = [digest |-> d, checked |-> at] /\ at >= tag.checked
  <2>1. Set(tag, d) = [digest |-> d, checked |-> tag.checked]
    BY <1>1 DEF Set, TypeOK, Row
  <2>2. tag' = [digest |-> d, checked |-> IF tag.checked < fill[f].at THEN fill[f].at ELSE tag.checked]
    BY <1>1, <2>1 DEF Check
  <2> QED
    BY <1>2, <2>2
<1>4. Promise!Refresh(d, at)
  BY <1>1, <1>2, <1>3 DEF Promise!Refresh
<1> QED
  BY <1>2, <1>4

(* No other step touches the tag, but to take it away.                      *)
LEMMA CacheStep == Inv /\ [Next]_vars => [Promise!CacheNext]_<<now, last, tag>>
<1> SUFFICES ASSUME Inv, [Next]_vars
             PROVE  Promise!CacheNext \/ UNCHANGED <<now, last, tag>>
  OBVIOUS
<1>1. CASE Tick \/ \E d \in Digest \cup {None} : Move(d)
  BY <1>1, PassStep DEF Inv, Promise!CacheNext
<1>2. ASSUME NEW c \in Client, Request(c)
      PROVE  UNCHANGED <<now, last, tag>>
  BY <1>2 DEF Request, Hit, Ask, Join, Start, Leave, Read, origin, index
<1>3. ASSUME NEW f \in Fill, Progress(f)
      PROVE  Promise!CacheNext \/ UNCHANGED <<now, last, tag>>
  <2>1. CASE Confirm(f)
    BY <2>1, ConfirmStep DEF Promise!CacheNext
  <2>2. CASE Commit(f)
    BY <2>2, RefreshStep DEF Promise!CacheNext
  <2>3. CASE ~Confirm(f) /\ ~Commit(f)
    BY <1>3, <2>3 DEF Progress, Look, LookHit, LookFail, HeadSame, HeadFetch, HeadUnknown, Known,
                      Get, Add, Break, End, origin, index
  <2> QED
    BY <2>1, <2>2, <2>3
<1>4. CASE Evict \/ Delete
  <2>1. UNCHANGED <<now, last>> /\ (tag' = tag \/ tag' = NoRow)
    BY <1>4 DEF Evict, GrowOld, EvictList, EvictTag, EvictFail, EvictManifest,
                Delete, DeleteTag, DeleteManifest, Forget, origin, index
  <2> QED
    BY <2>1 DEF NoRow, Promise!CacheNext, Promise!Drop
<1>5. CASE UNCHANGED vars
  BY <1>5 DEF vars, origin, index
<1> QED
  BY <1>1, <1>2, <1>3, <1>4, <1>5 DEF Next

(* Whatever replicas and fills do between them, the tag is an atomic        *)
(* cache's: every write of it is borne out by the upstream.                 *)
THEOREM Implementation == Spec => ImplementsCache
BY Soundness, CacheBegins, CacheStep, PTL DEF Spec, ImplementsCache, Promise!CacheSpec, Promise!cacheVars
=============================================================================
