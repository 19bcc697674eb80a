-------------------------- MODULE ReferrersProofs --------------------------
(***************************************************************************)
(* Theorems about Referrers, for any referrers, signatures, clients and    *)
(* bounds: the inductive invariant Inv, and from it that lists are recent, *)
(* that what is admitted is signed, and that what is collected was         *)
(* omitted.                                                                *)
(***************************************************************************)
EXTENDS Referrers, TLAPS

USE ReferrersAssumption

(* What an upstream without the API answers is no list of referrers. *)
LEMMA NoApiIsNoList == NoApi \notin SUBSET Referrer /\ NoApi \in Listing
BY DEF NoApi, Listing

LEMMA NoClientSound ==
  ASSUME TypeOK
  PROVE  NoClient \in RequestState /\ RequestSound(NoClient)
BY NoApiIsNoList DEF NoClient, RequestState, RequestSound, NoSnapshot, Snapshot, SnapshotSound,
      Listing, Outcome, Bounded, Time, TypeOK

(* A list nothing good was decided of admits nobody. *)
LEMMA JudgedSound ==
  ASSUME TypeOK, VerdictSound, NEW q \in RequestState, RequestSound(q), q.pc = "judge"
  PROVE  Judged(q) \in RequestState /\ RequestSound(Judged(q))
<1> DEFINE l == q.list
           admitted == [q EXCEPT !.pc = "admitted"]
           check == [q EXCEPT !.pc = "check", !.left = l]
<1>1. l \in SUBSET Referrer /\ l # NoApi
  BY DEF RequestSound, RequestState, Listing
<1>2. CASE Decision(l) = "good"
  <2>1. l \cap Valid # {}
    BY <1>1, <1>2 DEF Decision, VerdictSound
  <2>2. admitted \in RequestState
    BY DEF RequestState
  <2>3. RequestSound(admitted)
    BY <1>1, <2>1 DEF RequestSound, RequestState
  <2> QED BY <1>2, <2>2, <2>3 DEF Judged
<1>3. CASE Decision(l) = "bad"
  BY <1>3, NoClientSound DEF Judged
<1>4. CASE Decision(l) # "good" /\ Decision(l) # "bad"
  <2>1. check \in RequestState
    BY <1>1 DEF RequestState
  <2>2. RequestSound(check)
    BY <1>1 DEF RequestSound, RequestState
  <2>3. Judged(q) = check
    BY <1>4 DEF Judged
  <2> QED BY <2>1, <2>2, <2>3
<1> QED BY <1>2, <1>3, <1>4

(* Whatever a request does next with a list, it is as sound as the list. *)
LEMMA ToldSound ==
  ASSUME TypeOK, NEW q \in RequestState, NEW l \in Listing,
         NEW outcome \in {"hit", "told", "stale", "old"},
         q.asked <= now, q.at <= now,
         outcome \in Bounded => Recent(l, outcome, q.asked)
  PROVE  Told(q, l, outcome) \in RequestState /\ RequestSound(Told(q, l, outcome))
<1> DEFINE told == [q EXCEPT !.cur = NoSnapshot, !.outcome = outcome]
           answer == [told EXCEPT !.pc = "answer", !.list = l]
           tagged == [told EXCEPT !.pc = "tagged", !.outcome = "tagged", !.asked = 0]
           judge == [told EXCEPT !.pc = "judge", !.list = l]
<1>1. NoSnapshot \in Snapshot /\ SnapshotSound(NoSnapshot)
  BY DEF NoSnapshot, Snapshot, SnapshotSound, Listing, Time, TypeOK
<1>2. /\ told \in RequestState
      /\ told.asked = q.asked /\ told.at = q.at /\ told.cur = NoSnapshot /\ told.outcome = outcome
  BY <1>1 DEF RequestState, Outcome
<1>3. CASE ~told.verify
  <2>1. answer \in RequestState
    BY <1>2 DEF RequestState
  <2>2. /\ answer.asked = q.asked /\ answer.at = q.at /\ answer.cur = NoSnapshot
        /\ answer.outcome = outcome /\ answer.list = l /\ answer.pc = "answer"
    BY <1>2 DEF RequestState
  <2>3. RequestSound(answer)
    BY <1>1, <2>2 DEF RequestSound
  <2> QED BY <1>3, <2>1, <2>3 DEF Told
<1>4. CASE told.verify /\ l = NoApi
  <2>0. 0 \in Time /\ "tagged" \in Outcome
    BY DEF Time, Outcome
  <2>1. tagged \in RequestState
    <3> HIDE DEF told
    <3> QED BY <1>2, <2>0 DEF RequestState
  <2>2. /\ tagged.asked = 0 /\ 0 <= now /\ tagged.at = q.at /\ tagged.cur = NoSnapshot
        /\ tagged.outcome = "tagged" /\ tagged.pc = "tagged"
    BY <1>2 DEF RequestState, TypeOK, Time
  <2>3. RequestSound(tagged)
    BY <1>1, <2>2 DEF RequestSound, Bounded
  <2> QED BY <1>4, <2>1, <2>3 DEF Told
<1>5. CASE told.verify /\ l # NoApi
  <2>1. judge \in RequestState
    BY <1>2 DEF RequestState
  <2>2. /\ judge.asked = q.asked /\ judge.at = q.at /\ judge.cur = NoSnapshot
        /\ judge.outcome = outcome /\ judge.list = l /\ judge.pc = "judge"
    BY <1>2 DEF RequestState
  <2>3. RequestSound(judge)
    BY <1>1, <1>5, <2>2 DEF RequestSound
  <2> QED BY <1>5, <2>1, <2>3 DEF Told
<1> QED BY <1>3, <1>4, <1>5

-----------------------------------------------------------------------------
(* What the upstream's steps leave sound. *)

LEMMA InitSound == Init => Inv
<1> SUFFICES ASSUME Init PROVE Inv
  OBVIOUS
<1>1. 0 \in Time /\ 1 \in Time /\ 1 # 0 /\ 0 <= 1
  BY DEF Time
<1>2. NoSnapshot \in Snapshot /\ {} \in Listing
  BY <1>1 DEF Snapshot, NoSnapshot, Listing
<1>3. NoClient \in RequestState
  BY <1>1, <1>2 DEF NoClient, RequestState, Outcome
<1>4. TypeOK
  <2>1. /\ now \in Time \ {0} /\ listing \in Listing
        /\ subject \in BOOLEAN /\ snapshot \in Snapshot
    <3>1. now = 1 /\ subject = FALSE /\ snapshot = NoSnapshot /\ listing \in Listing
      BY DEF Init
    <3> QED BY <1>1, <1>2, <3>1, Zenon
  <2>2. arrived \in [Referrer -> Time] /\ absent \in [Referrer -> Time] /\ last \in [Listing -> Time]
    BY <1>1 DEF Init
  <2>3. verdict \in [SUBSET Referrer -> {"none", "good", "bad"}]
    BY DEF Init
  <2>4. client \in [Client -> RequestState]
    BY <1>3 DEF Init
  <2>5. gc \in [pc : {"idle", "unlisted", "forget"}, cutoff : Time, todo : SUBSET Referrer]
    BY <1>1 DEF Init, NoCollection
  <2> QED BY <2>1, <2>2, <2>3, <2>4, <2>5 DEF TypeOK
<1>5. UpstreamSound
  <2>1. last[listing] = now /\ \A l \in Listing : last[l] <= now
    BY DEF Init
  <2>2. ASSUME NEW l \in SUBSET Referrer, NEW r \in Referrer, r \notin l
        PROVE  absent[r] >= last[l]
    <3>1. l \in Listing /\ l # NoApi
      BY NoApiIsNoList DEF Listing
    <3>2. last[l] = IF l = listing THEN 1 ELSE 0
      BY <3>1 DEF Init
    <3>3. absent[r] = IF listing # NoApi /\ r \notin listing THEN 1 ELSE 0
      BY DEF Init
    <3> QED BY <2>2, <3>1, <3>2, <3>3
  <2> QED BY <2>1, <2>2 DEF UpstreamSound
<1>6. SnapshotSound(snapshot)
  BY DEF Init, SnapshotSound, NoSnapshot
<1>7. VerdictSound
  BY DEF Init, VerdictSound
<1>8. \A c \in Client : RequestSound(client[c])
  BY <1>4, NoClientSound DEF Init
<1>9. \A r \in Referrer : arrived[r] <= now
  <2>1. now = 1 /\ \A r \in Referrer : arrived[r] = 0
    BY DEF Init
  <2> QED BY <1>1, <2>1, Zenon
<1> QED BY <1>4, <1>5, <1>6, <1>7, <1>8, <1>9 DEF Inv

(* The history only goes forward, and what is known of it stays true. *)
LEMMA HeardSound ==
  ASSUME Inv, NEW l \in Listing, NEW t \in Time, t >= now, t # 0, now' = t, listing' = l,
         Heard(l, t), UNCHANGED <<cache, verdict, client, gc>>
  PROVE  Inv'
<1> USE DEF Inv
<1>1. \A k \in Listing : last'[k] = IF k = l THEN t ELSE last[k]
  BY DEF Heard, TypeOK
<1>2. \A k \in Listing : last'[k] >= last[k] /\ last'[k] \in Nat /\ last[k] \in Nat
  BY <1>1 DEF UpstreamSound, TypeOK, Time
<1>3. TypeOK'
  BY DEF TypeOK, Heard, cache
<1>4. UpstreamSound'
  <2>1. last'[listing'] = now' /\ \A k \in Listing : last'[k] <= now'
    BY <1>1, <1>2 DEF UpstreamSound, TypeOK, Time
  <2>2. ASSUME NEW k \in SUBSET Referrer, NEW r \in Referrer, r \notin k
        PROVE  absent'[r] >= last'[k]
    <3>1. k \in Listing
      BY DEF Listing
    <3>2. absent'[r] = IF l # NoApi /\ r \notin l THEN t ELSE absent[r]
      BY DEF Heard
    <3>3. CASE k = l
      BY <1>1, <2>2, <3>1, <3>2, <3>3, NoApiIsNoList DEF Time
    <3>4. CASE k # l
      <4>1. last'[k] = last[k] /\ absent[r] >= last[k] /\ last[k] <= now
        BY <1>1, <2>2, <3>1, <3>4 DEF UpstreamSound
      <4> QED BY <1>2, <3>1, <3>2, <4>1 DEF Time, TypeOK
    <3> QED BY <3>3, <3>4
  <2> QED BY <2>1, <2>2 DEF UpstreamSound
<1>5. ASSUME NEW s \in Snapshot, SnapshotSound(s)
      PROVE  SnapshotSound(s)'
  BY <1>2, <1>5 DEF SnapshotSound, Snapshot, TypeOK, Time
<1>6. SnapshotSound(snapshot)'
  BY <1>5 DEF cache, SnapshotSound, TypeOK
<1>7. VerdictSound'
  BY DEF VerdictSound
<1>8. ASSUME NEW c \in Client
      PROVE  RequestSound(client[c])'
  <2> DEFINE q == client[c]
  <2>1. q \in RequestState /\ RequestSound(q) /\ q' = q
    BY DEF TypeOK
  <2>2. q.list \in Listing /\ q.asked \in Nat /\ q.at \in Nat /\ q.cur \in Snapshot
    BY <2>1 DEF RequestState, Time
  <2>3. SnapshotSound(q.cur)'
    BY <1>5, <2>1, <2>2 DEF RequestSound, SnapshotSound
  <2>4. ListBound(q.outcome) \in Nat
    BY DEF ListBound
  <2>5. q.outcome \in Bounded => Recent(q.list, q.outcome, q.asked)'
    BY <1>2, <2>1, <2>2, <2>4 DEF RequestSound, Recent
  <2> HIDE DEF q
  <2>6. RequestSound(q)'
    BY <1>2, <2>1, <2>2, <2>3, <2>5 DEF RequestSound, TypeOK, Time
  <2> QED BY <2>6 DEF q
<1>9. \A r \in Referrer : arrived'[r] <= now'
  BY DEF cache, TypeOK, Time
<1> QED BY <1>3, <1>4, <1>6, <1>7, <1>8, <1>9

(* A step that leaves the upstream and the clock leaves a sound request     *)
(* sound.                                                                   *)
LEMMA SameUpstream ==
  ASSUME UNCHANGED upstream, NEW q
  PROVE  /\ RequestSound(q) <=> RequestSound(q)'
         /\ SnapshotSound(q) <=> SnapshotSound(q)'
BY DEF upstream, RequestSound, SnapshotSound, Recent

(* A request steps to a sound one, and the others stay as they are.         *)
LEMMA RequestStep ==
  ASSUME Inv, UNCHANGED upstream, NEW c \in Client, NEW q \in RequestState, RequestSound(q),
         client' = [client EXCEPT ![c] = q]
  PROVE  client' \in [Client -> RequestState] /\ \A d \in Client : RequestSound(client[d])'
<1>1. client' \in [Client -> RequestState]
  BY DEF Inv, TypeOK
<1>2. ASSUME NEW d \in Client
      PROVE  RequestSound(client[d])'
  <2>1. client'[d] = IF d = c THEN q ELSE client[d]
    BY DEF Inv, TypeOK
  <2>2. RequestSound(client'[d])
    BY <2>1 DEF Inv
  <2> QED BY <2>2, SameUpstream DEF RequestSound, SnapshotSound, Recent, upstream
<1> QED BY <1>1, <1>2

(* What is left to say of a step that changes no list and no referrer.      *)
LEMMA QuietStep ==
  ASSUME Inv, UNCHANGED <<upstream, cache, verdict, gc>>,
         client' \in [Client -> RequestState], \A d \in Client : RequestSound(client[d])'
  PROVE  Inv'
BY SameUpstream DEF Inv, TypeOK, UpstreamSound, VerdictSound, SnapshotSound, upstream, cache

-----------------------------------------------------------------------------
(* Asking for the list. *)

LEMMA AskingSound ==
  ASSUME Inv, NEW c \in Client, NEW verify \in BOOLEAN,
         Hit(c, verify) \/ Ask(c, verify) \/ Listed(c) \/ Put(c) \/ Stale(c) \/ Unheard(c)
         \/ Tagged(c) \/ Finish(c) \/ Judge(c)
  PROVE  Inv'
<1> DEFINE q == client[c]
<1>1. /\ TypeOK /\ VerdictSound /\ SnapshotSound(snapshot)
      /\ q \in RequestState /\ RequestSound(q)
  BY DEF Inv, TypeOK
<1>2. /\ q.cur \in Snapshot /\ q.cur.list \in Listing /\ q.cur.checked \in Nat
      /\ q.list \in Listing /\ q.asked \in Time /\ q.at \in Time
      /\ snapshot.list \in Listing /\ snapshot.checked \in Nat /\ now \in Nat /\ now \in Time
      /\ \A l \in Listing : last[l] \in Nat
  BY <1>1 DEF RequestState, Snapshot, TypeOK, Time
<1>3. NoClient \in RequestState /\ RequestSound(NoClient)
  BY <1>1, NoClientSound
<1>4. NoSnapshot \in Snapshot /\ SnapshotSound(NoSnapshot)
  BY <1>1 DEF NoSnapshot, Snapshot, SnapshotSound, Listing, Time, TypeOK
<1>5. CASE Hit(c, verify)
  <2> DEFINE p == [NoClient EXCEPT !.verify = verify, !.asked = now]
  <2>1. p \in RequestState /\ p.asked = now /\ p.at = 0
    BY <1>2, <1>3 DEF NoClient, RequestState
  <2>2. Recent(snapshot.list, "hit", p.asked)
    BY <1>1, <1>2, <1>5, <2>1 DEF Hit, Fresh, Recent, ListBound, SnapshotSound
  <2>3. p.asked <= now /\ p.at <= now
    BY <1>2, <2>1
  <2> DEFINE t == Told(p, snapshot.list, "hit")
  <2>4. t \in RequestState /\ RequestSound(t)
    <3> HIDE DEF p
    <3> QED BY <1>1, <1>2, <2>1, <2>2, <2>3, ToldSound
  <2>5. client' = [client EXCEPT ![c] = t] /\ UNCHANGED <<upstream, cache, verdict, gc>>
    BY <1>5 DEF Hit
  <2> HIDE DEF t
  <2> QED BY <2>4, <2>5, RequestStep, QuietStep
<1>6. CASE Ask(c, verify)
  <2> DEFINE s == IF Servable(snapshot, now) THEN snapshot ELSE NoSnapshot
             t == [NoClient EXCEPT !.pc = "ask", !.verify = verify, !.asked = now, !.cur = s]
  <2>1. s \in Snapshot /\ SnapshotSound(s) /\ (s # NoSnapshot => Servable(s, now))
    BY <1>1, <1>4 DEF TypeOK
  <2> HIDE DEF s
  <2>2. t \in RequestState
    BY <1>2, <1>3, <2>1 DEF NoClient, RequestState
  <2>3. RequestSound(t)
    BY <1>2, <2>1 DEF NoClient, RequestSound, Bounded, Time
  <2>4. client' = [client EXCEPT ![c] = t] /\ UNCHANGED <<upstream, cache, verdict, gc>>
    BY <1>6 DEF Ask, s
  <2> HIDE DEF t
  <2> QED BY <2>2, <2>3, <2>4, RequestStep, QuietStep
<1>7. CASE Listed(c)
  <2> DEFINE t == [q EXCEPT !.pc = "put", !.list = listing]
  <2>1. t \in RequestState
    BY <1>1 DEF RequestState, TypeOK
  <2>2. /\ t.asked = q.asked /\ t.at = q.at /\ t.cur = q.cur /\ t.list = listing /\ t.pc = "put"
        /\ t.outcome = q.outcome
    BY <1>1 DEF RequestState
  <2>3. last[listing] = now
    BY DEF Inv, UpstreamSound
  <2>4. ListBound(q.outcome) \in Nat
    BY DEF ListBound
  <2>5. RequestSound(t)
    BY <1>1, <1>2, <2>2, <2>3, <2>4 DEF RequestSound, Recent, Time
  <2>6. client' = [client EXCEPT ![c] = t] /\ UNCHANGED <<upstream, cache, verdict, gc>>
    BY <1>7 DEF Listed, Inv, TypeOK
  <2> HIDE DEF t
  <2> QED BY <2>1, <2>5, <2>6, RequestStep, QuietStep
<1>8. CASE Put(c)
  <2> DEFINE t == Told(q, q.list, "told")
  <2>1. /\ client' = [client EXCEPT ![c] = t]
        /\ snapshot' = [list |-> q.list, checked |-> q.asked]
        /\ UNCHANGED <<upstream, subject, arrived, verdict, gc>> /\ q.pc = "put"
    BY <1>8 DEF Put, Inv, TypeOK
  <2>2. last[q.list] >= q.asked /\ q.asked <= now /\ q.at <= now
    BY <1>1, <2>1 DEF RequestSound
  <2>3. Recent(q.list, "told", q.asked)
    BY <1>2, <2>2 DEF Recent, ListBound, Time
  <2>4. t \in RequestState /\ RequestSound(t)
    <3> HIDE DEF q
    <3> QED BY <1>1, <1>2, <2>2, <2>3, ToldSound
  <2> HIDE DEF t
  <2>5. client' \in [Client -> RequestState] /\ \A d \in Client : RequestSound(client[d])'
    BY <2>1, <2>4, RequestStep
  <2>6. snapshot' \in Snapshot /\ SnapshotSound(snapshot)'
    BY <1>2, <2>1, <2>2 DEF Snapshot, SnapshotSound, upstream
  <2> QED BY <2>1, <2>5, <2>6 DEF Inv, TypeOK, UpstreamSound, VerdictSound, upstream
<1>9. CASE Stale(c)
  <2> DEFINE t == Told(q, q.cur.list, "stale")
  <2>1. /\ client' = [client EXCEPT ![c] = t] /\ UNCHANGED <<upstream, cache, verdict, gc>>
        /\ q.pc = "ask" /\ q.cur # NoSnapshot
    BY <1>9 DEF Stale, Inv, TypeOK
  <2>2. Servable(q.cur, q.asked) /\ q.cur.checked # 0 /\ last[q.cur.list] >= q.cur.checked
        /\ q.asked <= now /\ q.at <= now
    BY <1>1, <2>1 DEF RequestSound, SnapshotSound, Servable
  <2>3. Recent(q.cur.list, "stale", q.asked)
    BY <1>2, <2>2 DEF Recent, ListBound, Servable, Time
  <2>4. t \in RequestState /\ RequestSound(t)
    <3> HIDE DEF q
    <3> QED BY <1>1, <1>2, <2>2, <2>3, ToldSound
  <2> HIDE DEF t
  <2> QED BY <2>1, <2>4, RequestStep, QuietStep
<1>10. CASE Unheard(c)
  <2> DEFINE t == IF q.verify /\ snapshot.checked # 0 THEN Told(q, snapshot.list, "old") ELSE NoClient
  <2>1. client' = [client EXCEPT ![c] = t] /\ UNCHANGED <<upstream, cache, verdict, gc>>
    BY <1>10 DEF Unheard, Inv, TypeOK
  <2>2. q.asked <= now /\ q.at <= now
    BY <1>1 DEF RequestSound
  <2>3. Told(q, snapshot.list, "old") \in RequestState /\ RequestSound(Told(q, snapshot.list, "old"))
    <3> HIDE DEF q
    <3> QED BY <1>1, <1>2, <2>2, ToldSound DEF Bounded
  <2>4. t \in RequestState /\ RequestSound(t)
    BY <1>3, <2>3
  <2> HIDE DEF t
  <2> QED BY <2>1, <2>4, RequestStep, QuietStep
<1>11. CASE Tagged(c)
  <2>1. PICK t \in RequestState : RequestSound(t) /\ client' = [client EXCEPT ![c] = t]
    <3>1. CASE client' = [client EXCEPT ![c] = NoClient]
      BY <1>3, <3>1
    <3>2. ASSUME NEW l \in SUBSET Referrer,
                 client' = [client EXCEPT ![c].pc = "judge", ![c].list = l]
          PROVE  \E t \in RequestState : RequestSound(t) /\ client' = [client EXCEPT ![c] = t]
      <4> DEFINE t == [q EXCEPT !.pc = "judge", !.list = l]
      <4>1. l \in Listing /\ l # NoApi
        BY NoApiIsNoList DEF Listing
      <4>2. t \in RequestState
        BY <1>1, <4>1 DEF RequestState
      <4>3. /\ t.pc = "judge" /\ t.list = l /\ t.asked = q.asked /\ t.at = q.at
            /\ t.cur = q.cur /\ t.outcome = q.outcome
        BY <1>1 DEF RequestState
      <4>4. q.outcome \notin Bounded /\ q.asked <= now /\ q.at <= now /\ SnapshotSound(q.cur)
        BY <1>1, <1>11 DEF RequestSound, Tagged, Bounded
      <4>5. RequestSound(t)
        <5> HIDE DEF t
        <5> QED BY <4>1, <4>3, <4>4 DEF RequestSound
      <4>6. client' = [client EXCEPT ![c] = t]
        BY <3>2, <1>1 DEF TypeOK, RequestState
      <4> HIDE DEF t
      <4> QED BY <4>2, <4>5, <4>6
    <3> QED BY <1>11, <3>1, <3>2 DEF Tagged
  <2>2. UNCHANGED <<upstream, cache, verdict, gc>>
    BY <1>11 DEF Tagged
  <2> QED BY <2>1, <2>2, RequestStep, QuietStep
<1>12. CASE Finish(c)
  BY <1>3, <1>12, RequestStep, QuietStep DEF Finish
<1>13. CASE Judge(c)
  <2>1. /\ client' = [client EXCEPT ![c] = Judged(q)] /\ UNCHANGED <<upstream, cache, verdict, gc>>
        /\ q.pc = "judge"
    BY <1>13 DEF Judge, Inv, TypeOK
  <2>2. Judged(q) \in RequestState /\ RequestSound(Judged(q))
    <3> HIDE DEF q
    <3> QED BY <1>1, <2>1, JudgedSound
  <2> QED BY <2>1, <2>2, RequestStep, QuietStep
<1> QED
  BY <1>5, <1>6, <1>7, <1>8, <1>9, <1>10, <1>11, <1>12, <1>13

-----------------------------------------------------------------------------
(* Looking at signatures, and fetching referrers. *)

(* A request that has begun to look at signatures.                          *)
LEMMA LookingSound ==
  ASSUME TypeOK, NEW q \in RequestState
  PROVE  /\ Looking(q) \in RequestState
         /\ Looking(q).asked = 0 /\ Looking(q).outcome = "none"
         /\ Looking(q).pc = q.pc /\ Looking(q).verify = q.verify
         /\ Looking(q).at = q.at /\ Looking(q).cur = q.cur
         /\ Looking(q).list = q.list /\ Looking(q).left = q.left
<1> DEFINE t == [q EXCEPT !.asked = 0, !.outcome = "none"]
<1>1. 0 \in Time /\ "none" \in Outcome
  BY DEF TypeOK, Time, Outcome
<1>2. t \in RequestState
  BY <1>1 DEF RequestState
<1>3. /\ t.asked = 0 /\ t.outcome = "none" /\ t.pc = q.pc /\ t.verify = q.verify
      /\ t.at = q.at /\ t.cur = q.cur /\ t.list = q.list /\ t.left = q.left
  BY DEF RequestState
<1>4. Looking(q) = t
  BY DEF Looking
<1> HIDE DEF t
<1> QED BY <1>2, <1>3, <1>4

LEMMA VerdictStep ==
  ASSUME TypeOK, VerdictSound, NEW l \in SUBSET Referrer, NEW v \in {"good", "bad"},
         v = "good" => l \cap Valid # {}, Decided(l, v)
  PROVE  VerdictSound' /\ verdict' \in [SUBSET Referrer -> {"none", "good", "bad"}]
BY DEF Decided, VerdictSound, TypeOK

LEMMA CheckingSound ==
  ASSUME Inv, NEW c \in Client, NEW r \in Referrer,
         Verify(c, r) \/ Reject(c, r) \/ Unread(c, r) \/ Fetch(c, r) \/ FetchCommit(c, r)
  PROVE  Inv'
<1> DEFINE q == client[c]
<1>1. TypeOK /\ VerdictSound /\ q \in RequestState /\ RequestSound(q)
  BY DEF Inv, TypeOK
<1>2. /\ q.cur \in Snapshot /\ q.list \in Listing /\ q.asked \in Nat /\ q.at \in Nat
      /\ q.left \subseteq Referrer /\ now \in Nat /\ now \in Time /\ 0 \in Time
      /\ q.asked <= now /\ q.at <= now /\ SnapshotSound(q.cur)
  BY <1>1 DEF RequestState, TypeOK, Time, RequestSound
<1>3. NoClient \in RequestState /\ RequestSound(NoClient)
  BY <1>1, NoClientSound
<1>4. q.pc = "check" => q.left \subseteq q.list /\ q.list \in SUBSET Referrer
  BY <1>1, <1>2 DEF RequestSound, Listing
<1>5. CASE Verify(c, r)
  <2> DEFINE t == [q EXCEPT !.pc = "admitted", !.left = {}, !.unchecked = FALSE]
  <2>1. /\ client' = [client EXCEPT ![c] = t] /\ UNCHANGED <<upstream, cache, gc>>
        /\ q.pc = "check" /\ r \in q.left /\ r \in Valid /\ Decided(q.list, "good")
    BY <1>5, <1>1 DEF Verify, RequestState, TypeOK
  <2>2. q.list \cap Valid # {} /\ q.list \in SUBSET Referrer
    BY <1>4, <2>1
  <2>3. t \in RequestState
    BY <1>1 DEF RequestState
  <2>4. /\ t.pc = "admitted" /\ t.list = q.list /\ t.asked = q.asked /\ t.at = q.at
        /\ t.cur = q.cur /\ t.outcome = q.outcome
    BY <1>1 DEF RequestState
  <2>5. RequestSound(t)
    BY <1>1, <2>2, <2>4 DEF RequestSound
  <2> HIDE DEF t
  <2>6. client' \in [Client -> RequestState] /\ \A d \in Client : RequestSound(client[d])'
    BY <2>1, <2>3, <2>5, RequestStep
  <2>7. VerdictSound' /\ verdict' \in [SUBSET Referrer -> {"none", "good", "bad"}]
    <3> HIDE DEF q
    <3> QED BY <1>1, <2>1, <2>2, VerdictStep
  <2> QED BY <2>1, <2>6, <2>7, SameUpstream
          DEF Inv, TypeOK, UpstreamSound, SnapshotSound, upstream, cache
<1>6. CASE Reject(c, r)
  <2> DEFINE t == [Looking(q) EXCEPT !.left = q.left \ {r}]
  <2>1. /\ client' = [client EXCEPT ![c] = t] /\ UNCHANGED <<upstream, cache, verdict, gc>>
        /\ q.pc = "check"
    BY <1>6, <1>1 DEF Reject, TypeOK, Looking, RequestState
  <2>2. /\ Looking(q) \in RequestState /\ Looking(q).asked = 0 /\ Looking(q).outcome = "none"
        /\ Looking(q).at = q.at /\ Looking(q).cur = q.cur /\ Looking(q).pc = "check"
        /\ Looking(q).list = q.list
    <3> HIDE DEF q
    <3> QED BY <1>1, <2>1, LookingSound
  <2>3. /\ t \in RequestState /\ t.asked = 0 /\ t.outcome = "none" /\ t.at = q.at
        /\ t.cur = q.cur /\ t.pc = "check" /\ t.list = q.list /\ t.left = q.left \ {r}
    <3> HIDE DEF q
    <3> QED BY <1>2, <2>2 DEF RequestState
  <2>4. RequestSound(t)
    <3> HIDE DEF t
    <3> QED BY <1>1, <1>2, <2>1, <2>3 DEF RequestSound, Bounded
  <2> HIDE DEF t
  <2> QED BY <2>1, <2>3, <2>4, RequestStep, QuietStep
<1>7. CASE Unread(c, r)
  <2> DEFINE t == [Looking(q) EXCEPT !.pc = "check", !.left = q.left \ {r},
                     !.unchecked = TRUE, !.sig = {}, !.at = 0]
  <2>1. CASE ~q.verify
    <3>1. client' = [client EXCEPT ![c] = NoClient] /\ UNCHANGED <<upstream, cache, verdict, gc>>
      BY <1>7, <2>1 DEF Unread, TypeOK
    <3> QED BY <1>3, <3>1, RequestStep, QuietStep
  <2>2. CASE q.verify
    <3>1. /\ client' = [client EXCEPT ![c] = t] /\ UNCHANGED <<upstream, cache, verdict, gc>>
          /\ q.pc = "check" \/ q.pc = "add"
      BY <1>7, <2>2, <1>1 DEF Unread, TypeOK, Looking, RequestState
    <3>2. /\ Looking(q) \in RequestState /\ Looking(q).asked = 0 /\ Looking(q).outcome = "none"
          /\ Looking(q).cur = q.cur /\ Looking(q).list = q.list
      <4> HIDE DEF q
      <4> QED BY <1>1, <2>2, <3>1, LookingSound
    <3>3. /\ t \in RequestState /\ t.asked = 0 /\ t.outcome = "none" /\ t.at = 0
          /\ t.cur = q.cur /\ t.pc = "check" /\ t.list = q.list /\ t.left = q.left \ {r}
      <4> HIDE DEF q
      <4> QED BY <1>2, <3>2 DEF RequestState
    <3>4. q.left \subseteq q.list /\ q.list # NoApi
      BY <1>1, <2>2, <3>1 DEF RequestSound
    <3>5. RequestSound(t)
      <4> HIDE DEF t
      <4> QED BY <1>1, <1>2, <3>3, <3>4 DEF RequestSound, Bounded
    <3> HIDE DEF t
    <3> QED BY <3>1, <3>3, <3>5, RequestStep, QuietStep
  <2> QED BY <2>1, <2>2
<1>9. CASE Fetch(c, r)
  <2> DEFINE t == [Looking(q) EXCEPT !.pc = "add", !.sig = {r}, !.at = now]
  <2>1. /\ client' = [client EXCEPT ![c] = t] /\ UNCHANGED <<upstream, cache, verdict, gc>>
        /\ q.pc = "check" \/ q.pc = "idle"
    BY <1>9, <1>1 DEF Fetch, TypeOK, Looking, RequestState
  <2>2. /\ Looking(q) \in RequestState /\ Looking(q).asked = 0 /\ Looking(q).outcome = "none"
        /\ Looking(q).cur = q.cur /\ Looking(q).list = q.list /\ Looking(q).left = q.left
        /\ Looking(q).verify = q.verify
    <3> HIDE DEF q
    <3> QED BY <1>1, <2>1, LookingSound
  <2>3. /\ t \in RequestState /\ t.asked = 0 /\ t.outcome = "none" /\ t.at = now
        /\ t.cur = q.cur /\ t.pc = "add" /\ t.list = q.list /\ t.left = q.left /\ t.verify = q.verify
    <3> HIDE DEF q
    <3> QED BY <1>2, <2>2 DEF RequestState
  <2>4. q.verify => q.left \subseteq q.list /\ q.list # NoApi
    BY <1>1, <2>1 DEF RequestSound
  <2>5. RequestSound(t)
    <3> HIDE DEF t
    <3> QED BY <1>1, <1>2, <2>3, <2>4 DEF RequestSound, Bounded
  <2> HIDE DEF t
  <2> QED BY <2>1, <2>3, <2>5, RequestStep, QuietStep
<1>10. CASE FetchCommit(c, r)
  <2> DEFINE t == IF q.verify THEN [q EXCEPT !.pc = "check", !.sig = {}, !.at = 0] ELSE NoClient
  <2>1. /\ client' = [client EXCEPT ![c] = t] /\ UNCHANGED <<upstream, subject, snapshot, verdict, gc>>
        /\ q.pc = "add" /\ arrived' = [arrived EXCEPT ![r] = IF Here(r) THEN arrived[r] ELSE q.at]
    BY <1>10, <1>1 DEF FetchCommit, TypeOK, RequestState
  <2>2. t \in RequestState /\ RequestSound(t)
    <3>1. CASE q.verify
      <4> DEFINE u == [q EXCEPT !.pc = "check", !.sig = {}, !.at = 0]
      <4>1. u \in RequestState
        BY <1>1, <1>2 DEF RequestState
      <4>2. /\ u.pc = "check" /\ u.at = 0 /\ u.asked = q.asked /\ u.cur = q.cur /\ u.list = q.list
            /\ u.left = q.left /\ u.outcome = q.outcome
        BY <1>1 DEF RequestState
      <4>3. q.left \subseteq q.list /\ q.list # NoApi
        BY <1>1, <2>1, <3>1 DEF RequestSound
      <4>4. RequestSound(u)
        <5> HIDE DEF u
        <5> QED BY <1>1, <1>2, <4>2, <4>3 DEF RequestSound
      <4> QED BY <3>1, <4>1, <4>4
    <3> QED BY <1>3, <3>1
  <2> HIDE DEF t
  <2>3. client' \in [Client -> RequestState] /\ \A d \in Client : RequestSound(client[d])'
    BY <2>1, <2>2, RequestStep
  <2>4. /\ arrived' \in [Referrer -> Time]
        /\ \A s \in Referrer : arrived'[s] <= now
    <3>1. q.at \in Time
      BY <1>1 DEF RequestState
    <3> HIDE DEF q
    <3> QED BY <1>2, <2>1, <3>1 DEF Inv, TypeOK
  <2> QED BY <2>1, <2>3, <2>4, SameUpstream
          DEF Inv, TypeOK, UpstreamSound, VerdictSound, SnapshotSound, upstream
<1> QED
  BY <1>5, <1>6, <1>7, <1>9, <1>10

LEMMA ConcludeSound ==
  ASSUME Inv, NEW c \in Client, Conclude(c)
  PROVE  Inv'
<1> DEFINE q == client[c]
<1>1. TypeOK /\ VerdictSound /\ q \in RequestState /\ RequestSound(q) /\ q.pc = "check"
  BY DEF Inv, TypeOK, Conclude
<1>2. q.list \in SUBSET Referrer
  BY <1>1 DEF RequestSound, RequestState, Listing
<1>3. NoClient \in RequestState /\ RequestSound(NoClient)
  BY <1>1, NoClientSound
<1>4. /\ client' = [client EXCEPT ![c] = NoClient] /\ UNCHANGED <<upstream, cache, gc>>
      /\ UNCHANGED verdict \/ Decided(q.list, "bad")
  BY DEF Conclude
<1>5. client' \in [Client -> RequestState] /\ \A d \in Client : RequestSound(client[d])'
  BY <1>3, <1>4, RequestStep
<1>6. VerdictSound' /\ verdict' \in [SUBSET Referrer -> {"none", "good", "bad"}]
  <2>1. CASE UNCHANGED verdict
    BY <1>1, <2>1 DEF VerdictSound, TypeOK
  <2>2. CASE Decided(q.list, "bad")
    <3> HIDE DEF q
    <3> QED BY <1>1, <1>2, <2>2, VerdictStep
  <2> QED BY <1>4, <2>1, <2>2
<1> QED BY <1>4, <1>5, <1>6, SameUpstream
        DEF Inv, TypeOK, UpstreamSound, SnapshotSound, upstream, cache

-----------------------------------------------------------------------------
(* What comes and goes, and the collection. *)

LEMMA CollectSound ==
  ASSUME Inv, SubjectComes \/ SubjectGoes \/ (\E r \in Referrer : Delete(r)) \/ Collect
  PROVE  Inv'
<1>1. UNCHANGED <<upstream, verdict, client>>
  BY DEF SubjectComes, SubjectGoes, Delete, Collect, GcList, GcEnd, GcStray, GcForget, GcRemove,
         GcSkip, cache
<1>2. \A d \in Client : RequestSound(client[d])'
  BY <1>1 DEF Inv, RequestSound, SnapshotSound, Recent, upstream
<1>3. NoSnapshot \in Snapshot /\ SnapshotSound(NoSnapshot)
  BY DEF NoSnapshot, Snapshot, SnapshotSound, Listing, Time, TypeOK, Inv
<1>4. snapshot' \in {snapshot, NoSnapshot}
  BY DEF SubjectComes, SubjectGoes, Delete, Collect, GcList, GcEnd, GcStray, GcForget, GcRemove,
         GcSkip, cache
<1>5. snapshot' \in Snapshot /\ SnapshotSound(snapshot)'
  BY <1>1, <1>3, <1>4 DEF Inv, TypeOK, SnapshotSound, upstream
<1>6. subject' \in BOOLEAN
  BY DEF SubjectComes, SubjectGoes, Delete, Collect, GcList, GcEnd, GcStray, GcForget, GcRemove,
         GcSkip, cache, Inv, TypeOK
<1>7. 0 \in Time /\ now \in Nat /\ 0 <= now
  BY DEF Inv, TypeOK, Time
<1>8. arrived' \in [Referrer -> Time] /\ \A r \in Referrer : arrived'[r] <= now
  <2>1. CASE UNCHANGED arrived
    BY <2>1 DEF Inv, TypeOK
  <2>2. ASSUME NEW r \in Referrer, arrived' = [arrived EXCEPT ![r] = 0]
        PROVE  arrived' \in [Referrer -> Time] /\ \A s \in Referrer : arrived'[s] <= now
    BY <1>7, <2>2 DEF Inv, TypeOK
  <2> QED BY <2>1, <2>2 DEF SubjectComes, SubjectGoes, Delete, Collect, GcList, GcEnd, GcStray,
                            GcForget, GcRemove, GcSkip, cache
<1>9. gc' \in [pc : {"idle", "unlisted", "forget"}, cutoff : Time, todo : SUBSET Referrer]
  <2>1. NoCollection \in [pc : {"idle", "unlisted", "forget"}, cutoff : Time, todo : SUBSET Referrer]
    BY <1>7 DEF NoCollection
  <2>2. Cutoff \in Time
    BY DEF Cutoff, Inv, TypeOK, Time
  <2>3. CASE GcList
    BY <2>2, <2>3 DEF GcList
  <2>4. ASSUME NEW r \in Referrer, GcRemove(r) \/ GcSkip(r)
        PROVE  gc' \in [pc : {"idle", "unlisted", "forget"}, cutoff : Time, todo : SUBSET Referrer]
    BY <2>4 DEF GcRemove, GcSkip, Inv, TypeOK
  <2>5. CASE GcStray \/ GcForget \/ GcEnd
    BY <2>1, <2>5 DEF GcStray, GcForget, GcEnd, NoCollection
  <2>6. CASE SubjectComes \/ SubjectGoes \/ (\E r \in Referrer : Delete(r))
    BY <2>6 DEF SubjectComes, SubjectGoes, Delete, Inv, TypeOK
  <2> QED BY <2>3, <2>4, <2>5, <2>6 DEF Collect
<1> QED BY <1>1, <1>2, <1>5, <1>6, <1>8, <1>9
        DEF Inv, TypeOK, UpstreamSound, VerdictSound, upstream

(* Every step leaves Inv.                                                   *)
LEMMA StepSound == Inv /\ [Next]_vars => Inv'
<1> SUFFICES ASSUME Inv, [Next]_vars PROVE Inv'
  OBVIOUS
<1>1. CASE Tick
  <2>1. now + 1 \in Time /\ now + 1 >= now /\ now + 1 # 0 /\ listing \in Listing
    BY <1>1 DEF Tick, Inv, TypeOK, Time
  <2>2. Heard(listing, now + 1) /\ UNCHANGED <<cache, verdict, client, gc>> /\ now' = now + 1
        /\ listing' = listing
    BY <1>1 DEF Tick
  <2> QED BY <2>1, <2>2, HeardSound
<1>2. ASSUME NEW l \in Listing, Relist(l) PROVE Inv'
  <2>1. now \in Time /\ now >= now /\ now # 0
    BY DEF Inv, TypeOK, Time
  <2>2. Heard(l, now) /\ UNCHANGED <<cache, verdict, client, gc>> /\ now' = now /\ listing' = l
    BY <1>2 DEF Relist
  <2> QED BY <2>1, <2>2, HeardSound
<1>3. ASSUME NEW c \in Client, Request(c) PROVE Inv'
  <2>1. ASSUME NEW verify \in BOOLEAN, Hit(c, verify) \/ Ask(c, verify) PROVE Inv'
    BY <2>1, AskingSound
  <2>2. CASE Listed(c) \/ Put(c) \/ Stale(c) \/ Unheard(c) \/ Tagged(c)
        \/ Finish(c) \/ Judge(c)
    <3>1. TRUE \in BOOLEAN
      OBVIOUS
    <3> QED BY <2>2, <3>1, AskingSound
  <2>3. CASE Conclude(c)
    BY <2>3, ConcludeSound
  <2>4. ASSUME NEW r \in Referrer,
               Verify(c, r) \/ Reject(c, r) \/ Unread(c, r) \/ Fetch(c, r) \/ FetchCommit(c, r)
        PROVE  Inv'
    BY <2>4, CheckingSound
  <2> QED BY <1>3, <2>1, <2>2, <2>3, <2>4 DEF Request
<1>4. CASE SubjectComes \/ SubjectGoes \/ (\E r \in Referrer : Delete(r)) \/ Collect
  BY <1>4, CollectSound
<1>5. CASE UNCHANGED vars
  <2>1. UNCHANGED <<upstream, cache, verdict, client, gc>>
    BY <1>5 DEF vars
  <2>2. client' \in [Client -> RequestState] /\ \A d \in Client : RequestSound(client[d])'
    BY <2>1 DEF Inv, TypeOK, RequestSound, SnapshotSound, Recent, upstream
  <2> QED BY <2>1, <2>2, QuietStep
<1> QED BY <1>1, <1>2, <1>3, <1>4, <1>5 DEF Next

-----------------------------------------------------------------------------
(* What holds of every behaviour. *)

(* The inductive invariant: what the cache, a verdict and a request say of  *)
(* the upstream's list was so at the time they say it was.                  *)
THEOREM Soundness == Spec => []Inv
<1>1. Init => Inv
  BY InitSound
<1>2. Inv /\ [Next]_vars => Inv'
  BY StepSound
<1> QED BY <1>1, <1>2, PTL DEF Spec

(* A list that is answered, or whose signatures are looked at, is no older  *)
(* than referrers_ttl, or referrers_max_stale while the upstream fails.     *)
THEOREM ListsAreRecent == Spec => []ListsRecent
<1>1. Inv => ListsRecent
  BY DEF Inv, ListsRecent, RequestSound
<1> QED BY <1>1, Soundness, PTL

(* An image is admitted by a signature in the list its request goes by.     *)
THEOREM AdmittedIsSigned == Spec => []AdmissionJustified
<1>1. Inv => AdmissionJustified
  BY DEF Inv, AdmissionJustified, RequestSound
<1> QED BY <1>1, Soundness, PTL

(* What the collection takes of an image that is here, the upstream left    *)
(* out of a list since it came.                                             *)
THEOREM CollectedWasOmitted == Spec => UnlistedOmitted
<1> DEFINE A == \A r \in Referrer :
                  r \in gc.todo /\ r \notin gc'.todo /\ Here(r) /\ arrived'[r] = 0 /\ subject
                  => absent[r] > arrived[r]
<1>1. Inv /\ [Next]_vars => [A]_vars
  <2> SUFFICES ASSUME Inv, Next, NEW r \in Referrer, r \in gc.todo, r \notin gc'.todo, Here(r),
                      arrived'[r] = 0, subject
               PROVE  absent[r] > arrived[r]
    OBVIOUS
  <2>1. GcRemove(r)
    <3>1. \E s \in Referrer : GcRemove(s)
      <4>1. CASE \E c \in Client : Request(c)
        BY <4>1, ZenonT(60) DEF Request, Hit, Ask, Listed, Put, Stale, Unheard, Tagged, Finish, Judge,
                    Conclude,
                    Verify, Reject, Unread, Fetch, FetchCommit
      <4>2. CASE Tick \/ \E l \in Listing : Relist(l)
        BY <4>2 DEF Tick, Relist
      <4>3. CASE SubjectComes \/ SubjectGoes \/ \E s \in Referrer : Delete(s)
        BY <4>3 DEF SubjectComes, SubjectGoes, Delete
      <4>4. CASE Collect
        BY <4>4 DEF Collect, GcList, GcEnd, GcStray, GcForget, GcSkip, Here, cache
      <4> QED BY <4>1, <4>2, <4>3, <4>4 DEF Next
    <3>2. PICK s \in Referrer : GcRemove(s)
      BY <3>1
    <3>3. gc'.todo = gc.todo \ {s}
      BY <3>2 DEF GcRemove, Inv, TypeOK
    <3> QED BY <3>2, <3>3
  <2>2. /\ snapshot.checked # 0 /\ snapshot.list # NoApi /\ r \notin snapshot.list
        /\ arrived[r] < snapshot.checked
    BY <2>1 DEF GcRemove, Omits
  <2>3. snapshot.list \in SUBSET Referrer /\ last[snapshot.list] >= snapshot.checked
    BY <2>2 DEF Inv, TypeOK, Snapshot, Listing, SnapshotSound
  <2>4. absent[r] >= last[snapshot.list]
    BY <2>2, <2>3 DEF Inv, UpstreamSound
  <2>5. /\ arrived[r] \in Nat /\ snapshot.checked \in Nat /\ absent[r] \in Nat
        /\ last[snapshot.list] \in Nat
    BY DEF Inv, TypeOK, Snapshot, Time
  <2> QED BY <2>2, <2>3, <2>4, <2>5
<1> QED BY <1>1, Soundness, PTL DEF Spec, UnlistedOmitted

=============================================================================
