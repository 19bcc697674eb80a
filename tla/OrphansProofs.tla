---------------------------- MODULE OrphansProofs ----------------------------
(***************************************************************************)
(* Proofs about the candidates of orphaned referrers, for any manifests,   *)
(* any number of collectors, any batch and any grace period.               *)
(***************************************************************************)
EXTENDS Orphans, TLAPS

Times == 0 .. now \cup {None}

-----------------------------------------------------------------------------
(***************************************************************************)
(* What the ways of writing a candidate leave of the list.                 *)
(***************************************************************************)

(* A time is a number, and so is not the mark of a subject that is no      *)
(* candidate.                                                              *)
LEMMA NowIsATime == TypeOK => now \in Nat /\ now # None
BY OrphansAssumption DEF TypeOK

(* An observation moves one candidate's clock to now.                      *)
LEMMA Observed ==
  ASSUME TypeOK, NEW s \in Manifest, Observe(s)
  PROVE  /\ observed' \in [Manifest -> Times]
         /\ observed'[s] = now
         /\ \A x \in Manifest \ {s} : observed'[x] = observed[x]
BY NowIsATime DEF TypeOK, Observe, Times

(* A scan adds candidates and moves no clock.                              *)
LEMMA ObservedAll ==
  ASSUME TypeOK, NEW ss \in SUBSET Manifest, ObserveAll(ss)
  PROVE  /\ observed' \in [Manifest -> Times]
         /\ \A s \in ss : observed'[s] # None
         /\ \A x \in Manifest : observed[x] # None => observed'[x] = observed[x]
         /\ \A x \in Manifest :
              observed'[x] # None => observed'[x] = observed[x] \/ observed'[x] = now
BY NowIsATime DEF TypeOK, ObserveAll, Times

(* A look at a candidate forgets it at most, and only one that is back or  *)
(* has no referrers.                                                       *)
LEMMA Visited ==
  ASSUME TypeOK, NEW c \in Collector, NEW s \in Manifest, Visit(c, s)
  PROVE  /\ observed' \in [Manifest -> Times]
         /\ \A x \in Manifest : observed'[x] = observed[x] \/ observed'[x] = None
         /\ \A x \in Manifest :
              observed'[x] # observed[x] => x \in manifests \/ Referrers(x) = {}
BY NowIsATime DEF TypeOK, Visit, Forgotten, Times

(* An erase restarts the clock of what it erases, if that has referrers.   *)
LEMMA Erased ==
  ASSUME TypeOK, NEW m \in Manifest, EraseRow(m)
  PROVE  /\ observed' \in [Manifest -> Times]
         /\ \A x \in Manifest \ {m} : observed'[x] = observed[x]
         /\ (\E r \in manifests' : Subject[r] = m) => observed'[m] = now
         /\ ~(\E r \in manifests' : Subject[r] = m) => observed'[m] = observed[m]
<1>1. CASE \E r \in manifests \ {m} : Subject[r] = m
  BY <1>1, Observed DEF EraseRow, EraseObserved
<1>2. CASE ~ \E r \in manifests \ {m} : Subject[r] = m
  BY <1>2 DEF EraseRow, EraseObserved, TypeOK, Times
<1> QED
  BY <1>1, <1>2

-----------------------------------------------------------------------------
(***************************************************************************)
(* The two transactions that move rows, and a look, keep the invariant.    *)
(***************************************************************************)

LEMMA EraseKeeps ==
  ASSUME Inv, NEW m \in Manifest, EraseRow(m), UNCHANGED <<now, cursor, complete>>
  PROVE  Scheduled' /\ ClockSound'
<1>1. Scheduled'
  BY Erased, NowIsATime, ContentAssumption
     DEF Inv, Scheduled, Orphan, Candidates, EraseRow, Times
<1>2. ClockSound'
  <2>1. /\ \A s \in Manifest \ {m} : lastHere'[s] = lastHere[s]
        /\ lastHere'[m] = now
    BY DEF EraseRow, Inv, TypeOK
  <2> SUFFICES ASSUME NEW s \in Manifest, observed'[s] # None,
                      s \notin manifests', Referrers(s)' # {}
               PROVE  observed'[s] >= lastHere'[s]
    BY DEF ClockSound, Candidates
  <2>2. CASE s = m
    BY <2>2, <2>1, Erased, NowIsATime, SMTT(30) DEF Inv, Referrers
  <2>3. CASE s # m
    BY <2>3, <2>1, Erased, ZenonT(60) DEF Inv, Referrers, EraseRow, ClockSound, Candidates
  <2> QED
    BY <2>2, <2>3
<1> QED
  BY <1>1, <1>2

LEMMA EraseTyped ==
  ASSUME TypeOK, NEW m \in Manifest, EraseRow(m), now' = now
  PROVE  /\ manifests' \subseteq Manifest
         /\ tagged' \subseteq manifests'
         /\ used' \in [Manifest -> 0 .. now']
         /\ observed' \in [Manifest -> 0 .. now' \cup {None}]
         /\ lastHere' \in [Manifest -> 0 .. now']
<1>1. observed' \in [Manifest -> 0 .. now' \cup {None}]
  BY Erased DEF Times
<1>2. now \in 0 .. now
  BY NowIsATime
<1>3. used' \in [Manifest -> 0 .. now] /\ lastHere' \in [Manifest -> 0 .. now]
  BY <1>2 DEF EraseRow, TypeOK
<1>4. manifests' \subseteq Manifest /\ tagged' \subseteq manifests'
  BY DEF EraseRow, TypeOK
<1> QED
  BY <1>1, <1>3, <1>4

LEMMA PutKeeps ==
  ASSUME Inv, NEW m \in Manifest, NEW t \in BOOLEAN, Put(m, t)
  PROVE  Scheduled'
<1> SUFFICES ASSUME NEW n \in Manifest, Orphan(n)'
             PROVE  Subject[n] \in Candidates' \/ (~complete' /\ n > cursor')
  BY DEF Scheduled
<1>1. Subject[n] \in Manifest \ {m}
  BY ContentAssumption DEF Orphan, Put
<1>2. CASE n = m
  <2>1. Observe(Subject[m])
    BY <1>1, <1>2 DEF Put, PutObserved, Orphan
  <2> QED
    BY <1>1, <1>2, <2>1, Observed, NowIsATime DEF Inv, Candidates
<1>3. CASE n # m
  <2>1. Orphan(n)
    BY <1>3 DEF Put, Orphan
  <2>2. observed'[Subject[n]] = observed[Subject[n]] \/ observed'[Subject[n]] = now
    <3>1. CASE Subject[m] \notin manifests \cup {m, None}
      BY <3>1, <1>1, Observed, ContentAssumption DEF Put, PutObserved, Inv
    <3>2. CASE Subject[m] \in manifests \cup {m, None}
      BY <3>2 DEF Put, PutObserved
    <3> QED
      BY <3>1, <3>2
  <2> QED
    BY <1>1, <2>1, <2>2, NowIsATime DEF Inv, Scheduled, Candidates, Put
<1> QED
  BY <1>2, <1>3

LEMMA VisitKeeps ==
  ASSUME Inv, NEW c \in Collector, NEW s \in Manifest, Visit(c, s),
         UNCHANGED <<now, repo, cursor, complete, lastHere>>
  PROVE  Scheduled' /\ ClockSound' /\ observed' \in [Manifest -> 0 .. now' \cup {None}]
<1>1. Scheduled'
  <2> SUFFICES ASSUME NEW n \in Manifest, Orphan(n)
               PROVE  Subject[n] \in Candidates' \/ (~complete /\ n > cursor)
    BY DEF Scheduled, Orphan, repo
  <2>1. Subject[n] \in Manifest \ manifests /\ n \in Referrers(Subject[n])
    BY ContentAssumption DEF Orphan, Referrers
  <2>2. observed'[Subject[n]] = observed[Subject[n]]
    BY <2>1, Visited DEF Inv
  <2> QED
    BY <2>1, <2>2 DEF Inv, Scheduled, Candidates
<1>2. ClockSound'
  BY Visited DEF Inv, ClockSound, Candidates, Referrers, repo
<1>3. observed' \in [Manifest -> 0 .. now' \cup {None}]
  BY Visited DEF Inv, Times
<1> QED
  BY <1>1, <1>2, <1>3

-----------------------------------------------------------------------------

LEMMA InvInit == Init => Inv
<1> SUFFICES ASSUME Init
             PROVE  Inv
  OBVIOUS
<1>1. TypeOK
  <2>1. now \in 0 .. MaxTime /\ cursor \in Manifest \cup {0} /\ complete \in BOOLEAN
    <3>1. 0 \in 0 .. MaxTime
      BY OrphansAssumption
    <3> QED
      BY <3>1 DEF Init
  <2>2. used \in [Manifest -> 0 .. now] /\ lastHere \in [Manifest -> 0 .. now]
    BY DEF Init
  <2>3. observed \in [Manifest -> 0 .. now \cup {None}]
    BY DEF Init
  <2>4. /\ pc \in [Collector -> {"idle", "seed", "drain", "remove"}]
        /\ todo \in [Collector -> SUBSET Manifest]
        /\ refs \in [Collector -> SUBSET Manifest]
        /\ subject \in [Collector -> Manifest \cup {None}]
    BY DEF Init
  <2>5. cutoff \in [Collector -> {t \in Int : t <= now}]
    BY DEF Init
  <2> QED
    BY <2>1, <2>2, <2>3, <2>4, <2>5 DEF Init, TypeOK
<1>2. AtOne
  BY DEF Init, AtOne
<1>3. Scheduled
  BY OrphansAssumption DEF Init, Scheduled
<1>4. ClockSound
  BY DEF Init, ClockSound, Candidates
<1> QED
  BY <1>1, <1>2, <1>3, <1>4 DEF Inv

LEMMA InvStep == Inv /\ [Next]_vars => Inv'
<1> SUFFICES ASSUME Inv, [Next]_vars
             PROVE  Inv'
  OBVIOUS
<1> USE DEF Inv
<1>1. CASE Tick
  <2>1. TypeOK'
    BY <1>1, OrphansAssumption DEF Tick, TypeOK, repo, work, run
  <2>2. AtOne' /\ Scheduled'
    BY <1>1 DEF Tick, AtOne, Scheduled, Orphan, Candidates, repo, work, run
  <2>3. ClockSound'
    BY <1>1 DEF Tick, ClockSound, Candidates, Referrers, repo, work
  <2> QED
    BY <2>1, <2>2, <2>3
<1>2. ASSUME NEW m \in Manifest, NEW t \in BOOLEAN, Put(m, t)
      PROVE  Inv'
  <2>1. observed' \in [Manifest -> 0 .. now' \cup {None}]
    <3>1. CASE Subject[m] \notin manifests \cup {m, None}
      BY <1>2, <3>1, Observed, ContentAssumption DEF Put, PutObserved, Times
    <3>2. CASE Subject[m] \in manifests \cup {m, None}
      BY <1>2, <3>2 DEF Put, PutObserved, TypeOK
    <3> QED
      BY <3>1, <3>2
  <2>2. TypeOK'
    <3>1. now \in 0 .. now
      BY NowIsATime
    <3>2. used' \in [Manifest -> 0 .. now'] /\ lastHere' \in [Manifest -> 0 .. now']
      BY <1>2, <3>1 DEF Put, TypeOK
    <3>3. manifests' \subseteq Manifest /\ tagged' \subseteq manifests'
      BY <1>2 DEF Put, TypeOK
    <3> QED
      BY <1>2, <2>1, <3>2, <3>3 DEF Put, TypeOK, run
  <2>3. AtOne'
    BY <1>2 DEF Put, AtOne, run
  <2>4. Scheduled'
    BY <1>2, PutKeeps
  <2>5. ClockSound'
    <3> SUFFICES ASSUME NEW s \in Manifest, observed'[s] # None,
                        s \notin manifests', Referrers(s)' # {}
                 PROVE  observed'[s] >= lastHere'[s]
      BY DEF ClockSound, Candidates
    <3>1. s \in Manifest \ (manifests \cup {m}) /\ lastHere'[s] = lastHere[s]
      BY <1>2 DEF Put, TypeOK
    <3>2. CASE s = Subject[m]
      <4>1. Observe(s)
        BY <1>2, <3>1, <3>2, ContentAssumption DEF Put, PutObserved, Digest
      <4> QED
        BY <4>1, <3>1, Observed, NowIsATime DEF TypeOK
    <3>3. CASE s # Subject[m]
      <4>1. Referrers(s) # {}
        BY <1>2, <3>3 DEF Put, Referrers
      <4>2. observed'[s] = observed[s]
        <5>1. CASE Subject[m] \notin manifests \cup {m, None}
          BY <1>2, <5>1, <3>1, <3>3, Observed, ContentAssumption DEF Put, PutObserved
        <5>2. CASE Subject[m] \in manifests \cup {m, None}
          BY <1>2, <5>2 DEF Put, PutObserved
        <5> QED
          BY <5>1, <5>2
      <4> QED
        BY <4>1, <4>2, <3>1 DEF ClockSound, Candidates
    <3> QED
      BY <3>2, <3>3
  <2> QED
    BY <2>2, <2>3, <2>4, <2>5
<1>3. ASSUME NEW m \in Manifest, Delete(m)
      PROVE  Inv'
  <2>1. TypeOK'
    BY <1>3, EraseTyped DEF Delete, TypeOK, run
  <2>2. AtOne'
    BY <1>3 DEF Delete, AtOne, run
  <2> QED
    BY <1>3, <2>1, <2>2, EraseKeeps DEF Delete
<1>4. ASSUME NEW m \in Manifest, Retag(m)
      PROVE  Inv'
  <2>1. TypeOK'
    BY <1>4 DEF Retag, TypeOK, work, run
  <2> QED
    BY <1>4, <2>1
       DEF Retag, AtOne, Scheduled, Orphan, ClockSound, Candidates, Referrers, work, run
<1>5. ASSUME NEW m \in Manifest, Pull(m)
      PROVE  Inv'
  <2>1. TypeOK'
    BY <1>5, NowIsATime DEF Pull, TypeOK, work, run
  <2> QED
    BY <1>5, <2>1
       DEF Pull, AtOne, Scheduled, Orphan, ClockSound, Candidates, Referrers, work, run
<1>6. ASSUME NEW c \in Collector, NEW rescan \in BOOLEAN, Begin(c, rescan)
      PROVE  Inv'
  <2>1. TypeOK'
    BY <1>6 DEF Begin, TypeOK, repo
  <2>2. AtOne'
    BY <1>6 DEF Begin, AtOne, TypeOK
  <2>3. Scheduled'
    BY <1>6, OrphansAssumption DEF Begin, Scheduled, Orphan, Candidates, repo
  <2>4. ClockSound'
    BY <1>6 DEF Begin, ClockSound, Candidates, Referrers, repo
  <2> QED
    BY <2>1, <2>2, <2>3, <2>4
<1>7. ASSUME NEW c \in Collector, SeedBatch(c)
      PROVE  Inv'
  <2> PICK read \in SUBSET {n \in manifests : n > cursor}, last \in Manifest \cup {0} :
        /\ Page(read)
        /\ Last(read, last)
        /\ ObserveAll({Subject[m] : m \in {n \in read : Orphan(n)}})
        /\ cursor' = last
        /\ complete' = (Cardinality(read) < Batch)
    BY <1>7 DEF SeedBatch
  <2> DEFINE ss == {Subject[m] : m \in {n \in read : Orphan(n)}}
  <2>1. ss \in SUBSET Manifest
    BY ContentAssumption DEF TypeOK, Orphan
  <2>2. /\ observed' \in [Manifest -> Times]
        /\ \A s \in ss : observed'[s] # None
        /\ \A x \in Manifest : observed[x] # None => observed'[x] = observed[x]
        /\ \A x \in Manifest :
             observed'[x] # None => observed'[x] = observed[x] \/ observed'[x] = now
    <3> HIDE DEF ss
    <3>1. ObserveAll(ss)
      BY DEF ss
    <3> QED
      BY <2>1, <3>1, ObservedAll
  <2>3. UNCHANGED <<now, repo, run, lastHere>>
    BY <1>7 DEF SeedBatch
  <2>4. TypeOK'
    BY <2>2, <2>3 DEF TypeOK, Times, repo, run
  <2>5. AtOne'
    BY <2>3 DEF AtOne, run
  <2>6. Scheduled'
    <3> SUFFICES ASSUME NEW n \in Manifest, Orphan(n), ~(~complete' /\ n > cursor')
                 PROVE  observed'[Subject[n]] # None
      BY <2>3, ContentAssumption DEF Scheduled, Orphan, Candidates, repo
    <3>1. Subject[n] \in Manifest
      BY ContentAssumption DEF Orphan
    <3>2. CASE observed[Subject[n]] # None
      BY <3>1, <3>2, <2>2
    <3>3. CASE n \in read
      BY <3>3, <2>2
    <3>4. CASE observed[Subject[n]] = None /\ n \notin read
      <4>1. n \in manifests /\ n > cursor
        BY <3>4 DEF Scheduled, Candidates, Orphan
      <4>2. Cardinality(read) = Batch /\ \A x \in read : x < n
        BY <4>1, <3>4 DEF Page
      <4>3. ~complete'
        <5>1. ~(Batch < Batch)
          BY OrphansAssumption
        <5> QED
          BY <4>2, <5>1
      <4>4. n > last
        BY <4>1, <4>2 DEF Last
      <4> QED
        BY <4>3, <4>4
    <3> QED
      BY <3>2, <3>3, <3>4
  <2>7. ClockSound'
    <3> SUFFICES ASSUME NEW s \in Manifest, observed'[s] # None,
                        s \notin manifests, Referrers(s) # {}
                 PROVE  observed'[s] >= lastHere[s]
      BY <2>3 DEF ClockSound, Candidates, Referrers, repo
    <3>1. CASE observed[s] # None
      BY <3>1, <2>2 DEF ClockSound, Candidates
    <3>2. CASE observed[s] = None
      <4>1. observed'[s] = now
        BY <3>2, <2>2
      <4> QED
        BY <4>1, NowIsATime DEF TypeOK
    <3> QED
      BY <3>1, <3>2
  <2> QED
    BY <2>4, <2>5, <2>6, <2>7
<1>8. ASSUME NEW c \in Collector, Drain(c)
      PROVE  Inv'
  <2>1. TypeOK'
    BY <1>8, OrphansAssumption DEF Drain, TypeOK, Candidates, repo, work
  <2>2. AtOne'
    BY <1>8 DEF Drain, AtOne, TypeOK
  <2> QED
    BY <1>8, <2>1, <2>2
       DEF Drain, Scheduled, Orphan, ClockSound, Candidates, Referrers, repo, work
<1>9. ASSUME NEW c \in Collector, NEW s \in Manifest, Consider(c, s)
      PROVE  Inv'
  <2>1. Scheduled' /\ ClockSound' /\ observed' \in [Manifest -> 0 .. now' \cup {None}]
    BY <1>9, VisitKeeps DEF Consider
  <2>2. /\ pc' \in [Collector -> {"idle", "seed", "drain", "remove"}]
        /\ todo' \in [Collector -> SUBSET Manifest]
        /\ refs' \in [Collector -> SUBSET Manifest]
        /\ subject' \in [Collector -> Manifest \cup {None}]
    BY <1>9 DEF Consider, TypeOK, Referrers
  <2>3. TypeOK'
    BY <1>9, <2>1, <2>2 DEF Consider, TypeOK, repo
  <2>4. AtOne'
    <3>1. s # None
      BY ContentAssumption DEF Digest
    <3> QED
      BY <1>9, <3>1 DEF Consider, AtOne, TypeOK
  <2> QED
    BY <2>1, <2>3, <2>4
<1>10. ASSUME NEW c \in Collector, NEW m \in Manifest, Remove(c, m)
      PROVE  Inv'
  <2>1. CASE Removable(c, m)
    <3>1. EraseRow(m)
      BY <1>10, <2>1 DEF Remove
    <3>2. TypeOK'
      BY <1>10, <3>1, EraseTyped DEF Remove, TypeOK
    <3>3. AtOne'
      BY <1>10 DEF Remove, AtOne
    <3> QED
      BY <1>10, <3>1, <3>2, <3>3, EraseKeeps DEF Remove
  <2>2. CASE ~Removable(c, m)
    <3>1. UNCHANGED <<repo, lastHere, observed>>
      BY <1>10, <2>2 DEF Remove
    <3>2. TypeOK'
      BY <1>10, <3>1 DEF Remove, TypeOK, repo
    <3> QED
      BY <1>10, <3>1, <3>2
         DEF Remove, AtOne, Scheduled, Orphan, ClockSound, Candidates, Referrers, repo
  <2> QED
    BY <2>1, <2>2
<1>11. ASSUME NEW c \in Collector, Reconsider(c)
      PROVE  Inv'
  <2>1. subject[c] \in Manifest
    BY <1>11 DEF Reconsider, AtOne, TypeOK
  <2>2. Scheduled' /\ ClockSound' /\ observed' \in [Manifest -> 0 .. now' \cup {None}]
    BY <1>11, <2>1, VisitKeeps DEF Reconsider
  <2>3. TypeOK'
    BY <1>11, <2>2 DEF Reconsider, TypeOK, repo
  <2>4. AtOne'
    BY <1>11 DEF Reconsider, AtOne, TypeOK
  <2> QED
    BY <2>2, <2>3, <2>4
<1>12. ASSUME NEW c \in Collector, Finish(c)
      PROVE  Inv'
  <2>1. TypeOK'
    BY <1>12 DEF Finish, TypeOK, repo, work
  <2>2. AtOne'
    BY <1>12 DEF Finish, AtOne, TypeOK
  <2> QED
    BY <1>12, <2>1, <2>2
       DEF Finish, Scheduled, Orphan, ClockSound, Candidates, Referrers, repo, work
<1>13. ASSUME NEW c \in Collector, Abort(c)
      PROVE  Inv'
  <2>1. TypeOK'
    BY <1>13 DEF Abort, TypeOK, repo, work
  <2>2. AtOne'
    BY <1>13 DEF Abort, AtOne, TypeOK
  <2> QED
    BY <1>13, <2>1, <2>2
       DEF Abort, Scheduled, Orphan, ClockSound, Candidates, Referrers, repo, work
<1>14. ASSUME NEW c \in Collector, Pass(c)
       PROVE  Inv'
  <2>1. UNCHANGED <<now, repo, work, cutoff, lastHere>>
    BY <1>14 DEF Pass, PassCandidate, PassReferrer, PassSubject
  <2>2. /\ pc' \in [Collector -> {"idle", "seed", "drain", "remove"}]
        /\ todo' \in [Collector -> SUBSET Manifest]
        /\ refs' \in [Collector -> SUBSET Manifest]
        /\ subject' \in [Collector -> Manifest \cup {None}]
    BY <1>14 DEF Pass, PassCandidate, PassReferrer, PassSubject, TypeOK
  <2>3. TypeOK'
    BY <2>1, <2>2 DEF TypeOK, repo, work
  <2>4. AtOne'
    BY <1>14 DEF Pass, PassCandidate, PassReferrer, PassSubject, AtOne, TypeOK
  <2> QED
    BY <2>1, <2>3, <2>4
       DEF Scheduled, Orphan, ClockSound, Candidates, Referrers, repo, work
<1>15. CASE UNCHANGED vars
  <2>1. TypeOK'
    BY <1>15 DEF vars, TypeOK, repo, work, run
  <2> QED
    BY <1>15, <2>1
       DEF vars, AtOne, Scheduled, Orphan, ClockSound, Candidates, Referrers, repo, work, run
<1> QED
  BY <1>1, <1>2, <1>3, <1>4, <1>5, <1>6, <1>7, <1>8, <1>9, <1>10, <1>11, <1>12, <1>13, <1>14,
     <1>15 DEF Next, Collect

-----------------------------------------------------------------------------

(* Whatever puts, erases, scans and collections do, in any order, the work  *)
(* list stays what gc/orphans.go needs it to be.                           *)
THEOREM Soundness == Spec => []Inv
<1> QED
  BY InvInit, InvStep, PTL DEF Spec

(* No orphan is ever left out: while it is there its subject is a          *)
(* candidate, or the scan has yet to come to it.                           *)
THEOREM Completeness == Spec => []Scheduled
<1>1. Inv => Scheduled
  BY DEF Inv
<1> QED
  BY <1>1, InvInit, InvStep, PTL DEF Spec

(* A candidate's clock never gives its referrers less than what its        *)
(* subject's absence does.                                                 *)
THEOREM Clocks == Spec => []ClockSound
<1>1. Inv => ClockSound
  BY DEF Inv
<1> QED
  BY <1>1, InvInit, InvStep, PTL DEF Spec

(* A referrer is taken only if its subject has been away for the grace     *)
(* period.                                                                 *)
THEOREM Patience == Spec => GraceKept
<1>1. Inv => [\A c \in Collector, m \in Manifest :
                Remove(c, m) /\ m \in manifests \ manifests'
                  => lastHere[Subject[m]] <= cutoff[c]]_vars
  <2> SUFFICES ASSUME Inv, NEW c \in Collector, NEW m \in Manifest,
                      Remove(c, m), m \in manifests \ manifests'
               PROVE  lastHere[Subject[m]] <= cutoff[c]
    OBVIOUS
  <2> DEFINE s == Subject[m]
  <2>1. Removable(c, m)
    BY DEF Remove, repo
  <2>2. s = subject[c] /\ observed[s] # None /\ observed[s] <= cutoff[c] /\ s \notin manifests
    BY <2>1 DEF Removable
  <2>3. s \in Manifest
    BY <2>2 DEF Inv, AtOne, TypeOK, Remove
  <2>4. observed[s] >= lastHere[s]
    BY <2>2, <2>3 DEF Inv, ClockSound, Candidates, Referrers
  <2>5. observed[s] \in Int /\ lastHere[s] \in Int /\ cutoff[c] \in Int
    BY <2>2, <2>3 DEF Inv, TypeOK
  <2> QED
    BY <2>2, <2>4, <2>5
<1> QED
  BY <1>1, InvInit, InvStep, PTL DEF Spec, GraceKept
=============================================================================
