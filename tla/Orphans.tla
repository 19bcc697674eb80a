------------------------------- MODULE Orphans -------------------------------
(***************************************************************************)
(* Orphaned referrers of one repository: manifests whose subject is not    *)
(* there.  The collector finds them from a list of candidates, subjects to *)
(* look at, that is kept by the transactions that write manifests          *)
(* (index/entindex/rows.go, Put and Erase), and seeded once, in batches,   *)
(* for what was there before the list was (index/entindex/orphans.go).     *)
(* gc/orphans.go drains it.                                                *)
(*                                                                         *)
(* A step is a transaction under the repository's lock, and commits whole; *)
(* the store and the release of what a delete released are Repository.tla's*)
(* matter.  Manifests are numbered in the order of their digests, which is *)
(* the order of a scan.                                                    *)
(***************************************************************************)
EXTENDS Content, Integers, FiniteSets

CONSTANTS
  Collector,  \* goroutines that collect: the online and the full collection
  Batch,      \* how many manifests a step of a scan reads
  Grace,      \* gc.orphaned
  MaxTime     \* the clock stops here; bounds the model

ASSUME OrphansAssumption ==
  /\ Manifest \subseteq Nat \ {0}
  /\ IsFiniteSet(Manifest)
  /\ None \notin Int
  /\ Batch \in Nat \ {0}
  /\ Grace \in Nat
  /\ MaxTime \in Nat

VARIABLES
  now,
  manifests,  \* manifests with a row
  tagged,     \* those a tag points at
  used,       \* used[m]: when m was created or last pulled
  observed,   \* observed[s]: ObservedAt of the candidate s, or None
  cursor,     \* the last digest the scan read, 0 before it began
  complete,   \* the scan is over

  pc,         \* pc[c]: "idle", "seed", "drain" or "remove"
  cutoff,     \* cutoff[c]: what c takes for old is from before this
  todo,       \* todo[c]: candidates c has listed and not got to
  refs,       \* refs[c]: referrers of subject[c] it has yet to look at
  subject,    \* subject[c]: the candidate c is at, or None

  lastHere    \* lastHere[s]: when s was last seen in the index; history

repo == <<manifests, tagged, used>>
work == <<observed, cursor, complete>>
run  == <<pc, cutoff, todo, refs, subject>>
vars == <<now, repo, work, run, lastHere>>

TypeOK ==
  /\ now \in 0 .. MaxTime
  /\ manifests \subseteq Manifest
  /\ tagged \subseteq manifests
  /\ used \in [Manifest -> 0 .. now]
  /\ observed \in [Manifest -> 0 .. now \cup {None}]
  /\ cursor \in Manifest \cup {0}
  /\ complete \in BOOLEAN
  /\ pc \in [Collector -> {"idle", "seed", "drain", "remove"}]
  /\ cutoff \in [Collector -> {t \in Int : t <= now}]
  /\ todo \in [Collector -> SUBSET Manifest]
  /\ refs \in [Collector -> SUBSET Manifest]
  /\ subject \in [Collector -> Manifest \cup {None}]
  /\ lastHere \in [Manifest -> 0 .. now]

(* A database from before there were candidates.                           *)
Init ==
  /\ now = 0
  /\ manifests \in SUBSET Manifest
  /\ tagged \in SUBSET manifests
  /\ used = [m \in Manifest |-> 0]
  /\ observed = [s \in Manifest |-> None]
  /\ cursor = 0
  /\ complete = FALSE
  /\ pc = [c \in Collector |-> "idle"]
  /\ cutoff = [c \in Collector |-> 0]
  /\ todo = [c \in Collector |-> {}]
  /\ refs = [c \in Collector |-> {}]
  /\ subject = [c \in Collector |-> None]
  /\ lastHere = [s \in Manifest |-> 0]

-----------------------------------------------------------------------------

Referrers(s) == {m \in manifests : Subject[m] = s}

Orphan(m) == m \in manifests /\ Subject[m] # None /\ Subject[m] \notin manifests

Candidates == {s \in Manifest : observed[s] # None}

(* A write's observation starts a candidate's grace over.                  *)
Observe(s) == observed' = [observed EXCEPT ![s] = now]

(* A scan's does not.                                                      *)
ObserveAll(ss) ==
  observed' = [s \in Manifest |-> IF s \in ss /\ observed[s] = None THEN now ELSE observed[s]]

Tick ==
  /\ now < MaxTime
  /\ now' = now + 1
  /\ lastHere' = [s \in Manifest |-> IF s \in manifests THEN now + 1 ELSE lastHere[s]]
  /\ UNCHANGED <<repo, work, run>>

-----------------------------------------------------------------------------
(***************************************************************************)
(* What clients do.                                                        *)
(***************************************************************************)

(* Manifests.Put of a new row.                                             *)
PutUnobserved(m) == UNCHANGED observed
PutObserved(m) ==
  IF Subject[m] \notin manifests \cup {m, None} THEN Observe(Subject[m]) ELSE UNCHANGED observed

Put(m, t) ==
  /\ m \notin manifests
  /\ Children(m) \subseteq manifests
  /\ manifests' = manifests \cup {m}
  /\ tagged' = IF t THEN tagged \cup {m} ELSE tagged
  /\ used' = [used EXCEPT ![m] = now]
  /\ lastHere' = [lastHere EXCEPT ![m] = now]
  /\ PutObserved(m)
  /\ UNCHANGED <<now, cursor, complete, run>>

(* Manifests.Erase.                                                        *)
EraseUnrefreshed(m) ==
  ObserveAll({s \in {m} : \E r \in manifests \ {m} : Subject[r] = s})
EraseObserved(m) ==
  IF \E r \in manifests \ {m} : Subject[r] = m THEN Observe(m) ELSE UNCHANGED observed

EraseRow(m) ==
  /\ manifests' = manifests \ {m}
  /\ tagged' = tagged \ {m}
  /\ used' = [used EXCEPT ![m] = 0]
  /\ lastHere' = [lastHere EXCEPT ![m] = now]
  /\ EraseObserved(m)

Delete(m) ==
  /\ m \in manifests
  /\ EraseRow(m)
  /\ UNCHANGED <<now, cursor, complete, run>>

(* A tag comes to point at m, or the last one that did goes.               *)
Retag(m) ==
  /\ m \in manifests
  /\ tagged' = IF m \in tagged THEN tagged \ {m} ELSE tagged \cup {m}
  /\ UNCHANGED <<now, manifests, used, work, run, lastHere>>

Pull(m) ==
  /\ m \in manifests
  /\ used[m] # now
  /\ used' = [used EXCEPT ![m] = now]
  /\ UNCHANGED <<now, manifests, tagged, work, run, lastHere>>

-----------------------------------------------------------------------------
(***************************************************************************)
(* A collection.                                                           *)
(***************************************************************************)

(* rescan is `cr gc --rescan-orphans`, which forgets the checkpoint.       *)
Begin(c, rescan) ==
  /\ pc[c] = "idle"
  /\ pc' = [pc EXCEPT ![c] = "seed"]
  /\ IF rescan
     THEN cursor' = 0 /\ complete' = FALSE
     ELSE UNCHANGED <<cursor, complete>>
  /\ UNCHANGED <<now, repo, observed, cutoff, todo, refs, subject, lastHere>>

(* What a step of the scan reads: the next Batch manifests, in order, or   *)
(* all that are left if they are fewer.                                    *)
Page(read) ==
  /\ Cardinality(read) <= Batch
  /\ \A m \in {n \in manifests : n > cursor} \ read :
       Cardinality(read) = Batch /\ \A n \in read : n < m

Last(read, last) ==
  IF read = {} THEN last = cursor ELSE last \in read /\ \A n \in read : n <= last

SeedBatch(c) ==
  /\ pc[c] = "seed"
  /\ ~complete
  /\ \E read \in SUBSET {n \in manifests : n > cursor}, last \in Manifest \cup {0} :
       /\ Page(read)
       /\ Last(read, last)
       /\ ObserveAll({Subject[m] : m \in {n \in read : Orphan(n)}})
       /\ cursor' = last
       /\ complete' = (Cardinality(read) < Batch)
  /\ UNCHANGED <<now, repo, run, lastHere>>

(* The list is complete: it is read, without the lock, and the age that    *)
(* counts as old is fixed.                                                 *)
Drain(c) ==
  /\ pc[c] = "seed"
  /\ complete
  /\ pc' = [pc EXCEPT ![c] = "drain"]
  /\ cutoff' = [cutoff EXCEPT ![c] = now - Grace]
  /\ todo' = [todo EXCEPT ![c] = Candidates]
  /\ UNCHANGED <<now, repo, work, refs, subject, lastHere>>

(* A candidate is forgotten if its subject is back, or if it is old and    *)
(* has no referrers; if it is old and has some, those are what to do.      *)
ForgottenEarly(c, s) == s \in manifests \/ Referrers(s) = {} \/ observed[s] <= cutoff[c]
Forgotten(c, s) == s \in manifests \/ (observed[s] <= cutoff[c] /\ Referrers(s) = {})

Ripe(c, s) == s \in Candidates \ manifests /\ observed[s] <= cutoff[c]

Visit(c, s) ==
  observed' = IF s \in Candidates /\ Forgotten(c, s) THEN [observed EXCEPT ![s] = None] ELSE observed

Consider(c, s) ==
  /\ pc[c] = "drain"
  /\ s \in todo[c]
  /\ Visit(c, s)
  /\ todo' = [todo EXCEPT ![c] = @ \ {s}]
  /\ IF Ripe(c, s) /\ Referrers(s) # {}
     THEN /\ pc' = [pc EXCEPT ![c] = "remove"]
          /\ subject' = [subject EXCEPT ![c] = s]
          /\ refs' = [refs EXCEPT ![c] = Referrers(s)]
     ELSE UNCHANGED <<pc, subject, refs>>
  /\ UNCHANGED <<now, repo, cursor, complete, cutoff, lastHere>>

(* All of it is asked again in the transaction that deletes.               *)
RemovableIgnoringCandidate(c, m) ==
  /\ m \in manifests
  /\ Subject[m] = subject[c]
  /\ used[m] < cutoff[c]
  /\ subject[c] \notin manifests
  /\ m \notin tagged \cup HeldBy(manifests)
Removable(c, m) ==
  /\ m \in manifests
  /\ Subject[m] = subject[c]
  /\ used[m] < cutoff[c]
  /\ observed[subject[c]] # None /\ observed[subject[c]] <= cutoff[c]
  /\ subject[c] \notin manifests
  /\ m \notin tagged \cup HeldBy(manifests)

Remove(c, m) ==
  /\ pc[c] = "remove"
  /\ m \in refs[c]
  /\ refs' = [refs EXCEPT ![c] = @ \ {m}]
  /\ IF Removable(c, m)
     THEN EraseRow(m)
     ELSE UNCHANGED <<repo, lastHere, observed>>
  /\ UNCHANGED <<now, cursor, complete, pc, cutoff, todo, subject>>

(* The candidate is looked at once more, after its referrers.              *)
Reconsider(c) ==
  /\ pc[c] = "remove"
  /\ refs[c] = {}
  /\ Visit(c, subject[c])
  /\ pc' = [pc EXCEPT ![c] = "drain"]
  /\ subject' = [subject EXCEPT ![c] = None]
  /\ UNCHANGED <<now, repo, cursor, complete, cutoff, todo, refs, lastHere>>

Finish(c) ==
  /\ pc[c] = "drain"
  /\ todo[c] = {}
  /\ pc' = [pc EXCEPT ![c] = "idle"]
  /\ cutoff' = [cutoff EXCEPT ![c] = 0]
  /\ UNCHANGED <<now, repo, work, todo, refs, subject, lastHere>>

(* A transaction about one candidate, or one of its referrers, fails: the   *)
(* error is kept and the collection goes on with what comes after it.  One *)
(* that would have changed nothing looks the same whether or not it fails. *)
PassCandidate(c, s) ==
  /\ pc[c] = "drain"
  /\ s \in todo[c]
  /\ Ripe(c, s) \/ s \in Candidates \cap manifests
  /\ todo' = [todo EXCEPT ![c] = @ \ {s}]
  /\ UNCHANGED <<now, repo, work, pc, cutoff, refs, subject, lastHere>>

PassReferrer(c, m) ==
  /\ pc[c] = "remove"
  /\ m \in refs[c]
  /\ Removable(c, m)
  /\ refs' = [refs EXCEPT ![c] = @ \ {m}]
  /\ UNCHANGED <<now, repo, work, pc, cutoff, todo, subject, lastHere>>

PassSubject(c) ==
  /\ pc[c] = "remove"
  /\ refs[c] = {}
  /\ subject[c] \in Candidates /\ Forgotten(c, subject[c])
  /\ pc' = [pc EXCEPT ![c] = "drain"]
  /\ subject' = [subject EXCEPT ![c] = None]
  /\ UNCHANGED <<now, repo, work, cutoff, todo, refs, lastHere>>

Pass(c) ==
  PassSubject(c) \/ \E m \in Manifest : PassCandidate(c, m) \/ PassReferrer(c, m)

(* The process is gone, or a step of the scan or the list fails, between   *)
(* any two transactions.  After the last there is nothing left to stop.    *)
Abort(c) ==
  /\ pc[c] # "idle"
  /\ pc[c] = "drain" => todo[c] # {}
  /\ pc' = [pc EXCEPT ![c] = "idle"]
  /\ todo' = [todo EXCEPT ![c] = {}]
  /\ refs' = [refs EXCEPT ![c] = {}]
  /\ subject' = [subject EXCEPT ![c] = None]
  /\ cutoff' = [cutoff EXCEPT ![c] = 0]
  /\ UNCHANGED <<now, repo, work, lastHere>>

Collect(c) ==
  \/ SeedBatch(c) \/ Drain(c) \/ Reconsider(c) \/ Finish(c)
  \/ \E s \in Manifest : Consider(c, s) \/ Remove(c, s)

Next ==
  \/ Tick
  \/ \E m \in Manifest : (\E t \in BOOLEAN : Put(m, t)) \/ Delete(m) \/ Retag(m) \/ Pull(m)
  \/ \E c \in Collector : (\E rescan \in BOOLEAN : Begin(c, rescan)) \/ Collect(c) \/ Pass(c) \/ Abort(c)

Spec == Init /\ [][Next]_vars

(* Steps follow one another, a collection begins every gc.every, and from  *)
(* some time on nothing stops or fails.                                    *)
FairSpec ==
  /\ Spec
  /\ \A c \in Collector : WF_vars(Collect(c)) /\ WF_vars(Begin(c, FALSE))
  /\ \A c \in Collector : <>[][~Abort(c) /\ ~Pass(c)]_vars

-----------------------------------------------------------------------------

(* No orphan is forgotten: its subject is a candidate, or the scan has yet *)
(* to come to it.  Puts, erases, a scan in batches, one begun again and    *)
(* collections that forget a candidate may come in any order               *)
(* (index/index.go, Orphans; gc/orphans.go:61-62).                         *)
Scheduled ==
  \A m \in Manifest :
    Orphan(m) => Subject[m] \in Candidates \/ (~complete /\ m > cursor)

(* The clock of a candidate with referrers is no older than its subject's  *)
(* absence.                                                                *)
ClockSound ==
  \A s \in Candidates \ manifests :
    Referrers(s) # {} => observed[s] >= lastHere[s]

(* A referrer is taken for an orphan only if its subject has been away for *)
(* the grace period: not one whose subject was deleted, or came back and   *)
(* went again, since ("only a new change restarts its grace",              *)
(* index/entindex/orphans.go:17-18).                                       *)
GraceKept ==
  [][\A c \in Collector, m \in Manifest :
       Remove(c, m) /\ m \in manifests \ manifests' => lastHere[Subject[m]] <= cutoff[c]]_vars

(* A collection looks at the referrers of one candidate at a time.         *)
AtOne == \A c \in Collector : pc[c] = "remove" => subject[c] # None

(* All of this holds after any step it held before.                        *)
Inv ==
  /\ TypeOK
  /\ AtOne
  /\ Scheduled
  /\ ClockSound

(* What a collection that began now would take is taken, unless somebody   *)
(* comes to need it.                                                       *)
Eligible(m) ==
  /\ Orphan(m)
  /\ m \notin tagged \cup HeldBy(manifests)
  /\ used[m] < now - Grace
  /\ Subject[m] \in Candidates => observed[Subject[m]] <= now - Grace

Reaped == \A m \in Manifest : Eligible(m) ~> ~Eligible(m)
=============================================================================
