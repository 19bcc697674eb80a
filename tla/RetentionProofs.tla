-------------------------- MODULE RetentionProofs --------------------------
(***************************************************************************)
(* Theorems about Retention, for any tags, rules, processes and bounds:    *)
(* the inductive invariant Inv, and from it that a collection keeps the    *)
(* newest tags of its rules, and that an immutable tag stays.              *)
(***************************************************************************)
EXTENDS Retention, FiniteSetTheorems, TLAPS

USE RetentionAssumption

LEMMA NoPolicyIsNoRules == NoPolicy \notin SUBSET Rule /\ NoPolicy \in Policy
BY DEF NoPolicy, Policy

(* More are behind nothing less. *)
LEMMA MoreBehind ==
  ASSUME NEW A \in SUBSET Tag, NEW B \in SUBSET Tag, A \subseteq B, NEW n \in Nat,
         Cardinality(A) >= n
  PROVE  Cardinality(B) >= n
<1>1. IsFiniteSet(A) /\ IsFiniteSet(B)
  BY FS_Subset
<1>2. Cardinality(A) <= Cardinality(B) /\ Cardinality(A) \in Nat /\ Cardinality(B) \in Nat
  BY <1>1, FS_Subset, FS_CardinalityType
<1> QED BY <1>2

LEMMA Entries ==
  ASSUME TypeOK
  PROVE  /\ NoTag \in Entry
         /\ \A t \in Tag : tags[t] \in Entry /\ tags[t].moved \in Nat
         /\ \A j \in Job : /\ job[j] \in JobState
                           /\ \A t \in Tag : job[j].counted[t] \in Entry
                                             /\ job[j].counted[t].moved \in Nat
         /\ now \in Nat
BY DEF TypeOK, Entry, JobState, NoTag

LEMMA JobFields ==
  ASSUME Inv, NEW j \in Job
  PROVE  /\ job[j] \in JobState
         /\ job[j].pc \in {"idle", "lead", "count", "erase", "record"}
         /\ job[j].rules \in SUBSET Rule
         /\ job[j].counted \in [Tag -> Entry]
         /\ job[j].todo \in SUBSET Tag
         /\ job[j].run \in 0..MaxRuns
         /\ job[j].run # 0 => job[j].run \in 1..MaxRuns
BY DEF Inv, TypeOK, JobState

LEMMA NoJobType == NoJob \in JobState
BY DEF NoJob, JobState, Entry, NoTag

-----------------------------------------------------------------------------
LEMMA InitSound == Init => Inv
<1> SUFFICES ASSUME Init PROVE Inv
  OBVIOUS
<1>1. TypeOK
  <2>1. tags \in [Tag -> Entry]
    BY DEF Init, Entry, NoTag
  <2>2. job \in [Job -> JobState]
    BY NoJobType DEF Init
  <2>3. policy \in [Process -> Policy] /\ request \in [Process -> Policy]
    BY NoPolicyIsNoRules DEF Init, Policy
  <2>4. had \in [Source -> SUBSET SUBSET Rule]
    BY DEF Init, Of
  <2> QED BY <2>1, <2>2, <2>3, <2>4 DEF Init, TypeOK, NoRefresh
<1>2. TimesSound
  BY DEF Init, TimesSound, NoJob, NoTag
<1>3. SourcesSound
  BY DEF Init, SourcesSound, Of
<1>4. PolicyWhole
  BY DEF Init, PolicyWhole, NoRefresh
<1>5. RunsTrue
  BY DEF Init, RunsTrue, NoJob
<1>6. \A j \in Job : JobSound(j)
  BY DEF Init, JobSound, NoJob, At
<1> QED BY <1>1, <1>2, <1>3, <1>4, <1>5, <1>6 DEF Inv, Init

-----------------------------------------------------------------------------
(* As many stay ahead of what a collection may erase, whatever is written.  *)

(* The step of a request, or of another collection. *)
LEMMA BehindStep ==
  ASSUME Inv, TypeOK', NEW j \in Job, NEW r \in job[j].rules, NEW t \in job[j].todo,
         At(j, "erase"), Retains(r), t \in Over[r], AsCounted(j, t), tags'[t] = tags[t],
         Behind(r, t),
         \/ \E p \in Process, u \in Tag, d \in Digest : SetTag(p, u, d)
         \/ \E p \in Process, us \in SUBSET Tag : EraseTags(p, us)
         \/ \E h \in Job, u \in Tag : EraseTag(h, u)
         \/ \E h \in Job : CountTags(h)
         \/ UNCHANGED <<store, lost>>
  PROVE  Behind(r, t)'
<1> DEFINE ahead == Newer(tags, r, t) \cup Gone(r)
<1>1. /\ r \in Rule /\ t \in Tag /\ job[j] \in JobState /\ lost[r] \subseteq Tag
      /\ lost'[r] \subseteq Tag /\ Count[r] \in Nat
      /\ tags[t] # NoTag /\ \A u \in Tag : tags[u].moved \in Nat
      /\ lost[r] \subseteq Over[r] /\ Over[r] \subseteq Tag
  <2>1. job[j] \in JobState /\ JobSound(j)
    BY DEF Inv, TypeOK
  <2>2. r \in Rule /\ t \in Tag
    BY <2>1 DEF JobState
  <2>3. tags[t] # NoTag
    BY <2>1 DEF JobSound, AsCounted
  <2>4. lost[r] \subseteq Tag /\ lost[r] \subseteq Over[r]
    BY <2>2 DEF Inv, TypeOK
  <2>5. lost'[r] \subseteq Tag
    BY <2>2 DEF TypeOK
  <2>6. Count[r] \in Nat /\ Over[r] \subseteq Tag
    BY <2>2
  <2>7. TypeOK
    BY DEF Inv
  <2> QED BY <2>1, <2>2, <2>3, <2>4, <2>5, <2>6, <2>7, Entries
<1>2. ahead \in SUBSET Tag /\ ahead' \in SUBSET Tag
  BY <1>1 DEF Newer, Gone
<1>3. Cardinality(ahead) >= Count[r]
  BY DEF Behind
<1>4. Kept(r)
  BY DEF Kept, At
<1>5. SUFFICES ahead \subseteq ahead' \/ \E A \in SUBSET ahead' : Cardinality(A) >= Count[r]
  <2>1. PICK A \in SUBSET ahead' : Cardinality(A) >= Count[r]
    BY <1>3, <1>5
  <2>2. Cardinality(ahead') >= Count[r]
    <3> HIDE DEF ahead
    <3> QED BY <1>1, <1>2, <2>1, MoreBehind
  <2> QED BY <2>2 DEF Behind
<1>6. ASSUME NEW p \in Process, NEW u \in Tag, NEW d \in Digest, SetTag(p, u, d)
      PROVE  ahead \subseteq ahead'
  <2>1. /\ tags' = [tags EXCEPT ![u] = [digest |-> d, moved |-> now + 1]] /\ lost' = lost
        /\ now \in Nat /\ \A v \in Tag : tags[v].moved <= now
    BY <1>6, Entries DEF SetTag, Inv, TimesSound
  <2>2. u # t
    BY <1>1, <1>6, <2>1 DEF SetTag, TypeOK, Inv
  <2>3. \A v \in Tag : tags'[v] = IF v = u THEN [digest |-> d, moved |-> now + 1] ELSE tags[v]
    BY <2>1 DEF Inv, TypeOK
  <2>4. tags'[u].moved > tags'[t].moved
    BY <1>1, <2>1, <2>2, <2>3
  <2>5. \A v \in Newer(tags, r, t) : v \in Newer(tags, r, t)'
    BY <1>1, <2>2, <2>3, <2>4 DEF Newer
  <2>6. \A v \in Gone(r) : v \in ahead'
    BY <1>1, <2>1, <2>3, <2>4 DEF Gone, Newer, Here
  <2> QED BY <2>5, <2>6
<1>7. ASSUME NEW p \in Process, NEW us \in SUBSET Tag, EraseTags(p, us)
      PROVE  ahead \subseteq ahead'
  <2>1. /\ \A v \in Tag : tags'[v] = IF v \in us THEN NoTag ELSE tags[v]
        /\ lost'[r] = lost[r] \cup (us \cap Over[r])
    BY <1>1, <1>4, <1>7 DEF EraseTags, Lose
  <2>2. t \notin us
    BY <1>1, <2>1
  <2> QED BY <1>1, <2>1, <2>2 DEF Newer, Gone, Here
<1>8. ASSUME NEW h \in Job, NEW u \in Tag, EraseTag(h, u)
      PROVE  ahead \subseteq ahead' \/ \E A \in SUBSET ahead' : Cardinality(A) >= Count[r]
  <2>1. /\ \A v \in Tag : tags'[v] = IF v = u THEN NoTag ELSE tags[v]
        /\ lost'[r] = IF r \notin job[h].rules THEN lost[r] \cup ({u} \cap Over[r]) ELSE lost[r]
        /\ u \in job[h].todo /\ AsCounted(h, u)
    BY <1>1, <1>4, <1>8 DEF EraseTag, Lose, Inv, TypeOK
  <2>2. u # t /\ NoTag.moved = 0
    BY <1>1, <2>1 DEF NoTag
  <2>3. CASE r \in job[h].rules /\ u \in Newer(tags, r, t)
    <3>1. u \in Over[r]
      BY <2>3 DEF Newer
    <3>2. Cardinality(Newer(tags, r, u) \cup Gone(r)) >= Count[r]
      BY <2>1, <2>3, <3>1 DEF Inv, JobSound, Behind
    <3>3. Newer(tags, r, u) \cup Gone(r) \subseteq ahead'
      BY <1>1, <2>1, <2>2, <2>3 DEF Newer, Gone, Here
    <3> QED BY <3>2, <3>3
  <2>4. CASE r \notin job[h].rules \/ u \notin Newer(tags, r, t)
    BY <1>1, <2>1, <2>2, <2>4 DEF Newer, Gone, Here
  <2> QED BY <2>3, <2>4
<1>9. ASSUME NEW h \in Job, CountTags(h)
      PROVE  ahead \subseteq ahead'
  <2>1. tags' = tags /\ lost'[r] = lost[r]
    BY <1>1, <1>4, <1>9 DEF CountTags, store
  <2> QED BY <2>1 DEF Newer, Gone, Here
<1>10. CASE UNCHANGED <<store, lost>>
  BY <1>10 DEF store, Newer, Gone, Here
<1> QED BY <1>6, <1>7, <1>8, <1>9, <1>10

(* What a step leaves of a collection that was sound: what it may still     *)
(* erase, it could before.                                                  *)
LEMMA TodoStep ==
  ASSUME Inv, TypeOK', NEW j \in Job, job'[j].rules = job[j].rules, job'[j].pc = job[j].pc,
         job'[j].counted = job[j].counted, job'[j].todo \subseteq job[j].todo,
         job'[j].run = job[j].run, Up(j[1])' \/ At(j, "idle"),
         \/ \E p \in Process, u \in Tag, d \in Digest : SetTag(p, u, d)
         \/ \E p \in Process, us \in SUBSET Tag : EraseTags(p, us)
         \/ \E h \in Job, u \in Tag : EraseTag(h, u)
         \/ \E h \in Job : CountTags(h)
         \/ UNCHANGED <<store, lost>>
  PROVE  JobSound(j)'
<1>1. job[j] \in JobState /\ job'[j] \in JobState /\ JobSound(j)
  BY DEF Inv, TypeOK
<1>2. ASSUME NEW t \in job'[j].todo, AsCounted(j, t)'
      PROVE  tags'[t] = tags[t]
  <2>1. /\ t \in Tag /\ job[j].counted[t] # NoTag /\ tags'[t] = job[j].counted[t]
        /\ job[j].counted[t].moved <= now /\ job[j].counted[t].moved \in Nat /\ now \in Nat
    BY <1>1, <1>2, Entries DEF JobSound, JobState, AsCounted, Inv, TimesSound
  <2>2. ASSUME NEW p \in Process, NEW u \in Tag, NEW d \in Digest, SetTag(p, u, d), u = t
        PROVE  FALSE
    <3>1. tags'[t] = [digest |-> d, moved |-> now + 1]
      BY <2>1, <2>2 DEF SetTag, Inv, TypeOK
    <3>2. tags'[t].moved = now + 1
      BY <3>1
    <3> QED BY <2>1, <3>2
  <2>3. \/ tags'[t] = tags[t] \/ tags'[t] = NoTag
        \/ \E p \in Process, u \in Tag, d \in Digest : SetTag(p, u, d) /\ u = t
    <3>1. ASSUME NEW p \in Process, NEW u \in Tag, NEW d \in Digest, SetTag(p, u, d), u # t
          PROVE  tags'[t] = tags[t]
      BY <2>1, <3>1 DEF SetTag, Inv, TypeOK
    <3>2. ASSUME NEW h \in Job, NEW u \in Tag, EraseTag(h, u)
          PROVE  tags'[t] = tags[t] \/ tags'[t] = NoTag
      BY <2>1, <3>2 DEF EraseTag, Inv, TypeOK
    <3>3. ASSUME NEW p \in Process, NEW us \in SUBSET Tag, EraseTags(p, us)
          PROVE  tags'[t] = tags[t] \/ tags'[t] = NoTag
      BY <2>1, <3>3 DEF EraseTags
    <3>4. ASSUME NEW h \in Job, CountTags(h) PROVE tags'[t] = tags[t]
      BY <3>4 DEF CountTags, store
    <3>5. UNCHANGED <<store, lost>> => tags'[t] = tags[t]
      BY DEF store
    <3> QED BY <3>1, <3>2, <3>3, <3>4, <3>5
  <2> QED BY <2>1, <2>2, <2>3
<1>3. ASSUME NEW t \in job'[j].todo, NEW r \in job'[j].rules, Retains(r), t \in Over[r],
             AsCounted(j, t)'
      PROVE  Behind(r, t)'
  <2>1. t \in job[j].todo /\ r \in job[j].rules /\ tags'[t] = tags[t] /\ At(j, "erase")
    BY <1>1, <1>2, <1>3 DEF JobSound
  <2>2. AsCounted(j, t)
    BY <1>3, <2>1 DEF AsCounted
  <2>3. Behind(r, t)
    BY <1>1, <1>3, <2>1, <2>2 DEF JobSound
  <2> QED BY <1>3, <2>1, <2>2, <2>3, BehindStep
<1>4. \A t \in job'[j].todo : job'[j].counted[t] # NoTag /\ Allows(job'[j].rules, TRUE, t, "delete")
  BY <1>1 DEF JobSound
<1> QED BY <1>1, <1>3, <1>4 DEF JobSound, At, Up, Retains

-----------------------------------------------------------------------------
(* Every step leaves every variable of its type. *)
LEMMA TypeStep ==
  ASSUME Inv, [Next]_vars
  PROVE  TypeOK'
<1>0. TypeOK
  BY DEF Inv
<1>1. NoJob \in JobState /\ NoTag \in Entry
  BY NoJobType, Entries, <1>0
<1>2. ASSUME NEW r \in Rule, Edit(r) PROVE TypeOK'
  <2>1. written' \subseteq Rule
    BY <1>0, <1>2 DEF TypeOK, Edit
  <2>2. had' \in [Source -> SUBSET SUBSET Rule]
    BY <1>0, <1>2, <2>1 DEF TypeOK, Edit
  <2> QED BY <1>0, <1>2, <2>1, <2>2 DEF TypeOK, Edit, store, record
<1>3. ASSUME NEW p \in Process, Reload(p) PROVE TypeOK'
  <2>1. CASE LoadFile(p)
    BY <1>0, <2>1 DEF TypeOK, LoadFile, store, sources, record
  <2>2. CASE Install(p)
    <3>1. refresh[p].rules \cup (written \cap Database) \in Policy
      BY <1>0 DEF TypeOK, Policy
    <3> QED BY <1>0, <2>2, <3>1 DEF TypeOK, Install, NoRefresh, store, sources, record
  <2>3. CASE LoadFail(p)
    BY <1>0, <2>3 DEF TypeOK, LoadFail, NoRefresh, store, sources, record
  <2> QED BY <1>3, <2>1, <2>2, <2>3 DEF Reload
<1>4. ASSUME NEW p \in Process, NEW t \in Tag, NEW d \in Digest, SetTag(p, t, d) PROVE TypeOK'
  <2>1. [digest |-> d, moved |-> now + 1] \in Entry /\ now + 1 \in 0..MaxTime
    BY <1>0, <1>4 DEF TypeOK, SetTag, Entry
  <2> QED BY <1>0, <1>4, <2>1, NoPolicyIsNoRules DEF TypeOK, SetTag, sources, record
<1>5. ASSUME NEW p \in Process, NEW ts \in SUBSET Tag, EraseTags(p, ts) PROVE TypeOK'
  <2>1. lost' \in [Rule -> SUBSET Tag]
    BY <1>0, <1>5, ZenonT(60) DEF TypeOK, EraseTags, Lose
  <2>2. tags' \in [Tag -> Entry]
    BY <1>0, <1>1, <1>5 DEF TypeOK, EraseTags
  <2>3. request' \in [Process -> Policy]
    <3>1. NoPolicy \in Policy /\ request \in [Process -> Policy]
      BY <1>0 DEF TypeOK, Policy
    <3> QED BY <1>5, <3>1 DEF EraseTags
  <2>4. UNCHANGED <<now, sources, policy, refresh, job, record>>
    BY <1>5 DEF EraseTags
  <2> QED BY <1>0, <2>1, <2>2, <2>3, <2>4 DEF TypeOK, sources, record
<1>6. ASSUME NEW p \in Process, Come(p) \/ Refuse(p) PROVE TypeOK'
  <2>1. NoPolicy \in Policy /\ policy[p] \in Policy /\ request \in [Process -> Policy]
    BY <1>0 DEF TypeOK, Policy
  <2>2. request' \in [Process -> Policy]
    BY <1>6, <2>1 DEF Come, Refuse
  <2>3. UNCHANGED <<store, sources, policy, refresh, job, record, lost>>
    BY <1>6 DEF Come, Refuse
  <2> QED BY <1>0, <2>2, <2>3 DEF TypeOK, store, sources, record
<1>7. ASSUME NEW p \in Process, Crash(p) PROVE TypeOK'
  <2>1. broken' \subseteq 1..MaxRuns
    <3>1. ASSUME NEW j \in Job, ~At(j, "idle") PROVE job[j].run \in 1..MaxRuns
      BY <3>1, JobFields DEF Inv, JobSound
    <3>2. broken' = broken \cup {job[j].run : j \in {h \in Job : h[1] = p /\ ~At(h, "idle")}}
      BY <1>7 DEF Crash
    <3>3. broken \subseteq 1..MaxRuns
      BY <1>0 DEF TypeOK
    <3>4. ASSUME NEW i \in broken', i \notin broken PROVE i \in 1..MaxRuns
      <4>1. PICK j \in Job : ~At(j, "idle") /\ i = job[j].run
        BY <3>2, <3>4
      <4> QED BY <3>1, <4>1
    <3> QED BY <3>3, <3>4
  <2>2. job' \in [Job -> JobState] /\ leader' \in [Kind -> Process \cup {None}]
    BY <1>0, <1>1, <1>7 DEF TypeOK, Crash
  <2> QED BY <1>0, <1>7, <2>1, <2>2, NoPolicyIsNoRules
          DEF TypeOK, Crash, NoRefresh, store, sources
<1>8. ASSUME NEW j \in Job, NEW i \in 1..MaxRuns, Start(j, i) PROVE TypeOK'
  <2>1. [NoJob EXCEPT !.pc = "lead", !.run = i] \in JobState
    <3>1. i \in 0..MaxRuns
      OBVIOUS
    <3> QED BY <1>1, <3>1 DEF JobState
  <2> QED BY <1>0, <1>8, <2>1 DEF TypeOK, Start, store, sources
<1>9. ASSUME NEW j \in Job, Lead(j) PROVE TypeOK'
  <2>1. policy[j[1]] \in SUBSET Rule /\ job[j] \in JobState /\ j[1] \in Process /\ j[2] \in Kind
    <3>1. policy[j[1]] # NoPolicy /\ j[1] \in Process /\ j[2] \in Kind
      BY <1>9 DEF Inv, JobSound, Lead, At, Up, Job
    <3>2. policy[j[1]] \in Policy
      BY <1>0, <3>1 DEF TypeOK
    <3> QED BY <1>0, <3>1, <3>2 DEF TypeOK, Policy
  <2>2. job' \in [Job -> JobState]
    <3>1. [job[j] EXCEPT !.pc = "count", !.rules = policy[j[1]]] \in JobState
      BY <2>1, JobFields DEF JobState
    <3>2. [job[j] EXCEPT !.pc = "record"] \in JobState
      BY <2>1, JobFields DEF JobState
    <3>3. \/ job' = [job EXCEPT ![j] = [job[j] EXCEPT !.pc = "count", !.rules = policy[j[1]]]]
          \/ job' = [job EXCEPT ![j] = [job[j] EXCEPT !.pc = "record"]]
      BY <1>9 DEF Lead
    <3>4. job \in [Job -> JobState]
      BY <1>0 DEF TypeOK
    <3> QED BY <3>1, <3>2, <3>3, <3>4
  <2> QED BY <1>0, <1>9, <2>1, <2>2 DEF TypeOK, Lead, store, sources
<1>10. ASSUME NEW j \in Job, CountTags(j) PROVE TypeOK'
  <2>1. Past(tags, job[j].rules) \subseteq Tag /\ tags \in [Tag -> Entry]
    BY <1>0 DEF Past, TypeOK
  <2>2. job' \in [Job -> JobState]
    <3>1. [job[j] EXCEPT !.pc = "erase", !.counted = tags, !.todo = Past(tags, job[j].rules)] \in JobState
      BY <2>1, JobFields DEF JobState
    <3> QED BY <1>0, <1>10, <3>1 DEF TypeOK, CountTags
  <2> QED BY <1>0, <1>10, <2>2 DEF TypeOK, CountTags, store, sources, record
<1>11. ASSUME NEW j \in Job, NEW t \in Tag, EraseTag(j, t) PROVE TypeOK'
  <2>1. lost' \in [Rule -> SUBSET Tag]
    BY <1>0, <1>11 DEF TypeOK, EraseTag, Lose
  <2>2. job' \in [Job -> JobState]
    <3>1. [job[j] EXCEPT !.todo = job[j].todo \ {t}] \in JobState
      BY JobFields DEF JobState
    <3> QED BY <1>0, <1>11, <3>1 DEF TypeOK, EraseTag
  <2> QED BY <1>0, <1>1, <1>11, <2>1, <2>2 DEF TypeOK, EraseTag, sources, record
<1>12. ASSUME NEW j \in Job, NEW t \in Tag, PassTag(j, t) PROVE TypeOK'
  <2>1. job' \in [Job -> JobState]
    <3>1. [job[j] EXCEPT !.todo = job[j].todo \ {t}] \in JobState
      BY JobFields DEF JobState
    <3> QED BY <1>0, <1>12, <3>1 DEF TypeOK, PassTag
  <2> QED BY <1>0, <1>12, <2>1 DEF TypeOK, PassTag, store, sources, record
<1>13. ASSUME NEW j \in Job, EndWork(j) PROVE TypeOK'
  <2>1. job[j].run \in 0..MaxRuns
    BY <1>0 DEF TypeOK, JobState
  <2>2. [NoJob EXCEPT !.pc = "record", !.run = job[j].run] \in JobState
    BY <1>1, <2>1 DEF JobState, NoJob
  <2> QED BY <1>0, <1>13, <2>2 DEF TypeOK, EndWork, store, sources
<1>14. ASSUME NEW j \in Job, Record(j) PROVE TypeOK'
  <2>1. job[j].run \in 1..MaxRuns
    BY <1>14, JobFields DEF Inv, JobSound, Record, At
  <2> QED BY <1>0, <1>1, <1>14, <2>1, ZenonT(60) DEF TypeOK, Record, store, sources
<1>15. ASSUME NEW k \in Kind, Drop(k) PROVE TypeOK'
  BY <1>0, <1>15 DEF TypeOK, Drop, store, sources
<1>16. CASE UNCHANGED vars
  BY <1>0, <1>16 DEF TypeOK, vars, store, sources, record
<1>17. ASSUME NEW j \in Job, NEW i \in 1..MaxRuns, StartLost(j, i) PROVE TypeOK'
  BY <1>0, <1>17 DEF TypeOK, StartLost, store, sources
<1> QED BY <1>2, <1>3, <1>4, <1>5, <1>6, <1>7, <1>8, <1>9, <1>10, <1>11, <1>12, <1>13, <1>14,
           <1>15, <1>16, <1>17 DEF Next, Serve, Collect, DeleteTag, DeleteDigest

-----------------------------------------------------------------------------
(* The parts of the invariant that are about one thing each. *)

LEMMA SourcesStep ==
  ASSUME Inv, [Next]_vars
  PROVE  SourcesSound' /\ PolicyWhole'
<1>1. TypeOK /\ SourcesSound /\ PolicyWhole
  BY DEF Inv
<1>2. ASSUME NEW r \in Rule, Edit(r) PROVE SourcesSound' /\ PolicyWhole'
  <2>1. /\ \A s \in Source : had'[s] = had[s] \cup {written' \cap Of(s)}
        /\ policy' = policy /\ refresh' = refresh
    BY <1>2 DEF Edit
  <2>2. ASSUME NEW s \in Source PROVE written' \cap Of(s) \in had'[s] /\ had'[s] \subseteq SUBSET Of(s)
    <3>1. had[s] \subseteq SUBSET Of(s) /\ written' \cap Of(s) \subseteq Of(s)
      BY <1>1 DEF SourcesSound
    <3> QED BY <2>1, <3>1
  <2>3. \A s \in Source : had[s] \subseteq had'[s]
    BY <2>1
  <2> QED BY <1>1, <2>1, <2>2, <2>3 DEF PolicyWhole, SourcesSound, Up, Source, Of
<1>3. ASSUME NEW p \in Process, LoadFile(p) PROVE SourcesSound' /\ PolicyWhole'
  <2>1. UNCHANGED <<written, had, policy>>
        /\ refresh' = [refresh EXCEPT ![p] = [pc |-> "file", rules |-> written \cap File]]
    BY <1>3 DEF LoadFile, sources
  <2>2. written \cap File \in had["file"]
    BY <1>1 DEF SourcesSound, Source, Of
  <2>3. \A q \in Process : refresh'[q].pc = "file" => refresh'[q].rules \in had'["file"]
    BY <1>1, <2>1, <2>2 DEF TypeOK, PolicyWhole
  <2> QED BY <1>1, <2>1, <2>3 DEF PolicyWhole, SourcesSound, Up
<1>4. ASSUME NEW p \in Process, Install(p) PROVE SourcesSound' /\ PolicyWhole'
  <2>1. /\ UNCHANGED <<written, had>>
        /\ refresh' = [refresh EXCEPT ![p] = NoRefresh]
        /\ policy' = [policy EXCEPT ![p] = refresh[p].rules \cup (written \cap Database)]
    BY <1>4 DEF Install, sources
  <2>2. /\ refresh[p].rules \in had["file"] /\ had["file"] \subseteq SUBSET File
        /\ written \cap Database \in had["database"]
    BY <1>1, <1>4 DEF Install, PolicyWhole, SourcesSound, Source, Of
  <2>3. /\ (refresh[p].rules \cup (written \cap Database)) \cap File = refresh[p].rules
        /\ (refresh[p].rules \cup (written \cap Database)) \cap Database = written \cap Database
    BY <2>2
  <2>4. \A s \in Source : policy'[p] \cap Of(s) \in had[s]
    BY <1>1, <2>1, <2>2, <2>3, ZenonT(60) DEF TypeOK, Source, Of
  <2>5. \A q \in Process : refresh'[q].pc = "file" => refresh'[q].rules \in had'["file"]
    BY <1>1, <2>1 DEF TypeOK, PolicyWhole, NoRefresh
  <2>6. \A q \in Process : q # p => policy'[q] = policy[q]
    BY <1>1, <2>1 DEF TypeOK
  <2> QED BY <1>1, <2>1, <2>4, <2>5, <2>6 DEF PolicyWhole, SourcesSound, Up
<1>5. ASSUME NEW p \in Process, LoadFail(p) \/ Crash(p) PROVE SourcesSound' /\ PolicyWhole'
  <2>1. /\ UNCHANGED <<written, had>>
        /\ refresh' = [refresh EXCEPT ![p] = NoRefresh]
        /\ policy' = policy \/ policy' = [policy EXCEPT ![p] = NoPolicy]
    BY <1>5 DEF LoadFail, Crash, sources
  <2>2. \A q \in Process : refresh'[q].pc = "file" => refresh'[q].rules \in had'["file"]
    BY <1>1, <2>1 DEF TypeOK, PolicyWhole, NoRefresh
  <2>3. \A q \in Process : policy'[q] = policy[q] \/ policy'[q] = NoPolicy
    BY <1>1, <2>1 DEF TypeOK
  <2> QED BY <1>1, <2>1, <2>2, <2>3 DEF PolicyWhole, SourcesSound, Up
<1>6. ASSUME UNCHANGED <<written, had, policy, refresh>> PROVE SourcesSound' /\ PolicyWhole'
  BY <1>1, <1>6 DEF PolicyWhole, SourcesSound, Up
<1>7. ASSUME NEW p \in Process, Serve(p) PROVE UNCHANGED <<written, had, policy, refresh>>
  BY <1>7 DEF Serve, Come, SetTag, DeleteTag, DeleteDigest, EraseTags, Refuse, sources
<1>8. ASSUME NEW j \in Job, Collect(j) PROVE UNCHANGED <<written, had, policy, refresh>>
  BY <1>8 DEF Collect, Start, StartLost, Lead, CountTags, EraseTag, PassTag, EndWork, Record, sources
<1>9. ASSUME NEW k \in Kind, Drop(k) PROVE UNCHANGED <<written, had, policy, refresh>>
  BY <1>9 DEF Drop, sources
<1>10. CASE UNCHANGED vars
  BY <1>6, <1>10 DEF vars, sources
<1> QED BY <1>2, <1>3, <1>4, <1>5, <1>6, <1>7, <1>8, <1>9, <1>10 DEF Next, Reload

LEMMA TimesStep ==
  ASSUME Inv, [Next]_vars
  PROVE  TimesSound'
<1>1. TypeOK /\ TimesSound /\ now \in Nat
  BY Entries DEF Inv
<1>2. \A t \in Tag : tags[t].moved \in Nat
  BY <1>1, Entries
<1>3. now' \in Nat /\ now <= now'
  <2>1. now' = now \/ now' = now + 1
    BY DEF Next, Edit, Reload, LoadFile, Install, LoadFail, Serve, Come, SetTag, DeleteTag,
         DeleteDigest, EraseTags, Refuse, Crash, Collect, Start, StartLost, Lead, CountTags, EraseTag,
         PassTag, EndWork, Record, Drop, vars, store
  <2> QED BY <1>1, <2>1
<1>4. ASSUME NEW t \in Tag PROVE tags'[t].moved <= now'
  <2>1. tags'[t] = tags[t] \/ tags'[t] = NoTag \/ tags'[t].moved = now'
    <3>1. ASSUME NEW p \in Process, NEW u \in Tag, NEW d \in Digest, SetTag(p, u, d)
          PROVE  tags'[t] = tags[t] \/ tags'[t].moved = now'
      <4>1. tags' = [tags EXCEPT ![u] = [digest |-> d, moved |-> now + 1]] /\ now' = now + 1
        BY <3>1 DEF SetTag
      <4> QED BY <1>1, <4>1 DEF TypeOK
    <3>2. ASSUME NEW p \in Process, NEW us \in SUBSET Tag, EraseTags(p, us)
          PROVE  tags'[t] = tags[t] \/ tags'[t] = NoTag
      BY <3>2 DEF EraseTags
    <3>3. ASSUME NEW j \in Job, NEW u \in Tag, EraseTag(j, u)
          PROVE  tags'[t] = tags[t] \/ tags'[t] = NoTag
      BY <1>1, <3>3 DEF EraseTag, TypeOK
    <3> QED BY <3>1, <3>2, <3>3 DEF Next, Edit, Reload, LoadFile, Install, LoadFail, Serve, Come,
              DeleteTag, DeleteDigest, Refuse, Crash, Collect, Start, StartLost, Lead, CountTags, PassTag,
              EndWork, Record, Drop, vars, store
  <2> QED BY <1>1, <1>2, <1>3, <2>1 DEF TimesSound, NoTag
<1>5. ASSUME NEW j \in Job, NEW t \in Tag PROVE job'[j].counted[t].moved <= now'
  <2>1. job'[j].counted[t] = job[j].counted[t] \/ job'[j].counted[t] = tags[t]
        \/ job'[j].counted[t] = NoTag
    <3>1. job \in [Job -> JobState] /\ NoJob.counted[t] = NoTag
      BY <1>1 DEF TypeOK, NoJob
    <3>2. ASSUME NEW h \in Job, NEW x, job' = [job EXCEPT ![h] = x],
                 x.counted = job[h].counted \/ x.counted = tags \/ x.counted[t] = NoTag
          PROVE  job'[j].counted[t] = job[j].counted[t] \/ job'[j].counted[t] = tags[t]
                 \/ job'[j].counted[t] = NoTag
      BY <3>1, <3>2
    <3>3. ASSUME NEW h \in Job, NEW i, Start(h, i) \/ EndWork(h) \/ Record(h)
          PROVE  \E x : job' = [job EXCEPT ![h] = x] /\ x.counted[t] = NoTag
      <4>1. [NoJob EXCEPT !.pc = "lead", !.run = i].counted[t] = NoTag
            /\ [NoJob EXCEPT !.pc = "record", !.run = job[h].run].counted[t] = NoTag
        BY DEF NoJob
      <4>2. Start(h, i) => job' = [job EXCEPT ![h] = [NoJob EXCEPT !.pc = "lead", !.run = i]]
        BY DEF Start
      <4>3. EndWork(h) => job' = [job EXCEPT ![h] = [NoJob EXCEPT !.pc = "record", !.run = job[h].run]]
        BY DEF EndWork
      <4>4. Record(h) => job' = [job EXCEPT ![h] = NoJob]
        BY DEF Record
      <4> QED BY <3>1, <3>3, <4>1, <4>2, <4>3, <4>4
    <3>4. ASSUME NEW h \in Job, NEW u, Lead(h) \/ EraseTag(h, u) \/ PassTag(h, u) \/ CountTags(h)
          PROVE  \E x : job' = [job EXCEPT ![h] = x] /\ (x.counted = job[h].counted \/ x.counted = tags)
      <4>1. job[h] \in JobState
        BY <3>1
      <4>2. ASSUME Lead(h) PROVE \E x : job' = [job EXCEPT ![h] = x] /\ x.counted = job[h].counted
        <5>1. /\ [job[h] EXCEPT !.pc = "count", !.rules = policy[h[1]]].counted = job[h].counted
              /\ [job[h] EXCEPT !.pc = "record"].counted = job[h].counted
          BY <4>1 DEF JobState
        <5> QED BY <4>2, <5>1 DEF Lead
      <4>3. ASSUME EraseTag(h, u) \/ PassTag(h, u)
            PROVE  \E x : job' = [job EXCEPT ![h] = x] /\ x.counted = job[h].counted
        <5>1. [job[h] EXCEPT !.todo = job[h].todo \ {u}].counted = job[h].counted
          BY <4>1 DEF JobState
        <5> QED BY <4>3, <5>1 DEF EraseTag, PassTag
      <4>4. ASSUME CountTags(h) PROVE \E x : job' = [job EXCEPT ![h] = x] /\ x.counted = tags
        <5>1. [job[h] EXCEPT !.pc = "erase", !.counted = tags,
                 !.todo = Past(tags, job[h].rules)].counted = tags
          BY <4>1 DEF JobState
        <5> QED BY <4>4, <5>1 DEF CountTags
      <4> QED BY <3>4, <4>2, <4>3, <4>4
    <3>5. ASSUME NEW p \in Process, Crash(p)
          PROVE  job'[j].counted[t] = job[j].counted[t] \/ job'[j].counted[t] = NoTag
      BY <3>1, <3>5 DEF Crash
    <3>6. \/ \E h \in Job, i \in 1..MaxRuns : Start(h, i) \/ EndWork(h) \/ Record(h)
          \/ \E h \in Job, u \in Tag : Lead(h) \/ EraseTag(h, u) \/ PassTag(h, u) \/ CountTags(h)
          \/ \E h \in Job : Lead(h) \/ CountTags(h) \/ EndWork(h) \/ Record(h)
          \/ \E p \in Process : Crash(p)
          \/ UNCHANGED job
      BY DEF Next, Edit, Reload, LoadFile, Install, LoadFail, Serve, Come, SetTag, DeleteTag,
           DeleteDigest, EraseTags, Refuse, Collect, StartLost, Drop, vars
    <3> QED BY <3>2, <3>3, <3>4, <3>5, <3>6
  <2>2. job[j].counted[t].moved <= now /\ job[j].counted[t].moved \in Nat
    BY <1>1, Entries DEF TimesSound
  <2> QED BY <1>1, <1>2, <1>3, <2>1, <2>2 DEF TimesSound, NoTag
<1> QED BY <1>4, <1>5 DEF TimesSound

LEMMA LostStep ==
  ASSUME Inv, [Next]_vars
  PROVE  \A r \in Rule : lost'[r] \subseteq Over[r]
<1>1. lost \in [Rule -> SUBSET Tag] /\ \A r \in Rule : lost[r] \subseteq Over[r]
  BY DEF Inv, TypeOK
<1>2. ASSUME NEW ts \in SUBSET Tag, NEW rules, Lose(ts, rules)
      PROVE  \A r \in Rule : lost'[r] \subseteq Over[r]
  BY <1>1, <1>2 DEF Lose
<1>3. ASSUME NEW p \in Process, Serve(p) PROVE \A r \in Rule : lost'[r] \subseteq Over[r]
  <2>1. UNCHANGED lost \/ \E ts \in SUBSET Tag : Lose(ts, {})
    BY <1>3 DEF Serve, Come, SetTag, DeleteTag, DeleteDigest, EraseTags, Refuse
  <2> QED BY <1>1, <1>2, <2>1
<1>4. ASSUME NEW j \in Job, Collect(j) PROVE \A r \in Rule : lost'[r] \subseteq Over[r]
  <2>1. CASE CountTags(j)
    BY <1>1, <2>1 DEF CountTags
  <2>2. ASSUME NEW t \in Tag, EraseTag(j, t) PROVE \A r \in Rule : lost'[r] \subseteq Over[r]
    BY <1>2, <2>2 DEF EraseTag
  <2> QED BY <1>1, <1>4, <2>1, <2>2 DEF Collect, Start, StartLost, Lead, PassTag, EndWork, Record
<1> QED BY <1>1, <1>3, <1>4 DEF Next, Edit, Reload, LoadFile, Install, LoadFail, Crash, Drop, vars

LEMMA RunsStep ==
  ASSUME Inv, [Next]_vars
  PROVE  RunsTrue'
<1>1. /\ job \in [Job -> JobState] /\ runs \in [1..MaxRuns -> {"none", "running", "ended"}]
      /\ RunsTrue /\ NoJob.run = 0
  BY DEF Inv, TypeOK, NoJob
<1>2. \A h \in Job : job[h] \in JobState /\ (job[h].run = 0 <=> job[h].pc = "idle")
  BY DEF Inv, TypeOK, JobSound, At
<1>3. ASSUME UNCHANGED <<runs, broken>>, \A h \in Job : job'[h].run = job[h].run
      PROVE  RunsTrue'
  <2>1. ASSUME NEW i \in 1..MaxRuns, runs[i] = "running", i \notin broken
        PROVE  \E h \in Job : job'[h].run = i
    <3>1. PICK h \in Job : job[h].run = i
      BY <1>1, <2>1 DEF RunsTrue
    <3> QED BY <1>3, <3>1
  <2>2. ASSUME NEW i \in 1..MaxRuns, NEW h \in Job, job'[h].run = i PROVE job[h].run = i
    BY <1>3, <2>2
  <2> QED BY <1>1, <1>3, <2>1, <2>2 DEF RunsTrue
<1>4. ASSUME NEW j \in Job, NEW x, job' = [job EXCEPT ![j] = x], x.run = job[j].run
      PROVE  \A h \in Job : job'[h].run = job[h].run
  BY <1>1, <1>4
<1>5. ASSUME NEW j \in Job, NEW i \in 1..MaxRuns, Start(j, i) PROVE RunsTrue'
  <2>1. /\ job' = [job EXCEPT ![j] = [NoJob EXCEPT !.pc = "lead", !.run = i]]
        /\ runs' = [runs EXCEPT ![i] = "running"] /\ runs[i] = "none" /\ broken' = broken
        /\ job[j].run = 0
    BY <1>2, <1>5 DEF Start, At
  <2>2. [NoJob EXCEPT !.pc = "lead", !.run = i].run = i
    BY DEF NoJob
  <2>3. /\ job'[j].run = i
        /\ \A h \in Job : h # j => job'[h].run = job[h].run
    BY <1>1, <2>1, <2>2
  <2>4. \A h \in Job : job[h].run # i
    BY <1>1, <2>1 DEF RunsTrue
  <2>5. /\ runs'[i] = "running"
        /\ \A g \in 1..MaxRuns : g # i => runs'[g] = runs[g] /\ g # 0
    BY <1>1, <2>1
  <2> QED BY <1>1, <2>1, <2>3, <2>4, <2>5 DEF RunsTrue
<1>6. ASSUME NEW j \in Job, Lead(j) PROVE RunsTrue'
  <2>1. /\ [job[j] EXCEPT !.pc = "count", !.rules = policy[j[1]]].run = job[j].run
        /\ [job[j] EXCEPT !.pc = "record"].run = job[j].run
    BY <1>2 DEF JobState
  <2>2. \A h \in Job : job'[h].run = job[h].run
    BY <1>4, <1>6, <2>1 DEF Lead
  <2> QED BY <1>3, <1>6, <2>2 DEF Lead
<1>7. ASSUME NEW j \in Job, CountTags(j) PROVE RunsTrue'
  <2>1. [job[j] EXCEPT !.pc = "erase", !.counted = tags, !.todo = Past(tags, job[j].rules)].run
        = job[j].run
    BY <1>2 DEF JobState
  <2>2. \A h \in Job : job'[h].run = job[h].run
    BY <1>4, <1>7, <2>1 DEF CountTags
  <2> QED BY <1>3, <1>7, <2>2 DEF CountTags, record
<1>8. ASSUME NEW j \in Job, NEW t \in Tag, EraseTag(j, t) \/ PassTag(j, t) PROVE RunsTrue'
  <2>1. [job[j] EXCEPT !.todo = job[j].todo \ {t}].run = job[j].run
    BY <1>2 DEF JobState
  <2>2. \A h \in Job : job'[h].run = job[h].run
    BY <1>4, <1>8, <2>1 DEF EraseTag, PassTag
  <2> QED BY <1>3, <1>8, <2>2 DEF EraseTag, PassTag, record
<1>9. ASSUME NEW j \in Job, EndWork(j) PROVE RunsTrue'
  <2>1. [NoJob EXCEPT !.pc = "record", !.run = job[j].run].run = job[j].run
    BY DEF NoJob
  <2>2. \A h \in Job : job'[h].run = job[h].run
    BY <1>4, <1>9, <2>1 DEF EndWork
  <2> QED BY <1>3, <1>9, <2>2 DEF EndWork
<1>10. ASSUME NEW j \in Job, Record(j) PROVE RunsTrue'
  <2>1. /\ job' = [job EXCEPT ![j] = NoJob]
        /\ \/ runs' = [runs EXCEPT ![job[j].run] = "ended"] /\ broken' = broken
           \/ runs' = runs /\ broken' = broken \cup {job[j].run}
        /\ job[j].run # 0
    BY <1>2, <1>10 DEF Record, At
  <2>2. /\ job'[j].run = 0
        /\ \A h \in Job : h # j => job'[h].run = job[h].run
    BY <1>1, <2>1
  <2>3. \A g \in 1..MaxRuns : g # job[j].run => runs'[g] = runs[g] /\ (g \in broken' <=> g \in broken)
    BY <1>1, <2>1
  <2>4. \A g \in 1..MaxRuns : g # 0
    OBVIOUS
  <2>5. \A h \in Job : h # j => job[h].run # job[j].run
    BY <1>2, <2>1, JobFields, <1>1 DEF RunsTrue
  <2>6. job[j].run \in 1..MaxRuns
    BY <2>1, JobFields
  <2>7. runs'[job[j].run] = "ended" \/ job[j].run \in broken'
    BY <1>1, <2>1, <2>6
  <2>8. ASSUME NEW g \in 1..MaxRuns, runs'[g] = "running", g \notin broken'
        PROVE  \E h \in Job : job'[h].run = g
    <3>1. g # job[j].run
      BY <2>7, <2>8
    <3>2. PICK h \in Job : job[h].run = g
      BY <1>1, <2>3, <2>8, <3>1 DEF RunsTrue
    <3> QED BY <2>2, <3>1, <3>2
  <2>9. ASSUME NEW g \in 1..MaxRuns, NEW h \in Job, job'[h].run = g
        PROVE  h # j /\ job[h].run = g /\ g # job[j].run /\ runs'[g] = "running"
    <3>1. h # j /\ job[h].run = g
      BY <2>2, <2>4, <2>9
    <3> QED BY <1>1, <2>3, <2>5, <3>1 DEF RunsTrue
  <2> QED BY <1>1, <2>8, <2>9 DEF RunsTrue
<1>11. ASSUME NEW p \in Process, Crash(p) PROVE RunsTrue'
  <2>1. /\ \A h \in Job : job'[h].run = IF h[1] = p THEN 0 ELSE job[h].run
        /\ broken' = broken \cup {job[j].run : j \in {h \in Job : h[1] = p /\ ~At(h, "idle")}}
        /\ runs' = runs
    BY <1>1, <1>11 DEF Crash
  <2>2. ASSUME NEW g \in 1..MaxRuns, runs[g] = "running", g \notin broken'
        PROVE  \E h \in Job : job'[h].run = g
    <3>1. PICK h \in Job : job[h].run = g
      BY <1>1, <2>1, <2>2 DEF RunsTrue
    <3>2. ~At(h, "idle")
      BY <1>2, <3>1 DEF At
    <3> QED BY <2>1, <2>2, <3>1, <3>2
  <2>3. \A g \in 1..MaxRuns, h \in Job : job'[h].run = g => job[h].run = g
    BY <2>1
  <2> QED BY <1>1, <2>1, <2>2, <2>3 DEF RunsTrue
<1>12. ASSUME UNCHANGED <<runs, broken, job>> PROVE RunsTrue'
  BY <1>3, <1>12
<1>13. ASSUME NEW j \in Job, NEW i \in 1..MaxRuns, StartLost(j, i) PROVE RunsTrue'
  <2>1. /\ runs' = [runs EXCEPT ![i] = "running"] /\ runs[i] = "none"
        /\ broken' = broken \cup {i} /\ job' = job
    BY <1>13 DEF StartLost
  <2>2. /\ runs'[i] = "running"
        /\ \A g \in 1..MaxRuns : g # i => runs'[g] = runs[g]
    BY <1>1, <2>1
  <2>3. \A h \in Job : job[h].run # i
    BY <1>1, <2>1 DEF RunsTrue
  <2> QED BY <1>1, <2>1, <2>2, <2>3 DEF RunsTrue
<1> QED BY <1>5, <1>6, <1>7, <1>8, <1>9, <1>10, <1>11, <1>12, <1>13 DEF Next, Edit, Reload, LoadFile,
          Install, LoadFail, Serve, Come, SetTag, DeleteTag, DeleteDigest, EraseTags, Refuse,
          Collect, Drop, vars, record

-----------------------------------------------------------------------------
(* Every collection stays sound, whoever takes the step. *)

(* One with nothing to erase is. *)
LEMMA NothingToErase ==
  ASSUME NEW j \in Job, job'[j].todo = {}, job'[j].run = 0 <=> job'[j].pc = "idle",
         job'[j].pc # "idle" => Up(j[1])'
  PROVE  JobSound(j)'
BY DEF JobSound, At, Up

LEMMA JobsStep ==
  ASSUME Inv, [Next]_vars, TypeOK'
  PROVE  \A j \in Job : JobSound(j)'
<1> SUFFICES ASSUME NEW j \in Job PROVE JobSound(j)'
  OBVIOUS
<1>1. /\ job \in [Job -> JobState] /\ JobSound(j) /\ job[j] \in JobState
      /\ NoJob.run = 0 /\ NoJob.pc = "idle" /\ NoJob.todo = {}
  BY DEF Inv, TypeOK, NoJob
<1>2. ASSUME job'[j] = job[j], policy' = policy,
             \/ \E p \in Process, u \in Tag, d \in Digest : SetTag(p, u, d)
             \/ \E p \in Process, us \in SUBSET Tag : EraseTags(p, us)
             \/ \E h \in Job, u \in Tag : EraseTag(h, u)
             \/ \E h \in Job : CountTags(h)
             \/ UNCHANGED <<store, lost>>
      PROVE  JobSound(j)'
  BY <1>1, <1>2, TodoStep DEF JobSound, Up
<1>3. ASSUME NEW p \in Process, Serve(p) PROVE JobSound(j)'
  <2>1. CASE Come(p) \/ Refuse(p)
    BY <1>2, <2>1 DEF Come, Refuse
  <2>2. ASSUME NEW t \in Tag, NEW d \in Digest, SetTag(p, t, d) PROVE JobSound(j)'
    BY <1>2, <2>2 DEF SetTag
  <2>3. ASSUME NEW ts \in SUBSET Tag, EraseTags(p, ts) PROVE JobSound(j)'
    BY <1>2, <2>3 DEF EraseTags
  <2> QED BY <1>3, <2>1, <2>2, <2>3 DEF Serve, DeleteTag, DeleteDigest
<1>4. ASSUME NEW p \in Process, Install(p) PROVE JobSound(j)'
  <2>1. Up(j[1])' \/ At(j, "idle")
    <3>1. /\ policy' = [policy EXCEPT ![p] = refresh[p].rules \cup (written \cap Database)]
          /\ policy \in [Process -> Policy] /\ refresh[p].rules \in SUBSET Rule
          /\ written \in SUBSET Rule
      BY <1>4 DEF Install, Inv, TypeOK
    <3>2. refresh[p].rules \cup (written \cap Database) # NoPolicy
      BY <3>1, NoPolicyIsNoRules
    <3>3. j[1] \in Process
      BY DEF Job
    <3> QED BY <1>1, <3>1, <3>2, <3>3 DEF JobSound, Up
  <2> QED BY <1>1, <1>4, <2>1, TodoStep DEF Install
<1>5. ASSUME NEW p \in Process, Crash(p) PROVE JobSound(j)'
  <2>1. /\ job'[j] = IF j[1] = p THEN NoJob ELSE job[j]
        /\ UNCHANGED <<store, lost>>
        /\ policy' = [policy EXCEPT ![p] = NoPolicy]
    BY <1>5 DEF Crash
  <2>2. CASE j[1] = p
    BY <1>1, <2>1, <2>2, NothingToErase
  <2>3. CASE j[1] # p
    <3>1. Up(j[1])' \/ At(j, "idle")
      BY <1>1, <2>1, <2>3 DEF JobSound, Up, Inv, TypeOK
    <3> QED BY <2>1, <2>3, <3>1, TodoStep
  <2> QED BY <2>2, <2>3
<1>6. ASSUME NEW h \in Job, Collect(h), j # h PROVE JobSound(j)'
  <2>1. job'[j] = job[j] /\ policy' = policy
    BY <1>1, <1>6 DEF Collect, Start, StartLost, Lead, CountTags, EraseTag, PassTag, EndWork, Record
  <2>2. \/ \E u \in Tag : EraseTag(h, u)
        \/ CountTags(h)
        \/ UNCHANGED <<store, lost>>
    BY <1>6 DEF Collect, Start, StartLost, Lead, PassTag, EndWork, Record
  <2> QED BY <1>2, <2>1, <2>2
<1>7. ASSUME NEW i \in 1..MaxRuns, Start(j, i) PROVE JobSound(j)'
  <2>1. /\ job'[j] = [NoJob EXCEPT !.pc = "lead", !.run = i] /\ policy' = policy /\ Up(j[1])
    BY <1>1, <1>7 DEF Start
  <2>2. job'[j].todo = {} /\ job'[j].run # 0 /\ job'[j].pc = "lead"
    BY <2>1 DEF NoJob
  <2> QED BY <2>1, <2>2, NothingToErase DEF Up
<1>8. ASSUME Lead(j) PROVE JobSound(j)'
  <2>1. /\ \/ job'[j] = [job[j] EXCEPT !.pc = "count", !.rules = policy[j[1]]]
           \/ job'[j] = [job[j] EXCEPT !.pc = "record"]
        /\ policy' = policy /\ Up(j[1]) /\ job[j].todo = {} /\ job[j].run # 0
    BY <1>1, <1>8 DEF Lead, JobSound, At
  <2>2. job'[j].todo = {} /\ job'[j].run # 0 /\ job'[j].pc # "idle"
    BY <1>1, <2>1 DEF JobState
  <2> QED BY <2>1, <2>2, NothingToErase DEF Up
<1>9. ASSUME CountTags(j) PROVE JobSound(j)'
  <2>1. /\ job'[j] = [job[j] EXCEPT !.pc = "erase", !.counted = tags,
                        !.todo = Past(tags, job[j].rules)]
        /\ tags' = tags /\ policy' = policy /\ Up(j[1]) /\ job[j].run # 0
    BY <1>1, <1>9 DEF CountTags, store, JobSound, At
  <2>2. /\ job'[j].pc = "erase" /\ job'[j].counted = tags /\ job'[j].run = job[j].run
        /\ job'[j].rules = job[j].rules /\ job'[j].todo = Past(tags, job[j].rules)
    BY <1>1, <2>1 DEF JobState
  <2>3. ASSUME NEW t \in job'[j].todo, NEW r \in job'[j].rules, Retains(r), t \in Over[r]
        PROVE  Behind(r, t)'
    <3>1. Cardinality(Newer(tags, r, t)) >= Count[r] /\ r \in Rule
      BY <2>2, <2>3, <1>1 DEF Past, JobState
    <3>2. /\ Newer(tags, r, t) \subseteq (Newer(tags, r, t) \cup Gone(r))'
          /\ Newer(tags, r, t) \in SUBSET Tag /\ Count[r] \in Nat
      BY <2>1, <3>1 DEF Newer
    <3>3. (Newer(tags, r, t) \cup Gone(r))' \in SUBSET Tag
      BY <2>1, <3>1 DEF TypeOK, Newer, Gone
    <3>4. Cardinality(Newer(tags', r, t) \cup Gone(r)') >= Count[r]
      BY <3>1, <3>2, <3>3, MoreBehind
    <3> QED BY <3>4 DEF Behind
  <2>4. \A t \in job'[j].todo : job'[j].counted[t] # NoTag /\ Allows(job'[j].rules, TRUE, t, "delete")
    BY <2>2 DEF Past
  <2> QED BY <2>1, <2>2, <2>3, <2>4 DEF JobSound, At, Up, Retains
<1>10. ASSUME NEW t \in Tag, EraseTag(j, t) \/ PassTag(j, t) PROVE JobSound(j)'
  <2>1. /\ job'[j] = [job[j] EXCEPT !.todo = job[j].todo \ {t}] /\ policy' = policy
        /\ EraseTag(j, t) \/ UNCHANGED <<store, lost>>
    BY <1>1, <1>10 DEF EraseTag, PassTag
  <2>2. /\ job'[j].rules = job[j].rules /\ job'[j].pc = job[j].pc
        /\ job'[j].counted = job[j].counted /\ job'[j].todo \subseteq job[j].todo
        /\ job'[j].run = job[j].run
    BY <1>1, <2>1 DEF JobState
  <2>3. Up(j[1])' \/ At(j, "idle")
    BY <1>1, <2>1 DEF JobSound, Up
  <2> QED BY <2>1, <2>2, <2>3, TodoStep
<1>11. ASSUME EndWork(j) PROVE JobSound(j)'
  <2>1. /\ job'[j] = [NoJob EXCEPT !.pc = "record", !.run = job[j].run]
        /\ policy' = policy /\ Up(j[1]) /\ job[j].run # 0
    BY <1>1, <1>11 DEF EndWork, JobSound, At
  <2>2. job'[j].todo = {} /\ job'[j].run # 0 /\ job'[j].pc = "record"
    BY <2>1 DEF NoJob
  <2> QED BY <2>1, <2>2, NothingToErase DEF Up
<1>12. ASSUME Record(j) PROVE JobSound(j)'
  <2>1. job'[j] = NoJob
    BY <1>1, <1>12 DEF Record
  <2> QED BY <1>1, <2>1, NothingToErase
<1>13. ASSUME UNCHANGED <<job, policy, store, lost>> PROVE JobSound(j)'
  BY <1>2, <1>13
<1> QED BY <1>3, <1>4, <1>5, <1>6, <1>7, <1>8, <1>9, <1>10, <1>11, <1>12, <1>13 DEF Next, Edit,
          Reload, LoadFile, LoadFail, Collect, StartLost, Drop, vars

LEMMA StepSound == Inv /\ [Next]_vars => Inv'
<1> SUFFICES ASSUME Inv, [Next]_vars PROVE Inv'
  OBVIOUS
<1> QED BY TypeStep, SourcesStep, TimesStep, LostStep, RunsStep, JobsStep DEF Inv

-----------------------------------------------------------------------------
(* Whatever the rules, the tags and the requests, and however collections   *)
(* overlap, lose their locks or die: policies are whole, runs are true, and *)
(* what a collection may erase has its rules' count ahead of it.            *)
THEOREM Soundness == Spec => []Inv
<1> QED BY InitSound, StepSound, PTL DEF Spec

(* A process never enforces part of a source (auth/policy.go:700).          *)
THEOREM PoliciesAreWhole == Spec => []PolicyWhole
<1>1. Inv => PolicyWhole
  BY DEF Inv
<1> QED BY <1>1, Soundness, PTL

(* What is recorded as running runs (gc/gc.go:196, gc/runs.go:32).          *)
THEOREM RunsAreTrue == Spec => []RunsTrue
<1>1. Inv => RunsTrue
  BY DEF Inv
<1> QED BY <1>1, Soundness, PTL

(* No step of a collection erases one of the newest tags of its rules       *)
(* (gc/gc.go:348-411).                                                      *)
THEOREM NewestAreKept == Spec => KeepsNewest
<1> DEFINE Keeps == \A j \in Job, t \in Tag :
                      t \in job[j].todo /\ Here(t) /\ tags'[t] = NoTag /\ t \notin job'[j].todo
                      => \A r \in job[j].rules : Retains(r) /\ t \in Over[r] => Behind(r, t)
<1>1. Inv /\ [Next]_vars => [Keeps]_vars
  <2> SUFFICES ASSUME Inv, Next, NEW j \in Job, NEW t \in Tag, t \in job[j].todo, Here(t),
                      tags'[t] = NoTag, t \notin job'[j].todo,
                      NEW r \in job[j].rules, Retains(r), t \in Over[r]
               PROVE  Behind(r, t)
    OBVIOUS
  <2>1. /\ job \in [Job -> JobState] /\ JobSound(j) /\ job[j] \in JobState
        /\ tags[t] # NoTag /\ job'[j] # job[j]
    BY DEF Inv, TypeOK, Here
  <2>2. ASSUME UNCHANGED tags PROVE FALSE
    BY <2>1, <2>2
  <2>3. ASSUME NEW p \in Process, Serve(p) PROVE FALSE
    BY <2>1, <2>3 DEF Serve, Come, SetTag, DeleteTag, DeleteDigest, EraseTags, Refuse
  <2>4. ASSUME NEW h \in Job, NEW u \in Tag, EraseTag(h, u) PROVE Behind(r, t)
    <3>1. h = j
      BY <2>1, <2>4 DEF EraseTag
    <3>2. u = t
      BY <2>1, <2>4 DEF EraseTag, Inv, TypeOK
    <3> QED BY <2>1, <2>4, <3>1, <3>2 DEF EraseTag, JobSound
  <2> QED BY <2>2, <2>3, <2>4 DEF Next, Edit, Reload, LoadFile, Install, LoadFail, Crash, Collect,
            Start, StartLost, Lead, CountTags, PassTag, EndWork, Record, Drop, store
<1> QED BY <1>1, Soundness, PTL DEF Spec, KeepsNewest

(* A tag under an immutable rule that everybody goes by stays what it is    *)
(* (auth/policy.go:608-642, gc/gc.go:384).                                  *)
THEOREM ImmutablesStay == Spec => ImmutableStays
<1> DEFINE Stays == \A r \in Rule, t \in Tag :
                      InForce(r) /\ KindOf[r] = "immutable" /\ t \in Over[r] /\ Here(t)
                      => tags'[t] = tags[t]
<1>1. Inv /\ [Next]_vars => [Stays]_vars
  <2> SUFFICES ASSUME Inv, Next, NEW r \in Rule, NEW t \in Tag, InForce(r),
                      KindOf[r] = "immutable", t \in Over[r], Here(t)
               PROVE  tags'[t] = tags[t]
    OBVIOUS
  <2>1. ASSUME NEW rules, r \in rules, NEW admin, NEW op, Allows(rules, admin, t, op)
        PROVE  op = "create"
    BY <2>1 DEF Allows
  <2>2. tags \in [Tag -> Entry]
    BY DEF Inv, TypeOK
  <2>3. ASSUME NEW p \in Process, NEW u \in Tag, NEW d \in Digest, SetTag(p, u, d)
        PROVE  tags'[t] = tags[t]
    <3>1. ASSUME u = t PROVE FALSE
      <4>1. r \in request[p] /\ Allows(request[p], TRUE, t, "move")
        BY <2>3, <3>1 DEF SetTag, MayWrite, InForce
      <4> QED BY <2>1, <4>1
    <3> QED BY <2>2, <2>3, <3>1 DEF SetTag
  <2>4. ASSUME NEW p \in Process, NEW ts \in SUBSET Tag, EraseTags(p, ts)
        PROVE  tags'[t] = tags[t]
    <3>1. t \notin ts
      BY <2>1, <2>4 DEF EraseTags, MayWrite, InForce
    <3> QED BY <2>2, <2>4, <3>1 DEF EraseTags
  <2>5. ASSUME NEW j \in Job, NEW u \in Tag, EraseTag(j, u) PROVE tags'[t] = tags[t]
    <3>1. ASSUME u = t PROVE FALSE
      <4>1. r \in job[j].rules /\ Allows(job[j].rules, TRUE, t, "delete")
        BY <2>5, <3>1 DEF EraseTag, InForce, Inv, JobSound
      <4> QED BY <2>1, <4>1
    <3> QED BY <2>2, <2>5, <3>1 DEF EraseTag
  <2>6. UNCHANGED tags => tags'[t] = tags[t]
    OBVIOUS
  <2> QED BY <2>3, <2>4, <2>5, <2>6 DEF Next, Edit, Reload, LoadFile, Install, LoadFail, Serve,
            Come, DeleteTag, DeleteDigest, Refuse, Crash, Collect, Start, StartLost, Lead, CountTags,
            PassTag, EndWork, Record, Drop, store
<1> QED BY <1>1, Soundness, PTL DEF Spec, ImmutableStays

=============================================================================
