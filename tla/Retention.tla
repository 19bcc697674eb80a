----------------------------- MODULE Retention -----------------------------
(***************************************************************************)
(* The tags of one repository under tag rules: requests that set and       *)
(* delete them (registry/manifests.go), collections that count and delete  *)
(* those past a retention rule (gc/gc.go), and the policy both go by       *)
(* (auth/policy.go), which each process reloads from its sources.          *)
(*                                                                         *)
(* Rules change at their sources while a process still enforces what it    *)
(* loaded, a request what was in force when it came, and a collection what *)
(* was when it began.  Collections are recorded (gc/runs.go), and one of a *)
(* kind runs at a time (index/entindex/lock.go) unless the connection that *)
(* holds its lock is lost.                                                 *)
(***************************************************************************)
EXTENDS Naturals, FiniteSets

CONSTANTS
  Process,
  Tag, Digest,
  Rule,          \* tag rules
  KindOf,        \* [Rule -> {"immutable", "protected", "pattern", "retention"}]
  Over,          \* [Rule -> SUBSET Tag], the tags a rule covers
  Matching,      \* [Rule -> SUBSET Tag], those a pattern rule's pattern matches
  Count,         \* [Rule -> Nat], how many a retention rule keeps
  File, Database,\* the rules either source may have
  Initial,       \* those there are at first
  Seed,          \* the tags there are at first
  Begun,         \* the time they were last written at
  None,
  MaxTime,       \* bounds the writes of tags
  MaxRuns,       \* bounds the collections
  MaxEdits,      \* bounds the changes of rules
  MaxFaults      \* bounds crashes and lost connections

Source == {"file", "database"}
Kind   == {"online", "full"}
Job    == Process \X Kind

(* Where a rule is written. *)
Of(s) == IF s = "file" THEN File ELSE Database

NoTag == [digest |-> None, moved |-> 0]

ASSUME RetentionAssumption ==
  /\ IsFiniteSet(Tag)
  /\ None \notin Process \cup Rule \cup Digest
  /\ KindOf \in [Rule -> {"immutable", "protected", "pattern", "retention"}]
  /\ Over \in [Rule -> SUBSET Tag]
  /\ Matching \in [Rule -> SUBSET Tag]
  /\ Count \in [Rule -> Nat]
  /\ Rule = File \cup Database
  /\ File \cap Database = {}
  /\ Initial \subseteq Rule
  /\ Begun \in 0..MaxTime
  /\ Seed \in [Tag -> [digest : Digest, moved : 1..Begun] \cup {NoTag}]
  /\ {MaxTime, MaxRuns, MaxEdits, MaxFaults} \subseteq Nat

VARIABLES
  now,       \* the time of the last write of a tag: each has its own
  tags,      \* what a tag points at, and since when; NoTag is not here
  written,   \* the rules at their sources
  edits,
  policy,    \* the policy in force in a process; NoPolicy is a process that is down
  refresh,   \* a reload of it, with what it has loaded so far
  request,   \* the policy a request was let in by; NoPolicy is no request
  job,       \* a collection, with its locals
  leader,    \* which process holds the lock of a kind of collection
  runs,      \* what is recorded of a run
  had,       \* history: the rules each source has had
  faults,
  lost,      \* history: tags of a rule erased otherwise than by it, in a collection
  broken     \* history: runs whose record a crash or a failure left as it was

sources == <<written, edits, had>>
store   == <<now, tags>>
record  == <<leader, runs, broken, faults>>
vars    == <<store, sources, policy, refresh, request, job, record, lost>>

NoPolicy  == {None}
NoRefresh == [pc |-> "idle", rules |-> {}]
NoJob     == [pc |-> "idle", rules |-> {}, counted |-> [t \in Tag |-> NoTag], todo |-> {},
              run |-> 0]

Policy == (SUBSET Rule) \cup {NoPolicy}
Entry  == [digest : Digest \cup {None}, moved : 0..MaxTime]
JobState ==
  [pc : {"idle", "lead", "count", "erase", "record"}, rules : SUBSET Rule,
   counted : [Tag -> Entry], todo : SUBSET Tag, run : 0..MaxRuns]

TypeOK ==
  /\ now \in 0..MaxTime
  /\ tags \in [Tag -> Entry]
  /\ written \subseteq Rule
  /\ edits \in 0..MaxEdits
  /\ policy \in [Process -> Policy]
  /\ refresh \in [Process -> [pc : {"idle", "file"}, rules : SUBSET Rule]]
  /\ request \in [Process -> Policy]
  /\ job \in [Job -> JobState]
  /\ leader \in [Kind -> Process \cup {None}]
  /\ runs \in [1..MaxRuns -> {"none", "running", "ended"}]
  /\ had \in [Source -> SUBSET SUBSET Rule]
  /\ faults \in 0..MaxFaults
  /\ lost \in [Rule -> SUBSET Tag]
  /\ broken \subseteq 1..MaxRuns

Init ==
  /\ now = Begun
  /\ tags = Seed
  /\ written = Initial
  /\ edits = 0
  /\ policy = [p \in Process |-> Initial]
  /\ refresh = [p \in Process |-> NoRefresh]
  /\ request = [p \in Process |-> NoPolicy]
  /\ job = [j \in Job |-> NoJob]
  /\ leader = [k \in Kind |-> None]
  /\ runs = [i \in 1..MaxRuns |-> "none"]
  /\ had = [s \in Source |-> {Initial \cap Of(s)}]
  /\ faults = 0
  /\ lost = [r \in Rule |-> {}]
  /\ broken = {}

Here(t) == tags[t] # NoTag
Up(p)   == policy[p] # NoPolicy

-----------------------------------------------------------------------------
(* The policy: its sources change, and a process loads one, and then the    *)
(* other and puts in force what both say.                                   *)

Edit(r) ==
  /\ edits < MaxEdits
  /\ edits' = edits + 1
  /\ written' = IF r \in written THEN written \ {r} ELSE written \cup {r}
  /\ had' = [s \in Source |-> had[s] \cup {written' \cap Of(s)}]
  /\ UNCHANGED <<store, policy, refresh, request, job, record, lost>>

LoadFile(p) ==
  /\ refresh[p].pc = "idle"
  /\ refresh' = [refresh EXCEPT ![p] = [pc |-> "file", rules |-> written \cap File]]
  /\ UNCHANGED <<store, sources, policy, request, job, record, lost>>

Install(p) ==
  /\ refresh[p].pc = "file"
  /\ policy' = [policy EXCEPT ![p] = refresh[p].rules \cup (written \cap Database)]
  /\ refresh' = [refresh EXCEPT ![p] = NoRefresh]
  /\ UNCHANGED <<store, sources, request, job, record, lost>>

(* The second source cannot be loaded: the policy in force stays in force.  *)
(* When the first cannot, nothing has happened.                             *)
LoadFailInForce(p) ==
  /\ refresh[p].pc = "file"
  /\ refresh' = [refresh EXCEPT ![p] = NoRefresh]
  /\ policy' = [policy EXCEPT ![p] = refresh[p].rules]
  /\ UNCHANGED <<store, sources, request, job, record, lost>>
LoadFail(p) ==
  /\ refresh[p].pc = "file"
  /\ refresh' = [refresh EXCEPT ![p] = NoRefresh]
  /\ UNCHANGED <<store, sources, policy, request, job, record, lost>>

-----------------------------------------------------------------------------
(* Tag rules. *)

(* Policy.CheckTag. *)
Allows(rules, admin, t, op) ==
  \A r \in rules :
    t \in Over[r] =>
      CASE KindOf[r] = "immutable" -> op = "create"
        [] KindOf[r] = "protected" -> op = "create" \/ admin
        [] KindOf[r] = "pattern"   -> op = "delete" \/ t \in Matching[r]
        [] OTHER                   -> TRUE

Retains(r) == KindOf[r] = "retention"

Newer(entries, r, t) == {u \in Over[r] : entries[u].moved > entries[t].moved}

(* Collector.retention: past the count of every retention rule over it, of  *)
(* which there is one, and no rule keeps it from being deleted.             *)
PastImmutable(entries, rules) ==
  {t \in Tag :
    /\ entries[t] # NoTag
    /\ \E r \in rules : Retains(r) /\ t \in Over[r]
    /\ \A r \in rules :
         Retains(r) /\ t \in Over[r] => Cardinality(Newer(entries, r, t)) >= Count[r]}
Past(entries, rules) ==
  {t \in Tag :
    /\ entries[t] # NoTag
    /\ \E r \in rules : Retains(r) /\ t \in Over[r]
    /\ \A r \in rules :
         Retains(r) /\ t \in Over[r] => Cardinality(Newer(entries, r, t)) >= Count[r]
    /\ Allows(rules, TRUE, t, "delete")}

-----------------------------------------------------------------------------
(* Requests.  A request is held to the policy in force when it came, as     *)
(* long as its body may take.                                               *)

Come(p) ==
  /\ Up(p)
  /\ request[p] = NoPolicy
  /\ request' = [request EXCEPT ![p] = policy[p]]
  /\ UNCHANGED <<store, sources, policy, refresh, job, record, lost>>

(* It may be an administrator's; another may also be refused.               *)
MayWrite(p, t, op) == Allows(request[p], TRUE, t, op)

(* Rules that a collection under way keeps by. *)
Kept(r) == \E j \in Job : job[j].pc = "erase" /\ r \in job[j].rules

(* Tags are erased, though not for the sake of these rules. *)
Lose(ts, rules) ==
  lost' = [r \in Rule |-> IF Kept(r) /\ r \notin rules THEN lost[r] \cup (ts \cap Over[r]) ELSE lost[r]]

(* setTag, in its transaction.  A tag that is there already is left as it is. *)
SetTag(p, t, d) ==
  /\ request[p] # NoPolicy
  /\ now < MaxTime
  /\ tags[t].digest # d
  /\ MayWrite(p, t, IF Here(t) THEN "move" ELSE "create")
  /\ now' = now + 1
  /\ tags' = [tags EXCEPT ![t] = [digest |-> d, moved |-> now + 1]]
  /\ request' = [request EXCEPT ![p] = NoPolicy]
  /\ UNCHANGED <<sources, policy, refresh, job, record, lost>>

(* deleteManifest, of one tag or of all that point at a digest. *)
EraseTags(p, ts) ==
  /\ request[p] # NoPolicy
  /\ ts # {}
  /\ \A t \in ts : MayWrite(p, t, "delete")
  /\ tags' = [t \in Tag |-> IF t \in ts THEN NoTag ELSE tags[t]]
  /\ Lose(ts, {})
  /\ request' = [request EXCEPT ![p] = NoPolicy]
  /\ UNCHANGED <<now, sources, policy, refresh, job, record>>

DeleteTag(p, t) == Here(t) /\ EraseTags(p, {t})

DeleteDigest(p, d) == EraseTags(p, {t \in Tag : tags[t].digest = d})

(* It is refused, says what is there already, or finds nothing. *)
Refuse(p) ==
  /\ request[p] # NoPolicy
  /\ request' = [request EXCEPT ![p] = NoPolicy]
  /\ UNCHANGED <<store, sources, policy, refresh, job, record, lost>>

-----------------------------------------------------------------------------
(* Collections: Collect and Trigger, one of each kind at a time in a        *)
(* process, and retention.                                                  *)

At(j, pc) == job[j].pc = pc

Start(j, i) ==
  /\ Up(j[1])
  /\ At(j, "idle")
  /\ runs[i] = "none"
  /\ \A h \in 1..(i - 1) : runs[h] # "none"
  /\ runs' = [runs EXCEPT ![i] = "running"]
  /\ job' = [job EXCEPT ![j] = [NoJob EXCEPT !.pc = "lead", !.run = i]]
  /\ UNCHANGED <<store, sources, policy, refresh, request, leader, broken, faults, lost>>

(* The run is recorded, but the answer is lost: no collection begins.       *)
StartLost(j, i) ==
  /\ Up(j[1])
  /\ At(j, "idle")
  /\ runs[i] = "none"
  /\ \A h \in 1..(i - 1) : runs[h] # "none"
  /\ runs' = [runs EXCEPT ![i] = "running"]
  /\ broken' = broken \cup {i}
  /\ UNCHANGED <<store, sources, policy, refresh, request, job, leader, faults, lost>>

(* Lead tries for the lock.  Another replica may have it, or it may fail:   *)
(* that is a run, and it failed.  The work begins with the policy in force, *)
(* for every repository.                                                    *)
LeadOrLeave(j) ==
  /\ At(j, "lead")
  /\ \/ /\ leader[j[2]] = None
        /\ leader' = [leader EXCEPT ![j[2]] = j[1]]
        /\ job' = [job EXCEPT ![j] = [job[j] EXCEPT !.pc = "count", !.rules = policy[j[1]]]]
     \/ /\ leader' = leader
        /\ job' = [job EXCEPT ![j] = NoJob]
  /\ UNCHANGED <<store, sources, policy, refresh, request, runs, broken, faults, lost>>
Lead(j) ==
  /\ At(j, "lead")
  /\ \/ /\ leader[j[2]] = None
        /\ leader' = [leader EXCEPT ![j[2]] = j[1]]
        /\ job' = [job EXCEPT ![j] = [job[j] EXCEPT !.pc = "count", !.rules = policy[j[1]]]]
     \/ /\ leader' = leader
        /\ job' = [job EXCEPT ![j] = [job[j] EXCEPT !.pc = "record"]]
  /\ UNCHANGED <<store, sources, policy, refresh, request, runs, broken, faults, lost>>

(* The tags are counted, with no lock. *)
CountTags(j) ==
  /\ At(j, "count")
  /\ job' = [job EXCEPT ![j] =
       [job[j] EXCEPT !.pc = "erase", !.counted = tags, !.todo = Past(tags, job[j].rules)]]
  /\ lost' = [r \in Rule |-> IF Kept(r) THEN lost[r] ELSE {}]
  /\ UNCHANGED <<store, sources, policy, refresh, request, record>>

(* A tag is looked at again in the transaction that erases it. *)
AsDigest(j, t)  == tags[t].digest = job[j].counted[t].digest
AsCounted(j, t) == tags[t] = job[j].counted[t]

EraseTag(j, t) ==
  /\ At(j, "erase")
  /\ t \in job[j].todo
  /\ AsCounted(j, t)
  /\ tags' = [tags EXCEPT ![t] = NoTag]
  /\ Lose({t}, job[j].rules)
  /\ job' = [job EXCEPT ![j] = [job[j] EXCEPT !.todo = job[j].todo \ {t}]]
  /\ UNCHANGED <<now, sources, policy, refresh, request, record>>

(* It has gone or moved, or the transaction fails. *)
PassTag(j, t) ==
  /\ At(j, "erase")
  /\ t \in job[j].todo
  /\ job' = [job EXCEPT ![j] = [job[j] EXCEPT !.todo = job[j].todo \ {t}]]
  /\ UNCHANGED <<store, sources, policy, refresh, request, record, lost>>

(* The work ends, or the tags cannot be read, and the lock goes back, if it *)
(* is still held.                                                           *)
EndWork(j) ==
  /\ At(j, "count") \/ (At(j, "erase") /\ job[j].todo = {})
  /\ job' = [job EXCEPT ![j] =
       [NoJob EXCEPT !.pc = "record", !.run = job[j].run]]
  /\ leader' = IF leader[j[2]] = j[1] THEN [leader EXCEPT ![j[2]] = None] ELSE leader
  /\ UNCHANGED <<store, sources, policy, refresh, request, runs, broken, faults, lost>>

(* Finish records that the run is done or has failed, or cannot. *)
Record(j) ==
  /\ At(j, "record")
  /\ \/ /\ runs' = [runs EXCEPT ![job[j].run] = "ended"]
        /\ broken' = broken
     \/ runs' = runs /\ broken' = broken \cup {job[j].run}
  /\ job' = [job EXCEPT ![j] = NoJob]
  /\ UNCHANGED <<store, sources, policy, refresh, request, leader, faults, lost>>

(* The connection that holds the lock is lost, and the work goes on. *)
Drop(k) ==
  /\ leader[k] # None
  /\ faults < MaxFaults
  /\ faults' = faults + 1
  /\ leader' = [leader EXCEPT ![k] = None]
  /\ UNCHANGED <<store, sources, policy, refresh, request, job, runs, broken, lost>>

(* A process dies, and with it what it was doing; its locks are given back. *)
Crash(p) ==
  /\ Up(p)
  /\ faults < MaxFaults
  /\ faults' = faults + 1
  /\ policy' = [policy EXCEPT ![p] = NoPolicy]
  /\ refresh' = [refresh EXCEPT ![p] = NoRefresh]
  /\ request' = [request EXCEPT ![p] = NoPolicy]
  /\ job' = [j \in Job |-> IF j[1] = p THEN NoJob ELSE job[j]]
  /\ leader' = [k \in Kind |-> IF leader[k] = p THEN None ELSE leader[k]]
  /\ broken' = broken \cup {job[j].run : j \in {h \in Job : h[1] = p /\ ~At(h, "idle")}}
  /\ UNCHANGED <<store, sources, runs, lost>>

-----------------------------------------------------------------------------
Reload(p) == LoadFile(p) \/ Install(p) \/ LoadFail(p)

Serve(p) ==
  \/ Come(p)
  \/ \E t \in Tag, d \in Digest : SetTag(p, t, d)
  \/ \E t \in Tag : DeleteTag(p, t)
  \/ \E d \in Digest : DeleteDigest(p, d)
  \/ Refuse(p)

Collect(j) ==
  \/ \E i \in 1..MaxRuns : Start(j, i) \/ StartLost(j, i)
  \/ Lead(j) \/ CountTags(j)
  \/ \E t \in Tag : EraseTag(j, t) \/ PassTag(j, t)
  \/ EndWork(j) \/ Record(j)

Next ==
  \/ \E r \in Rule : Edit(r)
  \/ \E p \in Process : Reload(p) \/ Serve(p) \/ Crash(p)
  \/ \E j \in Job : Collect(j)
  \/ \E k \in Kind : Drop(k)

Spec == Init /\ [][Next]_vars

-----------------------------------------------------------------------------
(* Properties. *)

(* Every policy a process enforces, or is about to, is of rules each source *)
(* had at some time, all of them: a source that cannot be loaded takes no   *)
(* rule away (auth/policy.go:700).                                          *)
PolicyWhole ==
  \A p \in Process :
    /\ Up(p) => \A s \in Source : policy[p] \cap Of(s) \in had[s]
    /\ refresh[p].pc = "file" => refresh[p].rules \in had["file"]

(* A run that is recorded as running is one collection's, which is under    *)
(* way, but for one that a crash or a failure kept from being recorded      *)
(* (gc/runs.go:32, gc/gc.go:194).                                           *)
RunsTrue ==
  \A i \in 1..MaxRuns :
    /\ runs[i] = "running" /\ i \notin broken => \E j \in Job : job[j].run = i
    /\ \A j \in Job : job[j].run = i => runs[i] = "running"
    /\ \A j, h \in Job : job[j].run = i /\ job[h].run = i => j = h

(* As many as the rule keeps are newer than t, with those that are not here *)
(* because they went otherwise than by the rule since they were counted.    *)
Gone(r)      == {u \in lost[r] : ~Here(u)}
Behind(r, t) == Cardinality(Newer(tags, r, t) \cup Gone(r)) >= Count[r]

(* What a collection may erase, it may still: nobody has moved it, so as    *)
(* many are ahead of it as when it was counted.                             *)
JobSound(j) ==
  /\ job[j].run = 0 <=> At(j, "idle")
  /\ ~At(j, "idle") => Up(j[1])
  /\ job[j].todo # {} => At(j, "erase")
  /\ \A t \in job[j].todo :
       /\ job[j].counted[t] # NoTag
       /\ Allows(job[j].rules, TRUE, t, "delete")
       /\ \A r \in job[j].rules :
            Retains(r) /\ t \in Over[r] /\ AsCounted(j, t) => Behind(r, t)

(* What is counted, or here, was written by now. *)
TimesSound ==
  /\ \A t \in Tag : tags[t].moved <= now
  /\ \A j \in Job, t \in Tag : job[j].counted[t].moved <= now

SourcesSound ==
  \A s \in Source : written \cap Of(s) \in had[s] /\ had[s] \subseteq SUBSET Of(s)

(* The inductive invariant. *)
Inv ==
  /\ TypeOK
  /\ TimesSound
  /\ SourcesSound
  /\ \A r \in Rule : lost[r] \subseteq Over[r]
  /\ PolicyWhole
  /\ RunsTrue
  /\ \A j \in Job : JobSound(j)

(* A collection erases a tag only if every retention rule over it still has *)
(* its count of newer tags, but for those that somebody else has deleted    *)
(* since they were counted (gc/gc.go:348): not the rule's newest, however   *)
(* tags move meanwhile and however many collections count at once.          *)
KeepsNewest ==
  [][\A j \in Job, t \in Tag :
       t \in job[j].todo /\ Here(t) /\ tags'[t] = NoTag /\ t \notin job'[j].todo
       => \A r \in job[j].rules : Retains(r) /\ t \in Over[r] => Behind(r, t)]_vars

(* The rules that everybody goes by. *)
InForce(r) ==
  /\ \A p \in Process : (Up(p) => r \in policy[p]) /\ (request[p] # NoPolicy => r \in request[p])
  /\ \A j \in Job : At(j, "count") \/ At(j, "erase") => r \in job[j].rules

(* Once an immutable rule has reached every process, request and collection, *)
(* a tag it covers neither moves nor goes (docs/access.md:741, 749).         *)
ImmutableStays ==
  [][\A r \in Rule, t \in Tag :
       InForce(r) /\ KindOf[r] = "immutable" /\ t \in Over[r] /\ Here(t) => tags'[t] = tags[t]]_vars

=============================================================================
