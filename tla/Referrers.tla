----------------------------- MODULE Referrers -----------------------------
(***************************************************************************)
(* The referrers of one image in a repository that is a cache of an        *)
(* upstream (registry/proxy.go, registry/lists.go), the verification of    *)
(* the image by the signatures among them (registry/verify.go), and the    *)
(* collection of those that the upstream no longer lists (gc/gc.go,        *)
(* Collector.unlisted).  The upstream owns the list; the cache keeps what  *)
(* it was last told as a row, the snapshot, and answers from it.           *)
(*                                                                         *)
(* A step asks the upstream or the index once, so whoever asks may be      *)
(* overtaken between being told and writing down what it was told.         *)
(* Requests ask each for themselves: a list is not joined as tags are.     *)
(***************************************************************************)
EXTENDS Naturals

CONSTANTS
  Referrer,     \* manifests whose subject is the image
  Valid,        \* signatures among them that verify
  None,         \* no referrer
  Client,
  TTL,          \* referrers_ttl, or what is taken for it
  MaxStale,     \* referrers_max_stale, an hour if it is not set
  Keep,         \* how long the collection leaves what is new
  MaxTime       \* bounds the clock

ASSUME ReferrersAssumption ==
  /\ Valid \subseteq Referrer
  /\ None \notin Referrer
  /\ TTL \in Nat \ {0}
  /\ MaxStale \in Nat \ {0}
  /\ Keep \in Nat
  /\ MaxTime \in Nat \ {0}

(* What an upstream without a referrers API answers. *)
NoApi == {None}

Time    == 0..MaxTime
Listing == (SUBSET Referrer) \cup {NoApi}

VARIABLES
  now,       \* the clock, 1 at first; a time of 0 is none
  listing,   \* what the upstream lists
  subject,   \* the image is in the cache
  snapshot,  \* what the cache was told, and when it had asked; 0 is never
  arrived,   \* when a referrer in the cache was fetched; 0 is not here
  verdict,   \* what a list of signatures was found to say
  client,    \* a request, with its locals
  gc,        \* the collection, with its locals
  last,      \* history: when the upstream last listed exactly this
  absent     \* history: when it last listed, and not this referrer

upstream == <<now, listing, last, absent>>
cache    == <<subject, snapshot, arrived>>
vars     == <<upstream, cache, verdict, client, gc>>

NoSnapshot == [list |-> {}, checked |-> 0]

NoClient ==
  [pc |-> "idle", verify |-> FALSE, cur |-> NoSnapshot, asked |-> 0, list |-> {},
   outcome |-> "none", left |-> {}, unchecked |-> FALSE, sig |-> {}, at |-> 0]

NoCollection == [pc |-> "idle", cutoff |-> 0, todo |-> {}]

Snapshot == [list : Listing, checked : Time]
Outcome  == {"none", "hit", "told", "stale", "old", "tagged"}
RequestState ==
  [pc : {"idle", "ask", "put", "tagged", "answer", "judge", "check", "add", "admitted"},
   verify : BOOLEAN, cur : Snapshot, asked : Time, list : Listing, outcome : Outcome,
   left : SUBSET Referrer, unchecked : BOOLEAN, sig : SUBSET Referrer, at : Time]

TypeOK ==
  /\ now \in Time \ {0}
  /\ listing \in Listing
  /\ subject \in BOOLEAN
  /\ snapshot \in Snapshot
  /\ arrived \in [Referrer -> Time]
  /\ verdict \in [SUBSET Referrer -> {"none", "good", "bad"}]
  /\ client \in [Client -> RequestState]
  /\ gc \in [pc : {"idle", "unlisted", "forget"}, cutoff : Time, todo : SUBSET Referrer]
  /\ last \in [Listing -> Time]
  /\ absent \in [Referrer -> Time]

Heard(l, t) ==
  /\ last' = [last EXCEPT ![l] = t]
  /\ absent' = [r \in Referrer |-> IF l # NoApi /\ r \notin l THEN t ELSE absent[r]]

Init ==
  /\ now = 1
  /\ listing \in Listing
  /\ subject = FALSE
  /\ snapshot = NoSnapshot
  /\ arrived = [r \in Referrer |-> 0]
  /\ verdict = [l \in SUBSET Referrer |-> "none"]
  /\ client = [c \in Client |-> NoClient]
  /\ gc = NoCollection
  /\ last = [l \in Listing |-> IF l = listing THEN 1 ELSE 0]
  /\ absent = [r \in Referrer |-> IF listing # NoApi /\ r \notin listing THEN 1 ELSE 0]

Here(r) == arrived[r] # 0

-----------------------------------------------------------------------------
(* The clock and the upstream. *)

Tick ==
  /\ now < MaxTime
  /\ now' = now + 1
  /\ Heard(listing, now + 1)
  /\ UNCHANGED <<listing, cache, verdict, client, gc>>

Relist(l) ==
  /\ l # listing
  /\ listing' = l
  /\ Heard(l, now)
  /\ UNCHANGED <<now, cache, verdict, client, gc>>

-----------------------------------------------------------------------------
(* Asking for the list: referrersOutcome, and what signatures() makes of it. *)

Fresh(s, t)    == s.checked # 0 /\ t - s.checked < TTL
Servable(s, t) == s.checked # 0 /\ t - s.checked <= MaxStale

(* What a request does with a list: hand it to the client, or judge the     *)
(* image by it.  A snapshot that says there is no API sends a verifier to   *)
(* the tag schema, and a client is told so.                                 *)
Told(request, l, outcome) ==
  LET told == [request EXCEPT !.cur = NoSnapshot, !.outcome = outcome] IN
  IF ~told.verify THEN [told EXCEPT !.pc = "answer", !.list = l]
  ELSE IF l = NoApi THEN [told EXCEPT !.pc = "tagged", !.outcome = "tagged", !.asked = 0]
  ELSE [told EXCEPT !.pc = "judge", !.list = l]

(* The list is asked for by a client, or on behalf of one that pulls the *)
(* image.                                                                *)
Hit(c, verify) ==
  /\ client[c].pc = "idle"
  /\ verify => subject
  /\ Fresh(snapshot, now)
  /\ client' = [client EXCEPT ![c] =
       Told([NoClient EXCEPT !.verify = verify, !.asked = now], snapshot.list, "hit")]
  /\ UNCHANGED <<upstream, cache, verdict, gc>>

Ask(c, verify) ==
  /\ client[c].pc = "idle"
  /\ verify => subject
  /\ ~Fresh(snapshot, now)
  /\ client' = [client EXCEPT ![c] =
       [NoClient EXCEPT !.pc = "ask", !.verify = verify, !.asked = now,
          !.cur = IF Servable(snapshot, now) THEN snapshot ELSE NoSnapshot]]
  /\ UNCHANGED <<upstream, cache, verdict, gc>>

Listed(c) ==
  /\ client[c].pc = "ask"
  /\ client' = [client EXCEPT ![c].pc = "put", ![c].list = listing]
  /\ UNCHANGED <<upstream, cache, verdict, gc>>

(* snapshots.Put replaces what is there, whatever that is by now.  The time  *)
(* is from before the upstream was asked.                                    *)
PutLate(c) ==
  /\ client[c].pc = "put"
  /\ snapshot' = [list |-> client[c].list, checked |-> now]
  /\ client' = [client EXCEPT ![c] = Told(@, @.list, "told")]
  /\ UNCHANGED <<upstream, subject, arrived, verdict, gc>>
Put(c) ==
  /\ client[c].pc = "put"
  /\ snapshot' = [list |-> client[c].list, checked |-> client[c].asked]
  /\ client' = [client EXCEPT ![c] = Told(@, @.list, "told")]
  /\ UNCHANGED <<upstream, subject, arrived, verdict, gc>>

(* The upstream fails, and what was read at first may still do. *)
Stale(c) ==
  /\ client[c].pc = "ask"
  /\ client[c].cur # NoSnapshot
  /\ client' = [client EXCEPT ![c] = Told(@, @.cur.list, "stale")]
  /\ UNCHANGED <<upstream, cache, verdict, gc>>

(* It may not, or the snapshot cannot be written.  A client is told of the  *)
(* failure, and a verifier reads the last snapshot, however old.            *)
Unheard(c) ==
  /\ \/ client[c].pc = "ask" /\ client[c].cur = NoSnapshot
     \/ client[c].pc = "put"
  /\ client' = [client EXCEPT ![c] =
       IF @.verify /\ snapshot.checked # 0 THEN Told(@, snapshot.list, "old") ELSE NoClient]
  /\ UNCHANGED <<upstream, cache, verdict, gc>>

(* taggedReferrers: the referrers tag is a tag like any other (PullThrough), *)
(* which may list anything, or not be readable.                              *)
Tagged(c) ==
  /\ client[c].pc = "tagged"
  /\ \/ \E l \in SUBSET Referrer :
          client' = [client EXCEPT ![c].pc = "judge", ![c].list = l]
     \/ client' = [client EXCEPT ![c] = NoClient]
  /\ UNCHANGED <<upstream, cache, verdict, gc>>

(* The request is answered, and over. *)
Finish(c) ==
  /\ client[c].pc \in {"answer", "admitted"}
  /\ client' = [client EXCEPT ![c] = NoClient]
  /\ UNCHANGED <<upstream, cache, verdict, gc>>

-----------------------------------------------------------------------------
(* Verification: what signed() does with a list. *)

(* What was decided of a list of signatures, if anything was. *)
DecidedOfImage(l) ==
  IF \E k \in SUBSET Referrer : verdict[k] = "good" THEN "good"
  ELSE IF l = {} THEN "bad" ELSE verdict[l]
Decision(l) == IF l = {} THEN "bad" ELSE verdict[l]

(* Serve or refuse by what was decided of it by now, or look at the         *)
(* signatures.                                                              *)
Judged(request) ==
  CASE Decision(request.list) = "good" -> [request EXCEPT !.pc = "admitted"]
    [] Decision(request.list) = "bad"  -> NoClient
    [] OTHER -> [request EXCEPT !.pc = "check", !.left = request.list]

Judge(c) ==
  /\ client[c].pc = "judge"
  /\ client' = [client EXCEPT ![c] = Judged(@)]
  /\ UNCHANGED <<upstream, cache, verdict, gc>>

(* A verdict is for a list of signatures, and all are forgotten when there  *)
(* are too many: those of other images count too.                           *)
Decided(l, v) ==
  \/ verdict' = [verdict EXCEPT ![l] = v]
  \/ verdict' = [k \in SUBSET Referrer |-> IF k = l THEN v ELSE "none"]

(* From here on nothing depends on when the list was asked for. *)
Looking(request) == [request EXCEPT !.asked = 0, !.outcome = "none"]

(* One that verifies is enough. *)
Verify(c, r) ==
  /\ client[c].pc = "check"
  /\ r \in client[c].left \cap Valid
  /\ Here(r)
  /\ Decided(client[c].list, "good")
  /\ client' = [client EXCEPT ![c].pc = "admitted", ![c].left = {}, ![c].unchecked = FALSE]
  /\ UNCHANGED <<upstream, cache, gc>>

(* It does not verify, or the upstream has no such manifest or envelope. *)
Reject(c, r) ==
  /\ client[c].pc = "check"
  /\ r \in client[c].left
  /\ client' = [client EXCEPT ![c] =
       [Looking(client[c]) EXCEPT !.left = client[c].left \ {r}]]
  /\ UNCHANGED <<upstream, cache, verdict, gc>>

(* It cannot be read: of the cache, or of the upstream. *)
Unread(c, r) ==
  /\ \/ client[c].pc = "check" /\ r \in client[c].left
     \/ client[c].pc = "add" /\ client[c].sig = {r}
  /\ client' =
       IF client[c].verify
       THEN [client EXCEPT ![c] = [Looking(client[c]) EXCEPT !.pc = "check",
               !.left = client[c].left \ {r}, !.unchecked = TRUE, !.sig = {}, !.at = 0]]
       ELSE [client EXCEPT ![c] = NoClient]
  /\ UNCHANGED <<upstream, cache, verdict, gc>>

(* None verifies, which is a verdict unless one was not read. *)
Conclude(c) ==
  /\ client[c].pc = "check"
  /\ client[c].left = {}
  /\ IF client[c].unchecked THEN UNCHANGED verdict ELSE Decided(client[c].list, "bad")
  /\ client' = [client EXCEPT ![c] = NoClient]
  /\ UNCHANGED <<upstream, cache, gc>>

-----------------------------------------------------------------------------
(* A referrer is fetched by digest, for a client or to be verified: fetch,  *)
(* which asks the upstream and then reads the clock, and its transaction.   *)

Fetch(c, r) ==
  /\ \/ client[c].pc = "check" /\ r \in client[c].left
     \/ client[c].pc = "idle"
  /\ ~Here(r)
  /\ client' = [client EXCEPT ![c] =
       [Looking(client[c]) EXCEPT !.pc = "add", !.sig = {r}, !.at = now]]
  /\ UNCHANGED <<upstream, cache, verdict, gc>>

(* manifests.Put leaves a row that is there. *)
FetchCommit(c, r) ==
  /\ client[c].pc = "add"
  /\ client[c].sig = {r}
  /\ arrived' = [arrived EXCEPT ![r] = IF Here(r) THEN @ ELSE client[c].at]
  /\ client' =
       IF client[c].verify
       THEN [client EXCEPT ![c].pc = "check", ![c].sig = {}, ![c].at = 0]
       ELSE [client EXCEPT ![c] = NoClient]
  /\ UNCHANGED <<upstream, subject, snapshot, verdict, gc>>

-----------------------------------------------------------------------------
(* What comes and goes besides: the image, which is pulled, evicted and     *)
(* collected as PullThrough says, and a referrer that a client deletes, or  *)
(* that is collected because its image is not here.                         *)

SubjectComes ==
  /\ ~subject
  /\ subject' = TRUE
  /\ UNCHANGED <<upstream, snapshot, arrived, verdict, client, gc>>

SubjectGoes ==
  /\ subject
  /\ subject' = FALSE
  /\ UNCHANGED <<upstream, snapshot, arrived, verdict, client, gc>>

Delete(r) ==
  /\ Here(r)
  /\ arrived' = [arrived EXCEPT ![r] = 0]
  /\ UNCHANGED <<upstream, subject, snapshot, verdict, client, gc>>

-----------------------------------------------------------------------------
(* The collection: unlisted.  Tags and manifests that hold a referrer spare *)
(* it as anywhere (Repository), and so does a pull after the collection     *)
(* began: both are a GcSkip here.                                           *)

Old(r, cutoff) == Here(r) /\ arrived[r] < cutoff

(* With the image here, only a list that is newer than the referrer and     *)
(* omits it lets it go.                                                     *)
OmitsNow(s, r) ==
  /\ s.checked # 0
  /\ s.list # NoApi
  /\ r \notin s.list
Omits(s, r) ==
  /\ s.checked # 0
  /\ s.list # NoApi
  /\ r \notin s.list
  /\ arrived[r] < s.checked

(* Of untagged, and of evict by the cache's own setting. *)
Cutoff == IF now > Keep THEN now - Keep ELSE 0

(* The image is here: those the snapshot omits are candidates. *)
GcList ==
  /\ gc.pc = "idle"
  /\ subject
  /\ LET todo == {r \in Referrer : Omits(snapshot, r) /\ Old(r, Cutoff)} IN
     /\ todo # {}
     /\ gc' = [pc |-> "unlisted", cutoff |-> Cutoff, todo |-> todo]
  /\ UNCHANGED <<upstream, cache, verdict, client>>

(* deleteManifest: its transaction looks at all of it again.  The image may *)
(* have gone, and its referrers are then as untagged as any.                *)
GcRemove(r) ==
  /\ r \in gc.todo
  /\ Old(r, gc.cutoff)
  /\ subject => Omits(snapshot, r)
  /\ arrived' = [arrived EXCEPT ![r] = 0]
  /\ gc' = [gc EXCEPT !.todo = @ \ {r}]
  /\ UNCHANGED <<upstream, subject, snapshot, verdict, client>>

(* It is needed after all, or the transaction fails. *)
GcSkip(r) ==
  /\ r \in gc.todo
  /\ gc' = [gc EXCEPT !.todo = @ \ {r}]
  /\ UNCHANGED <<upstream, cache, verdict, client>>

GcEnd ==
  /\ gc.pc = "unlisted"
  /\ gc.todo = {}
  /\ gc' = NoCollection
  /\ UNCHANGED <<upstream, cache, verdict, client>>

(* The image is gone, and an old snapshot of its referrers is of nothing.   *)
(* The transaction that erases it looks at neither again, or it fails.      *)
GcStray ==
  /\ gc.pc = "idle"
  /\ ~subject
  /\ snapshot.checked # 0
  /\ snapshot.checked < Cutoff
  /\ gc' = [NoCollection EXCEPT !.pc = "forget"]
  /\ UNCHANGED <<upstream, cache, verdict, client>>

GcForget ==
  /\ gc.pc = "forget"
  /\ snapshot' \in {NoSnapshot, snapshot}
  /\ gc' = NoCollection
  /\ UNCHANGED <<upstream, subject, arrived, verdict, client>>

-----------------------------------------------------------------------------
Request(c) ==
  \/ \E verify \in BOOLEAN : Hit(c, verify) \/ Ask(c, verify)
  \/ Listed(c) \/ Put(c) \/ Stale(c) \/ Unheard(c) \/ Tagged(c) \/ Finish(c)
  \/ Judge(c) \/ Conclude(c)
  \/ \E r \in Referrer :
       Verify(c, r) \/ Reject(c, r) \/ Unread(c, r) \/ Fetch(c, r) \/ FetchCommit(c, r)

Collect ==
  \/ GcList \/ GcEnd \/ GcStray \/ GcForget
  \/ \E r \in Referrer : GcRemove(r) \/ GcSkip(r)

Next ==
  \/ Tick \/ \E l \in Listing : Relist(l)
  \/ \E c \in Client : Request(c)
  \/ SubjectComes \/ SubjectGoes \/ \E r \in Referrer : Delete(r)
  \/ Collect

Spec == Init /\ [][Next]_vars

-----------------------------------------------------------------------------
(* Properties. *)

(* How long before it was asked for a list may last have been the           *)
(* upstream's, by how it was come by.  Nothing bounds what a verifier reads *)
(* while the upstream fails, nor what a tag lists here.                     *)
ListBound(outcome) ==
  CASE outcome = "hit"   -> TTL - 1
    [] outcome = "stale" -> MaxStale
    [] OTHER             -> 0

Recent(l, outcome, asked) == last[l] + ListBound(outcome) >= asked

Bounded == {"hit", "told", "stale"}

(* What the cache says was the upstream's list was, at the time it says or  *)
(* later: whoever wrote it last (index.Snapshot, CheckedAt).                *)
SnapshotSound(s) ==
  /\ s.checked <= now
  /\ s.checked # 0 => last[s.list] >= s.checked

(* What a request knows. *)
RequestSound(q) ==
  /\ q.asked <= now
  /\ q.at <= now
  /\ SnapshotSound(q.cur)
  /\ q.pc = "idle" => ~q.verify
  /\ q.pc = "ask" /\ q.cur # NoSnapshot => Servable(q.cur, q.asked)
  /\ q.pc = "put" => last[q.list] >= q.asked
  /\ q.pc = "tagged" => q.outcome = "tagged"
  /\ q.pc = "judge" => q.list # NoApi
  /\ q.outcome \in Bounded => Recent(q.list, q.outcome, q.asked)
  /\ q.pc = "check" \/ (q.pc = "add" /\ q.verify) => q.left \subseteq q.list /\ q.list # NoApi
  /\ q.pc = "admitted" => q.list \cap Valid # {}

(* A good verdict is about a list that has a signature that verifies. *)
VerdictSound == \A l \in SUBSET Referrer : verdict[l] = "good" => l \cap Valid # {}

(* A list that is the upstream's now omitted at some time what it omits. *)
UpstreamSound ==
  /\ last[listing] = now
  /\ \A l \in Listing : last[l] <= now
  /\ \A l \in SUBSET Referrer, r \in Referrer : r \notin l => absent[r] >= last[l]

(* Every list handed to a client, or whose signatures are relied on, was    *)
(* the upstream's within referrers_ttl of being asked for, or               *)
(* referrers_max_stale while the upstream fails (docs/operating.md:651,     *)
(* 721), though requests write over one another's lists.                    *)
ListsRecent ==
  \A c \in Client :
    /\ client[c].pc \in {"answer", "judge", "check", "admitted"}
    /\ client[c].outcome \in Bounded
    => Recent(client[c].list, client[c].outcome, client[c].asked)

(* An image is served when a signature verifies that is in the list this    *)
(* very request goes by, whatever was decided of other lists before: one    *)
(* that is withdrawn upstream stops counting (docs/operating.md:721, 726).  *)
AdmissionJustified ==
  \A c \in Client : client[c].pc = "admitted" => client[c].list \cap Valid # {}

(* The inductive invariant. *)
Inv ==
  /\ TypeOK
  /\ UpstreamSound
  /\ SnapshotSound(snapshot)
  /\ VerdictSound
  /\ \A c \in Client : RequestSound(client[c])
  /\ \A r \in Referrer : arrived[r] <= now

(* A referrer whose image is here is collected only if, after it arrived,   *)
(* the upstream listed the image's referrers without it (gc/gc.go:514): a   *)
(* list asked for before the referrer came is no evidence, however late it  *)
(* is written.                                                              *)
UnlistedOmitted ==
  [][\A r \in Referrer :
       r \in gc.todo /\ r \notin gc'.todo /\ Here(r) /\ arrived'[r] = 0 /\ subject
       => absent[r] > arrived[r]]_vars

=============================================================================
