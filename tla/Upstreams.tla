----------------------------- MODULE Upstreams -----------------------------
(***************************************************************************)
(* The ordered origins behind one cached repository (blob/upstreams.go,    *)
(* blob/upstream.go).  A call asks the first and goes on to the next when  *)
(* one fails to answer; any other answer ends it.  Origins are kept by     *)
(* different people: their tags and lists differ and move while a call     *)
(* goes from one to the next, and a blob may come in pieces of several.    *)
(*                                                                         *)
(* A call of each kind (a manifest, a list of referrers, a blob that is    *)
(* read) shares nothing with another, so there is one at a time here.  An  *)
(* origin gives what it says: the bytes of the range it names, a manifest  *)
(* that hashes to its digest.  Others are refused by their hash, later.    *)
(***************************************************************************)
EXTENDS Naturals

CONSTANTS
  Last,       \* origins are 1..Last, in the order they are asked
  Digest,
  None,
  Length,     \* of the blob, whose bytes are 0..Length - 1
  MaxPages,   \* of a list: maxReferrersPages
  MaxMoves,   \* bounds how often tags move
  MaxSeeks    \* bounds the seeks of a reader

ASSUME UpstreamsAssumption ==
  /\ Last \in Nat \ {0, 1}
  /\ None \notin Digest
  /\ {Length, MaxMoves, MaxSeeks} \subseteq Nat
  /\ MaxPages \in Nat \ {0}

Origin == 1..Last
Byte   == 0..(Length - 1)

VARIABLES
  tags,       \* what an origin's tag points at; None where there is none
  moves,
  manifest,   \* GetManifest, with its locals
  told,       \* history: what the first origin that said so says the tag is
  referrers,  \* Referrers, with its locals
  reader,     \* an upstreamReader, and the Stores.Open that makes it
  body,       \* the response it reads from
  got,        \* history: the bytes it has given, each at its position
  from,       \* history: where it has read on from
  seeks

origins == <<tags, moves>>
blob    == <<reader, body, got, from, seeks>>
vars    == <<origins, manifest, told, referrers, blob>>

NoManifest  == [pc |-> "idle", at |-> 1, reference |-> None, answer |-> None]
NoReferrers == [pc |-> "idle", at |-> 1, page |-> 1, out |-> {}]
NoReader    == [pc |-> "idle", at |-> 1, sized |-> FALSE, pos |-> 0]
NoBody      == [open |-> FALSE, next |-> 0, last |-> 0, clean |-> FALSE]

TypeOK ==
  /\ tags \in [Origin -> Digest \cup {None}]
  /\ moves \in 0..MaxMoves
  /\ manifest \in [pc : {"idle", "head", "get", "done", "failed"}, at : Origin,
                   reference : Digest \cup {None}, answer : Digest \cup {None}]
  /\ told \in Digest \cup {None}
  /\ referrers \in [pc : {"idle", "get", "done", "failed"}, at : Origin,
                    page : 1..MaxPages, out : SUBSET (Origin \X (1..MaxPages))]
  /\ reader \in [pc : {"idle", "opening", "open", "ended", "failed"}, at : Origin,
                 sized : BOOLEAN, pos : 0..Length]
  /\ body \in [open : BOOLEAN, next : 0..Length, last : 0..Length, clean : BOOLEAN]
  /\ got \in [Byte -> Byte \cup {None}]
  /\ from \in 0..Length
  /\ seeks \in 0..MaxSeeks

Nothing == [i \in Byte |-> None]

Init ==
  /\ tags \in [Origin -> Digest \cup {None}]
  /\ moves = 0
  /\ manifest = NoManifest
  /\ told = None
  /\ referrers = NoReferrers
  /\ reader = NoReader
  /\ body = NoBody
  /\ got = Nothing
  /\ from = 0
  /\ seeks = 0

(* An origin's owner moves its tag. *)
Move(o, d) ==
  /\ moves < MaxMoves
  /\ moves' = moves + 1
  /\ tags' = [tags EXCEPT ![o] = d]
  /\ UNCHANGED <<manifest, told, referrers, blob>>

(* A call may begin when none is under way; the last one's answer is gone. *)
Idle ==
  /\ manifest.pc \notin {"head", "get"}
  /\ referrers.pc # "get"
  /\ reader.pc = "idle"

(* tryUpstreams: an origin that cannot be reached, breaks off, or answers 5xx *)
(* is followed by the next.  After the last, all their errors are the answer. *)
OnwardInPlace(at) == at
Onward(at) == at + 1

-----------------------------------------------------------------------------
(* GetManifest.  A tag is resolved once, and then its digest is asked for,  *)
(* from the first origin again.                                             *)

GetTag ==
  /\ Idle
  /\ manifest' = [NoManifest EXCEPT !.pc = "head"]
  /\ told' = None
  /\ referrers' = NoReferrers
  /\ UNCHANGED <<origins, blob>>

GetDigest(d) ==
  /\ Idle
  /\ manifest' = [NoManifest EXCEPT !.pc = "get", !.reference = d]
  /\ told' = None
  /\ referrers' = NoReferrers
  /\ UNCHANGED <<origins, blob>>

Resolve ==
  /\ manifest.pc = "head"
  /\ tags[manifest.at] # None
  /\ manifest' = [manifest EXCEPT !.pc = "get", !.at = 1, !.reference = tags[manifest.at]]
  /\ told' = tags[manifest.at]
  /\ UNCHANGED <<origins, referrers, blob>>

(* What an origin is asked for. *)
AskedByTag(o) == tags[o]
Asked(o) == manifest.reference

GetFound ==
  /\ manifest.pc = "get"
  /\ manifest' = [manifest EXCEPT !.pc = "done", !.answer = Asked(manifest.at)]
  /\ UNCHANGED <<origins, told, referrers, blob>>

ManifestOnward ==
  /\ manifest.pc \in {"head", "get"}
  /\ manifest' = IF manifest.at = Last
                 THEN [manifest EXCEPT !.pc = "failed"]
                 ELSE [manifest EXCEPT !.at = Onward(manifest.at)]
  /\ UNCHANGED <<origins, told, referrers, blob>>

(* It is not there, is refused, has no digest or another one, or nobody     *)
(* waits for it any more.                                                   *)
ManifestStop ==
  /\ manifest.pc \in {"head", "get"}
  /\ manifest' = [manifest EXCEPT !.pc = "failed"]
  /\ UNCHANGED <<origins, told, referrers, blob>>

-----------------------------------------------------------------------------
(* Referrers: every page of an origin's list.  The next origin's is begun   *)
(* anew.                                                                    *)

GetReferrers ==
  /\ Idle
  /\ referrers' = [NoReferrers EXCEPT !.pc = "get"]
  /\ manifest' = NoManifest
  /\ told' = None
  /\ UNCHANGED <<origins, blob>>

WithPage == referrers.out \cup {<<referrers.at, referrers.page>>}

PageMore ==
  /\ referrers.pc = "get"
  /\ referrers' = IF referrers.page = MaxPages
                  THEN [referrers EXCEPT !.pc = "failed"]
                  ELSE [referrers EXCEPT !.page = referrers.page + 1, !.out = WithPage]
  /\ UNCHANGED <<origins, manifest, told, blob>>

PageLast ==
  /\ referrers.pc = "get"
  /\ referrers' = [referrers EXCEPT !.pc = "done", !.out = WithPage]
  /\ UNCHANGED <<origins, manifest, told, blob>>

Restart(r) == [r EXCEPT !.at = Onward(r.at), !.page = 1, !.out = {}]

ReferrersOnward ==
  /\ referrers.pc = "get"
  /\ referrers' = IF referrers.at = Last
                  THEN [referrers EXCEPT !.pc = "failed"]
                  ELSE Restart(referrers)
  /\ UNCHANGED <<origins, manifest, told, blob>>

ReferrersStop ==
  /\ referrers.pc = "get"
  /\ referrers' = [referrers EXCEPT !.pc = "failed"]
  /\ UNCHANGED <<origins, manifest, told, blob>>

-----------------------------------------------------------------------------
(* A blob is opened, and read, with origins to go on to when it breaks off. *)

OpenBlob ==
  /\ Idle
  /\ reader' = [NoReader EXCEPT !.pc = "opening"]
  /\ body' = NoBody
  /\ got' = Nothing
  /\ from' = 0
  /\ manifest' = NoManifest
  /\ told' = None
  /\ referrers' = NoReferrers
  /\ UNCHANGED <<origins, seeks>>

(* The response may say how long the blob is; it gives bytes up to some     *)
(* point and then ends, or breaks off.                                      *)
Opened(sized, last, clean) ==
  /\ reader.pc = "opening"
  /\ reader' = [reader EXCEPT !.pc = "open", !.sized = sized]
  /\ body' = [open |-> TRUE, next |-> 0, last |-> last, clean |-> clean]
  /\ UNCHANGED <<origins, manifest, told, referrers, got, from, seeks>>

AtEnd == reader.sized /\ reader.pos >= Length

(* What is there to go on from: the origin's answer to a request for the    *)
(* rest is its body as far as it comes.                                     *)
ReadOnFrom(next, last, clean) ==
  /\ body' = [open |-> TRUE, next |-> next, last |-> last, clean |-> clean]
  /\ UNCHANGED <<origins, manifest, told, referrers, reader, got, from, seeks>>

Broken ==
  /\ body' = NoBody
  /\ reader' = IF reader.at = Last
               THEN [reader EXCEPT !.pc = "failed"]
               ELSE [reader EXCEPT !.at = Onward(reader.at)]
  /\ UNCHANGED <<origins, manifest, told, referrers, got, from, seeks>>

Ended(pc) ==
  /\ reader' = [reader EXCEPT !.pc = pc]
  /\ body' = NoBody
  /\ UNCHANGED <<origins, manifest, told, referrers, got, from, seeks>>

(* At the end of a body it is kept, and goes on giving its end. *)
EndedHere ==
  /\ reader' = [reader EXCEPT !.pc = "ended"]
  /\ UNCHANGED <<origins, manifest, told, referrers, body, got, from, seeks>>

Resuming == reader.pc = "open" /\ ~body.open /\ ~AtEnd

(* 206, from a start it names.  One that is not asked for is refused. *)
RightStart(start) == start = reader.pos

ResumePartial(start, last, clean) ==
  /\ Resuming
  /\ start < Length
  /\ last >= start
  /\ IF RightStart(start) THEN ReadOnFrom(start, last, clean) ELSE Ended("failed")

(* 200, with all of it: what is read already is skipped. *)
NotSkipped == 0
Skipped == reader.pos

ResumeWhole(last, clean) ==
  /\ Resuming
  /\ last >= reader.pos
  /\ ReadOnFrom(Skipped, last, clean)

(* An end, of a body or of what was to be skipped, is the blob's if as much  *)
(* has come as was said there was, when that was said; else it is a failure. *)
EndAnywhere(clean) == clean
IsEnd(clean) == clean /\ (reader.sized => reader.pos >= Length)

ResumeShort(clean) ==
  /\ Resuming
  /\ reader.pos > 0
  /\ IF IsEnd(clean) THEN Ended("ended") ELSE Broken

ReadSome(n) ==
  /\ reader.pc = "open"
  /\ body.open
  /\ ~AtEnd
  /\ n <= body.last - body.next
  /\ reader' = [reader EXCEPT !.pos = reader.pos + n]
  /\ body' = [body EXCEPT !.next = body.next + n]
  /\ got' = [i \in Byte |->
       IF i \in reader.pos..(reader.pos + n - 1) THEN body.next + (i - reader.pos) ELSE got[i]]
  /\ UNCHANGED <<origins, manifest, told, referrers, from, seeks>>

ReadOut ==
  /\ reader.pc = "open"
  /\ body.open
  /\ ~AtEnd
  /\ body.next = body.last
  /\ IF IsEnd(body.clean) THEN EndedHere ELSE Broken

ReadAtEnd ==
  /\ reader.pc = "open"
  /\ AtEnd
  /\ EndedHere

ReadOnward ==
  /\ reader.pc = "opening" \/ Resuming
  /\ Broken

ReadStop ==
  /\ reader.pc \in {"opening", "open"}
  /\ Ended("failed")

Seek(p) ==
  /\ reader.pc \in {"open", "ended"}
  /\ seeks < MaxSeeks
  /\ seeks' = seeks + 1
  /\ reader' = [reader EXCEPT !.pc = "open", !.pos = p]
  /\ body' = IF p = reader.pos THEN body ELSE NoBody
  /\ got' = Nothing
  /\ from' = p
  /\ UNCHANGED <<origins, manifest, told, referrers>>

Close ==
  /\ reader.pc \in {"open", "ended", "failed"}
  /\ reader' = NoReader
  /\ body' = NoBody
  /\ got' = Nothing
  /\ from' = 0
  /\ UNCHANGED <<origins, manifest, told, referrers, seeks>>

-----------------------------------------------------------------------------
Begin == GetTag \/ (\E d \in Digest : GetDigest(d)) \/ GetReferrers \/ OpenBlob

GoesOn ==
  \/ Resolve \/ GetFound \/ ManifestOnward \/ ManifestStop
  \/ PageMore \/ PageLast \/ ReferrersOnward \/ ReferrersStop
  \/ \E sized, clean \in BOOLEAN, last \in 0..Length : Opened(sized, last, clean)
  \/ \E clean \in BOOLEAN, start, last \in 0..Length : ResumePartial(start, last, clean)
  \/ \E clean \in BOOLEAN, last \in 0..Length : ResumeWhole(last, clean)
  \/ \E clean \in BOOLEAN : ResumeShort(clean)
  \/ \E n \in 1..Length : ReadSome(n)
  \/ ReadOut \/ ReadAtEnd \/ ReadOnward \/ ReadStop

Next ==
  \/ \E o \in Origin, d \in Digest \cup {None} : Move(o, d)
  \/ Begin
  \/ GoesOn
  \/ \E p \in 0..Length : Seek(p)
  \/ Close

Spec == Init /\ [][Next]_vars

(* Every request is answered, fails, or runs out of time, and what reads    *)
(* goes on reading.                                                         *)
FairSpec == Spec /\ WF_vars(GoesOn)

-----------------------------------------------------------------------------
(* Properties. *)

(* A tag is one origin's, though a fallback may have moved it: what is      *)
(* fetched for it is what the first that answered for it said it is; and a  *)
(* list is all of one origin's pages (docs/operating.md:566-568).           *)
OfOneOrigin ==
  /\ manifest.pc = "done" /\ told # None => manifest.answer = told
  /\ referrers.pc = "done" => \E o \in Origin : referrers.out = {o} \X (1..referrers.page)

(* Whatever breaks off and whoever goes on, each byte that is given is the  *)
(* blob's at its position: none is skipped and none comes twice             *)
(* (blob/upstream.go:659, 685).                                             *)
BytesInOrder == \A i \in from..(reader.pos - 1) : got[i] = i

(* A blob whose length was said ends where it was said to.                  *)
EndsWhole == reader.pc = "ended" /\ reader.sized => reader.pos >= Length

(* What a body gives next is what is to be read next. *)
BodySound ==
  /\ body.open => body.next = reader.pos /\ body.next <= body.last
  /\ reader.pc = "opening" => reader.pos = 0

ReferrersSound ==
  referrers.pc = "get" => referrers.out = {referrers.at} \X (1..(referrers.page - 1))

ManifestSound == manifest.pc \in {"get", "done"} /\ told # None => manifest.reference = told

(* The inductive invariant. *)
Inv ==
  /\ TypeOK
  /\ BodySound
  /\ ReferrersSound
  /\ ManifestSound
  /\ from <= reader.pos
  /\ OfOneOrigin
  /\ BytesInOrder
  /\ EndsWhole

(* A call ends: whatever fails, it does not ask for ever                     *)
(* (blob/upstreams.go:74).                                                  *)
Ends ==
  /\ manifest.pc \in {"head", "get"} ~> manifest.pc \in {"done", "failed"}
  /\ referrers.pc = "get" ~> referrers.pc \in {"done", "failed"}
  /\ reader.pc \in {"opening", "open"} ~> reader.pc \in {"idle", "ended", "failed"}

=============================================================================
