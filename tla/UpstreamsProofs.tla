-------------------------- MODULE UpstreamsProofs --------------------------
(***************************************************************************)
(* Theorems about Upstreams, for any number of origins, digests, pages and *)
(* any length of the blob: the inductive invariant Inv, and from it that   *)
(* an answer is of one origin and that bytes come in order and to the end. *)
(***************************************************************************)
EXTENDS Upstreams, TLAPS

USE UpstreamsAssumption

(* The three kinds of a call, which an action leaves alone or disturbs one  *)
(* by one.                                                                  *)
Manifests ==
  /\ manifest \in [pc : {"idle", "head", "get", "done", "failed"}, at : Origin,
                   reference : Digest \cup {None}, answer : Digest \cup {None}]
  /\ told \in Digest \cup {None}
  /\ ManifestSound
  /\ manifest.pc = "done" /\ told # None => manifest.answer = told

Lists ==
  /\ referrers \in [pc : {"idle", "get", "done", "failed"}, at : Origin,
                    page : 1..MaxPages, out : SUBSET (Origin \X (1..MaxPages))]
  /\ ReferrersSound
  /\ referrers.pc = "done" => \E o \in Origin : referrers.out = {o} \X (1..referrers.page)

Blobs ==
  /\ reader \in [pc : {"idle", "opening", "open", "ended", "failed"}, at : Origin,
                 sized : BOOLEAN, pos : 0..Length]
  /\ body \in [open : BOOLEAN, next : 0..Length, last : 0..Length, clean : BOOLEAN]
  /\ got \in [Byte -> Byte \cup {None}]
  /\ from \in 0..Length
  /\ seeks \in 0..MaxSeeks
  /\ BodySound
  /\ from <= reader.pos
  /\ BytesInOrder
  /\ EndsWhole

Moved ==
  /\ tags \in [Origin -> Digest \cup {None}]
  /\ moves \in 0..MaxMoves

LEMMA Parts == Inv <=> Moved /\ Manifests /\ Lists /\ Blobs
BY DEF Inv, TypeOK, OfOneOrigin, Moved, Manifests, Lists, Blobs

LEMMA PartsNext == Inv' <=> Moved' /\ Manifests' /\ Lists' /\ Blobs'
BY DEF Inv, TypeOK, OfOneOrigin, Moved, Manifests, Lists, Blobs

(* What a call of a kind does not touch stays as sound as it was. *)
LEMMA MovedKept ==
  ASSUME Moved, UNCHANGED origins
  PROVE  Moved'
BY DEF Moved, origins

LEMMA ManifestsKept ==
  ASSUME Manifests, UNCHANGED <<manifest, told>>
  PROVE  Manifests'
BY DEF Manifests, ManifestSound

LEMMA ListsKept ==
  ASSUME Lists, UNCHANGED referrers
  PROVE  Lists'
BY DEF Lists, ReferrersSound

LEMMA BlobsKept ==
  ASSUME Blobs, UNCHANGED blob
  PROVE  Blobs'
BY DEF Blobs, BodySound, BytesInOrder, EndsWhole, blob

(* And one that is over, or was never begun, is sound. *)
LEMMA ManifestsReset ==
  ASSUME manifest' = NoManifest, told' = None
  PROVE  Manifests'
BY DEF Manifests, ManifestSound, NoManifest, Origin

LEMMA ListsReset ==
  ASSUME referrers' = NoReferrers
  PROVE  Lists'
BY DEF Lists, ReferrersSound, NoReferrers, Origin

(* An origin that is not the last is followed by another. *)
LEMMA OnwardIsOrigin ==
  ASSUME NEW o \in Origin, o # Last
  PROVE  Onward(o) \in Origin
BY DEF Onward, Origin

-----------------------------------------------------------------------------
(* GetManifest. *)

LEMMA ManifestStep ==
  ASSUME Inv, Resolve \/ GetFound \/ ManifestOnward \/ ManifestStop
  PROVE  Inv'
<1>1. Moved /\ Manifests /\ Lists /\ Blobs
  BY Parts
<1>2. Moved' /\ Lists' /\ Blobs'
  BY <1>1, MovedKept, ListsKept, BlobsKept DEF Resolve, GetFound, ManifestOnward, ManifestStop, origins
<1>3. CASE Resolve
  <2>1. 1 \in Origin /\ tags[manifest.at] \in Digest \cup {None}
    BY <1>1 DEF Manifests, Moved, Origin
  <2>2. manifest' = [manifest EXCEPT !.pc = "get", !.at = 1, !.reference = tags[manifest.at]]
        /\ told' = tags[manifest.at]
    BY <1>3 DEF Resolve
  <2>3. Manifests'
    BY <1>1, <2>1, <2>2 DEF Manifests, ManifestSound
  <2> QED BY <1>2, <2>3, PartsNext
<1>4. CASE GetFound
  BY <1>1, <1>2, <1>4, PartsNext DEF GetFound, Asked, Manifests, ManifestSound
<1>5. CASE ManifestOnward
  BY <1>1, <1>2, <1>5, PartsNext, OnwardIsOrigin DEF ManifestOnward, Manifests, ManifestSound
<1>6. CASE ManifestStop
  BY <1>1, <1>2, <1>6, PartsNext DEF ManifestStop, Manifests, ManifestSound
<1> QED BY <1>3, <1>4, <1>5, <1>6

-----------------------------------------------------------------------------
(* Referrers. *)

(* The pages up to one, and that one. *)
LEMMA WithPageIsNext ==
  ASSUME Lists, referrers.pc = "get"
  PROVE  WithPage = {referrers.at} \X (1..referrers.page)
<1>1. referrers.at \in Origin /\ referrers.page \in 1..MaxPages
  BY DEF Lists
<1>2. 1..referrers.page = (1..(referrers.page - 1)) \cup {referrers.page}
  BY <1>1
<1>3. referrers.out = {referrers.at} \X (1..(referrers.page - 1))
  BY DEF Lists, ReferrersSound
<1> QED BY <1>2, <1>3 DEF WithPage

LEMMA ReferrersStep ==
  ASSUME Inv, PageMore \/ PageLast \/ ReferrersOnward \/ ReferrersStop
  PROVE  Inv'
<1>1. Moved /\ Manifests /\ Lists /\ Blobs /\ referrers.pc = "get"
  BY Parts DEF PageMore, PageLast, ReferrersOnward, ReferrersStop
<1>2. Moved' /\ Manifests' /\ Blobs'
  BY <1>1, MovedKept, ManifestsKept, BlobsKept
     DEF PageMore, PageLast, ReferrersOnward, ReferrersStop, origins
<1>3. referrers.at \in Origin /\ referrers.page \in 1..MaxPages
      /\ WithPage = {referrers.at} \X (1..referrers.page)
      /\ WithPage \in SUBSET (Origin \X (1..MaxPages))
  BY <1>1, WithPageIsNext DEF Lists
<1>4. CASE PageMore
  <2>1. CASE referrers.page = MaxPages
    BY <1>1, <1>2, <1>4, <2>1, PartsNext DEF PageMore, Lists, ReferrersSound
  <2>2. CASE referrers.page # MaxPages
    <3> DEFINE more == [referrers EXCEPT !.page = referrers.page + 1, !.out = WithPage]
    <3>1. referrers' = more
      BY <1>4, <2>2 DEF PageMore
    <3>2. referrers.page + 1 \in 1..MaxPages /\ (referrers.page + 1) - 1 = referrers.page
      BY <1>3, <2>2
    <3>3. more.at = referrers.at /\ more.page = referrers.page + 1 /\ more.out = WithPage
          /\ more.pc = "get"
      BY <1>1 DEF Lists
    <3>4. more \in [pc : {"idle", "get", "done", "failed"}, at : Origin,
                    page : 1..MaxPages, out : SUBSET (Origin \X (1..MaxPages))]
      BY <1>1, <1>3, <3>2 DEF Lists
    <3>5. Lists'
      BY <1>3, <3>1, <3>2, <3>3, <3>4 DEF Lists, ReferrersSound
    <3> QED BY <1>2, <3>5, PartsNext
  <2> QED BY <2>1, <2>2
<1>5. CASE PageLast
  <2> DEFINE done == [referrers EXCEPT !.pc = "done", !.out = WithPage]
  <2>1. referrers' = done
    BY <1>5 DEF PageLast
  <2>2. done.pc = "done" /\ done.out = WithPage /\ done.page = referrers.page
    BY <1>1 DEF Lists
  <2>3. done \in [pc : {"idle", "get", "done", "failed"}, at : Origin,
                  page : 1..MaxPages, out : SUBSET (Origin \X (1..MaxPages))]
    BY <1>1, <1>3 DEF Lists
  <2>4. Lists'
    BY <1>3, <2>1, <2>2, <2>3 DEF Lists, ReferrersSound
  <2> QED BY <1>2, <2>4, PartsNext
<1>6. CASE ReferrersOnward
  <2>1. CASE referrers.at = Last
    BY <1>1, <1>2, <1>6, <2>1, PartsNext DEF ReferrersOnward, Lists, ReferrersSound
  <2>2. CASE referrers.at # Last
    <3>1. Onward(referrers.at) \in Origin
      BY <1>3, <2>2, OnwardIsOrigin
    <3>2. referrers' = Restart(referrers)
      BY <1>6, <2>2 DEF ReferrersOnward
    <3> {} \in SUBSET (Origin \X (1..MaxPages)) /\ 1 \in 1..MaxPages
      OBVIOUS
    <3>3. Restart(referrers) \in [pc : {"idle", "get", "done", "failed"}, at : Origin,
                                  page : 1..MaxPages, out : SUBSET (Origin \X (1..MaxPages))]
          /\ Restart(referrers).pc = "get" /\ Restart(referrers).page = 1
          /\ Restart(referrers).out = {}
      BY <1>1, <3>1 DEF Lists, Restart
    <3>4. {Restart(referrers).at} \X (1..(1 - 1)) = {}
      OBVIOUS
    <3>5. Lists'
      BY <3>2, <3>3, <3>4 DEF Lists, ReferrersSound
    <3> QED BY <1>2, <3>5, PartsNext
  <2> QED BY <2>1, <2>2
<1>7. CASE ReferrersStop
  BY <1>1, <1>2, <1>7, PartsNext DEF ReferrersStop, Lists, ReferrersSound
<1> QED BY <1>4, <1>5, <1>6, <1>7

-----------------------------------------------------------------------------
(* Reading a blob. *)

LEMMA NoBodySound == NoBody \in [open : BOOLEAN, next : 0..Length, last : 0..Length, clean : BOOLEAN]
                     /\ ~NoBody.open
BY DEF NoBody

(* To stop, to go on to the next origin and to read on from where the reader *)
(* is, leave what was given as it was.                                       *)
LEMMA EndedSound ==
  ASSUME Inv, NEW pc \in {"ended", "failed"}, Ended(pc),
         pc = "ended" => (reader.sized => reader.pos >= Length)
  PROVE  Inv'
<1>1. Moved /\ Manifests /\ Lists /\ Blobs
  BY Parts
<1>2. Moved' /\ Manifests' /\ Lists'
  BY <1>1, MovedKept, ManifestsKept, ListsKept DEF Ended, origins
<1>3. Blobs'
  BY <1>1, NoBodySound DEF Blobs, BodySound, BytesInOrder, EndsWhole, Ended
<1> QED BY <1>2, <1>3, PartsNext

LEMMA BrokenSound ==
  ASSUME Inv, Broken, reader.pc # "ended"
  PROVE  Inv'
<1>1. Moved /\ Manifests /\ Lists /\ Blobs
  BY Parts
<1>2. Moved' /\ Manifests' /\ Lists'
  BY <1>1, MovedKept, ManifestsKept, ListsKept DEF Broken, origins
<1>3. Blobs'
  BY <1>1, NoBodySound, OnwardIsOrigin DEF Blobs, BodySound, BytesInOrder, EndsWhole, Broken
<1> QED BY <1>2, <1>3, PartsNext

LEMMA ReadOnSound ==
  ASSUME Inv, NEW next \in 0..Length, NEW last \in 0..Length, NEW clean \in BOOLEAN,
         ReadOnFrom(next, last, clean), next = reader.pos, next <= last
  PROVE  Inv'
<1>1. Moved /\ Manifests /\ Lists /\ Blobs
  BY Parts
<1>2. Moved' /\ Manifests' /\ Lists'
  BY <1>1, MovedKept, ManifestsKept, ListsKept DEF ReadOnFrom, origins
<1>3. Blobs'
  BY <1>1 DEF Blobs, BodySound, BytesInOrder, EndsWhole, ReadOnFrom
<1> QED BY <1>2, <1>3, PartsNext

LEMMA OpenedSound ==
  ASSUME Inv, NEW sized \in BOOLEAN, NEW last \in 0..Length, NEW clean \in BOOLEAN,
         Opened(sized, last, clean)
  PROVE  Inv'
<1>1. Moved /\ Manifests /\ Lists /\ Blobs
  BY Parts
<1>2. Moved' /\ Manifests' /\ Lists'
  BY <1>1, MovedKept, ManifestsKept, ListsKept DEF Opened, origins
<1>3. Blobs'
  <2>1. reader' = [reader EXCEPT !.pc = "open", !.sized = sized]
        /\ body' = [open |-> TRUE, next |-> 0, last |-> last, clean |-> clean]
    BY DEF Opened
  <2>2. reader' \in [pc : {"idle", "opening", "open", "ended", "failed"}, at : Origin,
                     sized : BOOLEAN, pos : 0..Length]
        /\ reader'.pc = "open" /\ reader'.pos = 0 /\ reader.pos = 0
    BY <1>1, <2>1 DEF Blobs, BodySound, Opened
  <2>3. body' \in [open : BOOLEAN, next : 0..Length, last : 0..Length, clean : BOOLEAN]
    BY <2>1
  <2>4. got' = got /\ from' = from /\ seeks' = seeks /\ from = 0
    BY <1>1, <2>2 DEF Opened, Blobs
  <2>5. BodySound' /\ BytesInOrder' /\ EndsWhole'
    BY <2>1, <2>2, <2>4 DEF BodySound, BytesInOrder, EndsWhole
  <2> QED BY <1>1, <2>2, <2>3, <2>4, <2>5 DEF Blobs
<1> QED BY <1>2, <1>3, PartsNext

(* A read gives the bytes the body has next, at the position it had. *)
LEMMA ReadSomeSound ==
  ASSUME Inv, NEW n \in 1..Length, ReadSome(n)
  PROVE  Inv'
<1>1. Moved /\ Manifests /\ Lists /\ Blobs
  BY Parts
<1>2. Moved' /\ Manifests' /\ Lists'
  BY <1>1, MovedKept, ManifestsKept, ListsKept DEF ReadSome, origins
<1>3. body.next = reader.pos /\ reader.pos \in 0..Length /\ body.last \in 0..Length
      /\ reader.pos + n <= body.last /\ reader.pos + n \in 0..Length
      /\ from \in 0..Length /\ from <= reader.pos
  BY <1>1 DEF ReadSome, Blobs, BodySound
<1>4. reader' = [reader EXCEPT !.pos = reader.pos + n] /\ body' = [body EXCEPT !.next = body.next + n]
  BY DEF ReadSome
<1>5. reader' \in [pc : {"idle", "opening", "open", "ended", "failed"}, at : Origin,
                   sized : BOOLEAN, pos : 0..Length]
      /\ reader'.pos = reader.pos + n /\ reader'.pc = "open"
  BY <1>1, <1>3, <1>4 DEF Blobs, ReadSome
<1>6. body' \in [open : BOOLEAN, next : 0..Length, last : 0..Length, clean : BOOLEAN]
      /\ body'.next = reader'.pos /\ body'.last = body.last
  BY <1>1, <1>3, <1>4, <1>5 DEF Blobs
<1>7. \A i \in Byte : got'[i] = IF i \in reader.pos..(reader.pos + n - 1) THEN i ELSE got[i]
  BY <1>3 DEF ReadSome, Byte
<1>8. got' \in [Byte -> Byte \cup {None}]
  <2>1. got' = [i \in Byte |-> got'[i]]
    BY DEF ReadSome
  <2>2. \A i \in Byte : got'[i] \in Byte \cup {None}
    BY <1>1, <1>7 DEF Blobs
  <2> QED BY <2>1, <2>2
<1>9. BytesInOrder'
  <2>0. from' = from /\ reader'.pos = reader.pos + n
    BY <1>5 DEF ReadSome
  <2> SUFFICES ASSUME NEW i \in from'..(reader'.pos - 1)
               PROVE  got'[i] = i
    BY DEF BytesInOrder
  <2>a. i \in from..(reader.pos + n - 1)
    BY <2>0, <1>3
  <2>1. i \in Byte
    BY <1>3, <2>a DEF Byte
  <2>2. CASE i < reader.pos
    <3>1. i \in from..(reader.pos - 1)
      BY <1>3, <2>a, <2>2
    <3>2. got[i] = i
      BY <1>1, <3>1 DEF Blobs, BytesInOrder
    <3> QED BY <1>3, <1>7, <2>1, <2>2, <3>2
  <2>3. CASE i >= reader.pos
    BY <1>3, <1>7, <2>a, <2>1, <2>3
  <2> QED BY <1>3, <2>1, <2>2, <2>3 DEF Byte
<1>10. Blobs'
  <2>1. from' = from /\ seeks' = seeks
    BY DEF ReadSome
  <2>2. BodySound' /\ EndsWhole'
    BY <1>3, <1>5, <1>6 DEF BodySound, EndsWhole
  <2> QED BY <1>1, <1>3, <1>5, <1>6, <1>8, <1>9, <2>1, <2>2 DEF Blobs
<1> QED BY <1>2, <1>10, PartsNext

(* An end of what was read leaves the body where it is. *)
LEMMA EndedHereSound ==
  ASSUME Inv, EndedHere, reader.sized => reader.pos >= Length
  PROVE  Inv'
<1>1. Moved /\ Manifests /\ Lists /\ Blobs
  BY Parts
<1>2. Moved' /\ Manifests' /\ Lists'
  BY <1>1, MovedKept, ManifestsKept, ListsKept DEF EndedHere, origins
<1>3. Blobs'
  BY <1>1 DEF EndedHere, Blobs, BodySound, BytesInOrder, EndsWhole
<1> QED BY <1>2, <1>3, PartsNext

(* A body that goes on from an origin's answer to a range begins where the   *)
(* reader is, or is refused; one that comes whole is skipped that far.       *)
LEMMA ReadStep ==
  ASSUME Inv,
         \/ \E sized, clean \in BOOLEAN, last \in 0..Length : Opened(sized, last, clean)
         \/ \E clean \in BOOLEAN, start, last \in 0..Length : ResumePartial(start, last, clean)
         \/ \E clean \in BOOLEAN, last \in 0..Length : ResumeWhole(last, clean)
         \/ \E clean \in BOOLEAN : ResumeShort(clean)
         \/ \E n \in 1..Length : ReadSome(n)
         \/ ReadOut \/ ReadAtEnd \/ ReadOnward \/ ReadStop
  PROVE  Inv'
<1>1. ASSUME NEW sized \in BOOLEAN, NEW clean \in BOOLEAN, NEW last \in 0..Length,
             Opened(sized, last, clean)
      PROVE  Inv'
  BY <1>1, OpenedSound
<1>2. ASSUME NEW clean \in BOOLEAN, NEW start \in 0..Length, NEW last \in 0..Length,
             ResumePartial(start, last, clean)
      PROVE  Inv'
  <2>1. CASE RightStart(start)
    BY <1>2, <2>1, ReadOnSound DEF ResumePartial, RightStart
  <2>2. CASE ~RightStart(start)
    BY <1>2, <2>2, EndedSound DEF ResumePartial
  <2> QED BY <2>1, <2>2
<1>3. ASSUME NEW clean \in BOOLEAN, NEW last \in 0..Length, ResumeWhole(last, clean)
      PROVE  Inv'
  <2>1. Skipped \in 0..Length /\ Skipped = reader.pos
    BY Parts DEF Skipped, Blobs
  <2> QED BY <1>3, <2>1, ReadOnSound DEF ResumeWhole
<1>4. ASSUME NEW clean \in BOOLEAN, ResumeShort(clean)
      PROVE  Inv'
  <2>1. CASE IsEnd(clean)
    BY <1>4, <2>1, EndedSound DEF ResumeShort, IsEnd
  <2>2. CASE ~IsEnd(clean)
    BY <1>4, <2>2, BrokenSound DEF ResumeShort, Resuming
  <2> QED BY <2>1, <2>2
<1>5. ASSUME NEW n \in 1..Length, ReadSome(n)
      PROVE  Inv'
  BY <1>5, ReadSomeSound
<1>6. CASE ReadOut
  <2>1. CASE IsEnd(body.clean)
    BY <1>6, <2>1, EndedHereSound DEF ReadOut, IsEnd
  <2>2. CASE ~IsEnd(body.clean)
    BY <1>6, <2>2, BrokenSound DEF ReadOut
  <2> QED BY <2>1, <2>2
<1>7. CASE ReadAtEnd
  BY <1>7, EndedHereSound DEF ReadAtEnd, AtEnd
<1>8. CASE ReadOnward
  BY <1>8, BrokenSound DEF ReadOnward, Resuming
<1>9. CASE ReadStop
  BY <1>9, EndedSound DEF ReadStop
<1> QED BY <1>1, <1>2, <1>3, <1>4, <1>5, <1>6, <1>7, <1>8, <1>9

(* A seek that moves drops the body: what is read next is asked for anew.    *)
LEMMA SeekSound ==
  ASSUME Inv, NEW p \in 0..Length, Seek(p)
  PROVE  Inv'
<1>1. Moved /\ Manifests /\ Lists /\ Blobs
  BY Parts
<1>2. Moved' /\ Manifests' /\ Lists'
  BY <1>1, MovedKept, ManifestsKept, ListsKept DEF Seek, origins
<1>3. reader' \in [pc : {"idle", "opening", "open", "ended", "failed"}, at : Origin,
                   sized : BOOLEAN, pos : 0..Length]
      /\ reader'.pc = "open" /\ reader'.pos = p
  BY <1>1 DEF Seek, Blobs
<1>4. body' \in [open : BOOLEAN, next : 0..Length, last : 0..Length, clean : BOOLEAN]
      /\ (body'.open => body'.next = p /\ body'.next <= body'.last)
  BY <1>1, NoBodySound DEF Seek, Blobs, BodySound
<1>5. got' \in [Byte -> Byte \cup {None}] /\ from' = p /\ seeks' \in 0..MaxSeeks
  BY <1>1 DEF Seek, Nothing, Blobs
<1>6. BodySound' /\ BytesInOrder' /\ EndsWhole'
  BY <1>3, <1>4, <1>5 DEF BodySound, BytesInOrder, EndsWhole
<1>7. Blobs'
  BY <1>3, <1>4, <1>5, <1>6 DEF Blobs
<1> QED BY <1>2, <1>7, PartsNext

(* A reader that is not there, or has given nothing, is sound. *)
LEMMA FreshSound ==
  ASSUME reader' \in [pc : {"idle", "opening"}, at : Origin, sized : BOOLEAN, pos : {0}],
         body' = NoBody, got' = Nothing, from' = 0, seeks' \in 0..MaxSeeks
  PROVE  Blobs'
<1>1. reader' \in [pc : {"idle", "opening", "open", "ended", "failed"}, at : Origin,
                   sized : BOOLEAN, pos : 0..Length]
      /\ reader'.pos = 0 /\ reader'.pc # "ended"
  OBVIOUS
<1>2. got' \in [Byte -> Byte \cup {None}]
  BY DEF Nothing
<1>3. BodySound' /\ BytesInOrder' /\ EndsWhole'
  BY <1>1, NoBodySound DEF BodySound, BytesInOrder, EndsWhole
<1> QED BY <1>1, <1>2, <1>3, NoBodySound DEF Blobs

LEMMA NoReaderIdle ==
  /\ NoReader \in [pc : {"idle", "opening"}, at : Origin, sized : BOOLEAN, pos : {0}]
  /\ [NoReader EXCEPT !.pc = "opening"]
       \in [pc : {"idle", "opening"}, at : Origin, sized : BOOLEAN, pos : {0}]
<1>1. 1 \in Origin
  BY DEF Origin
<1>2. NoReader \in [pc : {"idle", "opening"}, at : Origin, sized : BOOLEAN, pos : {0}]
  BY <1>1 DEF NoReader
<1> QED BY <1>2

LEMMA BeginSound ==
  ASSUME Inv, Begin
  PROVE  Inv'
<1>1. Moved /\ Manifests /\ Lists /\ Blobs
  BY Parts
<1>2. CASE GetTag
  <2>1. Moved' /\ Lists' /\ Blobs'
    BY <1>1, <1>2, MovedKept, ListsReset, BlobsKept DEF GetTag, origins
  <2>2. Manifests'
    BY <1>2 DEF GetTag, Manifests, ManifestSound, NoManifest, Origin
  <2> QED BY <2>1, <2>2, PartsNext
<1>3. ASSUME NEW d \in Digest, GetDigest(d)
      PROVE  Inv'
  <2>1. Moved' /\ Lists' /\ Blobs'
    BY <1>1, <1>3, MovedKept, ListsReset, BlobsKept DEF GetDigest, origins
  <2>2. manifest' = [pc |-> "get", at |-> 1, reference |-> d, answer |-> None] /\ told' = None
    BY <1>3 DEF GetDigest, NoManifest
  <2>3. 1 \in Origin
    BY DEF Origin
  <2>4. Manifests'
    BY <2>2, <2>3 DEF Manifests, ManifestSound
  <2> QED BY <2>1, <2>4, PartsNext
<1>4. CASE GetReferrers
  <2>1. Moved' /\ Manifests' /\ Blobs'
    BY <1>1, <1>4, MovedKept, ManifestsReset, BlobsKept DEF GetReferrers, origins
  <2>2. referrers' = [NoReferrers EXCEPT !.pc = "get"]
    BY <1>4 DEF GetReferrers
  <2>3. {1} \X (1..(1 - 1)) = {}
    OBVIOUS
  <2>4. Lists'
    BY <2>2, <2>3 DEF Lists, ReferrersSound, NoReferrers, Origin
  <2> QED BY <2>1, <2>4, PartsNext
<1>5. CASE OpenBlob
  <2>1. Moved' /\ Manifests' /\ Lists'
    BY <1>1, <1>5, MovedKept, ManifestsReset, ListsReset DEF OpenBlob, origins
  <2>2. Blobs'
    BY <1>1, <1>5, FreshSound, NoReaderIdle DEF OpenBlob, Blobs
  <2> QED BY <2>1, <2>2, PartsNext
<1> QED BY <1>2, <1>3, <1>4, <1>5 DEF Begin

LEMMA InitSound == Init => Inv
<1> SUFFICES ASSUME Init PROVE Inv
  OBVIOUS
<1>1. Moved
  BY DEF Init, Moved
<1>2. Manifests
  BY DEF Init, Manifests, ManifestSound, NoManifest, Origin
<1>3. Lists
  BY DEF Init, Lists, ReferrersSound, NoReferrers, Origin
<1>4. reader \in [pc : {"idle", "opening", "open", "ended", "failed"}, at : Origin,
                  sized : BOOLEAN, pos : 0..Length] /\ reader.pos = 0 /\ reader.pc = "idle"
  BY DEF Init, NoReader, Origin
<1>5. Blobs
  BY <1>4, NoBodySound DEF Init, Blobs, BodySound, BytesInOrder, EndsWhole, Nothing
<1> QED BY <1>1, <1>2, <1>3, <1>5, Parts

LEMMA InvStep == Inv /\ [Next]_vars => Inv'
<1> SUFFICES ASSUME Inv, [Next]_vars PROVE Inv'
  OBVIOUS
<1>1. Moved /\ Manifests /\ Lists /\ Blobs
  BY Parts
<1>2. ASSUME NEW o \in Origin, NEW d \in Digest \cup {None}, Move(o, d)
      PROVE  Inv'
  <2>1. Moved'
    BY <1>1, <1>2 DEF Move, Moved
  <2>2. Manifests' /\ Lists' /\ Blobs'
    BY <1>1, <1>2, ManifestsKept, ListsKept, BlobsKept DEF Move
  <2> QED BY <2>1, <2>2, PartsNext
<1>3. CASE Begin
  BY <1>3, BeginSound
<1>4. CASE GoesOn
  BY <1>4, ManifestStep, ReferrersStep, ReadStep DEF GoesOn
<1>5. ASSUME NEW p \in 0..Length, Seek(p)
      PROVE  Inv'
  BY <1>5, SeekSound
<1>6. CASE Close
  <2>1. Moved' /\ Manifests' /\ Lists'
    BY <1>1, <1>6, MovedKept, ManifestsKept, ListsKept DEF Close, origins
  <2>2. Blobs'
    BY <1>1, <1>6, FreshSound, NoReaderIdle DEF Close, Blobs
  <2> QED BY <2>1, <2>2, PartsNext
<1>7. CASE UNCHANGED vars
  <2>1. Moved' /\ Manifests' /\ Lists' /\ Blobs'
    BY <1>1, <1>7, MovedKept, ManifestsKept, ListsKept, BlobsKept DEF vars
  <2> QED BY <2>1, PartsNext
<1> QED BY <1>2, <1>3, <1>4, <1>5, <1>6, <1>7 DEF Next

(* Whatever breaks off, whoever answers and whatever moves meanwhile, the   *)
(* calls of blob/upstreams.go keep what Inv says of them.                   *)
THEOREM Soundness == Spec => []Inv
BY InitSound, InvStep, PTL DEF Spec

(* What is answered for a tag is what one origin said of it, and a list is   *)
(* one origin's: GetManifest and Referrers never mix two.                    *)
THEOREM AnswersOfOneOrigin == Spec => []OfOneOrigin
<1>1. Inv => OfOneOrigin
  BY DEF Inv
<1> QED BY <1>1, Soundness, PTL

(* upstreamReader.Read gives a blob's bytes in order, none twice and none    *)
(* skipped, over any number of failovers and seeks.                          *)
THEOREM BytesComeInOrder == Spec => []BytesInOrder
<1>1. Inv => BytesInOrder
  BY DEF Inv
<1> QED BY <1>1, Soundness, PTL

(* A blob whose length an origin said is never taken for ended before it.    *)
THEOREM BlobsEndWhole == Spec => []EndsWhole
<1>1. Inv => EndsWhole
  BY DEF Inv
<1> QED BY <1>1, Soundness, PTL

=============================================================================
