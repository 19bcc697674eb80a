------------------------------ MODULE Uploads ------------------------------
(***************************************************************************)
(* A client that pushes one blob (registry/blobs.go:164-561): in a         *)
(* request, by a mount, or in chunks to a session that it goes on with     *)
(* when an answer is lost, while the request it gave up on may still be    *)
(* running.  Sessions outlive requests and processes, and expire.          *)
(*                                                                         *)
(* External are the client, and the store's stages (flob): an append is    *)
(* refused unless the stage holds as much as it expects, and one that      *)
(* breaks off leaves some of what it brought; a commit verifies; what else *)
(* touches a stage in use waits, or is refused.                            *)
(*                                                                         *)
(* A blob is pieces 0..Length - 1.  Of what a stage holds only its length  *)
(* and whether it is the blob's beginning are kept.                        *)
(***************************************************************************)
EXTENDS Integers

CONSTANTS
  Session,     \* uploads the client may begin
  Request,     \* requests in flight
  None,
  Length,      \* of the blob, in pieces
  Unit,        \* bytes to a piece
  MaxFailures  \* bounds crashes, broken bodies and answers that are lost

ASSUME UploadsAssumption ==
  /\ Session # {}
  /\ None \notin Session \cup Request
  /\ Length \in Nat \ {0}
  /\ Unit \in Nat \ {0}
  /\ MaxFailures \in Nat

VARIABLES
  push,      \* what the client wants: how it names the digest, and how it sends
  client,
  sessions,
  requests,
  stored,    \* whether the repository's store has the blob
  failures

vars == <<push, client, sessions, requests, stored, failures>>

Free == [pc |-> "free", kind |-> "none", session |-> None, start |-> 0, stop |-> 0,
         at |-> 0, expected |-> 0, code |-> "NONE", range |-> 0, again |-> FALSE]

(* "rehash" and after: the session's bytes are published under the digest   *)
(* it computed, and are read back in under the client's.                    *)
PushState == [honest : BOOLEAN,  \* the digest is that of what is sent
              named : BOOLEAN,   \* sessions hash with its algorithm
              ranged : BOOLEAN]  \* chunks have a Content-Range

ClientState == [pc : {"idle", "ready", "waiting", "unsure", "done", "failed"},
                session : Session \cup {None}, at : Int,
                request : Request \cup {None},
                put : {None} \cup (0..Length)]  \* where its final chunk began

SessionState == [state : {"none", "active", "digest", "own", "gone"},
                 held : Nat, ordered : BOOLEAN, busy : Request \cup {None}]

(* What is answered: 201, 202, an error by its code, 416 with the range it   *)
(* has, and 500.  UPLOAD_INVALID, of a stage in use, is a 400 as             *)
(* DIGEST_INVALID is.                                                       *)
Codes ==
  {"NONE", "CREATED", "ACCEPTED", "DIGEST_INVALID", "UPLOAD_UNKNOWN", "UPLOAD_INVALID",
   "RANGE", "ERROR"}

RequestState ==
  [pc : {"free", "resume", "stat", "append", "range", "body", "commit", "mismatch", "rehash",
         "reopen", "add", "link", "open", "copy", "answered"},
   kind : {"none", "post", "mount", "patch", "put"}, session : Session \cup {None},
   start : 0..Length, stop : 0..Length, at : 0..Length, expected : Nat,
   code : Codes, range : Int, again : BOOLEAN]

TypeOK ==
  /\ push \in PushState
  /\ client \in ClientState
  /\ sessions \in [Session -> SessionState]
  /\ requests \in [Request -> RequestState]
  /\ stored \in BOOLEAN
  /\ failures \in 0..MaxFailures

Init ==
  /\ push \in PushState
  /\ client = [pc |-> "idle", session |-> None, at |-> 0, request |-> None, put |-> None]
  /\ sessions = [s \in Session |-> [state |-> "none", held |-> 0, ordered |-> TRUE, busy |-> None]]
  /\ requests = [q \in Request |-> Free]
  /\ stored = FALSE
  /\ failures = 0

(* A stage holds what the client's digest names. *)
Matches(s) == push.honest /\ push.named /\ sessions[s].ordered /\ sessions[s].held = Length

-----------------------------------------------------------------------------
(* The store's stages: what they answer. *)

(* Begin makes a session that was not there; which one is no matter. *)
Unbegun == {s \in Session : sessions[s].state = "none"}
NewSession == CHOOSE s \in Unbegun : TRUE

Known(s)  == sessions[s].state \in {"active", "digest", "own"}
Active(s) == sessions[s].state = "active"

(* The answer goes to who waits for it. *)
Answered(r, code, range) ==
  [r EXCEPT !.pc = "answered", !.code = code, !.range = range, !.at = 0, !.expected = 0]

Answer(q, code, range) ==
  requests' = [requests EXCEPT ![q] =
    IF client.request = q THEN Answered(requests[q], code, range) ELSE Free]

Goes(q, pc) == requests' = [requests EXCEPT ![q].pc = pc]

(* rangeOf: the last byte, and "0-0" for none; and the piece one who reads  *)
(* it goes on from.                                                         *)
RangeOfNone(held) == 0
ResumedFromLast(last) == last \div Unit
RangeOf(held) == IF held = 0 THEN 0 ELSE held * Unit - 1
ResumedFrom(last) == IF last = 0 THEN 0 ELSE (last + 1) \div Unit

-----------------------------------------------------------------------------
(* Chunks: patchUpload, putUpload. *)

(* resume.  A session that is not there, expired or was forgotten. *)
Resume(q) ==
  /\ requests[q].pc = "resume"
  /\ LET r == requests[q] IN
     IF ~Known(r.session) THEN Answer(q, "UPLOAD_UNKNOWN", 0)
     ELSE Goes(q, IF r.kind = "put" /\ r.start = r.stop THEN "commit" ELSE "stat")
  /\ UNCHANGED <<push, client, sessions, stored, failures>>

(* appendBody.  A Content-Range says what the session must hold; without    *)
(* one it is what it holds, if it is still open.                            *)
ExpectedAsHeld(r) == sessions[r.session].held
Expected(r) == IF push.ranged THEN r.start ELSE sessions[r.session].held

Expect(q) ==
  /\ requests[q].pc = "stat"
  /\ LET r == requests[q] IN
     IF ~push.ranged /\ ~Active(r.session) THEN Answer(q, "UPLOAD_UNKNOWN", 0)
     ELSE requests' = [requests EXCEPT ![q] = [r EXCEPT !.pc = "append", !.expected = Expected(r)]]
  /\ UNCHANGED <<push, client, sessions, stored, failures>>

AppendBegin(q) ==
  /\ requests[q].pc = "append"
  /\ LET r == requests[q] s == r.session IN
     \/ /\ ~Active(s)
        /\ Answer(q, "UPLOAD_UNKNOWN", 0)
        /\ UNCHANGED sessions
     \/ /\ Active(s) /\ sessions[s].busy # None
        /\ Answer(q, "UPLOAD_INVALID", 0)
        /\ UNCHANGED sessions
     \/ /\ Active(s) /\ sessions[s].busy = None
        /\ IF sessions[s].held # r.expected
           THEN Goes(q, "range") /\ UNCHANGED sessions
           ELSE /\ requests' = [requests EXCEPT ![q] = [r EXCEPT !.pc = "body", !.at = r.start]]
                /\ sessions' = [sessions EXCEPT ![s] = [sessions[s] EXCEPT !.busy = q]]
  /\ UNCHANGED <<push, client, stored, failures>>

(* outOfRange looks again: the range is what the session holds by then. *)
OutOfRange(q) ==
  /\ requests[q].pc = "range"
  /\ LET s == requests[q].session IN
     IF Known(s) THEN Answer(q, "RANGE", RangeOf(sessions[s].held))
     ELSE Answer(q, "UPLOAD_UNKNOWN", 0)
  /\ UNCHANGED <<push, client, sessions, stored, failures>>

Extended(n, at) == [n EXCEPT !.held = n.held + 1, !.ordered = n.ordered /\ at = n.held]

AppendPiece(q) ==
  /\ requests[q].pc = "body"
  /\ requests[q].at < requests[q].stop
  /\ LET r == requests[q] s == r.session IN
     /\ requests' = [requests EXCEPT ![q] = [r EXCEPT !.at = r.at + 1]]
     /\ sessions' = [sessions EXCEPT ![s] = Extended(sessions[s], r.at)]
  /\ UNCHANGED <<push, client, stored, failures>>

AppendEnd(q) ==
  /\ requests[q].pc = "body"
  /\ requests[q].at = requests[q].stop
  /\ LET r == requests[q] s == r.session IN
     /\ sessions' = [sessions EXCEPT ![s] = [sessions[s] EXCEPT !.busy = None]]
     /\ IF r.kind = "put" THEN Goes(q, "commit")
        ELSE Answer(q, "ACCEPTED", RangeOf(sessions[s].held))
  /\ UNCHANGED <<push, client, stored, failures>>

(* Its body breaks off, at once when nobody waits for it.  What came may    *)
(* not all be kept.                                                         *)
Kept(s, n) == [sessions EXCEPT ![s] = [sessions[s] EXCEPT !.held = n, !.busy = None]]

AppendBreak(q, n) ==
  /\ requests[q].pc = "body"
  /\ n \in requests[q].expected..sessions[requests[q].session].held
  /\ IF client.request = q
     THEN failures < MaxFailures /\ failures' = failures + 1
     ELSE UNCHANGED failures
  /\ Answer(q, "ERROR", 0)
  /\ sessions' = Kept(requests[q].session, n)
  /\ UNCHANGED <<push, client, stored>>

(* Commit publishes what it verified, and says so again while it remembers. *)
(* A mismatch leaves the session as it was.                                 *)
CommitOnce(q) ==
  /\ requests[q].pc = "commit"
  /\ LET s == requests[q].session IN
     \/ ~Active(s) /\ Answer(q, "UPLOAD_UNKNOWN", 0) /\ UNCHANGED <<sessions, stored>>
     \/ /\ Active(s) /\ Matches(s)
        /\ Answer(q, "CREATED", 0)
        /\ stored' = TRUE
        /\ sessions' = [sessions EXCEPT ![s] = [sessions[s] EXCEPT !.state = "digest"]]
     \/ Active(s) /\ ~Matches(s) /\ Goes(q, "mismatch") /\ UNCHANGED <<sessions, stored>>
  /\ UNCHANGED <<push, client, failures>>

Commit(q) ==
  /\ requests[q].pc = "commit"
  /\ LET s == requests[q].session IN
     \/ /\ ~Known(s)
        /\ Answer(q, "UPLOAD_UNKNOWN", 0)
        /\ UNCHANGED <<sessions, stored>>
     \/ /\ sessions[s].state = "digest"
        /\ Answer(q, "CREATED", 0)
        /\ UNCHANGED <<sessions, stored>>
     \/ /\ sessions[s].state = "own"
        /\ Answer(q, "UPLOAD_UNKNOWN", 0) \/ Goes(q, "mismatch")
        /\ UNCHANGED <<sessions, stored>>
     \/ /\ Active(s) /\ sessions[s].busy # None
        /\ Answer(q, "UPLOAD_INVALID", 0)
        /\ UNCHANGED <<sessions, stored>>
     \/ /\ Active(s) /\ sessions[s].busy = None /\ Matches(s)
        /\ Answer(q, "CREATED", 0)
        /\ stored' = TRUE
        /\ sessions' = [sessions EXCEPT ![s] = [sessions[s] EXCEPT !.state = "digest"]]
     \/ /\ Active(s) /\ sessions[s].busy = None /\ ~Matches(s)
        /\ Goes(q, "mismatch")
        /\ UNCHANGED <<sessions, stored>>
  /\ UNCHANGED <<push, client, failures>>

(* It may only be the algorithm, if the session is still open. *)
MismatchFinal(q) ==
  /\ requests[q].pc = "mismatch"
  /\ Answer(q, "DIGEST_INVALID", 0)
  /\ UNCHANGED <<push, client, sessions, stored, failures>>

Mismatch(q) ==
  /\ requests[q].pc = "mismatch"
  /\ IF Active(requests[q].session) /\ ~push.named THEN Goes(q, "rehash")
     ELSE Answer(q, "DIGEST_INVALID", 0)
  /\ UNCHANGED <<push, client, sessions, stored, failures>>

(* rehash: the session ends here, before its bytes are read back in. *)
Rehash(q) ==
  /\ requests[q].pc = "rehash"
  /\ LET s == requests[q].session IN
     \/ /\ Active(s) /\ sessions[s].busy = None
        /\ sessions' = [sessions EXCEPT ![s] = [sessions[s] EXCEPT !.state = "own"]]
        /\ Goes(q, "reopen")
     \/ /\ Active(s) => sessions[s].busy # None
        /\ Answer(q, IF Active(s) THEN "UPLOAD_INVALID" ELSE "UPLOAD_UNKNOWN", 0)
        /\ UNCHANGED sessions
  /\ UNCHANGED <<push, client, stored, failures>>

Reopen(q) ==
  /\ requests[q].pc = "reopen"
  /\ Goes(q, "add")
  /\ UNCHANGED <<push, client, sessions, stored, failures>>

(* Add verifies, unless it is there already. *)
AddBytes(q, right) ==
  IF right \/ stored THEN Answer(q, "CREATED", 0) /\ stored' = TRUE
  ELSE Answer(q, "DIGEST_INVALID", 0) /\ UNCHANGED stored

AddedUnread(q) == Answer(q, "CREATED", 0) /\ UNCHANGED stored
Added(q) ==
  LET s == requests[q].session IN
  AddBytes(q, push.honest /\ sessions[s].ordered /\ sessions[s].held = Length)

Add(q) ==
  /\ requests[q].pc = "add"
  /\ IF requests[q].kind = "put" THEN Added(q) ELSE AddBytes(q, push.honest)
  /\ UNCHANGED <<push, client, sessions, failures>>

-----------------------------------------------------------------------------
(* Mounts.  A link is one step of the store; between stores it is a copy,   *)
(* from what was opened.  The repository it is mounted from may have the    *)
(* blob or not, at each look; what cannot be mounted becomes a session.     *)

BeginInstead(q, s) ==
  /\ sessions' = [sessions EXCEPT ![s].state = "active"]
  /\ requests' = [requests EXCEPT ![q] =
       IF client.request = q
       THEN [requests[q] EXCEPT !.pc = "answered", !.code = "ACCEPTED", !.session = s]
       ELSE Free]
  /\ UNCHANGED stored

Instead(q) ==
  \/ Unbegun # {} /\ BeginInstead(q, NewSession)
  \/ Unbegun = {} /\ Answer(q, "ERROR", 0) /\ UNCHANGED <<sessions, stored>>

Link(q) ==
  /\ requests[q].pc = "link"
  /\ \/ Answer(q, "CREATED", 0) /\ stored' = TRUE /\ UNCHANGED sessions
     \/ Instead(q)
     \/ Goes(q, "open") /\ UNCHANGED <<sessions, stored>>
  /\ UNCHANGED <<push, client, failures>>

Open(q) ==
  /\ requests[q].pc = "open"
  /\ \/ Goes(q, "copy") /\ UNCHANGED <<sessions, stored>>
     \/ Instead(q)
  /\ UNCHANGED <<push, client, failures>>

Copy(q) ==
  /\ requests[q].pc = "copy"
  /\ AddBytes(q, TRUE)
  /\ UNCHANGED <<push, client, sessions, failures>>

(* The store fails, between any two steps of a request; or what a rehash     *)
(* published was deleted before it is opened.                               *)
Fail(q) ==
  /\ requests[q].pc \notin {"free", "body", "answered"}
  /\ failures < MaxFailures
  /\ failures' = failures + 1
  /\ \/ Answer(q, "ERROR", 0)
     \/ requests[q].pc = "reopen" /\ Answer(q, "UPLOAD_UNKNOWN", 0)
  /\ UNCHANGED <<push, client, sessions, stored>>

-----------------------------------------------------------------------------
(* The client. *)

Unused == {q \in Request : requests[q].pc = "free"}

Send(q, kind, start, stop) ==
  /\ Unused # {}
  /\ q = CHOOSE r \in Unused : TRUE
  /\ requests' = [requests EXCEPT ![q] =
       [Free EXCEPT !.pc = CASE kind = "post" -> "add" [] kind = "mount" -> "link" [] OTHER -> "resume",
                    !.kind = kind, !.session = client.session, !.start = start, !.stop = stop,
                    !.again = client.session # None /\ sessions[client.session].state = "digest"]]

(* postUpload: for a session.  Its answer may be lost. *)
BeginUpload ==
  /\ client.pc = "idle"
  /\ Unbegun # {}
  /\ sessions' = [sessions EXCEPT ![NewSession].state = "active"]
  /\ \/ /\ client' = [client EXCEPT !.pc = "ready", !.session = NewSession, !.at = 0, !.put = None]
        /\ UNCHANGED failures
     \/ /\ failures < MaxFailures
        /\ failures' = failures + 1
        /\ UNCHANGED client
  /\ UNCHANGED <<push, requests, stored>>

Post(q, kind) ==
  /\ client.pc = "idle"
  /\ Unbegun # {}
  /\ Send(q, kind, 0, 0)
  /\ client' = [client EXCEPT !.pc = "waiting", !.request = q, !.put = None]
  /\ UNCHANGED <<push, sessions, stored, failures>>

(* A chunk that is not the last. *)
Patch(q, n) ==
  /\ client.pc = "ready"
  /\ client.at \in 0..(Length - n)
  /\ Send(q, "patch", client.at, client.at + n)
  /\ client' = [client EXCEPT !.pc = "waiting", !.request = q, !.put = None]
  /\ UNCHANGED <<push, sessions, stored, failures>>

(* The final request, with what is left or with nothing. *)
Put(q) ==
  /\ client.pc = "ready"
  /\ client.at \in 0..Length
  /\ Send(q, "put", client.at, Length)
  /\ client' = [client EXCEPT !.pc = "waiting", !.request = q, !.put = client.at]
  /\ UNCHANGED <<push, sessions, stored, failures>>

Receive(q) ==
  /\ client.pc = "waiting"
  /\ client.request = q
  /\ requests[q].pc = "answered"
  /\ LET code == requests[q].code
         resumed == [client EXCEPT !.pc = "ready", !.request = None,
                                   !.session = requests[q].session,
                                   !.at = IF push.ranged THEN ResumedFrom(requests[q].range)
                                          ELSE requests[q].stop]
         leaves(pc) == [client EXCEPT !.pc = pc, !.request = None, !.session = None,
                                    !.at = 0, !.put = None]
     IN client' =
          CASE code = "CREATED" -> leaves("done")
            [] code = "ACCEPTED" -> resumed
            [] code = "RANGE" -> IF push.ranged THEN resumed ELSE leaves("idle")
            [] code = "UPLOAD_UNKNOWN" -> leaves("idle")
            [] code = "DIGEST_INVALID" -> leaves("failed")
            [] OTHER -> [client EXCEPT !.pc = "unsure", !.request = None]
  /\ requests' = [requests EXCEPT ![q] = Free]
  /\ UNCHANGED <<push, sessions, stored, failures>>

(* It waits no longer, or the answer is lost.  The request goes on. *)
GiveUpOn(q) ==
  /\ client.pc = "waiting"
  /\ client.request = q
  /\ failures < MaxFailures
  /\ failures' = failures + 1
  /\ client' = [client EXCEPT !.pc = "unsure", !.request = None]
  /\ requests' = IF requests[q].pc = "answered" THEN [requests EXCEPT ![q] = Free] ELSE requests
  /\ UNCHANGED <<push, sessions, stored>>

(* The final request again, as it was. *)
PutAgain(q) ==
  /\ client.pc = "unsure"
  /\ client.session # None
  /\ client.put # None
  /\ Send(q, "put", client.put, Length)
  /\ client' = [client EXCEPT !.pc = "waiting", !.request = q]
  /\ UNCHANGED <<push, sessions, stored, failures>>

(* statUpload: the client goes on from there, or anew. *)
Ask ==
  /\ client.pc = "unsure"
  /\ LET s == client.session IN
     client' = IF s # None /\ Active(s) /\ push.ranged
               THEN [client EXCEPT !.pc = "ready", !.at = ResumedFrom(RangeOf(sessions[s].held))]
               ELSE [client EXCEPT !.pc = "idle", !.session = None, !.at = 0, !.put = None]
  /\ UNCHANGED <<push, sessions, requests, stored, failures>>

(* cancelUpload; and no more sessions to begin. *)
Cancel ==
  /\ client.pc \in {"ready", "unsure"}
  /\ client.session # None
  /\ LET s == client.session IN
     /\ sessions[s].busy = None
     /\ sessions' = IF Active(s) THEN [sessions EXCEPT ![s].state = "gone"] ELSE sessions
  /\ client' = [client EXCEPT !.pc = "failed", !.session = None, !.at = 0, !.put = None]
  /\ UNCHANGED <<push, requests, stored, failures>>

GiveUp ==
  /\ client.pc = "idle"
  /\ Unbegun = {}
  /\ client' = [client EXCEPT !.pc = "failed"]
  /\ UNCHANGED <<push, sessions, requests, stored, failures>>

-----------------------------------------------------------------------------
(* What goes on around it. *)

(* PruneStages: of sessions nobody appends to, and of answers kept. *)
Prune(s) ==
  /\ Known(s)
  /\ sessions[s].busy = None
  /\ sessions' = [sessions EXCEPT ![s].state = "gone"]
  /\ UNCHANGED <<push, client, requests, stored, failures>>

(* Somebody else pushes it. *)
Pushed ==
  /\ stored' = TRUE
  /\ UNCHANGED <<push, client, sessions, requests, failures>>

(* A process stops, and its requests with it. *)
Crash ==
  /\ failures < MaxFailures
  /\ failures' = failures + 1
  /\ requests' = [q \in Request |-> Free]
  /\ \E kept \in [Session -> 0..Length] :
       sessions' = [s \in Session |->
         IF sessions[s].busy = None THEN sessions[s]
         ELSE [sessions[s] EXCEPT !.busy = None,
                 !.held = IF kept[s] \in requests[sessions[s].busy].expected..sessions[s].held
                          THEN kept[s] ELSE sessions[s].held]]
  /\ client' = IF client.pc = "waiting"
               THEN [client EXCEPT !.pc = "unsure", !.request = None] ELSE client
  /\ UNCHANGED <<push, stored>>

-----------------------------------------------------------------------------
Handle(q) ==
  \/ Resume(q) \/ Expect(q) \/ AppendBegin(q) \/ OutOfRange(q)
  \/ AppendPiece(q) \/ AppendEnd(q)
  \/ Commit(q) \/ Mismatch(q) \/ Rehash(q) \/ Reopen(q) \/ Add(q)
  \/ Link(q) \/ Open(q) \/ Copy(q)

GoOn ==
  \/ BeginUpload
  \/ \E q \in Request : Put(q) \/ Receive(q) \/ PutAgain(q) \/ \E n \in 1..Length : Patch(q, n)
  \/ Ask
  \/ GiveUp

Next ==
  \/ GoOn
  \/ \E q \in Request : Handle(q)
  \/ \E q \in Request : Fail(q) \/ GiveUpOn(q)
  \/ \E q \in Request, n \in 0..Length : AppendBreak(q, n)
  \/ \E q \in Request, kind \in {"post", "mount"} : Post(q, kind)
  \/ Cancel
  \/ \E s \in Session : Prune(s)
  \/ Pushed \/ Crash

Spec == Init /\ [][Next]_vars

(* Requests are served, and the client goes on. *)
FairSpec == Spec /\ WF_vars(GoOn) /\ \A q \in Request : WF_vars(Handle(q))

-----------------------------------------------------------------------------
(* Properties. *)

(* Chunks that say where they belong make a session the blob's beginning:   *)
(* none is missing and none is in it twice, whatever breaks off, is sent    *)
(* again or still runs (registry/blobs.go:413-465).                         *)
SessionsInOrder ==
  push.ranged => \A s \in Session : sessions[s].ordered /\ sessions[s].held <= Length

(* Who is told that a blob was created can be sure that it is there, though *)
(* a session that hashed otherwise first publishes something else           *)
(* (registry/blobs.go:498-547).                                             *)
CreatedStored ==
  /\ client.pc = "done" => stored
  /\ \A q \in Request : requests[q].pc = "answered" /\ requests[q].code = "CREATED" => stored

(* "a final `PUT` that is retried gets the same answer for                  *)
(* `upload.retention`" (docs/registry-api.md:57-59): when its session was   *)
(* committed before, and is remembered.                                     *)
Retried(q) ==
  /\ requests[q].pc = "answered"
  /\ requests[q].kind = "put"
  /\ requests[q].again
  /\ requests[q].code # "ERROR"
  /\ sessions[requests[q].session].state = "digest"

RetriedSame == \A q \in Request : Retried(q) => requests[q].code = "CREATED"

(* It is when it brings nothing to append. *)
EmptyRetriedSame ==
  \A q \in Request :
    Retried(q) /\ requests[q].start = requests[q].stop => requests[q].code = "CREATED"

(* One who sends the right bytes is refused only after something failed, or *)
(* the session was cancelled or expired, however late it names its          *)
(* algorithm (registry/blobs.go:499-506).                                   *)
RightIsTaken ==
  client.pc = "failed" /\ push.honest =>
    failures > 0 \/ \E s \in Session : sessions[s].state = "gone"

(* Why: while nothing goes wrong the client's only request is the one it    *)
(* waits for, and it goes on from what its session holds.                   *)
Calm == push.honest /\ failures = 0 /\ \A s \in Session : sessions[s].state # "gone"

Continues(stage, ranged, at) ==
  /\ stage.state = "active"
  /\ stage.busy = None
  /\ stage.ordered
  /\ at = stage.held \/ (ranged /\ at = 0)

Resumable(s, at) == s \in Session /\ Continues(sessions[s], push.ranged, at)

(* Chunks sent from the wrong place are refused, and the client told better. *)
RightSoFar(q) ==
  LET r == requests[q] s == r.session IN
  /\ r.pc \in {"resume", "stat", "append"} => Resumable(s, r.start)
  /\ r.pc = "append" => r.expected = r.start
  /\ r.pc = "range" => push.ranged /\ Resumable(s, 0)
  /\ r.pc = "body" => sessions[s].ordered /\ r.at = sessions[s].held
  /\ r.pc \in {"commit", "mismatch", "rehash"} => r.kind = "put" /\ Resumable(s, Length)
  /\ r.pc \in {"mismatch", "rehash"} => ~push.named
  /\ r.kind = "put" => r.stop = Length
  /\ r.pc \in {"reopen", "add"} /\ r.kind = "put" =>
       sessions[s].ordered /\ sessions[s].held = Length
  /\ r.pc \in {"link", "open"} => Unbegun # {} /\ r.range = 0 /\ r.stop = 0
  /\ r.pc = "answered" =>
       \/ r.code = "CREATED"
       \/ /\ r.code = "ACCEPTED" \/ (r.code = "RANGE" /\ push.ranged)
          /\ Resumable(s, IF push.ranged THEN ResumedFrom(r.range) ELSE r.stop)

OnCourse ==
  /\ client.pc \in {"idle", "ready", "waiting", "done"}
  /\ client.pc = "idle" => Unbegun = Session
  /\ client.pc = "ready" => Resumable(client.session, client.at)
  /\ \A s \in Unbegun : sessions[s].held = 0 /\ sessions[s].ordered /\ sessions[s].busy = None
  /\ \A q \in Request : requests[q].pc # "free" =>
       client.pc = "waiting" /\ client.request = q /\ RightSoFar(q)

CalmOnCourse == Calm => OnCourse

(* A client that goes on from where it is told comes to an end              *)
(* (registry/blobs.go:452-465).                                             *)
Ends == <>(client.pc \in {"done", "failed"})

(* A stage in use is in use by an append, and what is committed is there. *)
SessionSound(s) ==
  LET stage == sessions[s] IN
  /\ stage.busy # None => /\ requests[stage.busy].pc = "body"
                          /\ requests[stage.busy].session = s
  /\ stage.state = "digest" => stored
  /\ push.ranged => stage.ordered /\ stage.held <= Length

(* An append has its stage to itself and is where it says; a request sent   *)
(* again after a commit ends as that did.                                   *)
RequestSound(q) ==
  LET r == requests[q] IN
  /\ r.start <= r.stop
  /\ r.pc \in {"resume", "stat", "append", "range", "body", "commit", "mismatch", "rehash", "reopen"}
       => r.session # None
  /\ r.kind = "put" => r.session # None
  /\ r.pc \in {"link", "open", "copy"} => r.kind = "mount"
  /\ r.pc = "append" /\ push.ranged => r.expected = r.start
  /\ r.pc = "body" => /\ sessions[r.session].busy = q
                      /\ sessions[r.session].state = "active"
                      /\ r.expected <= sessions[r.session].held
                      /\ r.at <= r.stop
                      /\ push.ranged => r.at = sessions[r.session].held
  /\ r.pc = "answered" => /\ r.code = "CREATED" => stored
                          /\ r.code \in {"ACCEPTED", "RANGE"} => r.session # None
  /\ r.kind = "put" /\ r.again =>
       /\ sessions[r.session].state \in {"digest", "gone"}
       /\ r.start = r.stop /\ sessions[r.session].state = "digest" =>
            \/ r.pc \in {"resume", "commit"}
            \/ r.pc = "answered" /\ r.code \in {"CREATED", "ERROR"}

ClientSound ==
  /\ client.pc = "ready" => client.session # None
  /\ client.pc = "done" => stored

(* The inductive invariant. *)
Inv ==
  /\ TypeOK
  /\ \A s \in Session : SessionSound(s)
  /\ \A q \in Request : RequestSound(q)
  /\ ClientSound

=============================================================================
