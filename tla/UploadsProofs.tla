--------------------------- MODULE UploadsProofs ---------------------------
(***************************************************************************)
(* Theorems about Uploads, for any sessions, requests, length of the blob  *)
(* and number of failures: the inductive invariant Inv, and from it that   *)
(* sessions are in order, that what is created is stored, and that a       *)
(* commit is answered again as it was.  A second one, CalmOnCourse, is     *)
(* about the whole exchange while nothing goes wrong, and says why a       *)
(* client that sends the right bytes is then taken at its word.            *)
(***************************************************************************)
EXTENDS Uploads, TLAPS

USE UploadsAssumption

(* A request that is answered, that appends, that has begun to or that goes  *)
(* on with it is a request.                                                  *)
LEMMA AnsweredIsRequest ==
  ASSUME NEW r \in RequestState, NEW code \in Codes, NEW range \in Int
  PROVE  Answered(r, code, range) \in RequestState
<1> DEFINE a == [r EXCEPT !.pc = "answered"]
           b == [a EXCEPT !.code = code]
           c == [b EXCEPT !.range = range]
           d == [c EXCEPT !.at = 0]
           e == [d EXCEPT !.expected = 0]
<1>1. a \in RequestState
  BY DEF RequestState
<1> HIDE DEF a
<1>2. b \in RequestState
  BY <1>1 DEF RequestState
<1> HIDE DEF b
<1>3. c \in RequestState
  BY <1>2 DEF RequestState
<1> HIDE DEF c
<1>4. d \in RequestState
  BY <1>3 DEF RequestState
<1> HIDE DEF d
<1>5. e \in RequestState
  BY <1>4 DEF RequestState
<1>6. Answered(r, code, range) = e
  BY DEF a, b, c, d, e, Answered
<1> QED BY <1>5, <1>6

LEMMA AppendsIsRequest ==
  ASSUME NEW r \in RequestState, NEW e \in Nat
  PROVE  [r EXCEPT !.pc = "append", !.expected = e] \in RequestState
<1> DEFINE a == [r EXCEPT !.pc = "append"]
<1>1. a \in RequestState
  BY DEF RequestState
<1> HIDE DEF a
<1>2. [a EXCEPT !.expected = e] \in RequestState
  BY <1>1 DEF RequestState
<1>3. [r EXCEPT !.pc = "append", !.expected = e] = [a EXCEPT !.expected = e]
  BY DEF a
<1> QED BY <1>2, <1>3

LEMMA BodyIsRequest ==
  ASSUME NEW r \in RequestState, NEW n \in 0..Length
  PROVE  /\ [r EXCEPT !.pc = "body", !.at = n] \in RequestState
         /\ [r EXCEPT !.at = n] \in RequestState
<1> DEFINE a == [r EXCEPT !.pc = "body"]
<1>1. a \in RequestState
  BY DEF RequestState
<1> HIDE DEF a
<1>2. [a EXCEPT !.at = n] \in RequestState
  BY <1>1 DEF RequestState
<1>3. [r EXCEPT !.pc = "body", !.at = n] = [a EXCEPT !.at = n]
  BY DEF a
<1>4. [r EXCEPT !.at = n] \in RequestState
  BY DEF RequestState
<1> QED BY <1>2, <1>3, <1>4

LEMMA FreeSound == Free \in RequestState /\ Free.pc = "free" /\ Free.kind = "none"
                   /\ Free.start = 0 /\ Free.stop = 0 /\ Free.again = FALSE
BY DEF Free, RequestState, Codes

(* A request that was not touched is as sound as it was. *)
LEMMA RequestKept ==
  ASSUME Inv, NEW p \in Request, requests'[p] = requests[p],
         push' = push, stored => stored',
         \A s \in Session :
           \/ sessions'[s] = sessions[s]
           \/ /\ sessions[s].busy # p
              /\ sessions[s].state \in {"digest", "gone"} => sessions'[s].state \in {"digest", "gone"}
              /\ sessions'[s].state = "digest" => sessions[s].state # "gone"
  PROVE  RequestSound(p)'
<1> DEFINE r == requests[p]
<1>1. RequestSound(p) /\ r \in RequestState /\ push \in PushState /\ None \notin Session
  BY DEF Inv, TypeOK
<1>2. r.session \in Session \cup {None} /\ r.kind \in {"none", "post", "mount", "patch", "put"}
      /\ r.start \in 0..Length /\ r.stop \in 0..Length
  BY <1>1 DEF RequestState
<1>3. CASE r.session = None
  BY <1>1, <1>3 DEF RequestSound
<1>4. CASE r.session # None
  <2>1. CASE sessions'[r.session] = sessions[r.session]
    BY <1>1, <2>1 DEF RequestSound
  <2>2. CASE sessions'[r.session] # sessions[r.session]
    <3>1. /\ sessions[r.session].busy # p
          /\ sessions[r.session].state \in {"digest", "gone"} => sessions'[r.session].state \in {"digest", "gone"}
          /\ sessions'[r.session].state = "digest" => sessions[r.session].state # "gone"
      BY <1>2, <1>4, <2>2
    <3>2. r.pc # "body"
      BY <1>1, <3>1 DEF RequestSound
    <3> QED BY <1>1, <3>1, <3>2 DEF RequestSound
  <2> QED BY <2>1, <2>2
<1> QED BY <1>3, <1>4

(* So is a session, when whoever uses it is not touched. *)
LEMMA SessionKept ==
  ASSUME Inv, NEW s \in Session, sessions'[s] = sessions[s],
         push' = push, stored => stored',
         \A q \in Request : sessions[s].busy = q => requests'[q] = requests[q] \/
             (requests'[q].pc = "body" /\ requests'[q].session = requests[q].session)
  PROVE  SessionSound(s)'
<1>1. SessionSound(s) /\ sessions[s] \in SessionState /\ push \in PushState
  BY DEF Inv, TypeOK
<1>2. sessions[s].busy \in Request \cup {None}
  BY <1>1 DEF SessionState
<1> QED BY <1>1, <1>2 DEF SessionSound

(* What a handler's step must show: that its own request and the session it *)
(* changes are sound.                                                       *)
LEMMA HandlerSound ==
  ASSUME Inv, NEW q \in Request, NEW r \in RequestState,
         requests' = [requests EXCEPT ![q] = r], UNCHANGED <<push, client>>,
         stored' \in BOOLEAN, stored => stored', failures' \in 0..MaxFailures,
         sessions' \in [Session -> SessionState],
         \A s \in Session :
           \/ sessions'[s] = sessions[s]
           \/ /\ sessions[s].busy \in {None, q}
              /\ sessions[s].state \in {"digest", "gone"} => sessions'[s].state \in {"digest", "gone"}
              /\ sessions'[s].state = "digest" => sessions[s].state # "gone",
         RequestSound(q)',
         \A s \in Session : sessions'[s] # sessions[s] \/ sessions[s].busy = q => SessionSound(s)'
  PROVE  Inv'
<1>1. TypeOK'
  BY DEF Inv, TypeOK
<1>2. \A p \in Request : p # q => requests'[p] = requests[p]
  BY DEF Inv, TypeOK
<1>3. ASSUME NEW p \in Request
      PROVE  RequestSound(p)'
  <2>1. CASE p = q
    BY <2>1
  <2>2. CASE p # q
    <3>1. p # None
      OBVIOUS
    <3>2. \A s \in Session :
            \/ sessions'[s] = sessions[s]
            \/ /\ sessions[s].busy # p
               /\ sessions[s].state \in {"digest", "gone"} => sessions'[s].state \in {"digest", "gone"}
               /\ sessions'[s].state = "digest" => sessions[s].state # "gone"
      BY <2>2, <3>1
    <3> QED BY <1>2, <2>2, <3>2, RequestKept
  <2> QED BY <2>1, <2>2
<1>4. ASSUME NEW s \in Session
      PROVE  SessionSound(s)'
  <2>1. CASE sessions'[s] # sessions[s] \/ sessions[s].busy = q
    BY <2>1
  <2>2. CASE sessions'[s] = sessions[s] /\ sessions[s].busy # q
    BY <1>2, <2>2, SessionKept
  <2> QED BY <2>1, <2>2
<1>5. ClientSound'
  BY DEF Inv, TypeOK, ClientSound
<1> QED BY <1>1, <1>3, <1>4, <1>5 DEF Inv

(* When it changes no session, and is not using one, its request is enough. *)
LEMMA QuietSound ==
  ASSUME Inv, NEW q \in Request, NEW r \in RequestState, requests[q].pc # "body",
         requests' = [requests EXCEPT ![q] = r], UNCHANGED <<push, client, sessions>>,
         stored' \in BOOLEAN, stored => stored', failures' \in 0..MaxFailures,
         RequestSound(q)'
  PROVE  Inv'
<1>1. sessions' \in [Session -> SessionState]
  BY DEF Inv, TypeOK
<1>2. \A s \in Session : sessions[s].busy # q
  BY DEF Inv, SessionSound
<1> QED BY <1>1, <1>2, HandlerSound

(* An answer is sound when what it says is. *)
LEMMA AnswerSound ==
  ASSUME Inv, NEW q \in Request, NEW code \in Codes, NEW range \in Int,
         Answer(q, code, range), push' = push, stored => stored',
         code = "CREATED" => stored',
         code \in {"ACCEPTED", "RANGE"} => requests[q].session # None,
         requests[q].kind = "put" /\ requests[q].again =>
           /\ sessions'[requests[q].session].state \in {"digest", "gone"}
           /\ requests[q].start = requests[q].stop /\ sessions'[requests[q].session].state = "digest"
                => code \in {"CREATED", "ERROR"}
  PROVE  /\ RequestSound(q)'
         /\ \E r \in RequestState : requests' = [requests EXCEPT ![q] = r] /\ r.pc # "body"
<1> DEFINE old == requests[q]
           new == Answered(old, code, range)
<1>1. old \in RequestState /\ RequestSound(q) /\ requests \in [Request -> RequestState]
  BY DEF Inv, TypeOK
<1>2. CASE client.request = q
  <2>1. requests' = [requests EXCEPT ![q] = new]
    BY <1>2 DEF Answer
  <2>2. new \in RequestState
    BY <1>1, AnsweredIsRequest
  <2>3. new.pc = "answered" /\ new.code = code /\ new.kind = old.kind /\ new.again = old.again
        /\ new.session = old.session /\ new.start = old.start /\ new.stop = old.stop
    BY <1>1 DEF RequestState, Answered
  <2>4. requests'[q] = new
    BY <1>1, <2>1
  <2>5. RequestSound(q)'
    BY <1>1, <2>3, <2>4 DEF RequestSound
  <2> QED BY <2>1, <2>2, <2>3, <2>5
<1>3. CASE client.request # q
  <2>1. requests' = [requests EXCEPT ![q] = Free] /\ requests'[q] = Free
    BY <1>1, <1>3 DEF Answer
  <2>2. RequestSound(q)'
    BY <2>1, FreeSound DEF RequestSound
  <2> QED BY <2>1, <2>2, FreeSound
<1> QED BY <1>2, <1>3

(* A request that goes on to another step, and is then what it must be. *)
LEMMA GoesSound ==
  ASSUME Inv, NEW q \in Request,
         NEW pc \in {"stat", "range", "commit", "mismatch", "rehash", "reopen", "add", "open", "copy"},
         Goes(q, pc), push' = push, stored => stored',
         pc \in {"stat", "range", "commit", "mismatch", "rehash", "reopen"} => requests[q].session # None,
         pc \in {"open", "copy"} => requests[q].kind = "mount",
         requests[q].kind = "put" /\ requests[q].again =>
           /\ sessions'[requests[q].session].state \in {"digest", "gone"}
           /\ requests[q].start = requests[q].stop /\ sessions'[requests[q].session].state = "digest"
                => pc = "commit"
  PROVE  /\ RequestSound(q)'
         /\ \E r \in RequestState : requests' = [requests EXCEPT ![q] = r] /\ r.pc # "body"
<1> DEFINE old == requests[q]
           new == [old EXCEPT !.pc = pc]
<1>1. old \in RequestState /\ RequestSound(q) /\ requests \in [Request -> RequestState]
  BY DEF Inv, TypeOK
<1>2. requests' = [requests EXCEPT ![q] = new] /\ requests'[q] = new
  BY <1>1 DEF Goes
<1>3. new \in RequestState
  BY <1>1 DEF RequestState
<1>4. new.pc = pc /\ new.kind = old.kind /\ new.again = old.again
      /\ new.session = old.session /\ new.start = old.start /\ new.stop = old.stop
  BY <1>1 DEF RequestState
<1>5. RequestSound(q)'
  BY <1>1, <1>2, <1>4 DEF RequestSound
<1> QED BY <1>2, <1>3, <1>4, <1>5

LEMMA RangeIsInt ==
  ASSUME NEW held \in Nat
  PROVE  RangeOf(held) \in Int
BY DEF RangeOf

-----------------------------------------------------------------------------
(* The handlers of chunks. *)

LEMMA ResumeSound ==
  ASSUME Inv, NEW q \in Request, Resume(q)
  PROVE  Inv'
<1>1. requests[q] \in RequestState /\ RequestSound(q) /\ requests[q].pc = "resume"
      /\ requests[q].session \in Session /\ stored \in BOOLEAN /\ failures \in 0..MaxFailures
  BY DEF Inv, TypeOK, Resume, RequestSound, RequestState
<1>2. UNCHANGED <<push, client, sessions, stored, failures>>
  BY DEF Resume
<1>3. requests[q].session # None
  BY <1>1 DEF RequestSound
<1>4. requests[q].kind = "put" /\ requests[q].again => sessions'[requests[q].session].state \in {"digest", "gone"}
  BY <1>1, <1>2 DEF RequestSound
<1>5. CASE ~Known(requests[q].session)
  <2>1. Answer(q, "UPLOAD_UNKNOWN", 0)
    BY <1>5 DEF Resume
  <2>2. /\ RequestSound(q)'
        /\ \E r \in RequestState : requests' = [requests EXCEPT ![q] = r] /\ r.pc # "body"
    <3>1. sessions'[requests[q].session].state # "digest"
      BY <1>2, <1>5 DEF Known
    <3>2. "UPLOAD_UNKNOWN" \in Codes \ {"CREATED", "ACCEPTED", "RANGE"}
      BY DEF Codes
    <3> QED BY <1>2, <1>4, <2>1, <3>1, <3>2, AnswerSound
  <2> QED BY <1>1, <1>2, <2>2, QuietSound
<1>6. CASE Known(requests[q].session)
  <2> DEFINE empty == requests[q].kind = "put" /\ requests[q].start = requests[q].stop
  <2>1. Goes(q, IF empty THEN "commit" ELSE "stat")
    BY <1>6 DEF Resume
  <2>2. /\ RequestSound(q)'
        /\ \E r \in RequestState : requests' = [requests EXCEPT ![q] = r] /\ r.pc # "body"
    <3>1. CASE empty
      <4>1. Goes(q, "commit")
        BY <2>1, <3>1
      <4> HIDE DEF empty
      <4> QED BY <1>2, <1>3, <1>4, <4>1, GoesSound
    <3>2. CASE ~empty
      <4>1. Goes(q, "stat")
        BY <2>1, <3>2
      <4>2. ~(requests[q].kind = "put" /\ requests[q].again /\ requests[q].start = requests[q].stop)
        BY <3>2
      <4> HIDE DEF empty
      <4> QED BY <1>2, <1>3, <1>4, <4>1, <4>2, GoesSound
    <3> QED BY <3>1, <3>2
  <2> QED BY <1>1, <1>2, <2>2, QuietSound
<1> QED BY <1>5, <1>6

LEMMA ExpectSound ==
  ASSUME Inv, NEW q \in Request, Expect(q)
  PROVE  Inv'
<1>1. requests[q] \in RequestState /\ RequestSound(q) /\ requests[q].pc = "stat"
      /\ requests[q].session \in Session /\ stored \in BOOLEAN /\ failures \in 0..MaxFailures
      /\ sessions[requests[q].session] \in SessionState /\ requests \in [Request -> RequestState]
  BY DEF Inv, TypeOK, Expect, RequestSound, RequestState
<1>2. UNCHANGED <<push, client, sessions, stored, failures>>
  BY DEF Expect
<1>3. CASE ~push.ranged /\ ~Active(requests[q].session)
  <2>1. Answer(q, "UPLOAD_UNKNOWN", 0)
    BY <1>3 DEF Expect
  <2>2. /\ RequestSound(q)'
        /\ \E r \in RequestState : requests' = [requests EXCEPT ![q] = r] /\ r.pc # "body"
    <3>1. requests[q].kind = "put" /\ requests[q].again =>
            /\ sessions'[requests[q].session].state \in {"digest", "gone"}
            /\ ~(requests[q].start = requests[q].stop /\ sessions'[requests[q].session].state = "digest")
      BY <1>1, <1>2 DEF RequestSound
    <3>2. "UPLOAD_UNKNOWN" \in Codes \ {"CREATED", "ACCEPTED", "RANGE"}
      BY DEF Codes
    <3> QED BY <1>2, <2>1, <3>1, <3>2, AnswerSound
  <2> QED BY <1>1, <1>2, <2>2, QuietSound
<1>4. CASE ~(~push.ranged /\ ~Active(requests[q].session))
  <2> DEFINE new == [requests[q] EXCEPT !.pc = "append", !.expected = Expected(requests[q])]
  <2>1. requests' = [requests EXCEPT ![q] = new] /\ requests'[q] = new
    BY <1>1, <1>4 DEF Expect
  <2>2. Expected(requests[q]) \in Nat
    BY <1>1 DEF Expected, RequestState, SessionState
  <2>3. new \in RequestState
    BY <1>1, <2>2, AppendsIsRequest
  <2>4. new.pc = "append" /\ new.expected = Expected(requests[q]) /\ new.kind = requests[q].kind
        /\ new.again = requests[q].again /\ new.session = requests[q].session
        /\ new.start = requests[q].start /\ new.stop = requests[q].stop
    BY <1>1 DEF RequestState
  <2>5. RequestSound(q)'
    BY <1>1, <1>2, <2>1, <2>4 DEF RequestSound, Expected
  <2> QED BY <1>1, <1>2, <2>1, <2>3, <2>4, <2>5, QuietSound
<1> QED BY <1>3, <1>4

(* A session with something else in one field, or in two, is a session.     *)
LEMMA BusyIsSession ==
  ASSUME NEW n \in SessionState, NEW busy \in Request \cup {None}
  PROVE  [n EXCEPT !.busy = busy] \in SessionState
BY DEF SessionState

LEMMA StateIsSession ==
  ASSUME NEW n \in SessionState, NEW state \in {"none", "active", "digest", "own", "gone"}
  PROVE  [n EXCEPT !.state = state] \in SessionState
BY DEF SessionState

LEMMA KeptIsSession ==
  ASSUME NEW n \in SessionState, NEW held \in Nat
  PROVE  [n EXCEPT !.held = held, !.busy = None] \in SessionState
<1> DEFINE a == [n EXCEPT !.held = held]
<1>1. a \in SessionState
  BY DEF SessionState
<1> HIDE DEF a
<1>2. [a EXCEPT !.busy = None] \in SessionState
  BY <1>1 DEF SessionState
<1>3. [n EXCEPT !.held = held, !.busy = None] = [a EXCEPT !.busy = None]
  BY DEF a
<1> QED BY <1>2, <1>3

LEMMA ExtendedIsSession ==
  ASSUME NEW n \in SessionState, NEW at \in Nat
  PROVE  /\ Extended(n, at) \in SessionState
         /\ Extended(n, at).held = n.held + 1
         /\ Extended(n, at).ordered <=> (n.ordered /\ at = n.held)
         /\ Extended(n, at).busy = n.busy
         /\ Extended(n, at).state = n.state
<1> DEFINE a == [n EXCEPT !.held = n.held + 1]
           o == n.ordered /\ at = n.held
<1>1. a \in SessionState
  BY DEF SessionState
<1>2. o \in BOOLEAN
  OBVIOUS
<1>3. Extended(n, at) = [a EXCEPT !.ordered = o]
  BY DEF Extended
<1> HIDE DEF a, o
<1>4. [a EXCEPT !.ordered = o] \in SessionState
  BY <1>1, <1>2 DEF SessionState
<1>5. Extended(n, at) \in SessionState
  BY <1>3, <1>4
<1>6. Extended(n, at).held = n.held + 1 /\ Extended(n, at).busy = n.busy
      /\ Extended(n, at).state = n.state
  BY DEF SessionState, Extended
<1>7. Extended(n, at).ordered <=> (n.ordered /\ at = n.held)
  BY DEF SessionState, Extended
<1> QED BY <1>5, <1>6, <1>7

(* One that is refused changes nothing else. *)
LEMMA QuietStep ==
  ASSUME Inv, NEW q \in Request, requests[q].pc # "body",
         \E r \in RequestState : requests' = [requests EXCEPT ![q] = r] /\ r.pc # "body",
         push' = push, client' = client, sessions' = sessions, stored' = stored,
         failures' \in 0..MaxFailures,
         RequestSound(q)'
  PROVE  Inv'
<1>1. stored \in BOOLEAN
  BY DEF Inv, TypeOK
<1> QED BY <1>1, QuietSound

LEMMA Refusals ==
  {"DIGEST_INVALID", "UPLOAD_UNKNOWN", "UPLOAD_INVALID", "RANGE", "ERROR"}
    \subseteq Codes \ {"CREATED", "ACCEPTED"}
BY DEF Codes

LEMMA RefusedSound ==
  ASSUME Inv, NEW q \in Request, NEW code \in Codes \ {"CREATED", "ACCEPTED"}, NEW range \in Int,
         Answer(q, code, range), UNCHANGED <<push, client, sessions, stored>>,
         failures' \in 0..MaxFailures,
         requests[q].pc # "body", code = "RANGE" => requests[q].session # None,
         code = "ERROR" \/ ~(requests[q].kind = "put" /\ requests[q].again
                         /\ requests[q].start = requests[q].stop
                         /\ sessions[requests[q].session].state = "digest")
  PROVE  Inv'
<1>1. RequestSound(q) /\ code \in Codes /\ code # "CREATED" /\ code # "ACCEPTED"
  BY DEF Inv
<1>2. /\ RequestSound(q)'
      /\ \E r \in RequestState : requests' = [requests EXCEPT ![q] = r] /\ r.pc # "body"
  BY <1>1, AnswerSound DEF RequestSound
<1> QED BY <1>2, QuietStep

LEMMA AppendBeginSound ==
  ASSUME Inv, NEW q \in Request, AppendBegin(q)
  PROVE  Inv'
<1> DEFINE r == requests[q]
           s == r.session
<1>1. r \in RequestState /\ RequestSound(q) /\ r.pc = "append" /\ requests \in [Request -> RequestState]
      /\ stored \in BOOLEAN /\ failures \in 0..MaxFailures /\ push \in PushState
      /\ sessions \in [Session -> SessionState]
  BY DEF Inv, TypeOK, AppendBegin
<1>2. UNCHANGED <<push, client, stored, failures>>
  BY DEF AppendBegin
<1>3. s \in Session /\ s # None
  BY <1>1 DEF RequestSound, RequestState
<1>4. sessions[s] \in SessionState /\ SessionSound(s) /\ sessions[s].held \in Nat
  BY <1>1, <1>3 DEF Inv, SessionState
<1>5. ~(r.kind = "put" /\ r.again /\ r.start = r.stop /\ sessions[s].state = "digest")
  BY <1>1 DEF RequestSound
<1>6. CASE ~Active(s) /\ Answer(q, "UPLOAD_UNKNOWN", 0) /\ UNCHANGED sessions
  BY <1>1, <1>2, <1>5, <1>6, RefusedSound, Refusals
<1>7. CASE Answer(q, "UPLOAD_INVALID", 0) /\ UNCHANGED sessions
  BY <1>1, <1>2, <1>5, <1>7, RefusedSound, Refusals
<1>8. CASE Goes(q, "range") /\ Active(s) /\ UNCHANGED sessions
  <2>1. ~(r.kind = "put" /\ r.again)
    BY <1>1, <1>8 DEF RequestSound, Active
  <2>2. /\ RequestSound(q)'
        /\ \E new \in RequestState : requests' = [requests EXCEPT ![q] = new] /\ new.pc # "body"
    BY <1>2, <1>3, <1>8, <2>1, GoesSound
  <2> QED BY <1>1, <1>2, <1>8, <2>2, QuietSound
<1>9. CASE /\ Active(s) /\ sessions[s].busy = None /\ sessions[s].held = r.expected
           /\ requests' = [requests EXCEPT ![q] = [r EXCEPT !.pc = "body", !.at = r.start]]
           /\ sessions' = [sessions EXCEPT ![s] = [sessions[s] EXCEPT !.busy = q]]
  <2> DEFINE new == [r EXCEPT !.pc = "body", !.at = r.start]
             n == [sessions[s] EXCEPT !.busy = q]
  <2>1. r.start \in 0..Length
    BY <1>1 DEF RequestState
  <2>2. new \in RequestState
    BY <1>1, <2>1, BodyIsRequest
  <2>3. new.pc = "body" /\ new.at = r.start /\ new.kind = r.kind /\ new.again = r.again
        /\ new.session = r.session /\ new.start = r.start /\ new.stop = r.stop
        /\ new.expected = r.expected
    BY <1>1 DEF RequestState
  <2>4. n \in SessionState
    BY <1>4, BusyIsSession
  <2>5. n.busy = q /\ n.held = sessions[s].held /\ n.state = sessions[s].state
        /\ n.ordered = sessions[s].ordered
    BY <1>4 DEF SessionState
  <2>6. requests'[q] = new /\ sessions'[s] = n /\ \A t \in Session : t # s => sessions'[t] = sessions[t]
    BY <1>1, <1>3, <1>9
  <2>7. sessions' \in [Session -> SessionState]
    BY <1>1, <1>9, <2>4
  <2>8. RequestSound(q)'
    BY <1>1, <1>2, <1>3, <1>4, <1>9, <2>3, <2>5, <2>6 DEF RequestSound, Active, SessionState
  <2>10. \A t \in Session : sessions'[t] # sessions[t] \/ sessions[t].busy = q => SessionSound(t)'
    <3> SUFFICES ASSUME NEW t \in Session, sessions'[t] # sessions[t] \/ sessions[t].busy = q
                 PROVE  SessionSound(t)'
      OBVIOUS
    <3>1. SessionSound(t)
      BY DEF Inv
    <3>2. t = s
      BY <1>1, <2>6, <3>1 DEF SessionSound
    <3>3. sessions'[t] = n /\ n.state = "active" /\ requests'[n.busy] = new /\ new.session = t
      BY <1>9, <2>3, <2>5, <2>6, <3>2 DEF Active
    <3> QED BY <1>2, <1>4, <2>3, <2>5, <3>2, <3>3 DEF SessionSound
  <2>11. \A t \in Session :
           \/ sessions'[t] = sessions[t]
           \/ /\ sessions[t].busy \in {None, q}
              /\ sessions[t].state \in {"digest", "gone"} => sessions'[t].state \in {"digest", "gone"}
              /\ sessions'[t].state = "digest" => sessions[t].state # "gone"
    BY <1>9, <2>5, <2>6
  <2> QED BY <1>1, <1>2, <1>9, <2>2, <2>7, <2>8, <2>10, <2>11, HandlerSound
<1> QED BY <1>6, <1>7, <1>8, <1>9 DEF AppendBegin

LEMMA OutOfRangeSound ==
  ASSUME Inv, NEW q \in Request, OutOfRange(q)
  PROVE  Inv'
<1> DEFINE r == requests[q]
<1>1. r \in RequestState /\ RequestSound(q) /\ r.pc = "range" /\ r.pc # "body"
      /\ failures \in 0..MaxFailures /\ sessions \in [Session -> SessionState]
  BY DEF Inv, TypeOK, OutOfRange
<1>2. UNCHANGED <<push, client, sessions, stored>> /\ failures' \in 0..MaxFailures
  BY <1>1 DEF OutOfRange
<1>3. r.session \in Session /\ r.session # None
      /\ ~(r.kind = "put" /\ r.again /\ r.start = r.stop /\ sessions[r.session].state = "digest")
  BY <1>1 DEF RequestSound, RequestState
<1>4. CASE Answer(q, "RANGE", RangeOf(sessions[r.session].held))
  <2>1. RangeOf(sessions[r.session].held) \in Int
    BY <1>1, <1>3, RangeIsInt DEF SessionState
  <2> QED BY <1>1, <1>2, <1>3, <1>4, <2>1, RefusedSound, Refusals
<1>5. CASE Answer(q, "UPLOAD_UNKNOWN", 0)
  BY <1>1, <1>2, <1>3, <1>5, RefusedSound, Refusals
<1> QED BY <1>4, <1>5 DEF OutOfRange

(* What one who uses a session changes in it. *)
LEMMA UserSound ==
  ASSUME Inv, NEW q \in Request, requests[q].pc = "body", NEW r \in RequestState,
         NEW n \in SessionState,
         requests' = [requests EXCEPT ![q] = r],
         sessions' = [sessions EXCEPT ![requests[q].session] = n],
         n.state = "active", n.busy \in {None, q},
         n.busy = q => r.pc = "body" /\ r.session = requests[q].session,
         push.ranged => n.ordered /\ n.held <= Length,
         UNCHANGED <<push, client, stored>>, failures' \in 0..MaxFailures,
         RequestSound(q)'
  PROVE  Inv'
<1> DEFINE s == requests[q].session
<1>1. requests[q] \in RequestState /\ RequestSound(q) /\ stored \in BOOLEAN
      /\ sessions \in [Session -> SessionState] /\ requests \in [Request -> RequestState]
  BY DEF Inv, TypeOK
<1>2. s \in Session /\ sessions[s].busy = q /\ sessions[s].state = "active"
  BY <1>1 DEF RequestSound, RequestState
<1>3. requests'[q] = r /\ sessions'[s] = n /\ \A t \in Session : t # s => sessions'[t] = sessions[t]
  BY <1>1, <1>2
<1>4. sessions' \in [Session -> SessionState]
  BY <1>1
<1>5. q # None
  OBVIOUS
<1>7. \A t \in Session : sessions'[t] # sessions[t] \/ sessions[t].busy = q => SessionSound(t)'
  <2> SUFFICES ASSUME NEW t \in Session, sessions'[t] # sessions[t] \/ sessions[t].busy = q
               PROVE  SessionSound(t)'
    OBVIOUS
  <2>1. SessionSound(t)
    BY DEF Inv
  <2>2. t = s
    BY <1>3, <1>5, <2>1 DEF SessionSound
  <2>3. sessions'[t] = n /\ requests'[q] = r
    BY <1>3, <2>2
  <2> QED BY <1>5, <2>2, <2>3 DEF SessionSound
<1>8. \A t \in Session :
        \/ sessions'[t] = sessions[t]
        \/ /\ sessions[t].busy \in {None, q}
           /\ sessions[t].state \in {"digest", "gone"} => sessions'[t].state \in {"digest", "gone"}
           /\ sessions'[t].state = "digest" => sessions[t].state # "gone"
  BY <1>2, <1>3
<1> QED BY <1>1, <1>4, <1>7, <1>8, HandlerSound

LEMMA AppendPieceSound ==
  ASSUME Inv, NEW q \in Request, AppendPiece(q)
  PROVE  Inv'
<1> DEFINE r == requests[q]
           s == r.session
           new == [r EXCEPT !.at = r.at + 1]
           n == Extended(sessions[s], r.at)
<1>1. r \in RequestState /\ RequestSound(q) /\ r.pc = "body" /\ requests \in [Request -> RequestState]
      /\ failures \in 0..MaxFailures /\ push \in PushState /\ sessions \in [Session -> SessionState]
      /\ r.at < r.stop
  BY DEF Inv, TypeOK, AppendPiece
<1>2. s \in Session /\ sessions[s].busy = q /\ sessions[s].state = "active"
      /\ r.expected <= sessions[s].held /\ (push.ranged => r.at = sessions[s].held)
      /\ r.at \in 0..Length /\ r.stop \in 0..Length /\ r.expected \in Nat
  BY <1>1 DEF RequestSound, RequestState
<1>3. sessions[s] \in SessionState /\ SessionSound(s) /\ sessions[s].held \in Nat
      /\ sessions[s].ordered \in BOOLEAN
  BY <1>1, <1>2 DEF Inv, SessionState
<1>4. requests' = [requests EXCEPT ![q] = new] /\ sessions' = [sessions EXCEPT ![s] = n]
      /\ UNCHANGED <<push, client, stored, failures>>
  BY DEF AppendPiece
<1>a. r.at + 1 \in 0..Length
  BY <1>1, <1>2
<1>5. new \in RequestState
  BY <1>1, <1>a, BodyIsRequest
<1>6. n \in SessionState /\ n.held = sessions[s].held + 1
      /\ (n.ordered <=> sessions[s].ordered /\ r.at = sessions[s].held)
      /\ n.busy = sessions[s].busy /\ n.state = sessions[s].state
  <2>1. r.at \in Nat
    BY <1>2
  <2> QED BY <1>3, <2>1, ExtendedIsSession
<1>7. new.at = r.at + 1 /\ new.pc = "body" /\ new.kind = r.kind /\ new.again = r.again
      /\ new.session = r.session /\ new.start = r.start /\ new.stop = r.stop
      /\ new.expected = r.expected
  BY <1>1 DEF RequestState
<1>8. n.held = sessions[s].held + 1 /\ n.busy = q /\ n.state = "active"
      /\ (n.ordered <=> sessions[s].ordered /\ r.at = sessions[s].held)
  BY <1>2, <1>6
<1>9. requests'[q] = new /\ sessions'[s] = n
  BY <1>1, <1>2, <1>4
<1>10. push.ranged => n.ordered /\ n.held <= Length
  BY <1>1, <1>2, <1>3, <1>8 DEF SessionSound
<1>11. RequestSound(q)'
  BY <1>1, <1>2, <1>3, <1>4, <1>7, <1>8, <1>9 DEF RequestSound
<1> QED BY <1>1, <1>4, <1>5, <1>6, <1>7, <1>8, <1>10, <1>11, UserSound

LEMMA AppendEndSound ==
  ASSUME Inv, NEW q \in Request, AppendEnd(q)
  PROVE  Inv'
<1> DEFINE r == requests[q]
           s == r.session
           n == [sessions[s] EXCEPT !.busy = None]
<1>1. r \in RequestState /\ RequestSound(q) /\ r.pc = "body"
      /\ failures \in 0..MaxFailures /\ push \in PushState /\ sessions \in [Session -> SessionState]
  BY DEF Inv, TypeOK, AppendEnd
<1>2. s \in Session /\ s # None /\ sessions[s].busy = q /\ sessions[s].state = "active"
  BY <1>1 DEF RequestSound, RequestState
<1>3. sessions[s] \in SessionState /\ SessionSound(s) /\ sessions[s].held \in Nat
  BY <1>1, <1>2 DEF Inv, SessionState
<1>4. sessions' = [sessions EXCEPT ![s] = n] /\ UNCHANGED <<push, client, stored, failures>>
  BY DEF AppendEnd
<1>5. n \in SessionState
  BY <1>3, BusyIsSession
<1>6. n.held = sessions[s].held /\ n.busy = None /\ n.state = "active" /\ n.ordered = sessions[s].ordered
  BY <1>2, <1>3 DEF SessionState
<1>7. sessions'[s] = n
  BY <1>1, <1>2, <1>4
<1>8. push.ranged => n.ordered /\ n.held <= Length
  BY <1>3, <1>6 DEF SessionSound
<1>9. ~(r.kind = "put" /\ r.again)
  BY <1>1, <1>2 DEF RequestSound
<1>10. /\ RequestSound(q)'
       /\ \E new \in RequestState : requests' = [requests EXCEPT ![q] = new] /\ new.pc # "body"
  <2>1. CASE r.kind = "put"
    <3>1. Goes(q, "commit")
      BY <2>1 DEF AppendEnd
    <3> QED BY <1>2, <1>4, <1>9, <2>1, <3>1, GoesSound
  <2>2. CASE r.kind # "put"
    <3>1. Answer(q, "ACCEPTED", RangeOf(sessions[s].held))
      BY <2>2 DEF AppendEnd
    <3>2. RangeOf(sessions[s].held) \in Int
      BY <1>3, RangeIsInt
    <3>3. "ACCEPTED" \in Codes /\ "ACCEPTED" # "CREATED" /\ push' = push /\ stored' = stored
      BY <1>4 DEF Codes
    <3> HIDE DEF n
    <3> QED BY <1>2, <1>9, <3>1, <3>2, <3>3, AnswerSound
  <2> QED BY <2>1, <2>2
<1>11. PICK new \in RequestState : requests' = [requests EXCEPT ![q] = new] /\ new.pc # "body"
  BY <1>10
<1>12. None \notin Request
  OBVIOUS
<1> QED BY <1>1, <1>4, <1>5, <1>6, <1>8, <1>10, <1>11, <1>12, UserSound

LEMMA AppendBreakSound ==
  ASSUME Inv, NEW q \in Request, NEW held \in 0..Length, AppendBreak(q, held)
  PROVE  Inv'
<1> DEFINE r == requests[q]
           s == r.session
           n == [sessions[s] EXCEPT !.held = held, !.busy = None]
<1>1. r \in RequestState /\ RequestSound(q) /\ r.pc = "body"
      /\ failures \in 0..MaxFailures /\ push \in PushState /\ sessions \in [Session -> SessionState]
  BY DEF Inv, TypeOK, AppendBreak
<1>2. s \in Session /\ s # None /\ sessions[s].busy = q /\ sessions[s].state = "active"
      /\ r.expected \in Nat
  BY <1>1 DEF RequestSound, RequestState
<1>3. sessions[s] \in SessionState /\ SessionSound(s) /\ sessions[s].held \in Nat
  BY <1>1, <1>2 DEF Inv, SessionState
<1>4. sessions' = [sessions EXCEPT ![s] = n] /\ UNCHANGED <<push, client, stored>>
      /\ failures' \in 0..MaxFailures /\ Answer(q, "ERROR", 0) /\ held <= sessions[s].held
  BY <1>1, <1>2, <1>3 DEF AppendBreak, Kept
<1>5. n \in SessionState
  <2>1. held \in Nat
    OBVIOUS
  <2> QED BY <1>3, <2>1, KeptIsSession
<1>6. n.held = held /\ n.busy = None /\ n.state = "active" /\ n.ordered = sessions[s].ordered
  BY <1>2, <1>3 DEF SessionState
<1>7. sessions'[s] = n
  BY <1>1, <1>2, <1>4
<1>8. push.ranged => n.ordered /\ n.held <= Length
  BY <1>3, <1>6 DEF SessionSound
<1>9. ~(r.kind = "put" /\ r.again)
  BY <1>1, <1>2 DEF RequestSound
<1>10. /\ RequestSound(q)'
       /\ \E new \in RequestState : requests' = [requests EXCEPT ![q] = new] /\ new.pc # "body"
  BY <1>2, <1>4, <1>9, AnswerSound DEF Codes
<1>11. PICK new \in RequestState : requests' = [requests EXCEPT ![q] = new] /\ new.pc # "body"
  BY <1>10
<1>12. None \notin Request
  OBVIOUS
<1> QED BY <1>1, <1>4, <1>5, <1>6, <1>8, <1>10, <1>11, <1>12, UserSound

-----------------------------------------------------------------------------
(* The handlers that commit, add and mount. *)

(* A session nobody appends to is committed, by a request that goes on. *)
LEMMA SettledSound ==
  ASSUME Inv, NEW q \in Request, requests[q].pc # "body", NEW s \in Session,
         NEW state \in {"digest", "own"},
         sessions[s].state = "active", sessions[s].busy = None,
         sessions' = [sessions EXCEPT ![s] = [sessions[s] EXCEPT !.state = state]],
         \E r \in RequestState : requests' = [requests EXCEPT ![q] = r] /\ r.pc # "body",
         push' = push, client' = client, failures' = failures,
         stored' \in BOOLEAN, stored => stored', state = "digest" => stored',
         RequestSound(q)'
  PROVE  Inv'
<1> DEFINE n == [sessions[s] EXCEPT !.state = state]
<1>1. sessions \in [Session -> SessionState] /\ SessionSound(s) /\ sessions[s] \in SessionState
      /\ failures \in 0..MaxFailures
  BY DEF Inv, TypeOK
<1>2. n \in SessionState /\ n.state = state /\ n.busy = None
      /\ n.held = sessions[s].held /\ n.ordered = sessions[s].ordered
  BY <1>1 DEF SessionState
<1>3. sessions'[s] = n /\ \A t \in Session : t # s => sessions'[t] = sessions[t]
  BY <1>1
<1>4. sessions' \in [Session -> SessionState]
  BY <1>1, <1>2
<1>5. \A t \in Session : sessions'[t] # sessions[t] \/ sessions[t].busy = q => SessionSound(t)'
  <2> SUFFICES ASSUME NEW t \in Session, sessions'[t] # sessions[t] \/ sessions[t].busy = q
               PROVE  SessionSound(t)'
    OBVIOUS
  <2>1. SessionSound(t)
    BY DEF Inv
  <2>2. q # None
    OBVIOUS
  <2>3. t = s
    BY <1>3, <2>1, <2>2 DEF SessionSound
  <2>4. sessions'[t] = n
    BY <1>3, <2>3
  <2> QED BY <1>1, <1>2, <2>3, <2>4 DEF SessionSound
<1>6. \A t \in Session :
        \/ sessions'[t] = sessions[t]
        \/ /\ sessions[t].busy \in {None, q}
           /\ sessions[t].state \in {"digest", "gone"} => sessions'[t].state \in {"digest", "gone"}
           /\ sessions'[t].state = "digest" => sessions[t].state # "gone"
  BY <1>3
<1>7. PICK r \in RequestState : requests' = [requests EXCEPT ![q] = r]
  OBVIOUS
<1>8. failures' \in 0..MaxFailures
  BY <1>1
<1> QED BY <1>4, <1>5, <1>6, <1>7, <1>8, HandlerSound

LEMMA CommitSound ==
  ASSUME Inv, NEW q \in Request, Commit(q)
  PROVE  Inv'
<1> DEFINE r == requests[q]
           s == r.session
           tried == r.kind = "put" /\ r.again
<1>1. r \in RequestState /\ RequestSound(q) /\ r.pc = "commit" /\ r.pc # "body"
      /\ stored \in BOOLEAN /\ failures \in 0..MaxFailures
  BY DEF Inv, TypeOK, Commit
<1>2. push' = push /\ client' = client /\ failures' = failures
  BY DEF Commit
<1>3. s \in Session /\ s # None
  BY <1>1 DEF RequestSound, RequestState
<1>4. SessionSound(s) /\ failures' \in 0..MaxFailures
  BY <1>1, <1>2, <1>3 DEF Inv
<1>5. tried => sessions[s].state \in {"digest", "gone"}
  BY <1>1 DEF RequestSound
<1>6. CASE ~Known(s) /\ Answer(q, "UPLOAD_UNKNOWN", 0) /\ UNCHANGED <<sessions, stored>>
  <2>1. sessions[s].state # "digest"
    BY <1>6 DEF Known
  <2> QED BY <1>1, <1>2, <1>4, <1>6, <2>1, RefusedSound, Refusals
<1>7. CASE sessions[s].state = "digest" /\ Answer(q, "CREATED", 0) /\ UNCHANGED <<sessions, stored>>
  <2>1. stored
    BY <1>4, <1>7 DEF SessionSound
  <2>2. /\ RequestSound(q)'
        /\ \E new \in RequestState : requests' = [requests EXCEPT ![q] = new] /\ new.pc # "body"
    BY <1>2, <1>5, <1>7, <2>1, AnswerSound DEF Codes
  <2> QED BY <1>1, <1>2, <1>4, <1>7, <2>2, QuietStep
<1>8. CASE /\ sessions[s].state = "own" \/ Active(s)
           /\ Answer(q, "UPLOAD_UNKNOWN", 0) \/ Answer(q, "UPLOAD_INVALID", 0)
           /\ UNCHANGED <<sessions, stored>>
  <2>1. sessions[s].state # "digest"
    BY <1>8 DEF Active
  <2>2. CASE Answer(q, "UPLOAD_UNKNOWN", 0)
    BY <1>1, <1>2, <1>4, <1>8, <2>1, <2>2, RefusedSound, Refusals
  <2>3. CASE Answer(q, "UPLOAD_INVALID", 0)
    BY <1>1, <1>2, <1>4, <1>8, <2>1, <2>3, RefusedSound, Refusals
  <2> QED BY <1>8, <2>2, <2>3
<1>9. CASE /\ sessions[s].state = "own" \/ Active(s)
           /\ Goes(q, "mismatch")
           /\ UNCHANGED <<sessions, stored>>
  <2>1. ~tried
    BY <1>5, <1>9 DEF Active
  <2>2. /\ RequestSound(q)'
        /\ \E new \in RequestState : requests' = [requests EXCEPT ![q] = new] /\ new.pc # "body"
    BY <1>2, <1>3, <1>9, <2>1, GoesSound
  <2> QED BY <1>1, <1>2, <1>4, <1>9, <2>2, QuietStep
<1>10. CASE /\ Active(s) /\ sessions[s].busy = None
            /\ Answer(q, "CREATED", 0)
            /\ stored' = TRUE
            /\ sessions' = [sessions EXCEPT ![s] = [sessions[s] EXCEPT !.state = "digest"]]
  <2>1. ~tried
    BY <1>5, <1>10 DEF Active
  <2>2. /\ RequestSound(q)'
        /\ \E new \in RequestState : requests' = [requests EXCEPT ![q] = new] /\ new.pc # "body"
    BY <1>2, <1>10, <2>1, AnswerSound DEF Codes
  <2> QED BY <1>1, <1>2, <1>3, <1>10, <2>2, SettledSound DEF Active
<1> QED BY <1>6, <1>7, <1>8, <1>9, <1>10 DEF Commit

LEMMA MismatchSound ==
  ASSUME Inv, NEW q \in Request, Mismatch(q)
  PROVE  Inv'
<1> DEFINE r == requests[q]
<1>1. r \in RequestState /\ RequestSound(q) /\ r.pc = "mismatch" /\ r.pc # "body"
      /\ failures \in 0..MaxFailures
  BY DEF Inv, TypeOK, Mismatch
<1>2. push' = push /\ client' = client /\ sessions' = sessions /\ stored' = stored
      /\ failures' = failures /\ failures' \in 0..MaxFailures
  BY <1>1 DEF Mismatch
<1>3. r.session # None
      /\ ~(r.kind = "put" /\ r.again /\ r.start = r.stop /\ sessions[r.session].state = "digest")
  BY <1>1 DEF RequestSound
<1>4. CASE Goes(q, "rehash") /\ Active(r.session)
  <2>1. ~(r.kind = "put" /\ r.again)
    BY <1>1, <1>4 DEF RequestSound, Active
  <2>2. /\ RequestSound(q)'
        /\ \E new \in RequestState : requests' = [requests EXCEPT ![q] = new] /\ new.pc # "body"
    BY <1>2, <1>3, <1>4, <2>1, GoesSound
  <2> QED BY <1>1, <1>2, <2>2, QuietStep
<1>5. CASE Answer(q, "DIGEST_INVALID", 0)
  BY <1>1, <1>2, <1>3, <1>5, RefusedSound, Refusals
<1> QED BY <1>4, <1>5 DEF Mismatch

LEMMA RehashSound ==
  ASSUME Inv, NEW q \in Request, Rehash(q)
  PROVE  Inv'
<1> DEFINE r == requests[q]
           s == r.session
<1>1. r \in RequestState /\ RequestSound(q) /\ r.pc = "rehash" /\ r.pc # "body"
      /\ stored \in BOOLEAN /\ failures \in 0..MaxFailures
  BY DEF Inv, TypeOK, Rehash
<1>2. push' = push /\ client' = client /\ stored' = stored
      /\ failures' = failures /\ failures' \in 0..MaxFailures
  BY <1>1 DEF Rehash
<1>3. s \in Session /\ s # None
      /\ ~(r.kind = "put" /\ r.again /\ r.start = r.stop /\ sessions[s].state = "digest")
  BY <1>1 DEF RequestSound, RequestState
<1>4. CASE /\ Active(s) /\ sessions[s].busy = None
           /\ sessions' = [sessions EXCEPT ![s] = [sessions[s] EXCEPT !.state = "own"]]
           /\ Goes(q, "reopen")
  <2>1. ~(r.kind = "put" /\ r.again)
    BY <1>1, <1>4 DEF RequestSound, Active
  <2>2. /\ RequestSound(q)'
        /\ \E new \in RequestState : requests' = [requests EXCEPT ![q] = new] /\ new.pc # "body"
    BY <1>2, <1>3, <1>4, <2>1, GoesSound
  <2> QED BY <1>1, <1>2, <1>3, <1>4, <2>2, SettledSound DEF Active
<1>5. CASE Answer(q, IF Active(s) THEN "UPLOAD_INVALID" ELSE "UPLOAD_UNKNOWN", 0) /\ UNCHANGED sessions
  <2>1. CASE Answer(q, "UPLOAD_INVALID", 0)
    BY <1>1, <1>2, <1>3, <1>5, <2>1, RefusedSound, Refusals
  <2>2. CASE Answer(q, "UPLOAD_UNKNOWN", 0)
    BY <1>1, <1>2, <1>3, <1>5, <2>2, RefusedSound, Refusals
  <2> QED BY <1>5, <2>1, <2>2
<1> QED BY <1>4, <1>5 DEF Rehash

LEMMA ReopenSound ==
  ASSUME Inv, NEW q \in Request, Reopen(q)
  PROVE  Inv'
<1> DEFINE r == requests[q]
<1>1. r \in RequestState /\ RequestSound(q) /\ r.pc = "reopen" /\ r.pc # "body"
      /\ failures \in 0..MaxFailures
  BY DEF Inv, TypeOK, Reopen
<1>2. push' = push /\ client' = client /\ sessions' = sessions /\ stored' = stored
      /\ failures' = failures /\ failures' \in 0..MaxFailures /\ Goes(q, "add")
  BY <1>1 DEF Reopen
<1>3. /\ r.kind = "put" /\ r.again => sessions[r.session].state \in {"digest", "gone"}
      /\ ~(r.kind = "put" /\ r.again /\ r.start = r.stop /\ sessions[r.session].state = "digest")
  BY <1>1 DEF RequestSound
<1>4. /\ RequestSound(q)'
      /\ \E new \in RequestState : requests' = [requests EXCEPT ![q] = new] /\ new.pc # "body"
  BY <1>2, <1>3, GoesSound
<1> QED BY <1>1, <1>2, <1>4, QuietStep

(* One that adds bytes answers that they are there, or refuses them. *)
LEMMA AddBytesSound ==
  ASSUME Inv, NEW q \in Request, NEW right, AddBytes(q, right),
         push' = push, client' = client, sessions' = sessions, failures' = failures,
         requests[q].pc \in {"add", "copy"}
  PROVE  Inv'
<1> DEFINE r == requests[q]
<1>1. r \in RequestState /\ RequestSound(q) /\ r.pc # "body"
      /\ stored \in BOOLEAN /\ failures \in 0..MaxFailures
  BY DEF Inv, TypeOK
<1>2. /\ r.kind = "put" /\ r.again => sessions[r.session].state \in {"digest", "gone"}
      /\ ~(r.kind = "put" /\ r.again /\ r.start = r.stop /\ sessions[r.session].state = "digest")
  BY <1>1 DEF RequestSound
<1>3. CASE right \/ stored
  <2>1. Answer(q, "CREATED", 0) /\ stored' = TRUE
    BY <1>3 DEF AddBytes
  <2>2. /\ RequestSound(q)'
        /\ \E new \in RequestState : requests' = [requests EXCEPT ![q] = new] /\ new.pc # "body"
    BY <1>2, <2>1, AnswerSound DEF Codes
  <2>3. stored' \in BOOLEAN /\ (stored => stored') /\ failures' \in 0..MaxFailures
    BY <1>1, <2>1
  <2>4. PICK new \in RequestState : requests' = [requests EXCEPT ![q] = new]
    BY <2>2
  <2> QED BY <1>1, <2>2, <2>3, <2>4, QuietSound
<1>4. CASE ~(right \/ stored)
  <2>1. Answer(q, "DIGEST_INVALID", 0) /\ stored' = stored /\ failures' \in 0..MaxFailures
    BY <1>1, <1>4 DEF AddBytes
  <2> QED BY <1>1, <1>2, <2>1, RefusedSound, Refusals
<1> QED BY <1>3, <1>4

LEMMA AddSound ==
  ASSUME Inv, NEW q \in Request, Add(q)
  PROVE  Inv'
BY AddBytesSound DEF Add, Added

LEMMA CopySound ==
  ASSUME Inv, NEW q \in Request, Copy(q)
  PROVE  Inv'
BY AddBytesSound DEF Copy

(* The store fails a request, which is not sent again as a retry that found  *)
(* its commit.                                                               *)
LEMMA FailSound ==
  ASSUME Inv, NEW q \in Request, Fail(q)
  PROVE  Inv'
<1>1. requests[q].pc # "body" /\ UNCHANGED <<push, client, sessions, stored>>
  BY DEF Fail
<1>2. failures' \in 0..MaxFailures
  BY DEF Fail, Inv, TypeOK
<1>3. CASE Answer(q, "ERROR", 0)
  BY <1>1, <1>2, <1>3, RefusedSound, Refusals
<1>4. CASE requests[q].pc = "reopen" /\ Answer(q, "UPLOAD_UNKNOWN", 0)
  <2>1. ~(requests[q].kind = "put" /\ requests[q].again /\ requests[q].start = requests[q].stop
           /\ sessions[requests[q].session].state = "digest")
    BY <1>4 DEF Inv, RequestSound
  <2> QED BY <1>1, <1>2, <1>4, <2>1, RefusedSound, Refusals
<1> QED BY <1>3, <1>4 DEF Fail

(* A session there was none of begins. *)
LEMMA NewSessionIsUnbegun ==
  ASSUME Inv, Unbegun # {}
  PROVE  NewSession \in Session /\ sessions[NewSession].state = "none"
BY DEF Unbegun, NewSession

LEMMA BegunSound ==
  ASSUME Inv, NEW s \in Session, sessions[s].state = "none", push' = push, stored => stored',
         sessions' = [sessions EXCEPT ![s].state = "active"]
  PROVE  /\ sessions' \in [Session -> SessionState]
         /\ sessions[s].busy = None
         /\ sessions'[s].state = "active" /\ sessions'[s].busy = None
         /\ SessionSound(s)'
         /\ \A t \in Session : t # s => sessions'[t] = sessions[t]
<1> DEFINE n == [sessions[s] EXCEPT !.state = "active"]
<1>1. sessions \in [Session -> SessionState] /\ SessionSound(s) /\ sessions[s] \in SessionState
  BY DEF Inv, TypeOK
<1>2. sessions[s].busy = None
  <2> SUFFICES ASSUME sessions[s].busy # None
               PROVE  FALSE
    OBVIOUS
  <2>1. sessions[s].busy \in Request
    BY <1>1 DEF SessionState
  <2>2. RequestSound(sessions[s].busy)
    BY <2>1 DEF Inv
  <2> QED BY <1>1, <2>2 DEF RequestSound, SessionSound
<1>3. n \in SessionState /\ n.state = "active" /\ n.busy = None
      /\ n.held = sessions[s].held /\ n.ordered = sessions[s].ordered
  BY <1>1, <1>2 DEF SessionState
<1>4. sessions' = [sessions EXCEPT ![s] = n]
  OBVIOUS
<1>5. sessions'[s] = n /\ \A t \in Session : t # s => sessions'[t] = sessions[t]
  BY <1>1, <1>4
<1>6. sessions' \in [Session -> SessionState]
  BY <1>1, <1>3, <1>4
<1>7. SessionSound(s)'
  BY <1>1, <1>3, <1>5 DEF SessionSound
<1> QED BY <1>2, <1>3, <1>5, <1>6, <1>7

LEMMA BeginsIsRequest ==
  ASSUME NEW r \in RequestState, NEW s \in Session
  PROVE  [r EXCEPT !.pc = "answered", !.code = "ACCEPTED", !.session = s] \in RequestState
<1> DEFINE a == [r EXCEPT !.pc = "answered"]
           b == [a EXCEPT !.code = "ACCEPTED"]
           c == [b EXCEPT !.session = s]
<1>1. a \in RequestState
  BY DEF RequestState
<1> HIDE DEF a
<1>2. b \in RequestState
  BY <1>1 DEF RequestState, Codes
<1> HIDE DEF b
<1>3. c \in RequestState
  BY <1>2 DEF RequestState
<1>4. [r EXCEPT !.pc = "answered", !.code = "ACCEPTED", !.session = s] = c
  BY DEF a, b, c
<1> QED BY <1>3, <1>4

LEMMA InsteadSound ==
  ASSUME Inv, NEW q \in Request, Instead(q), requests[q].pc \in {"link", "open"},
         push' = push, client' = client, failures' = failures
  PROVE  Inv'
<1> DEFINE r == requests[q]
<1>1. r \in RequestState /\ RequestSound(q) /\ r.pc # "body" /\ r.kind = "mount"
      /\ requests \in [Request -> RequestState]
      /\ stored \in BOOLEAN /\ failures' \in 0..MaxFailures
  BY DEF Inv, TypeOK, RequestSound
<1>2. ASSUME NEW s \in Session, sessions[s].state = "none", BeginInstead(q, s)
      PROVE  Inv'
  <2> DEFINE new == IF client.request = q
                    THEN [r EXCEPT !.pc = "answered", !.code = "ACCEPTED", !.session = s] ELSE Free
  <2>1. s \in Session /\ sessions[s].state = "none" /\ s # None
    BY <1>2
  <2>2. sessions' = [sessions EXCEPT ![s].state = "active"] /\ stored' = stored
        /\ requests' = [requests EXCEPT ![q] = new]
    BY <1>2 DEF BeginInstead
  <2>3. /\ sessions' \in [Session -> SessionState]
        /\ sessions[s].busy = None
        /\ sessions'[s].state = "active" /\ sessions'[s].busy = None
        /\ SessionSound(s)'
        /\ \A t \in Session : t # s => sessions'[t] = sessions[t]
    <3>1. push' = push /\ (stored => stored')
      BY <2>2
    <3> QED BY <2>1, <2>2, <3>1, BegunSound
  <2>4. new \in RequestState
    BY <1>1, <2>1, BeginsIsRequest, FreeSound
  <2>5. new.pc \in {"answered", "free"} /\ (new.pc = "answered" => new.code = "ACCEPTED" /\ new.session = s)
        /\ new.kind # "put" /\ new.start <= new.stop
    <3>1. CASE client.request = q
      BY <1>1, <3>1 DEF RequestState, RequestSound
    <3>2. CASE client.request # q
      BY <3>2, FreeSound
    <3> QED BY <3>1, <3>2
  <2>6. requests'[q] = new
    BY <1>1, <2>2
  <2> HIDE DEF new
  <2>7. RequestSound(q)'
    BY <2>1, <2>5, <2>6 DEF RequestSound
  <2>8. \A t \in Session :
          \/ sessions'[t] = sessions[t]
          \/ /\ sessions[t].busy \in {None, q}
             /\ sessions[t].state \in {"digest", "gone"} => sessions'[t].state \in {"digest", "gone"}
             /\ sessions'[t].state = "digest" => sessions[t].state # "gone"
    BY <2>1, <2>3
  <2>9. \A t \in Session : sessions'[t] # sessions[t] \/ sessions[t].busy = q => SessionSound(t)'
    <3> SUFFICES ASSUME NEW t \in Session, sessions'[t] # sessions[t] \/ sessions[t].busy = q
                 PROVE  SessionSound(t)'
      OBVIOUS
    <3>1. sessions[t].busy # q
      BY <1>1 DEF Inv, SessionSound
    <3>2. t = s
      BY <2>3, <3>1
    <3> QED BY <2>3, <3>2
  <2> QED BY <1>1, <2>2, <2>3, <2>4, <2>7, <2>8, <2>9, HandlerSound
<1>3. CASE Answer(q, "ERROR", 0) /\ UNCHANGED <<sessions, stored>>
  BY <1>1, <1>3, RefusedSound, Refusals
<1>4. CASE Unbegun # {} /\ BeginInstead(q, NewSession)
  <2>1. PICK s \in Session : s = NewSession /\ sessions[s].state = "none"
    BY <1>4, NewSessionIsUnbegun
  <2> QED BY <1>2, <1>4, <2>1
<1> QED BY <1>3, <1>4 DEF Instead

LEMMA MountSound ==
  ASSUME Inv, NEW q \in Request, Link(q) \/ Open(q)
  PROVE  Inv'
<1> DEFINE r == requests[q]
<1>1. r.pc \in {"link", "open"} /\ r.pc # "body" /\ r.kind = "mount"
      /\ stored \in BOOLEAN /\ failures \in 0..MaxFailures
  BY DEF Inv, TypeOK, RequestSound, Link, Open
<1>2. push' = push /\ client' = client /\ failures' = failures /\ failures' \in 0..MaxFailures
  BY <1>1 DEF Link, Open
<1>3. CASE Instead(q)
  BY <1>1, <1>2, <1>3, InsteadSound
<1>4. CASE Answer(q, "CREATED", 0) /\ stored' = TRUE /\ UNCHANGED sessions
  <2>1. /\ RequestSound(q)'
        /\ \E new \in RequestState : requests' = [requests EXCEPT ![q] = new] /\ new.pc # "body"
    BY <1>1, <1>2, <1>4, AnswerSound DEF Codes
  <2>2. PICK new \in RequestState : requests' = [requests EXCEPT ![q] = new]
    BY <2>1
  <2> QED BY <1>1, <1>2, <1>4, <2>1, <2>2, QuietSound
<1>5. ASSUME NEW pc \in {"open", "copy"}, Goes(q, pc), UNCHANGED <<sessions, stored>>
      PROVE  Inv'
  <2>1. /\ RequestSound(q)'
        /\ \E new \in RequestState : requests' = [requests EXCEPT ![q] = new] /\ new.pc # "body"
    BY <1>1, <1>2, <1>5, GoesSound
  <2> QED BY <1>1, <1>2, <1>5, <2>1, QuietStep
<1> QED BY <1>3, <1>4, <1>5 DEF Link, Open

-----------------------------------------------------------------------------
(* The client's steps. *)

(* One that changes no request and no session. *)
LEMMA ClientMoves ==
  ASSUME Inv, UNCHANGED <<push, sessions, requests>>, stored' \in BOOLEAN, stored => stored',
         failures' \in 0..MaxFailures, client' \in ClientState, ClientSound'
  PROVE  Inv'
<1>1. TypeOK'
  BY DEF Inv, TypeOK
<1>2. \A s \in Session : SessionSound(s)'
  BY DEF Inv, SessionSound
<1>3. \A q \in Request : RequestSound(q)'
  BY DEF Inv, RequestSound
<1> QED BY <1>1, <1>2, <1>3 DEF Inv

(* One that changes a request nobody handles. *)
LEMMA ClientRequests ==
  ASSUME Inv, NEW q \in Request, NEW r \in RequestState, requests[q].pc # "body",
         requests' = [requests EXCEPT ![q] = r], UNCHANGED <<push, sessions, stored>>,
         failures' \in 0..MaxFailures, client' \in ClientState, ClientSound', RequestSound(q)'
  PROVE  Inv'
<1>1. TypeOK'
  BY DEF Inv, TypeOK
<1>2. \A p \in Request : p # q => requests'[p] = requests[p]
  BY DEF Inv, TypeOK
<1>3. ASSUME NEW s \in Session
      PROVE  SessionSound(s)'
  <2>1. SessionSound(s) /\ sessions[s] \in SessionState
    BY DEF Inv, TypeOK
  <2>2. sessions[s].busy \in Request \cup {None} /\ sessions[s].busy # q
    BY <2>1 DEF SessionSound, SessionState
  <2> QED BY <1>2, <2>1, <2>2 DEF SessionSound
<1>4. ASSUME NEW p \in Request
      PROVE  RequestSound(p)'
  BY <1>2 DEF Inv, RequestSound
<1> QED BY <1>1, <1>3, <1>4 DEF Inv

(* One that begins or ends a session nobody uses. *)
LEMMA SessionMoves ==
  ASSUME Inv, NEW s \in Session, NEW state \in {"active", "gone"},
         sessions[s].state = "none" \/ (state = "gone" /\ sessions[s].busy = None),
         sessions' = [sessions EXCEPT ![s].state = state],
         UNCHANGED <<push, requests, stored>>,
         failures' \in 0..MaxFailures, client' \in ClientState, ClientSound'
  PROVE  Inv'
<1> DEFINE n == [sessions[s] EXCEPT !.state = state]
<1>1. sessions \in [Session -> SessionState] /\ SessionSound(s) /\ sessions[s] \in SessionState
      /\ requests \in [Request -> RequestState]
  BY DEF Inv, TypeOK
<1>2. sessions[s].busy = None
  <2> SUFFICES ASSUME sessions[s].busy # None, sessions[s].state = "none"
               PROVE  FALSE
    OBVIOUS
  <2>1. sessions[s].busy \in Request
    BY <1>1 DEF SessionState
  <2>2. RequestSound(sessions[s].busy)
    BY <2>1 DEF Inv
  <2> QED BY <1>1, <2>2 DEF RequestSound, SessionSound
<1>3. n \in SessionState /\ n.state = state /\ n.busy = None
      /\ n.held = sessions[s].held /\ n.ordered = sessions[s].ordered
  BY <1>1, <1>2 DEF SessionState
<1>4. sessions'[s] = n /\ \A t \in Session : t # s => sessions'[t] = sessions[t]
  BY <1>1
<1>5. sessions' \in [Session -> SessionState]
  BY <1>1, <1>3
<1>6. TypeOK'
  BY <1>5 DEF Inv, TypeOK
<1>7. ASSUME NEW t \in Session
      PROVE  SessionSound(t)'
  <2>1. CASE t = s
    BY <1>1, <1>3, <1>4, <2>1 DEF SessionSound
  <2>2. CASE t # s
    BY <1>4, <2>2 DEF Inv, SessionSound
  <2> QED BY <2>1, <2>2
<1>8. ASSUME NEW p \in Request
      PROVE  RequestSound(p)'
  <2>1. p # None /\ push' = push /\ (stored => stored') /\ requests'[p] = requests[p]
    BY <1>1
  <2>2. \A t \in Session :
          \/ sessions'[t] = sessions[t]
          \/ /\ sessions[t].busy # p
             /\ sessions[t].state \in {"digest", "gone"} => sessions'[t].state \in {"digest", "gone"}
             /\ sessions'[t].state = "digest" => sessions[t].state # "gone"
    BY <1>2, <1>3, <1>4, <2>1
  <2> QED BY <2>1, <2>2, RequestKept
<1> QED BY <1>6, <1>7, <1>8 DEF Inv

(* What is sent is a request, of the session the client has. *)
Sent(pc, kind, session, start, stop, again) ==
  [Free EXCEPT !.pc = pc, !.kind = kind, !.session = session, !.start = start,
               !.stop = stop, !.again = again]

LEMMA SentIsRequest ==
  ASSUME NEW pc \in {"add", "link", "resume"}, NEW kind \in {"post", "mount", "patch", "put"},
         NEW s \in Session \cup {None}, NEW start \in 0..Length, NEW stop \in 0..Length,
         NEW again \in BOOLEAN
  PROVE  /\ Sent(pc, kind, s, start, stop, again) \in RequestState
         /\ Sent(pc, kind, s, start, stop, again).pc = pc
         /\ Sent(pc, kind, s, start, stop, again).kind = kind
         /\ Sent(pc, kind, s, start, stop, again).session = s
         /\ Sent(pc, kind, s, start, stop, again).start = start
         /\ Sent(pc, kind, s, start, stop, again).stop = stop
         /\ Sent(pc, kind, s, start, stop, again).again = again
<1> DEFINE a == [Free EXCEPT !.pc = pc]
           b == [a EXCEPT !.kind = kind]
           c == [b EXCEPT !.session = s]
           d == [c EXCEPT !.start = start]
           e == [d EXCEPT !.stop = stop]
           f == [e EXCEPT !.again = again]
           r == Sent(pc, kind, s, start, stop, again)
<1>1. a \in RequestState
  BY FreeSound DEF RequestState
<1> HIDE DEF a
<1>2. b \in RequestState
  BY <1>1 DEF RequestState
<1> HIDE DEF b
<1>3. c \in RequestState
  BY <1>2 DEF RequestState
<1> HIDE DEF c
<1>4. d \in RequestState
  BY <1>3 DEF RequestState
<1> HIDE DEF d
<1>5. e \in RequestState
  BY <1>4 DEF RequestState
<1> HIDE DEF e
<1>6. f \in RequestState
  BY <1>5 DEF RequestState
<1>7. r = f
  BY DEF a, b, c, d, e, f, Free, Sent
<1>8. r.pc = pc /\ r.kind = kind /\ r.session = s /\ r.start = start /\ r.stop = stop
      /\ r.again = again
  BY DEF Free, Sent
<1> HIDE DEF f, r
<1>9. r \in RequestState
  BY <1>6, <1>7
<1> QED BY <1>8, <1>9 DEF r

LEMMA SendSound ==
  ASSUME Inv, NEW q \in Request, NEW kind \in {"post", "mount", "patch", "put"},
         NEW start \in 0..Length, NEW stop \in 0..Length, start <= stop,
         Send(q, kind, start, stop),
         kind \in {"patch", "put"} => client.session # None,
         UNCHANGED <<push, sessions, stored>>,
         failures' \in 0..MaxFailures, client' \in ClientState, ClientSound'
  PROVE  Inv'
<1> DEFINE pc == CASE kind = "post" -> "add" [] kind = "mount" -> "link" [] OTHER -> "resume"
           s == client.session
           again == s # None /\ sessions[s].state = "digest"
           r == Sent(pc, kind, s, start, stop, again)
<1>1. pc \in {"add", "link", "resume"} /\ again \in BOOLEAN
      /\ s \in Session \cup {None} /\ requests \in [Request -> RequestState]
  BY DEF Inv, TypeOK, ClientState
<1>2. /\ r \in RequestState
      /\ r.pc = pc /\ r.kind = kind /\ r.session = s /\ r.start = start /\ r.stop = stop
      /\ r.again = again
  <2>1. start \in 0..Length /\ stop \in 0..Length /\ kind \in {"post", "mount", "patch", "put"}
    OBVIOUS
  <2> HIDE DEF pc, again, s, r
  <2> QED BY ONLY <1>1, <2>1, SentIsRequest DEF r
<1>3. requests' = [requests EXCEPT ![q] = r] /\ requests[q].pc = "free"
  BY DEF Send, Unused, Sent
<1>4. requests'[q] = r
  BY <1>1, <1>3
<1>5. /\ pc = "resume" => s # None
      /\ kind = "put" => s # None /\ pc = "resume"
      /\ pc = "link" => kind = "mount"
  OBVIOUS
<1>6. again => sessions[s].state = "digest"
  OBVIOUS
<1> HIDE DEF pc, again, r
<1>7. RequestSound(q)'
  BY <1>1, <1>2, <1>4, <1>5, <1>6 DEF RequestSound
<1>8. requests[q].pc # "body"
  BY <1>3
<1> QED BY <1>2, <1>3, <1>7, <1>8, ClientRequests

LEMMA PostSound ==
  ASSUME Inv, NEW q \in Request, NEW kind \in {"post", "mount"}, Post(q, kind)
  PROVE  Inv'
<1>1. client' \in ClientState /\ ClientSound'
  BY DEF Inv, TypeOK, ClientState, ClientSound, Post
<1>2. 0 \in 0..Length /\ failures' \in 0..MaxFailures
  BY DEF Inv, TypeOK, Post
<1>3. Send(q, kind, 0, 0) /\ UNCHANGED <<push, sessions, stored>>
  BY DEF Post
<1> QED BY <1>1, <1>2, <1>3, SendSound

LEMMA PatchSound ==
  ASSUME Inv, NEW q \in Request, NEW n \in 1..Length, Patch(q, n)
  PROVE  Inv'
<1>1. client' \in ClientState /\ ClientSound' /\ client.session # None
  BY DEF Inv, TypeOK, ClientState, ClientSound, Patch
<1>2. client.at \in 0..Length /\ client.at + n \in 0..Length /\ client.at <= client.at + n
      /\ failures' \in 0..MaxFailures
  BY DEF Inv, TypeOK, Patch
<1>3. Send(q, "patch", client.at, client.at + n) /\ UNCHANGED <<push, sessions, stored>>
  BY DEF Patch
<1> QED BY <1>1, <1>2, <1>3, SendSound

LEMMA PutSound ==
  ASSUME Inv, NEW q \in Request, Put(q)
  PROVE  Inv'
<1>1. client.at \in 0..Length /\ Length \in 0..Length /\ client.at <= Length
      /\ failures' \in 0..MaxFailures
  BY DEF Inv, TypeOK, Put
<1>2. client' \in ClientState /\ ClientSound' /\ client.session # None
  BY <1>1 DEF Inv, TypeOK, ClientState, ClientSound, Put
<1>3. Send(q, "put", client.at, Length) /\ UNCHANGED <<push, sessions, stored>>
  BY DEF Put
<1> QED BY <1>1, <1>2, <1>3, SendSound

LEMMA PutAgainSound ==
  ASSUME Inv, NEW q \in Request, PutAgain(q)
  PROVE  Inv'
<1>1. client.put \in 0..Length /\ Length \in 0..Length /\ client.put <= Length
      /\ failures' \in 0..MaxFailures
  BY DEF Inv, TypeOK, ClientState, PutAgain
<1>2. client' \in ClientState /\ ClientSound' /\ client.session # None
  BY DEF Inv, TypeOK, ClientState, ClientSound, PutAgain
<1>3. Send(q, "put", client.put, Length) /\ UNCHANGED <<push, sessions, stored>>
  BY DEF PutAgain
<1> QED BY <1>1, <1>2, <1>3, SendSound

(* The client reads an answer that is its own, or no longer waits for it. *)
LEMMA FreedSound ==
  ASSUME Inv, NEW q \in Request, requests[q].pc = "answered",
         requests' = [requests EXCEPT ![q] = Free], UNCHANGED <<push, sessions, stored>>,
         failures' \in 0..MaxFailures, client' \in ClientState, ClientSound'
  PROVE  Inv'
<1>1. requests \in [Request -> RequestState] /\ requests[q].pc # "body"
  BY DEF Inv, TypeOK
<1>2. requests'[q] = Free
  BY <1>1
<1>3. RequestSound(q)'
  BY <1>2, FreeSound DEF RequestSound
<1> QED BY <1>1, <1>3, FreeSound, ClientRequests

LEMMA GiveUpOnSound ==
  ASSUME Inv, NEW q \in Request, GiveUpOn(q)
  PROVE  Inv'
<1>1. client' \in ClientState /\ ClientSound'
  BY DEF Inv, TypeOK, ClientState, ClientSound, GiveUpOn
<1>2. UNCHANGED <<push, sessions, stored>> /\ failures' \in 0..MaxFailures /\ stored \in BOOLEAN
  BY DEF Inv, TypeOK, GiveUpOn
<1>3. CASE requests[q].pc = "answered"
  <2>1. requests' = [requests EXCEPT ![q] = Free]
    BY <1>3 DEF GiveUpOn
  <2> QED BY <1>1, <1>2, <1>3, <2>1, FreedSound
<1>4. CASE requests[q].pc # "answered"
  <2>1. requests' = requests /\ stored' \in BOOLEAN /\ (stored => stored')
    BY <1>2, <1>4 DEF GiveUpOn
  <2> QED BY <1>1, <1>2, <2>1, ClientMoves
<1> QED BY <1>3, <1>4

(* What a client becomes. *)
Turned(c, pc, s, at) == [c EXCEPT !.pc = pc, !.session = s, !.at = at, !.put = None]

LEMMA TurnedIsClient ==
  ASSUME NEW c \in ClientState, NEW pc \in {"idle", "ready", "done", "failed"},
         NEW s \in Session \cup {None}, NEW at \in Int
  PROVE  /\ Turned(c, pc, s, at) \in ClientState
         /\ Turned(c, pc, s, at).pc = pc
         /\ Turned(c, pc, s, at).session = s
<1> DEFINE d == [c EXCEPT !.pc = pc]
           e == [d EXCEPT !.session = s]
           f == [e EXCEPT !.at = at]
           g == [f EXCEPT !.put = None]
<1>1. d \in ClientState
  BY DEF ClientState
<1> HIDE DEF d
<1>2. e \in ClientState
  BY <1>1 DEF ClientState
<1> HIDE DEF e
<1>3. f \in ClientState
  BY <1>2 DEF ClientState
<1> HIDE DEF f
<1>4. g \in ClientState
  BY <1>3 DEF ClientState
<1>5. Turned(c, pc, s, at) = g
  BY DEF d, e, f, g, Turned
<1>6. Turned(c, pc, s, at).pc = pc /\ Turned(c, pc, s, at).session = s
  BY DEF ClientState, Turned
<1> QED BY <1>4, <1>5, <1>6

LEMMA ClientLeaves ==
  ASSUME NEW c \in ClientState, NEW pc \in {"idle", "done", "failed"}
  PROVE  LET d == [c EXCEPT !.pc = pc, !.request = None, !.session = None, !.at = 0, !.put = None]
         IN  d \in ClientState /\ d.pc = pc
<1> DEFINE d == [c EXCEPT !.request = None]
           e == [d EXCEPT !.pc = pc]
           f == [e EXCEPT !.session = None]
           g == [f EXCEPT !.at = 0]
           h == [g EXCEPT !.put = None]
           all == [c EXCEPT !.pc = pc, !.request = None, !.session = None, !.at = 0, !.put = None]
<1>1. d \in ClientState
  BY DEF ClientState
<1> HIDE DEF d
<1>2. e \in ClientState
  BY <1>1 DEF ClientState
<1> HIDE DEF e
<1>3. f \in ClientState
  BY <1>2 DEF ClientState
<1> HIDE DEF f
<1>4. g \in ClientState
  BY <1>3 DEF ClientState
<1> HIDE DEF g
<1>5. h \in ClientState
  BY <1>4 DEF ClientState
<1>6. all = h
  BY DEF d, e, f, g, h
<1>7. all.pc = pc
  BY DEF ClientState
<1> QED BY <1>5, <1>6, <1>7

Resumed(c, s, at) == [c EXCEPT !.pc = "ready", !.request = None, !.session = s, !.at = at]

LEMMA ClientResumes ==
  ASSUME NEW c \in ClientState, NEW s \in Session \cup {None}, NEW at \in Int
  PROVE  /\ Resumed(c, s, at) \in ClientState
         /\ Resumed(c, s, at).pc = "ready"
         /\ Resumed(c, s, at).session = s
BY DEF ClientState, Resumed

LEMMA ResumedIsInt ==
  ASSUME NEW last \in Int
  PROVE  ResumedFrom(last) \in Int
BY DEF ResumedFrom

LEMMA ReceiveSound ==
  ASSUME Inv, NEW q \in Request, Receive(q)
  PROVE  Inv'
<1> DEFINE r == requests[q]
           code == r.code
           at == IF push.ranged THEN ResumedFrom(r.range) ELSE r.stop
           resumed == Resumed(client, r.session, at)
           leaves(pc) == [client EXCEPT !.pc = pc, !.request = None, !.session = None,
                                        !.at = 0, !.put = None]
<1>1. client \in ClientState /\ ClientSound /\ r \in RequestState /\ RequestSound(q)
      /\ r.pc = "answered" /\ stored \in BOOLEAN
  BY DEF Inv, TypeOK, Receive
<1>2. requests' = [requests EXCEPT ![q] = Free] /\ UNCHANGED <<push, sessions, stored>>
      /\ failures' \in 0..MaxFailures
  BY DEF Inv, TypeOK, Receive
<1>3. r.range \in Int /\ r.stop \in Int /\ r.session \in Session \cup {None}
  BY <1>1 DEF RequestState
<1>4. at \in Int
  BY <1>3, ResumedIsInt
<1>5. (code = "CREATED" => stored) /\ (code \in {"ACCEPTED", "RANGE"} => r.session # None)
  BY <1>1 DEF RequestSound
<1>6. client' \in ClientState /\ ClientSound'
  <2>1. CASE code = "CREATED"
    <3>1. client' = leaves("done")
      BY <2>1 DEF Receive
    <3> QED BY <1>1, <1>2, <1>5, <2>1, <3>1, ClientLeaves DEF ClientSound
  <2>2. CASE code \in {"ACCEPTED", "RANGE"} /\ client' = resumed
    <3>1. client' \in ClientState /\ client'.pc = "ready" /\ client'.session = r.session
      <4>1. /\ Resumed(client, r.session, at) \in ClientState
            /\ Resumed(client, r.session, at).pc = "ready"
            /\ Resumed(client, r.session, at).session = r.session
        <5> HIDE DEF at, r, code, resumed, leaves
        <5>1. client \in ClientState
          BY <1>1
        <5> QED BY ONLY <5>1, <1>3, <1>4, ClientResumes
      <4> HIDE DEF at, r
      <4> QED BY <2>2, <4>1
    <3> QED BY <1>5, <2>2, <3>1 DEF ClientSound
  <2>3. CASE client' = leaves("idle")
    <3>1. client' \in ClientState /\ client'.pc = "idle"
      BY ONLY <1>1, <2>3, ClientLeaves
    <3> QED BY <3>1 DEF ClientSound
  <2>5. CASE client' = leaves("failed")
    <3>1. client' \in ClientState /\ client'.pc = "failed"
      BY ONLY <1>1, <2>5, ClientLeaves
    <3> QED BY <3>1 DEF ClientSound
  <2>4. CASE client' = [client EXCEPT !.pc = "unsure", !.request = None]
    BY <1>1, <2>4 DEF ClientState, ClientSound
  <2> QED BY <2>1, <2>2, <2>3, <2>4, <2>5 DEF Receive, Resumed
<1> QED BY <1>1, <1>2, <1>6, FreedSound

LEMMA AskSound ==
  ASSUME Inv, Ask
  PROVE  Inv'
<1> DEFINE s == client.session
           at == ResumedFrom(RangeOf(sessions[s].held))
<1>1. client \in ClientState /\ failures' \in 0..MaxFailures /\ stored' \in BOOLEAN
      /\ (stored => stored') /\ UNCHANGED <<push, sessions, requests>>
  BY DEF Inv, TypeOK, Ask
<1>2. CASE s # None /\ client' = [client EXCEPT !.pc = "ready", !.at = at]
  <2>1. s \in Session /\ sessions[s].held \in Nat
    BY <1>1, <1>2 DEF Inv, TypeOK, ClientState, SessionState
  <2>2. at \in Int
    BY <2>1, RangeIsInt, ResumedIsInt
  <2> HIDE DEF at
  <2>3. client' \in ClientState /\ ClientSound'
    BY <1>1, <1>2, <2>2 DEF ClientState, ClientSound
  <2> QED BY <1>1, <2>3, ClientMoves
<1>3. CASE client' = Turned(client, "idle", None, 0)
  <2>1. client' \in ClientState /\ client'.pc = "idle"
    <3> HIDE DEF s, at
    <3>1. None \in Session \cup {None} /\ 0 \in Int /\ client \in ClientState
      BY <1>1
    <3>2. Turned(client, "idle", None, 0) \in ClientState
          /\ Turned(client, "idle", None, 0).pc = "idle"
      BY <3>1, TurnedIsClient
    <3> QED BY <1>3, <3>2
  <2>2. ClientSound'
    BY <2>1 DEF ClientSound
  <2> QED BY <1>1, <2>1, <2>2, ClientMoves
<1> QED BY <1>2, <1>3 DEF Ask, Turned

LEMMA GiveUpSound ==
  ASSUME Inv, GiveUp
  PROVE  Inv'
<1>1. client' \in ClientState /\ ClientSound'
  BY DEF Inv, TypeOK, ClientState, ClientSound, GiveUp
<1> QED BY <1>1, ClientMoves DEF Inv, TypeOK, GiveUp

LEMMA BeginUploadSound ==
  ASSUME Inv, BeginUpload
  PROVE  Inv'
<1>1. PICK s \in Session : s = NewSession /\ sessions[s].state = "none"
  BY NewSessionIsUnbegun DEF BeginUpload
<1>2. sessions' = [sessions EXCEPT ![s].state = "active"] /\ UNCHANGED <<push, requests, stored>>
      /\ failures' \in 0..MaxFailures
  BY <1>1 DEF Inv, TypeOK, BeginUpload
<1>3. client' \in ClientState /\ ClientSound'
  <2>1. CASE client' = client
    BY <1>2, <2>1 DEF Inv, TypeOK, ClientSound
  <2>2. CASE client' = Turned(client, "ready", s, 0)
    <3>1. client \in ClientState
      BY DEF Inv, TypeOK
    <3>2. s \in Session \cup {None} /\ 0 \in Int
      OBVIOUS
    <3>3. /\ Turned(client, "ready", s, 0) \in ClientState
          /\ Turned(client, "ready", s, 0).pc = "ready"
          /\ Turned(client, "ready", s, 0).session = s
      BY <3>1, <3>2, TurnedIsClient
    <3>4. client' \in ClientState /\ client'.pc = "ready" /\ client'.session = s
      BY <2>2, <3>3
    <3> QED BY <1>1, <3>4 DEF ClientSound
  <2> QED BY <1>1, <2>1, <2>2 DEF BeginUpload, Turned
<1> QED BY <1>1, <1>2, <1>3, SessionMoves

LEMMA CancelSound ==
  ASSUME Inv, Cancel
  PROVE  Inv'
<1> DEFINE s == client.session
<1>1. client' \in ClientState /\ ClientSound'
  <2>1. client \in ClientState
    BY DEF Inv, TypeOK
  <2>2. client' = Turned(client, "failed", None, 0)
    BY DEF Cancel, Turned
  <2>3. None \in Session \cup {None} /\ 0 \in Int /\ "failed" \in {"idle", "ready", "done", "failed"}
    OBVIOUS
  <2>4. /\ Turned(client, "failed", None, 0) \in ClientState
        /\ Turned(client, "failed", None, 0).pc = "failed"
    BY ONLY <2>1, <2>3, TurnedIsClient
  <2>5. client' \in ClientState /\ client'.pc = "failed"
    BY ONLY <2>2, <2>4
  <2> QED BY <2>5 DEF ClientSound
<1>2. s \in Session /\ failures' \in 0..MaxFailures /\ stored \in BOOLEAN
      /\ UNCHANGED <<push, requests, stored>> /\ sessions[s].busy = None
  BY DEF Inv, TypeOK, ClientState, Cancel
<1>3. CASE sessions' = sessions
  BY <1>1, <1>2, <1>3, ClientMoves
<1>4. CASE sessions' = [sessions EXCEPT ![s].state = "gone"]
  <2>1. PICK t \in Session : t = s
    BY <1>2
  <2> QED BY <1>1, <1>2, <1>4, <2>1, SessionMoves
<1> QED BY <1>3, <1>4 DEF Cancel

-----------------------------------------------------------------------------
(* What goes on around it. *)

LEMMA PruneSound ==
  ASSUME Inv, NEW s \in Session, Prune(s)
  PROVE  Inv'
<1>1. client' \in ClientState /\ ClientSound' /\ failures' \in 0..MaxFailures
  BY DEF Inv, TypeOK, ClientSound, Prune
<1> QED BY <1>1, SessionMoves DEF Prune

LEMMA PushedSound ==
  ASSUME Inv, Pushed
  PROVE  Inv'
<1>1. client' \in ClientState /\ ClientSound' /\ failures' \in 0..MaxFailures
      /\ stored' \in BOOLEAN /\ (stored => stored')
  BY DEF Inv, TypeOK, ClientSound, Pushed
<1> QED BY <1>1, ClientMoves DEF Pushed

LEMMA CrashSound ==
  ASSUME Inv, Crash
  PROVE  Inv'
<1>1. client \in ClientState /\ stored \in BOOLEAN /\ push \in PushState
      /\ requests \in [Request -> RequestState] /\ sessions \in [Session -> SessionState]
  BY DEF Inv, TypeOK
<1>2. client' \in ClientState /\ ClientSound'
  BY <1>1 DEF Inv, ClientState, ClientSound, Crash
<1>3. \A q \in Request : requests'[q] = Free
  BY DEF Crash
<1>4. requests' \in [Request -> RequestState]
  BY FreeSound DEF Crash
<1>5. UNCHANGED <<push, stored>> /\ failures' \in 0..MaxFailures
  <2>1. failures \in 0..MaxFailures
    BY DEF Inv, TypeOK
  <2>2. UNCHANGED <<push, stored>> /\ failures < MaxFailures /\ failures' = failures + 1
    BY DEF Crash
  <2> QED BY <2>1, <2>2
<1>6. \A q \in Request : RequestSound(q)'
  BY <1>3, FreeSound DEF RequestSound
<1>7. PICK kept \in [Session -> 0..Length] :
        sessions' = [s \in Session |->
          IF sessions[s].busy = None THEN sessions[s]
          ELSE [sessions[s] EXCEPT !.busy = None,
                  !.held = IF kept[s] \in requests[sessions[s].busy].expected..sessions[s].held
                           THEN kept[s] ELSE sessions[s].held]]
  BY DEF Crash
<1>8. ASSUME NEW s \in Session
      PROVE  sessions'[s] \in SessionState /\ SessionSound(s)'
  <2>1. SessionSound(s) /\ sessions[s] \in SessionState /\ sessions[s].held \in Nat
        /\ kept[s] \in Nat
    BY <1>1 DEF Inv, SessionState
  <2>2. CASE sessions[s].busy = None
    <3>1. sessions'[s] = sessions[s]
      BY <1>7, <2>2
    <3> QED BY <1>5, <2>1, <2>2, <3>1 DEF SessionSound
  <2>3. CASE sessions[s].busy # None
    <3> DEFINE h == IF kept[s] \in requests[sessions[s].busy].expected..sessions[s].held
                    THEN kept[s] ELSE sessions[s].held
               n == [sessions[s] EXCEPT !.held = h, !.busy = None]
    <3>1. h \in Nat /\ h <= sessions[s].held
      <4>1. sessions[s].busy \in Request
        BY <2>1, <2>3 DEF SessionState
      <4>2. requests[sessions[s].busy].expected \in Nat
        BY <1>1, <4>1 DEF RequestState
      <4> QED BY <2>1, <4>2
    <3>2. sessions'[s] = n
      BY <1>7, <2>3
    <3> HIDE DEF h
    <3>3. n \in SessionState
      BY <2>1, <3>1, KeptIsSession
    <3>4. n.busy = None /\ n.held = h /\ n.state = sessions[s].state
          /\ n.ordered = sessions[s].ordered
      BY <2>1 DEF SessionState
    <3>5. push.ranged => n.ordered /\ n.held <= Length
      BY <2>1, <3>1, <3>4 DEF SessionSound
    <3>6. n.state = "digest" => stored
      BY <2>1, <3>4 DEF SessionSound
    <3> QED BY <1>5, <3>2, <3>3, <3>4, <3>5, <3>6 DEF SessionSound
  <2> QED BY <2>2, <2>3
<1>9. sessions' \in [Session -> SessionState]
  BY <1>7, <1>8
<1>10. TypeOK'
  BY <1>1, <1>2, <1>4, <1>5, <1>9 DEF TypeOK
<1> QED BY <1>2, <1>6, <1>8, <1>10 DEF Inv

-----------------------------------------------------------------------------
LEMMA InitSound == Init => Inv
<1> SUFFICES ASSUME Init
             PROVE  Inv
  OBVIOUS
<1>1. \A q \in Request : requests[q] = Free
  BY DEF Init
<1>2. TypeOK
  <2> DEFINE n == [state |-> "none", held |-> 0, ordered |-> TRUE, busy |-> None]
             c == [pc |-> "idle", session |-> None, at |-> 0, request |-> None, put |-> None]
  <2>1. n \in SessionState
    BY DEF SessionState
  <2>2. c \in ClientState
    BY DEF ClientState
  <2>3. sessions = [s \in Session |-> n] /\ client = c /\ requests = [q \in Request |-> Free]
        /\ push \in PushState
    BY DEF Init
  <2> HIDE DEF n, c
  <2>4. sessions \in [Session -> SessionState] /\ requests \in [Request -> RequestState]
    BY <2>1, <2>3, FreeSound
  <2>5. stored \in BOOLEAN
    BY DEF Init
  <2>8. failures \in 0..MaxFailures
    <3>1. failures = 0
      BY DEF Init
    <3> QED BY <3>1
  <2>6. client \in ClientState
    BY <2>2, <2>3
  <2>7. push \in PushState
    BY <2>3
  <2> QED BY <2>4, <2>5, <2>6, <2>7, <2>8 DEF TypeOK
<1>3. ASSUME NEW s \in Session
      PROVE  SessionSound(s)
  <2>1. sessions[s] = [state |-> "none", held |-> 0, ordered |-> TRUE, busy |-> None]
    BY DEF Init
  <2>2. sessions[s].state = "none" /\ sessions[s].held = 0 /\ sessions[s].ordered = TRUE
        /\ sessions[s].busy = None
    BY <2>1
  <2> QED BY <2>2 DEF SessionSound
<1>4. \A q \in Request : RequestSound(q)
  BY <1>1, FreeSound DEF RequestSound
<1>5. ClientSound
  BY DEF Init, ClientSound
<1> QED BY <1>2, <1>3, <1>4, <1>5 DEF Inv

LEMMA HandleSound ==
  ASSUME Inv, NEW q \in Request, Handle(q)
  PROVE  Inv'
BY ResumeSound, ExpectSound, AppendBeginSound, OutOfRangeSound, AppendPieceSound, AppendEndSound, CommitSound,
   MismatchSound, RehashSound, ReopenSound, AddSound, MountSound, CopySound DEF Handle

LEMMA NextSound == Inv /\ [Next]_vars => Inv'
<1> SUFFICES ASSUME Inv, [Next]_vars
             PROVE  Inv'
  OBVIOUS
<1>1. CASE GoOn
  BY <1>1, BeginUploadSound, PutSound, ReceiveSound, PutAgainSound, PatchSound, AskSound,
     GiveUpSound DEF GoOn
<1>2. ASSUME NEW q \in Request, Handle(q)
      PROVE  Inv'
  BY <1>2, HandleSound
<1>3. ASSUME NEW q \in Request, Fail(q) \/ GiveUpOn(q)
      PROVE  Inv'
  BY <1>3, FailSound, GiveUpOnSound
<1>4. ASSUME NEW q \in Request, NEW n \in 0..Length, AppendBreak(q, n)
      PROVE  Inv'
  BY <1>4, AppendBreakSound
<1>5. ASSUME NEW q \in Request, NEW kind \in {"post", "mount"}, Post(q, kind)
      PROVE  Inv'
  BY <1>5, PostSound
<1>6. CASE Cancel \/ Pushed \/ Crash
  BY <1>6, CancelSound, PushedSound, CrashSound
<1>7. ASSUME NEW s \in Session, Prune(s)
      PROVE  Inv'
  BY <1>7, PruneSound
<1>8. CASE UNCHANGED vars
  <2>1. client' \in ClientState /\ failures' \in 0..MaxFailures /\ stored' \in BOOLEAN
        /\ (stored => stored') /\ UNCHANGED <<push, sessions, requests>>
    BY <1>8 DEF Inv, TypeOK, vars
  <2>2. ClientSound'
    BY <1>8 DEF Inv, ClientSound, vars
  <2> QED BY <2>1, <2>2, ClientMoves
<1> QED BY <1>1, <1>2, <1>3, <1>4, <1>5, <1>6, <1>7, <1>8 DEF Next

(* Sessions, requests and the client are sound: an append has its stage to   *)
(* itself, is where it says, and what is committed is there                  *)
(* (registry/blobs.go:413-547).                                              *)
THEOREM Soundness == Spec => []Inv
BY InitSound, NextSound, PTL DEF Spec

(* No chunk that says where it belongs is missing from a session, or in it   *)
(* twice (registry/blobs.go:413-465).                                        *)
THEOREM ChunksInOrder == Spec => []SessionsInOrder
<1>1. Inv => SessionsInOrder
  BY DEF Inv, SessionSound, SessionsInOrder
<1> QED BY <1>1, Soundness, PTL

(* What a client is told was created is there (registry/blobs.go:498-547).   *)
THEOREM CreatedIsStored == Spec => []CreatedStored
<1>1. Inv => CreatedStored
  BY DEF Inv, ClientSound, RequestSound, CreatedStored
<1> QED BY <1>1, Soundness, PTL

(* A final request with nothing to append is answered again as it was        *)
(* (registry/blobs.go:493-498).                                              *)
THEOREM CommitsAgree == Spec => []EmptyRetriedSame
<1>1. Inv => EmptyRetriedSame
  BY DEF Inv, RequestSound, Retried, EmptyRetriedSame
<1> QED BY <1>1, Soundness, PTL

-----------------------------------------------------------------------------
(***************************************************************************)
(* Right bytes are taken: nothing is refused while nothing goes wrong.      *)
(***************************************************************************)

(* Who reads a range goes on from what the session held, or from the start. *)
LEMMA ResumedFromRange ==
  ASSUME NEW held \in Nat
  PROVE  ResumedFrom(RangeOf(held)) \in {0, held}
<1>1. CASE held = 0
  BY <1>1 DEF RangeOf, ResumedFrom
<1>2. CASE held # 0
  <2> DEFINE bytes == held * Unit
  <2>1. bytes \in Int /\ (bytes - 1) + 1 = bytes
    OBVIOUS
  <2>2. bytes \div Unit = held
    OBVIOUS
  <2>3. RangeOf(held) = bytes - 1
    BY <1>2 DEF RangeOf
  <2> HIDE DEF bytes
  <2> QED BY <2>1, <2>2, <2>3 DEF ResumedFrom
<1> QED BY <1>1, <1>2

(* What a step of the client's request must show.                           *)
LEMMA CourseOfRequest ==
  ASSUME OnCourse, NEW q \in Request, requests[q].pc # "free",
         client' = client, \A p \in Request : p # q => requests'[p] = requests[p],
         \A s \in Session : sessions'[s].state = "none" => sessions'[s] = sessions[s],
         RightSoFar(q)'
  PROVE  OnCourse'
<1>1. client.pc = "waiting" /\ client.request = q
  BY DEF OnCourse
<1>2. \A p \in Request : requests'[p].pc # "free" => p = q
  BY <1>1 DEF OnCourse
<1>3. \A s \in Unbegun' : sessions'[s].held = 0 /\ sessions'[s].ordered /\ sessions'[s].busy = None
  BY DEF OnCourse, Unbegun
<1> QED BY <1>1, <1>2, <1>3 DEF OnCourse

(* It is answered with what the client asked for, or told where to go on.   *)
LEMMA CourseOfAnswer ==
  ASSUME Inv, OnCourse, NEW q \in Request, requests[q].pc # "free",
         NEW code, NEW range, Answer(q, code, range), UNCHANGED <<push, client>>,
         \A s \in Session : sessions'[s].state = "none" => sessions'[s] = sessions[s],
         \/ code = "CREATED"
         \/ /\ code = "ACCEPTED" \/ (code = "RANGE" /\ push.ranged)
            /\ requests[q].session \in Session
            /\ Continues(sessions'[requests[q].session], push.ranged,
                         IF push.ranged THEN ResumedFrom(range) ELSE requests[q].stop)
  PROVE  OnCourse'
<1> DEFINE r == requests[q]
<1>1. /\ r \in RequestState /\ requests \in [Request -> RequestState]
      /\ client.request = q /\ RightSoFar(q)
  BY DEF Inv, TypeOK, OnCourse
<1>2. requests' = [requests EXCEPT ![q] = Answered(r, code, range)]
  BY <1>1 DEF Answer
<1>3. /\ requests'[q].pc = "answered" /\ requests'[q].code = code /\ requests'[q].range = range
      /\ requests'[q].stop = r.stop /\ requests'[q].kind = r.kind /\ requests'[q].session = r.session
  BY <1>1, <1>2 DEF Answered, RequestState
<1>4. r.kind = "put" => r.stop = Length
  BY <1>1 DEF RightSoFar
<1>5. RightSoFar(q)'
  <2>1. CASE code = "CREATED"
    BY <1>3, <1>4, <2>1 DEF RightSoFar
  <2>2. CASE code # "CREATED"
    BY <1>3, <1>4, <2>2 DEF RightSoFar, Resumable
  <2> QED BY <2>1, <2>2
<1>6. \A p \in Request : p # q => requests'[p] = requests[p]
  BY <1>1, <1>2
<1> QED BY <1>5, <1>6, CourseOfRequest

(* It goes on to another step.                                              *)
LEMMA CourseOfStep ==
  ASSUME Inv, NEW q \in Request, NEW pc, Goes(q, pc)
  PROVE  /\ requests'[q] = [requests[q] EXCEPT !.pc = pc]
         /\ requests'[q].pc = pc /\ requests'[q].kind = requests[q].kind
         /\ requests'[q].session = requests[q].session
         /\ requests'[q].start = requests[q].start /\ requests'[q].stop = requests[q].stop
         /\ requests'[q].expected = requests[q].expected
         /\ requests'[q].at = requests[q].at /\ requests'[q].range = requests[q].range
         /\ \A p \in Request : p # q => requests'[p] = requests[p]
<1>1. requests[q] \in RequestState /\ requests \in [Request -> RequestState]
  BY DEF Inv, TypeOK
<1> QED BY <1>1 DEF Goes, RequestState

(* The request that is handled.                                             *)
LEMMA CourseFacts ==
  ASSUME Inv, OnCourse, NEW q \in Request, requests[q].pc # "free"
  PROVE  /\ requests[q] \in RequestState /\ RequestSound(q) /\ RightSoFar(q)
         /\ client.request = q /\ push \in PushState
         /\ requests \in [Request -> RequestState]
         /\ sessions \in [Session -> SessionState]
         /\ requests[q].start \in 0..Length /\ requests[q].stop \in 0..Length
         /\ requests[q].session # None => requests[q].session \in Session
BY DEF Inv, TypeOK, OnCourse, RequestState

LEMMA ResumeCourse ==
  ASSUME Inv, OnCourse, NEW q \in Request, Resume(q)
  PROVE  OnCourse'
<1> DEFINE r == requests[q]
           n == requests'[q]
<1>1. r.pc = "resume" /\ UNCHANGED <<push, client, sessions>>
  BY DEF Resume
<1>2. /\ r.session \in Session /\ Continues(sessions[r.session], push.ranged, r.start)
      /\ r.kind = "put" => r.stop = Length
  BY <1>1, CourseFacts DEF RightSoFar, Resumable
<1>3. Known(r.session)
  BY <1>2 DEF Continues, Known
<1>4. PICK pc \in {"commit", "stat"} :
        Goes(q, pc) /\ (pc = "commit" => r.kind = "put" /\ r.start = r.stop)
  BY <1>3 DEF Resume
<1>5. /\ n.pc = pc /\ n.kind = r.kind /\ n.session = r.session
      /\ n.start = r.start /\ n.stop = r.stop
  BY <1>4, CourseOfStep
<1>6. RightSoFar(q)'
  BY <1>1, <1>2, <1>4, <1>5 DEF RightSoFar, Resumable
<1> QED BY <1>1, <1>4, <1>6, CourseOfStep, CourseOfRequest

LEMMA ExpectCourse ==
  ASSUME Inv, OnCourse, NEW q \in Request, Expect(q)
  PROVE  OnCourse'
<1> DEFINE r == requests[q]
           n == requests'[q]
<1>1. r.pc = "stat" /\ UNCHANGED <<push, client, sessions>>
  BY DEF Expect
<1>2. /\ r.session \in Session /\ Continues(sessions[r.session], push.ranged, r.start)
      /\ r.kind = "put" => r.stop = Length
      /\ r \in RequestState /\ requests \in [Request -> RequestState]
  BY <1>1, CourseFacts DEF RightSoFar, Resumable
<1>3. requests' = [requests EXCEPT ![q] = [r EXCEPT !.pc = "append", !.expected = Expected(r)]]
  BY <1>2 DEF Expect, Continues, Active
<1>4. Expected(r) = r.start
  BY <1>2 DEF Expected, Continues
<1>5. /\ n.pc = "append" /\ n.expected = r.start /\ n.kind = r.kind /\ n.session = r.session
      /\ n.start = r.start /\ n.stop = r.stop
  BY <1>2, <1>3, <1>4 DEF RequestState
<1>6. RightSoFar(q)'
  BY <1>1, <1>2, <1>5 DEF RightSoFar, Resumable
<1>7. \A p \in Request : p # q => requests'[p] = requests[p]
  BY <1>2, <1>3
<1> QED BY <1>1, <1>6, <1>7, CourseOfRequest

LEMMA AppendBeginCourse ==
  ASSUME Inv, OnCourse, NEW q \in Request, AppendBegin(q)
  PROVE  OnCourse'
<1> DEFINE r == requests[q]
           s == r.session
           n == requests'[q]
<1>1. r.pc = "append" /\ UNCHANGED <<push, client>>
  BY DEF AppendBegin
<1>2. /\ s \in Session /\ Continues(sessions[s], push.ranged, r.start)
      /\ r.kind = "put" => r.stop = Length
      /\ r.expected = r.start
      /\ r \in RequestState /\ requests \in [Request -> RequestState]
      /\ sessions[s] \in SessionState /\ sessions \in [Session -> SessionState]
  BY <1>1, CourseFacts DEF RightSoFar, Resumable
<1>3. Active(s) /\ sessions[s].busy = None
  BY <1>2 DEF Active, Continues
<1>4. CASE sessions[s].held # r.expected
  <2>1. Goes(q, "range") /\ UNCHANGED sessions
    BY <1>3, <1>4 DEF AppendBegin
  <2>2. n.pc = "range" /\ n.kind = r.kind /\ n.session = s /\ n.stop = r.stop
    BY <2>1, CourseOfStep
  <2>3. push.ranged /\ Continues(sessions[s], push.ranged, 0)
    BY <1>2, <1>4 DEF Continues
  <2>4. RightSoFar(q)'
    BY <1>1, <1>2, <2>1, <2>2, <2>3 DEF RightSoFar, Resumable
  <2> QED BY <1>1, <2>1, <2>4, CourseOfStep, CourseOfRequest
<1>5. CASE sessions[s].held = r.expected
  <2>1. /\ requests' = [requests EXCEPT ![q] = [r EXCEPT !.pc = "body", !.at = r.start]]
        /\ sessions' = [sessions EXCEPT ![s] = [sessions[s] EXCEPT !.busy = q]]
    BY <1>3, <1>5 DEF AppendBegin
  <2>2. n.pc = "body" /\ n.kind = r.kind /\ n.session = s /\ n.stop = r.stop /\ n.at = r.start
    BY <1>2, <2>1 DEF RequestState
  <2>3. /\ sessions'[s].ordered /\ sessions'[s].held = r.start /\ sessions'[s].state = "active"
        /\ \A t \in Session : t # s => sessions'[t] = sessions[t]
    BY <1>2, <1>5, <2>1 DEF SessionState, Continues
  <2>4. RightSoFar(q)'
    BY <1>2, <2>2, <2>3 DEF RightSoFar
  <2>5. /\ \A p \in Request : p # q => requests'[p] = requests[p]
        /\ \A t \in Session : sessions'[t].state = "none" => sessions'[t] = sessions[t]
    BY <1>2, <2>1, <2>3
  <2> QED BY <1>1, <2>4, <2>5, CourseOfRequest
<1> QED BY <1>4, <1>5

LEMMA OutOfRangeCourse ==
  ASSUME Inv, OnCourse, NEW q \in Request, OutOfRange(q)
  PROVE  OnCourse'
<1> DEFINE s == requests[q].session
<1>1. requests[q].pc = "range" /\ UNCHANGED <<push, client, sessions>>
  BY DEF OutOfRange
<1>2. /\ push.ranged /\ s \in Session /\ Continues(sessions[s], push.ranged, 0)
      /\ sessions[s].held \in Nat
  BY <1>1, CourseFacts DEF RightSoFar, Resumable, SessionState
<1>3. Answer(q, "RANGE", RangeOf(sessions[s].held))
  BY <1>2 DEF OutOfRange, Known, Continues
<1>4. Continues(sessions'[s], push.ranged, ResumedFrom(RangeOf(sessions[s].held)))
  BY <1>1, <1>2, ResumedFromRange DEF Continues
<1> QED BY <1>1, <1>2, <1>3, <1>4, CourseOfAnswer

LEMMA AppendPieceCourse ==
  ASSUME Inv, OnCourse, NEW q \in Request, AppendPiece(q)
  PROVE  OnCourse'
<1> DEFINE r == requests[q]
           s == r.session
           n == requests'[q]
<1>1. r.pc = "body" /\ UNCHANGED <<push, client>>
  BY DEF AppendPiece
<1>2. /\ sessions[s].ordered /\ r.at = sessions[s].held
      /\ r \in RequestState /\ requests \in [Request -> RequestState]
      /\ s \in Session /\ sessions[s].state = "active"
      /\ sessions[s] \in SessionState /\ sessions \in [Session -> SessionState]
  BY <1>1, CourseFacts DEF RightSoFar, RequestSound
<1>3. /\ requests' = [requests EXCEPT ![q] = [r EXCEPT !.at = r.at + 1]]
      /\ sessions' = [sessions EXCEPT ![s] = Extended(sessions[s], r.at)]
  BY DEF AppendPiece
<1>4. n.pc = "body" /\ n.kind = r.kind /\ n.session = s /\ n.stop = r.stop /\ n.at = r.at + 1
  BY <1>1, <1>2, <1>3 DEF RequestState
<1>5. /\ sessions'[s].ordered /\ sessions'[s].held = r.at + 1 /\ sessions'[s].state = "active"
      /\ \A t \in Session : t # s => sessions'[t] = sessions[t]
  BY <1>2, <1>3 DEF Extended, SessionState
<1>6. r.kind = "put" => r.stop = Length
  BY <1>1, CourseFacts DEF RightSoFar
<1>7. RightSoFar(q)'
  BY <1>4, <1>5, <1>6 DEF RightSoFar
<1>8. /\ \A p \in Request : p # q => requests'[p] = requests[p]
      /\ \A t \in Session : sessions'[t].state = "none" => sessions'[t] = sessions[t]
  BY <1>2, <1>3, <1>5
<1> QED BY <1>1, <1>7, <1>8, CourseOfRequest

LEMMA AppendEndCourse ==
  ASSUME Inv, OnCourse, NEW q \in Request, AppendEnd(q)
  PROVE  OnCourse'
<1> DEFINE r == requests[q]
           s == r.session
           n == requests'[q]
<1>1. r.pc = "body" /\ r.at = r.stop /\ UNCHANGED <<push, client>>
  BY DEF AppendEnd
<1>2. /\ sessions[s].ordered /\ r.at = sessions[s].held /\ (r.kind = "put" => r.stop = Length)
      /\ s \in Session /\ sessions[s].state = "active"
      /\ sessions[s] \in SessionState /\ sessions \in [Session -> SessionState]
  BY <1>1, CourseFacts DEF RightSoFar, RequestSound
<1>3. sessions' = [sessions EXCEPT ![s] = [sessions[s] EXCEPT !.busy = None]]
  BY DEF AppendEnd
<1>4. /\ sessions'[s].ordered /\ sessions'[s].held = r.stop /\ sessions'[s].state = "active"
      /\ sessions'[s].busy = None
      /\ \A t \in Session : t # s => sessions'[t] = sessions[t]
  BY <1>1, <1>2, <1>3 DEF SessionState
<1>5. \A t \in Session : sessions'[t].state = "none" => sessions'[t] = sessions[t]
  BY <1>4
<1>6. CASE r.kind = "put"
  <2>1. Goes(q, "commit")
    BY <1>6 DEF AppendEnd
  <2>2. n.pc = "commit" /\ n.kind = "put" /\ n.session = s /\ n.stop = r.stop
    BY <1>6, <2>1, CourseOfStep
  <2>3. RightSoFar(q)'
    BY <1>2, <1>4, <1>6, <2>2 DEF RightSoFar, Resumable, Continues
  <2> QED BY <1>1, <1>5, <2>1, <2>3, CourseOfStep, CourseOfRequest
<1>7. CASE r.kind # "put"
  <2>1. Answer(q, "ACCEPTED", RangeOf(sessions[s].held))
    BY <1>7 DEF AppendEnd
  <2>2. ResumedFrom(RangeOf(sessions[s].held)) \in {0, sessions[s].held}
    BY <1>2, ResumedFromRange DEF SessionState
  <2>3. Continues(sessions'[s], push.ranged,
                  IF push.ranged THEN ResumedFrom(RangeOf(sessions[s].held)) ELSE r.stop)
    BY <1>1, <1>2, <1>4, <2>2 DEF Continues
  <2> QED BY <1>1, <1>2, <1>5, <2>1, <2>3, CourseOfAnswer
<1> QED BY <1>6, <1>7

(* A session that holds the blob is committed, or its algorithm is another. *)
LEMMA CommitCourse ==
  ASSUME Inv, OnCourse, push.honest, NEW q \in Request, Commit(q)
  PROVE  OnCourse'
<1> DEFINE r == requests[q]
           s == r.session
           n == requests'[q]
<1>1. r.pc = "commit" /\ UNCHANGED <<push, client>>
  BY DEF Commit
<1>2. /\ r.kind = "put" /\ r.stop = Length
      /\ s \in Session /\ Continues(sessions[s], push.ranged, Length)
      /\ sessions[s] \in SessionState /\ sessions \in [Session -> SessionState]
  BY <1>1, CourseFacts DEF RightSoFar, Resumable
<1>3. /\ sessions[s].state = "active" /\ sessions[s].busy = None
      /\ sessions[s].ordered /\ sessions[s].held = Length
  BY <1>2 DEF Continues
<1>4. CASE push.named
  <2>1. /\ Answer(q, "CREATED", 0)
        /\ sessions' = [sessions EXCEPT ![s] = [sessions[s] EXCEPT !.state = "digest"]]
    BY <1>3, <1>4 DEF Commit, Matches, Known, Active
  <2>2. sessions'[s].state = "digest" /\ \A t \in Session : t # s => sessions'[t] = sessions[t]
    BY <1>2, <2>1 DEF SessionState
  <2>3. \A t \in Session : sessions'[t].state = "none" => sessions'[t] = sessions[t]
    BY <2>2
  <2> QED BY <1>1, <2>1, <2>3, CourseOfAnswer
<1>5. CASE ~push.named
  <2>1. Goes(q, "mismatch") /\ UNCHANGED sessions
    BY <1>3, <1>5 DEF Commit, Matches, Known, Active
  <2>2. n.pc = "mismatch" /\ n.kind = "put" /\ n.session = s /\ n.stop = Length
    BY <1>2, <2>1, CourseOfStep
  <2>3. RightSoFar(q)'
    BY <1>1, <1>2, <1>5, <2>1, <2>2 DEF RightSoFar, Resumable
  <2> QED BY <1>1, <2>1, <2>3, CourseOfStep, CourseOfRequest
<1> QED BY <1>4, <1>5

(* Which is found out, and its bytes are read back in.                      *)
LEMMA RehashCourse ==
  ASSUME Inv, OnCourse, NEW q \in Request, Mismatch(q) \/ Rehash(q) \/ Reopen(q)
  PROVE  OnCourse'
<1> DEFINE r == requests[q]
           s == r.session
           n == requests'[q]
<1>1. r.pc \in {"mismatch", "rehash", "reopen"} /\ UNCHANGED <<push, client>>
  BY DEF Mismatch, Rehash, Reopen
<1>2. /\ r.kind = "put" => r.stop = Length
      /\ r.pc \in {"mismatch", "rehash"} =>
           /\ r.kind = "put" /\ ~push.named
           /\ s \in Session /\ Continues(sessions[s], push.ranged, Length)
      /\ r.pc = "reopen" /\ r.kind = "put" => sessions[s].ordered /\ sessions[s].held = Length
      /\ s \in Session
      /\ sessions[s] \in SessionState /\ sessions \in [Session -> SessionState]
  BY <1>1, CourseFacts DEF RightSoFar, Resumable, RequestSound
<1>3. CASE Mismatch(q)
  <2>1. Goes(q, "rehash") /\ UNCHANGED sessions /\ r.pc = "mismatch"
    BY <1>2, <1>3 DEF Mismatch, Active, Continues
  <2>2. n.pc = "rehash" /\ n.kind = r.kind /\ n.session = s /\ n.stop = r.stop
    BY <2>1, CourseOfStep
  <2>3. RightSoFar(q)'
    BY <1>1, <1>2, <2>1, <2>2 DEF RightSoFar, Resumable
  <2> QED BY <1>1, <2>1, <2>3, CourseOfStep, CourseOfRequest
<1>4. CASE Rehash(q)
  <2>1. r.pc = "rehash"
    BY <1>4 DEF Rehash
  <2>2. Goes(q, "reopen") /\ sessions' = [sessions EXCEPT ![s] = [sessions[s] EXCEPT !.state = "own"]]
    BY <1>2, <1>4, <2>1 DEF Rehash, Active, Continues
  <2>3. n.pc = "reopen" /\ n.kind = r.kind /\ n.session = s /\ n.stop = r.stop
    BY <2>2, CourseOfStep
  <2>4. /\ sessions'[s].state = "own" /\ sessions'[s].ordered /\ sessions'[s].held = Length
        /\ \A t \in Session : t # s => sessions'[t] = sessions[t]
    BY <1>2, <2>1, <2>2 DEF SessionState, Continues
  <2>5. RightSoFar(q)'
    BY <1>2, <2>1, <2>3, <2>4 DEF RightSoFar
  <2>6. \A t \in Session : sessions'[t].state = "none" => sessions'[t] = sessions[t]
    BY <2>4
  <2> QED BY <1>1, <2>2, <2>5, <2>6, CourseOfStep, CourseOfRequest
<1>5. CASE Reopen(q)
  <2>1. Goes(q, "add") /\ UNCHANGED sessions /\ r.pc = "reopen"
    BY <1>5 DEF Reopen
  <2>2. n.pc = "add" /\ n.kind = r.kind /\ n.session = s /\ n.stop = r.stop
    BY <2>1, CourseOfStep
  <2>3. RightSoFar(q)'
    BY <1>2, <2>1, <2>2 DEF RightSoFar
  <2> QED BY <1>1, <2>1, <2>3, CourseOfStep, CourseOfRequest
<1> QED BY <1>3, <1>4, <1>5

LEMMA AddCourse ==
  ASSUME Inv, OnCourse, push.honest, NEW q \in Request, Add(q) \/ Copy(q)
  PROVE  OnCourse'
<1>1. requests[q].pc \in {"add", "copy"} /\ UNCHANGED <<push, client, sessions>>
  BY DEF Add, Copy
<1>2. requests[q].pc = "add" /\ requests[q].kind = "put" =>
        /\ sessions[requests[q].session].ordered
        /\ sessions[requests[q].session].held = Length
  BY <1>1, CourseFacts DEF RightSoFar
<1>3. Answer(q, "CREATED", 0)
  BY <1>2 DEF Add, Added, AddBytes, Copy
<1> QED BY <1>1, <1>3, CourseOfAnswer

(* What cannot be mounted becomes a session, which holds nothing.           *)
LEMMA MountCourse ==
  ASSUME Inv, OnCourse, NEW q \in Request, Link(q) \/ Open(q)
  PROVE  OnCourse'
<1> DEFINE r == requests[q]
           n == requests'[q]
           s == NewSession
<1>1. r.pc \in {"link", "open"} /\ UNCHANGED <<push, client>>
  BY DEF Link, Open
<1>2. /\ Unbegun # {} /\ r.range = 0 /\ r.stop = 0
      /\ r.kind = "put" => r.stop = Length
      /\ r \in RequestState /\ requests \in [Request -> RequestState]
      /\ client.request = q /\ sessions \in [Session -> SessionState]
  BY <1>1, CourseFacts DEF RightSoFar
<1>3. /\ s \in Unbegun /\ s \in Session /\ sessions[s] \in SessionState
      /\ sessions[s].held = 0 /\ sessions[s].ordered /\ sessions[s].busy = None
  BY <1>2, NewSessionIsUnbegun DEF Unbegun, OnCourse
<1>4. CASE Answer(q, "CREATED", 0) /\ UNCHANGED sessions
  BY <1>1, <1>4, CourseOfAnswer
<1>5. CASE BeginInstead(q, s)
  <2>1. /\ sessions' = [sessions EXCEPT ![s].state = "active"]
        /\ requests' = [requests EXCEPT ![q] = [r EXCEPT !.pc = "answered", !.code = "ACCEPTED", !.session = s]]
    BY <1>2, <1>5 DEF BeginInstead
  <2>2. /\ n.pc = "answered" /\ n.code = "ACCEPTED" /\ n.session = s /\ n.kind = r.kind
        /\ n.range = 0 /\ n.stop = 0
    BY <1>2, <2>1 DEF RequestState
  <2>3. /\ sessions'[s].state = "active" /\ sessions'[s].held = 0
        /\ sessions'[s].ordered /\ sessions'[s].busy = None
        /\ \A t \in Session : t # s => sessions'[t] = sessions[t]
    BY <1>2, <1>3, <2>1 DEF SessionState
  <2>4. Continues(sessions'[s], push.ranged, IF push.ranged THEN ResumedFrom(0) ELSE 0)
    BY <2>3 DEF Continues, ResumedFrom
  <2>5. RightSoFar(q)'
    BY <1>1, <1>2, <1>3, <2>2, <2>4 DEF RightSoFar, Resumable
  <2>6. /\ \A p \in Request : p # q => requests'[p] = requests[p]
        /\ \A t \in Session : sessions'[t].state = "none" => sessions'[t] = sessions[t]
    BY <1>2, <2>1, <2>3
  <2> QED BY <1>1, <2>5, <2>6, CourseOfRequest
<1>6. ASSUME NEW pc \in {"open", "copy"}, Goes(q, pc), UNCHANGED sessions
      PROVE  OnCourse'
  <2>1. /\ n.pc = pc /\ n.kind = r.kind /\ n.session = r.session
        /\ n.stop = r.stop /\ n.range = r.range
    BY <1>6, CourseOfStep
  <2>2. Unbegun' = Unbegun
    BY <1>6 DEF Unbegun
  <2>3. RightSoFar(q)'
    BY <1>2, <2>1, <2>2 DEF RightSoFar
  <2> QED BY <1>1, <1>6, <2>3, CourseOfStep, CourseOfRequest
<1> QED BY <1>2, <1>4, <1>5, <1>6 DEF Link, Open, Instead

LEMMA HandleCourse ==
  ASSUME Inv, OnCourse, push.honest, NEW q \in Request, Handle(q)
  PROVE  OnCourse'
BY ResumeCourse, ExpectCourse, AppendBeginCourse, OutOfRangeCourse, AppendPieceCourse, AppendEndCourse,
   CommitCourse, RehashCourse, AddCourse, MountCourse DEF Handle

(* The client's steps. *)

LEMMA BeginCourse ==
  ASSUME Inv, OnCourse, failures' = failures, BeginUpload
  PROVE  OnCourse'
<1> DEFINE s == NewSession
<1>1. /\ s \in Unbegun /\ s \in Session /\ sessions[s] \in SessionState
      /\ sessions[s].held = 0 /\ sessions[s].ordered /\ sessions[s].busy = None
      /\ sessions \in [Session -> SessionState] /\ client \in ClientState
  BY NewSessionIsUnbegun DEF BeginUpload, Unbegun, OnCourse, Inv, TypeOK
<1>2. /\ sessions' = [sessions EXCEPT ![s].state = "active"]
      /\ client' = [client EXCEPT !.pc = "ready", !.session = s, !.at = 0, !.put = None]
      /\ UNCHANGED <<push, requests>> /\ client.pc = "idle"
  BY DEF BeginUpload, Inv, TypeOK
<1>3. /\ sessions'[s].state = "active" /\ sessions'[s].held = 0
      /\ sessions'[s].ordered /\ sessions'[s].busy = None
      /\ \A t \in Session : t # s => sessions'[t] = sessions[t]
  BY <1>1, <1>2 DEF SessionState
<1>4. client'.pc = "ready" /\ client'.session = s /\ client'.at = 0
  BY <1>1, <1>2 DEF ClientState
<1>5. Resumable(client.session, client.at)'
  BY <1>1, <1>3, <1>4 DEF Resumable, Continues
<1>6. \A t \in Unbegun' : sessions'[t].held = 0 /\ sessions'[t].ordered /\ sessions'[t].busy = None
  BY <1>3 DEF OnCourse, Unbegun
<1>7. \A q \in Request : requests'[q].pc = "free"
  BY <1>2 DEF OnCourse
<1> QED BY <1>4, <1>5, <1>6, <1>7 DEF OnCourse

(* What is sent is the client's only request.                               *)
LEMMA CourseOfSent ==
  ASSUME Inv, OnCourse, NEW q \in Request, client.pc # "waiting",
         client'.pc = "waiting", client'.request = q, UNCHANGED <<push, sessions>>,
         \A p \in Request : p # q => requests'[p] = requests[p],
         RightSoFar(q)'
  PROVE  OnCourse'
<1>1. \A p \in Request : requests'[p].pc # "free" => p = q
  BY DEF OnCourse
<1>2. Unbegun' = Unbegun
  BY DEF Unbegun
<1> QED BY <1>1, <1>2 DEF OnCourse

LEMMA PostCourse ==
  ASSUME Inv, OnCourse, NEW q \in Request, NEW kind \in {"post", "mount"}, Post(q, kind)
  PROVE  OnCourse'
<1> DEFINE n == requests'[q]
<1>1. /\ client.pc = "idle" /\ Unbegun # {} /\ Send(q, kind, 0, 0) /\ UNCHANGED <<push, sessions>>
      /\ client' = [client EXCEPT !.pc = "waiting", !.request = q, !.put = None]
      /\ client \in ClientState /\ requests \in [Request -> RequestState]
  BY DEF Post, Inv, TypeOK
<1>2. client'.pc = "waiting" /\ client'.request = q
  BY <1>1 DEF ClientState
<1>3. /\ n.pc = IF kind = "post" THEN "add" ELSE "link"
      /\ n.kind = kind /\ n.stop = 0 /\ n.range = 0
      /\ \A p \in Request : p # q => requests'[p] = requests[p]
  BY <1>1 DEF Send, Free
<1>4. Unbegun' = Unbegun
  BY <1>1 DEF Unbegun
<1>5. RightSoFar(q)'
  BY <1>1, <1>3, <1>4 DEF RightSoFar
<1> QED BY <1>1, <1>2, <1>3, <1>5, CourseOfSent

LEMMA ChunkCourse ==
  ASSUME Inv, OnCourse, NEW q \in Request, Put(q) \/ \E m \in 1..Length : Patch(q, m)
  PROVE  OnCourse'
<1> DEFINE n == requests'[q]
           s == client.session
<1>1. /\ client.pc = "ready" /\ UNCHANGED <<push, sessions>>
      /\ client \in ClientState /\ requests \in [Request -> RequestState]
  BY DEF Put, Patch, Inv, TypeOK
<1>2. client'.pc = "waiting" /\ client'.request = q
  BY <1>1 DEF Put, Patch, ClientState
<1>3. PICK kind \in {"put", "patch"}, stop \in Int :
        Send(q, kind, client.at, stop) /\ (kind = "put" => stop = Length)
  BY <1>1 DEF Put, Patch, ClientState
<1>4. /\ n.pc = "resume" /\ n.kind = kind /\ n.session = s
      /\ n.start = client.at /\ n.stop = stop
      /\ \A p \in Request : p # q => requests'[p] = requests[p]
  BY <1>1, <1>3 DEF Send, Free
<1>5. s \in Session /\ Continues(sessions[s], push.ranged, client.at)
  BY <1>1 DEF OnCourse, Resumable
<1>6. RightSoFar(q)'
  BY <1>1, <1>3, <1>4, <1>5 DEF RightSoFar, Resumable
<1> QED BY <1>1, <1>2, <1>4, <1>6, CourseOfSent

(* The client reads its answer, and is done or goes on.                     *)
LEMMA ReceiveCourse ==
  ASSUME Inv, OnCourse, NEW q \in Request, Receive(q)
  PROVE  OnCourse'
<1> DEFINE r == requests[q]
           at == IF push.ranged THEN ResumedFrom(r.range) ELSE r.stop
<1>1. /\ r.pc = "answered" /\ UNCHANGED <<push, sessions>> /\ client.request = q
      /\ requests' = [requests EXCEPT ![q] = Free]
      /\ client \in ClientState /\ requests \in [Request -> RequestState]
  BY DEF Receive, Inv, TypeOK
<1>2. \A p \in Request : requests'[p].pc = "free"
  BY <1>1, FreeSound DEF OnCourse
<1>3. Unbegun' = Unbegun
  BY <1>1 DEF Unbegun
<1>4. CASE r.code = "CREATED"
  <2>1. client' = [client EXCEPT !.pc = "done", !.request = None, !.session = None, !.at = 0, !.put = None]
    BY <1>4 DEF Receive
  <2>2. client'.pc = "done"
    BY <1>1, <2>1 DEF ClientState
  <2> QED BY <1>1, <1>2, <1>3, <2>2 DEF OnCourse
<1>5. CASE r.code # "CREATED"
  <2>1. /\ r.code = "ACCEPTED" \/ (r.code = "RANGE" /\ push.ranged)
        /\ r.session \in Session /\ Continues(sessions[r.session], push.ranged, at)
    BY <1>1, <1>5, CourseFacts DEF RightSoFar, Resumable
  <2>2. client' = [client EXCEPT !.pc = "ready", !.request = None, !.session = r.session, !.at = at]
    BY <2>1 DEF Receive
  <2>3. client'.pc = "ready" /\ client'.session = r.session /\ client'.at = at
    BY <1>1, <2>2 DEF ClientState
  <2>4. Resumable(client.session, client.at)'
    BY <1>1, <2>1, <2>3 DEF Resumable
  <2> QED BY <1>1, <1>2, <1>3, <2>3, <2>4 DEF OnCourse
<1> QED BY <1>4, <1>5

(* What goes wrong stays so: failures are counted, and a session that is    *)
(* gone does not come back.                                                 *)
Worsens ==
  /\ push' = push
  /\ failures' = failures \/ failures' = failures + 1
  /\ \A s \in Session : sessions[s].state = "gone" => sessions'[s].state = "gone"

LEMMA HandleWorsens ==
  ASSUME Inv, NEW q \in Request, Handle(q)
  PROVE  Worsens
<1> DEFINE s == requests[q].session
<1>1. sessions \in [Session -> SessionState]
  BY DEF Inv, TypeOK
<1>2. push' = push /\ failures' = failures
  BY DEF Handle, Resume, Expect, AppendBegin, OutOfRange, AppendPiece, AppendEnd, Commit, Mismatch,
         Rehash, Reopen, Add, Link, Open, Copy
<1>3. CASE UNCHANGED sessions
  BY <1>2, <1>3 DEF Worsens
<1>4. ASSUME NEW t \in Session, NEW n, sessions' = [sessions EXCEPT ![t] = n],
             sessions[t].state = "gone" => n.state = "gone"
      PROVE  Worsens
  BY <1>1, <1>2, <1>4 DEF Worsens
<1>5. CASE AppendBegin(q) \/ AppendPiece(q) \/ AppendEnd(q)
  <2>1. s \in Session
    BY <1>5, <1>1 DEF AppendBegin, AppendPiece, AppendEnd, Inv, TypeOK, RequestSound, RequestState
  <2>2. \/ UNCHANGED sessions
        \/ \E b : sessions' = [sessions EXCEPT ![s] = [sessions[s] EXCEPT !.busy = b]]
        \/ sessions' = [sessions EXCEPT ![s] = Extended(sessions[s], requests[q].at)]
    BY <1>5 DEF AppendBegin, AppendPiece, AppendEnd
  <2>3. \A b : [sessions[s] EXCEPT !.busy = b].state = sessions[s].state
    BY <1>1, <2>1 DEF SessionState
  <2>4. Extended(sessions[s], requests[q].at).state = sessions[s].state
    BY <1>1, <2>1 DEF SessionState, Extended
  <2> QED BY <1>3, <1>4, <2>1, <2>2, <2>3, <2>4
<1>6. CASE Commit(q) \/ Rehash(q)
  <2>1. \/ UNCHANGED sessions
        \/ \E b : /\ sessions[s].state = "active"
                  /\ sessions' = [sessions EXCEPT ![s] = [sessions[s] EXCEPT !.state = b]]
    BY <1>6 DEF Commit, Rehash, Active
  <2>2. s \in Session
    BY <1>6, <1>1 DEF Commit, Rehash, Inv, TypeOK, RequestSound, RequestState
  <2> QED BY <1>3, <1>4, <2>1, <2>2
<1>7. CASE Link(q) \/ Open(q)
  <2>1. \/ UNCHANGED sessions
        \/ /\ Unbegun # {}
           /\ sessions' = [sessions EXCEPT ![NewSession] = [sessions[NewSession] EXCEPT !.state = "active"]]
    BY <1>7 DEF Link, Open, Instead, BeginInstead
  <2>2. Unbegun # {} => NewSession \in Session /\ sessions[NewSession].state = "none"
    BY NewSessionIsUnbegun DEF Unbegun
  <2> QED BY <1>3, <1>4, <2>1, <2>2
<1> QED BY <1>3, <1>5, <1>6, <1>7
   DEF Handle, Resume, Expect, OutOfRange, Mismatch, Reopen, Add, Copy

LEMMA ClientWorsens ==
  ASSUME Inv, GoOn \/ \E q \in Request : GiveUpOn(q) \/ \E kind \in {"post", "mount"} : Post(q, kind)
  PROVE  Worsens
<1>1. sessions \in [Session -> SessionState]
  BY DEF Inv, TypeOK
<1>2. CASE BeginUpload
  <2>1. /\ sessions' = [sessions EXCEPT ![NewSession].state = "active"]
        /\ sessions[NewSession].state = "none"
        /\ push' = push /\ (failures' = failures \/ failures' = failures + 1)
    BY <1>2, NewSessionIsUnbegun DEF BeginUpload, Unbegun
  <2> QED BY <1>1, <2>1 DEF Worsens
<1>3. CASE ~BeginUpload
  <2>1. UNCHANGED <<push, sessions>> /\ (failures' = failures \/ failures' = failures + 1)
    BY <1>3 DEF GoOn, Put, Receive, PutAgain, Patch, Ask, GiveUp, GiveUpOn, Post
  <2> QED BY <2>1 DEF Worsens
<1> QED BY <1>2, <1>3

LEMMA WorldWorsens ==
  ASSUME Inv,
         \/ \E q \in Request : Fail(q) \/ \E n \in 0..Length : AppendBreak(q, n)
         \/ Cancel \/ Pushed \/ Crash \/ UNCHANGED vars \/ \E s \in Session : Prune(s)
  PROVE  Worsens
<1>1. sessions \in [Session -> SessionState]
  BY DEF Inv, TypeOK
<1>2. ASSUME NEW q \in Request, NEW n \in 0..Length, AppendBreak(q, n)
      PROVE  Worsens
  <2>1. /\ push' = push /\ (failures' = failures \/ failures' = failures + 1)
        /\ sessions' = Kept(requests[q].session, n)
    BY <1>2 DEF AppendBreak
  <2> QED BY <1>1, <2>1 DEF Worsens, Kept, SessionState
<1>3. CASE Cancel \/ \E s \in Session : Prune(s)
  BY <1>1, <1>3 DEF Cancel, Prune, Worsens, SessionState
<1>4. CASE Crash
  <2>1. PICK kept \in [Session -> 0..Length] :
          sessions' = [s \in Session |->
            IF sessions[s].busy = None THEN sessions[s]
            ELSE [sessions[s] EXCEPT !.busy = None,
                    !.held = IF kept[s] \in requests[sessions[s].busy].expected..sessions[s].held
                             THEN kept[s] ELSE sessions[s].held]]
    BY <1>4 DEF Crash
  <2>2. push' = push /\ failures' = failures + 1
    BY <1>4 DEF Crash
  <2>3. \A s \in Session : sessions'[s].state = sessions[s].state
    BY <1>1, <2>1 DEF SessionState
  <2> QED BY <2>2, <2>3 DEF Worsens
<1>5. CASE (\E q \in Request : Fail(q)) \/ Pushed \/ UNCHANGED vars
  BY <1>5 DEF Fail, Pushed, vars, Worsens
<1> QED BY <1>2, <1>3, <1>4, <1>5

LEMMA CalmBefore ==
  ASSUME Inv, [Next]_vars, Calm'
  PROVE  Calm /\ failures' = failures
<1>1. Worsens
  BY HandleWorsens, ClientWorsens, WorldWorsens DEF Next
<1>2. failures \in Nat
  BY DEF Inv, TypeOK
<1> QED BY <1>1, <1>2 DEF Calm, Worsens

LEMMA CourseInit == Init => CalmOnCourse
BY FreeSound DEF Init, CalmOnCourse, OnCourse, Unbegun

LEMMA CourseStep == Inv /\ CalmOnCourse /\ [Next]_vars => CalmOnCourse'
<1> SUFFICES ASSUME Inv, CalmOnCourse, [Next]_vars, Calm'
             PROVE  OnCourse'
  BY DEF CalmOnCourse
<1>1. /\ OnCourse /\ push.honest
      /\ failures' = failures /\ failures \in Nat
      /\ \A s \in Session : sessions'[s].state # "gone"
  BY CalmBefore DEF CalmOnCourse, Calm, Inv, TypeOK
<1>2. CASE GoOn
  <2>1. ~ \E q \in Request : PutAgain(q)
    BY <1>1 DEF OnCourse, PutAgain
  <2>2. ~Ask /\ ~GiveUp
    BY <1>1 DEF OnCourse, Ask, GiveUp
  <2> QED BY <1>1, <1>2, <2>1, <2>2, BeginCourse, ChunkCourse, ReceiveCourse DEF GoOn
<1>3. ASSUME NEW q \in Request, Handle(q)
      PROVE  OnCourse'
  BY <1>1, <1>3, HandleCourse
<1>4. ASSUME NEW q \in Request, NEW n \in 0..Length, Fail(q) \/ GiveUpOn(q) \/ AppendBreak(q, n)
      PROVE  FALSE
  <2>1. failures' = failures + 1
    BY <1>1, <1>4, CourseFacts DEF Fail, GiveUpOn, AppendBreak
  <2> QED BY <1>1, <2>1
<1>5. ASSUME NEW q \in Request, NEW kind \in {"post", "mount"}, Post(q, kind)
      PROVE  OnCourse'
  BY <1>1, <1>5, PostCourse
<1>6. ASSUME NEW s \in Session, Prune(s)
      PROVE  FALSE
  BY <1>1, <1>6 DEF Prune, Inv, TypeOK, SessionState
<1>7. ~Crash
  <2> SUFFICES ASSUME Crash PROVE FALSE
    OBVIOUS
  <2>1. failures' = failures + 1
    BY DEF Crash
  <2> QED BY <1>1, <2>1
<1>8. ~Cancel
  <2> SUFFICES ASSUME Cancel PROVE FALSE
    OBVIOUS
  <2>1. client.session \in Session /\ Active(client.session) /\ sessions \in [Session -> SessionState]
    BY <1>1 DEF Cancel, OnCourse, Resumable, Continues, Active, Inv, TypeOK
  <2>2. sessions' = [sessions EXCEPT ![client.session].state = "gone"]
    BY <2>1 DEF Cancel
  <2>3. sessions'[client.session].state = "gone"
    BY <2>1, <2>2 DEF SessionState
  <2> QED BY <1>1, <2>1, <2>3
<1>9. CASE Pushed \/ UNCHANGED vars
  BY <1>1, <1>9 DEF Pushed, vars, OnCourse, RightSoFar, Resumable, Unbegun
<1> QED BY <1>2, <1>3, <1>4, <1>5, <1>6, <1>7, <1>8, <1>9 DEF Next

(* While nothing goes wrong, the client's only request is the one it waits  *)
(* for, and it goes on from what its session holds                          *)
(* (registry/blobs.go:413-465).                                             *)
THEOREM Course == Spec => []CalmOnCourse
BY InitSound, NextSound, CourseInit, CourseStep, PTL DEF Spec

(* So one who sends the right bytes is not refused: not for where its       *)
(* chunks begin, and not for naming its algorithm late                      *)
(* (registry/blobs.go:499-506).                                             *)
THEOREM RightBytesTaken == Spec => []RightIsTaken
<1>1. Inv /\ CalmOnCourse => RightIsTaken
  BY DEF Inv, TypeOK, RightIsTaken, CalmOnCourse, Calm, OnCourse
<1> QED BY <1>1, Soundness, Course, PTL

=============================================================================
