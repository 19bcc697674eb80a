# cr, specified

This directory specifies `cr`, an OCI registry written in Go: TLA+ modules of its
core, TLC configurations that check them on small repositories, and proofs that
TLAPS checks for repositories of any size. Paths below are relative to the
repository's root.

Run a configuration with `tlc -config Races.cfg MCRepository`, and check the
proofs with `tlapm RepositoryProofs.tla`, and so on for the other `...Proofs`.

## The system

`cr` answers the distribution API (`/v2`) from two stores that nothing commits
together. **The store** (a `flob.Store`, one per repository, a library) has bytes
by digest: blobs and manifests alike. **The index** (`index/`, SQL through
`index/entindex`, SQLite or PostgreSQL) has the names: the manifests of a
repository, what each holds, its tags, and work lists kept in the same
transactions. Two rules relate them (`docs/how-it-works.md:10-24`): leaks are
tolerated and swept later, losses are not; and only writes that change what a
repository references are serialized, by a lock per repository, so blob uploads
and pulls take no lock.

What makes this hard is that every handler touches both stores in some order and
may stop between the two, while collectors work from lists they read with no lock
and long ago.

### Components

| component | state | operations | interacts by |
|---|---|---|---|
| hosted repository (`registry/manifests.go`, `registry/blobs.go`) | none of its own; upload sessions are the store's | sessions and chunks, blob upload and mount, manifest push, delete by tag and by digest, blob delete, pull | store, `Index.Tx`, `Index.Lock`, `gc.Release` |
| index (`index/entindex`, `index/memindex`) | rows of manifests, holds, tags, snapshots, candidates, scans; pulls waiting to be written; stripes and the writer, or advisory locks | `Put`, `Erase`, `Set`, `Unneeded`, `Marks`, `Tx`, `Lock`, `Touch` and flush | called by all; the lock is what serializes |
| online collection (`gc/gc.go`) | run records | expired uploads, retention, untagged, unlisted, orphaned referrers | transactions, then `Release` |
| sweep (`gc/sweep.go`) | none kept | walk, marks, erase in chunks | `Lock`, store |
| orphaned referrers (`gc/orphans.go`, `index/entindex/orphans.go`) | candidates, scan cursor | observe on put and erase, seed, drain, delete, forget | written by `Put`/`Erase`, read by the collection |
| import (`importer/`) and rebuild (`index/rebuild/`) | none kept | take blobs, write rows and tags | another process, same lock on PostgreSQL |
| pull-through (`registry/proxy.go`, `registry/join.go`) | tags' check times, snapshots, fetches in flight | fill, join, revalidate, evict | upstreams (`blob/upstream*.go`), index, store |
| verification (`registry/verify.go`, `trust/`) | verdicts | verify, cache | called by fill and by pulls |
| policy and access (`auth/`) | the policy in force, its revision | refresh, decide, retention rules | read by handlers and by the collection |
| runs (`gc/entruns`, `registry/admin.go`) | rows of runs, the full run of this process | trigger, start, finish | the collector |
| export, lists, search, command line, serving, generated API | nothing the others depend on | reads, wiring | |

`PROJECT.json` lists them all with their files, those not modelled and why, and
under `hazards` what is hard to test in each, with the property that covers it.

### What makes each correct

* *Hosted repository and collectors:* an indexed manifest can be pulled; a tag
  resolves; the collector never breaks an index; bytes something refers to are
  never taken away; what nothing refers to is, in the end.
* *Orphans:* no orphaned referrer is forgotten, none is taken before its grace
  period has passed since its subject was last there, and all are taken in the end.
* *Import and rebuild:* what they restore is as whole as what a push leaves.
* *Upload sessions:* a session holds the blob's beginning whatever breaks off or is
  sent again; what is answered as created is there; a client that follows what it is
  told comes to an end.
* *Pull-through:* a tag or a list served is one the upstream gave recently enough; an
  image is let through by a signature of the list it is judged by; a referrer upstream
  still lists is not collected; who joins a fetch is answered.
* *Upstreams:* what is fetched is one origin's, or one blob's bytes in order; every
  call ends.
* *Policy:* a failed refresh changes nothing; retention deletes only tags past
  their count when they go; a rule everybody has is kept to; runs say what runs.
* *The lock:* at most one holder; nobody waits for a resource the holder needs.

## Modules

| module | models | extends |
|---|---|---|
| `Content` | what a digest says: layers, children, subject, as constants (`oci/manifest.go`) | |
| `Registry` | **abstract**: what one repository promises, with no locks or processes | `Content` |
| `Repository` | the handlers, the untagged collection and the sweep, step by step; implements `Registry` | `Content` |
| `RepositoryProofs` | its theorems | `Repository` |
| `Restore` | import and index rebuild beside all of that; implements `Registry!RestoredSpec` | `Repository` |
| `RestoreProofs` | its theorems | `Restore`, `RepositoryProofs` |
| `Orphans` | candidates of orphaned referrers and the collections that drain them | `Content` |
| `OrphansProofs` | its theorems | `Orphans` |
| `Cache` | **abstract**: what a tag of a cache promises, with no replicas, fills or requests | |
| `PullThrough` | one tag of a cache of an upstream, filled by several replicas; implements `Cache` | |
| `PullThroughProofs` | its theorems | `PullThrough` |
| `Referrers` | the cached referrers of one image, its verification by them, and the collection of those withdrawn | |
| `ReferrersProofs` | its theorems | `Referrers` |
| `Retention` | tags under rules: requests, collections, the policy and its reloads, runs | |
| `RetentionProofs` | its theorems | `Retention` |
| `Uploads` | one client's push of a blob: sessions, chunks, retries, mounts | |
| `UploadsProofs` | its theorems | `Uploads` |
| `Upstreams` | the ordered origins behind a cache: manifests, lists and blobs read across them | |
| `UpstreamsProofs` | its theorems | `Upstreams` |
| `MCRepository`, `MCRestore`, `MCOrphans`, `MCPullThrough`, `MCReferrers`, `MCRetention` | contents and symmetry for TLC | |

The modules meet in what they abstract of each other: to `Repository` an upload is a
digest that arrives (`PutBlob`), which `Uploads` takes apart; to `PullThrough` and
`Referrers` an upstream answers or fails, which is what a call of `Upstreams` comes to;
a denial by a tag rule is `PushDeny` in `Repository` and `Allows` in `Retention`; what
releases bytes is `Repository`'s matter everywhere else.

### Repository

A repository is `store`, `manifests`, `tags` and `lock`. A goroutine is a `Client`
(requests) or a `Keeper` (collections), with a program counter and the locals of
its handler. What a step is follows from what others can see. `Index.Tx` that only
touches rows is one step: nobody sees them before it commits. `putManifest` looks
at the store inside its transaction, so it is two: `PushCheck` takes the lock and
looks, `PushCommit` writes and lets go. `Release`, `deleteBlob` and a sweep's chunk
hold `Index.Lock` with no transaction, so each `Look` at the index and each `Erase`
of the store is a step: between two of them, uploads and pulls go on.

| code | actions |
|---|---|
| `putBlob`, `putUpload`, `mount` as the store sees them | `PutBlob` |
| `putManifest` | `PushAdd`, then `PushCheck` or `PushRefuse`, then `PushCommit` or `PushDeny` |
| `deleteManifest` by tag; by digest | `DeleteTag`; `DeleteManifest`, then `Take`, `Look`, `Erase`, `Unlock` |
| `deleteBlob` | `DeleteBlob`, then `Erase`, `Unlock` |
| `Collector.untagged` | `CollectList`, `CollectRemove` or `CollectSkip`, and the release of each |
| `Collector.Sweep` | `SweepWalk`, `SweepMark`, `SweepChunk`, `Take`, `Look`, `Erase`, `Unlock`, `SweepDone` |
| a cancelled request, `ErrBusy`, an I/O error, a crash | `Fail`; `GiveUp` for a collection that fails to remove a candidate, or to release what it held, and goes on with the next |

Time is abstracted to the two questions that are asked of it. `fresh` is what entered the
store within `gc.delay`, `recent` what was created or pulled within the grace period. A
collection fixes its cutoff when it begins; `spared` is what is not old as of then, and
only grows while it runs. `Aged` says whether a sweep asks how old bytes are: it does not
where `gc.delay` is negative or the store cannot tell, and then takes whatever is
unmarked. `races` has it, `family` does not, and the proofs are of both. A blob that is
pushed again while it is there keeps the time it arrived (`Arrive`), as the store's `Add`
does.

`withdrawn` is a history variable: what a client deleted and nobody pushed since.
It tells a client's delete of an index's child, which is allowed, from the
collector's, which is not.

### Registry, and that it is implemented

`Registry` says what a reader of `docs/how-it-works.md:10-24` and of the package
comment of `gc` may rely on: a manifest is published only over content that is
there (`Publish`), a manifest leaves on its own only when nothing tags or holds it
and its subject is away (`Collect`), bytes go only when nothing refers to them
(`Reclaim`). `Repository!ImplementsRegistry` instantiates it with `bytes <- store`:
every step of the handlers is one of these or is invisible. The mapping is that
simple because all that `Repository` adds (locks, locals, ages) is private.

Beside an import or a rebuild less can be promised, and `RestoredSpec` says what: all of
that, and `Bring`, by which rows come with no look at what they need. Those that bring
tags come with all that they list; nothing else is tagged, and nothing is taken away.
`Restore!ImplementsRestored` says that this is all the two add: the server beside them
still publishes only over what is there, and erases only what nothing refers to.

### Restore

`cr import` and `cr index rebuild` are other processes. On PostgreSQL they may run
beside a server (`cli/import.go:60-61`). Both look for long with no lock
(`ImportTake`; `RebuildBegin`, and a step for each manifest that is read, `RebuildRead`)
and then write rows in one transaction (`ImportCommit`, `RebuildCommit`), if there is
anything to write (`RebuildNone`). `Restore` adds them to all that `Repository` does; a step of the
server leaves them alone. A blob an import links has its file's modification time
for the time it arrived, so it may be old from the start.

### Orphans

A referrer whose subject is gone is found from `observed`, a work list of subjects
that `Put` and `Erase` keep, and a scan (`cursor`, `complete`) that seeds it once
for a database from before there was a list; `Init` is such a database, with any
rows in it. Here a step is a transaction, and time is a number: `observed[s]` and
`cutoff[c]` are compared. Manifests are numbers in the order of their digests,
since a scan's cursor is a digest. `lastHere[s]` is history: when `s` was last in
the index. The bytes, and the release after a delete, are `Repository`'s matter, so
`EraseRow` here is rows alone. The list is drained in pages of 500; the model's
fits in one, and candidates are visited in any order.

| code | actions |
|---|---|
| `Manifests.Put`, `Manifests.Erase` | `Put`, `Delete` (`PutObserved`, `EraseObserved`) |
| `orphans.ResetScan`, `orphans.Seed` | `Begin` with `rescan`, `SeedBatch` |
| `orphans.List` and the cutoff | `Drain` |
| `orphanReferrers` | `Consider`, and `Reconsider` after the deletes |
| `deleteOrphan` in `removeManifest` | `Remove` |
| an error of one candidate, of one delete, of the last look: recorded, and the rest goes on | `PassCandidate`; `PassReferrer`; `PassSubject` |
| an error of the scan or the list, a collection cancelled, a crash | `Abort` |

### PullThrough

A tag of a cached repository is a row: where it points, and when that was last checked.
`request[c]` is a client's request, `fill[f]` the goroutine that `flights.join` starts,
with the locals of `Registry.fill` and `fetch`, and `flights[r]` the key a replica's
requests find it by. Whatever asks the upstream, the store or the index is a step, and so
is the clock's, so an answer may be a while on its way to the row. After `JoinTimeout` a
fill can only fail. Replicas share the row and nothing else; one clock is read by all, so
skew between them comes on top of the bounds. `fill[f].stale` is what the closure `stale`
computes from the row and the time the fill began with. A fill that has come to something
(`Ended`) keeps its key until the goroutine frees it and wakes those who wait, which is
one more step (`End`): who asks in between joins it, and goes on from what was decided
before it asked. An eviction is its list (`listed`: read as idle, and not moved since) and
its transaction; `recent` stands for a pull or a move within the cache's retention, and
`GrowOld` for that time passing. A manifest the tag does not point at may go at any time,
which is more than the collector does.

`last[d]` is history: when the upstream last pointed at `d`. So are `seen`, the
upstream's version that put the tag where it is, and `checkedFor`, whose check the
row's time is.

`Cache` is the same tag with none of the machinery: it is moved to what the upstream had
no longer ago than `Lag` (`Refresh`), is said to have been checked at a time only if the
upstream then had what it points at (`Confirm`), and is otherwise dropped. Each is one
step. `PullThrough!ImplementsCache` instantiates it with `Lag <- JoinTimeout`; the
variables have the same names. It is the row that the replicas share, so this is all that
they can know of each other.

| code | actions |
|---|---|
| `pullThroughOutcome`, `cached` | `Hit`, `Ask` |
| `flights.join` | `Join`, `Start`, `Leave`, `End`, and `Ended` in every last step of a fill |
| `fill` | `Look`, `LookHit`, `LookFail`; `HeadSame`, `HeadFetch`, `HeadUnknown`; `Known`, `Confirm`; `Break` |
| `fetch` | `Get`, `Add`, `Commit` |
| `getManifest` once it may answer | `Read` |
| `Collector.evict`, `untaggedBefore` | `GrowOld`, `EvictList`, `EvictTag`, `EvictFail`, `EvictManifest` |
| deletes | `DeleteTag`, `DeleteManifest` |

### Referrers

The cache asks the upstream which referrers an image has, and keeps the answer with
the time it asked (`snapshot`). Lists are answered from it, and when a cache verifies
what it proxies, an image is let through by the signatures listed. Nothing joins these
requests: two may ask one after the other and write in the other order, so a row goes
back. `client[c]` is a request with the locals of `referrersOutcome` and `signed`;
`verdict[l]` the process's cache of what a list was found to say; a referrer the cache
has fetched is in `arrived`, with its time. `last[l]` is history, when the upstream last
listed exactly `l`, and `absent[r]` when it last listed and left `r` out.

| code | actions |
|---|---|
| `referrersOutcome` | `Hit`, `Ask`, `Listed`, `Put`, `Stale` |
| `signatures`, the tag fallback | `Unheard`, `Tagged` |
| `signed` | `Judge`; `Verify`, `Reject`, `Unread`, `Conclude` |
| `proxiedReferrers` | `Finish` |
| `fetch` of a referrer | `Fetch`, `FetchCommit` |
| `Collector.unlisted` | `GcList`, `GcRemove`, `GcSkip`, `GcEnd`, `GcStray`, `GcForget` |

A request that has its list looks up what was decided of it in a step of its own (`Judge`),
so another may have decided it by then, or all may have been forgotten. `MaxStale` is
what the code takes the setting for: where it is not set, an hour.

An older list may be written over a newer one; `ListsRecent` says that it is within its
bound all the same, since a row's time is that of the question. A bad verdict is
remembered for a list whose signature was listed and is not there (a 404), and a good
one outlives its certificate, until the process ends.

### Retention

A tag is where it points and when it moved. A process has the `policy` it loaded, a
request the one it came under, a collection the one it began with, so at any time
several are in force. A collection counts in one read (`CountTags`), with no lock, and
deletes each tag past the counts in a transaction of its own that looks at the tag again
(`EraseTag` if `AsCounted`). The two kinds of collection run beside each other, and when
the connection that holds the lead is lost (`Drop`) so do two of a kind. `runs` are the
records of them. Every write of a tag has its own time. `had` is history, the rules each
source has had, and so is `lost[r]`: tags under `r` that went otherwise than by `r` since
it was counted. It is what `KeepsNewest` must allow for: a client who deletes the newest
tag after the count leaves one fewer than the rule keeps, and the collection, which
cannot know, deletes the next.

| code | actions |
|---|---|
| `PolicyStore.Refresh` over a file and the database | `LoadFile`, `Install`, `LoadFail` |
| `setTag`, `deleteManifest` with `CheckTag` | `Come`, then `SetTag`, `DeleteTag`, `DeleteDigest` or `Refuse` |
| `Collect`, `Trigger`, `Lead`, `Finish` | `Start`, or `StartLost` when the run is recorded and the answer is not heard; `Lead`, `EndWork`, `Record` |
| `Collector.retention` | `CountTags`, `EraseTag`, `PassTag` |
| rules edited; a lock lost; a process that dies | `Edit`; `Drop`; `Crash` |

### Uploads

A client pushes one blob, in one request, by a mount, or in chunks to a session. When an
answer does not come the client cannot know whether its request is dead: it goes on from
what `statUpload` tells it, or sends its final request again, while the first may still
append (`GiveUpOn` leaves the request running). `sessions[s]` is flob's stage: what it
holds as a length and whether that is the blob's beginning, who appends to it, and
whether it is open, committed under the digest asked for ("digest"), committed under its
own ("own", `rehash`), or gone. What the client does is as free as the protocol: chunks
with or without a `Content-Range`, an honest digest or not, the algorithm named when the
session begins or only at the end.

| code | actions |
|---|---|
| `postUpload`, `beginUpload`, `putBlob` | `Post`, `BeginUpload`, `Add` |
| `mount` | `Link`, `Open`, `Copy`, and a session instead |
| `patchUpload`, `putUpload`, `resume` | `Resume`, `Expect`, `AppendBegin`, `AppendPiece`, `AppendEnd`, `AppendBreak`, `OutOfRange` |
| the commit, a mismatch and `rehash` | `Commit`, `Mismatch`, `Rehash`, `Reopen`, `Add` |
| `statUpload`, `cancelUpload`, `PruneStages` | `Ask`, `Cancel`, `Prune` |
| the client; a lost answer; a crash | `Patch`, `Put`, `Receive`, `PutAgain`; `GiveUpOn`; `Crash` |
| an I/O error; the copy that `rehash` reads, deleted meanwhile | `Fail` |

An answer is its status or the code of its error (`Codes`). The client told
`UPLOAD_UNKNOWN` begins anew, the one told `RANGE` has where to go on, and the one told
`UPLOAD_INVALID`, since another request has the stage, asks.

A `Range` names the last byte, so one byte reads as none (`0-0`). `Unit`, the bytes of a
piece, is there for that: with 1 a client that trusts the range asks for the first byte
again for ever, so `Ends` is about pieces of more than a byte.

### Upstreams

A call asks origins 1, 2, ... in turn. `manifest`, `referrers` and `reader` are the
locals of the three kinds of call, of which there is one at a time, since calls share
nothing. Any answer of an origin is a choice: found, absent, refused, broken off, whole
or partial, from the start asked for or another. `got[i]` is history, which of the blob's
bytes was given at position `i`, and `told` what the first origin that resolved the tag
said. A tag is resolved by one origin and its digest asked for from the first again, so
an origin without that digest ends the call with its 404, though the one that named it
would have it. `Ends` is per call: within one, no origin is gone back to, but the `GET`
that follows a `HEAD` that went on is another call, and begins at the first origin again.

| code | actions |
|---|---|
| `Upstream.GetManifest` | `GetTag`, `Resolve`, `GetDigest`, `GetFound`, `ManifestOnward`, `ManifestStop` |
| `Upstream.Referrers` | `GetReferrers`, `PageMore`, `PageLast`, `ReferrersOnward`, `ReferrersStop` |
| `upstreamStore.Open` | `OpenBlob`, `Opened` |
| `upstreamReader.Read` | `ReadSome`, `ReadOut`, `ReadAtEnd`, `ResumePartial`, `ResumeWhole`, `ResumeShort`, `ReadOnward`, `ReadStop` |
| `Seek`, `Close` | `Seek`, `Close` |

## What the runs check

| run | instance | properties |
|---|---|---|
| `races` | one image, two clients, a keeper, with fairness | `Inv`, `BlobsPresent`, `TagsResolve`, `NoLoss`, `ImplementsRegistry`, `Reclaimed` |
| `family` | two images of a constant config, an index of one that signs the other, a client, a keeper | `ChildrenPresent`, `ImplementsRegistry` |
| `repush_lost` | two clients at one image, one question | `ManifestBytesPresent`, violated |
| `restore` | an import and a rebuild beside a client and a keeper | `RestoreInv`, `ImplementsRestored` |
| `orphans` | a signature that comes before its image in a scan, two collectors, one manifest per scan step, with fairness | `Inv`, `Scheduled`, `GraceKept`, `Reaped` |
| `pull_through` | one replica, a client, two goroutines, with fairness | `Inv`, `CheckedOfDigest`, `AloneSound`, `AnswersRecent`, `NeverBack`, `ImplementsCache`, `Answered` |
| `checked_elsewhere` | two replicas, one question | `CheckedOfDigest`, violated |
| `referrers` | a referrer that verifies, two requests | `Inv`, `ListsRecent`, `AdmissionJustified`, `UnlistedOmitted` |
| `retention` | two tags, two retention rules that overlap and an immutable one, a process with both kinds of collection | `Inv`, `PolicyWhole`, `KeepsNewest`, `ImmutableStays` |
| `uploads` | three pieces of two bytes, two sessions, two requests, with fairness | `Inv`, `SessionsInOrder`, `CreatedStored`, `EmptyRetriedSame`, `RightIsTaken`, `CalmOnCourse`, `Ends` |
| `retried_otherwise` | a small upload, one question | `RetriedSame`, violated |
| `upstreams` | three origins, two digests, two pages, three bytes, a seek, with fairness | `Inv`, `OfOneOrigin`, `BytesInOrder`, `Ends` |

What each property forbids, and the code it is about, is said where it is defined. An
invariant that is a part of an `Inv` is checked with it, if it is not named by itself:
`ClockSound`, `RunsTrue`, `EndsWhole`, and `TagsResolve` of `RestoreInv`.

**Bounds.** A race here is between two or three goroutines over one digest and what
holds it, so a few manifests and blobs have every relation that objects
can have: one image and its layer, a shared layer, children, a subject, a
layer that is not required, a constant blob. `Content` gives all of them at once to
the proofs. `ChunkSize = 1` puts a boundary between any two of a sweep's erases.
`MaxFailures = 1` stops one goroutine anywhere; a second stop adds nothing a leak
from the first did not leave. Nothing else bounds `Repository`: requests go on for
ever. `Orphans` has a clock, so `MaxTime` bounds it: 3 with a grace of 1 is enough
to be observed, to be observed again later, and to ripen or not in a second collection.
`PullThrough` has one too. With a TTL, a bound on staleness and a fill's time of 1, what is
answered may be no older than 2 (`Oldest`, at its most: a stale answer, and a fill), so a
clock of 4 lets the upstream leave a digest at 1 that something may still answer at 4; with
less, no stale answer is too old. `AnswersRecent` is then broken by a stale bound that is not
asked for or is one too long, by a TTL that is one too long, and by the commit of a fill whose
time is up. The
upstream's tag moves once, which gives an older answer and a newer one. What several
replicas do to one row is in the theorems, for any number of them, and in
`checked_elsewhere`. In `Referrers` a clock of 2 with bounds of 1 lets a list be asked
for, changed, and written over by an older one. `Retention` begins with two tags, so one
move after the count is enough to change the order, and one edit and one fault to have
two policies in force. Two collections of one kind at once need two replicas, and two of
those with changing rules are too many states for a run: in `retention` the two kinds of
collection of one process overlap, and that nothing goes wrong between replicas, when the
lead is lost and both collect, rests on `NewestAreKept` and `Soundness`, which are of any
number of them. In `Uploads` a blob of three
pieces can be broken off at its start, in the middle and one before its end; a second
request at once is the one given up on, and one failure sets it off; a second session is
the one begun anew. In `Upstreams` three origins give one to fail, one to go on to, and
one after that. The configurations say `CHECK_DEADLOCK FALSE` because clients may stop
asking, and the clock ends.

**Fairness.** `Repository!FairSpec` asks four things. What a goroutine that has
what it needs does next, it does (weak fairness of `Progress`): Go schedules it. A
lock that is asked for is got in the end (strong fairness of `Locking`): both
implementations queue those who wait, every holder's steps are finite, and every
return lets go (`defer`). A full collection begins again and again (strong fairness
of `SweepWalk`): `gc.full_every` is a ticker. What was stored grows old (weak
fairness of `Settle`). Nothing is asked of clients. Failures are finitely many: a
sweep that fails every time takes nothing away. In `Orphans!FairSpec` steps of a
collection follow one another, a collection begins again, and from some time on
nothing stops it and none of its transactions fails. In `PullThrough!FairSpec` a fill goes on: what it waits for
answers, fails, or is cut off by its context. In `Upstreams!FairSpec` it is the same of a
call, and that what reads goes on reading. `Uploads!FairSpec` asks that a handler that
has what it needs goes on, and of the client that it goes on too (`GoOn`): it is external,
and a client that stops has no end to come to. It may cancel, but need not. `Referrers`
and `Retention` state safety only.

### Where the code and its documentation disagree

*A manifest's own bytes (`repush_lost`).* `putManifest` stores the manifest before
it asks for the lock, and under the lock looks at its blobs and children but not at
those bytes. If somebody deletes the same manifest, and its release gets the lock
between the push's `Add` and its transaction, the bytes go and the row and the tag
are then written. This breaks what `docs/how-it-works.md:65-66` and
`docs/operating.md:465-466` say. It is why `BlobsPresent` speaks of what a manifest
requires, and why `NoLoss`, which is about steps, holds: the bytes go while nothing
refers to them, and the row comes after.

*When a tag was checked (`checked_elsewhere`).* `tags.Set` moves a tag and leaves its
time of check, and `Check` moves that only forward. If one replica gets `d1`, the
upstream moves to `d2`, another replica confirms `d2`, and then the first commits, the
row says `d1` with the time of `d2`, against `index/index.go:159-160`, and `d1` counts
as fresh from then. How wrong it can be is bounded, which is what `Confirmed` says,
and one replica is never wrong (`pull_through`).

*A final PUT that is retried (`retried_otherwise`).* `putUpload` appends its body before it
commits, and an append to a committed session is refused. So a final `PUT` that carries the
last chunk, and is sent again because its answer was lost, is answered 404 though the
blob is there, against `docs/registry-api.md:57-59`; a client that sends its last chunk
by `PATCH` and an empty `PUT` is answered 201 again (`EmptyRetriedSame`).

Three more things the models do, without a run of their own. A sweep reads a
blob's age, then waits for the lock: a blob that is deleted and pushed again meanwhile is
swept though it has just arrived (`SweepChunk`, `Look`), against `gc/sweep.go:47-49`;
nothing indexed is lost, since its push is refused. An import takes blobs first "so
that nothing in the index is ever without its content" (`importer/importer.go:364-365`),
but writes the rows later without a second look, and what it found or linked may be old
enough to sweep in between (`ImportTake`, `ImportCommit`): the restored rows may lack
their blobs, which is why `Restore` claims less than `Repository`.

An eviction looks again at where the tag points and when it moved, not at when it was
pulled (`gc/gc.go:469`), so a tag pulled after it was listed goes all the same
(`EvictTag` may follow a pull); it is fetched again when it is next asked for.

## What is proved

`RepositoryProofs` proves for any contents, clients, keepers and chunk size:

* `Safety`: `Spec => []Inv`, and from it `NoMissingBlobs`, `NoDanglingTags` and
  `NoBrokenIndexes`;
* `NothingLost`: no step takes away bytes an indexed manifest is or holds;
* `ErasedIsDoomed`: what leaves the store was, in that step, doomed under the lock;
* `Implementation`: `Spec => ImplementsRegistry`.

*The argument.* `BlobsPresent` is not inductive: a push that has looked may commit
after an erase, and an erase that has looked may happen after a commit. `Inv` adds
what both rely on. `LockHeld`: the lock is held exactly by who is between a look and
what it looks for. `PushSound`: while a push is, nothing it names is missing.
`EraseSound`: while an erase is, nothing needs its digest. Each of the two can be
disturbed only by the other kind of goroutine, which would have to hold the same
lock. `RequiredIsHeld` is the one fact of the contents used: what a manifest needs
it holds. `LockHeld`, `PushSound` and `EraseSound` with the types are `Disciplined`, which
is inductive without the rest of `Inv` (`DisciplineStep`): it rests on who has the lock and on no property of the rows.
What is wanted of the rows then follows step by step (`RowSteps`, and for each
conjunct `BlobsStep`, `TagsStep`, `ChildrenStep`), and so do `NoLoss` and the
refinement, from `EraseSound` and `PushSound` (`PromiseStep`).

`RestoreProofs` proves for any layout, beside all of that:

* `RestoreSafety`: `RestoreSpec => []RestoreInv`, and from it `RestoredTags`
  (`[]TagsResolve`);
* `RestoredNothingLost`: `RestoreSpec => NoLoss`; no step takes away bytes a row refers to,
  restored or not;
* `RestoredImplementation`: `RestoreSpec => ImplementsRestored`.

*The argument.* An import and a rebuild write rows their look no longer bears out, so
`BlobsPresent` and `ChildrenPresent` do not survive them, and no proof that needed those
could be used again. `Disciplined` survives: rows are written while nobody has the
lock, so nobody is between a look and what it looks for, whatever the rows say
(`RowsFree`); bytes that come make no look untrue. The lemmas of `Repository` about one
step are then cited as they are. `TagsResolve` is kept because a rebuild writes no tags,
and an import's are of a layout that is written whole.

`OrphansProofs` proves for any manifests, collectors, batch and grace:

* `Soundness`: `Spec => []Inv`, the invariant the others are read off.
* `Completeness`: `Spec => []Scheduled`. An orphan's subject is a candidate, or the
  scan has yet to come to it. Inductive with `TypeOK` alone: the put of an orphan
  observes its subject, the erase of a subject observes it, a batch observes the
  orphans it passes, and a look forgets only what has no referrers or is back.
* `Clocks`: `Spec => []ClockSound`. A candidate with referrers was observed no
  earlier than its subject was last there. This is why an erase must refresh the
  candidate and a scan need not.
* `Patience`: `Spec => GraceKept`, from `ClockSound` and the second look in
  `Removable`.

`PullThroughProofs` proves for any replicas, fills, clients and bounds:

* `Soundness`: `Spec => []Inv`, and from it `CheckedInTime` (`[]Confirmed`): what a tag
  points at was there upstream no longer than a fill takes before its time of check;
* `Recency`: `Spec => AnswersRecent`: a client is answered what the upstream had within
  the bound that applied and a fill, though the row it reads was written by others after
  that was decided;
* `Implementation`: `Spec => ImplementsCache`, each write of the row being one that an
  atomic cache may make;
* `Alone`: `Spec => []AloneSound`; and with one replica, `CheckedAsSaid`
  (`[]CheckedOfDigest`) and `NoWayBack` (`NeverBack`). Their hypothesis `OneReplica` is the
  instance of `pull_through`; with two, `checked_elsewhere` refutes the first.

*The argument.* The only step that moves a tag commits an answer that is at most a
fill old (`InTime`), so whatever was recent enough by that much stays so (`Evolves`,
`SinceKept`); with it every goroutine that takes no part in a step stays sound
(`FillKept`, `RequestKept`), and a fill that ends hands on what it knew (`EndedSound`, `EndKeeps`).
`FillSound` is what makes this inductive: what a fill got from the upstream was there
when it asked, and the tag it found is where it was or has moved to something newer.
Each step is then a step of `Cache` (`CacheStep`): `ConfirmStep` and `RefreshStep` are those
two facts at the moment they are written down.

`AloneSound` is why one replica is never wrong. A goroutine that fills is the one that its
replica's key names (`FlightSound`; `FlightsStep`), for any number of replicas, so on one
there is no other (`OneAtATime`). From when it asked, nobody else has written the tag, so
what it is about to write is no older than what it overwrites (`Ahead`), and neither is the
time it writes. `Leave` is the hard case: a request that gives up must not take the
key with it, or a second fill would begin beside the first.

`ReferrersProofs` proves for any referrers, signatures, clients and bounds:

* `Soundness`: `Spec => []Inv`, and from it `ListsAreRecent` and `AdmittedIsSigned`;
* `CollectedWasOmitted`: a referrer of an image that is here is collected only on a list
  that was asked for after it had arrived, and leaves it out.

*The argument.* `SnapshotSound` says of a list with a time, in the row or in a
request's locals, that the upstream listed exactly that at that time or since, and left
out whoever it omits. It is about the pair alone, so it does not matter whose
write of it comes last. A verdict is kept by list (`VerdictSound`), so it says the
same of whatever request looks it up.

`RetentionProofs` proves for any tags, rules, processes, sources and bounds:

* `Soundness`: `Spec => []Inv`, and from it `PoliciesAreWhole` and `RunsAreTrue`;
* `NewestAreKept` and `ImmutablesStay`, of every step.

*The argument.* `JobSound` is the point: of each tag a collection has left to delete, as
many newer tags are there as the rule keeps, or are known to be gone otherwise, *unless
the tag has moved*. A write makes what it writes the newest, so it can only add to what
is before an unmoved tag; a tag that goes otherwise than by the rule is still counted
(`lost`); and one that goes by the rule was itself past the count, so those before it are
before the other too (`BehindStep`). `AsCounted` in the transaction is what discharges the exception.

`UploadsProofs` proves for any sessions, requests, length and size of a piece:

* `Soundness`: `Spec => []Inv`, and from it `ChunksInOrder`, `CreatedIsStored` and
  `CommitsAgree`;
* `Course`: `Spec => []CalmOnCourse`, and from it `RightBytesTaken` (`[]RightIsTaken`): a
  client that sends the right bytes is refused only after something failed, or its
  session was cancelled or expired.

*The argument.* A stage that is in use is in use by one request, whose append began where
the stage ended and is where it is now (`RequestSound`, `SessionSound`), so a request
that was given up on and its retry cannot both write. Nothing a client does, or
fails to do, touches a session or another's request (`ClientMoves`, `HandlerSound`).

`RightIsTaken` is about a whole exchange: `POST`, chunks, the offset each is answered with,
the final `PUT`. While nothing goes wrong (`Calm`), the client has at most the request
it waits for, and at each step of it the session is active, free, in order, and holds
what the client believes it to or less than it is about to be told (`OnCourse`, with
`RightSoFar` for a request at each of its steps). So a chunk is refused only for its
place, and the answer then names the right one. `Calm` cannot come back once it is lost
(`HandleWorsens`, `ClientWorsens`, `WorldWorsens`), so the step starts from a
state that is on course (`CalmBefore`) and is proved action by action (the `...Course`
lemmas). A chunk may be of any size that the client likes, down to one piece.

`UpstreamsProofs` proves for any origins, digests, pages and length:

* `Soundness`: `Spec => []Inv`, and from it `AnswersOfOneOrigin`, `BytesComeInOrder` and
  `BlobsEndWhole`.

*The argument.* What a body gives next is the byte at the reader's place (`BodySound`),
whether the reader went on in it, skipped to there or asked to begin there, and a list
under way is the pages so far of the origin that is asked (`ReferrersSound`).

*Assumptions.* Those named `...Assumption` in the modules: blobs and manifests are
disjoint sets of digests, a required layer is held, subjects are manifests; the sets
of goroutines are disjoint; names are not `None`; a rule is of one source; there is more
than one origin; at least one session can be begun; bounds are numbers. TLC evaluates them in every run.

*Only model-checked.* The liveness properties (`Reclaimed`, `Reaped`, `Answered`, and both
`Ends`), which need fairness and `ENABLED`, out of this prover's reach; and the three
violations, which are of one instance each. Every other property of a run is a theorem.

## What is not modelled, and why

* `flob` is a library: a store is a set of digests whose operations are atomic, `Adopt`,
  `Link` and `Add` are the arrival of one, and a stage refuses an append that is not
  at its end or while another runs. A memory driver that forgets its sessions when the
  process stops is not told apart from `Prune`.
* *Uploads:* constant blobs, ranges that do not parse, a smallest chunk size, several
  clients at one session. What another client pushes is `Pushed`.
* *The lock:* stripes and the writer on SQLite, advisory locks on PostgreSQL. A
  session lock goes when its connection does, while the goroutine goes on: `Repository`
  lets go of a lock only with its holder. Only the lead of a collection can be lost
  (`Retention`).
* *Caches:* fetches of a manifest by digest, which are never checked again; the
  eviction of an index's children with it; audit mode; the indexes through which a child
  is verified; artifact types.
* *Upstreams:* a single origin, credentials and tokens, blob HEAD, callers' timeouts
  beyond `ManifestStop` and `ReadStop`.
* *Rules:* globs and patterns, which are constant sets of tags; ties of the times tags
  moved; who a caller is and what a scope grants. A denial in `Repository` is a choice
  (`PushDeny`).
* *Bookkeeping:* pulls that are batched and flushed, the outbox of events, the report
  of missing manifests a sweep ends with, the rows of repositories (`Repo().Ensure`).
* `--skip-orphaned` imports, which are a pure fixpoint over a directory; and export,
  listing, search, routing, the command line, which change nothing the others see.
* `index/memindex`, a second index for tests: it keeps one mutex.
* Generated code (`api`, `server`, `internal/ent`, `ts`, `wasm`) is most of the
  repository's lines. It has no control of its own to model: accessors, queries and
  encodings made from schemas. The share of lines the models stand for is small for
  that reason; of the packages with the program's own logic (`registry`, `gc`,
  `index/entindex`, `blob`'s upstreams, `importer`, `index/rebuild`) they stand for most of the
  handlers and collectors.

## Where it could go on

In the order of what could be lost: a module of the repository's lock that implements what
`Repository` assumes (stripes and writer, both kinds of advisory lock, a connection that
is lost); pulls touched, flushed and dropped, beside a collection that reads them; and the
eviction of an index's children. Of what is there, abstract specifications that `Orphans`
and `Uploads` implement, as `Repository` and `PullThrough` do theirs.
