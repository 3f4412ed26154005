# A TLA+ model of niks3

niks3 is a Nix binary cache: clients push store paths to an S3 bucket through
a server that keeps track of objects in PostgreSQL and collects garbage.
This directory models the parts of it in which several actors meet, checks
them with TLC on small instances, and proves their safety properties for all
instances with TLAPS. `PROJECT.json` lists components, runs, the source lines behind every
definition, hazards, findings and theorems.

    tlc -config PushGC_full.cfg MCPushGC     # any run of PROJECT.json
    tlapm PushGCProofs.tla                   # proofs: any *Proofs module

## 1. Inventory

| Component | State it keeps | Operations | Meets whom |
|---|---|---|---|
| Push protocol (`server/pending_closure.go`, `uploads.go`, `pushes.go`, `client/upload.go`) | tables `pending_closures`, `pending_objects`, `multipart_uploads`, `objects`, `closures`; the bucket | create, look up, offer, PUT, register, sign, commit | other pushes of the same objects, the collector, the cleanup |
| Collector (`server/closure.go`, `objects_model.go`, `pg/query.sql`) | tombstones, row locks | delete closures, mark, sweep in batches, delete in S3 | every open push |
| Cleanup (`server/pending_cleanup.go`) | - | abort multipart uploads, drop stale pushes | clients that are only slow |
| Multipart uploads (`server/pending_multipart.go`, `client/multipart.go`) | S3 uploads and their rows; slots, part URLs | open, more parts, complete, abort redundant | peers uploading the same NAR |
| GC tasks (`server/gc_tasks.go`, `client/gc.go`) | last task per replica; an advisory lock | start, poll, lock | replicas behind a load balancer |
| Pins, presence (`server/pins.go`, `present.go`) | `pins`, objects `pins/<name>`, age of closures | create, delete, touch | the collector |
| Upstream fill (`server/upstream.go`) | misses; a push of its own | fetch, copy, verify, sign, commit | other replicas, pushes of the same path |
| Farm (`server/farm.go`) | advisory lock on a connection | lead, ping, announce | candidates with broken connections |
| Hook daemon (`hook/`, `cmd/niks3-hook`) | queue on disk | enqueue, fetch, push, probe, retry, drain | nix builds, the store's collector, signals |
| Stream push (`client/streampush.go`) | channel, batch, slots | read, flush, push, probe, report | its own jobs |
| A push on the client (`client/upload.go`, `pending_closure.go`) | roots, pending pushes, cache config | ask, prepare, create, upload, sign, complete | the server, through calls that fail; the cleanup |
| Upload tasks (`client/parallel.go`, `nar_task.go`) | errgroup | NARs, listings, logs, metadata | its own tasks |
| NAR dump (`client/nar.go`, `nar_prefetch.go`) | two channels, pooled buffers | enqueue, read, write, drain | its own goroutines |
| HTTP calls (`client/retry.go`, `token.go`, `ratelimit/`) | cached token, limiter | resolve, send, retry | lost requests, lost answers, expiring tokens |
| Read proxy (`server/proxy.go`) | none of its own | admit, fill, Stat, GET, redirect | fills, pushes, other readers |
| Server process (`server/server.go`) | listeners, pool | serve, drain, close the pool | collections that run, requests in flight |
| Not modelled: most of authentication, signing keys, statistics, endpoints, CLI, GitHub action, deployment | see section 8 | | |

What is hard here: the collector and the pushes share no lock that spans a
push; all they have are pending rows that are written first, tombstones, row
locks and a recheck after the lock. S3 and PostgreSQL cannot be changed in one
step. Clients die, answer late or twice. Locks live in connections that die
unnoticed. Client goroutines wait for one another through bounded channels.

What makes each part correct: a live row has its object and a published root
has its closure, whatever interleaves (push and collector); an object S3
assembles is the whole NAR and no open upload is forgotten (multipart); one
collection at a time and truthful answers (tasks); pinned and just reported
closures survive (pins); a narinfo has a verified NAR (fill); leaders do not
overlap (farm); an acknowledged path reaches the cache (hook); every
line is reported once (stream push); narinfos describe what went up (tasks);
the archive is in order and the goroutines end (dump); a push reported as good
is in the cache, and one that is in the cache is reported unless the answer was
lost (push); calls end and carry tokens that are good (HTTP); who has the
narinfo gets its NAR (proxy); a server that is asked to stop does (process). The hazards in `PROJECT.json` name the lines where
each of these can go wrong.

## 2. Modules

| Module | Models | Granularity |
|---|---|---|
| `BinaryCache` | abstract: what users of the cache are promised | store, publish, retract, drop |
| `PushGC` | pushes against the collector | one SQL statement or transaction, one S3 call, one request |
| `Multipart` | one NAR uploaded by several pushes | one part, one call, one row |
| `GCRuns` | tasks and the advisory lock on several replicas that crash and shut down | one request, one lock operation |
| `Pins` | pins, presence, deletion of closures | one statement, one S3 call |
| `UpstreamFill` | one path filled by several replicas, and pushed | one call |
| `ReadProxy` | extends `UpstreamFill`: readers that ask, wait for fills and fetch | one S3 call |
| `FarmLead` | leader election, discrete time | one timer or message |
| `HookQueue` | hook daemon with kills | one queue transaction, one push |
| `StreamPush` | `StreamPusher.Run` and its jobs | one channel operation, one push |
| `ServerRequest` | `DoServerRequest`: token, limiter, retries | one attempt, one tick |
| `UploadTasks` | `UploadPendingObjects` | one task step |
| `PushPaths` | extends the two: `PushPaths` and the server it talks to | one call, one stage |
| `NarPrefetch` | `DumpPathWithListing` | one channel operation, one read |
| `PartSizes` | `partSizeForNAR` | a function |
| `ByteRanges` | `parseSingleRange` | a function |
| `*Proofs` | theorems, see section 5 | |
| `MC*` | values for constants that a `.cfg` cannot express | |

`ReadProxy` and `PushPaths` are compositions: the module that extends has the
steps of the components next to its own, and the variables of all. The others
share no variables; they meet at these seams. `GCRuns!OneCollection` is
what `PushGC` assumes when it has one `gcpc`. `Multipart` details the single
step `MultipartComplete` of `PushGC` and leaves rows of `objects` to it. A fill
of `UpstreamFill` is a push of one path there. `Pins` details which closures
`GCClosures` may take. `StreamPush` and `HookQueue` call a push as one step;
`PushPaths` is what happens inside it, `NarPrefetch` inside its NAR tasks.
Where a model does not extend `ServerRequest`, a call to the server is a step
that may fail or be repeated.

### PushPaths

`stage` is the line `PushPaths` is at, `target` the push its current call is
about, `held` the pushes the server has created for it and `todo` those the
stage has yet to deal with. `AskX` makes a call, `HearX` acts on its answer;
between them the call of `ServerRequest` takes its token, waits for the
limiter, is sent, is served (`Refuse`, `Answer`, `AnswerComplete`), loses its
request or its answer (`Break`), backs off and is sent again. A request whose
connection broke may still reach the server (`LateComplete`), and the cleanup
may take a push away (`CleanUp`). Tokens have a lifetime and an age; `elapsed`
is the age of the call. The answers of `/api/pushes` that make `createPending`
fall back, a config that is fetched again, roots that are present or too
large, and failing store queries are all in. `settled` and `lost` are history.

### ReadProxy

A reader asks replica `at` for the object `of`; `pc` is how far the handler has
come: waiting for the limiter, asking S3 whether the narinfo exists, in a
fill it joined or started, before its Stat, before its GET, or redirected.
`answer` is what the reader was told last, `informed` that it has the narinfo;
`there` is history, whether the narinfo was stored when the request came.
One reader is modelled in full; any other may only start a fill
(`UpstreamFill!Begin`), which is all they can do to each other.

### Shutdown in GCRuns

`up[r]` goes from up to draining (`Shutdown`: listeners closed, contexts
cancelled), to closing (`Drained`: requests are over or cut off), and a new
process takes over when the pool has all its connections back (`Exit`). A run
on that replica ends with its cancelled context (`Cancelled`) and its release
unlocks with a context of its own.

### PushGC

`row[k]` is the row of `objects` (none, live, or tombstoned: `deleted_at` set),
`s3` the bucket, `closures` and `tracked` the tables of closures and pending
closures, `uploads` the table of multipart uploads. `pc`, `req`, `offered` and
`done` are a push as its client sees it; `reg` are registrations
(`POST .../complete-upload`) between their check in S3 and their statement.
`gcpc`, `found`, `held`, `del` and `gone` are the collector: its phase, what
its query found on its snapshot, the rows it has locked, and the S3 deletes
that are outstanding or done.

A push: `InsertPending`, `Lookup` (waits for rows the sweep holds), `VerifyS3`
when asked to, then `Offer` within these; `Put`, `Skip`, `MultipartComplete`,
`Superseded`; `RegisterCheck` and `RegisterUpload` / `RegisterMultipart` /
`RegisterLost`; `SignNarinfos`; `CommitCheck` and then `Commit` or
`CommitAborts`, or at once `CommitConflict` or `CommitGone`.
A collection: `GCStart`, `GCCleanup`, `GCClosures`, `MarkSnapshot`,
`MarkApply`, and batches of `SweepQuery`, `SweepLock`, `SweepRecheck`,
`SweepDelete`, `SweepCommit`; `GCFinish` or `GCAbort` anywhere. PostgreSQL's
READ COMMITTED is in the split of query and effect: a statement decides on the
snapshot it starts with, waits for row locks and checks only the locked row
again. `commit_push` is two steps for the same reason: its look at the objects
that the push relies on has a snapshot of its own and locks nothing but the
push, and the inserts and the commit come later.

Time is left out: the ages a collection is started with may be zero, so any
push may be stale, any closure expired, any tombstone ripe. Clients that die
take no further step.

History variables guard nothing. `tainted` are keys that a late registration
made live without an object, and `outrun` are references that a mark took
between the check of a commit and the commit. `owed` are the published roots
whose closure the server has to keep. A root becomes owed when it is committed,
by a full or a thin push, with every object of its closure covered: it is the
push's own, was checked and not outrun, or lies in the closure of another owed
root. It ceases to be owed when the collector removes its closure, or when a mark
that was running at its commit takes an object of it. These three carve the
deviations of section 6 out of the properties, so that everything else is shown
to be right.

## 3. Runs

Passing runs, with distinct states on the instances given:

| Run | Instance | States | Shows |
|---|---|---|---|
| `PushGC_full` | narinfo and multipart NAR, 2 pushes, fair | 222 k | `LiveBacked`, `ShieldedStaysStored`, `NarinfoAfterItsObjects`, `DeletesOnlyUnshielded`, `PushesGetThrough`, refinement of `BinaryCache` |
| `PushGC_thin` | an application that references a library and has a listing; the library pushed alone with `verify_s3` over the older route, the application as a thin push | 625 k | `VerifiedIsStored`, `ClosureComplete`, `CommitPublishesStored` |
| `FarmLead` | 3 candidates, 3 faults | 492 k | `OverlapNeedsIncumbent`, `FarmGetsLeader` |
| `HookQueue` | a path and an oversized one that share a dependency, a bad path; 1 fault | 192 k | `NothingLost`, `QueueMovesOn` |
| `GCRuns` | 2 replicas, 2 clients, 2 runs, 1 lost session, 1 crash or shutdown | 447 k | `OneCollection`, `SuccessMeansOver`, `ClientsReturn`, `ShutdownEnds` |
| `Pins` | 2 closures, 2 names, 3 requests | 603 k | `PinnedStays`, `PresentSurvives` |
| `ReadProxy` | 2 replicas, one redirecting, 2 upstreams one of which may be wrong, a push, a reader | 624 k | `NarinfoHasNar`, `InformedGetsNar`, `PublishedIsFound`, `RequestsEnd` |
| `Multipart` | 2 pushes, one with 1 and one with 2 slots, 2 parts, 1 fault | 346 k | `ObjectIsWhole`, `FinishedHasObject`, `OpenIsTracked`, `UploadsEnd` |
| `StreamPush` | 4 lines, batches of 3, 2 slots, 2 probes, 1 fault | 982 k | `ReportedOnce`, `OkMeansPushed`, `BadCostsItself`, `RunReturns` |
| `PushPaths` | 2 roots, one within the closure of the other, that share a NAR; 2 workers, 1 fault, 1 retry at least, tokens that have expired or live 2 ticks | 676 k | `OkMeansSettled`, `CommittedIsReported`, `RefusedAfterAQuarter`, `DescribedIsUploaded`, `PushReturns` |
| `NarPrefetch` | 4 files, queue of 1, 2 readers, 2 faults | 555 k | `NarInOrder`, `BuffersBounded`, `DumpReturns` |

`PushGC_staleMark` (1 key, 2 pushes) ends in a violation: see section 6.

The runs spend their time on properties of the code. Types are checked in
`PushGC_full` only; elsewhere they are part of the inductive invariants that
section 5 proves.

Every property has a mutant: a plausible slip in the code (a dropped recheck, a
slot that is not returned, a lock that goes back to the pool) under which TLC
finds the property violated. The mutated forms stand before the definitions
they mutate.

Bounds. Two pushes are enough for a push to meet a peer, a collection and its
own cleanup; collections repeat without bound, so a push may come after, between
or under them. Three keys give a reference that leaves the push. `MaxFaults`
counts failures that have no cause in the model (lost calls, kills, dead connections); what
follows from one of them, an error of a cancelled call or of an aborted upload,
is free. `MaxRuns`, `MaxLosses`, `MaxRestarts`, `MaxLines` and `Files` bound
counters; each is large enough for the queues and slots of the instance to fill
up and empty again. In `PushPaths` only the uploads have a bound on faults:
calls may be lost, refused or answered badly without end, and the retry loop
bounds itself; `Timeout` and `Lifetimes` are small multiples of one tick, which
is enough for a token to expire in the cache, in the limiter, in backoff and
under way. Two roots make a push that is half completed, and a shared NAR
makes its tasks depend on each other. `ReadProxy` has no bound on faults.
Symmetry (of pushes) is used in safety runs only.

Deadlock is checked where the system never stops (`FarmLead`, `HookQueue`,
`Pins`, `ReadProxy`) and where stopping would mean that work is left over
(`PushPaths`, which stutters explicitly once it returned). It is off where all pushes, lines
or runs may be used up; what must not get stuck there is a liveness property
(`UploadsEnd`, `RunReturns`, `ClientsReturn`, `DumpReturns`, `PushesGetThrough`).

## 4. Fairness

- `PushGC`: the sweep's own steps, and the lookup and the two steps of the
  commit of a push while their locks are free: a server that is up executes its
  statements. Clients get no fairness, and a collection need not start.
- `FarmLead`: handlers run, time passes, PostgreSQL ends sessions whose
  connection is gone (keepalive).
- `HookQueue`: the worker and the handlers run; systemd restarts the daemon.
- `GCRuns`: a run acquires, notices a cancelled context and releases; clients
  poll on a ticker; dead sessions end; a drain has a timeout. No phase of a run
  need end: `ShutdownEnds` holds with a run that is stuck in S3, and only
  `ClientsReturn` assumes, in its own statement, that phases end.
- `PushPaths`: the client goes on, time passes, and a request is answered,
  well or badly, or its connection breaks. That is an assumption: the HTTP
  client has no timeout of its own, so a server that accepts a request and
  never answers holds a push for as long as the connection lives.
- `ReadProxy`: a request goes on, and a fill proceeds or fails within
  `upstreamFillTimeout`.
- `Multipart`, `StreamPush`, `NarPrefetch`: goroutines run (the Go scheduler)
  and calls, reads and writes return, well or badly. The latter is an assumption
  on the environment: the command line tool's context ends with a signal and has
  no deadline, and its HTTP client has no timeout.

All of it is weak fairness, and nothing makes a call succeed.

## 5. Proofs

Every invariant and action property of the passing runs is also a theorem: for
every value of the constants, so for any number of keys, pushes, replicas,
requests, lines or files, any queue depth, batch size or timeout, and any
number of faults. `XAlways` is the theorem for property `X`.

| Module | About | Theorems |
|---|---|---|
| `PushGCProofs` | `PushGC`, `BinaryCache` | `TypeCorrect` (`TypeOK`), `LiveRowsAreBacked` (`LiveBacked`), `PushesAreShielded` (`ShieldedStaysStored`), `VerifiedPushesAreStored` (`VerifiedIsStored`), `PublishedClosuresAreComplete` (`ClosureComplete`), `SweepSparesPushes` (`DeletesOnlyUnshielded`), `NarinfosComeLast` (`NarinfoAfterItsObjects`), `CommitsPublishStoredObjects` (`CommitPublishesStored`), `PushGCImplementsBinaryCache` (`ImplementsBinaryCache`) |
| `MultipartProofs` | `Multipart`, `PartSizes` | `ObjectIsWholeAlways`, `FinishedHasObjectAlways`, `OpenIsTrackedAlways`, `PartsFit` |
| `ServerLockProofs` | `Pins`, `FarmLead` | `PinnedStaysAlways`, `PresentSurvivesAlways`, `OverlapNeedsIncumbentAlways` |
| `TaskProofs` | `GCRuns`, `HookQueue` | `OneCollectionAlways`, `SuccessMeansOverAlways`, `NothingLostAlways` |
| `ReadProxyProofs` | `ReadProxy` with `UpstreamFill`, `ByteRanges` | `NarinfoHasNarAlways`, `InformedGetsNarAlways`, `PublishedIsFoundAlways`, `PartIsWhatIsAsked` |
| `PushPathsProofs` | `PushPaths` with `ServerRequest` and `UploadTasks` | `OkMeansSettledAlways`, `CommittedIsReportedAlways`, `RefusedAfterAQuarterAlways`, `DescribedIsUploadedAlways` |
| `StreamPushProofs` | `StreamPush` | `ReportedOnceAlways`, `OkMeansPushedAlways`, `BadCostsItselfAlways` |
| `NarPrefetchProofs` | `NarPrefetch` | `NarInOrderAlways`, `BuffersBoundedAlways` |

Where a module proves about two components, they share nothing but the file;
the names of `FarmLead` and `HookQueue` have a prefix for that.

The assumptions on constants are in the modules that declare them. They say that
bounds are numbers (positive where the code has a literal: queue depth, batch
size, slots, retries), that closures contain their roots, and that
model values differ. Those with more content: `KindsAssumption` and
`RequestsAssumption` of `PushGC` are what `validateObjects` and the push
handlers check; `TimingAssumption` of `FarmLead` has the ping timeout at most
the heartbeat, as `server/farm.go` does; `HookAssumption` has closures that are
transitive. No theorem uses fairness.

Each proof has the same form: an inductive invariant `Inv` (`FarmInv`,
`HookInv`) that was first checked by TLC on the run's instance, one step per
action of `Next`, and the properties as consequences. What the invariants add
to the properties:

- `Multipart`: `PartsSoFar` (a part that was read is in flight or sent unless
  one failed, and a reader that ended well has read all, unless its dump was cut)
  and `AllPartsListed` carry this to the request that completes, which lists the
  parts from the first on without a gap (`FromTheFirst`); `ServedHasObject`; and for the rows
  `ServedIsSettled` and `SweptIsSettled`: a row goes only when its upload is closed
  or its failed abort is logged. An increasing list of k part numbers up to k
  is 1 to k (`IncreasingIsIdentity`).
- `Pins`: `LocksApart`, a pin's transaction and the collection never hold the
  same closure, and `ReportedIsYoung`.
- `FarmLead`: `InSuccession`, of two handlers with a connection one took the
  lock after the other lost it, and its quiet time is no shorter than what the
  other needs to find out by tick and ping.
- `GCRuns`: `WorkersHold` (between lock and unlock a run holds the lock unless
  its session died) and `ActiveIsRemembered` (Start replaces no running task).
- `HookQueue`: nothing but types; the work is in the operators. What a
  successful push removes is in the cache or was skipped (`PushedIsCached`),
  `Remove` and `Retry` keep the rest (`AmongKeeps`, `Removing`, `Retrying`).
- `ReadProxy`: `VouchedIsGood`, whoever publishes or skips the NAR (a narinfo, a
  live row, a push, a fill past its check) is right about it,
  `InformedIsPublished`, and `ThereIsStored`: a narinfo that was stored when the
  request came still is.
- `PushPaths`: three that do not need each other. `HeaderWasYoung` (a token is
  handed out with a quarter of its life left); `PushesCover`,
  `CompletedIsSettled` and `CommitsAreTold` (pushes partition the wanted roots and leave the
  list only when committed); and that a task that ended well leaves its objects
  in S3.
- `StreamPush`: `OnlyHere` and `Somewhere` (a line that was taken is in exactly
  one of batch, hand, job, report), and `JobsSound`.
- `NarPrefetch`: the queue holds, in order, exactly the small files that the
  enqueuer has come to and the writer has not (`WriterInPlace`), and a buffer in
  use belongs to an entry that is out (`UnreadIsOut`, `BuffersOut`).

`PartsFit` and `PartIsWhatIsAsked` are about functions, with the code's own
constants and numbers beyond TLC's integers, so no run checks them. The first:
for every NAR up to 44 TiB (9000 parts of 5 GiB), the part size lies within S3's
limits and what zstd may make of the NAR fits into 10000 parts. The second: for
every object size and every pair of numbers in a Range header, the span is not
empty and is exactly what the header asks for.

The argument for `PushGC`. None of the properties is inductive alone. `Safe` adds why no
object disappears under a push: locks are held on tombstones only (`GCShape`);
a push before its answer has nothing (`PushShape`); multipart rows belong to
open pushes (`UploadsTracked`); registrations have their object unless a delete
overtook them (`RegBacked`); and `DoomedUnanswered`: a key that the recheck left
for deletion is owned only by pushes that have not been through their lookup,
where they wait for the row lock. `Inv` adds why none disappears under a root:
`OwedLive` (everything a published root leads to is live) and `MarkSpares` (what
the running mark found is disjoint from the closures of roots that were
published at its snapshot). `CheckedStaysLive` (what a commit has checked is
live until a mark takes it, which is what `outrun` says) carries the check over
to the commit, so that a covered root is live as a whole when it is published
(`CoveredIsLive`), whoever brought its objects. `WalkCoversClosure` connects the recursive query,
defined as a least fixed point, with `ClosureOf`. The refinement maps
`published` to `owed` and `stored` to the bucket with the tainted keys.

Model-checked only: the liveness properties (`PushesGetThrough`,
`FarmGetsLeader`, `QueueMovesOn`, `ClientsReturn`, `ShutdownEnds`, `RequestsEnd`,
`UploadsEnd`, `RunReturns`, `PushReturns`, `DumpReturns`), because fairness and
ENABLED are out of the prover's reach. What data structures built by recursion
compute would be too; the modules with proofs use functions and CHOOSE instead
(`Listed` in `Multipart`, `Among` in `HookQueue`, the least fixed point of the
mark's walk in `PushGC`).

## 6. Where the code and what is said of it differ

`PushGC_staleMark` ends in a violation. `MarkStaleObjects` decides on the
snapshot it starts with which objects are reachable or pending. A push that
inserts its pending rows after that snapshot, is told that the objects of an
older and just removed closure are live, and commits before the mark reaches
their rows is not seen: the mark waits for the row lock and checks only
`deleted_at IS NULL` again. The published closure then contains a tombstone,
which a later sweep deletes. `server/gc_races_test.go:57` says that such a push
must keep the objects alive. The other properties leave out the roots that lost
an object to a mark that was running when they were committed, and those of the
two rows of `3_commit_push.sql` below (`owed`).

The remaining properties hold with exceptions that the models state. Each of
these is a behaviour of the code that its comments do not mention or deny:

| Where | What happens | How the model states the exception |
|---|---|---|
| `server/pg/query.sql:83` | a delayed registration passes on the pending row of another push after its object was swept; the row is live without an object | `tainted` in `LiveBacked` and others; `VerifiedIsStored` needs no exception |
| `server/pg/functions/3_commit_push.sql:21` | the check of a commit takes no lock on what it finds: a mark, and a forced sweep, that come between the check and the commit take an object the push relies on, although `server/pushes.go:84` promises a 409 | `outrun` in `CommitPublishesStored` and `CoveredRoots` |
| `server/pg/functions/3_commit_push.sql:25` | only direct references are checked: a live narinfo passes whose own references have been collected, because a pending row shielded it and not them, or it came over the older route | `CoveredRoots` in `ClosureComplete` |
| `client/multipart.go:262`, `:269` | an error of the dump that wraps `io.EOF` or `io.ErrUnexpectedEOF`, as a file that is shorter than its stat gives (`client/nar.go:215`, `client/nar_prefetch.go:153`), is taken for the end of the NAR: the truncated upload is completed and registered, and the push fails only afterwards (`client/nar_upload.go:152`); other pushes find the object present | `spoilt` in `ObjectIsWhole`, which still has what came before the error, without gaps |
| `client/nar_prefetch.go:23` | memory is said to be at most `prefetchQueueDepth` buffers; the one the writer holds comes on top | `BuffersBounded` says depth and one |
| `client/parallel.go:116` | a listing that is offered without its NAR and narinfo gets no task | `DescribedIsUploaded` speaks of described narinfos only |
| `server/farm.go:53` | a self-declared incumbent leads at once, also when another one led since and has not noticed its loss | `OverlapNeedsIncumbent` |
| `client/upload.go:598`, `hook/worker.go:251` | closures over the size limit leave the queue as if they had gone up, and with them dependencies that were queued and acknowledged by themselves and that no other push brings (the comment at `hook/worker.go:253` speaks of dependencies that "went up as part of a parent") | `dropped` in `NothingLost` |
| `server/closure.go:289` | a poll that reaches another replica hears of that replica's last run | `SuccessMeansOver` speaks of answers of the replica that runs the collection |
| `server/closure.go:26` | the advisory lock is lost with its session under a running collection | `lost` in `OneCollection` |
| `server/pins.go:102` | a create that fails to commit, or two interleaved ones, leave an object that names another path than the row | not stated; the comment there accepts it |
| `server/upstream.go:532` | a fill that fails verification has overwritten, and deletes, a NAR that was pushed meanwhile | `spoilt` in `NarinfoHasNar` |
| `client/retry.go:236` | a complete whose answer is lost, or that arrives after its retries, commits a push that is reported as failed; complete is not idempotent | `lost` in `CommittedIsReported` |
| `client/retry.go:155` | the token is resolved before the limiter and once for all retries, so one that was fresh can be refused | `RefusedAfterAQuarter` says after how long |
| `server/proxy.go:417` | headers are those of the Stat and the body that of the GET, which carries no condition: an object replaced in between is sent under the old length and ETag | `InformedGetsNar` speaks of the bodies |
| `hook/worker.go:170` | a path that is rebuilt and queued again between the stat and the Remove loses its row | `dropped` in `NothingLost` |
| `server/upstream.go:214` | an upstream that failed counts as one that does not have the path | not stated; the miss expires |
| `client/multipart.go:240` | an abort by a peer that shows in RequestMoreParts fails the push, although the NAR is there | `FinishedHasObject` speaks of pushes that go on |
| `client/streampush.go:175` | lines that were read are not reported after a cancellation | `Taken` in `ReportedOnce` |

The dependencies of oversized closures came to light in the proof: without them
`NothingLost` is not preserved by `PushBatch`, and TLC confirms it as soon as the
oversized path of the instance references a path that is queued too.

## 7. Plan

Done: the modules above, in the order of section 2; the proofs of section 5,
which cover every safety property of the runs.

Next, in this order:
1. Prove: `TypeOK` of the modules whose invariants need only parts of it; that
   `Multipart` and `GCRuns` implement abstract specifications (one atomic
   completion of an upload, one collection at a time), which makes the seams to
   `PushGC` theorems.
2. Model: an S3 delete that takes effect after its call failed, in `PushGC`;
   a reader of `PushGC`'s bucket while collections run; the hook daemon's idle
   exit; the GitHub action's lifecycle.

## 8. Not modelled

- Bytes: NAR format, listings, narinfo grammar, compression, base32, hashes,
  signatures. They are pure functions with unit tests; the models carry whether
  a NAR matches or an object is whole.
- Authentication, OIDC, mTLS and pin ACLs: checks of single requests. That an
  expired token is refused is in `PushPaths`.
- Health, metrics, landing page: no state of their own. Encodings and headers
  of the read proxy: they decide only whether a GET follows the Stat.
- Object statistics: counters that a trigger keeps in the transaction that
  changes the rows; nothing comes between.
- Build logs: uploads like listings (`Optional`); that logs are not referenced
  by anything and are collected is outside what `ClosureComplete` speaks of.
- CLI, GitHub action, systemd units, Helm chart, NixOS modules, mock servers.
- A 500 for a commit that went through although its database connection died
  (`server/pushes.go:107`): for the client `PushPaths` has lost answers instead.
- The limiter's rate and the backoff's length: a call waits for any time.
- A push that its user cancels: it stops where it is, and what it leaves behind
  is what `PushGC` has of clients that die. More than one push at a time in one
  client: they share the token and the config, which only saves calls.
- Durations: backoff, rate limits, ages and timeouts only decide when a step
  happens, which may be any time here (except in `FarmLead`, where the
  durations are the point).
- S3 deletes that take effect after their call failed, and uploads that were
  opened by a server that died before it wrote the row: see the hazards.

`src/spec/pushes.qnt` is the repository's own Quint model of pushes; `PushGC`
was translated from the code and splits what the code splits (registration,
verification, multipart, batches of the sweep, snapshots of the mark).
