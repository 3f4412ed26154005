------------------------------ MODULE HookQueue ------------------------------
(***************************************************************************)
(* The post-build hook daemon (hook/, cmd/niks3-hook): handlers of its     *)
(* socket put store paths into a queue on disk, one worker pushes batches  *)
(* from its head. A failed batch is retried path by path, failed paths go  *)
(* to the back, and a final pass drains the queue on shutdown. The process *)
(* may be killed at any point; the queue and the cache survive.            *)
(*                                                                         *)
(* Waiting times (poll interval, backoff, idle exit) only decide when the  *)
(* worker wakes up or stops, which may be at any time here.                *)
(***************************************************************************)
EXTENDS Naturals, FiniteSets, Sequences, SequencesExt

CONSTANTS
    Paths,
    ClosureOf,        \* ClosureOf[p]: p and everything it references
    Broken,           \* paths whose push always fails
    Oversized,        \* paths larger than the server's max NAR size
    BatchSize,
    IsolationProbes,
    MaxFaults         \* bound on kills, signals and transient failures

ASSUME HookAssumption ==
    /\ ClosureOf \in [Paths -> SUBSET Paths]
    /\ \A p \in Paths : p \in ClosureOf[p]
    /\ \A p \in Paths : \A q \in ClosureOf[p] : ClosureOf[q] \subseteq ClosureOf[p]
    /\ Broken \subseteq Paths /\ Oversized \subseteq Paths
    /\ BatchSize \in Nat \ {0} /\ IsolationProbes \in Nat \ {0} /\ MaxFaults \in Nat

VARIABLES
    queue,     \* upload_queue in rowid order
    store,     \* paths in the local Nix store
    roots,     \* paths the cache has as closure roots
    inflight,  \* path sets of connections the server is handling
    acked,     \* paths whose sender was told "ok"
    proc,      \* the daemon process: up, stopping or down
    wpc,       \* where the worker is
    draining,  \* the worker makes its final pass
    batch,     \* what step fetched, less what is gone from the store
    absent,    \* fetched paths that are gone from the store
    next,      \* index of the path the isolation loop tries next
    settled,   \* what the isolation loop has removed (done)
    failures,  \* failed pushes of the isolation loop
    stalled,   \* batches in a row that made no progress while draining
    faults,
    dropped    \* history: paths removed although the cache does not have them

workerVars == <<wpc, draining, batch, absent, next, settled, failures, stalled>>
hookVars == <<queue, store, roots, inflight, acked, proc, workerVars, faults, dropped>>

WorkerStates == {"wait", "fetch", "prune", "push", "probe", "done"}

HookTypeOK ==
    /\ queue \in Seq(Paths) /\ IsInjective(queue)
    /\ store \subseteq Paths /\ roots \subseteq Paths
    /\ inflight \subseteq SUBSET Paths
    /\ acked \subseteq Paths
    /\ proc \in {"up", "stopping", "down"}
    /\ wpc \in WorkerStates /\ draining \in BOOLEAN
    /\ batch \in Seq(Paths) /\ Len(batch) <= BatchSize
    /\ absent \subseteq Paths
    /\ next \in 1..(BatchSize + 1)
    /\ settled \subseteq Paths
    /\ failures \in 0..BatchSize
    /\ stalled \in 0..IsolationProbes
    /\ faults \in 0..MaxFaults
    /\ dropped \subseteq Paths

Cached == UNION {ClosureOf[r] : r \in roots}

Idle ==
    /\ wpc' = "wait" /\ draining' = FALSE
    /\ batch' = <<>> /\ absent' = {} /\ next' = 1
    /\ settled' = {} /\ failures' = 0 /\ stalled' = 0

HookInit ==
    /\ queue = <<>> /\ store = {} /\ roots = {}
    /\ inflight = {} /\ acked = {}
    /\ proc = "up"
    /\ wpc = "wait" /\ draining = FALSE
    /\ batch = <<>> /\ absent = {} /\ next = 1
    /\ settled = {} /\ failures = 0 /\ stalled = 0
    /\ faults = 0 /\ dropped = {}

\* What fails for no reason of its own is paid for, at most MaxFaults times.
Cost(ok) ==
    /\ ok \/ faults < MaxFaults
    /\ faults' = IF ok THEN faults ELSE faults + 1

-----------------------------------------------------------------------------
(***************************************************************************)
(* Nix builds and collects paths; the hook sends what was built.           *)
(***************************************************************************)

\* A build puts a path (with its references) into the store and runs
\* `niks3-hook send`, which connects while the daemon listens.
Build(p) ==
    /\ p \notin store
    /\ store' = store \cup ClosureOf[p]
    /\ inflight' = IF proc = "up" THEN inflight \cup {{p}} ELSE inflight
    /\ UNCHANGED <<queue, roots, acked, proc, workerVars, faults, dropped>>

\* nix-collect-garbage removes p and all that references it.
Collect(p) ==
    /\ p \in store
    /\ Cost(FALSE)
    /\ store' = {q \in store : p \notin ClosureOf[q]}
    /\ UNCHANGED <<queue, roots, inflight, acked, proc, workerVars, dropped>>

Queued == ToSet(queue)

\* Mutant: the sender is told "ok" whether or not the insert succeeded.
EnqueueAlwaysOk(P, ok) ==
    /\ P \in inflight
    /\ Cost(ok)
    /\ inflight' = inflight \ {P}
    /\ queue' = IF ok THEN queue \o SetToSeq(P \ Queued) ELSE queue
    /\ acked' = acked \cup P
    /\ dropped' = dropped \ (P \ Queued)
    /\ UNCHANGED <<store, roots, proc, workerVars>>

\* handleConn: INSERT OR IGNORE in one transaction, then "ok". When the
\* transaction fails the sender is told so.
Enqueue(P, ok) ==
    /\ P \in inflight
    /\ Cost(ok)
    /\ inflight' = inflight \ {P}
    /\ IF ok THEN /\ queue' = queue \o SetToSeq(P \ Queued)
                  /\ acked' = acked \cup P
                  /\ dropped' = dropped \ (P \ Queued)
             ELSE UNCHANGED <<queue, acked, dropped>>
    /\ UNCHANGED <<store, roots, proc, workerVars>>

-----------------------------------------------------------------------------
(***************************************************************************)
(* The worker.                                                             *)
(***************************************************************************)

\* The elements of s that are in T, in their order.
Among(s, T) ==
    LET kept == {i \in DOMAIN s : s[i] \in T}
    IN  [n \in 1..Cardinality(kept) |->
            s[CHOOSE i \in kept : Cardinality({k \in kept : k < i}) = n - 1]]

Without(S) == Among(queue, Paths \ S)

\* Queue.Remove; the worker only logs its error. What of S is in lost leaves
\* the queue for another reason than being cached.
RemovePaths(S, lost, ok) ==
    IF ok THEN /\ queue' = Without(S)
               /\ dropped' = dropped \cup (S \cap lost)
          ELSE UNCHANGED <<queue, dropped>>

\* Mutant: a failed path keeps its place.
RetryInPlace(p, ok) == UNCHANGED queue

\* Queue.Retry moves a path that is still queued to the back.
Retry(p, ok) ==
    queue' = IF ok /\ p \in Queued THEN Append(Without({p}), p) ELSE queue

\* Run after a step: go on while there is progress. drain after a step:
\* give up after IsolationProbes batches without progress.
AfterStep(progress) ==
    /\ batch' = <<>> /\ absent' = {} /\ next' = 1 /\ settled' = {} /\ failures' = 0
    /\ stalled' = IF draining /\ ~progress THEN stalled + 1 ELSE 0
    /\ wpc' = IF draining THEN (IF stalled' < IsolationProbes THEN "fetch" ELSE "done")
                          ELSE (IF progress THEN "fetch" ELSE "wait")
    /\ UNCHANGED draining

\* The poll interval or the backoff is over, or an enqueue notified.
Wake ==
    /\ proc = "up" /\ wpc = "wait"
    /\ wpc' = "fetch"
    /\ UNCHANGED <<queue, store, roots, inflight, acked, proc, draining, batch, absent,
                   next, settled, failures, stalled, faults, dropped>>

\* The worker sees that its context is cancelled, between two steps.
StartDrain ==
    /\ proc = "stopping" /\ ~draining /\ wpc \in {"wait", "fetch"}
    /\ draining' = TRUE
    /\ wpc' = "fetch"
    /\ UNCHANGED <<queue, store, roots, inflight, acked, proc, batch, absent,
                   next, settled, failures, stalled, faults, dropped>>

\* step: fetch a batch and stat its paths.
Fetch ==
    /\ proc # "down" /\ wpc = "fetch" /\ (draining \/ proc = "up")
    /\ LET fetched == SubSeq(queue, 1, IF Len(queue) < BatchSize THEN Len(queue) ELSE BatchSize)
       IN  /\ batch' = Among(fetched, store)
           /\ absent' = ToSet(fetched) \ store
           /\ wpc' = IF fetched # <<>> THEN "prune"
                     ELSE IF draining THEN "done" ELSE "wait"
    /\ UNCHANGED <<queue, store, roots, inflight, acked, proc, draining, next, settled,
                   failures, stalled, faults, dropped>>

\* step: drop the paths that no longer exist.
Prune(ok) ==
    /\ proc # "down" /\ wpc = "prune"
    /\ Cost(ok)
    /\ RemovePaths(absent, absent, ok)
    /\ IF batch = <<>>
       THEN AfterStep(TRUE)
       ELSE /\ wpc' = "push"
            /\ UNCHANGED <<draining, batch, absent, next, settled, failures, stalled>>
    /\ UNCHANGED <<store, roots, inflight, acked, proc>>

\* PushPaths of the paths P, as <<closures pushed, what it returns, what it
\* skipped>>. What the cache has as a root is left alone if the server can say
\* so. Closures with an oversized path are skipped if the server can tell its
\* limit; they are returned all the same.
PushPaths(P) ==
    {LET missing  == P \ known
         tooLarge == {p \in missing : ClosureOf[p] \cap limit # {}}
     IN  <<missing \ tooLarge,
           IF missing = {} THEN P ELSE UNION {ClosureOf[p] : p \in missing},
           UNION {ClosureOf[p] : p \in tooLarge}>>
     : known \in {{}, P \cap roots}, limit \in {{}, Oversized}}

\* nix path-info needs the paths; the server refuses an oversized one.
Accepted(pushed) ==
    \A p \in pushed : p \in store /\ ClosureOf[p] \cap (Broken \cup Oversized) = {}

\* settle: the whole closure, or the batch when that is not smaller.
Settled(P, returned) == IF Cardinality(returned) > Cardinality(P) THEN returned ELSE P

\* The push of P fails: for good, by a transient fault, or because the
\* worker's context is cancelled. Some closures may have been completed.
PushFails(P, ok) ==
    \E x \in PushPaths(P) :
        \/ ~Accepted(x[1]) /\ Cost(ok) /\ UNCHANGED roots
        \/ /\ Accepted(x[1])
           /\ Cost(proc = "stopping" /\ ~draining /\ ok)
           /\ \E S \in SUBSET x[1] : roots' = roots \cup S

\* upload: push the batch as a whole.
PushBatch(ok) ==
    /\ proc # "down" /\ wpc = "push"
    /\ Cost(ok)
    /\ \E x \in PushPaths(ToSet(batch)) :
          /\ Accepted(x[1])
          /\ roots' = roots \cup x[1]
          /\ RemovePaths(Settled(ToSet(batch), x[2]), x[3], ok)
    /\ AfterStep(TRUE)
    /\ UNCHANGED <<store, inflight, acked, proc>>

\* The batch failed. Cancelled or timed out, it stays where it is; a single
\* path goes to the back; several are tried one by one.
PushBatchFails(ok) ==
    /\ proc # "down" /\ wpc = "push"
    /\ PushFails(ToSet(batch), ok)
    /\ \/ /\ proc = "stopping"
          /\ draining => faults' > faults
          /\ AfterStep(FALSE)
          /\ UNCHANGED queue
       \/ /\ proc = "up" \/ draining
          /\ Len(batch) = 1
          /\ Retry(batch[1], ok)
          /\ AfterStep(FALSE)
       \/ /\ proc = "up" \/ draining
          /\ Len(batch) > 1
          /\ wpc' = "probe"
          /\ UNCHANGED <<queue, draining, batch, absent, next, settled, failures, stalled>>
    /\ UNCHANGED <<store, inflight, acked, proc, dropped>>

\* Indices of the batch the isolation loop still has to try.
Untried == {i \in next..Len(batch) : batch[i] \notin settled}

GivesUp == settled = {} /\ failures >= IsolationProbes

\* One path of the isolation loop is pushed on its own ...
Probe(ok) ==
    /\ proc # "down" /\ wpc = "probe"
    /\ Untried # {} /\ ~GivesUp
    /\ Cost(ok)
    /\ LET i == Min(Untried)
       IN  \E x \in PushPaths({batch[i]}) :
             /\ Accepted(x[1])
             /\ roots' = roots \cup x[1]
             /\ RemovePaths(Settled({batch[i]}, x[2]), x[3], ok)
             /\ settled' = settled \cup Settled({batch[i]}, x[2])
             /\ next' = i + 1
    /\ UNCHANGED <<store, inflight, acked, proc, wpc, draining, batch, absent, failures,
                   stalled>>

\* ... and goes to the back when that fails too.
ProbeFails(ok) ==
    /\ proc # "down" /\ wpc = "probe"
    /\ Untried # {} /\ ~GivesUp
    /\ LET i == Min(Untried)
       IN  /\ PushFails({batch[i]}, ok)
           /\ Retry(batch[i], ok)
           /\ next' = i + 1
    /\ failures' = failures + 1
    /\ UNCHANGED <<store, inflight, acked, proc, wpc, draining, batch, absent, settled,
                   stalled, dropped>>

ProbesEnd ==
    /\ proc # "down" /\ wpc = "probe"
    /\ Untried = {} \/ GivesUp
    /\ AfterStep(settled # {})
    /\ UNCHANGED <<queue, store, roots, inflight, acked, proc, faults, dropped>>

-----------------------------------------------------------------------------
(***************************************************************************)
(* The process.                                                            *)
(***************************************************************************)

\* A signal, or the idle timer on an empty queue: the listener closes, the
\* handlers at work finish, and the worker drains meanwhile.
Stop ==
    /\ proc = "up"
    /\ Cost(queue = <<>>)
    /\ proc' = "stopping"
    /\ UNCHANGED <<queue, store, roots, inflight, acked, workerVars, dropped>>

\* DrainTimeout is over between two batches.
DrainTimeout ==
    /\ draining /\ wpc = "fetch"
    /\ Cost(FALSE)
    /\ wpc' = "done"
    /\ UNCHANGED <<queue, store, roots, inflight, acked, proc, draining, batch, absent,
                   next, settled, failures, stalled, dropped>>

\* Serve returned and the worker is done.
DaemonExit ==
    /\ proc = "stopping" /\ wpc = "done" /\ inflight = {}
    /\ proc' = "down"
    /\ Idle
    /\ UNCHANGED <<queue, store, roots, inflight, acked, faults, dropped>>

\* SIGKILL or a power cut. Only the queue file is left.
Kill ==
    /\ proc # "down"
    /\ Cost(FALSE)
    /\ proc' = "down"
    /\ inflight' = {}
    /\ Idle
    /\ UNCHANGED <<queue, store, roots, acked, dropped>>

Start ==
    /\ proc = "down"
    /\ proc' = "up"
    /\ UNCHANGED <<queue, store, roots, inflight, acked, workerVars, faults, dropped>>

Work(ok) ==
    \/ Prune(ok) \/ PushBatch(ok) \/ PushBatchFails(ok) \/ Probe(ok) \/ ProbeFails(ok)

Worker ==
    \/ Wake \/ StartDrain \/ Fetch \/ ProbesEnd
    \/ \E ok \in BOOLEAN : Work(ok)

HookNext ==
    \/ \E p \in Paths : Build(p) \/ Collect(p)
    \/ \E P \in inflight, ok \in BOOLEAN : Enqueue(P, ok)
    \/ Worker
    \/ Stop \/ DrainTimeout \/ DaemonExit \/ Kill \/ Start

HookSpec == HookInit /\ [][HookNext]_hookVars

\* The service manager restarts the daemon, handlers and worker run.
HookFairness ==
    /\ WF_hookVars(Worker) /\ WF_hookVars(DaemonExit) /\ WF_hookVars(Start)
    /\ WF_hookVars(\E P \in inflight, ok \in BOOLEAN : Enqueue(P, ok))

HookFairSpec == HookSpec /\ HookFairness

-----------------------------------------------------------------------------

\* A path whose sender was told "ok" stays queued until the cache has it,
\* through batches that fail in part, pruned closures, retries, shutdowns and
\* kills; unless the worker removed it as gone from the store, or with a
\* closure that was skipped for its size.
NothingLost == acked \subseteq Queued \cup Cached \cup dropped

\* Paths the server would take.
Pushable == {p \in Paths : ClosureOf[p] \cap Oversized = {}}

\* Paths that cannot be pushed do not hold up the others: each leaves the
\* queue, because failed paths go to the back.
QueueMovesOn ==
    \A p \in Pushable : (p \in Queued /\ ClosureOf[p] \cap Broken = {}) ~> (p \notin Queued)
=============================================================================
