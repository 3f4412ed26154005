------------------------------- MODULE GCRuns -------------------------------
(***************************************************************************)
(* Starting and following collections (server/gc_tasks.go, closure.go and  *)
(* client/gc.go). Every replica remembers its most recent task; an         *)
(* advisory lock on a connection of its own keeps two replicas from        *)
(* collecting at once; clients start a run at one replica and poll any.    *)
(* What a run does while it holds the lock is PushGC's matter.             *)
(***************************************************************************)
EXTENDS Naturals, FiniteSets

CONSTANTS
    Replicas,
    Clients,
    Params,      \* ages and force flag of a request
    MaxRuns,     \* bound on the runs started
    MaxLosses,   \* bound on lock connections that die under a run
    MaxRestarts  \* bound on the ends of a replica's process, killed or asked to stop

ASSUME BoundsAssumption ==
    MaxRuns \in Nat /\ MaxLosses \in Nat /\ MaxRestarts \in Nat

NoRun == 0
Runs  == 1..MaxRuns

VARIABLES
    task,      \* the run a replica remembers (GCTaskStore.task)
    stage,     \* how far the goroutine of a run has come
    state,     \* the state its task reports
    params,    \* the parameters it was started with
    where,     \* the replica it runs on
    lock,      \* the run whose connection holds the advisory lock
    client,    \* what a client is doing, or whether its command succeeded
    mine,      \* the run that a polling client started or was attached to; history:
               \* kept when the replica of that run reports a success
    other,     \* the client's lastPhase is GCTaskPhaseOtherReplica
    lost,      \* runs whose lock connection died
    restarts,
    up         \* how far a replica is with shutting down

runVars    == <<stage, state, params, where>>
clientVars == <<client, mine, other>>
vars       == <<task, runVars, lock, clientVars, lost, restarts, up>>

Stages  == {"unused", "starting", "working", "ended", "released", "dead"}
States  == {"unused", "running", "succeeded", "failed"}
Ups     == {"up", "draining", "closing"}
Answers == {"idle", "polling", "ok", "failed"}

TypeOK ==
    /\ task \in [Replicas -> Runs \cup {NoRun}]
    /\ stage \in [Runs -> Stages]
    /\ state \in [Runs -> States]
    /\ \A i \in Runs :
          /\ stage[i] # "unused" => params[i] \in Params /\ where[i] \in Replicas
          /\ stage[i] \in {"starting", "working"} => state[i] = "running"
          /\ stage[i] \in {"ended", "released"} => state[i] \in {"succeeded", "failed"}
    /\ lock \in Runs \cup {NoRun}
    /\ client \in [Clients -> Answers]
    /\ mine \in [Clients -> Runs \cup {NoRun}]
    /\ other \in [Clients -> BOOLEAN]
    /\ lost \subseteq Runs /\ Cardinality(lost) <= MaxLosses
    /\ restarts \in 0..MaxRestarts
    /\ up \in [Replicas -> Ups]

Init ==
    /\ task = [r \in Replicas |-> NoRun]
    /\ stage = [i \in Runs |-> "unused"]
    /\ state = [i \in Runs |-> "unused"]
    /\ params = [i \in Runs |-> "none"]
    /\ where = [i \in Runs |-> "none"]
    /\ lock = NoRun
    /\ client = [c \in Clients |-> "idle"]
    /\ mine = [c \in Clients |-> NoRun]
    /\ other = [c \in Clients |-> FALSE]
    /\ lost = {} /\ restarts = 0
    /\ up = [r \in Replicas |-> "up"]

-----------------------------------------------------------------------------
(***************************************************************************)
(* Requests.                                                               *)
(***************************************************************************)

\* Mutant: a new request replaces the task that is still running.
CreatesAlways(r) == TRUE

\* GCTaskStore.Start creates a task unless the remembered one still runs.
Creates(r) == task[r] = NoRun \/ state[task[r]] # "running"

\* A replica answers until its servers are drained: new connections are
\* refused once it shuts down, requests in flight are still handled.
Answering(r) == up[r] # "closing"

\* CleanupClosuresOlder starts a run, attaches to the active one with the
\* same parameters, or reports a conflict. The client may not hear of it and
\* send the request again.
StartGC(c, r, q, heard) ==
    /\ client[c] = "idle" /\ Answering(r)
    /\ IF Creates(r)
       THEN \E i \in Runs :
              /\ stage[i] = "unused" /\ \A j \in 1..(i - 1) : stage[j] # "unused"
              /\ task' = [task EXCEPT ![r] = i]
              /\ stage' = [stage EXCEPT ![i] = "starting"]
              /\ state' = [state EXCEPT ![i] = "running"]
              /\ params' = [params EXCEPT ![i] = q]
              /\ where' = [where EXCEPT ![i] = r]
       ELSE UNCHANGED <<task, runVars>>
    /\ IF ~heard
       THEN UNCHANGED <<client, mine>>
       ELSE IF ~Creates(r) /\ params[task[r]] # q
       THEN client' = [client EXCEPT ![c] = "failed"] /\ UNCHANGED mine
       ELSE /\ client' = [client EXCEPT ![c] = "polling"]
            /\ mine' = [mine EXCEPT ![c] = task'[r]]
    /\ UNCHANGED <<lock, other, lost, restarts, up>>

\* What GCStatusHandler answers: the task it remembers, whatever has become
\* of it; without one, whether anyone holds the lock.
Status(r) ==
    IF task[r] # NoRun THEN state[task[r]]
    ELSE IF lock # NoRun THEN "other" ELSE "none"

\* RunGarbageCollection polls while the answer is running. A 404 is taken
\* for the end of a run that another replica reported before.
Poll(c, r) ==
    /\ client[c] = "polling" /\ Answering(r)
    /\ client' = [client EXCEPT ![c] =
          CASE Status(r) \in {"running", "other"} -> "polling"
            [] Status(r) = "succeeded"            -> "ok"
            [] Status(r) = "failed"               -> "failed"
            [] Status(r) = "none"                 -> IF other[c] THEN "ok" ELSE "failed"]
    /\ other' = [other EXCEPT ![c] = Status(r) = "other"]
    /\ mine' = [mine EXCEPT ![c] =
          IF client'[c] = "polling" \/ (Status(r) = "succeeded" /\ where[@] = r) THEN @ ELSE NoRun]
    /\ UNCHANGED <<task, runVars, lock, lost, restarts, up>>

\* The status request fails, its retries included.
PollFails(c) ==
    /\ client[c] = "polling"
    /\ client' = [client EXCEPT ![c] = "failed"]
    /\ mine' = [mine EXCEPT ![c] = NoRun]
    /\ other' = [other EXCEPT ![c] = FALSE]
    /\ UNCHANGED <<task, runVars, lock, lost, restarts, up>>

-----------------------------------------------------------------------------
(***************************************************************************)
(* runGarbageCollection.                                                   *)
(***************************************************************************)

\* Mutant: the answer of pg_try_advisory_lock is not looked at.
AcquireUnchecked(i) ==
    /\ stage[i] = "starting"
    /\ lock' = i
    /\ stage' = [stage EXCEPT ![i] = "working"]
    /\ UNCHANGED <<task, state, params, where, clientVars, lost, restarts, up>>

\* acquireGCLock: pg_try_advisory_lock does not wait. The context of a
\* replica that shuts down is cancelled.
Acquire(i) ==
    /\ stage[i] = "starting" /\ up[where[i]] = "up"
    /\ IF lock = NoRun
       THEN /\ lock' = i
            /\ stage' = [stage EXCEPT ![i] = "working"]
            /\ UNCHANGED state
       ELSE /\ stage' = [stage EXCEPT ![i] = "released"]
            /\ state' = [state EXCEPT ![i] = "failed"]
            /\ UNCHANGED lock
    /\ UNCHANGED <<task, params, where, clientVars, lost, restarts, up>>

\* No connection, the query fails or the replica shuts down.
AcquireFails(i) ==
    /\ stage[i] = "starting"
    /\ stage' = [stage EXCEPT ![i] = "released"]
    /\ state' = [state EXCEPT ![i] = "failed"]
    /\ UNCHANGED <<task, params, where, lock, clientVars, lost, restarts, up>>

\* The last phase is through, or one failed. The task is updated first ...
Finish(i) ==
    /\ stage[i] = "working"
    /\ stage' = [stage EXCEPT ![i] = "ended"]
    /\ \E s \in {"succeeded", "failed"} : state' = [state EXCEPT ![i] = s]
    /\ UNCHANGED <<task, params, where, lock, clientVars, lost, restarts, up>>

\* Mutant: the run's context is the background context.
CancelledNever(i) == FALSE /\ UNCHANGED vars

\* The run's context is cancelled: whatever it waits for, an S3 request or a
\* row lock, returns an error.
Cancelled(i) ==
    /\ stage[i] = "working" /\ up[where[i]] # "up"
    /\ stage' = [stage EXCEPT ![i] = "ended"]
    /\ state' = [state EXCEPT ![i] = "failed"]
    /\ UNCHANGED <<task, params, where, lock, clientVars, lost, restarts, up>>

\* Mutant: the connection is returned to the pool without unlocking.
ReleaseKeepsLock(i) ==
    /\ stage[i] = "ended"
    /\ stage' = [stage EXCEPT ![i] = "released"]
    /\ UNCHANGED <<task, lock, state, params, where, clientVars, lost, restarts, up>>

\* ... and the deferred release unlocks after that.
Release(i) ==
    /\ stage[i] = "ended"
    /\ stage' = [stage EXCEPT ![i] = "released"]
    /\ lock' = IF lock = i THEN NoRun ELSE lock
    /\ UNCHANGED <<task, state, params, where, clientVars, lost, restarts, up>>

\* The lock connection, idle while the phases use others, dies. Nothing
\* tells the run.
LoseLock ==
    /\ lock # NoRun /\ stage[lock] = "working"
    /\ Cardinality(lost) < MaxLosses
    /\ lost' = lost \cup {lock}
    /\ lock' = NoRun
    /\ UNCHANGED <<task, runVars, clientVars, restarts, up>>

\* A replica's process ends, with its runs and its memory of them, and a new
\* one takes its place.
Reborn(r) ==
    /\ task' = [task EXCEPT ![r] = NoRun]
    /\ stage' = [i \in Runs |->
                   IF where[i] = r /\ stage[i] \in {"starting", "working", "ended"}
                   THEN "dead" ELSE stage[i]]
    /\ up' = [up EXCEPT ![r] = "up"]
    /\ UNCHANGED <<state, params, where, lock, clientVars, lost>>

\* The process is killed.
Restart(r) ==
    /\ restarts < MaxRestarts
    /\ restarts' = restarts + 1
    /\ Reborn(r)

\* SIGTERM: serve stops waiting and drain begins; Server.Shutdown closes the
\* listeners and calls stopStreams.
Shutdown(r) ==
    /\ up[r] = "up" /\ restarts < MaxRestarts
    /\ restarts' = restarts + 1
    /\ up' = [up EXCEPT ![r] = "draining"]
    /\ UNCHANGED <<task, runVars, lock, clientVars, lost>>

\* The requests are through, or shutdownTimeout closed their connections.
Drained(r) ==
    /\ up[r] = "draining"
    /\ up' = [up EXCEPT ![r] = "closing"]
    /\ UNCHANGED <<task, runVars, lock, clientVars, lost, restarts>>

\* runServer returns once the deferred pool.Close has every connection back,
\* the one that holds the advisory lock included.
Exit(r) ==
    /\ up[r] = "closing"
    /\ \A i \in Runs : where[i] = r => stage[i] \notin {"working", "ended"}
    /\ Reborn(r) /\ UNCHANGED restarts

\* PostgreSQL notices that the connection of a dead run is gone.
LockExpires ==
    /\ lock # NoRun /\ stage[lock] = "dead"
    /\ lock' = NoRun
    /\ UNCHANGED <<task, runVars, clientVars, lost, restarts, up>>

RunStep(i) == Acquire(i) \/ AcquireFails(i) \/ Finish(i) \/ Cancelled(i) \/ Release(i)

Next ==
    \/ \E c \in Clients, r \in Replicas, q \in Params, heard \in BOOLEAN : StartGC(c, r, q, heard)
    \/ \E c \in Clients, r \in Replicas : Poll(c, r)
    \/ \E c \in Clients : PollFails(c)
    \/ \E i \in Runs : RunStep(i)
    \/ LoseLock
    \/ \E r \in Replicas : Restart(r) \/ Shutdown(r) \/ Drained(r) \/ Exit(r)
    \/ LockExpires

Spec == Init /\ [][Next]_vars

\* A run acquires, notices its cancelled context and releases; a phase need
\* not end. PostgreSQL notices dead connections, clients poll until they have
\* an answer, drain has a timeout.
Fairness ==
    /\ \A i \in Runs : WF_vars(Acquire(i) \/ AcquireFails(i) \/ Cancelled(i) \/ Release(i))
    /\ \A r \in Replicas : WF_vars(Drained(r) \/ Exit(r))
    /\ WF_vars(LockExpires)
    /\ \A c \in Clients : WF_vars(\E r \in Replicas : Poll(c, r))

FairSpec == Spec /\ Fairness

-----------------------------------------------------------------------------

\* Two collections never work at the same time, on whatever replicas they
\* were started, unless one has lost its lock connection: the premise
\* PushGC's sweep rests on.
OneCollection ==
    \A i, j \in Runs \ lost : stage[i] = "working" /\ stage[j] = "working" => i = j

\* When the replica that runs it tells a client that the collection
\* succeeded, the run the client started or was attached to is over: through
\* attached requests, later runs that replace the task, conflicts and
\* restarts. Other replicas may report a run of their own.
SuccessMeansOver ==
    \A c \in Clients : client[c] = "ok" /\ mine[c] # NoRun =>
        stage[mine[c]] \notin {"starting", "working"}

\* A client does not poll for ever: the lock is given back, so a replica
\* that knows no run stops reporting one. For this the phases must end.
ClientsReturn ==
    (\A i \in Runs : WF_vars(Finish(i))) => \A c \in Clients : (client[c] = "polling") ~> (client[c] # "polling")

\* A replica that was asked to stop does, also with a run that waits for S3 or
\* for a row lock and would wait for ever: the run gives its connection back,
\* which pool.Close waits for.
ShutdownEnds ==
    \A r \in Replicas : (up[r] = "draining") ~> (up[r] = "up")
=============================================================================
