----------------------------- MODULE TaskProofs -----------------------------
(***************************************************************************)
(* Proofs about the work that outlives the request that asked for it: that *)
(* the advisory lock and the remembered tasks of the server's collections  *)
(* do what they are for, for any number of replicas, clients, runs, lost   *)
(* lock connections and restarts (GCRuns), and that the hook's queue loses *)
(* nothing it acknowledged, for any paths, closures, limits, batch size and *)
(* faults (HookQueue).                                                     *)
(***************************************************************************)
EXTENDS GCRuns, HookQueue, FiniteSetTheorems, WellFoundedInduction, TLAPS

(***************************************************************************)
(* The tasks of garbage collections (GCRuns).                              *)
(***************************************************************************)


\* The records of runs, and that a run that was started has a state, also
\* when its replica died.
RunsTyped ==
    /\ params \in [Runs -> Params \cup {"none"}]
    /\ where \in [Runs -> Replicas \cup {"none"}]
    /\ \A i \in Runs : stage[i] # "unused" => state[i] # "unused"

\* From pg_try_advisory_lock to the deferred unlock a run has the lock,
\* unless its connection died.
WorkersHold ==
    \A i \in Runs \ lost : stage[i] \in {"working", "ended"} => lock = i

\* A run that is not over is the one its replica remembers: Start does not
\* replace a task that is still running.
ActiveIsRemembered ==
    \A i \in Runs : stage[i] \in {"starting", "working"} => task[where[i]] = i

\* What replicas remember and clients follow are runs that were started.
TasksStarted ==
    /\ \A r \in Replicas : task[r] # NoRun => stage[task[r]] # "unused"
    /\ \A c \in Clients : mine[c] # NoRun => stage[mine[c]] # "unused"

Inv ==
    /\ TypeOK
    /\ RunsTyped
    /\ WorkersHold
    /\ ActiveIsRemembered
    /\ TasksStarted
    /\ SuccessMeansOver

\* What a step that starts no run does to runs.
Onward ==
    \A i \in Runs : stage'[i] # stage[i] =>
        \/ stage[i] \in {"starting", "working"} /\ stage'[i] # "unused"
        \/ stage[i] = "ended" /\ stage'[i] \in {"released", "dead"}

-----------------------------------------------------------------------------

\* No run, no lock, no task.
LEMMA InitInv == Init => Inv
<1> SUFFICES ASSUME Init PROVE Inv
  OBVIOUS
<1> USE DEF Init, NoRun, Runs
<1>1. TypeOK
  BY BoundsAssumption, FS_EmptySet DEF TypeOK, Stages, States, Answers, Ups
<1>2. RunsTyped /\ WorkersHold /\ ActiveIsRemembered
  BY DEF RunsTyped, WorkersHold, ActiveIsRemembered
<1>3. TasksStarted /\ SuccessMeansOver
  BY DEF TasksStarted, SuccessMeansOver
<1> QED BY <1>1, <1>2, <1>3 DEF Inv

\* CleanupClosuresOlder: whether it starts a run, attaches to one or reports
\* a conflict.
LEMMA StartKeepsInv ==
    ASSUME Inv, NEW c \in Clients, NEW r \in Replicas, NEW q \in Params, NEW heard \in BOOLEAN,
           StartGC(c, r, q, heard)
    PROVE  Inv'
<1> USE DEF Inv
<1>0. task'[r] \in Runs /\ task' \in [Replicas -> Runs \cup {NoRun}] /\ stage'[task'[r]] # "unused"
  <2>1. CASE Creates(r) BY <2>1 DEF StartGC, TypeOK
  <2>2. CASE ~Creates(r) BY <2>2 DEF StartGC, Creates, TypeOK, runVars, TasksStarted
  <2> QED BY <2>1, <2>2
<1>1. TypeOK'
  <2>1. client' \in [Clients -> Answers] /\ mine' \in [Clients -> Runs \cup {NoRun}]
    BY <1>0 DEF StartGC, TypeOK, Answers
  <2>2. CASE Creates(r)
    <3>1. PICK i \in Runs :
            /\ stage[i] = "unused"
            /\ stage' = [stage EXCEPT ![i] = "starting"]
            /\ state' = [state EXCEPT ![i] = "running"]
            /\ params' = [params EXCEPT ![i] = q]
            /\ where' = [where EXCEPT ![i] = r]
      BY <2>2 DEF StartGC
    <3>2. stage' \in [Runs -> Stages] /\ state' \in [Runs -> States]
      BY <3>1 DEF TypeOK, Stages, States
    <3>3. \A j \in Runs :
            /\ stage'[j] # "unused" => params'[j] \in Params /\ where'[j] \in Replicas
            /\ stage'[j] \in {"starting", "working"} => state'[j] = "running"
            /\ stage'[j] \in {"ended", "released"} => state'[j] \in {"succeeded", "failed"}
      BY <3>1 DEF TypeOK, RunsTyped
    <3> QED BY <1>0, <2>1, <3>2, <3>3 DEF StartGC, TypeOK
  <2>3. CASE ~Creates(r)
    BY <2>1, <2>3 DEF StartGC, TypeOK, runVars
  <2> QED BY <2>2, <2>3
<1>2. RunsTyped'
  BY DEF StartGC, RunsTyped, TypeOK, runVars
<1>3. WorkersHold'
  BY DEF StartGC, WorkersHold, TypeOK, runVars
<1>4. ActiveIsRemembered'
  <2>1. CASE Creates(r)
    <3>1. PICK i \in Runs :
            /\ stage[i] = "unused"
            /\ task' = [task EXCEPT ![r] = i]
            /\ stage' = [stage EXCEPT ![i] = "starting"]
            /\ where' = [where EXCEPT ![i] = r]
      BY <2>1 DEF StartGC
    <3>2. ASSUME NEW j \in Runs, stage'[j] \in {"starting", "working"} PROVE task'[where'[j]] = j
      <4>1. CASE j = i BY <3>1, <4>1 DEF RunsTyped, TypeOK
      <4>2. CASE j # i
        <5>1. stage[j] \in {"starting", "working"} /\ where'[j] = where[j] /\ where[j] \in Replicas
          BY <3>1, <3>2, <4>2 DEF RunsTyped, TypeOK
        <5>2. task[where[j]] = j /\ state[j] = "running"
          BY <5>1 DEF ActiveIsRemembered, TypeOK
        <5>3. where[j] # r
          BY <2>1, <5>2 DEF Creates, Runs, NoRun
        <5> QED BY <3>1, <5>1, <5>2, <5>3 DEF TypeOK
      <4> QED BY <4>1, <4>2
    <3> QED BY <3>2 DEF ActiveIsRemembered
  <2>2. CASE ~Creates(r)
    BY <2>2 DEF StartGC, ActiveIsRemembered, runVars
  <2> QED BY <2>1, <2>2
<1>5. TasksStarted'
  BY <1>0 DEF StartGC, TasksStarted, TypeOK, runVars
<1>6. SuccessMeansOver'
  BY DEF StartGC, SuccessMeansOver, TasksStarted, TypeOK, runVars
<1> QED BY <1>1, <1>2, <1>3, <1>4, <1>5, <1>6

\* A poll: a client that is told of a success by the replica of its run is
\* told of that run or of a later one, and Start replaces only tasks that are
\* over.
LEMMA PollKeepsInv ==
    ASSUME Inv, NEW c \in Clients, NEW r \in Replicas, Poll(c, r)
    PROVE  Inv'
<1> USE DEF Inv
<1> DEFINE s == Status(r)
<1>0. s \in {"running", "other", "succeeded", "failed", "none"}
  BY DEF Status, TypeOK, States, TasksStarted, RunsTyped, Runs, NoRun
<1>1. client' = [client EXCEPT ![c] = client'[c]] /\ client'[c] \in Answers
  BY <1>0 DEF Poll, TypeOK, Answers
<1>2. mine' = [mine EXCEPT ![c] = mine'[c]] /\ mine'[c] \in {mine[c], NoRun}
  BY DEF Poll, TypeOK
<1>3. other' \in [Clients -> BOOLEAN]
  BY DEF Poll, TypeOK
<1>4. TypeOK'
  BY <1>1, <1>2, <1>3 DEF Poll, TypeOK, runVars
<1>5. RunsTyped' /\ WorkersHold' /\ ActiveIsRemembered'
  BY DEF Poll, RunsTyped, WorkersHold, ActiveIsRemembered, runVars
<1>6. TasksStarted'
  BY <1>1, <1>2 DEF Poll, TasksStarted, TypeOK, runVars
<1>7. SuccessMeansOver'
  <2>1. ASSUME client'[c] = "ok", mine'[c] # NoRun
        PROVE  stage[mine[c]] \notin {"starting", "working"}
    <3>1. s = "succeeded" /\ where[mine[c]] = r /\ mine[c] \in Runs
      BY <1>0, <2>1 DEF Poll, TypeOK
    <3>2. task[r] # NoRun /\ state[task[r]] = "succeeded"
      BY <3>1 DEF Status
    <3> QED BY <3>1, <3>2 DEF ActiveIsRemembered, TypeOK
  <2>2. ASSUME NEW d \in Clients, client'[d] = "ok", mine'[d] # NoRun
        PROVE  stage'[mine'[d]] \notin {"starting", "working"}
    <3>1. CASE d = c BY <1>2, <2>1, <2>2, <3>1 DEF Poll, runVars, TypeOK
    <3>2. CASE d # c BY <1>1, <1>2, <2>2, <3>2 DEF Poll, runVars, TypeOK, SuccessMeansOver
    <3> QED BY <3>1, <3>2
  <2> QED BY <2>2 DEF SuccessMeansOver
<1> QED BY <1>4, <1>5, <1>6, <1>7

\* The steps of runs, of replicas and of PostgreSQL leave the clients alone
\* and start no run.
LEMMA OnwardKeepsClients ==
    ASSUME Inv, Onward, UNCHANGED <<client, mine>>,
           \A r \in Replicas : task'[r] \in {task[r], NoRun},
           stage' \in [Runs -> Stages]
    PROVE  TasksStarted' /\ SuccessMeansOver'
<1> USE DEF Inv, Onward, TypeOK
<1>1. \A i \in Runs : stage[i] # "unused" => stage'[i] # "unused"
  OBVIOUS
<1>2. ASSUME NEW r \in Replicas, task'[r] # NoRun PROVE stage'[task'[r]] # "unused"
  <2>1. task'[r] = task[r] /\ task[r] \in Runs
    BY <1>2
  <2> QED BY <1>1, <1>2, <2>1 DEF TasksStarted
<1>3. ASSUME NEW c \in Clients, mine'[c] # NoRun PROVE stage'[mine'[c]] # "unused"
  BY <1>1, <1>3 DEF TasksStarted
<1>4. ASSUME NEW c \in Clients, client'[c] = "ok", mine'[c] # NoRun
      PROVE  stage'[mine'[c]] \notin {"starting", "working"}
  <2>1. mine'[c] = mine[c] /\ mine[c] \in Runs /\ stage[mine[c]] \notin {"starting", "working"}
    BY <1>4 DEF SuccessMeansOver
  <2> QED BY <2>1
<1> QED BY <1>2, <1>3, <1>4 DEF TasksStarted, SuccessMeansOver

\* One step of runGarbageCollection: the lock is taken only when nobody has
\* it, and given back after the task has been updated.
LEMMA RunKeepsInv ==
    ASSUME Inv, NEW i \in Runs, RunStep(i)
    PROVE  Inv'
<1> USE DEF Inv, clientVars
<1>1. CASE Acquire(i)
  <2>1. TypeOK'
    <3>1. CASE lock = NoRun BY <1>1, <3>1 DEF Acquire, TypeOK, Stages
    <3>2. CASE lock # NoRun BY <1>1, <3>2 DEF Acquire, TypeOK, Stages, States
    <3> QED BY <3>1, <3>2
  <2>2. RunsTyped' BY <1>1 DEF Acquire, RunsTyped, TypeOK
  <2>3. WorkersHold'
    <3>1. CASE lock = NoRun
      <4>1. \A j \in Runs \ lost : stage[j] \notin {"working", "ended"}
        BY <3>1 DEF WorkersHold, Runs, NoRun
      <4> QED BY <1>1, <3>1, <4>1 DEF Acquire, WorkersHold, TypeOK
    <3>2. CASE lock # NoRun
      BY <1>1, <3>2 DEF Acquire, WorkersHold, TypeOK
    <3> QED BY <3>1, <3>2
  <2>4. ActiveIsRemembered' BY <1>1 DEF Acquire, ActiveIsRemembered, TypeOK
  <2>5. TasksStarted' /\ SuccessMeansOver'
    BY <1>1, <2>1, OnwardKeepsClients DEF Acquire, Onward, TypeOK
  <2> QED BY <2>1, <2>2, <2>3, <2>4, <2>5
<1>2. CASE AcquireFails(i)
  <2>1. TypeOK' BY <1>2 DEF AcquireFails, TypeOK, Stages, States
  <2>2. RunsTyped' BY <1>2 DEF AcquireFails, RunsTyped, TypeOK
  <2>3. WorkersHold' BY <1>2 DEF AcquireFails, WorkersHold, TypeOK
  <2>4. ActiveIsRemembered' BY <1>2 DEF AcquireFails, ActiveIsRemembered, TypeOK
  <2>5. TasksStarted' /\ SuccessMeansOver'
    BY <1>2, <2>1, OnwardKeepsClients DEF AcquireFails, Onward, TypeOK
  <2> QED BY <2>1, <2>2, <2>3, <2>4, <2>5
<1>3. CASE Finish(i)
  <2>1. TypeOK' BY <1>3 DEF Finish, TypeOK, Stages, States
  <2>2. RunsTyped' BY <1>3 DEF Finish, RunsTyped, TypeOK
  <2>3. WorkersHold' BY <1>3 DEF Finish, WorkersHold, TypeOK
  <2>4. ActiveIsRemembered' BY <1>3 DEF Finish, ActiveIsRemembered, TypeOK
  <2>5. TasksStarted' /\ SuccessMeansOver'
    BY <1>3, <2>1, OnwardKeepsClients DEF Finish, Onward, TypeOK
  <2> QED BY <2>1, <2>2, <2>3, <2>4, <2>5
<1>4. CASE Cancelled(i)
  <2>1. TypeOK' BY <1>4 DEF Cancelled, TypeOK, Stages, States
  <2>2. RunsTyped' BY <1>4 DEF Cancelled, RunsTyped, TypeOK
  <2>3. WorkersHold' BY <1>4 DEF Cancelled, WorkersHold, TypeOK
  <2>4. ActiveIsRemembered' BY <1>4 DEF Cancelled, ActiveIsRemembered, TypeOK
  <2>5. TasksStarted' /\ SuccessMeansOver'
    BY <1>4, <2>1, OnwardKeepsClients DEF Cancelled, Onward, TypeOK
  <2> QED BY <2>1, <2>2, <2>3, <2>4, <2>5
<1>5. CASE Release(i)
  <2>1. TypeOK' BY <1>5 DEF Release, TypeOK, Stages
  <2>2. RunsTyped' BY <1>5 DEF Release, RunsTyped, TypeOK
  <2>3. WorkersHold' BY <1>5 DEF Release, WorkersHold, TypeOK
  <2>4. ActiveIsRemembered' BY <1>5 DEF Release, ActiveIsRemembered, TypeOK
  <2>5. TasksStarted' /\ SuccessMeansOver'
    BY <1>5, <2>1, OnwardKeepsClients DEF Release, Onward, TypeOK
  <2> QED BY <2>1, <2>2, <2>3, <2>4, <2>5
<1> QED BY <1>1, <1>2, <1>3, <1>4, <1>5 DEF RunStep

\* The end of a replica's process takes its runs and its memory with it.
LEMMA RebornKeepsInv ==
    ASSUME Inv, NEW r \in Replicas, Reborn(r), restarts' \in 0..MaxRestarts
    PROVE  Inv'
<1> USE DEF Inv, Reborn, clientVars
<1>1. TypeOK' BY DEF TypeOK, Stages, Ups
<1>2. RunsTyped' BY DEF RunsTyped, TypeOK
<1>3. WorkersHold' BY DEF WorkersHold, TypeOK
<1>4. ActiveIsRemembered' BY DEF ActiveIsRemembered, TypeOK
<1>5. TasksStarted' /\ SuccessMeansOver'
  BY <1>1, OnwardKeepsClients DEF Onward, TypeOK
<1> QED BY <1>1, <1>2, <1>3, <1>4, <1>5

\* A lock connection that dies makes its run a lost one; the bound on such
\* losses is kept.
LEMMA LoseLockKeepsInv == Inv /\ LoseLock => Inv'
<1> SUFFICES ASSUME Inv, LoseLock PROVE Inv'
  OBVIOUS
<1> USE DEF Inv, LoseLock, runVars, clientVars
<1>1. IsFiniteSet(lost)
  <2>1. IsFiniteSet(1..MaxRuns) BY FS_Interval, BoundsAssumption
  <2>2. lost \in SUBSET (1..MaxRuns) BY DEF TypeOK, Runs
  <2> QED BY <2>1, <2>2, FS_Subset
<1>2. lock \in Runs BY DEF TypeOK
<1>3. Cardinality(lost') <= MaxLosses
  <2>1. Cardinality(lost) \in Nat BY <1>1, FS_CardinalityType
  <2>2. Cardinality(lost \cup {lock}) <= Cardinality(lost) + 1
    BY <1>1, <2>1, FS_AddElement
  <2>3. Cardinality(lost \cup {lock}) \in Nat BY <1>1, FS_AddElement, FS_CardinalityType
  <2> QED BY <2>1, <2>2, <2>3, BoundsAssumption
<1>4. TypeOK' BY <1>2, <1>3 DEF TypeOK
<1>5. RunsTyped' BY DEF RunsTyped
<1>6. WorkersHold' BY DEF WorkersHold
<1>7. ActiveIsRemembered' /\ TasksStarted' /\ SuccessMeansOver'
  BY DEF ActiveIsRemembered, TasksStarted, SuccessMeansOver
<1> QED BY <1>4, <1>5, <1>6, <1>7

\* Every step of clients, runs, replicas and PostgreSQL keeps the invariant.
LEMMA NextInv == Inv /\ [Next]_vars => Inv'
<1> SUFFICES ASSUME Inv, [Next]_vars PROVE Inv'
  OBVIOUS
<1> USE DEF Inv, runVars, clientVars
<1>1. ASSUME NEW c \in Clients, NEW r \in Replicas, NEW q \in Params, NEW heard \in BOOLEAN,
             StartGC(c, r, q, heard)
      PROVE  Inv'
  BY <1>1, StartKeepsInv
<1>2. ASSUME NEW c \in Clients, NEW r \in Replicas, Poll(c, r) PROVE Inv'
  BY <1>2, PollKeepsInv
<1>3. ASSUME NEW c \in Clients, PollFails(c) PROVE Inv'
  <2>1. TypeOK' BY <1>3 DEF PollFails, TypeOK, Answers
  <2>2. RunsTyped' /\ WorkersHold' /\ ActiveIsRemembered'
    BY <1>3 DEF PollFails, RunsTyped, WorkersHold, ActiveIsRemembered
  <2>3. TasksStarted' /\ SuccessMeansOver'
    BY <1>3 DEF PollFails, TasksStarted, SuccessMeansOver, TypeOK
  <2> QED BY <2>1, <2>2, <2>3
<1>4. ASSUME NEW i \in Runs, RunStep(i) PROVE Inv'
  BY <1>4, RunKeepsInv
<1>5. CASE LoseLock
  BY <1>5, LoseLockKeepsInv
<1>6. ASSUME NEW r \in Replicas, Restart(r) PROVE Inv'
  <2>1. restarts' \in 0..MaxRestarts
    BY <1>6, BoundsAssumption DEF Restart, TypeOK
  <2> QED BY <1>6, <2>1, RebornKeepsInv DEF Restart
<1>7. ASSUME NEW r \in Replicas, Shutdown(r) PROVE Inv'
  <2>1. TypeOK' BY <1>7, BoundsAssumption DEF Shutdown, TypeOK, Ups
  <2>2. RunsTyped' /\ WorkersHold' /\ ActiveIsRemembered' /\ TasksStarted' /\ SuccessMeansOver'
    BY <1>7 DEF Shutdown, RunsTyped, WorkersHold, ActiveIsRemembered, TasksStarted, SuccessMeansOver
  <2> QED BY <2>1, <2>2
<1>8. ASSUME NEW r \in Replicas, Drained(r) PROVE Inv'
  <2>1. TypeOK' BY <1>8 DEF Drained, TypeOK, Ups
  <2>2. RunsTyped' /\ WorkersHold' /\ ActiveIsRemembered' /\ TasksStarted' /\ SuccessMeansOver'
    BY <1>8 DEF Drained, RunsTyped, WorkersHold, ActiveIsRemembered, TasksStarted, SuccessMeansOver
  <2> QED BY <2>1, <2>2
<1>9. ASSUME NEW r \in Replicas, Exit(r) PROVE Inv'
  BY <1>9, RebornKeepsInv DEF Exit, TypeOK
<1>10. CASE LockExpires
  <2>1. TypeOK' BY <1>10 DEF LockExpires, TypeOK
  <2>2. WorkersHold' BY <1>10 DEF LockExpires, WorkersHold, TypeOK
  <2>3. RunsTyped' /\ ActiveIsRemembered' /\ TasksStarted' /\ SuccessMeansOver'
    BY <1>10 DEF LockExpires, RunsTyped, ActiveIsRemembered, TasksStarted, SuccessMeansOver
  <2> QED BY <2>1, <2>2, <2>3
<1>11. CASE UNCHANGED vars
  BY <1>11 DEF vars, TypeOK, RunsTyped, WorkersHold, ActiveIsRemembered, TasksStarted, SuccessMeansOver
<1> QED
  BY <1>1, <1>2, <1>3, <1>4, <1>5, <1>6, <1>7, <1>8, <1>9, <1>10, <1>11 DEF Next

-----------------------------------------------------------------------------

\* The invariant holds whatever clients, replicas and connections do.
THEOREM GCRunsInvariant == Spec => []Inv
BY InitInv, NextInv, PTL DEF Spec

\* Two collections work at once only if one of them has lost its lock
\* connection, on any number of replicas.
THEOREM OneCollectionAlways == Spec => []OneCollection
<1>1. Inv => OneCollection BY DEF Inv, WorkersHold, OneCollection
<1> QED BY <1>1, GCRunsInvariant, PTL

\* A client that the replica of its run tells of a success has a run that is
\* over.
THEOREM SuccessMeansOverAlways == Spec => []SuccessMeansOver
<1>1. Inv => SuccessMeansOver BY DEF Inv
<1> QED BY <1>1, GCRunsInvariant, PTL

-----------------------------------------------------------------------------
(***************************************************************************)
(* The queue of the post-build hook (HookQueue).                           *)
(***************************************************************************)

\* The types the argument needs.
HookTyped ==
    /\ queue \in Seq(Paths) /\ batch \in Seq(Paths)
    /\ roots \subseteq Paths /\ next \in Nat \ {0}
    /\ \A P \in inflight : P \subseteq Paths /\ IsFiniteSet(P)

HookInv == HookTyped /\ NothingLost

\* What removing paths leaves, and that fetching keeps to what is queued.
LEMMA AmongKeeps ==
    ASSUME NEW S, NEW s \in Seq(S), NEW T
    PROVE  Among(s, T) \in Seq(S) /\ ToSet(Among(s, T)) = ToSet(s) \cap T
<1> DEFINE kept == {i \in DOMAIN s : s[i] \in T}
           below(i) == {k \in kept : k < i}
           c == Cardinality(kept)
           rank == [i \in kept |-> Cardinality(below(i)) + 1]
<1>1. DOMAIN s = 1..Len(s) /\ Len(s) \in Nat OBVIOUS
<1>2. IsFiniteSet(kept) /\ c \in Nat /\ kept \subseteq Nat
  <2>1. IsFiniteSet(1..Len(s)) BY <1>1, FS_Interval
  <2>2. kept \subseteq 1..Len(s) BY <1>1
  <2>3. IsFiniteSet(kept) BY <2>1, <2>2, FS_Subset
  <2> QED BY <2>2, <2>3, FS_CardinalityType
<1> HIDE DEF kept
<1>3. \A i \in kept : /\ IsFiniteSet(below(i)) /\ Cardinality(below(i)) \in Nat
                      /\ Cardinality(below(i)) < c
  <2> SUFFICES ASSUME NEW i \in kept
               PROVE  /\ IsFiniteSet(below(i)) /\ Cardinality(below(i)) \in Nat
                      /\ Cardinality(below(i)) < c
    OBVIOUS
  <2>1. below(i) \subseteq kept \ {i} BY <1>2
  <2>2. IsFiniteSet(kept \ {i}) /\ Cardinality(kept \ {i}) = c - 1 BY <1>2, FS_RemoveElement
  <2> HIDE DEF below, c
  <2>3. IsFiniteSet(below(i)) /\ Cardinality(below(i)) <= Cardinality(kept \ {i})
    BY <2>1, <2>2, FS_Subset
  <2>4. Cardinality(below(i)) \in Nat BY <2>3, FS_CardinalityType
  <2> QED BY <1>2, <2>2, <2>3, <2>4
<1>4. \A i, j \in kept : i < j => Cardinality(below(i)) < Cardinality(below(j))
  <2> SUFFICES ASSUME NEW i \in kept, NEW j \in kept, i < j
               PROVE  Cardinality(below(i)) < Cardinality(below(j))
    OBVIOUS
  <2>0. \A k, l, m \in Nat : (k < l /\ l < m => k < m) /\ ~(k < k) OBVIOUS
  <2>1. below(i) \subseteq below(j) \ {i} /\ i \in below(j)
    <3>1. i \in below(j) OBVIOUS
    <3>2. \A k \in below(i) : k \in below(j) /\ k # i BY <1>2, <2>0
    <3> QED BY <3>1, <3>2
  <2>2. IsFiniteSet(below(j)) /\ Cardinality(below(j)) \in Nat /\ Cardinality(below(i)) \in Nat BY <1>3
  <2> HIDE DEF below
  <2>3. IsFiniteSet(below(j) \ {i}) /\ Cardinality(below(j) \ {i}) = Cardinality(below(j)) - 1
    BY <2>1, <2>2, FS_RemoveElement
  <2>4. Cardinality(below(i)) <= Cardinality(below(j) \ {i}) BY <2>1, <2>3, FS_Subset
  <2> QED BY <2>2, <2>3, <2>4
<1>5. \A i, j \in kept : Cardinality(below(i)) = Cardinality(below(j)) => i = j
  <2> HIDE DEF below
  <2>1. \A i, j \in kept : i # j => i < j \/ j < i BY <1>2
  <2>2. \A i \in kept : Cardinality(below(i)) \in Nat BY <1>3
  <2>3. \A m, n \in Nat : m < n => m # n OBVIOUS
  <2> QED BY <1>4, <2>1, <2>2, <2>3
<1>6. rank \in Surjection(kept, 1..c)
  <2> HIDE DEF below, c
  <2>1. \A i \in kept : Cardinality(below(i)) + 1 \in 1..c BY <1>2, <1>3
  <2>2. rank \in [kept -> 1..c] BY <2>1
  <2>3. \A i, j \in kept : rank[i] = rank[j] => i = j
    <3>1. \A m, n \in Nat : m + 1 = n + 1 => m = n OBVIOUS
    <3> QED BY <1>3, <1>5, <3>1
  <2> HIDE DEF rank
  <2>4. rank \in Injection(kept, 1..c) BY <2>2, <2>3 DEF Injection, IsInjective
  <2>5. IsFiniteSet(1..c) /\ Cardinality(1..c) = c BY <1>2, FS_Interval
  <2> QED BY <1>2, <2>4, <2>5, FS_Injection DEF c
<1>7. \A n \in 1..c : \E i \in kept : Cardinality(below(i)) = n - 1
  <2> SUFFICES ASSUME NEW n \in 1..c PROVE \E i \in kept : Cardinality(below(i)) = n - 1 OBVIOUS
  <2>1. PICK i \in kept : rank[i] = n
    <3> HIDE DEF rank
    <3> QED BY <1>6 DEF Surjection
  <2>2. Cardinality(below(i)) + 1 = n /\ Cardinality(below(i)) \in Nat BY <1>3, <2>1
  <2> HIDE DEF below
  <2>3. Cardinality(below(i)) = n - 1 BY <2>2
  <2> QED BY <2>3
<1> DEFINE at(n) == CHOOSE i \in kept : Cardinality(below(i)) = n - 1
<1>8. \A n \in 1..c : at(n) \in kept /\ Cardinality(below(at(n))) = n - 1
  <2> HIDE DEF below
  <2> QED BY <1>7
<1>9. Among(s, T) = [n \in 1..c |-> s[at(n)]] BY DEF Among, kept
<1> HIDE DEF at, below
<1>10. \A i \in kept : s[i] \in S /\ s[i] \in T /\ s[i] \in ToSet(s) BY DEF kept, ToSet
<1>11. \A n \in 1..c : s[at(n)] \in S /\ s[at(n)] \in T /\ s[at(n)] \in ToSet(s) BY <1>8, <1>10
<1> HIDE DEF c
<1>12. Among(s, T) \in Seq(S) BY <1>2, <1>9, <1>11
<1>13. ASSUME NEW e \in ToSet(s), e \in T PROVE e \in ToSet(Among(s, T))
  <2>1. PICK i \in kept : s[i] = e BY <1>13 DEF ToSet, kept
  <2>2. Cardinality(below(i)) + 1 \in 1..c /\ (Cardinality(below(i)) + 1) - 1 = Cardinality(below(i))
    BY <1>2, <1>3
  <2>3. at(Cardinality(below(i)) + 1) = i BY <1>5, <1>8, <2>2
  <2> QED BY <1>9, <2>1, <2>2, <2>3 DEF ToSet
<1>14. ToSet(Among(s, T)) \subseteq ToSet(s) \cap T BY <1>9, <1>11 DEF ToSet
<1> QED BY <1>12, <1>13, <1>14

\* INSERT of several rows appends each of them.
LEMMA SetToSeqCovers ==
    ASSUME NEW S, IsFiniteSet(S)
    PROVE  SetToSeq(S) \in Seq(S) /\ ToSet(SetToSeq(S)) = S
<1> DEFINE c == Cardinality(S)
<1>1. c \in Nat /\ ExistsBijection(1..c, S) BY FS_CardinalityType
<1>2. PICK g \in Bijection(1..c, S) : TRUE BY <1>1 DEF ExistsBijection
<1>3. g \in [1..c -> S] /\ IsInjective(g) BY <1>2 DEF Bijection, Injection
<1> DEFINE f == SetToSeq(S)
<1>4. f \in [1..c -> S] /\ IsInjective(f) BY <1>3 DEF SetToSeq
<1> HIDE DEF f
<1>5. f \in Injection(1..c, S) BY <1>4 DEF Injection
<1>6. IsFiniteSet(1..c) /\ Cardinality(1..c) = c BY <1>1, FS_Interval
<1>7. f \in Surjection(1..c, S) BY <1>5, <1>6, FS_Injection
<1>8. \A e \in S : \E n \in 1..c : f[n] = e BY <1>7 DEF Surjection
<1> HIDE DEF c
<1>9. f \in Seq(S) BY <1>1, <1>4
<1>10. ToSet(f) = S BY <1>4, <1>8 DEF ToSet
<1> QED BY <1>9, <1>10 DEF f

LEMMA ConcatCovers ==
    ASSUME NEW S, NEW s \in Seq(S), NEW t \in Seq(S)
    PROVE  s \o t \in Seq(S) /\ ToSet(s \o t) = ToSet(s) \cup ToSet(t)
<1> DEFINE u == s \o t
<1>1. /\ u \in Seq(S) /\ Len(u) = Len(s) + Len(t) /\ Len(s) \in Nat /\ Len(t) \in Nat
      /\ DOMAIN u = 1..Len(u) /\ DOMAIN s = 1..Len(s) /\ DOMAIN t = 1..Len(t)
      /\ \A i \in 1..Len(s) : u[i] = s[i]
      /\ \A i \in 1..Len(t) : u[Len(s) + i] = t[i]
  OBVIOUS
<1> HIDE DEF u
<1>2. \A i \in 1..Len(u) : i \in 1..Len(s) \/ (i - Len(s) \in 1..Len(t) /\ Len(s) + (i - Len(s)) = i)
  BY <1>1
<1>3. ToSet(u) \subseteq ToSet(s) \cup ToSet(t)
  <2> SUFFICES ASSUME NEW i \in 1..Len(u) PROVE u[i] \in ToSet(s) \cup ToSet(t) BY <1>1 DEF ToSet
  <2>1. CASE i \in 1..Len(s) BY <1>1, <2>1 DEF ToSet
  <2>2. CASE i - Len(s) \in 1..Len(t) /\ Len(s) + (i - Len(s)) = i
    <3>1. u[i] = t[i - Len(s)] BY <1>1, <2>2
    <3> QED BY <1>1, <2>2, <3>1 DEF ToSet
  <2> QED BY <1>2, <2>1, <2>2
<1>4. \A i \in 1..Len(s) : i \in 1..Len(u) BY <1>1
<1>5. \A i \in 1..Len(t) : Len(s) + i \in 1..Len(u) BY <1>1
<1>6. ToSet(s) \subseteq ToSet(u) BY <1>1, <1>4 DEF ToSet
<1>7. ToSet(t) \subseteq ToSet(u) BY <1>1, <1>5 DEF ToSet
<1> QED BY <1>1, <1>3, <1>6, <1>7 DEF u

LEMMA MinOfNats == ASSUME NEW S \in SUBSET Nat, S # {} PROVE Min(S) \in S
<1>1. PICK m \in S : \A n \in S : <<n, m>> \notin OpToRel(<, Nat)
  BY NatLessThanWellFounded, WFMin
<1>2. \A n \in S : m <= n
  <2>1. SUFFICES ASSUME NEW n \in S, n < m PROVE FALSE OBVIOUS
  <2>2. <<n, m>> \in OpToRel(<, Nat) BY <2>1 DEF OpToRel
  <2> QED BY <1>1, <2>2
<1> QED BY <1>2 DEF Min
-----------------------------------------------------------------------------

\* Removing what the cache has, or what is counted as dropped, loses nothing.
LEMMA Removing ==
    ASSUME HookInv, NEW S, NEW D, NEW ok \in BOOLEAN, RemovePaths(S, D, ok),
           roots \subseteq roots', acked' = acked, S \subseteq Cached' \cup D
    PROVE  queue' \in Seq(Paths) /\ NothingLost'
<1>1. queue \in Seq(Paths) /\ acked \subseteq Queued \cup Cached \cup dropped
  BY DEF HookInv, HookTyped, NothingLost
<1>2. Cached \subseteq Cached' BY DEF Cached
<1>3. CASE ~ok
  <2>1. queue' = queue /\ dropped' = dropped BY <1>3 DEF RemovePaths
  <2> QED BY <1>1, <1>2, <2>1 DEF NothingLost, Queued
<1>4. CASE ok
  <2>1. queue' = Among(queue, Paths \ S) /\ dropped' = dropped \cup (S \cap D)
    BY <1>4 DEF RemovePaths, Without
  <2>2. queue' \in Seq(Paths) /\ ToSet(queue') = ToSet(queue) \cap (Paths \ S)
    BY <1>1, <2>1, AmongKeeps
  <2>3. ToSet(queue) \subseteq Paths BY <1>1 DEF ToSet
  <2>4. Queued = ToSet(queue) /\ Queued' = ToSet(queue') BY DEF Queued
  <2>5. acked \subseteq Queued' \cup Cached' \cup dropped' BY <1>1, <1>2, <2>1, <2>2, <2>3, <2>4
  <2> QED BY <2>2, <2>5 DEF NothingLost
<1> QED BY <1>3, <1>4

\* Retry keeps what is queued.
LEMMA Retrying ==
    ASSUME HookInv, NEW p \in Paths, NEW ok \in BOOLEAN, Retry(p, ok),
           roots \subseteq roots', acked' = acked, dropped' = dropped
    PROVE  queue' \in Seq(Paths) /\ NothingLost'
<1>1. queue \in Seq(Paths) /\ acked \subseteq Queued \cup Cached \cup dropped
  BY DEF HookInv, HookTyped, NothingLost
<1>2. Cached \subseteq Cached' BY DEF Cached
<1>3. CASE ~(ok /\ p \in Queued)
  <2>1. queue' = queue BY <1>3 DEF Retry
  <2> QED BY <1>1, <1>2, <2>1 DEF NothingLost, Queued
<1>4. CASE ok /\ p \in Queued
  <2> DEFINE rest == Among(queue, Paths \ {p})
  <2>1. queue' = Append(rest, p) BY <1>4 DEF Retry, Without
  <2>2. rest \in Seq(Paths) /\ ToSet(rest) = ToSet(queue) \cap (Paths \ {p}) BY <1>1, AmongKeeps
  <2>3. ToSet(queue) \subseteq Paths BY <1>1 DEF ToSet
  <2> HIDE DEF rest
  <2> DEFINE last == <<p>>
  <2>4. last \in Seq(Paths) /\ ToSet(last) = {p} BY DEF ToSet
  <2>5. queue' = rest \o last BY <2>1, <2>2
  <2> HIDE DEF last
  <2>6. queue' \in Seq(Paths) /\ ToSet(queue') = ToSet(rest) \cup ToSet(last)
    BY <2>2, <2>4, <2>5, ConcatCovers
  <2>7. Queued = ToSet(queue) /\ Queued' = ToSet(queue') BY DEF Queued
  <2>8. acked \subseteq Queued' \cup Cached' \cup dropped'
    BY <1>1, <1>2, <2>2, <2>3, <2>4, <2>6, <2>7
  <2> QED BY <2>6, <2>8 DEF NothingLost
<1> QED BY <1>3, <1>4

\* A push that the server took leaves in the cache, or skipped for its size,
\* all that settle removes.
LEMMA PushedIsCached ==
    ASSUME NEW P \in SUBSET Paths, NEW x \in PushPaths(P), roots \subseteq Paths
    PROVE  /\ x[1] \subseteq Paths
           /\ roots' = roots \cup x[1] => Settled(P, x[2]) \subseteq Cached' \cup x[3]
<1> DEFINE missing(known) == P \ known
           tooLarge(known, limit) == {p \in missing(known) : ClosureOf[p] \cap limit # {}}
<1>1. PICK known \in {{}, P \cap roots}, limit \in {{}, Oversized} :
        x = <<missing(known) \ tooLarge(known, limit),
              IF missing(known) = {} THEN P ELSE UNION {ClosureOf[p] : p \in missing(known)},
              UNION {ClosureOf[p] : p \in tooLarge(known, limit)}>>
  BY DEF PushPaths
<1>2. /\ x[1] = missing(known) \ tooLarge(known, limit)
      /\ x[2] = IF missing(known) = {} THEN P ELSE UNION {ClosureOf[p] : p \in missing(known)}
      /\ x[3] = UNION {ClosureOf[p] : p \in tooLarge(known, limit)}
  BY <1>1
<1>3. known \subseteq roots BY <1>1
<1>4. x[1] \subseteq Paths BY <1>2
<1>5. ASSUME roots' = roots \cup x[1] PROVE Settled(P, x[2]) \subseteq Cached' \cup x[3]
  <2>1. \A p \in Paths : p \in ClosureOf[p] BY HookAssumption
  <2>2. \A r \in roots \cup x[1] : ClosureOf[r] \subseteq Cached' BY <1>5 DEF Cached
  <2>3. \A p \in missing(known) : ClosureOf[p] \subseteq Cached' \cup x[3]
    <3> SUFFICES ASSUME NEW p \in missing(known) PROVE ClosureOf[p] \subseteq Cached' \cup x[3]
      OBVIOUS
    <3>1. CASE p \in tooLarge(known, limit)
      <4> HIDE DEF tooLarge
      <4> QED BY <1>2, <3>1
    <3>2. CASE p \notin tooLarge(known, limit)
      <4> HIDE DEF tooLarge
      <4> QED BY <1>2, <2>2, <3>2
    <3> QED BY <3>1, <3>2
  <2> HIDE DEF tooLarge
  <2>4. P \subseteq Cached' \cup x[3]
    <3>1. \A p \in P : p \in known \/ p \in missing(known) OBVIOUS
    <3>2. \A p \in P : p \in ClosureOf[p] BY <2>1
    <3> QED BY <1>3, <2>2, <2>3, <3>1, <3>2
  <2>5. x[2] \subseteq Cached' \cup x[3] BY <1>2, <2>3, <2>4
  <2> QED BY <2>4, <2>5 DEF Settled
<1> QED BY <1>4, <1>5

\* A push that fails only adds to the cache.
LEMMA FailedPushAdds ==
    ASSUME NEW P \in SUBSET Paths, NEW ok \in BOOLEAN, PushFails(P, ok), roots \subseteq Paths
    PROVE  roots \subseteq roots' /\ roots' \subseteq Paths
<1>1. PICK x \in PushPaths(P) : \/ roots' = roots
                                \/ \E S \in SUBSET x[1] : roots' = roots \cup S
  BY DEF PushFails
<1>2. x[1] \subseteq Paths BY PushedIsCached
<1> QED BY <1>1, <1>2

\* The path the isolation loop tries.
LEMMA TriedIsQueuedPath ==
    ASSUME HookInv, Untried # {}
    PROVE  batch[Min(Untried)] \in Paths /\ Min(Untried) + 1 \in Nat \ {0}
<1>1. batch \in Seq(Paths) /\ next \in Nat \ {0} BY DEF HookInv, HookTyped
<1>2. Untried \in SUBSET Nat BY <1>1 DEF Untried
<1>3. Min(Untried) \in Untried BY <1>2, MinOfNats
<1>4. \A i \in Untried : batch[i] \in Paths /\ i + 1 \in Nat \ {0} BY <1>1 DEF Untried
<1> QED BY <1>3, <1>4

-----------------------------------------------------------------------------

LEMMA HookInvInit == HookInit => HookInv
<1> SUFFICES ASSUME HookInit PROVE HookInv OBVIOUS
<1>1. /\ queue = <<>> /\ batch = <<>> /\ roots = {} /\ next = 1 /\ inflight = {}
      /\ acked = {}
  BY DEF HookInit
<1> QED BY <1>1 DEF HookInv, HookTyped, NothingLost

LEMMA HookInvStep == HookInv /\ [HookNext]_hookVars => HookInv'
<1> SUFFICES ASSUME HookInv, [HookNext]_hookVars PROVE HookInv'
  OBVIOUS
<1>1. /\ queue \in Seq(Paths) /\ batch \in Seq(Paths)
      /\ roots \subseteq Paths /\ next \in Nat \ {0}
      /\ \A P \in inflight : P \subseteq Paths /\ IsFiniteSet(P)
      /\ acked \subseteq Queued \cup Cached \cup dropped
  BY DEF HookInv, HookTyped, NothingLost
<1> DEFINE Batched == batch' \in Seq(Paths) /\ next' \in Nat \ {0}
           Kept == queue' \in Seq(Paths) /\ NothingLost'
           Sent == inflight' = inflight
           Stored == roots' \subseteq Paths
<1>2. ASSUME Batched, Kept, Sent, Stored PROVE HookInv'
  BY <1>1, <1>2 DEF HookInv, HookTyped
<1>3. ASSUME batch' = batch, next' = next PROVE Batched BY <1>1, <1>3
<1>4. ASSUME batch' = <<>>, next' = 1 PROVE Batched BY <1>4
<1>5. ASSUME queue' = queue, acked' = acked, dropped' = dropped, roots \subseteq roots' PROVE Kept
  BY <1>1, <1>5 DEF NothingLost, Queued, Cached
<1> HIDE DEF Batched, Kept
<1>6. CASE UNCHANGED hookVars
  BY <1>1, <1>2, <1>3, <1>5, <1>6 DEF hookVars, workerVars
<1>7. ASSUME NEW p \in Paths, Build(p) PROVE HookInv'
  <2>1. /\ queue' = queue /\ roots' = roots /\ acked' = acked /\ dropped' = dropped
        /\ batch' = batch /\ next' = next
        /\ inflight' \subseteq inflight \cup {{p}}
    BY <1>7 DEF Build, workerVars
  <2>2. Batched /\ Kept BY <1>3, <1>5, <2>1
  <2>3. {p} \subseteq Paths /\ IsFiniteSet({p}) BY FS_Singleton
  <2>4. \A P \in inflight' : P \subseteq Paths /\ IsFiniteSet(P) BY <1>1, <2>1, <2>3
  <2> QED BY <1>1, <2>1, <2>2, <2>4 DEF HookInv, HookTyped, Batched, Kept
<1>8. ASSUME NEW p \in Paths, Collect(p) PROVE HookInv'
  BY <1>1, <1>2, <1>3, <1>5, <1>8 DEF Collect, workerVars
<1>9. ASSUME NEW P \in inflight, NEW ok \in BOOLEAN, Enqueue(P, ok) PROVE HookInv'
  <2>1. /\ roots' = roots /\ batch' = batch /\ next' = next /\ inflight' = inflight \ {P}
    BY <1>9 DEF Enqueue, workerVars
  <2>2. Batched BY <1>3, <2>1
  <2>3. Kept
    <3>1. CASE ~ok
      <4>1. queue' = queue /\ acked' = acked /\ dropped' = dropped BY <1>9, <3>1 DEF Enqueue
      <4> QED BY <1>5, <2>1, <4>1
    <3>2. CASE ok
      <4> DEFINE new == P \ Queued
      <4>1. /\ queue' = queue \o SetToSeq(new) /\ acked' = acked \cup P
            /\ dropped' = dropped \ new
        BY <1>9, <3>2 DEF Enqueue
      <4>2. IsFiniteSet(new)
        <5>1. IsFiniteSet(P) /\ new \subseteq P BY <1>1
        <5> HIDE DEF new
        <5> QED BY <5>1, FS_Subset
      <4>3. P \subseteq Queued \cup new /\ new \subseteq Paths BY <1>1
      <4> HIDE DEF new
      <4>4. SetToSeq(new) \in Seq(new) /\ ToSet(SetToSeq(new)) = new BY <4>2, SetToSeqCovers
      <4>5. SetToSeq(new) \in Seq(Paths) BY <4>3, <4>4
      <4>6. queue' \in Seq(Paths) /\ ToSet(queue') = ToSet(queue) \cup new
        BY <1>1, <4>1, <4>4, <4>5, ConcatCovers
      <4>7. Queued = ToSet(queue) /\ Queued' = ToSet(queue') /\ Cached' = Cached
        BY <2>1 DEF Queued, Cached
      <4>8. acked' \subseteq Queued' \cup Cached' \cup dropped' BY <1>1, <4>1, <4>3, <4>6, <4>7
      <4> QED BY <4>6, <4>8 DEF Kept, NothingLost
    <3> QED BY <3>1, <3>2
  <2> QED BY <1>1, <2>1, <2>2, <2>3 DEF HookInv, HookTyped, Batched, Kept
<1>10. CASE Wake \/ StartDrain \/ ProbesEnd \/ Stop \/ DrainTimeout \/ Start
  <2>1. /\ queue' = queue /\ roots' = roots /\ acked' = acked /\ dropped' = dropped
        /\ inflight' = inflight
        /\ (batch' = batch /\ next' = next) \/ (batch' = <<>> /\ next' = 1)
    BY <1>10 DEF Wake, StartDrain, ProbesEnd, Stop, DrainTimeout, Start, AfterStep, workerVars
  <2> QED BY <1>1, <1>2, <1>3, <1>4, <1>5, <2>1
<1>11. CASE DaemonExit \/ Kill
  <2>1. /\ queue' = queue /\ roots' = roots /\ acked' = acked /\ dropped' = dropped
        /\ inflight' \subseteq inflight
        /\ batch' = <<>> /\ next' = 1
    BY <1>11 DEF DaemonExit, Kill, Idle
  <2>2. Batched /\ Kept BY <1>4, <1>5, <2>1
  <2> QED BY <1>1, <2>1, <2>2 DEF HookInv, HookTyped, Batched, Kept
<1>12. CASE Fetch
  <2> DEFINE n == IF Len(queue) < BatchSize THEN Len(queue) ELSE BatchSize
             fetched == SubSeq(queue, 1, n)
  <2>1. /\ queue' = queue /\ roots' = roots /\ acked' = acked /\ dropped' = dropped
        /\ inflight' = inflight /\ next' = next
        /\ batch' = Among(fetched, store)
    BY <1>12 DEF Fetch
  <2>2. n \in 0..Len(queue) BY <1>1, HookAssumption
  <2> HIDE DEF n
  <2>3. fetched \in Seq(Paths) BY <1>1, <2>2
  <2> HIDE DEF fetched
  <2>4. batch' \in Seq(Paths) BY <2>1, <2>3, AmongKeeps
  <2>5. Batched /\ Kept BY <1>1, <1>5, <2>1, <2>4 DEF Batched
  <2> QED BY <1>1, <1>2, <2>1, <2>5
<1>13. ASSUME NEW ok \in BOOLEAN, Prune(ok) PROVE HookInv'
  <2>1. /\ roots' = roots /\ acked' = acked /\ inflight' = inflight
        /\ RemovePaths(absent, absent, ok)
        /\ (batch' = batch /\ next' = next) \/ (batch' = <<>> /\ next' = 1)
    BY <1>13 DEF Prune, AfterStep
  <2>2. Batched BY <1>3, <1>4, <2>1
  <2>3. Kept BY <2>1, Removing DEF Kept
  <2> QED BY <1>1, <1>2, <2>1, <2>2, <2>3
<1>14. ASSUME NEW ok \in BOOLEAN, PushBatch(ok) PROVE HookInv'
  <2>1. /\ acked' = acked /\ inflight' = inflight /\ batch' = <<>> /\ next' = 1
    BY <1>14 DEF PushBatch, AfterStep
  <2>2. PICK x \in PushPaths(ToSet(batch)) :
           /\ roots' = roots \cup x[1]
           /\ RemovePaths(Settled(ToSet(batch), x[2]), x[3], ok)
    BY <1>14 DEF PushBatch
  <2>3. ToSet(batch) \in SUBSET Paths BY <1>1 DEF ToSet
  <2>4. /\ x[1] \subseteq Paths
        /\ Settled(ToSet(batch), x[2]) \subseteq Cached' \cup x[3]
    BY <1>1, <2>2, <2>3, PushedIsCached
  <2>5. Kept BY <2>1, <2>2, <2>4, Removing DEF Kept
  <2>6. Batched BY <1>4, <2>1
  <2> QED BY <1>1, <1>2, <2>1, <2>2, <2>4, <2>5, <2>6
<1>15. ASSUME NEW ok \in BOOLEAN, PushBatchFails(ok) PROVE HookInv'
  <2>1. /\ acked' = acked /\ inflight' = inflight /\ dropped' = dropped
        /\ PushFails(ToSet(batch), ok)
        /\ queue' = queue \/ (Len(batch) = 1 /\ Retry(batch[1], ok))
        /\ (batch' = batch /\ next' = next) \/ (batch' = <<>> /\ next' = 1)
    BY <1>15 DEF PushBatchFails, AfterStep
  <2>2. ToSet(batch) \in SUBSET Paths BY <1>1 DEF ToSet
  <2>3. roots \subseteq roots' /\ roots' \subseteq Paths BY <1>1, <2>1, <2>2, FailedPushAdds
  <2>4. Len(batch) = 1 => batch[1] \in Paths BY <1>1
  <2>5. Kept BY <1>5, <2>1, <2>3, <2>4, Retrying DEF Kept
  <2>6. Batched BY <1>3, <1>4, <2>1
  <2> QED BY <1>2, <2>1, <2>3, <2>5, <2>6
<1>16. ASSUME NEW ok \in BOOLEAN, Probe(ok) PROVE HookInv'
  <2> DEFINE i == Min(Untried)
             p == batch[i]
  <2>1. /\ acked' = acked /\ inflight' = inflight /\ batch' = batch /\ Untried # {}
        /\ next' = i + 1
    BY <1>16 DEF Probe
  <2>2. PICK x \in PushPaths({p}) :
           /\ roots' = roots \cup x[1]
           /\ RemovePaths(Settled({p}, x[2]), x[3], ok)
    BY <1>16 DEF Probe
  <2>3. p \in Paths /\ i + 1 \in Nat \ {0} BY <2>1, TriedIsQueuedPath
  <2> HIDE DEF i, p
  <2>4. /\ x[1] \subseteq Paths
        /\ Settled({p}, x[2]) \subseteq Cached' \cup x[3]
    BY <1>1, <2>2, <2>3, PushedIsCached
  <2>5. Kept BY <2>1, <2>2, <2>4, Removing DEF Kept
  <2>6. Batched BY <1>1, <2>1, <2>3 DEF Batched
  <2> QED BY <1>1, <1>2, <2>1, <2>2, <2>4, <2>5, <2>6
<1>17. ASSUME NEW ok \in BOOLEAN, ProbeFails(ok) PROVE HookInv'
  <2> DEFINE i == Min(Untried)
             p == batch[i]
  <2>1. /\ acked' = acked /\ inflight' = inflight /\ batch' = batch /\ Untried # {}
        /\ dropped' = dropped /\ next' = i + 1
        /\ PushFails({p}, ok) /\ Retry(p, ok)
    BY <1>17 DEF ProbeFails
  <2>2. p \in Paths /\ i + 1 \in Nat \ {0} BY <2>1, TriedIsQueuedPath
  <2> HIDE DEF i, p
  <2>3. roots \subseteq roots' /\ roots' \subseteq Paths BY <1>1, <2>1, <2>2, FailedPushAdds
  <2>4. Kept BY <2>1, <2>2, <2>3, Retrying DEF Kept
  <2>5. Batched BY <1>1, <2>1, <2>2 DEF Batched
  <2> QED BY <1>2, <2>1, <2>3, <2>4, <2>5
<1> QED
  BY <1>6, <1>7, <1>8, <1>9, <1>10, <1>11, <1>12, <1>13, <1>14, <1>15, <1>16, <1>17
  DEF HookNext, Worker, Work

\* The queue, the batch and the cache's roots keep their types and no path
\* whose sender was told "ok" is lost.
THEOREM HookInvariant == HookSpec => []HookInv
<1> QED BY HookInvInit, HookInvStep, PTL DEF HookSpec

\* A path that handleConn acknowledged stays queued until the cache has it,
\* whatever is pushed, pruned, retried or killed meanwhile; unless step found
\* it gone from the store or settle removed it with a closure that PushPaths
\* skipped for its size.
THEOREM NothingLostAlways == HookSpec => []NothingLost
<1>1. HookInv => NothingLost BY DEF HookInv
<1> QED BY <1>1, HookInvariant, PTL
=============================================================================
