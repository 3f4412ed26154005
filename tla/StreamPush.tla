----------------------------- MODULE StreamPush -----------------------------
(***************************************************************************)
(* niks3 push --stdin (client/streampush.go): a scanner goroutine feeds a  *)
(* channel of lines, the loop of Run groups plain paths into batches while *)
(* every push slot is busy, and one job per slot pushes a batch and        *)
(* reports each of its paths. A line that is a JSON request is a batch of  *)
(* its own, of one path here, pushed all or nothing. The push itself       *)
(* (PushPaths) fails whenever it meets a broken path.                      *)
(***************************************************************************)
EXTENDS Naturals, SequencesExt

CONSTANTS
    MaxLines,   \* bound on the lines of input
    BatchSize,
    Parallel,
    Probes,     \* streamIsolationProbes
    MaxFaults   \* bound on pushes that fail although every path is fine

ASSUME SizesAssumption ==
    /\ BatchSize \in Nat \ {0} /\ Parallel \in Nat \ {0} /\ Probes \in Nat
    /\ MaxLines \in Nat /\ MaxFaults \in Nat

Lines == 1..MaxLines

VARIABLES
    request,    \* lines that are requests
    broken,     \* lines whose path cannot be pushed
    fed,        \* lines read from the input
    lines,      \* the channel
    closed,     \* the scanner saw the end of input and closed the channel
    batch,      \* paths that wait for a slot
    held,       \* a request line that waits for a slot, 0 if there is none
    loop,       \* where Run is
    jobs,       \* jobs running, one per slot taken
    pushed,     \* lines that a successful push included
    reported,   \* the results written for each line
    cancelled,
    faults

vars == <<request, broken, fed, lines, closed, batch, held, loop, jobs,
          pushed, reported, cancelled, faults>>

Buffer == BatchSize * Parallel

Job == [request : BOOLEAN, paths : Seq(Lines), stage : {"batch", "probe", "report"},
        res : Seq({"ok", "error"})]

TypeOK ==
    /\ request \subseteq Lines /\ broken \subseteq Lines
    /\ fed \in 0..MaxLines
    /\ lines \in Seq(Lines) /\ Len(lines) <= Buffer
    /\ closed \in BOOLEAN
    /\ batch \in Seq(Lines) /\ Len(batch) <= BatchSize
    /\ held \in Lines \cup {0}
    /\ loop \in {"run", "select", "flush", "request", "last", "wait", "returned"}
    /\ jobs \subseteq Job /\ Cardinality(jobs) <= Parallel
    /\ pushed \subseteq Lines
    /\ reported \in [Lines -> Seq({"ok", "error"})]
    /\ cancelled \in BOOLEAN
    /\ faults \in 0..MaxFaults

Init ==
    /\ request \in SUBSET Lines /\ broken \in SUBSET Lines
    /\ fed = 0 /\ lines = <<>> /\ closed = FALSE
    /\ batch = <<>> /\ held = 0 /\ loop = "run"
    /\ jobs = {} /\ pushed = {}
    /\ reported = [n \in Lines |-> <<>>]
    /\ cancelled = FALSE /\ faults = 0

inputVars == <<request, broken>>
scanVars  == <<fed, closed>>
jobVars   == <<jobs, pushed, reported, faults>>

-----------------------------------------------------------------------------
\* The scanner reads a line into the channel.
Feed ==
    /\ ~closed /\ fed < MaxLines /\ Len(lines) < Buffer
    /\ fed' = fed + 1
    /\ lines' = Append(lines, fed + 1)
    /\ UNCHANGED <<inputVars, closed, batch, held, loop, jobVars, cancelled>>

\* The input ends.
EOF ==
    /\ ~closed
    /\ closed' = TRUE
    /\ UNCHANGED <<inputVars, fed, lines, batch, held, loop, jobVars, cancelled>>

Cancel ==
    /\ ~cancelled
    /\ cancelled' = TRUE
    /\ UNCHANGED <<inputVars, scanVars, lines, batch, held, loop, jobVars>>

-----------------------------------------------------------------------------
(***************************************************************************)
(* The loop of Run.                                                        *)
(***************************************************************************)
NewJob(isRequest, paths) ==
    [request |-> isRequest, paths |-> paths, stage |-> "batch", res |-> <<>>]

\* take(line): a path joins the batch, a full batch is flushed; a request
\* flushes what is there and then goes out by itself.
Take ==
    /\ loop \in {"run", "select"} /\ lines # <<>>
    /\ lines' = Tail(lines)
    /\ IF Head(lines) \in request
       THEN /\ held' = Head(lines)
            /\ loop' = IF batch = <<>> THEN "request" ELSE "flush"
            /\ UNCHANGED batch
       ELSE /\ batch' = Append(batch, Head(lines))
            /\ loop' = IF Len(batch) + 1 = BatchSize THEN "flush" ELSE "run"
            /\ UNCHANGED held
    /\ UNCHANGED <<inputVars, scanVars, jobVars, cancelled>>

\* flush: the batch waits for a slot and the loop with it.
Flush ==
    /\ loop \in {"flush", "last"} /\ batch # <<>>
    /\ Cardinality(jobs) < Parallel
    /\ jobs' = jobs \cup {NewJob(FALSE, batch)}
    /\ batch' = <<>>
    /\ loop' = IF loop = "last" THEN "wait" ELSE IF held # 0 THEN "request" ELSE "run"
    /\ UNCHANGED <<inputVars, scanVars, lines, held, pushed, reported, cancelled, faults>>

\* submit of a request line.
SubmitRequest ==
    /\ loop = "request"
    /\ Cardinality(jobs) < Parallel
    /\ jobs' = jobs \cup {NewJob(TRUE, <<held>>)}
    /\ held' = 0
    /\ loop' = "run"
    /\ UNCHANGED <<inputVars, scanVars, lines, batch, pushed, reported, cancelled, faults>>

\* The loop holds a batch and no line is waiting: whatever happens first,
\* a line, a free slot or the end of the context, goes on.
Select ==
    /\ loop = "run" /\ batch # <<>> /\ lines = <<>> /\ ~closed
    /\ loop' = "select"
    /\ UNCHANGED <<inputVars, scanVars, lines, batch, held, jobVars, cancelled>>

\* A slot is free: the batch goes as it is.
StartBatch ==
    /\ loop = "select"
    /\ Cardinality(jobs) < Parallel
    /\ jobs' = jobs \cup {NewJob(FALSE, batch)}
    /\ batch' = <<>>
    /\ loop' = "run"
    /\ UNCHANGED <<inputVars, scanVars, lines, held, pushed, reported, cancelled, faults>>

\* Mutant: the loop ends without the batch it holds.
LeaveWithoutFlush ==
    /\ loop \in {"run", "select"}
    /\ (closed /\ lines = <<>>) \/ cancelled
    /\ loop' = "wait"
    /\ UNCHANGED <<inputVars, scanVars, lines, batch, held, jobVars, cancelled>>

\* The channel is closed and empty, or the context is done (with a batch in
\* hand the loop takes waiting lines before it looks at the context); what
\* is in the batch is flushed.
Leave ==
    /\ loop \in {"run", "select"}
    /\ \/ closed /\ lines = <<>>
       \/ cancelled /\ (loop = "select" \/ batch = <<>>)
    /\ loop' = IF batch = <<>> THEN "wait" ELSE "last"
    /\ UNCHANGED <<inputVars, scanVars, lines, batch, held, jobVars, cancelled>>

\* Every job has reported; a cancelled Run does not wait for the scanner.
Return ==
    /\ loop = "wait" /\ jobs = {}
    /\ closed \/ cancelled
    /\ loop' = "returned"
    /\ UNCHANGED <<inputVars, scanVars, lines, batch, held, jobVars, cancelled>>

-----------------------------------------------------------------------------
(***************************************************************************)
(* The jobs (upload, uploadRequest).                                       *)
(***************************************************************************)
Count(res, status) == Cardinality({i \in DOMAIN res : res[i] = status})

All(paths, status) == [i \in DOMAIN paths |-> status]

Becomes(j, k) == jobs' = (jobs \ {j}) \cup {k}

\* A push of these lines goes through only if none is broken; it fails then,
\* when the context is done, and now and then by itself.
PushOk(P)    == P \cap broken = {} /\ pushed' = pushed \cup P /\ UNCHANGED faults
PushFails(P) ==
    /\ IF P \cap broken # {} \/ cancelled
       THEN UNCHANGED faults
       ELSE faults < MaxFaults /\ faults' = faults + 1
    /\ UNCHANGED pushed

\* The whole batch, or request, is pushed.
BatchOk(j) ==
    /\ j.stage = "batch"
    /\ PushOk(Range(j.paths))
    /\ Becomes(j, [j EXCEPT !.stage = "report", !.res = All(j.paths, "ok")])
    /\ UNCHANGED <<inputVars, scanVars, lines, batch, held, loop, reported, cancelled>>

\* Mutant: a failed batch fails every path in it.
BatchFailsForAll(j) ==
    /\ j.stage = "batch"
    /\ PushFails(Range(j.paths))
    /\ Becomes(j, [j EXCEPT !.stage = "report", !.res = All(j.paths, "error")])
    /\ UNCHANGED <<inputVars, scanVars, lines, batch, held, loop, reported, cancelled>>

\* It fails: a request, a single path and a cancelled run fail as a whole,
\* another batch is retried path by path.
BatchFails(j) ==
    /\ j.stage = "batch"
    /\ PushFails(Range(j.paths))
    /\ Becomes(j, IF j.request \/ Len(j.paths) = 1 \/ cancelled
                  THEN [j EXCEPT !.stage = "report", !.res = All(j.paths, "error")]
                  ELSE [j EXCEPT !.stage = "probe"])
    /\ UNCHANGED <<inputVars, scanVars, lines, batch, held, loop, reported, cancelled>>

\* Probes failures and no success: the rest of the batch is not tried.
GivesUp(j) == Count(j.res, "ok") = 0 /\ Count(j.res, "error") >= Probes

\* The next path of a failed batch.
Untried(j) == j.paths[Len(j.res) + 1]

\* Mutant: a probe's error is not looked at.
ProbeFailsUnseen(j) ==
    /\ j.stage = "probe" /\ Len(j.res) < Len(j.paths) /\ ~GivesUp(j)
    /\ PushFails({Untried(j)})
    /\ Becomes(j, [j EXCEPT !.res = Append(@, "ok")])
    /\ UNCHANGED <<inputVars, scanVars, lines, batch, held, loop, reported, cancelled>>

Probe(j) ==
    /\ j.stage = "probe" /\ Len(j.res) < Len(j.paths) /\ ~GivesUp(j)
    /\ PushOk({Untried(j)})
    /\ Becomes(j, [j EXCEPT !.res = Append(@, "ok")])
    /\ UNCHANGED <<inputVars, scanVars, lines, batch, held, loop, reported, cancelled>>

ProbeFails(j) ==
    /\ j.stage = "probe" /\ Len(j.res) < Len(j.paths) /\ ~GivesUp(j)
    /\ PushFails({Untried(j)})
    /\ Becomes(j, [j EXCEPT !.res = Append(@, "error")])
    /\ UNCHANGED <<inputVars, scanVars, lines, batch, held, loop, reported, cancelled>>

\* Every path was tried, or the rest is failed untried.
ProbesEnd(j) ==
    /\ j.stage = "probe"
    /\ Len(j.res) = Len(j.paths) \/ GivesUp(j)
    /\ Becomes(j, [j EXCEPT !.stage = "report",
                            !.res = @ \o [i \in 1..(Len(j.paths) - Len(@)) |-> "error"]])
    /\ UNCHANGED <<inputVars, scanVars, lines, batch, held, loop, pushed, reported, cancelled, faults>>

\* What the job has to say of line n.
ResultOf(j, n) ==
    IF Contains(j.paths, n) THEN <<j.res[CHOOSE i \in DOMAIN j.paths : j.paths[i] = n]>> ELSE <<>>

\* Mutant: a request's job keeps its slot.
ReportKeepsSlot(j) ==
    /\ j.stage = "report"
    /\ \A i \in DOMAIN j.paths : reported[j.paths[i]] = <<>>
    /\ reported' = [n \in Lines |-> reported[n] \o ResultOf(j, n)]
    /\ jobs' = IF j.request THEN jobs ELSE jobs \ {j}
    /\ UNCHANGED <<inputVars, scanVars, lines, batch, held, loop, pushed, cancelled, faults>>

\* The results are written under the output lock and the slot is free again.
Report(j) ==
    /\ j.stage = "report"
    /\ reported' = [n \in Lines |-> reported[n] \o ResultOf(j, n)]
    /\ jobs' = jobs \ {j}
    /\ UNCHANGED <<inputVars, scanVars, lines, batch, held, loop, pushed, cancelled, faults>>

-----------------------------------------------------------------------------
Run == Take \/ Flush \/ SubmitRequest \/ Select \/ StartBatch \/ Leave \/ Return

Work(j) == BatchOk(j) \/ BatchFails(j) \/ Probe(j) \/ ProbeFails(j) \/ ProbesEnd(j) \/ Report(j)

Next == Feed \/ EOF \/ Cancel \/ Run \/ \E j \in jobs : Work(j)

Spec == Init /\ [][Next]_vars

\* The loop runs, and a push ends one way or the other. Nobody promises that
\* input arrives or ends.
Fairness == WF_vars(Run) /\ WF_vars(\E j \in jobs : Work(j))

FairSpec == Spec /\ Fairness

-----------------------------------------------------------------------------
Taken == {n \in 1..fed : \A i \in DOMAIN lines : lines[i] # n}

\* However batches, requests, probes and cancellation interleave, no line is
\* reported twice, and when Run returns every line it took from the channel
\* was reported, which without a cancellation is every line of the input.
ReportedOnce ==
    /\ \A n \in Lines : Len(reported[n]) <= 1
    /\ loop = "returned" => \A n \in Taken : Len(reported[n]) = 1
    /\ loop = "returned" /\ ~cancelled => Taken = 1..fed

\* "ok" is only said of a path that a successful push included.
OkMeansPushed == \A n \in Lines : reported[n] = <<"ok">> => n \in pushed

\* One bad path only costs itself: a sound path fails only with the server,
\* with the context, or if the input has at least Probes broken lines.
BadCostsItself ==
    \A n \in Lines : reported[n] = <<"error">> /\ n \notin broken
        => faults > 0 \/ cancelled \/ Cardinality(broken) >= Probes

\* Run returns once its input ends or its context is done, though the slots
\* are all taken or the scanner is stuck.
RunReturns == closed \/ cancelled ~> loop = "returned"
=============================================================================
