------------------------------ MODULE Multipart ------------------------------
(***************************************************************************)
(* Multipart uploads of one large NAR that several pushes upload at the    *)
(* same time: the part loop of client/multipart.go, the handlers of        *)
(* server/uploads.go and pending_multipart.go behind it, and the cleanup   *)
(* of abandoned pushes (server/pending_cleanup.go). A push has one upload  *)
(* of its own for the key; chunk n of the stream is what the reader reads  *)
(* for part n. What the database records of the object is PushGC's matter. *)
(***************************************************************************)
EXTENDS Naturals, SequencesExt

CONSTANTS
    Pushes,
    Chunks,      \* part-sized pieces in the compressed stream
    FirstURLs,   \* part URLs handed out with the upload (estimatePartsNeeded)
    MoreURLs,    \* additionalParts of one further request
    S3MaxParts,  \* the part numbers S3 accepts
    Slots,       \* partsInFlight of each client
    MaxFaults    \* bound on failed calls, kills and cancellations

ASSUME SizesAssumption ==
    /\ Chunks \in Nat \ {0} /\ FirstURLs \in Nat \ {0} /\ MoreURLs \in Nat \ {0}
    /\ S3MaxParts \in Nat /\ Slots \in [Pushes -> Nat \ {0}] /\ MaxFaults \in Nat

VARIABLES
    short,      \* the last chunk is shorter than a part
    s3,         \* what S3 knows of a push's upload: none, open or gone
    parts,      \* the chunk S3 holds for each part number of the upload
    object,     \* the chunks of the finished object, <<>> while there is none
    pending,    \* pushes with a pending_closures row
    rows,       \* pushes with a multipart_uploads row
    pc,         \* how far a push has come
    urls,       \* part numbers that the push has URLs for, in order
    next,       \* partNumber of the read loop
    reader,     \* the read loop: reading, returned nil, returned an error
    inflight,   \* parts being PUT
    sent,       \* completedParts
    putErr,     \* the error that errgroup keeps
    cancelled,  \* the context of the push is done
    todo,       \* peers' uploads that a completing request has to abort
    sweep,      \* the cleanup: pushes it looks at, uploads left, pushes kept
    cut,        \* pushes whose dump failed with an error taken for the end
    spoilt,     \* history: the object was assembled from such a dump
    logged,     \* uploads whose abort failed with nothing but a log line
    faults

s3Vars     == <<s3, parts, object>>
tableVars  == <<pending, rows>>
loopVars   == <<urls, next, reader, inflight, sent, putErr>>
dumpVars   == <<cut, spoilt>>
vars       == <<short, dumpVars, s3Vars, tableVars, pc, loopVars, cancelled, todo,
                sweep, logged, faults>>

PushStates == {"idle", "opened", "upload", "complete", "assembling",
               "accepted", "untracked", "aborting", "done", "superseded",
               "committed", "failed"}
Numbers    == 1..(FirstURLs + Chunks * MoreURLs + MoreURLs)
NoSweep    == [on |-> FALSE, old |-> {}, left |-> {}, keep |-> {}]
InHandler  == {"assembling", "accepted", "untracked", "aborting"}
Over       == {"idle", "done", "superseded", "committed", "failed"}

TypeOK ==
    /\ short \in BOOLEAN
    /\ s3 \in [Pushes -> {"none", "open", "gone"}]
    /\ parts \in [Pushes -> [Numbers -> 0..Chunks]]
    /\ object \in Seq(1..Chunks)
    /\ pending \subseteq Pushes /\ rows \subseteq pending
    /\ pc \in [Pushes -> PushStates]
    /\ urls \in [Pushes -> Seq(Numbers)]
    /\ next \in [Pushes -> 1..(Chunks + 1)]
    /\ reader \in [Pushes -> {"read", "nil", "error", "notFound"}]
    /\ inflight \in [Pushes -> SUBSET (1..Chunks)]
    /\ sent \in [Pushes -> SUBSET (1..Chunks)]
    /\ \A p \in Pushes : Cardinality(inflight[p]) <= Slots[p]
    /\ putErr \in [Pushes -> {"none", "notFound", "error"}]
    /\ cancelled \in [Pushes -> BOOLEAN]
    /\ todo \in [Pushes -> SUBSET Pushes]
    /\ sweep \in [on : BOOLEAN, old : SUBSET Pushes, left : SUBSET Pushes, keep : SUBSET Pushes]
    /\ cut \subseteq Pushes
    /\ spoilt \in BOOLEAN
    /\ logged \subseteq Pushes
    /\ faults \in 0..MaxFaults

Init ==
    /\ short \in BOOLEAN
    /\ s3 = [p \in Pushes |-> "none"]
    /\ parts = [p \in Pushes |-> [n \in Numbers |-> 0]]
    /\ object = <<>>
    /\ pending = {} /\ rows = {}
    /\ pc = [p \in Pushes |-> "idle"]
    /\ urls = [p \in Pushes |-> <<>>]
    /\ next = [p \in Pushes |-> 1]
    /\ reader = [p \in Pushes |-> "read"]
    /\ inflight = [p \in Pushes |-> {}]
    /\ sent = [p \in Pushes |-> {}]
    /\ putErr = [p \in Pushes |-> "none"]
    /\ cancelled = [p \in Pushes |-> FALSE]
    /\ todo = [p \in Pushes |-> {}]
    /\ sweep = NoSweep
    /\ cut = {} /\ spoilt = FALSE
    /\ logged = {}
    /\ faults = 0

-----------------------------------------------------------------------------
Fault == faults < MaxFaults /\ faults' = faults + 1

\* A call that went well, or one of the bounded number that fail.
Outcome(ok) == IF ok THEN UNCHANGED faults ELSE Fault

Goto(p, state) == pc' = [pc EXCEPT ![p] = state]

\* uploadMultipart has returned, or goes on with the completed parts alone.
LoopEnds(p, completed) ==
    /\ urls' = [urls EXCEPT ![p] = <<>>]
    /\ next' = [next EXCEPT ![p] = 1]
    /\ reader' = [reader EXCEPT ![p] = "read"]
    /\ inflight' = [inflight EXCEPT ![p] = {}]
    /\ putErr' = [putErr EXCEPT ![p] = "none"]
    /\ sent' = [sent EXCEPT ![p] = completed]

\* generatePartURLs: URLs for count part numbers from first on.
generatePartURLs(first, count) == [i \in 1..count |-> first + i - 1]

\* AbortMultipartUpload of q's upload. NoSuchUpload counts as success.
Aborted(Q) == [q \in Pushes |-> IF q \in Q /\ s3[q] = "open" THEN "gone" ELSE s3[q]]

-----------------------------------------------------------------------------
(***************************************************************************)
(* Opening the upload (createMultipartUpload).                             *)
(***************************************************************************)

\* A push inserts its pending closure and opens the upload in S3.
Open(p) ==
    /\ pc[p] = "idle"
    /\ pending' = pending \cup {p}
    /\ s3' = [s3 EXCEPT ![p] = "open"]
    /\ Goto(p, "opened")
    /\ UNCHANGED <<short, dumpVars, parts, object, rows, loopVars, cancelled, todo, sweep, logged, faults>>

\* The row is inserted and the first URLs go to the client.
Track(p) ==
    /\ pc[p] = "opened"
    /\ rows' = rows \cup {p}
    /\ urls' = [urls EXCEPT ![p] = generatePartURLs(1, FirstURLs)]
    /\ Goto(p, "upload")
    /\ UNCHANGED <<short, dumpVars, s3Vars, pending, next, reader, inflight, sent, putErr, cancelled, todo, sweep, logged, faults>>

\* The insert fails, or a cancelled sibling stops the request: the upload
\* cannot be handed out and is aborted under a context of its own.
TrackFails(p, ok) ==
    /\ pc[p] = "opened"
    /\ Fault
    /\ s3' = IF ok THEN Aborted({p}) ELSE s3
    /\ logged' = IF ok THEN logged ELSE logged \cup {p}
    /\ Goto(p, "failed")
    /\ UNCHANGED <<short, dumpVars, parts, object, tableVars, loopVars, cancelled, todo, sweep>>

-----------------------------------------------------------------------------
(***************************************************************************)
(* The read loop and the part PUTs (uploadMultipart).                      *)
(***************************************************************************)

\* The context of the part group: done once a part failed.
Stopped(p) == cancelled[p] \/ putErr[p] # "none"

\* The loop runs out of URLs and the server, which still tracks the upload,
\* hands out more.
RequestMoreParts(p) ==
    /\ pc[p] = "upload" /\ reader[p] = "read"
    /\ next[p] > Len(urls[p])
    /\ ~Stopped(p)
    /\ p \in rows
    /\ next[p] + MoreURLs - 1 <= S3MaxParts
    /\ urls' = [urls EXCEPT ![p] = @ \o generatePartURLs(next[p], MoreURLs)]
    /\ UNCHANGED <<short, dumpVars, s3Vars, tableVars, pc, next, reader, inflight, sent, putErr, cancelled, todo, sweep, logged, faults>>

\* The server no longer tracks the upload, or the numbers exceed the limit.
RequestMorePartsRefused(p) ==
    /\ pc[p] = "upload" /\ reader[p] = "read"
    /\ next[p] > Len(urls[p])
    /\ ~Stopped(p)
    /\ p \notin rows \/ next[p] + MoreURLs - 1 > S3MaxParts
    /\ reader' = [reader EXCEPT ![p] =
                     IF next[p] + MoreURLs - 1 > S3MaxParts THEN "error" ELSE "notFound"]
    /\ UNCHANGED <<short, dumpVars, s3Vars, tableVars, pc, urls, next, inflight, sent, putErr, cancelled, todo, sweep, logged, faults>>

\* A slot is free, the next part is read and its PUT starts. Only a short
\* part tells the loop that it was the last.
ReadPart(p) ==
    /\ pc[p] = "upload" /\ reader[p] = "read"
    /\ next[p] <= Len(urls[p])
    /\ Cardinality(inflight[p]) < Slots[p]
    /\ next[p] <= Chunks
    /\ inflight' = [inflight EXCEPT ![p] = @ \cup {next[p]}]
    /\ next' = [next EXCEPT ![p] = @ + 1]
    /\ reader' = [reader EXCEPT ![p] = IF next[p] = Chunks /\ short THEN "nil" ELSE "read"]
    /\ UNCHANGED <<short, dumpVars, s3Vars, tableVars, pc, urls, sent, putErr, cancelled, todo, sweep, logged, faults>>

\* Nothing is left to read.
ReadEOF(p) ==
    /\ pc[p] = "upload" /\ reader[p] = "read"
    /\ next[p] <= Len(urls[p])
    /\ Cardinality(inflight[p]) < Slots[p]
    /\ next[p] > Chunks
    /\ reader' = [reader EXCEPT ![p] = "nil"]
    /\ UNCHANGED <<short, dumpVars, s3Vars, tableVars, pc, urls, next, inflight, sent, putErr, cancelled, todo, sweep, logged, faults>>

\* The dump of the store path, or a request for URLs, fails: the pipe hands
\* the error to the loop.
ReadFails(p) ==
    /\ pc[p] = "upload" /\ reader[p] = "read"
    /\ Fault
    /\ reader' = [reader EXCEPT ![p] = "error"]
    /\ UNCHANGED <<short, dumpVars, s3Vars, tableVars, pc, urls, next, inflight, sent, putErr, cancelled, todo, sweep, logged>>

\* The dump fails because a file ended early, with an error that wraps io.EOF
\* or io.ErrUnexpectedEOF. The loop takes it for the end of the stream: what
\* it has read of the part, if anything, is the last part.
ReadCut(p, some) ==
    /\ pc[p] = "upload" /\ reader[p] = "read"
    /\ next[p] <= Len(urls[p])
    /\ Cardinality(inflight[p]) < Slots[p]
    /\ next[p] <= Chunks
    /\ Fault
    /\ inflight' = IF some THEN [inflight EXCEPT ![p] = @ \cup {next[p]}] ELSE inflight
    /\ next' = IF some THEN [next EXCEPT ![p] = @ + 1] ELSE next
    /\ reader' = [reader EXCEPT ![p] = "nil"]
    /\ cut' = cut \cup {p}
    /\ UNCHANGED <<short, spoilt, s3Vars, tableVars, pc, urls, sent, putErr, cancelled, todo, sweep, logged>>

\* The loop stops with the context: it returns nil while it waits for a slot
\* and the request's error while it asks for URLs.
ReadStops(p) ==
    /\ pc[p] = "upload" /\ reader[p] = "read"
    /\ Stopped(p)
    /\ reader' = [reader EXCEPT ![p] = IF next[p] > Len(urls[p]) THEN "error" ELSE "nil"]
    /\ UNCHANGED <<short, dumpVars, s3Vars, tableVars, pc, urls, next, inflight, sent, putErr, cancelled, todo, sweep, logged, faults>>

\* S3 stores the part under the number in its URL and its ETag comes back.
PutPart(p, n) ==
    /\ pc[p] = "upload" /\ n \in inflight[p]
    /\ s3[p] = "open"
    /\ parts' = [parts EXCEPT ![p][urls[p][n]] = n]
    /\ inflight' = [inflight EXCEPT ![p] = @ \ {n}]
    /\ sent' = [sent EXCEPT ![p] = @ \cup {n}]
    /\ UNCHANGED <<short, dumpVars, s3, object, tableVars, pc, urls, next, reader, putErr, cancelled, todo, sweep, logged, faults>>

\* Mutant: a failed PUT does not give its slot back.
PutFailsKeepsSlot(p, n) ==
    /\ pc[p] = "upload" /\ n \in inflight[p]
    /\ s3[p] = "open" => IF Stopped(p) THEN UNCHANGED faults ELSE Fault
    /\ s3[p] # "open" => UNCHANGED faults
    /\ putErr' = [putErr EXCEPT ![p] = IF @ # "none" THEN @ ELSE "error"]
    /\ UNCHANGED <<short, dumpVars, s3Vars, tableVars, pc, urls, next, reader, inflight, sent, cancelled, todo, sweep, logged>>

\* The group keeps its first error.
PutFails(p, n) ==
    /\ pc[p] = "upload" /\ n \in inflight[p]
    /\ s3[p] = "open" => IF Stopped(p) THEN UNCHANGED faults ELSE Fault
    /\ s3[p] # "open" => UNCHANGED faults
    /\ inflight' = [inflight EXCEPT ![p] = @ \ {n}]
    /\ putErr' = [putErr EXCEPT ![p] =
                     IF @ # "none" THEN @
                     ELSE IF s3[p] = "open" \/ cancelled[p] THEN "error" ELSE "notFound"]
    /\ UNCHANGED <<short, dumpVars, s3Vars, tableVars, pc, urls, next, reader, sent, cancelled, todo, sweep, logged>>

\* Mutant: every 404 is taken for a peer's abort.
supersededByPeerUnconfirmed(p, err) == err = "notFound"

\* A 404 is a peer's abort only if the object is there; the question needs a
\* live context.
supersededByPeer(p, err) == err = "notFound" /\ ~cancelled[p] /\ object # <<>>

\* The loop has returned and every PUT is over.
Waited(p) == pc[p] = "upload" /\ reader[p] # "read" /\ inflight[p] = {}

\* A part failed.
PartsFailed(p) ==
    /\ Waited(p)
    /\ putErr[p] # "none"
    /\ IF supersededByPeer(p, putErr[p])
       THEN Goto(p, "superseded")
       ELSE Goto(p, "failed")
    /\ LoopEnds(p, {})
    /\ UNCHANGED <<short, dumpVars, s3Vars, tableVars, cancelled, todo, sweep, logged, faults>>

\* No part failed and the loop returned an error.
ReaderFailed(p) ==
    /\ Waited(p)
    /\ putErr[p] = "none"
    /\ reader[p] \in {"error", "notFound"}
    /\ Goto(p, "failed")
    /\ LoopEnds(p, {})
    /\ UNCHANGED <<short, dumpVars, s3Vars, tableVars, cancelled, todo, sweep, logged, faults>>

\* Mutant: the error of the read loop is not looked at.
PartsSentIgnoresReader(p) ==
    /\ Waited(p)
    /\ putErr[p] = "none"
    /\ Goto(p, "complete")
    /\ LoopEnds(p, sent[p])
    /\ UNCHANGED <<short, dumpVars, s3Vars, tableVars, cancelled, todo, sweep, logged, faults>>

\* Everything went well: the completed parts are sorted for the request.
PartsSent(p) ==
    /\ Waited(p)
    /\ putErr[p] = "none"
    /\ reader[p] = "nil"
    /\ Goto(p, "complete")
    /\ LoopEnds(p, sent[p])
    /\ UNCHANGED <<short, dumpVars, s3Vars, tableVars, cancelled, todo, sweep, logged, faults>>

-----------------------------------------------------------------------------
(***************************************************************************)
(* Completing the upload (CompleteMultipartUploadHandler).                 *)
(***************************************************************************)

\* The parts that the request lists, in ascending order.
Listed(p) ==
    CHOOSE s \in [1..Cardinality(sent[p]) -> sent[p]] :
        \A i, j \in DOMAIN s : i < j => s[i] < s[j]

\* The request finds the tracking row.
CompleteLookup(p) ==
    /\ pc[p] = "complete"
    /\ ~cancelled[p]
    /\ sent[p] # {}
    /\ p \in rows
    /\ Goto(p, "assembling")
    /\ UNCHANGED <<short, dumpVars, s3Vars, tableVars, loopVars, cancelled, todo, sweep, logged, faults>>

\* The request is not sent, lists nothing, or finds no row.
CompleteRefused(p) ==
    /\ pc[p] = "complete"
    /\ cancelled[p] \/ sent[p] = {} \/ p \notin rows
    /\ LET err == IF cancelled[p] \/ sent[p] = {} THEN "error" ELSE "notFound"
       IN  IF supersededByPeer(p, err)
           THEN Goto(p, "superseded")
           ELSE Goto(p, "failed")
    /\ LoopEnds(p, {})
    /\ UNCHANGED <<short, dumpVars, s3Vars, tableVars, cancelled, todo, sweep, logged, faults>>

\* S3 assembles the object from the listed parts of an open upload.
Assemble(p) ==
    /\ pc[p] = "assembling"
    /\ s3[p] = "open"
    /\ \A n \in sent[p] : parts[p][n] = n
    /\ object' = Listed(p)
    /\ spoilt' = (p \in cut)
    /\ s3' = [s3 EXCEPT ![p] = "gone"]
    /\ Goto(p, "accepted")
    /\ UNCHANGED <<short, cut, parts, tableVars, loopVars, cancelled, todo, sweep, logged, faults>>

\* S3 refuses, or its call fails; the object is there all the same, so the
\* upload is aborted and counts as completed.
AssembleAnyway(p, ok) ==
    /\ pc[p] = "assembling"
    /\ object # <<>>
    /\ Outcome(ok /\ s3[p] # "open")
    /\ s3' = IF ok THEN Aborted({p}) ELSE s3
    /\ logged' = IF ~ok /\ s3[p] = "open" THEN logged \cup {p} ELSE logged
    /\ Goto(p, "accepted")
    /\ UNCHANGED <<short, dumpVars, parts, object, tableVars, loopVars, cancelled, todo, sweep>>

\* S3 refuses and there is no object.
AssembleFails(p) ==
    /\ pc[p] = "assembling"
    /\ object = <<>>
    /\ Outcome(s3[p] # "open" \/ \E n \in sent[p] : parts[p][n] # n)
    /\ Goto(p, "failed")
    /\ LoopEnds(p, {})
    /\ UNCHANGED <<short, dumpVars, s3Vars, tableVars, cancelled, todo, sweep, logged>>

\* The object is registered, the tracking row deleted (a failure is logged).
DropRow(p, ok) ==
    /\ pc[p] = "accepted"
    /\ Outcome(ok)
    /\ rows' = IF ok THEN rows \ {p} ELSE rows
    /\ Goto(p, "untracked")
    /\ UNCHANGED <<short, dumpVars, s3Vars, pending, loopVars, cancelled, todo, sweep, logged>>

\* abortRedundantMultipartUploads lists the uploads of the peers.
ListRedundant(p) ==
    /\ pc[p] = "untracked"
    /\ todo' = [todo EXCEPT ![p] = rows \ {p}]
    /\ Goto(p, "aborting")
    /\ UNCHANGED <<short, dumpVars, s3Vars, tableVars, loopVars, cancelled, sweep, logged, faults>>

\* One of them is aborted and its row deleted; a failed abort keeps the row.
AbortRedundant(p, q, ok) ==
    /\ pc[p] = "aborting" /\ q \in todo[p]
    /\ Outcome(ok)
    /\ s3' = IF ok THEN Aborted({q}) ELSE s3
    /\ rows' = IF ok THEN rows \ {q} ELSE rows
    /\ todo' = [todo EXCEPT ![p] = @ \ {q}]
    /\ UNCHANGED <<short, dumpVars, parts, object, pending, pc, loopVars, cancelled, sweep, logged>>

\* The handler answers. Only now the client asks how the dump ended.
CompleteDone(p) ==
    /\ pc[p] = "aborting" /\ todo[p] = {}
    /\ Goto(p, IF p \in cut THEN "failed" ELSE "done")
    /\ LoopEnds(p, {})
    /\ UNCHANGED <<short, dumpVars, s3Vars, tableVars, cancelled, todo, sweep, logged, faults>>

\* The handler dies or its answer is lost, and the client sends the request
\* again (doWithRetry).
CompleteLost(p) ==
    /\ pc[p] \in InHandler
    /\ Fault
    /\ todo' = [todo EXCEPT ![p] = {}]
    /\ Goto(p, "complete")
    /\ UNCHANGED <<short, dumpVars, s3Vars, tableVars, loopVars, cancelled, sweep, logged>>

-----------------------------------------------------------------------------
(***************************************************************************)
(* The push around the upload, and the cleanup.                            *)
(***************************************************************************)

\* A sibling upload failed, or the caller gave up.
Cancel(p) ==
    /\ pc[p] \in {"upload", "complete"}
    /\ ~cancelled[p]
    /\ Fault
    /\ cancelled' = [cancelled EXCEPT ![p] = TRUE]
    /\ UNCHANGED <<short, dumpVars, s3Vars, tableVars, pc, loopVars, todo, sweep, logged>>

\* The client is killed. While its upload is being opened TrackFails covers
\* it: the server notices and aborts.
Kill(p) ==
    /\ pc[p] \notin Over \cup {"opened"}
    /\ Fault
    /\ Goto(p, "failed")
    /\ todo' = [todo EXCEPT ![p] = {}]
    /\ LoopEnds(p, {})
    /\ UNCHANGED <<short, dumpVars, s3Vars, tableVars, cancelled, sweep, logged>>

\* The push commits: its pending closure goes, its tracking row cascades.
Commit(p) ==
    /\ pc[p] \in {"done", "superseded"}
    /\ Goto(p, "committed")
    /\ pending' = pending \ {p}
    /\ rows' = rows \ {p}
    /\ UNCHANGED <<short, dumpVars, s3Vars, loopVars, cancelled, todo, sweep, logged, faults>>

\* cleanupPendingClosures takes one cutoff and lists the uploads of the
\* pushes before it. A request that is still opening uploads is younger.
SweepStart(old) ==
    /\ ~sweep.on
    /\ old # {} /\ old \subseteq pending
    /\ \A p \in old : pc[p] # "opened"
    /\ sweep' = [on |-> TRUE, old |-> old, left |-> old \cap rows, keep |-> {}]
    /\ UNCHANGED <<short, dumpVars, s3Vars, tableVars, pc, loopVars, cancelled, todo, logged, faults>>

\* Mutant: a failed abort does not keep the closure.
SweepAbortForgets(q, ok) ==
    /\ sweep.on /\ q \in sweep.left
    /\ Outcome(ok)
    /\ s3' = IF ok THEN Aborted({q}) ELSE s3
    /\ sweep' = [sweep EXCEPT !.left = @ \ {q}]
    /\ UNCHANGED <<short, dumpVars, parts, object, tableVars, pc, loopVars, cancelled, todo, logged>>

\* It aborts them in S3, and keeps the closure of one that fails.
SweepAbort(q, ok) ==
    /\ sweep.on /\ q \in sweep.left
    /\ Outcome(ok)
    /\ s3' = IF ok THEN Aborted({q}) ELSE s3
    /\ sweep' = [sweep EXCEPT !.left = @ \ {q}, !.keep = IF ok THEN @ ELSE @ \cup {q}]
    /\ UNCHANGED <<short, dumpVars, parts, object, tableVars, pc, loopVars, cancelled, todo, logged>>

\* It deletes the closures it did not keep; tracking rows cascade.
SweepDelete ==
    /\ sweep.on /\ sweep.left = {}
    /\ pending' = pending \ (sweep.old \ sweep.keep)
    /\ rows' = rows \ (sweep.old \ sweep.keep)
    /\ sweep' = NoSweep
    /\ UNCHANGED <<short, dumpVars, s3Vars, pc, loopVars, cancelled, todo, logged, faults>>

\* A cancelled call or a database error ends it early.
SweepFails ==
    /\ sweep.on
    /\ Fault
    /\ sweep' = NoSweep
    /\ UNCHANGED <<short, dumpVars, s3Vars, tableVars, pc, loopVars, cancelled, todo, logged>>

-----------------------------------------------------------------------------
Upload(p) ==
    \/ RequestMoreParts(p) \/ RequestMorePartsRefused(p)
    \/ ReadPart(p) \/ ReadEOF(p) \/ ReadStops(p)
    \/ \E n \in 1..Chunks : PutPart(p, n) \/ PutFails(p, n)
    \/ PartsFailed(p) \/ ReaderFailed(p) \/ PartsSent(p)

Complete(p) ==
    \/ CompleteLookup(p) \/ CompleteRefused(p)
    \/ Assemble(p) \/ AssembleFails(p) \/ ListRedundant(p) \/ CompleteDone(p)
    \/ \E ok \in BOOLEAN : AssembleAnyway(p, ok) \/ DropRow(p, ok)
    \/ \E q \in Pushes, ok \in BOOLEAN : AbortRedundant(p, q, ok)

Cleanup ==
    \/ \E old \in SUBSET Pushes : SweepStart(old)
    \/ \E q \in Pushes, ok \in BOOLEAN : SweepAbort(q, ok)
    \/ SweepDelete \/ SweepFails

Next ==
    \/ \E p \in Pushes :
          \/ Open(p) \/ Track(p) \/ Upload(p) \/ ReadFails(p) \/ Complete(p)
          \/ CompleteLost(p) \/ Cancel(p) \/ Kill(p) \/ Commit(p)
          \/ \E ok \in BOOLEAN : TrackFails(p, ok)
          \/ \E some \in BOOLEAN : ReadCut(p, some)
    \/ Cleanup

Spec == Init /\ [][Next]_vars

\* Goroutines run, calls return and handlers finish: nothing of a push waits
\* for another push.
Fairness == \A p \in Pushes : WF_vars(Track(p) \/ Upload(p) \/ Complete(p))

FairSpec == Spec /\ Fairness

-----------------------------------------------------------------------------
\* Whatever fails, is cancelled or is done twice, a NAR that S3 assembled
\* holds every chunk of its stream once and in order (uploadMultipart:
\* readErr, first part error, SortFunc). The exception is a dump whose error
\* looked like the end of the stream (errors.Is): its object is the piece
\* that came before the error, again without gaps.
ObjectIsWhole ==
    \E k \in 0..Chunks : /\ object = [n \in 1..k |-> n]
                         /\ k \in {0, Chunks} \/ spoilt

\* A push that goes on to its commit, because its own upload was completed
\* or because it believes a peer's was, finds the object there
\* (supersededByPeer, "treating as success").
FinishedHasObject ==
    \A p \in Pushes : pc[p] \in {"done", "superseded", "committed"} => object # <<>>

\* Every upload still open in S3 can be found by a later cleanup: its row is
\* there, or the request that opened it has yet to insert it, or its abort
\* was attempted and failed (the log line).
OpenIsTracked ==
    \A p \in Pushes : s3[p] = "open" => p \in rows \/ pc[p] = "opened" \/ p \in logged

\* Every upload that was started ends, however the slots, the errors and the
\* aborts fall.
UploadsEnd == \A p \in Pushes : pc[p] = "upload" ~> pc[p] \in Over
=============================================================================
