---------------------------- MODULE NarPrefetch ----------------------------
(***************************************************************************)
(* Serialising a store path (client/nar.go, client/nar_prefetch.go). The   *)
(* writer needs the files in the order of the archive. An enqueuer walks   *)
(* the same tree and hands small files to a pool of readers, which fill    *)
(* pooled buffers ahead of the writer; large files the writer reads itself.*)
(* Two bounded channels connect them: queue, in order, for the writer, and *)
(* work for the readers.                                                   *)
(*                                                                         *)
(* The tree is the sequence 1..Files of its regular files; names, padding  *)
(* and the entries without contents are left out.                          *)
(***************************************************************************)
EXTENDS Naturals, FiniteSets, SequencesExt

CONSTANTS
    Files,      \* number of regular files
    Depth,      \* prefetchQueueDepth
    Workers,    \* readers
    MaxFaults   \* bound on reads and writes that fail

ASSUME PrefetchAssumption ==
    /\ Files \in Nat /\ MaxFaults \in Nat
    /\ Depth \in Nat \ {0} /\ Workers \in Nat \ {0}

VARIABLES
    small,    \* the files up to prefetchMaxFileSize
    enq,      \* the next file the enqueuer looks at
    enqpc,    \* the enqueuer: walking, between its two sends, closing, closed
    queue,    \* p.queue
    work,     \* p.work
    reading,  \* files that a reader is reading
    done,     \* files whose done channel is closed
    bad,      \* those that could not be read
    buf,      \* the buffer that a file holds, 0 if none
    content,  \* the file whose bytes a buffer holds
    at,       \* the file the writer has come to
    wpc,      \* the writer
    cur,      \* the entry taken from the queue, 0 if none
    nar,      \* contents written so far
    drain,    \* the goroutine that drains the queue is running
    result,   \* what DumpPathWithListing returned
    faults

enqVars  == <<enq, enqpc, queue, work>>
readVars == <<reading, done, bad, buf, content>>
vars     == <<small, enqVars, readVars, at, wpc, cur, nar, drain, result, faults>>

All     == 1..Files
Buffers == 1..(Depth + Workers + 2)

TypeOK ==
    /\ small \subseteq All
    /\ enq \in 1..(Files + 1) /\ enqpc \in {"walk", "work", "closing", "closed"}
    /\ queue \in Seq(small) /\ Len(queue) <= Depth
    /\ work \in Seq(small) /\ Len(work) <= Depth
    /\ reading \subseteq small /\ Cardinality(reading) <= Workers
    /\ done \subseteq small \ reading /\ bad \subseteq done
    /\ buf \in [All -> Buffers \cup {0}]
    /\ content \in [Buffers -> All \cup {0}]
    /\ at \in 1..(Files + 1)
    /\ wpc \in {"node", "got", "written", "failed", "draining", "returned"}
    /\ cur \in small \cup {0}
    /\ nar \in Seq(All \cup {0})
    /\ drain \in BOOLEAN
    /\ result \in {"none", "ok", "error"}
    /\ faults \in 0..MaxFaults

Init ==
    /\ small \in SUBSET All
    /\ enq = 1 /\ enqpc = "walk" /\ queue = <<>> /\ work = <<>>
    /\ reading = {} /\ done = {} /\ bad = {}
    /\ buf = [f \in All |-> 0]
    /\ content = [b \in Buffers |-> 0]
    /\ at = 1 /\ wpc = "node" /\ cur = 0 /\ nar = <<>>
    /\ drain = FALSE /\ result = "none" /\ faults = 0

Fault == faults < MaxFaults /\ faults' = faults + 1

Outcome(ok) == IF ok THEN UNCHANGED faults ELSE Fault

-----------------------------------------------------------------------------
(***************************************************************************)
(* The enqueuer and the readers.                                           *)
(***************************************************************************)

\* The small files the walk has yet to come to.
Ahead == {f \in small : f >= enq}

\* enqueue: the next small file goes to the queue, as soon as it has room ...
Enqueue ==
    /\ enqpc = "walk" /\ Ahead # {}
    /\ Len(queue) < Depth
    /\ queue' = Append(queue, Min(Ahead))
    /\ enq' = Min(Ahead)
    /\ enqpc' = "work"
    /\ UNCHANGED <<small, work, readVars, at, wpc, cur, nar, drain, result, faults>>

\* ... and then to the readers.
EnqueueWork ==
    /\ enqpc = "work"
    /\ Len(work) < Depth
    /\ work' = Append(work, enq)
    /\ enq' = enq + 1
    /\ enqpc' = "walk"
    /\ UNCHANGED <<small, queue, readVars, at, wpc, cur, nar, drain, result, faults>>

\* close, first half: no more work.
CloseWork ==
    /\ enqpc = "walk" /\ Ahead = {}
    /\ enqpc' = "closing"
    /\ UNCHANGED <<small, enq, queue, work, readVars, at, wpc, cur, nar, drain, result, faults>>

\* Second half: the readers are through and the queue is closed.
CloseQueue ==
    /\ enqpc = "closing" /\ work = <<>> /\ reading = {}
    /\ enqpc' = "closed"
    /\ UNCHANGED <<small, enq, queue, work, readVars, at, wpc, cur, nar, drain, result, faults>>

\* The pool has any buffer that nobody holds.
Pooled == Buffers \ {buf[f] : f \in All}

\* A reader opens the next file and reads into a pooled buffer ...
StartRead ==
    /\ work # <<>> /\ Cardinality(reading) < Workers
    /\ work' = Tail(work)
    /\ \E b \in Pooled :
          /\ buf' = [buf EXCEPT ![Head(work)] = b]
          /\ content' = [content EXCEPT ![b] = Head(work)]
    /\ reading' = reading \cup {Head(work)}
    /\ UNCHANGED <<small, enq, enqpc, queue, done, bad, at, wpc, cur, nar, drain, result, faults>>

\* ... or cannot open it ...
OpenFails ==
    /\ work # <<>> /\ Cardinality(reading) < Workers
    /\ Fault
    /\ work' = Tail(work)
    /\ done' = done \cup {Head(work)}
    /\ bad' = bad \cup {Head(work)}
    /\ UNCHANGED <<small, enq, enqpc, queue, reading, buf, content, at, wpc, cur, nar, drain, result>>

\* ... and has it all, or gives the buffer back and keeps the error.
EndRead(f, ok) ==
    /\ f \in reading
    /\ Outcome(ok)
    /\ reading' = reading \ {f}
    /\ done' = done \cup {f}
    /\ bad' = IF ok THEN bad ELSE bad \cup {f}
    /\ buf' = IF ok THEN buf ELSE [buf EXCEPT ![f] = 0]
    /\ UNCHANGED <<small, enqVars, content, at, wpc, cur, nar, drain, result>>

-----------------------------------------------------------------------------
(***************************************************************************)
(* The writer.                                                             *)
(***************************************************************************)

\* A small file: its contents are the next entry of the queue.
Take ==
    /\ wpc = "node" /\ at \in small /\ queue # <<>>
    /\ cur' = Head(queue)
    /\ queue' = Tail(queue)
    /\ wpc' = "got"
    /\ UNCHANGED <<small, enq, enqpc, work, readVars, at, nar, drain, result, faults>>

\* Mutant: the writer does not wait for the reader.
WriteUnread ==
    /\ wpc = "got" /\ cur \notin bad
    /\ nar' = Append(nar, IF cur \in done THEN content[buf[cur]] ELSE 0)
    /\ wpc' = "written"
    /\ UNCHANGED <<small, enqVars, readVars, at, cur, drain, result, faults>>

\* writeFileContentsPrefetched, once the file has been read.
Write ==
    /\ wpc = "got" /\ cur \in done \ bad
    /\ nar' = Append(nar, content[buf[cur]])
    /\ wpc' = "written"
    /\ UNCHANGED <<small, enqVars, readVars, at, cur, drain, result, faults>>

\* The buffer goes back to the pool.
Release ==
    /\ wpc = "written"
    /\ buf' = [buf EXCEPT ![cur] = 0]
    /\ cur' = 0
    /\ at' = at + 1
    /\ wpc' = "node"
    /\ UNCHANGED <<small, enqVars, reading, done, bad, content, nar, drain, result, faults>>

\* A large file is streamed from disk.
WriteLarge ==
    /\ wpc = "node" /\ at \in All \ small
    /\ nar' = Append(nar, at)
    /\ at' = at + 1
    /\ UNCHANGED <<small, enqVars, readVars, wpc, cur, drain, result, faults>>

\* The file could not be read, or writing it fails; its buffer is released.
WriteFails ==
    /\ wpc = "got" /\ cur \in done
    /\ IF cur \in bad THEN UNCHANGED faults ELSE Fault
    /\ buf' = [buf EXCEPT ![cur] = 0]
    /\ cur' = 0
    /\ wpc' = "failed"
    /\ UNCHANGED <<small, enqVars, reading, done, bad, content, at, nar, drain, result>>

\* The output of anything else fails, up to the last closing parenthesis.
NodeFails ==
    /\ wpc = "node"
    /\ Fault
    /\ wpc' = "failed"
    /\ UNCHANGED <<small, enqVars, readVars, at, cur, nar, drain, result>>

-----------------------------------------------------------------------------
(***************************************************************************)
(* The end of DumpPathWithListing.                                         *)
(***************************************************************************)

\* Mutant: an error is returned without emptying the queue.
StartDrainNothing ==
    /\ wpc = "failed"
    /\ wpc' = "draining"
    /\ UNCHANGED <<small, enqVars, readVars, at, cur, nar, drain, result, faults>>

\* drain: a goroutine empties the queue ...
StartDrain ==
    /\ wpc = "failed"
    /\ drain' = TRUE
    /\ wpc' = "draining"
    /\ UNCHANGED <<small, enqVars, readVars, at, cur, nar, result, faults>>

DrainTake ==
    /\ drain /\ cur = 0 /\ queue # <<>>
    /\ cur' = Head(queue)
    /\ queue' = Tail(queue)
    /\ UNCHANGED <<small, enq, enqpc, work, readVars, at, wpc, nar, drain, result, faults>>

\* Mutant: the drained entries keep their buffers.
DrainForgets ==
    /\ drain /\ cur \in done
    /\ cur' = 0
    /\ UNCHANGED <<small, enqVars, readVars, at, wpc, nar, drain, result, faults>>

\* ... waiting for each file and releasing its buffer ...
DrainRelease ==
    /\ drain /\ cur \in done
    /\ buf' = [buf EXCEPT ![cur] = 0]
    /\ cur' = 0
    /\ UNCHANGED <<small, enqVars, reading, done, bad, content, at, wpc, nar, drain, result, faults>>

\* ... until it is closed.
DrainEnds ==
    /\ drain /\ cur = 0 /\ queue = <<>> /\ enqpc = "closed"
    /\ drain' = FALSE
    /\ UNCHANGED <<small, enqVars, readVars, at, wpc, cur, nar, result, faults>>

\* The function returns when the enqueuer is done; it does not wait for the
\* drain.
Return ==
    /\ enqpc = "closed" /\ result = "none"
    /\ \/ wpc = "node" /\ at > Files /\ result' = "ok"
       \/ wpc = "draining" /\ result' = "error"
    /\ wpc' = "returned"
    /\ UNCHANGED <<small, enqVars, readVars, at, cur, nar, drain, faults>>

Enqueuer == Enqueue \/ EnqueueWork \/ CloseWork \/ CloseQueue

Readers == StartRead \/ OpenFails \/ \E f \in reading, ok \in BOOLEAN : EndRead(f, ok)

Writer == Take \/ Write \/ Release \/ WriteLarge \/ WriteFails \/ NodeFails \/ StartDrain \/ Return

Drainer == DrainTake \/ DrainRelease \/ DrainEnds

Next == Enqueuer \/ Readers \/ Writer \/ Drainer

Spec == Init /\ [][Next]_vars

\* Each of these is a goroutine, or a pool of them, that the scheduler runs.
Fairness == WF_vars(Enqueuer) /\ WF_vars(Readers) /\ WF_vars(Writer) /\ WF_vars(Drainer)

FairSpec == Spec /\ Fairness

-----------------------------------------------------------------------------

\* Readers finish in any order and buffers change hands, yet the archive has
\* every file's own bytes in the order of the tree, and all of them if the
\* dump succeeds.
NarInOrder ==
    /\ \A i \in DOMAIN nar : nar[i] = i
    /\ result = "ok" => Len(nar) = Files

Held == {f \in All : buf[f] # 0}

\* The queue bounds what is read ahead: a buffer for each entry and one for
\* the entry that is being written or drained. All of them are back in the
\* pool in the end, also after an error.
BuffersBounded ==
    /\ Cardinality(Held) <= Depth + 1
    /\ wpc = "returned" /\ ~drain => Held = {}

\* The dump returns, and the drain ends, whatever fails and however full the
\* channels are.
DumpReturns == <>(wpc = "returned" /\ ~drain)
=============================================================================
