---------------------------- MODULE UploadTasks ----------------------------
(***************************************************************************)
(* The worker pool of one push (client/parallel.go UploadPendingObjects,   *)
(* nar_task.go, metadata_tasks.go, nar_upload.go): what the server offered *)
(* becomes tasks, an errgroup with a limit runs them, and the narinfos of  *)
(* the push are described only when every task went well. NARs are keyed   *)
(* by content, so two paths may share one; listings and narinfos are keyed *)
(* by path. How a NAR's parts travel is Multipart's matter.                *)
(***************************************************************************)
EXTENDS Naturals, FiniteSets

CONSTANTS
    Paths,
    Nars,
    NarOf,      \* the NAR that holds a path's contents
    Extras,     \* paths with a build log or a realisation
    Workers,    \* MaxConcurrentNARUploads
    MaxFaults   \* bound on uploads that fail

ASSUME PathsAssumption == NarOf \in [Paths -> Nars] /\ Extras \subseteq Paths
ASSUME BoundsAssumption == Workers \in Nat \ {0} /\ MaxFaults \in Nat

Object(kind, x) == [kind |-> kind, of |-> x]
ByPath(kind)    == {Object(kind, p) : p \in Paths}
Objects         == ByPath("narinfo") \cup ByPath("listing")
                       \cup {Object("extra", p) : p \in Extras} \cup {Object("nar", n) : n \in Nars}

VARIABLES
    offered,    \* PendingObjects; an "extra" is a build log or a realisation
    owner,      \* NARKeyToHash: the path that a NAR's upload is filed under
    queued,     \* tasks that g.Go has yet to accept
    running,    \* tasks that hold a worker
    nar,        \* the NAR upload of a NAR task
    dumped,     \* paths whose dump has finished and called onListing
    listing,    \* the listing upload of a path
    fallback,   \* NAR tasks that went on to uploadMetadataOnly
    uploaded,   \* objects that reached S3
    failed,     \* some task returned an error
    result,     \* what UploadPendingObjects returned
    described,  \* paths with narinfo metadata in it
    faults

uploadVars == <<offered, owner, queued, running, nar, dumped, listing, fallback,
                uploaded, failed, result, described, faults>>

Task(kind, p) == [kind |-> kind, of |-> p]
Tasks         == {Task(kind, p) : kind \in {"extra", "nar", "metadata"}, p \in Paths}

UploadTypeOK ==
    /\ offered \subseteq Objects
    /\ owner \in [Nars -> Paths]
    /\ queued \subseteq Tasks /\ running \subseteq Tasks
    /\ Cardinality(running) <= Workers
    /\ nar \in [Paths -> {"none", "stored", "superseded", "failed"}]
    /\ dumped \subseteq Paths /\ fallback \subseteq Paths
    /\ listing \in [Paths -> {"none", "started", "stored", "failed"}]
    /\ uploaded \subseteq offered
    /\ failed \in BOOLEAN
    /\ result \in {"none", "ok", "error"}
    /\ described \subseteq Paths
    /\ faults \in 0..MaxFaults

-----------------------------------------------------------------------------
Offered(kind, x) == Object(kind, x) \in offered

\* The path that uploads NAR n, and whether path p has a NAR to upload.
HasNar(p) == Offered("nar", NarOf[p]) /\ owner[NarOf[p]] = p

\* The tasks of path p: its log or realisation; its NAR with its listing; or,
\* if the NAR is deduplicated and a narinfo is wanted, its listing alone.
TasksOf(p) ==
    {t \in {Task("extra", p), Task("nar", p), Task("metadata", p)} :
        \/ t.kind = "extra" /\ Offered("extra", p)
        \/ t.kind = "nar" /\ HasNar(p)
        \/ t.kind = "metadata" /\ ~HasNar(p) /\ Offered("narinfo", p)}

\* The objects of the paths ps.
ObjectsOf(ps) ==
    {o \in Objects : IF o.kind = "nar" THEN \E p \in ps : NarOf[p] = o.of ELSE o.of \in ps}

\* What NARKeyToHash may say for the paths ps: paths that share a NAR
\* overwrite each other's entry.
Owners(ps) ==
    {f \in [Nars -> Paths] : \A n \in Nars :
        /\ NarOf[f[n]] = n
        /\ (\E p \in ps : NarOf[p] = n) => f[n] \in ps}

\* No upload is under way.
UploadInit ==
    /\ offered = {} /\ owner = (CHOOSE f \in Owners(Paths) : TRUE)
    /\ queued = {} /\ running = {}
    /\ nar = [p \in Paths |-> "none"]
    /\ listing = [p \in Paths |-> "none"]
    /\ dumped = {} /\ fallback = {} /\ uploaded = {}
    /\ failed = FALSE /\ result = "none" /\ described = {}
    /\ faults = 0

taskVars == <<queued, running, failed>>
narVars  == <<nar, dumped, fallback>>
endVars  == <<result, described>>

\* A call fails by itself now and then, and always once the context that a
\* failed task cancelled is done.
MayFail == IF failed THEN UNCHANGED faults ELSE faults < MaxFaults /\ faults' = faults + 1

\* A task returns; the first error cancels the others.
Ends(t, ok) ==
    /\ running' = running \ {t}
    /\ failed' = (failed \/ ~ok)
    /\ UNCHANGED queued

-----------------------------------------------------------------------------
\* UploadPendingObjects makes a task of everything offered.
UploadPendingObjects ==
    /\ result = "none" /\ queued = {} /\ running = {}
    /\ queued' = UNION {TasksOf(p) : p \in Paths}
    /\ UNCHANGED <<offered, owner, running, failed, narVars, listing, uploaded, endVars, faults>>

\* g.Go hands the task to a worker, logs and realisations first.
Go(t) ==
    /\ t \in queued
    /\ Cardinality(running) < Workers
    /\ t.kind # "extra" => \A u \in queued : u.kind # "extra"
    /\ queued' = queued \ {t}
    /\ running' = running \cup {t}
    /\ UNCHANGED <<offered, owner, narVars, listing, uploaded, failed, endVars, faults>>

\* uploadLog, uploadRealisation: a log that is gone, or cannot be
\* compressed, is left out with a warning.
Extra(p, found) ==
    /\ Task("extra", p) \in running
    /\ uploaded' = IF found THEN uploaded \cup {Object("extra", p)} ELSE uploaded
    /\ Ends(Task("extra", p), TRUE)
    /\ UNCHANGED <<offered, owner, narVars, listing, endVars, faults>>

ExtraFails(p) ==
    /\ Task("extra", p) \in running
    /\ MayFail
    /\ Ends(Task("extra", p), FALSE)
    /\ UNCHANGED <<offered, owner, narVars, listing, uploaded, endVars>>

-----------------------------------------------------------------------------
(***************************************************************************)
(* uploadNARWithListing.                                                   *)
(***************************************************************************)

\* The dump is complete: onListing starts the listing's upload beside it.
Dump(p) ==
    /\ Task("nar", p) \in running
    /\ nar[p] = "none" /\ p \notin dumped
    /\ dumped' = dumped \cup {p}
    /\ listing' = IF Offered("listing", p) THEN [listing EXCEPT ![p] = "started"] ELSE listing
    /\ UNCHANGED <<offered, owner, taskVars, nar, fallback, uploaded, endVars, faults>>

ListingUp(p) ==
    /\ Task("nar", p) \in running
    /\ listing[p] = "started"
    /\ listing' = [listing EXCEPT ![p] = "stored"]
    /\ uploaded' = uploaded \cup {Object("listing", p)}
    /\ UNCHANGED <<offered, owner, taskVars, narVars, endVars, faults>>

ListingFails(p) ==
    /\ Task("nar", p) \in running
    /\ listing[p] = "started"
    /\ MayFail
    /\ listing' = [listing EXCEPT ![p] = "failed"]
    /\ UNCHANGED <<offered, owner, taskVars, narVars, uploaded, endVars>>

\* CompressAndUploadNAR returns: the NAR is in S3 once all of it was dumped;
NarUp(p) ==
    /\ Task("nar", p) \in running
    /\ nar[p] = "none" /\ p \in dumped
    /\ nar' = [nar EXCEPT ![p] = "stored"]
    /\ uploaded' = uploaded \cup {Object("nar", NarOf[p])}
    /\ UNCHANGED <<offered, owner, taskVars, dumped, fallback, listing, endVars, faults>>

\* or a peer finished it first, which cuts the dump short wherever it is (the
\* compressor is waited for, so onListing is not called later);
NarSuperseded(p) ==
    /\ Task("nar", p) \in running
    /\ nar[p] = "none"
    /\ nar' = [nar EXCEPT ![p] = "superseded"]
    /\ UNCHANGED <<offered, owner, taskVars, dumped, fallback, listing, uploaded, endVars, faults>>

\* or it fails.
NarFails(p) ==
    /\ Task("nar", p) \in running
    /\ nar[p] = "none"
    /\ MayFail
    /\ nar' = [nar EXCEPT ![p] = "failed"]
    /\ UNCHANGED <<offered, owner, taskVars, dumped, fallback, listing, uploaded, endVars>>

\* The listing of a superseded NAR has not even started.
NeedsFallback(p) == nar[p] = "superseded" /\ Offered("listing", p) /\ p \notin dumped

\* Mutant: a superseded NAR ends the task.
NarTaskEndsSuperseded(p) ==
    /\ Task("nar", p) \in running
    /\ nar[p] # "none" /\ listing[p] # "started" /\ p \notin fallback
    /\ Ends(Task("nar", p), nar[p] # "failed" /\ listing[p] # "failed")
    /\ UNCHANGED <<offered, owner, narVars, listing, uploaded, endVars, faults>>

\* Both uploads are over: the task ends with the NAR's error or the listing's.
NarTaskEnds(p) ==
    /\ Task("nar", p) \in running
    /\ nar[p] # "none" /\ listing[p] # "started" /\ p \notin fallback
    /\ ~NeedsFallback(p)
    /\ Ends(Task("nar", p), nar[p] # "failed" /\ listing[p] # "failed")
    /\ UNCHANGED <<offered, owner, narVars, listing, uploaded, endVars, faults>>

\* The listing is made from the store path instead.
NarTaskFallsBack(p) ==
    /\ Task("nar", p) \in running
    /\ p \notin fallback
    /\ NeedsFallback(p)
    /\ fallback' = fallback \cup {p}
    /\ UNCHANGED <<offered, owner, taskVars, nar, dumped, listing, uploaded, endVars, faults>>

\* The task, if any, that runs uploadMetadataOnly for p.
MetadataTask(p) ==
    {t \in running : t = Task("metadata", p) \/ (t = Task("nar", p) /\ p \in fallback)}

Metadata(p) ==
    \E t \in MetadataTask(p) :
        /\ uploaded' = IF Offered("listing", p) THEN uploaded \cup {Object("listing", p)} ELSE uploaded
        /\ Ends(t, TRUE)
        /\ UNCHANGED <<offered, owner, narVars, listing, endVars, faults>>

MetadataFails(p) ==
    \E t \in MetadataTask(p) :
        /\ MayFail
        /\ Ends(t, FALSE)
        /\ UNCHANGED <<offered, owner, narVars, listing, uploaded, endVars>>

-----------------------------------------------------------------------------
\* g.Wait returns: an error ends the push, otherwise the offered narinfos are
\* described for the server to sign.
Return ==
    /\ result = "none" /\ queued = {} /\ running = {}
    /\ result' = IF failed THEN "error" ELSE "ok"
    /\ described' = IF failed THEN {} ELSE {p \in Paths : Offered("narinfo", p)}
    /\ UNCHANGED <<offered, owner, taskVars, narVars, listing, uploaded, faults>>

PathStep(p) ==
    \/ \E found \in BOOLEAN : Extra(p, found)
    \/ ExtraFails(p)
    \/ Dump(p) \/ ListingUp(p) \/ ListingFails(p)
    \/ NarUp(p) \/ NarSuperseded(p) \/ NarFails(p)
    \/ NarTaskEnds(p) \/ NarTaskFallsBack(p)
    \/ Metadata(p) \/ MetadataFails(p)

UploadStep == (\E t \in Tasks : Go(t)) \/ (\E p \in Paths : PathStep(p)) \/ Return

\* The caller has the result; all but the descriptions was local.
UploadForgotten ==
    /\ offered' = {} /\ owner' = (CHOOSE f \in Owners(Paths) : TRUE)
    /\ nar' = [p \in Paths |-> "none"] /\ listing' = [p \in Paths |-> "none"]
    /\ dumped' = {} /\ fallback' = {} /\ uploaded' = {}
    /\ failed' = FALSE /\ result' = "none"
    /\ UNCHANGED <<queued, running, described, faults>>

-----------------------------------------------------------------------------
\* A narinfo is described only when what it leads to is in S3 or was there
\* before: its NAR, whichever path it is filed under and whoever finished
\* it, and its listing, although a superseded NAR cut the dump short.
DescribedIsUploaded ==
    \A p \in described :
        /\ Offered("listing", p) => Object("listing", p) \in uploaded
        /\ Offered("nar", NarOf[p]) =>
              \/ Object("nar", NarOf[p]) \in uploaded
              \/ nar[owner[NarOf[p]]] = "superseded"
=============================================================================
