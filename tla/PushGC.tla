------------------------------- MODULE PushGC -------------------------------
(***************************************************************************)
(* Pushes and the garbage collector of niks3 racing on the objects table,  *)
(* the pending rows and the S3 bucket.                                     *)
(*                                                                         *)
(* One action is one SQL statement or transaction, one S3 call, or one     *)
(* request the client sends after it saw the answer to the previous one.   *)
(* A client that dies simply takes no further step; its pending rows stay  *)
(* until the cleanup drops them.                                           *)
(*                                                                         *)
(* Time is left out: the age parameters of a collection (older-than,       *)
(* failed-uploads-older-than, force) are chosen by whoever starts it and   *)
(* may be zero, so any pending push may be "old", any closure "expired"    *)
(* and any tombstone "ripe".                                               *)
(***************************************************************************)
EXTENDS Naturals, FiniteSets

CONSTANTS
    Keys,       \* object keys: narinfos, NARs, listings, build logs, ...
    Narinfos,   \* the keys that end in .narinfo
    Multipart,  \* NAR keys too large for one presigned PUT
    Optional,   \* listings, logs and realisations a client may leave out
    Refs,       \* Refs[k]: the keys that object k references
    Pushes,     \* identities of pending_closures rows
    Requests    \* the create requests clients may send

Request == [roots : SUBSET Narinfos, own : SUBSET Keys,
            verify : BOOLEAN, checked : BOOLEAN]

\* validateObjects and CreatePushHandler: object kinds do not overlap, a
\* request lists at least one object, and the roots of a push (checked) are
\* among its objects. The older route (unchecked) does not verify the latter.
ASSUME KindsAssumption ==
    /\ Narinfos \subseteq Keys
    /\ Multipart \subseteq Keys \ Narinfos
    /\ Optional \subseteq Keys \ (Narinfos \cup Multipart)
    /\ Refs \in [Keys -> SUBSET Keys]

ASSUME RequestsAssumption ==
    /\ Requests \subseteq Request
    /\ \A q \in Requests : /\ q.own # {} /\ q.roots # {}
                           /\ q.checked => q.roots \subseteq q.own

VARIABLES
    row,      \* row[k]: no row, live (deleted_at IS NULL) or tombstoned
    s3,       \* keys in the bucket
    closures, \* keys of the closures table
    tracked,  \* pushes whose pending_closures and pending_objects rows exist
    uploads,  \* multipart_uploads rows, as <<push, key>>
    pc,       \* how far the client of a push has come
    req,      \* the create request of a push
    offered,  \* keys the server told the client to upload, less those it skips
    done,     \* keys the client considers uploaded
    reg,      \* registrations past their S3 check, not yet written
    gcpc,     \* phase of the collection that holds the advisory lock
    found,    \* keys the running mark or sweep query found on its snapshot
    held,     \* rows the sweep transaction has locked
    del,      \* keys whose S3 delete is outstanding
    gone,     \* keys the sweep deleted from S3, their rows not yet
    \* History variables: they record what happened and guard nothing.
    late,     \* registrations in reg whose key the sweep deleted since
    tainted,  \* keys a late registration made live without an S3 object
    outrun,   \* references of a commit that a mark took after their check
    owed,     \* published roots whose closure the server must keep complete
    fresh     \* roots that became owed after the running mark's snapshot

serverVars == <<row, s3, closures, tracked, uploads>>
clientVars == <<pc, req, offered, done, reg>>
gcVars     == <<gcpc, found, held, del, gone>>
history    == <<late, tainted, outrun, owed, fresh>>
vars       == <<serverVars, clientVars, gcVars, history>>

RowStates  == {"none", "live", "tomb"}
PushStates == {"idle", "inserted", "verifying", "open", "signed", "committing", "done",
               "failed"}
GCStates   == {"idle", "cleanup", "closures", "mark", "marking", "sweep",
               "locking", "recheck", "deleting"}

NoRequest == [roots |-> {}, own |-> {}, verify |-> FALSE, checked |-> FALSE]

TypeOK ==
    /\ row \in [Keys -> RowStates]
    /\ s3 \subseteq Keys
    /\ closures \subseteq Narinfos
    /\ tracked \subseteq Pushes
    /\ uploads \subseteq Pushes \X Multipart
    /\ pc \in [Pushes -> PushStates]
    /\ req \in [Pushes -> Requests \cup {NoRequest}]
    /\ offered \in [Pushes -> SUBSET Keys]
    /\ done \in [Pushes -> SUBSET Keys]
    /\ reg \subseteq Pushes \X Keys
    /\ gcpc \in GCStates
    /\ found \subseteq Keys
    /\ held \subseteq Keys
    /\ del \subseteq Keys
    /\ gone \subseteq Keys
    /\ late \subseteq reg
    /\ tainted \subseteq Keys
    /\ outrun \subseteq Pushes \X Keys
    /\ owed \subseteq closures
    /\ fresh \subseteq closures

Own(p) == req[p].own

\* Keys with a pending_objects row of any push.
PendingKeys == UNION {Own(p) : p \in tracked}

Live == {k \in Keys : row[k] = "live"}

\* What commit_push looks up: roots and references that the push does not
\* bring itself.
Relied(p) == (req[p].roots \cup UNION {Refs[k] : k \in Own(p)}) \ Own(p)

\* Only pushes of POST /api/pushes look.
Checked(p) == IF req[p].checked THEN Relied(p) ELSE {}

\* Mutant: a tombstoned row counts as present.
MissingWithoutTombstones(p) == {k \in Checked(p) : row[k] = "none"}

Missing(p) == Checked(p) \ Live

\* The keys the recursive query closure_reach finds: from the closures that
\* have an object row, along references to keys that have one. Tombstoned
\* rows are walked too.
Reachable ==
    LET rows == {k \in Keys : row[k] # "none"}
        WalkClosed(S) == /\ closures \cap rows \subseteq S
                         /\ \A k \in S : Refs[k] \cap rows \subseteq S
    IN  {k \in rows : \A S \in SUBSET rows : WalkClosed(S) => k \in S}

\* What a reader of root r needs: everything its references lead to.
ClosureOf ==
    [r \in Keys |-> {k \in Keys : \A S \in SUBSET Keys :
        (r \in S /\ \A x \in S : Refs[x] \subseteq S) => k \in S}]

Init ==
    /\ row = [k \in Keys |-> "none"]
    /\ s3 = {} /\ closures = {} /\ tracked = {} /\ uploads = {}
    /\ pc = [p \in Pushes |-> "idle"]
    /\ req = [p \in Pushes |-> NoRequest]
    /\ offered = [p \in Pushes |-> {}]
    /\ done = [p \in Pushes |-> {}]
    /\ reg = {}
    /\ gcpc = "idle"
    /\ found = {} /\ held = {} /\ del = {} /\ gone = {}
    /\ late = {} /\ tainted = {} /\ outrun = {} /\ owed = {} /\ fresh = {}

-----------------------------------------------------------------------------
(***************************************************************************)
(* Creating a push.                                                        *)
(***************************************************************************)

\* insertPendingClosure: one transaction writes the pending closure and a
\* pending row for each of its objects, before anything is looked up.
InsertPending(p, q) ==
    /\ pc[p] = "idle"
    /\ pc' = [pc EXCEPT ![p] = "inserted"]
    /\ req' = [req EXCEPT ![p] = q]
    /\ tracked' = tracked \cup {p}
    /\ UNCHANGED <<row, s3, closures, uploads, offered, done, reg, gcVars, history>>

\* Mutant: the size threshold of useSimpleUpload is lost.
OfferAllMultipart(p, absent) ==
    /\ p \in tracked
    /\ offered' = [offered EXCEPT ![p] = absent]
    /\ uploads' = uploads \cup ({p} \X absent)
    /\ pc' = [pc EXCEPT ![p] = "open"]

\* createPendingObjects: presigned URLs need no state, a multipart upload
\* inserts its tracking row, which the foreign key refuses once the cleanup
\* has dropped the push. When one object fails the request fails, and the
\* rows it has written so far stay.
Offer(p, absent) ==
    LET big == absent \cap Multipart
    IN  \/ /\ big = {} \/ p \in tracked
           /\ offered' = [offered EXCEPT ![p] = absent]
           /\ uploads' = uploads \cup ({p} \X big)
           /\ pc' = [pc EXCEPT ![p] = "open"]
        \/ /\ absent # {}
           /\ \E created \in SUBSET big :
                 uploads' = IF p \in tracked THEN uploads \cup ({p} \X created) ELSE uploads
           /\ pc' = [pc EXCEPT ![p] = "failed"]
           /\ UNCHANGED offered

\* Mutant: no FOR KEY SHARE, so the lookup does not wait for the sweep.
LookupWithoutLock(p) ==
    /\ pc[p] = "inserted"
    /\ Offer(p, Own(p) \ Live)
    /\ UNCHANGED <<row, s3, closures, tracked, req, done, reg, gcVars, history>>

\* GetExistingObjects: FOR KEY SHARE waits for a sweep that holds one of the
\* rows. Tombstoned objects count as absent. A push that verifies S3 goes on
\* with the live keys as candidates.
Lookup(p) ==
    /\ pc[p] = "inserted"
    /\ Own(p) \cap held = {}
    /\ IF req[p].verify
       THEN /\ offered' = [offered EXCEPT ![p] = Own(p) \ Live]
            /\ pc' = [pc EXCEPT ![p] = "verifying"]
            /\ UNCHANGED uploads
       ELSE Offer(p, Own(p) \ Live)
    /\ UNCHANGED <<row, s3, closures, tracked, req, done, reg, gcVars, history>>

\* Mutant: the answer of the S3 check is ignored.
VerifyNothing(p) ==
    /\ pc[p] = "verifying"
    /\ Offer(p, offered[p])
    /\ UNCHANGED <<row, s3, closures, tracked, req, done, reg, gcVars, history>>

\* dropMissingFromS3: live keys the bucket lacks are offered as well.
VerifyS3(p) ==
    /\ pc[p] = "verifying"
    /\ Offer(p, offered[p] \cup (Own(p) \ s3))
    /\ UNCHANGED <<row, s3, closures, tracked, req, done, reg, gcVars, history>>

\* The lookup or the S3 check errs and createPendingClosureInner drops the
\* rows; an error of that delete is only logged.
CreateFails(p) ==
    /\ pc[p] \in {"inserted", "verifying"}
    /\ pc' = [pc EXCEPT ![p] = "failed"]
    /\ tracked' \in {tracked, tracked \ {p}}
    /\ UNCHANGED <<row, s3, closures, uploads, req, offered, done, reg, gcVars, history>>

-----------------------------------------------------------------------------
(***************************************************************************)
(* Uploading. PushPaths uploads everything but narinfos, has the narinfos  *)
(* signed, uploads those, and completes the push.                          *)
(***************************************************************************)

\* A presigned PUT. The URL works whether or not the push still exists.
Put(p, k) ==
    /\ k \in offered[p] \ (done[p] \cup Multipart)
    /\ pc[p] = (IF k \in Narinfos THEN "signed" ELSE "open")
    /\ s3' = s3 \cup {k}
    /\ done' = [done EXCEPT ![p] = @ \cup {k}]
    /\ tainted' = tainted \ {k}
    /\ UNCHANGED <<row, closures, tracked, uploads, pc, req, offered, reg,
                   gcVars, late, outrun, owed, fresh>>

\* uploadLog, uploadRealisation and the listing dispatch of
\* UploadPendingObjects can leave an object out without failing the push.
Skip(p, k) ==
    /\ k \in (offered[p] \cap Optional) \ done[p]
    /\ pc[p] = "open"
    /\ offered' = [offered EXCEPT ![p] = @ \ {k}]
    /\ UNCHANGED <<serverVars, pc, req, done, reg, gcVars, history>>

\* CompleteMultipartUploadHandler up to its registration: the tracking row
\* exists and S3 completes the upload, or reports an error although the
\* object is there.
MultipartComplete(p, k) ==
    /\ pc[p] = "open"
    /\ k \notin done[p]
    /\ <<p, k>> \in uploads
    /\ s3' = s3 \cup {k}
    /\ reg' = reg \cup {<<p, k>>}
    /\ tainted' = tainted \ {k}
    /\ UNCHANGED <<row, closures, tracked, uploads, pc, req, offered, done,
                   gcVars, late, outrun, owed, fresh>>

\* supersededByPeer: the tracking row is gone (404) and a HEAD finds the NAR.
Superseded(p, k) ==
    /\ pc[p] = "open"
    /\ k \in (offered[p] \cap Multipart) \ done[p]
    /\ <<p, k>> \notin uploads
    /\ k \in s3
    /\ done' = [done EXCEPT ![p] = @ \cup {k}]
    /\ UNCHANGED <<serverVars, pc, req, offered, reg, gcVars, history>>

\* CompleteUploadHandler, first half: some push has a pending row for the
\* key and the object is in S3. The client sends it off the upload path.
RegisterCheck(p, k) ==
    /\ k \in done[p] \ Multipart
    /\ k \in PendingKeys
    /\ k \in s3
    /\ reg' = reg \cup {<<p, k>>}
    /\ UNCHANGED <<serverVars, pc, req, offered, done, gcVars, history>>

\* RegisterCompletedObject: upserts a live row while any push has a pending
\* row for the key; the conflicting row's lock makes it wait for the sweep.
RegisterCompletedObject(p, k) ==
    /\ <<p, k>> \in reg
    /\ k \notin held
    /\ reg' = reg \ {<<p, k>>}
    /\ late' = late \ {<<p, k>>}
    /\ IF k \in PendingKeys
       THEN /\ row' = [row EXCEPT ![k] = "live"]
            /\ tainted' = IF <<p, k>> \in late /\ k \notin s3
                          THEN tainted \cup {k} ELSE tainted
       ELSE UNCHANGED <<row, tainted>>

\* Second half of CompleteUploadHandler.
RegisterUpload(p, k) ==
    /\ k \notin Multipart
    /\ RegisterCompletedObject(p, k)
    /\ UNCHANGED <<s3, closures, tracked, uploads, pc, req, offered, done,
                   gcVars, outrun, owed, fresh>>

\* Rest of CompleteMultipartUploadHandler: register, drop the tracking row,
\* abort the uploads peers opened for the same NAR. An abort that fails
\* keeps its row, so any set of peers may lose theirs.
RegisterMultipart(p, k, peers) ==
    /\ k \in Multipart
    /\ RegisterCompletedObject(p, k)
    /\ uploads' = uploads \ (({p} \cup peers) \X {k})
    /\ done' = [done EXCEPT ![p] = @ \cup {k}]
    /\ UNCHANGED <<s3, closures, tracked, pc, req, offered, gcVars, outrun, owed, fresh>>

\* The registration request dies with its server or runs into its timeout.
RegisterLost(p, k) ==
    /\ <<p, k>> \in reg
    /\ reg' = reg \ {<<p, k>>}
    /\ late' = late \ {<<p, k>>}
    /\ UNCHANGED <<serverVars, pc, req, offered, done, gcVars, tainted, outrun, owed, fresh>>

\* Mutant: narinfos are signed without waiting for the other uploads.
SignNarinfosEarly(p) ==
    /\ pc[p] = "open"
    /\ offered[p] \cap Narinfos # {}
    /\ pc' = [pc EXCEPT ![p] = IF p \in tracked THEN "signed" ELSE "failed"]
    /\ UNCHANGED <<serverVars, req, offered, done, reg, gcVars, history>>

\* SignNarinfosHandler signs only narinfos among the push's pending rows and
\* answers 403 once they are gone. Skipped when no narinfo is to be uploaded.
SignNarinfos(p) ==
    /\ pc[p] = "open"
    /\ offered[p] \cap Narinfos # {}
    /\ offered[p] \ Narinfos \subseteq done[p]
    /\ pc' = [pc EXCEPT ![p] = IF p \in tracked THEN "signed" ELSE "failed"]
    /\ UNCHANGED <<serverVars, req, offered, done, reg, gcVars, history>>

-----------------------------------------------------------------------------
(***************************************************************************)
(* Completing a push.                                                      *)
(***************************************************************************)

\* The client completes a push once all its uploads are through.
ReadyToComplete(p) ==
    /\ \/ pc[p] = "signed"
       \/ pc[p] = "open" /\ offered[p] \cap Narinfos = {}
    /\ offered[p] \subseteq done[p]

\* commit_push, first half: the push's row is locked, which keeps the cleanup
\* away, and what the push relies on is looked up. The statement locks none
\* of that, and the transaction goes on.
CommitCheck(p) ==
    /\ ReadyToComplete(p)
    /\ p \in tracked
    /\ Missing(p) = {}
    /\ pc' = [pc EXCEPT ![p] = "committing"]
    /\ UNCHANGED <<serverVars, req, offered, done, reg, gcVars, history>>

\* Roots whose closure the push brings, has checked, or finds under a root
\* that is published; no mark has taken any of that since the check.
CoveredRoots(p) ==
    {r \in req[p].roots :
        ClosureOf[r] \subseteq Own(p) \cup {k \in Checked(p) : <<p, k>> \notin outrun}
                                      \cup UNION {ClosureOf[q] : q \in owed}}

\* Second half, and commit_pending_closure: own objects are inserted or
\* resurrected, waiting for rows the sweep holds; with the commit they are
\* live, the roots are closures, and the pending rows and their multipart
\* tracking rows are gone.
Commit(p) ==
    /\ pc[p] = "committing"
    /\ Own(p) \cap held = {}
    /\ row' = [k \in Keys |-> IF k \in Own(p) THEN "live" ELSE row[k]]
    /\ closures' = closures \cup req[p].roots
    /\ tracked' = tracked \ {p}
    /\ uploads' = uploads \ ({p} \X Multipart)
    /\ pc' = [pc EXCEPT ![p] = "done"]
    /\ outrun' = {x \in outrun : x[1] # p}
    /\ owed' = owed \cup CoveredRoots(p)
    /\ fresh' = fresh \cup (CoveredRoots(p) \ owed)
    /\ UNCHANGED <<s3, req, offered, done, reg, gcVars, late, tainted>>

\* The transaction is rolled back (a deadlock, a dead connection, a
\* cancelled request). The client asks again, or gives up.
CommitAborts(p) ==
    /\ pc[p] = "committing"
    /\ pc' \in {[pc EXCEPT ![p] = IF offered[p] \cap Narinfos = {} THEN "open" ELSE "signed"],
                [pc EXCEPT ![p] = "failed"]}
    /\ outrun' = {x \in outrun : x[1] # p}
    /\ UNCHANGED <<serverVars, req, offered, done, reg, gcVars, late, tainted, owed, fresh>>

\* 409: a referenced object has been collected. The pending rows stay.
CommitConflict(p) ==
    /\ ReadyToComplete(p)
    /\ p \in tracked
    /\ Missing(p) # {}
    /\ pc' = [pc EXCEPT ![p] = "failed"]
    /\ UNCHANGED <<serverVars, req, offered, done, reg, gcVars, history>>

\* 404: the cleanup dropped the push.
CommitGone(p) ==
    /\ ReadyToComplete(p)
    /\ p \notin tracked
    /\ pc' = [pc EXCEPT ![p] = "failed"]
    /\ UNCHANGED <<serverVars, req, offered, done, reg, gcVars, history>>

-----------------------------------------------------------------------------
(***************************************************************************)
(* Garbage collection.                                                     *)
(***************************************************************************)

\* CleanupPendingClosures: drop old pushes; objects of theirs that have no
\* row get a tombstone so that the sweep finds what was uploaded. Pushes that
\* are being committed hold their row and are skipped.
CleanupPending(old) ==
    /\ \A p \in old : p \in tracked /\ pc[p] # "committing"
    /\ row' = [k \in Keys |-> IF /\ row[k] = "none"
                                 /\ \E p \in old : k \in Own(p)
                              THEN "tomb" ELSE row[k]]
    /\ tracked' = tracked \ old
    /\ uploads' = uploads \ (old \X Multipart)

\* DELETE /api/pending_closures, outside a collection.
CleanupHandler(old) ==
    /\ old # {}
    /\ CleanupPending(old)
    /\ UNCHANGED <<s3, closures, clientVars, gcVars, history>>

\* runGarbageCollection takes the advisory lock: one collection at a time.
GCStart ==
    /\ gcpc = "idle"
    /\ gcpc' = "cleanup"
    /\ UNCHANGED <<serverVars, clientVars, found, held, del, gone, history>>

GCCleanup(old) ==
    /\ gcpc = "cleanup"
    /\ CleanupPending(old)
    /\ gcpc' = "closures"
    /\ UNCHANGED <<s3, closures, clientVars, found, held, del, gone, history>>

\* deleteClosuresBefore.
GCClosures(old) ==
    /\ gcpc = "closures"
    /\ closures' = closures \ old
    /\ owed' = owed \ old
    /\ fresh' = fresh \ old
    /\ gcpc' = "mark"
    /\ UNCHANGED <<row, s3, tracked, uploads, clientVars, found, held, del, gone,
                   late, tainted, outrun>>

\* Mutant: the walk along references is lost.
MarkSnapshotWithoutWalk ==
    /\ gcpc = "mark"
    /\ found' = Live \ (closures \cup PendingKeys)
    /\ fresh' = {}
    /\ gcpc' = "marking"
    /\ UNCHANGED <<serverVars, clientVars, held, del, gone, late, tainted, outrun, owed>>

\* MarkStaleObjects takes its snapshot: live, unreachable, not pending ...
MarkSnapshot ==
    /\ gcpc = "mark"
    /\ found' = Live \ (Reachable \cup PendingKeys)
    /\ fresh' = {}
    /\ gcpc' = "marking"
    /\ UNCHANGED <<serverVars, clientVars, held, del, gone, late, tainted, outrun, owed>>

\* ... and locks and tombstones what it found. A row that changed since the
\* snapshot is only checked again for deleted_at IS NULL.
MarkApply ==
    /\ gcpc = "marking"
    /\ row' = [k \in Keys |-> IF k \in found /\ row[k] = "live" THEN "tomb" ELSE row[k]]
    /\ owed' = {r \in owed : r \in fresh => ClosureOf[r] \cap found \cap Live = {}}
    /\ outrun' = outrun \cup {x \in Pushes \X (found \cap Live) :
                                 pc[x[1]] = "committing" /\ x[2] \in Checked(x[1])}
    /\ found' = {}
    /\ fresh' = {}
    /\ gcpc' = "sweep"
    /\ UNCHANGED <<s3, closures, tracked, uploads, clientVars, held, del, gone,
                   late, tainted>>

\* Mutant: the query does not look at pending rows.
SweepQueryIgnoresPending(page) ==
    /\ gcpc = "sweep"
    /\ page # {}
    /\ \A k \in page : row[k] = "tomb"
    /\ found' = page
    /\ gcpc' = "locking"
    /\ UNCHANGED <<serverVars, clientVars, held, del, gone, history>>

\* LockObjectsReadyForDeletion picks a page of ripe tombstones without a
\* pending row on its snapshot ...
SweepQuery(page) ==
    /\ gcpc = "sweep"
    /\ page # {}
    /\ \A k \in page : row[k] = "tomb" /\ k \notin PendingKeys
    /\ found' = page
    /\ gcpc' = "locking"
    /\ UNCHANGED <<serverVars, clientVars, held, del, gone, history>>

\* Mutant: a row that was resurrected since the snapshot is locked as well.
SweepLockResurrected(skipped) ==
    /\ gcpc = "locking"
    /\ held' = found \ skipped
    /\ found' = {}
    /\ gcpc' = "recheck"
    /\ UNCHANGED <<serverVars, clientVars, del, gone, history>>

\* ... and locks those that still are tombstones; it skips rows that someone
\* else has locked and does not look at pending rows again.
SweepLock(skipped) ==
    /\ gcpc = "locking"
    /\ held' = {k \in found \ skipped : row[k] = "tomb"}
    /\ found' = {}
    /\ gcpc' = "recheck"
    /\ UNCHANGED <<serverVars, clientVars, del, gone, history>>

\* Mutant: no second look at the pending rows.
SweepWithoutRecheck ==
    /\ gcpc = "recheck"
    /\ del' = held
    /\ gcpc' = "deleting"
    /\ UNCHANGED <<serverVars, clientVars, found, held, gone, history>>

\* GetKeysNotPending, on a fresh snapshot now that the rows are locked.
SweepRecheck ==
    /\ gcpc = "recheck"
    /\ del' = held \ PendingKeys
    /\ gcpc' = "deleting"
    /\ UNCHANGED <<serverVars, clientVars, found, held, gone, history>>

\* One key of RemoveObjectsWithResult. The object is gone (deleted, absent,
\* or confirmed absent) and so will its row be; or the delete failed and the
\* tombstone stays, whether or not the object survived.
SweepDelete(k, gonefromS3, confirmed) ==
    /\ gcpc = "deleting"
    /\ k \in del
    /\ confirmed => gonefromS3
    /\ del' = del \ {k}
    /\ s3' = IF gonefromS3 THEN s3 \ {k} ELSE s3
    /\ gone' = IF confirmed THEN gone \cup {k} ELSE gone
    /\ late' = IF gonefromS3 THEN late \cup {x \in reg : x[2] = k} ELSE late
    /\ UNCHANGED <<row, closures, tracked, uploads, clientVars, gcpc, found, held,
                   tainted, outrun, owed, fresh>>

\* DeleteObjects for the confirmed keys, then the transaction commits.
SweepCommit ==
    /\ gcpc = "deleting"
    /\ del = {}
    /\ row' = [k \in Keys |-> IF k \in gone THEN "none" ELSE row[k]]
    /\ tainted' = tainted \ gone
    /\ held' = {}
    /\ gone' = {}
    /\ gcpc' = "sweep"
    /\ UNCHANGED <<s3, closures, tracked, uploads, clientVars, found, del,
                   late, outrun, owed, fresh>>

\* sweepBatch found nothing more; vacuum; the advisory lock is released.
GCFinish ==
    /\ gcpc = "sweep"
    /\ gcpc' = "idle"
    /\ UNCHANGED <<serverVars, clientVars, found, held, del, gone, history>>

\* A phase failed, the context was cancelled or the server died: the open
\* transaction rolls back, what S3 deleted stays deleted.
GCAbort ==
    /\ gcpc # "idle"
    /\ gcpc' = "idle"
    /\ found' = {} /\ held' = {} /\ del' = {} /\ gone' = {} /\ fresh' = {}
    /\ UNCHANGED <<serverVars, clientVars, late, tainted, outrun, owed>>

-----------------------------------------------------------------------------

ClientStep(p) ==
    \/ \E q \in Requests : InsertPending(p, q)
    \/ Lookup(p)
    \/ VerifyS3(p)
    \/ CreateFails(p)
    \/ \E k \in Keys : Put(p, k)
    \/ \E k \in Keys : Skip(p, k)
    \/ \E k \in Multipart : MultipartComplete(p, k)
    \/ \E k \in Multipart : Superseded(p, k)
    \/ \E k \in Keys : RegisterCheck(p, k)
    \/ \E k \in Keys : RegisterUpload(p, k)
    \/ \E k \in Multipart, peers \in SUBSET Pushes : RegisterMultipart(p, k, peers)
    \/ \E k \in Keys : RegisterLost(p, k)
    \/ SignNarinfos(p)
    \/ CommitCheck(p)
    \/ Commit(p)
    \/ CommitAborts(p)
    \/ CommitConflict(p)
    \/ CommitGone(p)

SweepStep ==
    \/ \E skipped \in SUBSET found : SweepLock(skipped)
    \/ SweepRecheck
    \/ \E k \in Keys, gonefromS3, confirmed \in BOOLEAN :
            SweepDelete(k, gonefromS3, confirmed)
    \/ SweepCommit

GCStep ==
    \/ GCStart
    \/ \E old \in SUBSET tracked : GCCleanup(old)
    \/ \E old \in SUBSET closures : GCClosures(old)
    \/ MarkSnapshot
    \/ MarkApply
    \/ \E page \in SUBSET Keys : SweepQuery(page)
    \/ SweepStep
    \/ GCFinish
    \/ GCAbort

Next ==
    \/ \E p \in Pushes : ClientStep(p)
    \/ \E old \in SUBSET tracked : CleanupHandler(old)
    \/ GCStep

Spec == Init /\ [][Next]_vars

\* The server runs the statements it has started: a sweep goes on to its
\* commit unless it fails, and PostgreSQL grants a row lock that is free. The
\* lookup and the commit of a push are such statements; the steps of the
\* client between them are not assumed to happen.
Fairness ==
    /\ WF_vars(SweepStep)
    /\ \A p \in Pushes : /\ WF_vars(Lookup(p)) /\ WF_vars(Commit(p))
                          /\ WF_vars(CommitCheck(p) \/ CommitConflict(p))

FairSpec == Spec /\ Fairness

-----------------------------------------------------------------------------
(***************************************************************************)
(* Properties.                                                             *)
(***************************************************************************)

\* Keys a client cannot leave out of a push it completes.
Required == Keys \ Optional

\* A live row stands for an object in the bucket: pushes skip live keys, so
\* a live row without an object is a hole no later push repairs. The only
\* exception are the rows a late registration wrote (see tainted).
LiveBacked ==
    \A k \in Required : row[k] = "live" => k \in s3 \cup tainted

\* What the server told an open push not to upload, and what the push has
\* uploaded, stays in the bucket until the push ends, whatever collections
\* run meanwhile: createPendingClosureInner writes the pending rows first so
\* that they shield every object from GC.
ShieldedStaysStored ==
    \A p \in tracked : pc[p] \in {"open", "signed", "committing"} =>
        \A k \in Own(p) \cap Required :
            k \notin offered[p] \/ k \in done[p] => k \in s3 \cup tainted

\* A push with verify_s3 repairs even the holes: once it has its answer,
\* every object it need not upload is in the bucket, without exception.
VerifiedIsStored ==
    \A p \in tracked : pc[p] \in {"open", "signed", "committing"} /\ req[p].verify =>
        (Own(p) \cap Required) \ offered[p] \subseteq s3

\* A root that is published with its closure covered keeps it: everything
\* the root leads to, also what a thin push left to others, is live and in
\* the bucket from the commit until GC removes the closure itself. Roots that
\* a running mark may spoil (see fresh and outrun) are left out, and so are
\* those whose closure goes on below what commit_push checks, outside of all
\* that is published.
ClosureComplete ==
    \A r \in owed : \A k \in ClosureOf[r] :
        /\ row[k] = "live"
        /\ k \in Required => k \in s3 \cup tainted

\* PushPaths uploads NARs before it has narinfos signed, so a narinfo that a
\* running push uploads never points at a missing object of that push.
NarinfoAfterItsObjects ==
    [][\A p \in tracked : \A n \in (done'[p] \ done[p]) \cap Narinfos :
          (Refs[n] \cap Own(p) \cap Required) \ Narinfos \subseteq s3 \cup tainted]_vars

\* A push that POST /api/pushes/{id}/complete accepts publishes nothing that
\* dangles: whatever its roots and objects reference is in the bucket then,
\* also what the push left to others (commit_push answers 409 otherwise). The
\* exception is what a mark took between the check and the commit.
CommitPublishesStored ==
    [][\A p \in Pushes : pc'[p] = "done" /\ pc[p] # "done" /\ req[p].checked =>
          \A k \in (Own(p) \cup Relied(p)) \cap Required :
              k \in s3 \cup tainted \/ <<p, k>> \in outrun]_vars

\* The sweep never deletes an object under a push that counts on it: S3
\* loses a key only while its row is a locked tombstone, and a tracked push
\* that has been answered does not own the key.
DeletesOnlyUnshielded ==
    [][\A k \in s3 \ s3' :
          /\ row[k] = "tomb" /\ k \in held
          /\ \A p \in tracked : k \in Own(p) =>
                 pc[p] \notin {"verifying", "open", "signed", "committing"}]_vars

\* A push waits for the sweep only once: its pending rows keep its objects
\* out of later sweeps, so its lookup and its commit get the row locks they
\* need, unless the cleanup drops the push.
PushesGetThrough ==
    \A p \in Pushes :
        /\ (p \in tracked /\ pc[p] = "inserted") ~> ~(p \in tracked /\ pc[p] = "inserted")
        /\ (p \in tracked /\ ReadyToComplete(p)) ~> ~(p \in tracked /\ ReadyToComplete(p))
        /\ pc[p] = "committing" ~> pc[p] # "committing"

-----------------------------------------------------------------------------

\* What the two halves of the system promise together.
BC == INSTANCE BinaryCache WITH published <- owed, stored <- s3 \cup tainted

\* Pushes and collections, however they interleave, amount to storing
\* objects, publishing roots whose closure is stored, retracting roots and
\* dropping objects no published root needs.
ImplementsBinaryCache == BC!Spec

-----------------------------------------------------------------------------
\* What query.sql says of the mark, without the exception that a closure
\* committed while it runs needs: an object in a live closure is not marked.
EveryClosureComplete ==
    \A r \in closures : \A k \in ClosureOf[r] \cap Required : row[k] = "live"
=============================================================================
