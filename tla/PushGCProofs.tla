---------------------------- MODULE PushGCProofs ----------------------------
(***************************************************************************)
(* Proofs that PushGC keeps its promises for every set of keys, every      *)
(* reference relation, every set of requests and any number of pushes.     *)
(*                                                                         *)
(* The safety properties rest on one inductive invariant, Inv. Its first   *)
(* half, Safe, says why no object disappears under a push; its second      *)
(* half says why no object disappears under a published root.              *)
(***************************************************************************)
EXTENDS PushGC, TLAPS

\* The sweep holds locks, and deletes, only while its transaction is open,
\* and only on tombstones.
GCShape ==
    /\ \A k \in held : row[k] = "tomb"
    /\ gcpc \notin {"recheck", "deleting"} => held = {}
    /\ gcpc # "deleting" => del = {} /\ gone = {}
    /\ del \cup gone \subseteq held

\* A push that has not been told what to upload.
Unanswered == {"idle", "inserted", "verifying"}

PushShape ==
    \A p \in Pushes :
        /\ offered[p] \subseteq Own(p)
        /\ pc[p] = "idle" => p \notin tracked /\ offered[p] = {}
        /\ pc[p] \in Unanswered => done[p] = {}
        /\ pc[p] = "signed" => offered[p] \ Narinfos \subseteq done[p]
        /\ pc[p] = "committing" => p \in tracked /\ offered[p] \subseteq done[p]

UploadsTracked ==
    \A p \in Pushes, k \in Multipart : <<p, k>> \in uploads =>
        p \in tracked /\ k \in Own(p) /\ pc[p] \notin Unanswered

\* A registration that no delete has overtaken has its object, and so has
\* any multipart registration of a push that is still under way.
RegBacked ==
    /\ \A p \in Pushes, k \in Keys : <<p, k>> \in reg \ late => k \in s3
    /\ \A p \in Pushes, k \in Multipart : <<p, k>> \in reg =>
          /\ k \in Own(p)
          /\ pc[p] \notin Unanswered
          /\ p \in tracked /\ pc[p] \in {"open", "signed", "committing"} => k \in s3 \cup tainted

\* The heart of the race between push and sweep: a key that the recheck left
\* to be deleted belongs to no push whose lookup is through. A push that
\* comes later waits in its lookup for the row lock.
DoomedUnanswered ==
    \A k \in del \cup gone, p \in tracked :
        k \in Own(p) => pc[p] \in {"inserted", "failed"}

\* ShieldedStaysStored, from the lookup on.
Shielded ==
    \A p \in tracked : pc[p] \in {"verifying", "open", "signed", "committing"} =>
        \A k \in Own(p) \cap Required :
            k \notin offered[p] \/ k \in done[p] => k \in s3 \cup tainted

Safe ==
    /\ TypeOK
    /\ GCShape
    /\ PushShape
    /\ UploadsTracked
    /\ RegBacked
    /\ DoomedUnanswered
    /\ LiveBacked
    /\ Shielded
    /\ VerifiedIsStored

\* Every object under a published root is live.
OwedLive == \A r \in owed : \A k \in ClosureOf[r] : row[k] = "live"

\* A running mark will not tombstone what roots published before its
\* snapshot lead to.
MarkSpares ==
    gcpc = "marking" => \A r \in owed \ fresh : ClosureOf[r] \cap found = {}

\* What a commit has checked stays live until it ends, unless a mark takes
\* it: the sweep, which comes after the mark, is the only other step that
\* touches rows of others, and it touches tombstones.
CheckedStaysLive ==
    \A p \in Pushes : pc[p] = "committing" =>
        \A k \in Checked(p) : <<p, k>> \in outrun \/ row[k] = "live"

Inv == Safe /\ OwedLive /\ MarkSpares /\ CheckedStaysLive

-----------------------------------------------------------------------------
(***************************************************************************)
(* Facts about the operators.                                              *)
(***************************************************************************)

\* Own and roots of any request are sets of keys, of a push not yet created
\* as well.
LEMMA RequestFields ==
    ASSUME NEW q \in Requests \cup {NoRequest}
    PROVE  q.own \subseteq Keys /\ q.roots \subseteq Narinfos
  BY RequestsAssumption DEF Request, NoRequest

\* The closure of a root contains the root and is closed under references.
LEMMA ClosureIsClosed ==
    ASSUME NEW r \in Keys
    PROVE  /\ ClosureOf[r] \subseteq Keys
           /\ r \in ClosureOf[r]
           /\ \A x \in ClosureOf[r] : Refs[x] \subseteq ClosureOf[r]
  BY KindsAssumption DEF ClosureOf

\* closure_reach walks the whole closure of a root as long as every object
\* in it has a row: a set of rows closed under the walk contains it, since
\* its intersection with the closure is closed under references.
LEMMA WalkCoversClosure ==
    ASSUME TypeOK, NEW r \in closures,
           \A k \in ClosureOf[r] : row[k] # "none"
    PROVE  ClosureOf[r] \subseteq Reachable
<1> DEFINE rows == {k \in Keys : row[k] # "none"}
<1>1. r \in Keys
  BY KindsAssumption DEF TypeOK
<1>2. /\ ClosureOf[r] \subseteq rows
      /\ r \in ClosureOf[r]
      /\ \A x \in ClosureOf[r] : Refs[x] \subseteq ClosureOf[r]
  BY <1>1, ClosureIsClosed
<1>3. ASSUME NEW S \in SUBSET rows,
             closures \cap rows \subseteq S,
             \A k \in S : Refs[k] \cap rows \subseteq S
      PROVE  ClosureOf[r] \subseteq S
  <2>1. r \in S \cap ClosureOf[r]
    BY <1>2, <1>3
  <2>2. \A x \in S \cap ClosureOf[r] : Refs[x] \subseteq S \cap ClosureOf[r]
    BY <1>2, <1>3
  <2>3. S \cap ClosureOf[r] \in SUBSET Keys
    BY <1>2
  <2> QED
    BY <1>1, <2>1, <2>2, <2>3 DEF ClosureOf
<1> QED
  BY <1>2, <1>3 DEF Reachable

-----------------------------------------------------------------------------
(***************************************************************************)
(* Type correctness.                                                       *)
(***************************************************************************)

LEMMA TypeInit == Init => TypeOK
  BY DEF Init, TypeOK, RowStates, PushStates, GCStates

LEMMA TypeStep == TypeOK /\ [Next]_vars => TypeOK'
<1> SUFFICES ASSUME TypeOK, [Next]_vars PROVE TypeOK'
  OBVIOUS
<1> USE KindsAssumption, RequestFields
        DEF TypeOK, RowStates, PushStates, GCStates, Own
<1>1. ASSUME NEW p \in Pushes, NEW q \in Requests,
             InsertPending(p, q)
      PROVE  TypeOK'
  BY <1>1 DEF InsertPending, gcVars, history
<1>2. ASSUME NEW p \in Pushes, Lookup(p) PROVE TypeOK'
  BY <1>2 DEF Lookup, Offer, gcVars, history, Live
<1>3. ASSUME NEW p \in Pushes, VerifyS3(p) PROVE TypeOK'
  BY <1>3 DEF VerifyS3, Offer, gcVars, history
<1>4. ASSUME NEW p \in Pushes, CreateFails(p) PROVE TypeOK'
  BY <1>4 DEF CreateFails, gcVars, history
<1>5. ASSUME NEW p \in Pushes, NEW k \in Keys, Put(p, k) PROVE TypeOK'
  BY <1>5 DEF Put, gcVars
<1>6. ASSUME NEW p \in Pushes, NEW k \in Keys, Skip(p, k) PROVE TypeOK'
  BY <1>6 DEF Skip, serverVars, gcVars, history
<1>7. ASSUME NEW p \in Pushes, NEW k \in Multipart,
             MultipartComplete(p, k)
      PROVE  TypeOK'
  BY <1>7 DEF MultipartComplete, gcVars
<1>8. ASSUME NEW p \in Pushes, NEW k \in Multipart,
             Superseded(p, k)
      PROVE  TypeOK'
  BY <1>8 DEF Superseded, serverVars, gcVars, history
<1>9. ASSUME NEW p \in Pushes, NEW k \in Keys,
             RegisterCheck(p, k)
      PROVE  TypeOK'
  BY <1>9 DEF RegisterCheck, serverVars, gcVars, history
<1>10. ASSUME NEW p \in Pushes, NEW k \in Keys,
             RegisterUpload(p, k)
      PROVE  TypeOK'
  BY <1>10 DEF RegisterUpload, RegisterCompletedObject, gcVars
<1>11. ASSUME NEW p \in Pushes, NEW k \in Multipart, NEW peers \in SUBSET Pushes,
             RegisterMultipart(p, k, peers)
      PROVE  TypeOK'
  BY <1>11 DEF RegisterMultipart, RegisterCompletedObject, gcVars
<1>12. ASSUME NEW p \in Pushes, NEW k \in Keys,
             RegisterLost(p, k)
      PROVE  TypeOK'
  BY <1>12 DEF RegisterLost, serverVars, gcVars
<1>13. ASSUME NEW p \in Pushes, SignNarinfos(p) PROVE TypeOK'
  BY <1>13 DEF SignNarinfos, serverVars, gcVars, history
<1>14. ASSUME NEW p \in Pushes, Commit(p) PROVE TypeOK'
  BY <1>14 DEF Commit, gcVars, CoveredRoots
<1>14a. ASSUME NEW p \in Pushes, CommitCheck(p) PROVE TypeOK'
  BY <1>14a DEF CommitCheck, serverVars, gcVars, history
<1>14b. ASSUME NEW p \in Pushes, CommitAborts(p) PROVE TypeOK'
  BY <1>14b DEF CommitAborts, serverVars, gcVars
<1>15. ASSUME NEW p \in Pushes, CommitConflict(p) PROVE TypeOK'
  BY <1>15 DEF CommitConflict, serverVars, gcVars, history
<1>16. ASSUME NEW p \in Pushes, CommitGone(p) PROVE TypeOK'
  BY <1>16 DEF CommitGone, serverVars, gcVars, history
<1>17. ASSUME NEW old \in SUBSET tracked, CleanupHandler(old) PROVE TypeOK'
  BY <1>17 DEF CleanupHandler, CleanupPending, clientVars, gcVars, history
<1>18. CASE GCStart
  BY <1>18 DEF GCStart, serverVars, clientVars, history
<1>19. ASSUME NEW old \in SUBSET tracked, GCCleanup(old) PROVE TypeOK'
  BY <1>19 DEF GCCleanup, CleanupPending, clientVars, history
<1>20. ASSUME NEW old \in SUBSET closures, GCClosures(old) PROVE TypeOK'
  BY <1>20 DEF GCClosures, clientVars
<1>21. CASE MarkSnapshot
  BY <1>21 DEF MarkSnapshot, serverVars, clientVars, Live, PendingKeys
<1>22. CASE MarkApply
  BY <1>22 DEF MarkApply, clientVars
<1>23. ASSUME NEW page \in SUBSET Keys, SweepQuery(page) PROVE TypeOK'
  BY <1>23 DEF SweepQuery, serverVars, clientVars, history
<1>24. ASSUME NEW skipped \in SUBSET found, SweepLock(skipped) PROVE TypeOK'
  BY <1>24 DEF SweepLock, serverVars, clientVars, history
<1>25. CASE SweepRecheck
  BY <1>25 DEF SweepRecheck, serverVars, clientVars, history, PendingKeys
<1>26. ASSUME NEW k \in Keys, NEW gonefromS3 \in BOOLEAN, NEW confirmed \in BOOLEAN,
             SweepDelete(k, gonefromS3, confirmed)
      PROVE  TypeOK'
  BY <1>26 DEF SweepDelete, clientVars
<1>27. CASE SweepCommit
  BY <1>27 DEF SweepCommit, clientVars
<1>28. CASE GCFinish
  BY <1>28 DEF GCFinish, serverVars, clientVars, history
<1>29. CASE GCAbort
  BY <1>29 DEF GCAbort, serverVars, clientVars
<1>30. CASE UNCHANGED vars
  BY <1>30 DEF vars, serverVars, clientVars, gcVars, history
<1> QED
  BY <1>1, <1>2, <1>3, <1>4, <1>5, <1>6, <1>7, <1>8, <1>9, <1>10, <1>11,
     <1>12, <1>13, <1>14, <1>14a, <1>14b, <1>15, <1>16, <1>17, <1>18, <1>19,
     <1>20, <1>21, <1>22, <1>23, <1>24, <1>25, <1>26, <1>27, <1>28, <1>29, <1>30
     DEF Next, ClientStep, GCStep, SweepStep

\* TypeOK: rows, pushes, registrations and collections only ever take values
\* of their types, and the history variables stay within what they record.
THEOREM TypeCorrect == Spec => []TypeOK
<1>1. Init => TypeOK
  BY TypeInit
<1>2. TypeOK /\ [Next]_vars => TypeOK'
  BY TypeStep
<1> QED
  BY <1>1, <1>2, PTL DEF Spec

-----------------------------------------------------------------------------
(***************************************************************************)
(* No object disappears under a push.                                      *)
(***************************************************************************)

LEMMA SafeInit == Init => Safe
<1> SUFFICES ASSUME Init PROVE Safe
  OBVIOUS
<1>1. TypeOK
  BY TypeInit
<1>2. GCShape /\ UploadsTracked /\ RegBacked /\ DoomedUnanswered
  BY DEF Init, GCShape, UploadsTracked, RegBacked, DoomedUnanswered
<1>3. PushShape /\ Shielded /\ VerifiedIsStored
  BY DEF Init, PushShape, Shielded, VerifiedIsStored, Own, NoRequest, Unanswered
<1>4. LiveBacked
  BY DEF Init, LiveBacked, Required
<1> QED
  BY <1>1, <1>2, <1>3, <1>4 DEF Safe

LEMMA SafeStep == Safe /\ [Next]_vars => Safe'
<1> SUFFICES ASSUME Safe, [Next]_vars PROVE Safe'
  OBVIOUS
<1> TypeOK'
  BY TypeStep DEF Safe
<1> USE KindsAssumption, RequestFields DEF Safe, TypeOK, GCShape, PushShape,
   UploadsTracked, RegBacked, DoomedUnanswered, LiveBacked, Shielded,
   VerifiedIsStored, Own, Unanswered, Required
<1>1. ASSUME NEW p \in Pushes, NEW q \in Requests,
             InsertPending(p, q)
      PROVE  Safe'
  BY <1>1 DEF InsertPending, gcVars, history
<1>2. ASSUME NEW p \in Pushes, Lookup(p) PROVE Safe'
  \* The lookup had to wait for any sweep that is deleting one of its keys.
  <2>1. DoomedUnanswered'
    BY <1>2 DEF Lookup, Offer, gcVars
  \* What it reports as present is live, hence stored.
  <2>2. Shielded' /\ VerifiedIsStored'
    BY <1>2 DEF Lookup, Offer, history, Live
  <2>3. /\ GCShape' /\ PushShape' /\ UploadsTracked'
        /\ RegBacked' /\ LiveBacked'
    BY <1>2 DEF Lookup, Offer, gcVars, history
  <2> QED
    BY <2>1, <2>2, <2>3
<1>3. ASSUME NEW p \in Pushes, VerifyS3(p) PROVE Safe'
  BY <1>3 DEF VerifyS3, Offer, gcVars, history
<1>4. ASSUME NEW p \in Pushes, CreateFails(p) PROVE Safe'
  BY <1>4 DEF CreateFails, gcVars, history
<1>5. ASSUME NEW p \in Pushes, NEW k \in Keys, Put(p, k) PROVE Safe'
  BY <1>5 DEF Put, gcVars
<1>6. ASSUME NEW p \in Pushes, NEW k \in Keys, Skip(p, k) PROVE Safe'
  BY <1>6 DEF Skip, serverVars, gcVars, history
<1>7. ASSUME NEW p \in Pushes, NEW k \in Multipart,
             MultipartComplete(p, k)
      PROVE  Safe'
  BY <1>7 DEF MultipartComplete, gcVars
<1>8. ASSUME NEW p \in Pushes, NEW k \in Multipart,
             Superseded(p, k)
      PROVE  Safe'
  BY <1>8 DEF Superseded, serverVars, gcVars, history
<1>9. ASSUME NEW p \in Pushes, NEW k \in Keys, RegisterCheck(p, k) PROVE Safe'
  BY <1>9 DEF RegisterCheck, serverVars, gcVars, history
<1>10. ASSUME NEW p \in Pushes, NEW k \in Keys,
             RegisterUpload(p, k)
      PROVE  Safe'
  BY <1>10 DEF RegisterUpload, RegisterCompletedObject, gcVars
<1>11. ASSUME NEW p \in Pushes, NEW k \in Multipart, NEW peers \in SUBSET Pushes,
             RegisterMultipart(p, k, peers)
      PROVE  Safe'
  \* The new live row is backed unless the registration was overtaken.
  <2>1. LiveBacked'
    BY <1>11 DEF RegisterMultipart, RegisterCompletedObject
  \* The client now counts the NAR as done: it is stored if the push lives.
  <2>2. Shielded' /\ VerifiedIsStored'
    BY <1>11 DEF RegisterMultipart, RegisterCompletedObject
  <2>3. /\ GCShape' /\ PushShape' /\ UploadsTracked'
        /\ RegBacked' /\ DoomedUnanswered'
    BY <1>11 DEF RegisterMultipart, RegisterCompletedObject, gcVars
  <2> QED
    BY <2>1, <2>2, <2>3
<1>12. ASSUME NEW p \in Pushes, NEW k \in Keys, RegisterLost(p, k) PROVE Safe'
  BY <1>12 DEF RegisterLost, serverVars, gcVars
<1>13. ASSUME NEW p \in Pushes, SignNarinfos(p) PROVE Safe'
  BY <1>13 DEF SignNarinfos, serverVars, gcVars, history
<1>14. ASSUME NEW p \in Pushes, Commit(p) PROVE Safe'
  \* Everything the push owns is uploaded or was reported as present.
  <2>1. LiveBacked'
    BY <1>14 DEF Commit
  <2>2. GCShape' /\ DoomedUnanswered'
    BY <1>14 DEF Commit, gcVars
  <2>3. /\ PushShape' /\ UploadsTracked' /\ RegBacked'
        /\ Shielded' /\ VerifiedIsStored'
    BY <1>14 DEF Commit
  <2> QED
    BY <2>1, <2>2, <2>3
<1>14a. ASSUME NEW p \in Pushes, CommitCheck(p) PROVE Safe'
  BY <1>14a DEF CommitCheck, serverVars, gcVars, history, ReadyToComplete
<1>14b. ASSUME NEW p \in Pushes, CommitAborts(p) PROVE Safe'
  BY <1>14b DEF CommitAborts, serverVars, gcVars
<1>15. ASSUME NEW p \in Pushes, CommitConflict(p) PROVE Safe'
  BY <1>15 DEF CommitConflict, serverVars, gcVars, history
<1>16. ASSUME NEW p \in Pushes, CommitGone(p) PROVE Safe'
  BY <1>16 DEF CommitGone, serverVars, gcVars, history
<1>17. ASSUME NEW old \in SUBSET tracked, CleanupHandler(old) PROVE Safe'
  BY <1>17 DEF CleanupHandler, CleanupPending, clientVars, gcVars, history
<1>18. CASE GCStart
  BY <1>18 DEF GCStart, serverVars, clientVars, history
<1>19. ASSUME NEW old \in SUBSET tracked, GCCleanup(old) PROVE Safe'
  BY <1>19 DEF GCCleanup, CleanupPending, clientVars, history
<1>20. ASSUME NEW old \in SUBSET closures, GCClosures(old) PROVE Safe'
  BY <1>20 DEF GCClosures, clientVars
<1>21. CASE MarkSnapshot
  BY <1>21 DEF MarkSnapshot, serverVars, clientVars
<1>22. CASE MarkApply
  BY <1>22 DEF MarkApply, clientVars
<1>23. ASSUME NEW page \in SUBSET Keys, SweepQuery(page) PROVE Safe'
  BY <1>23 DEF SweepQuery, serverVars, clientVars, history
<1>24. ASSUME NEW skipped \in SUBSET found, SweepLock(skipped) PROVE Safe'
  BY <1>24 DEF SweepLock, serverVars, clientVars, history
<1>25. CASE SweepRecheck
  \* No push at all has a pending row for the keys to be deleted.
  <2>1. DoomedUnanswered'
    BY <1>25 DEF SweepRecheck, PendingKeys, serverVars, clientVars
  <2>2. GCShape'
    BY <1>25 DEF SweepRecheck, serverVars
  <2>3. /\ PushShape' /\ UploadsTracked' /\ RegBacked'
        /\ LiveBacked' /\ Shielded' /\ VerifiedIsStored'
    BY <1>25 DEF SweepRecheck, serverVars, clientVars, history
  <2> QED
    BY <2>1, <2>2, <2>3
<1>26. ASSUME NEW k \in Keys, NEW gonefromS3 \in BOOLEAN, NEW confirmed \in BOOLEAN,
             SweepDelete(k, gonefromS3, confirmed)
      PROVE  Safe'
  <2>1. row[k] = "tomb" /\ k \in held
    BY <1>26 DEF SweepDelete
  \* The object was a tombstone's, and no answered push owns it.
  <2>2. LiveBacked' /\ Shielded' /\ VerifiedIsStored'
    BY <1>26, <2>1 DEF SweepDelete, clientVars
  \* Registrations of the key that are under way become late ones.
  <2>3. RegBacked'
    BY <1>26 DEF SweepDelete, clientVars
  <2>4. GCShape' /\ PushShape' /\ UploadsTracked' /\ DoomedUnanswered'
    BY <1>26 DEF SweepDelete, clientVars
  <2> QED
    BY <2>2, <2>3, <2>4
<1>27. CASE SweepCommit
  BY <1>27 DEF SweepCommit, clientVars
<1>28. CASE GCFinish
  BY <1>28 DEF GCFinish, serverVars, clientVars, history
<1>29. CASE GCAbort
  BY <1>29 DEF GCAbort, serverVars, clientVars
<1>30. CASE UNCHANGED vars
  BY <1>30 DEF vars, serverVars, clientVars, gcVars, history
<1> HIDE DEF Safe, TypeOK, GCShape, PushShape, UploadsTracked, RegBacked,
   DoomedUnanswered, LiveBacked, Shielded, VerifiedIsStored
<1> QED
  BY <1>1, <1>2, <1>3, <1>4, <1>5, <1>6, <1>7, <1>8, <1>9, <1>10, <1>11,
     <1>12, <1>13, <1>14, <1>14a, <1>14b, <1>15, <1>16, <1>17, <1>18, <1>19,
     <1>20, <1>21, <1>22, <1>23, <1>24, <1>25, <1>26, <1>27, <1>28, <1>29, <1>30
     DEF Next, ClientStep, GCStep, SweepStep

-----------------------------------------------------------------------------
(***************************************************************************)
(* No object disappears under a published root.                            *)
(***************************************************************************)

\* The closures of roots are sets of keys.
LEMMA OwedClosures ==
    ASSUME TypeOK, NEW r \in closures
    PROVE  ClosureOf[r] \subseteq Keys
  BY KindsAssumption, ClosureIsClosed DEF TypeOK

\* At its commit a push has the closures of its covered roots: what it does
\* not bring itself is live, checked or under a root that is owed.
LEMMA CoveredIsLive ==
    ASSUME OwedLive, CheckedStaysLive, NEW p \in Pushes, pc[p] = "committing",
           NEW r \in CoveredRoots(p), NEW k \in ClosureOf[r]
    PROVE  k \in Own(p) \/ row[k] = "live"
  BY DEF CoveredRoots, CheckedStaysLive, OwedLive

LEMMA ClosureStep ==
    Inv /\ [Next]_vars => OwedLive' /\ MarkSpares'
<1> SUFFICES ASSUME Safe, OwedLive, MarkSpares, CheckedStaysLive, [Next]_vars
             PROVE  OwedLive' /\ MarkSpares'
  BY DEF Inv
<1> TypeOK /\ GCShape
  BY DEF Safe
<1> DEFINE Goal == OwedLive' /\ MarkSpares'
<1> USE OwedClosures DEF TypeOK, GCShape, OwedLive, MarkSpares
<1>1. ASSUME NEW p \in Pushes, NEW q \in Requests,
             InsertPending(p, q)
      PROVE  Goal
  BY <1>1 DEF InsertPending, gcVars, history
<1>2. ASSUME NEW p \in Pushes, Lookup(p) PROVE Goal
  BY <1>2 DEF Lookup, Offer, gcVars, history
<1>3. ASSUME NEW p \in Pushes, VerifyS3(p) PROVE Goal
  BY <1>3 DEF VerifyS3, Offer, gcVars, history
<1>4. ASSUME NEW p \in Pushes, CreateFails(p) PROVE Goal
  BY <1>4 DEF CreateFails, gcVars, history
<1>5. ASSUME NEW p \in Pushes, NEW k \in Keys, Put(p, k) PROVE Goal
  BY <1>5 DEF Put, gcVars
<1>6. ASSUME NEW p \in Pushes, NEW k \in Keys, Skip(p, k) PROVE Goal
  BY <1>6 DEF Skip, serverVars, gcVars, history
<1>7. ASSUME NEW p \in Pushes, NEW k \in Multipart,
             MultipartComplete(p, k)
      PROVE  Goal
  BY <1>7 DEF MultipartComplete, gcVars
<1>8. ASSUME NEW p \in Pushes, NEW k \in Multipart,
             Superseded(p, k)
      PROVE  Goal
  BY <1>8 DEF Superseded, serverVars, gcVars, history
<1>9. ASSUME NEW p \in Pushes, NEW k \in Keys, RegisterCheck(p, k) PROVE Goal
  BY <1>9 DEF RegisterCheck, serverVars, gcVars, history
<1>10. ASSUME NEW p \in Pushes, NEW k \in Keys,
             RegisterUpload(p, k)
      PROVE  Goal
  BY <1>10 DEF RegisterUpload, RegisterCompletedObject, gcVars
<1>11. ASSUME NEW p \in Pushes, NEW k \in Multipart, NEW peers \in SUBSET Pushes,
             RegisterMultipart(p, k, peers)
      PROVE  Goal
  BY <1>11 DEF RegisterMultipart, RegisterCompletedObject, gcVars
<1>12. ASSUME NEW p \in Pushes, NEW k \in Keys, RegisterLost(p, k) PROVE Goal
  BY <1>12 DEF RegisterLost, serverVars, gcVars
<1>13. ASSUME NEW p \in Pushes, SignNarinfos(p) PROVE Goal
  BY <1>13 DEF SignNarinfos, serverVars, gcVars, history
<1>14. ASSUME NEW p \in Pushes, Commit(p) PROVE Goal
  \* A root that becomes owed has its closure among the own objects, which
  \* are live now, what was checked and is live still, and the closures of
  \* owed roots; a running mark learns of the root through fresh.
  <2>1. \A r \in CoveredRoots(p) : \A k \in ClosureOf[r] : k \in Own(p) \/ row[k] = "live"
    <3> HIDE DEF OwedLive
    <3> QED
      BY <1>14, CoveredIsLive DEF Commit
  <2>2. \A r \in CoveredRoots(p) : ClosureOf[r] \subseteq Keys
    BY KindsAssumption, RequestFields, ClosureIsClosed DEF CoveredRoots
  <2>3. OwedLive'
    BY <1>14, <2>1, <2>2 DEF Commit
  <2>4. MarkSpares'
    BY <1>14 DEF Commit, gcVars
  <2> QED
    BY <2>3, <2>4
<1>14a. ASSUME NEW p \in Pushes, CommitCheck(p) PROVE Goal
  BY <1>14a DEF CommitCheck, serverVars, gcVars, history
<1>14b. ASSUME NEW p \in Pushes, CommitAborts(p) PROVE Goal
  BY <1>14b DEF CommitAborts, serverVars, gcVars
<1>15. ASSUME NEW p \in Pushes, CommitConflict(p) PROVE Goal
  BY <1>15 DEF CommitConflict, serverVars, gcVars, history
<1>16. ASSUME NEW p \in Pushes, CommitGone(p) PROVE Goal
  BY <1>16 DEF CommitGone, serverVars, gcVars, history
<1>17. ASSUME NEW old \in SUBSET tracked, CleanupHandler(old) PROVE Goal
  BY <1>17 DEF CleanupHandler, CleanupPending, clientVars, gcVars, history
<1>18. CASE GCStart
  BY <1>18 DEF GCStart, serverVars, clientVars, history
<1>19. ASSUME NEW old \in SUBSET tracked, GCCleanup(old) PROVE Goal
  BY <1>19 DEF GCCleanup, CleanupPending, clientVars, history
<1>20. ASSUME NEW old \in SUBSET closures, GCClosures(old) PROVE Goal
  BY <1>20 DEF GCClosures, clientVars
<1>21. CASE MarkSnapshot
  \* The walk covers the closures of all roots owed at the snapshot.
  <2>1. ASSUME NEW r \in owed PROVE ClosureOf[r] \subseteq Reachable
    BY WalkCoversClosure
  <2>2. MarkSpares'
    BY <1>21, <2>1 DEF MarkSnapshot
  <2>3. OwedLive'
    BY <1>21 DEF MarkSnapshot, serverVars
  <2> QED
    BY <2>2, <2>3
<1>22. CASE MarkApply
  \* What is tombstoned belongs to no root of the snapshot (MarkSpares); a
  \* fresh root that loses an object is no longer owed.
  <2>1. OwedLive'
    BY <1>22 DEF MarkApply, Live
  <2>2. MarkSpares'
    BY <1>22 DEF MarkApply
  <2> QED
    BY <2>1, <2>2
<1>23. ASSUME NEW page \in SUBSET Keys, SweepQuery(page) PROVE Goal
  BY <1>23 DEF SweepQuery, serverVars, clientVars, history
<1>24. ASSUME NEW skipped \in SUBSET found, SweepLock(skipped) PROVE Goal
  BY <1>24 DEF SweepLock, serverVars, clientVars, history
<1>25. CASE SweepRecheck
  BY <1>25 DEF SweepRecheck, serverVars, clientVars, history
<1>26. ASSUME NEW k \in Keys, NEW gonefromS3 \in BOOLEAN, NEW confirmed \in BOOLEAN,
             SweepDelete(k, gonefromS3, confirmed)
      PROVE  Goal
  BY <1>26 DEF SweepDelete, clientVars
<1>27. CASE SweepCommit
  BY <1>27 DEF SweepCommit, clientVars
<1>28. CASE GCFinish
  BY <1>28 DEF GCFinish, serverVars, clientVars, history
<1>29. CASE GCAbort
  BY <1>29 DEF GCAbort, serverVars, clientVars
<1>30. CASE UNCHANGED vars
  BY <1>30 DEF vars, serverVars, clientVars, gcVars, history
<1> HIDE DEF TypeOK, GCShape, OwedLive, MarkSpares
<1> QED
  BY <1>1, <1>2, <1>3, <1>4, <1>5, <1>6, <1>7, <1>8, <1>9, <1>10, <1>11,
     <1>12, <1>13, <1>14, <1>14a, <1>14b, <1>15, <1>16, <1>17, <1>18, <1>19,
     <1>20, <1>21, <1>22, <1>23, <1>24, <1>25, <1>26, <1>27, <1>28, <1>29, <1>30
     DEF Next, ClientStep, GCStep, SweepStep

\* Only a mark makes a tombstone of a live row, and it leaves a note of what
\* it took from commits under way. Any other step keeps live rows live and
\* lets no push but the one of CommitCheck enter its commit.
LEMMA CheckedStep == Inv /\ [Next]_vars => CheckedStaysLive'
<1> SUFFICES ASSUME Inv, [Next]_vars PROVE CheckedStaysLive'
  OBVIOUS
<1> TypeOK /\ GCShape /\ CheckedStaysLive
  BY DEF Inv, Safe
<1> DEFINE Frame ==
      /\ \A p \in Pushes : pc'[p] = "committing" =>
            /\ pc[p] = "committing"
            /\ req'[p] = req[p]
            /\ \A k \in Keys : <<p, k>> \in outrun => <<p, k>> \in outrun'
      /\ \A k \in Keys : row[k] = "live" => row'[k] = "live"
<1>a. ASSUME NEW p \in Pushes PROVE Checked(p) \subseteq Keys
  BY KindsAssumption, RequestFields DEF Checked, Relied, Own, TypeOK
<1>b. ASSUME NEW p \in Pushes, req'[p] = req[p] PROVE Checked(p)' = Checked(p)
  BY <1>b DEF Checked, Relied, Own
<1>c. ASSUME Frame PROVE CheckedStaysLive'
  BY <1>a, <1>b, <1>c DEF CheckedStaysLive
<1> USE DEF TypeOK, GCShape
<1>1. ASSUME NEW p \in Pushes, NEW q \in Requests, InsertPending(p, q) PROVE Frame
  BY <1>1 DEF InsertPending, history
<1>2. ASSUME NEW p \in Pushes, Lookup(p) PROVE Frame
  BY <1>2 DEF Lookup, Offer, history
<1>3. ASSUME NEW p \in Pushes, VerifyS3(p) PROVE Frame
  BY <1>3 DEF VerifyS3, Offer, history
<1>4. ASSUME NEW p \in Pushes, CreateFails(p) PROVE Frame
  BY <1>4 DEF CreateFails, history
<1>5. ASSUME NEW p \in Pushes, NEW k \in Keys, Put(p, k) PROVE Frame
  BY <1>5 DEF Put
<1>6. ASSUME NEW p \in Pushes, NEW k \in Keys, Skip(p, k) PROVE Frame
  BY <1>6 DEF Skip, serverVars, history
<1>7. ASSUME NEW p \in Pushes, NEW k \in Multipart, MultipartComplete(p, k) PROVE Frame
  BY <1>7 DEF MultipartComplete
<1>8. ASSUME NEW p \in Pushes, NEW k \in Multipart, Superseded(p, k) PROVE Frame
  BY <1>8 DEF Superseded, serverVars, history
<1>9. ASSUME NEW p \in Pushes, NEW k \in Keys, RegisterCheck(p, k) PROVE Frame
  BY <1>9 DEF RegisterCheck, serverVars, history
<1>10. ASSUME NEW p \in Pushes, NEW k \in Keys, RegisterUpload(p, k) PROVE Frame
  BY <1>10 DEF RegisterUpload, RegisterCompletedObject
<1>11. ASSUME NEW p \in Pushes, NEW k \in Multipart, NEW peers \in SUBSET Pushes,
             RegisterMultipart(p, k, peers)
      PROVE  Frame
  BY <1>11 DEF RegisterMultipart, RegisterCompletedObject
<1>12. ASSUME NEW p \in Pushes, NEW k \in Keys, RegisterLost(p, k) PROVE Frame
  BY <1>12 DEF RegisterLost, serverVars
<1>13. ASSUME NEW p \in Pushes, SignNarinfos(p) PROVE Frame
  BY <1>13 DEF SignNarinfos, serverVars, history
<1>14. ASSUME NEW p \in Pushes, Commit(p) PROVE Frame
  BY <1>14 DEF Commit
<1>14a. ASSUME NEW p \in Pushes, CommitCheck(p) PROVE CheckedStaysLive'
  <2>1. \A k \in Checked(p) : row[k] = "live"
    BY <1>14a, <1>a DEF CommitCheck, Missing, Live
  <2>2. \A q \in Pushes : /\ pc'[q] = "committing" => q = p \/ pc[q] = "committing"
                          /\ Checked(q)' = Checked(q)
    BY <1>14a, <1>b DEF CommitCheck
  <2> QED
    BY <1>14a, <2>1, <2>2 DEF CheckedStaysLive, CommitCheck, serverVars, history
<1>14b. ASSUME NEW p \in Pushes, CommitAborts(p) PROVE Frame
  BY <1>14b DEF CommitAborts, serverVars
<1>15. ASSUME NEW p \in Pushes, CommitConflict(p) PROVE Frame
  BY <1>15 DEF CommitConflict, serverVars, history
<1>16. ASSUME NEW p \in Pushes, CommitGone(p) PROVE Frame
  BY <1>16 DEF CommitGone, serverVars, history
<1>17. ASSUME NEW old \in SUBSET tracked, CleanupHandler(old) PROVE Frame
  BY <1>17 DEF CleanupHandler, CleanupPending, clientVars, history
<1>18. ASSUME GCStart PROVE Frame
  BY <1>18 DEF GCStart, serverVars, clientVars, history
<1>19. ASSUME NEW old \in SUBSET tracked, GCCleanup(old) PROVE Frame
  BY <1>19 DEF GCCleanup, CleanupPending, clientVars, history
<1>20. ASSUME NEW old \in SUBSET closures, GCClosures(old) PROVE Frame
  BY <1>20 DEF GCClosures, clientVars
<1>21. ASSUME MarkSnapshot PROVE Frame
  BY <1>21 DEF MarkSnapshot, serverVars, clientVars
<1>22. CASE MarkApply
  <2>1. \A p \in Pushes : Checked(p)' = Checked(p)
    BY <1>22, <1>b DEF MarkApply, clientVars
  <2> QED
    BY <1>22, <1>a, <2>1 DEF CheckedStaysLive, MarkApply, Live, clientVars
<1>23. ASSUME NEW page \in SUBSET Keys, SweepQuery(page) PROVE Frame
  BY <1>23 DEF SweepQuery, serverVars, clientVars, history
<1>24. ASSUME NEW skipped \in SUBSET found, SweepLock(skipped) PROVE Frame
  BY <1>24 DEF SweepLock, serverVars, clientVars, history
<1>25. ASSUME SweepRecheck PROVE Frame
  BY <1>25 DEF SweepRecheck, serverVars, clientVars, history
<1>26. ASSUME NEW k \in Keys, NEW gonefromS3 \in BOOLEAN, NEW confirmed \in BOOLEAN,
             SweepDelete(k, gonefromS3, confirmed)
      PROVE  Frame
  BY <1>26 DEF SweepDelete, clientVars
<1>27. ASSUME SweepCommit PROVE Frame
  BY <1>27 DEF SweepCommit, clientVars
<1>28. ASSUME GCFinish PROVE Frame
  BY <1>28 DEF GCFinish, serverVars, clientVars, history
<1>29. ASSUME GCAbort PROVE Frame
  BY <1>29 DEF GCAbort, serverVars, clientVars
<1>30. ASSUME UNCHANGED vars PROVE Frame
  BY <1>30 DEF vars, serverVars, clientVars, history
<1> HIDE DEF TypeOK, GCShape, Frame
<1> QED
  BY <1>1, <1>2, <1>3, <1>4, <1>5, <1>6, <1>7, <1>8, <1>9, <1>10, <1>11,
     <1>12, <1>13, <1>14, <1>14a, <1>14b, <1>15, <1>16, <1>17, <1>18, <1>19,
     <1>20, <1>21, <1>22, <1>23, <1>24, <1>25, <1>26, <1>27, <1>28, <1>29,
     <1>30, <1>c DEF Next, ClientStep, GCStep, SweepStep

LEMMA InvInit == Init => Inv
<1> SUFFICES ASSUME Init PROVE Inv
  OBVIOUS
<1>1. Safe
  BY SafeInit
<1>2. OwedLive /\ MarkSpares /\ CheckedStaysLive
  BY DEF Init, OwedLive, MarkSpares, CheckedStaysLive
<1> QED
  BY <1>1, <1>2 DEF Inv

LEMMA InvStep == Inv /\ [Next]_vars => Inv'
  BY SafeStep, ClosureStep, CheckedStep DEF Inv

LEMMA Invariance == Spec => []Inv
  BY InvInit, InvStep, PTL DEF Spec

-----------------------------------------------------------------------------
(***************************************************************************)
(* The results.                                                            *)
(***************************************************************************)

\* LiveBacked: every live row of a required object stands for an object in
\* the bucket, whatever pushes, registrations, cleanups and sweeps
\* interleave; only a late registration can make an exception.
THEOREM LiveRowsAreBacked == Spec => []LiveBacked
<1>1. Inv => LiveBacked
  BY DEF Inv, Safe
<1> QED
  BY <1>1, Invariance, PTL

\* ShieldedStaysStored: GC never takes an object from a push that has been
\* told it need not upload it, or that has uploaded it.
THEOREM PushesAreShielded == Spec => []ShieldedStaysStored
<1>1. Inv => ShieldedStaysStored
  BY DEF Inv, Safe, Shielded, ShieldedStaysStored
<1> QED
  BY <1>1, Invariance, PTL

\* VerifiedIsStored: a push with verify_s3 can rely on the bucket itself.
THEOREM VerifiedPushesAreStored == Spec => []VerifiedIsStored
<1>1. Inv => VerifiedIsStored
  BY DEF Inv, Safe
<1> QED
  BY <1>1, Invariance, PTL

\* ClosureComplete: a root that is published with its closure covered, by a
\* full or by a thin push, keeps the whole of it, live and in the bucket,
\* until GC expires the root or a mark that was running at its commit has
\* taken an object of it.
THEOREM PublishedClosuresAreComplete == Spec => []ClosureComplete
<1>1. Inv => ClosureComplete
  BY OwedClosures DEF Inv, Safe, OwedLive, LiveBacked, ClosureComplete, TypeOK
<1> QED
  BY <1>1, Invariance, PTL

\* DeletesOnlyUnshielded: the sweep deletes from S3 only under its row lock,
\* and never what an answered push counts on.
THEOREM SweepSparesPushes == Spec => DeletesOnlyUnshielded
<1> DEFINE Spares ==
      \A k \in s3 \ s3' :
          /\ row[k] = "tomb" /\ k \in held
          /\ \A p \in tracked : k \in Own(p) =>
                 pc[p] \notin {"verifying", "open", "signed", "committing"}
<1>1. Inv /\ [Next]_vars => [Spares]_vars
  <2> SUFFICES ASSUME Inv, [Next]_vars PROVE Spares
    OBVIOUS
  <2>1. CASE s3 \subseteq s3'
    BY <2>1
  <2>2. ASSUME NEW k \in Keys, NEW gonefromS3 \in BOOLEAN, NEW confirmed \in BOOLEAN,
               SweepDelete(k, gonefromS3, confirmed)
        PROVE  Spares
    BY <2>2 DEF Inv, Safe, GCShape, DoomedUnanswered, TypeOK, SweepDelete
  <2>3. \/ s3 \subseteq s3'
        \/ \E k \in Keys, gonefromS3, confirmed \in BOOLEAN :
              SweepDelete(k, gonefromS3, confirmed)
    BY DEF Next, ClientStep, GCStep, SweepStep, vars, serverVars,
           InsertPending, Lookup, VerifyS3, CreateFails, Put, Skip,
           MultipartComplete, Superseded, RegisterCheck, RegisterUpload,
           RegisterMultipart, RegisterLost, SignNarinfos, CommitCheck,
           Commit, CommitAborts, CommitConflict, CommitGone, CleanupHandler, GCStart, GCCleanup,
           GCClosures, MarkSnapshot, MarkApply, SweepQuery, SweepLock,
           SweepRecheck, SweepCommit, GCFinish, GCAbort
  <2> QED
    BY <2>1, <2>2, <2>3
<1> QED
  BY <1>1, Invariance, PTL DEF Spec, DeletesOnlyUnshielded

\* NarinfoAfterItsObjects: by the time a client uploads a narinfo, whatever
\* the narinfo points at among the objects of the push is in the bucket.
THEOREM NarinfosComeLast == Spec => NarinfoAfterItsObjects
<1> DEFINE Ordered ==
      \A p \in tracked : \A n \in (done'[p] \ done[p]) \cap Narinfos :
          (Refs[n] \cap Own(p) \cap Required) \ Narinfos \subseteq s3 \cup tainted
<1>1. Inv /\ [Next]_vars => [Ordered]_vars
  <2> SUFFICES ASSUME Inv, [Next]_vars PROVE Ordered
    OBVIOUS
  <2> TypeOK /\ PushShape /\ Shielded
    BY DEF Inv, Safe
  <2>1. ASSUME NEW p \in Pushes, NEW k \in Keys, Put(p, k) PROVE Ordered
    BY <2>1, KindsAssumption DEF TypeOK, Put, PushShape, Shielded
  \* The other steps that extend done do so with a NAR.
  <2>2. ASSUME NEW p \in Pushes, NEW k \in Multipart,
               done' = [done EXCEPT ![p] = @ \cup {k}]
        PROVE  Ordered
    BY <2>2, KindsAssumption DEF TypeOK
  <2>3. CASE done' = done
    BY <2>3
  <2>4. \/ \E p \in Pushes, k \in Keys : Put(p, k)
        \/ \E p \in Pushes, k \in Multipart : done' = [done EXCEPT ![p] = @ \cup {k}]
        \/ done' = done
    BY DEF Next, ClientStep, GCStep, SweepStep, vars, clientVars,
           InsertPending, Lookup, VerifyS3, CreateFails, Skip,
           MultipartComplete, Superseded, RegisterCheck, RegisterUpload,
           RegisterMultipart, RegisterLost, SignNarinfos, CommitCheck,
           Commit, CommitAborts, CommitConflict, CommitGone, CleanupHandler, GCStart, GCCleanup,
           GCClosures, MarkSnapshot, MarkApply, SweepQuery, SweepLock,
           SweepRecheck, SweepDelete, SweepCommit, GCFinish, GCAbort
  <2> QED
    BY <2>1, <2>2, <2>3, <2>4
<1> QED
  BY <1>1, Invariance, PTL DEF Spec, NarinfoAfterItsObjects

\* CommitPublishesStored: a push the checked route accepts references only
\* objects that are in the bucket when it commits, but for those a mark took
\* after the commit had checked them.
THEOREM CommitsPublishStoredObjects == Spec => CommitPublishesStored
<1> DEFINE Stored ==
      \A p \in Pushes : pc'[p] = "done" /\ pc[p] # "done" /\ req[p].checked =>
          \A k \in (Own(p) \cup Relied(p)) \cap Required :
              k \in s3 \cup tainted \/ <<p, k>> \in outrun
<1>1. Inv /\ [Next]_vars => [Stored]_vars
  <2> SUFFICES ASSUME Inv, [Next]_vars PROVE Stored
    OBVIOUS
  <2> TypeOK /\ LiveBacked /\ PushShape /\ Shielded /\ CheckedStaysLive
    BY DEF Inv, Safe
  <2>1. ASSUME NEW p \in Pushes, Commit(p) PROVE Stored
    <3>1. Own(p) \cap Required \subseteq s3 \cup tainted
      BY <2>1 DEF TypeOK, Commit, PushShape, Shielded
    <3>2. req[p].checked => \A k \in Relied(p) : <<p, k>> \in outrun \/ row[k] = "live"
      BY <2>1 DEF Commit, CheckedStaysLive, Checked
    <3> QED
      BY <2>1, <3>1, <3>2 DEF TypeOK, Commit, LiveBacked
  <2>2. CASE \A p \in Pushes : pc'[p] = "done" => pc[p] = "done"
    BY <2>2
  <2>3. \/ \E p \in Pushes : Commit(p)
        \/ \A p \in Pushes : pc'[p] = "done" => pc[p] = "done"
    BY DEF TypeOK, Next, ClientStep, GCStep, SweepStep, vars, clientVars,
           InsertPending, Lookup, VerifyS3, Offer, CreateFails, Put, Skip,
           MultipartComplete, Superseded, RegisterCheck, RegisterUpload,
           RegisterMultipart, RegisterLost, SignNarinfos, CommitCheck,
           CommitAborts, CommitConflict, CommitGone, CleanupHandler, GCStart, GCCleanup,
           GCClosures, MarkSnapshot, MarkApply, SweepQuery, SweepLock,
           SweepRecheck, SweepDelete, SweepCommit, GCFinish, GCAbort
  <2> QED
    BY <2>1, <2>2, <2>3
<1> QED
  BY <1>1, Invariance, PTL DEF Spec, CommitPublishesStored

-----------------------------------------------------------------------------
(***************************************************************************)
(* The detailed specification implements BinaryCache.                      *)
(***************************************************************************)

\* No published root needs a key whose row is a tombstone.
LEMMA TombstonesAreUnneeded ==
    ASSUME Inv, NEW K, \A k \in K : row[k] = "tomb"
    PROVE  \A r \in owed : BC!Needs(r) \cap K = {}
  BY DEF Inv, OwedLive, BC!Needs

LEMMA BinaryCacheStep == Inv /\ [Next]_vars => [BC!Next]_(BC!vars)
<1> DEFINE stored == s3 \cup tainted
           Goal == [BC!Next]_(BC!vars)
<1> SUFFICES ASSUME Inv, [Next]_vars PROVE Goal
  OBVIOUS
<1> TypeOK
  BY DEF Inv, Safe
<1>a. ASSUME NEW k \in Keys, stored' = stored \cup {k}, owed' = owed PROVE Goal
  BY <1>a DEF BC!Next, BC!Store
<1>b. ASSUME NEW R \in SUBSET Narinfos, stored' = stored, owed' = owed \ R PROVE Goal
  BY <1>b DEF BC!Next, BC!Retract
<1>c. ASSUME NEW K \in SUBSET Keys, \A k \in K : row[k] = "tomb",
             stored' = stored \ K, owed' = owed
      PROVE  Goal
  BY <1>c, TombstonesAreUnneeded DEF BC!Next, BC!Drop
<1>d. ASSUME stored' = stored, owed' = owed PROVE Goal
  BY <1>d DEF BC!vars
<1> HIDE DEF Goal
<1>1. ASSUME NEW p \in Pushes, NEW q \in Requests,
             InsertPending(p, q)
      PROVE  Goal
  BY <1>1, <1>d DEF InsertPending, history
<1>2. ASSUME NEW p \in Pushes, Lookup(p) PROVE Goal
  BY <1>2, <1>d DEF Lookup, history
<1>3. ASSUME NEW p \in Pushes, VerifyS3(p) PROVE Goal
  BY <1>3, <1>d DEF VerifyS3, history
<1>4. ASSUME NEW p \in Pushes, CreateFails(p) PROVE Goal
  BY <1>4, <1>d DEF CreateFails, history
<1>5. ASSUME NEW p \in Pushes, NEW k \in Keys, Put(p, k) PROVE Goal
  BY <1>5, <1>a DEF Put
<1>6. ASSUME NEW p \in Pushes, NEW k \in Keys, Skip(p, k) PROVE Goal
  BY <1>6, <1>d DEF Skip, serverVars, history
<1>7. ASSUME NEW p \in Pushes, NEW k \in Multipart,
             MultipartComplete(p, k)
      PROVE  Goal
  BY <1>7, <1>a, KindsAssumption DEF MultipartComplete
<1>8. ASSUME NEW p \in Pushes, NEW k \in Multipart,
             Superseded(p, k)
      PROVE  Goal
  BY <1>8, <1>d DEF Superseded, serverVars, history
<1>9. ASSUME NEW p \in Pushes, NEW k \in Keys, RegisterCheck(p, k) PROVE Goal
  BY <1>9, <1>d DEF RegisterCheck, serverVars, history
<1>10. ASSUME NEW p \in Pushes, NEW k \in Keys,
             RegisterUpload(p, k)
      PROVE  Goal
  BY <1>10, <1>a, <1>d DEF RegisterUpload, RegisterCompletedObject
<1>11. ASSUME NEW p \in Pushes, NEW k \in Multipart, NEW peers \in SUBSET Pushes,
             RegisterMultipart(p, k, peers)
      PROVE  Goal
  BY <1>11, <1>a, <1>d, KindsAssumption DEF RegisterMultipart, RegisterCompletedObject
<1>12. ASSUME NEW p \in Pushes, NEW k \in Keys, RegisterLost(p, k) PROVE Goal
  BY <1>12, <1>d DEF RegisterLost, serverVars
<1>13. ASSUME NEW p \in Pushes, SignNarinfos(p) PROVE Goal
  BY <1>13, <1>d DEF SignNarinfos, serverVars, history
<1>14. ASSUME NEW p \in Pushes, Commit(p) PROVE Goal
  <2>1. Own(p) \cap Required \subseteq stored
    BY <1>14 DEF Inv, Safe, TypeOK, PushShape, Shielded, Commit
  <2>2. \A r \in CoveredRoots(p) : \A k \in ClosureOf[r] : k \in Own(p) \/ row[k] = "live"
    BY <1>14, CoveredIsLive DEF Inv, Commit
  <2>3. ASSUME NEW r \in CoveredRoots(p) PROVE BC!Needs(r) \subseteq stored
    BY <2>1, <2>2, <2>3 DEF Inv, Safe, LiveBacked, BC!Needs
  <2>4. CoveredRoots(p) \in SUBSET Narinfos
    BY RequestFields DEF CoveredRoots, TypeOK
  <2> QED
    BY <1>14, <2>3, <2>4 DEF Commit, Goal, BC!Next, BC!Publish
<1>14a. ASSUME NEW p \in Pushes, CommitCheck(p) PROVE Goal
  BY <1>14a, <1>d DEF CommitCheck, serverVars, history
<1>14b. ASSUME NEW p \in Pushes, CommitAborts(p) PROVE Goal
  BY <1>14b, <1>d DEF CommitAborts, serverVars
<1>15. ASSUME NEW p \in Pushes, CommitConflict(p) PROVE Goal
  BY <1>15, <1>d DEF CommitConflict, serverVars, history
<1>16. ASSUME NEW p \in Pushes, CommitGone(p) PROVE Goal
  BY <1>16, <1>d DEF CommitGone, serverVars, history
<1>17. ASSUME NEW old \in SUBSET tracked, CleanupHandler(old) PROVE Goal
  BY <1>17, <1>d DEF CleanupHandler, history
<1>18. CASE GCStart
  BY <1>18, <1>d DEF GCStart, serverVars, history
<1>19. ASSUME NEW old \in SUBSET tracked, GCCleanup(old) PROVE Goal
  BY <1>19, <1>d DEF GCCleanup, history
<1>20. ASSUME NEW old \in SUBSET closures, GCClosures(old) PROVE Goal
  BY <1>20, <1>b DEF GCClosures, TypeOK
<1>21. CASE MarkSnapshot
  BY <1>21, <1>d DEF MarkSnapshot, serverVars
<1>22. CASE MarkApply
  <2>1. owed' = owed \ (owed \ owed') /\ owed \ owed' \in SUBSET Narinfos
    BY <1>22 DEF MarkApply, TypeOK
  <2> QED
    BY <1>22, <2>1, <1>b DEF MarkApply
<1>23. ASSUME NEW page \in SUBSET Keys, SweepQuery(page) PROVE Goal
  BY <1>23, <1>d DEF SweepQuery, serverVars, history
<1>24. ASSUME NEW skipped \in SUBSET found, SweepLock(skipped) PROVE Goal
  BY <1>24, <1>d DEF SweepLock, serverVars, history
<1>25. CASE SweepRecheck
  BY <1>25, <1>d DEF SweepRecheck, serverVars, history
<1>26. ASSUME NEW k \in Keys, NEW gonefromS3 \in BOOLEAN, NEW confirmed \in BOOLEAN,
             SweepDelete(k, gonefromS3, confirmed)
      PROVE  Goal
  <2>1. row[k] = "tomb"
    BY <1>26 DEF Inv, Safe, GCShape, SweepDelete
  <2>2. CASE stored' = stored
    BY <1>26, <2>2, <1>d DEF SweepDelete
  <2>3. CASE stored' # stored
    <3>1. stored' = stored \ {k} /\ owed' = owed
      BY <1>26, <2>3 DEF SweepDelete
    <3> QED
      BY <2>1, <3>1, <1>c
  <2> QED
    BY <2>2, <2>3
<1>27. CASE SweepCommit
  <2>1. \A k \in gone : row[k] = "tomb"
    BY DEF Inv, Safe, GCShape
  <2>2. stored' = stored \ (gone \ s3) /\ owed' = owed
    BY <1>27 DEF SweepCommit
  <2> QED
    BY <2>1, <2>2, <1>c DEF TypeOK
<1>28. CASE GCFinish
  BY <1>28, <1>d DEF GCFinish, serverVars, history
<1>29. CASE GCAbort
  BY <1>29, <1>d DEF GCAbort, serverVars
<1>30. CASE UNCHANGED vars
  BY <1>30, <1>d DEF vars, serverVars, history
<1> QED
  BY <1>1, <1>2, <1>3, <1>4, <1>5, <1>6, <1>7, <1>8, <1>9, <1>10, <1>11,
     <1>12, <1>13, <1>14, <1>14a, <1>14b, <1>15, <1>16, <1>17, <1>18, <1>19,
     <1>20, <1>21, <1>22, <1>23, <1>24, <1>25, <1>26, <1>27, <1>28, <1>29, <1>30
     DEF Next, ClientStep, GCStep, SweepStep

\* ImplementsBinaryCache: pushes and collections together behave like a cache
\* that publishes only stored closures and drops only what no root needs.
THEOREM PushGCImplementsBinaryCache == Spec => ImplementsBinaryCache
<1>1. Init => BC!Init
  BY DEF Init, BC!Init
<1> QED
  BY <1>1, BinaryCacheStep, Invariance, PTL DEF Spec, ImplementsBinaryCache, BC!Spec
=============================================================================
