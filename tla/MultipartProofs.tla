--------------------------- MODULE MultipartProofs ---------------------------
(***************************************************************************)
(* Proofs that multipart uploads finish whole or not at all and that S3    *)
(* keeps no upload nobody knows of, for every set of pushes, every number  *)
(* of parts, of URLs per request and of slots, and any number of faults.   *)
(*                                                                         *)
(* An upload is whole because an error anywhere in the part loop is seen   *)
(* before the completing request: a loop that returned nil with no part    *)
(* failed and a live context has read to the end (PartsSoFar), or to an    *)
(* error it took for the end, and a part it read is in flight or sent. An  *)
(* upload is found because a row only goes when its upload is settled:     *)
(* closed, or its failed abort logged.                                     *)
(* At the end, that the part sizes leave no NAR without enough parts.      *)
(***************************************************************************)
EXTENDS Multipart, PartSizes, FiniteSetTheorems, WellFoundedInduction, TLAPS

\* The upload of p no longer needs its tracking row.
Settled(p) == s3[p] # "open" \/ p \in logged

\* A state in which the push relies on the object.
Served == {"accepted", "untracked", "aborting", "done", "superseded", "committed"}

Typed ==
    /\ s3 \in [Pushes -> {"none", "open", "gone"}]
    /\ pc \in [Pushes -> PushStates]
    /\ next \in [Pushes -> 1..(Chunks + 1)]
    /\ reader \in [Pushes -> {"read", "nil", "error", "notFound"}]
    /\ inflight \in [Pushes -> SUBSET (1..Chunks)]
    /\ sent \in [Pushes -> SUBSET (1..Chunks)]
    /\ putErr \in [Pushes -> {"none", "notFound", "error"}]
    /\ cancelled \in [Pushes -> BOOLEAN]
    /\ sweep \in [on : BOOLEAN, old : SUBSET Pushes, left : SUBSET Pushes, keep : SUBSET Pushes]

\* The loop has not begun before the upload is handed out.
LoopAtStart ==
    \A p \in Pushes : pc[p] \in {"idle", "opened"} =>
        /\ next[p] = 1 /\ reader[p] = "read" /\ putErr[p] = "none"
        /\ sent[p] = {} /\ inflight[p] = {}

\* The parts read so far are in flight or sent unless one failed, and a loop
\* that returned nil although nothing stopped it has read them all.
PartsSoFar ==
    \A p \in Pushes : pc[p] = "upload" =>
        /\ \A n \in sent[p] \cup inflight[p] : n < next[p]
        /\ putErr[p] = "none" =>
              \A n \in 1..Chunks : n < next[p] => n \in sent[p] \cup inflight[p]
        /\ reader[p] = "nil" /\ ~Stopped(p) => next[p] = Chunks + 1 \/ p \in cut

\* The completed parts are those of the stream up to where the loop ended:
\* all of them unless the dump was cut.
FromTheFirst(p) == \E k \in 0..Chunks : sent[p] = 1..k /\ (k = Chunks \/ p \in cut)

\* A completing request lists them; a cancelled push sends none.
AllPartsListed ==
    \A p \in Pushes :
        /\ pc[p] \in {"complete"} \cup InHandler => cancelled[p] \/ FromTheFirst(p)
        /\ pc[p] \in InHandler => ~cancelled[p] /\ sent[p] # {}

\* Whoever relies on the object finds it.
ServedHasObject == \A p \in Pushes : pc[p] \in Served => object # <<>>

\* A push that relies on the object, or that S3 told 404, has no open upload
\* that is unknown.
ServedIsSettled ==
    \A p \in Pushes :
        /\ pc[p] \in Served => Settled(p)
        /\ putErr[p] = "notFound" => Settled(p)

\* A push has its pending row only once it asked for its upload.
IdleHasNoRow == \A p \in Pushes : pc[p] = "idle" => p \notin pending

\* What the cleanup neither has still to abort nor keeps is settled.
SweptIsSettled ==
    sweep.on => \A p \in sweep.old :
        /\ pc[p] \notin {"idle", "opened"}
        /\ p \in sweep.left \cup sweep.keep \/ Settled(p)

\* The three parts of the inductive invariant: the part loop, the object and
\* the rows.
LoopInv   == Typed /\ LoopAtStart /\ PartsSoFar /\ AllPartsListed
ObjectInv == ObjectIsWhole /\ ServedHasObject
RowsInv   == OpenIsTracked /\ ServedIsSettled /\ IdleHasNoRow /\ SweptIsSettled
Inv       == LoopInv /\ ObjectInv /\ RowsInv

-----------------------------------------------------------------------------

\* An increasing sequence of the numbers up to k that has k elements is the
\* numbers themselves: at the first place where it differed it would leave a
\* number out.
LEMMA IncreasingIsIdentity ==
    ASSUME NEW k \in Nat, NEW s \in [1..k -> 1..k],
           \A i, j \in 1..k : i < j => s[i] < s[j]
    PROVE  s = [n \in 1..k |-> n]
<1>1. SUFFICES ASSUME NEW m \in 1..k, s[m] # m PROVE FALSE
  OBVIOUS
<1> DEFINE Bad == {n \in 1..k : s[n] # n}
<1>2. PICK b \in Bad : \A n \in Bad : ~(<<n, b>> \in OpToRel(<, Nat))
  <2>1. Bad \in SUBSET Nat /\ Bad # {} BY <1>1
  <2> HIDE DEF Bad
  <2> QED BY <2>1, NatLessThanWellFounded, WFMin
<1>3. \A n \in 1..k : n < b => s[n] = n
  <2>1. ASSUME NEW n \in 1..k, n < b, s[n] # n PROVE FALSE
    <3>1. n \in Bad BY <2>1
    <3>2. <<n, b>> \in OpToRel(<, Nat) BY <2>1 DEF OpToRel
    <3> QED BY <1>2, <3>1, <3>2
  <2> QED BY <2>1
<1>4. b \in 1..k /\ s[b] # b BY <1>2
<1> HIDE DEF Bad
<1>5. PICK j \in 1..k : s[j] = b
  <2>1. \A i, j \in 1..k : s[i] = s[j] => i = j
    <3>1. SUFFICES ASSUME NEW i \in 1..k, NEW j \in 1..k, s[i] = s[j], i # j PROVE FALSE
      OBVIOUS
    <3>2. i \in Nat /\ j \in Nat /\ s[i] \in Nat /\ s[j] \in Nat OBVIOUS
    <3>3. CASE i < j BY <3>1, <3>2, <3>3
    <3>4. CASE j < i BY <3>1, <3>2, <3>4
    <3> QED BY <3>1, <3>2, <3>3, <3>4
  <2>2. s \in Injection(1..k, 1..k) BY <2>1 DEF Injection, IsInjective
  <2>3. IsFiniteSet(1..k) BY FS_Interval
  <2>4. s \in Surjection(1..k, 1..k) BY <2>2, <2>3, FS_Injection
  <2> QED BY <1>4, <2>4 DEF Surjection
<1>6. j > b
  <2>1. j # b BY <1>4, <1>5
  <2>2. ~(j < b) BY <1>3, <1>5, <2>1
  <2> QED BY <1>4, <2>1, <2>2
<1>7. s[b] < b BY <1>4, <1>5, <1>6
<1>8. s[b] \in 1..k BY <1>4
<1>9. s[s[b]] = s[b] BY <1>3, <1>7, <1>8
<1>10. s[s[b]] < s[b] BY <1>4, <1>7, <1>8
<1> QED BY <1>8, <1>9, <1>10

\* Listing the parts up to c in ascending order lists the stream as it was read.
LEMMA ListedInOrder ==
    ASSUME NEW p \in Pushes, NEW c \in Nat, sent[p] = 1..c
    PROVE  Listed(p) = [n \in 1..c |-> n]
<1> DEFINE Up(s) == \A i, j \in DOMAIN s : i < j => s[i] < s[j]
           id == [n \in 1..c |-> n]
<1>1. Cardinality(1..c) = c
  BY FS_Interval
<1>2. id \in [1..c -> 1..c] /\ Up(id)
  OBVIOUS
<1>3. Listed(p) = CHOOSE s \in [1..c -> 1..c] : Up(s)
  BY <1>1 DEF Listed
<1>4. Listed(p) \in [1..c -> 1..c] /\ Up(Listed(p))
  BY <1>2, <1>3
<1>5. \A i, j \in 1..c : i < j => Listed(p)[i] < Listed(p)[j]
  BY <1>4
<1> HIDE DEF Up
<1> QED BY <1>4, <1>5, IncreasingIsIdentity

-----------------------------------------------------------------------------

\* Nothing is open and nothing is sent to begin with.
LEMMA InitInv == Init => Inv
<1> SUFFICES ASSUME Init PROVE Inv
  OBVIOUS
<1>1. ObjectIsWhole
  <2>1. object = [n \in 1..0 |-> n] BY DEF Init
  <2>2. 0 \in 0..Chunks BY SizesAssumption
  <2> QED BY <2>1, <2>2 DEF ObjectIsWhole
<1>2. LoopInv
  BY SizesAssumption
  DEF Init, LoopInv, Typed, LoopAtStart, PartsSoFar, AllPartsListed, PushStates, InHandler,
      NoSweep
<1>3. ServedHasObject /\ RowsInv
  BY DEF Init, RowsInv, ServedHasObject, OpenIsTracked, ServedIsSettled, IdleHasNoRow,
         SweptIsSettled, Served, Settled, NoSweep
<1> QED BY <1>1, <1>2, <1>3 DEF Inv, ObjectInv

\* Every step keeps what is known of the part loop.
LEMMA NextLoop == Inv /\ [Next]_vars => LoopInv'
<1> SUFFICES ASSUME Inv, [Next]_vars PROVE LoopInv'
  OBVIOUS
<1> USE SizesAssumption DEF Inv, LoopInv, Typed, LoopAtStart, PartsSoFar, AllPartsListed,
      FromTheFirst, Stopped, InHandler, PushStates, s3Vars, tableVars, loopVars, dumpVars, Goto
<1>1. ASSUME NEW p \in Pushes, Open(p) PROVE LoopInv'
  BY <1>1 DEF Open
<1>2. ASSUME NEW p \in Pushes, Track(p) PROVE LoopInv'
  BY <1>2 DEF Track
<1>3. ASSUME NEW p \in Pushes, NEW ok \in BOOLEAN, TrackFails(p, ok) PROVE LoopInv'
  BY <1>3 DEF TrackFails, Aborted
<1>4. ASSUME NEW p \in Pushes, RequestMoreParts(p) PROVE LoopInv'
  BY <1>4 DEF RequestMoreParts
<1>5. ASSUME NEW p \in Pushes, RequestMorePartsRefused(p) PROVE LoopInv'
  BY <1>5 DEF RequestMorePartsRefused
<1>6. ASSUME NEW p \in Pushes, ReadPart(p) PROVE LoopInv'
  BY <1>6 DEF ReadPart
<1>7. ASSUME NEW p \in Pushes, ReadEOF(p) PROVE LoopInv'
  BY <1>7 DEF ReadEOF
<1>8. ASSUME NEW p \in Pushes, ReadFails(p) PROVE LoopInv'
  BY <1>8 DEF ReadFails, Fault
<1>8a. ASSUME NEW p \in Pushes, NEW some \in BOOLEAN, ReadCut(p, some) PROVE LoopInv'
  BY <1>8a DEF ReadCut, Fault
<1>9. ASSUME NEW p \in Pushes, ReadStops(p) PROVE LoopInv'
  BY <1>9 DEF ReadStops
<1>10. ASSUME NEW p \in Pushes, NEW n \in 1..Chunks, PutPart(p, n) PROVE LoopInv'
  <2>1. \A q \in Pushes : q # p \/ pc'[q] = "upload"
    BY <1>10 DEF PutPart
  <2>2. \A q \in Pushes : q # p => sent'[q] = sent[q]
    BY <1>10 DEF PutPart
  <2>3. AllPartsListed'
    <3>1. UNCHANGED <<pc, cancelled, cut>> BY <1>10 DEF PutPart
    <3>2. \A q \in Pushes : FromTheFirst(q) /\ sent'[q] = sent[q] => FromTheFirst(q)'
      BY <3>1
    <3> HIDE DEF FromTheFirst
    <3> QED BY <1>10, <2>1, <2>2, <3>1, <3>2
  <2>4. Typed' /\ LoopAtStart' BY <1>10 DEF PutPart
  <2>5. PartsSoFar' BY <1>10 DEF PutPart
  <2> QED BY <2>3, <2>4, <2>5
<1>11. ASSUME NEW p \in Pushes, NEW n \in 1..Chunks, PutFails(p, n) PROVE LoopInv'
  BY <1>11 DEF PutFails, Fault
<1>12. ASSUME NEW p \in Pushes, PartsFailed(p) PROVE LoopInv'
  <2>1. PICK state \in {"superseded", "failed"} : pc' = [pc EXCEPT ![p] = state]
    BY <1>12 DEF PartsFailed
  <2> QED BY <1>12, <2>1 DEF PartsFailed, LoopEnds, Waited
<1>13. ASSUME NEW p \in Pushes, ReaderFailed(p) PROVE LoopInv'
  BY <1>13 DEF ReaderFailed, LoopEnds, Waited
<1>14. ASSUME NEW p \in Pushes, PartsSent(p) PROVE LoopInv'
  <2>1. cancelled[p] \/ FromTheFirst(p)
    <3>1. SUFFICES ASSUME ~cancelled[p] PROVE FromTheFirst(p)
      OBVIOUS
    <3>2. /\ pc[p] = "upload" /\ reader[p] = "nil" /\ putErr[p] = "none" /\ inflight[p] = {}
      BY <1>14 DEF PartsSent, Waited
    <3>3. next[p] = Chunks + 1 \/ p \in cut BY <3>1, <3>2
    <3> DEFINE k == next[p] - 1
    <3>4. k \in 0..Chunks OBVIOUS
    <3>5. \A n \in 1..Chunks : n \in sent[p] <=> n < next[p] BY <3>2
    <3>6. sent[p] = 1..k
      <4>1. sent[p] \subseteq 1..Chunks /\ next[p] \in 1..(Chunks + 1) OBVIOUS
      <4>2. \A n \in 1..k : n \in 1..Chunks /\ n < next[p] BY <4>1
      <4>3. \A n \in 1..Chunks : n < next[p] => n \in 1..k BY <4>1
      <4> HIDE DEF k
      <4> QED BY <3>5, <4>1, <4>2, <4>3
    <3> QED BY <3>3, <3>4, <3>6
  <2>2. /\ pc' = [pc EXCEPT ![p] = "complete"] /\ sent' = [sent EXCEPT ![p] = sent[p]]
        /\ UNCHANGED <<cancelled, s3, sweep, cut>>
    BY <1>14 DEF PartsSent, LoopEnds
  <2>3. AllPartsListed' BY <2>1, <2>2
  <2>4. Typed' /\ LoopAtStart' /\ PartsSoFar' BY <1>14, <2>2 DEF PartsSent, LoopEnds, Waited
  <2> QED BY <2>3, <2>4
<1>15. ASSUME NEW p \in Pushes, CompleteLookup(p) PROVE LoopInv'
  BY <1>15 DEF CompleteLookup
<1>16. ASSUME NEW p \in Pushes, CompleteRefused(p) PROVE LoopInv'
  <2>1. PICK state \in {"superseded", "failed"} : pc' = [pc EXCEPT ![p] = state]
    BY <1>16 DEF CompleteRefused
  <2> QED BY <1>16, <2>1 DEF CompleteRefused, LoopEnds
<1>17. ASSUME NEW p \in Pushes, Assemble(p) PROVE LoopInv'
  BY <1>17 DEF Assemble
<1>18. ASSUME NEW p \in Pushes, NEW ok \in BOOLEAN, AssembleAnyway(p, ok) PROVE LoopInv'
  BY <1>18 DEF AssembleAnyway, Aborted
<1>19. ASSUME NEW p \in Pushes, AssembleFails(p) PROVE LoopInv'
  BY <1>19 DEF AssembleFails, LoopEnds
<1>20. ASSUME NEW p \in Pushes, NEW ok \in BOOLEAN, DropRow(p, ok) PROVE LoopInv'
  BY <1>20 DEF DropRow
<1>21. ASSUME NEW p \in Pushes, ListRedundant(p) PROVE LoopInv'
  BY <1>21 DEF ListRedundant
<1>22. ASSUME NEW p \in Pushes, NEW q \in Pushes, NEW ok \in BOOLEAN, AbortRedundant(p, q, ok)
      PROVE LoopInv'
  BY <1>22 DEF AbortRedundant, Aborted
<1>23. ASSUME NEW p \in Pushes, CompleteDone(p) PROVE LoopInv'
  BY <1>23 DEF CompleteDone, LoopEnds
<1>24. ASSUME NEW p \in Pushes, CompleteLost(p) PROVE LoopInv'
  BY <1>24 DEF CompleteLost
<1>25. ASSUME NEW p \in Pushes, Cancel(p) PROVE LoopInv'
  BY <1>25 DEF Cancel
<1>26. ASSUME NEW p \in Pushes, Kill(p) PROVE LoopInv'
  BY <1>26 DEF Kill, LoopEnds, Over
<1>27. ASSUME NEW p \in Pushes, Commit(p) PROVE LoopInv'
  BY <1>27 DEF Commit
<1>28. ASSUME NEW old \in SUBSET Pushes, SweepStart(old) PROVE LoopInv'
  BY <1>28 DEF SweepStart
<1>29. ASSUME NEW q \in Pushes, NEW ok \in BOOLEAN, SweepAbort(q, ok) PROVE LoopInv'
  <2>1. UNCHANGED <<pc, loopVars, cancelled, cut>> BY <1>29 DEF SweepAbort
  <2>2. s3' \in [Pushes -> {"none", "open", "gone"}] BY <1>29 DEF SweepAbort, Aborted
  <2>3. sweep' \in [on : BOOLEAN, old : SUBSET Pushes, left : SUBSET Pushes, keep : SUBSET Pushes]
    <3> DEFINE kept == IF ok THEN sweep.keep ELSE sweep.keep \cup {q}
    <3>1. sweep' = [sweep EXCEPT !.left = sweep.left \ {q}, !.keep = kept] BY <1>29 DEF SweepAbort
    <3>2. kept \in SUBSET Pushes /\ sweep.left \ {q} \in SUBSET Pushes OBVIOUS
    <3> HIDE DEF kept
    <3> QED BY <3>1, <3>2
  <2> QED BY <2>1, <2>2, <2>3
<1>30. ASSUME SweepDelete PROVE LoopInv'
  BY <1>30 DEF SweepDelete, NoSweep
<1>31. ASSUME SweepFails PROVE LoopInv'
  BY <1>31 DEF SweepFails, NoSweep
<1>32. CASE UNCHANGED vars
  BY <1>32 DEF vars
<1> HIDE SizesAssumption DEF Inv, LoopInv, Typed, LoopAtStart, PartsSoFar, AllPartsListed,
      FromTheFirst, Stopped, InHandler, PushStates, s3Vars, tableVars, loopVars, dumpVars, Goto
<1> QED
  BY <1>1, <1>2, <1>3, <1>4, <1>5, <1>6, <1>7, <1>8, <1>8a, <1>9, <1>10, <1>11, <1>12,
     <1>13, <1>14, <1>15, <1>16, <1>17, <1>18, <1>19, <1>20, <1>21, <1>22, <1>23, <1>24,
     <1>25, <1>26, <1>27, <1>28, <1>29, <1>30, <1>31, <1>32
  DEF Next, Upload, Complete, Cleanup

\* Every step keeps the object whole, and there for whoever relies on it.
LEMMA NextObject == Inv /\ [Next]_vars => ObjectInv'
<1> SUFFICES ASSUME Inv, [Next]_vars PROVE ObjectInv'
  OBVIOUS
<1> USE DEF Inv, LoopInv, Typed, AllPartsListed, ObjectInv, ObjectIsWhole, ServedHasObject,
      Served, s3Vars, tableVars, loopVars, dumpVars, Goto
<1>1. ASSUME NEW p \in Pushes, Open(p) PROVE ObjectInv'
  BY <1>1 DEF Open
<1>2. ASSUME NEW p \in Pushes, Track(p) PROVE ObjectInv'
  BY <1>2 DEF Track
<1>3. ASSUME NEW p \in Pushes, NEW ok \in BOOLEAN, TrackFails(p, ok) PROVE ObjectInv'
  BY <1>3 DEF TrackFails, Aborted
<1>4. ASSUME NEW p \in Pushes, RequestMoreParts(p) PROVE ObjectInv'
  BY <1>4 DEF RequestMoreParts
<1>5. ASSUME NEW p \in Pushes, RequestMorePartsRefused(p) PROVE ObjectInv'
  BY <1>5 DEF RequestMorePartsRefused
<1>6. ASSUME NEW p \in Pushes, ReadPart(p) PROVE ObjectInv'
  BY <1>6 DEF ReadPart
<1>7. ASSUME NEW p \in Pushes, ReadEOF(p) PROVE ObjectInv'
  BY <1>7 DEF ReadEOF
<1>8. ASSUME NEW p \in Pushes, ReadFails(p) PROVE ObjectInv'
  BY <1>8 DEF ReadFails, Fault
<1>8a. ASSUME NEW p \in Pushes, NEW some \in BOOLEAN, ReadCut(p, some) PROVE ObjectInv'
  BY <1>8a DEF ReadCut, Fault
<1>9. ASSUME NEW p \in Pushes, ReadStops(p) PROVE ObjectInv'
  BY <1>9 DEF ReadStops
<1>10. ASSUME NEW p \in Pushes, NEW n \in 1..Chunks, PutPart(p, n) PROVE ObjectInv'
  BY <1>10 DEF PutPart
<1>11. ASSUME NEW p \in Pushes, NEW n \in 1..Chunks, PutFails(p, n) PROVE ObjectInv'
  BY <1>11 DEF PutFails, Fault
<1>12. ASSUME NEW p \in Pushes, PartsFailed(p) PROVE ObjectInv'
  BY <1>12 DEF PartsFailed, LoopEnds, Waited, supersededByPeer
<1>13. ASSUME NEW p \in Pushes, ReaderFailed(p) PROVE ObjectInv'
  BY <1>13 DEF ReaderFailed, LoopEnds, Waited
<1>14. ASSUME NEW p \in Pushes, PartsSent(p) PROVE ObjectInv'
  BY <1>14 DEF PartsSent, LoopEnds, Waited
<1>15. ASSUME NEW p \in Pushes, CompleteLookup(p) PROVE ObjectInv'
  BY <1>15 DEF CompleteLookup
<1>16. ASSUME NEW p \in Pushes, CompleteRefused(p) PROVE ObjectInv'
  BY <1>16 DEF CompleteRefused, LoopEnds, supersededByPeer
<1>17. ASSUME NEW p \in Pushes, Assemble(p) PROVE ObjectInv'
  <2>1. PICK k \in 0..Chunks : sent[p] = 1..k /\ (k = Chunks \/ p \in cut)
    BY <1>17 DEF Assemble, InHandler, FromTheFirst
  <2>2. k # 0 BY <1>17, <2>1 DEF Assemble, InHandler
  <2>3. object' = [n \in 1..k |-> n] BY <1>17, <2>1, ListedInOrder, SizesAssumption DEF Assemble
  <2>4. object' # <<>>
    <3>1. 1 \in DOMAIN object' BY <2>2, <2>3, SizesAssumption
    <3>2. DOMAIN <<>> = 1..0 OBVIOUS
    <3> QED BY <3>1, <3>2
  <2> QED BY <1>17, <2>1, <2>3, <2>4 DEF Assemble
<1>18. ASSUME NEW p \in Pushes, NEW ok \in BOOLEAN, AssembleAnyway(p, ok) PROVE ObjectInv'
  BY <1>18 DEF AssembleAnyway, Aborted
<1>19. ASSUME NEW p \in Pushes, AssembleFails(p) PROVE ObjectInv'
  BY <1>19 DEF AssembleFails, LoopEnds
<1>20. ASSUME NEW p \in Pushes, NEW ok \in BOOLEAN, DropRow(p, ok) PROVE ObjectInv'
  BY <1>20 DEF DropRow
<1>21. ASSUME NEW p \in Pushes, ListRedundant(p) PROVE ObjectInv'
  BY <1>21 DEF ListRedundant
<1>22. ASSUME NEW p \in Pushes, NEW q \in Pushes, NEW ok \in BOOLEAN, AbortRedundant(p, q, ok)
      PROVE ObjectInv'
  BY <1>22 DEF AbortRedundant, Aborted
<1>23. ASSUME NEW p \in Pushes, CompleteDone(p) PROVE ObjectInv'
  BY <1>23 DEF CompleteDone, LoopEnds
<1>24. ASSUME NEW p \in Pushes, CompleteLost(p) PROVE ObjectInv'
  BY <1>24 DEF CompleteLost
<1>25. ASSUME NEW p \in Pushes, Cancel(p) PROVE ObjectInv'
  BY <1>25 DEF Cancel
<1>26. ASSUME NEW p \in Pushes, Kill(p) PROVE ObjectInv'
  BY <1>26 DEF Kill, LoopEnds, Over
<1>27. ASSUME NEW p \in Pushes, Commit(p) PROVE ObjectInv'
  BY <1>27 DEF Commit
<1>28. ASSUME NEW old \in SUBSET Pushes, SweepStart(old) PROVE ObjectInv'
  BY <1>28 DEF SweepStart
<1>29. ASSUME NEW q \in Pushes, NEW ok \in BOOLEAN, SweepAbort(q, ok) PROVE ObjectInv'
  BY <1>29 DEF SweepAbort, Aborted
<1>30. ASSUME SweepDelete PROVE ObjectInv'
  BY <1>30 DEF SweepDelete, NoSweep
<1>31. ASSUME SweepFails PROVE ObjectInv'
  BY <1>31 DEF SweepFails, NoSweep
<1>32. CASE UNCHANGED vars
  BY <1>32 DEF vars
<1> HIDE DEF Inv, LoopInv, Typed, AllPartsListed, ObjectInv, ObjectIsWhole, ServedHasObject,
      Served, s3Vars, tableVars, loopVars, dumpVars, Goto
<1> QED
  BY <1>1, <1>2, <1>3, <1>4, <1>5, <1>6, <1>7, <1>8, <1>8a, <1>9, <1>10, <1>11, <1>12,
     <1>13, <1>14, <1>15, <1>16, <1>17, <1>18, <1>19, <1>20, <1>21, <1>22, <1>23, <1>24,
     <1>25, <1>26, <1>27, <1>28, <1>29, <1>30, <1>31, <1>32
  DEF Next, Upload, Complete, Cleanup

\* Every step keeps the uploads known.
LEMMA NextRows == Inv /\ [Next]_vars => RowsInv'
<1> SUFFICES ASSUME Inv, [Next]_vars PROVE RowsInv'
  OBVIOUS
<1> USE DEF Inv, LoopInv, Typed, RowsInv, OpenIsTracked, ServedIsSettled, IdleHasNoRow,
      SweptIsSettled, Settled, Served, InHandler, s3Vars, tableVars, loopVars, dumpVars, Goto
<1>1. ASSUME NEW p \in Pushes, Open(p) PROVE RowsInv'
  <2>1. /\ pc[p] = "idle" /\ pc' = [pc EXCEPT ![p] = "opened"]
        /\ s3' = [s3 EXCEPT ![p] = "open"] /\ pending' = pending \cup {p}
        /\ UNCHANGED <<rows, putErr, sweep, logged>>
    BY <1>1 DEF Open
  <2>2. putErr[p] = "none" BY <2>1 DEF LoopAtStart
  <2>3. sweep.on => p \notin sweep.old BY <2>1
  <2>4. OpenIsTracked' /\ IdleHasNoRow' BY <2>1
  <2>5. ServedIsSettled' BY <2>1, <2>2
  <2>6. SweptIsSettled' BY <2>1, <2>3
  <2> QED BY <2>4, <2>5, <2>6
<1>2. ASSUME NEW p \in Pushes, Track(p) PROVE RowsInv'
  BY <1>2 DEF Track
<1>3. ASSUME NEW p \in Pushes, NEW ok \in BOOLEAN, TrackFails(p, ok) PROVE RowsInv'
  BY <1>3 DEF TrackFails, Aborted
<1>4. ASSUME NEW p \in Pushes, RequestMoreParts(p) PROVE RowsInv'
  BY <1>4 DEF RequestMoreParts
<1>5. ASSUME NEW p \in Pushes, RequestMorePartsRefused(p) PROVE RowsInv'
  BY <1>5 DEF RequestMorePartsRefused
<1>6. ASSUME NEW p \in Pushes, ReadPart(p) PROVE RowsInv'
  BY <1>6 DEF ReadPart
<1>7. ASSUME NEW p \in Pushes, ReadEOF(p) PROVE RowsInv'
  BY <1>7 DEF ReadEOF
<1>8. ASSUME NEW p \in Pushes, ReadFails(p) PROVE RowsInv'
  BY <1>8 DEF ReadFails, Fault
<1>8a. ASSUME NEW p \in Pushes, NEW some \in BOOLEAN, ReadCut(p, some) PROVE RowsInv'
  BY <1>8a DEF ReadCut, Fault
<1>9. ASSUME NEW p \in Pushes, ReadStops(p) PROVE RowsInv'
  BY <1>9 DEF ReadStops
<1>10. ASSUME NEW p \in Pushes, NEW n \in 1..Chunks, PutPart(p, n) PROVE RowsInv'
  BY <1>10 DEF PutPart
<1>11. ASSUME NEW p \in Pushes, NEW n \in 1..Chunks, PutFails(p, n) PROVE RowsInv'
  BY <1>11 DEF PutFails, Fault
<1>12. ASSUME NEW p \in Pushes, PartsFailed(p) PROVE RowsInv'
  BY <1>12 DEF PartsFailed, LoopEnds, Waited, supersededByPeer
<1>13. ASSUME NEW p \in Pushes, ReaderFailed(p) PROVE RowsInv'
  BY <1>13 DEF ReaderFailed, LoopEnds, Waited
<1>14. ASSUME NEW p \in Pushes, PartsSent(p) PROVE RowsInv'
  BY <1>14 DEF PartsSent, LoopEnds, Waited
<1>15. ASSUME NEW p \in Pushes, CompleteLookup(p) PROVE RowsInv'
  BY <1>15 DEF CompleteLookup
<1>16. ASSUME NEW p \in Pushes, CompleteRefused(p) PROVE RowsInv'
  BY <1>16 DEF CompleteRefused, LoopEnds, supersededByPeer
<1>17. ASSUME NEW p \in Pushes, Assemble(p) PROVE RowsInv'
  BY <1>17 DEF Assemble
<1>18. ASSUME NEW p \in Pushes, NEW ok \in BOOLEAN, AssembleAnyway(p, ok) PROVE RowsInv'
  BY <1>18 DEF AssembleAnyway, Aborted
<1>19. ASSUME NEW p \in Pushes, AssembleFails(p) PROVE RowsInv'
  BY <1>19 DEF AssembleFails, LoopEnds
<1>20. ASSUME NEW p \in Pushes, NEW ok \in BOOLEAN, DropRow(p, ok) PROVE RowsInv'
  BY <1>20 DEF DropRow
<1>21. ASSUME NEW p \in Pushes, ListRedundant(p) PROVE RowsInv'
  BY <1>21 DEF ListRedundant
<1>22. ASSUME NEW p \in Pushes, NEW q \in Pushes, NEW ok \in BOOLEAN, AbortRedundant(p, q, ok)
      PROVE RowsInv'
  BY <1>22 DEF AbortRedundant, Aborted
<1>23. ASSUME NEW p \in Pushes, CompleteDone(p) PROVE RowsInv'
  BY <1>23 DEF CompleteDone, LoopEnds
<1>24. ASSUME NEW p \in Pushes, CompleteLost(p) PROVE RowsInv'
  BY <1>24 DEF CompleteLost
<1>25. ASSUME NEW p \in Pushes, Cancel(p) PROVE RowsInv'
  BY <1>25 DEF Cancel
<1>26. ASSUME NEW p \in Pushes, Kill(p) PROVE RowsInv'
  BY <1>26 DEF Kill, LoopEnds, Over
<1>27. ASSUME NEW p \in Pushes, Commit(p) PROVE RowsInv'
  BY <1>27 DEF Commit
<1>28. ASSUME NEW old \in SUBSET Pushes, SweepStart(old) PROVE RowsInv'
  BY <1>28 DEF SweepStart
<1>29. ASSUME NEW q \in Pushes, NEW ok \in BOOLEAN, SweepAbort(q, ok) PROVE RowsInv'
  BY <1>29 DEF SweepAbort, Aborted
<1>30. ASSUME SweepDelete PROVE RowsInv'
  BY <1>30 DEF SweepDelete, NoSweep
<1>31. ASSUME SweepFails PROVE RowsInv'
  BY <1>31 DEF SweepFails, NoSweep
<1>32. CASE UNCHANGED vars
  BY <1>32 DEF vars
<1> HIDE DEF Inv, LoopInv, Typed, RowsInv, OpenIsTracked, ServedIsSettled, IdleHasNoRow,
      SweptIsSettled, Settled, Served, InHandler, s3Vars, tableVars, loopVars, dumpVars, Goto
<1> QED
  BY <1>1, <1>2, <1>3, <1>4, <1>5, <1>6, <1>7, <1>8, <1>8a, <1>9, <1>10, <1>11, <1>12,
     <1>13, <1>14, <1>15, <1>16, <1>17, <1>18, <1>19, <1>20, <1>21, <1>22, <1>23, <1>24,
     <1>25, <1>26, <1>27, <1>28, <1>29, <1>30, <1>31, <1>32
  DEF Next, Upload, Complete, Cleanup

-----------------------------------------------------------------------------

\* The part loops, the object and the rows are always as Inv says.
THEOREM MultipartInvariant == Spec => []Inv
<1>1. Inv /\ [Next]_vars => Inv'
  BY NextLoop, NextObject, NextRows DEF Inv
<1> QED BY InitInv, <1>1, PTL DEF Spec

\* Whatever fails, is cancelled or is done twice, and however many parts and
\* pushes there are, a NAR that S3 assembled holds every chunk of its stream
\* once and in order (uploadMultipart: readErr, first part error, SortFunc),
\* or, if the dump's error looked like the end of the stream, every chunk up
\* to the error.
THEOREM ObjectIsWholeAlways == Spec => []ObjectIsWhole
BY MultipartInvariant, PTL DEF Inv, ObjectInv

\* A push that goes on to its commit finds the object there, also when it
\* takes a 404 for a peer's abort (supersededByPeer).
THEOREM FinishedHasObjectAlways == Spec => []FinishedHasObject
<1>1. Inv => FinishedHasObject
  BY DEF Inv, ObjectInv, ServedHasObject, Served, FinishedHasObject
<1> QED BY <1>1, MultipartInvariant, PTL

\* Every upload that S3 holds open has its row, or a request about to insert
\* it, or a log line: no commit, completion or cleanup forgets one
\* (abortRedundantMultipartUploads, cleanupPendingClosures).
THEOREM OpenIsTrackedAlways == Spec => []OpenIsTracked
BY MultipartInvariant, PTL DEF Inv, RowsInv

-----------------------------------------------------------------------------
(***************************************************************************)
(* The sizes of the parts.                                                 *)
(***************************************************************************)

\* The division of partSizeForNAR rounds up: it reaches the dividend and
\* stays less than a divisor above it.
LEMMA CeilDivIsUpper ==
    ASSUME NEW a \in Nat, NEW b \in Nat, 0 < b
    PROVE  /\ CeilDiv(a, b) \in Nat
           /\ a <= CeilDiv(a, b) * b
           /\ CeilDiv(a, b) * b < a + b
<1> DEFINE q == (a + b - 1) \div b
<1>1. q \in Int /\ q * b <= a + b - 1 /\ a + b - 1 < q * b + b BY SMT
<1>2. q >= 0 BY <1>1, SMT
<1> QED BY <1>1, <1>2, SMT DEF CeilDiv

\* partSizeForNAR stays within what S3 allows for a part, and a NAR of up to
\* 9000 parts of the maximal size needs no more than 10000 of the parts it
\* chooses, even if zstd makes the NAR longer: the steps of 16 MiB, the two
\* clamps and the divisions never leave the end of a NAR without a part.
THEOREM PartsFit ==
    ASSUME NEW n \in Nat, n <= LargestNar
    PROVE  /\ multipartPartSize <= partSizeForNAR(n) /\ partSizeForNAR(n) <= maxPartSize
           /\ Compressed(n) <= PartNumberLimit * partSizeForNAR(n)
<1> DEFINE size    == CeilDiv(n, targetMaxParts)
           rounded == CeilDiv(size, step) * step
           part    == partSizeForNAR(n)
<1>1. size \in Nat /\ n <= size * 9000 /\ size * 9000 < n + 9000
  BY CeilDivIsUpper, SMT DEF targetMaxParts
<1>2. n <= 48318382080000 BY SMT DEF LargestNar, targetMaxParts, maxPartSize, MiB
<1>3. size <= 5368709120 BY <1>1, <1>2, SMT
<1>4. rounded \in Nat /\ size <= rounded
  <2> HIDE DEF size
  <2>1. step \in Nat /\ 0 < step BY SMT DEF step, MiB
  <2>2. CeilDiv(size, step) \in Nat /\ size <= CeilDiv(size, step) * step
    BY <1>1, <2>1, CeilDivIsUpper, SMT
  <2> QED BY <2>1, <2>2, SMT
<1>5. maxPartSize = 5368709120 /\ multipartPartSize = 10485760
  BY SMT DEF maxPartSize, multipartPartSize, MiB
<1>6. part = IF size <= multipartPartSize THEN multipartPartSize
             ELSE IF rounded > maxPartSize THEN maxPartSize ELSE rounded
  BY SMT DEF partSizeForNAR
<1> HIDE DEF size, rounded, part
<1>7. part \in Nat /\ 10485760 <= part /\ part <= 5368709120 /\ size <= part
  <2>1. CASE size <= multipartPartSize BY <2>1, <1>1, <1>5, <1>6, SMT
  <2>2. CASE ~(size <= multipartPartSize) /\ rounded > maxPartSize
    BY <2>2, <1>1, <1>3, <1>5, <1>6, SMT
  <2>3. CASE ~(size <= multipartPartSize) /\ ~(rounded > maxPartSize)
    BY <2>3, <1>1, <1>4, <1>5, <1>6, SMT
  <2> QED BY <2>1, <2>2, <2>3
<1>8. Compressed(n) <= 10000 * part
  <2>1. n <= 9000 * part BY <1>1, <1>7, SMT
  <2>2. (n \div 256) \in Nat /\ 256 * (n \div 256) <= n BY SMT
  <2> QED BY <1>7, <2>1, <2>2, SMT DEF Compressed
<1>9. multipartPartSize <= part /\ part <= maxPartSize BY <1>5, <1>7, SMT
<1> QED BY <1>8, <1>9, SMT DEF PartNumberLimit, part
=============================================================================
