-------------------------- MODULE ReadProxyProofs --------------------------
(***************************************************************************)
(* Proofs about reading through the server: what a reader may rely on once *)
(* it has been given a narinfo, for any number of replicas and upstreams,  *)
(* whichever of these serve wrong NARs, and which bytes a range request is *)
(* answered with.                                                          *)
(*                                                                         *)
(* The invariant says who vouches for the NAR. A narinfo, a live row, a    *)
(* push that has uploaded the NAR and a fill that has verified its         *)
(* download, or found the NAR live, each imply that a matching NAR has     *)
(* been in the bucket; only a fill can take it away, which spoilt records. *)
(***************************************************************************)
EXTENDS ReadProxy, ByteRanges, TLAPS

FillTyped ==
    /\ nar \in {"absent", "good", "bad"}
    /\ narinfo \in BOOLEAN /\ live \in BOOLEAN /\ spoilt \in BOOLEAN
    /\ pc \in [Replicas -> {"idle", "fetch", "create", "copy", "verify", "sign", "commit"}]
    /\ at \in [Replicas -> 1..(Upstreams + 1)]
    /\ copied \in [Replicas -> {"absent", "good", "bad"}]
    /\ miss \subseteq Replicas
    /\ push \in {"idle", "open", "put", "registered", "done"}

ReaderTyped ==
    /\ reader = [at |-> reader.at, of |-> reader.of, pc |-> reader.pc, there |-> reader.there]
    /\ reader.of \in Objects
    /\ reader.there \in BOOLEAN
    /\ reader.pc \in {"idle", "limit", "exists", "fill", "joined", "stat", "get", "redirected"}
    /\ reader.pc # "idle" => reader.at \in Replicas
    /\ answer \in [status : {"none", "ok", "missing"}, of : Objects,
                   body : {"none", "good", "bad"}, there : BOOLEAN]
    /\ informed \in BOOLEAN

\* A matching NAR is in the bucket, or was there and a fill took it away.
Good == nar = "good" \/ spoilt

\* The fill of a replica goes on to publish the narinfo.
Vouches(r) == pc[r] \in {"sign", "commit"} \/ (pc[r] = "verify" /\ copied[r] = "good")

\* Whoever vouches for the NAR is right.
VouchedIsGood ==
    /\ narinfo \/ live \/ push \in {"put", "registered", "done"} => Good
    /\ \A r \in Replicas : Vouches(r) => Good

\* A reader got the narinfo from the bucket, where it stays.
InformedIsPublished == informed => narinfo

\* A request that came after the narinfo was stored will find it.
ThereIsStored == reader.there => narinfo

Inv ==
    /\ FillTyped /\ ReaderTyped
    /\ VouchedIsGood
    /\ InformedIsPublished
    /\ ThereIsStored
    /\ InformedGetsNar
    /\ PublishedIsFound

-----------------------------------------------------------------------------
(***************************************************************************)
(* Fills and the client's push.                                            *)
(***************************************************************************)

\* No narinfo is taken back, and the loss of a matching NAR is on record.
Kept == (narinfo => narinfo') /\ (Good => Good') /\ (spoilt => spoilt')

\* One step of the fill of any replica keeps what is vouched for: Verify lets
\* only a download go on that matched, Create only a NAR that has a live row.
LEMMA FillKeepsGood ==
    ASSUME FillTyped, VouchedIsGood, NEW r \in Replicas, Fill(r)
    PROVE  FillTyped' /\ VouchedIsGood' /\ Kept
<1> USE DEF FillTyped, bucket, Goto, Done
<1>1. CASE Begin(r)
  BY <1>1 DEF Begin, VouchedIsGood, Vouches, Good, Kept
<1>2. CASE Fetch(r)
  <2>1. FillTyped' BY <1>2, UpstreamsAssumption DEF Fetch
  <2>2. VouchedIsGood' /\ Kept BY <1>2 DEF Fetch, VouchedIsGood, Vouches, Good, Kept
  <2> QED BY <2>1, <2>2
<1>3. CASE RecordMiss(r)
  <2>1. FillTyped' BY <1>3, UpstreamsAssumption DEF RecordMiss
  <2>2. VouchedIsGood' /\ Kept BY <1>3 DEF RecordMiss, VouchedIsGood, Vouches, Good, Kept
  <2> QED BY <2>1, <2>2
<1>4. CASE MissExpires(r)
  BY <1>4 DEF MissExpires, VouchedIsGood, Vouches, Good, Kept
<1>5. CASE Create(r)
  BY <1>5 DEF Create, VouchedIsGood, Vouches, Good, Kept
<1>6. CASE Copy(r)
  <2>1. PICK content \in {"good", "bad"} : nar' = content /\ copied' = [copied EXCEPT ![r] = content]
    BY <1>6 DEF Copy
  <2>2. FillTyped' BY <1>6, <2>1 DEF Copy
  <2>3. Kept BY <1>6 DEF Copy, Good, Kept
  <2>4. Vouches(r)' => Good' BY <1>6, <2>1 DEF Copy, Vouches, Good
  <2>5. \A s \in Replicas \ {r} : Vouches(s)' <=> Vouches(s)
    BY <1>6, <2>1 DEF Copy, Vouches
  <2> QED BY <1>6, <2>2, <2>3, <2>4, <2>5 DEF Copy, VouchedIsGood, Kept
<1>7. CASE Verify(r)
  <2>1. FillTyped' BY <1>7, UpstreamsAssumption DEF Verify
  <2>2. Kept BY <1>7 DEF Verify, Good, Kept
  <2>3. Vouches(r)' => Vouches(r) BY <1>7 DEF Verify, Vouches
  <2>4. \A s \in Replicas \ {r} : Vouches(s)' <=> Vouches(s)
    BY <1>7 DEF Verify, Vouches
  <2> QED BY <1>7, <2>1, <2>2, <2>3, <2>4 DEF Verify, VouchedIsGood, Kept
<1>8. CASE SignAndPut(r)
  BY <1>8 DEF SignAndPut, VouchedIsGood, Vouches, Good, Kept
<1>9. CASE Commit(r)
  <2>1. FillTyped' BY <1>9, UpstreamsAssumption DEF Commit
  <2>2. VouchedIsGood' /\ Kept BY <1>9 DEF Commit, VouchedIsGood, Vouches, Good, Kept
  <2> QED BY <2>1, <2>2
<1>10. CASE FillFails(r)
  <2>1. FillTyped' BY <1>10, UpstreamsAssumption DEF FillFails
  <2>2. VouchedIsGood' /\ Kept BY <1>10 DEF FillFails, VouchedIsGood, Vouches, Good, Kept
  <2> QED BY <2>1, <2>2
<1> QED
  BY <1>1, <1>2, <1>3, <1>4, <1>5, <1>6, <1>7, <1>8, <1>9, <1>10 DEF Fill, Progress

\* A client that pushes the path puts the NAR there before it registers it,
\* and the narinfo last.
LEMMA PushKeepsGood ==
    ASSUME FillTyped, VouchedIsGood, Push
    PROVE  FillTyped' /\ VouchedIsGood' /\ Kept
<1> USE DEF FillTyped, bucket
<1>1. CASE PushStart BY <1>1 DEF PushStart, VouchedIsGood, Vouches, Good, Kept
<1>2. CASE PushNar BY <1>2 DEF PushNar, VouchedIsGood, Vouches, Good, Kept
<1>3. CASE PushRegister BY <1>3 DEF PushRegister, VouchedIsGood, Vouches, Good, Kept
<1>4. CASE PushNarinfo BY <1>4 DEF PushNarinfo, VouchedIsGood, Vouches, Good, Kept
<1> QED BY <1>1, <1>2, <1>3, <1>4 DEF Push

-----------------------------------------------------------------------------
(***************************************************************************)
(* The reader.                                                             *)
(***************************************************************************)

\* Fills and pushes go on between a reader's calls without making its last
\* answer wrong.
LEMMA AnswerStaysRight ==
    ASSUME Inv, FillTyped', ReaderTyped', VouchedIsGood', Kept, UNCHANGED <<answer, informed>>,
           reader'.there => reader.there
    PROVE  Inv'
BY DEF Inv, Kept, InformedIsPublished, ThereIsStored, InformedGetsNar, PublishedIsFound,
       FillTyped, ReaderTyped

\* A reader whose request moves on, without an answer.
LEMMA MovesKeepsTyped ==
    ASSUME ReaderTyped, NEW from, NEW to \in {"exists", "fill", "joined", "stat", "get"},
           from # "idle", Moves(from, to)
    PROVE  ReaderTyped' /\ reader'.there = reader.there /\ UNCHANGED <<answer, informed>>
BY DEF Moves, ReaderTyped

\* A reader that is dismissed has no answer that could be wrong.
LEMMA DismissedKeepsInv ==
    ASSUME Inv, Dismissed, UNCHANGED fillVars
    PROVE  Inv'
<1> USE DEF Dismissed, fillVars, Idle, NoAnswer, Objects
<1>1. FillTyped' /\ VouchedIsGood' BY DEF Inv, FillTyped, VouchedIsGood, Vouches, Good
<1>2. ReaderTyped' BY DEF Inv, ReaderTyped
<1>3. InformedIsPublished' /\ ThereIsStored' /\ InformedGetsNar' /\ PublishedIsFound'
  BY DEF Inv, InformedIsPublished, ThereIsStored, InformedGetsNar, PublishedIsFound
<1> QED BY <1>1, <1>2, <1>3 DEF Inv

\* An answer that says what is in the bucket is right: "missing" only of an
\* object that is not there, a body only if there is one.
LEMMA TellsKeepsInv ==
    ASSUME Inv, NEW status \in {"ok", "missing"}, NEW body \in {"none", "good", "bad"},
           Tells(status, body), UNCHANGED fillVars,
           status = "missing" => InBucket(reader.of) = "absent" /\ body = "none",
           status = "ok" => InBucket(reader.of) = body
    PROVE  Inv'
<1> USE DEF Tells, fillVars, Idle
<1>1. FillTyped' /\ VouchedIsGood' BY DEF Inv, FillTyped, VouchedIsGood, Vouches, Good
<1>2. ReaderTyped' BY DEF Inv, ReaderTyped, Objects
<1>3. InformedIsPublished'
  BY DEF Inv, InformedIsPublished, InBucket, FillTyped, ReaderTyped
<1>4. ThereIsStored' BY DEF ThereIsStored
<1>5. InformedGetsNar'
  <2>1. ASSUME informed', answer'.of = "nar", ~spoilt'
        PROVE  answer'.status # "missing" /\ answer'.body # "bad"
    <3>1. reader.of = "nar" /\ informed BY <2>1 DEF Inv, ReaderTyped
    <3>2. nar = "good" BY <2>1, <3>1 DEF Inv, InformedIsPublished, VouchedIsGood, Good
    <3> QED BY <3>1, <3>2 DEF InBucket
  <2> QED BY <2>1 DEF InformedGetsNar
<1>6. PublishedIsFound'
  <2>1. ASSUME answer'.of = "narinfo", answer'.there, status = "missing" PROVE FALSE
    <3>1. reader.of = "narinfo" /\ reader.there BY <2>1
    <3>2. narinfo BY <3>1 DEF Inv, ThereIsStored
    <3> QED BY <2>1, <3>1, <3>2 DEF InBucket
  <2> QED BY <2>1 DEF PublishedIsFound
<1> QED BY <1>1, <1>2, <1>3, <1>4, <1>5, <1>6 DEF Inv

-----------------------------------------------------------------------------

\* An empty bucket and nobody at work.
LEMMA InitInv == Init => Inv
<1> SUFFICES ASSUME Init PROVE Inv
  OBVIOUS
<1> USE DEF Init, FillInit, Idle, NoAnswer, Objects
<1>1. FillTyped
  <2>1. 1 \in 1..(Upstreams + 1) BY UpstreamsAssumption
  <2> QED BY <2>1, Zenon DEF FillTyped
<1>2. ReaderTyped BY DEF ReaderTyped
<1>3. VouchedIsGood BY DEF VouchedIsGood, Vouches
<1>4. InformedIsPublished /\ ThereIsStored /\ InformedGetsNar /\ PublishedIsFound
  BY DEF InformedIsPublished, ThereIsStored, InformedGetsNar, PublishedIsFound
<1> QED BY <1>1, <1>2, <1>3, <1>4 DEF Inv

\* Every step of the reader, of fills and of the push keeps the invariant.
LEMMA NextInv == Inv /\ [Next]_vars => Inv'
<1> SUFFICES ASSUME Inv, [Next]_vars PROVE Inv'
  OBVIOUS
<1>0. ASSUME UNCHANGED fillVars PROVE FillTyped' /\ VouchedIsGood' /\ Kept
  BY <1>0 DEF Inv, fillVars, FillTyped, VouchedIsGood, Vouches, Good, Kept
<1>1. ASSUME NEW r \in Replicas, NEW o \in Objects, Request(r, o) PROVE Inv'
  <2>0. narinfo \in BOOLEAN BY DEF Inv, FillTyped
  <2>1. ReaderTyped' BY <1>1, <2>0 DEF Inv, Request, ReaderTyped, NoAnswer, Objects
  <2>2. InformedIsPublished' BY <1>1 DEF Inv, Request, InformedIsPublished, fillVars
  <2>3. ThereIsStored' BY <1>1 DEF Request, ThereIsStored, fillVars
  <2>4. InformedGetsNar' /\ PublishedIsFound'
    BY <1>1 DEF Request, InformedGetsNar, PublishedIsFound, NoAnswer
  <2> QED BY <1>0, <1>1, <2>1, <2>2, <2>3, <2>4 DEF Request, Inv
<1>2. CASE Admit
  <2>1. ReaderTyped' /\ reader'.there = reader.there /\ UNCHANGED <<answer, informed>>
    BY <1>2, MovesKeepsTyped DEF Inv, Admit
  <2> QED BY <1>0, <1>2, <2>1, AnswerStaysRight DEF Admit
<1>3. CASE Exists
  <2>1. ReaderTyped' /\ reader'.there = reader.there /\ UNCHANGED <<answer, informed>>
    BY <1>3, MovesKeepsTyped DEF Inv, Exists
  <2> QED BY <1>0, <1>3, <2>1, AnswerStaysRight DEF Exists
<1>4. CASE Join
  <2>1. ReaderTyped' /\ reader'.there = reader.there /\ UNCHANGED <<answer, informed>>
    BY <1>4, MovesKeepsTyped DEF Inv, Join
  <2> QED BY <1>0, <1>4, <2>1, AnswerStaysRight DEF Join
<1>5. CASE Start
  <2>1. ReaderTyped' /\ reader'.there = reader.there /\ UNCHANGED <<answer, informed>>
    BY <1>5, MovesKeepsTyped DEF Inv, Start
  <2>2. reader.at \in Replicas BY <1>5 DEF Inv, Start, Moves, ReaderTyped
  <2>3. FillTyped' /\ VouchedIsGood' /\ Kept
    BY <1>5, <2>2, FillKeepsGood DEF Inv, Start, Fill
  <2> QED BY <2>1, <2>3, AnswerStaysRight
<1>6. CASE Stat
  <2>1. CASE InBucket(reader.of) = "absent"
    BY <1>6, <2>1, TellsKeepsInv DEF Stat
  <2>2. CASE Moves("stat", "get")
    BY <1>0, <1>6, <2>2, MovesKeepsTyped, AnswerStaysRight DEF Stat, Inv
  <2>3. CASE Dismissed
    BY <1>6, <2>3, DismissedKeepsInv DEF Stat
  <2> QED BY <1>6, <2>1, <2>2, <2>3 DEF Stat
<1>7. CASE Get
  <2>1. CASE InBucket(reader.of) = "absent"
    BY <1>7, <2>1, TellsKeepsInv DEF Get
  <2>2. CASE InBucket(reader.of) # "absent"
    <3>1. InBucket(reader.of) \in {"good", "bad"} BY <2>2 DEF Inv, InBucket, FillTyped
    <3> QED BY <1>7, <2>2, <3>1, TellsKeepsInv DEF Get
  <2> QED BY <2>1, <2>2
<1>8. CASE S3Fails
  BY <1>8, DismissedKeepsInv DEF S3Fails
<1>9. CASE GiveUp
  BY <1>9, DismissedKeepsInv DEF GiveUp
<1>10. ASSUME NEW r \in Replicas, Filling(r) PROVE Inv'
  <2>1. FillTyped' /\ VouchedIsGood' /\ Kept BY <1>10, FillKeepsGood DEF Inv, Filling
  <2>2. ReaderTyped' /\ reader'.there = reader.there /\ UNCHANGED <<answer, informed>>
    BY <1>10 DEF Inv, Filling, Releases, ReaderTyped
  <2> QED BY <2>1, <2>2, AnswerStaysRight
<1>11. CASE Pushing
  <2>1. FillTyped' /\ VouchedIsGood' /\ Kept BY <1>11, PushKeepsGood DEF Inv, Pushing
  <2>2. ReaderTyped' BY <1>11 DEF Inv, Pushing, ReaderTyped
  <2> QED BY <1>11, <2>1, <2>2, AnswerStaysRight DEF Pushing
<1>12. CASE UNCHANGED vars
  <2>1. ReaderTyped' BY <1>12 DEF Inv, vars, ReaderTyped
  <2> QED BY <1>0, <1>12, <2>1, AnswerStaysRight DEF vars
<1> QED
  BY <1>1, <1>2, <1>3, <1>4, <1>5, <1>6, <1>7, <1>8, <1>9, <1>10, <1>11, <1>12 DEF Next, Serve

-----------------------------------------------------------------------------

\* The invariant holds however readers, fills and the push interleave.
THEOREM ReadProxyInvariant == Spec => []Inv
BY InitInv, NextInv, PTL DEF Spec

\* Whoever finds the narinfo finds the NAR it describes, unless a fill with a
\* wrong download took a good NAR away: for any upstreams and replicas.
THEOREM NarinfoHasNarAlways == Spec => []NarinfoHasNar
<1>1. Inv => NarinfoHasNar BY DEF Inv, VouchedIsGood, Good, NarinfoHasNar
<1> QED BY <1>1, ReadProxyInvariant, PTL

\* A reader that was given the narinfo is not told that its NAR is missing
\* and not given another one, by whichever replica, unless a fill took a good
\* NAR away.
THEOREM InformedGetsNarAlways == Spec => []InformedGetsNar
<1>1. Inv => InformedGetsNar BY DEF Inv
<1> QED BY <1>1, ReadProxyInvariant, PTL

\* Once the narinfo is stored, no later request for it is answered 404, by
\* whichever replica, whatever misses are remembered and whichever fills fail
\* (fillFromUpstream asks S3 first, the proxy asks it again afterwards).
THEOREM PublishedIsFoundAlways == Spec => []PublishedIsFound
<1>1. Inv => PublishedIsFound BY DEF Inv
<1> QED BY <1>1, ReadProxyInvariant, PTL

-----------------------------------------------------------------------------
\* A 206 sends exactly the bytes of the object that its header asks for, at
\* least one of them, and a 416 is given only if it asks for none: at the
\* edges too, where a span ends past the object or a suffix is longer.
THEOREM PartIsWhatIsAsked ==
    ASSUME NEW size \in Nat,
           NEW hasFirst \in BOOLEAN, NEW hasLast \in BOOLEAN,
           NEW first \in Int, NEW last \in Int
    PROVE  LET s == Header(hasFirst, first, hasLast, last)
               r == parseSingleRange(s, size)
           IN  /\ r.what = "part" =>
                    /\ 0 <= r.start /\ r.start <= r.end /\ r.end < size
                    /\ \A k \in 0..(size - 1) : Asks(s, size, k) <=> (r.start <= k /\ k <= r.end)
               /\ r.what = "unsatisfiable" => \A k \in 0..(size - 1) : ~Asks(s, size, k)
<1>1. CASE size <= 0 \/ ~(hasFirst \/ hasLast)
  BY <1>1 DEF Header, parseSingleRange, Whole
<1>2. CASE size > 0 /\ ~hasFirst /\ hasLast
  BY <1>2 DEF Header, parseSingleRange, Suffix, Part, Whole, Asks
<1>3. CASE size > 0 /\ hasFirst
  BY <1>3 DEF Header, parseSingleRange, Span, Part, Whole, Unsatisfiable, Asks
<1> QED BY <1>1, <1>2, <1>3
=============================================================================
