------------------------- MODULE NarPrefetchProofs -------------------------
(***************************************************************************)
(* Proofs that a dump writes every file's own bytes in the order of the    *)
(* tree and reads only so far ahead, for any number of files, any queue    *)
(* depth, any number of readers and any failures.                          *)
(*                                                                         *)
(* The queue is the argument: it holds, in order, exactly the small files  *)
(* that the enqueuer has come to and the writer has not, so what the       *)
(* writer takes is the file it has come to. An entry stays in the queue,   *)
(* or in the hands of the writer or the drain, from before a reader is     *)
(* given the file until after it has been read, so every buffer in use     *)
(* belongs to such an entry.                                               *)
(***************************************************************************)
EXTENDS NarPrefetch, FiniteSetTheorems, SequenceTheorems, WellFoundedInduction, TLAPS

InOrder(s) == \A i, j \in 1..Len(s) : i < j => s[i] < s[j]

\* The small files that have been put into the queue.
Sent == {f \in small : f < enq \/ (f = enq /\ enqpc = "work")}

\* The entries that are yet to be released.
Out == ToSet(queue) \cup {cur}

\* Both channels are in the order of the tree, and the entry that was taken
\* comes before the rest.
ChannelsInOrder ==
    /\ InOrder(queue) /\ InOrder(work)
    /\ \A f \in ToSet(queue) : cur < f

EntriesSent ==
    /\ ToSet(queue) \subseteq Sent /\ cur \in Sent \cup {0}
    /\ enqpc = "work" => enq \in small

\* A file is on its way to a reader, being read, or done; and the enqueuer is
\* past it.
ReadOnce ==
    /\ ToSet(work) \cup reading \cup done \subseteq {f \in small : f < enq}
    /\ ToSet(work) \cap (reading \cup done) = {}

\* An entry is not released before its file has been read.
UnreadIsOut ==
    /\ ToSet(work) \cup reading \subseteq Out
    /\ enqpc = "work" => enq \in Out

\* A buffer in use belongs to an entry and holds its file.
BuffersOut ==
    /\ \A f \in All : buf[f] # 0 => f \in Out /\ content[buf[f]] = f
    /\ \A f \in reading \cup ((done \ bad) \cap Out) : buf[f] # 0

\* The file whose contents the writer needs next.
Wanted == IF wpc = "node" THEN at ELSE at + 1

WriterInPlace ==
    /\ wpc \in {"node", "failed"} => cur = 0
    /\ wpc \in {"got", "written"} => cur = at /\ at \in small
    /\ wpc = "written" => cur \in done
    /\ wpc \in {"node", "got", "written"} =>
          /\ ToSet(queue) = {f \in Sent : f >= Wanted}
          /\ \A f \in small : f < Wanted => f \in Sent
          /\ Len(nar) = IF wpc = "written" THEN at ELSE at - 1

\* When nobody takes entries any more there are none.
EndedEmpty ==
    /\ drain => wpc \in {"draining", "returned"}
    /\ wpc \in {"draining", "returned"} /\ ~drain => cur = 0 /\ queue = <<>> /\ enqpc = "closed"
    /\ result = "ok" => wpc = "returned"

Inv ==
    /\ TypeOK
    /\ ChannelsInOrder
    /\ EntriesSent
    /\ ReadOnce
    /\ UnreadIsOut
    /\ BuffersOut
    /\ WriterInPlace
    /\ EndedEmpty
    /\ NarInOrder

-----------------------------------------------------------------------------
(***************************************************************************)
(* The channels as sequences.                                              *)
(***************************************************************************)

\* What a channel holds is of its type, and no more than its length.
LEMMA ChannelElements ==
    ASSUME NEW S, NEW s \in Seq(S)
    PROVE  /\ ToSet(s) = {s[i] : i \in 1..Len(s)}
           /\ ToSet(s) \subseteq S
           /\ IsFiniteSet(ToSet(s)) /\ Cardinality(ToSet(s)) <= Len(s)
<1>1. Len(s) \in Nat /\ DOMAIN s = 1..Len(s) /\ s \in [1..Len(s) -> S]
  BY LenProperties
<1>2. ToSet(s) = {s[i] : i \in 1..Len(s)} BY <1>1 DEF ToSet
<1>3. s \in Surjection(1..Len(s), ToSet(s)) BY <1>1, <1>2 DEF Surjection
<1>4. IsFiniteSet(1..Len(s)) /\ Cardinality(1..Len(s)) = Len(s) BY <1>1, FS_Interval
<1>5. IsFiniteSet(ToSet(s)) /\ Cardinality(ToSet(s)) <= Len(s) BY <1>3, <1>4, FS_Surjection
<1> QED BY <1>1, <1>2, <1>5

\* A send of a file that is later in the tree keeps a channel in order.
LEMMA SendInOrder ==
    ASSUME NEW S \in SUBSET Nat, NEW s \in Seq(S), NEW x \in S,
           InOrder(s), \A y \in ToSet(s) : y < x
    PROVE  /\ Append(s, x) \in Seq(S) /\ Len(Append(s, x)) = Len(s) + 1
           /\ InOrder(Append(s, x))
           /\ ToSet(Append(s, x)) = ToSet(s) \cup {x}
<1> DEFINE t == Append(s, x)
<1>1. Len(s) \in Nat /\ ToSet(s) = {s[i] : i \in 1..Len(s)} /\ \A i \in 1..Len(s) : s[i] \in S
  BY ChannelElements, LenProperties
<1>2. /\ t \in Seq(S) /\ Len(t) = Len(s) + 1
      /\ \A i \in 1..Len(s) : t[i] = s[i]
      /\ t[Len(s) + 1] = x
  BY AppendProperties
<1>3. ToSet(t) = {t[i] : i \in 1..Len(t)} BY <1>2, ChannelElements
<1> HIDE DEF t
<1>4. InOrder(t) BY <1>1, <1>2 DEF InOrder
<1>5. ToSet(t) = ToSet(s) \cup {x}
  <2>1. \A i \in 1..Len(t) : i \in 1..Len(s) \/ i = Len(s) + 1 BY <1>1, <1>2
  <2>2. 1..Len(s) \subseteq 1..Len(t) /\ Len(s) + 1 \in 1..Len(t) BY <1>1, <1>2
  <2> QED BY <1>1, <1>2, <1>3, <2>1, <2>2
<1> QED BY <1>2, <1>4, <1>5 DEF t

\* A receive takes the least file of a channel that is in order.
LEMMA ReceiveInOrder ==
    ASSUME NEW S \in SUBSET Nat, NEW s \in Seq(S), s # <<>>, InOrder(s)
    PROVE  /\ Tail(s) \in Seq(S) /\ Len(Tail(s)) = Len(s) - 1
           /\ InOrder(Tail(s))
           /\ Head(s) \in ToSet(s) /\ Head(s) \in S
           /\ ToSet(Tail(s)) = ToSet(s) \ {Head(s)}
           /\ \A y \in ToSet(Tail(s)) : Head(s) < y
<1> DEFINE t == Tail(s)
           h == Head(s)
<1>1. Len(s) \in Nat \ {0} /\ ToSet(s) = {s[i] : i \in 1..Len(s)} /\ \A i \in 1..Len(s) : s[i] \in S
  BY ChannelElements, LenProperties, EmptySeq
<1>2. /\ t \in Seq(S) /\ Len(t) = Len(s) - 1
      /\ \A i \in 1..Len(t) : t[i] = s[i + 1]
  BY HeadTailProperties
<1>3. h = s[1] /\ 1 \in 1..Len(s) BY <1>1
<1>4. ToSet(t) = {t[i] : i \in 1..Len(t)} BY <1>2, ChannelElements
<1> HIDE DEF t, h
<1>5. InOrder(t) BY <1>1, <1>2 DEF InOrder
<1>6. \A i \in 1..Len(t) : i + 1 \in 1..Len(s) /\ t[i] = s[i + 1] /\ h < s[i + 1]
  BY <1>1, <1>2, <1>3 DEF InOrder
<1>7. \A i \in 1..Len(s) : i = 1 \/ (i - 1 \in 1..Len(t) /\ s[i] = t[i - 1])
  BY <1>1, <1>2
<1>8. h \in ToSet(s) /\ h \in Nat BY <1>1, <1>3
<1>9. \A y \in ToSet(t) : h < y BY <1>4, <1>6
<1>10. h \notin ToSet(t) BY <1>8, <1>9
<1>11. ToSet(t) \subseteq ToSet(s) BY <1>1, <1>4, <1>6
<1>12. ToSet(s) \subseteq ToSet(t) \cup {h} BY <1>1, <1>3, <1>4, <1>7
<1> QED BY <1>1, <1>2, <1>3, <1>5, <1>8, <1>9, <1>10, <1>11, <1>12 DEF t, h

\* The next small file of the walk: there is a least one.
LEMMA NextOfWalk ==
    ASSUME NEW S \in SUBSET Nat, S # {}
    PROVE  Min(S) \in S /\ \A f \in S : Min(S) <= f
<1>1. \E x \in S : \A y \in S : ~(<<y, x>> \in OpToRel(<, Nat))
  BY NatLessThanWellFounded, WFMin
<1>2. PICK x \in S : \A y \in S : ~(<<y, x>> \in OpToRel(<, Nat))
  BY <1>1
<1>3. \A y \in S : x <= y
  <2>1. ASSUME NEW y \in S, y < x PROVE FALSE
    <3>1. <<y, x>> \in OpToRel(<, Nat) BY <2>1 DEF OpToRel
    <3> QED BY <1>2, <3>1
  <2> QED BY <2>1
<1> QED BY <1>3 DEF Min

-----------------------------------------------------------------------------
(***************************************************************************)
(* The invariant, step by step.                                            *)
(***************************************************************************)

\* The sets the steps are about are sets of positions in the tree.
LEMMA Positions ==
    ASSUME Inv
    PROVE  /\ Files \in Nat /\ enq \in Nat /\ at \in Nat /\ cur \in Nat /\ 0 \notin small
           /\ small \in SUBSET Nat /\ small \subseteq All /\ IsFiniteSet(small)
           /\ queue \in Seq(small) /\ work \in Seq(small)
           /\ ToSet(queue) \subseteq small /\ ToSet(work) \subseteq small
<1>1. small \subseteq All /\ queue \in Seq(small) /\ work \in Seq(small) BY DEF Inv, TypeOK
<1>2. Files \in Nat /\ IsFiniteSet(1..Files) BY PrefetchAssumption, FS_Interval
<1>3. small \in SUBSET (1..Files) BY <1>1 DEF All
<1>4. IsFiniteSet(small) BY <1>2, <1>3, FS_Subset
<1>5. small \in SUBSET Nat /\ 0 \notin small BY <1>2, <1>3
<1>6. enq \in Nat /\ at \in Nat /\ cur \in Nat BY <1>2, <1>5 DEF Inv, TypeOK
<1> QED BY <1>1, <1>2, <1>4, <1>5, <1>6, ChannelElements

\* Nothing has been enqueued, read or written.
LEMMA InitInv == Init => Inv
<1> SUFFICES ASSUME Init PROVE Inv
  OBVIOUS
<1> USE DEF Init
<1>0. ToSet(<<>>) = {} BY DEF ToSet
<1>1. TypeOK
  <2>1. Files \in Nat /\ MaxFaults \in Nat /\ Workers \in Nat /\ Depth \in Nat BY PrefetchAssumption
  <2>2. Cardinality({}) = 0 BY FS_EmptySet
  <2>3. <<>> \in Seq(small) /\ <<>> \in Seq(All \cup {0}) /\ Len(<<>>) = 0 OBVIOUS
  <2>4. /\ 1 \in 1..(Files + 1) /\ 0 \in 0..MaxFaults
        /\ Len(<<>>) <= Depth /\ Cardinality({}) <= Workers
    BY <2>1, <2>2, <2>3
  <2> QED BY <2>3, <2>4, Zenon DEF TypeOK
<1>2. ChannelsInOrder /\ EntriesSent /\ ReadOnce /\ UnreadIsOut
  BY <1>0 DEF ChannelsInOrder, EntriesSent, ReadOnce, UnreadIsOut, InOrder
<1>3. BuffersOut BY DEF BuffersOut
<1>4. WriterInPlace
  <2>1. \A f \in small : f \in Nat /\ ~(f < 1) BY PrefetchAssumption DEF All
  <2>2. Sent = {} BY <2>1 DEF Sent
  <2> QED BY <1>0, <2>1, <2>2 DEF WriterInPlace, Wanted
<1>5. EndedEmpty /\ NarInOrder BY DEF EndedEmpty, NarInOrder
<1> QED BY <1>1, <1>2, <1>3, <1>4, <1>5 DEF Inv

\* enqueue sends the next small file to the writer, who has not come to it.
LEMMA EnqueueKeepsInv == ASSUME Inv, Enqueue PROVE Inv'
<1> USE Positions DEF Inv, readVars
<1> DEFINE m == Min(Ahead)
<1>1. /\ m \in small /\ enq <= m /\ m \in Nat
      /\ \A f \in small : f >= enq => m <= f
  <2>1. Ahead \in SUBSET Nat /\ Ahead # {} BY DEF Ahead, Enqueue
  <2> QED BY <2>1, NextOfWalk DEF Ahead
<1> HIDE DEF m
<1>2. /\ queue' = Append(queue, m) /\ enq' = m /\ enqpc' = "work" /\ enqpc = "walk"
      /\ Len(queue) < Depth
      /\ UNCHANGED <<small, work, reading, done, bad, buf, content, at, wpc, cur, nar, drain, result, faults>>
  BY DEF Enqueue, m
<1>3. Sent' = Sent \cup {m} /\ m \notin Sent
  <2>1. \A f \in small : f \in Nat /\ (f < m \/ f = m <=> f < enq \/ f = m) BY <1>1
  <2>2. Sent' = {f \in small : f < m \/ f = m} /\ Sent = {f \in small : f < enq} BY <1>2 DEF Sent
  <2>3. ~(m < enq) BY <1>1
  <2>4. {f \in small : f < m \/ f = m} = {f \in small : f < enq} \cup {m} BY <1>1, <2>1
  <2> QED BY <1>1, <2>2, <2>3, <2>4
<1>4. \A f \in Sent \cup {0} : f < m BY <1>1, <1>2 DEF Sent
<1>5. /\ queue' \in Seq(small) /\ Len(queue') = Len(queue) + 1 /\ InOrder(queue')
      /\ ToSet(queue') = ToSet(queue) \cup {m}
  BY <1>1, <1>2, <1>4, SendInOrder DEF EntriesSent, ChannelsInOrder
<1>6. Out' = Out \cup {m} BY <1>2, <1>5 DEF Out
<1>7. TypeOK'
  <2>1. m \in 1..(Files + 1) BY <1>1 DEF All
  <2>2. Len(queue') <= Depth BY <1>2, <1>5, LenProperties, PrefetchAssumption
  <2> QED BY <1>2, <1>5, <2>1, <2>2 DEF TypeOK
<1>8. ChannelsInOrder' BY <1>2, <1>4, <1>5 DEF ChannelsInOrder, EntriesSent
<1>9. EntriesSent' BY <1>1, <1>2, <1>3, <1>5 DEF EntriesSent
<1>10. ReadOnce'
  <2>1. \A f \in small : f < enq => f < m BY <1>1
  <2> QED BY <1>2, <2>1 DEF ReadOnce
<1>11. UnreadIsOut' BY <1>2, <1>6 DEF UnreadIsOut
<1>12. BuffersOut'
  <2>1. m \notin done BY <1>1, <1>2 DEF ReadOnce
  <2> QED BY <1>2, <1>6, <2>1 DEF BuffersOut
<1>13. WriterInPlace'
  <2>1. Wanted' = Wanted BY <1>2 DEF Wanted
  <2>2. wpc \in {"node", "got", "written"} => m >= Wanted
    BY <1>1, <1>3 DEF WriterInPlace, Wanted
  <2> QED BY <1>2, <1>3, <1>5, <2>1, <2>2 DEF WriterInPlace
<1>14. EndedEmpty' BY <1>2 DEF EndedEmpty
<1>15. NarInOrder' BY <1>2 DEF NarInOrder
<1> QED BY <1>7, <1>8, <1>9, <1>10, <1>11, <1>12, <1>13, <1>14, <1>15

\* ... and to the readers.
LEMMA EnqueueWorkKeepsInv == ASSUME Inv, EnqueueWork PROVE Inv'
<1> USE Positions DEF Inv, readVars
<1>1. /\ work' = Append(work, enq) /\ enq' = enq + 1 /\ enqpc' = "walk" /\ enqpc = "work"
      /\ Len(work) < Depth /\ enq \in small
      /\ UNCHANGED <<small, queue, reading, done, bad, buf, content, at, wpc, cur, nar, drain, result, faults>>
  BY DEF EnqueueWork, EntriesSent
<1>2. Sent' = Sent BY <1>1 DEF Sent
<1>3. Out' = Out BY <1>1 DEF Out
<1>4. \A f \in ToSet(work) \cup reading \cup done : f < enq BY DEF ReadOnce
<1>5. /\ work' \in Seq(small) /\ Len(work') = Len(work) + 1 /\ InOrder(work')
      /\ ToSet(work') = ToSet(work) \cup {enq}
  <2>1. InOrder(work) /\ \A f \in ToSet(work) : f < enq BY <1>4 DEF ChannelsInOrder
  <2>2. small \in SUBSET Nat /\ work \in Seq(small) /\ enq \in small BY <1>1
  <2> HIDE Positions DEF Inv
  <2>3. /\ Append(work, enq) \in Seq(small) /\ Len(Append(work, enq)) = Len(work) + 1
        /\ InOrder(Append(work, enq)) /\ ToSet(Append(work, enq)) = ToSet(work) \cup {enq}
    BY <2>1, <2>2, SendInOrder
  <2> QED BY <1>1, <2>3
<1>6. TypeOK'
  <2>1. enq + 1 \in 1..(Files + 1) BY <1>1 DEF All
  <2>2. Len(work') <= Depth BY <1>1, <1>5, LenProperties, PrefetchAssumption
  <2> QED BY <1>1, <1>5, <2>1, <2>2 DEF TypeOK
<1>7. ChannelsInOrder' BY <1>1, <1>5 DEF ChannelsInOrder
<1>8. EntriesSent' BY <1>1, <1>2 DEF EntriesSent
<1>9. ReadOnce'
  <2>1. enq \notin reading \cup done BY <1>4
  <2>2. ToSet(work') \cup reading \cup done \subseteq {f \in small : f < enq + 1}
    BY <1>1, <1>5 DEF ReadOnce
  <2> QED BY <1>1, <1>5, <2>1, <2>2 DEF ReadOnce
<1>10. UnreadIsOut' BY <1>1, <1>3, <1>5 DEF UnreadIsOut
<1>11. BuffersOut' BY <1>1, <1>3 DEF BuffersOut
<1>12. WriterInPlace' BY <1>1, <1>2 DEF WriterInPlace, Wanted
<1>13. EndedEmpty' /\ NarInOrder' BY <1>1 DEF EndedEmpty, NarInOrder
<1> QED BY <1>6, <1>7, <1>8, <1>9, <1>10, <1>11, <1>12, <1>13

\* The two halves of close.
LEMMA CloseKeepsInv == ASSUME Inv, CloseWork \/ CloseQueue PROVE Inv'
<1> USE DEF Inv, readVars
<1>1. /\ enqpc' \in {"closing", "closed"} /\ enqpc \in {"walk", "closing"}
      /\ UNCHANGED <<small, enq, queue, work, reading, done, bad, buf, content, at, wpc, cur, nar, drain, result, faults>>
  BY DEF CloseWork, CloseQueue
<1>2. Sent' = Sent /\ Out' = Out BY <1>1 DEF Sent, Out
<1>3. TypeOK' BY <1>1 DEF TypeOK
<1>4. ChannelsInOrder' /\ EntriesSent' /\ ReadOnce' /\ UnreadIsOut' /\ BuffersOut'
  BY <1>1, <1>2 DEF ChannelsInOrder, EntriesSent, ReadOnce, UnreadIsOut, BuffersOut
<1>5. WriterInPlace' /\ EndedEmpty' /\ NarInOrder'
  BY <1>1, <1>2 DEF WriterInPlace, Wanted, EndedEmpty, NarInOrder
<1> QED BY <1>3, <1>4, <1>5

\* A reader opens the next file: the buffer it takes from the pool is nobody
\* else's.
LEMMA StartReadKeepsInv == ASSUME Inv, StartRead PROVE Inv'
<1> USE Positions DEF Inv
<1> DEFINE h == Head(work)
<1>1. /\ work # <<>> /\ Cardinality(reading) < Workers
      /\ work' = Tail(work) /\ reading' = reading \cup {h}
      /\ UNCHANGED <<small, enq, enqpc, queue, done, bad, at, wpc, cur, nar, drain, result, faults>>
  BY DEF StartRead
<1>2. PICK b \in Pooled :
        buf' = [buf EXCEPT ![h] = b] /\ content' = [content EXCEPT ![b] = h]
  BY DEF StartRead
<1>3. /\ work' \in Seq(small) /\ Len(work') = Len(work) - 1 /\ InOrder(work')
      /\ h \in ToSet(work) /\ h \in small
      /\ ToSet(work') = ToSet(work) \ {h}
  BY <1>1, ReceiveInOrder DEF ChannelsInOrder
<1> HIDE DEF h
<1>4. h \notin reading \cup done /\ h \in Out /\ h \in All BY <1>3 DEF ReadOnce, UnreadIsOut
<1>5. b \in Buffers /\ b # 0 /\ \A f \in All : buf[f] # b
  <2>1. b \in Buffers /\ \A f \in All : buf[f] # b BY DEF Pooled
  <2>2. 0 \notin Buffers BY PrefetchAssumption DEF Buffers
  <2> QED BY <2>1, <2>2
<1>6. Sent' = Sent /\ Out' = Out BY <1>1 DEF Sent, Out
<1>7. TypeOK'
  <2>1. Cardinality(reading') <= Workers
    <3>1. reading \in SUBSET small BY DEF TypeOK
    <3>2. IsFiniteSet(reading) /\ Cardinality(reading) \in Nat
      BY <3>1, FS_Subset, FS_CardinalityType
    <3>3. Cardinality(reading') = Cardinality(reading) + 1 BY <1>1, <1>4, <3>2, FS_AddElement
    <3> QED BY <1>1, <3>2, <3>3, PrefetchAssumption
  <2>2. Len(work') <= Depth
    BY <1>3, LenProperties, PrefetchAssumption DEF TypeOK
  <2>3. buf' \in [All -> Buffers \cup {0}] /\ content' \in [Buffers -> All \cup {0}]
    BY <1>2, <1>4, <1>5 DEF TypeOK
  <2> QED BY <1>1, <1>3, <1>4, <2>1, <2>2, <2>3 DEF TypeOK
<1>8. ChannelsInOrder' /\ EntriesSent' BY <1>1, <1>3, <1>6 DEF ChannelsInOrder, EntriesSent
<1>9. ReadOnce' BY <1>1, <1>3, <1>4 DEF ReadOnce
<1>10. UnreadIsOut' BY <1>1, <1>3, <1>4, <1>6 DEF UnreadIsOut
<1>11. BuffersOut'
  <2>1. buf'[h] = b /\ content'[b] = h BY <1>2, <1>4, <1>5 DEF TypeOK
  <2>2. \A f \in All \ {h} : buf'[f] = buf[f] BY <1>2, <1>4 DEF TypeOK
  <2>3. \A f \in All \ {h} : buf[f] # 0 => content'[buf[f]] = content[buf[f]]
    BY <1>2, <1>5 DEF TypeOK
  <2>4. reading \cup done \subseteq All BY DEF TypeOK
  <2>5. ASSUME NEW f \in All, buf'[f] # 0 PROVE f \in Out' /\ content'[buf'[f]] = f
    <3>1. CASE f = h BY <1>4, <1>6, <2>1, <3>1
    <3>2. CASE f # h BY <1>6, <2>2, <2>3, <2>5, <3>2 DEF BuffersOut
    <3> QED BY <3>1, <3>2
  <2>6. ASSUME NEW f \in reading' \cup ((done' \ bad') \cap Out') PROVE buf'[f] # 0
    <3>1. CASE f = h BY <1>5, <2>1, <3>1
    <3>2. CASE f # h BY <1>1, <1>6, <2>2, <2>4, <2>6, <3>2 DEF BuffersOut
    <3> QED BY <3>1, <3>2
  <2> QED BY <2>5, <2>6 DEF BuffersOut
<1>12. WriterInPlace' BY <1>1, <1>6 DEF WriterInPlace, Wanted
<1>13. EndedEmpty' /\ NarInOrder' BY <1>1 DEF EndedEmpty, NarInOrder
<1> QED BY <1>7, <1>8, <1>9, <1>10, <1>11, <1>12, <1>13

\* A file that cannot be opened is done without a buffer.
LEMMA OpenFailsKeepsInv == ASSUME Inv, OpenFails PROVE Inv'
<1> USE Positions DEF Inv
<1> DEFINE h == Head(work)
<1>1. /\ work # <<>> /\ work' = Tail(work)
      /\ done' = done \cup {h} /\ bad' = bad \cup {h}
      /\ faults < MaxFaults /\ faults' = faults + 1
      /\ UNCHANGED <<small, enq, enqpc, queue, reading, buf, content, at, wpc, cur, nar, drain, result>>
  BY DEF OpenFails, Fault
<1>2. /\ work' \in Seq(small) /\ Len(work') = Len(work) - 1 /\ InOrder(work')
      /\ h \in ToSet(work) /\ h \in small
      /\ ToSet(work') = ToSet(work) \ {h}
  BY <1>1, ReceiveInOrder DEF ChannelsInOrder
<1> HIDE DEF h
<1>3. h \notin reading \cup done BY <1>2 DEF ReadOnce
<1>4. Sent' = Sent /\ Out' = Out BY <1>1 DEF Sent, Out
<1>5. TypeOK'
  <2>1. Len(work') <= Depth
    BY <1>2, LenProperties, PrefetchAssumption DEF TypeOK
  <2>2. faults' \in 0..MaxFaults BY <1>1, PrefetchAssumption DEF TypeOK
  <2> QED BY <1>1, <1>2, <1>3, <2>1, <2>2 DEF TypeOK
<1>6. ChannelsInOrder' /\ EntriesSent' BY <1>1, <1>2, <1>4 DEF ChannelsInOrder, EntriesSent
<1>7. ReadOnce' BY <1>1, <1>2, <1>3 DEF ReadOnce
<1>8. UnreadIsOut' /\ BuffersOut' BY <1>1, <1>2, <1>4 DEF UnreadIsOut, BuffersOut
<1>9. WriterInPlace' BY <1>1, <1>4 DEF WriterInPlace, Wanted
<1>10. EndedEmpty' /\ NarInOrder' BY <1>1 DEF EndedEmpty, NarInOrder
<1> QED BY <1>5, <1>6, <1>7, <1>8, <1>9, <1>10

\* A reader that has read a file leaves the buffer to its entry; one that
\* could not gives it back itself.
LEMMA EndReadKeepsInv ==
    ASSUME Inv, NEW f \in reading, NEW ok \in BOOLEAN, EndRead(f, ok) PROVE Inv'
<1> USE Positions DEF Inv
<1>1. /\ reading' = reading \ {f} /\ done' = done \cup {f}
      /\ UNCHANGED <<small, enq, enqpc, queue, work, content, at, wpc, cur, nar, drain, result>>
  BY DEF EndRead, enqVars
<1>2. \/ bad' = bad /\ buf' = buf /\ faults' = faults
      \/ /\ bad' = bad \cup {f} /\ buf' = [buf EXCEPT ![f] = 0]
         /\ faults < MaxFaults /\ faults' = faults + 1
  BY DEF EndRead, Outcome, Fault
<1>3. f \in small /\ f \in All /\ f \notin done BY DEF TypeOK
<1>4. Sent' = Sent /\ Out' = Out BY <1>1 DEF Sent, Out
<1>5. TypeOK'
  <2>1. Cardinality(reading') <= Workers
    <3>1. reading \in SUBSET small /\ reading' \in SUBSET reading BY <1>1 DEF TypeOK
    <3>2. IsFiniteSet(reading) BY <3>1, FS_Subset
    <3>3. Cardinality(reading') <= Cardinality(reading) /\ Cardinality(reading) <= Workers
      BY <3>1, <3>2, FS_Subset DEF TypeOK
    <3>4. Cardinality(reading') \in Nat /\ Cardinality(reading) \in Nat
      BY <3>1, <3>2, FS_Subset, FS_CardinalityType
    <3> QED BY <3>3, <3>4, PrefetchAssumption
  <2>2. faults' \in 0..MaxFaults BY <1>2, PrefetchAssumption DEF TypeOK
  <2>3. buf' \in [All -> Buffers \cup {0}] BY <1>2 DEF TypeOK
  <2>4. done' \subseteq small \ reading' /\ bad' \subseteq done' /\ reading' \subseteq small
    BY <1>1, <1>2, <1>3 DEF TypeOK
  <2> QED BY <1>1, <2>1, <2>2, <2>3, <2>4 DEF TypeOK
<1>6. ChannelsInOrder' /\ EntriesSent' BY <1>1, <1>4 DEF ChannelsInOrder, EntriesSent
<1>7. ReadOnce' BY <1>1 DEF ReadOnce
<1>8. UnreadIsOut' BY <1>1, <1>4 DEF UnreadIsOut
<1>9. BuffersOut'
  <2>1. CASE bad' = bad /\ buf' = buf BY <1>1, <1>4, <2>1 DEF BuffersOut
  <2>2. CASE bad' = bad \cup {f} /\ buf' = [buf EXCEPT ![f] = 0]
    <3>1. \A g \in All \ {f} : buf'[g] = buf[g] BY <2>2 DEF TypeOK
    <3>2. buf'[f] = 0 BY <1>3, <2>2 DEF TypeOK
    <3>3. reading \cup done \subseteq All BY DEF TypeOK
    <3> QED BY <1>1, <1>4, <2>2, <3>1, <3>2, <3>3 DEF BuffersOut
  <2> QED BY <1>2, <2>1, <2>2
<1>10. WriterInPlace' BY <1>1, <1>4 DEF WriterInPlace, Wanted
<1>11. EndedEmpty' /\ NarInOrder' BY <1>1 DEF EndedEmpty, NarInOrder
<1> QED BY <1>5, <1>6, <1>7, <1>8, <1>9, <1>10, <1>11

\* Taking the next entry, by the writer or by the drain.
LEMMA TakeEntry ==
    ASSUME Inv, queue # <<>>, cur = 0, cur' = Head(queue), queue' = Tail(queue),
           UNCHANGED <<small, enq, enqpc, work, reading, done, bad, buf, content>>
    PROVE  /\ queue' \in Seq(small) /\ Len(queue') <= Depth
           /\ cur' \in ToSet(queue) /\ cur' \in small
           /\ ToSet(queue') = ToSet(queue) \ {cur'}
           /\ \A f \in ToSet(queue') : cur' < f
           /\ Sent' = Sent
           /\ ChannelsInOrder' /\ EntriesSent' /\ ReadOnce' /\ UnreadIsOut' /\ BuffersOut'
<1> USE Positions DEF Inv
<1>1. /\ queue' \in Seq(small) /\ Len(queue') = Len(queue) - 1 /\ InOrder(queue')
      /\ cur' \in ToSet(queue) /\ cur' \in small
      /\ ToSet(queue') = ToSet(queue) \ {cur'}
      /\ \A f \in ToSet(queue') : cur' < f
  BY ReceiveInOrder DEF ChannelsInOrder
<1>2. Len(queue') <= Depth BY <1>1, LenProperties, PrefetchAssumption DEF TypeOK
<1>3. Sent' = Sent BY DEF Sent
<1>4. Out' = Out \ {0} BY <1>1 DEF Out
<1>5. ChannelsInOrder' BY <1>1 DEF ChannelsInOrder
<1>6. EntriesSent' BY <1>1, <1>3 DEF EntriesSent
<1>7. ReadOnce' BY DEF ReadOnce
<1>8. UnreadIsOut' BY <1>4 DEF UnreadIsOut, EntriesSent, TypeOK
<1>9. BuffersOut'
  <2>1. 0 \notin All BY DEF All
  <2> QED BY <1>4, <2>1 DEF BuffersOut
<1> QED BY <1>1, <1>2, <1>3, <1>5, <1>6, <1>7, <1>8, <1>9

\* Releasing an entry whose file has been read, by the writer, when it fails,
\* or by the drain.
LEMMA ReleaseEntry ==
    ASSUME Inv, cur \in done, cur' = 0, buf' = [buf EXCEPT ![cur] = 0],
           UNCHANGED <<small, enq, enqpc, queue, work, reading, done, bad, content>>
    PROVE  /\ buf' \in [All -> Buffers \cup {0}]
           /\ Sent' = Sent
           /\ ChannelsInOrder' /\ EntriesSent' /\ ReadOnce' /\ UnreadIsOut' /\ BuffersOut'
<1> USE Positions DEF Inv
<1>1. cur \in small /\ cur \in All /\ cur < enq /\ cur \notin reading /\ cur \notin ToSet(work)
  BY DEF ReadOnce, TypeOK
<1>2. cur \notin ToSet(queue) BY DEF ChannelsInOrder
<1>3. Sent' = Sent BY DEF Sent
<1>4. Out' = (Out \ {cur}) \cup {0} BY <1>2 DEF Out
<1>5. buf' \in [All -> Buffers \cup {0}] BY DEF TypeOK
<1>6. ChannelsInOrder' BY DEF ChannelsInOrder
<1>7. EntriesSent' BY <1>3 DEF EntriesSent
<1>8. ReadOnce' BY DEF ReadOnce
<1>9. UnreadIsOut' BY <1>1, <1>4 DEF UnreadIsOut
<1>10. BuffersOut'
  <2>1. buf'[cur] = 0 /\ \A f \in All \ {cur} : buf'[f] = buf[f] BY <1>1 DEF TypeOK
  <2>2. reading \cup done \subseteq All \ {0} BY DEF TypeOK
  <2> QED BY <1>1, <1>4, <2>1, <2>2 DEF BuffersOut
<1> QED BY <1>3, <1>5, <1>6, <1>7, <1>8, <1>9, <1>10

\* What the writer takes is the file it has come to.
LEMMA TakeKeepsInv == ASSUME Inv, Take PROVE Inv'
<1> USE Positions DEF Inv
<1>1. /\ wpc = "node" /\ wpc' = "got" /\ at \in small /\ queue # <<>>
      /\ cur' = Head(queue) /\ queue' = Tail(queue)
      /\ UNCHANGED <<small, enq, enqpc, work, reading, done, bad, buf, content, at, nar, drain, result, faults>>
  BY DEF Take, readVars
<1>2. cur = 0 BY <1>1 DEF WriterInPlace
<1>3. /\ queue' \in Seq(small) /\ Len(queue') <= Depth
      /\ cur' \in ToSet(queue) /\ cur' \in small
      /\ ToSet(queue') = ToSet(queue) \ {cur'}
      /\ \A f \in ToSet(queue') : cur' < f
      /\ Sent' = Sent
      /\ ChannelsInOrder' /\ EntriesSent' /\ ReadOnce' /\ UnreadIsOut' /\ BuffersOut'
  BY <1>1, <1>2, TakeEntry
<1>4. ToSet(queue) = {f \in Sent : f >= at} /\ \A f \in small : f < at => f \in Sent
  BY <1>1 DEF WriterInPlace, Wanted
<1>5. cur' = at
  <2>1. cur' \in Sent /\ cur' >= at BY <1>3, <1>4
  <2>2. at \in Sent BY <1>1, <1>3, <2>1 DEF Sent
  <2>3. at \in ToSet(queue) BY <1>4, <2>2
  <2> QED BY <1>3, <2>1, <2>3
<1>6. TypeOK' BY <1>1, <1>3 DEF TypeOK
<1>7. WriterInPlace'
  <2>1. \A f \in small : f >= at /\ f # at <=> f >= at + 1 OBVIOUS
  <2>2. Sent \subseteq small BY DEF Sent
  <2>3. ToSet(queue') = {f \in Sent : f >= at + 1} BY <1>3, <1>4, <1>5, <2>1, <2>2
  <2>4. \A f \in small : f < at + 1 => f \in Sent
    <3>1. at \in Sent BY <1>3, <1>4, <1>5
    <3> QED BY <1>4, <3>1
  <2> QED BY <1>1, <1>3, <1>5, <2>3, <2>4 DEF WriterInPlace, Wanted
<1>8. EndedEmpty' /\ NarInOrder' BY <1>1 DEF EndedEmpty, NarInOrder
<1> QED BY <1>3, <1>6, <1>7, <1>8

\* The archive grows by the next file.
LEMMA AppendToNar ==
    ASSUME Inv, NEW f \in All, nar' = Append(nar, f), f = Len(nar) + 1
    PROVE  /\ nar' \in Seq(All \cup {0}) /\ Len(nar') = f
           /\ \A i \in DOMAIN nar' : nar'[i] = i
<1>1. nar \in Seq(All \cup {0}) /\ \A i \in DOMAIN nar : nar[i] = i BY DEF Inv, TypeOK, NarInOrder
<1>2. Len(nar) \in Nat /\ DOMAIN nar = 1..Len(nar) BY <1>1, LenProperties
<1>3. /\ nar' \in Seq(All \cup {0}) /\ Len(nar') = Len(nar) + 1
      /\ \A i \in 1..Len(nar) : nar'[i] = nar[i]
      /\ nar'[Len(nar) + 1] = f
  BY <1>1, AppendProperties
<1>4. DOMAIN nar' = 1..(Len(nar) + 1) BY <1>3, LenProperties
<1>5. \A i \in 1..(Len(nar) + 1) : i \in 1..Len(nar) \/ i = Len(nar) + 1 BY <1>2
<1> QED BY <1>1, <1>2, <1>3, <1>4, <1>5

\* writeFileContentsPrefetched writes the bytes of the file it has come to.
LEMMA WriteKeepsInv == ASSUME Inv, Write PROVE Inv'
<1> USE Positions DEF Inv
<1>1. /\ wpc = "got" /\ wpc' = "written" /\ cur \in done \ bad
      /\ nar' = Append(nar, content[buf[cur]])
      /\ UNCHANGED <<small, enq, enqpc, queue, work, reading, done, bad, buf, content, at, cur, drain, result, faults>>
  BY DEF Write, readVars, enqVars
<1>2. cur = at /\ cur \in small /\ cur \in All /\ Len(nar) = at - 1
  BY <1>1 DEF WriterInPlace
<1>3. content[buf[cur]] = cur
  <2>1. cur \in Out BY DEF Out
  <2> QED BY <1>1, <1>2, <2>1 DEF BuffersOut
<1>4. /\ nar' \in Seq(All \cup {0}) /\ Len(nar') = at
      /\ \A i \in DOMAIN nar' : nar'[i] = i
  BY <1>1, <1>2, <1>3, AppendToNar
<1>5. Sent' = Sent /\ Out' = Out BY <1>1 DEF Sent, Out
<1>6. TypeOK' BY <1>1, <1>4 DEF TypeOK
<1>7. ChannelsInOrder' /\ EntriesSent' /\ ReadOnce' /\ UnreadIsOut' /\ BuffersOut'
  BY <1>1, <1>5 DEF ChannelsInOrder, EntriesSent, ReadOnce, UnreadIsOut, BuffersOut
<1>8. WriterInPlace' BY <1>1, <1>4, <1>5 DEF WriterInPlace, Wanted
<1>9. EndedEmpty' /\ NarInOrder' BY <1>1, <1>4 DEF EndedEmpty, NarInOrder
<1> QED BY <1>6, <1>7, <1>8, <1>9

\* The buffer of a file that was written goes back to the pool.
LEMMA ReleaseKeepsInv == ASSUME Inv, Release PROVE Inv'
<1> USE Positions DEF Inv
<1>1. /\ wpc = "written" /\ wpc' = "node" /\ cur' = 0 /\ at' = at + 1
      /\ buf' = [buf EXCEPT ![cur] = 0]
      /\ UNCHANGED <<small, enq, enqpc, queue, work, reading, done, bad, content, nar, drain, result, faults>>
  BY DEF Release, enqVars
<1>2. cur \in done /\ cur = at /\ at \in small BY <1>1 DEF WriterInPlace
<1>3. /\ buf' \in [All -> Buffers \cup {0}]
      /\ Sent' = Sent
      /\ ChannelsInOrder' /\ EntriesSent' /\ ReadOnce' /\ UnreadIsOut' /\ BuffersOut'
  BY <1>1, <1>2, ReleaseEntry
<1>4. TypeOK'
  <2>1. at + 1 \in 1..(Files + 1) BY <1>2 DEF All
  <2> QED BY <1>1, <1>3, <2>1 DEF TypeOK
<1>5. WriterInPlace' BY <1>1, <1>3 DEF WriterInPlace, Wanted
<1>6. EndedEmpty' /\ NarInOrder' BY <1>1 DEF EndedEmpty, NarInOrder
<1> QED BY <1>3, <1>4, <1>5, <1>6

\* A large file is written without the queue.
LEMMA WriteLargeKeepsInv == ASSUME Inv, WriteLarge PROVE Inv'
<1> USE Positions DEF Inv
<1>1. /\ wpc = "node" /\ at \in All /\ at \notin small /\ at' = at + 1
      /\ nar' = Append(nar, at)
      /\ UNCHANGED <<small, enq, enqpc, queue, work, reading, done, bad, buf, content, wpc, cur, drain, result, faults>>
  BY DEF WriteLarge, readVars, enqVars
<1>2. cur = 0 /\ Len(nar) = at - 1
      /\ ToSet(queue) = {f \in Sent : f >= at} /\ \A f \in small : f < at => f \in Sent
  BY <1>1 DEF WriterInPlace, Wanted
<1>3. /\ nar' \in Seq(All \cup {0}) /\ Len(nar') = at
      /\ \A i \in DOMAIN nar' : nar'[i] = i
  BY <1>1, <1>2, AppendToNar
<1>4. Sent' = Sent /\ Out' = Out BY <1>1 DEF Sent, Out
<1>5. TypeOK'
  <2>1. at + 1 \in 1..(Files + 1) BY <1>1 DEF All
  <2> QED BY <1>1, <1>3, <2>1 DEF TypeOK
<1>6. ChannelsInOrder' /\ EntriesSent' /\ ReadOnce' /\ UnreadIsOut' /\ BuffersOut'
  BY <1>1, <1>4 DEF ChannelsInOrder, EntriesSent, ReadOnce, UnreadIsOut, BuffersOut
<1>7. WriterInPlace'
  <2>1. \A f \in small : (f >= at <=> f >= at + 1) /\ (f < at <=> f < at + 1) BY <1>1
  <2>2. Sent \subseteq small BY DEF Sent
  <2>3. {f \in Sent : f >= at} = {f \in Sent : f >= at + 1} BY <2>1, <2>2
  <2> QED BY <1>1, <1>2, <1>3, <1>4, <2>1, <2>3 DEF WriterInPlace, Wanted
<1>8. EndedEmpty' /\ NarInOrder' BY <1>1, <1>3 DEF EndedEmpty, NarInOrder
<1> QED BY <1>5, <1>6, <1>7, <1>8

\* The writer fails: it releases its entry, if it has one, and takes no more.
LEMMA FailureKeepsInv == ASSUME Inv, WriteFails \/ NodeFails PROVE Inv'
<1> USE Positions DEF Inv
<1>1. CASE WriteFails
  <2>1. /\ wpc = "got" /\ wpc' = "failed" /\ cur \in done /\ cur' = 0
        /\ buf' = [buf EXCEPT ![cur] = 0]
        /\ faults' = faults \/ (faults < MaxFaults /\ faults' = faults + 1)
        /\ UNCHANGED <<small, enq, enqpc, queue, work, reading, done, bad, content, at, nar, drain, result>>
    BY <1>1 DEF WriteFails, Fault, enqVars
  <2>2. /\ buf' \in [All -> Buffers \cup {0}]
        /\ ChannelsInOrder' /\ EntriesSent' /\ ReadOnce' /\ UnreadIsOut' /\ BuffersOut'
    BY <2>1, ReleaseEntry
  <2>3. TypeOK'
    <3>1. faults' \in 0..MaxFaults BY <2>1, PrefetchAssumption DEF TypeOK
    <3> QED BY <2>1, <2>2, <3>1 DEF TypeOK
  <2>4. WriterInPlace' /\ EndedEmpty' /\ NarInOrder'
    BY <2>1 DEF WriterInPlace, EndedEmpty, NarInOrder
  <2> QED BY <2>2, <2>3, <2>4
<1>2. CASE NodeFails
  <2>1. /\ wpc = "node" /\ wpc' = "failed" /\ faults < MaxFaults /\ faults' = faults + 1
        /\ UNCHANGED <<small, enq, enqpc, queue, work, reading, done, bad, buf, content, at, cur, nar, drain, result>>
    BY <1>2 DEF NodeFails, Fault, readVars, enqVars
  <2>2. Sent' = Sent /\ Out' = Out BY <2>1 DEF Sent, Out
  <2>3. TypeOK'
    <3>1. faults' \in 0..MaxFaults BY <2>1, PrefetchAssumption DEF TypeOK
    <3> QED BY <2>1, <3>1 DEF TypeOK
  <2>4. ChannelsInOrder' /\ EntriesSent' /\ ReadOnce' /\ UnreadIsOut' /\ BuffersOut'
    BY <2>1, <2>2 DEF ChannelsInOrder, EntriesSent, ReadOnce, UnreadIsOut, BuffersOut
  <2>5. WriterInPlace' /\ EndedEmpty' /\ NarInOrder'
    BY <2>1 DEF WriterInPlace, EndedEmpty, NarInOrder
  <2> QED BY <2>3, <2>4, <2>5
<1> QED BY <1>1, <1>2

\* The drain starts, takes entries, releases them and ends with the queue.
LEMMA DrainKeepsInv == ASSUME Inv, StartDrain \/ Drainer PROVE Inv'
<1> USE Positions DEF Inv
<1>1. CASE StartDrain \/ DrainEnds
  <2>1. /\ drain' \in BOOLEAN /\ wpc' \in {wpc, "draining"}
        /\ UNCHANGED <<small, enq, enqpc, queue, work, reading, done, bad, buf, content, at, cur, nar, result, faults>>
    BY <1>1 DEF StartDrain, DrainEnds, readVars, enqVars
  <2>2. Sent' = Sent /\ Out' = Out BY <2>1 DEF Sent, Out
  <2>3. TypeOK' BY <2>1 DEF TypeOK
  <2>4. ChannelsInOrder' /\ EntriesSent' /\ ReadOnce' /\ UnreadIsOut' /\ BuffersOut'
    BY <2>1, <2>2 DEF ChannelsInOrder, EntriesSent, ReadOnce, UnreadIsOut, BuffersOut
  <2>5. WriterInPlace' BY <1>1, <2>1, <2>2 DEF StartDrain, DrainEnds, WriterInPlace, Wanted
  <2>6. EndedEmpty' BY <1>1, <2>1 DEF StartDrain, DrainEnds, EndedEmpty
  <2>7. NarInOrder' BY <2>1 DEF NarInOrder
  <2> QED BY <2>3, <2>4, <2>5, <2>6, <2>7
<1>2. CASE DrainTake
  <2>1. /\ drain /\ cur = 0 /\ queue # <<>> /\ cur' = Head(queue) /\ queue' = Tail(queue)
        /\ UNCHANGED <<small, enq, enqpc, work, reading, done, bad, buf, content, at, wpc, nar, drain, result, faults>>
    BY <1>2 DEF DrainTake, readVars
  <2>2. /\ queue' \in Seq(small) /\ Len(queue') <= Depth /\ cur' \in small
        /\ ChannelsInOrder' /\ EntriesSent' /\ ReadOnce' /\ UnreadIsOut' /\ BuffersOut'
    BY <2>1, TakeEntry
  <2>3. TypeOK' BY <2>1, <2>2 DEF TypeOK
  <2>4. WriterInPlace' /\ EndedEmpty' /\ NarInOrder'
    BY <2>1 DEF WriterInPlace, EndedEmpty, NarInOrder
  <2> QED BY <2>2, <2>3, <2>4
<1>3. CASE DrainRelease
  <2>1. /\ drain /\ cur \in done /\ cur' = 0 /\ buf' = [buf EXCEPT ![cur] = 0]
        /\ UNCHANGED <<small, enq, enqpc, queue, work, reading, done, bad, content, at, wpc, nar, drain, result, faults>>
    BY <1>3 DEF DrainRelease, enqVars
  <2>2. /\ buf' \in [All -> Buffers \cup {0}]
        /\ ChannelsInOrder' /\ EntriesSent' /\ ReadOnce' /\ UnreadIsOut' /\ BuffersOut'
    BY <2>1, ReleaseEntry
  <2>3. TypeOK' BY <2>1, <2>2 DEF TypeOK
  <2>4. WriterInPlace' /\ EndedEmpty' /\ NarInOrder'
    BY <2>1 DEF WriterInPlace, EndedEmpty, NarInOrder
  <2> QED BY <2>2, <2>3, <2>4
<1> QED BY <1>1, <1>2, <1>3 DEF Drainer

\* A dump that returns without an error has taken all entries and written all
\* files.
LEMMA ReturnKeepsInv == ASSUME Inv, Return PROVE Inv'
<1> USE Positions DEF Inv
<1>1. /\ enqpc = "closed" /\ result = "none" /\ wpc' = "returned"
      /\ (wpc = "node" /\ at > Files /\ result' = "ok") \/ (wpc = "draining" /\ result' = "error")
      /\ UNCHANGED <<small, enq, enqpc, queue, work, reading, done, bad, buf, content, at, cur, nar, drain, faults>>
  BY DEF Return, readVars, enqVars
<1>2. Sent' = Sent /\ Out' = Out BY <1>1 DEF Sent, Out
<1>3. TypeOK' BY <1>1 DEF TypeOK
<1>4. ChannelsInOrder' /\ EntriesSent' /\ ReadOnce' /\ UnreadIsOut' /\ BuffersOut'
  BY <1>1, <1>2 DEF ChannelsInOrder, EntriesSent, ReadOnce, UnreadIsOut, BuffersOut
<1>5. WriterInPlace' BY <1>1 DEF WriterInPlace
<1>6. ASSUME wpc = "node", at > Files
      PROVE  cur = 0 /\ queue = <<>> /\ Len(nar) = Files
  <2>1. cur = 0 /\ Len(nar) = at - 1 /\ ToSet(queue) = {f \in Sent : f >= at}
    BY <1>6 DEF WriterInPlace, Wanted
  <2>2. \A f \in small : ~(f >= at) BY <1>6 DEF All
  <2>3. ToSet(queue) = {} BY <2>1, <2>2 DEF Sent
  <2>4. queue = <<>>
    <3>1. SUFFICES ASSUME queue # <<>> PROVE FALSE OBVIOUS
    <3>2. Head(queue) \in ToSet(queue) BY <3>1, ReceiveInOrder DEF ChannelsInOrder
    <3> QED BY <2>3, <3>2
  <2>5. at = Files + 1 BY <1>6 DEF TypeOK
  <2> QED BY <2>1, <2>4, <2>5
<1>7. EndedEmpty' BY <1>1, <1>6 DEF EndedEmpty
<1>8. NarInOrder' BY <1>1, <1>6 DEF NarInOrder
<1> QED BY <1>3, <1>4, <1>5, <1>7, <1>8

\* Every step of the enqueuer, the readers, the writer and the drain keeps the
\* invariant.
LEMMA NextInv == Inv /\ [Next]_vars => Inv'
<1> SUFFICES ASSUME Inv, [Next]_vars PROVE Inv'
  OBVIOUS
<1>1. CASE Enqueuer
  BY <1>1, EnqueueKeepsInv, EnqueueWorkKeepsInv, CloseKeepsInv DEF Enqueuer
<1>2. CASE Readers
  BY <1>2, StartReadKeepsInv, OpenFailsKeepsInv, EndReadKeepsInv DEF Readers
<1>3. CASE Writer
  BY <1>3, TakeKeepsInv, WriteKeepsInv, ReleaseKeepsInv, WriteLargeKeepsInv, FailureKeepsInv,
     DrainKeepsInv, ReturnKeepsInv DEF Writer
<1>4. CASE Drainer
  BY <1>4, DrainKeepsInv
<1>5. CASE UNCHANGED vars
  <2> USE <1>5 DEF vars, enqVars, readVars
  <2>1. Sent' = Sent /\ Out' = Out /\ Wanted' = Wanted BY DEF Sent, Out, Wanted
  <2>2. TypeOK' BY DEF Inv, TypeOK
  <2>3. ChannelsInOrder' /\ EntriesSent' /\ ReadOnce' /\ UnreadIsOut' /\ BuffersOut'
    BY <2>1 DEF Inv, ChannelsInOrder, EntriesSent, ReadOnce, UnreadIsOut, BuffersOut
  <2>4. WriterInPlace' /\ EndedEmpty' /\ NarInOrder'
    BY <2>1 DEF Inv, WriterInPlace, EndedEmpty, NarInOrder
  <2> QED BY <2>2, <2>3, <2>4 DEF Inv
<1> QED BY <1>1, <1>2, <1>3, <1>4, <1>5 DEF Next

\* Every buffer in use belongs to a queued entry or to the one that was taken.
LEMMA InvBoundsBuffers == Inv => BuffersBounded
<1> SUFFICES ASSUME Inv PROVE BuffersBounded
  OBVIOUS
<1> USE Positions DEF Inv
<1>1. /\ IsFiniteSet(ToSet(queue)) /\ Cardinality(ToSet(queue)) <= Len(queue)
      /\ Len(queue) \in Nat /\ Len(queue) <= Depth
  BY ChannelElements, LenProperties DEF TypeOK
<1>2. Held \in SUBSET Out BY DEF Held, BuffersOut
<1>3. /\ IsFiniteSet(Out) /\ Cardinality(ToSet(queue)) \in Nat
      /\ Cardinality(Out) <= Cardinality(ToSet(queue)) + 1
  <2>1. Cardinality(ToSet(queue)) \in Nat BY <1>1, FS_CardinalityType
  <2>2. /\ IsFiniteSet(Out)
        /\ Cardinality(Out) = IF cur \in ToSet(queue) THEN Cardinality(ToSet(queue))
                                                     ELSE Cardinality(ToSet(queue)) + 1
    BY <1>1, FS_AddElement DEF Out
  <2> QED BY <2>1, <2>2
<1>4. Cardinality(Held) <= Cardinality(Out) /\ Cardinality(Held) \in Nat /\ Cardinality(Out) \in Nat
  BY <1>2, <1>3, FS_Subset, FS_CardinalityType
<1>5. Cardinality(Held) <= Depth + 1 BY <1>1, <1>3, <1>4, PrefetchAssumption
<1>6. ASSUME wpc = "returned", ~drain PROVE Held = {}
  <2>1. cur = 0 /\ queue = <<>> BY <1>6 DEF EndedEmpty
  <2>2. Out = {0} BY <2>1 DEF Out, ToSet
  <2>3. 0 \notin All BY DEF All
  <2> QED BY <1>2, <2>2, <2>3 DEF Held
<1> QED BY <1>5, <1>6 DEF BuffersBounded

-----------------------------------------------------------------------------

\* The invariant holds however the goroutines are scheduled.
THEOREM NarPrefetchInvariant == Spec => []Inv
BY InitInv, NextInv, PTL DEF Spec

\* The archive has every file's own bytes in the order of the tree, and all
\* of them if DumpPathWithListing succeeds.
THEOREM NarInOrderAlways == Spec => []NarInOrder
<1>1. Inv => NarInOrder BY DEF Inv
<1> QED BY <1>1, NarPrefetchInvariant, PTL

\* No more than prefetchQueueDepth + 1 buffers are in use, and none when the
\* dump has returned and its drain has ended.
THEOREM BuffersBoundedAlways == Spec => []BuffersBounded
BY InvBoundsBuffers, NarPrefetchInvariant, PTL
=============================================================================
