-------------------------- MODULE StreamPushProofs --------------------------
(***************************************************************************)
(* Proofs that a stream push reports every line it took once and truly,    *)
(* for any number of lines, any batch size, slots, probes and faults.      *)
(*                                                                         *)
(* A line that left the channel is in one place: in the batch, held for a  *)
(* slot, with one job, or reported (OnlyHere, Somewhere). What a job has   *)
(* to say of its paths is true when it is recorded and stays true, because *)
(* pushes are not undone and an excuse does not go away (JobSound).        *)
(***************************************************************************)
EXTENDS StreamPush, FiniteSetTheorems, TLAPS

\* Lines taken from the channel: the first ones.
Passed == fed - Len(lines)

Reported == {n \in Lines : reported[n] # <<>>}

\* A sound path may fail without being broken.
Excused == faults > 0 \/ cancelled \/ Cardinality(broken) >= Probes

\* The channel holds the lines read last, in order.
LinesInOrder ==
    /\ Len(lines) <= fed
    /\ \A i \in 1..Len(lines) : lines[i] = Passed + i

\* What the loop holds fits to where it is; it ends with nothing in hand, and
\* unless it was cancelled with nothing in the channel.
LoopInPlace ==
    /\ loop \in {"run", "select", "last", "wait", "returned"} => held = 0
    /\ loop \in {"run", "select"} => Len(batch) < BatchSize
    /\ loop = "request" => held # 0
    /\ loop \in {"request", "wait", "returned"} => batch = <<>>
    /\ loop \in {"last", "wait", "returned"} => cancelled \/ (closed /\ lines = <<>>)
    /\ loop = "returned" => jobs = {}

\* No line is in two places, or twice in one.
OnlyHere ==
    /\ IsInjective(batch)
    /\ Range(batch) \cap Reported = {} /\ held \notin Range(batch) \cup Reported
    /\ \A j \in jobs : Range(j.paths) \cap (Range(batch) \cup {held} \cup Reported) = {}
    /\ \A j, k \in jobs : j # k => Range(j.paths) \cap Range(k.paths) = {}

\* A line that was taken, and no other, is somewhere.
Somewhere ==
    \A n \in Lines :
        n <= Passed <=> \/ n \in Range(batch) \/ n = held \/ n \in Reported
                        \/ \E j \in jobs : n \in Range(j.paths)

\* What a job knows of its paths is true.
JobSound(j) ==
    /\ IsInjective(j.paths)
    /\ j.request => Len(j.paths) = 1
    /\ Len(j.res) <= Len(j.paths)
    /\ j.stage = "batch" => j.res = <<>>
    /\ j.stage = "report" => Len(j.res) = Len(j.paths)
    /\ \A i \in 1..Len(j.res) :
          /\ j.res[i] = "ok" => j.paths[i] \in pushed
          /\ j.res[i] = "error" => Excused \/ j.paths[i] \in broken

JobsSound == \A j \in jobs : JobSound(j)

ReportsSound ==
    \A n \in Lines :
        /\ Len(reported[n]) <= 1
        /\ reported[n] = <<"ok">> => n \in pushed
        /\ reported[n] = <<"error">> => Excused \/ n \in broken

Inv ==
    /\ TypeOK /\ IsFiniteSet(jobs) /\ LinesInOrder /\ LoopInPlace /\ OnlyHere /\ Somewhere
    /\ JobsSound /\ ReportsSound

-----------------------------------------------------------------------------
(***************************************************************************)
(* Sequences of lines.                                                     *)
(***************************************************************************)

\* A path that joins a batch it is not in.
LEMMA AppendNew ==
    ASSUME NEW S, NEW s \in Seq(S), NEW e \in S
    PROVE  /\ Append(s, e) \in Seq(S) /\ Len(Append(s, e)) = Len(s) + 1
           /\ Range(Append(s, e)) = Range(s) \cup {e}
           /\ IsInjective(s) /\ e \notin Range(s) => IsInjective(Append(s, e))
<1> DEFINE t == Append(s, e)
<1>1. /\ t \in Seq(S) /\ Len(t) = Len(s) + 1 /\ DOMAIN t = 1..(Len(s) + 1) /\ DOMAIN s = 1..Len(s)
      /\ Len(s) \in Nat /\ t[Len(s) + 1] = e /\ \A i \in 1..Len(s) : t[i] = s[i]
  OBVIOUS
<1> HIDE DEF t
<1>2. \A i \in 1..(Len(s) + 1) : i \in 1..Len(s) \/ i = Len(s) + 1 BY <1>1
<1>3. Range(t) \subseteq Range(s) \cup {e}
  BY <1>1, <1>2 DEF Range
<1>4. Range(s) \subseteq Range(t)
  <2>1. \A i \in DOMAIN s : i \in DOMAIN t /\ t[i] = s[i] BY <1>1
  <2> QED BY <2>1 DEF Range
<1>5. e \in Range(t)
  <2>1. Len(s) + 1 \in DOMAIN t BY <1>1
  <2> QED BY <1>1, <2>1 DEF Range
<1>6. ASSUME IsInjective(s), e \notin Range(s) PROVE IsInjective(t)
  <2>1. \A i \in 1..Len(s) : t[i] # e BY <1>1, <1>6 DEF Range
  <2>2. \A i, k \in 1..Len(s) : t[i] = t[k] => i = k BY <1>1, <1>6 DEF IsInjective
  <2>3. SUFFICES ASSUME NEW i \in 1..(Len(s) + 1), NEW k \in 1..(Len(s) + 1), t[i] = t[k] PROVE i = k
    BY <1>1 DEF IsInjective
  <2> QED BY <1>1, <1>2, <2>1, <2>2, <2>3
<1>7. Range(t) = Range(s) \cup {e} BY <1>3, <1>4, <1>5
<1> QED BY <1>1, <1>6, <1>7 DEF t

LEMMA RangeInSet ==
    ASSUME NEW S, NEW s \in Seq(S)
    PROVE  Range(s) \subseteq S /\ (s = <<>> => Range(s) = {} /\ IsInjective(s))
BY DEF Range, IsInjective

LEMMA OneLine ==
    ASSUME NEW S, NEW e \in S
    PROVE  <<e>> \in Seq(S) /\ Len(<<e>>) = 1 /\ Range(<<e>>) = {e} /\ IsInjective(<<e>>)
BY DEF Range, IsInjective

\* As many broken paths as distinct paths that failed for being broken.
LEMMA ErrorsAreBroken ==
    ASSUME TypeOK, NEW j \in jobs, JobSound(j), ~Excused
    PROVE  Count(j.res, "error") <= Cardinality(broken)
<1>1. j.paths \in Seq(Lines) /\ j.res \in Seq({"ok", "error"}) BY DEF TypeOK, Job
<1> DEFINE E == {i \in DOMAIN j.res : j.res[i] = "error"}
           f == [i \in E |-> j.paths[i]]
<1>2. \A i \in E : i \in 1..Len(j.res) /\ i \in DOMAIN j.paths /\ j.paths[i] \in broken
  BY <1>1 DEF JobSound
<1>3. f \in Injection(E, broken)
  <2>1. f \in [E -> broken] BY <1>2
  <2>2. \A a, b \in E : f[a] = f[b] => a = b BY <1>2 DEF JobSound, IsInjective
  <2> QED BY <2>1, <2>2 DEF Injection, IsInjective
<1>4. IsFiniteSet(broken)
  <2>1. IsFiniteSet(Lines) BY FS_Interval, SizesAssumption DEF Lines
  <2> QED BY <2>1, FS_Subset DEF TypeOK
<1> HIDE DEF E, f
<1>5. Cardinality(E) <= Cardinality(broken) BY <1>3, <1>4, FS_Injection
<1> QED BY <1>5 DEF Count, E

-----------------------------------------------------------------------------
LEMMA InitInv == ASSUME Init PROVE Inv
<1>1. TypeOK
  <2>1. Cardinality(jobs) <= Parallel BY FS_EmptySet, SizesAssumption DEF Init
  <2>2. Len(lines) <= Buffer
    <3>1. BatchSize * Parallel >= 0 BY SizesAssumption
    <3> QED BY <3>1 DEF Init, Buffer
  <2>3. reported \in [Lines -> Seq({"ok", "error"})] BY DEF Init
  <2>4. lines \in Seq(Lines) /\ batch \in Seq(Lines) /\ Len(batch) <= BatchSize
    BY SizesAssumption DEF Init
  <2>5. fed \in 0..MaxLines /\ faults \in 0..MaxFaults BY SizesAssumption DEF Init
  <2>6. closed \in BOOLEAN /\ cancelled \in BOOLEAN BY DEF Init
  <2>7. request \subseteq Lines /\ broken \subseteq Lines /\ jobs \subseteq Job /\ pushed \subseteq Lines
    BY DEF Init
  <2> QED BY <2>1, <2>2, <2>3, <2>4, <2>5, <2>6, <2>7 DEF Init, TypeOK
<1>2. IsFiniteSet(jobs) BY FS_EmptySet DEF Init
<1>3. LinesInOrder /\ LoopInPlace BY SizesAssumption DEF Init, LinesInOrder, LoopInPlace
<1>4. Reported = {} BY DEF Init, Reported
<1>5. Range(batch) = {} /\ IsInjective(batch) BY RangeInSet, <1>1 DEF Init, TypeOK
<1>6. OnlyHere BY <1>4, <1>5 DEF Init, OnlyHere
<1>7. Somewhere
  <2>1. Passed = 0
    <3>1. fed = 0 /\ Len(lines) = 0 BY DEF Init
    <3> QED BY <3>1 DEF Passed
  <2>2. \A n \in Lines : ~(n <= 0) /\ n # 0 BY SizesAssumption DEF Lines
  <2> QED BY <1>4, <1>5, <2>1, <2>2 DEF Init, Somewhere
<1>8. JobsSound BY DEF Init, JobsSound
<1>9. ReportsSound BY DEF Init, ReportsSound
<1> QED BY <1>1, <1>2, <1>3, <1>6, <1>7, <1>8, <1>9 DEF Inv

\* What is true of a job stays true: pushes are not undone and an excuse does
\* not go away.
LEMMA SoundStays ==
    ASSUME TypeOK, TypeOK', NEW j, JobSound(j), pushed \subseteq pushed', faults <= faults',
           cancelled => cancelled', broken' = broken
    PROVE  JobSound(j)'
<1>1. Excused => Excused' BY DEF Excused, TypeOK
<1> QED BY <1>1 DEF JobSound

LEMMA ReportsStay ==
    ASSUME TypeOK, TypeOK', ReportsSound, pushed \subseteq pushed', faults <= faults',
           cancelled => cancelled', broken' = broken, reported' = reported
    PROVE  ReportsSound'
<1>1. Excused => Excused' BY DEF Excused, TypeOK
<1> QED BY <1>1 DEF ReportsSound

-----------------------------------------------------------------------------
(***************************************************************************)
(* The scanner and the loop.                                               *)
(***************************************************************************)

\* A step that leaves the jobs and what was taken where they are.
LEMMA NothingMoves ==
    ASSUME Inv, TypeOK', LinesInOrder', LoopInPlace', Passed' = Passed,
           jobs' = jobs, batch' = batch, held' = held, pushed' = pushed, reported' = reported,
           faults' = faults, cancelled => cancelled', broken' = broken
    PROVE  Inv'
<1> USE DEF Inv
<1>1. Reported' = Reported BY DEF Reported
<1>2. OnlyHere' BY <1>1 DEF OnlyHere
<1>3. Somewhere' BY <1>1 DEF Somewhere
<1>4. faults <= faults' BY DEF TypeOK
<1>5. JobsSound' BY <1>4, SoundStays DEF JobsSound
<1>6. ReportsSound' BY <1>4, ReportsStay
<1> QED BY <1>2, <1>3, <1>5, <1>6

LEMMA FeedInv == ASSUME Inv, Feed PROVE Inv'
<1>1. /\ request' = request /\ broken' = broken /\ closed' = closed /\ batch' = batch /\ held' = held
      /\ loop' = loop /\ jobs' = jobs /\ pushed' = pushed /\ reported' = reported
      /\ faults' = faults /\ cancelled' = cancelled
      /\ fed' = fed + 1 /\ fed < MaxLines /\ Len(lines) < Buffer
      /\ lines' = Append(lines, fed + 1) /\ ~closed
  BY DEF Feed, inputVars, jobVars
<1> USE DEF Inv
<1>2. lines \in Seq(Lines) /\ fed \in Nat /\ fed + 1 \in Lines BY <1>1, SizesAssumption DEF TypeOK, Lines
<1>3. /\ lines' \in Seq(Lines) /\ Len(lines') = Len(lines) + 1
      /\ lines'[Len(lines) + 1] = fed + 1 /\ \A i \in 1..Len(lines) : lines'[i] = lines[i]
  BY <1>1, <1>2
<1>4. Buffer \in Nat BY SizesAssumption DEF Buffer
<1>5. TypeOK'
  <2>1. fed' \in 0..MaxLines /\ Len(lines') <= Buffer' BY <1>1, <1>2, <1>3, <1>4, SizesAssumption DEF TypeOK, Buffer
  <2> QED BY <1>1, <1>3, <2>1 DEF TypeOK
<1>6. Passed' = Passed BY <1>1, <1>2, <1>3 DEF Passed
<1>7. LinesInOrder'
  <2>1. \A i \in 1..(Len(lines) + 1) : i \in 1..Len(lines) \/ i = Len(lines) + 1 BY <1>2
  <2>2. fed + 1 = Passed + (Len(lines) + 1) BY <1>2 DEF Passed
  <2>3. Len(lines') <= fed' BY <1>1, <1>2, <1>3 DEF LinesInOrder
  <2>4. \A i \in 1..Len(lines') : lines'[i] = Passed' + i BY <1>3, <1>6, <2>1, <2>2 DEF LinesInOrder
  <2> QED BY <2>3, <2>4 DEF LinesInOrder
<1>8. LoopInPlace' BY <1>1 DEF LoopInPlace
<1> QED BY <1>1, <1>5, <1>6, <1>7, <1>8, NothingMoves

LEMMA EOFInv == ASSUME Inv, EOF PROVE Inv'
<1>1. /\ request' = request /\ broken' = broken /\ closed' = TRUE /\ batch' = batch /\ held' = held
      /\ loop' = loop /\ jobs' = jobs /\ pushed' = pushed /\ reported' = reported
      /\ faults' = faults /\ cancelled' = cancelled /\ fed' = fed /\ lines' = lines
  BY DEF EOF, inputVars, jobVars
<1> USE DEF Inv
<1>2. TypeOK' BY <1>1 DEF TypeOK, Buffer
<1>3. LinesInOrder' /\ Passed' = Passed BY <1>1 DEF LinesInOrder, Passed
<1>4. LoopInPlace' BY <1>1 DEF LoopInPlace
<1> QED BY <1>1, <1>2, <1>3, <1>4, NothingMoves

LEMMA CancelInv == ASSUME Inv, Cancel PROVE Inv'
<1>1. /\ request' = request /\ broken' = broken /\ closed' = closed /\ batch' = batch /\ held' = held
      /\ loop' = loop /\ jobs' = jobs /\ pushed' = pushed /\ reported' = reported
      /\ faults' = faults /\ cancelled' = TRUE /\ fed' = fed /\ lines' = lines
  BY DEF Cancel, inputVars, jobVars, scanVars
<1> USE DEF Inv
<1>2. TypeOK' BY <1>1 DEF TypeOK, Buffer
<1>3. LinesInOrder' /\ Passed' = Passed BY <1>1 DEF LinesInOrder, Passed
<1>4. LoopInPlace' BY <1>1 DEF LoopInPlace
<1> QED BY <1>1, <1>2, <1>3, <1>4, NothingMoves

\* Select, Leave and Return only move the loop.
LEMMA LoopMoves == ASSUME Inv, Select \/ Leave \/ Return PROVE Inv'
<1>1. /\ request' = request /\ broken' = broken /\ closed' = closed /\ batch' = batch /\ held' = held
      /\ jobs' = jobs /\ pushed' = pushed /\ reported' = reported
      /\ faults' = faults /\ cancelled' = cancelled /\ fed' = fed /\ lines' = lines
  BY DEF Select, Leave, Return, inputVars, jobVars, scanVars
<1> USE DEF Inv
<1>2. loop' \in {"select", "wait", "last", "returned"} BY DEF Select, Leave, Return
<1>3. TypeOK' BY <1>1, <1>2 DEF TypeOK, Buffer
<1>4. LinesInOrder' /\ Passed' = Passed BY <1>1 DEF LinesInOrder, Passed
<1>5. LoopInPlace'
  <2>1. CASE Select BY <1>1, <2>1 DEF LoopInPlace, Select
  <2>2. CASE Leave BY <1>1, <2>2 DEF LoopInPlace, Leave
  <2>3. CASE Return BY <1>1, <2>3 DEF LoopInPlace, Return
  <2> QED BY <2>1, <2>2, <2>3
<1> QED BY <1>1, <1>3, <1>4, <1>5, NothingMoves

\* The next line joins the batch, or is held.
LEMMA TakeInv == ASSUME Inv, Take PROVE Inv'
<1> DEFINE h == Head(lines)
<1>1. /\ request' = request /\ broken' = broken /\ closed' = closed /\ fed' = fed
      /\ jobs' = jobs /\ pushed' = pushed /\ reported' = reported
      /\ faults' = faults /\ cancelled' = cancelled
      /\ lines' = Tail(lines) /\ lines # <<>> /\ loop \in {"run", "select"}
  BY DEF Take, inputVars, jobVars, scanVars
<1>2. \/ h \in request /\ held' = h /\ batch' = batch
         /\ loop' \in {"request", "flush"} /\ (loop' = "request" => batch = <<>>)
      \/ /\ batch' = Append(batch, h) /\ held' = held /\ loop' \in {"flush", "run"}
         /\ loop' = "run" => Len(batch) + 1 # BatchSize
  BY DEF Take
<1> HIDE DEF h
<1> USE DEF Inv
<1>3. lines \in Seq(Lines) /\ fed \in Nat /\ batch \in Seq(Lines) /\ held = 0
  BY <1>1 DEF TypeOK, LoopInPlace
<1>4. /\ h \in Lines /\ h = lines[1] /\ Len(lines) \in Nat \ {0} /\ lines' \in Seq(Lines)
      /\ Len(lines') = Len(lines) - 1
      /\ \A i \in 1..Len(lines') : lines'[i] = lines[i + 1]
  BY <1>1, <1>3 DEF h
<1>5. Passed' = Passed + 1 /\ h = Passed + 1 /\ Passed \in Int
  BY <1>1, <1>3, <1>4 DEF Passed, LinesInOrder
<1>6. LinesInOrder'
  <2>1. \A i \in 1..Len(lines') : i + 1 \in 1..Len(lines) BY <1>4
  <2>2. \A i \in 1..Len(lines') : lines'[i] = Passed' + i BY <2>1, <1>4, <1>5 DEF LinesInOrder
  <2>3. Len(lines') <= fed' BY <1>1, <1>3, <1>4 DEF LinesInOrder
  <2> QED BY <2>2, <2>3 DEF LinesInOrder
<1>7. ~(h <= Passed) /\ h # 0 BY <1>4, <1>5 DEF Lines
<1>8. /\ h \notin Range(batch) /\ h \notin Reported
      /\ \A j \in jobs : h \notin Range(j.paths)
  BY <1>4, <1>7 DEF Somewhere
<1>9. \A n \in Lines : n <= Passed' <=> n <= Passed \/ n = h
  BY <1>5 DEF Lines
<1>10. /\ Append(batch, h) \in Seq(Lines) /\ Len(Append(batch, h)) = Len(batch) + 1
       /\ Range(Append(batch, h)) = Range(batch) \cup {h}
       /\ IsInjective(Append(batch, h))
  BY AppendNew, <1>3, <1>4, <1>8 DEF OnlyHere
<1>11. Reported' = Reported /\ \A n \in Reported : n \in Lines BY <1>1 DEF Reported
<1>12. \A j \in jobs : Range(j.paths) \subseteq Lines
  <2>1. \A j \in jobs : j.paths \in Seq(Lines) BY DEF TypeOK, Job
  <2> QED BY <2>1, RangeInSet
<1>13. 0 \notin Lines BY DEF Lines
<1>14. Len(batch) < BatchSize /\ Len(batch) \in Nat BY <1>1, <1>3 DEF LoopInPlace
<1>15. TypeOK'
  <2>1. Len(lines') <= Buffer'
    <3>1. Buffer \in Nat BY SizesAssumption DEF Buffer
    <3> QED BY <3>1, <1>4 DEF TypeOK, Buffer
  <2>2. batch' \in Seq(Lines) /\ Len(batch') <= BatchSize
    BY <1>2, <1>3, <1>10, <1>14, SizesAssumption
  <2>3. held' \in Lines \cup {0} BY <1>2, <1>3, <1>4
  <2>4. loop' \in {"run", "flush", "request"} BY <1>2
  <2> QED BY <1>1, <1>4, <2>1, <2>2, <2>3, <2>4 DEF TypeOK
<1>16. LoopInPlace'
  <2>1. loop' \in {"run", "flush", "request"} BY <1>2
  <2>2. loop' = "request" => batch' = <<>> /\ held' # 0 BY <1>2, <1>4, <1>13
  <2>3. loop' = "run" => held' = 0 /\ Len(batch') < BatchSize
    BY <1>2, <1>3, <1>10, <1>14, SizesAssumption
  <2> QED BY <2>1, <2>2, <2>3 DEF LoopInPlace
<1>17. OnlyHere' /\ Somewhere'
  <2>1. CASE held' = h /\ batch' = batch
    <3>1. OnlyHere'
      <4>1. jobs' = jobs /\ IsInjective(batch) BY <1>1 DEF OnlyHere
      <4>2. Range(batch') \cap Reported' = {} /\ held' \notin Range(batch') \cup Reported'
        BY <1>8, <1>11, <2>1 DEF OnlyHere
      <4>3. \A j \in jobs : Range(j.paths) \cap (Range(batch) \cup {h} \cup Reported) = {}
        BY <1>8 DEF OnlyHere
      <4>4. \A j, k \in jobs : j # k => Range(j.paths) \cap Range(k.paths) = {} BY DEF OnlyHere
      <4>5. \A j \in jobs' : Range(j.paths) \cap (Range(batch') \cup {held'} \cup Reported') = {}
        BY <1>11, <2>1, <4>1, <4>3
      <4>6. IsInjective(batch') BY <2>1, <4>1
      <4>7. \A j, k \in jobs' : j # k => Range(j.paths) \cap Range(k.paths) = {} BY <4>1, <4>4
      <4> QED BY <4>2, <4>5, <4>6, <4>7 DEF OnlyHere
    <3>2. Somewhere' BY <1>1, <1>3, <1>9, <1>11, <1>13, <2>1 DEF Somewhere
    <3> QED BY <3>1, <3>2
  <2>2. CASE batch' = Append(batch, h) /\ held' = held
    <3>1. Range(batch') = Range(batch) \cup {h} /\ IsInjective(batch') BY <1>10, <2>2
    <3>2. OnlyHere'
      <4>1. Range(batch') \cap Reported' = {} /\ held' \notin Range(batch') \cup Reported'
        BY <1>3, <1>7, <1>8, <1>11, <2>2, <3>1 DEF OnlyHere
      <4>2. \A j \in jobs' : Range(j.paths) \cap (Range(batch') \cup {held'} \cup Reported') = {}
        BY <1>1, <1>8, <1>11, <2>2, <3>1 DEF OnlyHere
      <4> QED BY <1>1, <3>1, <4>1, <4>2 DEF OnlyHere
    <3>3. Somewhere' BY <1>1, <1>3, <1>9, <1>11, <1>13, <2>2, <3>1 DEF Somewhere
    <3> QED BY <3>2, <3>3
  <2> QED BY <1>2, <2>1, <2>2
<1>18. faults <= faults' BY <1>1 DEF TypeOK
<1>19. JobsSound' BY <1>1, <1>15, <1>18, SoundStays DEF JobsSound
<1>20. ReportsSound' BY <1>1, <1>15, <1>18, ReportsStay
<1> QED BY <1>1, <1>6, <1>15, <1>16, <1>17, <1>19, <1>20

\* A job starts with lines that were in the batch, or held.
LEMMA JobStarts ==
    ASSUME Inv, NEW isRequest \in BOOLEAN, NEW s \in Seq(Lines),
           IsInjective(s), isRequest => Len(s) = 1,
           \A j \in jobs : Range(j.paths) \cap Range(s) = {},
           Range(s) \cap Reported = {},
           Cardinality(jobs) < Parallel, jobs' = jobs \cup {NewJob(isRequest, s)},
           batch' \in Seq(Lines), Len(batch') <= BatchSize, held' \in Lines \cup {0},
           IsInjective(batch'), Range(batch') \subseteq Range(batch), held' \in {held, 0},
           Range(batch') \cap Range(s) = {}, held' \notin Range(s),
           \A n \in Lines : n \in Range(batch) \/ n = held <=> n \in Range(batch') \/ n = held' \/ n \in Range(s),
           loop' \in {"run", "request", "wait"}, LoopInPlace',
           request' = request, broken' = broken, closed' = closed, fed' = fed, lines' = lines,
           pushed' = pushed, reported' = reported, faults' = faults, cancelled' = cancelled
    PROVE  Inv'
<1> DEFINE k == NewJob(isRequest, s)
<1>1. /\ k \in Job /\ k.paths = s /\ k.request = isRequest /\ k.stage = "batch" /\ k.res = <<>>
  BY DEF NewJob, Job
<1>2. jobs' = jobs \cup {k} OBVIOUS
<1> HIDE DEF k
<1> USE DEF Inv
<1>3. IsFiniteSet(jobs') /\ Cardinality(jobs') <= Parallel
  <2>1. Cardinality(jobs) \in Nat BY FS_CardinalityType
  <2>2. /\ IsFiniteSet(jobs \cup {k})
        /\ Cardinality(jobs \cup {k}) = IF k \in jobs THEN Cardinality(jobs) ELSE Cardinality(jobs) + 1
    BY FS_AddElement
  <2>3. Cardinality(jobs \cup {k}) \in {Cardinality(jobs), Cardinality(jobs) + 1} BY <2>2
  <2>4. \A c, d \in Nat : c < Parallel /\ d \in {c, c + 1} => d <= Parallel BY SizesAssumption
  <2>5. Cardinality(jobs \cup {k}) \in Nat BY <2>2, FS_CardinalityType
  <2>6. Cardinality(jobs \cup {k}) <= Parallel BY <2>1, <2>3, <2>4, <2>5
  <2> QED BY <1>2, <2>2, <2>6
<1>4. TypeOK' BY <1>1, <1>2, <1>3 DEF TypeOK, Buffer
<1>5. Reported' = Reported /\ Passed' = Passed BY DEF Reported, Passed
<1>6. LinesInOrder' BY <1>5 DEF LinesInOrder
<1>7. OnlyHere'
  <2>1. 0 \notin Lines BY DEF Lines
  <2>2. Reported \subseteq Lines /\ Range(batch') \subseteq Lines BY RangeInSet DEF Reported
  <2>3. \A j \in jobs : Range(j.paths) \subseteq Lines
    <3>1. \A j \in jobs : j.paths \in Seq(Lines) BY DEF TypeOK, Job
    <3> QED BY <3>1, RangeInSet
  <2>4. Range(batch') \cap Reported = {} /\ held' \notin Range(batch') \cup Reported
    BY <2>1, <2>2 DEF OnlyHere
  <2>5. \A j \in jobs : Range(j.paths) \cap (Range(batch') \cup {held'} \cup Reported) = {}
    BY <2>1, <2>3 DEF OnlyHere
  <2>6. Range(k.paths) \cap (Range(batch') \cup {held'} \cup Reported) = {} BY <1>1
  <2>7. \A j, l \in jobs' : j # l => Range(j.paths) \cap Range(l.paths) = {}
    BY <1>1, <1>2 DEF OnlyHere
  <2> QED BY <1>2, <1>5, <2>4, <2>5, <2>6, <2>7 DEF OnlyHere
<1>8. Somewhere' BY <1>1, <1>2, <1>5 DEF Somewhere
<1>9. faults <= faults' BY DEF TypeOK
<1>10. JobsSound'
  <2>1. JobSound(k)' BY <1>1 DEF JobSound
  <2>2. \A j \in jobs : JobSound(j)' BY <1>4, <1>9, SoundStays DEF JobsSound
  <2> QED BY <1>2, <2>1, <2>2 DEF JobsSound
<1>11. ReportsSound' BY <1>4, <1>9, ReportsStay
<1> QED BY <1>3, <1>4, <1>6, <1>7, <1>8, <1>10, <1>11

\* Flush and StartBatch start a job with the batch.
LEMMA BatchStarts == ASSUME Inv, Flush \/ StartBatch PROVE Inv'
<1>1. /\ request' = request /\ broken' = broken /\ closed' = closed /\ fed' = fed /\ lines' = lines
      /\ held' = held /\ pushed' = pushed /\ reported' = reported
      /\ faults' = faults /\ cancelled' = cancelled
      /\ batch' = <<>> /\ jobs' = jobs \cup {NewJob(FALSE, batch)} /\ Cardinality(jobs) < Parallel
      /\ loop' \in {"run", "request", "wait"}
      /\ loop' = "run" => held = 0 \/ loop = "select"
      /\ loop' = "request" => held # 0
      /\ loop' = "wait" => loop = "last"
  BY DEF Flush, StartBatch, inputVars, scanVars
<1>2. batch \in Seq(Lines) /\ held \in Lines \cup {0} /\ BatchSize \in Nat \ {0}
  BY SizesAssumption DEF Inv, TypeOK
<1>3. batch' \in Seq(Lines) /\ Len(batch') = 0 BY <1>1
<1>4. Range(batch') = {} /\ IsInjective(batch')
  <2>1. DOMAIN batch' = {} BY <1>1
  <2> QED BY <2>1 DEF Range, IsInjective
<1>5. LoopInPlace'
  <2>1. loop' \in {"run", "wait"} => held' = 0 BY <1>1 DEF Inv, LoopInPlace
  <2>2. Len(batch') < BatchSize BY <1>2, <1>3
  <2>3. loop' = "wait" => cancelled' \/ (closed' /\ lines' = <<>>) BY <1>1 DEF Inv, LoopInPlace
  <2>4. loop' = "request" => held' # 0 BY <1>1
  <2> QED BY <1>1, <2>1, <2>2, <2>3, <2>4 DEF LoopInPlace
<1>6. /\ IsInjective(batch) /\ Range(batch) \cap Reported = {} /\ held \notin Range(batch)
      /\ \A j \in jobs : Range(j.paths) \cap Range(batch) = {}
  BY DEF Inv, OnlyHere
<1>7. Len(batch') <= BatchSize BY <1>2, <1>3
<1> QED BY <1>1, <1>2, <1>3, <1>4, <1>5, <1>6, <1>7, JobStarts

\* SubmitRequest starts a job with the line that is held.
LEMMA RequestStarts == ASSUME Inv, SubmitRequest PROVE Inv'
<1>1. /\ request' = request /\ broken' = broken /\ closed' = closed /\ fed' = fed /\ lines' = lines
      /\ batch' = batch /\ pushed' = pushed /\ reported' = reported
      /\ faults' = faults /\ cancelled' = cancelled
      /\ held' = 0 /\ jobs' = jobs \cup {NewJob(TRUE, <<held>>)} /\ Cardinality(jobs) < Parallel
      /\ loop = "request" /\ loop' = "run"
  BY DEF SubmitRequest, inputVars, scanVars
<1>2. batch = <<>> /\ held \in Lines /\ BatchSize \in Nat \ {0} /\ 0 \notin Lines
  BY <1>1, SizesAssumption DEF Inv, TypeOK, LoopInPlace, Lines
<1>3. batch' \in Seq(Lines) /\ Len(batch') = 0 BY <1>1, <1>2
<1>4. Range(batch) = {} /\ IsInjective(batch)
  <2>1. DOMAIN batch = {} BY <1>2
  <2> QED BY <2>1 DEF Range, IsInjective
<1>5. LoopInPlace' BY <1>1, <1>2, <1>3 DEF LoopInPlace
<1> DEFINE s == <<held>>
<1>6. s \in Seq(Lines) /\ Len(s) = 1 /\ Range(s) = {held} /\ IsInjective(s)
  BY <1>2, OneLine
<1>7. jobs' = jobs \cup {NewJob(TRUE, s)} BY <1>1
<1> HIDE DEF s
<1>8. Range(s) \cap Reported = {} /\ \A j \in jobs : Range(j.paths) \cap Range(s) = {}
  BY <1>6 DEF Inv, OnlyHere
<1>9. Len(batch') <= BatchSize BY <1>2, <1>3
<1>10. held' \notin Range(s) /\ TRUE \in BOOLEAN BY <1>1, <1>2, <1>6
<1>11. \A n \in Lines : n \in Range(batch) \/ n = held <=> n \in Range(batch') \/ n = held' \/ n \in Range(s)
  BY <1>1, <1>2, <1>4, <1>6
<1> QED BY <1>1, <1>2, <1>3, <1>4, <1>5, <1>6, <1>7, <1>8, <1>9, <1>10, <1>11, JobStarts

-----------------------------------------------------------------------------
(***************************************************************************)
(* The jobs.                                                               *)
(***************************************************************************)

\* A job goes on with its paths, and knows something true of them.
LEMMA JobChanges ==
    ASSUME Inv, NEW j \in jobs, NEW k \in Job, k.paths = j.paths, JobSound(k)',
           jobs' = (jobs \ {j}) \cup {k}, pushed \subseteq pushed', pushed' \subseteq Lines,
           faults' \in 0..MaxFaults, faults <= faults',
           request' = request, broken' = broken, closed' = closed, fed' = fed, lines' = lines,
           batch' = batch, held' = held, loop' = loop, reported' = reported, cancelled' = cancelled
    PROVE  Inv'
<1> USE DEF Inv
<1>1. IsFiniteSet(jobs') /\ Cardinality(jobs') <= Parallel
  <2> DEFINE R == jobs \ {j}
  <2>1. Cardinality(jobs) \in Nat BY FS_CardinalityType
  <2>2. IsFiniteSet(R) /\ Cardinality(R) = Cardinality(jobs) - 1 BY FS_RemoveElement
  <2> HIDE DEF R
  <2>3. /\ IsFiniteSet(R \cup {k})
        /\ Cardinality(R \cup {k}) = IF k \in R THEN Cardinality(R) ELSE Cardinality(R) + 1
    BY <2>2, FS_AddElement
  <2>4. Cardinality(R \cup {k}) \in {Cardinality(R), Cardinality(R) + 1} BY <2>3
  <2>5. Cardinality(R \cup {k}) \in Nat BY <2>3, FS_CardinalityType
  <2>6. \A a, b \in Nat : a <= Parallel /\ b \in {a - 1, (a - 1) + 1} => b <= Parallel BY SizesAssumption
  <2>7. Cardinality(R \cup {k}) <= Parallel BY <2>1, <2>2, <2>4, <2>5, <2>6 DEF TypeOK
  <2> QED BY <2>3, <2>7 DEF R
<1>2. TypeOK' BY <1>1 DEF TypeOK, Buffer
<1>3. Reported' = Reported /\ Passed' = Passed BY DEF Reported, Passed
<1>4. LinesInOrder' BY <1>3 DEF LinesInOrder
<1>5. LoopInPlace' BY DEF LoopInPlace
<1>6. OnlyHere'
  <2>1. \A l \in jobs' : Range(l.paths) \cap (Range(batch) \cup {held} \cup Reported) = {} BY DEF OnlyHere
  <2>2. \A l \in jobs' : l # k => Range(l.paths) \cap Range(k.paths) = {} BY DEF OnlyHere
  <2>3. \A l, m \in jobs' : l # m => Range(l.paths) \cap Range(m.paths) = {} BY <2>2 DEF OnlyHere
  <2> QED BY <1>3, <2>1, <2>3 DEF OnlyHere
<1>7. Somewhere'
  <2>1. \A n \in Lines : (\E l \in jobs' : n \in Range(l.paths)) <=> \E l \in jobs : n \in Range(l.paths)
    OBVIOUS
  <2> QED BY <1>3, <2>1 DEF Somewhere
<1>8. JobsSound'
  <2>1. \A l \in jobs : JobSound(l)' BY <1>2, SoundStays DEF JobsSound
  <2> QED BY <2>1 DEF JobsSound
<1>9. ReportsSound' BY <1>2, ReportsStay
<1> QED BY <1>1, <1>2, <1>4, <1>5, <1>6, <1>7, <1>8, <1>9

\* What a push leaves behind.
LEMMA PushOutcome ==
    ASSUME Inv, NEW P \in SUBSET Lines, PushOk(P) \/ PushFails(P), broken' = broken, cancelled' = cancelled
    PROVE  /\ pushed \subseteq pushed' /\ pushed' \subseteq Lines
           /\ faults' \in 0..MaxFaults /\ faults <= faults'
           /\ Excused => Excused'
           /\ PushOk(P) => P \subseteq pushed'
           /\ PushFails(P) => Excused' \/ P \cap broken # {}
<1>1. faults \in Nat /\ faults <= MaxFaults /\ pushed \subseteq Lines /\ MaxFaults \in Nat
  BY SizesAssumption DEF Inv, TypeOK
<1>2. /\ faults' = faults \/ (faults < MaxFaults /\ faults' = faults + 1)
      /\ pushed' = pushed \/ pushed' = pushed \cup P
      /\ PushOk(P) => pushed' = pushed \cup P
  BY DEF PushOk, PushFails
<1>3. PushFails(P) => P \cap broken # {} \/ cancelled \/ faults' = faults + 1 BY DEF PushFails
<1> HIDE DEF Inv
<1>4. faults' \in 0..MaxFaults /\ faults <= faults' BY <1>1, <1>2
<1>5. Excused => Excused' BY <1>1, <1>4 DEF Excused
<1>6. cancelled => Excused' BY DEF Excused
<1>7. faults' = faults + 1 => Excused' BY <1>1 DEF Excused
<1> QED BY <1>1, <1>2, <1>3, <1>4, <1>5, <1>6, <1>7

LEMMA BatchInv == ASSUME Inv, NEW j \in jobs, BatchOk(j) \/ BatchFails(j) PROVE Inv'
<1> DEFINE P == Range(j.paths)
           ok == [j EXCEPT !.stage = "report", !.res = All(j.paths, "ok")]
           bad == [j EXCEPT !.stage = "report", !.res = All(j.paths, "error")]
           again == [j EXCEPT !.stage = "probe"]
<1>1. /\ request' = request /\ broken' = broken /\ closed' = closed /\ fed' = fed /\ lines' = lines
      /\ batch' = batch /\ held' = held /\ loop' = loop /\ reported' = reported /\ cancelled' = cancelled
  BY DEF BatchOk, BatchFails, inputVars, scanVars
<1>2. j.stage = "batch" BY DEF BatchOk, BatchFails
<1>3. \/ PushOk(P) /\ jobs' = (jobs \ {j}) \cup {ok}
      \/ /\ PushFails(P) /\ (j.request \/ Len(j.paths) = 1 \/ cancelled)
         /\ jobs' = (jobs \ {j}) \cup {bad}
      \/ PushFails(P) /\ jobs' = (jobs \ {j}) \cup {again}
  BY DEF BatchOk, BatchFails, Becomes
<1>4. j \in Job /\ JobSound(j) BY DEF Inv, TypeOK, JobsSound
<1>5. j.paths \in Seq(Lines) /\ j.res = <<>> BY <1>2, <1>4 DEF Job, JobSound
<1>6. P \in SUBSET Lines BY <1>5, RangeInSet
<1>7. \A i \in 1..Len(j.paths) : j.paths[i] \in P BY <1>5 DEF Range
<1>8. /\ pushed \subseteq pushed' /\ pushed' \subseteq Lines
      /\ faults' \in 0..MaxFaults /\ faults <= faults'
      /\ Excused => Excused'
      /\ PushOk(P) => P \subseteq pushed'
      /\ PushFails(P) => Excused' \/ P \cap broken # {}
  <2>1. PushOk(P) \/ PushFails(P) BY <1>3
  <2> HIDE DEF P
  <2> QED BY <1>1, <1>6, <2>1, PushOutcome
<1>9. CASE PushOk(P) /\ jobs' = (jobs \ {j}) \cup {ok}
  <2>1. /\ All(j.paths, "ok") \in Seq({"ok", "error"}) /\ Len(All(j.paths, "ok")) = Len(j.paths)
        /\ \A i \in 1..Len(j.paths) : All(j.paths, "ok")[i] = "ok"
    BY <1>5 DEF All
  <2>2. /\ ok \in Job /\ ok.paths = j.paths /\ ok.request = j.request /\ ok.stage = "report"
        /\ ok.res = All(j.paths, "ok")
    BY <1>4, <2>1 DEF Job
  <2> HIDE DEF ok, P
  <2>3. JobSound(ok)' BY <1>4, <1>7, <1>8, <1>9, <2>1, <2>2 DEF JobSound
  <2> QED BY <1>1, <1>8, <1>9, <2>2, <2>3, JobChanges
<1>10. CASE PushFails(P) /\ (j.request \/ Len(j.paths) = 1 \/ cancelled) /\ jobs' = (jobs \ {j}) \cup {bad}
  <2>1. /\ All(j.paths, "error") \in Seq({"ok", "error"}) /\ Len(All(j.paths, "error")) = Len(j.paths)
        /\ \A i \in 1..Len(j.paths) : All(j.paths, "error")[i] = "error"
    BY <1>5 DEF All
  <2>2. /\ bad \in Job /\ bad.paths = j.paths /\ bad.request = j.request /\ bad.stage = "report"
        /\ bad.res = All(j.paths, "error")
    BY <1>4, <2>1 DEF Job
  <2>3. \A i \in 1..Len(j.paths) : Excused' \/ j.paths[i] \in broken
    <3>1. CASE cancelled BY <1>1, <3>1 DEF Excused
    <3>2. CASE Len(j.paths) = 1
      <4>1. P = {j.paths[1]} BY <1>5, <3>2 DEF Range
      <4> HIDE DEF P
      <4>2. \A i \in 1..Len(j.paths) : i = 1 BY <3>2
      <4> QED BY <1>8, <1>10, <4>1, <4>2
    <3> QED BY <1>4, <1>10, <3>1, <3>2 DEF JobSound
  <2> HIDE DEF bad, P
  <2>4. JobSound(bad)' BY <1>1, <1>4, <2>1, <2>2, <2>3 DEF JobSound
  <2> QED BY <1>1, <1>8, <1>10, <2>2, <2>4, JobChanges
<1>11. CASE jobs' = (jobs \ {j}) \cup {again}
  <2>1. /\ again \in Job /\ again.paths = j.paths /\ again.request = j.request /\ again.stage = "probe"
        /\ again.res = <<>>
    BY <1>4, <1>5 DEF Job
  <2> HIDE DEF again, P
  <2>2. JobSound(again)' BY <1>4, <1>5, <2>1 DEF JobSound
  <2> QED BY <1>1, <1>8, <1>11, <2>1, <2>2, JobChanges
<1> QED BY <1>3, <1>9, <1>10, <1>11

\* One more path of a failed batch is tried.
LEMMA ProbeInv == ASSUME Inv, NEW j \in jobs, Probe(j) \/ ProbeFails(j) PROVE Inv'
<1> DEFINE n == Untried(j)
           ok == [j EXCEPT !.res = Append(@, "ok")]
           bad == [j EXCEPT !.res = Append(@, "error")]
<1>1. /\ request' = request /\ broken' = broken /\ closed' = closed /\ fed' = fed /\ lines' = lines
      /\ batch' = batch /\ held' = held /\ loop' = loop /\ reported' = reported /\ cancelled' = cancelled
  BY DEF Probe, ProbeFails, inputVars, scanVars
<1>2. j.stage = "probe" /\ Len(j.res) < Len(j.paths) BY DEF Probe, ProbeFails
<1>3. \/ PushOk({n}) /\ jobs' = (jobs \ {j}) \cup {ok}
      \/ PushFails({n}) /\ jobs' = (jobs \ {j}) \cup {bad}
  BY DEF Probe, ProbeFails, Becomes
<1>4. j \in Job /\ JobSound(j) BY DEF Inv, TypeOK, JobsSound
<1>5. j.paths \in Seq(Lines) /\ j.res \in Seq({"ok", "error"}) BY <1>4 DEF Job
<1>6. n = j.paths[Len(j.res) + 1] /\ n \in Lines BY <1>2, <1>5 DEF Untried
<1>7. \A i \in 1..(Len(j.res) + 1) : i \in 1..Len(j.res) \/ i = Len(j.res) + 1 BY <1>5
<1>8. Len(j.res) + 1 <= Len(j.paths) BY <1>2, <1>5
<1> HIDE DEF n
<1>9. /\ pushed \subseteq pushed' /\ pushed' \subseteq Lines
      /\ faults' \in 0..MaxFaults /\ faults <= faults'
      /\ Excused => Excused'
      /\ PushOk({n}) => {n} \subseteq pushed'
      /\ PushFails({n}) => Excused' \/ {n} \cap broken # {}
  <2>1. PushOk({n}) \/ PushFails({n}) BY <1>3
  <2>2. {n} \in SUBSET Lines BY <1>6
  <2> QED BY <1>1, <2>1, <2>2, PushOutcome
<1>10. CASE PushOk({n}) /\ jobs' = (jobs \ {j}) \cup {ok}
  <2> DEFINE r == Append(j.res, "ok")
  <2>1. /\ r \in Seq({"ok", "error"}) /\ Len(r) = Len(j.res) + 1
        /\ r[Len(j.res) + 1] = "ok" /\ \A i \in 1..Len(j.res) : r[i] = j.res[i]
    BY <1>5
  <2>2. ok \in Job /\ ok.paths = j.paths /\ ok.request = j.request /\ ok.stage = "probe" /\ ok.res = r
    BY <1>2, <1>4, <2>1 DEF Job
  <2> HIDE DEF ok, r
  <2>3. n \in pushed' BY <1>9, <1>10
  <2>4. \A i \in 1..Len(ok.res) :
          /\ ok.res[i] = "ok" => ok.paths[i] \in pushed'
          /\ ok.res[i] = "error" => Excused' \/ ok.paths[i] \in broken'
    BY <1>1, <1>4, <1>6, <1>7, <1>9, <2>1, <2>2, <2>3 DEF JobSound
  <2>5. JobSound(ok)' BY <1>4, <1>8, <2>1, <2>2, <2>4 DEF JobSound
  <2> QED BY <1>1, <1>9, <1>10, <2>2, <2>5, JobChanges
<1>11. CASE PushFails({n}) /\ jobs' = (jobs \ {j}) \cup {bad}
  <2> DEFINE r == Append(j.res, "error")
  <2>1. /\ r \in Seq({"ok", "error"}) /\ Len(r) = Len(j.res) + 1
        /\ r[Len(j.res) + 1] = "error" /\ \A i \in 1..Len(j.res) : r[i] = j.res[i]
    BY <1>5
  <2>2. bad \in Job /\ bad.paths = j.paths /\ bad.request = j.request /\ bad.stage = "probe" /\ bad.res = r
    BY <1>2, <1>4, <2>1 DEF Job
  <2> HIDE DEF bad, r
  <2>3. Excused' \/ n \in broken' BY <1>1, <1>9, <1>11
  <2>4. \A i \in 1..Len(bad.res) :
          /\ bad.res[i] = "ok" => bad.paths[i] \in pushed'
          /\ bad.res[i] = "error" => Excused' \/ bad.paths[i] \in broken'
    BY <1>1, <1>4, <1>6, <1>7, <1>9, <2>1, <2>2, <2>3 DEF JobSound
  <2>5. JobSound(bad)' BY <1>4, <1>8, <2>1, <2>2, <2>4 DEF JobSound
  <2> QED BY <1>1, <1>9, <1>11, <2>2, <2>5, JobChanges
<1> QED BY <1>3, <1>10, <1>11

\* The probes end; the paths that were not tried have an excuse.
LEMMA ProbesEndInv == ASSUME Inv, NEW j \in jobs, ProbesEnd(j) PROVE Inv'
<1> DEFINE rest == [i \in 1..(Len(j.paths) - Len(j.res)) |-> "error"]
           r == j.res \o rest
           k == [j EXCEPT !.stage = "report", !.res = r]
<1>1. /\ request' = request /\ broken' = broken /\ closed' = closed /\ fed' = fed /\ lines' = lines
      /\ batch' = batch /\ held' = held /\ loop' = loop /\ reported' = reported /\ cancelled' = cancelled
      /\ pushed' = pushed /\ faults' = faults
      /\ Len(j.res) = Len(j.paths) \/ GivesUp(j)
  BY DEF ProbesEnd, inputVars, scanVars
<1>2. jobs' = (jobs \ {j}) \cup {k} BY DEF ProbesEnd, Becomes
<1>3. j \in Job /\ JobSound(j) /\ TypeOK BY DEF Inv, TypeOK, JobsSound
<1>4. j.paths \in Seq(Lines) /\ j.res \in Seq({"ok", "error"}) /\ Len(j.res) <= Len(j.paths)
  BY <1>3 DEF Job, JobSound
<1>5. rest \in Seq({"ok", "error"}) /\ Len(rest) = Len(j.paths) - Len(j.res) BY <1>4
<1>6. /\ r \in Seq({"ok", "error"}) /\ Len(r) = Len(j.paths)
      /\ \A i \in 1..Len(j.res) : r[i] = j.res[i]
      /\ \A i \in 1..Len(j.paths) : i \in 1..Len(j.res) \/ i \in (Len(j.res) + 1)..Len(j.paths)
  <2> HIDE DEF rest
  <2> QED BY <1>4, <1>5
<1>7. \A i \in (Len(j.res) + 1)..Len(j.paths) : r[i] = "error" /\ Excused
  <2> SUFFICES ASSUME NEW i \in (Len(j.res) + 1)..Len(j.paths) PROVE r[i] = "error" /\ Excused
    OBVIOUS
  <2>1. i - Len(j.res) \in 1..(Len(j.paths) - Len(j.res)) /\ Len(j.res) # Len(j.paths) BY <1>4
  <2>2. rest[i - Len(j.res)] = "error" BY <2>1
  <2>3. r[i] = rest[i - Len(j.res)]
    <3> HIDE DEF rest
    <3> QED BY <1>4, <1>5
  <2>4. Count(j.res, "error") >= Probes BY <1>1, <2>1 DEF GivesUp
  <2>5. Excused
    <3> SUFFICES ASSUME ~Excused PROVE FALSE OBVIOUS
    <3>1. Count(j.res, "error") <= Cardinality(broken) BY <1>3, ErrorsAreBroken
    <3>2. IsFiniteSet(broken) /\ IsFiniteSet(DOMAIN j.res)
      <4>1. IsFiniteSet(Lines) BY FS_Interval, SizesAssumption DEF Lines
      <4>2. DOMAIN j.res = 1..Len(j.res) /\ 1 \in Int /\ Len(j.res) \in Int BY <1>4
      <4>3. IsFiniteSet(1..Len(j.res)) BY <4>2, FS_Interval
      <4> QED BY <1>3, <4>1, <4>2, <4>3, FS_Subset DEF TypeOK
    <3>3. IsFiniteSet({i1 \in DOMAIN j.res : j.res[i1] = "error"}) BY <3>2, FS_Subset
    <3>4. Cardinality(broken) \in Nat /\ Count(j.res, "error") \in Nat
      BY <3>2, <3>3, FS_CardinalityType DEF Count
    <3>5. Cardinality(broken) >= Probes BY <2>4, <3>1, <3>4, SizesAssumption
    <3> QED BY <3>5 DEF Excused
  <2> QED BY <2>2, <2>3, <2>5
<1> HIDE DEF r
<1>8. k \in Job /\ k.paths = j.paths /\ k.request = j.request /\ k.stage = "report" /\ k.res = r
  BY <1>3, <1>6 DEF Job
<1> HIDE DEF k
<1>9. Excused' = Excused BY <1>1 DEF Excused
<1>10. \A i \in 1..Len(k.res) :
          /\ k.res[i] = "ok" => k.paths[i] \in pushed'
          /\ k.res[i] = "error" => Excused' \/ k.paths[i] \in broken'
  BY <1>1, <1>3, <1>6, <1>7, <1>8, <1>9 DEF JobSound
<1>11. JobSound(k)' BY <1>3, <1>6, <1>8, <1>10 DEF JobSound
<1>12. faults' \in 0..MaxFaults /\ faults <= faults' /\ pushed' \subseteq Lines BY <1>1, <1>3 DEF TypeOK
<1> QED BY <1>1, <1>2, <1>8, <1>11, <1>12, JobChanges

\* A job that is done says what it knows of each of its paths, which nobody
\* has reported so far.
LEMMA ReportInv == ASSUME Inv, NEW j \in jobs, Report(j) PROVE Inv'
<1> DEFINE P == Range(j.paths)
<1>1. /\ request' = request /\ broken' = broken /\ closed' = closed /\ fed' = fed /\ lines' = lines
      /\ batch' = batch /\ held' = held /\ loop' = loop /\ cancelled' = cancelled
      /\ pushed' = pushed /\ faults' = faults
      /\ j.stage = "report" /\ jobs' = jobs \ {j}
      /\ reported' = [n \in Lines |-> reported[n] \o ResultOf(j, n)]
  BY DEF Report, inputVars, scanVars
<1>2. j \in Job /\ JobSound(j) /\ TypeOK BY DEF Inv, TypeOK, JobsSound
<1>3. /\ j.paths \in Seq(Lines) /\ j.res \in Seq({"ok", "error"}) /\ Len(j.res) = Len(j.paths)
      /\ IsInjective(j.paths) /\ P \subseteq Lines
  BY <1>1, <1>2, RangeInSet DEF Job, JobSound
<1>4. \A n \in Lines \ P : reported'[n] = reported[n]
  <2> SUFFICES ASSUME NEW n \in Lines \ P PROVE reported'[n] = reported[n] OBVIOUS
  <2>1. ~Contains(j.paths, n) BY <1>3 DEF Contains, Range
  <2>2. reported[n] \in Seq({"ok", "error"}) /\ ResultOf(j, n) = <<>> BY <1>2, <2>1 DEF TypeOK, ResultOf
  <2>3. reported[n] \o <<>> = reported[n] BY <2>2
  <2> QED BY <1>1, <2>2, <2>3
<1>5. \A n \in P : \E i \in 1..Len(j.paths) : j.paths[i] = n /\ reported'[n] = <<j.res[i]>>
  <2> SUFFICES ASSUME NEW n \in P
               PROVE  \E i \in 1..Len(j.paths) : j.paths[i] = n /\ reported'[n] = <<j.res[i]>>
    OBVIOUS
  <2>1. n \in Lines /\ DOMAIN j.paths = 1..Len(j.paths) BY <1>3
  <2>2. reported[n] = <<>> BY <2>1 DEF Inv, OnlyHere, Reported
  <2>3. \E i \in DOMAIN j.paths : j.paths[i] = n BY DEF Range
  <2>4. Contains(j.paths, n) BY <2>1, <2>3 DEF Contains
  <2> DEFINE c == CHOOSE i \in DOMAIN j.paths : j.paths[i] = n
  <2>5. c \in DOMAIN j.paths /\ j.paths[c] = n BY <2>3
  <2>6. ResultOf(j, n) = <<j.res[c]>> BY <2>4 DEF ResultOf
  <2> HIDE DEF c
  <2>7. j.res[c] \in {"ok", "error"} BY <1>3, <2>1, <2>5
  <2>8. <<>> \o <<j.res[c]>> = <<j.res[c]>> BY <2>7
  <2>9. reported'[n] = <<j.res[c]>> BY <1>1, <2>1, <2>2, <2>6, <2>8
  <2> QED BY <2>1, <2>5, <2>9
<1>6. \A n \in P : /\ reported'[n] \in Seq({"ok", "error"}) /\ Len(reported'[n]) = 1
                   /\ reported'[n] = <<"ok">> => n \in pushed
                   /\ reported'[n] = <<"error">> => Excused \/ n \in broken
  <2> SUFFICES ASSUME NEW n \in P
               PROVE  /\ reported'[n] \in Seq({"ok", "error"}) /\ Len(reported'[n]) = 1
                      /\ reported'[n] = <<"ok">> => n \in pushed
                      /\ reported'[n] = <<"error">> => Excused \/ n \in broken
    OBVIOUS
  <2>1. PICK i \in 1..Len(j.paths) : j.paths[i] = n /\ reported'[n] = <<j.res[i]>> BY <1>5
  <2> DEFINE x == j.res[i]
  <2>2. /\ x \in {"ok", "error"}
        /\ x = "ok" => n \in pushed
        /\ x = "error" => Excused \/ n \in broken
    BY <1>2, <1>3, <2>1 DEF JobSound
  <2>3. reported'[n] = <<x>> BY <2>1
  <2> HIDE DEF x
  <2> QED BY <2>2, <2>3
<1> HIDE DEF P
<1>7. \A n \in P : reported'[n] # <<>>
  <2>1. Len(<<>>) = 0 OBVIOUS
  <2> QED BY <1>6, <2>1
<1>8. TypeOK' /\ IsFiniteSet(jobs')
  <2>1. reported' \in [Lines -> Seq({"ok", "error"})]
    <3>1. \A n \in Lines : reported'[n] \in Seq({"ok", "error"}) BY <1>2, <1>4, <1>6 DEF TypeOK
    <3> QED BY <1>1, <3>1
  <2>2. IsFiniteSet(jobs) /\ Cardinality(jobs) \in Nat /\ Cardinality(jobs) <= Parallel
    BY <1>2, FS_CardinalityType DEF Inv, TypeOK
  <2>3. IsFiniteSet(jobs \ {j}) /\ Cardinality(jobs \ {j}) = Cardinality(jobs) - 1 BY <2>2, FS_RemoveElement
  <2>4. Cardinality(jobs') <= Parallel BY <1>1, <2>2, <2>3, SizesAssumption
  <2> QED BY <1>1, <1>2, <2>1, <2>3, <2>4 DEF TypeOK, Buffer
<1>9. Reported' = Reported \cup P BY <1>3, <1>4, <1>7 DEF Reported
<1>10. Passed' = Passed /\ LinesInOrder' BY <1>1 DEF Inv, Passed, LinesInOrder
<1>11. LoopInPlace' BY <1>1 DEF Inv, LoopInPlace
<1>12. OnlyHere'
  <2>1. Range(batch) \cap P = {} /\ held \notin P BY DEF Inv, OnlyHere, P
  <2>2. \A l \in jobs' : Range(l.paths) \cap P = {} BY <1>1 DEF Inv, OnlyHere, P
  <2>3. Range(batch') \cap Reported' = {} /\ held' \notin Range(batch') \cup Reported'
    BY <1>1, <1>9, <2>1 DEF Inv, OnlyHere
  <2>4. \A l \in jobs' : Range(l.paths) \cap (Range(batch') \cup {held'} \cup Reported') = {}
    BY <1>1, <1>9, <2>2 DEF Inv, OnlyHere
  <2> QED BY <1>1, <2>3, <2>4 DEF Inv, OnlyHere
<1>13. Somewhere'
  <2>1. \A n : (\E l \in jobs : n \in Range(l.paths)) <=> n \in P \/ \E l \in jobs' : n \in Range(l.paths)
    BY <1>1 DEF P
  <2> QED BY <1>1, <1>9, <1>10, <2>1 DEF Inv, Somewhere
<1>14. faults <= faults' BY <1>1, <1>2 DEF TypeOK
<1>15. JobsSound' BY <1>1, <1>2, <1>8, <1>14, SoundStays DEF Inv, JobsSound
<1>16. ReportsSound'
  <2>1. Excused' = Excused BY <1>1 DEF Excused
  <2> SUFFICES ASSUME NEW n \in Lines
               PROVE  /\ Len(reported'[n]) <= 1
                      /\ reported'[n] = <<"ok">> => n \in pushed
                      /\ reported'[n] = <<"error">> => Excused \/ n \in broken
    BY <1>1, <2>1 DEF ReportsSound
  <2>2. CASE n \in P
    <3>1. Len(reported'[n]) = 1 BY <1>6, <2>2
    <3>2. Len(reported'[n]) <= 1 BY <3>1
    <3> QED BY <1>6, <2>2, <3>2
  <2>3. CASE n \notin P BY <1>4, <2>3 DEF Inv, ReportsSound
  <2> QED BY <2>2, <2>3
<1> QED BY <1>8, <1>10, <1>11, <1>12, <1>13, <1>15, <1>16 DEF Inv

-----------------------------------------------------------------------------
LEMMA StutterInv == ASSUME Inv, UNCHANGED vars PROVE Inv'
<1>1. /\ request' = request /\ broken' = broken /\ closed' = closed /\ fed' = fed /\ lines' = lines
      /\ batch' = batch /\ held' = held /\ loop' = loop /\ jobs' = jobs /\ reported' = reported
      /\ cancelled' = cancelled /\ pushed' = pushed /\ faults' = faults
  BY DEF vars
<1>2. TypeOK' BY <1>1 DEF Inv, TypeOK, Buffer
<1>3. LinesInOrder' /\ Passed' = Passed BY <1>1 DEF Inv, LinesInOrder, Passed
<1>4. LoopInPlace' BY <1>1 DEF Inv, LoopInPlace
<1> QED BY <1>1, <1>2, <1>3, <1>4, NothingMoves

LEMMA StepInv == ASSUME Inv, [Next]_vars PROVE Inv'
<1>1. CASE Feed BY <1>1, FeedInv
<1>2. CASE EOF BY <1>2, EOFInv
<1>3. CASE Cancel BY <1>3, CancelInv
<1>4. CASE Take BY <1>4, TakeInv
<1>5. CASE Flush \/ StartBatch BY <1>5, BatchStarts
<1>6. CASE SubmitRequest BY <1>6, RequestStarts
<1>7. CASE Select \/ Leave \/ Return BY <1>7, LoopMoves
<1>8. ASSUME NEW j \in jobs, Work(j) PROVE Inv'
  <2>1. CASE BatchOk(j) \/ BatchFails(j) BY <2>1, BatchInv
  <2>2. CASE Probe(j) \/ ProbeFails(j) BY <2>2, ProbeInv
  <2>3. CASE ProbesEnd(j) BY <2>3, ProbesEndInv
  <2>4. CASE Report(j) BY <2>4, ReportInv
  <2> QED BY <1>8, <2>1, <2>2, <2>3, <2>4 DEF Work
<1>9. CASE UNCHANGED vars BY <1>9, StutterInv
<1> QED BY <1>1, <1>2, <1>3, <1>4, <1>5, <1>6, <1>7, <1>8, <1>9 DEF Next, Run

\* In every state of a stream push each line that was taken from the channel
\* is in one place, and what the jobs know and have reported is true.
THEOREM StreamPushInvariant == Spec => []Inv
BY InitInv, StepInv, PTL DEF Spec

\* streampush.go: no line is reported twice, and when Run returns every line
\* it took was reported, without a cancellation every line of the input; for
\* any input, batch size, number of slots and probes.
THEOREM ReportedOnceAlways == Spec => []ReportedOnce
<1>1. Inv => ReportedOnce
  <2> SUFFICES ASSUME Inv PROVE ReportedOnce OBVIOUS
  <2> USE DEF Inv
  <2>1. \A n \in Lines : Len(reported[n]) <= 1 BY DEF ReportsSound
  <2>2. \A n \in Lines : reported[n] \in Seq({"ok", "error"}) /\ (reported[n] # <<>> => Len(reported[n]) # 0)
    <3>1. \A n \in Lines : reported[n] \in Seq({"ok", "error"}) BY DEF TypeOK
    <3> QED BY <3>1
  <2>3. lines \in Seq(Lines) /\ fed \in Nat /\ fed <= MaxLines /\ MaxLines \in Nat
    BY SizesAssumption DEF TypeOK
  <2>4. ASSUME loop = "returned", NEW n \in Taken PROVE Len(reported[n]) = 1
    <3>1. n \in 1..fed /\ \A i \in 1..Len(lines) : lines[i] # n BY <2>3, <2>4 DEF Taken
    <3>2. n \in Lines BY <2>3, <3>1 DEF Lines
    <3>3. n <= Passed
      <4> SUFFICES ASSUME ~(n <= Passed) PROVE FALSE OBVIOUS
      <4>1. Passed = fed - Len(lines) /\ Len(lines) \in Nat BY <2>3 DEF Passed
      <4>2. n - Passed \in 1..Len(lines) /\ Passed + (n - Passed) = n BY <2>3, <3>1, <4>1
      <4> QED BY <3>1, <4>2 DEF LinesInOrder
    <3>4. Range(batch) = {} /\ n # held /\ jobs = {}
      <4>1. batch = <<>> /\ held = 0 /\ jobs = {} BY <2>4 DEF LoopInPlace
      <4>2. DOMAIN batch = {} BY <4>1
      <4> QED BY <3>1, <4>1, <4>2 DEF Range
    <3>5. n \in Reported BY <3>2, <3>3, <3>4 DEF Somewhere
    <3>6. reported[n] # <<>> BY <3>5 DEF Reported
    <3>7. Len(reported[n]) \in Nat /\ Len(reported[n]) # 0 /\ Len(reported[n]) <= 1
      BY <2>1, <2>2, <3>2, <3>6
    <3>8. \A m \in Nat : m # 0 /\ m <= 1 => m = 1 OBVIOUS
    <3> QED BY <3>7, <3>8
  <2>5. ASSUME loop = "returned", ~cancelled PROVE Taken = 1..fed
    <3>1. lines = <<>> BY <2>5 DEF LoopInPlace
    <3>2. DOMAIN lines = {} BY <3>1
    <3> QED BY <3>2 DEF Taken
  <2> QED BY <2>1, <2>4, <2>5 DEF ReportedOnce
<1> QED BY <1>1, StreamPushInvariant, PTL

\* upload, uploadRequest: "ok" is only said of a path that a push which
\* succeeded included, whatever was retried path by path.
THEOREM OkMeansPushedAlways == Spec => []OkMeansPushed
<1>1. Inv => OkMeansPushed BY DEF Inv, ReportsSound, OkMeansPushed
<1> QED BY <1>1, StreamPushInvariant, PTL

\* The isolation of a failed batch: a sound path fails only with the server,
\* with the context, or if the input has at least Probes broken lines.
THEOREM BadCostsItselfAlways == Spec => []BadCostsItself
<1>1. Inv => BadCostsItself BY DEF Inv, ReportsSound, BadCostsItself, Excused
<1> QED BY <1>1, StreamPushInvariant, PTL
=============================================================================
