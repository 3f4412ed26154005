-------------------------- MODULE ServerLockProofs --------------------------
(***************************************************************************)
(* Proofs about two parts of the server that lean on locks of PostgreSQL   *)
(* and share nothing else: Pins, which holds row locks in transactions,    *)
(* and FarmLead, whose session lock goes with its connection. Names that   *)
(* begin with Farm are about the second.                                   *)
(*                                                                         *)
(* Pins and presence reports keep their closures, for every set of         *)
(* closures, of pin names and of requests. A pin request holds its closure *)
(* FOR SHARE from its check to its commit, the collection holds what it    *)
(* may delete FOR UPDATE, so the two never hold the same row (LocksApart). *)
(* The pin therefore commits either before the collection locks, and       *)
(* DeleteUnpinnedClosures sees it, or finds a closure that outlives it.    *)
(*                                                                         *)
(* Leaders do not overlap, for every set of candidates and every heartbeat *)
(* and timeout. Of two handlers with a connection one took the lock after  *)
(* the other had lost it, and stays quiet for at least as long as the      *)
(* other may need to find out (InSuccession).                              *)
(***************************************************************************)
EXTENDS Pins, FarmLead, TLAPS

\* The collection holds locks only between its two statements.
LocksOnlyToDelete == gcpc # "delete" => locked = {}

\* A pin transaction holds a closure that exists and that the collection has
\* not locked.
LocksApart ==
    \A r \in Requests : pc[r] \in {"checked", "stored"} =>
        /\ key[r] \in Keys /\ name[r] \in Names
        /\ closures[key[r]] # "none"
        /\ key[r] \notin locked

\* A request that has deleted its row knows whose object to delete.
UnpinsNamed == \A r \in Requests : pc[r] = "unpinned" => name[r] \in Names

\* A reported closure has been made young and has not aged.
ReportedIsYoung == \A k \in reported : closures[k] = "young"

Inv ==
    /\ TypeOK
    /\ LocksOnlyToDelete
    /\ LocksApart
    /\ UnpinsNamed
    /\ PinnedStays
    /\ ReportedIsYoung

-----------------------------------------------------------------------------

\* Nothing is pinned, reported or locked to begin with.
LEMMA InitInv == Init => Inv
BY NoneAssumption
   DEF Init, Inv, TypeOK, LocksOnlyToDelete, LocksApart, UnpinsNamed, PinnedStays,
       ReportedIsYoung, Pinned

\* A pin that a step leaves alone keeps its closure if the step takes no
\* closure away that is pinned.
LEMMA PinnedKept ==
    ASSUME PinnedStays, UNCHANGED pins,
           \A k \in Pinned : closures[k] # "none" => closures'[k] # "none"
    PROVE  PinnedStays'
BY DEF PinnedStays, Pinned

\* A closure that is pushed again or touched becomes young, wherever the
\* transactions of pins and of the collection are: its row lock makes it wait
\* for them.
LEMMA YoungAgainKeepsInv ==
    ASSUME Inv, NEW k \in Keys, k \notin locked \cup Shared,
           closures' = [closures EXCEPT ![k] = "young"],
           reported' \in {reported, reported \cup {k}},
           UNCHANGED <<pins, object, requestVars, gcVars>>
    PROVE  Inv'
<1> USE DEF Inv, requestVars, gcVars
<1>1. TypeOK' BY DEF TypeOK
<1>2. LocksOnlyToDelete' BY DEF LocksOnlyToDelete
<1>3. LocksApart' BY DEF LocksApart, TypeOK
<1>4. UnpinsNamed' BY DEF UnpinsNamed
<1>5. PinnedStays'
  BY PinnedKept DEF TypeOK, Pinned
<1>6. ReportedIsYoung' BY DEF ReportedIsYoung, TypeOK
<1> QED BY <1>1, <1>2, <1>3, <1>4, <1>5, <1>6

\* Every step of a request, of a push and of the collection keeps the
\* invariant.
LEMMA NextInv == Inv /\ [Next]_vars => Inv'
<1> SUFFICES ASSUME Inv, [Next]_vars PROVE Inv'
  OBVIOUS
<1> USE DEF Inv, requestVars, gcVars
<1>1. ASSUME NEW k \in Keys, Push(k) PROVE Inv'
  BY <1>1, YoungAgainKeepsInv DEF Push
<1>2. ASSUME NEW k \in Keys, Age(k) PROVE Inv'
  <2>1. TypeOK' BY <1>2 DEF Age, TypeOK
  <2>2. LocksOnlyToDelete' BY <1>2 DEF Age, LocksOnlyToDelete
  <2>3. LocksApart' BY <1>2 DEF Age, LocksApart, TypeOK
  <2>4. UnpinsNamed' BY <1>2 DEF Age, UnpinsNamed
  <2>5. PinnedStays' BY <1>2, PinnedKept DEF Age, TypeOK, Pinned
  <2>6. ReportedIsYoung' BY <1>2 DEF Age, ReportedIsYoung, TypeOK
  <2> QED BY <2>1, <2>2, <2>3, <2>4, <2>5, <2>6
<1>3. ASSUME NEW k \in Keys, Present(k) PROVE Inv'
  BY <1>3, YoungAgainKeepsInv DEF Present
<1>4. ASSUME NEW r \in Requests, NEW n \in Names, NEW k \in Keys, PinCheck(r, n, k) PROVE Inv'
  <2>1. TypeOK' BY <1>4 DEF PinCheck, TypeOK
  <2>2. LocksOnlyToDelete' BY <1>4 DEF PinCheck, LocksOnlyToDelete
  <2>3. LocksApart' BY <1>4 DEF PinCheck, LocksApart, TypeOK
  <2>4. UnpinsNamed' BY <1>4 DEF PinCheck, UnpinsNamed, TypeOK
  <2>5. PinnedStays' BY <1>4, PinnedKept DEF PinCheck
  <2>6. ReportedIsYoung' BY <1>4 DEF PinCheck, ReportedIsYoung
  <2> QED BY <2>1, <2>2, <2>3, <2>4, <2>5, <2>6
<1>5. ASSUME NEW r \in Requests, PinPut(r) PROVE Inv'
  <2>1. TypeOK' BY <1>5 DEF PinPut, TypeOK, LocksApart
  <2>2. LocksOnlyToDelete' BY <1>5 DEF PinPut, LocksOnlyToDelete
  <2>3. LocksApart' BY <1>5 DEF PinPut, LocksApart, TypeOK
  <2>4. UnpinsNamed' BY <1>5 DEF PinPut, UnpinsNamed, TypeOK
  <2>5. PinnedStays' BY <1>5, PinnedKept DEF PinPut
  <2>6. ReportedIsYoung' BY <1>5 DEF PinPut, ReportedIsYoung
  <2> QED BY <2>1, <2>2, <2>3, <2>4, <2>5, <2>6
<1>6. ASSUME NEW r \in Requests, PinCommit(r) PROVE Inv'
  <2>1. TypeOK' BY <1>6 DEF PinCommit, TypeOK, LocksApart
  <2>2. LocksOnlyToDelete' BY <1>6 DEF PinCommit, LocksOnlyToDelete
  <2>3. LocksApart' BY <1>6 DEF PinCommit, LocksApart, TypeOK
  <2>4. UnpinsNamed' BY <1>6 DEF PinCommit, UnpinsNamed, TypeOK
  <2>5. PinnedStays'
    \* The closure that is pinned now is the one the transaction held.
    <3>1. \A n \in Names : pins'[n] # None => closures[pins'[n]] # "none"
      BY <1>6 DEF PinCommit, LocksApart, TypeOK, PinnedStays, Pinned
    <3> QED BY <1>6, <3>1 DEF PinCommit, PinnedStays, Pinned
  <2>6. ReportedIsYoung' BY <1>6 DEF PinCommit, ReportedIsYoung
  <2> QED BY <2>1, <2>2, <2>3, <2>4, <2>5, <2>6
<1>7. ASSUME NEW r \in Requests, PinFails(r) PROVE Inv'
  <2>1. TypeOK' BY <1>7 DEF PinFails, TypeOK
  <2>2. LocksOnlyToDelete' BY <1>7 DEF PinFails, LocksOnlyToDelete
  <2>3. LocksApart' BY <1>7 DEF PinFails, LocksApart, TypeOK
  <2>4. UnpinsNamed' BY <1>7 DEF PinFails, UnpinsNamed, TypeOK
  <2>5. PinnedStays' BY <1>7, PinnedKept DEF PinFails
  <2>6. ReportedIsYoung' BY <1>7 DEF PinFails, ReportedIsYoung
  <2> QED BY <2>1, <2>2, <2>3, <2>4, <2>5, <2>6
<1>8. ASSUME NEW r \in Requests, NEW n \in Names, Unpin(r, n) PROVE Inv'
  <2>1. TypeOK' BY <1>8 DEF Unpin, TypeOK
  <2>2. LocksOnlyToDelete' BY <1>8 DEF Unpin, LocksOnlyToDelete
  <2>3. LocksApart' BY <1>8 DEF Unpin, LocksApart, TypeOK
  <2>4. UnpinsNamed' BY <1>8 DEF Unpin, UnpinsNamed, TypeOK
  <2>5. PinnedStays'
    <3>1. \A m \in Names : pins'[m] # None => closures[pins'[m]] # "none"
      BY <1>8 DEF Unpin, TypeOK, PinnedStays, Pinned
    <3> QED BY <1>8, <3>1 DEF Unpin, PinnedStays, Pinned
  <2>6. ReportedIsYoung' BY <1>8 DEF Unpin, ReportedIsYoung
  <2> QED BY <2>1, <2>2, <2>3, <2>4, <2>5, <2>6
<1>9. ASSUME NEW r \in Requests, UnpinObject(r) PROVE Inv'
  <2>1. TypeOK' BY <1>9 DEF UnpinObject, TypeOK, UnpinsNamed
  <2>2. LocksOnlyToDelete' BY <1>9 DEF UnpinObject, LocksOnlyToDelete
  <2>3. LocksApart' BY <1>9 DEF UnpinObject, LocksApart, TypeOK
  <2>4. UnpinsNamed' BY <1>9 DEF UnpinObject, UnpinsNamed, TypeOK
  <2>5. PinnedStays' BY <1>9, PinnedKept DEF UnpinObject
  <2>6. ReportedIsYoung' BY <1>9 DEF UnpinObject, ReportedIsYoung
  <2> QED BY <2>1, <2>2, <2>3, <2>4, <2>5, <2>6
<1>10. ASSUME GCQuery PROVE Inv'
  <2>1. TypeOK' BY <1>10 DEF GCQuery, TypeOK
  <2>2. LocksOnlyToDelete' BY <1>10 DEF GCQuery, LocksOnlyToDelete
  <2>3. LocksApart' BY <1>10 DEF GCQuery, LocksApart
  <2>4. UnpinsNamed' BY <1>10 DEF GCQuery, UnpinsNamed
  <2>5. PinnedStays' BY <1>10, PinnedKept DEF GCQuery
  <2>6. ReportedIsYoung' BY <1>10 DEF GCQuery, ReportedIsYoung
  <2> QED BY <2>1, <2>2, <2>3, <2>4, <2>5, <2>6
<1>11. ASSUME GCLock PROVE Inv'
  <2>1. TypeOK' BY <1>11 DEF GCLock, TypeOK
  <2>2. LocksOnlyToDelete' BY <1>11 DEF GCLock, LocksOnlyToDelete
  <2>3. LocksApart' BY <1>11 DEF GCLock, LocksApart, Shared
  <2>4. UnpinsNamed' BY <1>11 DEF GCLock, UnpinsNamed
  <2>5. PinnedStays' BY <1>11, PinnedKept DEF GCLock
  <2>6. ReportedIsYoung' BY <1>11 DEF GCLock, ReportedIsYoung
  <2> QED BY <2>1, <2>2, <2>3, <2>4, <2>5, <2>6
<1>12. ASSUME GCDelete PROVE Inv'
  <2>1. TypeOK' BY <1>12 DEF GCDelete, TypeOK
  <2>2. LocksOnlyToDelete' BY <1>12 DEF GCDelete, LocksOnlyToDelete
  <2>3. LocksApart' BY <1>12 DEF GCDelete, LocksApart
  <2>4. UnpinsNamed' BY <1>12 DEF GCDelete, UnpinsNamed
  <2>5. PinnedStays'
    <3>1. Pinned \subseteq Keys BY DEF TypeOK, Pinned
    <3> QED BY <1>12, <3>1, PinnedKept DEF GCDelete
  <2>6. ReportedIsYoung' BY <1>12 DEF GCDelete, ReportedIsYoung, TypeOK
  <2> QED BY <2>1, <2>2, <2>3, <2>4, <2>5, <2>6
<1>13. ASSUME GCFails PROVE Inv'
  <2>1. TypeOK' BY <1>13 DEF GCFails, TypeOK
  <2>2. LocksOnlyToDelete' BY <1>13 DEF GCFails, LocksOnlyToDelete
  <2>3. LocksApart' BY <1>13 DEF GCFails, LocksApart
  <2>4. UnpinsNamed' BY <1>13 DEF GCFails, UnpinsNamed
  <2>5. PinnedStays' BY <1>13, PinnedKept DEF GCFails
  <2>6. ReportedIsYoung' BY <1>13 DEF GCFails, ReportedIsYoung
  <2> QED BY <2>1, <2>2, <2>3, <2>4, <2>5, <2>6
<1>14. CASE UNCHANGED vars
  BY <1>14 DEF vars, TypeOK, LocksOnlyToDelete, LocksApart, UnpinsNamed, PinnedStays,
               ReportedIsYoung, Pinned
<1> QED
  BY <1>1, <1>2, <1>3, <1>4, <1>5, <1>6, <1>7, <1>8, <1>9, <1>10, <1>11, <1>12, <1>13, <1>14
     DEF Next

-----------------------------------------------------------------------------

\* The invariant holds in every behaviour of the handlers and the collection.
THEOREM PinsInvariant == Spec => []Inv
BY InitInv, NextInv, PTL DEF Spec

\* deleteClosuresBefore never deletes a closure that a committed pin names,
\* whatever CreatePinHandler and DeletePinHandler do meanwhile.
THEOREM PinnedStaysAlways == Spec => []PinnedStays
<1>1. Inv => PinnedStays BY DEF Inv
<1> QED BY <1>1, PinsInvariant, PTL

\* A closure TouchPresentClosures reported survives every collection until it
\* has aged past the cutoff again.
THEOREM PresentSurvivesAlways == Spec => []PresentSurvives
<1>1. Inv => PresentSurvives BY DEF Inv, ReportedIsYoung, PresentSurvives
<1> QED BY <1>1, PinsInvariant, PTL

-----------------------------------------------------------------------------
(***************************************************************************)
(* The farm's leader.                                                      *)
(***************************************************************************)

\* A candidate that was told to lead has a connection and has kept quiet for
\* as long as it had to; a closed stream has no connection.
LeadersAreLoud ==
    \A c \in Candidates :
        /\ lead[c] => conn[c] /\ quiet[c] = 0
        /\ conn[c] => phase[c] # "closed"
        /\ phase[c] = "ping" => conn[c]

\* Time until a handler whose connection is dead has found out.
Remaining(c) ==
    IF phase[c] = "ping" THEN ping[c]
    ELSE IF phase[c] = "wait" THEN tick[c] + PingTimeout
    ELSE PingTimeout

\* d took the lock from c and is quiet until c has found out.
Succeeds(d, c) == lock # c /\ Remaining(c) <= quiet[d]

\* Of two connections one followed the other, unless an incumbent is in it.
InSuccession ==
    \A c, d \in Candidates :
        c # d /\ conn[c] /\ conn[d] /\ ~incumbent[c] /\ ~incumbent[d]
            => Succeeds(d, c) \/ Succeeds(c, d)

FarmInv == FarmTypeOK /\ LeadersAreLoud /\ InSuccession

LEMMA FarmInitInv == FarmInit => FarmInv
BY TimingAssumption DEF FarmInit, FarmInv, FarmTypeOK, Phases, LeadersAreLoud, InSuccession

\* Steps of a stream that leave all others, and who has a connection, alone.
LEMMA OneStreamMoves ==
    ASSUME FarmInv, FarmTypeOK', LeadersAreLoud', NEW c \in Candidates,
           conn' = conn, quiet' = quiet, lock' = lock,
           \A d \in Candidates \ {c} :
               Remaining(d)' = Remaining(d) /\ incumbent'[d] = incumbent[d],
           conn[c] => incumbent'[c] = incumbent[c],
           conn[c] /\ lock # c => Remaining(c)' = Remaining(c)
    PROVE  FarmInv'
<1>1. SUFFICES ASSUME NEW a \in Candidates, NEW b \in Candidates, a # b, conn[a], conn[b],
                      ~incumbent'[a], ~incumbent'[b]
               PROVE  Succeeds(b, a)' \/ Succeeds(a, b)'
  BY DEF FarmInv, InSuccession
<1>2. ~incumbent[a] /\ ~incumbent[b] BY <1>1
<1>3. Succeeds(b, a) \/ Succeeds(a, b) BY <1>1, <1>2 DEF FarmInv, InSuccession
<1>4. \A x, y \in {a, b} : Succeeds(x, y) => Succeeds(x, y)'
  BY <1>1 DEF Succeeds
<1> QED BY <1>3, <1>4

\* Streams end, and PostgreSQL may free their lock or only later.
LEMMA StreamsEnd ==
    ASSUME FarmInv, NEW C \in SUBSET Candidates, Close(C), grace' \in 0..Grace, faults' \in 0..MaxFaults
    PROVE  FarmInv'
<1> USE DEF FarmInv
<1>0. /\ phase' = [c \in Candidates |-> IF c \in C THEN "closed" ELSE phase[c]]
      /\ conn' = [c \in Candidates |-> conn[c] /\ c \notin C]
      /\ lead' = [c \in Candidates |-> lead[c] /\ c \notin C]
      /\ led' = [c \in Candidates |-> IF c \in C THEN lead[c] ELSE led[c]]
      /\ quiet' = [c \in Candidates |-> IF c \in C THEN 0 ELSE quiet[c]]
      /\ tick' = [c \in Candidates |-> IF c \in C THEN 0 ELSE tick[c]]
      /\ ping' = [c \in Candidates |-> IF c \in C THEN 0 ELSE ping[c]]
      /\ lock' = lock \/ lock' = Nobody
      /\ incumbent' = incumbent
  BY DEF Close
<1>1. FarmTypeOK'
  <2>1. phase' \in [Candidates -> Phases] BY <1>0 DEF FarmTypeOK, Phases
  <2>2. conn' \in [Candidates -> BOOLEAN] /\ lead' \in [Candidates -> BOOLEAN] BY <1>0
  <2>3. led' \in [Candidates -> BOOLEAN] BY <1>0 DEF FarmTypeOK
  <2>4. /\ quiet' \in [Candidates -> 0..(Heartbeat + PingTimeout)]
        /\ tick' \in [Candidates -> 0..Heartbeat] /\ ping' \in [Candidates -> 0..PingTimeout]
    BY <1>0, TimingAssumption DEF FarmTypeOK
  <2> QED BY <1>0, <2>1, <2>2, <2>3, <2>4 DEF FarmTypeOK
<1>2. LeadersAreLoud' BY <1>0 DEF LeadersAreLoud
<1>3. \A c \in Candidates : conn'[c] =>
        /\ conn[c] /\ quiet'[c] = quiet[c] /\ Remaining(c)' = Remaining(c)
        /\ lock # c => lock' # c
  BY <1>0, NobodyAssumption DEF Remaining
<1>4. InSuccession' BY <1>0, <1>3 DEF InSuccession, Succeeds
<1> QED BY <1>1, <1>2, <1>4

LEMMA OpenFarm == ASSUME FarmInv, NEW c \in Candidates, Open(c) PROVE FarmInv'
<1> USE DEF FarmInv
<1>1. ~conn[c] BY DEF Open, LeadersAreLoud
<1>2. FarmTypeOK'
  <2>1. phase' \in [Candidates -> Phases] BY DEF Open, FarmTypeOK, Phases
  <2>2. incumbent' \in [Candidates -> BOOLEAN] BY DEF Open, FarmTypeOK
  <2>3. tick' \in [Candidates -> 0..Heartbeat] BY TimingAssumption DEF Open, FarmTypeOK
  <2> QED BY <2>1, <2>2, <2>3 DEF Open, FarmTypeOK
<1>3. LeadersAreLoud' BY DEF Open, LeadersAreLoud, FarmTypeOK
<1>4. \A d \in Candidates \ {c} : Remaining(d)' = Remaining(d) /\ incumbent'[d] = incumbent[d]
  BY DEF Open, Remaining, FarmTypeOK
<1> QED BY <1>1, <1>2, <1>3, <1>4, OneStreamMoves DEF Open

LEMMA StartPingFarm == ASSUME FarmInv, NEW c \in Candidates, StartPing(c) PROVE FarmInv'
<1> USE DEF FarmInv
<1>1. FarmTypeOK'
  <2>1. phase' \in [Candidates -> Phases] BY DEF StartPing, FarmTypeOK, Phases
  <2>2. ping' \in [Candidates -> 0..PingTimeout] BY TimingAssumption DEF StartPing, FarmTypeOK
  <2> QED BY <2>1, <2>2 DEF StartPing, FarmTypeOK
<1>2. LeadersAreLoud' BY DEF StartPing, LeadersAreLoud, FarmTypeOK
<1>3. \A d \in Candidates : Remaining(d)' = Remaining(d)
  BY DEF StartPing, Remaining, FarmTypeOK
<1> QED BY <1>1, <1>2, <1>3, OneStreamMoves DEF StartPing

LEMMA PingAnsweredFarm == ASSUME FarmInv, NEW c \in Candidates, PingAnswered(c) PROVE FarmInv'
<1> USE DEF FarmInv
<1>1. FarmTypeOK'
  <2>1. phase' \in [Candidates -> Phases] BY DEF PingAnswered, FarmTypeOK, Phases
  <2>2. lead' \in [Candidates -> BOOLEAN] BY DEF PingAnswered, FarmTypeOK
  <2> QED BY <2>1, <2>2 DEF PingAnswered, FarmTypeOK
<1>2. LeadersAreLoud'
  BY DEF PingAnswered, LeadersAreLoud, FarmTypeOK
<1>3. \A d \in Candidates \ {c} : Remaining(d)' = Remaining(d)
  BY DEF PingAnswered, Remaining, FarmTypeOK
<1> QED BY <1>1, <1>2, <1>3, OneStreamMoves DEF PingAnswered

LEMMA BeatFarm == ASSUME FarmInv, NEW c \in Candidates, Beat(c) PROVE FarmInv'
<1> USE DEF FarmInv
<1>1. FarmTypeOK'
  <2>1. phase' \in [Candidates -> Phases] BY DEF Beat, FarmTypeOK, Phases
  <2>2. tick' \in [Candidates -> 0..Heartbeat] BY TimingAssumption DEF Beat, FarmTypeOK
  <2> QED BY <2>1, <2>2 DEF Beat, FarmTypeOK
<1>2. LeadersAreLoud' BY DEF Beat, LeadersAreLoud, FarmTypeOK
<1>3. \A d \in Candidates : Remaining(d)' = Remaining(d)
  BY TimingAssumption DEF Beat, Remaining, FarmTypeOK
<1> QED BY <1>1, <1>2, <1>3, OneStreamMoves DEF Beat

\* Whoever takes the lock without being an incumbent is quiet for as long as
\* any handler may need to find out that its connection is dead.
LEMMA TryLeadFarm == ASSUME FarmInv, NEW c \in Candidates, TryLead(c) PROVE FarmInv'
<1> USE DEF FarmInv
<1>0. /\ phase[c] = "loop" /\ ~conn[c]
      /\ phase' = [phase EXCEPT ![c] = "wait"]
      /\ lead' = [lead EXCEPT ![c] = conn'[c] /\ quiet'[c] = 0]
      /\ incumbent' = incumbent /\ tick' = tick /\ ping' = ping /\ led' = led
      /\ grace' = grace /\ faults' = faults
  BY DEF TryLead
<1>1. \/ /\ lock = Nobody /\ lock' = c
         /\ conn' = [conn EXCEPT ![c] = TRUE]
         /\ quiet' = [quiet EXCEPT ![c] = AnnounceDelay(incumbent[c])]
      \/ lock' = lock /\ conn' = conn /\ quiet' = quiet
  BY DEF TryLead
<1>2. AnnounceDelay(incumbent[c]) \in 0..(Heartbeat + PingTimeout) BY TimingAssumption DEF AnnounceDelay
<1>3. FarmTypeOK'
  <2>1. phase' \in [Candidates -> Phases] BY <1>0 DEF FarmTypeOK, Phases
  <2>2. conn' \in [Candidates -> BOOLEAN] BY <1>1 DEF FarmTypeOK
  <2>3. lead' \in [Candidates -> BOOLEAN] BY <1>0 DEF FarmTypeOK
  <2>4. quiet' \in [Candidates -> 0..(Heartbeat + PingTimeout)] BY <1>1, <1>2 DEF FarmTypeOK
  <2> QED BY <1>0, <1>1, <2>1, <2>2, <2>3, <2>4 DEF FarmTypeOK
<1>4. LeadersAreLoud'
  <2> SUFFICES ASSUME NEW d \in Candidates
               PROVE  /\ lead'[d] => conn'[d] /\ quiet'[d] = 0
                      /\ conn'[d] => phase'[d] # "closed"
                      /\ phase'[d] = "ping" => conn'[d]
    BY DEF LeadersAreLoud
  <2>1. CASE d = c BY <1>0, <2>1 DEF FarmTypeOK
  <2>2. CASE d # c
    <3>1. /\ lead'[d] = lead[d] /\ phase'[d] = phase[d] /\ conn'[d] = conn[d] /\ quiet'[d] = quiet[d]
      BY <1>0, <1>1, <2>2 DEF FarmTypeOK
    <3> QED BY <3>1 DEF LeadersAreLoud
  <2> QED BY <2>1, <2>2
<1>5. \A d \in Candidates \ {c} : /\ Remaining(d)' = Remaining(d) /\ conn'[d] = conn[d]
                                  /\ quiet'[d] = quiet[d]
                                  /\ Remaining(d) <= Heartbeat + PingTimeout
  <2> SUFFICES ASSUME NEW d \in Candidates \ {c}
               PROVE  /\ Remaining(d)' = Remaining(d) /\ conn'[d] = conn[d]
                      /\ quiet'[d] = quiet[d]
                      /\ Remaining(d) <= Heartbeat + PingTimeout
    OBVIOUS
  <2>1. /\ phase'[d] = phase[d] /\ conn'[d] = conn[d] /\ quiet'[d] = quiet[d] BY <1>0, <1>1 DEF FarmTypeOK
  <2>2. Remaining(d)' = Remaining(d) BY <1>0, <2>1 DEF Remaining
  <2>3. tick[d] \in 0..Heartbeat /\ ping[d] \in 0..PingTimeout BY DEF FarmTypeOK
  <2>4. Remaining(d) <= Heartbeat + PingTimeout BY <2>3, TimingAssumption DEF Remaining
  <2> QED BY <2>1, <2>2, <2>4
<1>6. CASE conn' = conn
  <2>1. lock' = lock /\ quiet' = quiet
    <3>1. ~conn'[c] BY <1>0, <1>6
    <3> QED BY <1>1, <3>1 DEF FarmTypeOK
  <2> QED BY <1>0, <1>3, <1>4, <1>5, <1>6, <2>1, OneStreamMoves
<1>7. CASE /\ lock = Nobody /\ lock' = c
           /\ quiet' = [quiet EXCEPT ![c] = AnnounceDelay(incumbent[c])]
  <2>1. ASSUME NEW d \in Candidates, d # c, ~incumbent[c] PROVE Succeeds(c, d)'
    <3>1. quiet'[c] = Heartbeat + PingTimeout BY <1>7, <2>1 DEF FarmTypeOK, AnnounceDelay
    <3> QED BY <1>5, <1>7, <2>1, <3>1 DEF Succeeds
  <2>2. ASSUME NEW a \in Candidates \ {c}, NEW b \in Candidates \ {c}, Succeeds(a, b) PROVE Succeeds(a, b)'
    BY <1>5, <1>7, <2>2 DEF Succeeds
  <2>3. InSuccession'
    <3> SUFFICES ASSUME NEW a \in Candidates, NEW b \in Candidates, a # b, conn'[a], conn'[b],
                        ~incumbent'[a], ~incumbent'[b]
                 PROVE  Succeeds(b, a)' \/ Succeeds(a, b)'
      BY DEF InSuccession
    <3>1. CASE a = c \/ b = c BY <1>0, <2>1, <3>1
    <3>2. CASE a # c /\ b # c
      <4>1. Succeeds(b, a) \/ Succeeds(a, b) BY <1>0, <1>5, <3>2 DEF InSuccession
      <4> QED BY <2>2, <3>2, <4>1
    <3> QED BY <3>1, <3>2
  <2> QED BY <1>3, <1>4, <2>3
<1> QED BY <1>1, <1>6, <1>7

\* The lock is freed under its holder, or behind it.
LEMMA LockGoes == ASSUME FarmInv, ConnectionDies \/ LockExpires PROVE FarmInv'
<1> USE DEF FarmInv
<1>1. /\ phase' = phase /\ incumbent' = incumbent /\ conn' = conn /\ quiet' = quiet /\ tick' = tick
      /\ ping' = ping /\ lead' = lead /\ led' = led /\ grace' = grace /\ lock' = Nobody
      /\ faults' = faults \/ (faults < MaxFaults /\ faults' = faults + 1)
  BY DEF ConnectionDies, LockExpires, Fault
<1>2. faults' \in 0..MaxFaults BY <1>1, TimingAssumption DEF FarmTypeOK
<1>3. FarmTypeOK' BY <1>1, <1>2 DEF FarmTypeOK
<1>4. LeadersAreLoud' BY <1>1 DEF LeadersAreLoud
<1>5. InSuccession' BY <1>1, NobodyAssumption DEF InSuccession, Succeeds, Remaining
<1> QED BY <1>3, <1>4, <1>5

\* Time passes for the handler that has to find out and for the one that is
\* quiet meanwhile.
LEMMA PassFarm == ASSUME FarmInv, Pass PROVE FarmInv'
<1> USE DEF FarmInv
<1>1. /\ phase' = phase /\ incumbent' = incumbent /\ conn' = conn /\ lock' = lock /\ lead' = lead
      /\ led' = led /\ faults' = faults
      /\ tick' = [c \in Candidates |-> Down(tick[c])]
      /\ ping' = [c \in Candidates |-> Down(ping[c])]
      /\ quiet' = [c \in Candidates |-> Down(quiet[c])]
      /\ grace' = Down(grace)
      /\ \A c \in Candidates :
            /\ ~(phase[c] = "loop" /\ conn[c])
            /\ ~(phase[c] = "ping" /\ ping[c] = 0)
            /\ ~(phase[c] = "wait" /\ tick[c] = 0)
  BY DEF Pass
<1>2. \A n \in Nat : \A m \in 0..n : Down(m) \in 0..n BY DEF Down
<1>3. FarmTypeOK'
  <2>1. /\ tick' \in [Candidates -> 0..Heartbeat] /\ ping' \in [Candidates -> 0..PingTimeout]
        /\ quiet' \in [Candidates -> 0..(Heartbeat + PingTimeout)] /\ grace' \in 0..Grace
    <3>1. Heartbeat \in Nat /\ PingTimeout \in Nat /\ Heartbeat + PingTimeout \in Nat /\ Grace \in Nat
      BY TimingAssumption
    <3> QED BY <1>1, <1>2, <3>1 DEF FarmTypeOK
  <2> QED BY <1>1, <2>1 DEF FarmTypeOK
<1>4. LeadersAreLoud'
  <2>1. Down(0) = 0 BY DEF Down
  <2> QED BY <1>1, <2>1 DEF LeadersAreLoud
<1>5. ASSUME NEW c \in Candidates, NEW d \in Candidates, conn[c], Succeeds(d, c) PROVE Succeeds(d, c)'
  <2>1. /\ tick[c] \in Nat /\ ping[c] \in Nat /\ quiet[d] \in Nat /\ PingTimeout \in Nat
        /\ tick'[c] = Down(tick[c]) /\ ping'[c] = Down(ping[c]) /\ quiet'[d] = Down(quiet[d])
    BY <1>1, TimingAssumption DEF FarmTypeOK
  <2>2. \/ phase[c] = "ping" /\ ping[c] > 0
        \/ phase[c] = "wait" /\ tick[c] > 0
    <3>1. phase[c] \in {"ping", "wait"} BY <1>1, <1>5 DEF FarmTypeOK, Phases, LeadersAreLoud
    <3>2. phase[c] = "ping" => ping[c] # 0 BY <1>1
    <3>3. phase[c] = "wait" => tick[c] # 0 BY <1>1
    <3>4. \A m \in Nat : m # 0 => m > 0 OBVIOUS
    <3>5. (ping[c] # 0 => ping[c] > 0) /\ (tick[c] # 0 => tick[c] > 0) BY <2>1, <3>4
    <3>6. CASE phase[c] = "ping" BY <3>2, <3>5, <3>6
    <3>7. CASE phase[c] = "wait" BY <3>3, <3>5, <3>7
    <3> QED BY <3>1, <3>6, <3>7
  <2>3. Remaining(c)' <= quiet'[d] BY <1>1, <1>5, <2>1, <2>2 DEF Remaining, Succeeds, Down
  <2> QED BY <1>1, <1>5, <2>3 DEF Succeeds
<1>6. InSuccession' BY <1>1, <1>5 DEF InSuccession
<1> QED BY <1>3, <1>4, <1>6

LEMMA FarmStepInv == FarmInv /\ [FarmNext]_farmVars => FarmInv'
<1> SUFFICES ASSUME FarmInv, [FarmNext]_farmVars PROVE FarmInv' OBVIOUS
<1>0. /\ grace \in 0..Grace /\ faults \in 0..MaxFaults /\ Grace \in 0..Grace
      /\ faults < MaxFaults => faults + 1 \in 0..MaxFaults
  BY TimingAssumption DEF FarmInv, FarmTypeOK
<1>1. ASSUME NEW c \in Candidates, Step(c) PROVE FarmInv'
  <2>1. CASE PingFails(c) BY <1>0, <2>1, StreamsEnd DEF PingFails
  <2> QED BY <1>1, <2>1, OpenFarm, TryLeadFarm, StartPingFarm, PingAnsweredFarm, BeatFarm DEF Step
<1>2. ASSUME NEW c \in Candidates, StreamBreaks(c) PROVE FarmInv'
  BY <1>0, <1>2, StreamsEnd DEF StreamBreaks, Fault
<1>3. CASE Restart BY <1>0, <1>3, StreamsEnd DEF Restart, Fault
<1>4. CASE ConnectionDies \/ LockExpires BY <1>4, LockGoes
<1>5. CASE Pass BY <1>5, PassFarm
<1>6. CASE UNCHANGED farmVars
  BY <1>6 DEF farmVars, FarmInv, FarmTypeOK, LeadersAreLoud, InSuccession, Succeeds, Remaining
<1> QED BY <1>1, <1>2, <1>3, <1>4, <1>5, <1>6 DEF FarmNext

\* The streams of any number of candidates, however often connections die,
\* streams break and the server restarts.
THEOREM FarmInvariant == FarmSpec => []FarmInv
BY FarmInitInv, FarmStepInv, PTL DEF FarmSpec

\* announceDelay is enough for every heartbeat and ping timeout: no time
\* passes with two leaders neither of which came in as an incumbent.
THEOREM OverlapNeedsIncumbentAlways == FarmSpec => OverlapNeedsIncumbent
<1>1. ASSUME FarmInv, Pass, NEW c \in Leaders, NEW d \in Leaders, c # d, ~incumbent[c], ~incumbent[d]
      PROVE  FALSE
  <2>1. /\ c \in Candidates /\ d \in Candidates /\ conn[c] /\ conn[d] /\ quiet[c] = 0 /\ quiet[d] = 0
    BY <1>1 DEF Leaders, FarmInv, LeadersAreLoud
  <2>2. PICK x \in {c, d}, y \in {c, d} : Succeeds(x, y)
    BY <1>1, <2>1 DEF FarmInv, InSuccession
  <2>3. /\ Remaining(y) <= 0 /\ tick[y] \in Nat /\ ping[y] \in Nat /\ PingTimeout \in Nat \ {0}
    BY <1>1, <2>1, <2>2, TimingAssumption DEF Succeeds, FarmInv, FarmTypeOK
  <2>4. phase[y] = "ping" /\ ping[y] = 0 BY <2>3 DEF Remaining
  <2> QED BY <1>1, <2>1, <2>4 DEF Pass
<1>2. FarmInv /\ [FarmNext]_farmVars
        => [Pass => \A c, d \in Leaders : c = d \/ incumbent[c] \/ incumbent[d]]_farmVars
  BY <1>1
<1> QED BY <1>2, FarmInvariant, PTL DEF FarmSpec, OverlapNeedsIncumbent
=============================================================================
