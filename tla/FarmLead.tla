------------------------------ MODULE FarmLead ------------------------------
(***************************************************************************)
(* Election of the build farm's scheduler (server/farm.go). Each candidate *)
(* keeps one stream to LeadHandler open; the handler that holds a session  *)
(* advisory lock on its own PostgreSQL connection tells its candidate that *)
(* it leads.                                                               *)
(*                                                                         *)
(* Time is discrete and every timer counts down to zero. The handler is    *)
(* prompt: no time passes between a timer that fires and the step that     *)
(* waits for it. Candidates are external; they reconnect as api.LeadRequest *)
(* says, as incumbent if they led when their previous stream broke.        *)
(***************************************************************************)
EXTENDS Naturals, FiniteSets

CONSTANTS
    Candidates,
    Nobody,        \* nobody holds the lock
    Heartbeat,     \* leadHeartbeat
    PingTimeout,   \* leadPingTimeout()
    Grace,         \* incumbentGrace
    MaxFaults      \* bound on connection losses, broken streams and restarts

ASSUME TimingAssumption ==
    /\ Heartbeat \in Nat \ {0} /\ PingTimeout \in Nat \ {0} /\ Grace \in Nat
    /\ PingTimeout <= Heartbeat
    /\ MaxFaults \in Nat

ASSUME NobodyAssumption == Nobody \notin Candidates

VARIABLES
    phase,      \* where the handler of a candidate's stream is
    incumbent,  \* req.Incumbent of the stream
    conn,       \* the handler has a lock connection (conn # nil)
    lock,       \* whose connection holds the advisory lock in PostgreSQL
    quiet,      \* time left until announceAt
    tick,       \* time left until the ticker fires
    ping,       \* time left until the running ping is given up
    lead,       \* what the candidate was told last
    led,        \* the candidate led when its previous stream broke
    grace,      \* time left in which non-incumbents hold back
    faults      \* failures so far

farmVars == <<phase, incumbent, conn, lock, quiet, tick, ping, lead, led, grace, faults>>

Phases == {"closed", "loop", "ping", "wait"}

FarmTypeOK ==
    /\ phase \in [Candidates -> Phases]
    /\ incumbent \in [Candidates -> BOOLEAN]
    /\ conn \in [Candidates -> BOOLEAN]
    /\ lock \in Candidates \cup {Nobody}
    /\ quiet \in [Candidates -> 0..(Heartbeat + PingTimeout)]
    /\ tick \in [Candidates -> 0..Heartbeat]
    /\ ping \in [Candidates -> 0..PingTimeout]
    /\ lead \in [Candidates -> BOOLEAN]
    /\ led \in [Candidates -> BOOLEAN]
    /\ grace \in 0..Grace
    /\ faults \in 0..MaxFaults

FarmInit ==
    /\ phase = [c \in Candidates |-> "closed"]
    /\ incumbent = [c \in Candidates |-> FALSE]
    /\ conn = [c \in Candidates |-> FALSE]
    /\ lock = Nobody
    /\ quiet = [c \in Candidates |-> 0]
    /\ tick = [c \in Candidates |-> 0]
    /\ ping = [c \in Candidates |-> 0]
    /\ lead = [c \in Candidates |-> FALSE]
    /\ led = [c \in Candidates |-> FALSE]
    /\ grace = Grace
    /\ faults = 0

\* Mutant: the ping that finds a dead connection is not accounted for.
AnnounceDelayWithoutPing(inc) == IF inc THEN 0 ELSE Heartbeat

AnnounceDelay(inc) == IF inc THEN 0 ELSE Heartbeat + PingTimeout

\* A candidate opens its stream; the ticker starts with the handler.
Open(c) ==
    /\ phase[c] = "closed"
    /\ phase' = [phase EXCEPT ![c] = "loop"]
    /\ incumbent' = [incumbent EXCEPT ![c] = led[c]]
    /\ tick' = [tick EXCEPT ![c] = Heartbeat]
    /\ UNCHANGED <<conn, lock, quiet, ping, lead, led, grace, faults>>

\* One round of the loop without the lock: hold back or try to take it.
TryLead(c) ==
    /\ phase[c] = "loop" /\ ~conn[c]
    /\ IF lock = Nobody /\ (incumbent[c] \/ grace = 0)
       THEN /\ lock' = c
            /\ conn' = [conn EXCEPT ![c] = TRUE]
            /\ quiet' = [quiet EXCEPT ![c] = AnnounceDelay(incumbent[c])]
       ELSE UNCHANGED <<lock, conn, quiet>>
    /\ lead' = [lead EXCEPT ![c] = conn'[c] /\ quiet'[c] = 0]
    /\ phase' = [phase EXCEPT ![c] = "wait"]
    /\ UNCHANGED <<incumbent, tick, ping, led, grace, faults>>

\* One round with the lock: ping its connection ...
StartPing(c) ==
    /\ phase[c] = "loop" /\ conn[c]
    /\ ping' = [ping EXCEPT ![c] = PingTimeout]
    /\ phase' = [phase EXCEPT ![c] = "ping"]
    /\ UNCHANGED <<incumbent, conn, lock, quiet, tick, lead, led, grace, faults>>

\* ... and announce what the answer allows.
PingAnswered(c) ==
    /\ phase[c] = "ping"
    /\ lock = c
    /\ lead' = [lead EXCEPT ![c] = quiet[c] = 0]
    /\ phase' = [phase EXCEPT ![c] = "wait"]
    /\ UNCHANGED <<incumbent, conn, lock, quiet, tick, ping, led, grace, faults>>

Beat(c) ==
    /\ phase[c] = "wait"
    /\ tick[c] = 0
    /\ tick' = [tick EXCEPT ![c] = Heartbeat]
    /\ phase' = [phase EXCEPT ![c] = "loop"]
    /\ UNCHANGED <<incumbent, conn, lock, quiet, ping, lead, led, grace, faults>>

\* Mutant: the connection goes back to the pool and keeps its session lock.
CloseToPool(C) ==
    /\ phase' = [c \in Candidates |-> IF c \in C THEN "closed" ELSE phase[c]]
    /\ conn' = [c \in Candidates |-> conn[c] /\ c \notin C]
    /\ lead' = [c \in Candidates |-> lead[c] /\ c \notin C]
    /\ led' = [c \in Candidates |-> IF c \in C THEN lead[c] ELSE led[c]]
    /\ quiet' = [c \in Candidates |-> IF c \in C THEN 0 ELSE quiet[c]]
    /\ tick' = [c \in Candidates |-> IF c \in C THEN 0 ELSE tick[c]]
    /\ ping' = [c \in Candidates |-> IF c \in C THEN 0 ELSE ping[c]]
    /\ lock' = IF lock \in C /\ conn[lock] THEN "pool" ELSE lock
    /\ UNCHANGED incumbent

\* The handlers of C return and close their lock connections. PostgreSQL
\* frees the lock with the connection, or later when it has not noticed yet.
Close(C) ==
    /\ phase' = [c \in Candidates |-> IF c \in C THEN "closed" ELSE phase[c]]
    /\ conn' = [c \in Candidates |-> conn[c] /\ c \notin C]
    /\ lead' = [c \in Candidates |-> lead[c] /\ c \notin C]
    /\ led' = [c \in Candidates |-> IF c \in C THEN lead[c] ELSE led[c]]
    /\ quiet' = [c \in Candidates |-> IF c \in C THEN 0 ELSE quiet[c]]
    /\ tick' = [c \in Candidates |-> IF c \in C THEN 0 ELSE tick[c]]
    /\ ping' = [c \in Candidates |-> IF c \in C THEN 0 ELSE ping[c]]
    /\ lock' \in {lock, IF lock \in C THEN Nobody ELSE lock}
    /\ UNCHANGED incumbent

\* The ping of a dead connection fails, at the latest when its time is up.
PingFails(c) ==
    /\ phase[c] = "ping"
    /\ lock # c
    /\ Close({c})
    /\ UNCHANGED <<grace, faults>>

Fault ==
    /\ faults < MaxFaults
    /\ faults' = faults + 1

\* The candidate hangs up, a write or a query fails, or a ping is too slow.
StreamBreaks(c) ==
    /\ phase[c] # "closed"
    /\ Fault
    /\ Close({c})
    /\ UNCHANGED grace

\* The server process stops, which ends every stream, and starts again.
Restart ==
    /\ Fault
    /\ Close({c \in Candidates : phase[c] # "closed"})
    /\ grace' = Grace

\* The lock connection dies and PostgreSQL notices; the handler does not.
ConnectionDies ==
    /\ lock \in Candidates
    /\ conn[lock]
    /\ Fault
    /\ lock' = Nobody
    /\ UNCHANGED <<phase, incumbent, conn, quiet, tick, ping, lead, led, grace>>

\* PostgreSQL notices that the connection of a closed stream is gone.
LockExpires ==
    /\ lock \in Candidates /\ ~conn[lock]
    /\ lock' = Nobody
    /\ UNCHANGED <<phase, incumbent, conn, quiet, tick, ping, lead, led, grace, faults>>

Down(n) == IF n > 0 THEN n - 1 ELSE 0

\* Time passes unless a timer has fired or a lock holder is about to ping.
\* Waiting for a pooled connection in tryLead may take any time.
Pass ==
    /\ \A c \in Candidates :
          /\ ~(phase[c] = "loop" /\ conn[c])
          /\ ~(phase[c] = "ping" /\ ping[c] = 0)
          /\ ~(phase[c] = "wait" /\ tick[c] = 0)
    /\ tick' = [c \in Candidates |-> Down(tick[c])]
    /\ ping' = [c \in Candidates |-> Down(ping[c])]
    /\ quiet' = [c \in Candidates |-> Down(quiet[c])]
    /\ grace' = Down(grace)
    /\ UNCHANGED <<phase, incumbent, conn, lock, lead, led, faults>>

Step(c) ==
    \/ Open(c)
    \/ TryLead(c)
    \/ StartPing(c)
    \/ PingAnswered(c)
    \/ PingFails(c)
    \/ Beat(c)

FarmNext ==
    \/ \E c \in Candidates : Step(c) \/ StreamBreaks(c)
    \/ Restart
    \/ ConnectionDies
    \/ LockExpires
    \/ Pass

FarmSpec == FarmInit /\ [][FarmNext]_farmVars

\* Candidates reconnect, handlers run, time passes, PostgreSQL notices.
FarmFairness ==
    /\ \A c \in Candidates : WF_farmVars(Step(c))
    /\ WF_farmVars(Pass)
    /\ WF_farmVars(LockExpires)

FarmFairSpec == FarmSpec /\ FarmFairness

-----------------------------------------------------------------------------

Leaders == {c \in Candidates : lead[c]}

\* Time passes with two leaders only if one of them got the role as
\* incumbent: anyone else stays quiet (announceDelay) until a leader whose
\* connection died unnoticed has found out and ended its stream.
OverlapNeedsIncumbent ==
    [][Pass => \A c, d \in Leaders : c = d \/ incumbent[c] \/ incumbent[d]]_farmVars

\* Once failures stop, the farm gets a leader and keeps one: locks of dead
\* connections are freed, and holding back ends.
FarmGetsLeader == <>[](Leaders # {})
=============================================================================
