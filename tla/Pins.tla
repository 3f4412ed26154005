-------------------------------- MODULE Pins --------------------------------
(***************************************************************************)
(* What keeps a closure from expiring: pins (server/pins.go), being pushed *)
(* again, and being reported as present (server/present.go), against the   *)
(* transaction of a collection that deletes old closures                   *)
(* (server/closure_model.go). A pin is a row and an object in the bucket.  *)
(*                                                                         *)
(* A closure is young or old with respect to the collection's cutoff,      *)
(* which is more than the ten minutes TouchPresentClosures tolerates.      *)
(***************************************************************************)
EXTENDS Naturals, FiniteSets

CONSTANTS
    Keys,      \* narinfo keys of closures
    Names,     \* names of pins
    Requests,  \* pin requests, one handler run each
    None

ASSUME NoneAssumption == None \notin Keys \cup Names

VARIABLES
    closures,  \* closures[k]: no row, or its age
    pins,      \* the pins table
    object,    \* the objects pins/<name> in the bucket
    pc,        \* where the handler of a request is
    name,      \* the pin it is about
    key,       \* the closure it pins
    gcpc,      \* where deleteClosuresBefore is
    found,     \* old closures without a pin, on the snapshot of the query
    locked,    \* closures locked FOR UPDATE
    reported   \* history: closures reported as present that have not aged since

vars == <<closures, pins, object, pc, name, key, gcpc, found, locked, reported>>
requestVars == <<pc, name, key>>
gcVars == <<gcpc, found, locked>>

TypeOK ==
    /\ closures \in [Keys -> {"none", "young", "old"}]
    /\ pins \in [Names -> Keys \cup {None}]
    /\ object \in [Names -> Keys \cup {None}]
    /\ pc \in [Requests -> {"idle", "checked", "stored", "unpinned", "done"}]
    /\ name \in [Requests -> Names \cup {None}]
    /\ key \in [Requests -> Keys \cup {None}]
    /\ gcpc \in {"idle", "query", "delete"}
    /\ found \subseteq Keys /\ reported \subseteq Keys
    /\ locked \subseteq {k \in Keys : closures[k] = "old"}

Init ==
    /\ closures = [k \in Keys |-> "none"]
    /\ pins = [n \in Names |-> None]
    /\ object = [n \in Names |-> None]
    /\ pc = [r \in Requests |-> "idle"]
    /\ name = [r \in Requests |-> None]
    /\ key = [r \in Requests |-> None]
    /\ gcpc = "idle" /\ found = {} /\ locked = {} /\ reported = {}

Pinned == {pins[n] : n \in Names} \ {None}

\* Closures that a pin transaction holds FOR SHARE.
Shared == {key[r] : r \in {x \in Requests : pc[x] \in {"checked", "stored"}}}

-----------------------------------------------------------------------------

\* commit_pending_closure inserts the closure or makes it young again.
Push(k) ==
    /\ k \notin locked \cup Shared
    /\ closures' = [closures EXCEPT ![k] = "young"]
    /\ UNCHANGED <<pins, object, requestVars, gcVars, reported>>

Age(k) ==
    /\ closures[k] = "young"
    /\ closures' = [closures EXCEPT ![k] = "old"]
    /\ reported' = reported \ {k}
    /\ UNCHANGED <<pins, object, requestVars, gcVars>>

\* Mutant: the closure is reported, but keeps its age.
PresentWithoutTouch(k) ==
    /\ closures[k] # "none" /\ k \notin locked \cup Shared
    /\ reported' = reported \cup {k}
    /\ UNCHANGED <<closures, pins, object, requestVars, gcVars>>

\* TouchPresentClosures, for a closure that exists: its row lock waits for
\* the collection and for pin transactions.
Present(k) ==
    /\ closures[k] # "none" /\ k \notin locked \cup Shared
    /\ closures' = [closures EXCEPT ![k] = "young"]
    /\ reported' = reported \cup {k}
    /\ UNCHANGED <<pins, object, requestVars, gcVars>>

-----------------------------------------------------------------------------
(***************************************************************************)
(* CreatePinHandler and DeletePinHandler.                                  *)
(***************************************************************************)

\* GetClosureForShare waits for a collection that has the row locked. The
\* request ends here when there is no such closure.
PinCheck(r, n, k) ==
    /\ pc[r] = "idle"
    /\ k \notin locked
    /\ name' = [name EXCEPT ![r] = n]
    /\ key' = [key EXCEPT ![r] = k]
    /\ pc' = [pc EXCEPT ![r] = IF closures[k] = "none" THEN "done" ELSE "checked"]
    /\ UNCHANGED <<closures, pins, object, gcVars, reported>>

\* The object is written before the transaction goes on.
PinPut(r) ==
    /\ pc[r] = "checked"
    /\ object' = [object EXCEPT ![name[r]] = key[r]]
    /\ pc' = [pc EXCEPT ![r] = "stored"]
    /\ UNCHANGED <<closures, pins, name, key, gcVars, reported>>

\* UpsertPin and the commit.
PinCommit(r) ==
    /\ pc[r] = "stored"
    /\ pins' = [pins EXCEPT ![name[r]] = key[r]]
    /\ pc' = [pc EXCEPT ![r] = "done"]
    /\ UNCHANGED <<closures, object, name, key, gcVars, reported>>

\* The PUT, the upsert or the commit fails and the transaction rolls back.
PinFails(r) ==
    /\ pc[r] \in {"checked", "stored"}
    /\ pc' = [pc EXCEPT ![r] = "done"]
    /\ UNCHANGED <<closures, pins, object, name, key, gcVars, reported>>

\* DeletePin first deletes the row ...
Unpin(r, n) ==
    /\ pc[r] = "idle"
    /\ pins[n] # None
    /\ pins' = [pins EXCEPT ![n] = None]
    /\ name' = [name EXCEPT ![r] = n]
    /\ pc' = [pc EXCEPT ![r] = "unpinned"]
    /\ UNCHANGED <<closures, object, key, gcVars, reported>>

\* ... and then the object; a failure is only logged.
UnpinObject(r) ==
    /\ pc[r] = "unpinned"
    /\ object' \in {object, [object EXCEPT ![name[r]] = None]}
    /\ pc' = [pc EXCEPT ![r] = "done"]
    /\ UNCHANGED <<closures, pins, name, key, gcVars, reported>>

-----------------------------------------------------------------------------
(***************************************************************************)
(* deleteClosuresBefore.                                                   *)
(***************************************************************************)

\* LockOldClosures takes its snapshot ...
GCQuery ==
    /\ gcpc = "idle"
    /\ found' = {k \in Keys : closures[k] = "old"} \ Pinned
    /\ gcpc' = "query"
    /\ UNCHANGED <<closures, pins, object, requestVars, locked, reported>>

\* ... and locks what is still old, skipping rows that pin requests hold. A
\* pin that committed since the snapshot is not seen.
GCLock ==
    /\ gcpc = "query"
    /\ locked' = {k \in found \ Shared : closures[k] = "old"}
    /\ found' = {}
    /\ gcpc' = "delete"
    /\ UNCHANGED <<closures, pins, object, requestVars, reported>>

\* Mutant: all locked closures are deleted.
GCDeleteLocked ==
    /\ gcpc = "delete"
    /\ closures' = [k \in Keys |-> IF k \in locked THEN "none" ELSE closures[k]]
    /\ locked' = {}
    /\ gcpc' = "idle"
    /\ UNCHANGED <<pins, object, requestVars, found, reported>>

\* DeleteUnpinnedClosures, on a snapshot of its own, and the commit.
GCDelete ==
    /\ gcpc = "delete"
    /\ closures' = [k \in Keys |-> IF k \in locked \ Pinned THEN "none" ELSE closures[k]]
    /\ locked' = {}
    /\ gcpc' = "idle"
    /\ UNCHANGED <<pins, object, requestVars, found, reported>>

GCFails ==
    /\ gcpc # "idle"
    /\ gcpc' = "idle" /\ found' = {} /\ locked' = {}
    /\ UNCHANGED <<closures, pins, object, requestVars, reported>>

Next ==
    \/ \E k \in Keys : Push(k) \/ Age(k) \/ Present(k)
    \/ \E r \in Requests, n \in Names : Unpin(r, n) \/ \E k \in Keys : PinCheck(r, n, k)
    \/ \E r \in Requests : PinPut(r) \/ PinCommit(r) \/ PinFails(r) \/ UnpinObject(r)
    \/ GCQuery \/ GCLock \/ GCDelete \/ GCFails

Spec == Init /\ [][Next]_vars

-----------------------------------------------------------------------------

\* A pin protects its closure: however pin requests and collections
\* interleave, the closure of a pin exists. (The foreign key would turn a
\* violation into an error of the collection.)
PinnedStays == \A k \in Pinned : closures[k] # "none"

\* A closure that was reported as present, so that a client did not push it,
\* survives every collection until it has aged past the cutoff again.
PresentSurvives == \A k \in reported : closures[k] # "none"
=============================================================================
