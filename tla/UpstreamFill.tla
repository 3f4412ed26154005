---------------------------- MODULE UpstreamFill ----------------------------
(***************************************************************************)
(* Filling a miss from upstream caches (server/upstream.go), for one store *)
(* path: its narinfo and its NAR. Replicas fill on behalf of readers, one  *)
(* fill at a time each, while a client may push the same path. Garbage     *)
(* collection is left to PushGC: a fill is a push of that one path there.  *)
(* How a request comes to a fill and goes on after it is ReadProxy's.      *)
(***************************************************************************)
EXTENDS Naturals, FiniteSets

CONSTANTS
    Replicas,
    Upstreams,  \* number of upstreams; they are tried in order
    Have,       \* upstreams that have a validly signed narinfo of the path
    Wrong,      \* upstreams that may serve a NAR that does not match it
    ClientPush  \* whether a client pushes the path as well

ASSUME UpstreamsAssumption ==
    /\ Upstreams \in Nat
    /\ Have \subseteq 1..Upstreams /\ Wrong \subseteq Have
    /\ ClientPush \in BOOLEAN

VARIABLES
    nar,      \* the NAR in the bucket: absent, or whether it matches NarHash
    narinfo,  \* the narinfo is in the bucket
    live,     \* the NAR has a live row
    miss,     \* replicas that remember the path as a miss
    pc,       \* where the fill of a replica is
    at,       \* the upstream it is trying
    copied,   \* what its download put into the bucket
    push,     \* how far the client's push has come
    spoilt    \* history: a fill took a NAR away that matched

fillVars == <<nar, narinfo, live, miss, pc, at, copied, push, spoilt>>
bucket == <<nar, narinfo>>

FillInit ==
    /\ nar = "absent" /\ narinfo = FALSE /\ live = FALSE
    /\ miss = {}
    /\ pc = [r \in Replicas |-> "idle"]
    /\ at = [r \in Replicas |-> 1]
    /\ copied = [r \in Replicas |-> "absent"]
    /\ push = "idle"
    /\ spoilt = FALSE

Goto(r, state) == pc' = [pc EXCEPT ![r] = state]

\* The fill is over, and its locals with it.
Done(r) ==
    /\ Goto(r, "idle")
    /\ at' = [at EXCEPT ![r] = 1]
    /\ copied' = [copied EXCEPT ![r] = "absent"]

\* fillOnce, for any reader that did not find the narinfo, maybe some time
\* ago: a remembered miss is not tried again.
Begin(r) ==
    /\ pc[r] = "idle"
    /\ IF r \in miss THEN UNCHANGED pc ELSE Goto(r, "fetch")
    /\ UNCHANGED <<bucket, live, miss, at, copied, push, spoilt>>

\* fetchUpstreamNarinfo: an upstream that has the path can still fail to
\* answer; a miss, an error and a refused narinfo all lead to the next one.
Fetch(r) ==
    /\ pc[r] = "fetch" /\ at[r] <= Upstreams
    /\ \/ at[r] \in Have /\ Goto(r, "create") /\ UNCHANGED at
       \/ at' = [at EXCEPT ![r] = @ + 1] /\ UNCHANGED pc
    /\ UNCHANGED <<bucket, live, miss, copied, push, spoilt>>

\* No upstream is left: the path is remembered as a miss.
RecordMiss(r) ==
    /\ pc[r] = "fetch" /\ at[r] > Upstreams
    /\ miss' = miss \cup {r}
    /\ Done(r)
    /\ UNCHANGED <<bucket, live, push, spoilt>>

MissExpires(r) ==
    /\ r \in miss
    /\ miss' = miss \ {r}
    /\ UNCHANGED <<bucket, live, pc, at, copied, push, spoilt>>

\* Mutant: a NAR in the bucket is not copied again, whoever put it there.
CreateTrusting(r) ==
    /\ pc[r] = "create"
    /\ Goto(r, IF nar # "absent" THEN "sign" ELSE "copy")
    /\ UNCHANGED <<bucket, live, miss, at, copied, push, spoilt>>

\* storeUpstreamPath: createPendingClosureInner with verify_s3; the NAR is
\* copied only if it is not live or not in the bucket.
Create(r) ==
    /\ pc[r] = "create"
    /\ Goto(r, IF live /\ nar # "absent" THEN "sign" ELSE "copy")
    /\ UNCHANGED <<bucket, live, miss, at, copied, push, spoilt>>

\* copyUpstreamNar: the download goes to the bucket while it is checked.
Copy(r) ==
    /\ pc[r] = "copy"
    /\ \E content \in IF at[r] \in Wrong THEN {"good", "bad"} ELSE {"good"} :
          /\ nar' = content
          /\ copied' = [copied EXCEPT ![r] = content]
    /\ spoilt' = (spoilt \/ (nar = "good" /\ nar' # "good"))
    /\ Goto(r, "verify")
    /\ UNCHANGED <<narinfo, live, miss, at, push>>

\* Mutant: the upload is trusted.
VerifyNothing(r) ==
    /\ pc[r] = "verify"
    /\ Goto(r, "sign")
    /\ UNCHANGED <<bucket, live, miss, at, copied, push, spoilt>>

\* A NAR that does not match is removed again, unless that fails.
Verify(r) ==
    /\ pc[r] = "verify"
    /\ IF copied[r] = "good"
       THEN Goto(r, "sign") /\ UNCHANGED <<nar, at, copied>>
       ELSE Done(r) /\ nar' \in {"absent", nar}
    /\ spoilt' = (spoilt \/ (nar = "good" /\ nar' # "good"))
    /\ UNCHANGED <<narinfo, live, miss, push>>

\* The narinfo is re-signed and stored ...
SignAndPut(r) ==
    /\ pc[r] = "sign"
    /\ narinfo' = TRUE
    /\ Goto(r, "commit")
    /\ UNCHANGED <<nar, live, miss, at, copied, push, spoilt>>

\* ... and the pending closure committed.
Commit(r) ==
    /\ pc[r] = "commit"
    /\ live' = TRUE
    /\ Done(r)
    /\ UNCHANGED <<bucket, miss, push, spoilt>>

\* Any step fails or the fill times out. An upload that was cut short
\* leaves no object; its pending rows stay for the cleanup.
FillFails(r) ==
    /\ pc[r] \in {"create", "copy", "sign", "commit"}
    /\ Done(r)
    /\ UNCHANGED <<bucket, live, miss, push, spoilt>>

\* A client pushes the path: NAR, registration, narinfo, completion.
PushStart ==
    /\ ClientPush /\ push = "idle"
    /\ push' = IF live THEN "registered" ELSE "open"
    /\ UNCHANGED <<bucket, live, miss, pc, at, copied, spoilt>>

PushNar ==
    /\ push = "open"
    /\ nar' = "good"
    /\ push' = "put"
    /\ UNCHANGED <<narinfo, live, miss, pc, at, copied, spoilt>>

PushRegister ==
    /\ push = "put"
    /\ live' = (live \/ nar # "absent")
    /\ push' = "registered"
    /\ UNCHANGED <<bucket, miss, pc, at, copied, spoilt>>

PushNarinfo ==
    /\ push = "registered"
    /\ narinfo' = TRUE
    /\ live' = TRUE
    /\ push' = "done"
    /\ UNCHANGED <<nar, miss, pc, at, copied, spoilt>>

\* The steps of a fill that is under way.
Progress(r) ==
    \/ Fetch(r) \/ RecordMiss(r) \/ Create(r) \/ Copy(r) \/ Verify(r) \/ SignAndPut(r) \/ Commit(r)

Fill(r) == Begin(r) \/ Progress(r) \/ FillFails(r) \/ MissExpires(r)

Push == PushStart \/ PushNar \/ PushRegister \/ PushNarinfo

-----------------------------------------------------------------------------

\* Whoever finds the narinfo finds the NAR it describes: fills check the NAR
\* before they store the narinfo, also when upstreams serve wrong NARs whose
\* removal fails, and when replicas and a client work on the path at once.
\* The exception is a NAR that a fill with a wrong download overwrote or
\* removed though another fill or the client had put a good one there.
NarinfoHasNar == narinfo => nar = "good" \/ spoilt
=============================================================================
