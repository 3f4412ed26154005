----------------------------- MODULE ReadProxy -----------------------------
(***************************************************************************)
(* Reading through the server (server/proxy.go): a reader asks any replica *)
(* for the narinfo or the NAR of the path of UpstreamFill. A request for a *)
(* narinfo that is missing joins or starts a fill and goes on when it      *)
(* ends; then the object is looked up (Stat) and fetched (GET), two calls  *)
(* to S3 between which fills and pushes go on. Other readers only ask for  *)
(* fills. The limiter decides how long a request waits.                    *)
(***************************************************************************)
EXTENDS UpstreamFill

CONSTANT Redirects  \* replicas with ReadRedirectTTL: they send readers to S3

ASSUME RedirectsAssumption == Redirects \subseteq Replicas

VARIABLES
    reader,   \* the reader's request: the replica, the object, how far it is,
              \* and (history) whether the narinfo was stored when it came
    answer,   \* the last answer if it was a 200 or a 404, and the 200's body
    informed  \* the reader has the narinfo

vars == <<fillVars, reader, answer, informed>>

Objects   == {"narinfo", "nar"}
NoAnswer  == [status |-> "none", of |-> "nar", body |-> "none", there |-> FALSE]
Idle      == [at |-> CHOOSE r \in Replicas : TRUE, of |-> "nar", pc |-> "idle", there |-> FALSE]

InBucket(o) == IF o = "nar" THEN nar ELSE IF narinfo THEN "good" ELSE "absent"

Init ==
    /\ FillInit
    /\ reader = Idle
    /\ answer = NoAnswer
    /\ informed = FALSE

Moves(from, to) == reader.pc = from /\ reader' = [reader EXCEPT !.pc = to] /\ UNCHANGED <<answer, informed>>

\* The reader is told that there is no such object, or gets it; the narinfo
\* informs it.
Tells(status, body) ==
    /\ reader' = Idle
    /\ answer' = [status |-> status, of |-> reader.of, body |-> body, there |-> reader.there]
    /\ informed' = (informed \/ (status = "ok" /\ reader.of = "narinfo"))

\* The request ends in another way.
Dismissed == reader' = Idle /\ answer' = NoAnswer /\ UNCHANGED informed

-----------------------------------------------------------------------------
\* ReadProxyHandler: a NAR may be redirected, all else waits for the limiter.
Request(r, o) ==
    /\ reader.pc = "idle"
    /\ reader' = [at |-> r, of |-> o, there |-> narinfo,
                  pc |-> IF o = "nar" /\ r \in Redirects THEN "redirected" ELSE "limit"]
    /\ answer' = NoAnswer
    /\ UNCHANGED <<fillVars, informed>>

\* Mutant: a remembered miss is the answer.
AdmitTrustsMiss ==
    /\ \/ reader.of = "narinfo" /\ reader.at \notin miss /\ Moves("limit", "exists")
       \/ reader.pc = "limit" /\ reader.at \in miss /\ Tells("missing", "none")
       \/ Moves("limit", "stat")
    /\ UNCHANGED fillVars

\* Only readers that may fill look whether the narinfo is missing.
Admit ==
    /\ \/ reader.of = "narinfo" /\ Moves("limit", "exists")
       \/ Moves("limit", "stat")
    /\ UNCHANGED fillVars

\* fillFromUpstream: an S3 error is logged and the request goes on.
Exists ==
    /\ \/ ~narinfo /\ Moves("exists", "fill")
       \/ Moves("exists", "stat")
    /\ UNCHANGED fillVars

\* The request joins the fill that is under way, or starts one.
Join ==
    /\ pc[reader.at] # "idle"
    /\ Moves("fill", "joined")
    /\ UNCHANGED fillVars

\* Mutant: a remembered miss does not let its readers go.
StartMissWaits ==
    /\ Begin(reader.at)
    /\ Moves("fill", "joined")

Start ==
    /\ Begin(reader.at)
    /\ Moves("fill", IF reader.at \in miss THEN "stat" ELSE "joined")

\* A fill that ends, well or not, lets the requests go that joined it.
Releases(r) ==
    /\ reader' = IF reader.pc = "joined" /\ reader.at = r /\ pc[r] # "idle" /\ pc'[r] = "idle"
                 THEN [reader EXCEPT !.pc = "stat"] ELSE reader
    /\ UNCHANGED <<answer, informed>>

\* S3 fails or throttles: 502 or 429.
S3Fails ==
    /\ reader.pc \in {"stat", "get", "redirected"}
    /\ Dismissed
    /\ UNCHANGED fillVars

\* handleProxyHead, or the first half of handleProxyGet: a HEAD, an object
\* that is not modified and an unsatisfiable range need no GET.
Stat ==
    /\ reader.pc = "stat"
    /\ IF InBucket(reader.of) = "absent" THEN Tells("missing", "none")
       ELSE Moves("stat", "get") \/ Dismissed
    /\ UNCHANGED fillVars

\* The GET is sent before the headers are written; a redirected reader sends
\* it itself.
Get ==
    /\ reader.pc \in {"get", "redirected"}
    /\ LET body == InBucket(reader.of) IN
       IF body = "absent" THEN Tells("missing", "none") ELSE Tells("ok", body)
    /\ UNCHANGED fillVars

\* The reader goes away; the fill it started does not.
GiveUp ==
    /\ reader.pc # "idle"
    /\ Dismissed
    /\ UNCHANGED fillVars

Pushing == Push /\ UNCHANGED <<reader, answer, informed>>

-----------------------------------------------------------------------------
Filling(r) == Fill(r) /\ Releases(r)

Serve == Admit \/ Exists \/ Join \/ Start \/ Stat \/ Get

Next ==
    \/ \E r \in Replicas, o \in Objects : Request(r, o)
    \/ Serve \/ S3Fails \/ GiveUp
    \/ \E r \in Replicas : Filling(r)
    \/ Pushing

\* A request goes on and a fill is bounded by upstreamFillTimeout.
Fairness ==
    /\ WF_vars(Serve)
    /\ \A r \in Replicas : WF_vars(Progress(r) /\ Releases(r))

Spec == Init /\ [][Next]_vars /\ Fairness

-----------------------------------------------------------------------------
\* A reader that was given the narinfo, by any replica, gets the NAR that it
\* describes from any replica: it is not told that the NAR is missing and
\* not given another. The exception is NarinfoHasNar's.
InformedGetsNar ==
    informed /\ answer.of = "nar" /\ ~spoilt => answer.status # "missing" /\ answer.body # "bad"

\* Once the narinfo is stored, by a push or a fill of any replica, nobody who
\* asks for it afterwards is told that it is missing: not by a replica that
\* remembers the path as a miss, and not when a fill under way fails.
PublishedIsFound ==
    answer.of = "narinfo" /\ answer.there => answer.status # "missing"

\* Every request is answered, also one that waits for a fill that another
\* request started or that fails.
RequestsEnd == reader.pc # "idle" ~> reader.pc = "idle"
=============================================================================
