----------------------------- MODULE PushPaths -----------------------------
(***************************************************************************)
(* One push as the client runs it (client/upload.go PushPaths), from the   *)
(* question which closures are cached to the last complete, over calls     *)
(* that are retried, refused or lost (ServerRequest) and a pool of uploads *)
(* (UploadTasks). Of the server it has what these calls meet: pushes that  *)
(* are pending, committed or cleaned up, and requests that arrive after    *)
(* the client has given up on them. What a commit does to the database,    *)
(* and pushes that nobody holds, are PushGC's.                             *)
(*                                                                         *)
(* A push is identified by the roots it was created for: all of them at    *)
(* once (/api/pushes) or one each (/api/pending_closures).                 *)
(***************************************************************************)
EXTENDS UploadTasks, ServerRequest

CONSTANTS
    Roots,      \* the paths to push
    ClosureOf   \* a root's closure

ASSUME RootsAssumption ==
    /\ Roots \subseteq Paths /\ Roots # {}
    /\ ClosureOf \in [Roots -> SUBSET Paths]
    /\ \A r \in Roots : r \in ClosureOf[r]

VARIABLES
    stage,      \* where PushPaths is
    target,     \* the push that the current call is about
    route,      \* the API that createPending uses
    config,     \* the client has a cache config
    wanted,     \* roots still to push
    todo,       \* pushes that this stage has yet to deal with
    held,       \* pendingByClosureID: the pushes that the server created
    pending,    \* server: those of them that it still has
    late,       \* requests to complete that may still arrive
    settled,    \* history: roots cached, skipped or committed
    lost,       \* history: the client was not told of a commit
    outcome     \* what PushPaths returned

planVars   == <<target, route, config, wanted, todo, held>>
serverVars == <<pending, late, settled, lost>>
vars == <<uploadVars, requestVars, stage, planVars, serverVars, outcome>>

None  == {}
Alone == {{r} : r \in wanted}

Init ==
    /\ UploadInit /\ RequestInit
    /\ stage = "present" /\ outcome = "none"
    /\ target = None /\ route = "none" /\ config = FALSE
    /\ wanted = Roots /\ todo = {} /\ held = {}
    /\ pending = {} /\ late = {} /\ settled = {} /\ lost = FALSE

Running(s) == stage = s /\ outcome = "none"

\* PushPaths returns.
Returns(o) == outcome' = o /\ UNCHANGED stage

Goto(s) == stage' = s /\ UNCHANGED outcome

\* It goes on with the pushes ids in stage s.
GotoWith(s, ids) == Goto(s) /\ todo' = ids

\* It calls the server about the push id, or has the answer.
Calls(s, id) ==
    /\ Running(s) /\ CallServer
    /\ target' = id
    /\ UNCHANGED <<uploadVars, stage, route, config, wanted, todo, held, serverVars, outcome>>

Answered(s) == Running(s) /\ HangUp /\ target' = None

\* Mutant: a complete that answers 204 is taken for a failure.
Accepted200(s) == reply = "ok" /\ s # "complete"

\* checkResponse: the status is one that this call accepts.
Accepted(s) == reply = "ok"

-----------------------------------------------------------------------------
(***************************************************************************)
(* What there is to push.                                                  *)
(***************************************************************************)

AskPresent == Calls("present", Roots)

\* Closures that the server has are done with; without an answer everything
\* is pushed.
HearPresent ==
    /\ Answered("present")
    /\ \E there \in (IF Accepted(stage) THEN SUBSET Roots ELSE {{}}) :
        /\ settled' = there
        /\ wanted' = Roots \ there
        /\ IF there = Roots THEN Returns("ok") ELSE Goto("config")
    /\ UNCHANGED <<uploadVars, route, config, todo, held, pending, late, lost>>

\* GetPathInfoRecursive or PrepareClosures fails.
StoreFails ==
    /\ Running("config") \/ Running("prepare")
    /\ call = "none" /\ MayFail
    /\ Returns("error")
    /\ UNCHANGED <<offered, owner, taskVars, narVars, listing, uploaded, endVars,
                   requestVars, planVars, serverVars>>

AskConfig == Calls("config", Roots)

\* A config may say that some closures hold a NAR too large to take, which
\* is reported.
HearConfig ==
    /\ Answered("config")
    /\ config' = Accepted(stage)
    /\ \E oversized \in (IF Accepted(stage) THEN SUBSET wanted ELSE {{}}) :
        /\ settled' = settled \cup oversized
        /\ wanted' = wanted \ oversized
        /\ Goto(IF oversized = {} THEN "prepare" ELSE "report")
    /\ UNCHANGED <<uploadVars, route, todo, held, pending, late, lost>>

AskReport == Calls("report", Roots)

\* ReportSkippedUploads: whether the server took it does not matter.
HearReported ==
    /\ Answered("report")
    /\ IF wanted = {} THEN Returns("ok") ELSE Goto("prepare")
    /\ UNCHANGED <<uploadVars, route, config, wanted, todo, held, serverVars>>

\* PrepareClosures files the NARs under a path each.
Prepare ==
    /\ Running("prepare")
    /\ owner' \in Owners(UNION {ClosureOf[r] : r \in wanted})
    /\ Goto("route")
    /\ UNCHANGED <<offered, queued, running, narVars, listing, uploaded, failed, endVars, faults,
                   requestVars, planVars, serverVars>>

-----------------------------------------------------------------------------
(***************************************************************************)
(* createPending.                                                          *)
(***************************************************************************)

UseRoute(r) ==
    /\ route' = r
    /\ GotoWith("create", IF r = "pushes" THEN {wanted} ELSE Alone)

\* A config that is held long enough is fetched again.
AskConfigAgain == Calls("route", Roots)

HearConfigAgain ==
    /\ Answered("route")
    /\ \E r \in (IF Accepted(stage) THEN {"pushes", "pending_closures"} ELSE {"pending_closures"}) : UseRoute(r)
    /\ UNCHANGED <<uploadVars, config, wanted, held, serverVars>>

KeepConfig ==
    /\ Running("route") /\ config /\ call = "none"
    /\ \E r \in {"pushes", "pending_closures"} : UseRoute(r)
    /\ UNCHANGED <<uploadVars, requestVars, target, config, wanted, held, serverVars>>

AskCreate == \E id \in todo : Calls("create", id)

\* The server offers what it does not have of the push's objects.
HearCreated ==
    /\ Answered("create") /\ Accepted(stage)
    /\ \E offer \in SUBSET ObjectsOf(UNION {ClosureOf[r] : r \in target}) : offered' = offered \cup offer
    /\ held' = held \cup {target} /\ pending' = pending \cup {target}
    /\ IF todo = {target} THEN GotoWith("upload", {}) ELSE GotoWith("create", todo \ {target})
    /\ UNCHANGED <<owner, queued, running, narVars, listing, uploaded, failed, endVars, faults,
                   route, config, wanted, late, settled, lost>>

\* A server without /api/pushes gets a pending closure per root.
HearNotCreated ==
    /\ Answered("create") /\ ~Accepted(stage)
    /\ IF route = "pushes" /\ reply = "notFound"
       THEN UseRoute("pending_closures")
       ELSE Returns("error") /\ UNCHANGED <<route, todo>>
    /\ UNCHANGED <<uploadVars, config, wanted, held, serverVars>>

-----------------------------------------------------------------------------
(***************************************************************************)
(* Uploads, signatures, narinfos.                                          *)
(***************************************************************************)

StartUploads ==
    /\ Running("upload") /\ UploadPendingObjects
    /\ GotoWith("uploading", {})
    /\ UNCHANGED <<requestVars, target, route, config, wanted, held, serverVars>>

Upload ==
    /\ Running("uploading") /\ UploadStep
    /\ UNCHANGED <<requestVars, stage, planVars, serverVars, outcome>>

\* Without a narinfo to sign there is none to upload.
Uploaded ==
    /\ Running("uploading") /\ result # "none"
    /\ UploadForgotten
    /\ IF result = "error" THEN Returns("error") /\ UNCHANGED todo
       ELSE GotoWith(IF described = {} THEN "complete" ELSE "sign", held)
    /\ UNCHANGED <<requestVars, target, route, config, wanted, held, serverVars>>

AskSign == \E id \in todo : Calls("sign", id)

HearSigned ==
    /\ Answered("sign")
    /\ IF ~Accepted(stage) THEN Returns("error") /\ UNCHANGED todo
       ELSE IF todo = {target} THEN GotoWith("narinfos", {}) ELSE GotoWith("sign", todo \ {target})
    /\ UNCHANGED <<uploadVars, route, config, wanted, held, serverVars>>

UploadNarinfos ==
    /\ Running("narinfos")
    /\ \/ GotoWith("complete", held) /\ UNCHANGED faults
       \/ MayFail /\ Returns("error") /\ UNCHANGED todo
    /\ UNCHANGED <<offered, owner, taskVars, narVars, listing, uploaded, endVars,
                   requestVars, target, route, config, wanted, held, serverVars>>

AskComplete == \E id \in todo : Calls("complete", id)

\* Mutant: the first push that is completed ends the loop.
HearCompletedOnce ==
    /\ Answered("complete")
    /\ Returns(IF Accepted(stage) THEN "ok" ELSE "error") /\ UNCHANGED todo
    /\ UNCHANGED <<uploadVars, route, config, wanted, held, serverVars>>

\* Every push is completed; the first failure ends PushPaths.
HearCompleted ==
    /\ Answered("complete")
    /\ IF ~Accepted(stage) THEN Returns("error") /\ UNCHANGED todo
       ELSE IF todo = {target} THEN Returns("ok") /\ UNCHANGED todo
       ELSE GotoWith("complete", todo \ {target})
    /\ UNCHANGED <<uploadVars, route, config, wanted, held, serverVars>>

-----------------------------------------------------------------------------
(***************************************************************************)
(* The server, and what is lost on the way.                                *)
(***************************************************************************)

ServeStays == UNCHANGED <<uploadVars, stage, planVars, outcome>>

Commit(id) == pending' = pending \ {id} /\ settled' = settled \cup id

\* RequireScope refuses an expired token; the cache config is public.
Unauthorized == Expired(header) /\ stage \notin {"config", "route"}

\* A server in trouble asks to come again, as does a commit that failed.
Refuse ==
    /\ IF Unauthorized THEN Served("refused") ELSE Served("temporary")
    /\ ServeStays /\ UNCHANGED serverVars

\* Most calls change nothing of what is modelled; /api/pushes may be missing.
Answer ==
    /\ ~Unauthorized
    /\ stage # "complete"
    /\ CASE stage = "sign" -> Served(IF target \in pending THEN "ok" ELSE "notFound")
         [] stage = "create" /\ route = "pushes" -> Served("ok") \/ Served("notFound")
         [] OTHER -> Served("ok")
    /\ ServeStays /\ UNCHANGED serverVars

\* Complete commits the push, unless it is gone or, with /api/pushes, an
\* object is missing.
AnswerComplete ==
    /\ ~Unauthorized
    /\ stage = "complete"
    /\ IF target \in pending
       THEN \/ Commit(target) /\ Served("ok") /\ UNCHANGED <<late, lost>>
            \/ route = "pushes" /\ Served("conflict") /\ UNCHANGED serverVars
       ELSE Served("notFound") /\ UNCHANGED serverVars
    /\ ServeStays

Delivered ==
    /\ Deliver
    /\ ServeStays /\ UNCHANGED serverVars

\* A connection breaks: the request may be dropped or arrive later, or it is
\* the answer that is lost.
Break ==
    /\ NetworkError
    /\ late' \in (IF call = "sent" /\ stage = "complete" THEN {late, late \cup {target}} ELSE {late})
    /\ lost' = (lost \/ (call = "served" /\ stage = "complete" /\ Accepted(stage)))
    /\ ServeStays /\ UNCHANGED <<pending, settled>>

LateComplete(id) ==
    /\ id \in late
    /\ late' = late \ {id}
    /\ IF id \in pending THEN Commit(id) /\ lost' = TRUE ELSE UNCHANGED <<pending, settled, lost>>
    /\ UNCHANGED <<uploadVars, requestVars, stage, planVars, outcome>>

\* The garbage collection removes pushes that have been pending for long.
CleanUp(id) ==
    /\ id \in pending
    /\ pending' = pending \ {id}
    /\ UNCHANGED <<uploadVars, requestVars, stage, planVars, late, settled, lost, outcome>>

TimePasses ==
    /\ outcome = "none"
    /\ Tick
    /\ ServeStays /\ UNCHANGED serverVars

Calling ==
    /\ RequestStep
    /\ ServeStays /\ UNCHANGED serverVars

-----------------------------------------------------------------------------
ClientStep ==
    \/ AskPresent \/ HearPresent \/ AskConfig \/ HearConfig \/ AskReport \/ HearReported
    \/ StoreFails \/ Prepare
    \/ AskConfigAgain \/ HearConfigAgain \/ KeepConfig
    \/ AskCreate \/ HearCreated \/ HearNotCreated
    \/ StartUploads \/ Upload \/ Uploaded
    \/ AskSign \/ HearSigned \/ UploadNarinfos \/ AskComplete \/ HearCompleted
    \/ Calling \/ Delivered

ServerStep == Refuse \/ Answer \/ AnswerComplete

Finished == outcome # "none" /\ UNCHANGED vars

Next ==
    \/ ClientStep \/ ServerStep \/ TimePasses \/ Break
    \/ \E id \in held : LateComplete(id) \/ CleanUp(id)
    \/ Finished

\* The client goes on, a request is answered (or its connection breaks) and
\* time passes. Nothing makes the server answer well.
Fairness == WF_vars(ClientStep \/ ServerStep) /\ WF_vars(TimePasses)

Spec == Init /\ [][Next]_vars /\ Fairness

-----------------------------------------------------------------------------
\* PushPaths tells its caller that all is well only if every root was in the
\* cache already, was too large to take or is committed, whichever API the
\* server has and whatever was retried.
OkMeansSettled == outcome = "ok" => settled = Roots

\* A push that is committed and reported as failed was committed by a request
\* whose answer the client did not get: complete is not idempotent, so a retry
\* finds the push gone.
CommittedIsReported ==
    outcome = "error" /\ held # {} /\ UNION held = wanted /\ wanted \subseteq settled => lost

\* PushPaths returns, even if the server never answers well.
PushReturns == <>(outcome # "none")
=============================================================================
