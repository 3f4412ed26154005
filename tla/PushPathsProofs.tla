--------------------------- MODULE PushPathsProofs ---------------------------
(***************************************************************************)
(* Proofs about one push of the client, for any paths, closures, shared    *)
(* NARs, workers, retries and token lifetimes.                             *)
(*                                                                         *)
(* Three arguments that do not need each other. A token is handed out with *)
(* a quarter of its life left, so the call that finds it expired has been  *)
(* under way that long (TokenInv). When the caller is told that all is     *)
(* well every root is settled, because the pushes created for the wanted   *)
(* roots cover them and only an accepted complete takes one off the list   *)
(* (PlanInv). A narinfo is described when every task of the pool has ended *)
(* well, and a task that ended well leaves its objects in S3 (UploadInv).  *)
(***************************************************************************)
EXTENDS PushPaths, FiniteSetTheorems, WellFoundedInduction, TLAPS

Tokens == [life : Lifetimes \cup {0}, age : Nat]

\* A call begins without a token and without an answer to be misread.
NoTokenYet  == call \in {"none", "script"} => header = NoToken
NoAnswerYet == call \notin {"served", "answered"} => reply = "none"

\* The token in the header was at most three quarters through its life when
\* the call took it.
HeaderWasYoung ==
    4 * header.age <= 3 * header.life + 4 * elapsed \/ header.life <= elapsed

TokenInv ==
    /\ cached \in Tokens /\ header \in Tokens /\ elapsed \in Nat
    /\ NoTokenYet /\ NoAnswerYet /\ HeaderWasYoung /\ RefusedAfterAQuarter

-----------------------------------------------------------------------------
Planning == {"present", "config", "report", "prepare", "route"}
Created  == {"upload", "uploading", "sign", "narinfos", "complete"}
Asking   == {"present", "config", "report", "route", "create", "sign", "complete"}

\* A call belongs to the stage PushPaths is in and to a push on its list.
CallInPlace ==
    call # "none" =>
        /\ outcome = "none" /\ stage \in Asking
        /\ stage \in {"create", "sign", "complete"} => target \in todo

\* A root is wanted or settled; the pushes share no root and together hold
\* the wanted ones.
PushesCover ==
    /\ wanted \subseteq Roots /\ settled \subseteq Roots /\ Roots \ wanted \subseteq settled
    /\ \A id \in held \cup todo : id # {} /\ id \subseteq wanted
    /\ \A id, other \in held \cup todo : id # other => id \cap other = {}
    /\ stage \notin {"present", "report"} => wanted # {}
    /\ stage \in Planning => held = {} /\ todo = {}
    /\ stage = "create" =>
          /\ UNION (held \cup todo) = wanted
          /\ route = "pushes" => held = {} /\ todo = {wanted}
    /\ stage \in Created => UNION held = wanted

\* A push leaves the list of the last stage only when it is committed.
CompletedIsSettled ==
    stage = "complete" =>
        /\ \A id \in held : id \in todo \/ id \subseteq settled
        /\ reply = "ok" => target \subseteq settled

\* As long as the client was told of every commit, what is on the list is
\* not committed, except by the answer that is on its way.
CommitsAreTold ==
    /\ stage # "complete" /\ ~lost => wanted \cap settled = {}
    /\ stage = "complete" /\ outcome # "ok" =>
          /\ todo # {}
          /\ ~lost => \A id \in todo : id \cap settled = {} \/ (id = target /\ reply = "ok")

PlanInv ==
    /\ NoAnswerYet /\ CallInPlace /\ PushesCover /\ CompletedIsSettled
    /\ CommitsAreTold /\ OkMeansSettled

-----------------------------------------------------------------------------
Uploading == stage = "uploading" /\ outcome = "none"

\* The pool is at rest before the uploads start.
PoolAtRest ==
    stage \in Planning \cup {"create", "upload"} =>
        /\ queued = {} /\ running = {} /\ dumped = {} /\ fallback = {} /\ uploaded = {}
        /\ nar = [p \in Paths |-> "none"] /\ listing = [p \in Paths |-> "none"]
        /\ failed = FALSE /\ result = "none" /\ described = {}

\* A NAR is filed under a path that has it.
OwnersFit ==
    stage \in {"route", "create", "upload", "uploading"} /\ outcome = "none" =>
        \A n \in Nars : owner[n] \in Paths /\ NarOf[owner[n]] = n

\* What a task that ended well leaves behind.
ListingThere(p) == Offered("listing", p) => Object("listing", p) \in uploaded
NarThere(p)     == nar[p] = "superseded" \/ Object("nar", NarOf[p]) \in uploaded
TaskDone(t)     ==
    /\ t.kind \in {"nar", "metadata"} => ListingThere(t.of)
    /\ t.kind = "nar" => nar[t.of] # "none" /\ NarThere(t.of)

\* No task is forgotten: it waits, runs, or ended well unless one failed.
TasksKept ==
    Uploading /\ ~failed => \A p \in Paths : \A t \in TasksOf(p) :
        t \in queued \cup running \/ TaskDone(t)

\* How far the two uploads of a NAR task have come.
NarProgress ==
    Uploading => \A p \in Paths :
        /\ nar[p] = "stored" => p \in dumped /\ Object("nar", NarOf[p]) \in uploaded
        /\ p \in dumped /\ Offered("listing", p) => listing[p] # "none"
        /\ listing[p] = "stored" => Object("listing", p) \in uploaded
        /\ p \in fallback => nar[p] = "superseded"

PoolTyped ==
    /\ nar \in [Paths -> {"none", "stored", "superseded", "failed"}]
    /\ listing \in [Paths -> {"none", "started", "stored", "failed"}]
    /\ queued \subseteq Tasks /\ running \subseteq Tasks /\ failed \in BOOLEAN

\* Narinfos are described at the end, when the pool is empty, and what was
\* offered is forgotten with the result.
DescribedAtTheEnd ==
    /\ Uploading /\ result # "none" => queued = {} /\ running = {}
    /\ Uploading /\ result = "none" => described = {}
    /\ stage \in {"sign", "narinfos", "complete"} => offered = {}

UploadInv ==
    /\ PoolTyped /\ PoolAtRest /\ OwnersFit /\ TasksKept /\ NarProgress
    /\ DescribedAtTheEnd /\ DescribedIsUploaded

Inv == TokenInv /\ PlanInv /\ UploadInv

-----------------------------------------------------------------------------
(***************************************************************************)
(* Least and greatest numbers.                                             *)
(***************************************************************************)

LEMMA MinOfTwo ==
    ASSUME NEW a \in Nat, NEW b \in Nat
    PROVE  Min({a, b}) = IF a <= b THEN a ELSE b
<1>1. \E x \in {a, b} : \A y \in {a, b} : x <= y OBVIOUS
<1>2. Min({a, b}) \in {a, b} /\ \A y \in {a, b} : Min({a, b}) <= y BY <1>1 DEF Min
<1> QED BY <1>2

\* A finite set of numbers has an upper bound: a least number of elements of
\* a set without one would leave one without it when an element is taken out.
LEMMA FiniteIsBounded ==
    ASSUME NEW S \in SUBSET Nat, IsFiniteSet(S)
    PROVE  \E u \in Nat : \A x \in S : x <= u
<1> DEFINE Bound(T) == \E u \in Nat : \A x \in T : x <= u
           Bad == {n \in Nat : \E T \in SUBSET Nat :
                      IsFiniteSet(T) /\ Cardinality(T) = n /\ ~Bound(T)}
<1>1. SUFFICES ASSUME ~Bound(S) PROVE FALSE
  OBVIOUS
<1>2. Cardinality(S) \in Bad BY <1>1, FS_CardinalityType
<1>3. PICK n \in Bad : \A m \in Bad : ~(<<m, n>> \in OpToRel(<, Nat))
  <2>1. Bad \in SUBSET Nat /\ Bad # {} BY <1>2
  <2> HIDE DEF Bad
  <2> QED BY <2>1, NatLessThanWellFounded, WFMin
<1>4. PICK T \in SUBSET Nat : IsFiniteSet(T) /\ Cardinality(T) = n /\ ~Bound(T)
  BY <1>3
<1>5. PICK t \in T : TRUE
  <2>1. T # {}
    <3>1. Bound({}) OBVIOUS
    <3> QED BY <3>1, <1>4
  <2> QED BY <2>1
<1>6. IsFiniteSet(T \ {t}) /\ Cardinality(T \ {t}) = n - 1 /\ n - 1 \in Nat
  <2>1. IsFiniteSet(T \ {t}) /\ Cardinality(T \ {t}) = Cardinality(T) - 1
    BY <1>4, <1>5, FS_RemoveElement
  <2>2. Cardinality(T \ {t}) \in Nat BY <2>1, FS_CardinalityType
  <2> QED BY <1>4, <2>1, <2>2
<1>7. Bound(T \ {t})
  <2>1. SUFFICES ASSUME ~Bound(T \ {t}) PROVE FALSE
    OBVIOUS
  <2>2. n - 1 \in Bad BY <1>6, <2>1
  <2>3. <<n - 1, n>> \in OpToRel(<, Nat) BY <1>3, <1>6 DEF OpToRel
  <2> QED BY <1>3, <2>2, <2>3
<1>8. PICK u \in Nat : \A x \in T \ {t} : x <= u BY <1>7
<1>9. CASE t <= u
  <2>1. \A x \in T : x <= u BY <1>8, <1>9
  <2> QED BY <2>1, <1>4
<1>10. CASE ~(t <= u)
  <2>1. t \in Nat BY <1>5
  <2>2. \A x \in T : x <= t BY <1>8, <1>10, <2>1
  <2> QED BY <2>1, <2>2, <1>4
<1> QED BY <1>9, <1>10

\* The least upper bound of a finite set of numbers is its greatest element.
LEMMA MaxOfFinite ==
    ASSUME NEW S \in SUBSET Nat, IsFiniteSet(S), S # {}
    PROVE  Max(S) \in S /\ \A x \in S : x <= Max(S)
<1> DEFINE U == {u \in Nat : \A x \in S : x <= u}
<1>1. PICK b \in U : \A u \in U : ~(<<u, b>> \in OpToRel(<, Nat))
  <2>1. U \in SUBSET Nat /\ U # {} BY FiniteIsBounded
  <2> HIDE DEF U
  <2> QED BY <2>1, NatLessThanWellFounded, WFMin
<1>2. b \in Nat /\ \A x \in S : x <= b BY <1>1
<1>3. b \in S
  <2>1. SUFFICES ASSUME b \notin S PROVE FALSE
    OBVIOUS
  <2>2. \A x \in S : x \in Nat /\ x < b BY <1>2, <2>1
  <2>3. b - 1 \in Nat /\ b - 1 < b
    <3>1. PICK x \in S : TRUE OBVIOUS
    <3> QED BY <1>2, <2>2, <3>1
  <2>4. b - 1 \in U BY <1>2, <2>2, <2>3
  <2>5. <<b - 1, b>> \in OpToRel(<, Nat) BY <1>2, <2>3 DEF OpToRel
  <2> QED BY <1>1, <2>4, <2>5
<1>4. \E x \in S : \A y \in S : x >= y
  <2>1. \A y \in S : b >= y BY <1>2
  <2> QED BY <1>3, <2>1
<1>5. Max(S) \in S /\ \A y \in S : Max(S) >= y BY <1>4 DEF Max
<1>6. Max(S) \in Nat BY <1>5
<1> QED BY <1>5, <1>6

\* Time is counted long enough for every token.
LEMMA HorizonIsFar == Horizon \in Nat /\ \A life \in Lifetimes \cup {0} : life <= Horizon
<1> DEFINE S == Lifetimes \cup {Timeout}
<1>1. S \in SUBSET Nat /\ S # {} /\ IsFiniteSet(S)
  BY RequestAssumption, FS_AddElement
<1> HIDE DEF S
<1>2. Max(S) \in S /\ \A x \in S : x <= Max(S) BY <1>1, MaxOfFinite
<1>3. Max(S) \in Nat BY <1>1, <1>2
<1>4. Horizon = Max(S) BY DEF Horizon, S
<1> QED BY <1>2, <1>3, <1>4 DEF S

-----------------------------------------------------------------------------
(***************************************************************************)
(* The token of a call.                                                    *)
(***************************************************************************)

\* Lifetimes and ages are numbers.
LEMMA TokenNumbers ==
    ASSUME NEW t \in Tokens
    PROVE  t.life \in Lifetimes \cup {0} /\ t.life \in Nat /\ t.age \in Nat
<1>1. t.life \in Lifetimes \cup {0} /\ t.age \in Nat BY DEF Tokens
<1>2. \A life \in Lifetimes : life \in Nat BY RequestAssumption
<1>3. t.life = 0 \/ t.life \in Lifetimes BY <1>1
<1>4. t.life \in Nat BY <1>2, <1>3
<1> QED BY <1>1, <1>4

\* A token ages by one until it has expired.
LEMMA OlderToken ==
    ASSUME NEW t \in Tokens
    PROVE  /\ Older(t) \in Tokens /\ Older(t).life = t.life
           /\ Older(t).age <= t.age + 1
           /\ t = NoToken => Older(t) = NoToken
<1>1. t.age \in Nat /\ t.life \in Nat BY TokenNumbers
<1>2. Min({t.age + 1, t.life}) = IF t.age + 1 <= t.life THEN t.age + 1 ELSE t.life
  BY <1>1, MinOfTwo
<1>3. Older(t) = [t EXCEPT !.age = Min({t.age + 1, t.life})] BY DEF Older
<1>4. Older(t) \in Tokens /\ Older(t).life = t.life BY <1>1, <1>2, <1>3 DEF Tokens
<1>5. Older(t).age = Min({t.age + 1, t.life}) BY <1>3 DEF Tokens
<1>6. ASSUME t = NoToken PROVE Older(t) = NoToken
  <2>1. t.age = 0 /\ t.life = 0 BY <1>6 DEF NoToken, Token
  <2>2. Older(t) = [t EXCEPT !.age = 0] BY <1>2, <1>3, <2>1
  <2> QED BY <1>6, <2>2 DEF NoToken, Token
<1> QED BY <1>1, <1>2, <1>4, <1>5, <1>6

\* Time passes: the header's token ages no faster than the call lasts.
LEMMA TickKeepsToken == TokenInv /\ Tick => TokenInv'
<1> SUFFICES ASSUME TokenInv, Tick PROVE TokenInv'
  OBVIOUS
<1>1. /\ cached \in Tokens /\ header \in Tokens /\ elapsed \in Nat
      /\ call' = call /\ reply' = reply /\ cached' = Older(cached) /\ header' = Older(header)
      /\ elapsed' = IF call = "none" THEN 0 ELSE Min({elapsed + 1, Horizon})
  BY DEF TokenInv, Tick
<1>2. /\ cached' \in Tokens /\ header' \in Tokens /\ header'.life = header.life
      /\ header'.age <= header.age + 1
      /\ header = NoToken => header' = NoToken
  BY <1>1, OlderToken
<1>3. /\ header.life \in Nat /\ header.age \in Nat /\ header'.age \in Nat
      /\ header.life <= Horizon /\ Horizon \in Nat
  BY <1>1, <1>2, HorizonIsFar, TokenNumbers
<1>4. call # "none" => elapsed' = IF elapsed + 1 <= Horizon THEN elapsed + 1 ELSE Horizon
  BY <1>1, <1>3, MinOfTwo
<1>5. elapsed' \in Nat BY <1>1, <1>3, <1>4
<1>6. NoTokenYet' /\ NoAnswerYet' BY <1>1, <1>2 DEF TokenInv, NoTokenYet, NoAnswerYet
<1>7. HeaderWasYoung' /\ RefusedAfterAQuarter'
  <2>1. CASE call = "none"
    <3>1. header' = NoToken /\ reply' = "none"
      BY <1>1, <1>2, <2>1 DEF TokenInv, NoTokenYet, NoAnswerYet
    <3>2. header'.life = 0 /\ header'.age = 0 BY <3>1 DEF NoToken, Token
    <3>3. elapsed' = 0 BY <1>1, <2>1
    <3> QED BY <3>1, <3>2, <3>3 DEF HeaderWasYoung, RefusedAfterAQuarter
  <2>2. CASE call # "none"
    <3>1. HeaderWasYoung /\ RefusedAfterAQuarter BY DEF TokenInv
    <3>2. HeaderWasYoung' BY <1>1, <1>2, <1>3, <1>4, <2>2, <3>1 DEF HeaderWasYoung
    <3>3. RefusedAfterAQuarter' BY <1>1, <1>2, <1>3, <1>4, <2>2, <3>1 DEF RefusedAfterAQuarter
    <3> QED BY <3>2, <3>3
  <2> QED BY <2>1, <2>2
<1> QED BY <1>2, <1>5, <1>6, <1>7 DEF TokenInv

\* The server refuses only a token that has expired.
LEMMA ServedKeepsToken ==
    ASSUME TokenInv, NEW r, Served(r), r = "refused" => Expired(header)
    PROVE  TokenInv'
<1>1. /\ header' = header /\ cached' = cached /\ elapsed' = elapsed
      /\ call' = "served" /\ reply' = r
  BY DEF Served
<1>2. header.life \in Nat /\ header.age \in Nat /\ elapsed \in Nat
  BY TokenNumbers DEF TokenInv
<1>3. RefusedAfterAQuarter'
  BY <1>1, <1>2 DEF RefusedAfterAQuarter, TokenInv, HeaderWasYoung, Expired
<1> QED BY <1>1, <1>3 DEF TokenInv, NoTokenYet, NoAnswerYet, HeaderWasYoung

\* A call takes a token, sends it, gives it up.
LEMMA CallKeepsToken ==
    ASSUME TokenInv,
           CallServer \/ HangUp \/ RequestStep \/ Deliver \/ NetworkError \/ UNCHANGED requestVars
    PROVE  TokenInv'
<1> USE DEF TokenInv, NoTokenYet, NoAnswerYet, HeaderWasYoung, RefusedAfterAQuarter
<1>0. /\ NoToken \in Tokens /\ NoToken.life = 0 /\ NoToken.age = 0
      /\ \A life \in Lifetimes : /\ Token(life) \in Tokens
                                 /\ Token(life).life = life /\ Token(life).age = 0
  BY DEF NoToken, Token, Tokens
<1>a. \A life \in Lifetimes : life \in Nat BY RequestAssumption
<1>b. /\ header.life \in Nat /\ header.age \in Nat /\ elapsed \in Nat
      /\ cached.life \in Nat /\ cached.age \in Nat
  BY TokenNumbers
<1>1. CASE CallServer BY <1>0, <1>a, <1>b, <1>1 DEF CallServer, CacheHolds
<1>2. CASE HangUp BY <1>0, <1>a, <1>b, <1>2 DEF HangUp
<1>3. ASSUME NEW life \in Lifetimes, ScriptReturns(life) PROVE TokenInv'
  BY <1>0, <1>a, <1>b, <1>3 DEF ScriptReturns
<1>4. CASE ScriptFails BY <1>0, <1>a, <1>b, <1>4 DEF ScriptFails, CallEnds
<1>5. CASE Send BY <1>0, <1>a, <1>b, <1>5 DEF Send
<1>6. CASE BackoffOver BY <1>0, <1>a, <1>b, <1>6 DEF BackoffOver
<1>7. CASE Deliver BY <1>0, <1>a, <1>b, <1>7 DEF Deliver, RetryOrFail, CallEnds
<1>8. CASE NetworkError BY <1>0, <1>a, <1>b, <1>8 DEF NetworkError, RetryOrFail, CallEnds
<1>9. CASE UNCHANGED requestVars BY <1>9 DEF requestVars
<1> HIDE DEF TokenInv
<1> QED BY <1>1, <1>2, <1>3, <1>4, <1>5, <1>6, <1>7, <1>8, <1>9 DEF RequestStep

\* Every step of the push, of the server and of time keeps it.
LEMMA NextToken == TokenInv /\ [Next]_vars => TokenInv'
<1> SUFFICES ASSUME TokenInv, [Next]_vars PROVE TokenInv'
  OBVIOUS
<1>1. ASSUME NEW s, NEW id, Calls(s, id) PROVE TokenInv'
  BY <1>1, CallKeepsToken DEF Calls
<1>2. ASSUME NEW s, Answered(s) PROVE TokenInv'
  BY <1>2, CallKeepsToken DEF Answered
<1>3. CASE UNCHANGED requestVars
  BY <1>3, CallKeepsToken
<1>4. CASE AskPresent \/ AskConfig \/ AskReport \/ AskConfigAgain \/ AskCreate \/ AskSign \/
      AskComplete
  BY <1>1, <1>4 DEF AskPresent, AskConfig, AskReport, AskConfigAgain, AskCreate, AskSign,
     AskComplete
<1>5. CASE HearPresent \/ HearConfig \/ HearReported \/ HearConfigAgain \/ HearCreated
             \/ HearNotCreated \/ HearSigned \/ HearCompleted
  BY <1>2, <1>5 DEF HearPresent, HearConfig, HearReported, HearConfigAgain, HearCreated,
                    HearNotCreated, HearSigned, HearCompleted
<1>6. CASE StoreFails \/ Prepare \/ KeepConfig \/ StartUploads \/ Upload \/ Uploaded \/
      UploadNarinfos
  BY <1>3, <1>6 DEF StoreFails, Prepare, KeepConfig, StartUploads, Upload, Uploaded, UploadNarinfos
<1>7. CASE Calling BY <1>7, CallKeepsToken DEF Calling
<1>8. CASE Delivered BY <1>8, CallKeepsToken DEF Delivered
<1>9. CASE Refuse
  BY <1>9, ServedKeepsToken DEF Refuse, Unauthorized
<1>10. CASE Answer
  <2>1. Served("ok") \/ Served("notFound") BY <1>10 DEF Answer
  <2> QED BY <2>1, ServedKeepsToken
<1>11. CASE AnswerComplete
  <2>1. Served("ok") \/ Served("notFound") \/ Served("conflict") BY <1>11 DEF AnswerComplete
  <2> QED BY <2>1, ServedKeepsToken
<1>12. CASE TimePasses BY <1>12, TickKeepsToken DEF TimePasses
<1>13. CASE Break BY <1>13, CallKeepsToken DEF Break
<1>14. ASSUME NEW id \in held, LateComplete(id) \/ CleanUp(id) PROVE TokenInv'
  BY <1>3, <1>14 DEF LateComplete, CleanUp
<1>15. CASE Finished \/ UNCHANGED vars BY <1>3, <1>15 DEF Finished, vars
<1> QED
  BY <1>4, <1>5, <1>6, <1>7, <1>8, <1>9, <1>10, <1>11, <1>12, <1>13, <1>14, <1>15
  DEF Next, ClientStep, ServerStep

-----------------------------------------------------------------------------
(***************************************************************************)
(* The plan of the push.                                                   *)
(***************************************************************************)

\* The wanted roots are created as one push or as one push each, which cover
\* them either way.
LEMMA RouteKeepsPlan ==
    ASSUME PlanInv, outcome = "none", stage \in {"route", "create"}, held = {},
           NEW r \in {"pushes", "pending_closures"}, UseRoute(r),
           call' = "none", reply' = "none", UNCHANGED <<wanted, held, settled, lost>>
    PROVE  PlanInv'
<1>1. /\ stage' = "create" /\ outcome' = "none" /\ route' = r
      /\ todo' = IF r = "pushes" THEN {wanted} ELSE {{w} : w \in wanted}
  BY DEF UseRoute, GotoWith, Goto, Alone
<1>2. /\ wanted # {} /\ wanted \subseteq Roots /\ settled \subseteq Roots
      /\ Roots \ wanted \subseteq settled
      /\ ~lost => wanted \cap settled = {}
  BY DEF PlanInv, PushesCover, CommitsAreTold
<1>3. /\ \A id \in todo' : id # {} /\ id \subseteq wanted
      /\ \A id, other \in todo' : id # other => id \cap other = {}
      /\ UNION todo' = wanted
  <2>1. CASE r = "pushes" BY <1>1, <1>2, <2>1
  <2>2. CASE r # "pushes"
    <3>1. todo' = {{w} : w \in wanted} BY <1>1, <2>2
    <3>2. UNION {{w} : w \in wanted} = wanted OBVIOUS
    <3> QED BY <3>1, <3>2
  <2> QED BY <2>1, <2>2
<1>4. held' = {} /\ held' \cup todo' = todo' /\ wanted' = wanted /\ settled' = settled
  OBVIOUS
<1>5. PushesCover'
  <2>1. stage' \notin Planning /\ stage' \notin Created BY <1>1 DEF Planning, Created
  <2>2. r = "pushes" => todo' = {wanted'} BY <1>1, <1>4
  <2>3. UNION (held' \cup todo') = wanted' BY <1>3, <1>4
  <2>4. /\ \A id \in held' \cup todo' : id # {} /\ id \subseteq wanted'
        /\ \A id, other \in held' \cup todo' : id # other => id \cap other = {}
    BY <1>3, <1>4
  <2> QED BY <1>1, <1>2, <1>4, <2>1, <2>2, <2>3, <2>4 DEF PushesCover
<1> QED
  BY <1>1, <1>2, <1>4, <1>5
  DEF PlanInv, NoAnswerYet, CallInPlace, CompletedIsSettled, CommitsAreTold, OkMeansSettled

\* Every step keeps the plan.
LEMMA NextPlan == PlanInv /\ [Next]_vars => PlanInv'
<1> SUFFICES ASSUME PlanInv, [Next]_vars PROVE PlanInv'
  OBVIOUS
<1> USE DEF planVars, serverVars, requestVars, Running, Returns, Goto, GotoWith,
      PlanInv, NoAnswerYet, CallInPlace, PushesCover, CompletedIsSettled, CommitsAreTold,
      OkMeansSettled, Planning, Created, Asking
<1>1. ASSUME NEW s \in Asking, NEW id, Calls(s, id),
             s \in {"create", "sign", "complete"} => id \in todo PROVE PlanInv'
  BY <1>1 DEF Calls, CallServer
<1>2. CASE AskPresent \/ AskConfig \/ AskReport \/ AskConfigAgain \/ AskCreate \/ AskSign \/
      AskComplete
  BY <1>1, <1>2 DEF AskPresent, AskConfig, AskReport, AskConfigAgain, AskCreate, AskSign,
     AskComplete
<1>3. CASE HearPresent
  <2>1. PICK there \in SUBSET Roots :
            /\ settled' = there /\ wanted' = Roots \ there
            /\ IF there = Roots THEN Returns("ok") ELSE Goto("config")
    BY <1>3 DEF HearPresent
  <2>2. /\ call' = "none" /\ reply' = "none" /\ held' = {} /\ todo' = {} /\ stage = "present"
        /\ UNCHANGED lost /\ outcome = "none"
    BY <1>3 DEF HearPresent, Answered, HangUp
  <2>3. there # Roots => Roots \ there # {}
    <3>1. ASSUME Roots \ there = {} PROVE there = Roots
      <4>1. \A r \in Roots : r \in there BY <3>1
      <4>2. \A r \in there : r \in Roots BY <2>1
      <4> QED BY <4>1, <4>2
    <3> QED BY <3>1
  <2>4. PushesCover' BY <2>1, <2>2, <2>3
  <2> QED BY <2>1, <2>2, <2>4
<1>4. CASE HearConfig
  BY <1>4 DEF HearConfig, Answered, HangUp, Accepted
<1>5. CASE HearReported
  BY <1>5 DEF HearReported, Answered, HangUp
<1>6. CASE StoreFails
  BY <1>6 DEF StoreFails
<1>7. CASE Prepare
  BY <1>7 DEF Prepare
<1>8. CASE HearConfigAgain
  <2>1. PICK r \in {"pushes", "pending_closures"} : UseRoute(r)
    BY <1>8 DEF HearConfigAgain
  <2>2. /\ stage = "route" /\ outcome = "none" /\ call' = "none" /\ reply' = "none"
        /\ held = {} /\ UNCHANGED <<wanted, held, settled, lost>>
    BY <1>8 DEF HearConfigAgain, Answered, HangUp
  <2> HIDE DEF PlanInv
  <2> QED BY <2>1, <2>2, RouteKeepsPlan
<1>9. CASE KeepConfig
  <2>1. PICK r \in {"pushes", "pending_closures"} : UseRoute(r)
    BY <1>9 DEF KeepConfig
  <2>2. /\ stage = "route" /\ outcome = "none" /\ call' = "none" /\ reply' = "none"
        /\ held = {} /\ UNCHANGED <<wanted, held, settled, lost>>
    BY <1>9 DEF KeepConfig
  <2> HIDE DEF PlanInv
  <2> QED BY <2>1, <2>2, RouteKeepsPlan
<1>10. CASE HearCreated
  BY <1>10 DEF HearCreated, Answered, HangUp, Accepted
<1>11. CASE HearNotCreated
  <2>1. CASE route = "pushes" /\ reply = "notFound"
    <3>1. UseRoute("pending_closures") BY <1>11, <2>1 DEF HearNotCreated
    <3>2. /\ stage = "create" /\ outcome = "none" /\ call' = "none" /\ reply' = "none"
          /\ held = {} /\ UNCHANGED <<wanted, held, settled, lost>>
      BY <1>11, <2>1 DEF HearNotCreated, Answered, HangUp
    <3> HIDE DEF PlanInv
    <3> QED BY <3>1, <3>2, RouteKeepsPlan
  <2>2. CASE ~(route = "pushes" /\ reply = "notFound")
    BY <1>11, <2>2 DEF HearNotCreated, Answered, HangUp
  <2> QED BY <2>1, <2>2
<1>12. CASE StartUploads
  BY <1>12 DEF StartUploads
<1>13. CASE Upload
  BY <1>13 DEF Upload
<1>14. CASE Uploaded
  BY <1>14 DEF Uploaded
<1>15. CASE HearSigned
  BY <1>15 DEF HearSigned, Answered, HangUp, Accepted
<1>16. CASE UploadNarinfos
  BY <1>16 DEF UploadNarinfos
<1>17. CASE HearCompleted
  <2>1. /\ stage = "complete" /\ stage' = "complete" /\ outcome = "none" /\ call # "none"
        /\ call' = "none" /\ reply' = "none" /\ target \in todo
        /\ UNCHANGED <<wanted, held, settled, lost, route>>
    BY <1>17 DEF HearCompleted, Answered, HangUp
  <2>2. CASE ~Accepted(stage)
    <3>1. outcome' = "error" /\ todo' = todo /\ reply # "ok"
      BY <1>17, <2>2 DEF HearCompleted, Accepted
    <3> QED BY <2>1, <3>1
  <2>3. CASE Accepted(stage) /\ todo = {target}
    <3>1. outcome' = "ok" /\ todo' = todo /\ reply = "ok"
      BY <1>17, <2>3 DEF HearCompleted, Accepted
    <3>2. \A id \in held : id \subseteq settled BY <2>1, <2>3, <3>1
    <3>3. wanted \subseteq settled BY <2>1, <3>2
    <3>4. settled = Roots BY <3>3
    <3> QED BY <2>1, <2>3, <3>1, <3>2, <3>4
  <2>4. CASE Accepted(stage) /\ todo # {target}
    <3>1. outcome' = "none" /\ todo' = todo \ {target} /\ reply = "ok"
      BY <1>17, <2>1, <2>4 DEF HearCompleted, Accepted
    <3>2. todo' # {} BY <2>1, <2>4, <3>1
    <3>3. \A id \in held : id \in todo' \/ id \subseteq settled BY <2>1, <3>1
    <3>4. PushesCover' BY <2>1, <3>1
    <3> QED BY <2>1, <3>1, <3>2, <3>3, <3>4
  <2> QED BY <2>2, <2>3, <2>4
<1>18. CASE Calling
  BY <1>18 DEF Calling, RequestStep, ScriptReturns, ScriptFails, Send, BackoffOver, CallEnds,
     ServeStays
<1>19. CASE Delivered
  BY <1>19 DEF Delivered, Deliver, RetryOrFail, CallEnds, ServeStays
<1>20. CASE Refuse
  BY <1>20 DEF Refuse, Served, ServeStays
<1>21. CASE Answer
  BY <1>21 DEF Answer, Served, ServeStays
<1>22. CASE AnswerComplete
  BY <1>22 DEF AnswerComplete, Served, ServeStays, Commit
<1>23. CASE TimePasses
  BY <1>23 DEF TimePasses, Tick, ServeStays
<1>24. CASE Break
  BY <1>24 DEF Break, NetworkError, RetryOrFail, CallEnds, ServeStays, Accepted
<1>25. ASSUME NEW id \in held, LateComplete(id) PROVE PlanInv'
  <2>1. /\ UNCHANGED <<call, reply, stage, outcome, target, todo, held, route, wanted>>
        /\ \/ settled' = settled \cup id /\ lost' = TRUE
           \/ UNCHANGED <<settled, lost>>
    BY <1>25 DEF LateComplete, Commit
  <2>2. id \subseteq Roots BY <1>25
  <2> QED BY <2>1, <2>2
<1>26. ASSUME NEW id \in held, CleanUp(id) PROVE PlanInv'
  BY <1>26 DEF CleanUp
<1>27. CASE Finished \/ UNCHANGED vars
  BY <1>27 DEF Finished, vars
<1> HIDE DEF PlanInv
<1> QED
  BY <1>2, <1>3, <1>4, <1>5, <1>6, <1>7, <1>8, <1>9, <1>10, <1>11, <1>12, <1>13, <1>14, <1>15,
     <1>16, <1>17, <1>18, <1>19, <1>20, <1>21, <1>22, <1>23, <1>24, <1>25, <1>26, <1>27
  DEF Next, ClientStep, ServerStep

-----------------------------------------------------------------------------
(***************************************************************************)
(* The pool of uploads.                                                    *)
(***************************************************************************)

\* The tasks of a path are its tasks.
LEMMA TasksOfPath ==
    ASSUME NEW p \in Paths, NEW t \in TasksOf(p)
    PROVE  t \in Tasks /\ t.of = p /\ t.kind \in {"extra", "nar", "metadata"}
<1>1. t \in {Task("extra", p), Task("nar", p), Task("metadata", p)} BY DEF TasksOf
<1> QED BY <1>1 DEF Tasks, Task

\* What is done stays done: objects stay in S3 and a NAR's upload ends once.
LEMMA DoneStays ==
    ASSUME NEW t \in Tasks, TaskDone(t), UNCHANGED offered, uploaded \subseteq uploaded',
           \A p \in Paths : nar[p] # "none" => nar'[p] = nar[p]
    PROVE  TaskDone(t)'
<1>1. PICK kind \in {"extra", "nar", "metadata"}, p \in Paths : t = Task(kind, p) BY DEF Tasks
<1>2. t.kind = kind /\ t.of = p BY <1>1 DEF Task
<1> QED BY <1>2 DEF TaskDone, ListingThere, NarThere, Offered

\* A step that takes no task out of the pool before it has ended well, or
\* fails, keeps the tasks.
LEMMA TasksKeptBy ==
    ASSUME TasksKept, Uploading, UNCHANGED <<offered, owner>>, uploaded \subseteq uploaded',
           \A p \in Paths : nar[p] # "none" => nar'[p] = nar[p],
           failed => failed',
           \A t \in queued \cup running : t \in queued' \cup running' \/ TaskDone(t)' \/ failed'
    PROVE  TasksKept'
<1>1. SUFFICES ASSUME ~failed', NEW p \in Paths, NEW t \in TasksOf(p)'
               PROVE  t \in queued' \cup running' \/ TaskDone(t)'
  BY DEF TasksKept
<1>2. t \in TasksOf(p) BY DEF TasksOf, HasNar, Offered
<1>3. CASE t \in queued \cup running BY <1>1, <1>3
<1>4. CASE TaskDone(t) BY <1>2, <1>4, TasksOfPath, DoneStays
<1> QED BY <1>1, <1>2, <1>3, <1>4 DEF TasksKept

\* A step of the pool that ends a task: its error is the pool's, and without
\* one its objects are there.
LEMMA EndsKeepsTasks ==
    ASSUME TasksKept, Uploading, NEW t, NEW ok \in BOOLEAN, Ends(t, ok), failed \in BOOLEAN,
           UNCHANGED <<offered, owner, nar>>, uploaded \subseteq uploaded', ok => TaskDone(t)'
    PROVE  TasksKept'
<1>1. /\ queued' = queued /\ running' = running \ {t} /\ failed' = (failed \/ ~ok)
  BY DEF Ends
<1>2. \A u \in queued \cup running : u \in queued' \cup running' \/ TaskDone(u)' \/ failed'
  <2>1. SUFFICES ASSUME NEW u \in queued \cup running
                 PROVE  u \in queued' \cup running' \/ TaskDone(u)' \/ failed'
    OBVIOUS
  <2>2. CASE u = t
    <3>1. CASE ok BY <2>2, <3>1
    <3>2. CASE ~ok BY <1>1, <3>2
    <3> QED BY <3>1, <3>2
  <2>3. CASE u # t BY <1>1, <2>3
  <2> QED BY <2>2, <2>3
<1>3. failed => failed' BY <1>1
<1> QED BY <1>2, <1>3, TasksKeptBy

\* Every step of a path's tasks keeps what is known of the pool.
LEMMA PathStepKeepsPool ==
    ASSUME UploadInv, Uploading, NEW p \in Paths, PathStep(p), UNCHANGED <<stage, outcome>>
    PROVE  UploadInv'
<1>1. UNCHANGED <<offered, owner, result, described, queued>>
  BY DEF PathStep, Extra, ExtraFails, Dump, ListingUp, ListingFails, NarUp, NarSuperseded, NarFails,
         NarTaskEnds, NarTaskFallsBack, Metadata, MetadataFails, taskVars, endVars, Ends
<1>2. running # {} /\ running' \subseteq running /\ failed' \in BOOLEAN
  BY DEF UploadInv, PoolTyped, PathStep, Extra, ExtraFails, Dump, ListingUp, ListingFails, NarUp,
         NarSuperseded, NarFails, NarTaskEnds, NarTaskFallsBack, Metadata, MetadataFails,
         MetadataTask, taskVars, Ends
<1>3. result = "none" /\ described = {}
  BY <1>2 DEF UploadInv, DescribedAtTheEnd
<1>4. PoolAtRest' /\ OwnersFit' /\ DescribedAtTheEnd' /\ DescribedIsUploaded'
  BY <1>1, <1>3
  DEF UploadInv, Uploading, PoolAtRest, OwnersFit, DescribedAtTheEnd, DescribedIsUploaded, Planning
<1>5. PoolTyped' /\ NarProgress' /\ TasksKept'
  <2> USE DEF narVars, taskVars, endVars
  <2>0. PoolTyped /\ NarProgress /\ TasksKept /\ failed \in BOOLEAN BY DEF UploadInv, PoolTyped
  <2>1. ASSUME UNCHANGED taskVars, PoolTyped', NarProgress', uploaded \subseteq uploaded',
               \A q \in Paths : nar[q] # "none" => nar'[q] = nar[q]
        PROVE  PoolTyped' /\ NarProgress' /\ TasksKept'
    BY <1>1, <2>0, <2>1, TasksKeptBy
  <2>2. ASSUME NEW t, NEW ok \in BOOLEAN, Ends(t, ok), UNCHANGED <<offered, owner, nar, dumped,
        fallback, listing>>,
               uploaded \subseteq uploaded', ok => TaskDone(t)'
        PROVE  PoolTyped' /\ NarProgress' /\ TasksKept'
    <3>1. PoolTyped' BY <2>0, <2>2 DEF PoolTyped, Ends
    <3>2. NarProgress' BY <2>0, <2>2 DEF NarProgress, Uploading, Offered
    <3>3. TasksKept' BY <2>0, <2>2, EndsKeepsTasks
    <3> QED BY <3>1, <3>2, <3>3
  <2>3. ASSUME NEW found \in BOOLEAN, Extra(p, found) PROVE PoolTyped' /\ NarProgress' /\ TasksKept'
    <3>1. TaskDone(Task("extra", p))' BY DEF TaskDone, Task
    <3> QED BY <2>2, <2>3, <3>1 DEF Extra
  <2>4. CASE ExtraFails(p) BY <2>2, <2>4 DEF ExtraFails
  <2>5. CASE NarTaskEnds(p)
    <3> DEFINE ok == nar[p] # "failed" /\ listing[p] # "failed"
    <3>1. /\ Ends(Task("nar", p), ok)
          /\ UNCHANGED <<offered, owner, nar, dumped, fallback, listing, uploaded>>
          /\ nar[p] # "none" /\ listing[p] # "started" /\ ~NeedsFallback(p)
      BY <2>5 DEF NarTaskEnds
    <3>2. ok => TaskDone(Task("nar", p))'
      <4>1. SUFFICES ASSUME ok PROVE TaskDone(Task("nar", p))'
        OBVIOUS
      <4>2. nar[p] \in {"stored", "superseded"} /\ listing[p] \in {"none", "stored"}
        BY <2>0, <3>1, <4>1 DEF PoolTyped
      <4>3. NarThere(p) /\ ListingThere(p)
        BY <2>0, <3>1, <4>2 DEF NarProgress, NarThere, ListingThere, NeedsFallback
      <4>4. Task("nar", p).kind = "nar" /\ Task("nar", p).of = p BY DEF Task
      <4> QED BY <3>1, <4>3, <4>4 DEF TaskDone, NarThere, ListingThere, Offered
    <3>3. ok \in BOOLEAN OBVIOUS
    <3> HIDE DEF ok
    <3> QED BY <2>2, <3>1, <3>2, <3>3
  <2>6. CASE Metadata(p)
    <3>1. PICK t \in MetadataTask(p) :
              /\ uploaded' = IF Offered("listing", p) THEN uploaded \cup {Object("listing", p)}
                             ELSE uploaded
              /\ Ends(t, TRUE)
              /\ UNCHANGED <<offered, owner, nar, dumped, fallback, listing>>
      BY <2>6 DEF Metadata
    <3>2. ListingThere(p)' BY <3>1 DEF ListingThere, Offered
    <3>3. t = Task("metadata", p) \/ (t = Task("nar", p) /\ nar[p] = "superseded")
      BY <2>0, <3>1 DEF MetadataTask, NarProgress
    <3>4. TaskDone(t)' BY <3>1, <3>2, <3>3 DEF TaskDone, Task, NarThere
    <3> QED BY <2>2, <3>1, <3>4
  <2>7. CASE MetadataFails(p) BY <2>2, <2>7 DEF MetadataFails
  <2> USE DEF PoolTyped, NarProgress, Uploading, Offered
  <2>8. CASE Dump(p) BY <2>0, <2>1, <2>8 DEF Dump
  <2>9. CASE ListingUp(p) BY <2>0, <2>1, <2>9 DEF ListingUp
  <2>10. CASE ListingFails(p) BY <2>0, <2>1, <2>10 DEF ListingFails
  <2>11. CASE NarUp(p) BY <2>0, <2>1, <2>11 DEF NarUp
  <2>12. CASE NarSuperseded(p) BY <2>0, <2>1, <2>12 DEF NarSuperseded
  <2>13. CASE NarFails(p) BY <2>0, <2>1, <2>13 DEF NarFails
  <2>14. CASE NarTaskFallsBack(p) BY <2>0, <2>1, <2>14 DEF NarTaskFallsBack, NeedsFallback
  <2> HIDE DEF PoolTyped, NarProgress
  <2> QED
    BY <2>3, <2>4, <2>5, <2>6, <2>7, <2>8, <2>9, <2>10, <2>11, <2>12, <2>13, <2>14 DEF PathStep
<1> QED BY <1>4, <1>5 DEF UploadInv

\* So do the steps of the pool itself: a worker takes a task, and when none
\* is left the narinfos are described.
LEMMA PoolStepKeepsPool ==
    ASSUME UploadInv, Uploading, UploadStep, UNCHANGED <<stage, outcome>>
    PROVE  UploadInv'
<1>1. ASSUME NEW t \in Tasks, Go(t) PROVE UploadInv'
  <2>1. /\ t \in queued /\ queued' = queued \ {t} /\ running' = running \cup {t}
        /\ UNCHANGED <<offered, owner, nar, dumped, fallback, listing, uploaded, failed, result,
                       described>>
    BY <1>1 DEF Go, narVars, endVars
  <2>2. result = "none" /\ described = {}
    BY <2>1 DEF UploadInv, DescribedAtTheEnd
  <2>3. TasksKept'
    <3>1. \A u \in queued \cup running : u \in queued' \cup running' BY <2>1
    <3> QED BY <2>1, <3>1, TasksKeptBy DEF UploadInv
  <2>4. PoolTyped' /\ NarProgress' BY <2>1 DEF UploadInv, PoolTyped, NarProgress, Uploading, Offered
  <2>5. PoolAtRest' /\ OwnersFit' BY <2>1 DEF UploadInv, PoolAtRest, OwnersFit, Uploading, Planning
  <2>6. DescribedAtTheEnd' /\ DescribedIsUploaded'
    BY <2>1, <2>2 DEF DescribedAtTheEnd, DescribedIsUploaded, Uploading
  <2> QED BY <2>3, <2>4, <2>5, <2>6 DEF UploadInv
<1>2. CASE Return
  <2>1. /\ queued = {} /\ running = {} /\ result' # "none"
        /\ described' = IF failed THEN {} ELSE {p \in Paths : Offered("narinfo", p)}
        /\ UNCHANGED <<offered, owner, queued, running, nar, dumped, fallback, listing, uploaded,
                       failed>>
    BY <1>2 DEF Return, narVars, taskVars
  <2>2. DescribedIsUploaded'
    <3>1. SUFFICES ASSUME NEW p \in Paths, Offered("narinfo", p), ~failed
                   PROVE  /\ ListingThere(p)
                          /\ Offered("nar", NarOf[p]) =>
                                \/ Object("nar", NarOf[p]) \in uploaded
                                \/ nar[owner[NarOf[p]]] = "superseded"
      BY <2>1 DEF DescribedIsUploaded, ListingThere, Offered
    <3>2. \A q \in Paths : \A t \in TasksOf(q) : TaskDone(t)
      BY <2>1, <3>1 DEF UploadInv, TasksKept
    <3>3. \A q \in Paths : HasNar(q) => ListingThere(q) /\ NarThere(q)
      <4>1. SUFFICES ASSUME NEW q \in Paths, HasNar(q) PROVE ListingThere(q) /\ NarThere(q)
        OBVIOUS
      <4>2. Task("nar", q) \in TasksOf(q) BY <4>1 DEF TasksOf, Task
      <4> QED BY <3>2, <4>2 DEF TaskDone, Task
    <3>4. ListingThere(p)
      <4>1. CASE HasNar(p) BY <3>3, <4>1
      <4>2. CASE ~HasNar(p)
        <5>1. Task("metadata", p) \in TasksOf(p) BY <3>1, <4>2 DEF TasksOf, Task
        <5> QED BY <3>2, <5>1 DEF TaskDone, Task
      <4> QED BY <4>1, <4>2
    <3>5. ASSUME Offered("nar", NarOf[p])
          PROVE  Object("nar", NarOf[p]) \in uploaded \/ nar[owner[NarOf[p]]] = "superseded"
      <4> DEFINE q == owner[NarOf[p]]
      <4>1. q \in Paths /\ NarOf[q] = NarOf[p]
        BY PathsAssumption DEF UploadInv, OwnersFit, Uploading
      <4>2. HasNar(q) BY <3>5, <4>1 DEF HasNar
      <4> QED BY <3>3, <4>1, <4>2 DEF NarThere
    <3> QED BY <3>4, <3>5
  <2>3. TasksKept' BY <2>1, TasksKeptBy DEF UploadInv
  <2>4. PoolTyped' /\ NarProgress' BY <2>1 DEF UploadInv, PoolTyped, NarProgress, Uploading, Offered
  <2>5. PoolAtRest' /\ OwnersFit' BY <2>1 DEF UploadInv, PoolAtRest, OwnersFit, Uploading, Planning
  <2>6. DescribedAtTheEnd' BY <2>1 DEF DescribedAtTheEnd, Uploading
  <2> QED BY <2>2, <2>3, <2>4, <2>5, <2>6 DEF UploadInv
<1> QED BY <1>1, <1>2, PathStepKeepsPool DEF UploadStep

\* The uploads start with every task in the queue.
LEMMA StartKeepsPool == UploadInv /\ StartUploads => UploadInv'
<1> SUFFICES ASSUME UploadInv, StartUploads PROVE UploadInv'
  OBVIOUS
<1>1. /\ stage = "upload" /\ outcome = "none" /\ stage' = "uploading" /\ outcome' = "none"
      /\ queued' = UNION {TasksOf(p) : p \in Paths}
      /\ UNCHANGED <<offered, owner, running, failed, nar, dumped, fallback, listing, uploaded,
                     result, described>>
  BY DEF StartUploads, Running, GotoWith, Goto, UploadPendingObjects, narVars, endVars
<1>2. /\ running = {} /\ dumped = {} /\ fallback = {} /\ result = "none" /\ described = {}
      /\ nar = [p \in Paths |-> "none"] /\ listing = [p \in Paths |-> "none"] /\ failed = FALSE
  BY <1>1 DEF UploadInv, PoolAtRest
<1>3. queued' \subseteq Tasks
  <2>1. \A p \in Paths : \A t \in TasksOf(p) : t \in Tasks BY TasksOfPath
  <2> QED BY <1>1, <2>1
<1>4. TasksKept'
  <2>1. \A p \in Paths : TasksOf(p)' = TasksOf(p) BY <1>1 DEF TasksOf, HasNar, Offered
  <2>2. \A p \in Paths : TasksOf(p) \subseteq queued' BY <1>1
  <2> QED BY <2>1, <2>2 DEF TasksKept
<1>5. PoolTyped' BY <1>1, <1>2, <1>3 DEF PoolTyped
<1>6. NarProgress' BY <1>1, <1>2 DEF NarProgress
<1>7. PoolAtRest' /\ OwnersFit' /\ DescribedAtTheEnd' /\ DescribedIsUploaded'
  BY <1>1, <1>2
  DEF UploadInv, PoolAtRest, OwnersFit, DescribedAtTheEnd, DescribedIsUploaded, Planning, Uploading
<1> QED BY <1>4, <1>5, <1>6, <1>7 DEF UploadInv

\* A step that leaves the pool alone and does not start or take back the
\* uploads.
LEMMA StageKeepsPool ==
    ASSUME UploadInv,
           UNCHANGED <<owner, queued, running, nar, dumped, listing, fallback, uploaded, failed,
                       result, described>>,
           offered' = offered \/ stage = "create",
           outcome' = outcome \/ outcome = "none",
           \/ stage' = stage
           \/ stage \in Planning /\ stage' \in Planning \ {"route"}
           \/ stage \in {"route", "create"} /\ stage' \in {"create", "upload"}
           \/ stage \in {"sign", "narinfos"} /\ stage' \in {"narinfos", "complete"},
           outcome # "none" => stage' = stage
    PROVE  UploadInv'
<1>1. PoolTyped' BY DEF UploadInv, PoolTyped
<1>2. PoolAtRest' BY DEF UploadInv, PoolAtRest, Planning
<1>3. OwnersFit' BY DEF UploadInv, OwnersFit, Planning
<1>4. DescribedAtTheEnd' BY DEF UploadInv, DescribedAtTheEnd, Planning, Uploading
<1>5. DescribedIsUploaded'
  BY DEF UploadInv, DescribedIsUploaded, PoolAtRest, Offered
<1>6. NarProgress'
  BY DEF UploadInv, NarProgress, Uploading, Offered, Planning
<1>7. TasksKept'
  BY DEF UploadInv, TasksKept, Uploading, Offered, Planning, TasksOf, HasNar, TaskDone,
     ListingThere, NarThere
<1> QED BY <1>1, <1>2, <1>3, <1>4, <1>5, <1>6, <1>7 DEF UploadInv

\* Every step keeps what is known of the pool.
LEMMA NextUpload == UploadInv /\ [Next]_vars => UploadInv'
<1> SUFFICES ASSUME UploadInv, [Next]_vars PROVE UploadInv'
  OBVIOUS
<1> USE DEF uploadVars, taskVars, narVars, endVars, Running, Returns, Goto, GotoWith
<1>1. CASE UNCHANGED <<uploadVars, stage, outcome>>
  BY <1>1, StageKeepsPool
<1>2. CASE AskPresent \/ AskConfig \/ AskReport \/ AskConfigAgain \/ AskCreate \/ AskSign \/
      AskComplete
  BY <1>1, <1>2 DEF AskPresent, AskConfig, AskReport, AskConfigAgain, AskCreate, AskSign,
     AskComplete, Calls
<1>3. CASE Calling \/ Delivered \/ Refuse \/ Answer \/ AnswerComplete \/ TimePasses \/ Break
  BY <1>1, <1>3 DEF Calling, Delivered, Refuse, Answer, AnswerComplete, TimePasses, Break,
     ServeStays
<1>4. ASSUME NEW id \in held, LateComplete(id) \/ CleanUp(id) PROVE UploadInv'
  BY <1>1, <1>4 DEF LateComplete, CleanUp
<1>5. CASE Finished \/ UNCHANGED vars
  BY <1>1, <1>5 DEF Finished, vars
<1>6. CASE HearPresent BY <1>6, StageKeepsPool DEF HearPresent, Answered, Planning
<1>7. CASE HearConfig BY <1>7, StageKeepsPool DEF HearConfig, Answered, Planning
<1>8. CASE HearReported BY <1>8, StageKeepsPool DEF HearReported, Answered, Planning
<1>9. CASE StoreFails BY <1>9, StageKeepsPool DEF StoreFails
<1>10. CASE Prepare
  <2>1. /\ stage = "prepare" /\ stage' = "route" /\ UNCHANGED outcome
        /\ owner' \in Owners(UNION {ClosureOf[r] : r \in wanted})
        /\ UNCHANGED <<offered, queued, running, nar, dumped, listing, fallback, uploaded, failed,
                       result, described>>
    BY <1>10 DEF Prepare
  <2>2. OwnersFit' BY <2>1 DEF OwnersFit, Owners
  <2>3. PoolTyped' /\ PoolAtRest' BY <2>1 DEF UploadInv, PoolTyped, PoolAtRest, Planning
  <2>4. TasksKept' /\ NarProgress' BY <2>1 DEF TasksKept, NarProgress, Uploading
  <2>5. described' = {} BY <2>1 DEF UploadInv, PoolAtRest, Planning
  <2>6. DescribedAtTheEnd' /\ DescribedIsUploaded'
    BY <2>1, <2>5 DEF DescribedAtTheEnd, DescribedIsUploaded, Uploading
  <2> QED BY <2>2, <2>3, <2>4, <2>6 DEF UploadInv
<1>11. CASE HearConfigAgain BY <1>11, StageKeepsPool DEF HearConfigAgain, Answered, UseRoute
<1>12. CASE KeepConfig BY <1>12, StageKeepsPool DEF KeepConfig, UseRoute
<1>13. CASE HearCreated BY <1>13, StageKeepsPool DEF HearCreated, Answered
<1>14. CASE HearNotCreated BY <1>14, StageKeepsPool DEF HearNotCreated, Answered, UseRoute
<1>15. CASE StartUploads BY <1>15, StartKeepsPool
<1>16. CASE Upload BY <1>16, PoolStepKeepsPool DEF Upload, Uploading
<1>17. CASE Uploaded
  <2>1. /\ offered' = {} /\ ~failed' /\ failed' \in BOOLEAN
        /\ UNCHANGED <<queued, running, described>>
        /\ nar' = [p \in Paths |-> "none"] /\ listing' = [p \in Paths |-> "none"]
        /\ stage' \in {"uploading", "sign", "complete"}
        /\ stage' = "uploading" => outcome' # "none"
    BY <1>17 DEF Uploaded, UploadForgotten
  <2>2. PoolTyped' BY <2>1 DEF UploadInv, PoolTyped
  <2>3. PoolAtRest' /\ OwnersFit' /\ TasksKept' /\ NarProgress'
    BY <2>1 DEF PoolAtRest, OwnersFit, TasksKept, NarProgress, Uploading, Planning
  <2>4. DescribedAtTheEnd' /\ DescribedIsUploaded'
    BY <2>1 DEF DescribedAtTheEnd, DescribedIsUploaded, Uploading, Offered
  <2> QED BY <2>2, <2>3, <2>4 DEF UploadInv
<1>18. CASE HearSigned BY <1>18, StageKeepsPool DEF HearSigned, Answered
<1>19. CASE UploadNarinfos BY <1>19, StageKeepsPool DEF UploadNarinfos
<1>20. CASE HearCompleted BY <1>20, StageKeepsPool DEF HearCompleted, Answered
<1> QED
  BY <1>2, <1>3, <1>4, <1>5, <1>6, <1>7, <1>8, <1>9, <1>10, <1>11, <1>12, <1>13, <1>14,
     <1>15, <1>16, <1>17, <1>18, <1>19, <1>20
  DEF Next, ClientStep, ServerStep

-----------------------------------------------------------------------------

\* A push begins with every root wanted, nothing asked and nothing uploaded.
LEMMA InitInv == Init => Inv
<1> SUFFICES ASSUME Init PROVE Inv
  OBVIOUS
<1>1. TokenInv
  BY DEF Init, RequestInit, TokenInv, Tokens, NoToken, Token, NoTokenYet, NoAnswerYet,
     HeaderWasYoung,
         RefusedAfterAQuarter
<1>2. PlanInv
  BY DEF Init, RequestInit, PlanInv, NoAnswerYet, CallInPlace, PushesCover, CompletedIsSettled,
         CommitsAreTold, OkMeansSettled, Planning, Created
<1>3. UploadInv
  BY DEF Init, UploadInit, UploadInv, PoolTyped, PoolAtRest, OwnersFit, TasksKept, NarProgress,
         DescribedAtTheEnd, DescribedIsUploaded, Uploading, Planning
<1> QED BY <1>1, <1>2, <1>3 DEF Inv

\* The token, the plan and the pool of a push are always as Inv says.
THEOREM PushPathsInvariant == Spec => []Inv
<1>1. Inv /\ [Next]_vars => Inv'
  BY NextToken, NextPlan, NextUpload DEF Inv
<1> QED BY InitInv, <1>1, PTL DEF Spec

\* PushPaths tells its caller that all is well only if every root was in the
\* cache already, was too large to take or is committed: whichever API the
\* server has, however the roots' closures overlap, whatever was retried.
THEOREM OkMeansSettledAlways == Spec => []OkMeansSettled
BY PushPathsInvariant, PTL DEF Inv, PlanInv

\* A push whose every root was committed is reported as failed only if the
\* client was not told of a commit (doWithRetry repeats a complete that is
\* not idempotent): a push on the list of completes that was not committed
\* holds a wanted root that is not settled.
THEOREM CommittedIsReportedAlways == Spec => []CommittedIsReported
<1>1. PlanInv => CommittedIsReported
  <2>1. SUFFICES ASSUME PlanInv, outcome = "error", held # {}, UNION held = wanted,
                        wanted \subseteq settled, ~lost
                 PROVE  FALSE
    BY DEF CommittedIsReported
  <2>2. call = "none" /\ reply = "none"
    BY <2>1 DEF PlanInv, CallInPlace, NoAnswerYet
  <2>3. \A id \in held \cup todo : id # {} /\ id \subseteq settled
    BY <2>1 DEF PlanInv, PushesCover
  <2>4. CASE stage = "complete"
    <3>1. PICK id \in todo : TRUE BY <2>1, <2>4 DEF PlanInv, CommitsAreTold
    <3>2. id \cap settled = {} BY <2>1, <2>2, <2>4, <3>1 DEF PlanInv, CommitsAreTold
    <3> QED BY <2>3, <3>1, <3>2
  <2>5. CASE stage # "complete"
    <3>1. wanted \cap settled = {} BY <2>1, <2>5 DEF PlanInv, CommitsAreTold
    <3>2. PICK id \in held : TRUE BY <2>1
    <3>3. id # {} /\ id \subseteq wanted BY <2>1, <3>2 DEF PlanInv, PushesCover
    <3> QED BY <2>1, <3>1, <3>3
  <2> QED BY <2>4, <2>5
<1> QED BY <1>1, PushPathsInvariant, PTL DEF Inv

\* A call is refused for an expired token only if it has lasted a quarter of
\* the token's lifetime, whatever lifetimes the script's tokens have
\* (ScriptToken: the cache hands a token out for three quarters of it).
THEOREM RefusedAfterAQuarterAlways == Spec => []RefusedAfterAQuarter
BY PushPathsInvariant, PTL DEF Inv, TokenInv

\* A narinfo is described only when its NAR and its listing are in S3 or
\* were there before, for any paths that share NARs, any number of workers
\* and any failures (UploadPendingObjects, uploadNARWithListing).
THEOREM DescribedIsUploadedAlways == Spec => []DescribedIsUploaded
BY PushPathsInvariant, PTL DEF Inv, UploadInv
=============================================================================
