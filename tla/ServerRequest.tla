--------------------------- MODULE ServerRequest ---------------------------
(***************************************************************************)
(* One call of the client to the server at a time (client/retry.go,        *)
(* client/token.go, client/api_request.go): it takes a token from the      *)
(* token source, here a script whose tokens expire (ScriptToken), waits    *)
(* for the rate limiter, sends its request and retries what may be         *)
(* temporary. What the server does with a request, and what is lost on the *)
(* way, is said by the module that extends this one.                       *)
(*                                                                         *)
(* A token is its lifetime and its age. The limiter's bucket and the       *)
(* backoff only decide how long a call waits, which may be any time here.  *)
(***************************************************************************)
EXTENDS Naturals, FiniteSets, FiniteSetsExt

CONSTANTS
    MaxRetries, \* Retry.MaxRetries
    Timeout,    \* Retry.Timeout
    Lifetimes   \* lifetimes the script's tokens have left; 0 has expired

ASSUME RequestAssumption ==
    /\ MaxRetries \in Nat \ {0} /\ Timeout \in Nat
    /\ Lifetimes \subseteq Nat /\ Lifetimes # {} /\ IsFiniteSet(Lifetimes)

VARIABLES
    cached,     \* the token source's cached token
    call,       \* where the call is
    header,     \* the token in its Authorization header
    attempt,    \* attempts before this one, at most MaxRetries
    elapsed,    \* time since it had its token, up to the Horizon
    reply       \* the server's answer, or how the call failed

requestVars == <<cached, call, header, attempt, elapsed, reply>>

Horizon == Max(Lifetimes \cup {Timeout})

Token(life) == [life |-> life, age |-> 0]
NoToken     == Token(0)
Expired(t)  == t.age >= t.life
Older(t)    == [t EXCEPT !.age = Min({@ + 1, t.life})]

RequestInit ==
    /\ cached = NoToken /\ header = NoToken
    /\ call = "none" /\ reply = "none"
    /\ attempt = 0 /\ elapsed = 0

\* Time passes.
Tick ==
    /\ cached' = Older(cached)
    /\ header' = Older(header)
    /\ elapsed' = IF call = "none" THEN 0 ELSE Min({elapsed + 1, Horizon})
    /\ UNCHANGED <<call, attempt, reply>>

-----------------------------------------------------------------------------
(***************************************************************************)
(* The token source.                                                       *)
(***************************************************************************)

\* Mutant: the token is used until it has expired by its own date.
CacheHoldsToTheEnd == cached.age <= cached.life /\ cached.life # 0

\* A cached token is handed out for three quarters of its lifetime; one that
\* had expired already is not cached.
CacheHolds == 4 * cached.age < 3 * cached.life

\* DoServerRequest takes the cached token or runs the script.
CallServer ==
    /\ call = "none"
    /\ IF CacheHolds THEN header' = cached /\ call' = "limit"
                     ELSE call' = "script" /\ UNCHANGED header
    /\ UNCHANGED <<cached, attempt, elapsed, reply>>

ScriptReturns(life) ==
    /\ call = "script"
    /\ cached' = Token(life) /\ header' = Token(life)
    /\ call' = "limit" /\ elapsed' = 0
    /\ UNCHANGED <<attempt, reply>>

CallEnds(r) == call' = "answered" /\ reply' = r

ScriptFails ==
    /\ call = "script"
    /\ CallEnds("failed")
    /\ UNCHANGED <<cached, header, attempt, elapsed>>

-----------------------------------------------------------------------------
(***************************************************************************)
(* doWithRetry.                                                            *)
(***************************************************************************)

\* The limiter lets the call go and the request is sent.
Send ==
    /\ call = "limit"
    /\ call' = "sent"
    /\ UNCHANGED <<cached, header, attempt, elapsed, reply>>

\* Both limits are reached.
Exhausted == attempt >= MaxRetries /\ elapsed >= Timeout

\* Mutant: nothing ends the retries.
RetryForever ==
    /\ call' = "backoff" /\ reply' = "none"
    /\ attempt' = Min({attempt + 1, MaxRetries})

RetryOrFail ==
    IF Exhausted
    THEN CallEnds("failed") /\ UNCHANGED attempt
    ELSE /\ call' = "backoff" /\ reply' = "none"
         /\ attempt' = Min({attempt + 1, MaxRetries})

\* The server has handled the request.
Served(r) ==
    /\ call = "sent"
    /\ call' = "served" /\ reply' = r
    /\ UNCHANGED <<cached, header, attempt, elapsed>>

\* Its answer arrives: 408, 429 and most 5xx are tried again, any other
\* status goes to the caller.
Deliver ==
    /\ call = "served"
    /\ IF reply = "temporary" THEN RetryOrFail
                              ELSE call' = "answered" /\ UNCHANGED <<attempt, reply>>
    /\ UNCHANGED <<cached, header, elapsed>>

\* The connection breaks before or after the server has handled the request.
NetworkError ==
    /\ call \in {"sent", "served"}
    /\ RetryOrFail
    /\ UNCHANGED <<cached, header, elapsed>>

\* The backoff, or what Retry-After asks for, is over.
BackoffOver ==
    /\ call = "backoff"
    /\ call' = "limit"
    /\ UNCHANGED <<cached, header, attempt, elapsed, reply>>

\* The caller has the answer and the call's locals are gone.
HangUp ==
    /\ call = "answered"
    /\ call' = "none" /\ reply' = "none"
    /\ header' = NoToken /\ attempt' = 0 /\ elapsed' = 0
    /\ UNCHANGED cached

RequestStep ==
    \/ \E life \in Lifetimes : ScriptReturns(life)
    \/ ScriptFails
    \/ Send
    \/ BackoffOver

-----------------------------------------------------------------------------
\* A call is refused for an expired token only if it has lasted a quarter of
\* the token's lifetime, in the limiter, in backoff or under way: the cache
\* never hands out a token with less left, however long ago and for whichever
\* call the script was run. The token is resolved once per call and every
\* retry sends it again.
RefusedAfterAQuarter == reply = "refused" => 4 * elapsed >= header.life
=============================================================================
