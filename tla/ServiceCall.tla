---------------------------- MODULE ServiceCall ----------------------------
(***************************************************************************)
(* A call of an external service: GitHubClient._request and complete() of  *)
(* the three providers, with retry_call (resilience/retry.py) around the   *)
(* one attempt that each of them makes.  The rate limiter is asked once    *)
(* per call; what it does is in RateLimiter.  Time is counted in half      *)
(* seconds and only passes in the waits between attempts.                  *)
(*                                                                         *)
(* The service is the environment.  It answers, asks the client to slow    *)
(* down, is unavailable, refuses the request, or the connection is lost;   *)
(* or it answers what the client cannot read: no JSON, or a response that  *)
(* parse_response() does not expect.  That request was carried out.  If    *)
(* the service is unavailable or the connection is lost, it may have been. *)
(***************************************************************************)
EXTENDS Integers

CONSTANTS
    Hint,     \* the waits a service may ask for (Retry-After)
    MaxCalls  \* bound: calls the program makes

NoHint == -1  \* no Retry-After header
BadHint == -2 \* one that is not a number: an HTTP date

ASSUME ServiceAssumption == Hint \subseteq Nat /\ MaxCalls \in Nat

Client == {"github", "anthropic", "groq", "gemini"}

VARIABLES
    client,     \* whose call it is
    pc,         \* "idle", "attempt" or "backoff"
    attempt,    \* the loop variable of retry_call
    delay,      \* how long to sleep before the next attempt
    now,        \* the time slept in this call
    notBefore,  \* when the service wants to hear from the client again
    reply,      \* the service's last answer
    result,     \* how the last call ended: "none", "returned" or "raised"
    effects,    \* how often this call's request was carried out
    doubtful,   \* failures of this call at which it may have been
    sent,       \* requests sent so far, in all calls
    calls       \* calls begun so far

vars == <<client, pc, attempt, delay, now, notBefore, reply, result,
          effects, doubtful, sent, calls>>

-----------------------------------------------------------------------------
(* BackoffPolicy, and the policy of each client.                           *)

Policy ==
    CASE client \in {"github", "anthropic"} -> [attempts |-> 4, base |-> 1, max |-> 40]
      [] client = "groq"                    -> [attempts |-> 5, base |-> 4, max |-> 90]
      [] client = "gemini"                  -> [attempts |-> 6, base |-> 10, max |-> 120]

Lower(a, b) == IF a <= b THEN a ELSE b

(* Faulty: the hint is not capped.                                         *)
DelayForUncapped(n, hint) ==
    IF hint # NoHint
      THEN hint
      ELSE Lower(Policy.base * 2 ^ (n - 1), Policy.max)

(* delay_for: the service's hint, or exponential backoff, within limits.   *)
DelayFor(n, hint) ==
    IF hint # NoHint
      THEN Lower(hint, Policy.max)
      ELSE Lower(Policy.base * 2 ^ (n - 1), Policy.max)

(***************************************************************************)
(* How a failed attempt is classified: the exception raised for it may be  *)
(* retryable or not.  GitHubClient does not handle the exceptions of the   *)
(* HTTP library, nor a Retry-After that float() rejects.  The Gemini       *)
(* client goes by the wording of the error: a lost connection may be       *)
(* called "unavailable" or not, of the 5xx answers 502 is not among the    *)
(* words it looks for, and "generate" contains "rate".  What cannot be     *)
(* read raises something that is no PatchworkError: in GitHubClient within *)
(* the attempt, in the others in parse_response() after retry_call, or in  *)
(* the SDK, where again Gemini's goes by the wording.                      *)
(***************************************************************************)
MayRetry(kind, hint) ==
    \/ kind = "throttled" /\ ~(client = "github" /\ hint = BadHint)
    \/ kind = "unavailable"
    \/ kind = "lost" /\ client # "github"
    \/ kind \in {"refused", "unreadable"} /\ client = "gemini"

MayRaise(kind, hint) ==
    \/ kind = "throttled" /\ client = "github" /\ hint = BadHint
    \/ kind = "unavailable" /\ client = "gemini"
    \/ kind = "lost" /\ client \in {"github", "gemini"}
    \/ kind \in {"refused", "unreadable"}

(* The hint that reaches delay_for; the Gemini client never reads one.     *)
UsableHint(kind, hint) ==
    IF kind = "throttled" /\ hint # BadHint /\ client # "gemini" THEN hint ELSE NoHint

-----------------------------------------------------------------------------

(* limiter.acquire(), then the first attempt.                              *)
Begin ==
    /\ pc = "idle" /\ calls < MaxCalls
    /\ pc' = "attempt" /\ attempt' = 1
    /\ delay' = 0 /\ now' = 0 /\ notBefore' = 0
    /\ reply' = "none" /\ result' = "none"
    /\ effects' = 0 /\ doubtful' = 0
    /\ calls' = calls + 1
    /\ UNCHANGED <<client, sent>>

(* Faulty: a success does not leave the loop.                              *)
SucceedAndGoOn ==
    /\ pc = "attempt"
    /\ sent' = sent + 1 /\ effects' = effects + 1
    /\ reply' = "ok"
    /\ IF attempt = Policy.attempts
         THEN pc' = "idle" /\ result' = "returned" /\ UNCHANGED attempt
         ELSE attempt' = attempt + 1 /\ UNCHANGED <<pc, result>>
    /\ UNCHANGED <<client, delay, now, notBefore, doubtful, calls>>

Succeed ==
    /\ pc = "attempt"
    /\ sent' = sent + 1 /\ effects' = effects + 1
    /\ reply' = "ok"
    /\ pc' = "idle" /\ result' = "returned"
    /\ UNCHANGED <<client, attempt, delay, now, notBefore, doubtful, calls>>

(* Failures at which the request may have been carried out.                *)
Doubtful == {"unavailable", "lost", "unreadable"}

(* The service's part of a failed attempt.                                 *)
Fails(kind, hint) ==
    /\ pc = "attempt"
    /\ sent' = sent + 1 /\ reply' = kind
    /\ IF kind \in Doubtful
         THEN /\ doubtful' = doubtful + 1 /\ effects' \in {effects, effects + 1}
              /\ kind = "unreadable" => effects' = effects + 1
         ELSE UNCHANGED <<doubtful, effects>>
    /\ notBefore' = IF kind = "throttled" /\ hint >= 0 THEN now + hint ELSE notBefore
    /\ UNCHANGED <<client, now, calls>>

Kind == {"throttled", "unavailable", "refused", "lost", "unreadable"}

Answer(kind) == IF kind = "throttled" THEN Hint \cup {NoHint, BadHint} ELSE {NoHint}

(* The exception is not retryable, or this was the last attempt.           *)
Raise ==
    /\ \E kind \in Kind : \E hint \in Answer(kind) :
         /\ Fails(kind, hint)
         /\ MayRaise(kind, hint) \/ attempt = Policy.attempts
    /\ pc' = "idle" /\ result' = "raised"
    /\ UNCHANGED <<attempt, delay>>

(* Faulty: one attempt too many.                                           *)
BackOffOnceMore ==
    /\ \E kind \in Kind : \E hint \in Answer(kind) :
         /\ Fails(kind, hint)
         /\ MayRetry(kind, hint) /\ attempt <= Policy.attempts
         /\ delay' = DelayFor(attempt, UsableHint(kind, hint))
    /\ pc' = "backoff"
    /\ UNCHANGED <<attempt, result>>

(* The exception is retryable, and there are attempts left.                *)
BackOff ==
    /\ \E kind \in Kind : \E hint \in Answer(kind) :
         /\ Fails(kind, hint)
         /\ MayRetry(kind, hint) /\ attempt < Policy.attempts
         /\ delay' = DelayFor(attempt, UsableHint(kind, hint))
    /\ pc' = "backoff"
    /\ UNCHANGED <<attempt, result>>

(* Faulty: sleeps on until the service is ready, with a wait used up.      *)
SleepUntilReady ==
    /\ pc = "backoff"
    /\ now' = now + delay /\ delay' = 0
    /\ IF now' < notBefore
         THEN UNCHANGED <<pc, attempt>>
         ELSE pc' = "attempt" /\ attempt' = attempt + 1
    /\ UNCHANGED <<client, notBefore, reply, result, effects, doubtful,
                   sent, calls>>

Sleep ==
    /\ pc = "backoff"
    /\ now' = now + delay
    /\ attempt' = attempt + 1
    /\ pc' = "attempt"
    /\ UNCHANGED <<client, delay, notBefore, reply, result, effects, doubtful,
                   sent, calls>>

AllMade == pc = "idle" /\ calls = MaxCalls

Done == AllMade /\ UNCHANGED vars

Init ==
    /\ client \in Client
    /\ pc = "idle" /\ attempt = 0 /\ delay = 0 /\ now = 0 /\ notBefore = 0
    /\ reply = "none" /\ result = "none"
    /\ effects = 0 /\ doubtful = 0
    /\ sent = 0 /\ calls = 0

Next == Begin \/ Succeed \/ Raise \/ BackOff \/ Sleep \/ Done

Spec == Init /\ [][Next]_vars

(* Requests have time-outs and sleeps end: the caller is never left        *)
(* waiting for one step.                                                   *)
FairSpec == Spec /\ WF_vars(Next)

-----------------------------------------------------------------------------
(* Properties.                                                             *)

(* Every variable has its type.                                            *)
TypeOK ==
    /\ client \in Client
    /\ pc \in {"idle", "attempt", "backoff"}
    /\ attempt \in 0 .. Policy.attempts
    /\ delay \in Nat /\ now \in Nat /\ notBefore \in Nat
    /\ reply \in Kind \cup {"none", "ok"}
    /\ result \in {"none", "returned", "raised"}
    /\ effects \in Nat /\ doubtful \in Nat
    /\ sent \in Nat /\ calls \in 0 .. MaxCalls

(* A request is carried out twice only after a failure at which the        *)
(* service may have carried it out, and if the call ends in an exception   *)
(* after none of these, nothing was: it may be made again.                 *)
DuplicatesExplained ==
    /\ effects <= 1 + doubtful
    /\ result = "returned" => effects >= 1
    /\ result = "raised" => effects <= doubtful

(* A call of the agent is held up by at most this long: even a service     *)
(* that asks for an hour is asked again within the policy's limit.         *)
WaitBounded == now + (IF pc = "backoff" THEN delay ELSE 0) <= (Policy.attempts - 1) * Policy.max

(* The caller gets an exception, at the latest, after max_attempts         *)
(* requests; and it never gets one for a failure that its client knows to  *)
(* be transient while there are attempts left.                             *)
GivesUpAtTheLimit ==
    /\ sent <= calls * Policy.attempts
    /\ result = "raised" =>
         \/ reply \in {"refused", "lost", "unreadable"}
         \/ client = "github" /\ reply = "throttled"
         \/ client = "gemini" /\ reply = "unavailable"
         \/ attempt = Policy.attempts

(* Every call ends.                                                        *)
EveryCallEnds == <>AllMade

=============================================================================
