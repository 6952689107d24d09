------------------------------- MODULE Pacing -------------------------------
(***************************************************************************)
(* The limiters of the Groq and the Gemini client: a RateLimiter with a    *)
(* rate and a burst computed from the requests per minute that the user's  *)
(* tier allows.  complete() admits a call once; the call's retries are not *)
(* admitted again.                                                         *)
(***************************************************************************)
EXTENDS RateLimiter

CONSTANTS
    Rpm,   \* settings.gemini_rpm or groq_rpm
    Floor  \* the tokens that come back in a minute at least

Greater(a, b) == IF a >= b THEN a ELSE b

PacedBurst == Greater(2, Rpm \div 6)

(* Ten times the tokens that come back in a minute.                        *)
PacedTenths == Greater(10 * Floor, 9 * Rpm)

(* The ticks of a minute.                                                  *)
Minute == (PacedTenths * TicksPerToken) \div 10

ASSUME PacingAssumption ==
    /\ Rpm \in Nat \ {0} /\ Floor \in {3, 6}
    /\ (PacedTenths * TicksPerToken) % 10 = 0
    /\ Burst = PacedBurst

(* complete() only calls acquire(); a service that answers at once, so     *)
(* that the agent asks again while the clock has hardly moved.             *)
PromptNext ==
    /\ Next
    /\ mode' = [t \in Thread |-> "acquire"]
    /\ now' # now => \A t \in Thread : pc[t] = "sleep" /\ now < wake[t]

PromptSpec == Init /\ [][PromptNext]_vars

-----------------------------------------------------------------------------
(* What a comment says and the code does not do.                           *)

(* config.py calls the number the "Requests/min budget for the client-side *)
(* limiter".  At first the burst comes on top of the 90% of it.            *)
UnderRpm ==
    \A i \in 1 .. Len(grants) : \A j \in i .. Len(grants) :
        grants[j] - grants[i] < Minute => j - i + 1 <= Rpm

=============================================================================
