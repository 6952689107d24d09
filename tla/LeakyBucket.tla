---------------------------- MODULE LeakyBucket ----------------------------
(***************************************************************************)
(* What a token bucket promises, as one account: due is the time at which  *)
(* all that has been taken will have come back.  To admit a call puts it   *)
(* off by what a token takes to come back, and a call is only admitted if  *)
(* it is then no further away than an empty bucket takes to fill.  Both    *)
(* steps are atomic, and who asks is left open.                            *)
(***************************************************************************)
EXTENDS Integers

CONSTANTS
    Capacity,      \* the time in which an empty bucket fills
    TicksPerToken  \* the time in which a token comes back

VARIABLES
    clock,    \* the last reading of the clock
    due,      \* when the bucket is full again, if it is not
    admitted  \* how many calls have been admitted

vars == <<clock, due, admitted>>

Later(a, b) == IF a >= b THEN a ELSE b

Init == clock = 0 /\ due = 0 /\ admitted = 0

(* Time passes.  A full bucket gains nothing by it.                        *)
Pass ==
    /\ clock' \in Nat /\ clock' >= clock
    /\ due' = Later(due, clock')
    /\ UNCHANGED admitted

Admit ==
    /\ due + TicksPerToken - clock <= Capacity
    /\ due' = due + TicksPerToken
    /\ admitted' = admitted + 1
    /\ UNCHANGED clock

Next == Pass \/ Admit

Spec == Init /\ [][Next]_vars

=============================================================================
