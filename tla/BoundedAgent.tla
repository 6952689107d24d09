---------------------------- MODULE BoundedAgent ----------------------------
(***************************************************************************)
(* What run_agent promises the flow that calls it: a run that makes at     *)
(* most MaxToolCalls tool calls, one after the other, and then ends in one *)
(* of three ways.  It is exhausted only if the whole budget has been used: *)
(* a call that fits is never refused.  What a call does is left open.      *)
(***************************************************************************)
EXTENDS Naturals

CONSTANT MaxToolCalls  \* a natural number

VARIABLES
    used,   \* tool calls made so far
    status  \* "running", "completed", "exhausted" or "aborted"

vars == <<used, status>>

Init == used = 0 /\ status = "running"

Use ==
    /\ status = "running" /\ used < MaxToolCalls
    /\ used' = used + 1
    /\ UNCHANGED status

(* A turn without calls.                                                   *)
Finish == status = "running" /\ status' = "completed" /\ UNCHANGED used

(* A call beyond the budget.                                               *)
Exhaust ==
    /\ status = "running" /\ used = MaxToolCalls
    /\ status' = "exhausted"
    /\ UNCHANGED used

(* The provider fails.                                                     *)
Abort == status = "running" /\ status' = "aborted" /\ UNCHANGED used

Next == Use \/ Finish \/ Exhaust \/ Abort

Spec == Init /\ [][Next]_vars

=============================================================================
