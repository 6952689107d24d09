---------------------------- MODULE RateLimiter ----------------------------
(***************************************************************************)
(* The token bucket (resilience/ratelimit.py), used by several threads.    *)
(*                                                                         *)
(* One tick of the clock is the time in which 1/TicksPerToken of a token   *)
(* comes back, and the level of the bucket is counted in these fractions;  *)
(* so tokens, elapsed times and waits are exact integers (rounding of      *)
(* floating-point numbers is left out).  Every call takes one token, as    *)
(* all the clients do.  The clock runs while a thread is between two       *)
(* steps, and a sleep may last longer than asked.                          *)
(***************************************************************************)
EXTENDS Integers, Sequences

CONSTANTS
    Thread,         \* the threads that share the limiter
    Burst,          \* the capacity, in tokens
    TicksPerToken,  \* 1 / rate
    MaxCalls,       \* bound: calls of each thread
    MaxTime         \* bound: the time until which the clock runs of itself

ASSUME LimiterAssumption ==
    /\ Burst \in Nat \ {0}          \* "rate and burst must be positive"
    /\ TicksPerToken \in Nat \ {0}
    /\ MaxCalls \in Nat /\ MaxTime \in Nat

Free == "free"

ASSUME FreeAssumption == Free \notin Thread

VARIABLES
    now,     \* the monotonic clock
    level,   \* _tokens, in ticks
    last,    \* _last
    lock,    \* the holder of _lock, or Free
    pc,      \* what each thread is about to do
    mode,    \* whether its call is acquire() or try_acquire()
    seen,    \* the level it is about to subtract a token from
    wake,    \* when its sleep is over
    began,   \* when its call began
    waited,  \* the local variable of acquire()
    calls,   \* how many calls it has begun
    grants   \* when tokens were taken, oldest first

clock == <<level, last>>
local == <<mode, seen, wake, began, waited, calls>>
vars == <<now, clock, lock, pc, local, grants>>

Capacity == Burst * TicksPerToken

Lower(a, b) == IF a <= b THEN a ELSE b

-----------------------------------------------------------------------------

(* A call of acquire() or try_acquire().                                   *)
Begin(t) ==
    /\ pc[t] = "idle" /\ calls[t] < MaxCalls
    /\ \E m \in {"acquire", "try"} : mode' = [mode EXCEPT ![t] = m]
    /\ calls' = [calls EXCEPT ![t] = @ + 1]
    /\ began' = [began EXCEPT ![t] = now]
    /\ waited' = [waited EXCEPT ![t] = 0]
    /\ pc' = [pc EXCEPT ![t] = "lock"]
    /\ UNCHANGED <<now, clock, lock, seen, wake, grants>>

(* Faulty: no lock.                                                        *)
EnterUnlocked(t) ==
    /\ pc[t] = "lock"
    /\ pc' = [pc EXCEPT ![t] = "refill"]
    /\ UNCHANGED <<now, clock, lock, local, grants>>

Enter(t) ==
    /\ pc[t] = "lock" /\ lock = Free
    /\ lock' = t
    /\ pc' = [pc EXCEPT ![t] = "refill"]
    /\ UNCHANGED <<now, clock, local, grants>>

(* Faulty: the bucket overflows.                                           *)
RefillUncapped(t) ==
    /\ pc[t] = "refill"
    /\ level' = level + (now - last)
    /\ last' = now
    /\ pc' = [pc EXCEPT ![t] = "check"]
    /\ UNCHANGED <<now, lock, local, grants>>

(* _refill().                                                              *)
Refill(t) ==
    /\ pc[t] = "refill"
    /\ level' = Lower(Capacity, level + (now - last))
    /\ last' = now
    /\ pc' = [pc EXCEPT ![t] = "check"]
    /\ UNCHANGED <<now, lock, local, grants>>

(* The comparison and the load of "self._tokens -= tokens".                *)
Check(t) ==
    /\ pc[t] = "check" /\ level >= TicksPerToken
    /\ seen' = [seen EXCEPT ![t] = level]
    /\ pc' = [pc EXCEPT ![t] = "take"]
    /\ UNCHANGED <<now, clock, lock, mode, wake, began, waited, calls, grants>>

(* Its store; the call returns.                                            *)
Take(t) ==
    /\ pc[t] = "take"
    /\ level' = seen[t] - TicksPerToken
    /\ grants' = Append(grants, now)
    /\ lock' = Free
    /\ pc' = [pc EXCEPT ![t] = "idle"]
    /\ UNCHANGED <<now, last, local>>

(* Too few tokens: try_acquire() returns False.                            *)
GiveUp(t) ==
    /\ pc[t] = "check" /\ level < TicksPerToken /\ mode[t] = "try"
    /\ lock' = Free
    /\ pc' = [pc EXCEPT ![t] = "idle"]
    /\ UNCHANGED <<now, clock, local, grants>>

(* Faulty: acquire() sleeps inside the with-block and never releases.      *)
WaitHolding(t) ==
    /\ pc[t] = "check" /\ level < TicksPerToken /\ mode[t] = "acquire"
    /\ wake' = [wake EXCEPT ![t] = now + TicksPerToken - level]
    /\ waited' = [waited EXCEPT ![t] = @ + TicksPerToken - level]
    /\ pc' = [pc EXCEPT ![t] = "sleep"]
    /\ UNCHANGED <<now, clock, lock, mode, seen, began, calls, grants>>

(* Faulty: the wait is rounded down.                                       *)
WaitShort(t) ==
    /\ pc[t] = "check" /\ level < TicksPerToken /\ mode[t] = "acquire"
    /\ wake' = [wake EXCEPT ![t] = now + TicksPerToken - level - 1]
    /\ waited' = [waited EXCEPT ![t] = @ + TicksPerToken - level]
    /\ lock' = Free
    /\ pc' = [pc EXCEPT ![t] = "sleep"]
    /\ UNCHANGED <<now, clock, mode, seen, began, calls, grants>>

(* Too few tokens: acquire() sleeps until the deficit has come back.       *)
Wait(t) ==
    /\ pc[t] = "check" /\ level < TicksPerToken /\ mode[t] = "acquire"
    /\ wake' = [wake EXCEPT ![t] = now + TicksPerToken - level]
    /\ waited' = [waited EXCEPT ![t] = @ + TicksPerToken - level]
    /\ lock' = Free
    /\ pc' = [pc EXCEPT ![t] = "sleep"]
    /\ UNCHANGED <<now, clock, mode, seen, began, calls, grants>>

(* Someone else may have taken what came back: the loop starts again.      *)
Wake(t) ==
    /\ pc[t] = "sleep" /\ now >= wake[t]
    /\ pc' = [pc EXCEPT ![t] = "lock"]
    /\ UNCHANGED <<now, clock, lock, local, grants>>

(* The clock.  Past MaxTime it only runs as far as a sleeper needs it.     *)
Tick ==
    /\ now < MaxTime \/ \E t \in Thread : pc[t] = "sleep" /\ now < wake[t]
    /\ now' = now + 1
    /\ UNCHANGED <<clock, lock, pc, local, grants>>

(* The threads have made all their calls; the clock may stop, too.         *)
Served == \A t \in Thread : pc[t] = "idle" /\ calls[t] = MaxCalls

Init ==
    /\ now = 0 /\ level = Capacity /\ last = 0 /\ lock = Free
    /\ pc = [t \in Thread |-> "idle"]
    /\ mode = [t \in Thread |-> "try"]
    /\ seen = [t \in Thread |-> 0] /\ wake = [t \in Thread |-> 0]
    /\ began = [t \in Thread |-> 0] /\ waited = [t \in Thread |-> 0]
    /\ calls = [t \in Thread |-> 0]
    /\ grants = <<>>

Step(t) ==
    \/ Begin(t) \/ Enter(t) \/ Refill(t) \/ Check(t) \/ Take(t)
    \/ GiveUp(t) \/ Wait(t) \/ Wake(t)

Next == Tick \/ \E t \in Thread : Step(t)

Spec == Init /\ [][Next]_vars

(* The scheduler runs every thread that can run, and time passes.          *)
FairSpec == Spec /\ WF_vars(Tick) /\ \A t \in Thread : WF_vars(Step(t))

-----------------------------------------------------------------------------
(* Properties.                                                             *)

InLock(t) == pc[t] \in {"refill", "check", "take"}

(* Every variable has its type; the bucket neither overflows nor owes.     *)
TypeOK ==
    /\ now \in Nat /\ level \in 0 .. Capacity /\ last \in 0 .. now
    /\ lock \in Thread \cup {Free}
    /\ pc \in [Thread -> {"idle", "lock", "refill", "check", "take", "sleep"}]
    /\ mode \in [Thread -> {"acquire", "try"}]
    /\ seen \in [Thread -> 0 .. Capacity]
    /\ wake \in [Thread -> Nat] /\ began \in [Thread -> Nat]
    /\ waited \in [Thread -> Nat] /\ calls \in [Thread -> 0 .. MaxCalls]
    /\ grants \in Seq(Nat)

(***************************************************************************)
(* In any stretch of time no more calls are admitted than the burst, what  *)
(* comes back in that time, and one: whoever holds the lock may be held up *)
(* between the refill and the subtraction, so that one call is admitted    *)
(* later than the bucket has counted it.                                   *)
(***************************************************************************)
AdmissionRate ==
    \A i \in 1 .. Len(grants) : \A j \in i .. Len(grants) :
        (j - i) * TicksPerToken <= Capacity + (grants[j] - grants[i])

(* acquire() returns no more than the time it took; a thread that is not   *)
(* asleep has really waited what it has counted.                           *)
WaitedIsSlept ==
    \A t \in Thread :
        pc[t] \in {"lock", "refill", "check", "take"} => waited[t] <= now - began[t]

(***************************************************************************)
(* However the threads interleave, refilling and taking change the bucket  *)
(* one after the other, as if each were a single step: no token is taken   *)
(* twice, and none comes back for a time that has been counted before.     *)
(***************************************************************************)
Meter == INSTANCE LeakyBucket
           WITH clock <- last, due <- last + Capacity - level, admitted <- Len(grants)

ImplementsLeakyBucket == Meter!Spec

(* Every call is answered, whatever the other threads take.                *)
EveryCallReturns == <>Served

=============================================================================
