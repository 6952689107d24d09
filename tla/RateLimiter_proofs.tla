------------------------ MODULE RateLimiter_proofs ------------------------
(***************************************************************************)
(* Proofs about RateLimiter, for every set of threads, burst and rate.     *)
(***************************************************************************)
EXTENDS Pacing, SequenceTheorems, TLAPS

(* Who reads or writes the bucket holds the lock.                          *)
LockHeld == \A t \in Thread : InLock(t) => lock = t

(* So what a thread has loaded is still true when it stores.               *)
Loaded == \A t \in Thread : pc[t] = "take" => seen[t] = level /\ level >= TicksPerToken

(* Only the last grant may be later than the last refill, and it is not    *)
(* when the next call is about to be admitted.                             *)
Counted ==
    /\ \A i \in 1 .. Len(grants) : grants[i] <= now
    /\ \A i \in 1 .. Len(grants) - 1 : grants[i] <= last
    /\ (\E t \in Thread : pc[t] \in {"check", "take"}) =>
         \A i \in 1 .. Len(grants) : grants[i] <= last

(* Since each grant that the last refill has counted: what has been taken  *)
(* and what is left came from a full bucket and from the time since.       *)
Account ==
    \A i \in 1 .. Len(grants) :
        grants[i] <= last =>
            (Len(grants) - i) * TicksPerToken + level <= Capacity + (last - grants[i])

(* A sleeper will have waited what it counts when it wakes.                *)
SleepCounts ==
    \A t \in Thread : pc[t] = "sleep" => waited[t] <= wake[t] - began[t]

IInv ==
    /\ TypeOK
    /\ LockHeld
    /\ Loaded
    /\ Counted
    /\ Account
    /\ AdmissionRate
    /\ WaitedIsSlept
    /\ SleepCounts

-----------------------------------------------------------------------------

(* The bucket holds at least one token.                                    *)
LEMMA CapacityType ==
    /\ Capacity \in Nat /\ TicksPerToken \in Nat /\ TicksPerToken >= 1
    /\ Capacity >= TicksPerToken
<1>1. Burst \in Nat /\ Burst >= 1 /\ TicksPerToken \in Nat /\ TicksPerToken >= 1
  BY LimiterAssumption
<1>2. Burst * TicksPerToken \in Nat /\ Burst * TicksPerToken >= TicksPerToken
  BY <1>1
<1> QED BY <1>1, <1>2 DEF Capacity

(* One more token is that many more ticks.                                 *)
LEMMA OneMore ==
    ASSUME NEW k \in Nat
    PROVE  /\ k * TicksPerToken \in Nat
           /\ (k + 1) * TicksPerToken = k * TicksPerToken + TicksPerToken
BY CapacityType

(* An account stays balanced while time passes.                            *)
LEMMA TimePasses ==
    ASSUME NEW a \in Int, NEW c \in Int, NEW g \in Int,
           NEW x \in Int, NEW y \in Int, NEW l \in Int, NEW m \in Int,
           a + l <= c + (x - g), m <= l + (y - x)
    PROVE  a + m <= c + (y - g)
OBVIOUS

(* The invariant holds of a full bucket that nobody waits for.             *)
LEMMA InvInit == Init => IInv
<1> SUFFICES ASSUME Init PROVE IInv
  OBVIOUS
<1>1. TypeOK
  BY CapacityType, LimiterAssumption DEF Init, TypeOK
<1>2. Len(grants) = 0
  BY DEF Init
<1>3. Counted /\ Account /\ AdmissionRate
  BY <1>2 DEF Counted, Account, AdmissionRate
<1> QED BY <1>1, <1>3 DEF Init, IInv, LockHeld, InLock, Loaded, WaitedIsSlept, SleepCounts

(* The step that admits a call.                                            *)
LEMMA TakeStep == ASSUME IInv, NEW t \in Thread, Take(t) PROVE IInv'
<1> DEFINE n == Len(grants)
<1>1. /\ level' = level - TicksPerToken /\ level >= TicksPerToken
      /\ level \in 0 .. Capacity /\ last \in Nat /\ now \in Nat /\ last <= now
      /\ lock = t /\ last' = last /\ now' = now
      /\ grants' = Append(grants, now) /\ grants \in Seq(Nat)
  BY DEF Take, IInv, TypeOK, Loaded, LockHeld, InLock
<1>2. /\ n \in Nat /\ Len(grants') = n + 1 /\ grants' \in Seq(Nat)
      /\ grants'[n + 1] = now /\ \A i \in 1 .. n : grants'[i] = grants[i]
      /\ \A i \in 1 .. n : grants[i] \in Nat
  BY <1>1, AppendProperties
<1>3. \A i \in 1 .. n : grants[i] <= last
  BY DEF Take, IInv, Counted
<1>4. \A i \in 1 .. n :
        (n - i) * TicksPerToken + level <= Capacity + (last - grants[i])
  BY <1>3 DEF IInv, Account
<1> HIDE DEF n
<1>5. TypeOK'
  <2>1. /\ now' = now /\ mode' = mode /\ seen' = seen /\ wake' = wake
        /\ began' = began /\ waited' = waited /\ calls' = calls /\ lock' = Free
        /\ pc' = [pc EXCEPT ![t] = "idle"]
    BY DEF Take, local
  <2>2. TypeOK
    BY DEF IInv
  <2>3. level' \in 0 .. Capacity
    BY <1>1, CapacityType
  <2>4. pc' \in [Thread -> {"idle", "lock", "refill", "check", "take", "sleep"}]
    BY <2>1, <2>2 DEF TypeOK
  <2> QED BY <1>1, <1>2, <2>1, <2>2, <2>3, <2>4 DEF TypeOK
<1>6. \A s \in Thread : pc'[s] \notin {"refill", "check", "take"}
  <2>1. \A s \in Thread : s # t => pc[s] \notin {"refill", "check", "take"}
    BY <1>1 DEF IInv, LockHeld, InLock, Take
  <2>2. pc' = [pc EXCEPT ![t] = "idle"] /\ pc \in [Thread -> {"idle", "lock", "refill", "check", "take", "sleep"}]
    BY DEF Take, IInv, TypeOK
  <2> QED BY <2>1, <2>2
<1>7. LockHeld' /\ Loaded'
  BY <1>6 DEF LockHeld, InLock, Loaded
<1>8. Counted'
  <2>1. \A i \in 1 .. n + 1 : grants'[i] <= now
    <3>1. ASSUME NEW i \in 1 .. n PROVE grants'[i] <= now
      BY <1>1, <1>2, <1>3
    <3> QED BY <1>1, <1>2, <3>1
  <2>2. \A i \in 1 .. n + 1 - 1 : grants'[i] <= last
    BY <1>1, <1>2, <1>3
  <2> QED BY <1>1, <1>2, <1>6, <2>1, <2>2 DEF Counted
<1>9. ASSUME NEW i \in 1 .. n
      PROVE  /\ (n + 1 - i) * TicksPerToken \in Nat
             /\ (n + 1 - i) * TicksPerToken + level' <= Capacity + (last - grants[i])
  <2>1. n - i \in Nat /\ n + 1 - i = n - i + 1
    BY <1>2
  <2> DEFINE a == (n - i) * TicksPerToken
             b == (n - i + 1) * TicksPerToken
  <2>2. a \in Nat /\ b = a + TicksPerToken
    BY <2>1, OneMore
  <2>3. a + level <= Capacity + (last - grants[i])
    BY <1>4
  <2>4. (n + 1 - i) * TicksPerToken = b
    BY <2>1, Zenon
  <2> HIDE DEF a, b
  <2>5. b \in Nat /\ b + level' <= Capacity + (last - grants[i])
    BY <1>1, <1>2, <2>2, <2>3, CapacityType
  <2> QED BY <2>4, <2>5
<1>10. Account'
  <2> SUFFICES ASSUME NEW i \in 1 .. n + 1, grants'[i] <= last
               PROVE  (n + 1 - i) * TicksPerToken + level' <= Capacity + (last - grants'[i])
    BY <1>1, <1>2 DEF Account, Capacity
  <2>1. CASE i \in 1 .. n
    BY <1>2, <1>9, <2>1
  <2>2. CASE i = n + 1
    <3>1. (n + 1 - i) * TicksPerToken = 0
      <4>1. n + 1 - i = 0 /\ 0 * TicksPerToken = 0
        BY <1>2, <2>2, CapacityType
      <4> QED BY <4>1, Zenon
    <3>2. last - grants'[i] = 0
      BY <1>1, <1>2, <2>2
    <3> DEFINE a == (n + 1 - i) * TicksPerToken
               d == last - grants'[i]
    <3>3. a = 0 /\ d = 0
      BY <3>1, <3>2
    <3> HIDE DEF a, d
    <3>4. a + level' <= Capacity + d
      BY <1>1, <3>3, CapacityType
    <3> QED BY <3>4 DEF a, d
  <2> QED BY <1>2, <2>1, <2>2
<1>11. AdmissionRate'
  <2> SUFFICES ASSUME NEW i \in 1 .. n + 1, NEW j \in i .. n + 1
               PROVE  (j - i) * TicksPerToken <= Capacity + (grants'[j] - grants'[i])
    BY <1>2 DEF AdmissionRate, Capacity
  <2>1. CASE j \in 1 .. n
    <3>1. i \in 1 .. n /\ j \in i .. n
      BY <1>2, <2>1
    <3> QED BY <1>2, <3>1 DEF n, IInv, AdmissionRate
  <2>2. CASE j = n + 1 /\ i \in 1 .. n
    <3>1. grants'[j] = now /\ grants'[i] = grants[i] /\ grants[i] \in Nat
      BY <1>2, <2>2
    <3> DEFINE a == (n + 1 - i) * TicksPerToken
    <3>2. a \in Nat /\ a + level' <= Capacity + (last - grants[i])
      BY <1>9, <2>2
    <3>3. (j - i) * TicksPerToken = a
      <4>1. j - i = n + 1 - i
        BY <1>2, <2>2
      <4> QED BY <4>1, Zenon DEF a
    <3> HIDE DEF a
    <3>4. level' \in Nat /\ Capacity \in Nat /\ last \in Nat /\ now \in Nat /\ last <= now
      BY <1>1, CapacityType
    <3>5. a <= Capacity + (now - grants[i])
      BY <3>1, <3>2, <3>4
    <3>6. a <= Capacity + (grants'[j] - grants'[i])
      BY <3>1, <3>5
    <3> QED BY <3>3, <3>6, Zenon
  <2>3. CASE i = n + 1
    <3>1. j = i /\ grants'[j] = now /\ grants'[i] = now
      BY <1>2, <2>3
    <3>2. (j - i) * TicksPerToken = 0
      <4>1. j - i = 0 /\ 0 * TicksPerToken = 0
        BY <1>2, <3>1, CapacityType
      <4> QED BY <4>1, Zenon
    <3>3. 0 <= Capacity + (grants'[j] - grants'[i])
      BY <1>1, <3>1, CapacityType
    <3> QED BY <3>2, <3>3, Zenon
  <2> QED BY <1>2, <2>1, <2>2, <2>3
<1>12. WaitedIsSlept' /\ SleepCounts'
  BY DEF Take, local, IInv, TypeOK, WaitedIsSlept, SleepCounts
<1> QED BY <1>5, <1>7, <1>8, <1>10, <1>11, <1>12 DEF IInv

(* Refilling: what comes back is no more than the time that has passed.    *)
LEMMA RefillStep == ASSUME IInv, NEW t \in Thread, Refill(t) PROVE IInv'
<1>1. /\ level \in 0 .. Capacity /\ last \in Nat /\ now \in Nat /\ last <= now
      /\ last' = now /\ now' = now /\ grants' = grants /\ grants \in Seq(Nat)
      /\ level' = Lower(Capacity, level + (now - last)) /\ Capacity \in Nat
      /\ lock = t
  BY CapacityType DEF Refill, IInv, TypeOK, LockHeld, InLock
<1>2. level' \in 0 .. Capacity /\ level' <= level + (now - last)
  BY <1>1 DEF Lower
<1>3. TypeOK'
  BY <1>1, <1>2 DEF Refill, local, IInv, TypeOK
<1>4. Account'
  <2> SUFFICES ASSUME NEW i \in 1 .. Len(grants), grants[i] <= now
               PROVE  (Len(grants) - i) * TicksPerToken + level'
                        <= Capacity + (now - grants[i])
    BY <1>1 DEF Account, Capacity
  <2> DEFINE a == (Len(grants) - i) * TicksPerToken
  <2>1. Len(grants) - i \in Nat /\ Len(grants) \in Nat
    BY <1>1
  <2>2. a \in Nat /\ grants[i] \in Nat
    <3>1. a \in Nat
      BY <2>1, OneMore
    <3>2. grants[i] \in Nat
      BY <1>1
    <3> QED BY <3>1, <3>2
  <2>3. CASE grants[i] <= last
    <3>1. a + level <= Capacity + (last - grants[i])
      BY <2>3 DEF IInv, Account
    <3> HIDE DEF a
    <3>2. /\ a \in Int /\ Capacity \in Int /\ grants[i] \in Int
          /\ last \in Int /\ now \in Int /\ level \in Int /\ level' \in Int
      BY <1>1, <1>2, <2>2
    <3>3. a + level' <= Capacity + (now - grants[i])
      BY <1>2, <3>1, <3>2, TimePasses
    <3> QED BY <3>3 DEF a
  <2>4. CASE ~(grants[i] <= last)
    <3>1. i = Len(grants)
      BY <2>1, <2>4 DEF IInv, Counted
    <3>2. a = 0
      <4>1. Len(grants) - i = 0 /\ 0 * TicksPerToken = 0
        BY <2>1, <3>1, CapacityType
      <4> QED BY <4>1, Zenon
    <3> HIDE DEF a
    <3>3. a + level' <= Capacity + (now - grants[i])
      BY <1>1, <1>2, <2>2, <3>2
    <3> QED BY <3>3 DEF a
  <2> QED BY <2>3, <2>4
<1>5. AdmissionRate'
  BY <1>1 DEF IInv, AdmissionRate, Capacity
<1>6. LockHeld' /\ Loaded'
  <2>1. \A s \in Thread : s # t => pc[s] \notin {"refill", "check", "take"}
    BY <1>1 DEF IInv, LockHeld, InLock
  <2>2. /\ pc' = [pc EXCEPT ![t] = "check"] /\ lock' = lock
        /\ pc \in [Thread -> {"idle", "lock", "refill", "check", "take", "sleep"}]
    BY DEF Refill, IInv, TypeOK
  <2> QED BY <1>1, <2>1, <2>2 DEF LockHeld, InLock, Loaded
<1>7. WaitedIsSlept' /\ SleepCounts'
  BY DEF Refill, local, IInv, TypeOK, WaitedIsSlept, SleepCounts
<1>8. Counted'
  <2>1. \A i \in 1 .. Len(grants) : grants[i] <= now
    BY DEF IInv, Counted
  <2>2. \A i \in 1 .. Len(grants) - 1 : i \in 1 .. Len(grants)
    BY <1>1
  <2> QED BY <1>1, <2>1, <2>2 DEF Counted
<1> QED BY <1>3, <1>4, <1>5, <1>6, <1>7, <1>8 DEF IInv

(* A step that leaves the bucket and the grants alone.                     *)
LEMMA BucketUntouched ==
    ASSUME IInv, UNCHANGED <<clock, grants>> PROVE Account' /\ AdmissionRate'
BY DEF IInv, clock, Account, AdmissionRate, Capacity

(* Nor does it make a grant later than the clock; and it needs a refill to *)
(* come to the comparison.                                                 *)
LEMMA CountedUntouched ==
    ASSUME IInv, UNCHANGED <<clock, grants>>, now' >= now, now' \in Nat,
           \A t \in Thread :
               pc'[t] \in {"check", "take"} => pc[t] \in {"check", "take"}
    PROVE  Counted'
<1>1. /\ grants' = grants /\ last' = last /\ now \in Nat /\ grants \in Seq(Nat)
  BY DEF IInv, TypeOK, clock
<1>2. \A i \in 1 .. Len(grants) : grants[i] \in Nat
  BY <1>1
<1>3. \A i \in 1 .. Len(grants) : grants[i] <= now'
  BY <1>1, <1>2 DEF IInv, Counted
<1> QED BY <1>1, <1>3 DEF IInv, Counted

(* Every step of a thread and of the clock keeps it.                       *)
LEMMA InvNext == IInv /\ [Next]_vars => IInv'
<1> SUFFICES ASSUME IInv, [Next]_vars PROVE IInv'
  OBVIOUS
<1>0. TypeOK /\ LockHeld /\ Loaded /\ WaitedIsSlept /\ SleepCounts
  BY DEF IInv
<1>1. CASE Tick
  <2>1. Account' /\ AdmissionRate'
    BY <1>1, BucketUntouched DEF Tick
  <2>0. Counted'
    BY <1>0, <1>1, CountedUntouched DEF Tick, TypeOK, local
  <2>2. TypeOK'
    <3>1. /\ now' = now + 1 /\ level' = level /\ last' = last /\ lock' = lock /\ pc' = pc
          /\ mode' = mode /\ seen' = seen /\ wake' = wake /\ began' = began
          /\ waited' = waited /\ calls' = calls /\ grants' = grants
      BY <1>1 DEF Tick, clock, local
    <3>2. now' \in Nat /\ last' \in 0 .. now'
      <4>1. now \in Nat /\ last \in 0 .. now
        BY <1>0 DEF TypeOK
      <4> QED BY <3>1, <4>1
    <3> QED BY <1>0, <3>1, <3>2 DEF TypeOK
  <2>3. LockHeld' /\ Loaded' /\ SleepCounts'
    BY <1>0, <1>1 DEF Tick, TypeOK, clock, local, LockHeld, InLock, Loaded, SleepCounts
  <2>4. WaitedIsSlept'
    BY <1>0, <1>1 DEF Tick, TypeOK, local, WaitedIsSlept
  <2> QED BY <2>0, <2>1, <2>2, <2>3, <2>4 DEF IInv
<1>2. ASSUME NEW t \in Thread, Begin(t) PROVE IInv'
  <2>1. Account' /\ AdmissionRate'
    BY <1>2, BucketUntouched DEF Begin
  <2>0. Counted'
    BY <1>0, <1>2, CountedUntouched DEF Begin, TypeOK, local
  <2>2. TypeOK'
    <3>1. /\ now' = now /\ level' = level /\ last' = last /\ lock' = lock
          /\ seen' = seen /\ wake' = wake /\ grants' = grants
      BY <1>2 DEF Begin, clock
    <3>2. /\ pc' \in [Thread -> {"idle", "lock", "refill", "check", "take", "sleep"}]
          /\ mode' \in [Thread -> {"acquire", "try"}]
      BY <1>0, <1>2 DEF Begin, TypeOK
    <3>3. began' \in [Thread -> Nat] /\ waited' \in [Thread -> Nat]
      BY <1>0, <1>2 DEF Begin, TypeOK
    <3>4. calls' \in [Thread -> 0 .. MaxCalls]
      <4>1. calls[t] + 1 \in 0 .. MaxCalls
        <5>1. calls[t] \in 0 .. MaxCalls /\ calls[t] < MaxCalls
          BY <1>0, <1>2 DEF Begin, TypeOK
        <5> QED BY <5>1, LimiterAssumption
      <4>2. calls' = [calls EXCEPT ![t] = calls[t] + 1]
        BY <1>2 DEF Begin
      <4> QED BY <1>0, <4>1, <4>2 DEF TypeOK
    <3> QED BY <1>0, <3>1, <3>2, <3>3, <3>4 DEF TypeOK
  <2>3. LockHeld' /\ Loaded'
    BY <1>0, <1>2 DEF Begin, TypeOK, clock, LockHeld, InLock, Loaded
  <2>4. WaitedIsSlept' /\ SleepCounts'
    <3>1. /\ now' = now /\ wake' = wake /\ now \in Nat
          /\ pc' = [pc EXCEPT ![t] = "lock"] /\ waited' = [waited EXCEPT ![t] = 0]
          /\ began' = [began EXCEPT ![t] = now]
          /\ waited \in [Thread -> Nat] /\ began \in [Thread -> Nat] /\ DOMAIN pc = Thread
      BY <1>0, <1>2 DEF Begin, TypeOK
    <3>2. WaitedIsSlept'
      BY <1>0, <3>1 DEF WaitedIsSlept
    <3>3. SleepCounts'
      BY <1>0, <3>1 DEF SleepCounts
    <3> QED BY <3>2, <3>3
  <2> QED BY <2>0, <2>1, <2>2, <2>3, <2>4 DEF IInv
<1>3. ASSUME NEW t \in Thread, Enter(t) PROVE IInv'
  <2>1. Account' /\ AdmissionRate'
    BY <1>3, BucketUntouched DEF Enter
  <2>0. Counted'
    BY <1>0, <1>3, CountedUntouched DEF Enter, TypeOK, local
  <2>2. TypeOK'
    BY <1>0, <1>3 DEF Enter, TypeOK, clock, local
  <2>3. LockHeld' /\ Loaded'
    BY <1>0, <1>3, FreeAssumption DEF Enter, TypeOK, clock, local, LockHeld, InLock, Loaded
  <2>4. WaitedIsSlept' /\ SleepCounts'
    BY <1>0, <1>3 DEF Enter, TypeOK, local, WaitedIsSlept, SleepCounts
  <2> QED BY <2>0, <2>1, <2>2, <2>3, <2>4 DEF IInv
<1>4. ASSUME NEW t \in Thread, Check(t) PROVE IInv'
  <2>1. Account' /\ AdmissionRate'
    BY <1>4, BucketUntouched DEF Check
  <2>0. Counted'
    BY <1>0, <1>4, CountedUntouched DEF Check, TypeOK, local
  <2>2. TypeOK'
    BY <1>0, <1>4 DEF Check, TypeOK, clock
  <2>3. LockHeld' /\ Loaded'
    BY <1>0, <1>4 DEF Check, TypeOK, clock, LockHeld, InLock, Loaded
  <2>4. WaitedIsSlept' /\ SleepCounts'
    BY <1>0, <1>4 DEF Check, TypeOK, WaitedIsSlept, SleepCounts
  <2> QED BY <2>0, <2>1, <2>2, <2>3, <2>4 DEF IInv
<1>5. ASSUME NEW t \in Thread, GiveUp(t) PROVE IInv'
  <2>1. Account' /\ AdmissionRate'
    BY <1>5, BucketUntouched DEF GiveUp
  <2>0. Counted'
    BY <1>0, <1>5, CountedUntouched DEF GiveUp, TypeOK, local
  <2>2. TypeOK'
    BY <1>0, <1>5 DEF GiveUp, TypeOK, clock, local
  <2>3. LockHeld' /\ Loaded'
    BY <1>0, <1>5 DEF GiveUp, TypeOK, clock, local, LockHeld, InLock, Loaded
  <2>4. WaitedIsSlept' /\ SleepCounts'
    BY <1>0, <1>5 DEF GiveUp, TypeOK, local, WaitedIsSlept, SleepCounts
  <2> QED BY <2>0, <2>1, <2>2, <2>3, <2>4 DEF IInv
<1>6. ASSUME NEW t \in Thread, Wait(t) PROVE IInv'
  <2>1. Account' /\ AdmissionRate'
    BY <1>6, BucketUntouched DEF Wait
  <2>0. Counted'
    BY <1>0, <1>6, CountedUntouched DEF Wait, TypeOK, local
  <2>2. TicksPerToken - level \in Nat
    BY <1>0, <1>6, CapacityType DEF Wait, TypeOK
  <2>3. TypeOK'
    <3>1. /\ now' = now /\ level' = level /\ last' = last /\ mode' = mode
          /\ seen' = seen /\ began' = began /\ calls' = calls /\ grants' = grants
          /\ lock' = Free
      BY <1>6 DEF Wait, clock
    <3>2. pc' \in [Thread -> {"idle", "lock", "refill", "check", "take", "sleep"}]
      BY <1>0, <1>6 DEF Wait, TypeOK
    <3>3. now + TicksPerToken - level \in Nat /\ waited[t] + TicksPerToken - level \in Nat
      BY <1>0, <2>2, CapacityType DEF TypeOK
    <3>4. /\ wake' = [wake EXCEPT ![t] = now + TicksPerToken - level]
          /\ waited' = [waited EXCEPT ![t] = waited[t] + TicksPerToken - level]
      BY <1>6 DEF Wait
    <3>5. wake' \in [Thread -> Nat] /\ waited' \in [Thread -> Nat]
      BY <1>0, <3>3, <3>4 DEF TypeOK
    <3> QED BY <1>0, <3>1, <3>2, <3>5 DEF TypeOK
  <2>4. LockHeld' /\ Loaded'
    BY <1>0, <1>6 DEF Wait, TypeOK, clock, LockHeld, InLock, Loaded
  <2>5. WaitedIsSlept' /\ SleepCounts'
    <3>1. /\ now' = now /\ began' = began /\ now \in Nat /\ began \in [Thread -> Nat]
          /\ pc[t] = "check" /\ pc' = [pc EXCEPT ![t] = "sleep"] /\ DOMAIN pc = Thread
          /\ wake' = [wake EXCEPT ![t] = now + (TicksPerToken - level)]
          /\ waited' = [waited EXCEPT ![t] = waited[t] + (TicksPerToken - level)]
          /\ waited \in [Thread -> Nat] /\ wake \in [Thread -> Nat]
      BY <1>0, <1>6, CapacityType DEF Wait, TypeOK
    <3>2. WaitedIsSlept'
      BY <1>0, <3>1 DEF WaitedIsSlept
    <3>3. waited[t] <= now - began[t]
      BY <1>0, <3>1 DEF WaitedIsSlept
    <3>4. SleepCounts'
      BY <1>0, <2>2, <3>1, <3>3 DEF SleepCounts
    <3> QED BY <3>2, <3>4
  <2> QED BY <2>0, <2>1, <2>3, <2>4, <2>5 DEF IInv
<1>7. ASSUME NEW t \in Thread, Wake(t) PROVE IInv'
  <2>1. Account' /\ AdmissionRate'
    BY <1>7, BucketUntouched DEF Wake
  <2>0. Counted'
    BY <1>0, <1>7, CountedUntouched DEF Wake, TypeOK, local
  <2>2. TypeOK'
    BY <1>0, <1>7 DEF Wake, TypeOK, clock, local
  <2>3. LockHeld' /\ Loaded'
    BY <1>0, <1>7 DEF Wake, TypeOK, clock, local, LockHeld, InLock, Loaded
  <2>4. WaitedIsSlept' /\ SleepCounts'
    <3>1. /\ now' = now /\ began' = began /\ waited' = waited /\ wake' = wake
          /\ now \in Nat /\ began \in [Thread -> Nat]
          /\ waited \in [Thread -> Nat] /\ wake \in [Thread -> Nat]
          /\ pc[t] = "sleep" /\ pc' = [pc EXCEPT ![t] = "lock"] /\ DOMAIN pc = Thread
          /\ now >= wake[t]
      BY <1>0, <1>7 DEF Wake, TypeOK, local
    <3>2. waited[t] <= now - began[t]
      <4>1. waited[t] <= wake[t] - began[t]
        BY <1>0, <3>1 DEF SleepCounts
      <4>2. waited[t] \in Nat /\ wake[t] \in Nat /\ began[t] \in Nat
        BY <3>1
      <4> QED BY <3>1, <4>1, <4>2
    <3>3. WaitedIsSlept'
      BY <1>0, <3>1, <3>2 DEF WaitedIsSlept
    <3>4. SleepCounts'
      BY <1>0, <3>1 DEF SleepCounts
    <3> QED BY <3>3, <3>4
  <2> QED BY <2>0, <2>1, <2>2, <2>3, <2>4 DEF IInv
<1>8. CASE UNCHANGED vars
  BY <1>8 DEF vars, clock, local, IInv, TypeOK, LockHeld, InLock, Loaded, Counted, Account,
     AdmissionRate, WaitedIsSlept, SleepCounts, Capacity
<1> QED BY <1>1, <1>2, <1>3, <1>4, <1>5, <1>6, <1>7, <1>8, TakeStep, RefillStep
        DEF Next, Step

(* It holds throughout.                                                    *)
LEMMA Invariance == Spec => []IInv
<1>1. Init => IInv
  BY InvInit
<1>2. IInv /\ [Next]_vars => IInv'
  BY InvNext
<1> QED BY <1>1, <1>2, PTL DEF Spec

-----------------------------------------------------------------------------
(* Theorems.                                                               *)

(* Every variable has its type; the level stays between 0 and the burst.   *)
THEOREM TypeCorrect == Spec => []TypeOK
<1>1. IInv => TypeOK
  BY DEF IInv
<1> QED BY <1>1, Invariance, PTL

(* In every stretch of time, no more calls are admitted than the burst,    *)
(* what comes back in that time, and one.                                  *)
THEOREM Admission == Spec => []AdmissionRate
<1>1. IInv => AdmissionRate
  BY DEF IInv
<1> QED BY <1>1, Invariance, PTL

(* A thread has waited at least as long as acquire() tells it.             *)
THEOREM WaitIsReal == Spec => []WaitedIsSlept
<1>1. IInv => WaitedIsSlept
  BY DEF IInv
<1> QED BY <1>1, Invariance, PTL

-----------------------------------------------------------------------------
(* RateLimiter implements LeakyBucket.                                     *)

(* Refilling does not change what is due, unless the bucket is full.       *)
LEMMA RefillPasses ==
    ASSUME IInv, NEW t \in Thread, Refill(t)
    PROVE  Meter!Pass
<1>1. /\ level \in 0 .. Capacity /\ last \in Nat /\ now \in Nat /\ last <= now
      /\ last' = now /\ grants' = grants /\ Capacity \in Nat
      /\ level' = Lower(Capacity, level + (now - last))
  BY CapacityType DEF Refill, IInv, TypeOK
<1> DEFINE d == last + Capacity - level
<1>2. now + Capacity - level' = IF d >= now THEN d ELSE now
  BY <1>1 DEF Lower
<1>3. (last + Capacity - level)' = now + Capacity - level'
  BY <1>1 DEF Capacity
<1>4. last' \in Nat /\ last' >= last
  BY <1>1
<1> QED BY <1>1, <1>2, <1>3, <1>4 DEF Meter!Pass, Meter!Later

(* A token taken is due later by what it takes to come back, because what  *)
(* was loaded under the lock is still the level when it is stored.         *)
LEMMA TakeAdmits ==
    ASSUME IInv, NEW t \in Thread, Take(t)
    PROVE  Meter!Admit
<1>1. /\ level' = level - TicksPerToken /\ level >= TicksPerToken
      /\ level \in 0 .. Capacity /\ last \in Nat /\ Capacity \in Nat
      /\ TicksPerToken \in Nat
      /\ last' = last /\ grants' = Append(grants, now) /\ grants \in Seq(Nat)
  BY CapacityType DEF Take, IInv, TypeOK, Loaded
<1>2. last + Capacity - level + TicksPerToken - last <= Capacity
  BY <1>1
<1>3. (last + Capacity - level)' = last + Capacity - level + TicksPerToken
  <2>1. (last + Capacity - level)' = last + Capacity - level'
    BY <1>1 DEF Capacity
  <2> QED BY <1>1, <2>1
<1>4. Len(grants)' = Len(grants) + 1
  BY <1>1, AppendProperties
<1> QED BY <1>1, <1>2, <1>3, <1>4 DEF Meter!Admit

(* However many threads there are and however they interleave, the bucket  *)
(* is only refilled and only drawn from as in single steps: no token is    *)
(* taken twice, and no time counted twice.                                 *)
THEOREM Refinement == Spec => ImplementsLeakyBucket
<1>1. Init => Meter!Init
  <2> SUFFICES ASSUME Init PROVE Meter!Init
    OBVIOUS
  <2>1. last = 0 /\ level = Capacity /\ grants = <<>> /\ Capacity \in Nat
    BY CapacityType DEF Init
  <2>2. last + Capacity - level = 0 /\ Len(grants) = 0
    BY <2>1
  <2> QED BY <2>1, <2>2 DEF Meter!Init
<1>2. IInv /\ [Next]_vars => [Meter!Next]_(Meter!vars)
  <2> SUFFICES ASSUME IInv, [Next]_vars PROVE [Meter!Next]_(Meter!vars)
    OBVIOUS
  <2>1. CASE \E t \in Thread : Refill(t)
    BY <2>1, RefillPasses DEF Meter!Next
  <2>2. CASE \E t \in Thread : Take(t)
    BY <2>2, TakeAdmits DEF Meter!Next
  <2>3. CASE UNCHANGED <<clock, grants>>
    BY <2>3 DEF clock, Capacity, Meter!vars
  <2>4. \/ \E t \in Thread : Refill(t) \/ Take(t)
        \/ UNCHANGED <<clock, grants>>
    BY DEF Next, Step, Tick, Begin, Enter, Check, GiveUp, Wait, Wake, vars
  <2> QED BY <2>1, <2>2, <2>3, <2>4
<1> QED BY <1>1, <1>2, Invariance, PTL DEF Spec, ImplementsLeakyBucket, Meter!Spec

-----------------------------------------------------------------------------
(* The clients of Pacing.                                                  *)

(* In less than a minute a client admits at most one call more than its    *)
(* burst and what the minute brings back; that is, but for the smallest    *)
(* tiers, one call and less than a fifteenth above the budget.             *)
MinuteBound ==
    \A i \in 1 .. Len(grants) : \A j \in i .. Len(grants) :
        grants[j] - grants[i] < Minute =>
            /\ 10 * (j - i) < 10 * Burst + PacedTenths
            /\ Rpm >= 12 => 15 * (j - i) < 16 * Rpm

(* A common factor may be left out of a comparison.                        *)
LEMMA Cancel ==
    ASSUME NEW a \in Int, NEW b \in Int, NEW c \in Nat, a * c < b * c
    PROVE  a < b
<1>1. SUFFICES ASSUME a >= b PROVE FALSE
  OBVIOUS
<1>2. PICK d \in Nat : a = b + d
  <2>1. a - b \in Nat /\ a = b + (a - b)
    BY <1>1
  <2> QED BY <2>1
<1>3. a * c = b * c + d * c /\ d * c \in Nat /\ b * c \in Int
  BY <1>2
<1> QED BY <1>3

(* What the tier comes to in the limiter's terms.                          *)
LEMMA TierNumbers ==
    /\ Rpm \in Nat /\ Burst \in Nat /\ Minute \in Nat /\ PacedTenths \in Nat
    /\ 10 * Minute = PacedTenths * TicksPerToken
    /\ Rpm >= 12 => 6 * Burst <= Rpm /\ PacedTenths = 9 * Rpm
<1>1. /\ Rpm \in Nat /\ TicksPerToken \in Nat /\ Burst = PacedBurst
      /\ (PacedTenths * TicksPerToken) % 10 = 0 /\ Floor \in {3, 6}
  BY PacingAssumption, LimiterAssumption
<1>2. Burst \in Nat /\ (Rpm >= 12 => 6 * Burst <= Rpm)
  BY <1>1 DEF PacedBurst, Greater
<1>3. PacedTenths \in Nat /\ (Rpm >= 12 => PacedTenths = 9 * Rpm)
  BY <1>1 DEF PacedTenths, Greater
<1>4. PICK m \in Nat : m = PacedTenths * TicksPerToken
  BY <1>1, <1>3
<1>5. m % 10 = 0 /\ Minute = m \div 10
  BY <1>1, <1>4 DEF Minute
<1>6. Minute \in Nat /\ 10 * Minute = m
  BY <1>5
<1> QED BY <1>1, <1>2, <1>3, <1>4, <1>6

(* Of every minute of a client that is paced for Rpm requests, however     *)
(* prompt the service: config.py's budget, if it is 12 or more and counted *)
(* in calls of complete(), is exceeded by less than a fifteenth and one    *)
(* call.  Retries, which are not admitted, come on top.                    *)
THEOREM MinutePaced == Spec => []MinuteBound
<1>1. ASSUME IInv PROVE MinuteBound
  <2> SUFFICES ASSUME NEW i \in 1 .. Len(grants), NEW j \in i .. Len(grants),
                      grants[j] - grants[i] < Minute
               PROVE  /\ 10 * (j - i) < 10 * Burst + PacedTenths
                      /\ Rpm >= 12 => 15 * (j - i) < 16 * Rpm
    BY DEF MinuteBound
  <2> DEFINE k == j - i
  <2>1. k \in Nat /\ grants[i] \in Int /\ grants[j] \in Int /\ TicksPerToken \in Nat
    <3>1. grants \in Seq(Nat)
      BY <1>1 DEF IInv, TypeOK
    <3>2. Len(grants) \in Nat /\ i \in 1 .. Len(grants) /\ j \in 1 .. Len(grants)
      BY <3>1, LenProperties
    <3> QED BY <3>1, <3>2, ElementOfSeq, CapacityType
  <2>2. k * TicksPerToken <= Burst * TicksPerToken + (grants[j] - grants[i])
    BY <1>1 DEF IInv, AdmissionRate, Capacity
  <2> HIDE DEF k
  <2>3. (10 * k) * TicksPerToken < (10 * Burst + PacedTenths) * TicksPerToken
    <3>1. PICK u \in Nat, v \in Nat :
            u = k * TicksPerToken /\ v = Burst * TicksPerToken
      BY <2>1, TierNumbers
    <3>2. (10 * k) * TicksPerToken = 10 * u
      BY <2>1, <3>1
    <3>3. (10 * Burst + PacedTenths) * TicksPerToken = 10 * v + 10 * Minute
      BY <2>1, <3>1, TierNumbers
    <3>4. u < v + Minute
      BY <2>1, <2>2, <3>1, TierNumbers
    <3>5. 10 * u < 10 * v + 10 * Minute
      BY <3>1, <3>4, TierNumbers
    <3> QED BY <3>2, <3>3, <3>5, Zenon
  <2>4. 10 * k < 10 * Burst + PacedTenths
    BY <2>1, <2>3, TierNumbers, Cancel
  <2> QED BY <2>1, <2>4, TierNumbers DEF k
<1> QED BY <1>1, Invariance, PTL

=============================================================================
