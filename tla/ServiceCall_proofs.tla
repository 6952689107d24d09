------------------------ MODULE ServiceCall_proofs ------------------------
(***************************************************************************)
(* Proofs about ServiceCall, for every set of hints and any number of      *)
(* calls.                                                                  *)
(***************************************************************************)
EXTENDS ServiceCall, TLAPS

Attempts == Policy.attempts
MaxDelay == Policy.max

(* Where a call is in its attempts.                                        *)
InCall ==
    /\ pc = "attempt" => attempt >= 1 /\ calls >= 1
    /\ pc = "backoff" => attempt >= 1 /\ calls >= 1 /\ attempt < Attempts
    /\ pc # "idle" => result = "none" /\ effects <= doubtful

(* What the attempts so far have waited, and may wait.                     *)
WaitedSoFar ==
    /\ pc = "attempt" => now <= (attempt - 1) * MaxDelay
    /\ pc = "backoff" => now + delay <= attempt * MaxDelay
    /\ pc = "idle" => now <= (Attempts - 1) * MaxDelay

(* How many requests were sent by then.                                    *)
SentSoFar ==
    /\ pc = "attempt" => sent <= (calls - 1) * Attempts + (attempt - 1)
    /\ pc = "backoff" => sent <= (calls - 1) * Attempts + attempt
    /\ pc = "idle" => sent <= calls * Attempts

(* Which failures the caller gets.                                         *)
GaveUp ==
    result = "raised" =>
        \/ reply \in {"refused", "lost", "unreadable"}
        \/ client = "github" /\ reply = "throttled"
        \/ client = "gemini" /\ reply = "unavailable"
        \/ attempt = Policy.attempts

IInv ==
    /\ TypeOK
    /\ DuplicatesExplained
    /\ InCall
    /\ WaitedSoFar
    /\ SentSoFar
    /\ GaveUp

-----------------------------------------------------------------------------

(* The policies the clients pass to retry_call.                            *)
LEMMA PolicyType ==
    ASSUME client \in Client
    PROVE  /\ Attempts \in {4, 5, 6} /\ MaxDelay \in {40, 90, 120}
           /\ Policy.attempts = Attempts /\ Policy.max = MaxDelay
           /\ Policy.base \in Nat
<1>1. CASE client \in {"github", "anthropic"}
  BY <1>1 DEF Policy, Attempts, MaxDelay
<1>2. CASE client = "groq"
  BY <1>2 DEF Policy, Attempts, MaxDelay
<1>3. CASE client = "gemini"
  BY <1>3 DEF Policy, Attempts, MaxDelay
<1> QED BY <1>1, <1>2, <1>3 DEF Client

(* A bound with room for one more.                                         *)
LEMMA AtMostOneMore == \A a, b \in Nat : a <= b => a <= 1 + b
OBVIOUS

(* Multiplication by the numbers of a policy.                              *)
LEMMA Times ==
    ASSUME client \in Client, NEW n \in Int
    PROVE  /\ n * Attempts \in Int /\ n * MaxDelay \in Int
           /\ (n + 1) * Attempts = n * Attempts + Attempts
           /\ (n + 1) * MaxDelay = n * MaxDelay + MaxDelay
           /\ n \in Nat => n * Attempts \in Nat /\ n * MaxDelay \in Nat
           /\ n <= Attempts - 1 => n * MaxDelay <= (Attempts - 1) * MaxDelay
<1>1. CASE client \in {"github", "anthropic"}
  <2>1. Attempts = 4 /\ MaxDelay = 40
    BY <1>1 DEF Policy, Attempts, MaxDelay
  <2> QED BY <2>1
<1>2. CASE client = "groq"
  <2>1. Attempts = 5 /\ MaxDelay = 90
    BY <1>2 DEF Policy, Attempts, MaxDelay
  <2> QED BY <2>1
<1>3. CASE client = "gemini"
  <2>1. Attempts = 6 /\ MaxDelay = 120
    BY <1>3 DEF Policy, Attempts, MaxDelay
  <2> QED BY <2>1
<1> QED BY <1>1, <1>2, <1>3 DEF Client

(* The back-off doubles at most five times.                                *)
LEMMA PowerOfTwo == ASSUME NEW k \in 0 .. 5 PROVE 2 ^ k \in Nat
<1>1. 2 ^ 0 = 1 /\ 2 ^ 1 = 2 /\ 2 ^ 2 = 4 /\ 2 ^ 3 = 8 /\ 2 ^ 4 = 16 /\ 2 ^ 5 = 32
  OBVIOUS
<1>2. k = 0 \/ k = 1 \/ k = 2 \/ k = 3 \/ k = 4 \/ k = 5
  OBVIOUS
<1>3. 1 \in Nat /\ 2 \in Nat /\ 4 \in Nat /\ 8 \in Nat /\ 16 \in Nat /\ 32 \in Nat
  OBVIOUS
<1>4. CASE k = 0  BY <1>1, <1>3, <1>4
<1>5. CASE k = 1  BY <1>1, <1>3, <1>5
<1>6. CASE k = 2  BY <1>1, <1>3, <1>6
<1>7. CASE k = 3  BY <1>1, <1>3, <1>7
<1>8. CASE k = 4  BY <1>1, <1>3, <1>8
<1>9. CASE k = 5  BY <1>1, <1>3, <1>9
<1> QED BY <1>2, <1>4, <1>5, <1>6, <1>7, <1>8, <1>9

(* A wait is never longer than the policy allows.                          *)
LEMMA DelayBound ==
    ASSUME client \in Client, NEW n \in 1 .. 6, NEW hint \in Nat \cup {NoHint}
    PROVE  DelayFor(n, hint) \in 0 .. MaxDelay
<1> DEFINE p == 2 ^ (n - 1)
<1>1. p \in Nat
  BY PowerOfTwo, n - 1 \in 0 .. 5
<1> HIDE DEF p
<1>2. /\ MaxDelay \in {40, 90, 120} /\ Policy.max = MaxDelay /\ Policy.base \in Nat
  BY PolicyType
<1>3. Policy.base * p \in Nat
  BY <1>1, <1>2
<1>4. Lower(Policy.base * p, Policy.max) \in 0 .. MaxDelay
  BY <1>2, <1>3 DEF Lower
<1>5. hint # NoHint => Lower(hint, Policy.max) \in 0 .. MaxDelay
  BY <1>2 DEF Lower
<1>6. DelayFor(n, hint) = IF hint # NoHint THEN Lower(hint, Policy.max)
                                           ELSE Lower(Policy.base * p, Policy.max)
  BY DEF DelayFor, p
<1> QED BY <1>4, <1>5, <1>6

(* A hint that can be used is a number of half seconds.                    *)
LEMMA UsableHintType ==
    ASSUME NEW kind \in Kind, NEW hint \in Answer(kind)
    PROVE  UsableHint(kind, hint) \in Nat \cup {NoHint}
BY ServiceAssumption DEF UsableHint, Answer, NoHint, BadHint

-----------------------------------------------------------------------------

(* The invariant holds before the first call.                              *)
LEMMA InvInit == Init => IInv
<1> SUFFICES ASSUME Init PROVE IInv
  OBVIOUS
<1>1. client \in Client
  BY DEF Init
<1>2. Attempts \in {4, 5, 6} /\ Policy.attempts = Attempts
  BY <1>1, PolicyType
<1>3. 0 * Attempts \in Nat
  BY <1>1, Times
<1>4. (Attempts - 1) * MaxDelay \in Nat
  <2>1. Attempts - 1 \in Nat
    BY <1>2
  <2> QED BY <1>1, <2>1, Times
<1> QED BY <1>1, <1>2, <1>3, <1>4, ServiceAssumption
        DEF Init, IInv, TypeOK, DuplicatesExplained, InCall, WaitedSoFar, SentSoFar,
            GaveUp, Kind

(* The client and so its policy stay the same.                             *)
LEMMA ClientStays ==
    ASSUME IInv, [Next]_vars
    PROVE  /\ client \in Client /\ client' = client
           /\ Policy' = Policy /\ Attempts' = Attempts /\ MaxDelay' = MaxDelay
           /\ Attempts \in {4, 5, 6} /\ Policy.attempts = Attempts
<1>1. client \in Client /\ client' = client
  BY DEF IInv, TypeOK, Next, Begin, Succeed, Raise, BackOff, Fails, Sleep, Done, vars
<1>2. Policy' = Policy
  BY <1>1 DEF Policy
<1> QED BY <1>1, <1>2, PolicyType DEF Attempts, MaxDelay

(* A call starts with no attempt, no wait and no failure.                  *)
LEMMA BeginStep == ASSUME IInv, Begin PROVE IInv'
<1>1. /\ client \in Client /\ client' = client /\ Policy' = Policy
      /\ Attempts' = Attempts /\ MaxDelay' = MaxDelay
      /\ Attempts \in {4, 5, 6} /\ Policy.attempts = Attempts
  BY ClientStays DEF Next
<1>2. calls \in Nat /\ calls' = calls + 1 /\ calls' \in 0 .. MaxCalls
  BY ServiceAssumption DEF Begin, IInv, TypeOK
<1>3. sent <= calls * Attempts /\ calls * Attempts \in Nat
  BY <1>1, <1>2, Times DEF Begin, IInv, SentSoFar
<1>4. (1 - 1) * MaxDelay = 0 /\ calls' - 1 = calls
  BY <1>1, <1>2, PolicyType
<1>5. TypeOK'
  BY <1>1, <1>2 DEF Begin, IInv, TypeOK
<1>6. DuplicatesExplained' /\ InCall' /\ GaveUp'
  BY <1>2 DEF Begin, DuplicatesExplained, InCall, GaveUp
<1>7. WaitedSoFar'
  BY <1>1, <1>4 DEF Begin, WaitedSoFar
<1>8. SentSoFar'
  <2>1. sent' = sent /\ pc' = "attempt" /\ attempt' = 1 /\ sent \in Nat
    BY DEF Begin, IInv, TypeOK
  <2>2. (calls' - 1) * Attempts' = calls * Attempts
    BY <1>1, <1>4
  <2> QED BY <1>3, <2>1, <2>2 DEF SentSoFar
<1> QED BY <1>5, <1>6, <1>7, <1>8 DEF IInv

(* What any request does to the counts.                                    *)
LEMMA RequestCounted ==
    ASSUME IInv, pc = "attempt", sent' = sent + 1, calls' = calls, client' = client
    PROVE  /\ attempt \in 1 .. Attempts /\ sent \in Nat /\ calls \in 1 .. MaxCalls
           /\ sent + 1 <= (calls - 1) * Attempts + attempt
           /\ sent + 1 <= calls * Attempts
           /\ now <= (attempt - 1) * MaxDelay
           /\ now <= (Attempts - 1) * MaxDelay
           /\ (calls - 1) * Attempts \in Nat /\ (attempt - 1) * MaxDelay \in Nat
           /\ (Attempts - 1) * MaxDelay \in Nat
<1>1. client \in Client /\ Attempts \in {4, 5, 6} /\ Policy.attempts = Attempts
  BY PolicyType DEF IInv, TypeOK
<1>2. attempt \in 1 .. Attempts /\ sent \in Nat /\ calls \in 1 .. MaxCalls /\ now \in Nat
  BY <1>1 DEF IInv, TypeOK, InCall
<1>3. /\ sent <= (calls - 1) * Attempts + (attempt - 1)
      /\ now <= (attempt - 1) * MaxDelay
  BY DEF IInv, SentSoFar, WaitedSoFar
<1>4. /\ calls - 1 \in Nat /\ attempt - 1 \in Nat /\ attempt - 1 <= Attempts - 1
      /\ calls = (calls - 1) + 1 /\ Attempts - 1 \in Nat
  BY <1>1, <1>2
<1>5. /\ (calls - 1) * Attempts \in Nat /\ (attempt - 1) * MaxDelay \in Nat
      /\ calls * Attempts = (calls - 1) * Attempts + Attempts
      /\ (attempt - 1) * MaxDelay <= (Attempts - 1) * MaxDelay
      /\ (Attempts - 1) * MaxDelay \in Nat
  <2>1. calls - 1 \in Int /\ attempt - 1 \in Int /\ Attempts - 1 \in Int
    BY <1>4
  <2>2. ((calls - 1) + 1) * Attempts = (calls - 1) * Attempts + Attempts
    BY <1>1, <2>1, Times
  <2>3. (calls - 1) * Attempts \in Nat /\ (attempt - 1) * MaxDelay \in Nat
        /\ (Attempts - 1) * MaxDelay \in Nat
    BY <1>1, <1>4, <2>1, Times
  <2>4. (attempt - 1) * MaxDelay <= (Attempts - 1) * MaxDelay
    BY <1>1, <1>4, <2>1, Times
  <2> QED BY <1>4, <2>2, <2>3, <2>4
<1> DEFINE c == (calls - 1) * Attempts
           d == calls * Attempts
           w == (attempt - 1) * MaxDelay
           x == (Attempts - 1) * MaxDelay
<1>6. /\ c \in Nat /\ w \in Nat /\ d = c + Attempts /\ w <= x /\ x \in Nat
      /\ sent <= c + (attempt - 1) /\ now <= w
  BY <1>3, <1>5
<1> HIDE DEF c, d, w, x
<1>7. sent + 1 <= c + attempt /\ sent + 1 <= d /\ now <= x
  BY <1>1, <1>2, <1>6
<1> QED BY <1>2, <1>6, <1>7 DEF c, d, w, x

(* An attempt that succeeds is carried out once more at most.              *)
LEMMA SucceedStep == ASSUME IInv, Succeed PROVE IInv'
<1>1. /\ client \in Client /\ client' = client /\ Policy' = Policy
      /\ Attempts' = Attempts /\ MaxDelay' = MaxDelay
  BY ClientStays DEF Next
<1>2. /\ sent + 1 <= calls * Attempts /\ now <= (Attempts - 1) * MaxDelay
      /\ attempt \in 1 .. Attempts
  BY RequestCounted DEF Succeed
<1>3. TypeOK'
  BY <1>1 DEF Succeed, IInv, TypeOK, Kind
<1>4. DuplicatesExplained' /\ InCall' /\ GaveUp'
  BY DEF Succeed, DuplicatesExplained, InCall, GaveUp, IInv, TypeOK
<1>5. WaitedSoFar' /\ SentSoFar'
  BY <1>1, <1>2 DEF Succeed, WaitedSoFar, SentSoFar
<1> QED BY <1>3, <1>4, <1>5 DEF IInv

(* What a failed request does, whether it is tried again or not.           *)
LEMMA FailedRequest ==
    ASSUME IInv, NEW kind \in Kind, NEW hint \in Answer(kind), Fails(kind, hint)
    PROVE  /\ pc = "attempt" /\ sent' = sent + 1 /\ calls' = calls
           /\ client' = client /\ now' = now /\ reply' = kind
           /\ doubtful' \in Nat /\ effects' \in Nat /\ effects' <= doubtful'
           /\ notBefore' \in Nat
<1>1. /\ effects \in Nat /\ doubtful \in Nat /\ effects <= doubtful
      /\ now \in Nat /\ notBefore \in Nat
  BY DEF Fails, IInv, TypeOK, InCall
<1>2. hint \in Int
  BY ServiceAssumption DEF Answer, NoHint, BadHint
<1>3. doubtful' \in Nat /\ effects' \in Nat /\ effects' <= doubtful'
  BY <1>1 DEF Fails, Doubtful
<1>4. notBefore' \in Nat
  BY <1>1, <1>2 DEF Fails
<1> QED BY <1>3, <1>4 DEF Fails

(* What is raised is the failure of this attempt.                          *)
LEMMA RaiseStep == ASSUME IInv, Raise PROVE IInv'
<1> PICK kind \in Kind : \E hint \in Answer(kind) :
        Fails(kind, hint) /\ (MayRaise(kind, hint) \/ attempt = Policy.attempts)
  BY DEF Raise
<1> PICK hint \in Answer(kind) :
        Fails(kind, hint) /\ (MayRaise(kind, hint) \/ attempt = Policy.attempts)
  OBVIOUS
<1>1. /\ client \in Client /\ client' = client /\ Policy' = Policy
      /\ Attempts' = Attempts /\ MaxDelay' = MaxDelay /\ Policy.attempts = Attempts
  BY ClientStays DEF Next
<1>2. /\ pc = "attempt" /\ sent' = sent + 1 /\ calls' = calls /\ now' = now
      /\ reply' = kind /\ doubtful' \in Nat /\ effects' \in Nat /\ effects' <= doubtful'
      /\ notBefore' \in Nat
  BY FailedRequest
<1>3. /\ sent + 1 <= calls * Attempts /\ now <= (Attempts - 1) * MaxDelay
      /\ attempt \in 1 .. Attempts
  BY <1>1, <1>2, RequestCounted
<1>4. pc' = "idle" /\ result' = "raised" /\ attempt' = attempt /\ delay' = delay
  BY DEF Raise
<1>5. TypeOK'
  BY <1>1, <1>2, <1>4 DEF IInv, TypeOK
<1>6. DuplicatesExplained' /\ InCall'
  <2>1. effects' <= 1 + doubtful' /\ result' # "returned"
    <3>1. effects' \in Nat /\ doubtful' \in Nat /\ effects' <= doubtful'
      BY <1>2
    <3>2. effects' <= 1 + doubtful'
      BY <3>1, AtMostOneMore, Zenon
    <3> QED BY <1>4, <3>2
  <2>2. DuplicatesExplained'
    BY <1>2, <2>1 DEF DuplicatesExplained
  <2>3. InCall'
    BY <1>4 DEF InCall
  <2> QED BY <2>2, <2>3
<1>7. GaveUp'
  BY <1>1, <1>2, <1>4 DEF GaveUp, MayRaise, Kind
<1>8. WaitedSoFar' /\ SentSoFar'
  BY <1>1, <1>2, <1>3, <1>4 DEF WaitedSoFar, SentSoFar
<1> QED BY <1>5, <1>6, <1>7, <1>8 DEF IInv

(* A failure that allows it leads to a bounded wait.                       *)
LEMMA BackOffStep == ASSUME IInv, BackOff PROVE IInv'
<1> PICK kind \in Kind : \E hint \in Answer(kind) :
        /\ Fails(kind, hint)
        /\ MayRetry(kind, hint) /\ attempt < Policy.attempts
        /\ delay' = DelayFor(attempt, UsableHint(kind, hint))
  BY DEF BackOff
<1> PICK hint \in Answer(kind) :
        /\ Fails(kind, hint)
        /\ MayRetry(kind, hint) /\ attempt < Policy.attempts
        /\ delay' = DelayFor(attempt, UsableHint(kind, hint))
  OBVIOUS
<1>1. /\ client \in Client /\ client' = client /\ Policy' = Policy
      /\ Attempts' = Attempts /\ MaxDelay' = MaxDelay /\ Policy.attempts = Attempts
      /\ Attempts \in {4, 5, 6}
  BY ClientStays DEF Next
<1>2. /\ pc = "attempt" /\ sent' = sent + 1 /\ calls' = calls /\ now' = now
      /\ reply' = kind /\ doubtful' \in Nat /\ effects' \in Nat /\ effects' <= doubtful'
      /\ notBefore' \in Nat
  BY FailedRequest
<1>3. /\ sent + 1 <= (calls - 1) * Attempts + attempt
      /\ now <= (attempt - 1) * MaxDelay /\ (attempt - 1) * MaxDelay \in Nat
      /\ attempt \in 1 .. Attempts /\ calls \in 1 .. MaxCalls
  BY <1>1, <1>2, RequestCounted
<1>4. pc' = "backoff" /\ result' = result /\ attempt' = attempt
  BY DEF BackOff
<1>5. delay' \in 0 .. MaxDelay
  <2>1. attempt \in 1 .. 6 /\ UsableHint(kind, hint) \in Nat \cup {NoHint}
    BY <1>1, <1>3, UsableHintType
  <2> QED BY <1>1, <2>1, DelayBound
<1>6. TypeOK'
  BY <1>1, <1>2, <1>4, <1>5 DEF IInv, TypeOK
<1>7. DuplicatesExplained' /\ InCall' /\ GaveUp'
  <2>1. effects' <= 1 + doubtful' /\ result' = "none"
    <3>1. effects' \in Nat /\ doubtful' \in Nat /\ effects' <= doubtful'
      BY <1>2
    <3>2. effects' <= 1 + doubtful'
      BY <3>1, AtMostOneMore, Zenon
    <3> QED BY <1>2, <1>4, <3>2 DEF IInv, InCall
  <2>2. DuplicatesExplained'
    BY <2>1 DEF DuplicatesExplained
  <2>3. InCall'
    <3>1. attempt < Attempts
      BY <1>1
    <3> QED BY <1>1, <1>2, <1>3, <1>4, <2>1, <3>1 DEF InCall
  <2>4. GaveUp'
    BY <2>1 DEF GaveUp
  <2> QED BY <2>2, <2>3, <2>4
<1>8. now + delay' <= attempt * MaxDelay
  <2> DEFINE w == (attempt - 1) * MaxDelay
  <2>1. attempt * MaxDelay = w + MaxDelay
    BY <1>1, <1>3, Times, attempt - 1 \in Int, (attempt - 1) + 1 = attempt
  <2>2. now <= w /\ w \in Nat /\ now \in Nat /\ MaxDelay \in Nat
    BY <1>1, <1>3, PolicyType DEF IInv, TypeOK
  <2> HIDE DEF w
  <2> QED BY <1>5, <2>1, <2>2
<1>9. WaitedSoFar' /\ SentSoFar'
  BY <1>1, <1>2, <1>3, <1>4, <1>8 DEF WaitedSoFar, SentSoFar
<1> QED BY <1>6, <1>7, <1>9 DEF IInv

(* The wait counts and the next attempt follows.                           *)
LEMMA SleepStep == ASSUME IInv, Sleep PROVE IInv'
<1>1. /\ client \in Client /\ client' = client /\ Policy' = Policy
      /\ Attempts' = Attempts /\ MaxDelay' = MaxDelay /\ Policy.attempts = Attempts
      /\ Attempts \in {4, 5, 6}
  BY ClientStays DEF Next
<1>2. /\ attempt \in 1 .. (Attempts - 1) /\ calls >= 1 /\ now \in Nat /\ delay \in Nat
      /\ pc = "backoff" /\ pc' = "attempt" /\ attempt' = attempt + 1 /\ now' = now + delay
      /\ sent' = sent /\ calls' = calls /\ attempt' - 1 = attempt
  BY <1>1 DEF Sleep, IInv, TypeOK, InCall
<1>3. TypeOK'
  BY <1>1, <1>2 DEF Sleep, IInv, TypeOK
<1>4. DuplicatesExplained' /\ InCall' /\ GaveUp'
  BY <1>2 DEF Sleep, IInv, DuplicatesExplained, InCall, GaveUp
<1>5. WaitedSoFar'
  <2>1. now + delay <= attempt * MaxDelay
    BY <1>2 DEF IInv, WaitedSoFar
  <2> QED BY <1>1, <1>2, <2>1 DEF WaitedSoFar
<1>6. SentSoFar'
  <2>1. sent <= (calls - 1) * Attempts + attempt
    BY <1>2 DEF IInv, SentSoFar
  <2> QED BY <1>1, <1>2, <2>1 DEF SentSoFar
<1> QED BY <1>3, <1>4, <1>5, <1>6 DEF IInv

(* Every step keeps the invariant.                                         *)
LEMMA InvNext == IInv /\ [Next]_vars => IInv'
<1> SUFFICES ASSUME IInv, [Next]_vars PROVE IInv'
  OBVIOUS
<1>1. CASE Begin    BY <1>1, BeginStep
<1>2. CASE Succeed  BY <1>2, SucceedStep
<1>3. CASE Raise    BY <1>3, RaiseStep
<1>4. CASE BackOff  BY <1>4, BackOffStep
<1>5. CASE Sleep    BY <1>5, SleepStep
<1>6. CASE UNCHANGED vars
  <2>1. Policy' = Policy
    BY <1>6 DEF vars, Policy
  <2>2. Attempts' = Attempts /\ MaxDelay' = MaxDelay
    BY <2>1 DEF Attempts, MaxDelay
  <2>3. TypeOK' /\ DuplicatesExplained'
    BY <1>6, <2>1 DEF vars, IInv, TypeOK, DuplicatesExplained
  <2>4. InCall' /\ GaveUp'
    BY <1>6, <2>1, <2>2 DEF vars, IInv, InCall, GaveUp
  <2>5. WaitedSoFar' /\ SentSoFar'
    BY <1>6, <2>2 DEF vars, IInv, WaitedSoFar, SentSoFar
  <2> QED BY <2>3, <2>4, <2>5 DEF IInv
<1> QED BY <1>1, <1>2, <1>3, <1>4, <1>5, <1>6 DEF Next, Done

(* What the invariant says of the calls that are over, and of the others.  *)
LEMMA InvImplies == IInv => WaitBounded /\ GivesUpAtTheLimit
<1> SUFFICES ASSUME IInv PROVE WaitBounded /\ GivesUpAtTheLimit
  OBVIOUS
<1>1. /\ client \in Client /\ Attempts \in {4, 5, 6} /\ Policy.attempts = Attempts
      /\ MaxDelay \in {40, 90, 120} /\ Policy.max = MaxDelay
  BY PolicyType DEF IInv, TypeOK
<1>2. /\ pc \in {"idle", "attempt", "backoff"} /\ attempt \in 0 .. Attempts
      /\ now \in Nat /\ delay \in Nat /\ sent \in Nat /\ calls \in Nat
  BY <1>1 DEF IInv, TypeOK
<1> DEFINE x == (Attempts - 1) * MaxDelay
           d == calls * Attempts
<1>3. x \in Nat /\ d \in Nat
  BY <1>1, <1>2, Times
<1>4. CASE pc = "idle"
  BY <1>1, <1>2, <1>4 DEF IInv, WaitedSoFar, SentSoFar, GaveUp, WaitBounded,
                          GivesUpAtTheLimit
<1>5. CASE pc # "idle"
  <2>1. /\ attempt >= 1 /\ calls >= 1 /\ result = "none"
        /\ pc = "backoff" => attempt < Attempts
    BY <1>2, <1>5 DEF IInv, InCall
  <2> DEFINE w == (attempt - 1) * MaxDelay
             y == attempt * MaxDelay
             c == (calls - 1) * Attempts
  <2>2. /\ attempt - 1 \in Nat /\ attempt - 1 <= Attempts - 1 /\ calls - 1 \in Nat
        /\ pc = "backoff" => attempt <= Attempts - 1
        /\ (calls - 1) + 1 = calls
    BY <1>1, <1>2, <2>1
  <2>3. w \in Nat /\ w <= x
    BY <1>1, <2>2, Times
  <2>4. y \in Nat /\ (pc = "backoff" => y <= x)
    BY <1>1, <1>2, <2>2, Times
  <2>5. c \in Nat /\ d = c + Attempts
    BY <1>1, <2>2, Times
  <2>6. /\ pc = "attempt" => now <= w /\ sent <= c + (attempt - 1)
        /\ pc = "backoff" => now + delay <= y /\ sent <= c + attempt
    BY DEF IInv, WaitedSoFar, SentSoFar
  <2> HIDE DEF x, d, w, y, c
  <2>7. now + (IF pc = "backoff" THEN delay ELSE 0) <= x
    BY <1>2, <1>3, <1>5, <2>3, <2>4, <2>6
  <2>8. sent <= d
    BY <1>1, <1>2, <1>3, <1>5, <2>5, <2>6
  <2> QED BY <1>1, <2>1, <2>7, <2>8 DEF x, d, WaitBounded, GivesUpAtTheLimit
<1> QED BY <1>4, <1>5

-----------------------------------------------------------------------------

(* The state of the calls is well typed, for all four clients.             *)
THEOREM TypeCorrect == Spec => []TypeOK
<1>1. IInv => TypeOK
  BY DEF IInv
<1> QED BY InvInit, InvNext, <1>1, PTL DEF Spec

(* A request is carried out twice only after a failure at which it may     *)
(* have been, however often the service fails and whatever it does with    *)
(* the requests and answers to them.                                       *)
THEOREM NoNeedlessDuplicate == Spec => []DuplicatesExplained
<1>1. IInv => DuplicatesExplained
  BY DEF IInv
<1> QED BY InvInit, InvNext, <1>1, PTL DEF Spec

(* Whatever waits a service asks for, a call waits no longer than its      *)
(* policy allows.                                                          *)
THEOREM WaitIsBounded == Spec => []WaitBounded
BY InvInit, InvNext, InvImplies, PTL DEF Spec

(* However many calls there are, they send at most max_attempts requests   *)
(* each, and give up on a transient failure only after the last of these.  *)
THEOREM NoEarlyGivingUp == Spec => []GivesUpAtTheLimit
BY InvInit, InvNext, InvImplies, PTL DEF Spec

-----------------------------------------------------------------------------
(***************************************************************************)
(* The steps that all calls still to be made may take: for each of them    *)
(* one to begin, one per attempt and one per wait between two attempts.    *)
(***************************************************************************)
StepsLeft ==
    (MaxCalls - calls) * (2 * Attempts)
      + (CASE pc = "idle"    -> 0
           [] pc = "attempt" -> 2 * (Attempts - attempt) + 1
           [] pc = "backoff" -> 2 * (Attempts - attempt))

(* What the calls not begun yet may take.                                  *)
LEMMA CallsLeft ==
    ASSUME IInv
    PROVE  /\ MaxCalls - calls \in Nat /\ Attempts \in {4, 5, 6}
           /\ (MaxCalls - calls) * (2 * Attempts) \in Nat
           /\ (MaxCalls - calls - 1) * (2 * Attempts)
                = (MaxCalls - calls) * (2 * Attempts) - 2 * Attempts
           /\ pc \in {"idle", "attempt", "backoff"}
           /\ pc # "idle" => attempt \in 1 .. Attempts
<1>1. client \in Client /\ pc \in {"idle", "attempt", "backoff"}
      /\ attempt \in 0 .. Policy.attempts /\ calls \in 0 .. MaxCalls
  BY DEF IInv, TypeOK
<1>2. Attempts \in {4, 5, 6} /\ Policy.attempts = Attempts
  BY <1>1, PolicyType
<1>3. MaxCalls - calls \in Nat
  BY <1>1, ServiceAssumption
<1>4. pc # "idle" => attempt \in 1 .. Attempts
  BY <1>1, <1>2 DEF IInv, InCall
<1> DEFINE n == MaxCalls - calls
<1>5. n \in Nat
  BY <1>3
<1> HIDE DEF n
<1>6. n * (2 * Attempts) \in Nat /\ (n - 1) * (2 * Attempts) = n * (2 * Attempts) - 2 * Attempts
  BY <1>2, <1>5
<1> QED BY <1>1, <1>2, <1>4, <1>5, <1>6 DEF n

(* Every step leaves fewer, whatever the service answers.                  *)
LEMMA StepShrinks ==
    ASSUME IInv, Next, ~Done
    PROVE  StepsLeft' < StepsLeft
<1> DEFINE l == (MaxCalls - calls) * (2 * Attempts)
<1>1. /\ l \in Nat /\ Attempts \in {4, 5, 6} /\ calls \in Nat /\ MaxCalls \in Nat
      /\ (MaxCalls - calls - 1) * (2 * Attempts) = l - 2 * Attempts
      /\ pc # "idle" => attempt \in 1 .. Attempts
  BY CallsLeft, ServiceAssumption DEF IInv, TypeOK
<1>2. Attempts' = Attempts
  BY ClientStays
<1>3. calls' = calls => (MaxCalls - calls') * (2 * Attempts') = l
  BY <1>2
<1>4. CASE Begin
  <2>1. pc = "idle" /\ pc' = "attempt" /\ attempt' = 1 /\ calls' = calls + 1
    BY <1>4 DEF Begin
  <2>2. MaxCalls - calls' = MaxCalls - calls - 1
    BY <1>1, <2>1
  <2>3. StepsLeft = l + 0
    BY <2>1 DEF StepsLeft
  <2>4. StepsLeft' = (l - 2 * Attempts) + (2 * (Attempts - 1) + 1)
    BY <1>1, <1>2, <2>1, <2>2 DEF StepsLeft
  <2> HIDE DEF l
  <2> QED BY <1>1, <2>3, <2>4
<1>5. CASE Succeed \/ Raise
  <2>1. pc = "attempt" /\ pc' = "idle" /\ calls' = calls
    BY <1>5 DEF Succeed, Raise, Fails
  <2>2. StepsLeft = l + (2 * (Attempts - attempt) + 1)
    BY <2>1 DEF StepsLeft
  <2>3. StepsLeft' = l + 0
    BY <1>3, <2>1 DEF StepsLeft
  <2> HIDE DEF l
  <2> QED BY <1>1, <2>1, <2>2, <2>3
<1>6. CASE BackOff
  <2>1. pc = "attempt" /\ pc' = "backoff" /\ attempt' = attempt /\ calls' = calls
    BY <1>6 DEF BackOff, Fails
  <2>2. StepsLeft = l + (2 * (Attempts - attempt) + 1)
    BY <2>1 DEF StepsLeft
  <2>3. StepsLeft' = l + 2 * (Attempts - attempt)
    BY <1>2, <1>3, <2>1 DEF StepsLeft
  <2> HIDE DEF l
  <2> QED BY <1>1, <2>1, <2>2, <2>3
<1>7. CASE Sleep
  <2>1. pc = "backoff" /\ pc' = "attempt" /\ attempt' = attempt + 1 /\ calls' = calls
    BY <1>7 DEF Sleep
  <2>2. StepsLeft = l + 2 * (Attempts - attempt)
    BY <2>1 DEF StepsLeft
  <2>3. StepsLeft' = l + (2 * (Attempts - (attempt + 1)) + 1)
    BY <1>2, <1>3, <2>1 DEF StepsLeft
  <2> HIDE DEF l
  <2> QED BY <1>1, <2>1, <2>2, <2>3
<1> QED BY <1>4, <1>5, <1>6, <1>7 DEF Next

(* No call is retried for ever: the steps left are a number, and every     *)
(* step makes it smaller until the last call is over, so that fairness is  *)
(* all that EveryCallEnds needs.                                           *)
THEOREM CallsAreFinite ==
    Spec => [](StepsLeft \in Nat) /\ [][StepsLeft' < StepsLeft]_vars
<1>1. ASSUME IInv PROVE StepsLeft \in Nat
  <2> DEFINE l == (MaxCalls - calls) * (2 * Attempts)
  <2>1. /\ l \in Nat /\ Attempts \in {4, 5, 6} /\ pc \in {"idle", "attempt", "backoff"}
        /\ pc # "idle" => attempt \in 1 .. Attempts
    BY <1>1, CallsLeft
  <2>2. StepsLeft = l + (CASE pc = "idle"    -> 0
                           [] pc = "attempt" -> 2 * (Attempts - attempt) + 1
                           [] pc = "backoff" -> 2 * (Attempts - attempt))
    BY DEF StepsLeft
  <2> HIDE DEF l
  <2> QED BY <2>1, <2>2
<1>2. IInv /\ [Next]_vars => [StepsLeft' < StepsLeft]_vars
  BY StepShrinks DEF Done
<1>3. IInv => StepsLeft \in Nat
  BY <1>1
<1> QED BY <1>2, <1>3, InvInit, InvNext, PTL DEF Spec

=============================================================================
