------------------------ MODULE Conversation_proofs ------------------------
(***************************************************************************)
(* Proofs about Conversation, for every budget, number of recent messages, *)
(* size of prompt and task, and set of results and turns.  How a token     *)
(* estimate is computed plays no part: FitsBudget is expanded only to see  *)
(* that AtomicCompaction has the same one.                                 *)
(***************************************************************************)
EXTENDS Conversation, FiniteSetTheorems, SequenceTheorems, TLAPS, WellFoundedInduction

(* _compacted holds the positions of the stubs.                            *)
CompactedAreStubs == compacted = {i \in 1 .. Len(messages) : messages[i].claims # 0}

(* The task comes first, and only tool messages have a body.               *)
Shape ==
    /\ messages # <<>> /\ messages[1].role = "user"
    /\ \A i \in 1 .. Len(messages) : messages[i].role # "tool" => messages[i].body = 0

(* What a scan has passed leaves nothing to cut.                           *)
ScannedIsCut ==
    phase = "scan" => \A i \in 1 .. Len(messages) : i < cursor => ~Compactable(i)

(* What a compaction must pass over is not a stub.                         *)
ProtectedInFull == \A i \in Protected(Len(messages)) : messages[i].claims = 0

(* While results are being added there is a call without one.              *)
CallsPending == phase = "results" => pending >= 1

IInv ==
    /\ TypeOK
    /\ CallsPending
    /\ Shape
    /\ CompactedAreStubs
    /\ ProtectedInFull
    /\ OldestFirst
    /\ StubTellsSize
    /\ ScannedIsCut
    /\ OverBudgetOnlyIfCut

-----------------------------------------------------------------------------

(* A stub has a length.                                                    *)
LEMMA StubCharsType == ASSUME NEW n PROVE StubChars(n) \in Nat
<1> DEFINE K == {k \in 0 .. 8 : 10 ^ k <= n}
<1>1. IsFiniteSet(0 .. 8)
  <2>1. 0 \in Int /\ 8 \in Int
    OBVIOUS
  <2> QED BY <2>1, FS_Interval, Zenon
<1>2. IsFiniteSet(K)
  BY <1>1, FS_Subset
<1>3. Cardinality(K) \in Nat
  BY <1>2, FS_CardinalityType
<1> QED BY <1>3 DEF StubChars, Digits, STUB_HEAD

(* A stub is a message that differs in its size and header only.           *)
LEMMA StubbedMessage ==
    ASSUME NEW m \in Message
    PROVE  /\ Stubbed(m) \in Message
           /\ Stubbed(m).role = m.role /\ Stubbed(m).body = m.body
           /\ Stubbed(m).claims = m.length
BY StubCharsType DEF Stubbed, Message

(* The messages the loop adds are messages.                                *)
LEMMA NewMessages ==
    /\ UserMessage \in Message
    /\ \A tokens \in TurnTokens : AssistantMessage(tokens) \in Message
    /\ \A chars \in ResultChars : ToolMessage(chars) \in Message
<1>1. \A n \in Nat : Tokens(n) \in Nat
  BY DEF Tokens, AtLeastOne
<1>2. Tokens(TaskChars) \in Nat /\ Tokens(0) \in Nat
  BY <1>1, ContextAssumption
<1> QED BY <1>2, InputAssumption
        DEF Message, UserMessage, AssistantMessage, ToolMessage

(* A message added at the end, in full, between two compactions.           *)
LEMMA Extended ==
    ASSUME IInv, NEW m \in Message, m.claims = 0, m.length = m.body,
           m.role # "tool" => m.body = 0,
           messages' = Append(messages, m), compacted' = compacted,
           notes' \in Nat, pending' \in 0 .. MaxTurnCalls, CallsPending',
           cursor' = cursor, phase' \in Phase \ {"scan", "request"}
    PROVE  IInv'
<1> DEFINE n == Len(messages)
<1>1. /\ messages \in Seq(Message) /\ n \in Nat /\ n >= 1
      /\ messages' \in Seq(Message) /\ Len(messages') = n + 1
      /\ messages'[n + 1] = m
      /\ \A i \in 1 .. n : messages'[i] = messages[i]
  <2>1. messages \in Seq(Message) /\ messages # <<>>
    BY DEF IInv, TypeOK, Shape
  <2> QED BY <2>1, AppendProperties, EmptySeq
<1> HIDE DEF n
<1>2. TypeOK'
  BY <1>1 DEF n, IInv, TypeOK
<1>3. Shape'
  BY <1>1 DEF n, IInv, Shape
<1>4. CompactedAreStubs'
  BY <1>1 DEF n, IInv, CompactedAreStubs
<1>5. \A i \in 1 .. n : i \in Protected(n + 1) => i \in Protected(n)
  BY <1>1, ContextAssumption DEF Protected, ProtectedTail
<1>6. ProtectedInFull'
  <2>1. \A i \in Protected(n + 1) : i \in 1 .. n + 1
    BY <1>1 DEF Protected, ProtectedTail
  <2> QED BY <1>1, <1>5, <2>1 DEF n, IInv, ProtectedInFull
<1>7. OldestFirst'
  <2>1. DOMAIN messages = 1 .. n /\ DOMAIN messages' = 1 .. n + 1
    BY <1>1 DEF n
  <2> QED BY <1>1, <2>1 DEF IInv, OldestFirst
<1>8. StubTellsSize'
  <2>1. DOMAIN messages = 1 .. n /\ DOMAIN messages' = 1 .. n + 1
    BY <1>1 DEF n
  <2> QED BY <1>1, <2>1 DEF IInv, StubTellsSize
<1> QED BY <1>2, <1>3, <1>4, <1>6, <1>7, <1>8
        DEF IInv, ScannedIsCut, OverBudgetOnlyIfCut

(* The one step that rewrites a message.                                   *)
LEMMA StubStep == IInv /\ Stub => IInv'
<1> SUFFICES ASSUME IInv, Stub PROVE IInv'
  OBVIOUS
<1> DEFINE n == Len(messages)
           m == messages[cursor]
<1>1. /\ messages \in Seq(Message) /\ n \in Nat /\ cursor \in 1 .. n
      /\ cursor \notin Protected(n) /\ cursor \notin compacted
      /\ m \in Message /\ m.role = "tool" /\ m.length > STUB_HEAD
      /\ m.claims = 0 /\ m.length = m.body /\ m.length # 0
  <2>1. cursor \in 1 .. n /\ messages \in Seq(Message) /\ n \in Nat
    BY DEF Stub, Scanning, IInv, TypeOK
  <2>2. /\ cursor \notin Protected(n) /\ cursor \notin compacted
        /\ m.role = "tool" /\ m.length > STUB_HEAD
    BY DEF Stub, Compactable
  <2>3. m \in Message
    BY <2>1
  <2>4. m.claims = 0
    BY <2>1, <2>2 DEF IInv, CompactedAreStubs
  <2>5. m.length = m.body
    BY <2>1, <2>4 DEF IInv, StubTellsSize
  <2>6. m.length # 0
    BY <2>2 DEF STUB_HEAD
  <2> QED BY <2>1, <2>2, <2>3, <2>4, <2>5, <2>6
<1>2. /\ messages' \in Seq(Message) /\ Len(messages') = n
      /\ messages'[cursor] = Stubbed(m)
      /\ \A i \in 1 .. n : i # cursor => messages'[i] = messages[i]
  <2>1. messages' = [messages EXCEPT ![cursor] = Stubbed(m)]
    BY DEF Stub
  <2>2. Stubbed(m) \in Message
    BY <1>1, StubbedMessage
  <2> QED BY <1>1, <2>1, <2>2, ExceptSeq
<1>3. /\ Stubbed(m).role = "tool" /\ Stubbed(m).body = m.body
      /\ Stubbed(m).claims = m.body /\ Stubbed(m).claims # 0
  BY <1>1, StubbedMessage
<1>4. /\ compacted' = compacted \cup {cursor} /\ cursor' = cursor + 1
      /\ UNCHANGED <<notes, pending, phase>> /\ phase = "scan"
  BY DEF Stub, Scanning
<1>5. DOMAIN messages = 1 .. n /\ DOMAIN messages' = 1 .. n
  BY <1>1, <1>2
<1> HIDE DEF n, m
<1>6. TypeOK'
  <2>1. compacted \subseteq 1 .. n /\ cursor \in 1 .. n
    BY <1>1 DEF n, IInv, TypeOK
  <2>2. compacted' \subseteq 1 .. n /\ cursor' \in Nat \ {0}
    BY <1>1, <1>4, <2>1
  <2>3. notes' \in Nat /\ pending' \in 0 .. MaxTurnCalls /\ phase' \in Phase
    BY <1>4 DEF IInv, TypeOK
  <2> QED BY <1>2, <2>2, <2>3 DEF TypeOK
<1>7. Shape'
  <2>1. messages[1].role = "user" /\ messages # <<>>
    BY DEF IInv, Shape
  <2>2. cursor # 1
    BY <1>1 DEF Protected
  <2>3. 1 \in 1 .. n
    BY <1>1
  <2>4. messages'[1].role = "user"
    BY <1>2, <2>1, <2>2, <2>3
  <2>5. messages' # <<>>
    BY <1>2, <2>3, EmptySeq
  <2>6. \A i \in 1 .. n : messages'[i].role # "tool" => messages'[i].body = 0
    BY <1>2, <1>3 DEF n, IInv, Shape
  <2> QED BY <1>2, <2>4, <2>5, <2>6 DEF Shape
<1>8. CompactedAreStubs'
  BY <1>1, <1>2, <1>3, <1>4 DEF n, IInv, CompactedAreStubs
<1>9. ProtectedInFull'
  <2>1. \A i \in Protected(n) : i \in 1 .. n /\ i # cursor
    BY <1>1 DEF Protected, ProtectedTail
  <2> QED BY <1>2, <2>1 DEF n, IInv, ProtectedInFull
<1>10. ASSUME NEW i \in 1 .. n, i < cursor, messages[i].body > STUB_HEAD
       PROVE  messages[i].claims # 0
  <2>1. messages[i].role = "tool"
    BY <1>10 DEF n, IInv, Shape, STUB_HEAD
  <2>2. i \notin Protected(n)
    <3>1. i # 1
      BY <2>1 DEF IInv, Shape
    <3>2. ~(i > n - KeepRecent)
      BY <1>1, <1>10, ContextAssumption DEF Protected, ProtectedTail
    <3> QED BY <3>1, <3>2 DEF Protected, ProtectedTail
  <2>3. ~Compactable(i)
    BY <1>4, <1>10 DEF n, IInv, ScannedIsCut
  <2>4. CASE messages[i].claims = 0
    <3>1. messages[i].length > STUB_HEAD
      BY <1>5, <1>10, <2>4 DEF IInv, StubTellsSize
    <3>2. i \notin compacted
      BY <2>4 DEF IInv, CompactedAreStubs
    <3> QED BY <2>1, <2>2, <2>3, <3>1, <3>2 DEF n, Compactable
  <2> QED BY <2>4
<1>11. OldestFirst'
  <2> SUFFICES ASSUME NEW i \in 1 .. n, NEW j \in 1 .. n, i < j,
                      messages'[j].claims # 0, messages'[i].body > STUB_HEAD
               PROVE  messages'[i].claims # 0
    BY <1>5 DEF OldestFirst
  <2>1. CASE i = cursor
    BY <1>2, <1>3, <2>1
  <2>2. CASE i # cursor /\ j = cursor
    BY <1>2, <1>10, <2>2
  <2>3. CASE i # cursor /\ j # cursor
    BY <1>2, <1>5, <2>3 DEF IInv, OldestFirst
  <2> QED BY <2>1, <2>2, <2>3
<1>12. StubTellsSize'
  BY <1>2, <1>3, <1>5 DEF IInv, StubTellsSize
<1>13. ScannedIsCut'
  <2> SUFFICES ASSUME NEW i \in 1 .. n, i < cursor + 1 PROVE ~Compactable(i)'
    BY <1>2, <1>4 DEF ScannedIsCut
  <2>1. CASE i = cursor
    BY <1>4, <2>1 DEF Compactable
  <2>2. CASE i # cursor
    <3>1. ~Compactable(i)
      BY <1>1, <1>4, <2>2 DEF n, IInv, ScannedIsCut
    <3> QED BY <1>2, <1>4, <2>2, <3>1 DEF n, Compactable
  <2> QED BY <2>1, <2>2
<1> QED BY <1>4, <1>6, <1>7, <1>8, <1>9, <1>11, <1>12, <1>13
        DEF IInv, OverBudgetOnlyIfCut, CallsPending

(* The invariant holds of a new conversation.                              *)
LEMMA InvInit == Init => IInv
<1> SUFFICES ASSUME Init PROVE IInv
  OBVIOUS
<1>1. /\ messages = <<UserMessage>> /\ UserMessage \in Message
      /\ UserMessage.role = "user" /\ UserMessage.claims = 0
      /\ UserMessage.length = 0 /\ UserMessage.body = 0
  BY NewMessages DEF Init, UserMessage
<1>2. /\ messages \in Seq(Message) /\ Len(messages) = 1 /\ messages[1] = UserMessage
      /\ messages # <<>> /\ DOMAIN messages = {1} /\ 1 .. Len(messages) = {1}
  BY <1>1
<1>3. Protected(Len(messages)) = {1}
  BY <1>2 DEF Protected, ProtectedTail
<1> HIDE DEF UserMessage
<1>4. TypeOK
  BY <1>2, InputAssumption DEF Init, TypeOK, Phase
<1>5. Shape /\ CompactedAreStubs
  BY <1>1, <1>2 DEF Init, Shape, CompactedAreStubs
<1>6. ProtectedInFull /\ OldestFirst /\ StubTellsSize
  BY <1>1, <1>2, <1>3 DEF ProtectedInFull, OldestFirst, StubTellsSize
<1> QED BY <1>4, <1>5, <1>6 DEF Init, IInv, CallsPending, ScannedIsCut, OverBudgetOnlyIfCut

(* Every addition and every step of a scan keeps it.                       *)
LEMMA InvNext == IInv /\ [Next]_vars => IInv'
<1> SUFFICES ASSUME IInv, [Next]_vars PROVE IInv'
  OBVIOUS
<1> USE DEF IInv
<1>1. CASE StartScan
  BY <1>1 DEF StartScan, TypeOK, Phase, Shape, CompactedAreStubs, ProtectedInFull,
     OldestFirst, StubTellsSize, ScannedIsCut, OverBudgetOnlyIfCut, CallsPending, Fits
<1>2. CASE ScanOver
  <2>1. Len(messages) \in Nat /\ DOMAIN messages = 1 .. Len(messages)
    BY DEF TypeOK
  <2>2. /\ UNCHANGED <<messages, compacted, notes, pending, cursor>>
        /\ phase = "scan" /\ phase' = "request" /\ (cursor > Len(messages) \/ Fits)
    BY <1>2 DEF ScanOver
  <2>3. ~Fits => \A i \in DOMAIN messages : ~Compactable(i)
    BY <2>1, <2>2 DEF ScannedIsCut, TypeOK
  <2>4. OverBudgetOnlyIfCut'
    BY <2>2, <2>3 DEF OverBudgetOnlyIfCut, Compactable, Fits
  <2> QED BY <2>2, <2>4 DEF TypeOK, Phase, Shape, CompactedAreStubs, ProtectedInFull,
             OldestFirst, StubTellsSize, ScannedIsCut, CallsPending
<1>3. CASE Skip
  <2>1. /\ UNCHANGED <<messages, compacted, notes, pending, phase>>
        /\ phase = "scan" /\ cursor' = cursor + 1 /\ ~Compactable(cursor)
        /\ cursor \in Nat
    BY <1>3 DEF Skip, Scanning, TypeOK
  <2>2. ScannedIsCut'
    <3> SUFFICES ASSUME NEW i \in 1 .. Len(messages), i < cursor + 1
                 PROVE  ~Compactable(i)
      BY <2>1 DEF ScannedIsCut, Compactable
    <3>1. i < cursor \/ i = cursor
      BY <2>1
    <3> QED BY <2>1, <3>1 DEF ScannedIsCut
  <2> QED BY <2>1, <2>2 DEF TypeOK, Shape, CompactedAreStubs, ProtectedInFull,
             OldestFirst, StubTellsSize, OverBudgetOnlyIfCut, CallsPending
<1>4. CASE Stub
  BY <1>4, StubStep
<1>5. CASE Turn
  <2>1. PICK tokens \in TurnTokens, calls \in 0 .. MaxTurnCalls :
          /\ messages' = Append(messages, AssistantMessage(tokens))
          /\ pending' = calls
          /\ phase' = IF calls = 0 THEN "over" ELSE "results"
          /\ UNCHANGED <<compacted, notes, cursor>>
    BY <1>5 DEF Turn
  <2>2. AssistantMessage(tokens) \in Message
    BY NewMessages
  <2>3. /\ AssistantMessage(tokens).claims = 0
        /\ AssistantMessage(tokens).length = AssistantMessage(tokens).body
        /\ AssistantMessage(tokens).body = 0
    BY DEF AssistantMessage
  <2>4. phase' \in Phase \ {"scan", "request"} /\ notes' \in Nat
    BY <2>1 DEF Phase, TypeOK
  <2>5. CallsPending'
    BY <2>1 DEF CallsPending
  <2> QED BY <2>1, <2>2, <2>3, <2>4, <2>5, Extended
<1>6. CASE AddResult
  <2>1. PICK chars \in ResultChars : messages' = Append(messages, ToolMessage(chars))
    BY <1>6 DEF AddResult
  <2>2. ToolMessage(chars) \in Message
    BY NewMessages
  <2>3. /\ ToolMessage(chars).claims = 0
        /\ ToolMessage(chars).length = ToolMessage(chars).body
        /\ ToolMessage(chars).role = "tool"
    BY DEF ToolMessage
  <2>4. phase' \in Phase \ {"scan", "request"} /\ notes' \in Nat
    BY <1>6 DEF AddResult, Phase, TypeOK
  <2>5. pending' \in 0 .. MaxTurnCalls
    BY <1>6, InputAssumption DEF AddResult, TypeOK, CallsPending
  <2>6. CallsPending'
    BY <1>6 DEF AddResult, TypeOK, CallsPending
  <2> QED BY <1>6, <2>1, <2>2, <2>3, <2>4, <2>5, <2>6, Extended DEF AddResult
<1>7. CASE Over \/ UNCHANGED vars
  BY <1>7 DEF Over, vars, TypeOK, Shape, CompactedAreStubs, ProtectedInFull, OldestFirst,
     StubTellsSize, ScannedIsCut, OverBudgetOnlyIfCut, CallsPending, Compactable, Fits
<1> QED BY <1>1, <1>2, <1>3, <1>4, <1>5, <1>6, <1>7 DEF Next

(* It holds throughout.                                                    *)
LEMMA Invariance == Spec => []IInv
<1>1. Init => IInv
  BY InvInit
<1>2. IInv /\ [Next]_vars => IInv'
  BY InvNext
<1> QED BY <1>1, <1>2, PTL DEF Spec

-----------------------------------------------------------------------------
(* Theorems.                                                               *)

(* Every variable has its type in every state of every run.                *)
THEOREM TypeCorrect == Spec => []TypeOK
<1>1. IInv => TypeOK
  BY DEF IInv
<1> QED BY <1>1, Invariance, PTL

(* The task and the last keep_recent messages are never cut.               *)
THEOREM RecentIsVerbatim == Spec => []RecentVerbatim
<1>1. IInv => RecentVerbatim
  BY DEF IInv, ProtectedInFull, Protected, ProtectedTail, RecentVerbatim
<1> QED BY <1>1, Invariance, PTL

(* Long results are cut in the order of their age, across compactions.     *)
THEOREM CutsOldestFirst == Spec => []OldestFirst
<1>1. IInv => OldestFirst
  BY DEF IInv
<1> QED BY <1>1, Invariance, PTL

(* No result is cut twice, and a stub's header states the true size.       *)
THEOREM StubsTellSize == Spec => []StubTellsSize
<1>1. IInv => StubTellsSize
  BY DEF IInv
<1> QED BY <1>1, Invariance, PTL

(* A request over budget leaves nothing that compaction may still cut.     *)
THEOREM CutsWhatItMay == Spec => []OverBudgetOnlyIfCut
<1>1. IInv => OverBudgetOnlyIfCut
  BY DEF IInv
<1> QED BY <1>1, Invariance, PTL

-----------------------------------------------------------------------------
(***************************************************************************)
(* The loop and the definition.  The operators of AtomicCompaction, of any *)
(* transcript s with x notes: while a scan stubs one message after the     *)
(* other, what the transcript will come to stays the same.                 *)
(***************************************************************************)
Uncut(s, i) ==
    /\ i \notin Protected(Len(s))
    /\ s[i].role = "tool" /\ s[i].claims = 0 /\ s[i].length > STUB_HEAD

Cut(s, k) == [i \in DOMAIN s |-> IF i < k /\ Uncut(s, i) THEN Stubbed(s[i]) ELSE s[i]]

FittingOf(s, x) == {k \in 1 .. Len(s) : FitsBudget(Cut(s, k), x)}

EnoughOf(s, x) == IF FittingOf(s, x) = {} THEN Len(s) + 1 ELSE Min(FittingOf(s, x))

CompactedOf(s, x) == Cut(s, EnoughOf(s, x))

StubAt(s, c) == [s EXCEPT ![c] = Stubbed(s[c])]

(* They are the operators of AtomicCompaction.                             *)
LEMMA SameOperators ==
    /\ \A m : Now!Stubbed(m) = Stubbed(m)
    /\ \A n : Now!Protected(n) = Protected(n)
    /\ \A s, x : Now!FitsBudget(s, x) <=> FitsBudget(s, x)
<1>1. ASSUME NEW m PROVE Now!Stubbed(m) = Stubbed(m)
  BY DEF Now!Stubbed, Stubbed, Now!StubChars, StubChars, Now!Digits, Digits,
         Now!STUB_HEAD, STUB_HEAD, Now!Cardinality, Cardinality
<1>2. ASSUME NEW n PROVE Now!Protected(n) = Protected(n)
  BY DEF Now!Protected, Protected, Now!ProtectedTail, ProtectedTail
<1>3. ASSUME NEW s, NEW x PROVE Now!FitsBudget(s, x) <=> FitsBudget(s, x)
  BY DEF Now!FitsBudget, FitsBudget, Now!EstimatedTokens, EstimatedTokens,
         Now!MessageTokens, MessageTokens, Now!Tokens, Tokens, Now!AtLeastOne, AtLeastOne,
         Now!LedgerChars, LedgerChars, Now!MapThenSumSet, MapThenSumSet,
         Now!MapThenFoldSet, MapThenFoldSet
<1> QED BY <1>1, <1>2, <1>3

(* The definition, of the transcript as it stands.                         *)
LEMMA CompactedNow ==
    Now!Compacted = CompactedOf(messages, notes)
<1>1. \A k : Now!CutBefore(k) = Cut(messages, k)
  BY SameOperators DEF Now!CutBefore, Cut, Uncut, Now!InFull, Now!STUB_HEAD, STUB_HEAD
<1>2. Now!Enough = EnoughOf(messages, notes)
  <2>1. {k \in 1 .. Len(messages) : Now!FitsBudget(Now!CutBefore(k), notes)} =
          FittingOf(messages, notes)
    BY <1>1, SameOperators DEF FittingOf
  <2>2. \A S : Now!Min(S) = Min(S)
    BY DEF Now!Min, Min
  <2> QED BY <2>1, <2>2 DEF Now!Enough, EnoughOf
<1> QED BY <1>1, <1>2 DEF Now!Compacted, CompactedOf

(* A set of positions that is not empty has a least one.                   *)
LEMMA LeastPosition ==
    ASSUME NEW n \in Nat, NEW S \in SUBSET (1 .. n), S # {}
    PROVE  Min(S) \in S /\ \A y \in S : Min(S) <= y
<1>1. S \subseteq Nat
  OBVIOUS
<1>2. PICK x \in S : \A y \in S : ~(<<y, x>> \in OpToRel(<, Nat))
  BY <1>1, WFMin, NatLessThanWellFounded
<1>3. \A y \in S : x <= y
  <2> SUFFICES ASSUME NEW y \in S PROVE x <= y
    OBVIOUS
  <2>1. x \in Nat /\ y \in Nat
    BY <1>1
  <2>2. ~(y < x)
    BY <1>2, <2>1 DEF OpToRel
  <2> QED BY <2>1, <2>2
<1> QED BY <1>2, <1>3 DEF Min

(* Where nothing is left to be cut, nothing is cut.                        *)
LEMMA CutNothing ==
    ASSUME NEW s \in Seq(Message), NEW k, \A i \in 1 .. Len(s) : i < k => ~Uncut(s, i)
    PROVE  Cut(s, k) = s
<1>1. DOMAIN s = 1 .. Len(s) /\ s = [i \in DOMAIN s |-> s[i]]
  OBVIOUS
<1>2. \A i \in DOMAIN s : ~(i < k /\ Uncut(s, i))
  BY <1>1
<1>3. Cut(s, k) = [i \in DOMAIN s |-> s[i]]
  BY <1>2 DEF Cut
<1> QED BY <1>1, <1>3

(* One more stub, at the first position that is still uncut: the parts of  *)
(* the definition before it and after it.                                  *)
LEMMA CutOne ==
    ASSUME NEW s \in Seq(Message), NEW c \in 1 .. Len(s), Uncut(s, c),
           \A i \in 1 .. Len(s) : i < c => ~Uncut(s, i)
    PROVE  /\ StubAt(s, c) \in Seq(Message) /\ Len(StubAt(s, c)) = Len(s)
           /\ \A k \in 1 .. c : Cut(s, k) = s
           /\ \A k \in 1 .. c + 1 : Cut(StubAt(s, c), k) = StubAt(s, c)
           /\ \A k \in Int : k > c => Cut(StubAt(s, c), k) = Cut(s, k)
<1> DEFINE n == Len(s)
           t == StubAt(s, c)
<1>1. n \in Nat /\ s[c] \in Message /\ Stubbed(s[c]) \in Message
  BY StubbedMessage
<1>2. /\ t \in Seq(Message) /\ Len(t) = n
      /\ t[c] = Stubbed(s[c]) /\ \A i \in 1 .. n : i # c => t[i] = s[i]
  BY <1>1, ExceptSeq DEF StubAt
<1>3. DOMAIN s = 1 .. n /\ DOMAIN t = 1 .. n
  BY <1>2
<1>4. Stubbed(s[c]).claims # 0
  BY <1>1, StubbedMessage DEF Uncut, STUB_HEAD
<1> HIDE DEF n, t
<1>5. ~Uncut(t, c)
  BY <1>2, <1>4 DEF Uncut
<1>6. \A i \in 1 .. n : i # c => (Uncut(t, i) <=> Uncut(s, i))
  BY <1>2 DEF Uncut, n
<1>7. ASSUME NEW k \in 1 .. c PROVE Cut(s, k) = s
  <2>1. \A i \in 1 .. n : i < k => ~Uncut(s, i)
    BY <1>1 DEF n
  <2> QED BY <2>1, CutNothing DEF n
<1>8. ASSUME NEW k \in 1 .. c + 1 PROVE Cut(t, k) = t
  <2>1. ASSUME NEW i \in 1 .. n, i < k PROVE ~Uncut(t, i)
    <3>1. i < c \/ i = c
      BY <1>1, <2>1 DEF n
    <3>2. CASE i = c
      BY <1>5, <3>2
    <3>3. CASE i # c
      <4>1. ~Uncut(s, i)
        BY <3>1, <3>3 DEF n
      <4> QED BY <1>6, <3>3, <4>1
    <3> QED BY <3>2, <3>3
  <2> QED BY <1>2, <2>1, CutNothing
<1>9. ASSUME NEW k \in Int, k > c PROVE Cut(t, k) = Cut(s, k)
  <2>1. ASSUME NEW i \in 1 .. n PROVE Cut(t, k)[i] = Cut(s, k)[i]
    <3>1. CASE i = c
      <4>1. Cut(s, k)[i] = Stubbed(s[c])
        BY <1>3, <1>9, <3>1 DEF Cut
      <4>2. Cut(t, k)[i] = t[c]
        BY <1>3, <1>5, <3>1 DEF Cut
      <4> QED BY <1>2, <4>1, <4>2
    <3>2. CASE i # c
      BY <1>2, <1>3, <1>6, <3>2 DEF Cut
    <3> QED BY <3>1, <3>2
  <2> QED BY <1>3, <2>1 DEF Cut
<1> QED BY <1>2, <1>7, <1>8, <1>9 DEF n, t

(* A stub that was needed does not change what the transcript comes to.    *)
LEMMA StubAhead ==
    ASSUME NEW s \in Seq(Message), NEW x, NEW c \in 1 .. Len(s), Uncut(s, c),
           \A i \in 1 .. Len(s) : i < c => ~Uncut(s, i),
           ~FitsBudget(s, x)
    PROVE  CompactedOf(StubAt(s, c), x) = CompactedOf(s, x)
<1> DEFINE n == Len(s)
           t == StubAt(s, c)
           F == FittingOf(s, x)
           G == FittingOf(t, x)
<1>1. n \in Nat /\ c \in 1 .. n
  OBVIOUS
<1>2. /\ Len(t) = n
      /\ \A k \in 1 .. c : Cut(s, k) = s
      /\ \A k \in 1 .. c + 1 : Cut(t, k) = t
      /\ \A k \in Int : k > c => Cut(t, k) = Cut(s, k)
  BY CutOne
<1>3. /\ F \in SUBSET (1 .. n) /\ G \in SUBSET (1 .. n)
      /\ \A k \in 1 .. n : k \in F <=> FitsBudget(Cut(s, k), x)
      /\ \A k \in 1 .. n : k \in G <=> FitsBudget(Cut(t, k), x)
  BY <1>2 DEF FittingOf
<1>4. /\ EnoughOf(s, x) = (IF F = {} THEN n + 1 ELSE Min(F))
      /\ EnoughOf(t, x) = (IF G = {} THEN n + 1 ELSE Min(G))
  BY <1>2 DEF EnoughOf
<1> HIDE DEF n, t, F, G
<1>5. \A k \in F : k > c
  <2> SUFFICES ASSUME NEW k \in F, ~(k > c) PROVE FALSE
    OBVIOUS
  <2>1. k \in 1 .. c
    BY <1>1, <1>3
  <2> QED BY <1>2, <1>3, <2>1
<1>6. F # {} => Min(F) \in F /\ \A y \in F : Min(F) <= y
  BY <1>1, <1>3, LeastPosition
<1>7. G # {} => Min(G) \in G /\ \A y \in G : Min(G) <= y
  BY <1>1, <1>3, LeastPosition
<1>8. CASE FitsBudget(t, x)
  <2>1. 1 \in G /\ Min(G) = 1
    <3>1. 1 \in G
      BY <1>1, <1>2, <1>3, <1>8
    <3>2. Min(G) \in G /\ Min(G) <= 1
      BY <1>7, <3>1
    <3>3. Min(G) \in 1 .. n
      BY <1>3, <3>2
    <3> QED BY <3>1, <3>2, <3>3
  <2>2. CompactedOf(t, x) = t
    BY <1>1, <1>2, <1>4, <2>1 DEF CompactedOf
  <2>3. Cut(s, c + 1) = t
    BY <1>1, <1>2
  <2>4. EnoughOf(s, x) = c + 1
    <3>1. CASE c + 1 \in 1 .. n
      <4>1. c + 1 \in F
        BY <1>3, <1>8, <2>3, <3>1
      <4>2. Min(F) \in F /\ Min(F) <= c + 1
        BY <1>6, <4>1
      <4>3. Min(F) \in 1 .. n /\ Min(F) > c
        BY <1>3, <1>5, <4>2
      <4>4. Min(F) = c + 1
        BY <1>1, <4>2, <4>3
      <4> QED BY <1>4, <4>1, <4>4
    <3>2. CASE c + 1 \notin 1 .. n
      <4>1. c = n
        BY <1>1, <3>2
      <4>2. F = {}
        BY <1>1, <1>3, <1>5, <4>1
      <4> QED BY <1>4, <4>1, <4>2
    <3> QED BY <3>1, <3>2
  <2> QED BY <2>2, <2>3, <2>4 DEF CompactedOf, t
<1>9. CASE ~FitsBudget(t, x)
  <2>1. ASSUME NEW k \in 1 .. n PROVE k \in F <=> k \in G
    <3>1. CASE k > c
      BY <1>2, <1>3, <3>1
    <3>2. CASE ~(k > c)
      <4>1. k \in 1 .. c /\ k \in 1 .. c + 1
        BY <1>1, <3>2
      <4> QED BY <1>2, <1>3, <1>9, <4>1
    <3> QED BY <3>1, <3>2
  <2>2. F = G
    BY <1>3, <2>1
  <2>3. EnoughOf(t, x) = EnoughOf(s, x)
    BY <1>4, <2>2
  <2>4. EnoughOf(s, x) \in Int /\ EnoughOf(s, x) > c
    <3>1. CASE F = {}
      BY <1>1, <1>4, <3>1
    <3>2. CASE F # {}
      <4>1. Min(F) \in F
        BY <1>6, <3>2
      <4>2. Min(F) \in 1 .. n /\ Min(F) > c
        BY <1>3, <1>5, <4>1
      <4> QED BY <1>4, <3>2, <4>2
    <3> QED BY <3>1, <3>2
  <2> QED BY <1>2, <2>3, <2>4 DEF CompactedOf, t
<1> QED BY <1>8, <1>9 DEF t

(* Where the scan ends, the transcript is what it was to come to.          *)
LEMMA ScanComplete ==
    ASSUME NEW s \in Seq(Message), s # <<>>, NEW x,
           FitsBudget(s, x) \/ \A i \in 1 .. Len(s) : ~Uncut(s, i)
    PROVE  CompactedOf(s, x) = s
<1>1. Len(s) \in Nat /\ Len(s) >= 1
  BY EmptySeq
<1>2. CASE \A i \in 1 .. Len(s) : ~Uncut(s, i)
  BY <1>2, CutNothing DEF CompactedOf
<1>3. CASE FitsBudget(s, x)
  <2>1. \A i \in 1 .. Len(s) : ~(i < 1)
    BY <1>1
  <2>2. Cut(s, 1) = s
    BY <2>1, CutNothing
  <2> DEFINE F == FittingOf(s, x)
  <2>3. 1 \in F /\ F \in SUBSET (1 .. Len(s))
    BY <1>1, <1>3, <2>2 DEF FittingOf
  <2>4. EnoughOf(s, x) = Min(F)
    BY <2>3 DEF EnoughOf
  <2> HIDE DEF F
  <2>5. Min(F) = 1
    <3>1. Min(F) \in F /\ \A y \in F : Min(F) <= y
      BY <1>1, <2>3, LeastPosition
    <3>2. Min(F) \in 1 .. Len(s) /\ Min(F) <= 1
      BY <2>3, <3>1
    <3> QED BY <1>1, <3>2
  <2> QED BY <2>2, <2>4, <2>5 DEF CompactedOf
<1> QED BY <1>2, <1>3

(* Uncut is what the loop tests.                                           *)
LEMMA CompactableIsUncut ==
    ASSUME IInv, NEW i \in 1 .. Len(messages)
    PROVE  Compactable(i) <=> Uncut(messages, i)
BY DEF IInv, CompactedAreStubs, Compactable, Uncut

(* What the abstract transcript is, now and after a step.                  *)
Abstract == IF phase = "scan" THEN CompactedOf(messages, notes) ELSE messages

(* The mapped transcript is what the scan will come to.                    *)
LEMMA AbstractNow == (IF phase = "scan" THEN Now!Compacted ELSE messages) = Abstract
BY CompactedNow DEF Abstract

(* It holds in the next state as in this one.                              *)
LEMMA AbstractNext ==
    (IF phase = "scan" THEN Now!Compacted ELSE messages)' = Abstract'
<1>1. ((IF phase = "scan" THEN Now!Compacted ELSE messages) = Abstract)'
  BY AbstractNow, PTL
<1> QED BY <1>1

(* Every step of the loop is one of the abstract specification, or none.   *)
LEMMA StepIsAtomic ==
    ASSUME IInv, [Next]_vars
    PROVE  \/ /\ Len(Abstract') = Len(Abstract) + 1
              /\ \A i \in 1 .. Len(Abstract) : Abstract'[i] = Abstract[i]
              /\ Abstract'[Len(Abstract')].claims = 0
              /\ notes' = IF Abstract'[Len(Abstract')].role = "tool" THEN notes + 1 ELSE notes
              /\ Abstract \in Seq(Message)
           \/ /\ Abstract' = CompactedOf(messages, notes) /\ notes' = notes
              /\ Abstract = messages
           \/ Abstract' = Abstract /\ notes' = notes
<1>1. messages \in Seq(Message) /\ messages # <<>> /\ Len(messages) \in Nat
  BY DEF IInv, TypeOK, Shape
<1>2. CASE StartScan
  BY <1>2 DEF StartScan, Abstract
<1>3. CASE ScanOver
  <2>1. CompactedOf(messages, notes) = messages
    <3>1. \/ FitsBudget(messages, notes)
          \/ \A i \in 1 .. Len(messages) : ~Uncut(messages, i)
      <4>1. CASE Fits
        BY <4>1 DEF Fits
      <4>2. CASE cursor > Len(messages)
        <5>1. \A i \in 1 .. Len(messages) : i < cursor
          BY <1>1, <4>2 DEF IInv, TypeOK
        <5>2. \A i \in 1 .. Len(messages) : ~Compactable(i)
          BY <1>3, <5>1 DEF ScanOver, IInv, ScannedIsCut
        <5> QED BY <5>2, CompactableIsUncut
      <4> QED BY <1>3, <4>1, <4>2 DEF ScanOver
    <3> QED BY <1>1, <3>1, ScanComplete
  <2> QED BY <1>3, <2>1 DEF ScanOver, Abstract
<1>4. CASE Skip
  BY <1>4 DEF Skip, Abstract
<1>5. CASE Stub
  <2>1. /\ phase = "scan" /\ phase' = phase /\ notes' = notes /\ ~Fits
        /\ messages' = StubAt(messages, cursor) /\ Compactable(cursor)
        /\ cursor \in 1 .. Len(messages)
    BY <1>1, <1>5 DEF Stub, Scanning, StubAt, IInv, TypeOK
  <2>2. Uncut(messages, cursor) /\ ~FitsBudget(messages, notes)
    BY <2>1, CompactableIsUncut DEF Fits
  <2>3. \A i \in 1 .. Len(messages) : i < cursor => ~Uncut(messages, i)
    BY <2>1, CompactableIsUncut DEF IInv, ScannedIsCut
  <2>4. CompactedOf(messages', notes) = CompactedOf(messages, notes)
    BY <1>1, <2>1, <2>2, <2>3, StubAhead
  <2> QED BY <2>1, <2>4 DEF Abstract
<1>6. CASE Turn
  <2>1. PICK tokens \in TurnTokens : messages' = Append(messages, AssistantMessage(tokens))
    BY <1>6 DEF Turn
  <2>2. phase = "request" /\ phase' # "scan" /\ notes' = notes
    BY <1>6 DEF Turn
  <2>3. AssistantMessage(tokens) \in Message
    BY NewMessages
  <2>4. AssistantMessage(tokens).claims = 0 /\ AssistantMessage(tokens).role = "assistant"
    BY DEF AssistantMessage
  <2>5. /\ Len(messages') = Len(messages) + 1
        /\ \A i \in 1 .. Len(messages) : messages'[i] = messages[i]
        /\ messages'[Len(messages) + 1] = AssistantMessage(tokens)
    BY <1>1, <2>1, <2>3, AppendProperties
  <2> QED BY <1>1, <2>2, <2>4, <2>5 DEF Abstract
<1>7. CASE AddResult
  <2>1. PICK chars \in ResultChars : messages' = Append(messages, ToolMessage(chars))
    BY <1>7 DEF AddResult
  <2>2. phase = "results" /\ phase' # "scan" /\ notes' = notes + 1
    BY <1>7 DEF AddResult
  <2>3. ToolMessage(chars) \in Message
    BY NewMessages
  <2>4. ToolMessage(chars).claims = 0 /\ ToolMessage(chars).role = "tool"
    BY DEF ToolMessage
  <2>5. /\ Len(messages') = Len(messages) + 1
        /\ \A i \in 1 .. Len(messages) : messages'[i] = messages[i]
        /\ messages'[Len(messages) + 1] = ToolMessage(chars)
    BY <1>1, <2>1, <2>3, AppendProperties
  <2> QED BY <1>1, <2>2, <2>4, <2>5 DEF Abstract
<1>8. CASE Over \/ UNCHANGED vars
  BY <1>8 DEF Over, vars, Abstract
<1> QED BY <1>2, <1>3, <1>4, <1>5, <1>6, <1>7, <1>8 DEF Next

(* The operators of the abstract specification itself.                     *)
LEMMA SameAbstract ==
    /\ \A m : Atomic!Stubbed(m) = Stubbed(m)
    /\ \A n : Atomic!Protected(n) = Protected(n)
    /\ \A s, x : Atomic!FitsBudget(s, x) <=> FitsBudget(s, x)
<1>1. ASSUME NEW m PROVE Atomic!Stubbed(m) = Stubbed(m)
  BY DEF Atomic!Stubbed, Stubbed, Atomic!StubChars, StubChars, Atomic!Digits, Digits,
         Atomic!STUB_HEAD, STUB_HEAD, Atomic!Cardinality, Cardinality
<1>2. ASSUME NEW n PROVE Atomic!Protected(n) = Protected(n)
  BY DEF Atomic!Protected, Protected, Atomic!ProtectedTail, ProtectedTail
<1>3. ASSUME NEW s, NEW x PROVE Atomic!FitsBudget(s, x) <=> FitsBudget(s, x)
  BY DEF Atomic!FitsBudget, FitsBudget, Atomic!EstimatedTokens, EstimatedTokens,
         Atomic!MessageTokens, MessageTokens, Atomic!Tokens, Tokens, Atomic!AtLeastOne, AtLeastOne,
         Atomic!LedgerChars, LedgerChars, Atomic!MapThenSumSet, MapThenSumSet,
         Atomic!MapThenFoldSet, MapThenFoldSet
<1> QED BY <1>1, <1>2, <1>3

(* The abstract compaction, of the abstract transcript.                    *)
LEMMA AtomicCompacted ==
    ASSUME IInv
    PROVE  Atomic!Compacted = CompactedOf(Abstract, notes)
<1> DEFINE a == IF phase = "scan" THEN Now!Compacted ELSE messages
<1>1. a = Abstract
  BY AbstractNow
<1>2. \A k : Atomic!CutBefore(k) = Cut(a, k)
  BY SameAbstract DEF Atomic!CutBefore, Cut, Uncut, Atomic!InFull, Atomic!STUB_HEAD, STUB_HEAD
<1>3. Atomic!Enough = EnoughOf(a, notes)
  <2>1. {k \in 1 .. Len(a) : Atomic!FitsBudget(Atomic!CutBefore(k), notes)} =
          FittingOf(a, notes)
    BY <1>2, SameAbstract DEF FittingOf
  <2>2. \A S : Atomic!Min(S) = Min(S)
    BY DEF Atomic!Min, Min
  <2> QED BY <2>1, <2>2 DEF Atomic!Enough, EnoughOf
<1> QED BY <1>1, <1>2, <1>3 DEF Atomic!Compacted, CompactedOf

(* The loop computes what the definition says: oldest results first, and   *)
(* no more of them than it takes, however the transcript has come about.   *)
THEOREM Refinement == Spec => ImplementsAtomicCompaction
<1>1. Init => Atomic!Init
  BY DEF Init, Atomic!Init, UserMessage, Atomic!UserMessage, Tokens, Atomic!Tokens,
         AtLeastOne, Atomic!AtLeastOne
<1>2. IInv /\ [Next]_vars => [Atomic!Next]_(Atomic!vars)
  <2> SUFFICES ASSUME IInv, [Next]_vars PROVE [Atomic!Next]_(Atomic!vars)
    OBVIOUS
  <2> DEFINE a == IF phase = "scan" THEN Now!Compacted ELSE messages
  <2>1. a = Abstract
    BY AbstractNow
  <2>2. a' = Abstract'
    BY AbstractNext
  <2>3. Atomic!Compacted = CompactedOf(Abstract, notes)
    BY AtomicCompacted
  <2> HIDE DEF a
  <2>4. CASE /\ Len(Abstract') = Len(Abstract) + 1
             /\ \A i \in 1 .. Len(Abstract) : Abstract'[i] = Abstract[i]
             /\ Abstract'[Len(Abstract')].claims = 0
             /\ notes' = IF Abstract'[Len(Abstract')].role = "tool" THEN notes + 1 ELSE notes
             /\ Abstract \in Seq(Message)
    <3>1. DOMAIN Abstract = 1 .. Len(Abstract)
      BY <2>4
    <3>2. Atomic!Extend
      BY <2>1, <2>2, <2>4, <3>1 DEF Atomic!Extend, a
    <3> QED BY <3>2 DEF Atomic!Next
  <2>5. CASE /\ Abstract' = CompactedOf(messages, notes) /\ notes' = notes
             /\ Abstract = messages
    <3>1. Atomic!Compact
      BY <2>1, <2>2, <2>3, <2>5 DEF Atomic!Compact, a
    <3> QED BY <3>1 DEF Atomic!Next
  <2>6. CASE Abstract' = Abstract /\ notes' = notes
    BY <2>1, <2>2, <2>6 DEF Atomic!vars, a
  <2> QED BY <2>4, <2>5, <2>6, StepIsAtomic
<1> QED BY <1>1, <1>2, Invariance, PTL DEF Spec, ImplementsAtomicCompaction, Atomic!Spec

=============================================================================
