------------------------- MODULE AgentSystem_proofs -------------------------
(***************************************************************************)
(* Theorems about AgentSystem, for every registry, budget and setting that *)
(* satisfies the assumptions on its constants.                             *)
(***************************************************************************)
EXTENDS AgentSystem, FiniteSetTheorems, TLAPS

-----------------------------------------------------------------------------
(* The operations on one frame keep it a frame.                            *)

(* A new run of the loop, with any budget, is a frame.                     *)
LEMMA NewFrameType ==
    ASSUME NEW role \in Role, NEW tools \in SUBSET Tool, NEW max \in Nat
    PROVE  NewFrame(role, tools, max) \in Frame
BY DEF NewFrame, Frame, UserMessage, Message

(* A frame with a new number of calls.                                     *)
LEMMA SetCalls ==
    ASSUME NEW f \in Frame, NEW c \in Nat
    PROVE  LET g == [f EXCEPT !.calls = c]
           IN  /\ g \in Frame /\ g.calls = c
               /\ g.role = f.role /\ g.tools = f.tools /\ g.max = f.max
               /\ g.turns = f.turns /\ g.todo = f.todo
BY DEF Frame

(* A frame with a new number of turns.                                     *)
LEMMA SetTurns ==
    ASSUME NEW f \in Frame, NEW n \in Nat
    PROVE  LET g == [f EXCEPT !.turns = n]
           IN  /\ g \in Frame /\ g.calls = f.calls /\ g.role = f.role
               /\ g.tools = f.tools /\ g.max = f.max
               /\ g.turns = n /\ g.todo = f.todo
BY DEF Frame

(* A frame with a new set of active tools.                                 *)
LEMMA SetActive ==
    ASSUME NEW f \in Frame, NEW a \in SUBSET Tool
    PROVE  LET g == [f EXCEPT !.active = a]
           IN  /\ g \in Frame /\ g.calls = f.calls /\ g.role = f.role
               /\ g.tools = f.tools /\ g.max = f.max
               /\ g.turns = f.turns /\ g.todo = f.todo
BY DEF Frame

(* A frame with a new transcript.                                          *)
LEMMA SetMsgs ==
    ASSUME NEW f \in Frame, NEW m \in Seq(Message)
    PROVE  LET g == [f EXCEPT !.msgs = m]
           IN  /\ g \in Frame /\ g.calls = f.calls /\ g.role = f.role
               /\ g.tools = f.tools /\ g.max = f.max
               /\ g.turns = f.turns /\ g.todo = f.todo
BY DEF Frame

(* A frame with a new list of pending calls.                               *)
LEMMA SetTodo ==
    ASSUME NEW f \in Frame, NEW t \in Seq(Call)
    PROVE  LET g == [f EXCEPT !.todo = t]
           IN  /\ g \in Frame /\ g.calls = f.calls /\ g.role = f.role
               /\ g.tools = f.tools /\ g.max = f.max /\ g.turns = f.turns
               /\ g.todo = t
BY DEF Frame

(* Counting a call keeps the type and touches nothing else.                *)
LEMMA CountedFrame ==
    ASSUME NEW f \in Frame
    PROVE  /\ Counted(f) \in Frame
           /\ Counted(f).calls = f.calls + 1
           /\ Counted(f).role = f.role /\ Counted(f).tools = f.tools
           /\ Counted(f).max = f.max /\ Counted(f).turns = f.turns
           /\ Counted(f).todo = f.todo
<1> DEFINE g == [f EXCEPT !.calls = f.calls + 1]
<1>1. f.calls + 1 \in Nat
  BY DEF Frame
<1>2. Counted(f) = g
  BY DEF Counted
<1>3. /\ g \in Frame /\ g.calls = f.calls + 1
      /\ g.role = f.role /\ g.tools = f.tools /\ g.max = f.max
      /\ g.turns = f.turns /\ g.todo = f.todo
  BY <1>1, SetCalls
<1> QED BY <1>2, <1>3

(* The result of the pending call goes into transcript and ledger.         *)
LEMMA AnsweredFrame ==
    ASSUME NEW f \in Frame, f.todo # <<>>, NEW ok \in BOOLEAN
    PROVE  /\ Answered(f, ok) \in Frame
           /\ Answered(f, ok).calls = f.calls
           /\ Answered(f, ok).role = f.role /\ Answered(f, ok).tools = f.tools
           /\ Answered(f, ok).max = f.max /\ Answered(f, ok).turns = f.turns
<1> DEFINE m == Append(f.msgs, ToolMessage(Head(f.todo).id, ok))
           l == Append(f.ledger, ok)
           t == Tail(f.todo)
           g == [f EXCEPT !.msgs = m, !.ledger = l, !.todo = t]
<1>1. Head(f.todo) \in Call /\ t \in Seq(Call)
  BY DEF Frame
<1>2. ToolMessage(Head(f.todo).id, ok) \in Message
  BY <1>1 DEF ToolMessage, Message, Call
<1>3. m \in Seq(Message) /\ l \in Seq(BOOLEAN)
  BY <1>2 DEF Frame
<1>4. Answered(f, ok) = g
  BY DEF Answered
<1> HIDE DEF m, l, t
<1>5. /\ g \in Frame /\ g.calls = f.calls
      /\ g.role = f.role /\ g.tools = f.tools /\ g.max = f.max
      /\ g.turns = f.turns
  BY <1>1, <1>3 DEF Frame
<1> QED BY <1>4, <1>5

(* A turn of the model.                                                    *)
LEMMA RepliedFrame ==
    ASSUME NEW f \in Frame, NEW n \in 0 .. MaxTurnCalls
    PROVE  /\ Replied(f, n) \in Frame
           /\ Replied(f, n).calls = f.calls
           /\ Replied(f, n).role = f.role /\ Replied(f, n).tools = f.tools
           /\ Replied(f, n).max = f.max /\ Replied(f, n).turns = f.turns + 1
           /\ Replied(f, n).todo = f.todo
<1> DEFINE m == Append(f.msgs, AssistantMessage(n))
           n1 == f.turns + 1
           u == Advertised(f)
           g == [f EXCEPT !.turns = n1, !.menu = u, !.msgs = m]
<1>1. AssistantMessage(n) \in Message
  BY AgentAssumption DEF AssistantMessage, Message
<1>2. m \in Seq(Message) /\ n1 \in Nat
  BY <1>1 DEF Frame
<1>3. u \in SUBSET Tool
  BY DEF Advertised, MetaSpecs, SpecsFor, DomainSpecs, Frame
<1>4. Replied(f, n) = g
  BY DEF Replied
<1> HIDE DEF m, n1, u
<1>5. /\ g \in Frame /\ g.calls = f.calls /\ g.turns = n1
      /\ g.role = f.role /\ g.tools = f.tools /\ g.max = f.max
      /\ g.todo = f.todo
  BY <1>2, <1>3 DEF Frame
<1> QED BY <1>4, <1>5 DEF n1

(* A longer transcript.                                                    *)
LEMMA AppendMessage ==
    ASSUME NEW msgs \in Seq(Message), NEW m \in Message
    PROVE  Append(msgs, m) \in Seq(Message)
OBVIOUS

(* The transcript of a run that is cut off.                                *)
LEMMA RefusedFrame ==
    ASSUME NEW f \in Frame, f.todo # <<>>
    PROVE  /\ Refused(f) \in Frame
           /\ Refused(f).calls = f.calls
           /\ Refused(f).role = f.role /\ Refused(f).tools = f.tools
           /\ Refused(f).max = f.max /\ Refused(f).turns = f.turns
<1> DEFINE m == Append(f.msgs, ToolMessage(Head(f.todo).id, FALSE))
           g == [f EXCEPT !.msgs = m]
<1>1. Head(f.todo) \in Call
  BY DEF Frame
<1>2. ToolMessage(Head(f.todo).id, FALSE) \in Message
  BY <1>1 DEF ToolMessage, Message, Call
<1>3. f.msgs \in Seq(Message)
  BY DEF Frame
<1>4. m \in Seq(Message)
  BY <1>2, <1>3, AppendMessage, Zenon
<1>5. Refused(f) = g
  BY DEF Refused
<1> HIDE DEF m
<1>6. /\ g \in Frame /\ g.calls = f.calls /\ g.role = f.role
      /\ g.tools = f.tools /\ g.max = f.max /\ g.turns = f.turns
  BY <1>4, SetMsgs
<1> QED BY <1>5, <1>6

(* A request that got no answer.                                           *)
LEMMA UnansweredFrame ==
    ASSUME NEW f \in Frame
    PROVE  /\ Unanswered(f) \in Frame
           /\ Unanswered(f).calls = f.calls
           /\ Unanswered(f).role = f.role /\ Unanswered(f).tools = f.tools
           /\ Unanswered(f).max = f.max /\ Unanswered(f).turns = f.turns + 1
<1> DEFINE n == f.turns + 1
           g == [f EXCEPT !.turns = n]
<1>1. n \in Nat
  BY DEF Frame
<1>2. Unanswered(f) = g
  BY DEF Unanswered
<1> HIDE DEF n
<1>3. /\ g \in Frame /\ g.calls = f.calls /\ g.role = f.role
      /\ g.tools = f.tools /\ g.max = f.max /\ g.turns = n
  BY <1>1, SetTurns
<1> QED BY <1>2, <1>3 DEF n

(* A call that is counted and answered.                                    *)
LEMMA CalledFrame ==
    ASSUME NEW f \in Frame, f.todo # <<>>, NEW ok \in BOOLEAN
    PROVE  LET g == Answered(Counted(f), ok)
           IN  /\ g \in Frame /\ g.calls = f.calls + 1 /\ g.role = f.role
               /\ g.tools = f.tools /\ g.max = f.max /\ g.turns = f.turns
<1>1. /\ Counted(f) \in Frame /\ Counted(f).calls = f.calls + 1
      /\ Counted(f).role = f.role /\ Counted(f).tools = f.tools
      /\ Counted(f).max = f.max /\ Counted(f).turns = f.turns
      /\ Counted(f).todo # <<>>
  BY CountedFrame
<1> QED BY <1>1, AnsweredFrame

(* The load tool's call is a call like any other.                          *)
LEMMA LoadedFrame ==
    ASSUME NEW f \in Frame, f.todo # <<>>, NEW ok \in BOOLEAN,
           NEW names \in SUBSET DomainSpecs(f.tools)
    PROVE  LET g == Activated(Answered(Counted(f), ok), names)
           IN  /\ g \in Frame /\ g.calls = f.calls + 1 /\ g.role = f.role
               /\ g.tools = f.tools /\ g.max = f.max /\ g.turns = f.turns
<1> DEFINE h == Answered(Counted(f), ok)
<1>1. /\ h \in Frame /\ h.calls = f.calls + 1 /\ h.role = f.role
      /\ h.tools = f.tools /\ h.max = f.max /\ h.turns = f.turns
  BY CalledFrame
<1> HIDE DEF h
<1> DEFINE a == h.active \cup names
           g == [h EXCEPT !.active = a]
<1>2. a \in SUBSET Tool
  BY <1>1 DEF Frame, DomainSpecs
<1>3. Activated(h, names) = g
  BY DEF Activated
<1> HIDE DEF a
<1>4. /\ g \in Frame /\ g.calls = h.calls /\ g.role = h.role
      /\ g.tools = h.tools /\ g.max = h.max /\ g.turns = h.turns
  BY <1>1, <1>2, SetActive
<1> QED BY <1>1, <1>3, <1>4 DEF h

(* A function on 1 .. n is a sequence of length n.                         *)
LEMMA FunctionIsSeq ==
    ASSUME NEW S, NEW n \in Nat, NEW r \in [1 .. n -> S]
    PROVE  r \in Seq(S) /\ Len(r) = n
BY DOMAIN r = 1 .. n

(* A turn that asks for calls: they are all pending, and there is one.     *)
LEMMA AskedFrame ==
    ASSUME NEW f \in Frame, NEW names \in TurnCalls
    PROVE  /\ Asked(f, names) \in Frame
           /\ Asked(f, names).calls = f.calls
           /\ Asked(f, names).role = f.role /\ Asked(f, names).tools = f.tools
           /\ Asked(f, names).max = f.max /\ Asked(f, names).turns = f.turns + 1
           /\ Asked(f, names).todo # <<>>
<1> DEFINE calls == [i \in 1 .. Len(names) |-> [id |-> i, name |-> names[i]]]
           r == Replied(f, Len(names))
           g == [r EXCEPT !.todo = calls]
<1>1. PICK n \in 1 .. MaxTurnCalls : names \in [1 .. n -> Name]
  BY DEF TurnCalls
<1>2. n \in Nat /\ Len(names) = n /\ Len(names) \in 0 .. MaxTurnCalls
  <2>1. n \in Nat
    BY AgentAssumption
  <2>2. Len(names) = n
    BY <1>1, <2>1, FunctionIsSeq, Zenon
  <2> QED BY <2>1, <2>2, AgentAssumption
<1>3. calls \in [1 .. n -> Call]
  <2>1. \A i \in 1 .. n : [id |-> i, name |-> names[i]] \in Call
    BY <1>1, AgentAssumption DEF Call
  <2> QED BY <1>2, <2>1
<1>4. n >= 1
  BY <1>1, AgentAssumption
<1> HIDE DEF calls
<1>5. calls \in Seq(Call) /\ Len(calls) = n /\ calls # <<>>
  <2>1. calls \in Seq(Call) /\ Len(calls) = n
    BY <1>2, <1>3, FunctionIsSeq, Zenon
  <2>2. Len(calls) > 0
    BY <1>2, <1>4, <2>1
  <2> QED BY <2>1, <2>2
<1>6. /\ r \in Frame /\ r.calls = f.calls /\ r.role = f.role /\ r.tools = f.tools
      /\ r.max = f.max /\ r.turns = f.turns + 1
  BY <1>2, RepliedFrame, Zenon
<1>7. Asked(f, names) = g
  BY DEF Asked, calls
<1> HIDE DEF r
<1>8. /\ g \in Frame /\ g.calls = r.calls /\ g.role = r.role /\ g.tools = r.tools
      /\ g.max = r.max /\ g.turns = r.turns /\ g.todo = calls
  BY <1>5, <1>6, SetTodo
<1> QED BY <1>5, <1>6, <1>7, <1>8

-----------------------------------------------------------------------------
(* The operations on the stack.                                            *)

(* Updating the top frame.                                                 *)
LEMMA SetTopStack ==
    ASSUME stack \in Seq(Frame), stack # <<>>, NEW f \in Frame
    PROVE  /\ SetTop(f) \in Seq(Frame) /\ Len(SetTop(f)) = Len(stack)
           /\ SetTop(f)[Len(stack)] = f
           /\ \A i \in 1 .. Len(stack) - 1 : SetTop(f)[i] = stack[i]
           /\ Len(stack) \in Nat \ {0} /\ Top \in Frame
BY DEF SetTop, Top

(* A subagent returns to its parent.                                       *)
LEMMA ReturnedStack ==
    ASSUME stack \in Seq(Frame), Len(stack) > 1,
           stack[Len(stack) - 1].todo # <<>>, NEW ok \in BOOLEAN
    PROVE  /\ Returned(ok) \in Seq(Frame) /\ Len(Returned(ok)) = Len(stack) - 1
           /\ Returned(ok)[Len(stack) - 1] = Answered(stack[Len(stack) - 1], ok)
           /\ \A i \in 1 .. Len(stack) - 2 : Returned(ok)[i] = stack[i]
<1>1. Len(stack) - 1 \in Nat /\ Len(stack) - 1 \in 1 .. Len(stack)
  OBVIOUS
<1>2. \A i \in 1 .. Len(stack) - 1 : stack[i] \in Frame
  OBVIOUS
<1>3. Answered(stack[Len(stack) - 1], ok) \in Frame
  BY <1>1, <1>2, AnsweredFrame
<1> DEFINE r == [i \in 1 .. Len(stack) - 1 |->
                   IF i = Len(stack) - 1 THEN Answered(stack[i], ok) ELSE stack[i]]
<1>4. r \in [1 .. Len(stack) - 1 -> Frame]
  BY <1>2, <1>3
<1>5. r \in Seq(Frame) /\ Len(r) = Len(stack) - 1
  BY <1>1, <1>4, FunctionIsSeq, Zenon
<1>6. r = Returned(ok)
  BY DEF Returned
<1>7. \A i \in 1 .. Len(stack) - 1 :
        r[i] = IF i = Len(stack) - 1 THEN Answered(stack[i], ok) ELSE stack[i]
  OBVIOUS
<1> HIDE DEF r
<1> QED BY <1>1, <1>5, <1>6, <1>7

-----------------------------------------------------------------------------
(***************************************************************************)
(* The inductive invariant.  That a subagent cannot spawn is not inductive *)
(* by itself: it needs that a subagent's tools are read tools outside of   *)
(* the orchestration namespace.  The bound on the spans needs how many     *)
(* calls the lead agent has made, the one that waits for a subagent        *)
(* counted with what the subagent may still use.                           *)
(***************************************************************************)
Harmless(tools) ==
    \A t \in tools : ScopeOf[t] = "read" /\ NamespaceOf[t] # "orchestration"

Nesting ==
    /\ Len(stack) <= 2
    /\ Lead.role = "lead" /\ Lead.max = MaxToolCalls
    /\ IsSubagent =>
         /\ Running
         /\ Lead.todo # <<>> /\ Lead.calls >= 1
         /\ Top.max <= LargestSubBudget
         /\ Harmless(Top.tools)

Budgets == \A i \in 1 .. Len(stack) : stack[i].calls <= stack[i].max

Turns ==
    /\ \A i \in 1 .. Len(stack) : stack[i].turns <= stack[i].calls + 1
    /\ AwaitsModel => Top.turns <= Top.calls
    /\ IsSubagent => Lead.turns <= Lead.calls

SpansBounded ==
    spans <= IF IsSubagent
               THEN (Lead.calls - 1) * (1 + LargestSubBudget) + 1 + Top.calls
               ELSE Lead.calls * (1 + LargestSubBudget)

Endings == outcome.kind \in {"completed", "exhausted"} => outcome.calls = Lead.calls

IInv == TypeOK /\ Nesting /\ Budgets /\ Turns /\ SpansBounded /\ Endings

-----------------------------------------------------------------------------
(* The two depths.  (The SMT translation turns an equality of a length and *)
(* a literal into one of domains: arithmetic is done on a variable.)       *)

(* A number between 1 and 2.                                               *)
LEMMA OneOrTwo ==
    ASSUME NEW n \in Nat, n >= 1, n <= 2
    PROVE  (n > 1 => n = 2 /\ n - 1 = 1) /\ (~(n > 1) => n = 1)
OBVIOUS

(* The only number between 1 and 1.                                        *)
LEMMA JustOne ==
    ASSUME NEW n \in Nat, n = 1
    PROVE  ~(n > 1) /\ \A i \in 1 .. n : i = n
OBVIOUS

(* A bound that grows with what it bounds.                                 *)
LEMMA GrowsAlike ==
    ASSUME NEW p \in Int, NEW a \in Int, NEW b \in Int, NEW x \in Int, NEW y \in Int,
           x <= p + 1 + a, y <= x + (b - a)
    PROVE  y <= p + 1 + b
OBVIOUS

(* The stack holds the lead agent's frame, and perhaps one more.           *)
LEMMA Depth ==
    ASSUME IInv
    PROVE  /\ stack \in Seq(Frame) /\ stack # <<>>
           /\ Len(stack) \in Nat /\ Len(stack) >= 1 /\ Len(stack) <= 2
           /\ IsSubagent => Len(stack) = 2 /\ Len(stack) - 1 = 1
           /\ ~IsSubagent => Len(stack) = 1
           /\ Lead \in Frame /\ Top \in Frame
<1>1. stack \in Seq(Frame) /\ stack # <<>>
  BY DEF IInv, TypeOK
<1>2. Len(stack) \in Nat /\ Len(stack) >= 1
  BY <1>1
<1>3. Len(stack) <= 2
  BY DEF IInv, Nesting
<1>4. (IsSubagent => Len(stack) = 2 /\ Len(stack) - 1 = 1) /\ (~IsSubagent => Len(stack) = 1)
  BY <1>2, <1>3, OneOrTwo, Zenon DEF IsSubagent
<1>5. Lead \in Frame /\ Top \in Frame
  BY <1>1, <1>2 DEF Lead, Top
<1> QED BY <1>1, <1>2, <1>3, <1>4, <1>5

(* A step that replaces the top frame by one of the same run.              *)
LEMMA TopStep ==
    ASSUME IInv, NEW f \in Frame, stack' = SetTop(f), Running,
           f.role = Top.role, f.tools = Top.tools, f.max = Top.max,
           f.calls \in {Top.calls, Top.calls + 1}, f.calls <= f.max,
           f.turns <= f.calls + 1,
           Running' /\ f.todo = <<>> => f.turns <= f.calls,
           spans' \in Nat, spans' - spans <= f.calls - Top.calls,
           IsSubagent => Running',
           outcome' = outcome \/ (~IsSubagent /\ Endings')
    PROVE  (stack \in Seq(Frame) /\ stack # <<>> /\ Nesting /\ Budgets /\ Turns
              /\ SpansBounded /\ Endings)'
<1>1. /\ stack' \in Seq(Frame) /\ Len(stack') = Len(stack)
      /\ stack'[Len(stack)] = f
      /\ \A i \in 1 .. Len(stack) - 1 : stack'[i] = stack[i]
  BY Depth, SetTopStack
<1>2. Top' = f /\ stack' # <<>> /\ (IsSubagent' <=> IsSubagent)
  <2>1. Top' = f
    BY <1>1 DEF Top
  <2>2. stack' # <<>>
    BY <1>1, Depth
  <2> QED BY <1>1, <2>1, <2>2 DEF IsSubagent
<1>3. IsSubagent => Lead' = Lead
  BY <1>1, Depth DEF Lead, IsSubagent
<1>4. ~IsSubagent => Lead = Top /\ Lead' = f
  BY <1>1, Depth DEF Lead, Top
<1>5. LargestSubBudget \in Nat /\ LargestSubBudget' = LargestSubBudget
  BY AgentAssumption DEF LargestSubBudget
<1>6. /\ spans \in Nat /\ spans' \in Nat
      /\ Top.calls \in Nat /\ f.calls \in Nat /\ Lead.calls \in Nat
  BY Depth DEF IInv, TypeOK, Frame
<1>7. Nesting'
  <2>1. Len(stack') <= 2
    BY <1>1, Depth
  <2>2. Lead'.role = "lead" /\ Lead'.max = MaxToolCalls
    BY <1>3, <1>4 DEF IInv, Nesting
  <2>3. IsSubagent => Running' /\ Lead'.todo # <<>> /\ Lead'.calls >= 1
    BY <1>3 DEF IInv, Nesting
  <2>4. IsSubagent => f.max <= LargestSubBudget /\ Harmless(f.tools)
    BY DEF IInv, Nesting
  <2> QED BY <1>2, <1>5, <2>1, <2>2, <2>3, <2>4 DEF Nesting, Harmless
<1>8. Budgets'
  <2> SUFFICES ASSUME NEW i \in 1 .. Len(stack)
               PROVE  stack'[i].calls <= stack'[i].max
    BY <1>1 DEF Budgets
  <2>1. CASE i = Len(stack)
    BY <1>1, <2>1
  <2>2. CASE i # Len(stack)
    <3>1. i \in 1 .. Len(stack) - 1
      BY <2>2, Depth
    <3> QED BY <1>1, <3>1 DEF IInv, Budgets
  <2> QED BY <2>1, <2>2
<1>9. Turns'
  <2>1. \A i \in 1 .. Len(stack) : stack'[i].turns <= stack'[i].calls + 1
    <3> SUFFICES ASSUME NEW i \in 1 .. Len(stack)
                 PROVE  stack'[i].turns <= stack'[i].calls + 1
      OBVIOUS
    <3>1. CASE i = Len(stack)
      BY <1>1, <3>1
    <3>2. CASE i # Len(stack)
      <4>1. i \in 1 .. Len(stack) - 1
        BY <3>2, Depth
      <4> QED BY <1>1, <4>1 DEF IInv, Turns
    <3> QED BY <3>1, <3>2
  <2>2. AwaitsModel' => Top'.turns <= Top'.calls
    BY <1>2 DEF AwaitsModel
  <2>3. IsSubagent' => Lead'.turns <= Lead'.calls
    BY <1>2, <1>3 DEF IInv, Turns
  <2> QED BY <1>1, <2>1, <2>2, <2>3 DEF Turns
<1>10. SpansBounded'
  <2> DEFINE S == 1 + LargestSubBudget
  <2>1. S \in Nat /\ S >= 1 /\ S' = S
    BY <1>5
  <2>2. spans' <= spans + (f.calls - Top.calls)
    BY <1>6
  <2> HIDE DEF S
  <2>3. CASE IsSubagent
    <3>1. spans <= (Lead.calls - 1) * S + 1 + Top.calls
      BY <2>3 DEF IInv, SpansBounded, S
    <3>2. (Lead.calls - 1) * S \in Int
      BY <1>6, <2>1
    <3> DEFINE p == (Lead.calls - 1) * S
    <3>3. p \in Int /\ spans <= p + 1 + Top.calls
      BY <3>1, <3>2
    <3> HIDE DEF p
    <3>4. /\ spans \in Int /\ spans' \in Int
          /\ Top.calls \in Int /\ f.calls \in Int
      BY <1>6
    <3>5. spans' <= p + 1 + f.calls
      BY <2>2, <3>3, <3>4, GrowsAlike
    <3>6. spans' <= (Lead.calls - 1) * S + 1 + f.calls
      BY <3>5 DEF p
    <3> QED BY <1>2, <1>3, <1>5, <2>3, <3>6 DEF SpansBounded, S
  <2>4. CASE ~IsSubagent
    <3>1. spans <= Top.calls * S
      BY <1>4, <2>4 DEF IInv, SpansBounded, S
    <3>2. (Top.calls + 1) * S = Top.calls * S + S
      BY <1>6, <2>1
    <3>3. Top.calls * S \in Nat
      BY <1>6, <2>1
    <3>4. spans' <= f.calls * S
      <4>1. CASE f.calls = Top.calls
        <5>1. spans' <= spans
          BY <1>6, <2>2, <4>1
        <5>2. f.calls * S = Top.calls * S
          BY <4>1
        <5> QED BY <1>6, <3>1, <3>3, <5>1, <5>2
      <4>2. CASE f.calls = Top.calls + 1
        <5>1. spans' <= spans + 1
          BY <1>6, <2>2, <4>2
        <5>2. f.calls * S = Top.calls * S + S
          BY <3>2, <4>2
        <5> QED BY <1>6, <2>1, <3>1, <3>3, <5>1, <5>2
      <4> QED BY <4>1, <4>2
    <3> QED BY <1>2, <1>4, <1>5, <2>4, <3>4 DEF SpansBounded, S
  <2> QED BY <2>3, <2>4
<1>11. Endings'
  <2>1. CASE outcome' = outcome
    BY <2>1 DEF Running, Endings
  <2> QED BY <2>1
<1> QED BY <1>1, <1>2, <1>7, <1>8, <1>9, <1>10, <1>11

(* A subagent is over.                                                     *)
LEMMA ReturnStep ==
    ASSUME IInv, NEW ok \in BOOLEAN, stack' = Returned(ok), IsSubagent,
           spans' = spans, outcome' = outcome
    PROVE  /\ (stack \in Seq(Frame) /\ stack # <<>> /\ Nesting /\ Budgets /\ Turns
                  /\ SpansBounded /\ Endings)'
           /\ Lead'.calls = Lead.calls
<1> DEFINE g == Answered(Lead, ok)
<1>1. Len(stack) - 1 = 1 /\ stack[Len(stack) - 1] = Lead
  BY Depth, Zenon DEF Lead
<1>2. Lead \in Frame /\ Lead.todo # <<>> /\ Top \in Frame
  BY Depth DEF IInv, Nesting
<1>3. /\ stack' \in Seq(Frame) /\ Len(stack') = Len(stack) - 1
      /\ stack'[Len(stack) - 1] = g
  BY <1>1, <1>2, Depth, ReturnedStack DEF IsSubagent
<1>4. /\ g \in Frame /\ g.calls = Lead.calls /\ g.role = Lead.role
      /\ g.max = Lead.max /\ g.turns = Lead.turns
  BY <1>2, AnsweredFrame
<1> HIDE DEF g
<1>5. Top' = g /\ Lead' = g /\ ~IsSubagent' /\ stack' # <<>>
  <2>1. Top' = g
    BY <1>3 DEF Top
  <2>2. Lead' = g
    BY <1>1, <1>3 DEF Lead
  <2>3. ~IsSubagent'
    <3>1. Len(stack') \in Nat
      BY <1>3
    <3>2. Len(stack') = 1
      BY <1>1, <1>3, Zenon
    <3> QED BY <3>1, <3>2, JustOne, Zenon DEF IsSubagent
  <2>4. stack' # <<>>
    <3>1. Len(stack') > 0
      BY <1>3, Depth DEF IsSubagent
    <3> QED BY <1>3, <3>1
  <2> QED BY <2>1, <2>2, <2>3, <2>4
<1>6. Nesting'
  <2>1. Len(stack') <= 2
    BY <1>1, <1>3
  <2> QED BY <1>4, <1>5, <2>1 DEF IInv, Nesting
<1>7. g.calls <= g.max /\ g.turns <= g.calls /\ g.turns \in Nat /\ g.calls \in Nat
  BY <1>2, <1>4, Depth DEF IInv, Budgets, Turns, Lead, Frame
<1>8. \A i \in 1 .. Len(stack') : stack'[i] = g
  <2>1. Len(stack') \in Nat
    BY <1>3
  <2>2. Len(stack') = 1
    BY <1>1, <1>3, Zenon
  <2>4. \A i \in 1 .. Len(stack') : i = Len(stack')
    BY <2>1, <2>2, JustOne, Zenon
  <2>3. stack'[Len(stack')] = g
    BY <1>3, Zenon
  <2> QED BY <2>3, <2>4, Zenon
<1>9. Budgets' /\ Turns'
  BY <1>5, <1>7, <1>8 DEF Budgets, Turns
<1>10. SpansBounded'
  <2> DEFINE S == LargestSubBudget
             c == Lead.calls
             d == Top.calls
  <2>1. S \in Nat /\ c \in Nat /\ d \in Nat /\ spans \in Nat /\ Top.max \in Nat
    BY <1>2, AgentAssumption DEF LargestSubBudget, IInv, TypeOK, Frame
  <2>2. d <= S
    <3>1. Top.calls <= Top.max
      BY Depth DEF IInv, Budgets, Top
    <3>2. Top.max <= LargestSubBudget
      BY DEF IInv, Nesting
    <3> QED BY <2>1, <3>1, <3>2
  <2>3. spans <= (c - 1) * (1 + S) + 1 + d
    BY DEF IInv, SpansBounded
  <2>4. LargestSubBudget' = S /\ Lead'.calls = c
    BY <1>4, <1>5 DEF LargestSubBudget
  <2> HIDE DEF S, c, d
  <2>5. (c - 1) * (1 + S) = c * (1 + S) - (1 + S)
    BY <2>1
  <2>6. c * (1 + S) \in Nat
    BY <2>1
  <2>7. spans <= c * (1 + S)
    BY <2>1, <2>2, <2>3, <2>5, <2>6
  <2> QED BY <1>5, <2>4, <2>7 DEF SpansBounded
<1>11. Endings'
  BY <1>4, <1>5 DEF IInv, Endings
<1> QED BY <1>3, <1>4, <1>5, <1>6, <1>9, <1>10, <1>11

(* A call that is counted and answered, with a span or without.            *)
LEMMA CallStep ==
    ASSUME IInv, Running, Top.todo # <<>>, WithinBudget(Top), NEW ok \in BOOLEAN,
           NEW f \in Frame, f.role = Top.role, f.tools = Top.tools, f.max = Top.max,
           f.calls = Top.calls + 1, f.turns = Top.turns,
           stack' = SetTop(f), spans' \in {spans, spans + 1}, outcome' = outcome
    PROVE  (stack \in Seq(Frame) /\ stack # <<>> /\ Nesting /\ Budgets /\ Turns
              /\ SpansBounded /\ Endings)'
<1>1. /\ Top \in Frame /\ Top.calls \in Nat /\ Top.turns \in Nat /\ Top.max \in Nat
      /\ Top.turns <= Top.calls + 1
  <2>1. Len(stack) \in 1 .. Len(stack)
    BY Depth
  <2>2. Top.turns <= Top.calls + 1
    BY <2>1 DEF IInv, Turns, Top
  <2> QED BY <2>2, Depth DEF Frame
<1>2. f.calls <= f.max /\ f.turns <= f.calls
  <2>1. Top.calls < Top.max
    BY DEF WithinBudget
  <2> QED BY <1>1, <2>1
<1>3. spans \in Nat /\ spans' \in Nat /\ spans' - spans <= f.calls - Top.calls
  BY <1>1 DEF IInv, TypeOK
<1>4. IsSubagent => Running'
  BY DEF Running
<1> QED BY <1>1, <1>2, <1>3, <1>4, TopStep

(* A subagent starts: only the lead agent's frame can be the spawner's.    *)
LEMMA SpawnStep ==
    ASSUME IInv, SpawnSubagent
    PROVE  /\ IInv'
           /\ ~IsSubagent /\ Lead'.calls = Lead.calls + 1
<1>1. PICK t \in Spawner \cap Top.tools :
        /\ Dispatches(t)
        /\ stack' = Append(SetTop(Counted(Top)), SubagentFrame(t, Top))
  BY DEF SpawnSubagent
<1>2. ~IsSubagent
  <2>1. NamespaceOf[t] = "orchestration"
    BY <1>1, AgentAssumption
  <2> QED BY <1>1, <2>1 DEF IInv, Nesting, Harmless
<1> DEFINE f == Counted(Top)
           g == SubagentFrame(t, Top)
           v == Scoped(Top.tools, AllowedNamespaces(t), "read")
<1>3. /\ f \in Frame /\ f.role = Top.role /\ f.max = Top.max /\ f.turns = Top.turns
      /\ f.calls = Top.calls + 1 /\ f.todo = Top.todo
  BY Depth, CountedFrame
<1>4. SubBudget(t) \in Nat /\ SubBudget(t) <= LargestSubBudget
  BY AgentAssumption DEF SubBudget, LargestSubBudget
<1>5. v \in SUBSET Tool /\ Harmless(v)
  <2>1. v \in SUBSET Tool
    BY Depth DEF Scoped, Frame
  <2>2. \A u \in v : ScopeOf[u] = "read" /\ NamespaceOf[u] \in AllowedNamespaces(t)
    BY DEF Scoped, AllowedNamespaces
  <2>3. "orchestration" \notin AllowedNamespaces(t)
    BY DEF AllowedNamespaces
  <2> QED BY <2>1, <2>2, <2>3 DEF Harmless
<1> HIDE DEF v
<1>6. g = NewFrame(t, v, SubBudget(t)) /\ t \in Role
  BY <1>1 DEF SubagentFrame, v, Role
<1>7. g \in Frame
  BY <1>4, <1>5, <1>6, NewFrameType
<1>8. /\ g.max = SubBudget(t) /\ g.tools = v /\ g.calls = 0 /\ g.turns = 0
      /\ g.todo = <<>>
  BY <1>6 DEF NewFrame
<1> HIDE DEF f, g
<1>9. /\ SetTop(f) \in Seq(Frame) /\ Len(SetTop(f)) = Len(stack)
      /\ SetTop(f)[Len(stack)] = f
      /\ \A i \in 1 .. Len(stack) - 1 : SetTop(f)[i] = stack[i]
  BY <1>3, Depth, SetTopStack
<1>10. Len(stack) = 1 /\ Lead = Top /\ SetTop(f)[1] = f
  BY <1>2, <1>9, Depth, Zenon DEF Lead, Top
<1>11. /\ stack' \in Seq(Frame) /\ Len(stack') = Len(stack) + 1
       /\ stack'[Len(stack) + 1] = g
       /\ \A i \in 1 .. Len(stack) : stack'[i] = SetTop(f)[i]
  BY <1>1, <1>7, <1>9 DEF f, g
<1>12. Lead' = f /\ Top' = g /\ IsSubagent' /\ stack' # <<>>
  <2>1. Lead' = f
    <3>1. 1 \in 1 .. Len(stack)
      BY Depth
    <3>2. stack'[1] = SetTop(f)[1]
      BY <1>11, <3>1
    <3> QED BY <1>10, <3>2 DEF Lead
  <2>2. Top' = g
    BY <1>11 DEF Top
  <2>3. IsSubagent' /\ stack' # <<>>
    BY <1>11, Depth DEF IsSubagent
  <2> QED BY <2>1, <2>2, <2>3
<1>13. /\ Running /\ Top.todo # <<>> /\ Top.calls < Top.max
       /\ outcome' = outcome /\ edits' = edits
       /\ spans' = spans + 1
  BY <1>1 DEF SpawnSubagent, Dispatches, WithinBudget
<1>14. /\ Lead.calls \in Nat /\ Lead.turns \in Nat /\ spans \in Nat
       /\ Lead.turns <= Lead.calls + 1 /\ Lead.max \in Nat
  <2>1. Lead.turns <= Lead.calls + 1
    <3>1. 1 \in 1 .. Len(stack)
      BY Depth
    <3> QED BY <3>1 DEF IInv, Turns, Lead
  <2> QED BY <2>1, Depth DEF Frame, IInv, TypeOK
<1>15. TypeOK'
  BY <1>11, <1>12, <1>13, <1>14 DEF IInv, TypeOK
<1>16. Nesting'
  <2>1. Len(stack') <= 2
    BY <1>2, <1>11, Depth DEF IsSubagent
  <2>2. Lead'.role = "lead" /\ Lead'.max = MaxToolCalls
    BY <1>3, <1>10, <1>12 DEF IInv, Nesting
  <2>3. Running' /\ Lead'.todo # <<>> /\ Lead'.calls >= 1
    BY <1>3, <1>10, <1>12, <1>13, <1>14 DEF Running
  <2>4. Top'.max <= LargestSubBudget' /\ Harmless(Top'.tools)
    BY <1>4, <1>5, <1>8, <1>12 DEF LargestSubBudget
  <2> QED BY <2>1, <2>2, <2>3, <2>4 DEF Nesting, Harmless
<1>17. \A i \in 1 .. Len(stack') : stack'[i] = f \/ stack'[i] = g
  <2> SUFFICES ASSUME NEW i \in 1 .. Len(stack') PROVE stack'[i] = f \/ stack'[i] = g
    OBVIOUS
  <2>1. CASE i = Len(stack) + 1
    BY <1>11, <2>1
  <2>2. CASE i # Len(stack) + 1
    <3>1. i \in 1 .. Len(stack) /\ i = Len(stack)
      BY <1>2, <1>11, <2>2, Depth DEF IsSubagent
    <3> QED BY <1>9, <1>11, <3>1
  <2> QED BY <2>1, <2>2
<1>18. Budgets'
  <2>1. f.calls <= f.max /\ g.calls <= g.max
    BY <1>3, <1>4, <1>8, <1>10, <1>13, <1>14
  <2> QED BY <1>17, <2>1 DEF Budgets
<1>19. Turns'
  <2>1. f.turns <= f.calls + 1 /\ g.turns <= g.calls + 1
        /\ f.turns <= f.calls /\ g.turns <= g.calls
    BY <1>3, <1>8, <1>10, <1>14
  <2> QED BY <1>12, <1>17, <2>1 DEF Turns
<1>20. SpansBounded'
  <2> DEFINE S == 1 + LargestSubBudget
             c == Lead.calls
  <2>1. S \in Nat /\ c \in Nat
    BY <1>14, AgentAssumption DEF LargestSubBudget
  <2>2. spans <= c * S
    BY <1>2 DEF IInv, SpansBounded
  <2>3. /\ (LargestSubBudget + 1)' = LargestSubBudget + 1
        /\ Lead'.calls - 1 = c /\ Top'.calls = 0
    BY <1>3, <1>8, <1>10, <1>12, <1>14 DEF LargestSubBudget
  <2>4. (1 + LargestSubBudget)' = S
    BY DEF LargestSubBudget
  <2> HIDE DEF c, S
  <2>5. c * S \in Nat
    BY <2>1
  <2>6. spans' <= c * S + 1 + 0
    BY <1>13, <1>14, <2>2, <2>5
  <2> QED BY <1>12, <2>3, <2>4, <2>6 DEF SpansBounded
<1>21. Endings'
  BY <1>13 DEF Running, Endings
<1> QED BY <1>2, <1>3, <1>10, <1>12, <1>15, <1>16, <1>18, <1>19, <1>20, <1>21 DEF IInv

-----------------------------------------------------------------------------
(* The invariant.                                                          *)

(* The lead agent starts alone and with nothing done.                      *)
LEMMA InvInit ==
    ASSUME Init
    PROVE  IInv
<1> DEFINE f == NewFrame("lead", Tool, MaxToolCalls)
<1>1. f \in Frame
  BY AgentAssumption, NewFrameType DEF Role
<1>2. /\ f.role = "lead" /\ f.max = MaxToolCalls /\ f.calls = 0 /\ f.turns = 0
      /\ f.todo = <<>>
  BY DEF NewFrame
<1>3. stack = <<f>>
  BY DEF Init
<1> HIDE DEF f
<1>4. /\ stack \in Seq(Frame) /\ stack # <<>> /\ Len(stack) <= 1 /\ Lead = f
      /\ Top = f /\ ~IsSubagent /\ \A i \in 1 .. Len(stack) : stack[i] = f
  BY <1>1, <1>3 DEF Lead, Top, IsSubagent
<1>5. TypeOK
  BY <1>4 DEF Init, TypeOK, Ended, Outcome
<1>6. Nesting /\ Budgets /\ Turns
  <2>1. Len(stack) <= 2
    BY <1>4
  <2>2. 0 <= MaxToolCalls
    BY AgentAssumption
  <2> QED BY <1>2, <1>4, <2>1, <2>2 DEF Nesting, Budgets, Turns
<1>7. SpansBounded
  <2>1. 0 * (1 + LargestSubBudget) = 0
    BY AgentAssumption DEF LargestSubBudget
  <2> QED BY <1>2, <1>4, <2>1 DEF SpansBounded, Init
<1>8. Endings
  BY DEF Init, Ended, Endings
<1> QED BY <1>5, <1>6, <1>7, <1>8 DEF IInv

(* Every step preserves the invariant.                                     *)
LEMMA InvNext ==
    ASSUME IInv, [Next]_vars
    PROVE  IInv'
<1> DEFINE Rest == (stack \in Seq(Frame) /\ stack # <<>> /\ Nesting /\ Budgets
                      /\ Turns /\ SpansBounded /\ Endings)'
<1>1. Top \in Frame /\ Lead \in Frame
  BY Depth
<1>2. /\ Top.calls \in Nat /\ Top.turns \in Nat /\ Top.max \in Nat
      /\ Top.calls <= Top.max /\ Top.turns <= Top.calls + 1
      /\ AwaitsModel => Top.turns <= Top.calls
  <2>1. Len(stack) \in 1 .. Len(stack)
    BY Depth
  <2>2. Top.calls <= Top.max /\ Top.turns <= Top.calls + 1
    BY <2>1 DEF IInv, Budgets, Turns, Top
  <2>3. AwaitsModel => Top.turns <= Top.calls
    BY DEF IInv, Turns
  <2> QED BY <1>1, <2>2, <2>3 DEF Frame
<1>3. spans \in Nat /\ edits \in Nat /\ outcome \in Outcome
  BY DEF IInv, TypeOK
<1>4. (spans' \in Nat /\ edits' \in Nat /\ outcome' \in Outcome) /\ Rest => IInv'
  BY DEF IInv, TypeOK
<1>5. CASE ModelCallsTools
  <2>1. PICK names \in TurnCalls : stack' = SetTop(Asked(Top, names))
    BY <1>5 DEF ModelCallsTools
  <2> DEFINE f == Asked(Top, names)
  <2>2. /\ AwaitsModel /\ edits' = edits /\ spans' = spans
        /\ outcome' = outcome /\ stack' = SetTop(f)
    BY <1>5, <2>1 DEF ModelCallsTools
  <2>3. /\ f \in Frame /\ f.calls = Top.calls /\ f.role = Top.role
        /\ f.tools = Top.tools /\ f.max = Top.max /\ f.turns = Top.turns + 1
        /\ f.todo # <<>>
    BY <1>1, AskedFrame
  <2> HIDE DEF f
  <2>4. Rest
    <3>1. f.calls <= f.max /\ f.turns <= f.calls + 1
          /\ spans' \in Nat /\ spans' - spans <= f.calls - Top.calls
      BY <1>2, <1>3, <2>2, <2>3
    <3>2. Running /\ (IsSubagent => Running')
      BY <2>2 DEF AwaitsModel, Running
    <3> QED BY <2>2, <2>3, <3>1, <3>2, TopStep
  <2> QED BY <1>3, <1>4, <2>2, <2>4
<1>6. CASE LeadAnswers
  <2> DEFINE f == Replied(Top, 0)
  <2>1. /\ AwaitsModel /\ ~IsSubagent /\ stack' = SetTop(f)
        /\ outcome' = Ended("completed", Top.calls, Top.turns + 1)
        /\ edits' = edits /\ spans' = spans
    BY <1>6 DEF LeadAnswers
  <2>2. /\ f \in Frame /\ f.calls = Top.calls /\ f.role = Top.role
        /\ f.tools = Top.tools /\ f.max = Top.max /\ f.turns = Top.turns + 1
    BY <1>1, AgentAssumption, RepliedFrame
  <2> HIDE DEF f
  <2>3. outcome' \in Outcome /\ ~Running' /\ outcome'.calls = Top.calls
    BY <1>2, <2>1 DEF Ended, Outcome, Running
  <2>4. Lead'.calls = Top.calls
    <3>1. SetTop(f)[Len(stack)] = f /\ Len(stack) = 1
      BY <2>1, <2>2, Depth, SetTopStack, Zenon
    <3> QED BY <2>1, <2>2, <3>1 DEF Lead
  <2>5. Endings'
    BY <2>3, <2>4 DEF Endings
  <2>6. Rest
    <3>1. f.calls <= f.max /\ f.turns <= f.calls + 1
          /\ spans' \in Nat /\ spans' - spans <= f.calls - Top.calls
      BY <1>2, <1>3, <2>1, <2>2
    <3> QED BY <2>1, <2>2, <2>3, <2>5, <3>1, TopStep DEF AwaitsModel
  <2> QED BY <1>3, <1>4, <2>1, <2>3, <2>6
<1>7. CASE SubagentAnswers
  <2>1. /\ IsSubagent /\ edits' = edits /\ spans' = spans /\ outcome' = outcome
        /\ \E ok \in BOOLEAN : stack' = Returned(ok)
    BY <1>3, <1>7 DEF SubagentAnswers
  <2>2. Rest
    BY <2>1, ReturnStep
  <2> QED BY <1>3, <1>4, <2>1, <2>2
<1>8. CASE ModelFails
  <2>1. CASE IsSubagent
    <3>1. /\ edits' = edits /\ spans' = spans /\ outcome' = outcome
          /\ stack' = Returned(FALSE)
      BY <1>8, <2>1 DEF ModelFails
    <3>2. Rest
      BY <2>1, <3>1, ReturnStep
    <3> QED BY <1>3, <1>4, <3>1, <3>2
  <2>2. CASE ~IsSubagent
    <3> DEFINE f == Unanswered(Top)
    <3>1. /\ AwaitsModel /\ stack' = SetTop(f) /\ outcome' = Ended("aborted", -1, -1)
          /\ edits' = edits /\ spans' = spans
      BY <1>8, <2>2 DEF ModelFails
    <3>3. /\ f \in Frame /\ f.calls = Top.calls /\ f.role = Top.role
          /\ f.tools = Top.tools /\ f.max = Top.max /\ f.turns = Top.turns + 1
      BY <1>1, UnansweredFrame
    <3> HIDE DEF f
    <3>4. outcome' \in Outcome /\ ~Running' /\ Endings'
      BY <3>1 DEF Ended, Outcome, Running, Endings
    <3>5. Rest
      <4>1. f.calls <= f.max /\ f.turns <= f.calls + 1
            /\ spans' \in Nat /\ spans' - spans <= f.calls - Top.calls
        BY <1>2, <1>3, <3>1, <3>3
      <4> QED BY <2>2, <3>1, <3>3, <3>4, <4>1, TopStep DEF AwaitsModel
    <3> QED BY <1>3, <1>4, <3>1, <3>4, <3>5
  <2> QED BY <2>1, <2>2
<1>9. CASE LeadOverBudget
  <2> DEFINE f == Refused(Top)
  <2>1. /\ Running /\ Top.todo # <<>> /\ ~WithinBudget(Top) /\ ~IsSubagent
        /\ stack' = SetTop(f) /\ outcome' = Ended("exhausted", MaxToolCalls, -1)
        /\ edits' = edits /\ spans' = spans
    BY <1>9 DEF LeadOverBudget, OverBudget
  <2>3. /\ f \in Frame /\ f.calls = Top.calls /\ f.role = Top.role
        /\ f.tools = Top.tools /\ f.max = Top.max /\ f.turns = Top.turns
    BY <1>1, <2>1, RefusedFrame
  <2> HIDE DEF f
  <2>4. Lead = Top /\ Lead' = f
    <3>1. SetTop(f)[Len(stack)] = f /\ Len(stack) = 1
      BY <2>1, <2>3, Depth, SetTopStack, Zenon
    <3> QED BY <2>1, <3>1 DEF Lead, Top
  <2>5. Top.calls = MaxToolCalls
    <3>1. Top.max = MaxToolCalls
      BY <2>4 DEF IInv, Nesting
    <3> QED BY <1>2, <2>1, <3>1 DEF WithinBudget
  <2>6. outcome' \in Outcome /\ ~Running' /\ Endings'
    BY <2>1, <2>3, <2>4, <2>5, AgentAssumption DEF Ended, Outcome, Running, Endings
  <2>7. Rest
    <3>1. f.calls <= f.max /\ f.turns <= f.calls + 1
          /\ spans' \in Nat /\ spans' - spans <= f.calls - Top.calls
      BY <1>2, <1>3, <2>1, <2>3
    <3> QED BY <2>1, <2>3, <2>6, <3>1, TopStep
  <2> QED BY <1>3, <1>4, <2>1, <2>6, <2>7
<1>10. CASE SubagentOverBudget
  <2>1. /\ IsSubagent /\ edits' = edits /\ spans' = spans /\ outcome' = outcome
        /\ stack' = Returned(FALSE)
    BY <1>10 DEF SubagentOverBudget
  <2>2. Rest
    BY <2>1, ReturnStep
  <2> QED BY <1>3, <1>4, <2>1, <2>2
<1>12. CASE UnknownTool
  <2>1. /\ Running /\ Top.todo # <<>> /\ WithinBudget(Top)
        /\ stack' = SetTop(Answered(Counted(Top), FALSE))
        /\ edits' = edits /\ spans' = spans /\ outcome' = outcome
    BY <1>12 DEF UnknownTool, Dispatches
  <2>2. Rest
    BY <1>1, <2>1, CalledFrame, CallStep
  <2> QED BY <1>3, <1>4, <2>1, <2>2
<1>13. ASSUME NEW ok \in BOOLEAN, Running, Top.todo # <<>>, WithinBudget(Top),
              stack' = SetTop(Answered(Counted(Top), ok)), spans' = spans + 1,
              outcome' = outcome, edits' \in {edits, edits + 1}
       PROVE  IInv'
  <2>1. Rest
    BY <1>1, <1>13, CalledFrame, CallStep
  <2> QED BY <1>3, <1>4, <1>13, <2>1
<1>14. CASE ToolFails
  <2>1. /\ Running /\ Top.todo # <<>> /\ WithinBudget(Top)
        /\ stack' = SetTop(Answered(Counted(Top), FALSE)) /\ spans' = spans + 1
        /\ outcome' = outcome
        /\ edits' \in {edits, edits + 1}
    BY <1>14 DEF ToolFails, Dispatches
  <2> QED BY <1>13, <2>1
<1>15. CASE RunTool
  <2>1. /\ Running /\ Top.todo # <<>> /\ WithinBudget(Top)
        /\ stack' = SetTop(Answered(Counted(Top), TRUE)) /\ spans' = spans + 1
        /\ outcome' = outcome
        /\ edits' \in {edits, edits + 1}
    BY <1>15 DEF RunTool, Dispatches
  <2> QED BY <1>13, <2>1
<1>16. CASE LoadTools
  <2>1. PICK ok \in BOOLEAN, names \in SUBSET DomainSpecs(Top.tools) :
          /\ Running /\ Top.todo # <<>> /\ WithinBudget(Top)
          /\ stack' = SetTop(Activated(Answered(Counted(Top), ok), names))
          /\ spans' = spans + 1
          /\ edits' = edits /\ outcome' = outcome
    BY <1>16 DEF LoadTools, Dispatches
  <2>2. Rest
    BY <1>1, <2>1, LoadedFrame, CallStep
  <2>3. spans' = spans + 1 /\ edits' = edits /\ outcome' = outcome
    BY <2>1
  <2> QED BY <1>3, <1>4, <2>2, <2>3
<1>17. CASE SpawnSubagent
  BY <1>17, SpawnStep
<1>18. CASE Done \/ UNCHANGED vars
  BY <1>18 DEF Done, vars, IInv, TypeOK, Nesting, Budgets, Turns, SpansBounded, Endings,
       IsSubagent, Running, AwaitsModel, Top, Lead, Harmless, LargestSubBudget
<1> QED BY <1>5, <1>6, <1>7, <1>8, <1>9, <1>10, <1>12, <1>14, <1>15, <1>16, <1>17,
          <1>18 DEF Next

(* The invariant holds in every state of every run.                        *)
LEMMA Invariance == Spec => []IInv
<1>1. Init => IInv
  BY InvInit
<1>2. IInv /\ [Next]_vars => IInv'
  BY InvNext
<1> QED BY <1>1, <1>2, PTL DEF Spec

-----------------------------------------------------------------------------
(* Theorems.                                                               *)

(* Type correctness: run_agent and run_subagent keep their state in shape. *)
THEOREM TypeCorrect == Spec => []TypeOK
<1>1. IInv => TypeOK
  BY DEF IInv
<1> QED BY <1>1, Invariance, PTL

(* No subagent ever spawns another: runs of the loop nest two deep,        *)
(* whatever tools the registry holds.                                      *)
THEOREM NestingBound == Spec => []OneLevelOfSubagents
<1>1. IInv => OneLevelOfSubagents
  BY DEF IInv, Nesting, OneLevelOfSubagents
<1> QED BY <1>1, Invariance, PTL

(* The number of tools a session runs is bounded by the product of the     *)
(* session's budget and the larger subagent budget plus one.               *)
THEOREM SessionIsBounded == Spec => []SessionBound
<1>1. IInv => SessionBound
  <2> SUFFICES ASSUME IInv PROVE SessionBound
    OBVIOUS
  <2> DEFINE S == LargestSubBudget
             c == Lead.calls
             d == Top.calls
  <2>1. /\ S \in Nat /\ c \in Nat /\ d \in Nat /\ spans \in Nat
        /\ MaxToolCalls \in Nat /\ Top.max \in Nat
    BY Depth, AgentAssumption DEF LargestSubBudget, Frame, IInv, TypeOK
  <2>2. c <= MaxToolCalls
    <3>1. 1 \in 1 .. Len(stack)
      BY Depth
    <3> QED BY <3>1 DEF IInv, Budgets, Nesting, Lead
  <2>3. IsSubagent => d <= S
    <3>1. Top.calls <= Top.max
      <4>1. Len(stack) \in 1 .. Len(stack)
        BY Depth
      <4> QED BY <4>1 DEF IInv, Budgets, Top
    <3>2. IsSubagent => Top.max <= S
      BY DEF IInv, Nesting
    <3> QED BY <2>1, <3>1, <3>2
  <2>4. spans <= IF IsSubagent THEN (c - 1) * (1 + S) + 1 + d ELSE c * (1 + S)
    BY DEF IInv, SpansBounded
  <2>5. (c - 1) * (1 + S) = c * (1 + S) - (1 + S)
    BY <2>1
  <2>6. c * (1 + S) \in Nat /\ MaxToolCalls * (1 + S) \in Nat
    BY <2>1
  <2>7. c * (1 + S) <= MaxToolCalls * (1 + S)
    BY <2>1, <2>2
  <2> HIDE DEF S, c, d
  <2>8. spans <= c * (1 + S)
    BY <2>1, <2>3, <2>4, <2>5, <2>6
  <2>9. spans <= MaxToolCalls * (1 + S)
    BY <2>1, <2>6, <2>7, <2>8
  <2> QED BY <2>9 DEF SessionBound, S
<1> QED BY <1>1, Invariance, PTL

(* A run sends at most one request more than its budget of calls.          *)
THEOREM RequestBound == Spec => []RequestsBounded
<1>1. IInv => RequestsBounded
  <2> SUFFICES ASSUME IInv, NEW i \in 1 .. Len(stack)
               PROVE  stack[i].turns <= stack[i].max + 1
    BY DEF RequestsBounded, Frames
  <2>1. stack[i].calls <= stack[i].max /\ stack[i].turns <= stack[i].calls + 1
    BY DEF IInv, Budgets, Turns
  <2>2. stack[i] \in Frame
    BY Depth
  <2>3. stack[i].calls \in Nat /\ stack[i].max \in Nat /\ stack[i].turns \in Nat
    BY <2>2 DEF Frame
  <2> QED BY <2>1, <2>3
<1> QED BY <1>1, Invariance, PTL

(* The calls in the flow's report are the calls the lead agent made, also  *)
(* when the run was cut off and the number comes from the settings.        *)
THEOREM ReportIsTrue == Spec => []ReportedCalls
<1>1. IInv => ReportedCalls
  BY DEF IInv, Endings, ReportedCalls
<1> QED BY <1>1, Invariance, PTL

(* No write tool takes effect while a subagent runs.                       *)
THEOREM SubagentsReadOnly == Spec => SubagentNeverEdits
<1>1. IInv /\ [Next]_vars => (IsSubagent => edits' = edits)
  <2> SUFFICES ASSUME IInv, [Next]_vars, IsSubagent PROVE edits' = edits
    OBVIOUS
  <2>1. \A t \in Top.tools : ScopeOf[t] # "write"
    BY DEF IInv, Nesting, Harmless
  <2>2. CASE ToolFails
    BY <2>1, <2>2 DEF ToolFails
  <2>3. CASE RunTool
    BY <2>1, <2>3 DEF RunTool
  <2> QED BY <2>2, <2>3 DEF Next, vars, ModelCallsTools, LeadAnswers, SubagentAnswers,
        ModelFails, LeadOverBudget, SubagentOverBudget, UnknownTool, LoadTools,
        SpawnSubagent, Done
<1>2. IInv /\ [Next]_vars => [IsSubagent => edits' = edits]_vars
  BY <1>1
<1> QED BY <1>2, Invariance, PTL DEF Spec, SubagentNeverEdits

-----------------------------------------------------------------------------
(* AgentSystem implements BoundedAgent.                                    *)

(* A step of the top frame, as the lead agent's frame sees it.             *)
LEMMA LeadFrame ==
    ASSUME IInv, NEW f \in Frame, stack' = SetTop(f)
    PROVE  (IsSubagent => Lead' = Lead) /\ (~IsSubagent => Lead = Top /\ Lead' = f)
<1>1. /\ SetTop(f)[Len(stack)] = f
      /\ \A i \in 1 .. Len(stack) - 1 : SetTop(f)[i] = stack[i]
  BY Depth, SetTopStack
<1>2. IsSubagent => Lead' = Lead
  <2>1. IsSubagent => 1 \in 1 .. Len(stack) - 1
    BY Depth DEF IsSubagent
  <2> QED BY <1>1, <2>1 DEF Lead
<1>3. ~IsSubagent => Lead = Top /\ Lead' = f
  BY <1>1, Depth, Zenon DEF Lead, Top
<1> QED BY <1>2, <1>3

(* A dispatched call is a Use of the lead agent, or a subagent's affair.   *)
LEMMA CallRefines ==
    ASSUME IInv, Running, WithinBudget(Top), outcome' = outcome,
           NEW f \in Frame, f.calls = Top.calls + 1, stack' = SetTop(f)
    PROVE  [Agent!Next]_(Agent!vars)
<1>1. CASE IsSubagent
  BY <1>1, LeadFrame DEF Agent!vars
<1>2. CASE ~IsSubagent
  <2>1. Lead'.calls = Lead.calls + 1
    BY <1>2, LeadFrame
  <2>2. Lead.calls < MaxToolCalls
    BY <1>2, LeadFrame DEF WithinBudget, IInv, Nesting
  <2> QED BY <2>1, <2>2 DEF Agent!Next, Agent!Use, Running
<1> QED BY <1>1, <1>2

(* What run_agent promises its caller: the lead agent's calls are made one *)
(* by one, never more than the budget, and the budget error comes only     *)
(* when all of it has been used.                                           *)
THEOREM Refinement == Spec => ImplementsBoundedAgent
<1>1. Init => Agent!Init
  BY DEF Init, Agent!Init, NewFrame, Lead, Ended
<1>2. IInv /\ [Next]_vars => [Agent!Next]_(Agent!vars)
  <2> SUFFICES ASSUME IInv, [Next]_vars PROVE [Agent!Next]_(Agent!vars)
    OBVIOUS
  <2>1. CASE ModelCallsTools
    <3>1. PICK names \in TurnCalls : stack' = SetTop(Asked(Top, names))
      BY <2>1 DEF ModelCallsTools
    <3>2. Asked(Top, names) \in Frame /\ Asked(Top, names).calls = Top.calls
      BY Depth, AskedFrame
    <3>3. Lead'.calls = Lead.calls
      BY <3>1, <3>2, LeadFrame
    <3> QED BY <2>1, <3>3 DEF ModelCallsTools, Agent!vars
  <2>2. CASE LeadAnswers
    <3>1. /\ AwaitsModel /\ ~IsSubagent /\ stack' = SetTop(Replied(Top, 0))
          /\ outcome' = Ended("completed", Top.calls, Top.turns + 1)
      BY <2>2 DEF LeadAnswers
    <3>2. Replied(Top, 0) \in Frame /\ Replied(Top, 0).calls = Top.calls
      BY Depth, AgentAssumption, RepliedFrame
    <3>3. Lead'.calls = Lead.calls
      BY <3>1, <3>2, LeadFrame
    <3> QED BY <3>1, <3>3 DEF Agent!Next, Agent!Finish, AwaitsModel, Running, Ended
  <2>3. CASE SubagentAnswers
    <3>1. IsSubagent /\ outcome' = outcome /\ spans' = spans
          /\ \E ok \in BOOLEAN : stack' = Returned(ok)
      BY <2>3 DEF SubagentAnswers
    <3>2. Lead'.calls = Lead.calls
      BY <3>1, ReturnStep
    <3> QED BY <3>1, <3>2 DEF Agent!vars
  <2>4. CASE ModelFails
    <3>1. CASE IsSubagent
      <4>1. outcome' = outcome /\ spans' = spans /\ stack' = Returned(FALSE)
        BY <2>4, <3>1 DEF ModelFails
      <4>2. Lead'.calls = Lead.calls
        BY <3>1, <4>1, ReturnStep
      <4> QED BY <4>1, <4>2 DEF Agent!vars
    <3>2. CASE ~IsSubagent
      <4>1. /\ AwaitsModel /\ stack' = SetTop(Unanswered(Top))
            /\ outcome' = Ended("aborted", -1, -1)
        BY <2>4, <3>2 DEF ModelFails
      <4>3. Unanswered(Top) \in Frame /\ Unanswered(Top).calls = Top.calls
        BY Depth, UnansweredFrame
      <4>4. Lead'.calls = Lead.calls
        BY <3>2, <4>1, <4>3, LeadFrame
      <4> QED BY <4>1, <4>4 DEF Agent!Next, Agent!Abort, AwaitsModel, Running, Ended
    <3> QED BY <3>1, <3>2
  <2>5. CASE LeadOverBudget
    <3>1. /\ Running /\ Top.todo # <<>> /\ ~WithinBudget(Top) /\ ~IsSubagent
          /\ stack' = SetTop(Refused(Top))
          /\ outcome' = Ended("exhausted", MaxToolCalls, -1)
      BY <2>5 DEF LeadOverBudget, OverBudget
    <3>2. Refused(Top) \in Frame /\ Refused(Top).calls = Top.calls
      BY <3>1, Depth, RefusedFrame
    <3>3. Lead = Top /\ Lead'.calls = Lead.calls
      BY <3>1, <3>2, LeadFrame
    <3>4. Lead.calls = MaxToolCalls
      <4>1. Lead.calls <= Lead.max /\ Lead.max = MaxToolCalls
        <5>1. 1 \in 1 .. Len(stack)
          BY Depth
        <5> QED BY <5>1 DEF IInv, Budgets, Nesting, Lead
      <4>2. Lead.calls \in Nat
        BY Depth DEF Frame
      <4> QED BY <3>1, <3>3, <4>1, <4>2, AgentAssumption DEF WithinBudget
    <3> QED BY <3>1, <3>3, <3>4 DEF Agent!Next, Agent!Exhaust, Running, Ended
  <2>6. CASE SubagentOverBudget
    <3>1. IsSubagent /\ outcome' = outcome /\ spans' = spans /\ stack' = Returned(FALSE)
      BY <2>6 DEF SubagentOverBudget
    <3>2. Lead'.calls = Lead.calls
      BY <3>1, ReturnStep
    <3> QED BY <3>1, <3>2 DEF Agent!vars
  <2>7. CASE UnknownTool \/ ToolFails \/ RunTool
    <3>1. /\ Running /\ Top.todo # <<>> /\ WithinBudget(Top) /\ outcome' = outcome
          /\ \E ok \in BOOLEAN : stack' = SetTop(Answered(Counted(Top), ok))
      BY <2>7 DEF UnknownTool, ToolFails, RunTool, Dispatches
    <3> QED BY <3>1, Depth, CalledFrame, CallRefines
  <2>8. CASE LoadTools
    <3>1. PICK ok \in BOOLEAN, names \in SUBSET DomainSpecs(Top.tools) :
            /\ Running /\ Top.todo # <<>> /\ WithinBudget(Top) /\ outcome' = outcome
            /\ stack' = SetTop(Activated(Answered(Counted(Top), ok), names))
      BY <2>8 DEF LoadTools, Dispatches
    <3> QED BY <3>1, Depth, LoadedFrame, CallRefines
  <2>9. CASE SpawnSubagent
    <3>1. Running /\ WithinBudget(Top) /\ outcome' = outcome
      BY <2>9 DEF SpawnSubagent, Dispatches
    <3>2. ~IsSubagent /\ Lead'.calls = Lead.calls + 1
      BY <2>9, SpawnStep
    <3>3. Lead = Top
      BY <3>2, Depth, Zenon DEF Lead, Top
    <3>4. Lead.calls < MaxToolCalls
      BY <3>1, <3>3 DEF WithinBudget, IInv, Nesting
    <3> QED BY <3>1, <3>2, <3>4 DEF Agent!Next, Agent!Use, Running
  <2>10. CASE Done \/ UNCHANGED vars
    BY <2>10 DEF Done, vars, Agent!vars, Lead
  <2> QED BY <2>1, <2>2, <2>3, <2>4, <2>5, <2>6, <2>7, <2>8, <2>9, <2>10
         DEF Next
<1> QED BY <1>1, <1>2, Invariance, PTL DEF Spec, ImplementsBoundedAgent, Agent!Spec

-----------------------------------------------------------------------------
(***************************************************************************)
(* Transcripts.  While a turn is worked off, its results are a beginning   *)
(* of what WellPaired asks for, and what is missing is what is pending.    *)
(***************************************************************************)
TurnAt(f, last, i, n) ==
    /\ \A k \in 1 .. n : i + k <= last =>
         f.msgs[i + k].role = "tool" /\ f.msgs[i + k].id = k
    /\ i + n < last => f.msgs[i + n + 1].role = "assistant"
    /\ i + n = last => f.todo = <<>>
    /\ i + n > last =>
         /\ i + n = last + Len(f.todo)
         /\ \A j \in 1 .. Len(f.todo) : f.todo[j].id = last - i + j

PairedAt(f, last, i) ==
    f.msgs[i].role = "assistant" => TurnAt(f, last, i, f.msgs[i].calls)

Paired(f) == \A i \in 1 .. Len(f.msgs) : PairedAt(f, Len(f.msgs), i)

Told(f) == Paired(f) /\ LedgerTells(f)

(* What was advertised still is.                                           *)
MenuFits(f) == f.menu \subseteq Advertised(f)

(* The refusal that ends an exhausted run is the one message that does not *)
(* fit, and no request follows it.                                         *)
Transcripts ==
    /\ \A i \in 1 .. Len(stack) : MenuFits(stack[i])
    /\ outcome.kind # "exhausted" => \A i \in 1 .. Len(stack) : Told(stack[i])
    /\ outcome.kind = "exhausted" => Lead.todo # <<>>

-----------------------------------------------------------------------------
(* Counting the results in a transcript.                                   *)

(* The count is a number, grows along the transcript, and is not zero at a *)
(* result.                                                                 *)
LEMMA ResultCount ==
    ASSUME NEW msgs \in Seq(Message), NEW i \in 0 .. Len(msgs)
    PROVE  /\ ResultsUpTo(msgs, i) \in Nat
           /\ ResultsUpTo(msgs, i) <= ResultsUpTo(msgs, Len(msgs))
           /\ i >= 1 /\ msgs[i].role = "tool" => ResultsUpTo(msgs, i) >= 1
<1> DEFINE A == {j \in 1 .. i : msgs[j].role = "tool"}
           B == {j \in 1 .. Len(msgs) : msgs[j].role = "tool"}
<1>1. IsFiniteSet(1 .. i) /\ IsFiniteSet(1 .. Len(msgs))
  BY FS_Interval
<1>2. A \subseteq 1 .. i /\ B \subseteq 1 .. Len(msgs) /\ A \subseteq B
  OBVIOUS
<1>3. IsFiniteSet(A) /\ IsFiniteSet(B)
  BY <1>1, <1>2, FS_Subset
<1>4. Cardinality(A) \in Nat /\ Cardinality(A) <= Cardinality(B)
  BY <1>2, <1>3, FS_Subset, FS_CardinalityType
<1>5. i >= 1 /\ msgs[i].role = "tool" => Cardinality(A) >= 1
  <2> SUFFICES ASSUME i >= 1, msgs[i].role = "tool" PROVE Cardinality(A) >= 1
    OBVIOUS
  <2>1. i \in A
    OBVIOUS
  <2>2. Cardinality(A) # 0
    BY <1>3, <2>1, FS_EmptySet
  <2> HIDE DEF A
  <2> QED BY <1>4, <2>2
<1> QED BY <1>4, <1>5 DEF ResultsUpTo

(* One more message.                                                       *)
LEMMA ResultCountAppend ==
    ASSUME NEW msgs \in Seq(Message), NEW m \in Message
    PROVE  LET more == Append(msgs, m)
               L == Len(msgs)
           IN  /\ \A i \in 1 .. L : ResultsUpTo(more, i) = ResultsUpTo(msgs, i)
               /\ ResultsUpTo(more, L + 1) =
                    ResultsUpTo(msgs, L) + (IF m.role = "tool" THEN 1 ELSE 0)
<1> DEFINE more == Append(msgs, m)
           L == Len(msgs)
           Upto(s, i) == {j \in 1 .. i : s[j].role = "tool"}
<1>1. L \in Nat /\ \A j \in 1 .. L : more[j] = msgs[j]
  OBVIOUS
<1>2. more[L + 1] = m
  OBVIOUS
<1> HIDE DEF more, L
<1>3. \A i \in 0 .. L : Upto(more, i) = Upto(msgs, i)
  BY <1>1
<1>4. Upto(more, L + 1) = Upto(msgs, L) \cup (IF m.role = "tool" THEN {L + 1} ELSE {})
  BY <1>1, <1>2
<1>5. IsFiniteSet(Upto(msgs, L)) /\ L + 1 \notin Upto(msgs, L)
  <2>1. IsFiniteSet(1 .. L) /\ Upto(msgs, L) \subseteq 1 .. L
    BY <1>1, FS_Interval
  <2> QED BY <1>1, <2>1, FS_Subset
<1>6. Cardinality(Upto(msgs, L)) \in Nat
  BY <1>5, FS_CardinalityType
<1> HIDE DEF Upto
<1>7. Cardinality(Upto(more, L + 1)) =
        Cardinality(Upto(msgs, L)) + (IF m.role = "tool" THEN 1 ELSE 0)
  <2>1. CASE m.role = "tool"
    <3>1. Upto(more, L + 1) = Upto(msgs, L) \cup {L + 1}
      BY <1>4, <2>1
    <3>2. Cardinality(Upto(msgs, L) \cup {L + 1}) = Cardinality(Upto(msgs, L)) + 1
      BY <1>5, FS_AddElement
    <3> QED BY <2>1, <3>1, <3>2
  <2>2. CASE m.role # "tool"
    <3>1. Upto(more, L + 1) = Upto(msgs, L)
      BY <1>4, <2>2
    <3> QED BY <1>6, <2>2, <3>1
  <2> QED BY <2>1, <2>2
<1>8. \A i \in 1 .. L : Cardinality(Upto(more, i)) = Cardinality(Upto(msgs, i))
  BY <1>1, <1>3
<1> QED BY <1>7, <1>8 DEF ResultsUpTo, Upto, more, L

-----------------------------------------------------------------------------
(* What the steps do to one run's transcript.                              *)

(* A result, and the line of the ledger for it.                            *)
LEMMA LedgerAnswered ==
    ASSUME NEW f \in Frame, NEW g, NEW id \in 1 .. MaxTurnCalls, NEW ok \in BOOLEAN,
           LedgerTells(f), g.msgs = Append(f.msgs, ToolMessage(id, ok)),
           g.ledger = Append(f.ledger, ok)
    PROVE  LedgerTells(g)
<1> DEFINE L == Len(f.msgs)
           K == Len(f.ledger)
           m == ToolMessage(id, ok)
<1>1. f.msgs \in Seq(Message) /\ f.ledger \in Seq(BOOLEAN) /\ m \in Message
  BY DEF Frame, ToolMessage, Message
<1>2. L \in Nat /\ K \in Nat /\ m.role = "tool" /\ m.ok = ok
  BY <1>1 DEF ToolMessage
<1>3. /\ Len(g.msgs) = L + 1 /\ g.msgs[L + 1] = m
      /\ \A i \in 1 .. L : g.msgs[i] = f.msgs[i]
  BY <1>1
<1>4. /\ Len(g.ledger) = K + 1 /\ g.ledger[K + 1] = ok
      /\ \A i \in 1 .. K : g.ledger[i] = f.ledger[i]
  BY <1>1
<1>5. /\ \A i \in 1 .. L : ResultsUpTo(g.msgs, i) = ResultsUpTo(f.msgs, i)
      /\ ResultsUpTo(g.msgs, L + 1) = ResultsUpTo(f.msgs, L) + 1
  BY <1>1, <1>2, ResultCountAppend
<1>6. K = ResultsUpTo(f.msgs, L)
  BY DEF LedgerTells
<1> HIDE DEF L, K, m
<1>7. ASSUME NEW i \in 1 .. L + 1, g.msgs[i].role = "tool"
      PROVE  g.ledger[ResultsUpTo(g.msgs, i)] = g.msgs[i].ok
  <2>1. CASE i = L + 1
    BY <1>2, <1>3, <1>4, <1>5, <1>6, <2>1
  <2>2. CASE i # L + 1
    <3>1. i \in 1 .. L
      BY <1>2, <2>2
    <3>2. ResultsUpTo(f.msgs, i) \in 1 .. K
      BY <1>1, <1>2, <1>3, <1>6, <1>7, <3>1, ResultCount DEF L
    <3>3. f.ledger[ResultsUpTo(f.msgs, i)] = f.msgs[i].ok
      BY <1>3, <1>7, <3>1 DEF LedgerTells, L
    <3> QED BY <1>3, <1>4, <1>5, <3>1, <3>2, <3>3
  <2> QED BY <2>1, <2>2
<1> QED BY <1>3, <1>4, <1>5, <1>6, <1>7 DEF LedgerTells

(* A message that is no result.                                            *)
LEMMA LedgerKept ==
    ASSUME NEW f \in Frame, NEW g, NEW m \in Message, m.role # "tool",
           LedgerTells(f), g.msgs = Append(f.msgs, m), g.ledger = f.ledger
    PROVE  LedgerTells(g)
<1> DEFINE L == Len(f.msgs)
<1>1. f.msgs \in Seq(Message) /\ L \in Nat
  BY DEF Frame
<1>2. /\ Len(g.msgs) = L + 1 /\ g.msgs[L + 1] = m
      /\ \A i \in 1 .. L : g.msgs[i] = f.msgs[i]
  BY <1>1
<1>3. /\ \A i \in 1 .. L : ResultsUpTo(g.msgs, i) = ResultsUpTo(f.msgs, i)
      /\ ResultsUpTo(g.msgs, L + 1) = ResultsUpTo(f.msgs, L) + 0
  BY <1>1, ResultCountAppend
<1>4. ResultsUpTo(f.msgs, L) \in Nat
  BY <1>1, ResultCount
<1>5. /\ Len(f.ledger) = ResultsUpTo(f.msgs, L)
      /\ \A i \in 1 .. L : f.msgs[i].role = "tool" =>
           f.ledger[ResultsUpTo(f.msgs, i)] = f.msgs[i].ok
  BY DEF LedgerTells
<1> HIDE DEF L
<1>6. \A i \in 1 .. L + 1 : g.msgs[i].role = "tool" => i \in 1 .. L
  BY <1>1, <1>2
<1> QED BY <1>2, <1>3, <1>4, <1>5, <1>6 DEF LedgerTells

(* Nothing is left of a list without elements.                             *)
LEMMA NoneLeft ==
    ASSUME NEW calls \in Seq(Call), Len(calls) = 0
    PROVE  calls = <<>>
OBVIOUS

(* The pending call gets its result.                                       *)
LEMMA PairedAnswered ==
    ASSUME NEW f \in Frame, f.todo # <<>>, NEW g, NEW ok \in BOOLEAN, Paired(f),
           g.msgs = Append(f.msgs, ToolMessage(Head(f.todo).id, ok)),
           g.todo = Tail(f.todo)
    PROVE  Paired(g)
<1> DEFINE L == Len(f.msgs)
           T == Len(f.todo)
           m == ToolMessage(Head(f.todo).id, ok)
<1>1. f.msgs \in Seq(Message) /\ f.todo \in Seq(Call) /\ L \in Nat /\ T \in Nat /\ T >= 1
  BY DEF Frame
<1>2. m.role = "tool" /\ m.id = f.todo[1].id /\ m.role # "assistant"
  BY <1>1 DEF ToolMessage
<1>3. /\ Len(g.msgs) = L + 1 /\ g.msgs[L + 1] = m
      /\ \A i \in 1 .. L : g.msgs[i] = f.msgs[i]
  BY <1>1
<1>4. Len(g.todo) = T - 1 /\ \A i \in 1 .. T - 1 : g.todo[i] = f.todo[i + 1]
  BY <1>1
<1> HIDE DEF m
<1> SUFFICES ASSUME NEW i \in 1 .. Len(g.msgs) PROVE PairedAt(g, Len(g.msgs), i)
  BY DEF Paired
<1> SUFFICES ASSUME g.msgs[i].role = "assistant" PROVE PairedAt(g, L + 1, i)
  BY <1>3, Zenon DEF PairedAt
<1> DEFINE n == g.msgs[i].calls
           U == Len(g.todo)
<1>5. i \in 1 .. L /\ f.msgs[i].role = "assistant" /\ g.msgs[i] = f.msgs[i]
  BY <1>1, <1>2, <1>3
<1>6. n \in Nat
  <2>1. f.msgs[i] \in Message
    BY <1>1, <1>5
  <2>2. f.msgs[i].calls \in Nat
    BY <1>5, <2>1, AgentAssumption DEF Message
  <2> QED BY <1>5, <2>2, Zenon
<1>7. /\ \A k \in 1 .. n : i + k <= L =>
            f.msgs[i + k].role = "tool" /\ f.msgs[i + k].id = k
      /\ i + n < L => f.msgs[i + n + 1].role = "assistant"
      /\ i + n # L
      /\ i + n > L => /\ i + n = L + T
                      /\ \A j \in 1 .. T : f.todo[j].id = L - i + j
  <2>1. PairedAt(f, L, i)
    BY <1>5 DEF Paired
  <2> QED BY <1>5, <2>1 DEF PairedAt, TurnAt
<1>12. U = T - 1 /\ U \in Nat
  BY <1>1, <1>4
<1> HIDE DEF n, L, T, U
<1>8. ASSUME NEW k \in 1 .. n, i + k <= L + 1
      PROVE  g.msgs[i + k].role = "tool" /\ g.msgs[i + k].id = k
  <2>1. CASE i + k <= L
    <3>1. i + k \in 1 .. L
      BY <1>1, <1>5, <1>6, <2>1
    <3> QED BY <1>3, <1>7, <2>1, <3>1
  <2>2. CASE i + k = L + 1
    <3>1. i + n > L /\ 1 \in 1 .. T /\ k = L - i + 1
      BY <1>1, <1>5, <1>6, <2>2
    <3>2. f.todo[1].id = k
      BY <1>7, <3>1
    <3> QED BY <1>2, <1>3, <2>2, <3>2
  <2>3. i + k <= L \/ i + k = L + 1
    BY <1>1, <1>5, <1>6, <1>8
  <2> QED BY <2>1, <2>2, <2>3, Zenon
<1>9. ASSUME i + n < L + 1 PROVE g.msgs[i + n + 1].role = "assistant"
  <2>1. i + n < L /\ i + n + 1 \in 1 .. L
    BY <1>1, <1>5, <1>6, <1>7, <1>9
  <2> QED BY <1>3, <1>7, <2>1
<1>10. ASSUME i + n = L + 1 PROVE g.todo = <<>>
  <2>1. i + n > L /\ T = 1
    BY <1>1, <1>5, <1>6, <1>7, <1>10
  <2>2. Len(g.todo) = 0 /\ g.todo \in Seq(Call)
    BY <1>1, <1>4, <1>12, <2>1 DEF U, T
  <2> QED BY <2>2, NoneLeft, Zenon
<1>11. ASSUME i + n > L + 1
       PROVE  /\ i + n = L + 1 + U
              /\ \A j \in 1 .. U : g.todo[j].id = (L + 1) - i + j
  <2>1. i + n > L /\ i + n = L + T
    BY <1>1, <1>5, <1>6, <1>7, <1>11
  <2>2. ASSUME NEW j \in 1 .. U PROVE g.todo[j].id = (L + 1) - i + j
    <3>1. j \in 1 .. T - 1 /\ j + 1 \in 1 .. T
      BY <1>1, <1>12
    <3>2. f.todo[j + 1].id = L - i + (j + 1)
      BY <1>7, <2>1, <3>1
    <3> QED BY <1>1, <1>4, <1>5, <3>1, <3>2
  <2>3. i + n = L + 1 + U
    BY <1>1, <1>12, <2>1
  <2> QED BY <2>2, <2>3, Zenon
<1>13. TurnAt(g, L + 1, i, n)
  BY <1>8, <1>9, <1>10, <1>11, Zenon DEF TurnAt, U
<1> QED BY <1>13, Zenon DEF n, PairedAt

(* A new turn with n calls.                                                *)
LEMMA PairedAsked ==
    ASSUME NEW f \in Frame, f.todo = <<>>, NEW g, Paired(f),
           NEW n \in 0 .. MaxTurnCalls,
           g.msgs = Append(f.msgs, AssistantMessage(n)),
           g.todo \in Seq(Call), Len(g.todo) = n,
           \A k \in 1 .. n : g.todo[k].id = k
    PROVE  Paired(g)
<1> DEFINE L == Len(f.msgs)
           m == AssistantMessage(n)
<1>1. /\ f.msgs \in Seq(Message) /\ L \in Nat /\ n \in Nat
  BY AgentAssumption DEF Frame
<1>2. m.role = "assistant" /\ m.calls = n
  BY DEF AssistantMessage
<1>3. /\ Len(g.msgs) = L + 1 /\ g.msgs[L + 1] = m
      /\ \A i \in 1 .. L : g.msgs[i] = f.msgs[i]
  BY <1>1
<1>4. Len(f.todo) = 0
  OBVIOUS
<1> HIDE DEF m
<1> SUFFICES ASSUME NEW i \in 1 .. Len(g.msgs) PROVE PairedAt(g, Len(g.msgs), i)
  BY DEF Paired
<1> SUFFICES ASSUME g.msgs[i].role = "assistant" PROVE PairedAt(g, L + 1, i)
  BY <1>3, Zenon DEF PairedAt
<1>5. CASE i = L + 1
  <2> DEFINE c == g.msgs[i].calls
  <2>1. c = n /\ Len(g.todo) = n
    BY <1>2, <1>3, <1>5
  <2>2. n = 0 => g.todo = <<>>
    BY NoneLeft
  <2>3. \A j \in 1 .. Len(g.todo) : g.todo[j].id = (L + 1) - i + j
    BY <1>1, <1>5
  <2> HIDE DEF c, L
  <2>4. /\ \A k \in 1 .. n : ~(i + k <= L + 1)
        /\ ~(i + n < L + 1)
        /\ i + n = L + 1 => n = 0
        /\ i + n = L + 1 + n
    BY <1>1, <1>5
  <2>5. /\ \A k \in 1 .. c : ~(i + k <= L + 1)
        /\ ~(i + c < L + 1)
        /\ i + c = L + 1 => g.todo = <<>>
        /\ i + c = L + 1 + Len(g.todo)
    BY <2>1, <2>2, <2>4, Zenon
  <2>6. TurnAt(g, L + 1, i, c)
    BY <2>3, <2>5, Zenon DEF TurnAt
  <2> QED BY <2>6, Zenon DEF c, PairedAt
<1>6. CASE i # L + 1
  <2> DEFINE c == g.msgs[i].calls
  <2>1. i \in 1 .. L /\ g.msgs[i] = f.msgs[i] /\ f.msgs[i].role = "assistant"
    BY <1>1, <1>3, <1>6
  <2>2. c \in Nat
    <3>1. f.msgs[i] \in Message
      BY <1>1, <2>1
    <3>2. f.msgs[i].calls \in Nat
      BY <2>1, <3>1, AgentAssumption DEF Message
    <3> QED BY <2>1, <3>2, Zenon
  <2>3. /\ \A k \in 1 .. c : i + k <= L =>
             f.msgs[i + k].role = "tool" /\ f.msgs[i + k].id = k
        /\ i + c < L => f.msgs[i + c + 1].role = "assistant"
        /\ i + c > L => i + c = L + Len(f.todo)
    <3>1. PairedAt(f, L, i)
      BY <2>1 DEF Paired
    <3> QED BY <2>1, <3>1 DEF PairedAt, TurnAt
  <2> HIDE DEF c, L
  <2>4. i + c <= L
    BY <1>1, <1>4, <2>1, <2>2, <2>3
  <2>5. \A k \in 1 .. c : /\ i + k \in 1 .. L
                          /\ g.msgs[i + k].role = "tool" /\ g.msgs[i + k].id = k
    <3> SUFFICES ASSUME NEW k \in 1 .. c
                 PROVE  /\ i + k \in 1 .. L
                        /\ g.msgs[i + k].role = "tool" /\ g.msgs[i + k].id = k
      OBVIOUS
    <3>1. i + k \in 1 .. L /\ i + k <= L
      BY <1>1, <2>1, <2>2, <2>4
    <3> QED BY <1>3, <2>3, <3>1
  <2>6. g.msgs[i + c + 1].role = "assistant"
    <3>1. CASE i + c = L
      BY <1>2, <1>3, <3>1
    <3>2. CASE i + c < L
      <4>1. i + c + 1 \in 1 .. L
        BY <1>1, <2>1, <2>2, <3>2
      <4> QED BY <1>3, <2>3, <3>2, <4>1
    <3>3. i + c = L \/ i + c < L
      BY <1>1, <2>1, <2>2, <2>4
    <3> QED BY <3>1, <3>2, <3>3, Zenon
  <2>7. ~(i + c = L + 1) /\ ~(i + c > L + 1)
    BY <1>1, <2>1, <2>2, <2>4
  <2>8. TurnAt(g, L + 1, i, c)
    BY <2>5, <2>6, <2>7, Zenon DEF TurnAt
  <2> QED BY <2>8, Zenon DEF c, PairedAt
<1> QED BY <1>5, <1>6

(* A result keeps the transcript and the ledger right.                     *)
LEMMA ToldAnswered ==
    ASSUME NEW f \in Frame, f.todo # <<>>, NEW g, NEW ok \in BOOLEAN, Told(f),
           g.msgs = Append(f.msgs, ToolMessage(Head(f.todo).id, ok)),
           g.ledger = Append(f.ledger, ok), g.todo = Tail(f.todo)
    PROVE  Told(g)
<1>1. Head(f.todo).id \in 1 .. MaxTurnCalls
  <2>1. f.todo \in Seq(Call)
    BY DEF Frame
  <2>2. Head(f.todo) \in Call
    BY <2>1
  <2> QED BY <2>2 DEF Call
<1>2. Paired(g)
  BY PairedAnswered DEF Told
<1>3. LedgerTells(g)
  BY <1>1, LedgerAnswered DEF Told
<1> QED BY <1>2, <1>3 DEF Told

(* So does a turn.                                                         *)
LEMMA ToldAsked ==
    ASSUME NEW f \in Frame, f.todo = <<>>, NEW g, Told(f),
           NEW n \in 0 .. MaxTurnCalls,
           g.msgs = Append(f.msgs, AssistantMessage(n)), g.ledger = f.ledger,
           g.todo \in Seq(Call), Len(g.todo) = n,
           \A k \in 1 .. n : g.todo[k].id = k
    PROVE  Told(g)
<1>1. AssistantMessage(n) \in Message /\ AssistantMessage(n).role # "tool"
  BY AgentAssumption DEF AssistantMessage, Message
<1>2. Paired(g)
  BY PairedAsked DEF Told
<1>3. LedgerTells(g)
  BY <1>1, LedgerKept DEF Told
<1> QED BY <1>2, <1>3 DEF Told

(* And a step that touches none of them.                                   *)
LEMMA ToldSame ==
    ASSUME NEW f, NEW g, Told(f),
           g.msgs = f.msgs, g.ledger = f.ledger, g.todo = f.todo
    PROVE  Told(g)
<1>1. LedgerTells(g)
  BY DEF Told, LedgerTells
<1>2. Paired(g)
  <2>1. ASSUME NEW i \in 1 .. Len(f.msgs) PROVE PairedAt(g, Len(f.msgs), i)
    <3>1. PairedAt(f, Len(f.msgs), i)
      BY DEF Told, Paired
    <3>2. TurnAt(f, Len(f.msgs), i, f.msgs[i].calls)
            => TurnAt(g, Len(f.msgs), i, f.msgs[i].calls)
      BY Zenon DEF TurnAt
    <3> QED BY <3>1, <3>2, Zenon DEF PairedAt
  <2> QED BY <2>1, Zenon DEF Paired
<1> QED BY <1>1, <1>2 DEF Told

(* A new run.                                                              *)
LEMMA ToldNew ==
    ASSUME NEW role, NEW tools, NEW max
    PROVE  Told(NewFrame(role, tools, max)) /\ MenuFits(NewFrame(role, tools, max))
<1> DEFINE f == NewFrame(role, tools, max)
<1>1. /\ f.msgs = <<UserMessage>> /\ f.ledger = <<>> /\ f.todo = <<>> /\ f.menu = {}
  BY DEF NewFrame
<1> HIDE DEF f
<1>2. /\ Len(f.msgs) = 1 /\ f.msgs[1].role = "user" /\ Len(f.ledger) = 0
      /\ \A i \in 1 .. Len(f.msgs) : f.msgs[i].role = "user"
  BY <1>1 DEF UserMessage
<1>3. Paired(f)
  BY <1>2 DEF Paired, PairedAt
<1>4. LedgerTells(f)
  <2>1. {j \in 1 .. Len(f.msgs) : f.msgs[j].role = "tool"} = {}
    BY <1>2
  <2>2. ResultsUpTo(f.msgs, Len(f.msgs)) = 0
    BY <2>1, FS_EmptySet DEF ResultsUpTo
  <2> QED BY <1>2, <2>2 DEF LedgerTells
<1>5. MenuFits(f)
  BY <1>1 DEF MenuFits
<1> QED BY <1>3, <1>4, <1>5 DEF Told, f

-----------------------------------------------------------------------------
(* The fields that the lemmas above leave out.                             *)

(* What each operation on a frame leaves alone: counting a call,           *)
LEMMA CountedFields ==
    ASSUME NEW f \in Frame
    PROVE  /\ Counted(f).msgs = f.msgs /\ Counted(f).ledger = f.ledger
           /\ Counted(f).todo = f.todo
           /\ Counted(f).active = f.active /\ Counted(f).menu = f.menu
BY DEF Counted, Frame

(* answering it,                                                           *)
LEMMA AnsweredFields ==
    ASSUME NEW f \in Frame, NEW ok
    PROVE  LET g == Answered(f, ok)
           IN  /\ g.msgs = Append(f.msgs, ToolMessage(Head(f.todo).id, ok))
               /\ g.ledger = Append(f.ledger, ok) /\ g.todo = Tail(f.todo)
               /\ g.active = f.active /\ g.menu = f.menu
BY DEF Answered, Frame

(* refusing it,                                                            *)
LEMMA RefusedFields ==
    ASSUME NEW f \in Frame
    PROVE  /\ Refused(f).todo = f.todo
           /\ Refused(f).active = f.active /\ Refused(f).menu = f.menu
BY DEF Refused, Frame

(* leaving it unanswered,                                                  *)
LEMMA UnansweredFields ==
    ASSUME NEW f \in Frame
    PROVE  /\ Unanswered(f).msgs = f.msgs /\ Unanswered(f).ledger = f.ledger
           /\ Unanswered(f).todo = f.todo
           /\ Unanswered(f).active = f.active /\ Unanswered(f).menu = f.menu
BY DEF Unanswered, Frame

(* and a reply of the model.                                               *)
LEMMA RepliedFields ==
    ASSUME NEW f \in Frame, NEW n
    PROVE  LET g == Replied(f, n)
           IN  /\ g.msgs = Append(f.msgs, AssistantMessage(n))
               /\ g.ledger = f.ledger /\ g.todo = f.todo
               /\ g.active = f.active /\ g.menu = Advertised(f)
BY DEF Replied, Frame

(* What is advertised follows from the role, the registry and what was     *)
(* activated, of which there is only ever more.                            *)
LEMMA AdvertisedGrows ==
    ASSUME NEW f, NEW g, g.role = f.role, g.tools = f.tools,
           f.active \subseteq g.active
    PROVE  Advertised(f) \subseteq Advertised(g)
BY DEF Advertised, SpecsFor

(* A turn that asks for calls lists them in order.                         *)
LEMMA AskedFields ==
    ASSUME NEW f \in Frame, NEW names \in TurnCalls
    PROVE  LET g == Asked(f, names)
           IN  /\ Len(names) \in 0 .. MaxTurnCalls
               /\ g.msgs = Append(f.msgs, AssistantMessage(Len(names)))
               /\ g.ledger = f.ledger
               /\ g.active = f.active /\ g.menu = Advertised(f)
               /\ g.todo \in Seq(Call) /\ Len(g.todo) = Len(names)
               /\ \A k \in 1 .. Len(names) : g.todo[k].id = k
<1> DEFINE calls == [i \in 1 .. Len(names) |-> [id |-> i, name |-> names[i]]]
           r == Replied(f, Len(names))
           g == [r EXCEPT !.todo = calls]
<1>1. PICK n \in 1 .. MaxTurnCalls : names \in [1 .. n -> Name]
  BY DEF TurnCalls
<1>2. n \in Nat /\ Len(names) = n /\ Len(names) \in 0 .. MaxTurnCalls
  <2>1. n \in Nat
    BY AgentAssumption
  <2>2. Len(names) = n
    BY <1>1, <2>1, FunctionIsSeq, Zenon
  <2> QED BY <2>1, <2>2, AgentAssumption
<1>3. calls \in [1 .. n -> Call]
  <2>1. \A i \in 1 .. n : [id |-> i, name |-> names[i]] \in Call
    BY <1>1, AgentAssumption DEF Call
  <2> QED BY <1>2, <2>1
<1>4. \A k \in 1 .. Len(names) : calls[k].id = k
  OBVIOUS
<1> HIDE DEF calls
<1>5. calls \in Seq(Call) /\ Len(calls) = n
  BY <1>2, <1>3, FunctionIsSeq, Zenon
<1>6. /\ r \in Frame /\ r.msgs = Append(f.msgs, AssistantMessage(Len(names)))
      /\ r.ledger = f.ledger /\ r.active = f.active /\ r.menu = Advertised(f)
  BY <1>2, RepliedFrame, RepliedFields, Zenon
<1>7. Asked(f, names) = g
  BY DEF Asked, calls
<1> HIDE DEF r
<1>8. /\ g.msgs = r.msgs /\ g.ledger = r.ledger /\ g.active = r.active
      /\ g.menu = r.menu /\ g.todo = calls
  BY <1>6 DEF Frame
<1> QED BY <1>2, <1>4, <1>5, <1>6, <1>7, <1>8

-----------------------------------------------------------------------------
(* The steps.                                                              *)

(* The run that is on is one that fits.                                    *)
LEMMA TopFits ==
    ASSUME IInv, Transcripts
    PROVE  /\ Top \in Frame /\ MenuFits(Top) /\ Top.menu \subseteq Advertised(Top)
           /\ Running => Told(Top)
<1>1. Len(stack) \in 1 .. Len(stack)
  BY Depth
<1>2. MenuFits(Top)
  BY <1>1 DEF Transcripts, Top
<1>3. Running => Told(Top)
  BY <1>1 DEF Transcripts, Top, Running
<1> QED BY <1>2, <1>3, Depth DEF MenuFits

(* A step of the run that is on, which leaves it as a run that fits.       *)
TopMoves(g) ==
    /\ g \in Frame /\ stack' = SetTop(g)
    /\ MenuFits(g) /\ Top.menu \subseteq g.menu
    /\ outcome'.kind # "exhausted" => Told(g)
    /\ outcome'.kind = "exhausted" => ~IsSubagent /\ g.todo # <<>>

(* A turn of the model.                                                    *)
LEMMA ReplyMoves ==
    ASSUME IInv, Transcripts, AwaitsModel, outcome'.kind # "exhausted",
           NEW g \in Frame, NEW n \in 0 .. MaxTurnCalls, stack' = SetTop(g),
           g.role = Top.role, g.tools = Top.tools, g.active = Top.active,
           g.menu = Advertised(Top),
           g.msgs = Append(Top.msgs, AssistantMessage(n)), g.ledger = Top.ledger,
           g.todo \in Seq(Call), Len(g.todo) = n, \A k \in 1 .. n : g.todo[k].id = k
    PROVE  TopMoves(g)
<1>1. Top \in Frame /\ Top.menu \subseteq Advertised(Top) /\ Told(Top) /\ Top.todo = <<>>
  BY TopFits DEF AwaitsModel
<1>2. MenuFits(g) /\ Top.menu \subseteq g.menu
  BY <1>1, AdvertisedGrows DEF MenuFits
<1>3. Told(g)
  BY <1>1, ToldAsked
<1> QED BY <1>2, <1>3 DEF TopMoves

(* A call that is worked off.                                              *)
LEMMA CallMoves ==
    ASSUME IInv, Transcripts, Running, Top.todo # <<>>, outcome' = outcome,
           NEW g \in Frame, NEW ok \in BOOLEAN, stack' = SetTop(g),
           g.role = Top.role, g.tools = Top.tools, Top.active \subseteq g.active,
           g.menu = Top.menu,
           g.msgs = Append(Top.msgs, ToolMessage(Head(Top.todo).id, ok)),
           g.ledger = Append(Top.ledger, ok), g.todo = Tail(Top.todo)
    PROVE  TopMoves(g)
<1>1. Top \in Frame /\ Top.menu \subseteq Advertised(Top) /\ Told(Top)
  BY TopFits
<1>2. MenuFits(g) /\ Top.menu \subseteq g.menu
  BY <1>1, AdvertisedGrows DEF MenuFits
<1>3. Told(g)
  BY <1>1, ToldAnswered
<1>4. outcome'.kind # "exhausted"
  BY DEF Running
<1> QED BY <1>2, <1>3, <1>4 DEF TopMoves

(* What any step does to the stack.                                        *)
LEMMA Moves ==
    ASSUME IInv, Transcripts, [Next]_vars
    PROVE  \/ \E g : TopMoves(g)
           \/ /\ IsSubagent /\ outcome' = outcome
              /\ \E ok \in BOOLEAN : stack' = Returned(ok)
           \/ SpawnSubagent
           \/ stack' = stack /\ outcome' = outcome
<1>1. Top \in Frame /\ MenuFits(Top)
  BY TopFits
<1>2. CASE ModelCallsTools
  <2>1. PICK names \in TurnCalls : stack' = SetTop(Asked(Top, names))
    BY <1>2 DEF ModelCallsTools
  <2> DEFINE g == Asked(Top, names)
  <2>2. AwaitsModel /\ outcome' = outcome
    BY <1>2 DEF ModelCallsTools
  <2>3. g \in Frame /\ g.role = Top.role /\ g.tools = Top.tools
    BY <1>1, AskedFrame
  <2>4. /\ Len(names) \in 0 .. MaxTurnCalls
        /\ g.msgs = Append(Top.msgs, AssistantMessage(Len(names)))
        /\ g.ledger = Top.ledger
        /\ g.active = Top.active /\ g.menu = Advertised(Top)
        /\ g.todo \in Seq(Call) /\ Len(g.todo) = Len(names)
        /\ \A k \in 1 .. Len(names) : g.todo[k].id = k
    BY <1>1, AskedFields
  <2> HIDE DEF g
  <2>5. outcome'.kind # "exhausted"
    BY <2>2 DEF AwaitsModel, Running
  <2>6. TopMoves(g)
    BY <2>1, <2>2, <2>3, <2>4, <2>5, ReplyMoves DEF g
  <2> QED BY <2>6
<1>3. CASE LeadAnswers
  <2> DEFINE g == Replied(Top, 0)
  <2>1. AwaitsModel /\ stack' = SetTop(g) /\ outcome'.kind = "completed"
    BY <1>3 DEF LeadAnswers, Ended
  <2>2. 0 \in 0 .. MaxTurnCalls
    BY AgentAssumption
  <2>3. /\ g \in Frame /\ g.role = Top.role /\ g.tools = Top.tools
        /\ g.todo = Top.todo
    BY <1>1, <2>2, RepliedFrame
  <2>4. /\ g.msgs = Append(Top.msgs, AssistantMessage(0))
        /\ g.ledger = Top.ledger /\ g.active = Top.active
        /\ g.menu = Advertised(Top)
    BY <1>1, RepliedFields
  <2> HIDE DEF g
  <2>5. g.todo \in Seq(Call) /\ Len(g.todo) = 0
    BY <2>1, <2>3 DEF AwaitsModel
  <2>6. \A k \in 1 .. 0 : g.todo[k].id = k
    OBVIOUS
  <2>7. TopMoves(g)
    BY <2>1, <2>2, <2>3, <2>4, <2>5, <2>6, ReplyMoves
  <2> QED BY <2>7
<1>4. CASE SubagentAnswers
  BY <1>4 DEF SubagentAnswers
<1>5. CASE ModelFails
  <2>1. CASE IsSubagent
    BY <1>5, <2>1 DEF ModelFails
  <2>2. CASE ~IsSubagent
    <3> DEFINE g == Unanswered(Top)
    <3>1. AwaitsModel /\ stack' = SetTop(g) /\ outcome'.kind = "aborted"
      BY <1>5, <2>2 DEF ModelFails, Ended
    <3>2. g \in Frame /\ g.role = Top.role /\ g.tools = Top.tools
      BY <1>1, UnansweredFrame
    <3>3. /\ g.msgs = Top.msgs /\ g.ledger = Top.ledger /\ g.todo = Top.todo
          /\ g.active = Top.active /\ g.menu = Top.menu
      BY <1>1, UnansweredFields
    <3> HIDE DEF g
    <3>4. Told(g)
      BY <3>1, <3>3, TopFits, ToldSame DEF AwaitsModel
    <3>5. MenuFits(g) /\ Top.menu \subseteq g.menu
      BY <1>1, <3>2, <3>3, AdvertisedGrows DEF MenuFits
    <3>6. TopMoves(g)
      BY <3>1, <3>2, <3>4, <3>5 DEF TopMoves
    <3> QED BY <3>6
  <2> QED BY <2>1, <2>2
<1>6. CASE LeadOverBudget
  <2> DEFINE g == Refused(Top)
  <2>1. /\ Top.todo # <<>> /\ ~IsSubagent /\ stack' = SetTop(g)
        /\ outcome'.kind = "exhausted"
    BY <1>6 DEF LeadOverBudget, OverBudget, Ended
  <2>2. g \in Frame /\ g.role = Top.role /\ g.tools = Top.tools
    BY <1>1, <2>1, RefusedFrame
  <2>3. g.todo = Top.todo /\ g.active = Top.active /\ g.menu = Top.menu
    BY <1>1, RefusedFields
  <2> HIDE DEF g
  <2>4. MenuFits(g) /\ Top.menu \subseteq g.menu
    BY <1>1, <2>2, <2>3, AdvertisedGrows DEF MenuFits
  <2>5. TopMoves(g)
    BY <2>1, <2>2, <2>3, <2>4 DEF TopMoves
  <2> QED BY <2>5
<1>7. CASE SubagentOverBudget
  BY <1>7 DEF SubagentOverBudget
<1>8. ASSUME NEW ok \in BOOLEAN, NEW g, NEW h, Running, Top.todo # <<>>,
             outcome' = outcome, stack' = SetTop(g),
             h = Answered(Counted(Top), ok), g \in Frame,
             g.role = Top.role, g.tools = Top.tools,
             h.active \subseteq g.active, g.menu = h.menu,
             g.msgs = h.msgs, g.ledger = h.ledger, g.todo = h.todo
      PROVE  TopMoves(g)
  <2> DEFINE c == Counted(Top)
  <2>1. c \in Frame
    BY <1>1, CountedFrame
  <2>2. /\ c.msgs = Top.msgs /\ c.ledger = Top.ledger /\ c.todo = Top.todo
        /\ c.active = Top.active /\ c.menu = Top.menu
    BY <1>1, CountedFields
  <2> HIDE DEF c
  <2>3. /\ h.msgs = Append(c.msgs, ToolMessage(Head(c.todo).id, ok))
        /\ h.ledger = Append(c.ledger, ok) /\ h.todo = Tail(c.todo)
        /\ h.active = c.active /\ h.menu = c.menu
    BY <1>8, <2>1, AnsweredFields DEF c
  <2> QED BY <1>8, <2>2, <2>3, CallMoves
<1>9. CASE UnknownTool \/ ToolFails \/ RunTool
  <2>1. PICK ok \in BOOLEAN :
          /\ Running /\ Top.todo # <<>> /\ outcome' = outcome
          /\ stack' = SetTop(Answered(Counted(Top), ok))
    BY <1>9 DEF UnknownTool, ToolFails, RunTool, Dispatches
  <2> DEFINE g == Answered(Counted(Top), ok)
  <2>2. g \in Frame /\ g.role = Top.role /\ g.tools = Top.tools
    BY <1>1, <2>1, CalledFrame
  <2>3. TopMoves(g)
    BY <1>8, <2>1, <2>2
  <2> QED BY <2>3
<1>10. CASE LoadTools
  <2>1. PICK ok \in BOOLEAN, names \in SUBSET DomainSpecs(Top.tools) :
          /\ Running /\ Top.todo # <<>> /\ outcome' = outcome
          /\ stack' = SetTop(Activated(Answered(Counted(Top), ok), names))
    BY <1>10 DEF LoadTools, Dispatches
  <2> DEFINE h == Answered(Counted(Top), ok)
             g == Activated(h, names)
  <2>2. g \in Frame /\ g.role = Top.role /\ g.tools = Top.tools
    BY <1>1, <2>1, LoadedFrame
  <2>3. h \in Frame
    BY <1>1, <2>1, CalledFrame
  <2>4. /\ h.active \subseteq g.active /\ g.menu = h.menu
        /\ g.msgs = h.msgs /\ g.ledger = h.ledger /\ g.todo = h.todo
    <3> HIDE DEF h
    <3> QED BY <2>3 DEF Activated, Frame
  <2>5. TopMoves(g)
    BY <1>8, <2>1, <2>2, <2>4
  <2> QED BY <2>5
<1>11. CASE SpawnSubagent
  BY <1>11
<1>12. CASE Done \/ UNCHANGED vars
  BY <1>12 DEF Done, vars
<1> QED BY <1>2, <1>3, <1>4, <1>5, <1>6, <1>7, <1>9, <1>10, <1>11, <1>12 DEF Next

(* A subagent that is over leaves its result.                              *)
LEMMA ReturnFits ==
    ASSUME IInv, Transcripts, IsSubagent, NEW ok \in BOOLEAN, stack' = Returned(ok),
           outcome' = outcome
    PROVE  /\ Len(stack') = 1 /\ stack'[1] = Lead' /\ Lead' = Answered(Lead, ok)
           /\ Lead \in Frame /\ Lead.todo # <<>>
           /\ Told(Lead') /\ MenuFits(Lead')
           /\ outcome.kind # "exhausted"
<1>1. Len(stack) - 1 = 1 /\ stack[Len(stack) - 1] = Lead
  BY Depth, Zenon DEF Lead
<1>2. Lead \in Frame /\ Lead.todo # <<>> /\ Running
  BY Depth DEF IInv, Nesting
<1>3. /\ stack' \in Seq(Frame) /\ Len(stack') = Len(stack) - 1
      /\ stack'[Len(stack) - 1] = Answered(Lead, ok)
  BY <1>1, <1>2, Depth, ReturnedStack DEF IsSubagent
<1>4. Len(stack') = 1 /\ stack'[1] = Answered(Lead, ok)
  BY <1>1, <1>3, Zenon
<1>5. Lead' = Answered(Lead, ok)
  BY <1>4 DEF Lead
<1>6. outcome.kind # "exhausted"
  BY <1>2 DEF Running
<1>7. Told(Lead) /\ MenuFits(Lead)
  <2>1. 1 \in 1 .. Len(stack)
    BY Depth
  <2> QED BY <1>6, <2>1 DEF Transcripts, Lead
<1> DEFINE g == Answered(Lead, ok)
<1>8. /\ g.msgs = Append(Lead.msgs, ToolMessage(Head(Lead.todo).id, ok))
      /\ g.ledger = Append(Lead.ledger, ok) /\ g.todo = Tail(Lead.todo)
      /\ g.active = Lead.active /\ g.menu = Lead.menu
  BY <1>2, AnsweredFields
<1>9. g.role = Lead.role /\ g.tools = Lead.tools
  BY <1>2, AnsweredFrame
<1> HIDE DEF g
<1>10. Told(g)
  BY <1>2, <1>7, <1>8, ToldAnswered
<1>11. MenuFits(g)
  BY <1>7, <1>8, <1>9, AdvertisedGrows DEF MenuFits
<1>12. Lead' = g
  BY <1>5 DEF g
<1>13. Told(Lead') /\ MenuFits(Lead')
  BY <1>10, <1>11, <1>12, Zenon
<1>14. stack'[1] = Lead'
  BY <1>4, <1>5, Zenon
<1> QED BY <1>2, <1>4, <1>5, <1>6, <1>13, <1>14, Zenon

(* The first run fits, and every step keeps it so.                         *)
LEMMA TranscriptsInit ==
    ASSUME Init
    PROVE  Transcripts
<1> DEFINE f == NewFrame("lead", Tool, MaxToolCalls)
<1>1. stack = <<f>> /\ outcome.kind = "running"
  BY DEF Init, Ended
<1>2. Told(f) /\ MenuFits(f)
  BY ToldNew
<1> HIDE DEF f
<1>3. \A i \in 1 .. Len(stack) : stack[i] = f
  BY <1>1
<1> QED BY <1>1, <1>2, <1>3 DEF Transcripts

(* Every step keeps it so: of the top frame, of a return, or of a spawn.   *)
LEMMA TranscriptsNext ==
    ASSUME IInv, Transcripts, [Next]_vars
    PROVE  Transcripts'
<1>1. ASSUME NEW g, TopMoves(g) PROVE Transcripts'
  <2>1. /\ g \in Frame /\ stack' = SetTop(g) /\ MenuFits(g)
        /\ outcome'.kind # "exhausted" => Told(g)
        /\ outcome'.kind = "exhausted" => ~IsSubagent /\ g.todo # <<>>
    BY <1>1 DEF TopMoves
  <2>2. /\ Len(stack') = Len(stack) /\ stack'[Len(stack)] = g
        /\ \A i \in 1 .. Len(stack) - 1 : stack'[i] = stack[i]
    BY <2>1, Depth, SetTopStack
  <2>3. \A i \in 1 .. Len(stack) : i # Len(stack) => i \in 1 .. Len(stack) - 1 /\ IsSubagent
    BY Depth DEF IsSubagent
  <2>4. ASSUME NEW i \in 1 .. Len(stack') PROVE MenuFits(stack'[i])
    <3>1. MenuFits(stack[i])
      BY <2>2 DEF Transcripts
    <3> QED BY <2>1, <2>2, <2>3, <3>1, Zenon
  <2>5. ASSUME outcome'.kind # "exhausted", NEW i \in 1 .. Len(stack') PROVE Told(stack'[i])
    <3>1. IsSubagent => Running
      BY DEF IInv, Nesting
    <3>2. IsSubagent => Told(stack[i])
      BY <2>2, <3>1 DEF Transcripts, Running
    <3> QED BY <2>1, <2>2, <2>3, <2>5, <3>2, Zenon
  <2>6. outcome'.kind = "exhausted" => Lead'.todo # <<>>
    BY <2>1, LeadFrame
  <2> QED BY <2>4, <2>5, <2>6 DEF Transcripts, MenuFits, Advertised, Told, Paired, PairedAt, TurnAt, LedgerTells
<1>2. CASE /\ IsSubagent /\ outcome' = outcome
           /\ \E ok \in BOOLEAN : stack' = Returned(ok)
  <2>1. /\ Len(stack') = 1 /\ stack'[1] = Lead' /\ Told(Lead') /\ MenuFits(Lead')
        /\ outcome'.kind # "exhausted"
    BY <1>2, ReturnFits
  <2>2. \A i \in 1 .. Len(stack') : stack'[i] = Lead'
    <3>1. Len(stack') \in Nat
      BY <2>1
    <3>2. \A i \in 1 .. Len(stack') : i = Len(stack')
      BY <2>1, <3>1, JustOne, Zenon
    <3> QED BY <2>1, <3>2, Zenon
  <2>3. \A i \in 1 .. Len(stack') : Told(stack'[i]) /\ MenuFits(stack'[i])
    BY <2>1, <2>2, Zenon
  <2>4. (\A i \in 1 .. Len(stack) : Told(stack[i]))'
    BY <2>3 DEF Told, Paired, PairedAt, TurnAt, LedgerTells
  <2>5. (\A i \in 1 .. Len(stack) : MenuFits(stack[i]))'
    BY <2>3 DEF MenuFits, Advertised
  <2> QED BY <2>1, <2>4, <2>5 DEF Transcripts
<1>3. CASE SpawnSubagent
  <2>1. PICK t \in Spawner \cap Top.tools :
          /\ Dispatches(t)
          /\ stack' = Append(SetTop(Counted(Top)), SubagentFrame(t, Top))
    BY <1>3 DEF SpawnSubagent
  <2> DEFINE f == Counted(Top)
             g == SubagentFrame(t, Top)
  <2>2. Running /\ outcome' = outcome
    BY <1>3 DEF SpawnSubagent, Dispatches
  <2>3. /\ f \in Frame /\ f.role = Top.role /\ f.tools = Top.tools
        /\ f.msgs = Top.msgs /\ f.ledger = Top.ledger /\ f.todo = Top.todo
        /\ f.active = Top.active /\ f.menu = Top.menu
    BY TopFits, CountedFrame, CountedFields
  <2>4. Told(g) /\ MenuFits(g)
    BY ToldNew DEF SubagentFrame
  <2> HIDE DEF f, g
  <2>5. Told(f)
    BY <2>2, <2>3, TopFits, ToldSame
  <2>6. MenuFits(f)
    BY <2>3, TopFits, AdvertisedGrows DEF MenuFits
  <2>7. SetTop(f) \in Seq(Frame) /\ Len(SetTop(f)) = Len(stack) /\ SetTop(f)[Len(stack)] = f
    BY <2>3, Depth, SetTopStack
  <2>8. ~IsSubagent /\ Len(stack) = 1 /\ Len(stack) \in Nat
    BY <1>3, SpawnStep, Depth
  <2>9. stack' = Append(SetTop(f), g)
    BY <2>1 DEF f, g
  <2>10. \A i \in 1 .. Len(stack') : stack'[i] = f \/ stack'[i] = g
    <3> DEFINE s == SetTop(f)
               m == Len(stack)
    <3>1. s \in Seq(Frame) /\ Len(s) = m /\ s[m] = f /\ stack' = Append(s, g)
      BY <2>7, <2>9
    <3>2. m \in Nat /\ m = 1
      BY <2>8, Zenon
    <3> HIDE DEF s, m
    <3>3. Len(stack') = m + 1 /\ stack'[m + 1] = g
      BY <3>1
    <3>4. stack'[m] = s[m]
      BY <3>1, <3>2
    <3>5. \A i \in 1 .. m + 1 : i = m \/ i = m + 1
      BY <3>2
    <3> QED BY <3>1, <3>3, <3>4, <3>5, Zenon
  <2>11. \A i \in 1 .. Len(stack') : Told(stack'[i]) /\ MenuFits(stack'[i])
    BY <2>4, <2>5, <2>6, <2>10, Zenon
  <2>12. outcome'.kind # "exhausted"
    BY <2>2 DEF Running
  <2>13. \A i \in 1 .. Len(stack') : MenuFits(stack'[i])
    BY <2>11, Zenon
  <2>14. outcome'.kind # "exhausted" => \A i \in 1 .. Len(stack') : Told(stack'[i])
    BY <2>11, Zenon
  <2>15. outcome'.kind = "exhausted" => Lead'.todo # <<>>
    BY <2>12
  <2> QED BY <2>13, <2>14, <2>15 DEF Transcripts, MenuFits, Advertised, Told, Paired, PairedAt,
            TurnAt, LedgerTells
<1>4. CASE stack' = stack /\ outcome' = outcome
  <2>1. \A i \in 1 .. Len(stack') : MenuFits(stack'[i])
    BY <1>4, Zenon DEF Transcripts
  <2>2. outcome'.kind # "exhausted" => \A i \in 1 .. Len(stack') : Told(stack'[i])
    BY <1>4, Zenon DEF Transcripts
  <2>3. outcome'.kind = "exhausted" => Lead'.todo # <<>>
    BY <1>4, Zenon DEF Transcripts, Lead
  <2> QED BY <2>1, <2>2, <2>3 DEF Transcripts, MenuFits, Advertised, Told, Paired,
            PairedAt, TurnAt, LedgerTells
<1> QED BY <1>1, <1>2, <1>3, <1>4, Moves

(* They fit in every state of every run.                                   *)
LEMMA TranscriptsFit == Spec => []Transcripts
<1>1. Init => Transcripts
  BY TranscriptsInit
<1>2. IInv /\ Transcripts /\ [Next]_vars => Transcripts'
  BY TranscriptsNext
<1> QED BY <1>1, <1>2, Invariance, PTL DEF Spec

(* Whenever a request may be sent, by the lead agent or a subagent, every  *)
(* call in its transcript has its result, in its place: no path of the     *)
(* loop leaves one out, repeats one or lets a request follow the refusal.  *)
THEOREM RequestsAreWellPaired == Spec => []RequestsWellPaired
<1>1. IInv /\ Transcripts => RequestsWellPaired
  <2> SUFFICES ASSUME IInv, Transcripts, NEW i \in 1 .. Len(stack), stack[i].todo = <<>>
               PROVE  WellPaired(stack[i].msgs)
    BY DEF RequestsWellPaired, Frames
  <2> DEFINE f == stack[i]
             L == Len(f.msgs)
  <2>1. f \in Frame /\ f.msgs \in Seq(Message) /\ L \in Nat /\ Len(f.todo) = 0
    <3>1. f \in Frame
      BY Depth
    <3> HIDE DEF f
    <3>2. f.msgs \in Seq(Message)
      BY <3>1 DEF Frame
    <3>3. f.todo = <<>>
      BY DEF f
    <3> QED BY <3>1, <3>2, <3>3
  <2>2. outcome.kind # "exhausted"
    <3> SUFFICES ASSUME outcome.kind = "exhausted" PROVE FALSE
      OBVIOUS
    <3>1. ~IsSubagent
      BY DEF IInv, Nesting, Running
    <3>2. \A j \in 1 .. Len(stack) : j = 1
      BY <3>1, Depth, JustOne, Zenon
    <3>3. f = Lead
      BY <3>2 DEF Lead
    <3> QED BY <3>3 DEF Transcripts
  <2>3. Paired(f)
    BY <2>2 DEF Transcripts, Told
  <2> HIDE DEF f
  <2>4. ASSUME NEW k \in 1 .. L, f.msgs[k].role = "assistant"
        PROVE  LET n == f.msgs[k].calls
               IN  /\ k + n <= Len(f.msgs)
                   /\ \A j \in 1 .. n : f.msgs[k + j].role = "tool" /\ f.msgs[k + j].id = j
                   /\ k + n < Len(f.msgs) => f.msgs[k + n + 1].role = "assistant"
    <3> DEFINE n == f.msgs[k].calls
    <3>1. n \in Nat
      <4>1. f.msgs[k] \in Message
        BY <2>1
      <4> QED BY <2>4, <4>1, AgentAssumption DEF Message
    <3>2. TurnAt(f, L, k, n)
      BY <2>3, <2>4 DEF Paired, PairedAt
    <3>3. k + n > L => k + n = L + Len(f.todo)
      BY <3>2 DEF TurnAt
    <3> HIDE DEF n, L
    <3>4. k + n <= L
      BY <2>1, <3>1, <3>3
    <3>5. \A j \in 1 .. n : k + j <= L
      BY <2>1, <3>1, <3>4
    <3>6. \A j \in 1 .. n : f.msgs[k + j].role = "tool" /\ f.msgs[k + j].id = j
      BY <3>2, <3>5, Zenon DEF TurnAt
    <3>7. k + n < L => f.msgs[k + n + 1].role = "assistant"
      BY <3>2, Zenon DEF TurnAt
    <3> QED BY <3>4, <3>6, <3>7, Zenon DEF n, L
  <2> QED BY <2>4, Zenon DEF WellPaired, f
<1> QED BY <1>1, Invariance, TranscriptsFit, PTL

(* The ledger and the transcript of every run agree on which of its calls  *)
(* went wrong, whatever became of the calls.                               *)
THEOREM LedgerIsTrue == Spec => []LedgerMatchesResults
<1>1. Transcripts => LedgerMatchesResults
  BY DEF Transcripts, Told, LedgerMatchesResults, Frames
<1> QED BY <1>1, TranscriptsFit, PTL

(* Nothing a subagent does reaches its parent but one result.              *)
THEOREM ParentIsIsolated == Spec => ParentIsolated
<1> DEFINE Isolated == IsSubagent => /\ Lead'.active = Lead.active
                                     /\ Lead'.calls = Lead.calls
                                     /\ Lead' # Lead =>
                                          /\ Len(stack') = 1
                                          /\ Len(Lead'.msgs) = Len(Lead.msgs) + 1
                                          /\ Lead'.msgs[Len(Lead'.msgs)].role = "tool"
<1>1. IInv /\ Transcripts /\ [Next]_vars => Isolated
  <2> SUFFICES ASSUME IInv, Transcripts, [Next]_vars, IsSubagent
               PROVE  /\ Lead'.active = Lead.active
                      /\ Lead'.calls = Lead.calls
                      /\ Lead' # Lead =>
                           /\ Len(stack') = 1
                           /\ Len(Lead'.msgs) = Len(Lead.msgs) + 1
                           /\ Lead'.msgs[Len(Lead'.msgs)].role = "tool"
    OBVIOUS
  <2>1. CASE \E g : TopMoves(g)
    BY <2>1, LeadFrame DEF TopMoves
  <2>2. CASE \E ok \in BOOLEAN : outcome' = outcome /\ stack' = Returned(ok)
    <3>1. PICK ok \in BOOLEAN : outcome' = outcome /\ stack' = Returned(ok)
      BY <2>2
    <3>2. /\ Len(stack') = 1 /\ Lead' = Answered(Lead, ok)
          /\ Lead \in Frame /\ Lead.todo # <<>>
      BY <3>1, ReturnFits
    <3> DEFINE m == ToolMessage(Head(Lead.todo).id, ok)
    <3>3. /\ Lead'.calls = Lead.calls /\ Lead'.active = Lead.active
          /\ Lead'.msgs = Append(Lead.msgs, m)
      BY <3>2, AnsweredFrame, AnsweredFields
    <3>4. m.role = "tool"
      BY DEF ToolMessage
    <3> HIDE DEF m
    <3>5. Lead.msgs \in Seq(Message)
      BY <3>2 DEF Frame
    <3>6. /\ Len(Lead'.msgs) = Len(Lead.msgs) + 1
          /\ Lead'.msgs[Len(Lead'.msgs)] = m
      BY <3>3, <3>5
    <3> QED BY <3>2, <3>3, <3>4, <3>6
  <2>3. CASE SpawnSubagent
    BY <2>3, SpawnStep
  <2>4. CASE stack' = stack
    BY <2>4 DEF Lead
  <2> QED BY <2>1, <2>2, <2>3, <2>4, Moves
<1>2. IInv /\ Transcripts /\ [Next]_vars => [Isolated]_vars
  BY <1>1
<1>3. Spec => [][Isolated]_vars
  BY <1>2, Invariance, TranscriptsFit, PTL DEF Spec
<1> QED BY <1>3 DEF ParentIsolated

(* What a request of the lead agent advertises, all later ones do.         *)
THEOREM MenuOnlyGrows == Spec => MenuGrows
<1>1. IInv /\ Transcripts /\ [Next]_vars => Lead.menu \subseteq Lead'.menu
  <2> SUFFICES ASSUME IInv, Transcripts, [Next]_vars PROVE Lead.menu \subseteq Lead'.menu
    OBVIOUS
  <2>1. ASSUME NEW g, TopMoves(g) PROVE Lead.menu \subseteq Lead'.menu
    BY <2>1, LeadFrame DEF TopMoves
  <2>2. ASSUME IsSubagent, outcome' = outcome, NEW ok \in BOOLEAN, stack' = Returned(ok)
        PROVE  Lead.menu \subseteq Lead'.menu
    <3>1. Lead' = Answered(Lead, ok) /\ Lead \in Frame
      BY <2>2, ReturnFits
    <3> QED BY <3>1, AnsweredFields
  <2>3. CASE SpawnSubagent
    <3>1. ~IsSubagent /\ Len(stack) = 1 /\ Lead = Top
      BY <2>3, SpawnStep, Depth, Zenon DEF Lead, Top
    <3>2. PICK t : stack' = Append(SetTop(Counted(Top)), SubagentFrame(t, Top))
      BY <2>3 DEF SpawnSubagent
    <3>3. Counted(Top) \in Frame /\ Counted(Top).menu = Top.menu
      BY TopFits, CountedFrame, CountedFields
    <3>4. /\ SetTop(Counted(Top)) \in Seq(Frame)
          /\ Len(SetTop(Counted(Top))) = Len(stack)
          /\ SetTop(Counted(Top))[Len(stack)] = Counted(Top)
      BY <3>3, Depth, SetTopStack
    <3> DEFINE s == SetTop(Counted(Top))
               x == SubagentFrame(t, Top)
    <3>5. s \in Seq(Frame) /\ Len(s) = Len(stack) /\ s[Len(stack)] = Counted(Top)
          /\ stack' = Append(s, x)
      BY <3>2, <3>4
    <3> HIDE DEF s, x
    <3>6. 1 \in 1 .. Len(s) /\ s[1] = Counted(Top)
      <4>1. Len(s) \in Nat /\ Len(s) >= 1
        BY <3>5, Depth
      <4>2. s[1] = Counted(Top)
        BY <3>1, <3>5, Zenon
      <4> QED BY <4>1, <4>2
    <3>7. stack'[1] = s[1]
      BY <3>5, <3>6
    <3> QED BY <3>1, <3>3, <3>6, <3>7 DEF Lead
  <2>4. CASE stack' = stack
    BY <2>4 DEF Lead
  <2> QED BY <2>1, <2>2, <2>3, <2>4, Moves
<1>2. IInv /\ Transcripts /\ [Next]_vars => [Lead.menu \subseteq Lead'.menu]_vars
  BY <1>1
<1> QED BY <1>2, Invariance, TranscriptsFit, PTL DEF Spec, MenuGrows

-----------------------------------------------------------------------------
(***************************************************************************)
(* A session is finite, however the model behaves.  That it ends needs a   *)
(* fair scheduler; that it cannot go on for ever does not: the steps it    *)
(* has left are bounded by a number that every step makes smaller.  A turn *)
(* that a run may still ask for is worth its calls and one step more; a    *)
(* call of the lead agent is worth all that a subagent may do for it,      *)
(* which is what remains of the share while the subagent works it off.     *)
(***************************************************************************)
Left(f, share) ==
    (f.max + 1 - f.turns) * (MaxTurnCalls * share + 1) + Len(f.todo) * share

Share == (LargestSubBudget + 1) * (MaxTurnCalls + 1) + 2

StepsLeft ==
    (IF Running THEN 1 ELSE 0) + Left(Lead, Share)
      + (IF IsSubagent THEN Left(Top, 1) + 1 - Share ELSE 0)

(* The numbers of a frame.                                                 *)
LEMMA FrameNumbers ==
    ASSUME NEW f \in Frame
    PROVE  f.turns \in Nat /\ f.max \in Nat /\ f.todo \in Seq(Call) /\ Len(f.todo) \in Nat
BY DEF Frame

(* A number times the worth of a turn is a number.                         *)
LEMMA Worth ==
    ASSUME NEW share \in Nat
    PROVE  MaxTurnCalls * share \in Nat /\ MaxTurnCalls * share + 1 \in Nat
BY AgentAssumption

(* A call of the lead agent is worth two steps at least.                   *)
LEMMA ShareType == Share \in Nat /\ Share >= 2 /\ LargestSubBudget \in Nat
<1>1. LargestSubBudget + 1 \in Nat /\ MaxTurnCalls + 1 \in Nat
  BY AgentAssumption DEF LargestSubBudget
<1>2. (LargestSubBudget + 1) * (MaxTurnCalls + 1) \in Nat
  BY <1>1
<1> QED BY <1>2, AgentAssumption DEF Share, LargestSubBudget

(* What a frame has left is a number, and pending calls are part of it.    *)
LEMMA LeftType ==
    ASSUME NEW f \in Frame, NEW share \in Nat
    PROVE  /\ Left(f, share) \in Int
           /\ f.turns <= f.max + 1 =>
                /\ Left(f, share) \in Nat
                /\ f.todo # <<>> => Left(f, share) >= share
<1> DEFINE a == f.max + 1 - f.turns
           w == MaxTurnCalls * share + 1
           n == Len(f.todo)
<1>1. a \in Int /\ w \in Nat /\ n \in Nat
  <2>1. w \in Nat
    BY Worth, Zenon
  <2>2. a \in Int /\ n \in Nat
    BY FrameNumbers
  <2> QED BY <2>1, <2>2
<1>2. f.turns <= f.max + 1 => a \in Nat
  BY DEF Frame
<1>3. f.todo # <<>> => n >= 1
  BY DEF Frame
<1>4. Left(f, share) = a * w + n * share
  BY DEF Left
<1> HIDE DEF a, w, n
<1>5. a * w \in Int /\ n * share \in Nat
  BY <1>1
<1>6. a \in Nat => a * w \in Nat
  BY <1>1
<1>7. n >= 1 => n * share >= share
  BY <1>1
<1> QED BY <1>2, <1>3, <1>4, <1>5, <1>6, <1>7

(* A turn costs more than the calls it asks for are worth.                 *)
LEMMA LeftTurn ==
    ASSUME NEW f \in Frame, NEW g \in Frame, NEW share \in Nat,
           g.max = f.max, g.turns = f.turns + 1,
           f.todo = <<>>, Len(g.todo) <= MaxTurnCalls
    PROVE  Left(g, share) < Left(f, share)
<1> DEFINE a == f.max + 1 - f.turns
           v == MaxTurnCalls * share
           n == Len(g.todo)
<1>1. a \in Int /\ v \in Nat /\ n \in Nat /\ Len(f.todo) = 0
  <2>1. v \in Nat
    BY Worth, Zenon
  <2>2. a \in Int /\ n \in Nat
    BY FrameNumbers
  <2> QED BY <2>1, <2>2
<1>2. g.max + 1 - g.turns = a - 1
  BY DEF Frame
<1>3. n * share <= v
  BY <1>1, AgentAssumption
<1>4. Left(f, share) = a * (v + 1) + 0 * share
  BY <1>1 DEF Left
<1>5. Left(g, share) = (a - 1) * (v + 1) + n * share
  BY <1>2 DEF Left
<1> HIDE DEF a, v, n
<1>6. (a - 1) * (v + 1) = a * (v + 1) - (v + 1)
  BY <1>1
<1>7. a * (v + 1) \in Int /\ n * share \in Nat /\ 0 * share = 0
  BY <1>1
<1> QED BY <1>1, <1>3, <1>4, <1>5, <1>6, <1>7

(* A call that is answered is worth its share.                             *)
LEMMA LeftCall ==
    ASSUME NEW f \in Frame, NEW g \in Frame, NEW share \in Nat,
           g.max = f.max, g.turns = f.turns,
           f.todo # <<>>, g.todo = Tail(f.todo)
    PROVE  Left(g, share) = Left(f, share) - share
<1> DEFINE a == f.max + 1 - f.turns
           w == MaxTurnCalls * share + 1
           n == Len(f.todo)
<1>1. a \in Int /\ w \in Nat /\ n \in Nat
  <2>1. w \in Nat
    BY Worth, Zenon
  <2>2. a \in Int /\ n \in Nat
    BY FrameNumbers
  <2> QED BY <2>1, <2>2
<1>2. Len(g.todo) = n - 1
  BY DEF Frame
<1>3. Left(f, share) = a * w + n * share /\ Left(g, share) = a * w + (n - 1) * share
  BY <1>2 DEF Left
<1> HIDE DEF a, w, n
<1>4. (n - 1) * share = n * share - share
  BY <1>1
<1>5. a * w \in Int /\ n * share \in Int
  BY <1>1
<1> QED BY <1>3, <1>4, <1>5

(* What the run that is on has left is a number, and so is what the lead   *)
(* agent has left of which the subagent's call is a part.                  *)
LEMMA LeftTurns ==
    ASSUME IInv
    PROVE  /\ Top.turns <= Top.max + 1 /\ Lead.turns <= Lead.max + 1
           /\ Left(Lead, Share) \in Nat /\ Left(Top, 1) \in Nat
           /\ IsSubagent => Left(Lead, Share) >= Share
<1>1. 1 \in 1 .. Len(stack) /\ Len(stack) \in 1 .. Len(stack)
  BY Depth
<1>2. Top \in Frame /\ Lead \in Frame
  BY Depth
<1>3. Top.turns <= Top.calls + 1 /\ Top.calls <= Top.max
  BY <1>1 DEF IInv, Budgets, Turns, Top
<1>4. Lead.turns <= Lead.calls + 1 /\ Lead.calls <= Lead.max
  BY <1>1 DEF IInv, Budgets, Turns, Lead
<1>5. Top.turns <= Top.max + 1 /\ Lead.turns <= Lead.max + 1
  BY <1>2, <1>3, <1>4 DEF Frame
<1>6. IsSubagent => Lead.todo # <<>>
  BY DEF IInv, Nesting
<1>7. Left(Top, 1) \in Nat
  BY <1>2, <1>5, LeftType
<1>8. Left(Lead, Share) \in Nat /\ (Lead.todo # <<>> => Left(Lead, Share) >= Share)
  BY <1>2, <1>5, LeftType, ShareType
<1> QED BY <1>5, <1>6, <1>7, <1>8

(* The steps left are a number.                                            *)
LEMMA StepsLeftType ==
    ASSUME IInv
    PROVE  StepsLeft \in Nat
<1> DEFINE l == Left(Lead, Share)
           t == Left(Top, 1)
<1>1. l \in Nat /\ t \in Nat /\ (IsSubagent => l >= Share) /\ Share \in Nat
  BY LeftTurns, ShareType
<1>2. StepsLeft = (IF Running THEN 1 ELSE 0) + l + (IF IsSubagent THEN t + 1 - Share ELSE 0)
  BY DEF StepsLeft
<1> HIDE DEF l, t
<1> QED BY <1>1, <1>2

(* A step of the run that is on leaves less.                               *)
LEMMA TopShrinks ==
    ASSUME IInv, Running, NEW g \in Frame, stack' = SetTop(g),
           \A share \in Nat \ {0} :
              \/ Left(g, share) < Left(Top, share) /\ (~IsSubagent \/ outcome' = outcome)
              \/ Left(g, share) = Left(Top, share) /\ ~Running' /\ ~IsSubagent
    PROVE  StepsLeft' < StepsLeft
<1>1. Share \in Nat \ {0} /\ Share' = Share
  BY ShareType DEF Share, LargestSubBudget
<1>2. Left(Lead, Share) \in Nat /\ Left(Top, 1) \in Nat
  BY LeftTurns
<1>3. Left(g, 1) \in Int /\ Left(g, Share) \in Int
  BY <1>1, LeftType
<1>4. Len(stack') = Len(stack) /\ stack'[Len(stack)] = g
  BY Depth, SetTopStack
<1>5. Top' = g /\ (IsSubagent' <=> IsSubagent)
  BY <1>4 DEF Top, IsSubagent
<1>6. CASE IsSubagent
  <2>1. Lead' = Lead /\ Running'
    BY <1>6, <1>1, LeadFrame DEF Running
  <2>2. Left(g, 1) < Left(Top, 1)
    BY <1>6
  <2>3. StepsLeft = 1 + Left(Lead, Share) + (Left(Top, 1) + 1 - Share)
    BY <1>6 DEF StepsLeft
  <2>4. StepsLeft' = 1 + Left(Lead, Share) + (Left(g, 1) + 1 - Share)
    BY <1>1, <1>5, <1>6, <2>1 DEF StepsLeft, Left
  <2> QED BY <1>1, <1>2, <1>3, <2>2, <2>3, <2>4
<1>7. CASE ~IsSubagent
  <2>1. Lead' = g /\ Lead = Top
    BY <1>7, LeadFrame
  <2>2. StepsLeft = 1 + Left(Lead, Share) + 0
    BY <1>7 DEF StepsLeft
  <2>3. StepsLeft' = (IF Running' THEN 1 ELSE 0) + Left(g, Share) + 0
    BY <1>1, <1>5, <1>7, <2>1 DEF StepsLeft, Left
  <2>4. \/ Left(g, Share) < Left(Lead, Share)
        \/ Left(g, Share) = Left(Lead, Share) /\ ~Running'
    BY <1>1, <2>1
  <2> QED BY <1>2, <1>3, <2>2, <2>3, <2>4
<1> QED BY <1>6, <1>7

(* A subagent that is over gives back less than its call was worth.        *)
LEMMA ReturnShrinks ==
    ASSUME IInv, IsSubagent, NEW ok \in BOOLEAN, stack' = Returned(ok),
           outcome' = outcome
    PROVE  StepsLeft' < StepsLeft
<1> DEFINE g == Answered(Lead, ok)
<1>1. Len(stack) - 1 = 1 /\ stack[Len(stack) - 1] = Lead
  BY Depth, Zenon DEF Lead
<1>2. Lead \in Frame /\ Lead.todo # <<>> /\ Running
  BY Depth DEF IInv, Nesting
<1>3. /\ stack' \in Seq(Frame) /\ Len(stack') = Len(stack) - 1
      /\ stack'[Len(stack) - 1] = g
  BY <1>1, <1>2, Depth, ReturnedStack DEF IsSubagent
<1>4. g \in Frame /\ g.max = Lead.max /\ g.turns = Lead.turns /\ g.todo = Tail(Lead.todo)
  BY <1>2, AnsweredFrame, AnsweredFields
<1> HIDE DEF g
<1>5. Lead' = g
  BY <1>1, <1>3 DEF Lead
<1>6. ~IsSubagent'
  <2>1. Len(stack') \in Nat
    BY <1>3
  <2>2. Len(stack') = 1
    BY <1>1, <1>3, Zenon
  <2> QED BY <2>1, <2>2, JustOne, Zenon DEF IsSubagent
<1>7. Share \in Nat /\ Share' = Share
  BY ShareType DEF Share, LargestSubBudget
<1>8. Left(g, Share) = Left(Lead, Share) - Share
  BY <1>2, <1>4, <1>7, LeftCall
<1>9. StepsLeft = 1 + Left(Lead, Share) + (Left(Top, 1) + 1 - Share)
  BY <1>2 DEF StepsLeft
<1>10. StepsLeft' = 1 + Left(g, Share) + 0
  BY <1>2, <1>5, <1>6, <1>7 DEF StepsLeft, Left, Running
<1>11. Left(Lead, Share) \in Nat /\ Left(Top, 1) \in Nat
  BY LeftTurns
<1> QED BY <1>7, <1>8, <1>9, <1>10, <1>11

(* A subagent that starts may do less than its call is worth.              *)
LEMMA SpawnShrinks ==
    ASSUME IInv, SpawnSubagent
    PROVE  StepsLeft' < StepsLeft
<1>1. PICK t \in Spawner \cap Top.tools :
        stack' = Append(SetTop(Counted(Top)), SubagentFrame(t, Top))
  BY DEF SpawnSubagent
<1> DEFINE f == Counted(Top)
           g == SubagentFrame(t, Top)
           b == SubBudget(t)
<1>2. ~IsSubagent /\ IInv'
  BY SpawnStep
<1>3. Lead = Top /\ Lead \in Frame /\ Running /\ Running'
  BY <1>2, Depth, Zenon DEF Lead, Top, SpawnSubagent, Dispatches, Running
<1>4. f \in Frame /\ f.max = Lead.max /\ f.turns = Lead.turns /\ f.todo = Lead.todo
  BY <1>3, CountedFrame
<1>5. b \in Nat /\ b <= LargestSubBudget
  BY AgentAssumption DEF SubBudget, LargestSubBudget
<1>6. g.max = b /\ g.turns = 0 /\ g.todo = <<>>
  BY DEF SubagentFrame, NewFrame
<1>7. SetTop(f) \in Seq(Frame) /\ Len(SetTop(f)) = Len(stack) /\ SetTop(f)[Len(stack)] = f
  BY <1>4, Depth, SetTopStack
<1> HIDE DEF f, g, b
<1>8. Lead' = f /\ Top' = g /\ IsSubagent'
  <2>1. Len(stack) = 1 /\ SetTop(f)[1] = f
    BY <1>2, <1>7, Depth, Zenon
  <2>2. /\ Len(stack') = Len(stack) + 1 /\ stack'[Len(stack) + 1] = g
        /\ \A i \in 1 .. Len(stack) : stack'[i] = SetTop(f)[i]
    BY <1>1, <1>7 DEF f, g
  <2>3. Lead' = f
    BY <2>1, <2>2, Depth DEF Lead
  <2>4. Top' = g
    BY <2>2 DEF Top
  <2>5. IsSubagent'
    BY <2>2, Depth DEF IsSubagent
  <2> QED BY <2>3, <2>4, <2>5
<1>9. Share \in Nat /\ Share' = Share /\ LargestSubBudget \in Nat
  BY ShareType DEF Share, LargestSubBudget
<1>10. Left(g, 1) <= Share - 2
  <2>1. Left(g, 1) = (b + 1) * (MaxTurnCalls + 1)
    <3>1. Left(g, 1) = (b + 1 - 0) * (MaxTurnCalls * 1 + 1) + Len(<<>>) * 1
      BY <1>6 DEF Left
    <3>2. Len(<<>>) * 1 = 0 /\ MaxTurnCalls * 1 = MaxTurnCalls /\ b + 1 - 0 = b + 1
      BY <1>5, AgentAssumption
    <3>3. (b + 1) * (MaxTurnCalls + 1) \in Nat
      BY <1>5, AgentAssumption
    <3> QED BY <3>1, <3>2, <3>3
  <2>2. (b + 1) * (MaxTurnCalls + 1) <= (LargestSubBudget + 1) * (MaxTurnCalls + 1)
    BY <1>5, <1>9, AgentAssumption
  <2>3. (LargestSubBudget + 1) * (MaxTurnCalls + 1) \in Nat
    BY <1>9, AgentAssumption
  <2>4. (b + 1) * (MaxTurnCalls + 1) \in Nat
    BY <1>5, AgentAssumption
  <2> QED BY <2>1, <2>2, <2>3, <2>4 DEF Share
<1>11. Left(f, Share) = Left(Lead, Share)
  BY <1>4 DEF Left
<1>12. StepsLeft = 1 + Left(Lead, Share) + 0
  BY <1>2, <1>3 DEF StepsLeft
<1>13. StepsLeft' = 1 + Left(f, Share) + (Left(g, 1) + 1 - Share)
  BY <1>3, <1>8, <1>9 DEF StepsLeft, Left
<1>14. Left(Lead, Share) \in Nat /\ Left(g, 1) \in Int
  <2>1. g \in Frame
    <3>1. stack' \in Seq(Frame) /\ stack' # <<>>
      BY <1>2 DEF IInv, TypeOK
    <3> QED BY <1>8, <3>1 DEF Top
  <2> QED BY <2>1, LeftTurns, LeftType
<1> QED BY <1>9, <1>10, <1>11, <1>12, <1>13, <1>14

(* Every step of a session that is running leaves fewer.                   *)
LEMMA StepShrinks ==
    ASSUME IInv, Next, Running
    PROVE  StepsLeft' < StepsLeft
<1>1. Top \in Frame
  BY Depth
<1>2. ASSUME NEW g \in Frame, stack' = SetTop(g), g.max = Top.max,
             g.turns = Top.turns + 1, Top.todo = <<>>, Len(g.todo) <= MaxTurnCalls,
             ~IsSubagent \/ outcome' = outcome
      PROVE  StepsLeft' < StepsLeft
  <2>1. \A share \in Nat \ {0} : Left(g, share) < Left(Top, share)
    BY <1>1, <1>2, LeftTurn
  <2> QED BY <1>2, <2>1, TopShrinks
<1>3. ASSUME NEW g \in Frame, stack' = SetTop(g), g.max = Top.max,
             g.turns = Top.turns, Top.todo # <<>>, g.todo = Tail(Top.todo),
             outcome' = outcome
      PROVE  StepsLeft' < StepsLeft
  <2>1. \A share \in Nat \ {0} : Left(g, share) < Left(Top, share)
    <3> SUFFICES ASSUME NEW share \in Nat \ {0}
                 PROVE  Left(g, share) < Left(Top, share)
      OBVIOUS
    <3>1. Left(g, share) = Left(Top, share) - share
      BY <1>1, <1>3, LeftCall
    <3>2. Left(Top, share) \in Int
      BY <1>1, LeftType
    <3> QED BY <3>1, <3>2
  <2> QED BY <1>3, <2>1, TopShrinks
<1>4. Len(<<>>) <= MaxTurnCalls
  BY AgentAssumption
<1>5. CASE ModelCallsTools
  <2>1. PICK names \in TurnCalls : stack' = SetTop(Asked(Top, names))
    BY <1>5 DEF ModelCallsTools
  <2> DEFINE g == Asked(Top, names)
  <2>2. Top.todo = <<>> /\ outcome' = outcome
    BY <1>5 DEF ModelCallsTools, AwaitsModel
  <2>3. g \in Frame /\ g.max = Top.max /\ g.turns = Top.turns + 1
    BY <1>1, AskedFrame
  <2>4. Len(g.todo) = Len(names) /\ Len(names) \in 0 .. MaxTurnCalls
    BY <1>1, AskedFields
  <2> HIDE DEF g
  <2>5. Len(g.todo) <= MaxTurnCalls
    BY <2>4, AgentAssumption
  <2> QED BY <1>2, <2>1, <2>2, <2>3, <2>5 DEF g
<1>6. CASE LeadAnswers
  <2> DEFINE g == Replied(Top, 0)
  <2>1. Top.todo = <<>> /\ ~IsSubagent /\ stack' = SetTop(g)
    BY <1>6 DEF LeadAnswers, AwaitsModel
  <2>2. g \in Frame /\ g.max = Top.max /\ g.turns = Top.turns + 1 /\ g.todo = Top.todo
    BY <1>1, AgentAssumption, RepliedFrame
  <2> HIDE DEF g
  <2> QED BY <1>2, <1>4, <2>1, <2>2
<1>7. CASE SubagentAnswers
  <2>1. IsSubagent /\ outcome' = outcome /\ \E ok \in BOOLEAN : stack' = Returned(ok)
    BY <1>7 DEF SubagentAnswers
  <2> QED BY <2>1, ReturnShrinks
<1>8. CASE ModelFails
  <2>1. CASE IsSubagent
    <3>1. outcome' = outcome /\ stack' = Returned(FALSE)
      BY <1>8, <2>1 DEF ModelFails
    <3> QED BY <2>1, <3>1, ReturnShrinks
  <2>2. CASE ~IsSubagent
    <3> DEFINE g == Unanswered(Top)
    <3>1. Top.todo = <<>> /\ stack' = SetTop(g)
      BY <1>8, <2>2 DEF ModelFails, AwaitsModel
    <3>2. g \in Frame /\ g.max = Top.max /\ g.turns = Top.turns + 1 /\ g.todo = Top.todo
      BY <1>1, UnansweredFrame, UnansweredFields
    <3> HIDE DEF g
    <3> QED BY <1>2, <1>4, <2>2, <3>1, <3>2
  <2> QED BY <2>1, <2>2
<1>9. CASE LeadOverBudget
  <2> DEFINE g == Refused(Top)
  <2>1. Top.todo # <<>> /\ ~IsSubagent /\ stack' = SetTop(g) /\ ~Running'
    BY <1>9 DEF LeadOverBudget, OverBudget, Ended, Running
  <2>2. g \in Frame /\ g.max = Top.max /\ g.turns = Top.turns /\ g.todo = Top.todo
    BY <1>1, <2>1, RefusedFrame, RefusedFields
  <2> HIDE DEF g
  <2>3. \A share \in Nat \ {0} : Left(g, share) = Left(Top, share)
    BY <2>2 DEF Left
  <2> QED BY <2>1, <2>2, <2>3, TopShrinks
<1>10. CASE SubagentOverBudget
  <2>1. IsSubagent /\ outcome' = outcome /\ stack' = Returned(FALSE)
    BY <1>10 DEF SubagentOverBudget
  <2> QED BY <2>1, ReturnShrinks
<1>11. ASSUME NEW ok \in BOOLEAN, Top.todo # <<>>
       PROVE  LET g == Answered(Counted(Top), ok)
              IN  /\ g \in Frame /\ g.max = Top.max /\ g.turns = Top.turns
                  /\ g.todo = Tail(Top.todo)
  <2> DEFINE c == Counted(Top)
  <2>1. c \in Frame /\ c.todo = Top.todo
    BY <1>1, CountedFrame
  <2>2. Answered(c, ok).todo = Tail(c.todo)
    BY <2>1, AnsweredFields
  <2> QED BY <1>1, <1>11, <2>1, <2>2, CalledFrame
<1>12. CASE UnknownTool \/ ToolFails \/ RunTool
  <2>1. PICK ok \in BOOLEAN :
          /\ Top.todo # <<>> /\ outcome' = outcome
          /\ stack' = SetTop(Answered(Counted(Top), ok))
    BY <1>12 DEF UnknownTool, ToolFails, RunTool, Dispatches
  <2> DEFINE g == Answered(Counted(Top), ok)
  <2>2. g \in Frame /\ g.max = Top.max /\ g.turns = Top.turns /\ g.todo = Tail(Top.todo)
    BY <1>11, <2>1
  <2> HIDE DEF g
  <2> QED BY <1>3, <2>1, <2>2 DEF g
<1>13. CASE LoadTools
  <2>1. PICK ok \in BOOLEAN, names \in SUBSET DomainSpecs(Top.tools) :
          /\ Top.todo # <<>> /\ outcome' = outcome
          /\ stack' = SetTop(Activated(Answered(Counted(Top), ok), names))
    BY <1>13 DEF LoadTools, Dispatches
  <2> DEFINE h == Answered(Counted(Top), ok)
             g == Activated(h, names)
  <2>2. h \in Frame /\ h.todo = Tail(Top.todo)
    BY <1>11, <2>1
  <2>3. g \in Frame /\ g.max = Top.max /\ g.turns = Top.turns
    BY <1>1, <2>1, LoadedFrame
  <2>4. g.todo = h.todo
    <3> HIDE DEF h
    <3> QED BY <2>2 DEF Activated, Frame
  <2> HIDE DEF g, h
  <2> QED BY <1>3, <2>1, <2>2, <2>3, <2>4 DEF g, h
<1>14. CASE SpawnSubagent
  BY <1>14, SpawnShrinks
<1>15. CASE Done
  BY <1>15 DEF Done
<1> QED BY <1>5, <1>6, <1>7, <1>8, <1>9, <1>10, <1>12, <1>13, <1>14, <1>15 DEF Next

(* What a session has before it when it starts.                            *)
LEMMA StepsAtFirst ==
    ASSUME Init
    PROVE  StepsLeft = 1 + (MaxToolCalls + 1) * (MaxTurnCalls * Share + 1)
<1> DEFINE f == NewFrame("lead", Tool, MaxToolCalls)
<1>1. stack = <<f>> /\ Running
  BY DEF Init, Ended, Running
<1>2. f.max = MaxToolCalls /\ f.turns = 0 /\ f.todo = <<>>
  BY DEF NewFrame
<1> HIDE DEF f
<1>3. Lead = f /\ ~IsSubagent
  BY <1>1 DEF Lead, IsSubagent
<1> DEFINE w == MaxTurnCalls * Share + 1
<1>4. Left(f, Share) = (MaxToolCalls + 1 - 0) * w + Len(<<>>) * Share
  BY <1>2 DEF Left
<1>5. w \in Nat /\ Share \in Nat
  BY ShareType, Worth
<1> HIDE DEF w
<1>6. (MaxToolCalls + 1 - 0) * w = (MaxToolCalls + 1) * w /\ (MaxToolCalls + 1) * w \in Nat
  BY <1>5, AgentAssumption
<1>7. Len(<<>>) * Share = 0
  BY <1>5
<1>8. Left(f, Share) = (MaxToolCalls + 1) * w
  BY <1>4, <1>6, <1>7
<1>9. StepsLeft = 1 + Left(f, Share) + 0
  BY <1>1, <1>3 DEF StepsLeft
<1> QED BY <1>6, <1>8, <1>9 DEF w

(* No session goes on for ever, whatever the model asks for: the steps     *)
(* left are a number throughout, the budgets set the first one, and every  *)
(* step of a running session makes it smaller.                             *)
THEOREM SessionIsFinite ==
    Spec => /\ StepsLeft = 1 + (MaxToolCalls + 1) * (MaxTurnCalls * Share + 1)
            /\ [](StepsLeft \in Nat)
            /\ [][Running /\ StepsLeft' < StepsLeft]_vars
<1>1. IInv => StepsLeft \in Nat
  BY StepsLeftType
<1>2. IInv /\ [Next]_vars => [Running /\ StepsLeft' < StepsLeft]_vars
  <2>1. ASSUME IInv, Next, ~Running PROVE UNCHANGED vars
    BY <2>1 DEF Next, ModelCallsTools, LeadAnswers, SubagentAnswers, ModelFails,
         LeadOverBudget, SubagentOverBudget, UnknownTool, ToolFails, RunTool,
         LoadTools, SpawnSubagent, Done, OverBudget, AwaitsModel, Dispatches
  <2> QED BY <2>1, StepShrinks
<1> QED BY <1>1, <1>2, StepsAtFirst, Invariance, PTL DEF Spec

=============================================================================
