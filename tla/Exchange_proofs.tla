-------------------------- MODULE Exchange_proofs --------------------------
(***************************************************************************)
(* Proofs about ToolSchema and Exchange, for every set of tools, every     *)
(* handler, any names and arguments a model makes up, and any number of    *)
(* responses and of calls in them.                                         *)
(***************************************************************************)
EXTENDS Exchange, FiniteSetTheorems, SequenceTheorems, TLAPS

(* What a service may call a tool, and what the loop calls it then.        *)
RawName == {WireName(t) : t \in Tool} \cup Invented
Name == {OwnName(n) : n \in RawName}

Id == {<<>>} \cup (Nat \X Nat)
ArgSet == Arguments \cup {{}}

RawCall == [id : Id, name : RawName, args : ArgSet, readable : BOOLEAN]
OwnCall == [id : Id, name : Name, args : ArgSet]

Asking == [role : {"assistant"}, calls : Seq(OwnCall)]
Result == [role : {"tool"}, id : Id, name : Name, outcome : Outcome, of : Nat \X Nat]
Message == Asking \cup Result

Span == [kind : {"llm", "tool"}, status : {"open", "ok", "failed"}]

(* Every variable has its type, the elements of the sequences included,    *)
(* and there is room for a response that is waited for.                    *)
Typed ==
    /\ provider \in Provider
    /\ said \in Seq(Seq(RawCall)) /\ Len(said) <= MaxTurns
    /\ phase = "waiting" => Len(said) < MaxTurns
    /\ messages \in Seq(Message)
    /\ todo \in Seq(OwnCall)
    /\ spans \in Seq(Span)
    /\ phase \in {"loop", "waiting", "tools", "answered", "raised"}

(* The calls of a response are told apart by their ids, unless there are   *)
(* none.                                                                   *)
Numbered ==
    \A t \in 1 .. Len(said) :
        /\ Len(said[t]) <= MaxCalls
        /\ \A k \in 1 .. Len(said[t]) :
             said[t][k].id = IF provider = "gemini" THEN <<>> ELSE <<t, k>>

(* How many calls of a response have been worked off.                      *)
Done(t) == IF t < Len(said) THEN Len(said[t]) ELSE Len(said[t]) - Len(todo)

(* What is left to do is the end of the last response.                     *)
Queue ==
    /\ phase = "tools" <=> todo # <<>>
    /\ todo # <<>> =>
         /\ Len(said) >= 1 /\ Len(todo) <= Len(said[Len(said)])
         /\ \A m \in 1 .. Len(todo) :
              todo[m] = Call(Len(said), Len(said[Len(said)]) - Len(todo) + m)

(* Each assistant's message is a response, in the order of the responses.  *)
Asked ==
    /\ Turn(Len(messages)) = Len(said)
    /\ \A i \in 1 .. Len(messages) :
         ~IsResult(i) => /\ Turn(i) \in 1 .. Len(said)
                         /\ messages[i].calls = Parsed(said[Turn(i)])

(* What became of a call fits the call.                                    *)
Fits(outcome, call) ==
    /\ outcome = "unknown" <=> call.name \notin Tool
    /\ outcome = "rejected" => Rejects(call.name, call.args)
    /\ outcome \in {"ok", "failed"} => ~Rejects(call.name, call.args)

(* Each result is that of the call it says it is of, and stands among the  *)
(* results of the same response at the call's place.                       *)
Answered ==
    \A i \in 1 .. Len(messages) :
        IsResult(i) =>
            LET t == messages[i].of[1]
                k == messages[i].of[2]
            IN  /\ t \in 1 .. Len(said) /\ k \in 1 .. Done(t)
                /\ Turn(i) = t /\ Place(i) = k
                /\ messages[i].id = Call(t, k).id
                /\ messages[i].name = Call(t, k).name
                /\ Fits(messages[i].outcome, Call(t, k))

(* The calls that have been worked off have a result each, and only one.   *)
OneEach ==
    /\ \A t \in 1 .. Len(said) : \A k \in 1 .. Done(t) :
         \E i \in 1 .. Len(messages) : IsResult(i) /\ messages[i].of = <<t, k>>
    /\ \A i, j \in 1 .. Len(messages) :
         IsResult(i) /\ IsResult(j) /\ messages[i].of = messages[j].of => i = j

(* The results of the last response so far.                                *)
Latest == {j \in 1 .. Len(messages) : IsResult(j) /\ Turn(j) = Len(said)}

Counted == Len(said) >= 1 => Cardinality(Latest) = Done(Len(said))

IInv ==
    /\ Typed
    /\ Numbered
    /\ Queue
    /\ Asked
    /\ Answered
    /\ OneEach
    /\ Counted

-----------------------------------------------------------------------------

(* What is advertised, what is checked, and what a handler takes.          *)

(* A call that passes the check binds to the handler's parameters.         *)
LEMMA AcceptedBinds ==
    ASSUME NEW t, NEW args, ~Rejects(t, args)
    PROVE  Binds(t, args)
BY DEF Rejects, Binds, Schema

(* A call that follows the schema a provider is given passes the check, but *)
(* for arguments that Gemini is not told there may not be.                 *)
LEMMA FollowedAccepted ==
    ASSUME NEW t, NEW args, Follows(args, Advertised(t)), Rejects(t, args)
    PROVE  provider = "gemini" /\ ~(args \subseteq Schema(t).properties)
<1>1. /\ Schema(t).required = Handler[t].required
      /\ Schema(t).properties = Handler[t].required \cup Handler[t].optional
  BY DEF Schema
<1>2. /\ CleanSchema(Schema(t)).required = Schema(t).required
      /\ CleanSchema(Schema(t)).properties = Schema(t).properties
  BY DEF CleanSchema, Schema
<1>3. /\ Advertised(t).required = Schema(t).required
      /\ Advertised(t).properties = Schema(t).properties
      /\ provider # "gemini" => Advertised(t).closed
  BY <1>2 DEF Advertised, Schema
<1> HIDE DEF Schema
<1>4. /\ Schema(t).required \subseteq args
      /\ provider # "gemini" => args \subseteq Schema(t).properties
  BY <1>1, <1>3 DEF Follows
<1> QED BY <1>4 DEF Rejects

-----------------------------------------------------------------------------
(* Names.                                                                  *)

(* A replacement is undone by its reverse if the new character is new.     *)
LEMMA ReplacedBack ==
    ASSUME NEW name \in Seq(STRING), NEW old, NEW new, new \notin Range(name)
    PROVE  Replaced(Replaced(name, old, new), new, old) = name
<1>1. name = [i \in DOMAIN name |-> name[i]]
  OBVIOUS
<1>2. \A i \in DOMAIN name : name[i] # new
  BY DEF Range
<1> DEFINE once == Replaced(name, old, new)
<1>3. /\ DOMAIN once = DOMAIN name
      /\ \A i \in DOMAIN name : once[i] = IF name[i] = old THEN new ELSE name[i]
  BY DEF Replaced
<1> HIDE DEF once
<1>4. Replaced(once, new, old) =
        [i \in DOMAIN name |-> IF once[i] = new THEN old ELSE once[i]]
  BY <1>3 DEF Replaced
<1>5. \A i \in DOMAIN name : (IF once[i] = new THEN old ELSE once[i]) = name[i]
  BY <1>2, <1>3
<1>6. Replaced(once, new, old) = [i \in DOMAIN name |-> name[i]]
  BY <1>4, <1>5
<1> QED BY <1>1, <1>6 DEF once

(* A tool is known to the loop by the name it was advertised under.        *)
LEMMA ToolRecognised ==
    ASSUME NEW t \in Tool
    PROVE  OwnName(WireName(t)) = t
<1>1. t \in Seq(STRING) /\ "__" \notin Range(t)
  BY ToolAssumption
<1>2. Desan(San(t)) = t
  BY <1>1, ReplacedBack DEF San, Desan
<1> QED BY <1>2 DEF OwnName, WireName

(* A name comes back to the service as it was, whoever made it up.         *)
LEMMA NameReturned ==
    ASSUME NEW n \in RawName
    PROVE  WireName(OwnName(n)) = n
<1>1. CASE \E t \in Tool : n = WireName(t)
  BY <1>1, ToolRecognised
<1>2. CASE n \in Invented
  <2>1. n \in Seq(STRING) /\ "." \notin Range(n)
    BY <1>2, ExchangeAssumption
  <2>2. San(Desan(n)) = n
    BY <2>1, ReplacedBack DEF San, Desan
  <2> QED BY <2>2 DEF OwnName, WireName
<1> QED BY <1>1, <1>2 DEF RawName

-----------------------------------------------------------------------------
(* Responses.                                                              *)

(* With the same provider, translations stay the same.                     *)
LEMMA SameProvider ==
    ASSUME provider' = provider
    PROVE  /\ RawName' = RawName /\ RawCall' = RawCall /\ Name' = Name
           /\ OwnCall' = OwnCall /\ Message' = Message
           /\ \A reply : Parsed(reply)' = Parsed(reply)
<1>1. \A n : OwnName(n)' = OwnName(n) /\ WireName(n)' = WireName(n)
  BY DEF OwnName, WireName
<1>2. RawName' = RawName
  BY <1>1 DEF RawName
<1>3. Name' = Name
  BY <1>1, <1>2 DEF Name
<1>4. RawCall' = RawCall /\ OwnCall' = OwnCall
  BY <1>2, <1>3 DEF RawCall, OwnCall
<1>5. Message' = Message
  BY <1>3, <1>4 DEF Message, Asking, Result
<1>6. \A reply : Parsed(reply)' = Parsed(reply)
  BY <1>1 DEF Parsed
<1> QED BY <1>2, <1>3, <1>4, <1>5, <1>6

(* Parsing keeps the number, the order and the contents of the calls.      *)
LEMMA ParsedType ==
    ASSUME NEW reply \in Seq(RawCall)
    PROVE  /\ Parsed(reply) \in Seq(OwnCall)
           /\ Len(Parsed(reply)) = Len(reply)
           /\ \A k \in 1 .. Len(reply) :
                /\ Parsed(reply)[k].id =
                     IF provider = "gemini" THEN <<0, k - 1>> ELSE reply[k].id
                /\ Parsed(reply)[k].name = OwnName(reply[k].name)
                /\ Parsed(reply)[k].args = IF reply[k].readable THEN reply[k].args ELSE {}
<1> DEFINE id(k) == IF provider = "gemini" THEN <<0, k - 1>> ELSE reply[k].id
           name(k) == OwnName(reply[k].name)
           args(k) == IF reply[k].readable THEN reply[k].args ELSE {}
<1>1. DOMAIN reply = 1 .. Len(reply) /\ Len(reply) \in Nat
  OBVIOUS
<1>2. Parsed(reply) = [k \in 1 .. Len(reply) |->
                          [id |-> id(k), name |-> name(k), args |-> args(k)]]
  BY <1>1 DEF Parsed
<1>3. ASSUME NEW k \in 1 .. Len(reply)
      PROVE  id(k) \in Id /\ name(k) \in Name /\ args(k) \in ArgSet
  <2>1. reply[k] \in RawCall
    OBVIOUS
  <2>2. reply[k].id \in Id /\ reply[k].name \in RawName /\ reply[k].args \in ArgSet
    BY <2>1 DEF RawCall
  <2>3. <<0, k - 1>> \in Id
    BY DEF Id
  <2> QED BY <2>2, <2>3 DEF Name, ArgSet
<1> HIDE DEF id, name, args
<1>4. \A k \in 1 .. Len(reply) :
          [id |-> id(k), name |-> name(k), args |-> args(k)] \in OwnCall
  BY <1>3 DEF OwnCall
<1>5. Parsed(reply) \in [1 .. Len(reply) -> OwnCall]
  BY <1>2, <1>4
<1>6. Parsed(reply) \in Seq(OwnCall) /\ Len(Parsed(reply)) = Len(reply)
  BY <1>1, <1>5
<1>7. \A k \in 1 .. Len(reply) : /\ Parsed(reply)[k].id = id(k)
                                 /\ Parsed(reply)[k].name = name(k)
                                 /\ Parsed(reply)[k].args = args(k)
  BY <1>2
<1> QED BY <1>6, <1>7 DEF id, name, args

(* The identifiers a provider gives: none twice, and known ones to the     *)
(* next turn.                                                              *)
LEMMA IdentifiedType ==
    ASSUME NEW reply \in Reply, said \in Seq(Seq(RawCall))
    PROVE  /\ Identified(reply) \in Seq(RawCall)
           /\ Len(Identified(reply)) = Len(reply)
           /\ Len(reply) \in Nat /\ Len(reply) <= MaxCalls
           /\ \A k \in 1 .. Len(reply) :
                Identified(reply)[k].id =
                    IF provider = "gemini" THEN <<>> ELSE <<Len(said) + 1, k>>
           /\ reply = <<>> <=> Len(reply) = 0
<1>1. PICK n \in 0 .. MaxCalls : reply \in [1 .. n -> Block]
  BY DEF Reply
<1>2. n \in Nat /\ n <= MaxCalls
  BY <1>1, ExchangeAssumption
<1>3. DOMAIN reply = 1 .. n /\ Len(reply) = n /\ reply \in Seq(Block)
  BY <1>1, <1>2
<1>4. ASSUME NEW k \in 1 .. n
      PROVE  /\ reply[k] \in [id : {<<>>}, name : RawName, args : ArgSet, readable : BOOLEAN]
             /\ reply[k].id = <<>>
  BY <1>1 DEF Block, RawName, ArgSet
<1>5. Len(said) + 1 \in Nat
  OBVIOUS
<1>6. CASE provider = "gemini"
  <2>1. Identified(reply) = reply
    BY <1>6 DEF Identified
  <2>2. \A k \in 1 .. n : reply[k] \in RawCall
    BY <1>4 DEF RawCall, Id
  <2>3. reply \in [1 .. n -> RawCall]
    BY <1>1, <2>2
  <2> QED BY <1>2, <1>3, <1>4, <1>6, <2>1, <2>3
<1>7. CASE provider # "gemini"
  <2> DEFINE new(k) == [reply[k] EXCEPT !.id = <<Len(said) + 1, k>>]
  <2>1. Identified(reply) = [k \in 1 .. n |-> new(k)]
    BY <1>3, <1>7 DEF Identified
  <2>2. ASSUME NEW k \in 1 .. n
        PROVE  new(k) \in RawCall /\ new(k).id = <<Len(said) + 1, k>>
    <3>1. <<Len(said) + 1, k>> \in Id
      BY <1>5 DEF Id
    <3> QED BY <1>4, <3>1 DEF RawCall
  <2> HIDE DEF new
  <2>3. Identified(reply) \in [1 .. n -> RawCall]
    BY <2>1, <2>2
  <2>4. Identified(reply) \in Seq(RawCall) /\ Len(Identified(reply)) = n
    BY <1>2, <2>3
  <2>5. \A k \in 1 .. n : Identified(reply)[k].id = <<Len(said) + 1, k>>
    BY <2>1, <2>2
  <2> QED BY <1>2, <1>3, <1>7, <2>4, <2>5
<1> QED BY <1>6, <1>7

-----------------------------------------------------------------------------
(* The transcript, one message longer.                                     *)

(* The number of a turn is a count of the messages before it.              *)
LEMMA TurnType ==
    ASSUME NEW n \in Nat
    PROVE  /\ IsFiniteSet({j \in 1 .. n : ~IsResult(j)})
           /\ Turn(n) \in Nat
           /\ n = 0 => Turn(n) = 0
<1>1. IsFiniteSet(1 .. n)
  BY FS_Interval
<1>2. IsFiniteSet({j \in 1 .. n : ~IsResult(j)})
  BY <1>1, FS_Subset
<1>3. Turn(n) \in Nat
  BY <1>2, FS_CardinalityType DEF Turn
<1>4. n = 0 => {j \in 1 .. n : ~IsResult(j)} = {}
  OBVIOUS
<1> QED BY <1>2, <1>3, <1>4, FS_EmptySet DEF Turn

(* A message added at the end leaves the others as they were.              *)
LEMMA Appended ==
    ASSUME Typed, NEW m \in Message, messages' = Append(messages, m),
           NEW n \in Nat, n = Len(messages)
    PROVE  /\ messages' \in Seq(Message) /\ Len(messages') = n + 1
           /\ \A i \in 1 .. n : messages'[i] = messages[i]
           /\ messages'[n + 1] = m
           /\ \A i \in 1 .. n : IsResult(i)' <=> IsResult(i)
           /\ \A i \in 0 .. n : Turn(i)' = Turn(i)
           /\ \A i \in 1 .. n : Place(i)' = Place(i)
<1>1. /\ messages' \in Seq(Message) /\ Len(messages') = n + 1
      /\ \A i \in 1 .. n : messages'[i] = messages[i]
      /\ messages'[n + 1] = m
  BY AppendProperties DEF Typed
<1>2. \A i \in 1 .. n : IsResult(i)' <=> IsResult(i)
  BY <1>1 DEF IsResult
<1>3. ASSUME NEW i \in 0 .. n PROVE Turn(i)' = Turn(i)
  <2>1. \A j \in 1 .. i : j \in 1 .. n
    OBVIOUS
  <2>2. {j \in 1 .. i : ~IsResult(j)}' = {j \in 1 .. i : ~IsResult(j)}
    BY <1>2, <2>1
  <2> QED BY <2>2 DEF Turn
<1>4. ASSUME NEW i \in 1 .. n PROVE Place(i)' = Place(i)
  <2>1. \A j \in 1 .. i : j \in 1 .. n /\ j \in 0 .. n
    OBVIOUS
  <2>2. {j \in 1 .. i : IsResult(j) /\ Turn(j) = Turn(i)}'
          = {j \in 1 .. i : IsResult(j) /\ Turn(j) = Turn(i)}
    BY <1>2, <1>3, <2>1
  <2> QED BY <2>2 DEF Place
<1> QED BY <1>1, <1>2, <1>3, <1>4

(* A response begins a turn, a result belongs to the last one.             *)
LEMMA AppendedTurn ==
    ASSUME Typed, NEW m \in Message, messages' = Append(messages, m),
           NEW n \in Nat, n = Len(messages)
    PROVE  Turn(n + 1)' = IF m.role = "tool" THEN Turn(n) ELSE Turn(n) + 1
<1>1. /\ messages'[n + 1] = m
      /\ \A i \in 1 .. n : IsResult(i)' <=> IsResult(i)
  BY Appended
<1> DEFINE before == {j \in 1 .. n : ~IsResult(j)}
           after == {j \in 1 .. (n + 1) : ~(messages'[j].role = "tool")}
<1>2. Turn(n + 1)' = Cardinality(after) /\ Turn(n) = Cardinality(before)
  BY DEF Turn, IsResult
<1>3. IsFiniteSet(before) /\ n + 1 \notin before
  BY TurnType
<1>4. \A j \in 1 .. n : messages'[j].role = "tool" <=> IsResult(j)
  BY <1>1 DEF IsResult
<1>5. CASE m.role = "tool"
  <2>1. after = before
    BY <1>1, <1>4, <1>5
  <2> QED BY <1>2, <1>5, <2>1
<1>6. CASE m.role # "tool"
  <2>1. after = before \cup {n + 1}
    BY <1>1, <1>4, <1>6
  <2> HIDE DEF after, before
  <2>2. Cardinality(before \cup {n + 1}) = Cardinality(before) + 1
    BY <1>3, FS_AddElement
  <2> QED BY <1>2, <1>6, <2>1, <2>2
<1> QED BY <1>5, <1>6

-----------------------------------------------------------------------------
(* The steps.                                                              *)

(* A turn that was not touched keeps its calls.                            *)
LEMMA CallStays ==
    ASSUME provider' = provider, NEW t, NEW k, said'[t] = said[t]
    PROVE  Call(t, k)' = Call(t, k)
<1>1. Parsed(said[t])' = Parsed(said'[t])
  BY SameProvider, \A reply : Parsed(reply)' = Parsed(reply) DEF Parsed, OwnName
<1> QED BY <1>1, SameProvider DEF Call

(* The invariant holds before the first request.                           *)
LEMMA InvInit == Init => IInv
<1> SUFFICES ASSUME Init PROVE IInv
  OBVIOUS
<1>1. /\ said = <<>> /\ messages = <<>> /\ todo = <<>> /\ spans = <<>>
      /\ provider \in Provider /\ phase = "loop" /\ MaxTurns \in Nat
  BY ExchangeAssumption DEF Init
<1>2. Len(said) = 0 /\ Len(messages) = 0
  BY <1>1
<1>3. Typed
  BY <1>1, <1>2 DEF Typed
<1>4. Turn(0) = 0
  BY TurnType
<1> QED BY <1>1, <1>2, <1>3, <1>4
        DEF IInv, Numbered, Queue, Asked, Answered, OneEach, Counted

(* A request changes nothing that the invariant relates.                   *)
LEMMA QuietStep ==
    ASSUME IInv, UNCHANGED <<provider, said, messages, todo>>, spans' \in Seq(Span),
           phase' \in {"loop", "waiting", "tools", "answered", "raised"},
           phase' = "tools" <=> phase = "tools",
           phase' = "waiting" => Len(said) < MaxTurns
    PROVE  IInv'
<1>1. Typed'
  BY SameProvider DEF IInv, Typed
<1>2. Numbered'
  BY DEF IInv, Numbered
<1>3. \A t, k : Call(t, k)' = Call(t, k)
  BY CallStays
<1>4. \A t : Done(t)' = Done(t)
  BY DEF Done
<1>5. \A i : (IsResult(i)' <=> IsResult(i)) /\ Turn(i)' = Turn(i) /\ Place(i)' = Place(i)
  BY DEF IsResult, Turn, Place
<1>6. Queue'
  BY <1>3 DEF IInv, Queue
<1>7. Asked'
  <2>1. \A t : Parsed(said[t])' = Parsed(said[t])
    BY SameProvider DEF Parsed, OwnName
  <2> QED BY <1>5, <2>1 DEF IInv, Asked
<1>8. Answered'
  BY <1>3, <1>4, <1>5 DEF IInv, Answered
<1>9. OneEach'
  BY <1>4, <1>5 DEF IInv, OneEach
<1>10. Counted'
  BY <1>4, <1>5 DEF IInv, Counted, Latest
<1> QED BY <1>1, <1>2, <1>6, <1>7, <1>8, <1>9, <1>10 DEF IInv

(* Closing a span keeps the trace one.                                     *)
LEMMA SpansClosed ==
    ASSUME spans \in Seq(Span), NEW status \in {"open", "ok", "failed"}
    PROVE  Closed(status) \in Seq(Span)
<1>1. DOMAIN spans = 1 .. Len(spans)
  OBVIOUS
<1>2. CASE Len(spans) \in 1 .. Len(spans)
  <2>1. spans[Len(spans)] \in Span
    BY <1>2
  <2>2. [spans[Len(spans)] EXCEPT !.status = status] \in Span
    BY <2>1 DEF Span
  <2>3. Closed(status) = [spans EXCEPT ![Len(spans)] = [spans[Len(spans)] EXCEPT !.status = status]]
    BY DEF Closed
  <2> QED BY <1>2, <2>2, <2>3, ExceptSeq
<1>3. CASE Len(spans) \notin 1 .. Len(spans)
  <2>1. Closed(status) = spans
    BY <1>1, <1>3 DEF Closed
  <2> QED BY <2>1
<1> QED BY <1>2, <1>3

(* A request adds a turn and queues its calls.                             *)
LEMMA RequestStep == ASSUME IInv, Request PROVE IInv'
<1>1. [kind |-> "llm", status |-> "open"] \in Span /\ spans \in Seq(Span)
  BY DEF Span, IInv, Typed
<1>2. spans' \in Seq(Span)
  BY <1>1, AppendProperties DEF Request
<1> QED BY <1>2, QuietStep DEF Request

(* A failed request ends the run and changes nothing else.                 *)
LEMMA FailsStep == ASSUME IInv, RequestFails PROVE IInv'
<1>1. spans' \in Seq(Span)
  BY SpansClosed DEF RequestFails, IInv, Typed
<1> QED BY <1>1, QuietStep DEF RequestFails

(* A response begins a turn, in which nothing has been worked off.         *)
LEMMA RespondStep == ASSUME IInv, Respond PROVE IInv'
<1>1. PICK reply \in Reply :
        /\ said' = Append(said, Identified(reply))
        /\ messages' = Append(messages, AssistantMessage(Parsed(Identified(reply))))
        /\ todo' = Parsed(Identified(reply))
        /\ phase' = IF reply = <<>> THEN "answered" ELSE "tools"
  BY DEF Respond
<1>2. /\ provider' = provider /\ phase = "waiting" /\ todo = <<>> /\ Len(todo) = 0
      /\ provider \in Provider /\ said \in Seq(Seq(RawCall)) /\ messages \in Seq(Message)
      /\ Len(said) \in Nat /\ Len(messages) \in Nat /\ spans \in Seq(Span)
  BY DEF Respond, IInv, Typed, Queue
<1> PICK T \in Nat : T = Len(said)
  BY <1>2
<1> PICK n \in Nat : n = Len(messages)
  BY <1>2
<1> DEFINE r == Identified(reply)
<1>3. /\ r \in Seq(RawCall) /\ Len(r) = Len(reply) /\ Len(r) \in Nat /\ Len(r) <= MaxCalls
      /\ \A k \in 1 .. Len(r) :
           r[k].id = IF provider = "gemini" THEN <<>> ELSE <<T + 1, k>>
      /\ reply = <<>> <=> Len(r) = 0
  BY <1>2, IdentifiedType
<1> PICK own \in Seq(RawCall) : own = r
  BY <1>3
<1> HIDE DEF r
<1>4. /\ said' = Append(said, own) /\ todo' = Parsed(own)
      /\ messages' = Append(messages, AssistantMessage(Parsed(own)))
  BY <1>1 DEF r
<1>5. /\ said' \in Seq(Seq(RawCall)) /\ Len(said') = T + 1
      /\ \A t \in 1 .. T : said'[t] = said[t]
      /\ said'[T + 1] = own
  BY <1>2, <1>4, AppendProperties
<1>6. Parsed(own) \in Seq(OwnCall) /\ Len(Parsed(own)) = Len(own) /\ Len(own) \in Nat
  BY <1>3, ParsedType
<1> DEFINE m == AssistantMessage(Parsed(own))
<1>7. m \in Message /\ m.role = "assistant" /\ m.calls = Parsed(own)
  BY <1>6 DEF AssistantMessage, Message, Asking
<1> HIDE DEF m
<1>8. /\ messages' \in Seq(Message) /\ Len(messages') = n + 1
      /\ \A i \in 1 .. n : messages'[i] = messages[i]
      /\ messages'[n + 1] = m
      /\ \A i \in 1 .. n : IsResult(i)' <=> IsResult(i)
      /\ \A i \in 0 .. n : Turn(i)' = Turn(i)
      /\ \A i \in 1 .. n : Place(i)' = Place(i)
  BY <1>4, <1>7, Appended DEF m, IInv
<1>9. ~IsResult(n + 1)' /\ Turn(n + 1)' = T + 1
  <2>1. Turn(n) = T
    BY DEF IInv, Asked
  <2> QED BY <1>4, <1>7, <1>8, <2>1, AppendedTurn DEF m, IInv, IsResult
<1>10. /\ \A t \in 1 .. T : Done(t)' = Done(t) /\ Done(t) = Len(said[t])
       /\ Done(T + 1)' = 0
  <2>1. \A t \in 1 .. T : Done(t)' = Len(said[t])
    BY <1>5 DEF Done
  <2>2. \A t \in 1 .. T : Len(said[t]) \in Nat
    BY <1>2
  <2>3. \A t \in 1 .. T : Done(t) = Len(said[t])
    BY <1>2, <2>2 DEF Done
  <2>4. Done(T + 1)' = Len(own) - Len(own)
    BY <1>4, <1>5, <1>6 DEF Done
  <2> QED BY <1>6, <2>1, <2>3, <2>4
<1>11. \A t \in 1 .. T : \A k : Call(t, k)' = Call(t, k)
  BY <1>2, <1>5, CallStays
<1>12. \A t \in 1 .. (T + 1) : Parsed(said[t])' = Parsed(said'[t])
  BY <1>2 DEF Parsed, OwnName
<1>13. Typed'
  <2>1. T + 1 <= MaxTurns
    BY <1>2, ExchangeAssumption DEF IInv, Typed
  <2>2. spans' \in Seq(Span)
    BY <1>2, SpansClosed DEF Respond
  <2> QED BY <1>1, <1>2, <1>4, <1>5, <1>6, <1>8, <2>1, <2>2, SameProvider DEF Typed
<1>14. Numbered'
  <2>1. ASSUME NEW t \in 1 .. (T + 1)
        PROVE  /\ Len(said'[t]) <= MaxCalls
               /\ \A k \in 1 .. Len(said'[t]) :
                    said'[t][k].id = IF provider = "gemini" THEN <<>> ELSE <<t, k>>
    <3>1. CASE t \in 1 .. T
      BY <1>5, <3>1 DEF IInv, Numbered
    <3>2. CASE t = T + 1
      BY <1>3, <1>5, <3>2
    <3> QED BY <3>1, <3>2
  <2>2. /\ Len(said') = T + 1 /\ provider' = provider
    BY <1>2, <1>5
  <2> QED BY <2>1, <2>2, Zenon DEF Numbered
<1>15. Queue'
  <2>1. todo' = <<>> <=> Len(own) = 0
    BY <1>4, <1>6
  <2>2. phase' = "tools" <=> todo' # <<>>
    BY <1>1, <1>3, <2>1
  <2>3. \A k \in 1 .. Len(own) : todo'[k] = Call(T + 1, k)'
    BY <1>4, <1>5, <1>12 DEF Call
  <2>4. \A k \in 1 .. Len(own) : Len(own) - Len(own) + k = k
    BY <1>6
  <2>5. /\ Len(said') >= 1 /\ Len(todo') = Len(said'[Len(said')])
        /\ \A k \in 1 .. Len(todo') :
             todo'[k] = Call(Len(said), Len(said[Len(said)]) - Len(todo) + k)'
    BY <1>4, <1>5, <1>6, <2>3, <2>4
  <2> QED BY <1>4, <1>6, <2>2, <2>5 DEF Queue
<1>16. Asked'
  <2>1. Turn(Len(messages))' = Len(said')
    BY <1>5, <1>8, <1>9
  <2>2. ASSUME NEW i \in 1 .. (n + 1), ~IsResult(i)'
        PROVE  Turn(i)' \in 1 .. Len(said') /\ messages'[i].calls = Parsed(said[Turn(i)])'
    <3>1. CASE i \in 1 .. n
      <4>1. Turn(i)' = Turn(i) /\ ~IsResult(i) /\ messages'[i] = messages[i]
        BY <1>8, <2>2, <3>1
      <4>2. Turn(i) \in 1 .. T /\ messages[i].calls = Parsed(said[Turn(i)])
        BY <3>1, <4>1 DEF IInv, Asked
      <4>3. said'[Turn(i)] = said[Turn(i)]
        BY <1>5, <4>2
      <4>4. Parsed(said[Turn(i)])' = Parsed(said[Turn(i)])
        BY <1>2, <4>1, <4>3 DEF Parsed, OwnName
      <4> QED BY <1>5, <4>1, <4>2, <4>4
    <3>2. CASE i = n + 1
      <4>1. Turn(i)' = T + 1 /\ messages'[i].calls = Parsed(own)
        BY <1>7, <1>8, <1>9, <3>2
      <4>2. Parsed(said[Turn(i)])' = Parsed(own)
        BY <1>2, <1>5, <4>1 DEF Parsed, OwnName
      <4> QED BY <1>5, <4>1, <4>2
    <3> QED BY <3>1, <3>2
  <2> QED BY <1>8, <2>1, <2>2 DEF Asked
<1>17. ASSUME NEW i \in 1 .. (n + 1), IsResult(i)'
       PROVE  /\ i \in 1 .. n /\ IsResult(i) /\ messages'[i] = messages[i]
              /\ messages[i].of[1] \in 1 .. T
  <2>1. i \in 1 .. n
    BY <1>9, <1>17
  <2>2. IsResult(i) /\ messages'[i] = messages[i]
    BY <1>8, <1>17, <2>1
  <2> QED BY <2>1, <2>2 DEF IInv, Answered
<1>18. Answered'
  <2>1. ASSUME NEW i \in 1 .. (n + 1), IsResult(i)', NEW t, NEW k,
               t = messages'[i].of[1], k = messages'[i].of[2]
        PROVE  /\ t \in 1 .. (T + 1) /\ k \in 1 .. Done(t)'
               /\ Turn(i)' = t /\ Place(i)' = k
               /\ messages'[i].id = Call(t, k)'.id
               /\ messages'[i].name = Call(t, k)'.name
               /\ Fits(messages'[i].outcome, Call(t, k)')
    <3>1. /\ i \in 1 .. n /\ IsResult(i) /\ messages'[i] = messages[i] /\ t \in 1 .. T
      BY <1>17, <2>1
    <3>2. /\ k \in 1 .. Done(t) /\ Turn(i) = t /\ Place(i) = k
          /\ messages[i].id = Call(t, k).id
          /\ messages[i].name = Call(t, k).name
          /\ Fits(messages[i].outcome, Call(t, k))
      BY <2>1, <3>1 DEF IInv, Answered
    <3>3. Call(t, k)' = Call(t, k) /\ Done(t)' = Done(t)
      BY <1>10, <1>11, <3>1
    <3> QED BY <1>8, <3>1, <3>2, <3>3
  <2> QED BY <1>5, <1>8, <2>1 DEF Answered, Fits
<1>19. OneEach'
  <2>1. ASSUME NEW t \in 1 .. (T + 1), NEW k \in 1 .. Done(t)'
        PROVE  \E i \in 1 .. (n + 1) : IsResult(i)' /\ messages'[i].of = <<t, k>>
    <3>1. t \in 1 .. T /\ k \in 1 .. Done(t)
      BY <1>10, <2>1
    <3>2. PICK i \in 1 .. n : IsResult(i) /\ messages[i].of = <<t, k>>
      BY <3>1 DEF IInv, OneEach
    <3>3. i \in 1 .. (n + 1) /\ IsResult(i)' /\ messages'[i] = messages[i]
      BY <1>8, <3>2
    <3> QED BY <3>2, <3>3
  <2>2. ASSUME NEW i \in 1 .. (n + 1), NEW j \in 1 .. (n + 1), IsResult(i)', IsResult(j)',
               messages'[i].of = messages'[j].of
        PROVE  i = j
    BY <1>17, <2>2 DEF IInv, OneEach
  <2>3. \A t \in 1 .. Len(said') : \A k \in 1 .. Done(t)' :
          \E i \in 1 .. Len(messages') : IsResult(i)' /\ messages'[i].of = <<t, k>>
    BY <1>5, <1>8, <2>1
  <2>4. \A i, j \in 1 .. Len(messages') :
          IsResult(i)' /\ IsResult(j)' /\ messages'[i].of = messages'[j].of => i = j
    BY <1>8, <2>2
  <2> QED BY <2>3, <2>4 DEF OneEach
<1>20. Counted'
  <2>1. ASSUME NEW j \in 1 .. (n + 1), IsResult(j)', Turn(j)' = T + 1
        PROVE  FALSE
    <3>1. j \in 1 .. n /\ IsResult(j) /\ messages[j].of[1] \in 1 .. T
      BY <1>17, <2>1
    <3>2. Turn(j) \in 1 .. T /\ Turn(j)' = Turn(j)
      BY <1>8, <3>1 DEF IInv, Answered
    <3> QED BY <2>1, <3>2
  <2>2. Latest' = {}
    BY <1>5, <1>8, <2>1 DEF Latest
  <2>3. Cardinality(Latest') = 0
    BY <2>2, FS_EmptySet
  <2> QED BY <1>5, <1>10, <2>3 DEF Counted
<1> QED BY <1>13, <1>14, <1>15, <1>16, <1>18, <1>19, <1>20 DEF IInv

(* One call fewer is left of z in a response of l.                         *)
LEMMA OneFewer ==
    \A l, z \in Nat : \A k \in 1 .. (z - 1) :
        k + 1 \in 1 .. z /\ l - (z - 1) + k = (l - z) + (k + 1)
OBVIOUS

(* One position more: an old one or the new one.                           *)
LEMMA UpToNext == ASSUME NEW n \in Nat, NEW i \in 1 .. (n + 1) PROVE i \in 1 .. n \/ i = n + 1
OBVIOUS

(* An old position is also one of the longer sequence.                     *)
LEMMA UpToNextToo == \A n \in Nat : \A i \in 1 .. n : i \in 1 .. (n + 1)
OBVIOUS

(* Differences of counts are integers.                                     *)
LEMMA Difference == ASSUME NEW l \in Nat, NEW z \in Nat PROVE l - z \in Int
OBVIOUS

(* The result of the next call joins those of the last response, at the    *)
(* place the call has there.                                               *)
LEMMA ResultsStep ==
    ASSUME IInv, NEW outcome \in Outcome, Results(outcome), Fits(outcome, Head(todo)),
           spans' \in Seq(Span)
    PROVE  IInv'
<1>1. /\ UNCHANGED <<provider, said>> /\ phase = "tools" /\ todo # <<>>
      /\ provider \in Provider /\ said \in Seq(Seq(RawCall)) /\ messages \in Seq(Message)
      /\ todo \in Seq(OwnCall) /\ Len(todo) \in Nat /\ Len(said) >= 1
      /\ Len(said) \in Nat /\ Len(messages) \in Nat
  BY DEF Results, IInv, Typed, Queue
<1> PICK T \in Nat : T = Len(said)
  BY <1>1
<1> PICK n \in Nat : n = Len(messages)
  BY <1>1
<1>2. said[T] \in Seq(RawCall) /\ Len(said[T]) \in Nat /\ T >= 1
  BY <1>1
<1> PICK L \in Nat : L = Len(said[T])
  BY <1>2
<1> PICK z \in Nat : z = Len(todo)
  BY <1>1
<1> PICK d \in Int : d = L - z
  <2>1. L - z \in Int
    BY Difference
  <2> QED BY <2>1, Zenon
<1>3. /\ Head(todo) \in OwnCall /\ Tail(todo) \in Seq(OwnCall)
      /\ Len(Tail(todo)) = Len(todo) - 1
      /\ \A k \in 1 .. Len(Tail(todo)) : Tail(todo)[k] = todo[k + 1]
  BY <1>1, HeadTailProperties
<1>4. Len(todo) >= 1 /\ Head(todo) = todo[1]
  BY <1>1, <1>3
<1>5. /\ Len(todo) <= L
      /\ \A k \in 1 .. Len(todo) : todo[k] = Call(T, d + k)
  BY <1>1 DEF IInv, Queue
<1>6. d \in Nat /\ d + 1 \in 1 .. L
  BY <1>1, <1>4, <1>5
<1>7. Head(todo) = Call(T, d + 1)
  BY <1>1, <1>4, <1>5
<1> DEFINE m == ToolMessage(Head(todo), outcome, <<T, d + 1>>)
<1>8. messages' = Append(messages, m) /\ todo' = Tail(todo)
      /\ phase' = (IF Tail(todo) = <<>> THEN "loop" ELSE "tools")
  BY <1>1 DEF Results
<1>9. /\ m \in Message /\ m.role = "tool" /\ m.of = <<T, d + 1>> /\ m.outcome = outcome
      /\ m.id = Call(T, d + 1).id /\ m.name = Call(T, d + 1).name
  <2>1. <<T, d + 1>> \in Nat \X Nat
    BY <1>6
  <2>2. m = [role |-> "tool", id |-> Head(todo).id, name |-> Head(todo).name,
             outcome |-> outcome, of |-> <<T, d + 1>>]
    BY DEF ToolMessage
  <2>3. Head(todo).id \in Id /\ Head(todo).name \in Name
    BY <1>3 DEF OwnCall
  <2> HIDE DEF m
  <2>4. m \in Result
    BY <2>1, <2>2, <2>3 DEF Result
  <2> QED BY <1>7, <2>2, <2>4 DEF Message
<1> HIDE DEF m
<1>10. /\ messages' \in Seq(Message) /\ Len(messages') = n + 1
       /\ \A i \in 1 .. n : messages'[i] = messages[i]
       /\ messages'[n + 1] = m
       /\ \A i \in 1 .. n : IsResult(i)' <=> IsResult(i)
       /\ \A i \in 0 .. n : Turn(i)' = Turn(i)
       /\ \A i \in 1 .. n : Place(i)' = Place(i)
  BY <1>8, <1>9, Appended DEF IInv
<1>11. IsResult(n + 1)' /\ Turn(n + 1)' = T
  <2>1. Turn(n) = T
    BY DEF IInv, Asked
  <2> QED BY <1>8, <1>9, <1>10, <2>1, AppendedTurn DEF IInv, IsResult
<1>12. /\ \A t \in 1 .. T : t # T => Done(t)' = Done(t)
       /\ Done(T) = d /\ Done(T)' = d + 1
  <2>1. Len(todo') = Len(todo) - 1 /\ said' = said
    BY <1>1, <1>3, <1>8
  <2>2. \A t \in 1 .. T : t # T => t < T
    OBVIOUS
  <2>3. \A t \in 1 .. T : t # T => Done(t)' = Done(t)
    BY <2>1, <2>2 DEF Done
  <2>4. Done(T) = L - Len(todo) /\ Done(T)' = L - (Len(todo) - 1)
    BY <2>1 DEF Done
  <2> QED BY <1>1, <2>3, <2>4
<1>13. \A t, k : Call(t, k)' = Call(t, k)
  BY <1>1, CallStays
<1>14. Typed'
  <2>1. phase' \in {"loop", "tools"}
    BY <1>8
  <2>2. todo' \in Seq(OwnCall)
    BY <1>3, <1>8
  <2> QED BY <1>1, <1>10, <2>1, <2>2, SameProvider DEF IInv, Typed
<1>15. Numbered'
  BY <1>1 DEF IInv, Numbered
<1>16. Queue'
  <2>1. phase' = "tools" <=> todo' # <<>>
    BY <1>8
  <2>2. Len(todo') = z - 1 /\ z - 1 <= L /\ Len(said') = T /\ said' = said
    BY <1>1, <1>3, <1>5, <1>8
  <2>3. ASSUME NEW k \in 1 .. (z - 1)
        PROVE  todo'[k] = Call(Len(said), Len(said[Len(said)]) - Len(todo) + k)'
    <3>1. k + 1 \in 1 .. z /\ L - (z - 1) + k = d + (k + 1)
      <4>1. k + 1 \in 1 .. z /\ L - (z - 1) + k = (L - z) + (k + 1)
        BY OneFewer, ZenonT(30)
      <4> QED BY <4>1, Zenon
    <3>2. todo'[k] = todo[k + 1]
      BY <1>3, <1>8
    <3>3. todo[k + 1] = Call(T, d + (k + 1))
      BY <1>5, <3>1
    <3>4. Call(T, d + (k + 1))' = Call(T, d + (k + 1))
      BY <1>13
    <3>5. (Len(said[Len(said)]) - Len(todo) + k)' = d + (k + 1)
      BY <2>2, <3>1
    <3>6. Call(Len(said), Len(said[Len(said)]) - Len(todo) + k)' = Call(T, d + (k + 1))'
      BY <2>2, <3>5 DEF Call
    <3> QED BY <3>2, <3>3, <3>4, <3>6
  <2>4. Len(said') >= 1 /\ Len(todo') <= Len(said'[Len(said')])
    BY <1>2, <2>2
  <2>5. \A k \in 1 .. Len(todo') :
          todo'[k] = Call(Len(said), Len(said[Len(said)]) - Len(todo) + k)'
    BY <2>2, <2>3
  <2> QED BY <2>1, <2>4, <2>5 DEF Queue
<1>17. Asked'
  <2>1. Turn(Len(messages))' = Len(said')
    BY <1>1, <1>10, <1>11
  <2>2. ASSUME NEW i \in 1 .. (n + 1), ~IsResult(i)'
        PROVE  Turn(i)' \in 1 .. Len(said') /\ messages'[i].calls = Parsed(said[Turn(i)])'
    <3>1. i \in 1 .. n
      BY <1>11, <2>2
    <3>2. Turn(i)' = Turn(i) /\ ~IsResult(i) /\ messages'[i] = messages[i]
      BY <1>10, <2>2, <3>1
    <3>3. Turn(i) \in 1 .. T /\ messages[i].calls = Parsed(said[Turn(i)])
      BY <3>1, <3>2 DEF IInv, Asked
    <3>4. Parsed(said[Turn(i)])' = Parsed(said[Turn(i)])
      BY <1>1, <3>2 DEF Parsed, OwnName
    <3> QED BY <1>1, <3>2, <3>3, <3>4
  <2> QED BY <1>10, <2>1, <2>2 DEF Asked
<1>18. /\ IsFiniteSet(Latest) /\ Cardinality(Latest) = d
       /\ Latest' = Latest \cup {n + 1} /\ n + 1 \notin Latest
  <2>1. IsFiniteSet(1 .. n)
    BY FS_Interval
  <2>6. Latest \subseteq 1 .. n
    BY DEF Latest
  <2>7. n + 1 \notin Latest
    BY <2>6
  <2>2. IsFiniteSet(Latest)
    BY <2>1, <2>6, FS_Subset
  <2>3. Cardinality(Latest) = d
    BY <1>2, <1>12 DEF IInv, Counted
  <2>4. Latest' = Latest \cup {n + 1}
    BY <1>1, <1>10, <1>11 DEF Latest
  <2> QED BY <2>2, <2>7, <2>3, <2>4
<1>19. Cardinality(Latest') = d + 1
  <2>1. Cardinality(Latest \cup {n + 1}) = Cardinality(Latest) + 1
    BY <1>18, FS_AddElement
  <2> QED BY <1>18, <2>1
<1>20. Place(n + 1)' = d + 1
  <2>1. {j \in 1 .. (n + 1) : IsResult(j)' /\ Turn(j)' = T} = Latest'
    BY <1>1, <1>10 DEF Latest
  <2>2. Place(n + 1)' = Cardinality({j \in 1 .. (n + 1) : IsResult(j)' /\ Turn(j)' = T})
    BY <1>11 DEF Place
  <2> QED BY <1>19, <2>1, <2>2
<1>21. ASSUME NEW i \in 1 .. n, IsResult(i)
       PROVE  /\ messages'[i] = messages[i] /\ IsResult(i)'
              /\ messages[i].of[1] \in 1 .. T
              /\ messages[i].of[2] \in 1 .. Done(messages[i].of[1])
              /\ messages[i].of[2] \in 1 .. Done(messages[i].of[1])'
              /\ messages[i].of \in Nat \X Nat
              /\ messages[i].of # <<T, d + 1>>
  <2>1. messages[i].of[1] \in 1 .. T /\ messages[i].of[2] \in 1 .. Done(messages[i].of[1])
    BY <1>21 DEF IInv, Answered
  <2> PICK t \in 1 .. T : t = messages[i].of[1]
    BY <2>1
  <2>2. messages[i].of[2] \in 1 .. Done(t)'
    <3>1. CASE t = T
      <4>1. messages[i].of[2] \in 1 .. d /\ Done(t)' = d + 1 /\ d \in Nat
        BY <1>6, <1>12, <2>1, <3>1
      <4>2. messages[i].of[2] \in 1 .. (d + 1)
        BY <4>1, UpToNextToo, Zenon
      <4> QED BY <4>1, <4>2, Zenon
    <3>2. CASE t # T
      <4>1. Done(t)' = Done(t)
        BY <1>12, <3>2
      <4> QED BY <2>1, <4>1
    <3> QED BY <3>1, <3>2
  <2>3. messages[i].of[2] \in 1 .. Done(messages[i].of[1])'
    <3>1. Done(messages[i].of[1])' = Done(t)'
      BY <1>10, <1>21
    <3> QED BY <2>2, <3>1
  <2>4. messages[i] \in Result
    BY <1>1, <1>21 DEF IsResult, Message, Asking
  <2>5. messages[i].of \in Nat \X Nat
    BY <2>4 DEF Result
  <2>6. messages[i].of # <<T, d + 1>>
    <3>1. CASE t = T
      <4>1. messages[i].of[2] \in 1 .. d
        BY <1>12, <2>1, <3>1
      <4> QED BY <1>6, <4>1
    <3>2. CASE t # T
      BY <3>2
    <3> QED BY <3>1, <3>2
  <2> QED BY <1>10, <1>21, <2>1, <2>3, <2>5, <2>6
<1>22. Answered'
  <2>1. ASSUME NEW i \in 1 .. (n + 1), IsResult(i)', NEW t, NEW k,
               t = messages'[i].of[1], k = messages'[i].of[2]
        PROVE  /\ t \in 1 .. T /\ k \in 1 .. Done(t)'
               /\ Turn(i)' = t /\ Place(i)' = k
               /\ messages'[i].id = Call(t, k)'.id
               /\ messages'[i].name = Call(t, k)'.name
               /\ Fits(messages'[i].outcome, Call(t, k)')
    <3>1. CASE i \in 1 .. n
      <4>1. IsResult(i) /\ messages'[i] = messages[i] /\ Turn(i)' = Turn(i) /\ Place(i)' = Place(i)
        BY <1>10, <2>1, <3>1
      <4>2. t \in 1 .. T /\ k \in 1 .. Done(t)'
        BY <1>21, <2>1, <3>1, <4>1
      <4>3. /\ Turn(i) = t /\ Place(i) = k
            /\ messages[i].id = Call(t, k).id
            /\ messages[i].name = Call(t, k).name
            /\ Fits(messages[i].outcome, Call(t, k))
        BY <2>1, <3>1, <4>1 DEF IInv, Answered
      <4> QED BY <1>13, <4>1, <4>2, <4>3
    <3>2. CASE i = n + 1
      <4>1. messages'[i] = m /\ t = T /\ k = d + 1
        BY <1>9, <1>10, <2>1, <3>2
      <4>2. t \in 1 .. T /\ k \in 1 .. Done(t)'
        BY <1>2, <1>6, <1>12, <4>1
      <4> QED BY <1>7, <1>9, <1>11, <1>13, <1>20, <3>2, <4>1, <4>2
    <3> QED BY <3>1, <3>2
  <2> QED BY <1>1, <1>10, <2>1 DEF Answered, Fits
<1>23. messages'[n + 1].of = <<T, d + 1>>
  BY <1>9, <1>10
<1>24. OneEach'
  <2>1. ASSUME NEW t \in 1 .. T, NEW k \in 1 .. Done(t)'
        PROVE  \E i \in 1 .. (n + 1) : IsResult(i)' /\ messages'[i].of = <<t, k>>
    <3>1. CASE k \in 1 .. Done(t)
      <4>1. PICK i \in 1 .. n : IsResult(i) /\ messages[i].of = <<t, k>>
        BY <3>1 DEF IInv, OneEach
      <4>2. IsResult(i)' /\ messages'[i] = messages[i]
        BY <1>10, <4>1
      <4>3. i \in 1 .. (n + 1)
        OBVIOUS
      <4> QED BY <4>1, <4>2, <4>3
    <3>2. CASE k \notin 1 .. Done(t)
      <4>1. t = T
        BY <1>12, <3>2
      <4>2. k \in 1 .. (d + 1) /\ k \notin 1 .. d
        BY <1>12, <3>2, <4>1
      <4>3. k = d + 1
        BY <1>6, <4>2
      <4>4. n + 1 \in 1 .. (n + 1)
        OBVIOUS
      <4> QED BY <1>11, <1>23, <4>1, <4>3, <4>4
    <3> QED BY <3>1, <3>2
  <2>2. ASSUME NEW i \in 1 .. (n + 1), NEW j \in 1 .. (n + 1), IsResult(i)', IsResult(j)',
               messages'[i].of = messages'[j].of
        PROVE  i = j
    <3>1. \A l \in 1 .. n : IsResult(l)' <=> IsResult(l)
      BY <1>10
    <3>2. CASE i \in 1 .. n /\ j \in 1 .. n
      <4>1. IsResult(i) /\ IsResult(j) /\ messages[i].of = messages[j].of
        BY <1>10, <2>2, <3>2
      <4> QED BY <3>2, <4>1 DEF IInv, OneEach
    <3>3. CASE i \in 1 .. n /\ j = n + 1
      BY <1>21, <1>23, <2>2, <3>1, <3>3
    <3>4. CASE i = n + 1 /\ j \in 1 .. n
      BY <1>21, <1>23, <2>2, <3>1, <3>4
    <3>5. (i \in 1 .. n \/ i = n + 1) /\ (j \in 1 .. n \/ j = n + 1)
      BY UpToNext
    <3> QED BY <3>2, <3>3, <3>4, <3>5, Zenon
  <2>3. \A t \in 1 .. Len(said') : \A k \in 1 .. Done(t)' :
          \E i \in 1 .. Len(messages') : IsResult(i)' /\ messages'[i].of = <<t, k>>
    BY <1>1, <1>10, <2>1
  <2>4. \A i, j \in 1 .. Len(messages') :
          IsResult(i)' /\ IsResult(j)' /\ messages'[i].of = messages'[j].of => i = j
    BY <1>10, <2>2
  <2> QED BY <2>3, <2>4 DEF OneEach
<1>25. Counted'
  <2>1. Done(Len(said))' = d + 1
    BY <1>1, <1>12 DEF Done
  <2> QED BY <1>19, <2>1 DEF Counted
<1> QED BY <1>14, <1>15, <1>16, <1>17, <1>22, <1>24, <1>25 DEF IInv

(* Each way of ending a call adds its result, whichever it is.             *)
LEMMA ToolsStep == ASSUME IInv, UnknownTool \/ RejectCall \/ RunHandler PROVE IInv'
<1>1. spans \in Seq(Span)
  BY DEF IInv, Typed
<1>2. \A status \in {"ok", "failed"} :
          Append(spans, [kind |-> "tool", status |-> status]) \in Seq(Span)
  <2>1. \A status \in {"ok", "failed"} : [kind |-> "tool", status |-> status] \in Span
    BY DEF Span
  <2> QED BY <1>1, <2>1, AppendProperties
<1>3. CASE UnknownTool
  <2>1. Results("unknown") /\ Fits("unknown", Head(todo)) /\ spans' = spans
    BY <1>3 DEF UnknownTool, Fits
  <2> QED BY <1>1, <2>1, ResultsStep DEF Outcome
<1>4. CASE RejectCall
  <2>1. Results("rejected") /\ Fits("rejected", Head(todo)) /\ spans' \in Seq(Span)
    BY <1>2, <1>4 DEF RejectCall, Fits
  <2> QED BY <2>1, ResultsStep DEF Outcome
<1>5. CASE RunHandler
  <2>1. PICK outcome \in {"ok", "failed"} :
          Results(outcome) /\ spans' = Append(spans, [kind |-> "tool", status |-> outcome])
    BY <1>5 DEF RunHandler
  <2>2. Fits(outcome, Head(todo))
    BY <1>5 DEF RunHandler, Fits
  <2>3. spans' \in Seq(Span) /\ outcome \in Outcome
    BY <1>2, <2>1 DEF Outcome
  <2> QED BY <2>1, <2>2, <2>3, ResultsStep
<1> QED BY <1>3, <1>4, <1>5

(* Every step keeps the invariant.                                         *)
LEMMA InvNext == IInv /\ [Next]_vars => IInv'
<1> SUFFICES ASSUME IInv, [Next]_vars PROVE IInv'
  OBVIOUS
<1>1. CASE UNCHANGED vars
  <2>1. /\ UNCHANGED <<provider, said, messages, todo, spans, phase>>
        /\ spans \in Seq(Span)
        /\ phase \in {"loop", "waiting", "tools", "answered", "raised"}
        /\ phase = "waiting" => Len(said) < MaxTurns
    BY <1>1 DEF vars, IInv, Typed
  <2> QED BY <2>1, QuietStep
<1> QED BY <1>1, RequestStep, RespondStep, FailsStep, ToolsStep DEF Next, Over

-----------------------------------------------------------------------------
(* What the invariant says.                                                *)

(* Facts about one result.                                                 *)
LEMMA OfOneResult ==
    ASSUME IInv, NEW i \in DOMAIN messages, IsResult(i), NEW t, NEW k,
           t = messages[i].of[1], k = messages[i].of[2]
    PROVE  /\ i \in 1 .. Len(messages)
           /\ messages[i].of = <<t, k>> /\ messages[i].outcome \in Outcome
           /\ t \in 1 .. Len(said) /\ k \in 1 .. Len(said[t])
           /\ said[t] \in Seq(RawCall) /\ said[t][k] \in RawCall
           /\ Call(t, k).name = OwnName(said[t][k].name)
           /\ Call(t, k).args = IF said[t][k].readable THEN said[t][k].args ELSE {}
           /\ Turn(i) = t /\ Place(i) = k
           /\ messages[i].id = Call(t, k).id
           /\ messages[i].name = Call(t, k).name
           /\ Fits(messages[i].outcome, Call(t, k))
<1>1. /\ messages \in Seq(Message) /\ said \in Seq(Seq(RawCall)) /\ todo \in Seq(OwnCall)
      /\ i \in 1 .. Len(messages)
  BY DEF IInv, Typed
<1>2. messages[i] \in Result
  BY <1>1 DEF IsResult, Message, Asking
<1>3. messages[i].outcome \in Outcome /\ messages[i].of \in Nat \X Nat
  BY <1>2 DEF Result
<1>4. /\ t \in 1 .. Len(said) /\ k \in 1 .. Done(t)
      /\ Turn(i) = t /\ Place(i) = k
      /\ messages[i].id = Call(t, k).id
      /\ messages[i].name = Call(t, k).name
      /\ Fits(messages[i].outcome, Call(t, k))
  BY <1>1 DEF IInv, Answered
<1>5. said[t] \in Seq(RawCall) /\ Len(said[t]) \in Nat /\ Len(todo) \in Nat
  BY <1>1, <1>4
<1>6. Done(t) \in Int /\ Done(t) <= Len(said[t])
  BY <1>5 DEF Done
<1>7. k \in 1 .. Len(said[t])
  BY <1>4, <1>5, <1>6
<1>8. said[t][k] \in RawCall
  BY <1>5, <1>7
<1>9. /\ Call(t, k).name = OwnName(said[t][k].name)
      /\ Call(t, k).args = IF said[t][k].readable THEN said[t][k].args ELSE {}
  BY <1>5, <1>7, ParsedType DEF Call
<1> QED BY <1>1, <1>3, <1>4, <1>5, <1>7, <1>8, <1>9

(* The invariant gives the type invariant,                                 *)
LEMMA InvTypeOK == IInv => TypeOK
<1> SUFFICES ASSUME IInv PROVE TypeOK
  OBVIOUS
<1>1. /\ messages \in Seq(Message) /\ spans \in Seq(Span) /\ said \in Seq(Seq(RawCall))
      /\ MaxCalls \in Nat
  BY ExchangeAssumption DEF IInv, Typed
<1>2. ASSUME NEW i \in 1 .. Len(messages), IsResult(i)
      PROVE  /\ messages[i].outcome \in Outcome
             /\ messages[i].of \in (1 .. Len(said)) \X (1 .. MaxCalls)
  <2> DEFINE t == messages[i].of[1]
             k == messages[i].of[2]
  <2>1. i \in DOMAIN messages
    BY <1>1
  <2>2. /\ messages[i].of = <<t, k>> /\ messages[i].outcome \in Outcome
        /\ t \in 1 .. Len(said) /\ k \in 1 .. Len(said[t]) /\ said[t] \in Seq(RawCall)
    BY <1>2, <2>1, OfOneResult
  <2> HIDE DEF t, k
  <2>3. Len(said[t]) \in Nat /\ Len(said[t]) <= MaxCalls
    BY <2>2 DEF IInv, Numbered
  <2>4. k \in 1 .. MaxCalls
    BY <1>1, <2>2, <2>3
  <2> QED BY <2>2, <2>4
<1>3. \A i \in 1 .. Len(spans) : /\ spans[i].kind \in {"llm", "tool"}
                                 /\ spans[i].status \in {"open", "ok", "failed"}
  <2>1. \A i \in 1 .. Len(spans) : spans[i] \in Span
    BY <1>1
  <2> QED BY <2>1 DEF Span
<1>4. DOMAIN messages = 1 .. Len(messages) /\ DOMAIN spans = 1 .. Len(spans)
  BY <1>1
<1> QED BY <1>2, <1>3, <1>4 DEF TypeOK, IInv, Typed, Queue

(* the binding of arguments and the names that were advertised,            *)
LEMMA InvHandlers == IInv => HandlersBind /\ AdvertisedIsExecuted
<1> SUFFICES ASSUME IInv PROVE HandlersBind /\ AdvertisedIsExecuted
  OBVIOUS
<1>1. HandlersBind
  <2>1. ASSUME NEW i \in DOMAIN messages, IsResult(i), messages[i].outcome \in {"ok", "failed"}
        PROVE  LET call == Call(messages[i].of[1], messages[i].of[2])
               IN  call.name \in Tool /\ Binds(call.name, call.args)
    <3> DEFINE call == Call(messages[i].of[1], messages[i].of[2])
    <3>1. Fits(messages[i].outcome, call)
      BY <2>1, OfOneResult
    <3> HIDE DEF call
    <3>2. call.name \in Tool /\ ~Rejects(call.name, call.args)
      BY <2>1, <3>1 DEF Fits
    <3>3. Binds(call.name, call.args)
      BY <3>2, AcceptedBinds
    <3> QED BY <3>2, <3>3 DEF call
  <2> QED BY <2>1 DEF HandlersBind
<1>2. AdvertisedIsExecuted
  <2>1. ASSUME NEW i \in DOMAIN messages, IsResult(i), NEW x, NEW y,
               x = messages[i].of[1], y = messages[i].of[2], NEW t \in Tool,
               said[x][y].name = WireName(t), said[x][y].readable,
               Follows(said[x][y].args, Advertised(t))
        PROVE  \/ messages[i].outcome \in {"ok", "failed"}
               \/ /\ provider = "gemini" /\ messages[i].outcome = "rejected"
                  /\ ~(said[x][y].args \subseteq Schema(t).properties)
    <3>1. /\ Fits(messages[i].outcome, Call(x, y)) /\ messages[i].outcome \in Outcome
          /\ Call(x, y).name = OwnName(said[x][y].name)
          /\ Call(x, y).args = said[x][y].args
      BY <2>1, OfOneResult
    <3>2. Call(x, y).name = t
      BY <2>1, <3>1, ToolRecognised
    <3>3. \/ ~Rejects(t, Call(x, y).args)
          \/ provider = "gemini" /\ ~(said[x][y].args \subseteq Schema(t).properties)
      BY <2>1, <3>1, FollowedAccepted
    <3> QED BY <2>1, <3>1, <3>2, <3>3 DEF Fits, Outcome
  <2> QED BY <2>1 DEF AdvertisedIsExecuted
<1> QED BY <1>1, <1>2

(* what the next request says of the past,                                 *)
LEMMA InvHistory == IInv => HistoryAsSaid
<1> SUFFICES ASSUME IInv, NEW i \in DOMAIN messages, ~IsResult(i)
             PROVE  LET own == said[Turn(i)]
                        sent == SentCalls(messages[i].calls)
                    IN  /\ DOMAIN sent = DOMAIN own
                        /\ \A k \in DOMAIN own :
                             /\ sent[k].id = own[k].id
                             /\ sent[k].name = own[k].name
                             /\ own[k].readable => sent[k].args = own[k].args
  BY DEF HistoryAsSaid
<1>1. said \in Seq(Seq(RawCall)) /\ i \in 1 .. Len(messages)
  BY DEF IInv, Typed
<1>2. Turn(i) \in 1 .. Len(said) /\ messages[i].calls = Parsed(said[Turn(i)])
  BY <1>1 DEF IInv, Asked
<1> PICK t \in 1 .. Len(said) : t = Turn(i)
  BY <1>2
<1> PICK own \in Seq(RawCall) : own = said[t]
  BY <1>1
<1>3. /\ Parsed(own) \in Seq(OwnCall) /\ Len(Parsed(own)) = Len(own) /\ Len(own) \in Nat
      /\ \A k \in 1 .. Len(own) :
           /\ Parsed(own)[k].id = IF provider = "gemini" THEN <<0, k - 1>> ELSE own[k].id
           /\ Parsed(own)[k].name = OwnName(own[k].name)
           /\ Parsed(own)[k].args = IF own[k].readable THEN own[k].args ELSE {}
  BY ParsedType
<1> DEFINE sent == SentCalls(Parsed(own))
<1>4. /\ DOMAIN Parsed(own) = 1 .. Len(own) /\ DOMAIN own = 1 .. Len(own)
  BY <1>3
<1>5. /\ DOMAIN sent = 1 .. Len(own)
      /\ \A k \in 1 .. Len(own) :
           /\ sent[k].id = IF provider = "gemini" THEN <<>> ELSE Parsed(own)[k].id
           /\ sent[k].name = WireName(Parsed(own)[k].name)
           /\ sent[k].args = Parsed(own)[k].args
  BY <1>4 DEF SentCalls
<1> HIDE DEF sent
<1>6. ASSUME NEW k \in 1 .. Len(own)
      PROVE  /\ sent[k].id = own[k].id
             /\ sent[k].name = own[k].name
             /\ own[k].readable => sent[k].args = own[k].args
  <2>1. own[k] \in RawCall
    OBVIOUS
  <2> PICK name \in RawName : name = own[k].name
    BY <2>1 DEF RawCall
  <2>2. sent[k].name = own[k].name
    <3>1. sent[k].name = WireName(Parsed(own)[k].name)
      BY <1>5
    <3>2. Parsed(own)[k].name = OwnName(name)
      BY <1>3
    <3> QED BY <3>1, <3>2, NameReturned
  <2>3. own[k].id = IF provider = "gemini" THEN <<>> ELSE <<t, k>>
    BY DEF IInv, Numbered
  <2>4. sent[k].id = own[k].id
    <3>1. Parsed(own)[k].id = IF provider = "gemini" THEN <<0, k - 1>> ELSE own[k].id
      BY <1>3
    <3>2. sent[k].id = IF provider = "gemini" THEN <<>> ELSE Parsed(own)[k].id
      BY <1>5
    <3> QED BY <2>3, <3>1, <3>2
  <2>5. own[k].readable => sent[k].args = own[k].args
    <3>1. sent[k].args = Parsed(own)[k].args
      BY <1>5
    <3>2. Parsed(own)[k].args = IF own[k].readable THEN own[k].args ELSE {}
      BY <1>3
    <3> QED BY <3>1, <3>2
  <2> QED BY <2>2, <2>4, <2>5
<1> QED BY <1>2, <1>4, <1>5, <1>6 DEF sent

(* and the call each result is sent back for.                              *)
LEMMA InvReach == IInv => ResultsReachCalls
<1> SUFFICES ASSUME IInv, phase = "loop", NEW t \in DOMAIN said, NEW k \in DOMAIN said[t]
             PROVE  \E i \in DOMAIN messages :
                      /\ TakenFor(t, k) = {i}
                      /\ messages[i].of = <<t, k>>
                      /\ WireName(messages[i].name) = said[t][k].name
  BY DEF ResultsReachCalls
<1>1. /\ said \in Seq(Seq(RawCall)) /\ messages \in Seq(Message) /\ todo = <<>>
      /\ t \in 1 .. Len(said) /\ Len(todo) = 0
  BY DEF IInv, Typed, Queue
<1>2. said[t] \in Seq(RawCall) /\ Len(said[t]) \in Nat /\ k \in 1 .. Len(said[t])
  BY <1>1
<1>3. Done(t) = Len(said[t])
  BY <1>1, <1>2 DEF Done
<1>4. PICK i \in 1 .. Len(messages) : IsResult(i) /\ messages[i].of = <<t, k>>
  BY <1>1, <1>2, <1>3 DEF IInv, OneEach
<1>5. DOMAIN messages = 1 .. Len(messages)
  BY <1>1
<1>6. \A j \in DOMAIN messages : IsResult(j) /\ messages[j].of = <<t, k>> => j = i
  BY <1>4, <1>5 DEF IInv, OneEach
<1>7. /\ messages[i].of[1] = t /\ messages[i].of[2] = k
  BY <1>4
<1>8. WireName(messages[i].name) = said[t][k].name
  <2>1. messages[i].name = OwnName(said[t][k].name) /\ said[t][k] \in RawCall
    BY <1>4, <1>5, <1>7, OfOneResult
  <2>2. said[t][k].name \in RawName
    BY <2>1 DEF RawCall
  <2> QED BY <2>1, <2>2, NameReturned
<1>9. ASSUME NEW j \in DOMAIN messages, IsResult(j)
      PROVE  (IF provider = "gemini" THEN Turn(j) = t /\ Place(j) = k
                                     ELSE messages[j].id = said[t][k].id)
             <=> messages[j].of = <<t, k>>
  <2> DEFINE x == messages[j].of[1]
             y == messages[j].of[2]
  <2>1. /\ messages[j].of = <<x, y>> /\ x \in 1 .. Len(said) /\ y \in 1 .. Len(said[x])
        /\ Turn(j) = x /\ Place(j) = y /\ messages[j].id = Call(x, y).id
        /\ said[x] \in Seq(RawCall)
    BY <1>9, OfOneResult
  <2> HIDE DEF x, y
  <2>2. CASE provider = "gemini"
    BY <2>1, <2>2
  <2>3. CASE provider # "gemini"
    <3>1. Call(x, y).id = said[x][y].id
      BY <2>1, <2>3, ParsedType DEF Call
    <3>2. said[x][y].id = <<x, y>> /\ said[t][k].id = <<t, k>>
      BY <1>1, <1>2, <2>1, <2>3 DEF IInv, Numbered
    <3> QED BY <2>1, <2>3, <3>1, <3>2
  <2> QED BY <2>2, <2>3
<1>10. TakenFor(t, k) = {j \in DOMAIN messages : IsResult(j) /\ messages[j].of = <<t, k>>}
  BY <1>9 DEF TakenFor
<1>11. TakenFor(t, k) = {i}
  BY <1>4, <1>5, <1>6, <1>10
<1> QED BY <1>4, <1>5, <1>8, <1>11

-----------------------------------------------------------------------------

(* The state of the exchange is well typed.                                *)
THEOREM TypeCorrect == Spec => []TypeOK
BY InvInit, InvNext, InvTypeOK, PTL DEF Spec

(* With each of the three providers, for any number of turns and of calls  *)
(* in them: the next request has one result for each call, the call's own. *)
THEOREM ResultsReachTheirCalls == Spec => []ResultsReachCalls
BY InvInit, InvNext, InvReach, PTL DEF Spec

(* The translation to a provider's names and ids and back loses nothing,   *)
(* whatever the tools are called and whatever the model makes up.          *)
THEOREM HistoryIsAsSaid == Spec => []HistoryAsSaid
BY InvInit, InvNext, InvHistory, PTL DEF Spec

(* A model that follows what it was told of a tool is not refused, for any *)
(* signature of the handler, but for what Gemini is not told.              *)
THEOREM AdvertisedCallsRun == Spec => []AdvertisedIsExecuted
<1>1. IInv => AdvertisedIsExecuted
  BY InvHandlers
<1> QED BY InvInit, InvNext, <1>1, PTL DEF Spec

(* The check of the arguments lets none through that a handler does not    *)
(* take, for any signature.                                                *)
THEOREM HandlersAlwaysBind == Spec => []HandlersBind
<1>1. IInv => HandlersBind
  BY InvHandlers
<1> QED BY InvInit, InvNext, <1>1, PTL DEF Spec

-----------------------------------------------------------------------------
(***************************************************************************)
(* The trace: what TraceTellsRun says, in parts.  Beside it, the span that *)
(* a response closes must be known for one of a request: otherwise closing *)
(* it could change what the trace says of a tool.                          *)
(***************************************************************************)
Aligned ==
    /\ Traced(Len(spans)) = Known(Len(messages))
    /\ \A i \in 1 .. Len(spans), j \in 1 .. Len(messages) :
         IsTrace(i) /\ IsKnown(j) /\ Traced(i) = Known(j) =>
             (spans[i].status = "ok" <=> messages[j].outcome = "ok")

Spanned ==
    /\ Aligned
    /\ Len(spans) = Traced(Len(spans)) + Len(said)
                       + (IF phase \in {"waiting", "raised"} THEN 1 ELSE 0)
    /\ \A i \in 1 .. Len(spans) :
         spans[i].status = "open" <=> phase = "waiting" /\ i = Len(spans)
    /\ phase = "waiting" => Len(spans) >= 1 /\ spans[Len(spans)].kind = "llm"

(* Counting the members of a set up to a number.                           *)
LEMMA UpToCounts ==
    ASSUME NEW S, NEW n \in Nat
    PROVE  LET C(m) == Cardinality({i \in 1 .. m : i \in S})
           IN  /\ C(n) \in Nat
               /\ \A k \in 1 .. n : C(k) \in Nat /\ C(k) <= C(n)
               /\ C(n + 1) = C(n) + (IF n + 1 \in S THEN 1 ELSE 0)
<1> DEFINE U(m) == {i \in 1 .. m : i \in S}
<1>1. \A m \in Nat : IsFiniteSet(U(m)) /\ Cardinality(U(m)) \in Nat
  <2> SUFFICES ASSUME NEW m \in Nat PROVE IsFiniteSet(U(m)) /\ Cardinality(U(m)) \in Nat
    OBVIOUS
  <2>1. IsFiniteSet(1 .. m) /\ U(m) \subseteq 1 .. m
    BY FS_Interval
  <2>2. IsFiniteSet(U(m))
    BY <2>1, FS_Subset
  <2> QED BY <2>2, FS_CardinalityType
<1>2. \A k \in 1 .. n : Cardinality(U(k)) <= Cardinality(U(n))
  <2> SUFFICES ASSUME NEW k \in 1 .. n PROVE Cardinality(U(k)) <= Cardinality(U(n))
    OBVIOUS
  <2>1. U(k) \subseteq U(n) /\ k \in Nat
    OBVIOUS
  <2> QED BY <1>1, <2>1, FS_Subset
<1>3. U(n + 1) = U(n) \cup (IF n + 1 \in S THEN {n + 1} ELSE {})
  OBVIOUS
<1>4. n + 1 \notin U(n)
  OBVIOUS
<1> HIDE DEF U
<1>5. Cardinality(U(n + 1)) = Cardinality(U(n)) + (IF n + 1 \in S THEN 1 ELSE 0)
  <2>1. CASE n + 1 \in S
    <3>1. U(n + 1) = U(n) \cup {n + 1}
      BY <1>3, <2>1
    <3> QED BY <1>1, <1>4, <2>1, <3>1, FS_AddElement
  <2>2. CASE n + 1 \notin S
    <3>1. U(n + 1) = U(n)
      BY <1>3, <2>2
    <3> QED BY <1>1, <2>2, <3>1
  <2> QED BY <2>1, <2>2
<1>6. \A k \in 1 .. n : k \in Nat
  OBVIOUS
<1> QED BY <1>1, <1>2, <1>5, <1>6 DEF U

(* The numbers of tool spans and of known results up to a place.           *)
LEMMA TracedCounts ==
    ASSUME NEW n \in Nat
    PROVE  /\ Traced(n) \in Nat
           /\ \A k \in 1 .. n : Traced(k) \in Nat /\ Traced(k) <= Traced(n)
           /\ Traced(n + 1) = Traced(n) + (IF IsTrace(n + 1) THEN 1 ELSE 0)
<1> DEFINE S == {i \in Nat : IsTrace(i)}
<1>1. \A m \in Nat : {i \in 1 .. m : i \in S} = {i \in 1 .. m : IsTrace(i)}
  OBVIOUS
<1>2. n + 1 \in S <=> IsTrace(n + 1)
  OBVIOUS
<1>3. n + 1 \in Nat /\ \A k \in 1 .. n : k \in Nat
  OBVIOUS
<1> HIDE DEF S
<1>4. /\ Cardinality({i \in 1 .. n : i \in S}) \in Nat
      /\ \A k \in 1 .. n : /\ Cardinality({i \in 1 .. k : i \in S}) \in Nat
                           /\ Cardinality({i \in 1 .. k : i \in S})
                                <= Cardinality({i \in 1 .. n : i \in S})
      /\ Cardinality({i \in 1 .. n + 1 : i \in S}) =
           Cardinality({i \in 1 .. n : i \in S}) + (IF n + 1 \in S THEN 1 ELSE 0)
  BY UpToCounts
<1> QED BY <1>1, <1>2, <1>3, <1>4 DEF Traced

(* The same of known results.                                              *)
LEMMA KnownCounts ==
    ASSUME NEW n \in Nat
    PROVE  /\ Known(n) \in Nat
           /\ \A k \in 1 .. n : Known(k) \in Nat /\ Known(k) <= Known(n)
           /\ Known(n + 1) = Known(n) + (IF IsKnown(n + 1) THEN 1 ELSE 0)
<1> DEFINE S == {i \in Nat : IsKnown(i)}
<1>1. \A m \in Nat : {i \in 1 .. m : i \in S} = {i \in 1 .. m : IsKnown(i)}
  OBVIOUS
<1>2. n + 1 \in S <=> IsKnown(n + 1)
  OBVIOUS
<1>3. n + 1 \in Nat /\ \A k \in 1 .. n : k \in Nat
  OBVIOUS
<1> HIDE DEF S
<1>4. /\ Cardinality({i \in 1 .. n : i \in S}) \in Nat
      /\ \A k \in 1 .. n : /\ Cardinality({i \in 1 .. k : i \in S}) \in Nat
                           /\ Cardinality({i \in 1 .. k : i \in S})
                                <= Cardinality({i \in 1 .. n : i \in S})
      /\ Cardinality({i \in 1 .. n + 1 : i \in S}) =
           Cardinality({i \in 1 .. n : i \in S}) + (IF n + 1 \in S THEN 1 ELSE 0)
  BY UpToCounts
<1> QED BY <1>1, <1>2, <1>3, <1>4 DEF Known

(* They do not change up to a place where nothing did.                     *)
LEMMA TracedSame ==
    ASSUME NEW n \in Nat, \A i \in 1 .. n : IsTrace(i)' <=> IsTrace(i)
    PROVE  /\ Traced(n)' = Traced(n)
           /\ \A k \in 1 .. n : Traced(k)' = Traced(k)
<1>1. \A k \in 1 .. n : {i \in 1 .. k : IsTrace(i)'} = {i \in 1 .. k : IsTrace(i)}
  OBVIOUS
<1>2. {i \in 1 .. n : IsTrace(i)'} = {i \in 1 .. n : IsTrace(i)}
  OBVIOUS
<1> QED BY <1>1, <1>2 DEF Traced, IsTrace

(* The same of known results.                                              *)
LEMMA KnownSame ==
    ASSUME NEW n \in Nat, \A i \in 1 .. n : IsKnown(i)' <=> IsKnown(i)
    PROVE  /\ Known(n)' = Known(n)
           /\ \A k \in 1 .. n : Known(k)' = Known(k)
<1>1. \A k \in 1 .. n : {i \in 1 .. k : IsKnown(i)'} = {i \in 1 .. k : IsKnown(i)}
  OBVIOUS
<1>2. {i \in 1 .. n : IsKnown(i)'} = {i \in 1 .. n : IsKnown(i)}
  OBVIOUS
<1> QED BY <1>1, <1>2 DEF Known, IsKnown, IsResult

(* The counts one place further.                                           *)
LEMMA CountsNext ==
    \A n \in Nat :
        /\ Traced(n + 1) = Traced(n) + (IF IsTrace(n + 1) THEN 1 ELSE 0)
        /\ Known(n + 1) = Known(n) + (IF IsKnown(n + 1) THEN 1 ELSE 0)
BY TracedCounts, KnownCounts

(* They hold in the next state as in this one.                             *)
LEMMA CountsAfter ==
    \A n \in Nat :
        /\ Traced(n + 1)' = Traced(n)' + (IF IsTrace(n + 1)' THEN 1 ELSE 0)
        /\ Known(n + 1)' = Known(n)' + (IF IsKnown(n + 1)' THEN 1 ELSE 0)
<1>1. (\A n \in Nat :
        /\ Traced(n + 1) = Traced(n) + (IF IsTrace(n + 1) THEN 1 ELSE 0)
        /\ Known(n + 1) = Known(n) + (IF IsKnown(n + 1) THEN 1 ELSE 0))'
  BY CountsNext, PTL
<1> QED BY <1>1

(* Steps that add neither keep them together,                              *)
LEMMA NeitherAdded ==
    ASSUME Aligned, NEW n \in Nat, NEW m \in Nat, Len(spans) = n, Len(messages) = m,
           NEW n2 \in {n, n + 1}, NEW m2 \in {m, m + 1}, Len(spans') = n2, Len(messages') = m2,
           \A i \in 1 .. n : /\ IsTrace(i)' <=> IsTrace(i)
                             /\ IsTrace(i) => spans'[i].status = spans[i].status,
           \A j \in 1 .. m : messages'[j] = messages[j],
           n2 = n + 1 => ~IsTrace(n + 1)',
           m2 = m + 1 => ~IsKnown(m + 1)'
    PROVE  Aligned' /\ Traced(n2)' = Traced(n)
<1>1. \A j \in 1 .. m : IsKnown(j)' <=> IsKnown(j)
  BY DEF IsKnown, IsResult
<1>2. /\ Traced(n)' = Traced(n) /\ \A i \in 1 .. n : Traced(i)' = Traced(i)
      /\ Known(m)' = Known(m) /\ \A j \in 1 .. m : Known(j)' = Known(j)
  BY <1>1, TracedSame, KnownSame
<1>3. /\ Traced(n) \in Nat /\ Known(m) \in Nat
      /\ Traced(n + 1)' = Traced(n)' + (IF IsTrace(n + 1)' THEN 1 ELSE 0)
      /\ Known(m + 1)' = Known(m)' + (IF IsKnown(m + 1)' THEN 1 ELSE 0)
  BY TracedCounts, KnownCounts, CountsAfter
<1>4. Traced(n2)' = Traced(n) /\ Known(m2)' = Known(m)
  BY <1>2, <1>3
<1>5. \A i \in 1 .. n2 : IsTrace(i)' => i \in 1 .. n /\ IsTrace(i)
  OBVIOUS
<1>6. \A j \in 1 .. m2 : IsKnown(j)' => j \in 1 .. m /\ IsKnown(j)
  BY <1>1
<1> QED BY <1>2, <1>4, <1>5, <1>6 DEF Aligned

(* and so do steps that add one of each, if the two agree.                 *)
LEMMA BothAdded ==
    ASSUME Aligned, NEW n \in Nat, NEW m \in Nat, Len(spans) = n, Len(messages) = m,
           Len(spans') = n + 1, Len(messages') = m + 1,
           \A i \in 1 .. n : spans'[i] = spans[i],
           \A j \in 1 .. m : messages'[j] = messages[j],
           IsTrace(n + 1)', IsKnown(m + 1)',
           spans'[n + 1].status = "ok" <=> messages'[m + 1].outcome = "ok"
    PROVE  Aligned' /\ Traced(n + 1)' = Traced(n) + 1
<1>1. \A j \in 1 .. m : IsKnown(j)' <=> IsKnown(j)
  BY DEF IsKnown, IsResult
<1>2. \A i \in 1 .. n : IsTrace(i)' <=> IsTrace(i)
  BY DEF IsTrace
<1>3. /\ Traced(n)' = Traced(n) /\ \A i \in 1 .. n : Traced(i)' = Traced(i)
      /\ Known(m)' = Known(m) /\ \A j \in 1 .. m : Known(j)' = Known(j)
  BY <1>1, <1>2, TracedSame, KnownSame
<1>4. /\ Traced(n) \in Nat /\ \A i \in 1 .. n : Traced(i) \in Nat /\ Traced(i) <= Traced(n)
      /\ Known(m) \in Nat /\ \A j \in 1 .. m : Known(j) \in Nat /\ Known(j) <= Known(m)
  BY TracedCounts, KnownCounts
<1>5. Traced(n + 1)' = Traced(n) + 1 /\ Known(m + 1)' = Known(m) + 1
  BY <1>3, CountsAfter
<1>6. Traced(n) = Known(m)
  BY DEF Aligned
<1>7. ASSUME NEW i \in 1 .. n + 1, NEW j \in 1 .. m + 1,
             IsTrace(i)', IsKnown(j)', Traced(i)' = Known(j)'
      PROVE  spans'[i].status = "ok" <=> messages'[j].outcome = "ok"
  <2>1. CASE i = n + 1 /\ j = m + 1
    BY <2>1
  <2>2. CASE i \in 1 .. n /\ j \in 1 .. m
    <3>1. IsTrace(i) /\ IsKnown(j) /\ Traced(i) = Known(j)
      BY <1>1, <1>2, <1>3, <1>7, <2>2
    <3> QED BY <2>2, <3>1 DEF Aligned
  <2>3. CASE i = n + 1 /\ j \in 1 .. m
    BY <1>3, <1>4, <1>5, <1>6, <1>7, <2>3
  <2>4. CASE i \in 1 .. n /\ j = m + 1
    BY <1>3, <1>4, <1>5, <1>6, <1>7, <2>4
  <2>5. (i \in 1 .. n \/ i = n + 1) /\ (j \in 1 .. m \/ j = m + 1)
    OBVIOUS
  <2> QED BY <2>1, <2>2, <2>3, <2>4, <2>5
<1> QED BY <1>5, <1>6, <1>7 DEF Aligned

(* A sequence with one more element.                                       *)
LEMMA OneLonger ==
    ASSUME NEW S, NEW s \in Seq(S), NEW x
    PROVE  /\ Len(Append(s, x)) = Len(s) + 1 /\ Append(s, x)[Len(s) + 1] = x
           /\ \A i \in 1 .. Len(s) : Append(s, x)[i] = s[i]
<1>1. s \in Seq(S \cup {x})
  OBVIOUS
<1> QED BY <1>1

(* The first state: no span and no message.                                *)
LEMMA SpannedInit ==
    ASSUME Init
    PROVE  Spanned
<1>1. spans = <<>> /\ messages = <<>> /\ said = <<>> /\ phase = "loop"
  BY DEF Init
<1>2. Len(spans) = 0 /\ Len(messages) = 0 /\ Len(said) = 0
  BY <1>1
<1>3. {i \in 1 .. 0 : IsTrace(i)} = {} /\ {j \in 1 .. 0 : IsKnown(j)} = {}
  OBVIOUS
<1>4. Traced(0) = 0 /\ Known(0) = 0
  BY <1>3, FS_EmptySet DEF Traced, Known
<1> QED BY <1>1, <1>2, <1>4 DEF Spanned, Aligned

(* A request opens a span that is no tool's.                               *)
LEMMA RequestSpanned ==
    ASSUME IInv, Spanned, Request
    PROVE  Spanned'
<1> DEFINE s == [kind |-> "llm", status |-> "open"]
<1>0. PICK n \in Nat, m \in Nat : n = Len(spans) /\ m = Len(messages)
  BY DEF IInv, Typed
<1>1. /\ spans' = Append(spans, s) /\ messages' = messages /\ said' = said
      /\ phase = "loop" /\ phase' = "waiting"
  BY <1>0 DEF Request
<1>2. n \in Nat /\ m \in Nat /\ Len(said) \in Nat
  BY <1>0 DEF IInv, Typed
<1>3. Len(spans') = n + 1 /\ spans'[n + 1] = s /\ \A i \in 1 .. n : spans'[i] = spans[i]
  BY <1>0, <1>1, OneLonger DEF IInv, Typed
<1>4. Len(messages') = m /\ \A j \in 1 .. m : messages'[j] = messages[j]
  BY <1>0, <1>1
<1>5. \A i \in 1 .. n : IsTrace(i)' <=> IsTrace(i)
  BY <1>0, <1>3 DEF IsTrace
<1>6. ~IsTrace(n + 1)'
  BY <1>0, <1>3 DEF IsTrace
<1>6a. Traced(n) \in Nat
  BY <1>2, TracedCounts
<1>7. /\ Aligned
      /\ n = Traced(n) + Len(said)
      /\ \A i \in 1 .. n : spans[i].status # "open"
  <2>1. /\ Aligned
        /\ n = Traced(n) + Len(said) + (IF phase \in {"waiting", "raised"} THEN 1 ELSE 0)
        /\ \A i \in 1 .. n : spans[i].status = "open" => phase = "waiting"
    BY <1>0 DEF Spanned
  <2> QED BY <1>1, <1>2, <1>6a, <2>1
<1>8. Aligned' /\ Traced(n + 1)' = Traced(n)
  <2>1. PICK n2 \in {n, n + 1}, m2 \in {m, m + 1} : n2 = n + 1 /\ m2 = m
    OBVIOUS
  <2>2. m2 # m + 1
    BY <2>1
  <2>3. Aligned' /\ Traced(n2)' = Traced(n)
    BY <1>0, <1>3, <1>4, <1>5, <1>6, <1>7, <2>1, <2>2, NeitherAdded
  <2> QED BY <2>1, <2>3
<1>9. \A i \in 1 .. n + 1 : spans'[i].status = "open" <=> i = n + 1
  <2>1. \A i \in 1 .. n + 1 : i \in 1 .. n \/ i = n + 1
    BY <1>0, <1>2
  <2>2. \A i \in 1 .. n : i # n + 1
    BY <1>0, <1>2
  <2> QED BY <1>0, <1>3, <1>7, <2>1, <2>2
<1>10. Traced(Len(spans))' = Traced(n)
  BY <1>0, <1>3, <1>8
<1>11. Len(spans') = Traced(n) + Len(said) + 1
  BY <1>2, <1>3, <1>6a, <1>7
<1>12. Len(spans') >= 1 /\ spans'[Len(spans')].kind = "llm"
  BY <1>3
<1> HIDE DEF s
<1> QED BY <1>1, <1>3, <1>8, <1>9, <1>10, <1>11, <1>12 DEF Spanned

(* A response and a failure close it; the response adds no result.         *)
LEMMA EndSpanned ==
    ASSUME IInv, Spanned, Respond \/ RequestFails
    PROVE  Spanned'
<1>0. PICK n \in Nat, m \in Nat : n = Len(spans) /\ m = Len(messages)
  BY DEF IInv, Typed
<1>1. phase = "waiting"
  BY <1>0 DEF Respond, RequestFails
<1>2. n \in Nat /\ m \in Nat /\ Len(said) \in Nat /\ n >= 1
  BY <1>0, <1>1 DEF IInv, Typed, Spanned
<1>3. PICK status \in {"ok", "failed"} : spans' = Closed(status)
  BY <1>0 DEF Respond, RequestFails
<1>4. /\ Len(spans') = n
      /\ \A i \in 1 .. n : i # n => spans'[i] = spans[i]
      /\ spans'[n].kind = spans[n].kind /\ spans'[n].status = status
  <2>1. spans \in Seq(Span)
    BY <1>0 DEF IInv, Typed
  <2>2. n \in 1 .. n /\ spans[n] \in Span
    BY <1>0, <1>2, <2>1
  <2> QED BY <1>0, <1>3, <2>1, <2>2 DEF Closed, Span
<1>5. spans[n].kind = "llm"
  BY <1>0, <1>1 DEF Spanned
<1>6. \A i \in 1 .. n : /\ IsTrace(i)' <=> IsTrace(i)
                        /\ IsTrace(i) => spans'[i].status = spans[i].status
  BY <1>0, <1>4, <1>5 DEF IsTrace
<1>7. \A i \in 1 .. n : spans'[i].status # "open"
  BY <1>0, <1>1, <1>4 DEF Spanned
<1>8. \/ messages' = messages /\ said' = said /\ phase' = "raised"
      \/ /\ \E x : messages' = Append(messages, x) /\ x.role = "assistant"
         /\ \E y : said' = Append(said, y)
         /\ phase' \in {"answered", "tools"}
  <2>1. CASE Respond
    <3>1. PICK reply \in Reply :
            /\ said' = Append(said, Identified(reply))
            /\ messages' = Append(messages, AssistantMessage(Parsed(Identified(reply))))
            /\ phase' \in {"answered", "tools"}
      BY <2>1 DEF Respond
    <3>2. \A c : AssistantMessage(c).role = "assistant"
      BY DEF AssistantMessage
    <3> QED BY <3>1, <3>2
  <2>2. CASE RequestFails
    BY <2>2 DEF RequestFails
  <2> QED BY <2>1, <2>2
<1>9. \E m2 \in {m, m + 1} :
          /\ Len(messages') = m2
          /\ \A j \in 1 .. m : messages'[j] = messages[j]
          /\ m2 = m + 1 => ~IsKnown(m + 1)'
  <2>1. CASE messages' = messages
    BY <1>0, <1>2, <2>1
  <2>2. ASSUME NEW x, messages' = Append(messages, x), x.role = "assistant"
        PROVE  /\ Len(messages') = m + 1
               /\ \A j \in 1 .. m : messages'[j] = messages[j]
               /\ ~IsKnown(m + 1)'
    <3>1. /\ Len(messages') = m + 1 /\ messages'[m + 1] = x
          /\ \A j \in 1 .. m : messages'[j] = messages[j]
      BY <1>0, <2>2, OneLonger DEF IInv, Typed
    <3> QED BY <1>0, <2>2, <3>1 DEF IsKnown, IsResult
  <2> QED BY <1>0, <1>8, <2>1, <2>2
<1>10. Len(said') + (IF phase' = "raised" THEN 1 ELSE 0) = Len(said) + 1 /\ phase' # "waiting"
  <2>1. ASSUME NEW y, said' = Append(said, y) PROVE Len(said') = Len(said) + 1
    BY <1>0, <2>1, OneLonger DEF IInv, Typed
  <2> QED BY <1>0, <1>2, <1>8, <2>1
<1>11. Aligned /\ n = Traced(n) + Len(said) + 1
  BY <1>0, <1>1 DEF Spanned
<1>12. Aligned' /\ Traced(n)' = Traced(n)
  BY <1>0, <1>2, <1>4, <1>6, <1>9, <1>11, NeitherAdded
<1>13. Traced(n) \in Nat /\ Len(said') \in Nat
  <2>1. Len(said') \in Nat
    BY <1>0, RespondStep, FailsStep DEF IInv, Typed
  <2> QED BY <1>0, <1>2, <2>1, TracedCounts
<1>14. Traced(Len(spans))' = Traced(n)
  BY <1>0, <1>4, <1>12
<1> QED BY <1>0, <1>2, <1>4, <1>7, <1>10, <1>11, <1>12, <1>13, <1>14 DEF Spanned

(* A call's result comes with its span, unless there is no such tool.      *)
LEMMA ToolSpanned ==
    ASSUME IInv, Spanned, UnknownTool \/ RejectCall \/ RunHandler
    PROVE  Spanned'
<1>0. PICK n \in Nat, m \in Nat : n = Len(spans) /\ m = Len(messages)
  BY DEF IInv, Typed
<1>1. PICK outcome \in Outcome :
        /\ Results(outcome)
        /\ outcome = "unknown" => spans' = spans
        /\ outcome # "unknown" =>
             \E status \in {"ok", "failed"} :
                /\ spans' = Append(spans, [kind |-> "tool", status |-> status])
                /\ status = "ok" <=> outcome = "ok"
  BY <1>0 DEF UnknownTool, RejectCall, RunHandler, Outcome
<1>2. /\ phase = "tools" /\ phase' \in {"loop", "tools"} /\ said' = said
      /\ \E x : /\ messages' = Append(messages, x)
                /\ x.role = "tool" /\ x.outcome = outcome
  BY <1>0, <1>1 DEF Results, ToolMessage
<1>3. n \in Nat /\ m \in Nat /\ Len(said) \in Nat
  BY <1>0 DEF IInv, Typed
<1>4. PICK x : messages' = Append(messages, x) /\ x.role = "tool" /\ x.outcome = outcome
  BY <1>0, <1>2
<1>5. /\ Len(messages') = m + 1 /\ messages'[m + 1] = x
      /\ \A j \in 1 .. m : messages'[j] = messages[j]
  BY <1>0, <1>4, OneLonger DEF IInv, Typed
<1>6. IsKnown(m + 1)' <=> outcome # "unknown"
  BY <1>0, <1>4, <1>5 DEF IsKnown, IsResult
<1>6a. Traced(n) \in Nat
  BY TracedCounts
<1>7. /\ Aligned
      /\ n = Traced(n) + Len(said)
      /\ \A i \in 1 .. n : spans[i].status # "open"
  <2>1. /\ Aligned
        /\ n = Traced(n) + Len(said) + (IF phase \in {"waiting", "raised"} THEN 1 ELSE 0)
        /\ \A i \in 1 .. n : spans[i].status = "open" => phase = "waiting"
    BY <1>0 DEF Spanned
  <2> QED BY <1>2, <1>3, <1>6a, <2>1
<1>8. CASE outcome = "unknown"
  <2>1. /\ Len(spans') = n
        /\ \A i \in 1 .. n : spans'[i] = spans[i]
        /\ \A i \in 1 .. n : IsTrace(i)' <=> IsTrace(i)
    BY <1>0, <1>1, <1>8 DEF IsTrace
  <2>2. Aligned' /\ Traced(n)' = Traced(n)
    <3>1. PICK n2 \in {n, n + 1}, m2 \in {m, m + 1} : n2 = n /\ m2 = m + 1
      OBVIOUS
    <3>2. n2 # n + 1
      BY <3>1
    <3>3. Aligned' /\ Traced(n2)' = Traced(n)
      BY <1>0, <1>5, <1>6, <1>7, <1>8, <2>1, <3>1, <3>2, NeitherAdded
    <3> QED BY <3>1, <3>3
  <2>3. Traced(Len(spans))' = Traced(n)
    BY <1>0, <2>1, <2>2
  <2> QED BY <1>0, <1>2, <1>3, <1>7, <1>6a, <2>1, <2>2, <2>3 DEF Spanned
<1>9. CASE outcome # "unknown"
  <2>1. PICK status \in {"ok", "failed"} :
          /\ spans' = Append(spans, [kind |-> "tool", status |-> status])
          /\ status = "ok" <=> outcome = "ok"
    BY <1>0, <1>1, <1>9
  <2> DEFINE s == [kind |-> "tool", status |-> status]
  <2>2. Len(spans') = n + 1 /\ spans'[n + 1] = s /\ \A i \in 1 .. n : spans'[i] = spans[i]
    BY <1>0, <2>1, OneLonger DEF IInv, Typed
  <2>3. IsTrace(n + 1)' /\ spans'[n + 1].status = status
    BY <1>0, <2>2 DEF IsTrace
  <2>4. spans'[n + 1].status = "ok" <=> messages'[m + 1].outcome = "ok"
    BY <1>0, <1>4, <1>5, <2>1, <2>3
  <2> HIDE DEF s
  <2>5. Aligned' /\ Traced(n + 1)' = Traced(n) + 1
    BY <1>0, <1>3, <1>5, <1>6, <1>7, <1>9, <2>2, <2>3, <2>4, BothAdded
  <2>6. \A i \in 1 .. n + 1 : spans'[i].status # "open"
    <3>1. \A i \in 1 .. n + 1 : i \in 1 .. n \/ i = n + 1
      BY <1>0, <1>3
    <3> QED BY <1>0, <1>7, <2>1, <2>2, <2>3, <3>1
  <2>7. Traced(Len(spans))' = Traced(n) + 1
    BY <1>0, <2>2, <2>5
  <2> QED BY <1>0, <1>2, <1>3, <1>7, <1>6a, <2>2, <2>5, <2>6, <2>7 DEF Spanned
<1> QED BY <1>0, <1>8, <1>9

(* Every step.                                                             *)
LEMMA SpannedNext == IInv /\ Spanned /\ [Next]_vars => Spanned'
<1> SUFFICES ASSUME IInv, Spanned, [Next]_vars PROVE Spanned'
  OBVIOUS
<1>1. CASE UNCHANGED vars
  <2>1. /\ spans' = spans /\ messages' = messages /\ said' = said /\ phase' = phase
    BY <1>1 DEF vars
  <2>2. PICK n \in Nat, m \in Nat : n = Len(spans) /\ m = Len(messages)
    BY DEF IInv, Typed
  <2>3. \A i \in 1 .. n : IsTrace(i)' <=> IsTrace(i)
    BY <2>1 DEF IsTrace
  <2>4. Aligned' /\ Traced(n)' = Traced(n)
    BY <2>1, <2>2, <2>3, NeitherAdded DEF Spanned
  <2>5. Traced(Len(spans))' = Traced(n)
    BY <2>1, <2>2, <2>4
  <2> QED BY <2>1, <2>2, <2>4, <2>5 DEF Spanned
<1> QED BY <1>1, RequestSpanned, EndSpanned, ToolSpanned DEF Next, Over

(* Whatever fails, in the service or in a handler: the trace of a run has  *)
(* a span for every request and every call of a known tool, in order, and  *)
(* those that failed are the ones the model was told of.                   *)
THEOREM TraceIsTrue == Spec => []TraceTellsRun
<1>1. IInv /\ Spanned => TraceTellsRun
  <2> SUFFICES ASSUME IInv, Spanned PROVE TraceTellsRun
    OBVIOUS
  <2>1. DOMAIN spans = 1 .. Len(spans) /\ DOMAIN messages = 1 .. Len(messages)
    BY DEF IInv, Typed
  <2> QED BY <2>1 DEF TraceTellsRun, Spanned, Aligned
<1>2. Init => Spanned
  BY SpannedInit
<1> QED BY <1>1, <1>2, InvInit, InvNext, SpannedNext, PTL DEF Spec

=============================================================================
