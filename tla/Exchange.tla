------------------------------ MODULE Exchange ------------------------------
(***************************************************************************)
(* One run of the loop (agent/loop.py) as its provider sees it: the        *)
(* transcript is translated into each request (to_api_messages,            *)
(* to_messages, to_contents) and each response into calls                  *)
(* (parse_response), which the registry executes under a span of the       *)
(* tracer.  Budgets and subagents are in AgentSystem, retries in           *)
(* ServiceCall.                                                            *)
(*                                                                         *)
(* Anthropic and Groq give each call an id of its own and look for its     *)
(* result under that id; Gemini has no ids and goes by the order.          *)
(***************************************************************************)
EXTENDS ToolSchema, Integers, FiniteSets

CONSTANTS
    Invented,   \* names a model makes up
    Arguments,  \* sets of names of arguments a model sends
    MaxTurns,   \* bound: responses of the model
    MaxCalls    \* bound: calls in a response

Provider == {"anthropic", "groq", "gemini"}

ASSUME ExchangeAssumption ==
    /\ MaxTurns \in Nat /\ MaxCalls \in Nat
    /\ Invented \subseteq Seq(STRING)
    /\ \A n \in Invented : "." \notin Range(n)

VARIABLES
    provider,  \* whose client the loop calls
    said,      \* the calls the service has made, by response
    messages,  \* the transcript after the task
    todo,      \* the calls of the current turn that are not executed yet
    spans,     \* the tracer's spans: what kind, and "open", "ok" or "failed"
    phase      \* "loop", "waiting", "tools", "answered" or "raised"

vars == <<provider, said, messages, todo, spans, phase>>

-----------------------------------------------------------------------------
(* Translation.                                                            *)

WireName(name) == IF provider = "anthropic" THEN San(name) ELSE name

(* Faulty: names are not translated back.                                  *)
OwnNameAsIs(name) == name

OwnName(name) == IF provider = "anthropic" THEN Desan(name) ELSE name

(* to_api_tools and to_tools: what the service is told of a tool.          *)
Advertised(t) == IF provider = "gemini" THEN CleanSchema(Schema(t)) ELSE Schema(t)

(* Faulty: the calls of each response are numbered for every provider.     *)
ParsedNumbered(reply) ==
    [k \in DOMAIN reply |->
        [id |-> <<0, k - 1>>, name |-> OwnName(reply[k].name),
         args |-> IF reply[k].readable THEN reply[k].args ELSE {}]]

(* parse_response: Gemini's calls are numbered from 0 in each response;    *)
(* arguments that are no JSON object are taken for none.                   *)
Parsed(reply) ==
    [k \in DOMAIN reply |->
        [id |-> IF provider = "gemini" THEN <<0, k - 1>> ELSE reply[k].id,
         name |-> OwnName(reply[k].name),
         args |-> IF reply[k].readable THEN reply[k].args ELSE {}]]

(* Faulty: names are translated in the list of tools only.                 *)
SentCallsDotted(calls) ==
    [k \in DOMAIN calls |->
        [id |-> IF provider = "gemini" THEN <<>> ELSE calls[k].id,
         name |-> calls[k].name, args |-> calls[k].args]]

(* The calls of an assistant's message in a request.                       *)
SentCalls(calls) ==
    [k \in DOMAIN calls |->
        [id |-> IF provider = "gemini" THEN <<>> ELSE calls[k].id,
         name |-> WireName(calls[k].name), args |-> calls[k].args]]

-----------------------------------------------------------------------------

AssistantMessage(calls) == [role |-> "assistant", calls |-> calls]

(* The result of the call "of", a turn and a position in it.               *)
ToolMessage(call, outcome, of) ==
    [role |-> "tool", id |-> call.id, name |-> call.name, outcome |-> outcome, of |-> of]

Closed(status) == [spans EXCEPT ![Len(spans)].status = status]

(* Another turn: the span opens, the request is sent.                      *)
Request ==
    /\ phase = "loop" /\ Len(said) < MaxTurns
    /\ spans' = Append(spans, [kind |-> "llm", status |-> "open"])
    /\ phase' = "waiting"
    /\ UNCHANGED <<provider, said, messages, todo>>

(* What a service may put into a response.  The arguments Groq passes on   *)
(* are a string of the model's, which may not be readable.                 *)
Block ==
    {block \in [id : {<<>>},
                name : {WireName(t) : t \in Tool} \cup Invented,
                args : Arguments \cup {{}},
                readable : BOOLEAN] :
        ~block.readable => provider = "groq" /\ block.args = {}}

Reply == UNION {[1 .. n -> Block] : n \in 0 .. MaxCalls}

Identified(reply) ==
    IF provider = "gemini" THEN reply
    ELSE [k \in DOMAIN reply |-> [reply[k] EXCEPT !.id = <<Len(said) + 1, k>>]]

(* The response; one without calls is the answer.                          *)
Respond ==
    /\ phase = "waiting"
    /\ \E reply \in Reply :
         /\ said' = Append(said, Identified(reply))
         /\ messages' = Append(messages, AssistantMessage(Parsed(Identified(reply))))
         /\ todo' = Parsed(Identified(reply))
         /\ phase' = IF reply = <<>> THEN "answered" ELSE "tools"
    /\ spans' = Closed("ok")
    /\ UNCHANGED provider

(* complete() raises, and so does run_agent().                             *)
RequestFails ==
    /\ phase = "waiting"
    /\ spans' = Closed("failed")
    /\ phase' = "raised"
    /\ UNCHANGED <<provider, said, messages, todo>>

(* The next call and its result, whatever becomes of it.                   *)
Results(outcome) ==
    /\ phase = "tools"
    /\ messages' = Append(messages,
         ToolMessage(Head(todo), outcome,
                     <<Len(said), Len(said[Len(said)]) - Len(todo) + 1>>))
    /\ todo' = Tail(todo)
    /\ phase' = IF Tail(todo) = <<>> THEN "loop" ELSE "tools"
    /\ UNCHANGED <<provider, said>>

(* ToolNotFoundError, before there is a span.                              *)
UnknownTool ==
    /\ Results("unknown")
    /\ Head(todo).name \notin Tool
    /\ UNCHANGED spans

(* Faulty: the span does not learn of invalid arguments.                   *)
RejectCallUnmarked ==
    /\ Results("rejected")
    /\ Head(todo).name \in Tool /\ Rejects(Head(todo).name, Head(todo).args)
    /\ spans' = Append(spans, [kind |-> "tool", status |-> "ok"])

(* ToolInputError.                                                         *)
RejectCall ==
    /\ Results("rejected")
    /\ Head(todo).name \in Tool /\ Rejects(Head(todo).name, Head(todo).args)
    /\ spans' = Append(spans, [kind |-> "tool", status |-> "failed"])

(* The handler runs; it may raise anything.                                *)
RunHandler ==
    /\ \E outcome \in {"ok", "failed"} :
         /\ Results(outcome)
         /\ spans' = Append(spans, [kind |-> "tool", status |-> outcome])
    /\ Head(todo).name \in Tool /\ ~Rejects(Head(todo).name, Head(todo).args)

(* Nothing more happens; at MaxTurns the model only leaves off.            *)
Over ==
    /\ \/ phase \in {"answered", "raised"}
       \/ phase = "loop" /\ Len(said) = MaxTurns
    /\ UNCHANGED vars

Init ==
    /\ provider \in Provider
    /\ said = <<>> /\ messages = <<>> /\ todo = <<>> /\ spans = <<>>
    /\ phase = "loop"

Next ==
    \/ Request \/ Respond \/ RequestFails
    \/ UnknownTool \/ RejectCall \/ RunHandler \/ Over

Spec == Init /\ [][Next]_vars

-----------------------------------------------------------------------------
(* How a service reads the transcript in the next request.                 *)

IsResult(i) == messages[i].role = "tool"

(* The response after which a message stands, and its place there.         *)
Turn(i) == Cardinality({j \in 1 .. i : ~IsResult(j)})

Place(i) == Cardinality({j \in 1 .. i : IsResult(j) /\ Turn(j) = Turn(i)})

(* The results a service takes for those of its k-th call in response t.   *)
TakenFor(t, k) ==
    {i \in DOMAIN messages :
        /\ IsResult(i)
        /\ IF provider = "gemini" THEN Turn(i) = t /\ Place(i) = k
                                  ELSE messages[i].id = said[t][k].id}

Call(t, k) == Parsed(said[t])[k]

-----------------------------------------------------------------------------
(* Properties.                                                             *)

Outcome == {"ok", "failed", "rejected", "unknown"}

(* Every variable has its type, and a response is worked off in order.     *)
TypeOK ==
    /\ provider \in Provider
    /\ Len(said) <= MaxTurns
    /\ phase \in {"loop", "waiting", "tools", "answered", "raised"}
    /\ phase = "tools" <=> todo # <<>>
    /\ \A i \in DOMAIN messages :
         IsResult(i) => /\ messages[i].outcome \in Outcome
                        /\ messages[i].of \in (1 .. Len(said)) \X (1 .. MaxCalls)
    /\ \A i \in DOMAIN spans : /\ spans[i].kind \in {"llm", "tool"}
                               /\ spans[i].status \in {"open", "ok", "failed"}

(***************************************************************************)
(* Whatever the provider: in the next request each call it has made has    *)
(* one result, the one that this call had, under the name it used.  Calls  *)
(* of several responses may have the same id and the same name.            *)
(***************************************************************************)
ResultsReachCalls ==
    phase = "loop" =>
        \A t \in DOMAIN said : \A k \in DOMAIN said[t] :
            \E i \in DOMAIN messages :
                /\ TakenFor(t, k) = {i}
                /\ messages[i].of = <<t, k>>
                /\ WireName(messages[i].name) = said[t][k].name

(* A service finds its own calls in the transcript as it made them, made   *)
(* up names included; only arguments that are not readable become none.    *)
HistoryAsSaid ==
    \A i \in DOMAIN messages :
        ~IsResult(i) =>
            LET own == said[Turn(i)]
                sent == SentCalls(messages[i].calls)
            IN  /\ DOMAIN sent = DOMAIN own
                /\ \A k \in DOMAIN own :
                     /\ sent[k].id = own[k].id
                     /\ sent[k].name = own[k].name
                     /\ own[k].readable => sent[k].args = own[k].args

(***************************************************************************)
(* A call of a tool by the name that was advertised, with arguments that   *)
(* follow the schema that was advertised, is executed.  Only Gemini, which *)
(* is not told that there may be no others, can follow its schema and be   *)
(* rejected: for an argument that the handler does not have.               *)
(***************************************************************************)
AdvertisedIsExecuted ==
    \A i \in DOMAIN messages :
        IsResult(i) =>
            LET own == said[messages[i].of[1]][messages[i].of[2]]
            IN  \A t \in Tool :
                  /\ own.name = WireName(t)
                  /\ own.readable /\ Follows(own.args, Advertised(t))
                  => \/ messages[i].outcome \in {"ok", "failed"}
                     \/ /\ provider = "gemini" /\ messages[i].outcome = "rejected"
                        /\ ~(own.args \subseteq Schema(t).properties)

(* Whatever the model sends, a handler only runs with arguments it has.    *)
HandlersBind ==
    \A i \in DOMAIN messages :
        IsResult(i) /\ messages[i].outcome \in {"ok", "failed"} =>
            LET call == Call(messages[i].of[1], messages[i].of[2])
            IN  call.name \in Tool /\ Binds(call.name, call.args)

(* Spans of tools, and results of known tools, up to a place.              *)
IsTrace(i) == spans[i].kind = "tool"
IsKnown(j) == IsResult(j) /\ messages[j].outcome # "unknown"

Traced(n) == Cardinality({i \in 1 .. n : IsTrace(i)})
Known(n) == Cardinality({j \in 1 .. n : IsKnown(j)})

(***************************************************************************)
(* The trace of a run tells what happened: its tool spans are the results  *)
(* of known tools in the same order, failed where the model was told of an *)
(* error; there is a span for each request, open only while it is out.     *)
(***************************************************************************)
TraceTellsRun ==
    /\ Traced(Len(spans)) = Known(Len(messages))
    /\ \A i \in DOMAIN spans, j \in DOMAIN messages :
         IsTrace(i) /\ IsKnown(j) /\ Traced(i) = Known(j) =>
             (spans[i].status = "ok" <=> messages[j].outcome = "ok")
    /\ Len(spans) = Traced(Len(spans)) + Len(said)
                       + (IF phase \in {"waiting", "raised"} THEN 1 ELSE 0)
    /\ \A i \in DOMAIN spans : spans[i].status = "open" <=> phase = "waiting" /\ i = Len(spans)

=============================================================================
