---------------------------- MODULE AgentSystem ----------------------------
(***************************************************************************)
(* The agent: run_agent (agent/loop.py) driving a language model and the   *)
(* tools of a registry, and the subagents that the orchestration tools run *)
(* inside one of its tool calls (agent/subagent.py).                       *)
(*                                                                         *)
(* A subagent is a nested call of run_agent, so the state is a stack of    *)
(* frames: stack[1] is the run the repair flow started, and a frame above  *)
(* another is the subagent that the first call of the lower frame's todo   *)
(* is waiting for.  Only the top frame takes steps.                        *)
(*                                                                         *)
(* The model is the environment: it may answer a request with any calls,   *)
(* of tools that exist or not, with a text, or not at all.  The contents   *)
(* of messages are left out (Conversation treats their sizes); what is     *)
(* kept of one is its role, the calls it asks for, the call it answers and *)
(* whether it reports an error.                                            *)
(***************************************************************************)
EXTENDS ToolRegistry, Integers, Sequences, FiniteSets

CONSTANTS
    AnalyzeFailure,  \* the tool orchestration.analyze_failure
    ReviewPatch,     \* the tool orchestration.review_patch
    Load,            \* the tool tools.load
    MaxToolCalls,    \* settings.max_tool_calls, the budget of the session
    AnalystCalls,    \* the analyst's max_tool_calls
    ReviewerCalls,   \* the reviewer's max_tool_calls
    DynamicTools,    \* settings.dynamic_tools
    NoSuchTool,      \* a name the model may invent
    MaxTurnCalls     \* bound: calls the model asks for in one turn

Spawner == {AnalyzeFailure, ReviewPatch}

ASSUME AgentAssumption ==
    /\ Spawner \cup {Load} \subseteq Tool
    /\ AnalyzeFailure # ReviewPatch
    /\ \A t \in Spawner : NamespaceOf[t] = "orchestration" /\ ScopeOf[t] = "read"
    /\ NamespaceOf[Load] = META_NAMESPACE /\ ScopeOf[Load] = "read"
    /\ NoSuchTool \notin Tool
    /\ MaxToolCalls \in Nat /\ AnalystCalls \in Nat /\ ReviewerCalls \in Nat
    /\ DynamicTools \in BOOLEAN
    /\ MaxTurnCalls \in Nat \ {0}

VARIABLES
    stack,     \* the nested runs of run_agent, the innermost last
    edits,     \* how many times the handler of a write tool took effect
    spans,     \* how many spans of kind "tool" the shared tracer holds
    outcome    \* how the session ended, as the repair flow reports it

vars == <<stack, edits, spans, outcome>>

-----------------------------------------------------------------------------
(* Messages and frames.                                                    *)

Name == Tool \cup {NoSuchTool}

Call == [id : 1 .. MaxTurnCalls, name : Name]

UserMessage == [role |-> "user"]
AssistantMessage(n) == [role |-> "assistant", calls |-> n]
ToolMessage(id, ok) == [role |-> "tool", id |-> id, ok |-> ok]

Message == [role : {"user"}]
             \cup [role : {"assistant"}, calls : 0 .. MaxTurnCalls]
             \cup [role : {"tool"}, id : 1 .. MaxTurnCalls, ok : BOOLEAN]

(***************************************************************************)
(* A run of run_agent as it starts: a fresh conversation that holds the    *)
(* task, the registry it may use and its own budget.  role is the tool     *)
(* that spawned it, or "lead".                                             *)
(***************************************************************************)
NewFrame(role, tools, max) ==
    [role |-> role, tools |-> tools, max |-> max,
     calls |-> 0, turns |-> 0,
     msgs |-> <<UserMessage>>,
     ledger |-> <<>>,   \* per tool call, whether it ended well
     todo |-> <<>>,     \* calls of the current turn without a result yet
     active |-> {},     \* ctx.active_tools
     menu |-> {}]       \* the tools the last request advertised

AllowedNamespaces(t) == IF t = AnalyzeFailure THEN {"ci", "code"} ELSE {"code", "git"}

SubBudget(t) == IF t = AnalyzeFailure THEN AnalystCalls ELSE ReviewerCalls

(* Faulty variants of a definition precede it; the runs must tell them     *)
(* from the code.  Here: no namespace filter, and the write tools kept.    *)
UnfilteredSubagentFrame(t, parent) ==
    NewFrame(t, Scoped(parent.tools, {}, "read"), SubBudget(t))

WritingSubagentFrame(t, parent) ==
    NewFrame(t, Scoped(parent.tools, AllowedNamespaces(t), "write"), SubBudget(t))

(* run_subagent: the child's registry is a view of the spawner's own.      *)
SubagentFrame(t, parent) ==
    NewFrame(t, Scoped(parent.tools, AllowedNamespaces(t), "read"), SubBudget(t))

Top == stack[Len(stack)]

Lead == stack[1]

SetTop(f) == [stack EXCEPT ![Len(stack)] = f]

(* build_specs: subagents run in static mode, whatever the setting.        *)
Advertised(f) ==
    IF DynamicTools /\ f.role = "lead"
      THEN MetaSpecs(f.tools) \cup SpecsFor(f.tools, f.active)
      ELSE DomainSpecs(f.tools)

WithinBudgetLate(f) == f.calls <= f.max

WithinBudgetEarly(f) == f.calls + 1 < f.max

WithinBudget(f) == f.calls < f.max

Counted(f) == [f EXCEPT !.calls = @ + 1]

(* Faulty: every call is noted as a success.                               *)
AnsweredNotingSuccess(f, ok) ==
    [f EXCEPT !.msgs = Append(@, ToolMessage(Head(f.todo).id, ok)),
              !.ledger = Append(@, TRUE),
              !.todo = Tail(@)]

(* The result of the pending call reaches the transcript and the ledger.   *)
Answered(f, ok) ==
    [f EXCEPT !.msgs = Append(@, ToolMessage(Head(f.todo).id, ok)),
              !.ledger = Append(@, ok),
              !.todo = Tail(@)]

(* Faulty: the subagent's transcript spills into its parent's.             *)
ReturnedWithTranscript(ok) ==
    [i \in 1 .. Len(stack) - 1 |->
        IF i = Len(stack) - 1
          THEN Answered([stack[i] EXCEPT !.msgs = @ \o Top.msgs], ok)
          ELSE stack[i]]

(* A subagent is over: what it returned or raised becomes the result of    *)
(* the call its parent is waiting for, and nothing else of it remains.     *)
Returned(ok) ==
    [i \in 1 .. Len(stack) - 1 |->
        IF i = Len(stack) - 1 THEN Answered(stack[i], ok) ELSE stack[i]]

-----------------------------------------------------------------------------
(* The model's turn.  compact_if_needed() comes first in the code; it      *)
(* changes no role, call, id or flag of a message.                         *)

Running == outcome.kind = "running"

IsSubagent == Len(stack) > 1

AwaitsModel == Running /\ Top.todo = <<>>

Ended(kind, calls, turns) == [kind |-> kind, calls |-> calls, turns |-> turns]

TurnCalls ==
    UNION {[1 .. n -> Name] : n \in 1 .. MaxTurnCalls}

Replied(f, n) ==
    [f EXCEPT !.turns = @ + 1,
              !.menu = Advertised(f),
              !.msgs = Append(@, AssistantMessage(n))]

Asked(f, names) ==
    [Replied(f, Len(names)) EXCEPT
        !.todo = [i \in 1 .. Len(names) |-> [id |-> i, name |-> names[i]]]]

(* The model asks for at least one call.                                   *)
ModelCallsTools ==
    /\ AwaitsModel
    /\ \E names \in TurnCalls : stack' = SetTop(Asked(Top, names))
    /\ UNCHANGED <<edits, spans, outcome>>

(* Faulty: the two counts of the result change places.                     *)
LeadAnswersSwapped ==
    /\ AwaitsModel /\ ~IsSubagent
    /\ stack' = SetTop(Replied(Top, 0))
    /\ outcome' = Ended("completed", Top.turns + 1, Top.calls)
    /\ UNCHANGED <<edits, spans>>

(* The lead agent's model replies with a text only: the run is complete.   *)
LeadAnswers ==
    /\ AwaitsModel /\ ~IsSubagent
    /\ stack' = SetTop(Replied(Top, 0))
    /\ outcome' = Ended("completed", Top.calls, Top.turns + 1)
    /\ UNCHANGED <<edits, spans>>

(* A subagent's model replies with a text only.  Without a JSON object in  *)
(* it the spawning tool fails; any object is handed to the parent.         *)
SubagentAnswers ==
    /\ AwaitsModel /\ IsSubagent
    /\ \E ok \in BOOLEAN : stack' = Returned(ok)
    /\ UNCHANGED <<edits, spans, outcome>>

(* The turn counts even if the provider gives no answer.                   *)
Unanswered(f) == [f EXCEPT !.turns = @ + 1]

(* The provider raises, its retries exhausted.  Nothing above run_agent    *)
(* handles that for the lead agent; in a subagent, execute() does.         *)
ModelFails ==
    /\ AwaitsModel
    /\ IF IsSubagent
         THEN /\ stack' = Returned(FALSE)
              /\ UNCHANGED outcome
         ELSE /\ stack' = SetTop(Unanswered(Top))
              /\ outcome' = Ended("aborted", -1, -1)
    /\ UNCHANGED <<edits, spans>>

-----------------------------------------------------------------------------
(* The pending call of the top frame.                                      *)

(* "tool-call budget exhausted; wrap up and report what you have."         *)
Refused(f) ==
    [f EXCEPT !.msgs = Append(@, ToolMessage(Head(f.todo).id, FALSE))]

OverBudget == Running /\ Top.todo # <<>> /\ ~WithinBudget(Top)

(* The call is refused and BudgetExceededError ends the run; the repair    *)
(* flow reports the budget as the number of calls, and -1 turns.           *)
LeadOverBudget ==
    /\ OverBudget /\ ~IsSubagent
    /\ stack' = SetTop(Refused(Top))
    /\ outcome' = Ended("exhausted", MaxToolCalls, -1)
    /\ UNCHANGED <<edits, spans>>

(* Faulty: the exception is swallowed and the loop tries the call again.   *)
SubagentOverBudgetSwallowed == OverBudget /\ IsSubagent /\ UNCHANGED vars

(* In a subagent the exception is one more tool failure to the parent.     *)
SubagentOverBudget ==
    /\ OverBudget /\ IsSubagent
    /\ stack' = Returned(FALSE)
    /\ UNCHANGED <<edits, spans, outcome>>

Dispatches(name) ==
    /\ Running /\ Top.todo # <<>> /\ WithinBudget(Top)
    /\ Head(Top.todo).name = name

(* Faulty: the call is skipped without a result.                           *)
UnknownToolSkipped ==
    /\ \E name \in Name \ Top.tools : Dispatches(name)
    /\ stack' = SetTop([Counted(Top) EXCEPT !.todo = Tail(@)])
    /\ UNCHANGED <<edits, spans, outcome>>

(* ToolNotFoundError: counted and answered, but no span is opened.         *)
UnknownTool ==
    /\ \E name \in Name \ Top.tools : Dispatches(name)
    /\ stack' = SetTop(Answered(Counted(Top), FALSE))
    /\ UNCHANGED <<edits, spans, outcome>>

(* Invalid arguments, or a handler that raises, after an effect or before  *)
(* it; for a spawner, before the subagent starts.                          *)
ToolFails ==
    /\ \E t \in Top.tools :
         /\ Dispatches(t)
         /\ edits' \in {edits} \cup (IF ScopeOf[t] = "write" THEN {edits + 1} ELSE {})
    /\ stack' = SetTop(Answered(Counted(Top), FALSE))
    /\ spans' = spans + 1
    /\ UNCHANGED outcome

RunTool ==
    /\ \E t \in Top.tools \ (Spawner \cup {Load}) :
         /\ Dispatches(t)
         /\ edits' \in {edits} \cup (IF ScopeOf[t] = "write" THEN {edits + 1} ELSE {})
    /\ stack' = SetTop(Answered(Counted(Top), TRUE))
    /\ spans' = spans + 1
    /\ UNCHANGED outcome

(* Faulty: the new names replace the old ones.                             *)
ActivatedOnly(f, names) == [f EXCEPT !.active = names]

Activated(f, names) == [f EXCEPT !.active = @ \cup names]

(* tools.load: the names the model asks for that are domain tools of its   *)
(* registry, or all those of a namespace, become active.  If it fails at   *)
(* one of them (a name that is no string), those before it stay so.        *)
LoadTools ==
    /\ Load \in Top.tools /\ Dispatches(Load)
    /\ \E ok \in BOOLEAN, names \in SUBSET DomainSpecs(Top.tools) :
         stack' = SetTop(Activated(Answered(Counted(Top), ok), names))
    /\ spans' = spans + 1
    /\ UNCHANGED <<edits, outcome>>

SpawnSubagent ==
    /\ \E t \in Spawner \cap Top.tools :
         /\ Dispatches(t)
         /\ stack' = Append(SetTop(Counted(Top)), SubagentFrame(t, Top))
    /\ spans' = spans + 1
    /\ UNCHANGED <<edits, outcome>>

(* The run has ended; the process goes on to the verification.             *)
Done == ~Running /\ UNCHANGED vars

-----------------------------------------------------------------------------

Init ==
    /\ stack = <<NewFrame("lead", Tool, MaxToolCalls)>>
    /\ edits = 0
    /\ spans = 0
    /\ outcome = Ended("running", -1, -1)

Next ==
    \/ ModelCallsTools
    \/ LeadAnswers
    \/ SubagentAnswers
    \/ ModelFails
    \/ LeadOverBudget
    \/ SubagentOverBudget
    \/ UnknownTool
    \/ ToolFails
    \/ RunTool
    \/ LoadTools
    \/ SpawnSubagent
    \/ Done

Spec == Init /\ [][Next]_vars

(***************************************************************************)
(* One thread runs everything, and every wait in it ends: commands, HTTP   *)
(* requests and the provider's SDK have time-outs and retries a last       *)
(* attempt.  So the program takes a step whenever it can.  Nothing is      *)
(* assumed of which step: the model may go on asking for tools.            *)
(***************************************************************************)
FairSpec == Spec /\ WF_vars(Next)

-----------------------------------------------------------------------------
(* Properties.                                                             *)

Role == {"lead"} \cup Spawner

Frame == [role : Role, tools : SUBSET Tool, max : Nat,
          calls : Nat, turns : Nat,
          msgs : Seq(Message), ledger : Seq(BOOLEAN), todo : Seq(Call),
          active : SUBSET Tool, menu : SUBSET Tool]

Outcome == [kind : {"running", "completed", "exhausted", "aborted"},
            calls : Nat \cup {-1}, turns : Nat \cup {-1}]

(* Every variable has its type; the lead agent's frame is never popped.    *)
TypeOK ==
    /\ stack \in Seq(Frame) /\ stack # <<>>
    /\ edits \in Nat /\ spans \in Nat
    /\ outcome \in Outcome

Frames == {stack[i] : i \in 1 .. Len(stack)}

(***************************************************************************)
(* A provider rejects a request whose transcript leaves a call without a   *)
(* result, or answers one twice or out of place.  Whenever a request may   *)
(* be sent, every assistant turn is followed by one result per call, in    *)
(* the order of the calls, and then by the next turn.                      *)
(***************************************************************************)
WellPaired(msgs) ==
    \A i \in 1 .. Len(msgs) : msgs[i].role = "assistant" =>
        LET n == msgs[i].calls
        IN  /\ i + n <= Len(msgs)
            /\ \A k \in 1 .. n : msgs[i + k].role = "tool" /\ msgs[i + k].id = k
            /\ i + n < Len(msgs) => msgs[i + n + 1].role = "assistant"

RequestsWellPaired == \A f \in Frames : f.todo = <<>> => WellPaired(f.msgs)

(***************************************************************************)
(* The pinned ledger, which outlives the transcript's compaction and is    *)
(* what the report shows, tells of every result in the transcript whether  *)
(* it was an error, in order, and of nothing else.  (The refusal that ends *)
(* an exhausted run is in the transcript only.)                            *)
(***************************************************************************)
ResultsUpTo(msgs, i) == Cardinality({j \in 1 .. i : msgs[j].role = "tool"})

LedgerTells(f) ==
    /\ Len(f.ledger) = ResultsUpTo(f.msgs, Len(f.msgs))
    /\ \A i \in 1 .. Len(f.msgs) :
         f.msgs[i].role = "tool" => f.ledger[ResultsUpTo(f.msgs, i)] = f.msgs[i].ok

LedgerMatchesResults ==
    outcome.kind # "exhausted" => \A f \in Frames : LedgerTells(f)

(***************************************************************************)
(* A subagent cannot spawn: no orchestration tool is in a namespace it is  *)
(* allowed, so runs nest two deep and their budgets multiply only once.    *)
(***************************************************************************)
OneLevelOfSubagents == Len(stack) <= 2

(* While a subagent runs, no write tool takes effect: the repository the   *)
(* analyst or the reviewer looks at is the one its parent left, as far as  *)
(* the scopes that the tools declare are true.                             *)
SubagentNeverEdits == [][IsSubagent => edits' = edits]_vars

(* A subagent's turns and calls leave no trace in the run that spawned it, *)
(* except for the one result with which it is over.                        *)
ParentIsolated ==
    [][IsSubagent => /\ Lead'.active = Lead.active
                     /\ Lead'.calls = Lead.calls
                     /\ Lead' # Lead =>
                          /\ Len(stack') = 1
                          /\ Len(Lead'.msgs) = Len(Lead.msgs) + 1
                          /\ Lead'.msgs[Len(Lead'.msgs)].role = "tool"]_vars

(***************************************************************************)
(* Tools run: each call of the lead agent may cost one subagent's budget   *)
(* on top of itself, and no more than that.                                *)
(***************************************************************************)
LargestSubBudget == IF AnalystCalls >= ReviewerCalls THEN AnalystCalls ELSE ReviewerCalls

SessionBound == spans <= MaxToolCalls * (1 + LargestSubBudget)

(* A run sends at most one request more than it has budget: a turn that    *)
(* asks for tools uses at least one call before the next request.          *)
RequestsBounded == \A f \in Frames : f.turns <= f.max + 1

(* The count in the report is the number of calls the lead agent made,     *)
(* which for an exhausted run is taken from the settings, not counted.     *)
ReportedCalls ==
    outcome.kind \in {"completed", "exhausted"} => outcome.calls = Lead.calls

(* A tool that one request of the lead agent advertises is on the menu of  *)
(* every later one: the model may rely on what it has loaded.              *)
MenuGrows == [][Lead.menu \subseteq Lead'.menu]_vars

(* The session ends, however the model behaves.                            *)
Termination == <>(~Running)

(* The lead agent's run is what the flow is promised.                      *)
Agent == INSTANCE BoundedAgent WITH used <- Lead.calls, status <- outcome.kind

ImplementsBoundedAgent == Agent!Spec

=============================================================================
