---------------------------- MODULE Transcript ----------------------------
(***************************************************************************)
(* The messages of a conversation as their sizes (agent/context.py,        *)
(* llm/base.py).  Texts are left out; the numbers of the code are kept:    *)
(* four characters make a token, and a compacted tool result is an excerpt *)
(* of 240 characters behind a header that states the size it had.          *)
(***************************************************************************)
EXTENDS Integers, FiniteSetsExt, Sequences

CONSTANTS
    TokenBudget,  \* token_budget, settings.context_token_budget
    KeepRecent,   \* keep_recent: 8 for the lead agent, 6 for a subagent
    SystemChars,  \* the length of the system prompt
    TaskChars,    \* the length of the task, the first user message
    LineChars     \* the length of a line of the progress ledger

ASSUME ContextAssumption ==
    /\ TokenBudget \in Nat /\ KeepRecent \in Nat
    /\ SystemChars \in Nat /\ TaskChars \in Nat /\ LineChars \in Nat

STUB_HEAD == 240

AtLeastOne(n) == IF n >= 1 THEN n ELSE 1

(* estimate_tokens: of a text with this many characters.                   *)
Tokens(chars) == AtLeastOne(chars \div 4)

(***************************************************************************)
(* A message: fixed is the estimate of its text and of the calls it asks   *)
(* for, which nothing changes; length is the size of its tool result; and  *)
(* claims is the size that the header of a stub states, 0 if there is no   *)
(* header.  body, which the code does not keep, is the size it had at      *)
(* first.                                                                  *)
(***************************************************************************)
UserMessage == [role |-> "user", fixed |-> Tokens(TaskChars), length |-> 0, claims |-> 0, body |-> 0]

AssistantMessage(tokens) ==
    [role |-> "assistant", fixed |-> tokens, length |-> 0, claims |-> 0, body |-> 0]

ToolMessage(chars) ==
    [role |-> "tool", fixed |-> Tokens(0), length |-> chars, claims |-> 0, body |-> chars]

Message == [role : {"user", "assistant", "tool"}, fixed : Nat, length : Nat, claims : Nat, body : Nat]

(* The number of digits of a size below 10^9.                              *)
Digits(n) == Cardinality({k \in 0 .. 8 : 10 ^ k <= n})

(* "[compacted N chars] " + the first 240 characters + an ellipsis.        *)
StubChars(n) == 11 + Digits(n) + 8 + STUB_HEAD + 1

Stubbed(m) == [m EXCEPT !.length = StubChars(m.length), !.claims = m.length]

MessageTokens(m) == m.fixed + (IF m.role = "tool" THEN Tokens(m.length) ELSE 0)

(* "PROGRESS LEDGER (pinned):" and a dash before every line.               *)
LedgerChars(notes) == IF notes = 0 THEN 0 ELSE 25 + notes * (LineChars + 3)

(* estimated_tokens().                                                     *)
EstimatedTokens(messages, notes) ==
    Tokens(SystemChars) + Tokens(LedgerChars(notes))
      + MapThenSumSet(LAMBDA i : MessageTokens(messages[i]), DOMAIN messages)

FitsBudget(messages, notes) == EstimatedTokens(messages, notes) <= TokenBudget

(* The last keep_recent of n messages.  (Faulty: one fewer.)               *)
ShortTail(n) == {i \in 1 .. n : i > n - KeepRecent + 1}

ProtectedTail(n) == {i \in 1 .. n : i > n - KeepRecent}

(* The messages that a compaction passes over whatever they hold.  The     *)
(* task is the first message of every conversation.                        *)
Protected(n) == {1} \cup ProtectedTail(n)

=============================================================================
