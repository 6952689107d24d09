--------------------------- MODULE Conversation ---------------------------
(***************************************************************************)
(* The conversation of one run of run_agent (agent/context.py, with the    *)
(* calls that agent/loop.py makes): before every request the transcript is *)
(* compacted, message by message; the model's turn is added; and for every *)
(* call of the turn a result and a line of the progress ledger.            *)
(***************************************************************************)
EXTENDS Transcript

CONSTANTS
    ResultChars,   \* the sizes of tool results
    TurnTokens,    \* the estimates of an assistant turn, its calls included
    MaxTurnCalls,  \* bound: calls the model asks for in one turn
    MaxMessages    \* bound: messages in the transcript

ASSUME InputAssumption ==
    /\ ResultChars \subseteq Nat /\ TurnTokens \subseteq Nat
    /\ MaxTurnCalls \in Nat /\ MaxMessages \in Nat

VARIABLES
    messages,   \* the transcript
    compacted,  \* _compacted: the positions of the messages already stubbed
    notes,      \* the number of lines of the progress ledger
    pending,    \* calls of the last turn that have no result yet
    phase,      \* what run_agent is about to do
    cursor      \* the position compact_if_needed() has come to

vars == <<messages, compacted, notes, pending, phase, cursor>>

Phase == {"compact", "scan", "request", "results", "over"}

-----------------------------------------------------------------------------
(* compact_if_needed().                                                    *)

Fits == FitsBudget(messages, notes)

(* Faulty: the scan goes on where the last one stopped.                    *)
StartScanResuming ==
    /\ phase = "compact"
    /\ phase' = IF Fits THEN "request" ELSE "scan"
    /\ UNCHANGED <<messages, compacted, notes, pending, cursor>>

StartScan ==
    /\ phase = "compact"
    /\ phase' = IF Fits THEN "request" ELSE "scan"
    /\ cursor' = 1
    /\ UNCHANGED <<messages, compacted, notes, pending>>

(* Faulty: a message that is a stub already is cut again.                  *)
CompactableTwice(i) ==
    /\ i \notin Protected(Len(messages))
    /\ messages[i].role = "tool"
    /\ messages[i].length > STUB_HEAD

(* The message at this position is to be stubbed.                          *)
Compactable(i) ==
    /\ i \notin Protected(Len(messages))
    /\ messages[i].role = "tool" /\ i \notin compacted
    /\ messages[i].length > STUB_HEAD

(* The loop ends: break, or no message is left.                            *)
ScanOver ==
    /\ phase = "scan" /\ (cursor > Len(messages) \/ Fits)
    /\ phase' = "request"
    /\ UNCHANGED <<messages, compacted, notes, pending, cursor>>

Scanning == phase = "scan" /\ cursor <= Len(messages)

Skip ==
    /\ Scanning /\ ~Fits /\ ~Compactable(cursor)
    /\ cursor' = cursor + 1
    /\ UNCHANGED <<messages, compacted, notes, pending, phase>>

(* Faulty: the budget is not looked at again before a message is cut.      *)
StubUnchecked ==
    /\ Scanning /\ Compactable(cursor)
    /\ messages' = [messages EXCEPT ![cursor] = Stubbed(@)]
    /\ compacted' = compacted \cup {cursor}
    /\ cursor' = cursor + 1
    /\ UNCHANGED <<notes, pending, phase>>

(* Faulty: one stub is taken to be enough.                                 *)
StubOne ==
    /\ Scanning /\ ~Fits /\ Compactable(cursor)
    /\ messages' = [messages EXCEPT ![cursor] = Stubbed(@)]
    /\ compacted' = compacted \cup {cursor}
    /\ cursor' = cursor + 1
    /\ phase' = "request"
    /\ UNCHANGED <<notes, pending>>

Stub ==
    /\ Scanning /\ ~Fits /\ Compactable(cursor)
    /\ messages' = [messages EXCEPT ![cursor] = Stubbed(@)]
    /\ compacted' = compacted \cup {cursor}
    /\ cursor' = cursor + 1
    /\ UNCHANGED <<notes, pending, phase>>

-----------------------------------------------------------------------------
(* The rest of run_agent's loop.                                           *)

(* The model's turn; one without calls ends the run.                       *)
Turn ==
    /\ phase = "request"
    /\ \E tokens \in TurnTokens, calls \in 0 .. MaxTurnCalls :
         /\ Len(messages) + 1 + calls < MaxMessages \/ calls = 0
         /\ messages' = Append(messages, AssistantMessage(tokens))
         /\ pending' = calls
         /\ phase' = IF calls = 0 THEN "over" ELSE "results"
    /\ UNCHANGED <<compacted, notes, cursor>>

(* A call's result, and note().                                            *)
AddResult ==
    /\ phase = "results"
    /\ \E chars \in ResultChars : messages' = Append(messages, ToolMessage(chars))
    /\ notes' = notes + 1
    /\ pending' = pending - 1
    /\ phase' = IF pending = 1 THEN "compact" ELSE "results"
    /\ UNCHANGED <<compacted, cursor>>

Over == phase = "over" /\ UNCHANGED vars

Init ==
    /\ messages = <<UserMessage>>
    /\ compacted = {}
    /\ notes = 0 /\ pending = 0
    /\ phase = "compact"
    /\ cursor = 1

Next == StartScan \/ ScanOver \/ Skip \/ Stub \/ Turn \/ AddResult \/ Over

Spec == Init /\ [][Next]_vars

-----------------------------------------------------------------------------
(* Properties.                                                             *)

(* Every variable has its type.                                            *)
TypeOK ==
    /\ messages \in Seq(Message)
    /\ compacted \subseteq 1 .. Len(messages)
    /\ notes \in Nat /\ pending \in 0 .. MaxTurnCalls
    /\ phase \in Phase /\ cursor \in Nat \ {0}

(* A request carries the task and the last keep_recent messages verbatim,  *)
(* whatever earlier compactions did when the transcript was shorter.       *)
RecentVerbatim ==
    \A i \in 1 .. Len(messages) :
        i = 1 \/ i > Len(messages) - KeepRecent => messages[i].claims = 0

(* Oldest first: if a result has been cut down, so has every long result   *)
(* before it; the model never sees a gap in the middle of its history.     *)
OldestFirst ==
    \A i, j \in DOMAIN messages :
        i < j /\ messages[j].claims # 0 /\ messages[i].body > STUB_HEAD
            => messages[i].claims # 0

(* A stub states the size of the result that the tool returned, and what   *)
(* is not a stub is that result: compacting again never cuts a stub.       *)
StubTellsSize ==
    \A i \in DOMAIN messages :
        LET m == messages[i] IN IF m.claims = 0 THEN m.length = m.body ELSE m.claims = m.body

(* A request that goes out over budget is one that nothing allowed to be   *)
(* cut could have made smaller.                                            *)
OverBudgetOnlyIfCut ==
    phase = "request" /\ ~Fits => \A i \in DOMAIN messages : ~Compactable(i)

(* The loop computes what AtomicCompaction defines: while it scans, the    *)
(* result is already determined.                                           *)
Now == INSTANCE AtomicCompaction

Atomic == INSTANCE AtomicCompaction
            WITH messages <- IF phase = "scan" THEN Now!Compacted ELSE messages

ImplementsAtomicCompaction == Atomic!Spec

=============================================================================
