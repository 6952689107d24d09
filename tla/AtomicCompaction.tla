------------------------- MODULE AtomicCompaction -------------------------
(***************************************************************************)
(* What compaction does to a transcript, as a definition rather than a     *)
(* loop: of the tool results that are long, not protected and still in     *)
(* full, the oldest ones are cut down, and no more of them than it takes   *)
(* for the estimate to fit the budget.  Otherwise a transcript only grows. *)
(***************************************************************************)
EXTENDS Transcript

VARIABLES
    messages,  \* the transcript
    notes      \* the number of lines of the progress ledger

vars == <<messages, notes>>

InFull(m) == m.role = "tool" /\ m.claims = 0 /\ m.length > STUB_HEAD

(* The transcript with everything that may be cut before position k cut.   *)
CutBefore(k) ==
    [i \in DOMAIN messages |->
        IF i < k /\ i \notin Protected(Len(messages)) /\ InFull(messages[i])
          THEN Stubbed(messages[i])
          ELSE messages[i]]

(* The first position from which nothing has to be cut, or the end.        *)
Enough ==
    LET n == Len(messages)
        Fitting == {k \in 1 .. n : FitsBudget(CutBefore(k), notes)}
    IN  IF Fitting = {} THEN n + 1 ELSE Min(Fitting)

Compacted == CutBefore(Enough)

Init == messages = <<UserMessage>> /\ notes = 0

(* A new message is in full; the result of a call adds a ledger line.      *)
Extend ==
    /\ Len(messages') = Len(messages) + 1
    /\ \A i \in DOMAIN messages : messages'[i] = messages[i]
    /\ messages'[Len(messages')].claims = 0
    /\ notes' = IF messages'[Len(messages')].role = "tool" THEN notes + 1 ELSE notes

Compact == messages' = Compacted /\ UNCHANGED notes

Next == Extend \/ Compact

Spec == Init /\ [][Next]_vars

=============================================================================
