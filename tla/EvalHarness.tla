---------------------------- MODULE EvalHarness ----------------------------
(***************************************************************************)
(* The evaluation (eval/harness.py): the repair flow is run on each of a   *)
(* list of cases, one after the other, and the outcomes are scored.  Of    *)
(* the flow there is what RepairFlow shows of it: it ends with a report,   *)
(* whose verdict is that of the suite on the tree it leaves behind, or in  *)
(* an exception.                                                           *)
(***************************************************************************)
EXTENDS Integers, Sequences, FiniteSetsExt

CONSTANTS
    NumCases,     \* the number of cases
    MaxToolCalls  \* settings.max_tool_calls

ASSUME EvalAssumption == NumCases \in Nat /\ MaxToolCalls \in Nat \ {0}

VARIABLES
    verified, tool_calls, error,  \* the local variables of run_eval()
    outcomes,                     \* the outcomes so far
    fates,                        \* how the flow really ended on each case
    result                        \* the score and the exit code, at the end

locals == <<verified, tool_calls, error>>
evalVars == <<locals, outcomes, fates, result>>

NoResult == [passed |-> -1, calls |-> -1, code |-> -1]

-----------------------------------------------------------------------------

(* The variables as this iteration leaves them become the case's outcome.  *)
Recorded ==
    outcomes' = Append(outcomes,
        [passed |-> verified', calls |-> tool_calls', error |-> error'])

CasesLeft == Len(outcomes) < NumCases

Fate(kind, green, calls) == [kind |-> kind, green |-> green, calls |-> calls]

(* repair_repository() returns; the agent has completed its run, or was    *)
(* stopped at its budget, and the suite passes or not in either case.      *)
CaseReports ==
    /\ CasesLeft
    /\ \E kind \in {"completed", "stopped"}, green \in BOOLEAN, calls \in 0 .. MaxToolCalls :
         /\ kind = "stopped" => calls = MaxToolCalls
         /\ verified' = green /\ tool_calls' = calls
         /\ fates' = Append(fates, Fate(kind, green, calls))
    /\ error' = FALSE
    /\ Recorded
    /\ UNCHANGED result

(* Faulty: an exception leaves the previous case's verdict in place.       *)
CaseCrashesStale ==
    /\ CasesLeft
    /\ \E green \in BOOLEAN : fates' = Append(fates, Fate("crashed", green, 0))
    /\ error' = TRUE
    /\ UNCHANGED <<verified, tool_calls>>
    /\ Recorded
    /\ UNCHANGED result

(* It raises, whatever state it has brought the repository to.             *)
CaseCrashes ==
    /\ CasesLeft
    /\ \E green \in BOOLEAN : fates' = Append(fates, Fate("crashed", green, 0))
    /\ verified' = FALSE /\ tool_calls' = -1 /\ error' = TRUE
    /\ Recorded
    /\ UNCHANGED result

Passed == Cardinality({i \in DOMAIN outcomes : outcomes[i].passed})

AllPassed == \A i \in DOMAIN outcomes : outcomes[i].passed

CallsMade ==
    MapThenSumSet(LAMBDA i : outcomes[i].calls,
                  {i \in DOMAIN outcomes : outcomes[i].calls >= 0})

(* Faulty: the last case decides the exit code.                            *)
ScoreLast ==
    /\ ~CasesLeft /\ result = NoResult
    /\ result' = [passed |-> Passed, calls |-> CallsMade,
                  code |-> IF verified THEN 0 ELSE 1]
    /\ UNCHANGED <<locals, outcomes, fates>>

(* score() and the end of main(); the averages are quotients of these      *)
(* sums and the number of cases.                                           *)
Score ==
    /\ ~CasesLeft /\ result = NoResult
    /\ result' = [passed |-> Passed, calls |-> CallsMade,
                  code |-> IF AllPassed THEN 0 ELSE 1]
    /\ UNCHANGED <<locals, outcomes, fates>>

EvalInit ==
    /\ verified = FALSE /\ tool_calls = 0 /\ error = FALSE
    /\ outcomes = <<>> /\ fates = <<>>
    /\ result = NoResult

EvalNext == CaseReports \/ CaseCrashes \/ Score

EvalSpec == EvalInit /\ [][EvalNext]_evalVars

-----------------------------------------------------------------------------
(* Properties.                                                             *)

(* A case passes on its own merits: a case that crashes is recorded as     *)
(* failed, with an error, however the cases before it went, and the cases  *)
(* after it are still run and recorded in their places.                    *)
OutcomesAreOwn ==
    /\ Len(outcomes) = Len(fates)
    /\ \A i \in DOMAIN outcomes :
         LET own == fates[i].kind # "crashed"
         IN  /\ outcomes[i].passed = (own /\ fates[i].green)
             /\ outcomes[i].error = ~own
             /\ own => outcomes[i].calls = fates[i].calls

(* The process exits with 0 exactly if the flow left every repository with *)
(* a suite that passes, and said so.                                       *)
ExitTruthful ==
    result # NoResult =>
        (result.code = 0 <=> \A i \in 1 .. NumCases :
                                 fates[i].kind # "crashed" /\ fates[i].green)

=============================================================================
