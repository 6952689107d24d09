-------------------------- MODULE Programs_proofs --------------------------
(***************************************************************************)
(* Proofs about EvalHarness, for any number of cases and any budget, and   *)
(* about Programs, for every environment, repository and sandbox root, any *)
(* modules of tools, and any number of cases to evaluate.                  *)
(***************************************************************************)
EXTENDS Programs, SandboxCopy_proofs

-----------------------------------------------------------------------------
(* The evaluation.                                                         *)

Outcome == [passed : BOOLEAN, calls : Int, error : BOOLEAN]

CaseFate == [kind : {"completed", "stopped", "crashed"}, green : BOOLEAN, calls : Nat]

(* An outcome says what became of its case.                                *)
Matches(outcome, fate) ==
    LET own == fate.kind # "crashed"
    IN  /\ outcome.passed = (own /\ fate.green)
        /\ outcome.error = ~own
        /\ own => outcome.calls = fate.calls

(* The cases so far, each with its outcome in its place.                   *)
CasesMatch ==
    /\ outcomes \in Seq(Outcome) /\ fates \in Seq(CaseFate)
    /\ Len(outcomes) = Len(fates) /\ Len(outcomes) <= NumCases
    /\ \A i \in 1 .. Len(outcomes) : Matches(outcomes[i], fates[i])

(* The exit code is computed once, after the last case.                    *)
CodeIsFinal ==
    result # NoResult =>
        /\ Len(outcomes) = NumCases
        /\ result.code = 0 <=> AllPassed

EvalInv == CasesMatch /\ CodeIsFinal

-----------------------------------------------------------------------------

(* The invariant holds before the first case.                              *)
LEMMA EvalInvInit == EvalInit => EvalInv
BY EvalAssumption DEF EvalInit, EvalInv, CasesMatch, CodeIsFinal

(* One more case.                                                          *)
LEMMA CaseRecorded ==
    ASSUME EvalInv, CasesLeft, result' = result,
           NEW o \in Outcome, NEW f \in CaseFate, Matches(o, f),
           outcomes' = Append(outcomes, o), fates' = Append(fates, f)
    PROVE  EvalInv'
<1>1. /\ outcomes \in Seq(Outcome) /\ fates \in Seq(CaseFate)
      /\ Len(outcomes) \in Nat /\ Len(outcomes) = Len(fates) /\ NumCases \in Nat
      /\ Len(outcomes) < NumCases
  BY EvalAssumption DEF EvalInv, CasesMatch, CasesLeft
<1>2. /\ outcomes' \in Seq(Outcome) /\ Len(outcomes') = Len(outcomes) + 1
      /\ \A i \in 1 .. Len(outcomes) : outcomes'[i] = outcomes[i]
      /\ outcomes'[Len(outcomes) + 1] = o
  BY <1>1, AppendProperties
<1>3. /\ fates' \in Seq(CaseFate) /\ Len(fates') = Len(fates) + 1
      /\ \A i \in 1 .. Len(fates) : fates'[i] = fates[i]
      /\ fates'[Len(fates) + 1] = f
  BY <1>1, AppendProperties
<1>4. ASSUME NEW i \in 1 .. Len(outcomes') PROVE Matches(outcomes'[i], fates'[i])
  <2>1. CASE i \in 1 .. Len(outcomes)
    <3>1. Matches(outcomes[i], fates[i])
      BY <2>1 DEF EvalInv, CasesMatch
    <3>2. outcomes'[i] = outcomes[i] /\ fates'[i] = fates[i]
      BY <1>1, <1>2, <1>3, <2>1
    <3> QED BY <3>1, <3>2
  <2>2. CASE i = Len(outcomes) + 1
    <3>1. outcomes'[i] = o /\ fates'[i] = f
      BY <1>1, <1>2, <1>3, <2>2
    <3> QED BY <3>1
  <2> QED BY <1>1, <1>2, <2>1, <2>2
<1>5. CasesMatch'
  <2>1. Len(outcomes') = Len(fates') /\ Len(outcomes') <= NumCases
    BY <1>1, <1>2, <1>3
  <2> QED BY <1>2, <1>3, <1>4, <2>1 DEF CasesMatch
<1>6. result = NoResult
  BY <1>1 DEF EvalInv, CodeIsFinal
<1>7. CodeIsFinal'
  BY <1>6 DEF CodeIsFinal, NoResult
<1> QED BY <1>5, <1>7 DEF EvalInv

(* A case that ends with a report sets all of its variables.               *)
LEMMA ReportsStep == ASSUME EvalInv, CaseReports PROVE EvalInv'
<1>1. PICK kind \in {"completed", "stopped"} : \E green \in BOOLEAN, calls \in 0 .. MaxToolCalls :
        /\ verified' = green /\ tool_calls' = calls
        /\ fates' = Append(fates, Fate(kind, green, calls))
  BY DEF CaseReports
<1>2. PICK green \in BOOLEAN : \E calls \in 0 .. MaxToolCalls :
        /\ verified' = green /\ tool_calls' = calls
        /\ fates' = Append(fates, Fate(kind, green, calls))
  BY <1>1
<1>3. PICK calls \in 0 .. MaxToolCalls :
        /\ verified' = green /\ tool_calls' = calls
        /\ fates' = Append(fates, Fate(kind, green, calls))
  BY <1>2
<1> DEFINE o == [passed |-> green, calls |-> calls, error |-> FALSE]
           f == [kind |-> kind, green |-> green, calls |-> calls]
<1>4. outcomes' = Append(outcomes, o) /\ fates' = Append(fates, f)
  BY <1>3 DEF CaseReports, Recorded, Fate
<1>5. o \in Outcome /\ f \in CaseFate
  BY EvalAssumption DEF Outcome, CaseFate
<1>6. Matches(o, f)
  BY DEF Matches
<1>7. CasesLeft /\ result' = result
  BY DEF CaseReports
<1> HIDE DEF o, f
<1> QED BY <1>4, <1>5, <1>6, <1>7, CaseRecorded

(* A case that crashes resets what the case before it left.                *)
LEMMA CrashesStep == ASSUME EvalInv, CaseCrashes PROVE EvalInv'
<1>1. PICK green \in BOOLEAN : fates' = Append(fates, Fate("crashed", green, 0))
  BY DEF CaseCrashes
<1> DEFINE o == [passed |-> FALSE, calls |-> -1, error |-> TRUE]
           f == [kind |-> "crashed", green |-> green, calls |-> 0]
<1>2. outcomes' = Append(outcomes, o) /\ fates' = Append(fates, f)
  BY <1>1 DEF CaseCrashes, Recorded, Fate
<1>3. o \in Outcome /\ f \in CaseFate
  BY DEF Outcome, CaseFate
<1>4. Matches(o, f)
  BY DEF Matches
<1>5. CasesLeft /\ result' = result
  BY DEF CaseCrashes
<1> HIDE DEF o, f
<1> QED BY <1>2, <1>3, <1>4, <1>5, CaseRecorded

(* The exit code is computed from the outcomes.                            *)
LEMMA ScoreStep == ASSUME EvalInv, Score PROVE EvalInv'
<1>1. /\ UNCHANGED <<outcomes, fates>>
      /\ ~(Len(outcomes) < NumCases) /\ Len(outcomes) <= NumCases
      /\ Len(outcomes) \in Nat /\ NumCases \in Nat
  BY EvalAssumption DEF Score, EvalInv, CasesMatch, CasesLeft
<1>2. CasesMatch'
  BY <1>1 DEF EvalInv, CasesMatch
<1>3. AllPassed' = AllPassed
  BY <1>1 DEF AllPassed
<1>4. result'.code = (IF AllPassed THEN 0 ELSE 1)
  <2> DEFINE m == CallsMade
             p == Passed
  <2>1. result' = [passed |-> p, calls |-> m, code |-> IF AllPassed THEN 0 ELSE 1]
    BY DEF Score
  <2> HIDE DEF m, p
  <2> QED BY <2>1
<1>5. Len(outcomes') = NumCases
  BY <1>1
<1>6. CodeIsFinal'
  BY <1>3, <1>4, <1>5 DEF CodeIsFinal
<1> QED BY <1>2, <1>6 DEF EvalInv

(* Every step keeps it.                                                    *)
LEMMA EvalInvNext == EvalInv /\ [EvalNext]_evalVars => EvalInv'
<1> SUFFICES ASSUME EvalInv, [EvalNext]_evalVars PROVE EvalInv'
  OBVIOUS
<1>1. CASE UNCHANGED evalVars
  BY <1>1 DEF evalVars, EvalInv, CasesMatch, CodeIsFinal, AllPassed
<1> QED BY <1>1, ReportsStep, CrashesStep, ScoreStep DEF EvalNext

(* Outcomes that match the cases' fates are their own.                     *)
LEMMA OwnOutcomes == CasesMatch => OutcomesAreOwn
BY DEF CasesMatch, Matches, OutcomesAreOwn

(* And the exit code counts them.                                          *)
LEMMA TruthfulExit == EvalInv => ExitTruthful
<1> SUFFICES ASSUME EvalInv, result # NoResult
             PROVE  result.code = 0 <=> \A i \in 1 .. NumCases :
                                            fates[i].kind # "crashed" /\ fates[i].green
  BY DEF ExitTruthful
<1>1. Len(outcomes) = NumCases /\ (result.code = 0 <=> AllPassed)
  BY DEF EvalInv, CodeIsFinal
<1>2. AllPassed <=> \A i \in 1 .. NumCases : outcomes[i].passed
  BY <1>1 DEF AllPassed, EvalInv, CasesMatch
<1>3. \A i \in 1 .. NumCases :
          outcomes[i].passed = (fates[i].kind # "crashed" /\ fates[i].green)
  BY <1>1 DEF EvalInv, CasesMatch, Matches
<1> QED BY <1>1, <1>2, <1>3

-----------------------------------------------------------------------------

(* However many cases there are and wherever some of them crash: each      *)
(* outcome is that of its own case.                                        *)
THEOREM CasesStandAlone == EvalSpec => []OutcomesAreOwn
<1>1. EvalInv => OutcomesAreOwn
  BY OwnOutcomes DEF EvalInv
<1> QED BY EvalInvInit, EvalInvNext, <1>1, PTL DEF EvalSpec

(* The exit code is 0 exactly if every case ended with a suite that passes. *)
THEOREM ExitIsTruthful == EvalSpec => []ExitTruthful
BY EvalInvInit, EvalInvNext, TruthfulExit, PTL DEF EvalSpec

-----------------------------------------------------------------------------
(* The programs.                                                           *)

(* The stages in which the client is there and the registry is loaded.     *)
Working == {"copying", "cloning", "evaluating"}

ProgramTyped ==
    /\ program \in {"tools", "doctor", "run", "eval"}
    /\ env \in Environment
    /\ stage \in {"started", "configured", "built", "over"} \cup Working
    /\ imported \subseteq ToolModule

(* What each program may be doing.                                         *)
Staged ==
    /\ stage = "built" => Repairs
    /\ stage \in {"copying", "cloning"} => program = "run"
    /\ stage = "evaluating" => program = "eval"

(* Nothing has been said nor has a flow ended while the program runs.      *)
Silent == stage # "over" => flow = None /\ printed = None

(* No work without a client.                                               *)
Untouched == files = File /\ folders = Folder /\ outcomes = <<>>

ClientFirst ==
    /\ client = None => Untouched
    /\ stage \in {"started", "configured"} => client = None
    /\ stage \in Working \cup {"built"} => client # None

ProgramInv ==
    /\ ProgramTyped
    /\ Staged
    /\ Silent
    /\ ClientFirst
    /\ ExitTellsReport
    /\ RegistryComplete

-----------------------------------------------------------------------------

(* A client that was built is one of the providers'.                       *)
LEMMA BuiltClient ==
    ASSUME env \in Environment
    PROVE  None \notin KeyedProvider
<1>1. env.keys \subseteq Provider
  BY DEF Environment
<1>2. None \notin Provider
  BY DEF None, Provider
<1> QED BY <1>1, <1>2 DEF KeyedProvider

(* load_builtins leaves all tools in the registry, if only these modules   *)
(* were imported before.                                                   *)
LEMMA LoadedAll ==
    ASSUME LoadBuiltins, imported \subseteq ToolModule
    PROVE  registry' = ToolModule /\ imported' = ToolModule
BY DEF LoadBuiltins

(* The invariant holds as a program starts.                                *)
LEMMA ProgramInit == Init => ProgramInv
<1> SUFFICES ASSUME Init PROVE ProgramInv
  OBVIOUS
<1>1. /\ program \in {"tools", "doctor", "run", "eval"} /\ env \in Environment
      /\ imported \subseteq ToolModule
      /\ stage = "started" /\ client = None /\ flow = None /\ printed = None
  BY DEF Init
<1>2. Untouched
  BY DEF Init, CopyInit, EvalInit, Untouched
<1> QED BY <1>1, <1>2 DEF ProgramInv, ProgramTyped, Staged, Silent, ClientFirst, Working,
          ExitTellsReport, RegistryComplete, None

(* Steps that end a program before there is a client.                      *)
LEMMA EarlyEnd ==
    ASSUME ProgramInv, stage \in {"started", "configured"},
           ParserExits \/ SettingsFail \/ ListTools \/ Doctor \/ ClientFails
    PROVE  ProgramInv'
<1>1. /\ program' = program /\ env' = env /\ client' = client /\ flow' = flow
      /\ stage' = "over" /\ files' = files /\ folders' = folders /\ outcomes' = outcomes
  BY DEF ParserExits, SettingsFail, ListTools, Doctor, ClientFails, Ends, copyVars,
       evalVars
<1>2. client = None /\ Untouched /\ flow = None /\ imported \subseteq ToolModule
  BY DEF ProgramInv, ClientFirst, Silent, ProgramTyped
<1>3. Untouched'
  BY <1>1, <1>2 DEF Untouched
<1>4. imported' \subseteq ToolModule
  BY <1>2, LoadedAll DEF ParserExits, SettingsFail, ListTools, Doctor, ClientFails
<1>5. RegistryComplete'
  <2>1. printed' \in {"listing", "findings"} => registry' = ToolModule
    BY <1>2, LoadedAll DEF ParserExits, SettingsFail, ListTools, Doctor, ClientFails,
         Ends
  <2> QED BY <1>1, <2>1 DEF RegistryComplete
<1>6. ExitTellsReport'
  <2>1. program = "run" =>
          /\ exit' = 0 <=> printed' = "help"
          /\ exit' = 2 <=> printed' = "usage"
          /\ printed' # "report"
    BY <1>2 DEF ParserExits, SettingsFail, ListTools, Doctor, ClientFails, Ends, None
  <2> QED BY <1>1, <1>2, <2>1 DEF ExitTellsReport, None
<1> QED BY <1>1, <1>2, <1>3, <1>4, <1>5, <1>6 DEF ProgramInv, ProgramTyped, Staged, Silent,
          ClientFirst, Working

(* Steps towards the work.                                                 *)
LEMMA Towards ==
    ASSUME ProgramInv, ReadSettings \/ BuildClient \/ BeginWork
    PROVE  ProgramInv'
<1>1. /\ program' = program /\ env' = env /\ flow' = flow /\ printed' = printed
      /\ files' = files /\ folders' = folders /\ outcomes' = outcomes
  BY DEF ReadSettings, BuildClient, BeginWork, copyVars, evalVars
<1>2. \/ stage = "started" /\ stage' = "configured" /\ client' = client
      \/ stage = "configured" /\ stage' = "built" /\ client' \in KeyedProvider
      \/ /\ stage = "built" /\ client' = client
         /\ \/ program = "run" /\ stage' \in {"copying", "cloning"}
            \/ program # "run" /\ stage' = "evaluating"
  BY DEF ReadSettings, BuildClient, BeginWork
<1>3. imported' \subseteq ToolModule /\ (stage = "built" => registry' = ToolModule)
  BY LoadedAll DEF ReadSettings, BuildClient, BeginWork, ProgramInv, ProgramTyped
<1>4. stage = "configured" /\ stage' = "built" => client' # None
  BY <1>2, BuiltClient DEF ProgramInv, ProgramTyped
<1>5. (stage = "built" => Repairs) /\ (stage' = "built" => Repairs')
  BY <1>1, <1>2 DEF ProgramInv, Staged, Repairs, ReadSettings, BuildClient, BeginWork
<1>6. Untouched => Untouched'
  BY <1>1 DEF Untouched
<1> QED BY <1>1, <1>2, <1>3, <1>4, <1>5, <1>6 DEF ProgramInv, ProgramTyped, Staged, Silent,
          Repairs, ClientFirst, Working, ExitTellsReport, RegistryComplete, None

(* Work that goes on: the repository is copied, or a case is evaluated.    *)
LEMMA WorkGoesOn ==
    ASSUME ProgramInv, CopyRepository \/ Evaluate
    PROVE  ProgramInv'
<1>1. /\ program' = program /\ env' = env /\ stage' = stage /\ client' = client
      /\ imported' = imported /\ registry' = registry /\ flow' = flow /\ printed' = printed
      /\ exit' = exit
  BY DEF CopyRepository, Evaluate
<1>2. stage \in Working
  BY DEF CopyRepository, Evaluate, Working
<1>3. client # None
  BY <1>2 DEF ProgramInv, ClientFirst
<1> QED BY <1>1, <1>2, <1>3 DEF ProgramInv, ProgramTyped, Staged, Silent, ClientFirst,
          Repairs, Working, ExitTellsReport, RegistryComplete

(* The end of the work.                                                    *)
LEMMA WorkEnds ==
    ASSUME ProgramInv, SandboxFails \/ FlowReports \/ FlowRaises \/ PrintScore
    PROVE  ProgramInv'
<1>1. /\ program' = program /\ env' = env /\ client' = client /\ stage' = "over"
      /\ imported' = imported /\ registry' = registry
  BY DEF SandboxFails, FlowReports, FlowRaises, PrintScore, Ends
<1>2. stage \in Working
  BY DEF SandboxFails, FlowReports, FlowRaises, FlowStarts, PrintScore, Working
<1>3. client # None /\ flow = None /\ registry = ToolModule
  BY <1>2 DEF ProgramInv, ClientFirst, Silent, RegistryComplete, Working
<1>4. ExitTellsReport'
  <2>1. CASE SandboxFails
    BY <1>3, <2>1 DEF SandboxFails, Ends, ExitTellsReport, None
  <2>2. CASE FlowReports
    BY <1>3, <2>2 DEF FlowReports, Ends, ExitTellsReport
  <2>3. CASE FlowRaises
    BY <1>3, <2>3 DEF FlowRaises, Ends, ExitTellsReport
  <2>4. CASE PrintScore
    BY <1>1, <2>4 DEF PrintScore, ExitTellsReport, ProgramInv, Staged
  <2> QED BY <2>1, <2>2, <2>3, <2>4
<1> QED BY <1>1, <1>3, <1>4 DEF ProgramInv, ProgramTyped, Staged, Silent, ClientFirst,
          Working, RegistryComplete

(* Every step.                                                             *)
LEMMA ProgramNext == ProgramInv /\ [Next]_vars => ProgramInv'
<1> SUFFICES ASSUME ProgramInv, [Next]_vars PROVE ProgramInv'
  OBVIOUS
<1>1. CASE ParserExits \/ SettingsFail \/ ListTools \/ Doctor \/ ClientFails
  <2>1. stage \in {"started", "configured"}
    BY <1>1 DEF ParserExits, SettingsFail, ListTools, Doctor, ClientFails
  <2> QED BY <1>1, <2>1, EarlyEnd
<1>2. CASE UNCHANGED vars
  BY <1>2 DEF vars, copyVars, evalVars, ProgramInv, ProgramTyped, Staged, Silent, ClientFirst,
       Untouched, Repairs, Working, ExitTellsReport, RegistryComplete
<1> QED BY <1>1, <1>2, Towards, WorkGoesOn, WorkEnds DEF Next, Over

(* The invariant holds throughout.                                         *)
LEMMA ProgramInvariance == Spec => []ProgramInv
BY ProgramInit, ProgramNext, PTL DEF Spec

(* The evaluation keeps its own invariant inside the program.              *)
LEMMA EvaluationInside == Spec => []EvalInv
<1>1. Init => EvalInv
  BY EvalInvInit DEF Init
<1>2. [Next]_vars => [EvalNext]_evalVars
  BY DEF Next, Over, vars, ParserExits, SettingsFail, ReadSettings, ListTools, Doctor,
       ClientFails, BuildClient, BeginWork, CopyRepository, SandboxFails, FlowReports,
       FlowRaises, Evaluate, PrintScore
<1> QED BY <1>1, <1>2, EvalInvNext, PTL DEF Spec

(* The exit code of a repair is that of its report, whatever happens       *)
(* before there is one, in the settings, the client, the copy or the flow. *)
THEOREM ExitCodeTellsReport == Spec => []ExitTellsReport
BY ProgramInvariance, PTL DEF ProgramInv

(* A program without a client leaves no sandbox behind, and no case.       *)
THEOREM NothingIsLeftBehind == Spec => []NothingLeftBehind
<1>1. ProgramInv => NothingLeftBehind
  BY DEF ProgramInv, ClientFirst, Untouched, NothingLeftBehind
<1> QED BY <1>1, ProgramInvariance, PTL

(* Every command works with all tools, whatever was imported before.       *)
THEOREM RegistryIsComplete == Spec => []RegistryComplete
BY ProgramInvariance, PTL DEF ProgramInv

(* The copy, too, keeps its own invariant inside the program.              *)
LEMMA CopyInside == Spec => []CopyInv
<1>1. Init => CopyInv
  BY CopyInvInit DEF Init
<1>2. [Next]_vars => [CopyNext]_copyVars
  BY DEF Next, vars, ParserExits, SettingsFail, ReadSettings, ListTools, Doctor,
       ClientFails, BuildClient, BeginWork, CopyRepository, SandboxFails, FlowReports,
       FlowRaises, Evaluate, PrintScore, Over
<1> QED BY <1>1, <1>2, CopyInvNext, PTL DEF Spec

(* The flow works on a faithful copy, whatever the environment says: what  *)
(* run --repo copies is the repository without the ignored names, and      *)
(* without an excuse it is copied.                                         *)
THEOREM CopyInProgramIsFaithful == Spec => []CopyFaithful
BY CopyInside, InvFaithful, PTL

(* Inside the program, too, each case is scored on its own,                *)
THEOREM EvaluatedCasesStandAlone == Spec => []OutcomesAreOwn
<1>1. EvalInv => OutcomesAreOwn
  BY OwnOutcomes DEF EvalInv
<1> QED BY <1>1, EvaluationInside, PTL

(* and the exit code counts them truthfully.                               *)
THEOREM EvaluatedExitIsTruthful == Spec => []ExitTruthful
BY TruthfulExit, EvaluationInside, PTL

=============================================================================
