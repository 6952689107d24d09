------------------------------ MODULE Programs ------------------------------
(***************************************************************************)
(* The two programs of the package: patchwork with its three commands      *)
(* (cli.py) and the evaluation (main() of eval/harness.py).  Both read the *)
(* settings from the environment (config.py); what repairs something       *)
(* builds the LLM client (llm/factory.py) and loads the registry before it *)
(* touches a repository.  The copy of the repository is SandboxCopy's, the *)
(* evaluation is EvalHarness's; of the repair flow there is how it ends,   *)
(* as RepairFlow has it.                                                   *)
(***************************************************************************)
EXTENDS SandboxCopy, EvalHarness

CONSTANTS ToolModule  \* the modules whose import registers tools

Provider == {"anthropic", "groq", "gemini"}
None == "none"

VARIABLES
    program,   \* "tools", "doctor", "run" or "eval"
    env,       \* what the environment says
    stage,     \* how far the program is
    client,    \* the provider whose client was built, or None
    imported,  \* the tool modules in this process's module cache
    registry,  \* the modules whose tools are in the registry
    flow,      \* how the repair flow of "run" ended
    printed,   \* what the program has told its user
    exit       \* the exit code; -1 while the program runs

vars == <<program, env, stage, client, imported, registry, flow, printed, exit,
          copyVars, evalVars>>

-----------------------------------------------------------------------------
(* Configuration.                                                          *)

(* A variable of the environment may name a provider that there is not,    *)
(* and a number may be unreadable or out of its limits.                    *)
Environment == [override : Provider \cup {None, "other"},
                keys : SUBSET Provider, valid : BOOLEAN]

(* from_env.                                                               *)
Readable == env.override # "other" /\ env.valid

(* resolved_provider; None stands for its ConfigError.                     *)
ResolvedProvider ==
    CASE env.override # None        -> env.override
      [] "anthropic" \in env.keys   -> "anthropic"
      [] "groq" \in env.keys        -> "groq"
      [] "gemini" \in env.keys      -> "gemini"
      [] OTHER                      -> None

(* The check of the key in build_llm.                                      *)
KeyedProvider == {ResolvedProvider} \cap env.keys

-----------------------------------------------------------------------------

Ends(code, message) ==
    /\ stage' = "over" /\ exit' = code /\ printed' = message

(* Faulty: the list is cleared, but cached modules do not register again.  *)
LoadBuiltinsCleared ==
    /\ registry' = ToolModule \ imported
    /\ imported' = ToolModule

(* load_builtins: importing a module registers its tools the first time.   *)
LoadBuiltins ==
    /\ registry' = imported \cup ToolModule
    /\ imported' = ToolModule

(* argparse exits with 2, and with 0 when it was asked for help.           *)
ParserExits ==
    /\ stage = "started" /\ program # "eval"
    /\ Ends(2, "usage") \/ Ends(0, "help")
    /\ UNCHANGED <<program, env, client, imported, registry, flow, copyVars, evalVars>>

(* ConfigError or ValueError, neither of which is handled there.           *)
SettingsFail ==
    /\ stage = "started" /\ ~Readable
    /\ Ends(1, "traceback")
    /\ UNCHANGED <<program, env, client, imported, registry, flow, copyVars, evalVars>>

ReadSettings ==
    /\ stage = "started" /\ Readable
    /\ stage' = "configured"
    /\ UNCHANGED <<program, env, client, imported, registry, flow, printed, exit,
                   copyVars, evalVars>>

ListTools ==
    /\ stage = "configured" /\ program = "tools"
    /\ LoadBuiltins
    /\ Ends(0, "listing")
    /\ UNCHANGED <<program, env, client, flow, copyVars, evalVars>>

(* It shows which keys are set and which provider will be used.            *)
Doctor ==
    /\ stage = "configured" /\ program = "doctor"
    /\ LoadBuiltins
    /\ Ends(0, "findings")
    /\ UNCHANGED <<program, env, client, flow, copyVars, evalVars>>

Repairs == program \in {"run", "eval"}

(* ConfigError: no provider, no key, or the provider's SDK is not there.   *)
ClientFails ==
    /\ stage = "configured" /\ Repairs
    /\ Ends(1, IF program = "run" THEN "error" ELSE "traceback")
    /\ UNCHANGED <<program, env, client, imported, registry, flow, copyVars, evalVars>>

(* Faulty: the repository is copied first.                                 *)
BuildClientLate ==
    /\ stage = "configured" /\ Repairs
    /\ \/ program = "run" /\ copy = "none" /\ CreateCopy /\ UNCHANGED <<stage, client>>
       \/ /\ client' \in KeyedProvider /\ stage' = "built"
          /\ UNCHANGED copyVars
    /\ UNCHANGED <<program, env, imported, registry, flow, printed, exit, evalVars>>

BuildClient ==
    /\ stage = "configured" /\ Repairs
    /\ client' \in KeyedProvider
    /\ stage' = "built"
    /\ UNCHANGED <<program, env, imported, registry, flow, printed, exit,
                   copyVars, evalVars>>

(* run --repo, run --clone, or the evaluation.                             *)
BeginWork ==
    /\ stage = "built"
    /\ LoadBuiltins
    /\ stage' \in (IF program = "run" THEN {"copying", "cloning"} ELSE {"evaluating"})
    /\ UNCHANGED <<program, env, client, flow, printed, exit, copyVars, evalVars>>

CopyRepository ==
    /\ stage = "copying" /\ CopyNext
    /\ UNCHANGED <<program, env, stage, client, imported, registry, flow, printed, exit,
                   evalVars>>

(* shutil.Error and OSError are not the program's own errors, as that of a *)
(* failed clone is.                                                        *)
SandboxFails ==
    /\ \/ stage = "copying" /\ copy = "failed" /\ Ends(1, "traceback")
       \/ stage = "cloning" /\ Ends(1, "error")
    /\ UNCHANGED <<program, env, client, imported, registry, flow, copyVars, evalVars>>

FlowStarts == stage = "cloning" \/ (stage = "copying" /\ copy = "copied")

(* Faulty: the exit code tells whether there was a report.                 *)
FlowReportsAlways ==
    /\ FlowStarts
    /\ \E green \in BOOLEAN :
         flow' = (IF green THEN "green" ELSE "red")
    /\ Ends(0, "report")
    /\ UNCHANGED <<program, env, client, imported, registry, copyVars, evalVars>>

(* repair_repository returns, with the verdict of its own run of the suite. *)
FlowReports ==
    /\ FlowStarts
    /\ \/ flow' = "green" /\ Ends(0, "report")
       \/ flow' = "red" /\ Ends(2, "report")
    /\ UNCHANGED <<program, env, client, imported, registry, copyVars, evalVars>>

(* It raises, one of the program's own errors or another.                  *)
FlowRaises ==
    /\ FlowStarts
    /\ flow' = "raised"
    /\ \E message \in {"error", "traceback"} : Ends(1, message)
    /\ UNCHANGED <<program, env, client, imported, registry, copyVars, evalVars>>

Evaluate ==
    /\ stage = "evaluating" /\ EvalNext
    /\ UNCHANGED <<program, env, stage, client, imported, registry, flow, printed, exit,
                   copyVars>>

PrintScore ==
    /\ stage = "evaluating" /\ result # NoResult
    /\ Ends(result.code, "score")
    /\ UNCHANGED <<program, env, client, imported, registry, flow, copyVars, evalVars>>

Over == stage = "over" /\ UNCHANGED vars

(* Modules of tools may have been imported by the process before.          *)
Init ==
    /\ program \in {"tools", "doctor", "run", "eval"}
    /\ env \in Environment
    /\ imported \in SUBSET ToolModule
    /\ stage = "started" /\ client = None /\ registry = {}
    /\ flow = None /\ printed = None /\ exit = -1
    /\ CopyInit /\ EvalInit

Next ==
    \/ ParserExits \/ SettingsFail \/ ReadSettings \/ ListTools \/ Doctor
    \/ ClientFails \/ BuildClient \/ BeginWork \/ CopyRepository \/ SandboxFails
    \/ FlowReports \/ FlowRaises \/ Evaluate \/ PrintScore \/ Over

Spec == Init /\ [][Next]_vars

-----------------------------------------------------------------------------
(* Properties.                                                             *)

(* "0 verified green, 2 ran but still red, 1 error": the exit code of run  *)
(* is that of its report, whatever happens before there is one.  Without a *)
(* report 2 is argparse's for arguments it does not understand, and 0 for  *)
(* a request for help.                                                     *)
ExitTellsReport ==
    program = "run" /\ stage = "over" =>
        /\ exit = 0 <=> (flow = "green" \/ printed = "help")
        /\ exit = 2 <=> (flow = "red" \/ printed = "usage")
        /\ printed = "report" <=> flow \in {"green", "red"}

(* A program that ends for its arguments, its settings or its client has   *)
(* not left a sandbox behind nor begun a case.                             *)
NothingLeftBehind ==
    stage = "over" /\ client = None =>
        files = File /\ folders = Folder /\ outcomes = <<>>

(* Every command works with all the tools, whatever was imported before.   *)
RegistryComplete ==
    stage \in {"copying", "cloning", "evaluating"} \/ printed \in {"listing", "findings"} =>
        registry = ToolModule

=============================================================================
