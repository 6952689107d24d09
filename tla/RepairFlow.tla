---------------------------- MODULE RepairFlow ----------------------------
(***************************************************************************)
(* repair_repository (flows/repair.py): the agent works on the sandbox,    *)
(* then the suite is run independently and the report is written.  The     *)
(* agent is what BoundedAgent promises; each of its calls runs one tool.   *)
(* Of the tools there are the write tools (Workspace), those of the test   *)
(* suite with the scratch they share (tools/ci_tools.py), the two that run *)
(* a subagent, and open_pull_request; the others change nothing.           *)
(***************************************************************************)
EXTENDS Workspace, Functions

CONSTANTS
    MaxToolCalls,  \* settings.max_tool_calls
    GreenTree,     \* the trees on which the suite passes
    RemoteTree     \* the trees of the branches that exist on GitHub

ASSUME FlowAssumption ==
    /\ MaxToolCalls \in Nat
    /\ GreenTree \subseteq Tree /\ RemoteTree \subseteq Tree

VARIABLES
    used,      \* tool calls of the lead agent
    status,    \* how its run stands
    phase,     \* "agent", "subagent", "verify", "report", "done" or "crashed"
    failures,  \* ctx.scratch["last_failures"]: the test run it is from
    child,     \* the same in the scratch of the analyst that is running
    review,    \* the most recent review
    pulls,     \* the pull requests opened
    report     \* the report of the flow

agent == <<used, status>>
scratch == <<failures, child>>
outputs == <<review, pulls, report>>
vars == <<repository, agent, phase, scratch, outputs>>

NoRun == [target |-> "none", on |-> Baseline]
SuiteRun(t) == [target |-> "suite", on |-> t]
SingleRun(t) == [target |-> "single", on |-> t]
NoReview == [on |-> Baseline, shown |-> {}]
NoReport == [green |-> FALSE, branch |-> NoBranch]

Green(t) == t \in GreenTree

Agent == INSTANCE BoundedAgent

-----------------------------------------------------------------------------
(* The lead agent's tool calls.                                            *)

Calls == phase = "agent" /\ Agent!Use

EditTool ==
    /\ Calls /\ WriteTool
    /\ UNCHANGED <<phase, scratch, outputs>>

(* A tool that only reads, or any other tool that fails; also a test run   *)
(* that takes longer than 300 s, for nothing is recorded then.             *)
ReadTool ==
    /\ Calls
    /\ UNCHANGED <<repository, phase, scratch, outputs>>

(* run_tests of the whole suite.                                           *)
RunTests ==
    /\ Calls
    /\ failures' = SuiteRun(tree)
    /\ UNCHANGED <<repository, phase, child, outputs>>

(* run_single_test, or run_tests with a target: the same code.             *)
RunSingleTest ==
    /\ Calls
    /\ failures' = SingleRun(tree)
    /\ UNCHANGED <<repository, phase, child, outputs>>

(* analyze_failure: the subagent gets a scratch of its own.                *)
AnalyzeFailure ==
    /\ Calls
    /\ phase' = "subagent" /\ child' = NoRun
    /\ UNCHANGED <<repository, failures, outputs>>

(* Faulty: the subagent shares its parent's scratch.                       *)
AnalystRunsTestsShared ==
    /\ phase = "subagent"
    /\ child' \in {SuiteRun(tree), SingleRun(tree)} /\ failures' = child'
    /\ UNCHANGED <<repository, agent, phase, outputs>>

(* The analyst may run tests, too.                                         *)
AnalystRunsTests ==
    /\ phase = "subagent"
    /\ child' \in {SuiteRun(tree), SingleRun(tree)}
    /\ UNCHANGED <<repository, agent, phase, failures, outputs>>

(* Faulty: without a verdict in its answer the analyst is started again.   *)
AnalystRestarts ==
    /\ phase = "subagent"
    /\ child' = NoRun
    /\ UNCHANGED <<repository, agent, phase, failures, outputs>>

AnalystReturns ==
    /\ phase = "subagent"
    /\ phase' = "agent" /\ child' = NoRun
    /\ UNCHANGED <<repository, agent, failures, outputs>>

(* review_patch: the diff is taken before the subagent starts, and the     *)
(* reviewer has no tool that changes anything.                             *)
ReviewPatch ==
    /\ Calls
    /\ review' = [on |-> tree, shown |-> Shown]
    /\ UNCHANGED <<repository, phase, scratch, pulls, report>>

(* open_pull_request: from a branch that GitHub knows.                     *)
OpenPullRequest ==
    /\ Calls
    /\ \E contents \in RemoteTree :
         pulls' = pulls \cup {[contents |-> contents, fix |-> HeadTree]}
    /\ UNCHANGED <<repository, phase, scratch, review, report>>

ToolCall ==
    \/ EditTool \/ ReadTool \/ RunTests \/ RunSingleTest
    \/ AnalyzeFailure \/ ReviewPatch \/ OpenPullRequest

-----------------------------------------------------------------------------
(* The end of the agent's run, and what comes after it.                    *)

(* It returned, or BudgetExceededError was caught.                         *)
AgentStops ==
    /\ phase = "agent" /\ (Agent!Finish \/ Agent!Exhaust)
    /\ phase' = "verify"
    /\ UNCHANGED <<repository, scratch, outputs>>

(* Any other exception leaves repair_repository.                           *)
AgentFails ==
    /\ phase = "agent" /\ Agent!Abort
    /\ phase' = "crashed"
    /\ UNCHANGED <<repository, scratch, outputs>>

(* Faulty: the agent's last run of the suite is taken as the verification. *)
VerifyFromScratch ==
    /\ phase = "verify"
    /\ report' = [report EXCEPT !.green = failures.target # "none" /\ Green(failures.on)]
    /\ phase' = "report"
    /\ UNCHANGED <<repository, agent, scratch, review, pulls>>

(* The independent run of the suite.                                       *)
Verify ==
    /\ phase = "verify"
    /\ report' = [report EXCEPT !.green = Green(tree)]
    /\ phase' = "report"
    /\ UNCHANGED <<repository, agent, scratch, review, pulls>>

(* It takes longer than 300 s, or git rev-parse does longer than 60: the   *)
(* exception is not handled.                                               *)
VerifyTimesOut ==
    /\ phase \in {"verify", "report"}
    /\ phase' = "crashed"
    /\ UNCHANGED <<repository, agent, scratch, outputs>>

WriteReport ==
    /\ phase = "report"
    /\ report' = [report EXCEPT !.branch = BranchName]
    /\ phase' = "done"
    /\ UNCHANGED <<repository, agent, scratch, review, pulls>>

Over == phase \in {"done", "crashed"} /\ UNCHANGED vars

Init ==
    /\ SandboxInit /\ Agent!Init
    /\ phase = "agent"
    /\ failures = NoRun /\ child = NoRun
    /\ review = NoReview
    /\ pulls = {}
    /\ report = NoReport

Next ==
    \/ ToolCall \/ AnalystRunsTests \/ AnalystReturns
    \/ AgentStops \/ AgentFails
    \/ Verify \/ VerifyTimesOut \/ WriteReport
    \/ Over

Spec == Init /\ [][Next]_vars

(***************************************************************************)
(* The one thread goes on while it can, for every wait in it ends; and a   *)
(* subagent's run ends, because of its own budget (AgentSystem).           *)
(***************************************************************************)
FairSpec == Spec /\ WF_vars(Next) /\ WF_vars(AnalystReturns)

-----------------------------------------------------------------------------
(* Properties.                                                             *)

Run == [target : {"none", "suite", "single"}, on : Tree]

(* Every variable has its type.                                            *)
TypeOK ==
    /\ tree \in Tree /\ index \in Tree /\ commits \in Seq(Tree)
    /\ branches \in [Branch -> 0 .. Len(commits)] /\ head \in Branch
    /\ excused \in BOOLEAN
    /\ used \in 0 .. MaxToolCalls
    /\ status \in {"running", "completed", "exhausted", "aborted"}
    /\ phase \in {"agent", "subagent", "verify", "report", "done", "crashed"}
    /\ failures \in Run /\ child \in Run
    /\ review \in [on : Tree, shown : SUBSET File]
    /\ pulls \subseteq [contents : Tree, fix : Tree]
    /\ report \in [green : BOOLEAN, branch : Branch \cup {NoBranch}]

(* Whatever the agent ran, edited or claimed, and however its run ended: a *)
(* report says "verified green" of the tree and the branch it leaves       *)
(* behind, and only if the suite passes on that tree.                      *)
GateTruthful ==
    phase = "done" => /\ report.green = Green(tree)
                      /\ report.branch = BranchName

(* A test run of the analyst is not taken for one of the lead agent: what  *)
(* parse_failures gives the lead agent is from a run it made itself.       *)
ScratchIsolated == [][phase = "subagent" => failures' = failures]_vars

(***************************************************************************)
(* apply_patch's own file .patchwork.patch is never committed, and never   *)
(* lies in the tree that is verified, unless a git apply was killed or the *)
(* agent wrote a file of that name: a patch that does not apply leaves     *)
(* nothing behind for a later "git add -A".                                *)
(***************************************************************************)
NoPatchLeftBehind ==
    excused \/ \A t \in {tree, index} \cup Range(commits) : t[PatchFile] = Missing

(***************************************************************************)
(* Moving to another branch loses no work that has not been committed,     *)
(* staged or not, tracked or not; only the deletion of a file that was not *)
(* staged may be undone.                                                   *)
(***************************************************************************)
CheckoutKeepsEdits ==
    [][head' # head =>
         \A f \in File :
           /\ index[f] # HeadTree[f] => index'[f] = index[f]
           /\ tree[f] # HeadTree[f] =>
                \/ tree'[f] = tree[f]
                \/ tree[f] = Missing /\ index[f] = HeadTree[f]]_vars

(* The flow ends, with a report or by an exception, whatever the agent and *)
(* its subagents do.                                                       *)
FlowEnds == <>(phase \in {"done", "crashed"})

-----------------------------------------------------------------------------
(* What documents and comments say and the code does not do.               *)

(* repair.py tells the agent to open the pull request "from your fix       *)
(* branch".  No tool publishes that branch, so a fix that is committed when *)
(* the pull request is opened is not in it.                                *)
PullCarriesFix == \A p \in pulls : Green(p.fix) => p.contents = p.fix

(* review_patch: the reviewer is "to critique the current working diff".   *)
ReviewerSeesChange ==
    [][review' # review =>
         \A f \in File : Born /\ tree[f] # HeadTree[f] => f \in review'.shown]_vars

=============================================================================
