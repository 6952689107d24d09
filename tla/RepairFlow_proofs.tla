------------------------- MODULE RepairFlow_proofs -------------------------
(***************************************************************************)
(* Proofs about RepairFlow, for every set of files, versions and branches, *)
(* any number of commits, and any budget.                                  *)
(***************************************************************************)
EXTENDS RepairFlow, SequenceTheorems, TLAPS

(* The part of the state that Workspace keeps.                             *)
RepositoryOK ==
    /\ tree \in Tree /\ index \in Tree /\ commits \in Seq(Tree)
    /\ branches \in [Branch -> 0 .. Len(commits)] /\ head \in Branch
    /\ excused \in BOOLEAN

(* The rest of it.                                                         *)
FlowOK ==
    /\ used \in 0 .. MaxToolCalls
    /\ status \in {"running", "completed", "exhausted", "aborted"}
    /\ phase \in {"agent", "subagent", "verify", "report", "done", "crashed"}
    /\ failures \in Run /\ child \in Run
    /\ review \in [on : Tree, shown : SUBSET File]
    /\ pulls \subseteq [contents : Tree, fix : Tree]
    /\ report \in [green : BOOLEAN, branch : Branch \cup {NoBranch}]

(* No patch file in the tree, in the index, or in a commit.                *)
Unlittered ==
    /\ tree[PatchFile] = Missing /\ index[PatchFile] = Missing
    /\ \A i \in 1 .. Len(commits) : commits[i][PatchFile] = Missing

(* From the independent run of the suite on, its outcome is the tree's.    *)
Verified ==
    /\ phase \in {"report", "done"} => report.green = Green(tree)
    /\ phase = "done" => report.branch = BranchName

IInv ==
    /\ RepositoryOK
    /\ FlowOK
    /\ excused \/ Unlittered
    /\ Verified

-----------------------------------------------------------------------------
(* The repository.                                                         *)

(* HEAD stands for a tree, that of a commit or the empty one.              *)
LEMMA HeadTreeType ==
    ASSUME RepositoryOK
    PROVE  /\ HeadTree \in Tree
           /\ Born => branches[head] \in 1 .. Len(commits) /\ HeadTree = commits[branches[head]]
           /\ ~Born => HeadTree = Empty
           /\ branches[head] \in 0 .. Len(commits)
           /\ Len(commits) \in Nat
           /\ \A f \in File : HeadTree[f] \in Version \cup {Missing}
<1>1. Len(commits) \in Nat /\ branches[head] \in 0 .. Len(commits)
  BY DEF RepositoryOK
<1>2. Born => branches[head] \in 1 .. Len(commits) /\ HeadTree = commits[branches[head]]
  BY <1>1 DEF Born, HeadTree
<1>3. ~Born => HeadTree = Empty
  BY DEF HeadTree
<1>4. HeadTree \in Tree
  <2>1. CASE Born
    BY <1>2, <2>1, ElementOfSeq DEF RepositoryOK
  <2>2. CASE ~Born
    BY <1>3, <2>2 DEF Empty, Tree
  <2> QED BY <2>1, <2>2
<1> QED BY <1>1, <1>2, <1>3, <1>4 DEF Tree

(* In an unlittered repository HEAD has no patch file, either.             *)
LEMMA HeadUnlittered ==
    ASSUME RepositoryOK, Unlittered
    PROVE  HeadTree[PatchFile] = Missing
<1>1. PatchFile \in File
  BY WorkspaceAssumption
<1>2. CASE Born
  BY <1>2, HeadTreeType DEF Unlittered
<1>3. CASE ~Born
  BY <1>1, <1>3, HeadTreeType DEF Empty
<1> QED BY <1>2, <1>3

(* A new sandbox is a repository of at most one commit, and nothing        *)
(* litters it.                                                             *)
LEMMA SandboxStart == SandboxInit => RepositoryOK /\ Unlittered
<1> SUFFICES ASSUME SandboxInit PROVE RepositoryOK /\ Unlittered
  OBVIOUS
<1>1. /\ Baseline \in Tree /\ Main \in Branch /\ PatchFile \in File
      /\ Baseline[PatchFile] = Missing
  BY WorkspaceAssumption
<1>2. Empty \in Tree /\ Empty[PatchFile] = Missing
  BY <1>1 DEF Empty, Tree
<1>3. tree = Baseline /\ index \in {Baseline, Empty} /\ head = Main /\ excused \in BOOLEAN
  BY DEF SandboxInit
<1>4. CASE commits = <<Baseline>>
  <2>1. commits \in Seq(Tree) /\ Len(commits) = 1 /\ commits[1] = Baseline
    BY <1>1, <1>4
  <2>2. \/ branches = [b \in Branch |-> IF b = Main THEN 1 ELSE 0]
        \/ branches = [b \in Branch |-> 0]
    BY DEF SandboxInit
  <2>3. branches \in [Branch -> 0 .. 1]
    BY <2>2
  <2> QED BY <1>1, <1>2, <1>3, <2>1, <2>3 DEF RepositoryOK, Unlittered
<1>5. CASE commits = << >>
  <2>1. commits \in Seq(Tree) /\ Len(commits) = 0
    BY <1>5
  <2>2. commits # <<Baseline>>
    BY <1>5
  <2>3. branches = [b \in Branch |-> 0]
    BY <2>2 DEF SandboxInit
  <2>4. branches \in [Branch -> 0 .. 0]
    BY <2>3
  <2> QED BY <1>1, <1>2, <1>3, <2>1, <2>4 DEF RepositoryOK, Unlittered
<1> QED BY <1>4, <1>5 DEF SandboxInit

(* Edits of the working tree alone: what the agent writes at the path of   *)
(* the patch file is excused, and no other edit puts a file there but a    *)
(* git apply that is killed.                                               *)
LEMMA TreeEdits ==
    ASSUME RepositoryOK,
           WriteFile \/ EditFile \/ ApplyPatch \/ ApplyPatchFails \/ ApplyPatchTimesOut
    PROVE  RepositoryOK' /\ (excused \/ Unlittered => excused' \/ Unlittered')
<1>1. /\ UNCHANGED <<index, commits, branches, head>>
      /\ PatchFile \in File /\ tree \in Tree /\ excused \in BOOLEAN
  BY WorkspaceAssumption
     DEF WriteFile, EditFile, Write, ApplyPatch, ApplyPatchFails, ApplyPatchTimesOut,
         RepositoryOK
<1>2. /\ tree' \in Tree /\ excused' \in BOOLEAN /\ (excused => excused')
      /\ \/ excused'
         \/ tree'[PatchFile] = Missing
         \/ tree'[PatchFile] = tree[PatchFile]
  <2>1. CASE WriteFile \/ EditFile
    <3>1. PICK f \in File : Write(f)
      BY <2>1 DEF WriteFile, EditFile
    <3>2. PICK v \in Version : tree' = [tree EXCEPT ![f] = v]
      BY <3>1 DEF Write
    <3>3. excused' = (excused \/ f = PatchFile)
      BY <3>1 DEF Write
    <3>4. tree' \in Tree /\ (f # PatchFile => tree'[PatchFile] = tree[PatchFile])
      BY <1>1, <3>2 DEF Tree
    <3> QED BY <1>1, <3>3, <3>4
  <2>2. CASE ApplyPatch
    BY <1>1, <2>2 DEF ApplyPatch
  <2>3. CASE ApplyPatchFails
    BY <1>1, <2>3 DEF ApplyPatchFails, Tree
  <2>4. CASE ApplyPatchTimesOut
    BY <1>1, <2>4 DEF ApplyPatchTimesOut
  <2> QED BY <2>1, <2>2, <2>3, <2>4
<1> QED BY <1>1, <1>2 DEF RepositoryOK, Unlittered

(* git checkout -b: neither the tree nor what litters it changes.          *)
LEMMA BranchStep ==
    ASSUME RepositoryOK, CreateBranch
    PROVE  RepositoryOK' /\ excused' = excused /\ (Unlittered => Unlittered')
<1>1. PICK b \in Branch : branches' = [branches EXCEPT ![b] = branches[head]] /\ head' = b
  BY DEF CreateBranch
<1>2. UNCHANGED <<tree, index, commits, excused>>
  BY DEF CreateBranch
<1>3. branches[head] \in 0 .. Len(commits) /\ Len(commits) \in Nat
  BY HeadTreeType
<1>4. branches' \in [Branch -> 0 .. Len(commits)]
  BY <1>1, <1>3 DEF RepositoryOK
<1> QED BY <1>1, <1>2, <1>4 DEF RepositoryOK, Unlittered

(* git checkout: only what differs between the commits is written.         *)
LEMMA CheckoutStep ==
    ASSUME RepositoryOK, Checkout
    PROVE  RepositoryOK' /\ excused' = excused /\ (Unlittered => Unlittered')
<1> DEFINE target(b) == commits[branches[b]]
           Moves(b, f) == target(b)[f] # HeadTree[f] /\ index[f] # target(b)[f]
<1>1. PICK b \in Branch :
        /\ branches[b] # 0
        /\ tree' = [f \in File |-> IF Moves(b, f) THEN target(b)[f] ELSE tree[f]]
        /\ index' = [f \in File |-> IF Moves(b, f) THEN target(b)[f] ELSE index[f]]
        /\ head' = b
  BY DEF Checkout
<1>2. UNCHANGED <<commits, branches, excused>>
  BY DEF Checkout
<1>3. branches[b] \in 1 .. Len(commits)
  BY <1>1 DEF RepositoryOK
<1>4. target(b) \in Tree
  BY <1>3, ElementOfSeq DEF RepositoryOK
<1>5. Unlittered => target(b)[PatchFile] = Missing
  BY <1>3 DEF Unlittered
<1> HIDE DEF target
<1>6. tree' \in Tree /\ index' \in Tree
  BY <1>1, <1>4 DEF RepositoryOK, Tree
<1>7. Unlittered => tree'[PatchFile] = Missing /\ index'[PatchFile] = Missing
  BY <1>1, <1>5, WorkspaceAssumption DEF Unlittered
<1>8. RepositoryOK'
  BY <1>1, <1>2, <1>6 DEF RepositoryOK
<1> QED BY <1>2, <1>7, <1>8 DEF Unlittered

(* git checkout of paths: a file becomes what is staged.                   *)
LEMMA CheckoutFilesStep ==
    ASSUME RepositoryOK, CheckoutFiles
    PROVE  RepositoryOK' /\ excused' = excused /\ (Unlittered => Unlittered')
<1>1. PICK paths \in SUBSET {f \in File : index[f] # Missing} :
        tree' = [f \in File |-> IF f \in paths THEN index[f] ELSE tree[f]]
  BY DEF CheckoutFiles
<1>2. UNCHANGED <<index, commits, branches, head, excused>>
  BY DEF CheckoutFiles
<1>3. tree' \in Tree
  BY <1>1 DEF RepositoryOK, Tree
<1>4. Unlittered => tree'[PatchFile] = Missing
  BY <1>1, WorkspaceAssumption DEF Unlittered
<1> QED BY <1>2, <1>3, <1>4 DEF RepositoryOK, Unlittered

(* git add stages contents the tree has, and never a patch file it lacks.  *)
LEMMA AddStep ==
    ASSUME RepositoryOK, Add
    PROVE  RepositoryOK' /\ excused' = excused /\ (Unlittered => Unlittered')
<1>1. PICK paths \in SUBSET File :
        index' = [f \in File |-> IF f \in paths \/ paths = {} THEN tree[f] ELSE index[f]]
  BY DEF Add
<1>2. UNCHANGED <<tree, commits, branches, head, excused>>
  BY DEF Add
<1>3. index' \in Tree
  BY <1>1 DEF RepositoryOK, Tree
<1>4. Unlittered => index'[PatchFile] = Missing
  BY <1>1, WorkspaceAssumption DEF Unlittered
<1> QED BY <1>2, <1>3, <1>4 DEF RepositoryOK, Unlittered

(* git commit stores the index as a tree.                                  *)
LEMMA CommitStep ==
    ASSUME RepositoryOK, Commit
    PROVE  RepositoryOK' /\ excused' = excused /\ (Unlittered => Unlittered')
<1>1. /\ commits' = Append(commits, index)
      /\ branches' = [branches EXCEPT ![head] = Len(commits) + 1]
      /\ UNCHANGED <<tree, index, head, excused>>
      /\ commits \in Seq(Tree) /\ index \in Tree /\ Len(commits) \in Nat
  BY DEF Commit, RepositoryOK
<1>2. /\ commits' \in Seq(Tree) /\ Len(commits') = Len(commits) + 1
      /\ \A i \in 1 .. Len(commits) : commits'[i] = commits[i]
      /\ commits'[Len(commits) + 1] = index
  BY <1>1, AppendProperties
<1>3. branches' \in [Branch -> 0 .. (Len(commits) + 1)]
  BY <1>1 DEF RepositoryOK
<1>4. RepositoryOK'
  BY <1>1, <1>2, <1>3 DEF RepositoryOK
<1>5. ASSUME Unlittered PROVE Unlittered'
  <2>1. ASSUME NEW i \in 1 .. Len(commits') PROVE commits'[i][PatchFile] = Missing
    <3>1. i \in 1 .. Len(commits) \/ i = Len(commits) + 1
      BY <1>1, <1>2
    <3> QED BY <1>2, <1>5, <3>1 DEF Unlittered
  <2> QED BY <1>1, <1>5, <2>1 DEF Unlittered
<1> QED BY <1>1, <1>4, <1>5

(* git checkout HEAD -- path takes files of the last commit.               *)
LEMMA RestoreStep ==
    ASSUME RepositoryOK, RestoreFile
    PROVE  RepositoryOK' /\ excused' = excused /\ (Unlittered => Unlittered')
<1>1. PICK paths \in SUBSET {f \in File : HeadTree[f] # Missing} :
        /\ tree' = [f \in File |-> IF f \in paths THEN HeadTree[f] ELSE tree[f]]
        /\ index' = [f \in File |-> IF f \in paths THEN HeadTree[f] ELSE index[f]]
  BY DEF RestoreFile
<1>2. UNCHANGED <<commits, branches, head, excused>>
  BY DEF RestoreFile
<1>3. HeadTree \in Tree /\ tree \in Tree /\ index \in Tree
  BY HeadTreeType DEF RepositoryOK
<1> HIDE DEF HeadTree
<1>4. tree' \in Tree /\ index' \in Tree
  BY <1>1, <1>3 DEF Tree
<1>5. Unlittered => HeadTree[PatchFile] = Missing
  BY HeadUnlittered
<1>6. Unlittered => tree'[PatchFile] = Missing /\ index'[PatchFile] = Missing
  BY <1>1, <1>5, WorkspaceAssumption DEF Unlittered
<1> QED BY <1>2, <1>4, <1>6 DEF RepositoryOK, Unlittered

(* A write tool keeps a clean repository clean, or is excused.             *)
LEMMA WriteToolStep ==
    ASSUME RepositoryOK, WriteTool
    PROVE  RepositoryOK' /\ (excused \/ Unlittered => excused' \/ Unlittered')
BY TreeEdits, BranchStep, CheckoutStep, CheckoutFilesStep, AddStep, CommitStep, RestoreStep
   DEF WriteTool

-----------------------------------------------------------------------------
(* The flow.                                                               *)

(* The invariant holds as the flow starts.                                 *)
LEMMA InvInit == Init => IInv
<1> SUFFICES ASSUME Init PROVE IInv
  OBVIOUS
<1>1. RepositoryOK /\ Unlittered
  BY SandboxStart DEF Init
<1>2. FlowOK
  <2>1. Baseline \in Tree /\ Main \in Branch /\ 0 \in 0 .. MaxToolCalls
    BY FlowAssumption, WorkspaceAssumption
  <2>2. /\ NoRun \in Run /\ NoReview \in [on : Tree, shown : SUBSET File]
        /\ NoReport \in [green : BOOLEAN, branch : Branch \cup {NoBranch}]
    BY <2>1 DEF NoRun, NoReview, NoReport, Run
  <2> QED BY <2>1, <2>2 DEF Init, Agent!Init, FlowOK
<1>3. Verified
  BY DEF Init, Verified
<1> QED BY <1>1, <1>2, <1>3 DEF IInv

(* Only these variables matter to the parts of the invariant.              *)
LEMMA RepositoryStays ==
    ASSUME RepositoryOK, UNCHANGED repository
    PROVE  /\ RepositoryOK' /\ (Unlittered => Unlittered')
           /\ tree' = tree /\ excused' = excused /\ BranchName' = BranchName
BY DEF repository, RepositoryOK, Unlittered, BranchName, Born

(* A counted call is one the budget had room for.                          *)
LEMMA CallCounted ==
    ASSUME FlowOK, Calls
    PROVE  used' \in 0 .. MaxToolCalls /\ status' = status /\ phase = "agent"
BY FlowAssumption DEF Calls, Agent!Use, FlowOK

(* The tool calls leave the flow in a state in which nothing is verified.  *)
LEMMA ToolCallStep == ASSUME IInv, ToolCall PROVE IInv'
<1>1. RepositoryOK /\ FlowOK /\ (excused \/ Unlittered)
  BY DEF IInv
<1>2. used' \in 0 .. MaxToolCalls /\ status' = status /\ phase = "agent"
  BY <1>1, CallCounted
     DEF ToolCall, EditTool, ReadTool, RunTests, RunSingleTest, AnalyzeFailure,
         ReviewPatch, OpenPullRequest
<1>3. tree \in Tree /\ HeadTree \in Tree
  BY <1>1, HeadTreeType DEF RepositoryOK
<1>4. phase' \in {"agent", "subagent"}
  BY <1>2 DEF ToolCall, EditTool, ReadTool, RunTests, RunSingleTest,
              AnalyzeFailure, ReviewPatch, OpenPullRequest
<1>5. Verified'
  BY <1>4 DEF Verified
<1>6. CASE EditTool
  <2>1. RepositoryOK' /\ (excused' \/ Unlittered')
    BY <1>1, <1>6, WriteToolStep DEF EditTool
  <2>2. FlowOK'
    BY <1>1, <1>2, <1>6 DEF EditTool, FlowOK, scratch, outputs
  <2> QED BY <1>1, <1>5, <2>1, <2>2 DEF IInv
<1>7. CASE ~EditTool
  <2>1. UNCHANGED repository
    BY <1>7 DEF ToolCall, ReadTool, RunTests, RunSingleTest, AnalyzeFailure, ReviewPatch,
                OpenPullRequest
  <2>2. RepositoryOK' /\ (excused' \/ Unlittered')
    BY <1>1, <2>1, RepositoryStays
  <2>3. /\ SuiteRun(tree) \in Run /\ SingleRun(tree) \in Run /\ NoRun \in Run
    BY <1>3, WorkspaceAssumption DEF SuiteRun, SingleRun, NoRun, Run
  <2>4. failures' \in Run /\ child' \in Run
    BY <1>1, <1>7, <2>3
       DEF ToolCall, ReadTool, RunTests, RunSingleTest, AnalyzeFailure, ReviewPatch,
           OpenPullRequest, FlowOK, scratch
  <2>5. [on |-> tree, shown |-> Shown] \in [on : Tree, shown : SUBSET File]
    BY <1>3 DEF Shown, ChangedFromHead, ChangedFromIndex
  <2>6. review' \in [on : Tree, shown : SUBSET File]
    BY <1>1, <1>7, <2>5
       DEF ToolCall, ReadTool, RunTests, RunSingleTest, AnalyzeFailure, ReviewPatch,
           OpenPullRequest, FlowOK, outputs
  <2>7. \A contents \in RemoteTree :
          [contents |-> contents, fix |-> HeadTree] \in [contents : Tree, fix : Tree]
    BY <1>3, FlowAssumption
  <2>8. pulls' \subseteq [contents : Tree, fix : Tree]
    BY <1>1, <1>7, <2>7
       DEF ToolCall, ReadTool, RunTests, RunSingleTest, AnalyzeFailure, ReviewPatch,
           OpenPullRequest, FlowOK, outputs
  <2>9. report' = report
    BY <1>7 DEF ToolCall, ReadTool, RunTests, RunSingleTest, AnalyzeFailure, ReviewPatch,
                OpenPullRequest, outputs
  <2>10. FlowOK'
    BY <1>1, <1>2, <1>4, <2>1, <2>4, <2>6, <2>8, <2>9 DEF FlowOK
  <2> QED BY <1>5, <2>2, <2>10 DEF IInv
<1> QED BY <1>6, <1>7

(* What comes beside and after the tool calls leaves the repository alone. *)
LEMMA OtherStep ==
    ASSUME IInv,
           \/ AnalystRunsTests \/ AnalystReturns \/ AgentStops \/ AgentFails
           \/ Verify \/ VerifyTimesOut \/ WriteReport
    PROVE  IInv'
<1>1. UNCHANGED <<repository, pulls, review>>
  BY DEF AnalystRunsTests, AnalystReturns, AgentStops, AgentFails, Verify, VerifyTimesOut,
         WriteReport, outputs
<1>2. /\ RepositoryOK' /\ (excused' \/ Unlittered')
      /\ tree' = tree /\ BranchName' = BranchName
  BY <1>1, RepositoryStays DEF IInv
<1>3. FlowOK /\ Verified /\ tree \in Tree /\ BranchName \in Branch \cup {NoBranch}
  BY DEF IInv, RepositoryOK, BranchName
<1>4. SuiteRun(tree) \in Run /\ SingleRun(tree) \in Run /\ NoRun \in Run
  BY <1>3, WorkspaceAssumption DEF SuiteRun, SingleRun, NoRun, Run
<1>5. CASE AnalystRunsTests
  BY <1>1, <1>2, <1>3, <1>4, <1>5
     DEF AnalystRunsTests, IInv, FlowOK, Verified, agent, outputs
<1>6. CASE AnalystReturns
  BY <1>1, <1>2, <1>3, <1>4, <1>6 DEF AnalystReturns, IInv, FlowOK, Verified, agent, outputs
<1>7. CASE AgentStops
  BY <1>1, <1>2, <1>3, <1>7
     DEF AgentStops, Agent!Finish, Agent!Exhaust, IInv, FlowOK, Verified, scratch, outputs
<1>8. CASE AgentFails
  BY <1>1, <1>2, <1>3, <1>8
     DEF AgentFails, Agent!Abort, IInv, FlowOK, Verified, scratch, outputs
<1>9. CASE Verify
  <2>1. /\ report' = [report EXCEPT !.green = Green(tree)] /\ phase' = "report"
        /\ UNCHANGED <<used, status, failures, child>>
    BY <1>9 DEF Verify, agent, scratch
  <2>2. Green(tree) \in BOOLEAN
    BY DEF Green
  <2>3. report' \in [green : BOOLEAN, branch : Branch \cup {NoBranch}] /\ report'.green = Green(tree)
    BY <1>3, <2>1, <2>2 DEF FlowOK
  <2>4. Verified'
    BY <1>2, <2>1, <2>3 DEF Verified, Green
  <2>5. FlowOK'
    BY <1>1, <1>3, <2>1, <2>3 DEF FlowOK
  <2> QED BY <1>2, <2>4, <2>5 DEF IInv
<1>10. CASE VerifyTimesOut
  BY <1>1, <1>2, <1>3, <1>10
     DEF VerifyTimesOut, IInv, FlowOK, Verified, agent, scratch, outputs
<1>11. CASE WriteReport
  <2>1. /\ report' = [report EXCEPT !.branch = BranchName] /\ phase = "report" /\ phase' = "done"
        /\ UNCHANGED <<used, status, failures, child>>
    BY <1>11 DEF WriteReport, agent, scratch
  <2>2. /\ report' \in [green : BOOLEAN, branch : Branch \cup {NoBranch}]
        /\ report'.green = report.green /\ report'.branch = BranchName
    BY <1>3, <2>1 DEF FlowOK
  <2>3. report.green = Green(tree)
    BY <1>3, <2>1 DEF Verified
  <2>4. Verified'
    BY <1>2, <2>1, <2>2, <2>3 DEF Verified, Green
  <2>5. FlowOK'
    BY <1>1, <1>3, <2>1, <2>2 DEF FlowOK
  <2> QED BY <1>2, <2>4, <2>5 DEF IInv
<1> QED BY <1>5, <1>6, <1>7, <1>8, <1>9, <1>10, <1>11

(* Every step of the flow and of its tools keeps it.                       *)
LEMMA InvNext == IInv /\ [Next]_vars => IInv'
<1> SUFFICES ASSUME IInv, [Next]_vars PROVE IInv'
  OBVIOUS
<1>1. CASE UNCHANGED vars
  <2>1. /\ RepositoryOK' /\ (excused' \/ Unlittered')
        /\ tree' = tree /\ BranchName' = BranchName
    BY <1>1, RepositoryStays DEF IInv, vars
  <2>2. FlowOK' /\ Verified'
    BY <1>1, <2>1 DEF IInv, vars, agent, scratch, outputs, FlowOK, Verified, Green
  <2> QED BY <2>1, <2>2 DEF IInv
<1> QED BY <1>1, ToolCallStep, OtherStep DEF Next, Over

(* What it is good for.                                                    *)
LEMMA InvImplies == IInv => TypeOK /\ GateTruthful /\ NoPatchLeftBehind
<1> SUFFICES ASSUME IInv PROVE TypeOK /\ GateTruthful /\ NoPatchLeftBehind
  OBVIOUS
<1>1. TypeOK
  BY DEF IInv, RepositoryOK, FlowOK, TypeOK
<1>2. GateTruthful
  BY DEF IInv, Verified, GateTruthful
<1>3. ASSUME ~excused, NEW t \in {tree, index} \cup Range(commits)
      PROVE  t[PatchFile] = Missing
  <2>1. DOMAIN commits = 1 .. Len(commits)
    BY DEF IInv, RepositoryOK
  <2>2. t = tree \/ t = index \/ \E i \in 1 .. Len(commits) : t = commits[i]
    BY <1>3, <2>1 DEF Range
  <2> QED BY <1>3, <2>2 DEF IInv, Unlittered
<1> QED BY <1>1, <1>2, <1>3 DEF NoPatchLeftBehind

-----------------------------------------------------------------------------

(* The state of the flow and of the sandbox is well typed.                 *)
THEOREM TypeCorrect == Spec => []TypeOK
BY InvInit, InvNext, InvImplies, PTL DEF Spec

(* Whatever the agent does to the repository: a report that says           *)
(* "verified green" says it of the tree that is left behind.               *)
THEOREM GateIsTruthful == Spec => []GateTruthful
BY InvInit, InvNext, InvImplies, PTL DEF Spec

(* No sequence of edits, commits, branches and checkouts keeps a patch     *)
(* file, unless git apply was killed or the agent wrote one itself.        *)
THEOREM NoPatchStays == Spec => []NoPatchLeftBehind
BY InvInit, InvNext, InvImplies, PTL DEF Spec

(* A subagent's test runs never reach the lead agent's scratch.            *)
THEOREM ScratchKept == Spec => ScratchIsolated
<1>1. ASSUME [Next]_vars, phase = "subagent" PROVE failures' = failures
  <2>1. ~ToolCall
    BY <1>1 DEF ToolCall, EditTool, ReadTool, RunTests, RunSingleTest,
                AnalyzeFailure, ReviewPatch, OpenPullRequest, Calls
  <2> QED BY <1>1, <2>1
          DEF Next, AnalystRunsTests, AnalystReturns, AgentStops, AgentFails, Verify,
              VerifyTimesOut, WriteReport, Over, vars, scratch
<1>2. [Next]_vars => [phase = "subagent" => failures' = failures]_vars
  BY <1>1
<1> QED BY <1>2, PTL DEF Spec, ScratchIsolated

(* A checkout, whichever branch it goes to, keeps what was staged and      *)
(* every file that differs from the branch it leaves, except that it may   *)
(* undo the deletion of a file that was not staged.                        *)
THEOREM EditsSurviveCheckout == Spec => CheckoutKeepsEdits
<1> DEFINE Kept ==
      \A f \in File :
        /\ index[f] # HeadTree[f] => index'[f] = index[f]
        /\ tree[f] # HeadTree[f] =>
             \/ tree'[f] = tree[f]
             \/ tree[f] = Missing /\ index[f] = HeadTree[f]
<1>1. ASSUME WriteTool, head' # head PROVE Kept
  <2>1. CreateBranch \/ Checkout
    BY <1>1 DEF WriteTool, WriteFile, EditFile, Write, ApplyPatch, ApplyPatchFails,
                ApplyPatchTimesOut, CheckoutFiles, Add, Commit, RestoreFile
  <2>2. CASE CreateBranch
    BY <2>2 DEF CreateBranch
  <2>3. CASE Checkout
    <3> HIDE DEF HeadTree
    <3> QED BY <2>3 DEF Checkout
  <2> QED BY <2>1, <2>2, <2>3
<1>2. ASSUME [Next]_vars, head' # head PROVE Kept
  <2>1. ToolCall
    BY <1>2 DEF Next, AnalystRunsTests, AnalystReturns, AgentStops, AgentFails, Verify,
                VerifyTimesOut, WriteReport, Over, vars, repository
  <2>2. EditTool
    BY <1>2, <2>1 DEF ToolCall, ReadTool, RunTests, RunSingleTest, AnalyzeFailure,
                      ReviewPatch, OpenPullRequest, repository
  <2> QED BY <1>1, <1>2, <2>2 DEF EditTool
<1> HIDE DEF Kept
<1>3. [Next]_vars => [head' # head => Kept]_vars
  BY <1>2
<1> QED BY <1>3, PTL DEF Spec, CheckoutKeepsEdits, Kept

-----------------------------------------------------------------------------
(***************************************************************************)
(* What the flow still has before it: two steps for each call that the     *)
(* budget has room for, one of them for a subagent to return, and those of *)
(* the phases to come.  The subagent's own steps are AgentSystem's.        *)
(***************************************************************************)
StepsLeft ==
    2 * (MaxToolCalls - used)
      + (CASE phase = "subagent" -> 4
           [] phase = "agent"    -> 3
           [] phase = "verify"   -> 2
           [] phase = "report"   -> 1
           [] phase \in {"done", "crashed"} -> 0)

(* The flow is finite: the steps left are a number, and every step but the *)
(* test runs of a subagent makes it smaller.                               *)
THEOREM FlowIsFinite ==
    Spec => /\ [](StepsLeft \in Nat)
            /\ [][AnalystRunsTests \/ StepsLeft' < StepsLeft]_vars
<1>1. ASSUME IInv PROVE StepsLeft \in Nat
  <2>1. MaxToolCalls - used \in Nat
    BY <1>1, FlowAssumption DEF IInv, FlowOK
  <2>2. phase \in {"agent", "subagent", "verify", "report", "done", "crashed"}
    BY <1>1 DEF IInv, FlowOK
  <2> QED BY <2>1, <2>2 DEF StepsLeft
<1>2. ASSUME IInv, Next, ~Over, ~AnalystRunsTests PROVE StepsLeft' < StepsLeft
  <2>1. used \in Nat /\ MaxToolCalls \in Nat
    BY <1>2, FlowAssumption DEF IInv, FlowOK
  <2>2. CASE ToolCall
    <3>1. phase = "agent" /\ used' = used + 1
      BY <2>2 DEF ToolCall, EditTool, ReadTool, RunTests, RunSingleTest,
                  AnalyzeFailure, ReviewPatch, OpenPullRequest, Calls, Agent!Use
    <3>2. phase' \in {"agent", "subagent"}
      BY <2>2, <3>1 DEF ToolCall, EditTool, ReadTool, RunTests, RunSingleTest,
                        AnalyzeFailure, ReviewPatch, OpenPullRequest
    <3>3. StepsLeft = 2 * (MaxToolCalls - used) + 3
      BY <3>1 DEF StepsLeft
    <3>4. StepsLeft' = 2 * (MaxToolCalls - (used + 1)) + 3
          \/ StepsLeft' = 2 * (MaxToolCalls - (used + 1)) + 4
      BY <3>1, <3>2 DEF StepsLeft
    <3> QED BY <2>1, <3>3, <3>4
  <2>3. CASE AgentStops \/ AgentFails
    <3>1. phase = "agent" /\ phase' \in {"verify", "crashed"} /\ used' = used
      BY <2>3 DEF AgentStops, AgentFails, Agent!Finish, Agent!Exhaust, Agent!Abort
    <3> QED BY <2>1, <3>1 DEF StepsLeft
  <2>4. CASE AnalystReturns
    <3>1. phase = "subagent" /\ phase' = "agent" /\ used' = used
      BY <2>4 DEF AnalystReturns, agent
    <3> QED BY <2>1, <3>1 DEF StepsLeft
  <2>5. CASE Verify \/ VerifyTimesOut \/ WriteReport
    <3>1. /\ \/ phase = "verify" /\ phase' \in {"report", "crashed"}
             \/ phase = "report" /\ phase' \in {"done", "crashed"}
          /\ used' = used
      BY <2>5 DEF Verify, VerifyTimesOut, WriteReport, agent
    <3> QED BY <2>1, <3>1 DEF StepsLeft
  <2> QED BY <1>2, <2>2, <2>3, <2>4, <2>5 DEF Next
<1>3. IInv /\ [Next]_vars => [AnalystRunsTests \/ StepsLeft' < StepsLeft]_vars
  BY <1>2 DEF Over
<1>4. IInv => StepsLeft \in Nat
  BY <1>1
<1> QED BY <1>3, <1>4, InvInit, InvNext, PTL DEF Spec

=============================================================================
