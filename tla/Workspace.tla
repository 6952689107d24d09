----------------------------- MODULE Workspace -----------------------------
(***************************************************************************)
(* The sandbox copy of a repository (tools/sandbox.py) and what the write  *)
(* tools do to it (tools/git_tools.py, tools/code_tools.py).  Contents are *)
(* versions; git is modelled by what its commands do to the working tree,  *)
(* the index, the commits and the branches.  A tool that fails raises      *)
(* before it has changed anything, except for apply_patch, which keeps the *)
(* patch in a file of the working tree while git apply runs.  The paths    *)
(* are those that no .gitignore covers, outside .git.                      *)
(***************************************************************************)
EXTENDS Naturals, Sequences

CONSTANTS
    File,       \* paths
    Version,    \* contents a file may have
    Missing,    \* no file at that path
    PatchFile,  \* the path .patchwork.patch
    Baseline,   \* the repository as the sandbox finds it
    Branch,     \* names of branches
    Main,       \* the branch the sandbox starts on
    NoBranch,   \* "HEAD": what git calls a branch without a commit
    MaxCommits  \* bound: commits in the sandbox

Tree == [File -> Version \cup {Missing}]

Empty == [f \in File |-> Missing]

ASSUME WorkspaceAssumption ==
    /\ Missing \notin Version
    /\ Baseline \in Tree
    /\ PatchFile \in File /\ Baseline[PatchFile] = Missing
    /\ Main \in Branch /\ NoBranch \notin Branch
    /\ MaxCommits \in Nat \ {0}

VARIABLES
    tree,      \* the working tree
    index,     \* the staged contents
    commits,   \* the contents of every commit, the baseline first
    branches,  \* the commit each branch points to, 0 if there is no such branch
    head,      \* the branch that is checked out
    excused    \* history: git apply was killed, or the agent wrote the patch file

repository == <<tree, index, commits, branches, head, excused>>

(* HEAD: nothing, until there is a commit.                                 *)
Born == branches[head] # 0

HeadTree == IF Born THEN commits[branches[head]] ELSE Empty

(* git rev-parse --abbrev-ref HEAD.                                        *)
BranchName == IF Born THEN head ELSE NoBranch

-----------------------------------------------------------------------------

(* from_local: init, add -A, commit; or from_clone.  The exit status of    *)
(* none of them is looked at: with an add or a commit that failed, or with *)
(* nothing to commit, the flow goes on without a baseline.                 *)
SandboxInit ==
    /\ tree = Baseline /\ head = Main /\ excused = FALSE
    /\ \/ /\ Baseline # Empty /\ index = Baseline /\ commits = <<Baseline>>
          /\ branches = [b \in Branch |-> IF b = Main THEN 1 ELSE 0]
       \/ /\ index \in {Baseline, Empty} /\ commits = <<>>
          /\ branches = [b \in Branch |-> 0]

(* sandbox.write, of any path.                                             *)
Write(f) ==
    /\ \E v \in Version : tree' = [tree EXCEPT ![f] = v]
    /\ excused' = (excused \/ f = PatchFile)
    /\ UNCHANGED <<index, commits, branches, head>>

(* write_file.                                                             *)
WriteFile == \E f \in File : Write(f)

(* replace_in_file and replace_lines: of a file that is there.             *)
EditFile == \E f \in File : tree[f] # Missing /\ Write(f)

(* apply_patch: git apply changes all the files of a patch, or none, and   *)
(* whether it succeeds or not, the patch file is unlinked.                 *)
ApplyPatch ==
    /\ tree' \in Tree /\ tree'[PatchFile] = Missing
    /\ UNCHANGED <<index, commits, branches, head, excused>>

(* Faulty: the file is unlinked after the check of the exit status.        *)
ApplyPatchFailsLittering ==
    /\ \E v \in Version : tree' = [tree EXCEPT ![PatchFile] = v]
    /\ UNCHANGED <<index, commits, branches, head, excused>>

(* The patch does not apply.                                               *)
ApplyPatchFails ==
    /\ tree' = [tree EXCEPT ![PatchFile] = Missing]
    /\ UNCHANGED <<index, commits, branches, head, excused>>

(* git apply is killed after 60 s: the exception leaves the patch file, and *)
(* the files that were written by then.                                    *)
ApplyPatchTimesOut ==
    /\ tree' \in Tree /\ tree'[PatchFile] # Missing
    /\ excused' = TRUE
    /\ UNCHANGED <<index, commits, branches, head>>

(* create_branch: git checkout -b.  It makes no branch of a HEAD that has   *)
(* no commit, but the first commit will be on it.                          *)
CreateBranch ==
    /\ \E b \in Branch :
         /\ branches[b] = 0
         /\ branches' = [branches EXCEPT ![b] = branches[head]]
         /\ head' = b
    /\ UNCHANGED <<tree, index, commits, excused>>

(* Faulty: git checkout -f.                                                *)
CheckoutForced ==
    /\ \E b \in Branch \ {head} :
         /\ branches[b] # 0
         /\ tree' = commits[branches[b]] /\ index' = commits[branches[b]]
         /\ head' = b
    /\ UNCHANGED <<commits, branches, excused>>

(* checkout of a branch.  A file that differs between the two commits, and *)
(* whose staged contents are not already the target's, is written; it must *)
(* have no local changes, but one that was only deleted from the working   *)
(* tree counts as clean.  All other files keep theirs, and one that was    *)
(* unstaged and would have to go stops the checkout.                       *)
Checkout ==
    /\ \E b \in Branch \ {head} :
         LET target == commits[branches[b]]
             Moves(f) == target[f] # HeadTree[f] /\ index[f] # target[f]
             Clean(f) == index[f] = HeadTree[f] /\ tree[f] \in {HeadTree[f], Missing}
             InTheWay(f) == /\ target[f] = Missing /\ HeadTree[f] # Missing
                            /\ index[f] = Missing /\ tree[f] # Missing
         IN  /\ branches[b] # 0
             /\ \A f \in File : (Moves(f) => Clean(f)) /\ ~InTheWay(f)
             /\ tree' = [f \in File |-> IF Moves(f) THEN target[f] ELSE tree[f]]
             /\ index' = [f \in File |-> IF Moves(f) THEN target[f] ELSE index[f]]
             /\ head' = b
    /\ UNCHANGED <<commits, branches, excused>>

(* checkout, too: git takes a ref that names no branch but files for them, *)
(* and brings them back as they are staged.                                *)
CheckoutFiles ==
    /\ \E paths \in SUBSET {f \in File : index[f] # Missing} :
         tree' = [f \in File |-> IF f \in paths THEN index[f] ELSE tree[f]]
    /\ UNCHANGED <<index, commits, branches, head, excused>>

(* add: of the given paths, which must match something, or of everything.  *)
Add ==
    /\ \E paths \in SUBSET File :
         /\ \A f \in paths : tree[f] # Missing \/ index[f] # Missing
         /\ index' = [f \in File |-> IF f \in paths \/ paths = {} THEN tree[f] ELSE index[f]]
    /\ UNCHANGED <<tree, commits, branches, head, excused>>

(* commit: what is staged.                                                 *)
Commit ==
    /\ index # HeadTree /\ Len(commits) < MaxCommits
    /\ commits' = Append(commits, index)
    /\ branches' = [branches EXCEPT ![head] = Len(commits) + 1]
    /\ UNCHANGED <<tree, index, head, excused>>

(* restore_file: git checkout HEAD -- path, a file or a directory.         *)
RestoreFile ==
    /\ \E paths \in SUBSET {f \in File : HeadTree[f] # Missing} :
         /\ tree' = [f \in File |-> IF f \in paths THEN HeadTree[f] ELSE tree[f]]
         /\ index' = [f \in File |-> IF f \in paths THEN HeadTree[f] ELSE index[f]]
    /\ UNCHANGED <<commits, branches, head, excused>>

WriteTool ==
    \/ WriteFile \/ EditFile \/ ApplyPatch \/ ApplyPatchFails \/ ApplyPatchTimesOut
    \/ CreateBranch \/ Checkout \/ CheckoutFiles \/ Add \/ Commit \/ RestoreFile

-----------------------------------------------------------------------------
(* What the reviewer is shown: "git diff HEAD", which leaves out untracked *)
(* files and prints nothing without a commit, or, if that is empty, "git   *)
(* diff" against the index.                                                *)

Tracked(f) == index[f] # Missing \/ HeadTree[f] # Missing

ChangedFromHead == {f \in File : Born /\ Tracked(f) /\ tree[f] # HeadTree[f]}

ChangedFromIndex == {f \in File : index[f] # Missing /\ tree[f] # index[f]}

Shown == IF ChangedFromHead # {} THEN ChangedFromHead ELSE ChangedFromIndex

=============================================================================
