--------------------------- MODULE MCRepairFlow ---------------------------
(* A module with a bug, and a new module that its fix needs: the suite      *)
(* passes on the tree that has both.                                        *)
EXTENDS RepairFlow

MCFile == {"module", "helper", "patch"}

MCTree(module, helper) ==
    [f \in MCFile |-> CASE f = "module" -> module
                         [] f = "helper" -> helper
                         [] f = "patch" -> "missing"]

MCBaseline == MCTree("bug", "missing")

MCGreenTree ==
    {[MCTree("fix", "fix") EXCEPT !["patch"] = p] : p \in {"missing", "bug", "fix"}}

MCRemoteTree == {MCTree("bug", "fix")}

(* A longer run, of the module and the patch file only: new files are those *)
(* that a patch has deleted before, and the patch file itself.              *)
MCFewFiles == {"module", "patch"}

MCFewTree(module, patch) ==
    [f \in MCFewFiles |-> IF f = "module" THEN module ELSE patch]

MCFewBaseline == MCFewTree("bug", "missing")

MCFewGreen == {MCFewTree("fix", p) : p \in {"missing", "bug", "fix"}}

MCFewRemote == {MCFewTree("bug", "missing")}

=============================================================================
