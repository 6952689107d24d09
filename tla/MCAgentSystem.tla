--------------------------- MODULE MCAgentSystem ---------------------------
(* A registry of seven tools: a read tool, and a write tool, of a namespace *)
(* both subagents may use, one read tool of a namespace only one may use,   *)
(* a write tool that no subagent may use, and the tools AgentSystem names.  *)
EXTENDS AgentSystem

MCTool == {"read_file", "write_file", "run_tests", "comment",
           "analyze_failure", "review_patch", "load"}

MCNamespaceOf ==
    [t \in MCTool |->
        CASE t \in {"read_file", "write_file"} -> "code"
          [] t = "run_tests" -> "ci"
          [] t = "comment" -> "github"
          [] t \in {"analyze_failure", "review_patch"} -> "orchestration"
          [] t = "load" -> "tools"]

MCScopeOf ==
    [t \in MCTool |-> IF t \in {"write_file", "comment"} THEN "write" ELSE "read"]

=============================================================================
