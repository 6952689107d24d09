----------------------------- MODULE MCPrograms -----------------------------
(* The repository of MCSandboxCopy, and three cases to evaluate: one may    *)
(* stand between two others.                                               *)
EXTENDS Programs, MCSandboxCopy

=============================================================================
