------------------------------ MODULE MCPacing ------------------------------
(* The one thread of a run, and the tier of 30 requests per minute that    *)
(* is the default for Groq: a burst of 5, and 27 tokens in a minute.       *)
EXTENDS Pacing

MCThread == {"agent"}

=============================================================================
