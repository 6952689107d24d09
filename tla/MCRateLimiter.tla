--------------------------- MODULE MCRateLimiter ---------------------------
(* Two threads share a burst of two tokens, as for ten requests a minute.   *)
EXTENDS Pacing

MCThread == {"a", "b"}

=============================================================================
