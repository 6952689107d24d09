--------------------------- MODULE MCServiceCall ---------------------------
(* Services ask for three seconds or for an hour.                           *)
EXTENDS ServiceCall

MCHint == {6, 7200}

=============================================================================
