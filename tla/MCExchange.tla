----------------------------- MODULE MCExchange -----------------------------
(* Two tools, one of them with arguments like those of open_pull_request,  *)
(* a name that is nobody's, and one that only looks translated.            *)
EXTENDS Exchange

Read == <<"code", ".", "read">>
Open == <<"github", ".", "open">>

MCTool == {Read, Open}

MCHandler ==
    [t \in MCTool |-> IF t = Read THEN [required |-> {"path"}, optional |-> {}]
                                  ELSE [required |-> {"title"}, optional |-> {"body"}]]

MCInvented == {<<"code", "__", "write">>}

MCArguments == {{"path"}, {"title", "body"}, {"title", "path"}}

=============================================================================
