--------------------------- MODULE MCSandboxCopy ---------------------------
(* A repository with a package, in which there is a cache as well as at    *)
(* the top.                                                                *)
EXTENDS SandboxCopy

MCSource == <<"repo">>

MCFile == {<<"repo", "setup">>, <<"repo", "pkg", "code">>, <<"repo", "pkg", "cache", "old">>}

MCFolder == {<<"repo">>, <<"repo", "pkg">>, <<"repo", "pkg", "cache">>, <<"repo", "cache">>}

(* Next to the repository, the repository itself, inside it, and inside it *)
(* below an ignored name, in a directory that is there and in a new one.   *)
MCRoot == {<<"work">>, <<"repo">>, <<"repo", "sandbox">>,
           <<"repo", "cache", "sandbox">>, <<"repo", "new", "cache">>}

(* What is not copied anyway, a file, a directory, and a root.             *)
MCUnreliable ==
    {<<"repo", "pkg", "cache", "old">>, <<"repo", "setup">>, <<"repo", "pkg">>, <<"work">>}

(* The default.                                                            *)
MCInside == {<<"repo", "sandbox">>}

=============================================================================
