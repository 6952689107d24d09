-------------------------- MODULE MCConversation --------------------------
(* Results of 100 characters stay as they are, of 250 grow when they are    *)
(* cut (to 263), and of 2000 shrink.                                        *)
EXTENDS Conversation

MCResultChars == {100, 250, 2000}

MCTurnTokens == {1, 400}

=============================================================================
