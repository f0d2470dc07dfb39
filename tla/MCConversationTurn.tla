-------------------------- MODULE MCConversationTurn --------------------------
(* Small instances of ConversationTurn for TLC. *)
EXTENDS ConversationTurnProps

MCShell == {"shell"}
=============================================================================
