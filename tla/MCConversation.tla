--------------------------- MODULE MCConversation ---------------------------
(* The instances of Conversation that TLC checks. *)
EXTENDS Conversation, TLC
=============================================================================
