------------------------------ MODULE MCConversations ------------------------------
(* Small instances of Conversations for TLC. *)
EXTENDS Conversations

=============================================================================
