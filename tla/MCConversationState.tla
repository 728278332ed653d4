-------------------------- MODULE MCConversationState --------------------------
(* A small instance of ConversationState for TLC.                           *)
EXTENDS ConversationState

AllMessages == Inputs
=============================================================================
