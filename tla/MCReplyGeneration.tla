--------------------------- MODULE MCReplyGeneration ---------------------------
(* Small instances of ReplyGeneration for TLC.                              *)
EXTENDS ReplyGeneration

OldestMessage == {1}
=============================================================================
