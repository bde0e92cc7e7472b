----------------------------- MODULE MCChatClient -----------------------------
(* Two conversations, two streams. *)
EXTENDS ChatClient

CONSTANTS c1, c2

=============================================================================
