----------------------------- MODULE MCToolPages -----------------------------
(* One tool with a secret header at first, two more, two requests. *)
EXTENDS ToolPages

=============================================================================
