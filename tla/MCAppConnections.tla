--------------------------- MODULE MCAppConnections ---------------------------
(* Two providers and a built-in app, two requests, on each of four pages. *)
EXTENDS AppConnections

=============================================================================
