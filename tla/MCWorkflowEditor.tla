--------------------------- MODULE MCWorkflowEditor ---------------------------
(* One workflow of two nodes, two requests at once. *)
EXTENDS WorkflowEditor

CONSTANTS w1, w2, n1, n2

=============================================================================
