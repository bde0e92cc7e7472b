----------------------------- MODULE MCChatTurns -----------------------------
(* Instances of the chat turns for TLC. *)
EXTENDS ChatTurns, TLC

CONSTANTS t1, t2

TwoTabs  == {t1, t2}
Symmetry == Permutations(TwoTabs)
=============================================================================
