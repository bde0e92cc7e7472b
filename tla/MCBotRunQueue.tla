---------------------------- MODULE MCBotRunQueue ----------------------------
(* Instances of the bot run queue for TLC. *)
EXTENDS BotRunQueue

CONSTANTS c1, c2

OneConv  == {c1}
TwoConvs == {c1, c2}
None     == {}
==============================================================================
