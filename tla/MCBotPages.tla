------------------------------ MODULE MCBotPages ------------------------------
(* One run that parks twice, two requests at once. *)
EXTENDS BotPages

=============================================================================
