----------------------------- MODULE MCListPages -----------------------------
(* Every page with one row at first and room for two more, two requests. *)
EXTENDS ListPages

AllPages == {"bots", "projects", "memories", "settings", "servers", "credentials",
             "documents", "chats", "instructions"}
=============================================================================
