------------------------------ MODULE MCChatPanel ------------------------------
(* How often the visitor makes each move. *)
EXTENDS ChatPanel

MCBudget == [submit |-> 2, restart |-> 1, resize |-> 2, open |-> 1, model |-> 1, refresh |-> 1,
             close |-> 1, all |-> 4]
MCDownloaded == {{}, {"small"}}
=============================================================================
