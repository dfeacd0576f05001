--------------------------- MODULE MCOutputInstall ---------------------------
(* Three outputs of any kind on three origins, one of them with port 0:     *)
(* enough for two outputs to share a server while a third one fails.  Two   *)
(* have one path, and that of the third lies under a wildcard of direct run.*)
EXTENDS OutputInstall
CONSTANTS x, y, dyn
MCOrigins == {x, y, dyn}
MCDynamic == {dyn}
MCRunPath == <<"direct-run">>
MCPath    == <<<<"graph">>, <<"graph">>, <<"direct-run", "history">>>>
==============================================================================
