-------------------------- MODULE MCInspectorStore --------------------------
(* Two endpoints, both with a version to acknowledge, and a file; two loads *)
(* and two saves that may overlap, while the tab moves three times.        *)
EXTENDS InspectorStore
CONSTANTS a, b
MCEndpoints  == {a, b}
MCMismatched == {a, b}
=============================================================================
