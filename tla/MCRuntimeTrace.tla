--------------------------- MODULE MCRuntimeTrace ---------------------------
(* Two overlapping runs and two calls: enough for a fire-and-forget call   *)
(* that itself awaits another, and for a call made while the other run     *)
(* waits or after it has answered.                                         *)
EXTENDS RuntimeTrace
CONSTANTS r1, r2, c1, c2
MCRuns  == {r1, r2}
MCCalls == {c1, c2}
MCOutcomes == {"success", "error"}
=============================================================================
