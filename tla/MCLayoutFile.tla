---------------------------- MODULE MCLayoutFile ----------------------------
(* Three requests, each a save or a load: the third is queued while the    *)
(* first is being answered and the second is being written.                *)
EXTENDS LayoutFile
CONSTANTS q1, q2, q3
MCRequests == {q1, q2, q3}
=============================================================================
