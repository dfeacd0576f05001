---------------------------- MODULE MCAccessGuard ----------------------------
(* Three clients for a tracker of two, so that evictions happen; a block   *)
(* one tick longer than a window and not a whole number of seconds; one    *)
(* restart, with a random secret, so that tokens of a dead process exist;  *)
(* seven guesses, so that a third client can make more than a window lets  *)
(* it while the other two are blocked and the tracker forgets it each time.*)
EXTENDS AccessGuard, TLC
CONSTANTS k1, k2, k3
MCClients == {k1, k2, k3}
Symmetry  == Permutations(MCClients)
=============================================================================
