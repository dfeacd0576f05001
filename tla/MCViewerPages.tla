----------------------------- MODULE MCViewerPages -----------------------------
(* A tab that starts the demo twice, reads its graph once, and comes to      *)
(* /view twice.                                                              *)
EXTENDS ViewerPages
=============================================================================
