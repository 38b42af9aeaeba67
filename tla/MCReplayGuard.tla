--------------------------- MODULE MCReplayGuard ---------------------------
(* Three tasks, two nonces and four epochs, one more than the guard keeps. *)
EXTENDS ReplayGuard
=============================================================================
