--------------------------- MODULE MCTunnelServer ---------------------------
(* A client that connects again and again, and a connection that repeats its requests. *)
EXTENDS TunnelServer
=============================================================================
