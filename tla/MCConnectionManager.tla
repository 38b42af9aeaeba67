------------------------ MODULE MCConnectionManager ------------------------
(* ConnectionManager on a small instance: the intervals keep the order they *)
(* have in the code (interval < silence <= fresh < freezes).                *)
EXTENDS ConnectionManager
=============================================================================
