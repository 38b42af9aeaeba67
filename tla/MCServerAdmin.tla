--------------------------- MODULE MCServerAdmin ----------------------------
(* An issued client next to the default one, and two sessions. *)
EXTENDS ServerAdmin, TLC

Interchangeable == Permutations(Sids)
=============================================================================
