-------------------------------- MODULE Clock --------------------------------
(***************************************************************************)
(* The monotonic clock of vlyness-discipline/clock.rs, in milliseconds,    *)
(* which the connection manager reads by itself at every call and the      *)
(* supervisor hands to the carrier pool.                                   *)
(***************************************************************************)
EXTENDS Integers

CONSTANT MaxTime   \* bound: the clock stops here

ASSUME TimeAssumption == MaxTime \in Nat

VARIABLE now       \* now_ms()

\* The clock moves on, by any amount, between two calls of whoever reads it.
Elapse == \E t \in (now + 1)..MaxTime : now' = t
=============================================================================
