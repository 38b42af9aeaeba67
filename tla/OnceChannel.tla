---------------------------- MODULE OnceChannel ----------------------------
(***************************************************************************)
(* What the datagram side channel promises its user: datagrams numbered in *)
(* the order they are sealed may be lost and may overtake each other, but  *)
(* each is handed over at most once and only after it was sealed.          *)
(***************************************************************************)
EXTENDS Naturals

CONSTANT Numbers   \* the numbers a datagram may carry

VARIABLES
    sealed,        \* how many datagrams were sealed
    handed         \* per number: how often its datagram was handed over

Init == sealed = 0 /\ handed = [n \in Numbers |-> 0]

Submit == sealed' = sealed + 1 /\ UNCHANGED handed

HandOver(n) ==
    /\ n < sealed /\ handed[n] = 0
    /\ handed' = [handed EXCEPT ![n] = 1]
    /\ UNCHANGED sealed

Next == Submit \/ \E n \in Numbers : HandOver(n)

Spec == Init /\ [][Next]_<<sealed, handed>>
=============================================================================
