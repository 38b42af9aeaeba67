---------------------------- MODULE OrderedPipe ----------------------------
(***************************************************************************)
(* What the relay relies on: what goes into a session comes out at the     *)
(* other end in the same order, nothing twice and nothing skipped.  The    *)
(* units put in are numbered from 1.                                       *)
(***************************************************************************)
EXTENDS Integers, Sequences

VARIABLES accepted,    \* how many units were put in
          delivered    \* the units that came out

Upto(n) == [i \in 1..n |-> i]

Init == accepted = 0 /\ delivered = <<>>

Put == accepted' > accepted /\ UNCHANGED delivered

Get == \E n \in Len(delivered)..accepted : delivered' = Upto(n) /\ UNCHANGED accepted

Next == Put \/ Get

Spec == Init /\ [][Next]_<<accepted, delivered>>
=============================================================================
