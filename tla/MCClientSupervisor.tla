------------------------ MODULE MCClientSupervisor -------------------------
(* The supervisor with two carriers of rising cost. *)
EXTENDS ClientSupervisor

MCCost == [c \in Carriers |-> c]

AllSetups == [pooled : BOOLEAN, prober : BOOLEAN]

PooledSetup == {[pooled |-> TRUE, prober |-> TRUE]}
=============================================================================
