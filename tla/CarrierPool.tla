---------------------------- MODULE CarrierPool ----------------------------
(***************************************************************************)
(* The pool of preloaded carriers of vlyness-profile/pool.rs: rotation     *)
(* from the cheapest to the dearest, with an escalating cooldown for a     *)
(* carrier that fell.  A carrier is named by its position in the           *)
(* configuration; the entries, which the code keeps in a stable sort by    *)
(* cost, are ordered by Before.                                            *)
(***************************************************************************)
EXTENDS Clock

CONSTANTS
    Carriers,      \* positions in the configuration
    Cost,          \* CarrierType::cost of each carrier
    BaseCooldown,  \* CarrierPool.cooldown_ms
    MaxCooldown    \* MAX_COOLDOWN_MS

ASSUME CarrierAssumption ==
    /\ Carriers \subseteq Nat \ {0}
    /\ Cost \in [Carriers -> Nat]

ASSUME CooldownAssumption ==
    /\ BaseCooldown \in Nat
    /\ MaxCooldown \in Nat

\* The shift of mark_failed is capped at 16, so these are all the powers it meets.
ASSUME ShiftAssumption == \A n \in 0..16 : 2^n \in Nat

VARIABLES
    current,        \* index of the selected carrier, or NoCarrier
    blocked_until,  \* per carrier: end of its cooldown
    falls           \* per carrier: Entry.strikes, falls in a row

pool == <<current, blocked_until, falls>>
poolVars == <<now, pool>>

NoCarrier == 0

PoolTypeOK ==
    /\ now \in Nat
    /\ current \in Carriers \cup {NoCarrier}
    /\ blocked_until \in [Carriers -> Nat]
    /\ falls \in [Carriers -> Nat]

-----------------------------------------------------------------------------
Least(a, b) == IF a < b THEN a ELSE b

\* Stable order by cost: equal costs keep the order of the configuration.
Before(c, d) == Cost[c] < Cost[d] \/ (Cost[c] = Cost[d] /\ c < d)

Available == {c \in Carriers : blocked_until[c] <= now}

\* next_available_ms, when every carrier is cooling.
NextAvailable ==
    CHOOSE t \in {blocked_until[c] : c \in Carriers} : \A c \in Carriers : t <= blocked_until[c]

\* Mutant: the shift is the new number of falls, one too many.
CooldownShifts(n) == Least(BaseCooldown * 2^Least(n, 16), MaxCooldown)

\* Cooldown after the n-th fall in a row: base * 2^(n-1) up to the ceiling.
Cooldown(n) == Least(BaseCooldown * 2^Least(n - 1, 16), MaxCooldown)

PoolInit ==
    /\ now = 0
    /\ current = NoCarrier
    /\ blocked_until = [c \in Carriers |-> 0]
    /\ falls = [c \in Carriers |-> 0]

\* The first entry not cooling becomes current; with none, nothing changes.
Select ==
    /\ \/ \E c \in Available :
             /\ \A d \in Available \ {c} : Before(c, d)
             /\ current' = c
       \/ Available = {} /\ UNCHANGED current
    /\ UNCHANGED <<now, blocked_until, falls>>

\* Mutant: current is read, not taken.
FailedStaysCurrent ==
    /\ \/ /\ current # NoCarrier
          /\ falls' = [falls EXCEPT ![current] = @ + 1]
          /\ blocked_until' = [blocked_until EXCEPT ![current] = now + Cooldown(falls[current] + 1)]
          /\ UNCHANGED current
       \/ current = NoCarrier /\ UNCHANGED pool
    /\ UNCHANGED now

MarkFailed ==
    /\ \/ /\ current # NoCarrier
          /\ falls' = [falls EXCEPT ![current] = @ + 1]
          /\ blocked_until' = [blocked_until EXCEPT ![current] = now + Cooldown(falls[current] + 1)]
          /\ current' = NoCarrier
       \/ current = NoCarrier /\ UNCHANGED pool
    /\ UNCHANGED now

MarkHealthy ==
    /\ \/ /\ current # NoCarrier
          /\ falls' = [falls EXCEPT ![current] = 0]
          /\ blocked_until' = [blocked_until EXCEPT ![current] = 0]
       \/ current = NoCarrier /\ UNCHANGED <<falls, blocked_until>>
    /\ UNCHANGED <<now, current>>

PoolAdvance == Elapse /\ UNCHANGED pool

PoolNext == Select \/ MarkFailed \/ MarkHealthy \/ PoolAdvance

PoolSpec == PoolInit /\ [][PoolNext]_poolVars

-----------------------------------------------------------------------------
(* Properties *)

\* The selected carrier is never one that is cooling, from its selection until it is
\* marked failed: a cooldown is imposed only together with deselection.
CurrentNotCooling == current # NoCarrier => blocked_until[current] <= now

\* What n falls in a row can cost at most: the ceiling, and the base doubled with each
\* fall after the first (17 is where the capped shift would make no more of it).
Worth(n, d) ==
    /\ n > 0
    /\ d <= MaxCooldown
    /\ n <= 17 => d <= BaseCooldown * 2^(n - 1)

\* A cooldown is earned: the first fall costs at most the base and each further one in a
\* row at most doubles it, never above the one-hour ceiling, whatever the clock did since;
\* a carrier with a clean record is always on offer.
CoolingIsEarned ==
    \A c \in Carriers : blocked_until[c] > now => Worth(falls[c], blocked_until[c] - now)
=============================================================================
