----------------------- MODULE ClientSupervisorProofs -----------------------
(***************************************************************************)
(* Proofs about ConnectionManager, CarrierPool and ClientSupervisor, which *)
(* extends both, for every choice of their intervals and every pool: first *)
(* the manager and the pool by themselves, each under its own              *)
(* specification, then the loop that drives both, to which what was proved *)
(* of them carries over and whose own bookkeeping agrees with theirs.      *)
(***************************************************************************)
EXTENDS ClientSupervisor, WellFoundedInduction, TLAPS

-----------------------------------------------------------------------------
(* The manager by itself *)

\* The pause the budget holds covers the history it has to respect.
PauseCovers ==
    /\ paced_at # None => next_allowed >= paced_at + MinInterval
    /\ quiet_until <= next_allowed
    /\ silent_until <= quiet_until

\* Once a poll has answered "connect" and until the connection is given up, no silence runs.
Awake ==
    /\ link = "idle" /\ verdict = "connect" => next_allowed <= now
    /\ link = "dialing" => quiet_until <= now /\ verdict = "none"
    /\ link = "up" /\ verdict # "frozen" => quiet_until <= now

\* Unanswered sends belong to a connection established after the last strike.
PendingProbed ==
    /\ link = "up" /\ verdict # "frozen" => probed
    /\ unacked_since # None => probed

ManagerInv == TypeOK /\ BudgetExact /\ PauseBounded /\ PauseCovers /\ Awake /\ PendingProbed

USE BudgetAssumption, DetectorAssumption, FreezeAssumption, TimeAssumption

-----------------------------------------------------------------------------
\* A backoff delay never exceeds the cap (next_delay over [0, ceiling]).
LEMMA BackoffWindowBounded ==
    ASSUME NEW n \in Nat, NEW d \in BackoffWindow(n)
    PROVE  d \in Nat /\ d <= BackoffCap
<1>1. d \in 0..BackoffCap
  BY DEF BackoffWindow
<1> QED
  BY <1>1

\* The initial state satisfies the inductive invariant.
LEMMA ManagerStarts == Init => ManagerInv
<1> SUFFICES ASSUME Init PROVE ManagerInv
  OBVIOUS
<1> USE DEF Init, None
<1>1. TypeOK
  BY DEF TypeOK, Times, OptTimes, Verdicts, Links
<1>2. BudgetExact /\ PauseCovers /\ Awake /\ PendingProbed
  BY DEF BudgetExact, PauseCovers, Awake, PendingProbed
<1>3. PauseBounded
  BY DEF PauseBounded, Later
<1> QED
  BY <1>1, <1>2, <1>3 DEF ManagerInv

\* poll preserves the inductive invariant, in each of its four outcomes.
LEMMA PollKeeps == ManagerInv /\ Poll => ManagerInv'
<1> SUFFICES ASSUME ManagerInv, Poll PROVE ManagerInv'
  OBVIOUS
<1> USE DEF ManagerInv, TypeOK, BudgetExact, PauseBounded, PauseCovers, Awake, PendingProbed,
        Later, None, Times, OptTimes, Verdicts, Links, MayPoll, IsSilent,
        budget, detector, freeze, history
<1>1. MayPoll
  BY DEF Poll
<1>2. CASE PollFrozen
  BY <1>1, <1>2 DEF PollFrozen
<1>3. CASE PollTrip
  <2>1. FreezeLength(strikes') \in Nat
        /\ FreezeLength(strikes') <= Later(FirstFreeze, RepeatFreeze)
    BY DEF FreezeLength
  <2>2. silent_until' = now + FreezeLength(strikes') /\ silent_until' \in Nat
    BY <1>3, <2>1 DEF PollTrip
  <2>q. quiet_until' = silent_until'
    BY <1>3 DEF PollTrip, FreezeLength
  <2>3. next_allowed' = Bump(silent_until') /\ next_allowed' \in Nat /\ silent_until' <= next_allowed'
    BY <1>3, <2>2 DEF PollTrip, Bump
  <2>4. PauseBounded'
    BY <1>3, <2>1, <2>2, <2>3 DEF PollTrip, Bump
  <2>5. TypeOK'
    <3>1. probed' \in BOOLEAN
      BY <1>3 DEF PollTrip
    <3>2. strikes' \in Nat /\ unacked_since' \in OptTimes /\ verdict' \in Verdicts /\ active' \in Nat
      BY <1>3 DEF PollTrip
    <3> QED
      BY <1>3, <2>2, <2>q, <2>3, <3>1, <3>2 DEF PollTrip
  <2>6. PauseCovers'
    BY <1>3, <2>2, <2>q, <2>3 DEF PollTrip, Bump
  <2>7. BudgetExact' /\ Awake' /\ PendingProbed'
    BY <1>1, <1>3 DEF PollTrip
  <2> QED
    BY <2>4, <2>5, <2>6, <2>7
<1>4. CASE PollNetworkDown
  BY <1>1, <1>4 DEF PollNetworkDown
<1>5. CASE PollBudget
  BY <1>1, <1>5 DEF PollBudget, Gate, AtCapacity
<1> QED
  BY <1>2, <1>3, <1>4, <1>5 DEF Poll

\* Every step preserves the inductive invariant.
LEMMA ManagerKeeps == ManagerInv /\ [Next]_vars => ManagerInv'
<1> SUFFICES ASSUME ManagerInv, [Next]_vars PROVE ManagerInv'
  OBVIOUS
<1> USE DEF ManagerInv, TypeOK, BudgetExact, PauseBounded, PauseCovers, Awake, PendingProbed,
        Later, None, Times, OptTimes, Verdicts, Links, budget, detector, freeze, history
<1>1. CASE Poll
  BY <1>1, PollKeeps
<1>2. CASE NoteAttempt
  BY <1>2 DEF NoteAttempt, Bump
<1>3. CASE NoteSuccess
  BY <1>3 DEF NoteSuccess
<1>4. CASE NoteFailure
  <2>1. PICK delay \in BackoffWindow(attempt) : next_allowed' = Bump(now + delay)
    BY <1>4 DEF NoteFailure
  <2>2. delay \in Nat /\ delay <= BackoffCap
    BY <2>1, BackoffWindowBounded
  <2> QED
    BY <1>4, <2>1, <2>2 DEF NoteFailure, Bump
<1>5. CASE NoteDrop
  <2>1. PICK delay \in BackoffWindow(attempt) :
            next_allowed' = Bump(now + Later(delay, MinInterval))
    BY <1>5 DEF NoteDrop
  <2>2. delay \in Nat /\ delay <= BackoffCap
    BY <2>1, BackoffWindowBounded
  <2> QED
    BY <1>5, <2>1, <2>2 DEF NoteDrop, Bump, SatDec
<1>6. CASE NoteClose
  BY <1>6 DEF NoteClose, Bump, SatDec
<1>7. CASE NoteSent
  BY <1>7 DEF NoteSent
<1>8. CASE NoteRecv
  BY <1>8 DEF NoteRecv
<1>9. CASE \E reachable \in BOOLEAN : NoteReference(reachable)
  BY <1>9 DEF NoteReference
<1>10. CASE Advance
  BY <1>10 DEF Advance, Elapse
<1>11. CASE UNCHANGED vars
  BY <1>11 DEF vars
<1> QED
  BY <1>1, <1>2, <1>3, <1>4, <1>5, <1>6, <1>7, <1>8, <1>9, <1>10, <1>11 DEF Next

\* The strengthened invariant holds in every reachable state.
THEOREM ManagerInvariance == Spec => []ManagerInv
<1> QED
  BY ManagerStarts, ManagerKeeps, PTL DEF Spec

-----------------------------------------------------------------------------
\* Type correctness of the manager's state.
THEOREM ManagerTyped == Spec => []TypeOK
<1>1. ManagerInv => TypeOK
  BY DEF ManagerInv
<1> QED
  BY <1>1, ManagerInvariance, PTL

\* The budget counts exactly the caller's open connection.
THEOREM BudgetExactness == Spec => []BudgetExact
<1>1. ManagerInv => BudgetExact
  BY DEF ManagerInv
<1> QED
  BY <1>1, ManagerInvariance, PTL

\* Pauses never add up beyond the longest single one.
THEOREM PauseBound == Spec => []PauseBounded
<1>1. ManagerInv => PauseBounded
  BY DEF ManagerInv
<1> QED
  BY <1>1, ManagerInvariance, PTL

\* Only note_attempt starts a dial.
LEMMA DialIsAttempt == ManagerInv /\ [Next]_vars /\ Dials => NoteAttempt
BY DEF Dials, Next, Poll, PollFrozen, PollTrip, PollNetworkDown, PollBudget, NoteSuccess,
       NoteFailure, NoteDrop, NoteClose, NoteSent, NoteRecv, NoteReference, Advance, vars

\* Consecutive dials, and a dial after a drop or close, are min_interval apart.
THEOREM PacingHolds == Spec => Pacing
<1>1. ManagerInv /\ [Next]_vars => [Dials => paced_at = None \/ now - paced_at >= MinInterval]_vars
  <2> SUFFICES ASSUME ManagerInv, [Next]_vars, Dials
               PROVE  paced_at = None \/ now - paced_at >= MinInterval
    OBVIOUS
  <2>1. NoteAttempt
    BY DialIsAttempt
  <2> QED
    BY <2>1 DEF NoteAttempt, ManagerInv, PauseCovers, Awake, TypeOK, OptTimes, Times, None
<1> QED
  BY <1>1, ManagerInvariance, PTL DEF Spec, Pacing

\* No dial starts inside a silence imposed by a strike.
THEOREM SilenceHolds == Spec => SilenceKept
<1>1. ManagerInv /\ [Next]_vars => [Dials => now >= quiet_until]_vars
  <2> SUFFICES ASSUME ManagerInv, [Next]_vars, Dials PROVE now >= quiet_until
    OBVIOUS
  <2>1. NoteAttempt
    BY DialIsAttempt
  <2> QED
    BY <2>1 DEF NoteAttempt, ManagerInv, PauseCovers, Awake, TypeOK, Times
<1> QED
  BY <1>1, ManagerInvariance, PTL DEF Spec, SilenceKept

\* A strike is counted only against a connection established after the previous strike.
THEOREM StrikeProbed == Spec => StrikeNeedsProbe
<1>1. ManagerInv /\ [Next]_vars => [Strikes /\ strikes > 0 => probed]_vars
  <2> SUFFICES ASSUME ManagerInv, [Next]_vars, Strikes PROVE probed
    OBVIOUS
  <2>1. PollTrip
    BY DEF Strikes, ManagerInv, TypeOK, Next, Poll, PollFrozen, PollNetworkDown, PollBudget,
           NoteAttempt, NoteSuccess, NoteFailure, NoteDrop, NoteClose, NoteSent, NoteRecv,
           NoteReference, Advance, vars, freeze
  <2>2. unacked_since # None
    BY <2>1 DEF PollTrip, Health, Unanswered
  <2> QED
    BY <2>2 DEF ManagerInv, PendingProbed
<1> QED
  BY <1>1, ManagerInvariance, PTL DEF Spec, StrikeNeedsProbe

-----------------------------------------------------------------------------
(* The pool by itself *)

PoolInv == PoolTypeOK /\ CurrentNotCooling /\ CoolingIsEarned

\* A cooldown is a duration for every number of falls, the shift being capped at 16.
LEMMA CooldownType == ASSUME NEW n \in Nat, n > 0 PROVE Cooldown(n) \in Nat
<1>1. Least(n - 1, 16) \in 0..16
  BY DEF Least
<1>2. 2^Least(n - 1, 16) \in Nat
  BY <1>1, ShiftAssumption
<1>3. BaseCooldown * 2^Least(n - 1, 16) \in Nat
  BY <1>2, CooldownAssumption
<1> QED
  BY <1>3, CooldownAssumption DEF Cooldown, Least

\* The cooldown that follows the n-th fall is what n falls are worth.
LEMMA CooldownWorth == ASSUME NEW n \in Nat, n > 0 PROVE Worth(n, Cooldown(n))
<1>1. Cooldown(n) <= MaxCooldown /\ Cooldown(n) <= BaseCooldown * 2^Least(n - 1, 16)
  <2>1. BaseCooldown * 2^Least(n - 1, 16) \in Nat
    <3>1. Least(n - 1, 16) \in 0..16
      BY DEF Least
    <3>2. 2^Least(n - 1, 16) \in Nat
      BY <3>1, ShiftAssumption
    <3> QED
      BY <3>2, CooldownAssumption
  <2> QED
    BY <2>1, CooldownAssumption DEF Cooldown, Least
<1>2. ASSUME n <= 17 PROVE Least(n - 1, 16) = n - 1
  BY <1>2 DEF Least
<1> QED
  BY <1>1, <1>2 DEF Worth

\* What is worth a cooldown is worth what remains of it.
LEMMA WorthLess ==
    ASSUME NEW n \in Nat, NEW d \in Int, NEW e \in Int, e <= d, Worth(n, d)
    PROVE  Worth(n, e)
<1>1. ASSUME n <= 17 PROVE BaseCooldown * 2^(n - 1) \in Nat
  <2>1. n - 1 \in 0..16
    BY <1>1 DEF Worth
  <2>2. 2^(n - 1) \in Nat
    BY <2>1, ShiftAssumption
  <2> QED
    BY <2>2, CooldownAssumption
<1> QED
  BY <1>1, CooldownAssumption DEF Worth

\* The invariant holds initially.
LEMMA PoolStarts == PoolInit => PoolInv
BY DEF PoolInit, PoolInv, PoolTypeOK, CurrentNotCooling, CoolingIsEarned, NoCarrier

\* Every step preserves the inductive invariant.
LEMMA PoolKeeps == PoolInv /\ [PoolNext]_poolVars => PoolInv'
<1> SUFFICES ASSUME PoolInv, [PoolNext]_poolVars PROVE PoolInv'
  OBVIOUS
<1> USE CarrierAssumption DEF PoolInv, PoolTypeOK, NoCarrier
<1>1. CASE Select
  BY <1>1 DEF Select, Available, CurrentNotCooling, CoolingIsEarned
<1>2. CASE MarkFailed
  <2>1. CASE current # NoCarrier
    <3>1. falls[current] + 1 \in Nat /\ falls[current] + 1 > 0
      BY <2>1
    <3>2. Cooldown(falls[current] + 1) \in Nat
      BY <3>1, CooldownType
    <3>3. /\ falls' = [falls EXCEPT ![current] = falls[current] + 1]
          /\ blocked_until' = [blocked_until EXCEPT ![current] = now + Cooldown(falls[current] + 1)]
          /\ current' = NoCarrier /\ now' = now
      BY <1>2, <2>1 DEF MarkFailed
    <3>4. PoolTypeOK' /\ CurrentNotCooling'
      BY <2>1, <3>1, <3>2, <3>3 DEF CurrentNotCooling
    <3>5. CoolingIsEarned'
      <4> SUFFICES ASSUME NEW c \in Carriers, blocked_until'[c] > now
                   PROVE  Worth(falls'[c], blocked_until'[c] - now)
        BY <3>3 DEF CoolingIsEarned
      <4>1. CASE c = current
        <5>1. falls'[c] = falls[current] + 1
          BY <2>1, <3>3, <4>1
        <5>2. blocked_until'[c] - now = Cooldown(falls[current] + 1)
          BY <2>1, <3>2, <3>3, <4>1
        <5> QED
          BY <3>1, <5>1, <5>2, CooldownWorth
      <4>2. CASE c # current
        BY <3>3, <4>2 DEF CoolingIsEarned
      <4> QED
        BY <4>1, <4>2
    <3> QED
      BY <3>4, <3>5
  <2>2. CASE current = NoCarrier
    BY <1>2, <2>2 DEF MarkFailed, pool, CurrentNotCooling, CoolingIsEarned
  <2> QED
    BY <2>1, <2>2
<1>3. CASE MarkHealthy
  BY <1>3 DEF MarkHealthy, CurrentNotCooling, CoolingIsEarned
<1>4. CASE PoolAdvance
  <2>1. PoolTypeOK' /\ CurrentNotCooling'
    BY <1>4, TimeAssumption DEF PoolAdvance, Elapse, pool, CurrentNotCooling
  <2>2. CoolingIsEarned'
    <3> SUFFICES ASSUME NEW c \in Carriers, blocked_until[c] > now'
                 PROVE  Worth(falls[c], blocked_until[c] - now')
      BY <1>4 DEF PoolAdvance, Elapse, pool, CoolingIsEarned
    <3>1. now' \in Nat /\ now' > now
      BY <1>4, TimeAssumption DEF PoolAdvance, Elapse
    <3>2. Worth(falls[c], blocked_until[c] - now)
      BY <3>1 DEF CoolingIsEarned
    <3> QED
      BY <3>1, <3>2, WorthLess
  <2> QED
    BY <2>1, <2>2
<1>5. CASE UNCHANGED poolVars
  BY <1>5 DEF poolVars, pool, CurrentNotCooling, CoolingIsEarned
<1> QED
  BY <1>1, <1>2, <1>3, <1>4, <1>5 DEF PoolNext

\* The inductive invariant holds in every reachable state.
THEOREM PoolInvariance == PoolSpec => []PoolInv
<1> QED
  BY PoolStarts, PoolKeeps, PTL DEF PoolSpec

-----------------------------------------------------------------------------
\* Type correctness of the pool.
THEOREM PoolTyped == PoolSpec => []PoolTypeOK
<1>1. PoolInv => PoolTypeOK
  BY DEF PoolInv
<1> QED
  BY <1>1, PoolInvariance, PTL

\* The carrier in use is never one that is cooling.
THEOREM CurrentIsOffered == PoolSpec => []CurrentNotCooling
<1>1. PoolInv => CurrentNotCooling
  BY DEF PoolInv
<1> QED
  BY <1>1, PoolInvariance, PTL

\* No carrier cools longer than its falls in a row are worth.
THEOREM CooldownsAreEarned == PoolSpec => []CoolingIsEarned
<1>1. PoolInv => CoolingIsEarned
  BY DEF PoolInv
<1> QED
  BY <1>1, PoolInvariance, PTL

-----------------------------------------------------------------------------
(* The manager under the supervisor *)

Calls ==
    \/ Poll \/ NoteAttempt \/ NoteSuccess \/ NoteFailure \/ NoteDrop
    \/ NoteSent \/ NoteRecv
    \/ \E reachable \in BOOLEAN : NoteReference(reachable)

Slept == (\E d \in Nat : now' = now + d) /\ UNCHANGED mgrVars

\* What a step of the supervisor does to the manager.
MgrStep == Calls \/ Slept \/ (setup.pooled /\ FreshManager)

\* A call of the manager is one that ConnectionManager knows.
LEMMA CallsKnown == Calls => Next
BY DEF Calls, Next

\* The types of the manager survive every step, a fresh manager included.
LEMMA ManagerTypes == ASSUME TypeOK, MgrStep PROVE TypeOK'
<1> USE DEF TypeOK, Times, OptTimes, Verdicts, Links, None,
        Later, Bump, budget, detector, freeze, history
<1>1. CASE Poll
    <2>1. CASE PollTrip
        <3>1. strikes' \in Nat /\ FreezeLength(strikes') \in Nat
            BY <2>1 DEF PollTrip, FreezeLength
        <3>2. silent_until' \in Nat /\ silent_until' = now + FreezeLength(strikes')
            BY <2>1, <3>1 DEF PollTrip
        <3>3. next_allowed' \in Nat
            BY <2>1, <3>2 DEF PollTrip
        <3>4. quiet_until' \in Nat
            BY <2>1 DEF PollTrip
        <3>5. probed' \in BOOLEAN
            BY <2>1 DEF PollTrip
        <3> QED BY <2>1, <3>1, <3>2, <3>3, <3>4, <3>5 DEF PollTrip
    <2>2. CASE PollFrozen \/ PollNetworkDown \/ PollBudget
        BY <2>2 DEF PollFrozen, PollNetworkDown, PollBudget, Gate
    <2> QED BY <1>1, <2>1, <2>2 DEF Poll
<1>2. CASE NoteAttempt \/ NoteSuccess
    <2>1. probed' \in BOOLEAN
        BY <1>2 DEF NoteAttempt, NoteSuccess
    <2> QED BY <1>2, <2>1 DEF NoteAttempt, NoteSuccess
<1>3. CASE NoteFailure
    <2>1. PICK delay \in Nat : next_allowed' = Bump(now + delay)
        BY <1>3 DEF NoteFailure, BackoffWindow
    <2> QED BY <1>3, <2>1 DEF NoteFailure
<1>4. CASE NoteDrop
    <2>1. PICK delay \in Nat : next_allowed' = Bump(now + Later(delay, MinInterval))
        BY <1>4 DEF NoteDrop, BackoffWindow
    <2> QED BY <1>4, <2>1 DEF NoteDrop, SatDec
<1>5. CASE NoteSent \/ NoteRecv
    BY <1>5 DEF NoteSent, NoteRecv
<1>6. CASE \E reachable \in BOOLEAN : NoteReference(reachable)
    BY <1>6 DEF NoteReference
<1>7. CASE Slept
    BY <1>7 DEF Slept, mgrVars
<1>8. CASE FreshManager
    BY <1>8 DEF FreshManager
<1> QED BY <1>1, <1>2, <1>3, <1>4, <1>5, <1>6, <1>7, <1>8 DEF MgrStep, Calls

\* Without a pool the manager is never rebuilt, and all that ConnectionManager promises holds.
LEMMA ManagerKept ==
    ASSUME ~setup.pooled, ManagerInv, MgrStep PROVE ManagerInv'
<1>1. CASE Calls
    BY <1>1, CallsKnown, ManagerKeeps
<1>2. CASE Slept
    BY <1>2 DEF Slept, mgrVars, budget, detector, freeze, history, ManagerInv, TypeOK, BudgetExact,
                PauseBounded, PauseCovers, Awake, PendingProbed, Later, None, Times, OptTimes,
                Verdicts, Links
<1> QED BY <1>1, <1>2 DEF MgrStep

-----------------------------------------------------------------------------
(* The pool under the supervisor *)

\* What a step of the supervisor does to the pool, while the clock stands or moves on.
PoolStep ==
    \/ Select \/ MarkFailed \/ MarkHealthy
    \/ UNCHANGED pool /\ now' \in Nat /\ now' >= now

\* All that CarrierPool promises holds under the supervisor.
LEMMA PoolKept == ASSUME PoolInv, PoolStep PROVE PoolInv'
<1>1. CASE Select \/ MarkFailed \/ MarkHealthy
    BY <1>1, PoolKeeps DEF PoolNext
<1>2. CASE UNCHANGED pool /\ now' \in Nat /\ now' >= now
    <2> USE DEF PoolInv, PoolTypeOK, NoCarrier
    <2>1. PoolTypeOK' /\ CurrentNotCooling'
        BY <1>2, CarrierAssumption DEF pool, CurrentNotCooling
    <2>2. CoolingIsEarned'
        <3> SUFFICES ASSUME NEW c \in Carriers, blocked_until[c] > now'
                     PROVE  Worth(falls[c], blocked_until[c] - now')
            BY <1>2 DEF pool, CoolingIsEarned
        <3>1. Worth(falls[c], blocked_until[c] - now)
            BY <1>2 DEF CoolingIsEarned
        <3> QED BY <1>2, <3>1, WorthLess
    <2> QED BY <2>1, <2>2
<1> QED BY <1>1, <1>2 DEF PoolStep

\* Some cooldown ends first.
LEMMA SomeEndsFirst ==
    ASSUME blocked_until \in [Carriers -> Nat] PROVE NextAvailable \in Nat
<1> DEFINE T == {blocked_until[c] : c \in Carriers}
           R == OpToRel(<, Nat)
<1>1. T \subseteq Nat /\ T # {}
    BY SupervisorAssumption
<1>2. PICK x \in T : \A y \in T : ~(<<y, x>> \in R)
    <2>1. IsWellFoundedOn(R, Nat)
        BY NatLessThanWellFounded, Zenon
    <2> HIDE DEF R
    <2> QED BY <1>1, <2>1, WFMin
<1>3. ASSUME NEW y \in Nat, NEW z \in Nat, y < z PROVE <<y, z>> \in R
    BY <1>3, Zenon DEF OpToRel
<1> HIDE DEF R
<1>4. \A y \in T : x <= y
    <2> SUFFICES ASSUME NEW y \in T, y < x PROVE FALSE
        BY <1>1
    <2>1. y \in Nat /\ x \in Nat
        BY <1>1
    <2> QED BY <1>2, <1>3, <2>1
<1>5. \E t \in T : \A c \in Carriers : t <= blocked_until[c]
    BY <1>4
<1>6. NextAvailable \in T
    BY <1>5 DEF NextAvailable
<1> QED BY <1>1, <1>6

-----------------------------------------------------------------------------
(* The loop *)

\* The streak of failed dials stays below the limit except while the carrier is changed,
\* and it is changed only for cause.
ForCause ==
    /\ pc \notin {"rotate", "select", "error"} => fail_streak < MaxFailures
    /\ pc = "drop_switch" => strikes >= 3
    /\ pc = "rotate" => fail_streak >= MaxFailures \/ strikes >= 3

\* Without a pool no carrier is current, none is selected, and the manager is never rebuilt.
NoPool == ~setup.pooled => current = NoCarrier /\ pc # "select" /\ ManagerInv

SupervisorInv == SupervisorTypeOK /\ PoolInv /\ PoolTracksConn /\ ForCause /\ NoPool

\* The invariant holds initially.
LEMMA SupervisorStarts == SupervisorInit => SupervisorInv
<1> SUFFICES ASSUME SupervisorInit PROVE SupervisorInv
    OBVIOUS
<1>1. ManagerInv /\ TypeOK
    BY ManagerStarts DEF SupervisorInit, ManagerInv
<1>2. PoolInv /\ PoolTypeOK
    BY PoolStarts DEF SupervisorInit, PoolInv
<1>3. SupervisorTypeOK
    <2>1. stop \in BOOLEAN /\ abandoned \in BOOLEAN
        BY DEF SupervisorInit
    <2> QED BY <1>1, <1>2, <2>1, SupervisorAssumption
            DEF SupervisorInit, SupervisorTypeOK, Pcs, LinkStates
<1>4. PoolTracksConn /\ ForCause /\ current = NoCarrier /\ pc = "start"
    BY SupervisorAssumption DEF SupervisorInit, PoolTracksConn, ForCause, PoolInit, NoCarrier
<1> QED BY <1>1, <1>2, <1>3, <1>4 DEF SupervisorInv, NoPool

\* Every step of the supervisor is a step of the manager and a step of the pool.
LEMMA StepParts ==
    ASSUME SupervisorInv, [SupervisorNext]_supervisorVars
    PROVE  MgrStep /\ PoolStep /\ setup' = setup
<1>1. now \in Nat /\ next_allowed \in Nat /\ blocked_until \in [Carriers -> Nat]
    BY DEF SupervisorInv, SupervisorTypeOK, TypeOK, Times, PoolTypeOK
<1>2. Calls => now' = now
    BY DEF Calls, Poll, PollFrozen, PollTrip, PollNetworkDown, PollBudget,
           NoteAttempt, NoteSuccess, NoteFailure, NoteDrop, NoteSent,
           NoteRecv, NoteReference
<1>3. UNCHANGED <<now, mgrVars>> => Slept
    BY <1>1 DEF Slept
<1>4. UNCHANGED <<now, pool>> => PoolStep
    BY <1>1 DEF PoolStep
<1>5. CASE \/ StopAtTop \/ StopInPause \/ ReaderDone \/ StopInMonitor \/ RequestStop
           \/ AbandonedEnds \/ UNCHANGED supervisorVars
    <2>1. UNCHANGED <<now, mgrVars, pool, setup>>
        BY <1>5 DEF StopAtTop, StopInPause, ReaderDone, StopInMonitor, RequestStop,
                    AbandonedEnds, supervisorVars
    <2> QED BY <2>1, <1>3, <1>4 DEF MgrStep
<1>6. CASE Start
    <2>1. UNCHANGED <<now, mgrVars, setup>> /\ (Select \/ UNCHANGED pool)
        BY <1>6 DEF Start
    <2> QED BY <2>1, <1>3, <1>4 DEF MgrStep, PoolStep
<1>7. CASE PollTop \/ Assess \/ Dial \/ DialFail \/ Drop
    <2>1. Calls /\ UNCHANGED <<pool, setup>>
        BY <1>7 DEF PollTop, Assess, Dial, DialFail, Drop, Calls
    <2> QED BY <2>1, <1>2, <1>4 DEF MgrStep
<1>8. CASE DialOk
    BY <1>8 DEF DialOk, MgrStep, Calls, PoolStep
<1>9. CASE Pause \/ DialTakesTime \/ MonitorSleep \/ RotateCooling
    <2>1. PauseLength \in Nat /\ MonitorTick \in Nat
        BY <1>1, SupervisorAssumption DEF PauseLength, Later
    <2>2. Later(NextAvailable - now, CoolingPause) \in Nat
        BY <1>1, SomeEndsFirst, SupervisorAssumption DEF Later
    <2>3. \E d \in Nat : Sleep(d)
        BY <1>9, <2>1, <2>2 DEF Pause, DialTakesTime, MonitorSleep, RotateCooling
    <2>4. Slept /\ UNCHANGED <<pool, setup>> /\ now' \in Nat /\ now' >= now
        BY <1>1, <2>3 DEF Sleep, Slept
    <2> QED BY <2>4 DEF MgrStep, PoolStep
<1>10. CASE Traffic \/ Reference
    <2>1. (Calls \/ UNCHANGED <<now, mgrVars>>) /\ UNCHANGED <<pool, setup>>
        BY <1>10 DEF Traffic, Reference, Calls
    <2> QED BY <2>1, <1>2, <1>3, <1>4 DEF MgrStep
<1>11. CASE RotateMarkFailed
    <2>1. UNCHANGED <<now, mgrVars, setup>> /\ (MarkFailed \/ UNCHANGED pool)
        BY <1>11 DEF RotateMarkFailed
    <2> QED BY <2>1, <1>3, <1>4 DEF MgrStep, PoolStep
<1>12. CASE RotateSelect
    <2>1. setup.pooled
        BY <1>12 DEF RotateSelect, SupervisorInv, NoPool
    <2>2. Select /\ UNCHANGED <<now, setup>> /\ (FreshManager \/ UNCHANGED mgrVars)
        BY <1>12 DEF RotateSelect
    <2> QED BY <2>1, <2>2, <1>3 DEF MgrStep, PoolStep
<1> QED BY <1>5, <1>6, <1>7, <1>8, <1>9, <1>10, <1>11, <1>12
        DEF SupervisorNext, TaskStep, DialReturns

RunTypes ==
    /\ pc \in Pcs /\ conn \in Carriers \cup {NoCarrier}
    /\ fail_streak \in 0..MaxFailures /\ state \in LinkStates
    /\ stop \in BOOLEAN /\ abandoned \in BOOLEAN /\ setup \in Setups

\* What the supervisor keeps of its own.
RunInv == RunTypes /\ PoolTracksConn /\ ForCause /\ (~setup.pooled => current = NoCarrier /\ pc # "select")

\* Every step of the loop, and of what surrounds it, keeps it.
LEMMA RunKept == ASSUME SupervisorInv, [SupervisorNext]_supervisorVars PROVE RunInv'
<1>1. /\ RunInv /\ MaxFailures \in Nat \ {0} /\ current \in Carriers \cup {NoCarrier}
      /\ strikes \in Nat
    BY SupervisorAssumption DEF SupervisorInv, SupervisorTypeOK, RunInv, RunTypes, NoPool, PoolTypeOK,
                                NoCarrier, TypeOK
<1> USE DEF RunInv, RunTypes, ForCause, PoolTracksConn, Pcs, LinkStates, Goto, Show
<1>2. CASE StopAtTop \/ StopInPause \/ ReaderDone \/ StopInMonitor
    BY <1>1, <1>2 DEF StopAtTop, StopInPause, ReaderDone, StopInMonitor, mgrVars, freeze, pool
<1>3. CASE RequestStop \/ AbandonedEnds \/ UNCHANGED supervisorVars
    <2>1. UNCHANGED <<pc, conn, fail_streak, state, setup, strikes, current>>
        BY <1>3 DEF RequestStop, AbandonedEnds, supervisorVars, runVars, mgrVars, freeze, pool
    <2>2. stop' \in BOOLEAN /\ abandoned' \in BOOLEAN
        BY <1>1, <1>3 DEF RequestStop, AbandonedEnds, supervisorVars
    <2> QED BY <1>1, <2>1, <2>2
<1>4. CASE Start
    <2>1. /\ conn' = IF setup.pooled THEN current' ELSE CHOOSE c \in Carriers : TRUE
          /\ IF setup.pooled THEN Select ELSE UNCHANGED pool
          /\ pc' = "top" \/ pc' = "error"
          /\ state' \in {state, "error"}
          /\ UNCHANGED <<fail_streak, stop, abandoned, setup>> /\ pc = "start"
        BY <1>4 DEF Start, Fatal
    <2>2. CASE setup.pooled
        <3>1. current' \in Carriers \cup {NoCarrier} /\ conn' = current'
            BY <1>1, <2>1, <2>2 DEF Select, Available
        <3> QED BY <1>1, <2>1, <2>2, <3>1
    <2>3. CASE ~setup.pooled
        <3>1. current' = NoCarrier /\ conn' \in Carriers
            BY <1>1, <2>1, <2>3, SupervisorAssumption DEF pool
        <3> QED BY <1>1, <2>1, <2>3, <3>1
    <2> QED BY <2>2, <2>3
<1>5. CASE PollTop \/ Dial \/ Pause \/ DialTakesTime \/ MonitorSleep \/ Traffic \/ Reference
    <2>1. /\ UNCHANGED <<current, conn, fail_streak, stop, abandoned, setup>>
          /\ state' \in {state, "connecting"}
          /\ pc' \in {"top", "act", "dialing", "traffic", "reference", "assess"}
          /\ pc \in {"top", "act", "dialing", "monitor", "traffic", "reference"}
        BY <1>5 DEF PollTop, Dial, Pause, DialTakesTime, MonitorSleep, Traffic, Reference, Sleep,
                    pool
    <2> QED BY <1>1, <2>1
<1>6. CASE DialOk
    <2>1. /\ UNCHANGED <<current, conn, stop, abandoned, setup>> /\ fail_streak' = 0
          /\ state' = "up" /\ pc' = "monitor" /\ pc = "dialing"
        BY <1>6 DEF DialOk, MarkHealthy
    <2> QED BY <1>1, <2>1
<1>7. CASE DialFail
    BY <1>1, <1>7 DEF DialFail, pool
<1>8. CASE Assess
    <2>1. /\ UNCHANGED <<current, conn, fail_streak, stop, setup>> /\ pc = "assess"
          /\ state' \in {state, "frozen"}
          /\ pc' \in {"monitor", "drop_switch", "drop"}
          /\ pc' = "drop_switch" => Then' = "switch_profile"
        BY <1>8 DEF Assess, pool
    <2>2. Then' = "switch_profile" => strikes' >= 3
        BY DEF Then
    <2>3. abandoned' \in BOOLEAN
        BY <1>1, <1>8 DEF Assess
    <2> QED BY <1>1, <2>1, <2>2, <2>3
<1>9. CASE Drop
    <2>1. strikes' = strikes
        BY <1>9 DEF Drop, NoteDrop, freeze
    <2> QED BY <1>1, <1>9, <2>1 DEF Drop, pool
<1>10. CASE RotateMarkFailed
    <2>1. /\ UNCHANGED <<conn, state, stop, abandoned, setup>> /\ pc = "rotate"
          /\ fail_streak' \in {0, fail_streak}
          /\ \/ ~setup.pooled /\ pc' = "top" /\ fail_streak' = 0 /\ current' = current
             \/ setup.pooled /\ pc' = "select" /\ current' = NoCarrier
        BY <1>10 DEF RotateMarkFailed, MarkFailed, pool, NoCarrier
    <2> QED BY <1>1, <2>1
<1>11. CASE RotateSelect
    <2>1. /\ pc = "select" /\ UNCHANGED <<stop, abandoned, setup>>
          /\ \/ conn' = current' /\ fail_streak' = 0 /\ pc' = "top" /\ state' = state
             \/ pc' = "error" /\ state' = "error" /\ UNCHANGED <<conn, fail_streak>>
        BY <1>11 DEF RotateSelect, Fatal
    <2>2. setup.pooled
        BY <1>1, <2>1
    <2>3. current' \in Carriers \cup {NoCarrier}
        BY <1>1, <1>11 DEF RotateSelect, Select, Available
    <2> QED BY <1>1, <2>1, <2>2, <2>3
<1>12. CASE RotateCooling
    <2>1. /\ UNCHANGED <<current, conn, state, stop, abandoned, setup>>
          /\ fail_streak' = 0 /\ pc' = "top" /\ pc = "select"
        BY <1>12 DEF RotateCooling, Sleep, pool
    <2> QED BY <1>1, <2>1
<1> QED BY <1>2, <1>3, <1>4, <1>5, <1>6, <1>7, <1>8, <1>9, <1>10, <1>11, <1>12
        DEF SupervisorNext, TaskStep, DialReturns

\* Every step preserves the invariant.
LEMMA SupervisorKeeps == SupervisorInv /\ [SupervisorNext]_supervisorVars => SupervisorInv'
<1> SUFFICES ASSUME SupervisorInv, [SupervisorNext]_supervisorVars PROVE SupervisorInv'
    OBVIOUS
<1>1. MgrStep /\ PoolStep /\ setup' = setup /\ RunInv'
    BY StepParts, RunKept
<1>2. TypeOK' /\ PoolInv' /\ (~setup.pooled => ManagerInv')
    BY <1>1, ManagerTypes, PoolKept, ManagerKept DEF SupervisorInv, SupervisorTypeOK, NoPool
<1>3. PoolTypeOK'
    BY <1>2 DEF PoolInv
<1>4. SupervisorTypeOK'
    BY <1>1, <1>2, <1>3 DEF RunInv, RunTypes, SupervisorTypeOK
<1> QED BY <1>1, <1>2, <1>4 DEF SupervisorInv, RunInv, NoPool

\* The invariant holds in every reachable state.
THEOREM SupervisorInvariance == SupervisorSpec => []SupervisorInv
<1> QED BY SupervisorStarts, SupervisorKeeps, PTL DEF SupervisorSpec

-----------------------------------------------------------------------------
\* Type correctness of the supervisor with its manager and its pool.
THEOREM SupervisorTyped == SupervisorSpec => []SupervisorTypeOK
<1>1. SupervisorInv => SupervisorTypeOK
    BY DEF SupervisorInv
<1> QED BY <1>1, SupervisorInvariance, PTL

\* The pool's current carrier is the one the loop dials, wherever the loop is.
THEOREM PoolTracked == SupervisorSpec => []PoolTracksConn
<1>1. SupervisorInv => PoolTracksConn
    BY DEF SupervisorInv
<1> QED BY <1>1, SupervisorInvariance, PTL

\* Under the supervisor, whose sleeps move the clock by themselves, the carrier in use is
\* never one that cools and no carrier cools longer than its falls are worth.
THEOREM PoolPromisesKept == SupervisorSpec => [](CurrentNotCooling /\ CoolingIsEarned)
<1>1. SupervisorInv => CurrentNotCooling /\ CoolingIsEarned
    BY DEF SupervisorInv, PoolInv
<1> QED BY <1>1, SupervisorInvariance, PTL

\* Only the carrier in use is sent to cool, after MAX_CONNECT_FAILURES failed dials or three
\* strikes.
THEOREM CooldownForCause == SupervisorSpec => CooldownDeserved
<1>1. SupervisorInv /\ [SupervisorNext]_supervisorVars
      => [\A c \in Carriers :
             falls'[c] > falls[c] => c = conn /\ (fail_streak >= MaxFailures \/ strikes >= 3)]_supervisorVars
    <2> SUFFICES ASSUME SupervisorInv, [SupervisorNext]_supervisorVars,
                        NEW c \in Carriers, falls'[c] > falls[c]
                 PROVE  c = conn /\ (fail_streak >= MaxFailures \/ strikes >= 3)
        OBVIOUS
    <2>1. falls \in [Carriers -> Nat]
        BY DEF SupervisorInv, SupervisorTypeOK, PoolTypeOK
    <2>2. falls' # falls
        BY <2>1
    <2>3. ~DialOk
        BY <2>1 DEF DialOk, MarkHealthy
    <2>4. RotateMarkFailed
        BY <2>2, <2>3 DEF SupervisorNext, TaskStep, DialReturns, Start, StopAtTop, PollTop,
           Pause, StopInPause, Dial, DialTakesTime, DialFail, MonitorSleep, Traffic, Reference, Assess, ReaderDone,
           StopInMonitor, Drop, RotateSelect, RotateCooling, RequestStop, AbandonedEnds,
           Sleep, supervisorVars, pool, Select
    <2>5. pc = "rotate" /\ MarkFailed
        BY <2>2, <2>4 DEF RotateMarkFailed, pool
    <2>6. current # NoCarrier /\ c = current
        BY <2>1, <2>2, <2>5 DEF MarkFailed, pool, NoCarrier
    <2> QED BY <2>5, <2>6 DEF SupervisorInv, PoolTracksConn, ForCause
<1> QED BY <1>1, SupervisorInvariance, PTL DEF SupervisorSpec, CooldownDeserved

\* Without a pool no dial starts inside a silence imposed by a strike.
THEOREM SilenceHoldsWithoutPool == SupervisorSpec => SilenceWithoutPool
<1>1. SupervisorInv /\ [SupervisorNext]_supervisorVars
      => [Dials /\ ~setup.pooled => now >= quiet_until]_supervisorVars
    <2> SUFFICES ASSUME SupervisorInv, [SupervisorNext]_supervisorVars, Dials, ~setup.pooled
                 PROVE  now >= quiet_until
        OBVIOUS
    <2>1. MgrStep /\ ManagerInv
        BY StepParts DEF SupervisorInv, NoPool
    <2>2. Calls
        BY <2>1 DEF MgrStep, Slept, mgrVars, Dials
    <2>3. Next
        BY <2>2, CallsKnown
    <2>4. NoteAttempt
        BY <2>1, <2>3, DialIsAttempt
    <2> QED BY <2>1, <2>4 DEF NoteAttempt, ManagerInv, PauseCovers, Awake, TypeOK, Times
<1> QED BY <1>1, SupervisorInvariance, PTL DEF SupervisorSpec, SilenceWithoutPool
=============================================================================
