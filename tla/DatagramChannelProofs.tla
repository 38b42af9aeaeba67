------------------------ MODULE DatagramChannelProofs ------------------------
(***************************************************************************)
(* Proofs about DatagramChannel for every window width and counter range.  *)
(***************************************************************************)
EXTENDS DatagramChannel, TLAPS

\* Only numbers that were sealed are on the wire or were seen.
Sealed ==
    /\ \A n \in wire : n < counter
    /\ seen_any => highest < counter

\* The bitmap is exact inside the window, nothing above it was handed over, and
\* whatever fell out of it was handed over at most once.
Exact ==
    \A n \in Counters :
        /\ handed[n] \in {0, 1}
        /\ ~seen_any \/ n > highest => handed[n] = 0
        /\ seen_any /\ n <= highest /\ highest - n < ReplayWidth
              => (handed[n] = 1 <=> highest - n \in bitmap)

IInv == TypeOK /\ Sealed /\ Exact

\* The invariant holds initially.
LEMMA InitIInv == Init => IInv
<1> SUFFICES ASSUME Init PROVE IInv
  OBVIOUS
<1> USE WidthAssumption, CounterAssumption DEF Init, Counters, Positions
<1>1. TypeOK
  <2>1. handed \in [Counters -> Nat]
    OBVIOUS
  <2>2. seen_any \in BOOLEAN /\ wire \subseteq Counters /\ bitmap \subseteq Positions
    OBVIOUS
  <2>3. counter \in Counters /\ highest \in Counters
    OBVIOUS
  <2> QED
    BY <2>1, <2>2, <2>3 DEF TypeOK
<1>2. Sealed
  BY DEF Sealed
<1>3. Exact
  BY DEF Exact
<1> QED
  BY <1>1, <1>2, <1>3 DEF IInv

\* A datagram that is accepted was sealed and not handed over before; the window stays exact.
LEMMA AcceptExact ==
    ASSUME IInv, NEW seq \in Counters, seq \in wire, Accept(seq)
    PROVE  /\ handed[seq] = 0
           /\ handed' = [handed EXCEPT ![seq] = 1]
           /\ Exact'
           /\ seen_any' \in BOOLEAN /\ highest' \in Counters /\ bitmap' \subseteq Positions
           /\ seen_any' => highest' < counter
<1> USE WidthAssumption, CounterAssumption DEF Counters, Positions
<1>1. seq < counter /\ handed \in [Counters -> Nat] /\ highest \in Counters /\ bitmap \subseteq Positions
      /\ seen_any \in BOOLEAN
  BY DEF IInv, TypeOK, Sealed
<1>2. handed' = [handed EXCEPT ![seq] = handed[seq] + 1]
  BY DEF Accept
<1>3. CASE First(seq)
  <2>1. handed[seq] = 0
    BY <1>3 DEF First, IInv, Exact
  <2>2. handed' = [handed EXCEPT ![seq] = 1]
    BY <1>2, <2>1
  <2>3. Exact'
    BY <1>1, <1>3, <2>2 DEF First, IInv, Exact
  <2> QED
    BY <1>1, <1>3, <2>1, <2>2, <2>3 DEF First
<1>4. CASE Ahead(seq)
  <2>1. handed[seq] = 0
    BY <1>4 DEF Ahead, IInv, Exact
  <2>2. handed' = [handed EXCEPT ![seq] = 1]
    BY <1>2, <2>1
  <2>3. ASSUME NEW n \in Counters, n < seq, seq - n < ReplayWidth
        PROVE  seq - n \in bitmap' <=> handed[n] = 1
    <3>1. CASE n > highest
      BY <1>1, <1>4, <2>3, <3>1 DEF Ahead, Shifted, IInv, Exact
    <3>2. CASE n <= highest
      <4>1. seq - highest < ReplayWidth /\ highest - n < ReplayWidth
        BY <1>1, <1>4, <2>3, <3>2 DEF Ahead
      <4>2. seq - n \in bitmap' <=> highest - n \in bitmap
        <5>1. bitmap' = {0} \cup Shifted(seq - highest)
          BY <1>1, <1>4, <4>1 DEF Ahead
        <5>2. seq - n \in Positions /\ seq - n # 0
          BY <1>1, <2>3
        <5>3. (seq - n) - (seq - highest) = highest - n
          BY <1>1
        <5> QED
          BY <5>1, <5>2, <5>3 DEF Shifted
      <4> QED
        BY <1>1, <1>4, <3>2, <4>1, <4>2 DEF Ahead, IInv, Exact
    <3> QED
      BY <1>1, <3>1, <3>2
  <2>4. Exact'
    BY <1>1, <1>4, <2>2, <2>3 DEF Ahead, IInv, Exact
  <2> QED
    BY <1>1, <1>4, <2>1, <2>2, <2>4 DEF Ahead, Shifted
<1>5. CASE Behind(seq)
  <2>1. handed[seq] = 0
    BY <1>1, <1>5 DEF Behind, IInv, Exact
  <2>2. handed' = [handed EXCEPT ![seq] = 1]
    BY <1>2, <2>1
  <2>3. Exact'
    BY <1>1, <1>5, <2>2 DEF Behind, IInv, Exact
  <2> QED
    BY <1>1, <1>5, <2>1, <2>2, <2>3 DEF Behind, IInv, Sealed
<1> QED
  BY <1>3, <1>4, <1>5 DEF Accept

\* Every step preserves the inductive invariant.
LEMMA NextIInv == IInv /\ [Next]_vars => IInv'
<1> SUFFICES ASSUME IInv, [Next]_vars PROVE IInv'
  OBVIOUS
<1> USE WidthAssumption, CounterAssumption
<1>1. CASE Seal
  BY <1>1 DEF Seal, window, IInv, TypeOK, Sealed, Exact, Counters, Positions
<1>2. ASSUME NEW seq \in Counters, Open(seq) PROVE IInv'
  <2>1. wire' \subseteq Counters /\ (\A n \in wire' : n < counter') /\ counter' = counter
    BY <1>2 DEF Open, IInv, TypeOK, Sealed
  <2>2. CASE Accept(seq)
    <3>1. seq \in wire
      BY <1>2 DEF Open
    <3>2. handed' = [handed EXCEPT ![seq] = 1] /\ Exact' /\ seen_any' \in BOOLEAN
          /\ highest' \in Counters /\ bitmap' \subseteq Positions /\ (seen_any' => highest' < counter)
      BY <2>2, <3>1, AcceptExact
    <3> QED
      BY <2>1, <3>2 DEF IInv, TypeOK, Sealed
  <2>3. CASE Refuse(seq)
    BY <2>1, <2>3 DEF Refuse, window, IInv, TypeOK, Sealed, Exact
  <2> QED
    BY <1>2, <2>2, <2>3 DEF Open
<1>3. ASSUME NEW seq \in Counters, Lose(seq) PROVE IInv'
  BY <1>3 DEF Lose, window, IInv, TypeOK, Sealed, Exact
<1>4. CASE UNCHANGED vars
  BY <1>4 DEF vars, window, IInv, TypeOK, Sealed, Exact
<1> QED
  BY <1>1, <1>2, <1>3, <1>4 DEF Next

\* The inductive invariant holds in every reachable state.
THEOREM Invariance == Spec => []IInv
<1> QED
  BY InitIInv, NextIInv, PTL DEF Spec

-----------------------------------------------------------------------------
\* Type correctness: in particular no bit of the window ever leaves the 64-bit map and the
\* counter never wraps.
THEOREM TypeCorrect == Spec => []TypeOK
<1>1. IInv => TypeOK
  BY DEF IInv
<1> QED
  BY <1>1, Invariance, PTL

\* For every window width, the sealer, the unreliable carrier and the sliding window
\* implement the channel that hands each sealed datagram over at most once.
THEOREM Refinement == Spec => PromiseKept
<1>1. Init => Promise!Init
  BY DEF Init, Promise!Init
<1>2. IInv /\ [Next]_vars => [Promise!Next]_<<counter, handed>>
  <2> SUFFICES ASSUME IInv, [Next]_vars PROVE [Promise!Next]_<<counter, handed>>
    OBVIOUS
  <2>1. CASE Seal
    BY <2>1 DEF Seal, Promise!Next, Promise!Submit
  <2>2. ASSUME NEW seq \in Counters, Open(seq) PROVE [Promise!Next]_<<counter, handed>>
    <3>1. seq \in wire /\ seq < counter /\ counter' = counter
      BY <2>2 DEF Open, IInv, Sealed
    <3>2. CASE Accept(seq)
      <4>1. handed[seq] = 0 /\ handed' = [handed EXCEPT ![seq] = 1]
        BY <3>1, <3>2, AcceptExact
      <4>2. Promise!HandOver(seq)
        BY <3>1, <4>1 DEF Promise!HandOver
      <4> QED
        BY <4>2 DEF Promise!Next
    <3>3. CASE Refuse(seq)
      BY <3>1, <3>3 DEF Refuse
    <3> QED
      BY <2>2, <3>2, <3>3 DEF Open
  <2>3. ASSUME NEW seq \in Counters, Lose(seq) PROVE [Promise!Next]_<<counter, handed>>
    BY <2>3 DEF Lose
  <2>4. CASE UNCHANGED vars
    BY <2>4 DEF vars
  <2> QED
    BY <2>1, <2>2, <2>3, <2>4 DEF Next
<1> QED
  BY <1>1, <1>2, Invariance, PTL DEF Spec, PromiseKept, Promise!Spec

\* Reordering by less than a window never costs a datagram.
THEOREM NoFalseRefusal == Spec => InWindowAccepted
<1>1. IInv /\ [Next]_vars
      => [\A seq \in Counters :
             Open(seq) /\ handed[seq] = 0 /\ highest - seq < ReplayWidth => handed'[seq] = 1]_vars
  <2> SUFFICES ASSUME IInv, NEW seq \in Counters, Open(seq), handed[seq] = 0,
                      highest - seq < ReplayWidth
               PROVE  handed'[seq] = 1
    OBVIOUS
  <2>1. ~Refuse(seq)
    BY WidthAssumption, CounterAssumption
       DEF Refuse, TooOld, AlreadySeen, IInv, TypeOK, Exact, Counters, Positions
  <2>2. seq \in wire /\ Accept(seq)
    BY <2>1 DEF Open
  <2> QED
    BY <2>2, AcceptExact DEF IInv, TypeOK
<1> QED
  BY <1>1, Invariance, PTL DEF Spec, InWindowAccepted
=============================================================================
