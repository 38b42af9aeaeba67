-------------------------- MODULE DatagramChannel --------------------------
(***************************************************************************)
(* One direction of the datagram side channel of vlyness-core/datagram.rs: *)
(* DatagramSealer, an unreliable carrier that loses, duplicates and        *)
(* reorders, and DatagramOpener with its sliding ReplayWindow.  The other  *)
(* direction has its own key and is a second, independent instance.        *)
(*                                                                         *)
(* A sealed datagram is its counter.  Frames that fail authentication are  *)
(* left out: open returns None before it touches any state.                *)
(***************************************************************************)
EXTENDS Integers

CONSTANTS
    ReplayWidth,   \* REPLAY_WINDOW, also the number of bits of the bitmap
    MaxCounter     \* u64::MAX in the code: seal panics rather than wrap

ASSUME WidthAssumption == ReplayWidth \in Nat \ {0}

ASSUME CounterAssumption == MaxCounter \in Nat

VARIABLES
    counter,       \* DatagramSealer.counter
    wire,          \* the counters of the datagrams the carrier still holds
    seen_any,      \* ReplayWindow.seen_any
    highest,       \* ReplayWindow.highest
    bitmap,        \* ReplayWindow.bitmap: the positions of its one bits
    handed         \* history: how often each datagram was handed over

window == <<seen_any, highest, bitmap>>
vars   == <<counter, wire, window, handed>>

Counters  == 0..MaxCounter
Positions == 0..(ReplayWidth - 1)

TypeOK ==
    /\ counter \in Counters
    /\ wire \subseteq Counters
    /\ seen_any \in BOOLEAN /\ highest \in Counters /\ bitmap \subseteq Positions
    /\ handed \in [Counters -> Nat]

-----------------------------------------------------------------------------
Init ==
    /\ counter = 0
    /\ wire = {}
    /\ seen_any = FALSE /\ highest = 0 /\ bitmap = {}
    /\ handed = [n \in Counters |-> 0]

\* seal: the number is taken before the counter moves, and the counter never wraps.
Seal ==
    /\ counter < MaxCounter
    /\ wire' = wire \cup {counter}
    /\ counter' = counter + 1
    /\ UNCHANGED <<window, handed>>

\* Mutant: the bitmap keeps its place when the window moves.
KeptBits(shift) == bitmap

\* Mutant: bits are not lost on the left.
GrownBits(shift) == {p + shift : p \in bitmap}

\* bitmap << shift in 64 bits: what leaves on the left is gone.
Shifted(shift) == {p \in Positions : p - shift \in bitmap}

\* Mutant: a gap of exactly the window's width wraps the shift to nothing.
AheadWraps(seq) ==
    /\ seen_any /\ seq > highest
    /\ bitmap' = {0} \cup (IF seq - highest > ReplayWidth THEN {}
                           ELSE Shifted((seq - highest) % ReplayWidth))
    /\ highest' = seq
    /\ UNCHANGED seen_any

\* The three ways check_and_set marks a number, and the two ways it refuses one.
First(seq) ==
    /\ ~seen_any
    /\ seen_any' = TRUE /\ highest' = seq /\ bitmap' = {0}

Ahead(seq) ==
    /\ seen_any /\ seq > highest
    /\ bitmap' = {0} \cup (IF seq - highest >= ReplayWidth THEN {}
                           ELSE Shifted(seq - highest))
    /\ highest' = seq
    /\ UNCHANGED seen_any

Behind(seq) ==
    /\ seen_any /\ seq <= highest
    /\ highest - seq < ReplayWidth /\ highest - seq \notin bitmap
    /\ bitmap' = bitmap \cup {highest - seq}
    /\ UNCHANGED <<seen_any, highest>>

TooOld(seq) == seen_any /\ seq <= highest /\ highest - seq >= ReplayWidth

AlreadySeen(seq) == seen_any /\ seq <= highest /\ highest - seq \in bitmap

\* open of a datagram that arrives; a copy of it may stay on the wire.
Accept(seq) ==
    /\ First(seq) \/ Ahead(seq) \/ Behind(seq)
    /\ handed' = [handed EXCEPT ![seq] = @ + 1]

Refuse(seq) == (TooOld(seq) \/ AlreadySeen(seq)) /\ UNCHANGED <<window, handed>>

Open(seq) ==
    /\ seq \in wire
    /\ Accept(seq) \/ Refuse(seq)
    /\ \E copies \in {{}, {seq}} : wire' = (wire \ {seq}) \cup copies
    /\ UNCHANGED counter

\* The carrier drops a datagram.
Lose(seq) ==
    /\ seq \in wire
    /\ wire' = wire \ {seq}
    /\ UNCHANGED <<counter, window, handed>>

Next == Seal \/ \E seq \in Counters : Open(seq) \/ Lose(seq)

Spec == Init /\ [][Next]_vars

-----------------------------------------------------------------------------
(* Properties *)

Promise == INSTANCE OnceChannel WITH Numbers <- Counters, sealed <- counter

\* The channel keeps its promise: whatever the carrier loses, duplicates or reorders, a
\* datagram is handed to the relay at most once, and only after it was sealed.
PromiseKept == Promise!Spec

\* Reordering inside the window costs nothing: a datagram that was not handed over yet
\* and is less than a window behind the newest one is never refused.
InWindowAccepted ==
    [][\A seq \in Counters :
          Open(seq) /\ handed[seq] = 0 /\ highest - seq < ReplayWidth
              => handed'[seq] = 1]_vars
=============================================================================
