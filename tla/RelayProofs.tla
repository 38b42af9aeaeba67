---------------------------- MODULE RelayProofs ----------------------------
(***************************************************************************)
(* Proofs about Relay for every plan, every room of the channels and any   *)
(* number of streams that the ids can tell apart: TCP chunks arrive in     *)
(* order and without a hole, and no datagram arrives twice.                *)
(***************************************************************************)
EXTENDS Relay, SequenceTheorems, TLAPS

\* No id is handed out twice.
IdsSuffice == 2 * MaxStreams <= IdSpace

LEMMA IdsDiffer ==
    ASSUME IdsSuffice
    PROVE  /\ \A s \in Streams : IdOf(s) = 2 * s - 1 /\ IdOf(s) \in Ids
           /\ \A s, t \in Streams : IdOf(s) = IdOf(t) => s = t
<1>1. ASSUME NEW s \in Streams PROVE IdOf(s) = 2 * s - 1 /\ IdOf(s) \in Ids
    <2>1. 2 * s - 1 \in 0..(IdSpace - 1) /\ IdSpace \in Nat \ {0}
        BY RelayAssumption DEF Streams, IdsSuffice
    <2>2. \A b \in Nat \ {0} : \A a \in 0..(b - 1) : a % b = a
        OBVIOUS
    <2> QED BY <2>1, <2>2 DEF IdOf, Ids
<1> QED BY <1>1 DEF Streams

-----------------------------------------------------------------------------
(* Queues of events *)

Chunks == Streams \X Nat

IsChunk(ev) == ev.type \in {"data", "datagram"}

\* The event belongs to the stream, and is the so-many-th of its sender: Open, then chunks.
Of(ev, s) == (ev.type = "open" /\ ev.s = s) \/ (IsChunk(ev) /\ ev.chunk[1] = s)
Place(ev) == IF ev.type = "open" THEN 1 ELSE ev.chunk[2] + 1

\* A queue that a stream enters with a events sent and leaves with b, none missing.
Steps(q, s, pos) ==
    \A i \in 1..Len(q) :
        IF Of(q[i], s) THEN pos[i + 1] = pos[i] + 1 /\ Place(q[i]) = pos[i] + 1
        ELSE pos[i + 1] = pos[i]
Counts(q, s, a, b) ==
    \E pos \in [1..(Len(q) + 1) -> 0..b] : pos[1] = a /\ pos[Len(q) + 1] = b /\ Steps(q, s, pos)

LEMMA CountsEmpty ==
    ASSUME NEW s \in Streams, NEW a \in Nat, NEW b
    PROVE  Counts(<<>>, s, a, b) <=> a = b
<1>1. ASSUME a = b PROVE Counts(<<>>, s, a, b)
    <2> DEFINE pos == [i \in 1..(Len(<<>>) + 1) |-> a]
    <2>1. pos[1] = a /\ pos[Len(<<>>) + 1] = a /\ pos \in [1..(Len(<<>>) + 1) -> 0..b]
        BY <1>1
    <2>2. Steps(<<>>, s, pos)
        BY DEF Steps
    <2> QED BY <1>1, <2>1, <2>2 DEF Counts
<1>2. ASSUME Counts(<<>>, s, a, b) PROVE a = b
    BY <1>2 DEF Counts
<1> QED BY <1>1, <1>2

\* An event joins a queue: it is the next of its stream.
LEMMA CountsAppend ==
    ASSUME NEW q \in Seq(Events), NEW ev \in Events, NEW s \in Streams, NEW a \in Nat,
           NEW b \in Nat, Counts(q, s, a, b)
    PROVE  /\ ~Of(ev, s) => Counts(Append(q, ev), s, a, b)
           /\ Of(ev, s) /\ Place(ev) = b + 1 => Counts(Append(q, ev), s, a, b + 1)
<1>1. PICK pos \in [1..(Len(q) + 1) -> 0..b] :
          pos[1] = a /\ pos[Len(q) + 1] = b /\ Steps(q, s, pos)
    BY DEF Counts
<1> DEFINE r == Append(q, ev)
           next == IF Of(ev, s) THEN b + 1 ELSE b
           new == [i \in 1..(Len(q) + 2) |-> IF i <= Len(q) + 1 THEN pos[i] ELSE next]
<1>2. /\ Len(q) \in Nat /\ Len(r) = Len(q) + 1 /\ r[Len(q) + 1] = ev
      /\ \A i \in 1..Len(q) : r[i] = q[i]
    BY AppendProperties, LenProperties
<1>3. next \in Nat /\ b <= next
    OBVIOUS
<1> HIDE DEF r, next
<1>4. /\ new \in [1..(Len(r) + 1) -> 0..next] /\ new[1] = a /\ new[Len(r) + 1] = next
      /\ \A i \in 1..(Len(q) + 1) : new[i] = pos[i]
    BY <1>1, <1>2, <1>3
<1> HIDE DEF new
<1>5. ASSUME Of(ev, s) => Place(ev) = b + 1 PROVE Steps(r, s, new)
    <2> SUFFICES ASSUME NEW i \in 1..Len(r)
                 PROVE  IF Of(r[i], s) THEN new[i + 1] = new[i] + 1 /\ Place(r[i]) = new[i] + 1
                        ELSE new[i + 1] = new[i]
        BY DEF Steps
    <2>1. CASE i \in 1..Len(q)
        <3>1. r[i] = q[i] /\ new[i] = pos[i] /\ new[i + 1] = pos[i + 1]
            BY <1>2, <1>4, <2>1
        <3> QED BY <1>1, <2>1, <3>1 DEF Steps
    <2>2. CASE i = Len(q) + 1
        <3>1. r[i] = ev /\ new[i] = b /\ new[i + 1] = next
            BY <1>1, <1>2, <1>4, <2>2
        <3> QED BY <1>5, <3>1 DEF next
    <2> QED BY <1>2, <2>1, <2>2
<1> QED BY <1>4, <1>5 DEF Counts, next, r

\* The head of a queue is taken.
LEMMA CountsTail ==
    ASSUME NEW q \in Seq(Events), q # <<>>, NEW s \in Streams, NEW a \in Nat,
           NEW b \in Nat, Counts(q, s, a, b)
    PROVE  /\ ~Of(Head(q), s) => Counts(Tail(q), s, a, b)
           /\ Of(Head(q), s) => Place(Head(q)) = a + 1 /\ Counts(Tail(q), s, a + 1, b)
<1>1. PICK pos \in [1..(Len(q) + 1) -> 0..b] :
          pos[1] = a /\ pos[Len(q) + 1] = b /\ Steps(q, s, pos)
    BY DEF Counts
<1> DEFINE r == Tail(q)
           new == [i \in 1..Len(q) |-> pos[i + 1]]
<1>2. /\ Len(q) \in Nat \ {0} /\ Len(r) = Len(q) - 1 /\ Head(q) = q[1]
      /\ \A i \in 1..Len(r) : r[i] = q[i + 1]
    BY HeadTailProperties, LenProperties, EmptySeq
<1> HIDE DEF r
<1>3. /\ new \in [1..(Len(r) + 1) -> 0..b] /\ new[Len(r) + 1] = b
      /\ new[1] = (IF Of(Head(q), s) THEN a + 1 ELSE a)
      /\ Of(Head(q), s) => Place(Head(q)) = a + 1
    <2>1. 1 \in 1..Len(q)
        BY <1>2
    <2>2. new \in [1..(Len(r) + 1) -> 0..b] /\ new[Len(r) + 1] = b /\ new[1] = pos[2]
        BY <1>1, <1>2
    <2> QED BY <1>1, <1>2, <2>1, <2>2 DEF Steps
<1>4. Steps(r, s, new)
    <2> SUFFICES ASSUME NEW i \in 1..Len(r)
                 PROVE  IF Of(r[i], s) THEN new[i + 1] = new[i] + 1 /\ Place(r[i]) = new[i] + 1
                        ELSE new[i + 1] = new[i]
        BY DEF Steps
    <2>1. i + 1 \in 1..Len(q) /\ r[i] = q[i + 1] /\ new[i] = pos[i + 1] /\ new[i + 1] = pos[(i + 1) + 1]
        BY <1>2
    <2> HIDE DEF new
    <2> QED BY <1>1, <2>1 DEF Steps
<1> QED BY <1>3, <1>4 DEF Counts, r

\* Nothing leaves a queue that has not entered it.
LEMMA CountsOrder ==
    ASSUME NEW q \in Seq(Events), NEW s \in Streams, NEW a \in Nat, NEW b \in Nat,
           Counts(q, s, a, b)
    PROVE  a <= b
BY LenProperties DEF Counts

-----------------------------------------------------------------------------
(* The inductive invariant *)

Jobs ==
    [pc : {"recv", "done"}] \cup [pc : {"connect", "refuse"}, s : Streams]
    \cup [pc : {"deliver"}, s : Streams, chunk : Chunks]

\* Types, by what the variables are about.
ControlTypes ==
    /\ opened \in 0..MaxStreams /\ plan \in Plans
    /\ stage \in [Ends -> [Streams -> {"none", "opening", "sent", "wired", "refused"}]]
    /\ registry \in [Ends -> [Ids -> Streams \cup {None}]]
    /\ pump \in [Ends -> [Streams -> {"off", "run", "shut"}]]
    /\ source \in [Ends -> [Streams -> {"off", "read", "closing", "done"}]]
    /\ writer \in [Ends -> {"run", "dead"}]
    /\ taken \in [Ends -> [Streams -> Nat]]
    /\ ticks \in 0..plan.ticks /\ early \subseteq Streams

FlagTypes == link \in [Ends -> BOOLEAN] /\ activity \in BOOLEAN /\ broken \in BOOLEAN

\* An event names the stream it belongs to by its id, and a datagram is not TCP.
Good(ev) ==
    IsChunk(ev) => ev.id = IdOf(ev.chunk[1]) /\ (ev.type = "data" <=> ev.chunk[1] \in Tcp)

GoodEvents == {ev \in Events : Good(ev)}
Datagrams  == {ev \in GoodEvents : ev.type = "datagram"}

QueueTypes ==
    /\ out \in [Ends -> Seq(GoodEvents)] /\ wire \in [Ends -> Seq(GoodEvents)]
    /\ net \in [Ends -> SUBSET Datagrams]
    /\ \A e \in Ends : Len(out[e]) <= OutCap /\ Len(wire[e]) <= WireCap

SinkTypes ==
    /\ sink \in [Ends -> [Streams -> Seq(Chunks)]] /\ got \in [Ends -> [Streams -> Seq(Chunks)]]
    /\ \A e \in Ends : \A s \in Streams : Len(sink[e][s]) <= SinkCap

ReaderTypes ==
    /\ reader \in [Ends -> Jobs] /\ catcher \in [Ends -> Jobs]
    /\ \A e \in Ends : catcher[e].pc \in {"recv", "deliver"}

Types == ControlTypes /\ FlagTypes /\ QueueTypes /\ SinkTypes /\ ReaderTypes

\* A sink is registered under its stream's id, once the stream has its tasks.
Registered ==
    \A e \in Ends : \A id \in Ids :
        registry[e][id] # None => id = IdOf(registry[e][id]) /\ pump[e][registry[e][id]] # "off"

\* A reader hands a chunk to the stream it belongs to.
InHand ==
    /\ \A e \in Ends :
          /\ reader[e].pc = "deliver" =>
                 pump[e][reader[e].s] # "off" /\ reader[e].chunk[1] = reader[e].s
          /\ catcher[e].pc = "deliver" =>
                 catcher[e].s \notin Tcp /\ catcher[e].chunk[1] = catcher[e].s
    /\ reader["client"].pc \notin {"connect", "refuse"}

\* What the stage of a stream says about its tasks.
Staged ==
    /\ \A e \in Ends : \A s \in Streams :
          /\ stage[e][s] = "wired" => pump[e][s] # "off"
          /\ pump[e][s] # "off" => stage[e][s] # "none"
          /\ source[e][s] # "off" \/ taken[e][s] > 0 => pump[e][s] # "off"
    /\ \A s \in Streams :
          /\ pump["client"][s] # "off" => stage["client"][s] = "wired"
          /\ stage["client"][s] # "none" => s <= opened

\* A sink and a socket see chunks of their own stream only.
Own ==
    \A e \in Ends : \A s \in Streams :
        /\ \A i \in 1..Len(got[e][s]) : got[e][s][i][1] = s
        /\ \A i \in 1..Len(sink[e][s]) : sink[e][s][i][1] = s

Base == Types /\ Registered /\ InHand /\ Staged /\ Own

\* The events of a stream its sender has queued so far; the Open is the client's first.
Sent(o, s) ==
    IF o = "client" /\ stage["client"][s] \notin {"sent", "wired"} THEN 0 ELSE taken[o][s] + 1

\* m events of the stream have left the wire and n have entered it; none is missing between.
Carried(o, s, m, n) ==
    /\ Counts(wire[o], s, m, n) /\ n <= Sent(o, s)
    /\ ~broken => Counts(out[o], s, n, Sent(o, s))

\* A run of chunks, without a hole.
Run(q, s, f) == \A i \in 1..Len(q) : q[i] = <<s, f + i>>

Arrived(e, s) == Len(got[e][s]) + Len(sink[e][s])

Handed(e, s) == reader[e].pc = "deliver" /\ reader[e].s = s

\* The socket and the sink hold all chunks after the f-th that left the wire, up to the one in
\* the reader's hand, as long as the stream is registered.
Reached(e, s, m, f) ==
    /\ Run(got[e][s], s, f) /\ Run(sink[e][s], s, f + Len(got[e][s]))
    /\ e = "server" \/ s \notin early => f = 0
    /\ pump[e][s] = "off" => got[e][s] = <<>> /\ sink[e][s] = <<>>
    /\ e = "client" => m >= 1
    /\ e = "client" /\ pump[e][s] = "off" /\ s \notin early => m = 1
    /\ e = "server" /\ stage[e][s] # "none" => m >= 1
    /\ e = "server" /\ reader[e].pc = "connect" /\ reader[e].s = s =>
           m = 1 /\ stage[e][s] = "none"
    /\ pump[e][s] = "run" /\ registry[e][IdOf(s)] = s /\ ~Handed(e, s) => f + Arrived(e, s) = m - 1
    /\ Handed(e, s) => reader[e].chunk = <<s, m - 1>>
    /\ Handed(e, s) /\ pump[e][s] = "run" => f + Arrived(e, s) = m - 2

Link(e, s) == \E m, n, f \in Nat : Carried(Other(e), s, m, n) /\ Reached(e, s, m, f)

Links == \A e \in Ends : \A s \in Tcp : Link(e, s)

\* A chunk is at a place of a sink, at a place of a queue, in a reader's hand, or in the air.
Holds(q, i, c) == i \in 1..Len(q) /\ q[i] = c
Bears(q, i, c) == i \in 1..Len(q) /\ IsChunk(q[i]) /\ q[i].chunk = c
Busy(j, c)     == j.pc = "deliver" /\ j.chunk = c
Afloat(N, c)   == \E ev \in N : ev.chunk = c

\* The places on the way from Other(e) to e, and the chunk at each.
Slots == {"out", "wire", "net", "reader", "catcher", "sink", "got"} \X Nat

At(e, a, c) ==
    \/ a[1] = "got" /\ Holds(got[e][c[1]], a[2], c)
    \/ a[1] = "sink" /\ Holds(sink[e][c[1]], a[2], c)
    \/ a[1] = "reader" /\ a[2] = 0 /\ Busy(reader[e], c)
    \/ a[1] = "catcher" /\ a[2] = 0 /\ Busy(catcher[e], c)
    \/ a[1] = "wire" /\ Bears(wire[Other(e)], a[2], c)
    \/ a[1] = "out" /\ Bears(out[Other(e)], a[2], c)
    \/ a[1] = "net" /\ a[2] = 0 /\ Afloat(net[Other(e)], c)

\* A chunk was read from a socket if it is anywhere, and it is at one place at most.
One(e, c) ==
    /\ \A a \in Slots : At(e, a, c) => c[2] <= taken[Other(e)][c[1]]
    /\ \A a, b \in Slots : At(e, a, c) /\ At(e, b, c) => a = b

Single(e) == \A c \in Chunks : One(e, c)

IInv == Base /\ Links /\ \A e \in Ends : Single(e)

-----------------------------------------------------------------------------
(* Parts *)

\* The events of a stream, and what they say.
LEMMA EventParts ==
    ASSUME IdsSuffice
    PROVE  /\ KeepAlive \in Events /\ ~IsChunk(KeepAlive) /\ KeepAlive.type = "keepalive"
           /\ \A s \in Streams :
                 /\ OpenEvent(s) \in Events /\ OpenEvent(s).type = "open" /\ OpenEvent(s).s = s
                 /\ CloseEvent(s) \in Events /\ CloseEvent(s).type = "close"
           /\ \A s \in Streams : \A k \in Nat :
                 /\ ChunkEvent(s, k) \in Events /\ IsChunk(ChunkEvent(s, k))
                 /\ ChunkEvent(s, k).chunk = <<s, k>> /\ Good(ChunkEvent(s, k))
<1>1. KeepAlive \in Events /\ ~IsChunk(KeepAlive) /\ KeepAlive.type = "keepalive"
    BY DEF KeepAlive, Events, IsChunk
<1>2. ASSUME NEW s \in Streams
      PROVE  /\ OpenEvent(s) \in Events /\ OpenEvent(s).type = "open" /\ OpenEvent(s).s = s
             /\ CloseEvent(s) \in Events /\ CloseEvent(s).type = "close"
    BY IdsDiffer DEF OpenEvent, CloseEvent, Events
<1>3. ASSUME NEW s \in Streams, NEW k \in Nat
      PROVE  /\ ChunkEvent(s, k) \in Events /\ IsChunk(ChunkEvent(s, k))
             /\ ChunkEvent(s, k).chunk = <<s, k>> /\ Good(ChunkEvent(s, k))
    BY IdsDiffer DEF ChunkEvent, Events, Good, IsChunk
<1> QED BY <1>1, <1>2, <1>3

\* The parts of any event and of any job.
LEMMA Parts ==
    /\ \A ev \in Events :
          /\ ev.type \in {"open", "data", "datagram", "close", "keepalive"}
          /\ ev.type = "open" => ev.s \in Streams
          /\ IsChunk(ev) => ev.chunk \in Chunks
          /\ IsChunk(ev) \/ ev.type = "close" => ev.id \in Ids
    /\ \A j \in Jobs :
          /\ j.pc \in {"recv", "done", "connect", "refuse", "deliver"}
          /\ j.pc \in {"connect", "refuse", "deliver"} => j.s \in Streams
          /\ j.pc = "deliver" => j.chunk \in Chunks
    /\ Idle \in Jobs /\ Idle.pc = "recv" /\ Done \in Jobs /\ Done.pc = "done"
    /\ \A s \in Streams :
          /\ Connecting(s) \in Jobs /\ Connecting(s).pc = "connect" /\ Connecting(s).s = s
          /\ Refusing(s) \in Jobs /\ Refusing(s).pc = "refuse" /\ Refusing(s).s = s
          /\ \A c \in Chunks :
                /\ Handing(s, c) \in Jobs /\ Handing(s, c).pc = "deliver"
                /\ Handing(s, c).s = s /\ Handing(s, c).chunk = c
<1>1. \A ev \in Events :
          /\ ev.type \in {"open", "data", "datagram", "close", "keepalive"}
          /\ ev.type = "open" => ev.s \in Streams
          /\ IsChunk(ev) => ev.chunk \in Chunks
          /\ IsChunk(ev) \/ ev.type = "close" => ev.id \in Ids
    BY DEF Events, IsChunk, Chunks
<1>2. \A j \in Jobs :
          /\ j.pc \in {"recv", "done", "connect", "refuse", "deliver"}
          /\ j.pc \in {"connect", "refuse", "deliver"} => j.s \in Streams
          /\ j.pc = "deliver" => j.chunk \in Chunks
    BY DEF Jobs
<1>3. Idle \in Jobs /\ Idle.pc = "recv" /\ Done \in Jobs /\ Done.pc = "done"
    BY DEF Idle, Done, Jobs
<1>4. ASSUME NEW s \in Streams
      PROVE  /\ Connecting(s) \in Jobs /\ Connecting(s).pc = "connect" /\ Connecting(s).s = s
             /\ Refusing(s) \in Jobs /\ Refusing(s).pc = "refuse" /\ Refusing(s).s = s
             /\ \A c \in Chunks :
                   /\ Handing(s, c) \in Jobs /\ Handing(s, c).pc = "deliver"
                   /\ Handing(s, c).s = s /\ Handing(s, c).chunk = c
    BY DEF Connecting, Refusing, Handing, Jobs
<1> QED BY <1>1, <1>2, <1>3, <1>4

\* The ends, and the streams of a plan.
LEMMA EndParts ==
    /\ \A e \in Ends : Other(e) \in Ends /\ Other(Other(e)) = e /\ Other(e) # e
    /\ "client" \in Ends /\ "server" \in Ends /\ Other("client") = "server"
    /\ Other("server") = "client" /\ None \notin Streams
BY DEF Ends, Other, None, Streams

LEMMA PlanParts ==
    ASSUME plan \in Plans
    PROVE  Tcp \subseteq Streams /\ Udp \subseteq Streams /\ Tcp \cap Udp = {}
BY RelayAssumption DEF Tcp, Udp

\* Where a chunk that arrives goes.
LEMMA Route ==
    ASSUME IdsSuffice, Base, NEW e \in Ends, NEW ev \in Events, IsChunk(ev), Good(ev)
    PROVE  /\ ev.id = IdOf(ev.chunk[1]) /\ ev.chunk \in Chunks /\ ev.chunk[1] \in Streams
           /\ Routed(e, ev) \in Jobs
           /\ registry[e][ev.id] = None =>  Routed(e, ev) = Idle
           /\ registry[e][ev.id] # None =>
                 /\ registry[e][ev.id] = ev.chunk[1] /\ pump[e][ev.chunk[1]] # "off"
                 /\ Routed(e, ev) = Handing(ev.chunk[1], ev.chunk)
<1>1. ev.id = IdOf(ev.chunk[1]) /\ ev.chunk \in Chunks /\ ev.chunk[1] \in Streams /\ ev.id \in Ids
    BY Parts DEF Good, Chunks
<1>2. ASSUME registry[e][ev.id] # None
      PROVE  registry[e][ev.id] = ev.chunk[1] /\ pump[e][ev.chunk[1]] # "off"
    <2>1. registry[e][ev.id] \in Streams
        BY <1>1, <1>2 DEF Base, Types, ControlTypes
    <2> QED BY <1>1, <1>2, <2>1, IdsDiffer DEF Base, Registered
<1> QED BY <1>1, <1>2, Parts DEF Routed

-----------------------------------------------------------------------------
(* Types *)

\* The actions, each with its end and stream.
LEMMA Actions ==
    ASSUME Next
    PROVE  \/ Request \/ CadenceTick \/ Break
           \/ \E s \in Streams : SendOpen(s) \/ OpenFails(s) \/ Register(s)
           \/ \E e \in Ends : \E s \in Streams :
                 \/ ReadChunk(e, s) \/ SourceFails(e, s) \/ SourceEnds(e, s) \/ UdpEnds(e, s)
                 \/ SourceGone(e, s)
                 \/ Give(e, s) \/ GiveFails(e, s) \/ Shutdown(e, s)
           \/ \E e \in Ends :
                 \/ WriteEvent(e) \/ WriteNative(e) \/ LinkLost(e)
                 \/ ReaderTakes(e) \/ ReaderConnects(e) \/ ReaderRefused(e) \/ ReaderRefuses(e)
                 \/ ReaderHands(e) \/ ReaderEnds(e) \/ CatcherTakes(e) \/ CatcherHands(e)
                 \/ NativeLost(e)
BY DEF Next, StreamTask, Writer, Reader, Catcher

\* One entry of a table is set.
LEMMA Put ==
    ASSUME NEW A, NEW B, NEW C, NEW f \in [A -> [B -> C]], NEW a \in A, NEW b \in B, NEW c \in C
    PROVE  /\ [f EXCEPT ![a][b] = c] \in [A -> [B -> C]]
           /\ [f EXCEPT ![a][b] = c][a][b] = c
           /\ \A x \in A : \A y \in B : x # a \/ y # b => [f EXCEPT ![a][b] = c][x][y] = f[x][y]
OBVIOUS

LEMMA ControlKept == ASSUME IdsSuffice, Base, Next PROVE ControlTypes'
<1>0. ControlTypes /\ QueueTypes /\ ReaderTypes /\ MaxStreams \in Nat /\ plan.ticks \in Nat
    BY RelayAssumption DEF Base, Types, ControlTypes
<1> USE <1>0 DEF ControlTypes
<1>1. CASE Request
    <2>1. opened + 1 \in Streams
        BY <1>1, PlanParts DEF Request
    <2>2. stage' \in [Ends -> [Streams -> {"none", "opening", "sent", "wired", "refused"}]]
        BY <1>1, <2>1, EndParts, Put DEF Request
    <2> QED BY <1>1, <2>1, <2>2 DEF Request, streamVars, queueVars, counters, fixed, Streams
<1>2. CASE CadenceTick
    BY <1>2 DEF CadenceTick, streamVars, fixed
<1>3. CASE Break
    BY <1>3 DEF Break, streamVars, queueVars, counters
<1>4. ASSUME NEW s \in Streams, SendOpen(s) \/ OpenFails(s) PROVE ControlTypes'
    <2>1. PICK to \in {"sent", "refused"} : stage' = [stage EXCEPT !["client"][s] = to]
        BY <1>4 DEF SendOpen, OpenFails
    <2>2. stage' \in [Ends -> [Streams -> {"none", "opening", "sent", "wired", "refused"}]]
        BY <2>1, EndParts
    <2> QED BY <1>4, <2>2 DEF SendOpen, OpenFails, streamVars, queueVars, counters, fixed
<1>5. ASSUME NEW s \in Streams, Register(s) PROVE ControlTypes'
    <2>1. stage' \in [Ends -> [Streams -> {"none", "opening", "sent", "wired", "refused"}]]
        BY <1>5, EndParts, Put DEF Register, Wire
    <2>2. registry' \in [Ends -> [Ids -> Streams \cup {None}]]
        BY <1>5, EndParts, IdsDiffer, Put DEF Register, Wire
    <2>3. /\ pump' \in [Ends -> [Streams -> {"off", "run", "shut"}]]
          /\ source' \in [Ends -> [Streams -> {"off", "read", "closing", "done"}]]
        BY <1>5, EndParts, Put DEF Register, Wire
    <2> QED BY <1>5, <2>1, <2>2, <2>3 DEF Register, queueVars, counters, fixed
<1>6. ASSUME NEW e \in Ends, NEW s \in Streams, ReadChunk(e, s) PROVE ControlTypes'
    BY <1>6 DEF ReadChunk, streamVars, queueVars, counters, fixed
<1>7. ASSUME NEW e \in Ends, NEW s \in Streams,
             SourceFails(e, s) \/ SourceEnds(e, s) \/ UdpEnds(e, s) \/ SourceGone(e, s)
      PROVE  ControlTypes'
    <2>1. PICK t \in Streams \cup {None} : registry' = [registry EXCEPT ![e][IdOf(s)] = t]
        <3>1. registry = [registry EXCEPT ![e][IdOf(s)] = registry[e][IdOf(s)]]
              /\ registry[e][IdOf(s)] \in Streams \cup {None}
            BY IdsDiffer
        <3> QED BY <1>7, <3>1 DEF SourceFails, SourceEnds, UdpEnds, SourceGone, Unregister
    <2>2. registry' \in [Ends -> [Ids -> Streams \cup {None}]]
        BY <2>1, IdsDiffer
    <2>3. PICK to \in {"closing", "done"} : source' = [source EXCEPT ![e][s] = to]
        BY <1>7 DEF SourceFails, SourceEnds, UdpEnds, SourceGone
    <2>4. source' \in [Ends -> [Streams -> {"off", "read", "closing", "done"}]]
        BY <2>3
    <2> QED BY <1>7, <2>2, <2>4
            DEF SourceFails, SourceEnds, UdpEnds, SourceGone, queueVars, counters, fixed
<1>8. ASSUME NEW e \in Ends, NEW s \in Streams, Give(e, s) \/ GiveFails(e, s) \/ Shutdown(e, s)
      PROVE  ControlTypes'
    <2>1. PICK to \in {"off", "run", "shut"} : pump' = [pump EXCEPT ![e][s] = to]
        <3>1. pump = [pump EXCEPT ![e][s] = pump[e][s]] /\ pump[e][s] \in {"off", "run", "shut"}
            OBVIOUS
        <3> QED BY <1>8, <3>1 DEF Give, GiveFails, Shutdown
    <2>2. pump' \in [Ends -> [Streams -> {"off", "run", "shut"}]]
        BY <2>1
    <2> QED BY <1>8, <2>2 DEF Give, GiveFails, Shutdown, queueVars, counters, fixed
<1>9. ASSUME NEW e \in Ends, WriteEvent(e) \/ WriteNative(e) \/ LinkLost(e) PROVE ControlTypes'
    BY <1>9 DEF WriteEvent, WriteNative, LinkLost, streamVars, queueVars, counters, fixed
<1>10. ASSUME NEW e \in Ends, ReaderTakes(e) PROVE ControlTypes'
    <2>0. Head(wire[Other(e)]) \in GoodEvents
        BY <1>10, EndParts, HeadTailProperties DEF ReaderTakes, QueueTypes
    <2>1. Head(wire[Other(e)]) \in Events
        BY <2>0 DEF GoodEvents
    <2>2. CASE Head(wire[Other(e)]).type = "close"
        <3>1. PICK id \in Ids : registry' = [registry EXCEPT ![e][id] = None]
            BY <1>10, <2>1, <2>2, Parts, ZenonT(40) DEF ReaderTakes, Unregister
        <3>2. registry' \in [Ends -> [Ids -> Streams \cup {None}]]
            BY <3>1
        <3> QED BY <1>10, <3>2 DEF ReaderTakes, TooEarly, counters
    <2>3. CASE Head(wire[Other(e)]).type # "close"
        BY <1>10, <2>3 DEF ReaderTakes, TooEarly, counters
    <2> QED BY <2>2, <2>3
<1>11. ASSUME NEW e \in Ends, ReaderConnects(e) \/ ReaderRefused(e) PROVE ControlTypes'
    <2>1. PICK s \in Streams : s = reader[e].s
        BY <1>11, Parts DEF ReaderConnects, ReaderRefused, ReaderTypes
    <2>2. PICK to \in {"wired", "refused"} : stage' = [stage EXCEPT ![e][s] = to]
        BY <1>11, <2>1 DEF ReaderConnects, ReaderRefused, Wire
    <2>3. stage' \in [Ends -> [Streams -> {"none", "opening", "sent", "wired", "refused"}]]
        BY <2>2
    <2>4. CASE ReaderRefused(e)
        BY <2>3, <2>4 DEF ReaderRefused, streamVars, queueVars, counters, fixed
    <2>5. CASE ReaderConnects(e)
        <3>1. /\ registry' = [registry EXCEPT ![e][IdOf(s)] = s]
              /\ pump' = [pump EXCEPT ![e][s] = "run"] /\ source' = [source EXCEPT ![e][s] = "read"]
            BY <2>1, <2>5 DEF ReaderConnects, Wire
        <3>2. registry' \in [Ends -> [Ids -> Streams \cup {None}]]
            BY <3>1, IdsDiffer
        <3>3. /\ pump' \in [Ends -> [Streams -> {"off", "run", "shut"}]]
              /\ source' \in [Ends -> [Streams -> {"off", "read", "closing", "done"}]]
            BY <3>1
        <3> QED BY <2>3, <2>5, <3>2, <3>3 DEF ReaderConnects, queueVars, counters, fixed
    <2> QED BY <1>11, <2>4, <2>5
<1>12. ASSUME NEW e \in Ends, ReaderRefuses(e) \/ ReaderHands(e) \/ CatcherHands(e) PROVE ControlTypes'
    BY <1>12 DEF ReaderRefuses, ReaderHands, CatcherHands, streamVars, queueVars, counters, fixed
<1>13. ASSUME NEW e \in Ends, ReaderEnds(e) PROVE ControlTypes'
    BY <1>13 DEF ReaderEnds, counters, fixed
<1>14. ASSUME NEW e \in Ends, CatcherTakes(e) \/ NativeLost(e) PROVE ControlTypes'
    BY <1>14 DEF CatcherTakes, NativeLost, TooEarly, streamVars, queueVars, counters, fixed
<1> QED BY Actions, <1>1, <1>2, <1>3, <1>4, <1>5, <1>6, <1>7, <1>8, <1>9, <1>10, <1>11, <1>12,
           <1>13, <1>14

LEMMA FlagsKept == ASSUME Base, Next PROVE FlagTypes'
<1>1. link \in [Ends -> BOOLEAN] /\ activity \in BOOLEAN /\ broken \in BOOLEAN
    BY DEF Base, Types, FlagTypes
<1> DEFINE Same == link' = link /\ activity' = activity /\ broken' = broken
           Flags ==
      \/ Same
      \/ broken' = TRUE /\ link' = link /\ activity' = activity
      \/ \E e \in Ends : link' = [link EXCEPT ![e] = FALSE] /\ activity' = activity /\ broken' = broken
      \/ activity' = FALSE /\ link' = link /\ broken' = broken
      \/ \E e \in Ends, s \in Streams :
            /\ activity' = (activity \/ (e = "client" /\ MarksActivity(e, s)))
            /\ link' = link /\ broken' = broken
<1>2. Flags
    <2> USE DEF linkVars, counters, fixed
    <2>1. ASSUME Request \/ CadenceTick \/ Break PROVE Flags
        BY <2>1 DEF Request, CadenceTick, Break
    <2>2. ASSUME NEW s \in Streams, SendOpen(s) \/ OpenFails(s) \/ Register(s) PROVE Same
        BY <2>2 DEF SendOpen, OpenFails, Register
    <2>3. ASSUME NEW e \in Ends, NEW s \in Streams, ReadChunk(e, s) PROVE Flags
        BY <2>3 DEF ReadChunk
    <2>4. ASSUME NEW e \in Ends, NEW s \in Streams,
                 \/ SourceFails(e, s) \/ SourceEnds(e, s) \/ UdpEnds(e, s) \/ SourceGone(e, s)
                 \/ Give(e, s) \/ GiveFails(e, s) \/ Shutdown(e, s)
          PROVE  Same
        BY <2>4 DEF SourceFails, SourceEnds, UdpEnds, SourceGone, Give, GiveFails, Shutdown
    <2>5. ASSUME NEW e \in Ends, LinkLost(e) PROVE Flags
        BY <2>5 DEF LinkLost
    <2>6. ASSUME NEW e \in Ends, WriteEvent(e) \/ WriteNative(e) \/ NativeLost(e) PROVE Same
        BY <2>6 DEF WriteEvent, WriteNative, NativeLost
    <2>7. ASSUME NEW e \in Ends, \/ ReaderTakes(e) \/ ReaderConnects(e) \/ ReaderRefused(e)
                                 \/ ReaderRefuses(e) \/ ReaderHands(e) \/ ReaderEnds(e)
          PROVE  Same
        BY <2>7 DEF ReaderTakes, ReaderConnects, ReaderRefused, ReaderRefuses, ReaderHands, ReaderEnds
    <2>8. ASSUME NEW e \in Ends, CatcherTakes(e) \/ CatcherHands(e) PROVE Same
        BY <2>8 DEF CatcherTakes, CatcherHands
    <2>9. Same => Flags
        OBVIOUS
    <2> HIDE DEF Same, Flags
    <2> QED BY Actions, <2>1, <2>2, <2>3, <2>4, <2>5, <2>6, <2>7, <2>8, <2>9
<1>3. activity' \in BOOLEAN
    BY <1>1, <1>2
<1>4. link' \in [Ends -> BOOLEAN]
    BY <1>1, <1>2
<1>5. broken' \in BOOLEAN
    BY <1>1, <1>2
<1> QED BY <1>3, <1>4, <1>5 DEF FlagTypes

\* Nobody changes the plan, and what a good event is depends on nothing else.
LEMMA PlanFixed ==
    ASSUME Next
    PROVE  plan' = plan /\ GoodEvents' = GoodEvents /\ Datagrams' = Datagrams /\ Tcp' = Tcp
<1>1. plan' = plan
    <2> USE DEF fixed
    <2>1. ASSUME Request \/ CadenceTick \/ Break PROVE plan' = plan
        BY <2>1 DEF Request, CadenceTick, Break
    <2>2. ASSUME NEW s \in Streams, SendOpen(s) \/ OpenFails(s) \/ Register(s) PROVE plan' = plan
        BY <2>2 DEF SendOpen, OpenFails, Register
    <2>3. ASSUME NEW e \in Ends, NEW s \in Streams,
                 \/ ReadChunk(e, s) \/ SourceFails(e, s) \/ SourceEnds(e, s) \/ UdpEnds(e, s)
                 \/ SourceGone(e, s)
                 \/ Give(e, s) \/ GiveFails(e, s) \/ Shutdown(e, s)
          PROVE  plan' = plan
        BY <2>3 DEF ReadChunk, SourceFails, SourceEnds, UdpEnds, SourceGone, Give, GiveFails, Shutdown
    <2>4. ASSUME NEW e \in Ends, WriteEvent(e) \/ WriteNative(e) \/ NativeLost(e) \/ LinkLost(e)
          PROVE  plan' = plan
        BY <2>4 DEF WriteEvent, WriteNative, NativeLost, LinkLost
    <2>5. ASSUME NEW e \in Ends, \/ ReaderTakes(e) \/ ReaderConnects(e) \/ ReaderRefused(e)
                                 \/ ReaderRefuses(e) \/ ReaderHands(e) \/ ReaderEnds(e)
          PROVE  plan' = plan
        BY <2>5 DEF ReaderTakes, ReaderConnects, ReaderRefused, ReaderRefuses, ReaderHands, ReaderEnds
    <2>6. ASSUME NEW e \in Ends, CatcherTakes(e) \/ CatcherHands(e) PROVE plan' = plan
        BY <2>6 DEF CatcherTakes, CatcherHands
    <2> QED BY Actions, <2>1, <2>2, <2>3, <2>4, <2>5, <2>6
<1>2. Tcp' = Tcp
    BY <1>1 DEF Tcp
<1>3. \A ev : Good(ev)' <=> Good(ev)
    BY <1>2 DEF Good
<1>4. GoodEvents' = GoodEvents
    BY <1>3 DEF GoodEvents
<1> QED BY <1>1, <1>2, <1>4 DEF Datagrams

\* The events of the program are good, and good events are events.
LEMMA GoodParts ==
    ASSUME IdsSuffice
    PROVE  /\ KeepAlive \in GoodEvents
           /\ \A s \in Streams : OpenEvent(s) \in GoodEvents /\ CloseEvent(s) \in GoodEvents
           /\ \A s \in Streams : \A k \in Nat : ChunkEvent(s, k) \in GoodEvents
           /\ GoodEvents \subseteq Events /\ \A q \in Seq(GoodEvents) : q \in Seq(Events)
<1>1. KeepAlive \in GoodEvents
    BY EventParts DEF GoodEvents, Good
<1>2. ASSUME NEW s \in Streams PROVE OpenEvent(s) \in GoodEvents /\ CloseEvent(s) \in GoodEvents
    BY EventParts DEF GoodEvents, Good, IsChunk
<1>3. ASSUME NEW s \in Streams, NEW k \in Nat PROVE ChunkEvent(s, k) \in GoodEvents
    BY EventParts DEF GoodEvents
<1>4. GoodEvents \subseteq Events
    BY DEF GoodEvents
<1>5. ASSUME NEW q \in Seq(GoodEvents) PROVE q \in Seq(Events)
    BY <1>4, SeqMonotonic
<1> QED BY <1>1, <1>2, <1>3, <1>4, <1>5

\* An event joins the outbound channel.
LEMMA QueueTyped ==
    ASSUME QueueTypes, NEW e \in Ends, NEW ev \in GoodEvents, Queue(e, ev), UNCHANGED <<wire, net>>,
           GoodEvents' = GoodEvents, Datagrams' = Datagrams
    PROVE  QueueTypes'
<1>1. out' = [out EXCEPT ![e] = Append(out[e], ev)] /\ Len(out[e]) < OutCap
    BY DEF Queue
<1>2. /\ Append(out[e], ev) \in Seq(GoodEvents) /\ Len(Append(out[e], ev)) <= OutCap
    BY <1>1, AppendProperties, LenProperties, RelayAssumption DEF QueueTypes
<1> QED BY <1>1, <1>2 DEF QueueTypes

LEMMA QueuesKept == ASSUME IdsSuffice, Base, Next PROVE QueueTypes'
<1>0. /\ QueueTypes /\ GoodEvents' = GoodEvents /\ Datagrams' = Datagrams
      /\ reader \in [Ends -> Jobs] /\ taken \in [Ends -> [Streams -> Nat]]
    BY PlanFixed DEF Base, Types, ControlTypes, ReaderTypes
<1>1. ASSUME UNCHANGED <<out, wire, net>> PROVE QueueTypes'
    BY <1>0, <1>1 DEF QueueTypes
<1>2. CASE Request \/ Break
    BY <1>1, <1>2 DEF Request, Break, queueVars, linkVars
<1>3. CASE CadenceTick
    <2>1. CASE activity
        BY <1>1, <1>3, <2>1 DEF CadenceTick, linkVars
    <2>2. CASE ~activity
        BY <1>0, <1>3, <2>2, QueueTyped, GoodParts, EndParts DEF CadenceTick, linkVars
    <2> QED BY <2>1, <2>2
<1>4. ASSUME NEW s \in Streams, SendOpen(s) PROVE QueueTypes'
    BY <1>0, <1>4, QueueTyped, GoodParts, EndParts DEF SendOpen, linkVars
<1>5. ASSUME NEW s \in Streams, OpenFails(s) \/ Register(s) PROVE QueueTypes'
    BY <1>1, <1>5 DEF OpenFails, Register, queueVars, linkVars
<1>6. ASSUME NEW e \in Ends, NEW s \in Streams, ReadChunk(e, s) PROVE QueueTypes'
    <2>1. taken[e][s] + 1 \in Nat
        BY <1>0
    <2> QED BY <1>0, <1>6, <2>1, QueueTyped, GoodParts DEF ReadChunk, linkVars
<1>7. ASSUME NEW e \in Ends, NEW s \in Streams, SourceEnds(e, s) PROVE QueueTypes'
    <2>1. CASE Queue(e, CloseEvent(s))
        BY <1>0, <1>7, <2>1, QueueTyped, GoodParts DEF SourceEnds, linkVars
    <2>2. CASE UNCHANGED out
        BY <1>1, <1>7, <2>2 DEF SourceEnds, linkVars
    <2> QED BY <1>7, <2>1, <2>2 DEF SourceEnds
<1>8. ASSUME NEW e \in Ends, NEW s \in Streams,
             \/ SourceFails(e, s) \/ UdpEnds(e, s) \/ SourceGone(e, s)
             \/ Give(e, s) \/ GiveFails(e, s) \/ Shutdown(e, s)
      PROVE  QueueTypes'
    BY <1>1, <1>8 DEF SourceFails, UdpEnds, SourceGone, Give, GiveFails, Shutdown, queueVars, linkVars
<1>9. ASSUME NEW e \in Ends, WriteEvent(e) PROVE QueueTypes'
    <2>1. /\ Head(out[e]) \in GoodEvents /\ Tail(out[e]) \in Seq(GoodEvents) /\ net' = net
          /\ Len(Tail(out[e])) <= OutCap /\ wire[e] \in Seq(GoodEvents)
          /\ <<>> \in Seq(GoodEvents) /\ Len(<<>>) <= OutCap
        BY <1>0, <1>9, HeadTailProperties, LenProperties, EmptySeq, RelayAssumption
           DEF WriteEvent, QueueTypes, linkVars
    <2>2. /\ Append(wire[e], Head(out[e])) \in Seq(GoodEvents)
          /\ Len(wire[e]) < WireCap => Len(Append(wire[e], Head(out[e]))) <= WireCap
        BY <2>1, AppendProperties, LenProperties, RelayAssumption
    <2>3. CASE /\ Len(wire[e]) < WireCap /\ wire' = [wire EXCEPT ![e] = Append(wire[e], Head(out[e]))]
               /\ out' = [out EXCEPT ![e] = Tail(out[e])]
        BY <1>0, <2>1, <2>2, <2>3 DEF QueueTypes
    <2>4. CASE wire' = wire /\ out' = [out EXCEPT ![e] = Tail(out[e])]
        BY <1>0, <2>1, <2>4 DEF QueueTypes
    <2>5. CASE wire' = wire /\ out' = [out EXCEPT ![e] = <<>>]
        BY <1>0, <2>1, <2>5 DEF QueueTypes
    <2> QED BY <1>9, <2>3, <2>4, <2>5 DEF WriteEvent, Written
<1>10. ASSUME NEW e \in Ends, WriteNative(e) PROVE QueueTypes'
    <2>1. /\ Head(out[e]) \in Datagrams /\ Tail(out[e]) \in Seq(GoodEvents)
          /\ Len(Tail(out[e])) <= OutCap
        BY <1>0, <1>10, HeadTailProperties, LenProperties, EmptySeq, RelayAssumption
           DEF WriteNative, QueueTypes, Datagrams
    <2>2. /\ out' = [out EXCEPT ![e] = Tail(out[e])] /\ wire' = wire
          /\ net' = [net EXCEPT ![e] = net[e] \cup {Head(out[e])}]
        BY <1>10 DEF WriteNative
    <2> QED BY <1>0, <2>1, <2>2 DEF QueueTypes
<1>11. ASSUME NEW e \in Ends, LinkLost(e) PROVE QueueTypes'
    BY <1>1, <1>11 DEF LinkLost, queueVars
<1>12. ASSUME NEW e \in Ends, ReaderTakes(e) PROVE QueueTypes'
    <2>1. PICK o \in Ends : o = Other(e)
        BY EndParts
    <2>2. Tail(wire[o]) \in Seq(GoodEvents) /\ Len(Tail(wire[o])) <= WireCap
        BY <1>0, <1>12, <2>1, HeadTailProperties, LenProperties, EmptySeq, RelayAssumption
           DEF ReaderTakes, QueueTypes
    <2>3. wire' = [wire EXCEPT ![o] = Tail(wire[o])] /\ out' = out /\ net' = net
        BY <1>12, <2>1 DEF ReaderTakes, linkVars
    <2> QED BY <1>0, <2>2, <2>3 DEF QueueTypes
<1>13. ASSUME NEW e \in Ends, ReaderRefuses(e) PROVE QueueTypes'
    <2>1. reader[e].s \in Streams
        BY <1>0, <1>13, Parts DEF ReaderRefuses
    <2>2. CASE Queue(e, CloseEvent(reader[e].s))
        BY <1>0, <1>13, <2>1, <2>2, QueueTyped, GoodParts DEF ReaderRefuses, linkVars
    <2>3. CASE UNCHANGED out
        BY <1>1, <1>13, <2>3 DEF ReaderRefuses, linkVars
    <2> QED BY <1>13, <2>2, <2>3 DEF ReaderRefuses
<1>14. ASSUME NEW e \in Ends,
              ReaderConnects(e) \/ ReaderRefused(e) \/ ReaderHands(e) \/ CatcherHands(e)
       PROVE  QueueTypes'
    BY <1>1, <1>14 DEF ReaderConnects, ReaderRefused, ReaderHands, CatcherHands, queueVars, linkVars
<1>15. ASSUME NEW e \in Ends, ReaderEnds(e) PROVE QueueTypes'
    <2>1. /\ wire' = [wire EXCEPT ![Other(e)] = <<>>] /\ out' = out /\ net' = net
          /\ <<>> \in Seq(GoodEvents) /\ Len(<<>>) <= WireCap
        BY <1>15, EmptySeq, RelayAssumption DEF ReaderEnds, linkVars
    <2> QED BY <1>0, <2>1, EndParts DEF QueueTypes
<1>16. ASSUME NEW e \in Ends, CatcherTakes(e) \/ NativeLost(e) PROVE QueueTypes'
    <2>1. PICK o \in Ends, ev \in Events : net' = [net EXCEPT ![o] = net[o] \ {ev}]
        BY <1>0, <1>16, EndParts DEF CatcherTakes, NativeLost, QueueTypes, Datagrams, GoodEvents
    <2>2. out' = out /\ wire' = wire
        BY <1>16 DEF CatcherTakes, NativeLost, queueVars
    <2> QED BY <1>0, <2>1, <2>2 DEF QueueTypes
<1> QED BY Actions, <1>2, <1>3, <1>4, <1>5, <1>6, <1>7, <1>8, <1>9, <1>10, <1>11, <1>12, <1>13,
           <1>14, <1>15, <1>16

\* A chunk is handed to its sink, or nothing happens.
LEMMA HandToTyped ==
    ASSUME SinkTypes, Own, NEW e \in Ends, NEW s \in Streams, NEW c \in Chunks, c[1] = s,
           HandTo(e, s, c), UNCHANGED got
    PROVE  SinkTypes' /\ Own'
<1>1. CASE UNCHANGED sink
    BY <1>1 DEF SinkTypes, Own
<1>2. CASE sink' = [sink EXCEPT ![e][s] = Append(sink[e][s], c)] /\ Len(sink[e][s]) < SinkCap
    <2>1. /\ Append(sink[e][s], c) \in Seq(Chunks) /\ Len(Append(sink[e][s], c)) <= SinkCap
          /\ \A i \in 1..Len(Append(sink[e][s], c)) : Append(sink[e][s], c)[i][1] = s
        <3>1. sink[e][s] \in Seq(Chunks) /\ \A i \in 1..Len(sink[e][s]) : sink[e][s][i][1] = s
            BY DEF SinkTypes, Own
        <3> DEFINE q == sink[e][s]
        <3>2. q \in Seq(Chunks) /\ (\A i \in 1..Len(q) : q[i][1] = s) /\ Len(q) < SinkCap /\ Len(q) \in Nat
            BY <1>2, <3>1, LenProperties
        <3> HIDE DEF q
        <3>3. /\ Append(q, c) \in Seq(Chunks) /\ Len(Append(q, c)) = Len(q) + 1
              /\ \A i \in 1..Len(q) : Append(q, c)[i] = q[i]
              /\ Append(q, c)[Len(q) + 1] = c
            BY <3>2, AppendProperties
        <3>4. \A i \in 1..(Len(q) + 1) : i \in 1..Len(q) \/ i = Len(q) + 1
            BY <3>2
        <3>5. Append(q, c) \in Seq(Chunks) /\ Len(Append(q, c)) <= SinkCap
            BY <3>2, <3>3, RelayAssumption
        <3>6. ASSUME NEW i \in 1..Len(Append(q, c)) PROVE Append(q, c)[i][1] = s
            BY <3>2, <3>3, <3>4
        <3> QED BY <3>5, <3>6 DEF q
    <2>2. /\ sink' \in [Ends -> [Streams -> Seq(Chunks)]] /\ sink'[e][s] = Append(sink[e][s], c)
          /\ \A d \in Ends, t \in Streams : d # e \/ t # s => sink'[d][t] = sink[d][t]
        BY <1>2, <2>1 DEF SinkTypes
    <2>3. ASSUME NEW d \in Ends, NEW t \in Streams
          PROVE  /\ Len(sink'[d][t]) <= SinkCap
                 /\ \A i \in 1..Len(sink'[d][t]) : sink'[d][t][i][1] = t
        <3>1. CASE d = e /\ t = s
            <4>1. sink'[d][t] = Append(sink[e][s], c)
                BY <2>2, <3>1
            <4> QED BY <2>1, <3>1, <4>1
        <3>2. CASE d # e \/ t # s
            <4>1. sink'[d][t] = sink[d][t]
                BY <2>2, <3>2
            <4>2. Len(sink[d][t]) <= SinkCap
                BY DEF SinkTypes
            <4>3. \A i \in 1..Len(sink[d][t]) : sink[d][t][i][1] = t
                BY DEF Own
            <4> QED BY <4>1, <4>2, <4>3
        <3> QED BY <3>1, <3>2
    <2> QED BY <2>2, <2>3 DEF SinkTypes, Own
<1> QED BY <1>1, <1>2 DEF HandTo

LEMMA SinksKept == ASSUME IdsSuffice, Base, Next PROVE SinkTypes' /\ Own'
<1>0. SinkTypes /\ Own /\ reader \in [Ends -> Jobs] /\ catcher \in [Ends -> Jobs] /\ InHand
    BY DEF Base, Types, ReaderTypes
<1>1. ASSUME UNCHANGED <<sink, got>> PROVE SinkTypes' /\ Own'
    BY <1>0, <1>1 DEF SinkTypes, Own
<1> USE DEF streamVars
<1>2. CASE Request \/ CadenceTick \/ Break
    BY <1>1, <1>2 DEF Request, CadenceTick, Break
<1>3. ASSUME NEW s \in Streams, SendOpen(s) \/ OpenFails(s) \/ Register(s) PROVE SinkTypes' /\ Own'
    BY <1>1, <1>3 DEF SendOpen, OpenFails, Register
<1>4. ASSUME NEW e \in Ends, NEW s \in Streams,
             \/ ReadChunk(e, s) \/ SourceFails(e, s) \/ SourceEnds(e, s) \/ UdpEnds(e, s)
             \/ SourceGone(e, s)
             \/ Shutdown(e, s)
      PROVE  SinkTypes' /\ Own'
    BY <1>1, <1>4 DEF ReadChunk, SourceFails, SourceEnds, UdpEnds, SourceGone, Shutdown
<1>5. ASSUME NEW e \in Ends, NEW s \in Streams, Give(e, s) PROVE SinkTypes' /\ Own'
    <2> DEFINE q == sink[e][s]
               g == got[e][s]
    <2>1. /\ q \in Seq(Chunks) /\ g \in Seq(Chunks) /\ q # <<>> /\ Len(q) <= SinkCap
          /\ \A i \in 1..Len(q) : q[i][1] = s
          /\ \A i \in 1..Len(g) : g[i][1] = s
        BY <1>0, <1>5 DEF SinkTypes, Own, Give
    <2>2. /\ sink' = [sink EXCEPT ![e][s] = Tail(q)]
          /\ got' = [got EXCEPT ![e][s] = Append(g, Head(q))]
        BY <1>5 DEF Give
    <2> HIDE DEF q, g
    <2>3. /\ Tail(q) \in Seq(Chunks) /\ Append(g, Head(q)) \in Seq(Chunks)
          /\ Len(Tail(q)) <= SinkCap /\ Head(q) \in Chunks /\ Head(q) = q[1] /\ Len(q) \in Nat \ {0}
          /\ \A i \in 1..Len(Tail(q)) : Tail(q)[i][1] = s
        BY <2>1, HeadTailProperties, AppendProperties, LenProperties, EmptySeq, RelayAssumption
    <2>4. \A i \in 1..Len(Append(g, Head(q))) : Append(g, Head(q))[i][1] = s
        BY <2>1, <2>3, AppendProperties, LenProperties
    <2>5. /\ sink' \in [Ends -> [Streams -> Seq(Chunks)]] /\ sink'[e][s] = Tail(q)
          /\ \A d \in Ends, t \in Streams : d # e \/ t # s => sink'[d][t] = sink[d][t]
        BY <1>0, <2>2, <2>3 DEF SinkTypes
    <2>6. /\ got' \in [Ends -> [Streams -> Seq(Chunks)]] /\ got'[e][s] = Append(g, Head(q))
          /\ \A d \in Ends, t \in Streams : d # e \/ t # s => got'[d][t] = got[d][t]
        BY <1>0, <2>2, <2>3 DEF SinkTypes
    <2>7. ASSUME NEW d \in Ends, NEW t \in Streams
          PROVE  /\ Len(sink'[d][t]) <= SinkCap
                 /\ \A i \in 1..Len(sink'[d][t]) : sink'[d][t][i][1] = t
                 /\ \A i \in 1..Len(got'[d][t]) : got'[d][t][i][1] = t
        <3>1. CASE d = e /\ t = s
            BY <2>3, <2>4, <2>5, <2>6, <3>1, ZenonT(40)
        <3>2. CASE d # e \/ t # s
            <4>1. sink'[d][t] = sink[d][t] /\ got'[d][t] = got[d][t]
                BY <2>5, <2>6, <3>2
            <4>2. Len(sink[d][t]) <= SinkCap
                BY <1>0 DEF SinkTypes
            <4>3. /\ \A i \in 1..Len(sink[d][t]) : sink[d][t][i][1] = t
                  /\ \A i \in 1..Len(got[d][t]) : got[d][t][i][1] = t
                BY <1>0 DEF Own
            <4> QED BY <4>1, <4>2, <4>3
        <3> QED BY <3>1, <3>2
    <2> QED BY <2>5, <2>6, <2>7 DEF SinkTypes, Own
<1>6. ASSUME NEW e \in Ends, NEW s \in Streams, GiveFails(e, s) PROVE SinkTypes' /\ Own'
    <2>1. /\ <<>> \in Seq(Chunks) /\ Len(<<>>) = 0 /\ 0 <= SinkCap /\ got' = got
          /\ sink' = [sink EXCEPT ![e][s] = <<>>]
        BY <1>6, EmptySeq, RelayAssumption DEF GiveFails
    <2>2. /\ sink' \in [Ends -> [Streams -> Seq(Chunks)]] /\ sink'[e][s] = <<>>
          /\ \A d \in Ends, t \in Streams : d # e \/ t # s => sink'[d][t] = sink[d][t]
        BY <1>0, <2>1 DEF SinkTypes
    <2>3. ASSUME NEW d \in Ends, NEW t \in Streams
          PROVE  /\ Len(sink'[d][t]) <= SinkCap
                 /\ \A i \in 1..Len(sink'[d][t]) : sink'[d][t][i][1] = t
        BY <1>0, <2>1, <2>2 DEF SinkTypes, Own
    <2> QED BY <1>0, <2>1, <2>2, <2>3 DEF SinkTypes, Own
<1>7. ASSUME NEW e \in Ends, WriteEvent(e) \/ WriteNative(e) \/ LinkLost(e) \/ NativeLost(e)
      PROVE  SinkTypes' /\ Own'
    BY <1>1, <1>7 DEF WriteEvent, WriteNative, LinkLost, NativeLost
<1>8. ASSUME NEW e \in Ends, \/ ReaderTakes(e) \/ ReaderConnects(e) \/ ReaderRefused(e)
                             \/ ReaderRefuses(e) \/ ReaderEnds(e) \/ CatcherTakes(e)
      PROVE  SinkTypes' /\ Own'
    BY <1>1, <1>8 DEF ReaderTakes, ReaderConnects, ReaderRefused, ReaderRefuses, ReaderEnds, CatcherTakes
<1>9. ASSUME NEW e \in Ends, ReaderHands(e) PROVE SinkTypes' /\ Own'
    <2>1. reader[e].s \in Streams /\ reader[e].chunk \in Chunks /\ reader[e].chunk[1] = reader[e].s
        BY <1>0, <1>9, Parts DEF ReaderHands, InHand
    <2> QED BY <1>0, <1>9, <2>1, HandToTyped DEF ReaderHands
<1>10. ASSUME NEW e \in Ends, CatcherHands(e) PROVE SinkTypes' /\ Own'
    <2>1. catcher[e].s \in Streams /\ catcher[e].chunk \in Chunks /\ catcher[e].chunk[1] = catcher[e].s
        BY <1>0, <1>10, Parts DEF CatcherHands, InHand
    <2> QED BY <1>0, <1>10, <2>1, HandToTyped DEF CatcherHands
<1> QED BY Actions, <1>2, <1>3, <1>4, <1>5, <1>6, <1>7, <1>8, <1>9, <1>10

\* What the reader makes of the event it takes.
LEMMA Taken ==
    ASSUME IdsSuffice, Base, NEW e \in Ends, ReaderTakes(e), NEW ev, ev = Head(wire[Other(e)])
    PROVE  /\ ev \in Events /\ Good(ev) /\ reader' = [reader EXCEPT ![e] = After(e, ev)]
           /\ After(e, ev) \in Jobs
           /\ ev.type = "open" =>
                 After(e, ev) = IF e = "server" THEN Connecting(ev.s) ELSE Idle
           /\ IsChunk(ev) => After(e, ev) = Routed(e, ev)
           /\ ev.type \notin {"open", "data", "datagram"} => After(e, ev) = Idle
<1>1. ev \in GoodEvents
    BY EndParts, HeadTailProperties DEF ReaderTakes, Base, Types, QueueTypes
<1>2. ev \in Events /\ Good(ev)
    BY <1>1 DEF GoodEvents
<1>3. /\ ev.type = "open" => After(e, ev) = IF e = "server" THEN Connecting(ev.s) ELSE Idle
      /\ IsChunk(ev) => After(e, ev) = Routed(e, ev)
      /\ ev.type \notin {"open", "data", "datagram"} => After(e, ev) = Idle
    BY DEF After, IsChunk
<1>4. IsChunk(ev) => Routed(e, ev) \in Jobs
    BY <1>2, Route
<1>5. After(e, ev) \in Jobs
    BY <1>2, <1>3, <1>4, Parts DEF IsChunk
<1> QED BY <1>2, <1>3, <1>5 DEF ReaderTakes

\* And the datagram reader.
LEMMA Caught ==
    ASSUME IdsSuffice, Base, NEW e \in Ends, CatcherTakes(e)
    PROVE  \E ev \in net[Other(e)] :
              /\ ev \in Events /\ Good(ev) /\ ev.type = "datagram" /\ IsChunk(ev)
              /\ catcher[e].pc = "recv" /\ net' = [net EXCEPT ![Other(e)] = @ \ {ev}]
              /\ catcher' = [catcher EXCEPT ![e] = Routed(e, ev)] /\ Routed(e, ev) \in Jobs
              /\ early' = early \cup TooEarly(e, ev)
<1>1. PICK ev \in net[Other(e)] :
          /\ catcher[e].pc = "recv" /\ net' = [net EXCEPT ![Other(e)] = @ \ {ev}]
          /\ catcher' = [catcher EXCEPT ![e] = Routed(e, ev)]
          /\ early' = early \cup TooEarly(e, ev)
    BY DEF CatcherTakes
<1>2. ev \in Datagrams
    BY <1>1, EndParts DEF Base, Types, QueueTypes
<1>3. ev \in Events /\ Good(ev) /\ ev.type = "datagram" /\ IsChunk(ev)
    BY <1>2 DEF Datagrams, GoodEvents, IsChunk
<1> QED BY <1>1, <1>3, Route

\* The registry loses entries, or gains the stream whose tasks are started.
LEMMA RegistryStep ==
    ASSUME IdsSuffice, Base, Next
    PROVE  \/ \A e \in Ends, id \in Ids : registry'[e][id] \in {None, registry[e][id]}
           \/ \E d \in Ends, s \in Streams :
                 /\ pump' = [pump EXCEPT ![d][s] = "run"]
                 /\ registry' = [registry EXCEPT ![d][IdOf(s)] = s]
<1>0. registry \in [Ends -> [Ids -> Streams \cup {None}]] /\ reader \in [Ends -> Jobs]
    BY DEF Base, Types, ControlTypes, ReaderTypes
<1> DEFINE Less == \A e \in Ends, id \in Ids : registry'[e][id] \in {None, registry[e][id]}
           More == \E d \in Ends, s \in Streams :
                      /\ pump' = [pump EXCEPT ![d][s] = "run"]
                      /\ registry' = [registry EXCEPT ![d][IdOf(s)] = s]
<1>1. ASSUME registry' = registry PROVE Less
    BY <1>1
<1>2. ASSUME NEW d \in Ends, NEW i \in Ids, registry' = [registry EXCEPT ![d][i] = None] PROVE Less
    BY <1>0, <1>2
<1>3. ASSUME Request \/ CadenceTick \/ Break PROVE Less
    BY <1>1, <1>3 DEF Request, CadenceTick, Break, streamVars
<1>4. ASSUME NEW s \in Streams, SendOpen(s) \/ OpenFails(s) PROVE Less
    BY <1>1, <1>4 DEF SendOpen, OpenFails, streamVars
<1>5. ASSUME NEW s \in Streams, Register(s) PROVE More
    BY <1>5, EndParts DEF Register, Wire
<1>6. ASSUME NEW e \in Ends, NEW s \in Streams, SourceFails(e, s) \/ SourceEnds(e, s) PROVE Less
    BY <1>1, <1>6 DEF SourceFails, SourceEnds
<1>7. ASSUME NEW e \in Ends, NEW s \in Streams, UdpEnds(e, s) \/ SourceGone(e, s) PROVE Less
    BY <1>1, <1>2, <1>7, IdsDiffer DEF UdpEnds, SourceGone, Unregister
<1>8. ASSUME NEW e \in Ends, NEW s \in Streams,
             ReadChunk(e, s) \/ Give(e, s) \/ GiveFails(e, s) \/ Shutdown(e, s)
      PROVE  Less
    BY <1>1, <1>8 DEF ReadChunk, Give, GiveFails, Shutdown, streamVars
<1>9. ASSUME NEW e \in Ends, \/ WriteEvent(e) \/ WriteNative(e) \/ LinkLost(e) \/ NativeLost(e)
                             \/ CatcherTakes(e) \/ CatcherHands(e)
      PROVE  Less
    BY <1>1, <1>9 DEF WriteEvent, WriteNative, LinkLost, NativeLost, CatcherTakes, CatcherHands, streamVars
<1>10. ASSUME NEW e \in Ends, ReaderRefused(e) \/ ReaderRefuses(e) \/ ReaderHands(e) PROVE Less
    BY <1>1, <1>10 DEF ReaderRefused, ReaderRefuses, ReaderHands, streamVars
<1>11. ASSUME NEW e \in Ends, ReaderTakes(e) PROVE Less
    <2>1. PICK ev \in Events : ev = Head(wire[Other(e)])
        BY <1>11, Taken
    <2>2. CASE ev.type = "close"
        <3>1. ev.id \in Ids
            BY <2>1, <2>2, Parts
        <3> QED BY <1>2, <1>11, <2>1, <2>2, <3>1 DEF ReaderTakes, Unregister
    <2>3. CASE ev.type # "close"
        BY <1>1, <1>11, <2>1, <2>3 DEF ReaderTakes
    <2> QED BY <2>2, <2>3
<1>12. ASSUME NEW e \in Ends, ReaderConnects(e) PROVE More
    <2>1. reader[e].s \in Streams
        BY <1>0, <1>12, Parts DEF ReaderConnects
    <2> QED BY <1>12, <2>1 DEF ReaderConnects, Wire
<1>13. ASSUME NEW e \in Ends, ReaderEnds(e) PROVE Less
    BY <1>0, <1>13 DEF ReaderEnds
<1> HIDE DEF Less, More
<1>14. Less \/ More
    BY Actions, <1>3, <1>4, <1>5, <1>6, <1>7, <1>8, <1>9, <1>10, <1>11, <1>12, <1>13
<1> QED BY <1>14 DEF Less, More

\* The tasks of a stream are started once.
LEMMA PumpStep ==
    ASSUME IdsSuffice, Base, Next, NEW e \in Ends, NEW s \in Streams
    PROVE  pump[e][s] # "off" => pump'[e][s] # "off"
<1>0. pump \in [Ends -> [Streams -> {"off", "run", "shut"}]] /\ reader \in [Ends -> Jobs]
    BY DEF Base, Types, ControlTypes, ReaderTypes
<1>1. ASSUME NEW d \in Ends, NEW t \in Streams, NEW to \in {"run", "shut"},
             pump' = [pump EXCEPT ![d][t] = to]
      PROVE  pump[e][s] # "off" => pump'[e][s] # "off"
    BY <1>0, <1>1
<1> USE DEF streamVars
<1>2. CASE Request \/ CadenceTick \/ Break
    BY <1>2 DEF Request, CadenceTick, Break
<1>3. ASSUME NEW t \in Streams, SendOpen(t) \/ OpenFails(t) PROVE pump' = pump
    BY <1>3 DEF SendOpen, OpenFails
<1>4. ASSUME NEW t \in Streams, Register(t) PROVE pump[e][s] # "off" => pump'[e][s] # "off"
    BY <1>1, <1>4, EndParts DEF Register, Wire
<1>5. ASSUME NEW d \in Ends, NEW t \in Streams,
             \/ ReadChunk(d, t) \/ SourceFails(d, t) \/ SourceEnds(d, t) \/ UdpEnds(d, t)
             \/ SourceGone(d, t) \/ Give(d, t)
      PROVE  pump' = pump
    BY <1>5 DEF ReadChunk, SourceFails, SourceEnds, UdpEnds, SourceGone, Give
<1>6. ASSUME NEW d \in Ends, NEW t \in Streams, GiveFails(d, t) \/ Shutdown(d, t)
      PROVE  pump[e][s] # "off" => pump'[e][s] # "off"
    BY <1>1, <1>6 DEF GiveFails, Shutdown
<1>7. ASSUME NEW d \in Ends, \/ WriteEvent(d) \/ WriteNative(d) \/ LinkLost(d) \/ NativeLost(d)
                             \/ CatcherTakes(d) \/ CatcherHands(d)
      PROVE  pump' = pump
    BY <1>7 DEF WriteEvent, WriteNative, LinkLost, NativeLost, CatcherTakes, CatcherHands
<1>8. ASSUME NEW d \in Ends, \/ ReaderTakes(d) \/ ReaderRefused(d) \/ ReaderRefuses(d)
                             \/ ReaderHands(d) \/ ReaderEnds(d)
      PROVE  pump' = pump
    BY <1>8 DEF ReaderTakes, ReaderRefused, ReaderRefuses, ReaderHands, ReaderEnds
<1>9. ASSUME NEW d \in Ends, ReaderConnects(d) PROVE pump[e][s] # "off" => pump'[e][s] # "off"
    <2>1. reader[d].s \in Streams
        BY <1>0, <1>9, Parts DEF ReaderConnects
    <2> QED BY <1>1, <1>9, <2>1 DEF ReaderConnects, Wire
<1> QED BY Actions, <1>2, <1>3, <1>4, <1>5, <1>6, <1>7, <1>8, <1>9

LEMMA RegisteredKept == ASSUME IdsSuffice, Base, Next PROVE Registered'
<1>0. /\ Registered /\ registry \in [Ends -> [Ids -> Streams \cup {None}]]
      /\ pump \in [Ends -> [Streams -> {"off", "run", "shut"}]]
    BY DEF Base, Types, ControlTypes
<1> SUFFICES ASSUME NEW e \in Ends, NEW id \in Ids, registry'[e][id] # None
             PROVE  id = IdOf(registry'[e][id]) /\ pump'[e][registry'[e][id]] # "off"
    BY DEF Registered
<1>1. ASSUME registry'[e][id] = registry[e][id]
      PROVE  id = IdOf(registry'[e][id]) /\ pump'[e][registry'[e][id]] # "off"
    <2>1. /\ registry[e][id] \in Streams /\ id = IdOf(registry[e][id])
          /\ pump[e][registry[e][id]] # "off"
        BY <1>0, <1>1 DEF Registered
    <2> QED BY <1>1, <2>1, PumpStep
<1>2. ASSUME NEW d \in Ends, NEW s \in Streams,
             pump' = [pump EXCEPT ![d][s] = "run"], registry' = [registry EXCEPT ![d][IdOf(s)] = s]
      PROVE  id = IdOf(registry'[e][id]) /\ pump'[e][registry'[e][id]] # "off"
    <2>1. CASE e = d /\ id = IdOf(s)
        BY <1>0, <1>2, <2>1
    <2>2. CASE e # d \/ id # IdOf(s)
        BY <1>0, <1>1, <1>2, <2>2
    <2> QED BY <2>1, <2>2
<1> QED BY <1>1, <1>2, RegistryStep

LEMMA ReadersKept == ASSUME IdsSuffice, Base, Next PROVE ReaderTypes' /\ InHand'
<1>0. /\ reader \in [Ends -> Jobs] /\ catcher \in [Ends -> Jobs] /\ InHand
      /\ \A e \in Ends : catcher[e].pc \in {"recv", "deliver"}
    BY DEF Base, Types, ReaderTypes
<1>1. Tcp' = Tcp
    BY PlanFixed
\* One job changes at most, and the new one is as it should be.
<1> DEFINE GoodJob(e, j) ==
      /\ j \in Jobs
      /\ j.pc = "deliver" => pump[e][j.s] # "off" /\ j.chunk[1] = j.s
      /\ e = "client" => j.pc \notin {"connect", "refuse"}
           GoodCatch(j) ==
      /\ j \in Jobs /\ j.pc \in {"recv", "deliver"}
      /\ j.pc = "deliver" => j.s \notin Tcp /\ j.chunk[1] = j.s
<1>2. (\A e \in Ends : GoodJob(e, reader[e])) /\ (\A e \in Ends : GoodCatch(catcher[e]))
    BY <1>0, EndParts DEF InHand, Ends
<1>3. ASSUME \A e \in Ends : GoodJob(e, reader'[e]), \A e \in Ends : GoodCatch(catcher'[e]),
             reader' \in [Ends -> Jobs], catcher' \in [Ends -> Jobs]
      PROVE  ReaderTypes' /\ InHand'
    <2>1. ASSUME NEW e \in Ends, reader'[e].pc = "deliver"
          PROVE  pump'[e][reader'[e].s] # "off" /\ reader'[e].chunk[1] = reader'[e].s
        <3>1. reader'[e].s \in Streams
            BY <1>3, <2>1, Parts
        <3> QED BY <1>3, <2>1, <3>1, PumpStep
    <2>2. ASSUME NEW e \in Ends, catcher'[e].pc = "deliver"
          PROVE  catcher'[e].s \notin Tcp' /\ catcher'[e].chunk[1] = catcher'[e].s
        BY <1>1, <1>3, <2>2
    <2>3. reader'["client"].pc \notin {"connect", "refuse"}
        BY <1>3, EndParts
    <2>4. \A e \in Ends : catcher'[e].pc \in {"recv", "deliver"}
        BY <1>3
    <2> HIDE DEF GoodJob, GoodCatch
    <2> QED BY <1>3, <2>1, <2>2, <2>3, <2>4 DEF ReaderTypes, InHand
<1>4. ASSUME NEW d \in Ends, NEW j, GoodJob(d, j), reader' = [reader EXCEPT ![d] = j], catcher' = catcher
      PROVE  ReaderTypes' /\ InHand'
    <2>1. reader' \in [Ends -> Jobs] /\ catcher' \in [Ends -> Jobs]
        BY <1>0, <1>4
    <2>2. \A e \in Ends : reader'[e] = IF e = d THEN j ELSE reader[e]
        BY <1>0, <1>4
    <2> HIDE DEF GoodJob, GoodCatch
    <2>3. \A e \in Ends : GoodJob(e, reader'[e])
        BY <1>2, <1>4, <2>2
    <2> QED BY <1>2, <1>3, <1>4, <2>1, <2>3
<1>5. ASSUME NEW d \in Ends, NEW j, GoodCatch(j), catcher' = [catcher EXCEPT ![d] = j], reader' = reader
      PROVE  ReaderTypes' /\ InHand'
    <2>1. reader' \in [Ends -> Jobs] /\ catcher' \in [Ends -> Jobs]
        BY <1>0, <1>5
    <2>2. \A e \in Ends : catcher'[e] = IF e = d THEN j ELSE catcher[e]
        BY <1>0, <1>5
    <2> HIDE DEF GoodJob, GoodCatch
    <2>3. \A e \in Ends : GoodCatch(catcher'[e])
        BY <1>2, <1>5, <2>2
    <2> QED BY <1>2, <1>3, <1>5, <2>1, <2>3
<1>6. ASSUME reader' = reader, catcher' = catcher PROVE ReaderTypes' /\ InHand'
    <2> HIDE DEF GoodJob, GoodCatch
    <2> QED BY <1>0, <1>2, <1>3, <1>6
<1>7. (\A e \in Ends : GoodJob(e, Idle) /\ GoodJob(e, Done)) /\ GoodCatch(Idle)
    BY Parts
<1>8. \A s \in Streams : GoodJob("server", Connecting(s)) /\ GoodJob("server", Refusing(s))
    BY Parts
<1> USE DEF readerVars
<1>9. CASE Request \/ CadenceTick \/ Break
    BY <1>6, <1>9 DEF Request, CadenceTick, Break
<1>10. ASSUME NEW s \in Streams, SendOpen(s) \/ OpenFails(s) \/ Register(s) PROVE ReaderTypes' /\ InHand'
    BY <1>6, <1>10 DEF SendOpen, OpenFails, Register
<1>11. ASSUME NEW e \in Ends, NEW s \in Streams,
              \/ ReadChunk(e, s) \/ SourceFails(e, s) \/ SourceEnds(e, s) \/ UdpEnds(e, s)
              \/ SourceGone(e, s)
              \/ Give(e, s) \/ GiveFails(e, s) \/ Shutdown(e, s)
       PROVE  ReaderTypes' /\ InHand'
    BY <1>6, <1>11 DEF ReadChunk, SourceFails, SourceEnds, UdpEnds, SourceGone, Give, GiveFails, Shutdown
<1>12. ASSUME NEW e \in Ends, WriteEvent(e) \/ WriteNative(e) \/ LinkLost(e) \/ NativeLost(e)
       PROVE  ReaderTypes' /\ InHand'
    BY <1>6, <1>12 DEF WriteEvent, WriteNative, LinkLost, NativeLost
<1>13. ASSUME NEW e \in Ends, ReaderTakes(e) PROVE ReaderTypes' /\ InHand'
    <2>1. PICK ev : ev = Head(wire[Other(e)])
        OBVIOUS
    <2>2. GoodJob(e, After(e, ev))
        <3>1. CASE IsChunk(ev)
            <4>1. After(e, ev) = Routed(e, ev) /\ ev \in Events /\ Good(ev)
                BY <1>13, <2>1, <3>1, Taken
            <4>2. CASE registry[e][ev.id] = None
                <5>1. After(e, ev) = Idle
                    BY <3>1, <4>1, <4>2, Route
                <5> QED BY <1>7, <5>1
            <4>3. CASE registry[e][ev.id] # None
                <5>1. /\ After(e, ev) = Handing(ev.chunk[1], ev.chunk) /\ pump[e][ev.chunk[1]] # "off"
                      /\ ev.chunk[1] \in Streams /\ ev.chunk \in Chunks
                    BY <3>1, <4>1, <4>3, Route
                <5> QED BY <5>1, Parts
            <4> QED BY <4>2, <4>3
        <3>2. CASE ev.type = "open" /\ e = "server"
            <4>1. After(e, ev) = Connecting(ev.s) /\ ev \in Events
                BY <1>13, <2>1, <3>2, Taken
            <4>2. ev.s \in Streams
                BY <3>2, <4>1, Parts
            <4> QED BY <1>8, <3>2, <4>1, <4>2
        <3>3. CASE ev.type = "open" /\ e # "server"
            <4>1. After(e, ev) = Idle
                BY <1>13, <2>1, <3>3, Taken
            <4> QED BY <1>7, <4>1
        <3>4. CASE ev.type \notin {"open", "data", "datagram"}
            <4>1. After(e, ev) = Idle
                BY <1>13, <2>1, <3>4, Taken
            <4> QED BY <1>7, <4>1
        <3> HIDE DEF GoodJob
        <3> QED BY <3>1, <3>2, <3>3, <3>4 DEF IsChunk
    <2> HIDE DEF GoodJob
    <2>3. reader' = [reader EXCEPT ![e] = After(e, ev)] /\ catcher' = catcher
        BY <1>13, <2>1 DEF ReaderTakes
    <2> QED BY <1>4, <2>2, <2>3
<1>14. ASSUME NEW e \in Ends,
              ReaderConnects(e) \/ ReaderRefuses(e) \/ ReaderHands(e)
       PROVE  ReaderTypes' /\ InHand'
    <2>1. reader' = [reader EXCEPT ![e] = Idle] /\ catcher' = catcher
        BY <1>14 DEF ReaderConnects, ReaderRefuses, ReaderHands
    <2> HIDE DEF GoodJob
    <2> QED BY <1>4, <1>7, <2>1
<1>15. ASSUME NEW e \in Ends, ReaderEnds(e) PROVE ReaderTypes' /\ InHand'
    <2>1. reader' = [reader EXCEPT ![e] = Done] /\ catcher' = catcher
        BY <1>15 DEF ReaderEnds
    <2> HIDE DEF GoodJob
    <2> QED BY <1>4, <1>7, <2>1
<1>16. ASSUME NEW e \in Ends, ReaderRefused(e) PROVE ReaderTypes' /\ InHand'
    <2>1. reader[e].s \in Streams /\ e = "server"
        BY <1>0, <1>16, Parts DEF ReaderRefused, InHand, Ends
    <2>2. reader' = [reader EXCEPT ![e] = Refusing(reader[e].s)] /\ catcher' = catcher
        BY <1>16 DEF ReaderRefused
    <2>3. GoodJob(e, Refusing(reader[e].s))
        BY <1>8, <2>1
    <2> HIDE DEF GoodJob
    <2> QED BY <1>4, <2>2, <2>3
<1>17. ASSUME NEW e \in Ends, CatcherTakes(e) PROVE ReaderTypes' /\ InHand'
    <2>1. PICK ev \in net[Other(e)] :
              /\ ev \in Events /\ Good(ev) /\ ev.type = "datagram" /\ IsChunk(ev)
              /\ catcher' = [catcher EXCEPT ![e] = Routed(e, ev)]
        BY <1>17, Caught
    <2>2. GoodCatch(Routed(e, ev))
        <3>1. CASE registry[e][ev.id] = None
            <4>1. Routed(e, ev) = Idle
                BY <2>1, <3>1, Route
            <4> QED BY <1>7, <4>1
        <3>2. CASE registry[e][ev.id] # None
            <4>1. /\ Routed(e, ev) = Handing(ev.chunk[1], ev.chunk)
                  /\ ev.chunk[1] \in Streams /\ ev.chunk \in Chunks
                BY <2>1, <3>2, Route
            <4>2. ev.chunk[1] \notin Tcp
                BY <2>1 DEF Good
            <4> QED BY <4>1, <4>2, Parts
        <3> QED BY <3>1, <3>2
    <2>3. reader' = reader
        BY <1>17 DEF CatcherTakes
    <2> HIDE DEF GoodCatch
    <2> QED BY <1>5, <2>1, <2>2, <2>3
<1>18. ASSUME NEW e \in Ends, CatcherHands(e) PROVE ReaderTypes' /\ InHand'
    <2>1. catcher' = [catcher EXCEPT ![e] = Idle] /\ reader' = reader
        BY <1>18 DEF CatcherHands
    <2> HIDE DEF GoodCatch
    <2> QED BY <1>5, <1>7, <2>1
<1> QED BY Actions, <1>9, <1>10, <1>11, <1>12, <1>13, <1>14, <1>15, <1>16, <1>17, <1>18

\* The stages of the two ends, and the tasks.
LEMMA StagedKept == ASSUME IdsSuffice, Base, Next PROVE Staged'
<1>0. /\ Staged /\ opened \in Nat /\ reader \in [Ends -> Jobs] /\ InHand
      /\ stage \in [Ends -> [Streams -> {"none", "opening", "sent", "wired", "refused"}]]
      /\ pump \in [Ends -> [Streams -> {"off", "run", "shut"}]]
      /\ source \in [Ends -> [Streams -> {"off", "read", "closing", "done"}]]
      /\ taken \in [Ends -> [Streams -> Nat]]
    BY DEF Base, Types, ControlTypes, ReaderTypes
<1>1. ASSUME UNCHANGED <<opened, stage, pump, source, taken>> PROVE Staged'
    BY <1>0, <1>1 DEF Staged
<1> USE DEF streamVars
<1>2. CASE Request
    <2>1. opened + 1 \in Streams /\ stage["client"][opened + 1] = "none"
        <3>1. opened + 1 \in Streams
            BY <1>2, PlanParts DEF Request, Base, Types, ControlTypes
        <3> QED BY <1>0, <3>1, EndParts DEF Staged
    <2>2. pump["client"][opened + 1] = "off"
        BY <1>0, <2>1, EndParts DEF Staged
    <2>3. PICK s \in Streams : s = opened + 1
        BY <2>1
    <2>4. /\ opened' = s /\ stage' = [stage EXCEPT !["client"][s] = "opening"]
          /\ UNCHANGED <<pump, source, taken>>
        BY <1>2, <2>3 DEF Request
    <2> QED BY <1>0, <2>1, <2>2, <2>3, <2>4, EndParts DEF Staged, Streams
<1>3. CASE CadenceTick \/ Break
    BY <1>1, <1>3 DEF CadenceTick, Break
<1>4. ASSUME NEW s \in Streams, SendOpen(s) \/ OpenFails(s) PROVE Staged'
    <2>1. PICK to \in {"sent", "refused"} : stage' = [stage EXCEPT !["client"][s] = to]
        BY <1>4 DEF SendOpen, OpenFails
    <2>2. /\ stage["client"][s] = "opening" /\ pump["client"][s] = "off"
          /\ UNCHANGED <<opened, pump, source, taken>>
        BY <1>0, <1>4, EndParts DEF SendOpen, OpenFails, Staged
    <2> QED BY <1>0, <2>1, <2>2, EndParts DEF Staged
<1>5. ASSUME NEW e \in Ends, NEW s \in Streams, Wire(e, s), UNCHANGED <<opened, taken>>,
             e = "client" => stage["client"][s] # "none"
      PROVE  Staged'
    <2>1. /\ stage' = [stage EXCEPT ![e][s] = "wired"] /\ pump' = [pump EXCEPT ![e][s] = "run"]
          /\ source' = [source EXCEPT ![e][s] = "read"]
        BY <1>5 DEF Wire
    <2> QED BY <1>0, <1>5, <2>1, EndParts DEF Staged
<1>6. ASSUME NEW s \in Streams, Register(s) PROVE Staged'
    BY <1>5, <1>6, EndParts DEF Register
<1>7. ASSUME NEW e \in Ends, NEW s \in Streams, ReadChunk(e, s) PROVE Staged'
    <2>1. /\ taken' = [taken EXCEPT ![e][s] = taken[e][s] + 1] /\ source[e][s] # "off"
          /\ UNCHANGED <<opened, stage, pump, source>>
        BY <1>7 DEF ReadChunk
    <2> QED BY <1>0, <2>1 DEF Staged
<1>8. ASSUME NEW e \in Ends, NEW s \in Streams,
             SourceFails(e, s) \/ SourceEnds(e, s) \/ UdpEnds(e, s) \/ SourceGone(e, s)
      PROVE  Staged'
    <2>1. PICK to \in {"closing", "done"} :
              /\ source' = [source EXCEPT ![e][s] = to] /\ source[e][s] # "off"
              /\ UNCHANGED <<opened, stage, pump, taken>>
        BY <1>8 DEF SourceFails, SourceEnds, UdpEnds, SourceGone
    <2> QED BY <1>0, <2>1 DEF Staged
<1>9. ASSUME NEW e \in Ends, NEW s \in Streams, Give(e, s) PROVE Staged'
    BY <1>1, <1>9 DEF Give
<1>10. ASSUME NEW e \in Ends, NEW s \in Streams, GiveFails(e, s) \/ Shutdown(e, s) PROVE Staged'
    <2>1. /\ pump' = [pump EXCEPT ![e][s] = "shut"] /\ pump[e][s] = "run"
          /\ UNCHANGED <<opened, stage, source, taken>>
        BY <1>10 DEF GiveFails, Shutdown
    <2> QED BY <1>0, <2>1 DEF Staged
<1>11. ASSUME NEW e \in Ends, \/ WriteEvent(e) \/ WriteNative(e) \/ LinkLost(e) \/ NativeLost(e)
                              \/ CatcherTakes(e) \/ CatcherHands(e)
       PROVE  Staged'
    BY <1>1, <1>11 DEF WriteEvent, WriteNative, LinkLost, NativeLost, CatcherTakes, CatcherHands
<1>12. ASSUME NEW e \in Ends, ReaderTakes(e) \/ ReaderRefuses(e) \/ ReaderHands(e) \/ ReaderEnds(e)
       PROVE  Staged'
    BY <1>1, <1>12 DEF ReaderTakes, ReaderRefuses, ReaderHands, ReaderEnds
<1>13. ASSUME NEW e \in Ends, ReaderConnects(e) PROVE Staged'
    <2>1. reader[e].s \in Streams /\ e # "client"
        BY <1>0, <1>13, Parts DEF ReaderConnects, InHand
    <2> QED BY <1>5, <1>13, <2>1 DEF ReaderConnects
<1>14. ASSUME NEW e \in Ends, ReaderRefused(e) PROVE Staged'
    <2>1. PICK s \in Streams : s = reader[e].s
        BY <1>0, <1>14, Parts DEF ReaderRefused
    <2>2. /\ e # "client" /\ stage' = [stage EXCEPT ![e][s] = "refused"]
          /\ UNCHANGED <<opened, pump, source, taken>>
        BY <1>0, <1>14, <2>1 DEF ReaderRefused, InHand
    <2> QED BY <1>0, <2>1, <2>2 DEF Staged
<1> QED BY Actions, <1>2, <1>3, <1>4, <1>6, <1>7, <1>8, <1>9, <1>10, <1>11, <1>12, <1>13, <1>14

LEMMA BaseKept == ASSUME IdsSuffice, Base, Next PROVE Base'
BY ControlKept, FlagsKept, QueuesKept, SinksKept, ReadersKept, RegisteredKept, StagedKept
   DEF Base, Types

-----------------------------------------------------------------------------
(* The way out of a socket and over the carrier *)

\* What the events of the program are to a stream.
LEMMA EventsOf ==
    ASSUME IdsSuffice, NEW s \in Streams
    PROVE  /\ ~Of(KeepAlive, s)
           /\ \A t \in Streams :
                 /\ ~Of(CloseEvent(t), s) /\ (Of(OpenEvent(t), s) <=> t = s)
                 /\ Place(OpenEvent(t)) = 1
           /\ \A t \in Streams : \A k \in Nat :
                 (Of(ChunkEvent(t, k), s) <=> t = s) /\ Place(ChunkEvent(t, k)) = k + 1
           /\ \A ev \in Datagrams : s \in Tcp => ~Of(ev, s)
<1>1. ~Of(KeepAlive, s)
    BY EventParts DEF Of
<1>2. ASSUME NEW t \in Streams
      PROVE  /\ ~Of(CloseEvent(t), s) /\ (Of(OpenEvent(t), s) <=> t = s)
             /\ Place(OpenEvent(t)) = 1
    BY EventParts DEF Of, IsChunk, Place
<1>3. ASSUME NEW t \in Streams, NEW k \in Nat
      PROVE  (Of(ChunkEvent(t, k), s) <=> t = s) /\ Place(ChunkEvent(t, k)) = k + 1
    <2>1. /\ ChunkEvent(t, k).chunk = <<t, k>> /\ IsChunk(ChunkEvent(t, k))
          /\ ChunkEvent(t, k).type # "open"
        BY EventParts DEF IsChunk
    <2> QED BY <2>1 DEF Of, Place
<1>4. \A ev \in Datagrams : s \in Tcp => ~Of(ev, s)
    BY DEF Datagrams, GoodEvents, Good, Of, IsChunk
<1> QED BY <1>1, <1>2, <1>3, <1>4

LEMMA SentParts ==
    ASSUME Base, NEW o \in Ends, NEW s \in Streams
    PROVE  Sent(o, s) \in Nat /\ out[o] \in Seq(Events) /\ wire[o] \in Seq(Events)
<1>1. out[o] \in Seq(GoodEvents) /\ wire[o] \in Seq(GoodEvents) /\ GoodEvents \subseteq Events
    BY DEF Base, Types, QueueTypes, GoodEvents
<1>2. out[o] \in Seq(Events) /\ wire[o] \in Seq(Events)
    BY <1>1, SeqMonotonic
<1>3. Sent(o, s) \in Nat
    BY DEF Sent, Base, Types, ControlTypes
<1> QED BY <1>2, <1>3

LEMMA SentSame ==
    ASSUME NEW o, NEW s, taken'[o][s] = taken[o][s],
           stage'["client"][s] \in {"sent", "wired"} <=> stage["client"][s] \in {"sent", "wired"}
    PROVE  Sent(o, s)' = Sent(o, s)
BY DEF Sent

LEMMA CarriedSame ==
    ASSUME NEW o, NEW s, NEW m, NEW n, Carried(o, s, m, n), wire'[o] = wire[o], out'[o] = out[o],
           Sent(o, s)' = Sent(o, s), broken => broken'
    PROVE  Carried(o, s, m, n)'
BY DEF Carried

\* An event is queued: it is the stream's next, or not of the stream.
LEMMA CarriedQueue ==
    ASSUME Base, NEW o \in Ends, NEW s \in Streams, NEW m \in Nat, NEW n \in Nat,
           Carried(o, s, m, n), NEW ev \in Events,
           out'[o] = Append(out[o], ev), wire'[o] = wire[o], broken' = broken,
           \/ ~Of(ev, s) /\ Sent(o, s)' = Sent(o, s)
           \/ Of(ev, s) /\ Place(ev) = Sent(o, s) + 1 /\ Sent(o, s)' = Sent(o, s) + 1
    PROVE  Carried(o, s, m, n)'
<1>1. Sent(o, s) \in Nat /\ out[o] \in Seq(Events)
    BY SentParts
<1>2. Counts(wire'[o], s, m, n) /\ n <= Sent(o, s)'
    BY <1>1 DEF Carried
<1>3. ASSUME ~broken PROVE Counts(Append(out[o], ev), s, n, Sent(o, s)')
    <2>1. Counts(out[o], s, n, Sent(o, s))
        BY <1>3 DEF Carried
    <2> QED BY <1>1, <2>1, CountsAppend
<1> QED BY <1>2, <1>3 DEF Carried

\* What the step of one action does to the way from o, unless the other end reads.
LEMMA CarriedStep ==
    ASSUME IdsSuffice, Base, Next, NEW o \in Ends, NEW s \in Tcp, NEW m \in Nat, NEW n \in Nat,
           Carried(o, s, m, n), ~ReaderTakes(Other(o)), ~ReaderEnds(Other(o))
    PROVE  \E k \in Nat : Carried(o, s, m, k)'
<1>0. /\ s \in Streams /\ Staged /\ InHand /\ reader \in [Ends -> Jobs]
      /\ stage \in [Ends -> [Streams -> {"none", "opening", "sent", "wired", "refused"}]]
      /\ taken \in [Ends -> [Streams -> Nat]]
      /\ out \in [Ends -> Seq(GoodEvents)] /\ wire \in [Ends -> Seq(GoodEvents)]
    BY PlanParts DEF Base, Types, ControlTypes, ReaderTypes, QueueTypes
<1> DEFINE Goal == \E k \in Nat : Carried(o, s, m, k)'
<1>1. ASSUME UNCHANGED <<out, wire, broken, taken, stage>> PROVE Goal
    BY <1>1, SentSame, CarriedSame
<1>2. ASSUME NEW d \in Ends, NEW ev \in GoodEvents, Queue(d, ev), ~Of(ev, s),
             UNCHANGED <<wire, broken, taken, stage>>
      PROVE  Goal
    <2>1. Sent(o, s)' = Sent(o, s) /\ ev \in Events
        BY <1>2, SentSame DEF GoodEvents
    <2>2. CASE d = o
        <3>1. out'[o] = Append(out[o], ev)
            BY <1>0, <1>2, <2>2 DEF Queue
        <3> QED BY <1>0, <1>2, <2>1, <3>1, CarriedQueue
    <2>3. CASE d # o
        <3>1. out'[o] = out[o]
            BY <1>0, <1>2, <2>3 DEF Queue
        <3> QED BY <1>2, <2>1, <3>1, CarriedSame
    <2> QED BY <2>2, <2>3
<1>3. ASSUME NEW t \in Streams, NEW to \in {"opening", "sent", "wired", "refused"},
             stage' = [stage EXCEPT !["client"][t] = to],
             stage["client"][t] \in {"sent", "wired"} <=> to \in {"sent", "wired"},
             UNCHANGED <<out, wire, broken, taken>>
      PROVE  Goal
    <2>1. stage'["client"][s] \in {"sent", "wired"} <=> stage["client"][s] \in {"sent", "wired"}
        BY <1>0, <1>3, EndParts
    <2>2. Sent(o, s)' = Sent(o, s)
        BY <1>3, <2>1, SentSame
    <2> QED BY <1>3, <2>2, CarriedSame
<1>4. ASSUME Request PROVE Goal
    <2>1. opened + 1 \in Streams /\ stage["client"][opened + 1] = "none"
        <3>1. opened + 1 \in Streams /\ opened \in Nat
            BY <1>4, PlanParts DEF Request, Base, Types, ControlTypes
        <3> QED BY <1>0, <3>1, EndParts DEF Staged
    <2>2. PICK t \in Streams : t = opened + 1
        BY <2>1
    <2> QED BY <1>3, <1>4, <2>1, <2>2 DEF Request, queueVars, fixed
<1>5. ASSUME CadenceTick PROVE Goal
    <2>1. CASE activity
        BY <1>1, <1>5, <2>1 DEF CadenceTick, fixed
    <2>2. CASE ~activity
        BY <1>0, <1>2, <1>5, <2>2, EventsOf, GoodParts, EndParts DEF CadenceTick, fixed
    <2> QED BY <2>1, <2>2
<1>6. ASSUME Break PROVE Goal
    <2>1. Sent(o, s)' = Sent(o, s)
        BY <1>6, SentSame DEF Break
    <2> QED BY <1>6, <2>1, CarriedSame DEF Break, queueVars
<1>7. ASSUME NEW t \in Streams, SendOpen(t) PROVE Goal
    <2>1. /\ stage["client"][t] = "opening" /\ stage' = [stage EXCEPT !["client"][t] = "sent"]
          /\ out' = [out EXCEPT !["client"] = Append(out["client"], OpenEvent(t))]
          /\ UNCHANGED <<wire, broken, taken>>
        BY <1>7 DEF SendOpen, Queue, fixed
    <2>2. CASE o = "client"
        <3>1. out'[o] = Append(out[o], OpenEvent(t)) /\ OpenEvent(t) \in Events
            BY <1>0, <2>1, <2>2, EventParts
        <3>2. CASE t = s
            <4>1. Sent(o, s) = 0
                BY <2>1, <2>2, <3>2 DEF Sent
            <4>2. taken["client"][s] = 0
                <5>1. pump["client"][s] = "off"
                    BY <1>0, <2>1, <3>2, EndParts DEF Staged
                <5> QED BY <1>0, <5>1, EndParts, SMTT(30) DEF Staged
            <4>3. Sent(o, s)' = 1
                <5>1. stage'["client"][s] = "sent" /\ taken' = taken
                    BY <1>0, <2>1, <3>2, EndParts
                <5> QED BY <2>2, <4>2, <5>1 DEF Sent
            <4>4. /\ Of(OpenEvent(t), s) /\ Place(OpenEvent(t)) = Sent(o, s) + 1
                  /\ Sent(o, s)' = Sent(o, s) + 1
                BY <1>0, <3>2, <4>1, <4>3, EventsOf
            <4> QED BY <1>0, <2>1, <3>1, <4>4, CarriedQueue
        <3>3. CASE t # s
            <4>1. stage'["client"][s] = stage["client"][s]
                BY <1>0, <2>1, <3>3, EndParts
            <4>2. Sent(o, s)' = Sent(o, s)
                BY <2>1, <4>1, SentSame
            <4> QED BY <1>0, <2>1, <3>1, <3>3, <4>2, EventsOf, CarriedQueue
        <3> QED BY <3>2, <3>3
    <2>3. CASE o # "client"
        <3>1. out'[o] = out[o] /\ Sent(o, s)' = Sent(o, s)
            BY <1>0, <2>1, <2>3 DEF Sent
        <3> QED BY <2>1, <3>1, CarriedSame
    <2> QED BY <2>2, <2>3
<1>8. ASSUME NEW t \in Streams, OpenFails(t) PROVE Goal
    BY <1>3, <1>8 DEF OpenFails, queueVars, fixed
<1>9. ASSUME NEW t \in Streams, Register(t) PROVE Goal
    BY <1>3, <1>9 DEF Register, Wire, queueVars, fixed
<1>10. ASSUME NEW d \in Ends, NEW t \in Streams, ReadChunk(d, t) PROVE Goal
    <2> DEFINE k == taken[d][t] + 1
               ev == ChunkEvent(t, k)
    <2>1. /\ k \in Nat /\ taken' = [taken EXCEPT ![d][t] = k]
          /\ out' = [out EXCEPT ![d] = Append(out[d], ev)]
          /\ UNCHANGED <<wire, broken, stage>>
        BY <1>0, <1>10 DEF ReadChunk, Queue, fixed
    <2>2. ev \in Events /\ (Of(ev, s) <=> t = s) /\ Place(ev) = k + 1
        BY <1>0, <2>1, EventParts, EventsOf, ZenonT(40)
    <2> HIDE DEF ev
    <2>3. CASE d = o /\ t = s
        <3>1. d = "client" => stage["client"][s] = "wired"
            BY <1>0, <1>10, <2>3 DEF ReadChunk, Staged
        <3>2. taken'[o][s] = k
            BY <1>0, <2>1, <2>3
        <3>3. Sent(o, s) = k /\ Sent(o, s)' = k + 1
            <4>1. stage' = stage
                BY <2>1
            <4> QED BY <2>1, <2>3, <3>1, <3>2, <4>1 DEF Sent
        <3>4. out'[o] = Append(out[o], ev)
            BY <1>0, <2>1, <2>3
        <3> QED BY <1>0, <2>1, <2>2, <2>3, <3>3, <3>4, CarriedQueue
    <2>4. CASE d = o /\ t # s
        <3>1. taken'[o][s] = taken[o][s] /\ stage' = stage /\ out'[o] = Append(out[o], ev)
            BY <1>0, <2>1, <2>4
        <3>2. Sent(o, s)' = Sent(o, s)
            BY <3>1, SentSame
        <3> QED BY <1>0, <2>1, <2>2, <2>4, <3>1, <3>2, CarriedQueue
    <2>5. CASE d # o
        <3>1. taken'[o][s] = taken[o][s] /\ stage' = stage /\ out'[o] = out[o]
            BY <1>0, <2>1, <2>5
        <3>2. Sent(o, s)' = Sent(o, s)
            BY <3>1, SentSame
        <3> QED BY <2>1, <3>1, <3>2, CarriedSame
    <2> QED BY <2>3, <2>4, <2>5
<1>11. ASSUME NEW d \in Ends, NEW t \in Streams, SourceEnds(d, t) PROVE Goal
    <2>1. UNCHANGED <<wire, broken, taken, stage>>
        BY <1>11 DEF SourceEnds, fixed
    <2>2. CASE Queue(d, CloseEvent(t))
        BY <1>0, <1>2, <2>1, <2>2, GoodParts, EventsOf
    <2>3. CASE UNCHANGED out
        BY <1>1, <2>1, <2>3
    <2> QED BY <1>11, <2>2, <2>3 DEF SourceEnds
<1>12. ASSUME NEW d \in Ends, NEW t \in Streams,
              \/ SourceFails(d, t) \/ UdpEnds(d, t) \/ SourceGone(d, t)
              \/ Give(d, t) \/ GiveFails(d, t) \/ Shutdown(d, t)
       PROVE  Goal
    BY <1>1, <1>12 DEF SourceFails, UdpEnds, SourceGone, Give, GiveFails, Shutdown, queueVars, fixed
<1>13. ASSUME NEW d \in Ends, LinkLost(d) \/ NativeLost(d) \/ CatcherTakes(d) \/ CatcherHands(d)
       PROVE  Goal
    BY <1>1, <1>13 DEF LinkLost, NativeLost, CatcherTakes, CatcherHands, queueVars, fixed
<1>14. ASSUME NEW d \in Ends, WriteEvent(d) PROVE Goal
    <2>1. UNCHANGED <<broken, taken, stage>> /\ Sent(o, s)' = Sent(o, s)
        BY <1>14, SentSame DEF WriteEvent, fixed
    <2>2. CASE d # o
        <3>1. wire'[o] = wire[o] /\ out'[o] = out[o]
            BY <1>0, <1>14, <2>2 DEF WriteEvent, Written
        <3> QED BY <2>1, <3>1, CarriedSame
    <2>3. CASE d = o /\ broken
        <3>1. wire' = wire
            BY <1>14, <2>3 DEF WriteEvent
        <3> QED BY <2>1, <2>3, <3>1 DEF Carried
    <2>4. CASE d = o /\ ~broken
        <3> DEFINE h == Head(out[o])
        <3>1. /\ wire' = [wire EXCEPT ![o] = Append(wire[o], h)]
              /\ out' = [out EXCEPT ![o] = Tail(out[o])] /\ out[o] # <<>>
            BY <1>14, <2>4 DEF WriteEvent, Written
        <3>2. /\ wire'[o] = Append(wire[o], h) /\ out'[o] = Tail(out[o])
              /\ out[o] \in Seq(Events) /\ wire[o] \in Seq(Events) /\ Sent(o, s) \in Nat
            BY <1>0, <3>1, SentParts
        <3>3. h \in Events
            BY <3>1, <3>2, HeadTailProperties
        <3>4. Counts(wire[o], s, m, n) /\ n <= Sent(o, s) /\ Counts(out[o], s, n, Sent(o, s))
            BY <2>4 DEF Carried
        <3> HIDE DEF h
        <3>5. CASE Of(h, s)
            <4>1. Place(h) = n + 1 /\ Counts(Tail(out[o]), s, n + 1, Sent(o, s))
                BY <1>0, <3>1, <3>2, <3>4, <3>5, CountsTail DEF h
            <4>2. Tail(out[o]) \in Seq(Events)
                BY <3>1, <3>2, HeadTailProperties
            <4>3. n + 1 <= Sent(o, s)
                <5>1. n + 1 \in Nat
                    OBVIOUS
                <5> QED BY <1>0, <3>2, <4>1, <4>2, <5>1, CountsOrder
            <4>4. Counts(Append(wire[o], h), s, m, n + 1)
                BY <1>0, <3>2, <3>3, <3>4, <3>5, <4>1, CountsAppend
            <4>5. Carried(o, s, m, n + 1)'
                BY <2>1, <3>2, <4>1, <4>3, <4>4 DEF Carried
            <4> QED BY <4>5
        <3>6. CASE ~Of(h, s)
            <4>1. Counts(Tail(out[o]), s, n, Sent(o, s))
                BY <1>0, <3>1, <3>2, <3>4, <3>6, CountsTail DEF h
            <4>2. Counts(Append(wire[o], h), s, m, n)
                BY <1>0, <3>2, <3>3, <3>4, <3>6, CountsAppend
            <4>3. Carried(o, s, m, n)'
                BY <2>1, <3>2, <3>4, <4>1, <4>2 DEF Carried
            <4> QED BY <4>3
        <3> QED BY <3>5, <3>6
    <2> QED BY <2>2, <2>3, <2>4
<1>15. ASSUME NEW d \in Ends, WriteNative(d) PROVE Goal
    <2>1. UNCHANGED <<broken, taken, stage, wire>> /\ Sent(o, s)' = Sent(o, s)
        BY <1>15, SentSame DEF WriteNative, fixed
    <2>2. CASE d # o
        <3>1. out'[o] = out[o]
            BY <1>0, <1>15, <2>2 DEF WriteNative
        <3> QED BY <2>1, <3>1, CarriedSame
    <2>3. CASE d = o
        <3>1. /\ out' = [out EXCEPT ![o] = Tail(out[o])] /\ out[o] # <<>>
              /\ Head(out[o]).type = "datagram"
            BY <1>15, <2>3 DEF WriteNative
        <3>2. /\ out'[o] = Tail(out[o]) /\ out[o] \in Seq(Events) /\ Sent(o, s) \in Nat
              /\ wire'[o] = wire[o]
            BY <1>0, <2>1, <3>1, SentParts
        <3>3. Head(out[o]) \in Datagrams
            BY <1>0, <3>1, HeadTailProperties DEF Datagrams
        <3>4. ~Of(Head(out[o]), s)
            BY <1>0, <3>3, EventsOf
        <3>5. ~broken => Counts(Tail(out[o]), s, n, Sent(o, s))
            BY <1>0, <3>1, <3>2, <3>4, CountsTail DEF Carried
        <3> QED BY <2>1, <3>2, <3>5 DEF Carried
    <2> QED BY <2>2, <2>3
<1>16. ASSUME NEW d \in Ends, ReaderTakes(d) \/ ReaderEnds(d) PROVE Goal
    <2>1. Other(d) # o
        BY <1>16, EndParts
    <2>2. /\ wire'[o] = wire[o] /\ out' = out
          /\ UNCHANGED <<broken, taken, stage>> /\ Sent(o, s)' = Sent(o, s)
        BY <1>0, <1>16, <2>1, SentSame DEF ReaderTakes, ReaderEnds, fixed
    <2> QED BY <2>2, CarriedSame
<1>17. ASSUME NEW d \in Ends, ReaderRefuses(d) PROVE Goal
    <2>1. UNCHANGED <<wire, broken, taken, stage>> /\ reader[d].s \in Streams
        BY <1>0, <1>17, Parts DEF ReaderRefuses, fixed
    <2>2. CASE Queue(d, CloseEvent(reader[d].s))
        <3>1. PICK t \in Streams : t = reader[d].s
            BY <2>1
        <3>2. CloseEvent(t) \in GoodEvents /\ ~Of(CloseEvent(t), s) /\ Queue(d, CloseEvent(t))
            BY <1>0, <2>2, <3>1, GoodParts, EventsOf
        <3> HIDE DEF Goal
        <3> QED BY <1>2, <2>1, <3>2
    <2>3. CASE UNCHANGED out
        BY <1>1, <2>1, <2>3
    <2> QED BY <1>17, <2>2, <2>3 DEF ReaderRefuses
<1>18. ASSUME NEW d \in Ends, ReaderHands(d) PROVE Goal
    BY <1>1, <1>18 DEF ReaderHands, queueVars, fixed
<1>19. ASSUME NEW d \in Ends, ReaderConnects(d) \/ ReaderRefused(d) PROVE Goal
    <2>1. d # "client"
        BY <1>0, <1>19 DEF ReaderConnects, ReaderRefused, InHand
    <2>2. stage'["client"] = stage["client"] /\ UNCHANGED <<wire, out, broken, taken>>
        BY <1>0, <1>19, <2>1, EndParts DEF ReaderConnects, ReaderRefused, Wire, queueVars, fixed
    <2>3. Sent(o, s)' = Sent(o, s)
        BY <2>2, SentSame
    <2> QED BY <2>2, <2>3, CarriedSame
<1> HIDE DEF Goal
<1>20. Goal
    BY Actions, <1>4, <1>5, <1>6, <1>7, <1>8, <1>9, <1>10, <1>11, <1>12, <1>13, <1>14, <1>15,
       <1>16, <1>17, <1>18, <1>19
<1> QED BY <1>20 DEF Goal

-----------------------------------------------------------------------------
(* The way from the reader into a socket *)

\* Nothing of the stream changes at this end, except that it may lose its registration.
LEMMA ReachedSame ==
    ASSUME NEW e \in Ends, NEW s \in Streams, NEW m \in Nat, NEW f \in Nat, Reached(e, s, m, f),
           got'[e][s] = got[e][s], sink'[e][s] = sink[e][s], pump'[e][s] = pump[e][s],
           e = "server" => stage'[e][s] = stage[e][s],
           registry'[e][IdOf(s)] = s => registry[e][IdOf(s)] = s,
           Handed(e, s)' <=> Handed(e, s),
           Handed(e, s) => reader'[e].chunk = reader[e].chunk,
           reader'[e].pc = "connect" /\ reader'[e].s = s => reader[e].pc = "connect" /\ reader[e].s = s,
           s \in early => s \in early'
    PROVE  Reached(e, s, m, f)'
<1>1. Run(got'[e][s], s, f) /\ Run(sink'[e][s], s, f + Len(got'[e][s]))
    BY DEF Reached
<1>2. Arrived(e, s)' = Arrived(e, s)
    BY DEF Arrived
<1>3. /\ e = "server" \/ s \notin early' => f = 0
      /\ pump'[e][s] = "off" => got'[e][s] = <<>> /\ sink'[e][s] = <<>>
      /\ e = "client" => m >= 1
      /\ e = "client" /\ pump'[e][s] = "off" /\ s \notin early' => m = 1
      /\ e = "server" /\ stage'[e][s] # "none" => m >= 1
    BY DEF Reached
<1>4. e = "server" /\ reader'[e].pc = "connect" /\ reader'[e].s = s => m = 1 /\ stage'[e][s] = "none"
    BY DEF Reached
<1>5. /\ pump'[e][s] = "run" /\ registry'[e][IdOf(s)] = s /\ ~Handed(e, s)' => f + Arrived(e, s)' = m - 1
      /\ Handed(e, s)' => reader'[e].chunk = <<s, m - 1>>
      /\ Handed(e, s)' /\ pump'[e][s] = "run" => f + Arrived(e, s)' = m - 2
    BY <1>2 DEF Reached
<1> QED BY <1>1, <1>3, <1>4, <1>5 DEF Reached

\* A chunk is put into a sink, and is the stream's next.
LEMMA RunAppend ==
    ASSUME NEW q \in Seq(Chunks), NEW s, NEW f \in Nat, Run(q, s, f)
    PROVE  Run(Append(q, <<s, f + Len(q) + 1>>), s, f)
<1>1. Len(q) \in Nat
    BY LenProperties
<1>2. ASSUME NEW c, c = <<s, f + Len(q) + 1>>, NEW i \in 1..Len(Append(q, c))
      PROVE  Append(q, c)[i] = <<s, f + i>>
    <2>1. Len(Append(q, c)) = Len(q) + 1
        OBVIOUS
    <2>2. CASE i = Len(q) + 1
        BY <1>1, <1>2, <2>2
    <2>3. CASE i \in 1..Len(q)
        BY <1>1, <2>3 DEF Run
    <2> QED BY <1>1, <2>1, <2>2, <2>3
<1> QED BY <1>2 DEF Run

\* The head of a sink, and the rest.
LEMMA RunTail ==
    ASSUME NEW q \in Seq(Chunks), q # <<>>, NEW s, NEW f \in Nat, Run(q, s, f)
    PROVE  Head(q) = <<s, f + 1>> /\ Run(Tail(q), s, f + 1)
<1>1. /\ Len(q) \in Nat \ {0} /\ Len(Tail(q)) = Len(q) - 1 /\ Head(q) = q[1]
      /\ \A i \in 1..Len(Tail(q)) : Tail(q)[i] = q[i + 1]
    BY HeadTailProperties, LenProperties, EmptySeq
<1>2. Head(q) = <<s, f + 1>>
    BY <1>1 DEF Run
<1>3. ASSUME NEW i \in 1..Len(Tail(q)) PROVE Tail(q)[i] = <<s, (f + 1) + i>>
    <2>1. i + 1 \in 1..Len(q) /\ f + (i + 1) = (f + 1) + i /\ Tail(q)[i] = q[i + 1]
        BY <1>1
    <2> QED BY <2>1 DEF Run
<1> QED BY <1>2, <1>3 DEF Run

\* The stream's own tasks take one chunk, or give up.
LEMMA ReachedGive ==
    ASSUME Base, NEW e \in Ends, NEW s \in Streams, NEW m \in Nat, NEW f \in Nat,
           Reached(e, s, m, f), Give(e, s)
    PROVE  Reached(e, s, m, f)'
<1> DEFINE q == sink[e][s]
           g == got[e][s]
<1>1. /\ q \in Seq(Chunks) /\ g \in Seq(Chunks) /\ q # <<>>
      /\ sink'[e][s] = Tail(q) /\ got'[e][s] = Append(g, Head(q))
    BY DEF Base, Types, SinkTypes, Give
<1>2. Run(g, s, f) /\ Run(q, s, f + Len(g)) /\ pump[e][s] = "run"
    BY DEF Reached, Give
<1>3. Arrived(e, s) = Len(g) + Len(q) /\ Arrived(e, s)' = Len(got'[e][s]) + Len(sink'[e][s])
    BY DEF Arrived
<1> HIDE DEF q, g
<1>4. /\ Len(g) \in Nat /\ Len(q) \in Nat /\ Len(Append(g, Head(q))) = Len(g) + 1
      /\ Len(Tail(q)) = Len(q) - 1
    BY <1>1, HeadTailProperties, LenProperties, AppendProperties
<1>5. f + Len(g) \in Nat /\ f + (Len(g) + 1) = (f + Len(g)) + 1
    BY <1>4
<1>6. Head(q) = <<s, (f + Len(g)) + 1>> /\ Run(Tail(q), s, (f + Len(g)) + 1)
    BY <1>1, <1>2, <1>5, RunTail
<1>7. Run(Append(g, Head(q)), s, f)
    BY <1>1, <1>2, <1>6, RunAppend
<1>8. Arrived(e, s)' = Arrived(e, s)
    BY <1>1, <1>3, <1>4
<1>9. Run(got'[e][s], s, f) /\ Run(sink'[e][s], s, f + Len(got'[e][s]))
    BY <1>1, <1>4, <1>5, <1>6, <1>7
<1>10. UNCHANGED <<stage, pump, registry, reader, early>> /\ (Handed(e, s)' <=> Handed(e, s))
    BY DEF Give, readerVars, fixed, Handed
<1> QED BY <1>2, <1>8, <1>9, <1>10 DEF Reached

LEMMA ReachedShut ==
    ASSUME Base, NEW e \in Ends, NEW s \in Streams, NEW m \in Nat, NEW f \in Nat,
           Reached(e, s, m, f), GiveFails(e, s) \/ Shutdown(e, s)
    PROVE  Reached(e, s, m, f)'
<1>1. pump'[e][s] = "shut" /\ sink'[e][s] = <<>> /\ got' = got
    BY DEF Base, Types, SinkTypes, ControlTypes, GiveFails, Shutdown
<1>2. UNCHANGED <<stage, registry, reader, early>> /\ (Handed(e, s)' <=> Handed(e, s))
    BY DEF GiveFails, Shutdown, readerVars, fixed, Handed
<1>3. Run(got'[e][s], s, f) /\ Run(sink'[e][s], s, f + Len(got'[e][s]))
    BY <1>1 DEF Reached, Run
<1>4. pump[e][s] # "off"
    BY DEF GiveFails, Shutdown
<1> QED BY <1>1, <1>2, <1>3, <1>4 DEF Reached

\* The reader hands a chunk over.
LEMMA ReachedHands ==
    ASSUME Base, NEW e \in Ends, NEW s \in Streams, NEW m \in Nat, NEW f \in Nat,
           Reached(e, s, m, f), ReaderHands(e), reader[e].s = s
    PROVE  Reached(e, s, m, f)'
<1>0. reader \in [Ends -> Jobs] /\ sink \in [Ends -> [Streams -> Seq(Chunks)]]
      /\ got[e][s] \in Seq(Chunks) /\ pump[e][s] # "off"
    BY DEF Base, Types, ReaderTypes, SinkTypes, InHand, ReaderHands
<1>1. /\ Handed(e, s) /\ reader[e].chunk = <<s, m - 1>> /\ HandTo(e, s, reader[e].chunk)
      /\ reader'[e] = Idle
    BY <1>0 DEF ReaderHands, Handed, Reached
<1>2. ~Handed(e, s)' /\ reader'[e].pc # "connect"
    BY <1>1, Parts DEF Handed
<1>3. UNCHANGED <<stage, registry, pump, got, early>>
    BY DEF ReaderHands, fixed
<1>4. CASE pump[e][s] # "run"
    <2>1. sink' = sink
        BY <1>1, <1>4 DEF HandTo
    <2> QED BY <1>2, <1>3, <1>4, <2>1 DEF Reached
<1>5. CASE pump[e][s] = "run"
    <2> DEFINE q == sink[e][s]
               g == got[e][s]
    <2>1. Arrived(e, s) = Len(g) + Len(q) /\ Arrived(e, s)' = Len(g) + Len(sink'[e][s])
        BY <1>3 DEF Arrived
    <2>2. sink'[e][s] = Append(q, <<s, m - 1>>)
        BY <1>0, <1>1, <1>5 DEF HandTo
    <2>3. Run(q, s, f + Len(g)) /\ Run(g, s, f) /\ got'[e][s] = g
        BY <1>3 DEF Reached
    <2>4. q \in Seq(Chunks) /\ g \in Seq(Chunks) /\ f + Arrived(e, s) = m - 2
        BY <1>0, <1>1, <1>5 DEF Reached
    <2> HIDE DEF q, g
    <2>5. Len(g) \in Nat /\ Len(q) \in Nat
        BY <2>4, LenProperties
    <2>6. m - 1 = (f + Len(g)) + Len(q) + 1 /\ f + Len(g) \in Nat
        BY <2>1, <2>4, <2>5
    <2>7. Run(Append(q, <<s, m - 1>>), s, f + Len(g)) /\ Len(Append(q, <<s, m - 1>>)) = Len(q) + 1
        BY <2>3, <2>4, <2>6, RunAppend
    <2>8. f + Arrived(e, s)' = m - 1
        BY <2>1, <2>2, <2>5, <2>6, <2>7, SMTT(30)
    <2>9. Run(got'[e][s], s, f) /\ Run(sink'[e][s], s, f + Len(got'[e][s]))
        BY <2>2, <2>3, <2>7
    <2> QED BY <1>2, <1>3, <1>5, <2>8, <2>9 DEF Reached
<1> QED BY <1>4, <1>5

\* The tasks of a stream are started: all that has left the wire so far came too early.
LEMMA ReachedWired ==
    ASSUME IdsSuffice, Base, NEW e \in Ends, NEW s \in Streams, NEW m \in Nat, NEW f \in Nat,
           Reached(e, s, m, f), Wire(e, s), UNCHANGED <<sink, got, early>>,
           pump[e][s] = "off",
           \/ e = "client" /\ reader' = reader
           \/ e = "server" /\ reader[e].pc = "connect" /\ reader[e].s = s /\ reader'[e] = Idle
    PROVE  Reached(e, s, m, m - 1)' /\ m - 1 \in Nat
<1>0. got[e][s] = <<>> /\ sink[e][s] = <<>> /\ m >= 1 /\ (e = "server" => m = 1)
    BY DEF Reached
<1>1. ~Handed(e, s) /\ ~Handed(e, s)'
    BY Parts DEF Handed, Base, InHand
<1>2. Run(got'[e][s], s, m - 1) /\ Run(sink'[e][s], s, m - 1 + Len(got'[e][s]))
    BY <1>0 DEF Run
<1>3. Arrived(e, s)' = 0
    BY <1>0 DEF Arrived
<1>4. pump'[e][s] = "run"
    BY DEF Wire, Base, Types, ControlTypes
<1>5. e = "server" \/ s \notin early' => m - 1 = 0
    BY <1>0 DEF Reached, Ends
<1>6. e = "server" => reader'[e].pc # "connect"
    BY Parts
<1> QED BY <1>0, <1>1, <1>2, <1>3, <1>4, <1>5, <1>6 DEF Reached

\* What the step of one action does to the stream at this end, unless the reader takes an event.
LEMMA ReachedStep ==
    ASSUME IdsSuffice, Base, Next, NEW e \in Ends, NEW s \in Tcp, NEW m \in Nat, NEW f \in Nat,
           Reached(e, s, m, f), ~ReaderTakes(e)
    PROVE  \E g \in Nat : Reached(e, s, m, g)'
<1>0. /\ s \in Streams /\ Staged /\ InHand /\ reader \in [Ends -> Jobs] /\ catcher \in [Ends -> Jobs]
      /\ stage \in [Ends -> [Streams -> {"none", "opening", "sent", "wired", "refused"}]]
      /\ registry \in [Ends -> [Ids -> Streams \cup {None}]]
      /\ pump \in [Ends -> [Streams -> {"off", "run", "shut"}]]
      /\ sink \in [Ends -> [Streams -> Seq(Chunks)]] /\ got \in [Ends -> [Streams -> Seq(Chunks)]]
      /\ IdOf(s) \in Ids /\ \A t \in Streams : t # s => IdOf(t) # IdOf(s)
    BY PlanParts, IdsDiffer DEF Base, Types, ControlTypes, ReaderTypes, SinkTypes
<1> DEFINE Goal == \E g \in Nat : Reached(e, s, m, g)'
           Others == \* nothing but the registration changes
      /\ got'[e][s] = got[e][s] /\ sink'[e][s] = sink[e][s] /\ pump'[e][s] = pump[e][s]
      /\ e = "server" => stage'[e][s] = stage[e][s]
      /\ registry'[e][IdOf(s)] = s => registry[e][IdOf(s)] = s
      /\ s \in early => s \in early'
<1>1. ASSUME Others, reader'[e] = reader[e] PROVE Goal
    <2>1. /\ Handed(e, s)' <=> Handed(e, s) 
          /\ Handed(e, s) => reader'[e].chunk = reader[e].chunk
          /\ reader'[e].pc = "connect" /\ reader'[e].s = s => reader[e].pc = "connect" /\ reader[e].s = s
        BY <1>1 DEF Handed
    <2> QED BY <1>0, <1>1, <2>1, ReachedSame
<1>2. ASSUME Others, ~Handed(e, s), reader'[e].pc \notin {"connect", "deliver"} PROVE Goal
    <2>1. ~Handed(e, s)'
        BY <1>2 DEF Handed
    <2> QED BY <1>0, <1>2, <2>1, ReachedSame
<1>3. ASSUME UNCHANGED <<got, sink, pump, registry, early>>, stage'["server"] = stage["server"] PROVE Others
    BY <1>3
<1>4. ASSUME Request PROVE Goal
    BY <1>0, <1>1, <1>3, <1>4, EndParts DEF Request, streamVars, readerVars, fixed
<1>5. ASSUME CadenceTick \/ Break PROVE Goal
    BY <1>1, <1>3, <1>5 DEF CadenceTick, Break, streamVars, readerVars, fixed
<1>6. ASSUME NEW t \in Streams, SendOpen(t) PROVE Goal
    BY <1>0, <1>1, <1>3, <1>6, EndParts DEF SendOpen, streamVars, readerVars, fixed
<1>7. ASSUME NEW t \in Streams, OpenFails(t) PROVE Goal
    BY <1>0, <1>1, <1>3, <1>7, EndParts DEF OpenFails, streamVars, readerVars, fixed
<1>8. ASSUME NEW d \in Ends, NEW t \in Streams, Wire(d, t), UNCHANGED <<got, sink, early>>,
             d # e \/ t # s
      PROVE  Others
    <2>1. pump'[e][s] = pump[e][s]
        BY <1>0, <1>8 DEF Wire
    <2>2. stage'[e][s] = stage[e][s]
        BY <1>0, <1>8 DEF Wire
    <2>3. registry'[e][IdOf(s)] = registry[e][IdOf(s)]
        BY <1>0, <1>8, IdsDiffer DEF Wire
    <2> QED BY <1>8, <2>1, <2>2, <2>3
<1>9. ASSUME NEW t \in Streams, Register(t) PROVE Goal
    <2>1. UNCHANGED <<sink, got, early, reader>> /\ Wire("client", t)
        BY <1>9 DEF Register, readerVars, fixed
    <2>2. CASE e = "client" /\ t = s
        <3>1. pump[e][s] = "off"
            BY <1>0, <1>9, <2>2 DEF Register, Staged
        <3> QED BY <1>0, <2>1, <2>2, <3>1, ReachedWired
    <2>3. CASE e # "client" \/ t # s
        BY <1>1, <1>8, <2>1, <2>3, EndParts
    <2> QED BY <2>2, <2>3
<1>10. ASSUME NEW d \in Ends, NEW t \in Streams, ReadChunk(d, t) PROVE Goal
    BY <1>1, <1>3, <1>10 DEF ReadChunk, streamVars, readerVars, fixed
<1>11. ASSUME NEW d \in Ends, NEW t \in Streams,
              SourceFails(d, t) \/ SourceEnds(d, t) \/ UdpEnds(d, t) \/ SourceGone(d, t)
       PROVE  Goal
    <2>1. /\ UNCHANGED <<got, sink, pump, stage, early, reader>>
          /\ registry' = registry \/ registry' = [registry EXCEPT ![d][IdOf(t)] = None]
        BY <1>11 DEF SourceFails, SourceEnds, UdpEnds, SourceGone, Unregister, readerVars, fixed
    <2>2. registry'[e][IdOf(s)] = s => registry[e][IdOf(s)] = s
        <3>1. CASE registry' = registry
            BY <3>1
        <3>2. CASE registry' = [registry EXCEPT ![d][IdOf(t)] = None]
            BY <1>0, <3>2, EndParts, IdsDiffer
        <3> QED BY <2>1, <3>1, <3>2
    <2> QED BY <1>1, <2>1, <2>2
<1>12. ASSUME NEW d \in Ends, NEW t \in Streams, Give(d, t) PROVE Goal
    <2>1. CASE d = e /\ t = s
        BY <1>0, <1>12, <2>1, ReachedGive
    <2>2. CASE d # e \/ t # s
        <3>1. got'[e][s] = got[e][s]
            BY <1>0, <1>12, <2>2 DEF Give
        <3>2. sink'[e][s] = sink[e][s]
            BY <1>0, <1>12, <2>2 DEF Give
        <3>3. UNCHANGED <<pump, registry, stage, early, reader>>
            BY <1>12 DEF Give, readerVars, fixed
        <3> QED BY <1>1, <3>1, <3>2, <3>3
    <2> QED BY <2>1, <2>2
<1>13. ASSUME NEW d \in Ends, NEW t \in Streams, GiveFails(d, t) \/ Shutdown(d, t) PROVE Goal
    <2>1. CASE d = e /\ t = s
        BY <1>0, <1>13, <2>1, ReachedShut
    <2>2. CASE d # e \/ t # s
        <3>1. pump'[e][s] = pump[e][s]
            BY <1>0, <1>13, <2>2 DEF GiveFails, Shutdown
        <3>2. sink'[e][s] = sink[e][s]
            <4>1. CASE Shutdown(d, t)
                BY <4>1 DEF Shutdown
            <4>2. CASE GiveFails(d, t)
                BY <1>0, <2>2, <4>2 DEF GiveFails
            <4> QED BY <1>13, <4>1, <4>2
        <3>3. UNCHANGED <<got, registry, stage, early, reader>>
            BY <1>13 DEF GiveFails, Shutdown, readerVars, fixed
        <3> QED BY <1>1, <3>1, <3>2, <3>3
    <2> QED BY <2>1, <2>2
<1>14. ASSUME NEW d \in Ends, WriteEvent(d) \/ WriteNative(d) \/ LinkLost(d) \/ NativeLost(d) PROVE Goal
    BY <1>1, <1>3, <1>14 DEF WriteEvent, WriteNative, LinkLost, NativeLost, streamVars, readerVars, fixed
<1>15. ASSUME NEW d \in Ends, CatcherTakes(d) PROVE Goal
    <2>1. UNCHANGED <<got, sink, pump, registry, stage, reader>> /\ early \subseteq early'
        BY <1>15 DEF CatcherTakes, streamVars
    <2> QED BY <1>1, <2>1
<1>16. ASSUME NEW d \in Ends, NEW t \in Streams, NEW c, HandTo(d, t, c), d # e \/ t # s
       PROVE  sink'[e][s] = sink[e][s]
    BY <1>0, <1>16 DEF HandTo
<1>17. ASSUME NEW d \in Ends, CatcherHands(d) PROVE Goal
    <2>1. catcher[d].s \in Streams /\ catcher[d].s # s
        BY <1>0, <1>17, Parts DEF CatcherHands, InHand
    <2>2. sink'[e][s] = sink[e][s]
        BY <1>16, <1>17, <2>1 DEF CatcherHands
    <2>3. UNCHANGED <<got, pump, registry, stage, early, reader>>
        BY <1>17 DEF CatcherHands, fixed
    <2> QED BY <1>1, <2>2, <2>3
<1>18. ASSUME NEW d \in Ends, ReaderTakes(d) PROVE Goal
    <2>1. d # e /\ reader'[e] = reader[e]
        BY <1>0, <1>18 DEF ReaderTakes
    <2>2. registry'[e] = registry[e]
        <3>1. CASE registry' = registry
            BY <3>1
        <3>2. CASE Unregister(d, Head(wire[Other(d)]).id)
            BY <1>0, <2>1, <3>2 DEF Unregister
        <3> QED BY <1>18, <3>1, <3>2 DEF ReaderTakes
    <2>3. UNCHANGED <<got, sink, pump, stage>> /\ early \subseteq early'
        BY <1>18 DEF ReaderTakes
    <2> QED BY <1>1, <2>1, <2>2, <2>3
<1>19. ASSUME NEW d \in Ends, ReaderConnects(d) PROVE Goal
    <2>1. /\ UNCHANGED <<sink, got, early>> /\ Wire(d, reader[d].s) /\ reader[d].s \in Streams
          /\ reader' = [reader EXCEPT ![d] = Idle] /\ d = "server"
        BY <1>0, <1>19, Parts DEF ReaderConnects, fixed, InHand, Ends
    <2>2. CASE e = d /\ reader[d].s = s
        <3>1. stage[e][s] = "none"
            BY <1>19, <2>1, <2>2 DEF ReaderConnects, Reached
        <3>2. pump[e][s] = "off" /\ reader'[e] = Idle
            BY <1>0, <2>1, <2>2, <3>1 DEF Staged
        <3>3. reader[e].pc = "connect"
            BY <1>19, <2>2 DEF ReaderConnects
        <3> QED BY <1>0, <2>1, <2>2, <3>2, <3>3, ReachedWired
    <2>3. CASE e = d /\ reader[d].s # s
        <3>1. Others
            BY <1>8, <2>1, <2>3
        <3>2. ~Handed(e, s) /\ reader'[e].pc = "recv"
            BY <1>0, <2>1, <2>3, Parts DEF Handed
        <3> QED BY <1>2, <3>1, <3>2
    <2>4. CASE e # d
        <3>1. Others
            BY <1>8, <2>1, <2>4
        <3>2. reader'[e] = reader[e]
            BY <1>0, <2>1, <2>4
        <3> QED BY <1>1, <3>1, <3>2
    <2> QED BY <2>2, <2>3, <2>4
<1>20. ASSUME NEW d \in Ends, ReaderRefused(d) PROVE Goal
    <2>1. PICK t \in Streams : t = reader[d].s
        BY <1>0, <1>20, Parts DEF ReaderRefused
    <2>2. /\ UNCHANGED <<got, sink, pump, registry, early>> /\ d = "server"
          /\ reader[d].pc = "connect" /\ reader[d].s = t
          /\ reader' = [reader EXCEPT ![d] = Refusing(t)]
          /\ stage' = [stage EXCEPT ![d][t] = "refused"]
        BY <1>0, <1>20, <2>1 DEF ReaderRefused, streamVars, fixed, InHand, Ends
    <2>3. CASE e = d /\ t = s
        <3>1. m = 1 /\ stage[e][s] = "none"
            BY <2>2, <2>3 DEF Reached
        <3>2. ~Handed(e, s) /\ ~Handed(e, s)' /\ reader'[e].pc = "refuse"
            BY <1>0, <2>2, <2>3, Parts DEF Handed
        <3>3. Run(got'[e][s], s, f) /\ Run(sink'[e][s], s, f + Len(got'[e][s])) /\ Arrived(e, s)' = Arrived(e, s)
            BY <2>2 DEF Reached, Arrived
        <3>4. Reached(e, s, m, f)'
            BY <2>2, <2>3, <3>1, <3>2, <3>3 DEF Reached
        <3> QED BY <3>4
    <2>4. CASE e = d /\ t # s
        <3>1. stage'[e][s] = stage[e][s]
            BY <1>0, <2>2, <2>4
        <3>2. ~Handed(e, s) /\ reader'[e].pc = "refuse"
            BY <1>0, <2>2, <2>4, Parts DEF Handed
        <3> QED BY <1>2, <2>2, <3>1, <3>2
    <2>5. CASE e # d
        <3>1. stage'[e][s] = stage[e][s] /\ reader'[e] = reader[e]
            BY <1>0, <2>2, <2>5
        <3> QED BY <1>1, <2>2, <3>1
    <2> QED BY <2>3, <2>4, <2>5
<1>21. ASSUME NEW d \in Ends, ReaderRefuses(d) PROVE Goal
    <2>1. Others
        BY <1>3, <1>21 DEF ReaderRefuses, streamVars, fixed
    <2>2. CASE e = d
        <3>1. ~Handed(e, s) /\ reader'[e].pc = "recv"
            BY <1>0, <1>21, <2>2, Parts DEF Handed, ReaderRefuses
        <3> QED BY <1>2, <2>1, <3>1
    <2>3. CASE e # d
        <3>1. reader'[e] = reader[e]
            BY <1>0, <1>21, <2>3 DEF ReaderRefuses
        <3> QED BY <1>1, <2>1, <3>1
    <2> QED BY <2>2, <2>3
<1>22. ASSUME NEW d \in Ends, ReaderHands(d) PROVE Goal
    <2>1. reader[d].s \in Streams /\ UNCHANGED <<got, pump, registry, stage, early>>
        BY <1>0, <1>22, Parts DEF ReaderHands, fixed
    <2>2. CASE e = d /\ reader[d].s = s
        BY <1>0, <1>22, <2>2, ReachedHands
    <2>3. CASE e = d /\ reader[d].s # s
        <3>1. sink'[e][s] = sink[e][s]
            BY <1>16, <1>22, <2>1, <2>3 DEF ReaderHands
        <3>2. ~Handed(e, s) /\ reader'[e].pc = "recv"
            BY <1>0, <1>22, <2>3, Parts DEF Handed, ReaderHands
        <3> QED BY <1>2, <2>1, <3>1, <3>2
    <2>4. CASE e # d
        <3>1. sink'[e][s] = sink[e][s]
            BY <1>16, <1>22, <2>1, <2>4 DEF ReaderHands
        <3>2. reader'[e] = reader[e]
            BY <1>0, <1>22, <2>4 DEF ReaderHands
        <3> QED BY <1>1, <2>1, <3>1, <3>2
    <2> QED BY <2>2, <2>3, <2>4
<1>23. ASSUME NEW d \in Ends, ReaderEnds(d) PROVE Goal
    <2>1. UNCHANGED <<got, sink, pump, stage, early>>
        BY <1>23 DEF ReaderEnds, fixed
    <2>2. registry'[e][IdOf(s)] = s => registry[e][IdOf(s)] = s
        BY <1>0, <1>23, EndParts DEF ReaderEnds
    <2>3. CASE e = d
        <3>1. ~Handed(e, s) /\ reader'[e].pc = "done"
            BY <1>0, <1>23, <2>3, Parts DEF Handed, ReaderEnds
        <3> QED BY <1>2, <2>1, <2>2, <3>1
    <2>4. CASE e # d
        <3>1. reader'[e] = reader[e]
            BY <1>0, <1>23, <2>4 DEF ReaderEnds
        <3> QED BY <1>1, <2>1, <2>2, <3>1
    <2> QED BY <2>3, <2>4
<1> HIDE DEF Goal
<1>24. Goal
    BY Actions, <1>4, <1>5, <1>6, <1>7, <1>9, <1>10, <1>11, <1>12, <1>13, <1>14, <1>15,
       <1>17, <1>18, <1>19, <1>20, <1>21, <1>22, <1>23
<1> QED BY <1>24 DEF Goal

\* A chunk that finds no task of its stream at the client comes between open's two steps.
LEMMA ComesEarly ==
    ASSUME IdsSuffice, Base, Links, NEW s \in Tcp, NEW m \in Nat, NEW n \in Nat,
           Carried("server", s, m, n), m + 1 <= n, m >= 1, pump["client"][s] = "off",
           NEW ev, IsChunk(ev), ev.id = IdOf(s)
    PROVE  s \in TooEarly("client", ev)
<1>0. s \in Streams /\ taken \in [Ends -> [Streams -> Nat]] /\ Staged
    BY PlanParts DEF Base, Types, ControlTypes
<1>1. taken["server"][s] >= 1
    <2>1. n <= taken["server"][s] + 1 /\ taken["server"][s] \in Nat
        BY <1>0, EndParts DEF Carried, Sent
    <2> QED BY <2>1
<1>2. stage["server"][s] # "none"
    BY <1>0, <1>1, EndParts DEF Staged
<1>3. PICK m2, n2, f2 \in Nat : Carried("client", s, m2, n2) /\ Reached("server", s, m2, f2)
    <2>1. Link("server", s)
        BY EndParts DEF Links
    <2> QED BY <2>1, EndParts DEF Link
<1>4. m2 >= 1
    BY <1>2, <1>3 DEF Reached
<1>5. n2 >= m2 /\ n2 <= Sent("client", s)
    BY <1>0, <1>3, SentParts, CountsOrder, EndParts DEF Carried
<1>6. Sent("client", s) # 0
    BY <1>0, <1>3, <1>4, <1>5, SentParts, EndParts
<1>7. stage["client"][s] \in {"sent", "wired"}
    BY <1>6 DEF Sent
<1>8. stage["client"][s] = "sent"
    BY <1>0, <1>7, EndParts DEF Staged
<1> QED BY <1>0, <1>8 DEF TooEarly, IsChunk

\* The reader takes the next event of the carrier.
LEMMA LinkTakes ==
    ASSUME IdsSuffice, Base, Links, NEW e \in Ends, NEW s \in Tcp, ReaderTakes(e)
    PROVE  Link(e, s)'
<1>0. /\ s \in Streams /\ Staged /\ reader \in [Ends -> Jobs]
      /\ registry \in [Ends -> [Ids -> Streams \cup {None}]]
      /\ wire \in [Ends -> Seq(GoodEvents)] /\ IdOf(s) \in Ids /\ None # s
    BY PlanParts, IdsDiffer, EndParts DEF Base, Types, ControlTypes, ReaderTypes, QueueTypes
<1>1. PICK o \in Ends : o = Other(e)
    BY EndParts
<1>2. PICK m, n, f \in Nat : Carried(o, s, m, n) /\ Reached(e, s, m, f)
    BY <1>1 DEF Links, Link
<1>3. PICK ev : ev = Head(wire[o])
    OBVIOUS
<1>4. /\ ev \in Events /\ Good(ev) /\ reader'[e] = After(e, ev) /\ After(e, ev) \in Jobs
      /\ ev.type = "open" => After(e, ev) = IF e = "server" THEN Connecting(ev.s) ELSE Idle
      /\ IsChunk(ev) => After(e, ev) = Routed(e, ev)
      /\ ev.type \notin {"open", "data", "datagram"} => After(e, ev) = Idle
    BY <1>0, <1>1, <1>3, Taken
<1>5. /\ wire[o] \in Seq(Events) /\ wire[o] # <<>> /\ wire'[o] = Tail(wire[o]) /\ ~Handed(e, s)
      /\ UNCHANGED <<out, broken, taken, stage, got, sink, pump>> /\ Sent(o, s)' = Sent(o, s)
      /\ early' = early \cup TooEarly(e, ev)
    BY <1>0, <1>1, <1>3, SentParts, SentSame DEF ReaderTakes, Handed
<1>6. CASE ~Of(ev, s)
    <2>1. Counts(Tail(wire[o]), s, m, n)
        BY <1>0, <1>2, <1>3, <1>5, <1>6, CountsTail DEF Carried
    <2>2. Carried(o, s, m, n)'
        BY <1>2, <1>5, <2>1 DEF Carried
    <2>3. ~Handed(e, s)' /\ ~(reader'[e].pc = "connect" /\ reader'[e].s = s)
        <3>1. CASE IsChunk(ev)
            <4>1. ev.chunk \in Chunks /\ ev.chunk[1] # s /\ ev.chunk[1] \in Streams
                BY <1>4, <1>6, <3>1, Route DEF Of
            <4>2. reader'[e] = Idle \/ reader'[e] = Handing(ev.chunk[1], ev.chunk)
                BY <1>4, <3>1, Route
            <4> QED BY <4>1, <4>2, Parts DEF Handed
        <3>2. CASE ev.type = "open"
            <4>1. ev.s # s /\ ev.s \in Streams
                BY <1>4, <1>6, <3>2, Parts DEF Of
            <4>2. reader'[e] = Idle \/ reader'[e] = Connecting(ev.s)
                BY <1>4, <3>2
            <4> QED BY <4>1, <4>2, Parts DEF Handed
        <3>3. CASE ev.type \notin {"open", "data", "datagram"}
            BY <1>4, <3>3, Parts DEF Handed
        <3> QED BY <3>1, <3>2, <3>3 DEF IsChunk
    <2>4. registry'[e][IdOf(s)] = s => registry[e][IdOf(s)] = s
        <3>1. CASE registry' = registry
            BY <3>1
        <3>2. CASE ev.type = "close"
            <4>1. ev.id \in Ids
                BY <1>4, <3>2, Parts
            <4>2. registry' = [registry EXCEPT ![e][ev.id] = None]
                BY <1>1, <1>3, <3>2 DEF ReaderTakes, Unregister
            <4> QED BY <1>0, <4>1, <4>2
        <3> QED BY <1>1, <1>3, <3>1, <3>2 DEF ReaderTakes
    <2>5. Reached(e, s, m, f)'
        BY <1>0, <1>2, <1>5, <2>3, <2>4, ReachedSame
    <2> QED BY <1>1, <2>2, <2>5 DEF Link
<1>7. CASE Of(ev, s)
    <2>1. Place(ev) = m + 1 /\ Counts(Tail(wire[o]), s, m + 1, n) /\ m + 1 \in Nat
        BY <1>0, <1>2, <1>3, <1>5, <1>7, CountsTail DEF Carried
    <2>2. Carried(o, s, m + 1, n)'
        BY <1>2, <1>5, <2>1 DEF Carried
    <2>3. registry' = registry
        BY <1>1, <1>3, <1>7 DEF ReaderTakes, Of, IsChunk
    <2>4. m + 1 <= n
        <3>1. Tail(wire[o]) \in Seq(Events)
            BY <1>5, HeadTailProperties
        <3> QED BY <1>0, <1>2, <2>1, <3>1, CountsOrder
    <2>5. /\ Run(got'[e][s], s, f) /\ Run(sink'[e][s], s, f + Len(got'[e][s]))
          /\ Arrived(e, s)' = Arrived(e, s)
        BY <1>2, <1>5 DEF Reached, Arrived
    <2>6. CASE ev.type = "open"
        <3>1. m = 0 /\ e = "server" /\ ev.s = s
            BY <1>2, <1>7, <2>1, <2>6 DEF Place, Reached, Ends, Of, IsChunk
        <3>2. stage[e][s] = "none" /\ f = 0
            BY <1>2, <3>1 DEF Reached
        <3>3. pump[e][s] = "off" /\ got[e][s] = <<>> /\ sink[e][s] = <<>>
            BY <1>0, <1>2, <3>2 DEF Staged, Reached
        <3>4. reader'[e].pc = "connect" /\ reader'[e].s = s
            BY <1>0, <1>4, <2>6, <3>1, Parts
        <3>5. ~Handed(e, s)'
            BY <3>4 DEF Handed
        <3>6. Reached(e, s, m + 1, f)'
            BY <1>5, <2>5, <3>1, <3>2, <3>3, <3>5 DEF Reached
        <3> QED BY <1>1, <2>1, <2>2, <3>6 DEF Link
    <2>7. CASE IsChunk(ev)
        <3>1. ev.chunk = <<s, m>> /\ ev.chunk[1] = s /\ ev.id = IdOf(s) /\ ev.chunk \in Chunks
            <4>1. ev.chunk \in Chunks /\ ev.chunk[1] = s /\ ev.chunk[2] = m
                BY <1>4, <1>7, <2>1, <2>7, Parts DEF Of, Place, IsChunk, Chunks
            <4> QED BY <1>4, <2>7, <4>1 DEF Chunks, Good
        <3>2. CASE registry[e][IdOf(s)] = None
            <4>1. reader'[e] = Idle
                BY <1>4, <2>7, <3>1, <3>2, Route
            <4>2. ~Handed(e, s)' /\ reader'[e].pc # "connect"
                BY <4>1, Parts DEF Handed
            <4>3. e = "client" /\ pump[e][s] = "off" => s \in early'
                <5> SUFFICES ASSUME e = "client", pump[e][s] = "off" PROVE s \in early'
                    OBVIOUS
                <5>1. m >= 1 /\ o = "server"
                    BY <1>1, <1>2, EndParts DEF Reached
                <5>2. s \in TooEarly(e, ev)
                    BY <1>2, <2>4, <2>7, <3>1, <5>1, ComesEarly
                <5> QED BY <1>5, <5>2
            <4>4. Reached(e, s, m + 1, f)'
                <5>1. e = "server" \/ s \notin early' => f = 0
                    BY <1>2, <1>5 DEF Reached
                <5>2. pump'[e][s] = "off" => got'[e][s] = <<>> /\ sink'[e][s] = <<>>
                    BY <1>2, <1>5 DEF Reached
                <5> QED BY <1>0, <1>5, <2>3, <2>5, <3>2, <4>2, <4>3, <5>1, <5>2 DEF Reached
            <4> QED BY <1>1, <2>1, <2>2, <4>4 DEF Link
        <3>3. CASE registry[e][IdOf(s)] # None
            <4>1. registry[e][IdOf(s)] = s /\ pump[e][s] # "off" /\ reader'[e] = Handing(s, ev.chunk)
                BY <1>4, <2>7, <3>1, <3>3, Route
            <4>2. Handed(e, s)' /\ reader'[e].pc # "connect" /\ reader'[e].chunk = <<s, m>>
                <5>1. /\ reader'[e].pc = "deliver" /\ reader'[e].s = s /\ reader'[e].chunk = ev.chunk
                    BY <4>1 DEF Handing
                <5> QED BY <3>1, <5>1 DEF Handed
            <4>3. pump[e][s] = "run" => f + Arrived(e, s) = m - 1
                BY <1>2, <1>5, <4>1 DEF Reached
            <4>4. (m + 1) - 1 = m /\ (m + 1) - 2 = m - 1 /\ m + 1 >= 1
                OBVIOUS
            <4>5. Reached(e, s, m + 1, f)'
                <5>1. e = "server" \/ s \notin early' => f = 0
                    BY <1>2, <1>5 DEF Reached
                <5> QED BY <1>5, <2>3, <2>5, <4>1, <4>2, <4>3, <4>4, <5>1 DEF Reached
            <4> QED BY <1>1, <2>1, <2>2, <4>5 DEF Link
        <3> QED BY <3>2, <3>3
    <2> QED BY <1>7, <2>6, <2>7 DEF Of
<1> QED BY <1>6, <1>7

LEMMA LinksKept == ASSUME IdsSuffice, Base, Links, Next PROVE Links'
<1> SUFFICES ASSUME NEW e \in Ends, NEW s \in Tcp PROVE Link(e, s)'
    BY PlanFixed DEF Links
<1>1. PICK m, n, f \in Nat : Carried(Other(e), s, m, n) /\ Reached(e, s, m, f)
    BY DEF Links, Link
<1>2. Other(e) \in Ends /\ Other(Other(e)) = e /\ s \in Streams
    BY EndParts, PlanParts DEF Base, Types, ControlTypes
<1>3. CASE ReaderTakes(e)
    BY <1>3, LinkTakes
<1>4. CASE ~ReaderTakes(e)
    <2>1. PICK g \in Nat : Reached(e, s, m, g)'
        BY <1>1, <1>4, ReachedStep
    <2>2. CASE ~ReaderEnds(e)
        <3>1. PICK k \in Nat : Carried(Other(e), s, m, k)'
            BY <1>1, <1>2, <1>4, <2>2, CarriedStep
        <3> QED BY <2>1, <3>1 DEF Link
    <2>3. CASE ReaderEnds(e)
        <3>1. /\ broken' /\ wire'[Other(e)] = <<>> /\ Sent(Other(e), s)' = Sent(Other(e), s)
            BY <1>2, <2>3, SentSame DEF ReaderEnds, fixed, Base, Types, QueueTypes
        <3>2. m <= Sent(Other(e), s)
            <4>1. Counts(wire[Other(e)], s, m, n) /\ n <= Sent(Other(e), s)
                BY <1>1 DEF Carried
            <4>2. wire[Other(e)] \in Seq(Events) /\ Sent(Other(e), s) \in Nat
                BY <1>2, SentParts
            <4>3. m <= n
                BY <1>2, <4>1, <4>2, CountsOrder
            <4> QED BY <4>1, <4>2, <4>3
        <3>3. Carried(Other(e), s, m, m)'
            BY <1>2, <3>1, <3>2, CountsEmpty DEF Carried
        <3> QED BY <2>1, <3>3 DEF Link
    <2> QED BY <2>2, <2>3
<1> QED BY <1>3, <1>4

-----------------------------------------------------------------------------
(* Every chunk is at one place *)

LEMMA HoldsMoves ==
    ASSUME NEW q \in Seq(Chunks), NEW c
    PROVE  /\ \A i : ~Holds(<<>>, i, c)
           /\ \A x, i : Holds(Append(q, x), i, c) => Holds(q, i, c) \/ (i = Len(q) + 1 /\ x = c)
           /\ q # <<>> => \A i \in Nat : Holds(Tail(q), i, c) => Holds(q, i + 1, c) /\ i # 0
           /\ q # <<>> /\ Head(q) = c => Holds(q, 1, c)
<1>1. \A i : ~Holds(<<>>, i, c)
    BY DEF Holds
<1>2. ASSUME NEW x, NEW i, Holds(Append(q, x), i, c)
      PROVE  Holds(q, i, c) \/ (i = Len(q) + 1 /\ x = c)
    <2>1. Len(q) \in Nat /\ Len(Append(q, x)) = Len(q) + 1
        BY LenProperties
    <2>2. i \in 1..(Len(q) + 1)
        BY <1>2, <2>1 DEF Holds
    <2>3. CASE i = Len(q) + 1
        BY <1>2, <2>1, <2>3 DEF Holds
    <2>4. CASE i \in 1..Len(q)
        BY <1>2, <2>1, <2>4 DEF Holds
    <2> QED BY <2>1, <2>2, <2>3, <2>4
<1>3. ASSUME q # <<>>, NEW i \in Nat, Holds(Tail(q), i, c) PROVE Holds(q, i + 1, c) /\ i # 0
    <2>1. /\ Len(q) \in Nat \ {0} /\ Len(Tail(q)) = Len(q) - 1
          /\ \A k \in 1..Len(Tail(q)) : Tail(q)[k] = q[k + 1]
        BY <1>3, HeadTailProperties, LenProperties, EmptySeq
    <2> QED BY <1>3, <2>1 DEF Holds
<1>4. q # <<>> /\ Head(q) = c => Holds(q, 1, c)
    BY HeadTailProperties, LenProperties, EmptySeq DEF Holds
<1> QED BY <1>1, <1>2, <1>3, <1>4

LEMMA BearsMoves ==
    ASSUME NEW q \in Seq(Events), NEW c
    PROVE  /\ \A i : ~Bears(<<>>, i, c)
           /\ \A x, i : Bears(Append(q, x), i, c) =>
                  Bears(q, i, c) \/ (i = Len(q) + 1 /\ IsChunk(x) /\ x.chunk = c)
           /\ q # <<>> => \A i \in Nat : Bears(Tail(q), i, c) => Bears(q, i + 1, c) /\ i # 0
           /\ q # <<>> /\ IsChunk(Head(q)) /\ Head(q).chunk = c => Bears(q, 1, c)
<1>1. \A i : ~Bears(<<>>, i, c)
    BY DEF Bears
<1>2. ASSUME NEW x, NEW i, Bears(Append(q, x), i, c)
      PROVE  Bears(q, i, c) \/ (i = Len(q) + 1 /\ IsChunk(x) /\ x.chunk = c)
    <2>1. Len(q) \in Nat /\ Len(Append(q, x)) = Len(q) + 1
        BY LenProperties
    <2>2. i \in 1..(Len(q) + 1)
        BY <1>2, <2>1 DEF Bears
    <2>3. CASE i = Len(q) + 1
        <3>1. Append(q, x)[i] = x
            BY <2>1, <2>3
        <3> QED BY <1>2, <2>3, <3>1 DEF Bears
    <2>4. CASE i \in 1..Len(q)
        <3>1. Append(q, x)[i] = q[i]
            BY <2>1, <2>4
        <3> QED BY <1>2, <2>4, <3>1 DEF Bears
    <2> QED BY <2>1, <2>2, <2>3, <2>4
<1>3. ASSUME q # <<>>, NEW i \in Nat, Bears(Tail(q), i, c) PROVE Bears(q, i + 1, c) /\ i # 0
    <2>1. /\ Len(q) \in Nat \ {0} /\ Len(Tail(q)) = Len(q) - 1
          /\ \A k \in 1..Len(Tail(q)) : Tail(q)[k] = q[k + 1]
        BY <1>3, HeadTailProperties, LenProperties, EmptySeq
    <2> QED BY <1>3, <2>1 DEF Bears
<1>4. q # <<>> /\ IsChunk(Head(q)) /\ Head(q).chunk = c => Bears(q, 1, c)
    BY HeadTailProperties, LenProperties, EmptySeq DEF Bears
<1> QED BY <1>1, <1>2, <1>3, <1>4

\* Chunks only move: no two places are filled from one.
LEMMA OneMoves ==
    ASSUME NEW e, NEW c, One(e, c), NEW p \in [Slots -> Slots],
           c[2] <= taken[Other(e)][c[1]] => c[2] <= taken'[Other(e)][c[1]],
           \A a \in Slots : At(e, a, c)' => At(e, p[a], c),
           \A a, b \in Slots : At(e, a, c)' /\ At(e, b, c)' /\ p[a] = p[b] => a = b
    PROVE  One(e, c)'
<1>1. \A a \in Slots : p[a] \in Slots
    OBVIOUS
<1> QED BY <1>1 DEF One

\* Or stay, or get lost.
LEMMA OneStays ==
    ASSUME NEW e, NEW c, One(e, c),
           c[2] <= taken[Other(e)][c[1]] => c[2] <= taken'[Other(e)][c[1]],
           \A a \in Slots : At(e, a, c)' => At(e, a, c)
    PROVE  One(e, c)'
BY DEF One

\* The way from one socket to the other is left alone, apart from losses, and a word that is
\* no chunk.
Quiet(e, c) ==
    /\ c[2] <= taken[Other(e)][c[1]] => c[2] <= taken'[Other(e)][c[1]]
    /\ got'[e][c[1]] = got[e][c[1]]
    /\ sink'[e][c[1]] = sink[e][c[1]] \/ sink'[e][c[1]] = <<>>
    /\ reader'[e] = reader[e] \/ reader'[e].pc # "deliver"
    /\ catcher'[e] = catcher[e] \/ catcher'[e].pc # "deliver"
    /\ wire'[Other(e)] = wire[Other(e)] \/ wire'[Other(e)] = <<>>
    /\ \/ out'[Other(e)] = out[Other(e)] \/ out'[Other(e)] = <<>>
       \/ \E ev : ~IsChunk(ev) /\ out'[Other(e)] = Append(out[Other(e)], ev)
    /\ net'[Other(e)] \subseteq net[Other(e)]

LEMMA OneQuiet ==
    ASSUME Base, NEW e \in Ends, NEW c \in Chunks, One(e, c), Quiet(e, c)
    PROVE  One(e, c)'
<1>0. Other(e) \in Ends /\ c[1] \in Streams
    BY EndParts DEF Chunks
<1>1. out[Other(e)] \in Seq(Events) /\ wire[Other(e)] \in Seq(Events) /\ sink[e][c[1]] \in Seq(Chunks)
    BY <1>0, SentParts DEF Base, Types, SinkTypes
<1>2. \A i : Holds(got'[e][c[1]], i, c) => Holds(got[e][c[1]], i, c)
    BY DEF Quiet
<1>3. \A i : Holds(sink'[e][c[1]], i, c) => Holds(sink[e][c[1]], i, c)
    <2>1. \A i : ~Holds(<<>>, i, c)
        BY <1>1, HoldsMoves
    <2>2. CASE sink'[e][c[1]] = sink[e][c[1]]
        BY <2>2
    <2>3. CASE sink'[e][c[1]] = <<>>
        BY <2>1, <2>3
    <2> QED BY <2>2, <2>3 DEF Quiet
<1>4. Busy(reader'[e], c) => Busy(reader[e], c)
    BY DEF Quiet, Busy
<1>5. Busy(catcher'[e], c) => Busy(catcher[e], c)
    BY DEF Quiet, Busy
<1>6. \A i : Bears(wire'[Other(e)], i, c) => Bears(wire[Other(e)], i, c)
    <2>1. \A i : ~Bears(<<>>, i, c)
        BY <1>1, BearsMoves
    <2>2. CASE wire'[Other(e)] = wire[Other(e)]
        BY <2>2
    <2>3. CASE wire'[Other(e)] = <<>>
        BY <2>1, <2>3
    <2> QED BY <2>2, <2>3 DEF Quiet
<1>7. \A i : Bears(out'[Other(e)], i, c) => Bears(out[Other(e)], i, c)
    <2>1. \A i : ~Bears(<<>>, i, c)
        BY <1>1, BearsMoves
    <2>2. CASE out'[Other(e)] = out[Other(e)]
        BY <2>2
    <2>3. CASE out'[Other(e)] = <<>>
        BY <2>1, <2>3
    <2>4. ASSUME NEW ev, ~IsChunk(ev), out'[Other(e)] = Append(out[Other(e)], ev), NEW i,
                 Bears(out'[Other(e)], i, c)
          PROVE  Bears(out[Other(e)], i, c)
        <3>1. Bears(Append(out[Other(e)], ev), i, c)
            BY <2>4
        <3> QED BY <1>1, <2>4, <3>1, BearsMoves
    <2> QED BY <2>2, <2>3, <2>4 DEF Quiet
<1>8. Afloat(net'[Other(e)], c) => Afloat(net[Other(e)], c)
    BY DEF Quiet, Afloat
<1>9. \A a \in Slots : At(e, a, c)' => At(e, a, c)
    BY <1>2, <1>3, <1>4, <1>5, <1>6, <1>7, <1>8 DEF At
<1>10. c[2] <= taken[Other(e)][c[1]] => c[2] <= taken'[Other(e)][c[1]]
    BY DEF Quiet
<1> QED BY <1>9, <1>10, OneStays

LEMMA SlotParts == \A a \in Slots : a = <<a[1], a[2]>> /\ a[2] \in Nat
BY DEF Slots

\* The writer moves the head of the channel to the carrier.
LEMMA OneWrites ==
    ASSUME Base, NEW e \in Ends, NEW c \in Chunks, One(e, c), WriteEvent(Other(e)), ~broken
    PROVE  One(e, c)'
<1>0. PICK o \in Ends : o = Other(e)
    BY EndParts
<1>1. out[o] \in Seq(Events) /\ wire[o] \in Seq(Events) /\ c[1] \in Streams
    BY SentParts DEF Chunks
<1>2. /\ out[o] # <<>> /\ out'[o] = Tail(out[o]) /\ wire'[o] = Append(wire[o], Head(out[o]))
      /\ UNCHANGED <<got, sink, reader, catcher, net, taken>>
    BY <1>0 DEF WriteEvent, Written, Base, Types, QueueTypes, streamVars, readerVars, linkVars
<1>3. Len(wire[o]) \in Nat
    BY <1>1, LenProperties
<1> DEFINE k == Len(wire[o]) + 1
           p == [a \in Slots |-> IF a[1] = "out" THEN <<"out", a[2] + 1>>
                                 ELSE IF a = <<"wire", k>> THEN <<"out", 1>> ELSE a]
<1>4. p \in [Slots -> Slots] /\ \A i \in Nat : <<"out", i>> \in Slots
    BY DEF Slots
<1>5. \A i : Bears(wire[o], i, c) => i # k
    BY <1>3 DEF Bears
<1>6. /\ \A i \in Nat : Bears(out'[o], i, c) => Bears(out[o], i + 1, c) /\ i # 0
      /\ \A i : Bears(wire'[o], i, c) => Bears(wire[o], i, c) \/ (i = k /\ Bears(out[o], 1, c))
    <2>1. \A i \in Nat : Bears(Tail(out[o]), i, c) => Bears(out[o], i + 1, c) /\ i # 0
        BY <1>1, <1>2, BearsMoves
    <2>2. ASSUME NEW i, Bears(Append(wire[o], Head(out[o])), i, c)
          PROVE  Bears(wire[o], i, c) \/ (i = k /\ IsChunk(Head(out[o])) /\ Head(out[o]).chunk = c)
        BY <1>1, <2>2, BearsMoves
    <2>3. IsChunk(Head(out[o])) /\ Head(out[o]).chunk = c => Bears(out[o], 1, c)
        BY <1>1, <1>2, BearsMoves
    <2> QED BY <1>2, <2>1, <2>2, <2>3
<1> HIDE DEF k
<1>7. ASSUME NEW a \in Slots, At(e, a, c)'
      PROVE  At(e, p[a], c) /\ (a[1] = "out" => a[2] # 0)
    <2>0. a = <<a[1], a[2]>> /\ a[2] \in Nat
        BY SlotParts
    <2>1. CASE a[1] = "out"
        <3>1. Bears(out'[o], a[2], c)
            BY <1>0, <1>7, <2>1 DEF At
        <3>2. Bears(out[o], a[2] + 1, c) /\ a[2] # 0 /\ p[a] = <<"out", a[2] + 1>>
            BY <1>6, <2>0, <2>1, <3>1
        <3> QED BY <1>0, <3>2 DEF At
    <2>2. CASE a[1] = "wire"
        <3>1. Bears(wire'[o], a[2], c)
            BY <1>0, <1>7, <2>2 DEF At
        <3>2. CASE a[2] = k /\ Bears(out[o], 1, c)
            <4>1. p[a] = <<"out", 1>>
                BY <2>0, <2>2, <3>2
            <4> QED BY <1>0, <2>2, <3>2, <4>1 DEF At
        <3>3. CASE Bears(wire[o], a[2], c)
            <4>1. p[a] = a
                BY <1>5, <2>0, <2>2, <3>3
            <4> QED BY <1>0, <2>2, <3>3, <4>1 DEF At
        <3> QED BY <1>6, <3>1, <3>2, <3>3
    <2>3. CASE a[1] \notin {"out", "wire"}
        <3>1. p[a] = a
            BY <2>0, <2>3
        <3> QED BY <1>2, <1>7, <2>3, <3>1 DEF At
    <2> QED BY <2>1, <2>2, <2>3
<1>8. ASSUME NEW a \in Slots, NEW b \in Slots, At(e, a, c)', At(e, b, c)', p[a] = p[b]
      PROVE  a = b
    <2>1. a = <<a[1], a[2]>> /\ b = <<b[1], b[2]>> /\ a[2] \in Nat /\ b[2] \in Nat
        BY SlotParts
    <2>2. (a[1] = "out" => a[2] # 0) /\ (b[1] = "out" => b[2] # 0)
        BY <1>7, <1>8
    <2> QED BY <1>8, <2>1, <2>2
<1> HIDE DEF p
<1> QED BY <1>2, <1>4, <1>7, <1>8, OneMoves

\* Or to the native link.
LEMMA OneNative ==
    ASSUME Base, NEW e \in Ends, NEW c \in Chunks, One(e, c), WriteNative(Other(e))
    PROVE  One(e, c)'
<1>0. PICK o \in Ends : o = Other(e)
    BY EndParts
<1>1. out[o] \in Seq(Events)
    BY SentParts DEF Chunks
<1>2. /\ out[o] # <<>> /\ out'[o] = Tail(out[o]) /\ net'[o] = net[o] \cup {Head(out[o])}
      /\ IsChunk(Head(out[o])) /\ UNCHANGED <<got, sink, reader, catcher, wire, taken>>
    BY <1>0 DEF WriteNative, Base, Types, QueueTypes, streamVars, readerVars, IsChunk
<1> DEFINE p == [a \in Slots |-> IF a[1] = "out" THEN <<"out", a[2] + 1>>
                                 ELSE IF a = <<"net", 0>> /\ ~Afloat(net[o], c) THEN <<"out", 1>> ELSE a]
<1>3. p \in [Slots -> Slots]
    BY DEF Slots
<1>4. \A i \in Nat : Bears(out'[o], i, c) => Bears(out[o], i + 1, c) /\ i # 0
    <2>1. \A i \in Nat : Bears(Tail(out[o]), i, c) => Bears(out[o], i + 1, c) /\ i # 0
        BY <1>1, <1>2, BearsMoves
    <2> QED BY <1>2, <2>1
<1>5. Afloat(net'[o], c) => Afloat(net[o], c) \/ Bears(out[o], 1, c)
    <2>1. Head(out[o]).chunk = c => Bears(out[o], 1, c)
        BY <1>1, <1>2, BearsMoves
    <2> QED BY <1>2, <2>1 DEF Afloat
<1>6. ASSUME NEW a \in Slots, At(e, a, c)'
      PROVE  At(e, p[a], c) /\ (a[1] = "out" => a[2] # 0)
    <2>0. a = <<a[1], a[2]>> /\ a[2] \in Nat
        BY SlotParts
    <2>1. CASE a[1] = "out"
        <3>1. Bears(out'[o], a[2], c)
            BY <1>0, <1>6, <2>1 DEF At
        <3>2. Bears(out[o], a[2] + 1, c) /\ a[2] # 0 /\ p[a] = <<"out", a[2] + 1>>
            BY <1>4, <2>0, <2>1, <3>1
        <3> QED BY <1>0, <3>2 DEF At
    <2>2. CASE a[1] = "net"
        <3>1. Afloat(net'[o], c) /\ a[2] = 0
            BY <1>0, <1>6, <2>2 DEF At
        <3>2. CASE Afloat(net[o], c)
            <4>1. p[a] = a
                BY <2>2, <3>2
            <4> QED BY <1>0, <2>2, <3>1, <3>2, <4>1 DEF At
        <3>3. CASE ~Afloat(net[o], c)
            <4>1. p[a] = <<"out", 1>> /\ Bears(out[o], 1, c)
                BY <1>5, <2>0, <2>2, <3>1, <3>3
            <4> QED BY <1>0, <2>2, <4>1 DEF At
        <3> QED BY <3>2, <3>3
    <2>3. CASE a[1] \notin {"out", "net"}
        <3>1. p[a] = a
            BY <2>0, <2>3
        <3> QED BY <1>2, <1>6, <2>3, <3>1 DEF At
    <2> QED BY <2>1, <2>2, <2>3
<1>7. ASSUME NEW a \in Slots, NEW b \in Slots, At(e, a, c)', At(e, b, c)', p[a] = p[b]
      PROVE  a = b
    <2>1. a = <<a[1], a[2]>> /\ b = <<b[1], b[2]>> /\ a[2] \in Nat /\ b[2] \in Nat
        BY SlotParts
    <2>2. (a[1] = "out" => a[2] # 0) /\ (b[1] = "out" => b[2] # 0)
        BY <1>6, <1>7
    <2> QED BY <1>7, <2>1, <2>2
<1> HIDE DEF p
<1> QED BY <1>2, <1>3, <1>6, <1>7, OneMoves

\* The reader takes the next event of the carrier.
LEMMA OneReads ==
    ASSUME IdsSuffice, Base, NEW e \in Ends, NEW c \in Chunks, One(e, c), ReaderTakes(e)
    PROVE  One(e, c)'
<1>0. PICK o \in Ends : o = Other(e)
    BY EndParts
<1>1. wire[o] \in Seq(Events) /\ reader \in [Ends -> Jobs]
    BY SentParts DEF Chunks, Base, Types, ReaderTypes
<1>2. /\ wire[o] # <<>> /\ wire'[o] = Tail(wire[o])
      /\ UNCHANGED <<got, sink, catcher, out, net, taken>>
    BY <1>0 DEF ReaderTakes, Base, Types, QueueTypes, linkVars
<1> DEFINE p == [a \in Slots |-> IF a[1] = "wire" THEN <<"wire", a[2] + 1>>
                                 ELSE IF a = <<"reader", 0>> THEN <<"wire", 1>> ELSE a]
<1>3. p \in [Slots -> Slots]
    BY DEF Slots
<1>4. \A i \in Nat : Bears(wire'[o], i, c) => Bears(wire[o], i + 1, c) /\ i # 0
    <2>1. \A i \in Nat : Bears(Tail(wire[o]), i, c) => Bears(wire[o], i + 1, c) /\ i # 0
        BY <1>1, <1>2, BearsMoves
    <2> QED BY <1>2, <2>1
<1>5. Busy(reader'[e], c) => Bears(wire[o], 1, c)
    <2>1. PICK ev : ev = Head(wire[o])
        OBVIOUS
    <2>2. /\ ev \in Events /\ Good(ev) /\ reader'[e] = After(e, ev)
          /\ ev.type = "open" => After(e, ev) = IF e = "server" THEN Connecting(ev.s) ELSE Idle
          /\ IsChunk(ev) => After(e, ev) = Routed(e, ev)
          /\ ev.type \notin {"open", "data", "datagram"} => After(e, ev) = Idle
        BY <1>0, <1>1, <2>1, Taken
    <2>3. CASE IsChunk(ev)
        <3>1. reader'[e] = Idle \/ reader'[e] = Handing(ev.chunk[1], ev.chunk)
            BY <2>2, <2>3, Route
        <3>2. Busy(reader'[e], c) => ev.chunk = c
            BY <3>1 DEF Busy, Idle, Handing
        <3> QED BY <1>1, <1>2, <2>1, <2>3, <3>2, BearsMoves
    <2>4. CASE ev.type = "open"
        BY <2>2, <2>4 DEF Busy, Idle, Connecting
    <2>5. CASE ev.type \notin {"open", "data", "datagram"}
        BY <2>2, <2>5 DEF Busy, Idle
    <2> QED BY <2>3, <2>4, <2>5 DEF IsChunk
<1>6. ASSUME NEW a \in Slots, At(e, a, c)'
      PROVE  At(e, p[a], c) /\ (a[1] = "wire" => a[2] # 0)
    <2>0. a = <<a[1], a[2]>> /\ a[2] \in Nat
        BY SlotParts
    <2>1. CASE a[1] = "wire"
        <3>1. Bears(wire'[o], a[2], c)
            BY <1>0, <1>6, <2>1 DEF At
        <3>2. Bears(wire[o], a[2] + 1, c) /\ a[2] # 0 /\ p[a] = <<"wire", a[2] + 1>>
            BY <1>4, <2>0, <2>1, <3>1
        <3> QED BY <1>0, <3>2 DEF At
    <2>2. CASE a[1] = "reader"
        <3>1. Busy(reader'[e], c) /\ a[2] = 0
            BY <1>0, <1>6, <2>2 DEF At
        <3>2. p[a] = <<"wire", 1>> /\ Bears(wire[o], 1, c)
            BY <1>5, <2>0, <2>2, <3>1
        <3> QED BY <1>0, <2>2, <3>2 DEF At
    <2>3. CASE a[1] \notin {"wire", "reader"}
        <3>1. p[a] = a
            BY <2>0, <2>3
        <3> QED BY <1>2, <1>6, <2>3, <3>1 DEF At
    <2> QED BY <2>1, <2>2, <2>3
<1>7. ASSUME NEW a \in Slots, NEW b \in Slots, At(e, a, c)', At(e, b, c)', p[a] = p[b]
      PROVE  a = b
    <2>1. a = <<a[1], a[2]>> /\ b = <<b[1], b[2]>> /\ a[2] \in Nat /\ b[2] \in Nat
        BY SlotParts
    <2>2. (a[1] = "wire" => a[2] # 0) /\ (b[1] = "wire" => b[2] # 0)
        BY <1>6, <1>7
    <2> QED BY <1>7, <2>1, <2>2
<1> HIDE DEF p
<1> QED BY <1>2, <1>3, <1>6, <1>7, OneMoves

\* A chunk leaves a reader's hand, for the sink or for good.
LEMMA OneHands ==
    ASSUME Base, NEW e \in Ends, NEW c \in Chunks, One(e, c),
           NEW s \in Streams, NEW x \in Chunks, x[1] = s, HandTo(e, s, x),
           NEW r \in {"reader", "catcher"}, At(e, <<r, 0>>, x), ~At(e, <<r, 0>>, c)',
           r = "reader" => catcher' = catcher, r = "catcher" => reader' = reader,
           UNCHANGED <<got, wire, out, net, taken>>
    PROVE  One(e, c)'
<1>1. c[1] \in Streams /\ sink \in [Ends -> [Streams -> Seq(Chunks)]]
    BY DEF Chunks, Base, Types, SinkTypes
<1>2. Len(sink[e][c[1]]) \in Nat /\ sink[e][c[1]] \in Seq(Chunks)
    BY <1>1, LenProperties
<1> DEFINE k == Len(sink[e][c[1]]) + 1
           p == [a \in Slots |-> IF a = <<"sink", k>> THEN <<r, 0>> ELSE a]
<1>3. p \in [Slots -> Slots]
    BY DEF Slots
<1>4. \A i : Holds(sink'[e][c[1]], i, c) => (Holds(sink[e][c[1]], i, c) /\ i # k) \/ (i = k /\ x = c)
    <2>1. \A i : Holds(sink[e][c[1]], i, c) => i # k
        BY <1>2 DEF Holds
    <2>2. CASE sink'[e][c[1]] = sink[e][c[1]]
        BY <2>1, <2>2
    <2>3. CASE sink'[e][c[1]] = Append(sink[e][c[1]], x)
        <3>1. ASSUME NEW i, Holds(Append(sink[e][c[1]], x), i, c)
              PROVE  Holds(sink[e][c[1]], i, c) \/ (i = k /\ x = c)
            BY <1>2, <3>1, HoldsMoves
        <3> QED BY <2>1, <2>3, <3>1
    <2>4. sink'[e][c[1]] = sink[e][c[1]] \/ sink'[e][c[1]] = Append(sink[e][c[1]], x)
        <3>1. CASE UNCHANGED sink
            BY <3>1
        <3>2. CASE sink' = [sink EXCEPT ![e][s] = Append(sink[e][s], x)]
            BY <1>1, <3>2
        <3> QED BY <3>1, <3>2 DEF HandTo
    <2> QED BY <2>2, <2>3, <2>4
<1> HIDE DEF k
<1>5. ASSUME NEW a \in Slots, At(e, a, c)'
      PROVE  At(e, p[a], c) /\ a # <<r, 0>>
    <2>0. a = <<a[1], a[2]>> /\ a[2] \in Nat /\ a # <<r, 0>>
        BY <1>5, SlotParts
    <2>1. CASE a[1] = "sink"
        <3>1. Holds(sink'[e][c[1]], a[2], c)
            BY <1>5, <2>1 DEF At
        <3>2. CASE a[2] = k /\ x = c
            <4>1. p[a] = <<r, 0>>
                BY <2>0, <2>1, <3>2
            <4> QED BY <2>0, <3>2, <4>1
        <3>3. CASE Holds(sink[e][c[1]], a[2], c) /\ a[2] # k
            <4>1. p[a] = a
                BY <2>0, <2>1, <3>3
            <4> QED BY <2>0, <2>1, <3>3, <4>1 DEF At
        <3> QED BY <1>4, <3>1, <3>2, <3>3
    <2>2. CASE a[1] # "sink"
        <3>1. p[a] = a
            BY <2>0, <2>2
        <3>2. CASE r = "reader"
            <4>1. a[1] # "reader"
                BY <1>5, <2>0, <3>2 DEF At
            <4> QED BY <1>5, <2>0, <2>2, <3>1, <3>2, <4>1 DEF At
        <3>3. CASE r = "catcher"
            <4>1. a[1] # "catcher"
                BY <1>5, <2>0, <3>3 DEF At
            <4> QED BY <1>5, <2>0, <2>2, <3>1, <3>3, <4>1 DEF At
        <3> QED BY <3>2, <3>3
    <2> QED BY <2>1, <2>2
<1>6. ASSUME NEW a \in Slots, NEW b \in Slots, At(e, a, c)', At(e, b, c)', p[a] = p[b]
      PROVE  a = b
    <2>1. a # <<r, 0>> /\ b # <<r, 0>>
        BY <1>5, <1>6
    <2> QED BY <1>6, <2>1
<1> HIDE DEF p
<1> QED BY <1>3, <1>5, <1>6, OneMoves

\* The datagram reader takes what arrived: no other copy is in the air.
LEMMA OneCatches ==
    ASSUME IdsSuffice, Base, NEW e \in Ends, NEW c \in Chunks, One(e, c), CatcherTakes(e)
    PROVE  One(e, c)'
<1>0. PICK o \in Ends : o = Other(e)
    BY EndParts
<1>1. catcher \in [Ends -> Jobs] /\ net \in [Ends -> SUBSET Datagrams]
    BY DEF Base, Types, ReaderTypes, QueueTypes
<1>2. PICK ev \in net[o] :
          /\ ev \in Events /\ Good(ev) /\ ev.type = "datagram" /\ IsChunk(ev)
          /\ net' = [net EXCEPT ![o] = net[o] \ {ev}]
          /\ catcher' = [catcher EXCEPT ![e] = Routed(e, ev)]
    BY <1>0, Caught
<1>3. /\ net'[o] = net[o] \ {ev} /\ catcher'[e] = Routed(e, ev)
      /\ UNCHANGED <<got, sink, reader, out, wire, taken>>
    BY <1>1, <1>2 DEF CatcherTakes, streamVars, queueVars
<1>4. Busy(catcher'[e], c) => ev.chunk = c
    <2>1. catcher'[e] = Idle \/ catcher'[e] = Handing(ev.chunk[1], ev.chunk)
        BY <1>2, <1>3, Route
    <2> QED BY <2>1 DEF Busy, Idle, Handing
<1>5. Afloat(net'[o], c) => ev.chunk # c
    <2>1. ASSUME NEW x \in net[o], x.chunk = ev.chunk PROVE x = ev
        <3>1. x \in Datagrams /\ ev \in Datagrams
            BY <1>1, <1>2, <2>1
        <3>2. /\ x \in [type : {"data", "datagram"}, id : Ids, chunk : Streams \X Nat]
              /\ ev \in [type : {"data", "datagram"}, id : Ids, chunk : Streams \X Nat]
            BY <3>1 DEF Datagrams, GoodEvents, Events
        <3>3. x.type = ev.type /\ x.id = ev.id
            BY <2>1, <3>1 DEF Datagrams, GoodEvents, Good, IsChunk
        <3> QED BY <2>1, <3>2, <3>3
    <2> QED BY <1>3, <2>1 DEF Afloat
<1> DEFINE p == [a \in Slots |-> IF a = <<"catcher", 0>> THEN <<"net", 0>> ELSE a]
<1>6. p \in [Slots -> Slots]
    BY DEF Slots
<1>7. Afloat(net'[o], c) => Afloat(net[o], c)
    BY <1>3 DEF Afloat
<1>8. ASSUME NEW a \in Slots, At(e, a, c)'
      PROVE  /\ At(e, p[a], c) /\ (a[1] = "catcher" => a[2] = 0 /\ ev.chunk = c)
             /\ a[1] = "net" => ev.chunk # c
    <2>0. a = <<a[1], a[2]>> /\ a[2] \in Nat
        BY SlotParts
    <2>1. CASE a[1] = "catcher"
        <3>1. Busy(catcher'[e], c) /\ a[2] = 0
            BY <1>8, <2>1 DEF At
        <3>2. p[a] = <<"net", 0>> /\ ev.chunk = c
            BY <1>4, <2>0, <2>1, <3>1
        <3> QED BY <1>0, <1>2, <2>1, <3>1, <3>2 DEF At, Afloat
    <2>2. CASE a[1] = "net"
        <3>1. Afloat(net'[o], c) /\ a[2] = 0 /\ p[a] = a
            BY <1>0, <1>8, <2>2 DEF At
        <3> QED BY <1>0, <1>5, <1>7, <2>2, <3>1 DEF At
    <2>3. CASE a[1] \notin {"catcher", "net"}
        <3>1. p[a] = a
            BY <2>0, <2>3
        <3> QED BY <1>3, <1>8, <2>3, <3>1 DEF At
    <2> QED BY <2>1, <2>2, <2>3
<1>9. ASSUME NEW a \in Slots, NEW b \in Slots, At(e, a, c)', At(e, b, c)', p[a] = p[b]
      PROVE  a = b
    <2>1. /\ a[1] = "catcher" => a[2] = 0 /\ ev.chunk = c
          /\ b[1] = "catcher" => b[2] = 0 /\ ev.chunk = c
          /\ a[1] = "net" => ev.chunk # c
          /\ b[1] = "net" => ev.chunk # c
        BY <1>8, <1>9
    <2> QED BY <1>9, <2>1
<1> HIDE DEF p
<1> QED BY <1>3, <1>6, <1>8, <1>9, OneMoves

\* The socket takes the head of its sink.
LEMMA OneGives ==
    ASSUME Base, NEW e \in Ends, NEW c \in Chunks, One(e, c), Give(e, c[1])
    PROVE  One(e, c)'
<1> DEFINE q == sink[e][c[1]]
           g == got[e][c[1]]
<1>1. c[1] \in Streams
    BY DEF Chunks
<1>2. /\ q \in Seq(Chunks) /\ g \in Seq(Chunks) /\ q # <<>>
      /\ sink'[e][c[1]] = Tail(q) /\ got'[e][c[1]] = Append(g, Head(q))
      /\ UNCHANGED <<reader, catcher, out, wire, net, taken>>
    BY <1>1 DEF Base, Types, SinkTypes, Give, queueVars, readerVars, linkVars
<1>3. \A a : (a[1] = "sink" => (At(e, a, c) <=> Holds(q, a[2], c)))
             /\ (a[1] = "got" => (At(e, a, c) <=> Holds(g, a[2], c)))
    BY DEF At
<1> HIDE DEF q, g
<1>4. Len(g) \in Nat
    BY <1>2, LenProperties
<1> DEFINE k == Len(g) + 1
           p == [a \in Slots |-> IF a[1] = "sink" THEN <<"sink", a[2] + 1>>
                                 ELSE IF a = <<"got", k>> THEN <<"sink", 1>> ELSE a]
<1>5. p \in [Slots -> Slots]
    BY DEF Slots
<1>6. \A i \in Nat : Holds(Tail(q), i, c) => Holds(q, i + 1, c) /\ i # 0
    BY <1>2, HoldsMoves
<1>7. ASSUME NEW i, Holds(Append(g, Head(q)), i, c)
      PROVE  (Holds(g, i, c) /\ i # k) \/ (i = k /\ Holds(q, 1, c))
    <2>1. Holds(g, i, c) \/ (i = k /\ Head(q) = c)
        BY <1>2, <1>7, HoldsMoves
    <2>2. Holds(g, i, c) => i # k
        BY <1>4 DEF Holds
    <2>3. Head(q) = c => Holds(q, 1, c)
        BY <1>2, HoldsMoves
    <2> QED BY <2>1, <2>2, <2>3
<1> HIDE DEF k
<1>8. ASSUME NEW a \in Slots, At(e, a, c)'
      PROVE  At(e, p[a], c) /\ (a[1] = "sink" => a[2] # 0)
    <2>0. a = <<a[1], a[2]>> /\ a[2] \in Nat
        BY SlotParts
    <2>1. CASE a[1] = "sink"
        <3>1. Holds(Tail(q), a[2], c)
            BY <1>2, <1>8, <2>1 DEF At
        <3>2. Holds(q, a[2] + 1, c) /\ a[2] # 0 /\ p[a] = <<"sink", a[2] + 1>>
            BY <1>6, <2>0, <2>1, <3>1
        <3> QED BY <1>3, <3>2
    <2>2. CASE a[1] = "got"
        <3>1. Holds(Append(g, Head(q)), a[2], c)
            BY <1>2, <1>8, <2>2 DEF At
        <3>2. CASE Holds(g, a[2], c) /\ a[2] # k
            <4>1. p[a] = a
                BY <2>0, <2>2, <3>2
            <4> QED BY <1>3, <2>2, <3>2, <4>1
        <3>3. CASE a[2] = k /\ Holds(q, 1, c)
            <4>1. p[a] = <<"sink", 1>>
                BY <2>0, <2>2, <3>3
            <4> QED BY <1>3, <2>2, <3>3, <4>1
        <3> QED BY <1>7, <3>1, <3>2, <3>3
    <2>3. CASE a[1] \notin {"sink", "got"}
        <3>1. p[a] = a
            BY <2>0, <2>3
        <3> QED BY <1>2, <1>8, <2>3, <3>1 DEF At
    <2> QED BY <2>1, <2>2, <2>3
<1>9. ASSUME NEW a \in Slots, NEW b \in Slots, At(e, a, c)', At(e, b, c)', p[a] = p[b]
      PROVE  a = b
    <2>1. a = <<a[1], a[2]>> /\ b = <<b[1], b[2]>> /\ a[2] \in Nat /\ b[2] \in Nat
        BY SlotParts
    <2>2. (a[1] = "sink" => a[2] # 0) /\ (b[1] = "sink" => b[2] # 0)
        BY <1>8, <1>9
    <2> QED BY <1>9, <2>1, <2>2
<1> HIDE DEF p
<1> QED BY <1>2, <1>5, <1>8, <1>9, OneMoves

\* A chunk comes out of a socket: its number is a new one.
LEMMA OneNew ==
    ASSUME IdsSuffice, Base, NEW e \in Ends, NEW c \in Chunks, One(e, c), NEW t \in Streams,
           ReadChunk(Other(e), t)
    PROVE  One(e, c)'
<1>0. PICK o \in Ends : o = Other(e)
    BY EndParts
<1>1. /\ out[o] \in Seq(Events) /\ taken \in [Ends -> [Streams -> Nat]] /\ out \in [Ends -> Seq(GoodEvents)]
      /\ c[1] \in Streams /\ c[2] \in Nat /\ c = <<c[1], c[2]>>
    BY SentParts, SMTT(30) DEF Chunks, Base, Types, ControlTypes, QueueTypes
<1> DEFINE k == taken[o][t] + 1
           x == ChunkEvent(t, k)
<1>2. /\ k \in Nat /\ out'[o] = Append(out[o], x) /\ taken' = [taken EXCEPT ![o][t] = k]
      /\ UNCHANGED <<got, sink, reader, catcher, wire, net>>
    BY <1>0, <1>1 DEF ReadChunk, Queue, streamVars, readerVars, linkVars
<1>3. IsChunk(x) /\ x.chunk = <<t, k>>
    BY <1>2, EventParts
<1>4. \A i : Bears(out'[o], i, c) => Bears(out[o], i, c) \/ (i = Len(out[o]) + 1 /\ c = <<t, k>>)
    <2> HIDE DEF x
    <2>1. ASSUME NEW i, Bears(Append(out[o], x), i, c)
          PROVE  Bears(out[o], i, c) \/ (i = Len(out[o]) + 1 /\ x.chunk = c)
        BY <1>1, <2>1, BearsMoves
    <2> QED BY <1>2, <1>3, <2>1
<1>5. /\ c[2] <= taken[o][c[1]] => c[2] <= taken'[o][c[1]]
      /\ c = <<t, k>> => c[2] <= taken'[o][c[1]] /\ ~(c[2] <= taken[o][c[1]])
    BY <1>1, <1>2
<1> HIDE DEF x, k
<1>6. ASSUME NEW a \in Slots, At(e, a, c)'
      PROVE  At(e, a, c) \/ (c = <<t, k>> /\ a = <<"out", Len(out[o]) + 1>>)
    <2>1. a = <<a[1], a[2]>>
        BY SlotParts
    <2>2. CASE a[1] = "out"
        <3>1. Bears(out'[o], a[2], c)
            BY <1>0, <1>6, <2>2 DEF At
        <3>2. CASE Bears(out[o], a[2], c)
            BY <1>0, <2>2, <3>2 DEF At
        <3>3. CASE a[2] = Len(out[o]) + 1 /\ c = <<t, k>>
            BY <2>1, <2>2, <3>3
        <3> QED BY <1>4, <3>1, <3>2, <3>3
    <2>3. CASE a[1] # "out"
        BY <1>2, <1>6, <2>3 DEF At
    <2> QED BY <2>2, <2>3
<1>7. CASE c = <<t, k>>
    <2>1. \A a \in Slots : ~At(e, a, c)
        BY <1>0, <1>5, <1>7 DEF One
    <2>2. \A a \in Slots : At(e, a, c)' => a = <<"out", Len(out[o]) + 1>>
        BY <1>6, <2>1
    <2>3. \A a \in Slots : At(e, a, c)' => c[2] <= taken'[Other(e)][c[1]]
        BY <1>0, <1>5, <1>7
    <2> QED BY <2>2, <2>3 DEF One
<1>8. CASE c # <<t, k>>
    BY <1>0, <1>5, <1>6, <1>8, OneStays
<1> QED BY <1>7, <1>8

\* A broken carrier swallows the head of the channel.
LEMMA OneDrops ==
    ASSUME Base, NEW e \in Ends, NEW c \in Chunks, One(e, c), out[Other(e)] # <<>>,
           out' = [out EXCEPT ![Other(e)] = Tail(out[Other(e)])],
           UNCHANGED <<got, sink, reader, catcher, wire, net, taken>>
    PROVE  One(e, c)'
<1>0. PICK o \in Ends : o = Other(e)
    BY EndParts
<1>1. out[o] \in Seq(Events) /\ out'[o] = Tail(out[o])
    BY <1>0, SentParts DEF Chunks, Base, Types, QueueTypes
<1> DEFINE p == [a \in Slots |-> IF a[1] = "out" THEN <<"out", a[2] + 1>> ELSE a]
<1>2. p \in [Slots -> Slots]
    BY DEF Slots
<1>3. \A i \in Nat : Bears(out'[o], i, c) => Bears(out[o], i + 1, c)
    <2>1. \A i \in Nat : Bears(Tail(out[o]), i, c) => Bears(out[o], i + 1, c)
        BY <1>0, <1>1, BearsMoves
    <2> QED BY <1>1, <2>1
<1>4. ASSUME NEW a \in Slots, At(e, a, c)' PROVE At(e, p[a], c)
    <2>1. CASE a[1] = "out"
        <3>1. Bears(out'[o], a[2], c) /\ a[2] \in Nat
            BY <1>0, <1>4, <2>1, SlotParts DEF At
        <3>2. Bears(out[o], a[2] + 1, c) /\ p[a] = <<"out", a[2] + 1>>
            BY <1>3, <2>1, <3>1
        <3> QED BY <1>0, <3>2 DEF At
    <2>2. CASE a[1] # "out"
        <3>1. p[a] = a
            BY <2>2
        <3> QED BY <1>4, <2>2, <3>1 DEF At
    <2> QED BY <2>1, <2>2
<1>5. ASSUME NEW a \in Slots, NEW b \in Slots, p[a] = p[b] PROVE a = b
    BY <1>5, SlotParts
<1> HIDE DEF p
<1> QED BY <1>2, <1>4, <1>5, OneMoves

LEMMA SingleKept ==
    ASSUME IdsSuffice, Base, Next, NEW e \in Ends, Single(e)
    PROVE  Single(e)'
<1> SUFFICES ASSUME NEW c \in Chunks PROVE One(e, c)'
    BY DEF Single
<1>0. /\ One(e, c) /\ Other(e) \in Ends /\ Other(e) # e /\ Other(Other(e)) = e /\ c[1] \in Streams
      /\ taken \in [Ends -> [Streams -> Nat]]
      /\ sink \in [Ends -> [Streams -> Seq(Chunks)]] /\ got \in [Ends -> [Streams -> Seq(Chunks)]]
      /\ reader \in [Ends -> Jobs] /\ catcher \in [Ends -> Jobs] /\ InHand
      /\ out \in [Ends -> Seq(GoodEvents)] /\ wire \in [Ends -> Seq(GoodEvents)]
      /\ net \in [Ends -> SUBSET Datagrams]
    BY EndParts DEF Single, Chunks, Base, Types, ControlTypes, SinkTypes, ReaderTypes, QueueTypes
<1>1. ASSUME UNCHANGED <<got, sink, reader, catcher, wire, out, net, taken>> PROVE One(e, c)'
    BY <1>0, <1>1, OneQuiet DEF Quiet
<1>2. ASSUME NEW d \in Ends, NEW ev, ~IsChunk(ev), Queue(d, ev), reader'[e] = reader[e] \/ reader'[e].pc # "deliver",
             UNCHANGED <<got, sink, catcher, wire, net, taken>>
      PROVE  One(e, c)'
    <2>1. out'[Other(e)] = out[Other(e)] \/ out'[Other(e)] = Append(out[Other(e)], ev)
        BY <1>0, <1>2 DEF Queue
    <2> QED BY <1>0, <1>2, <2>1, OneQuiet DEF Quiet
<1>3. CASE Request \/ Break
    BY <1>1, <1>3 DEF Request, Break, streamVars, readerVars, queueVars, linkVars
<1>4. CASE CadenceTick
    <2>1. CASE activity
        BY <1>1, <1>4, <2>1 DEF CadenceTick, streamVars, readerVars, linkVars
    <2>2. CASE ~activity
        BY <1>2, <1>4, <2>2, EventParts, EndParts DEF CadenceTick, streamVars, readerVars, linkVars
    <2> QED BY <2>1, <2>2
<1>5. ASSUME NEW t \in Streams, SendOpen(t) PROVE One(e, c)'
    <2>1. ~IsChunk(OpenEvent(t))
        BY EventParts DEF IsChunk
    <2> QED BY <1>2, <1>5, <2>1, EndParts DEF SendOpen, streamVars, readerVars, linkVars
<1>6. ASSUME NEW t \in Streams, OpenFails(t) \/ Register(t) PROVE One(e, c)'
    BY <1>1, <1>6 DEF OpenFails, Register, streamVars, readerVars, queueVars, linkVars
<1>7. ASSUME NEW d \in Ends, NEW t \in Streams, ReadChunk(d, t) PROVE One(e, c)'
    <2>1. CASE d = Other(e)
        BY <1>0, <1>7, <2>1, OneNew
    <2>2. CASE d # Other(e)
        <3>1. /\ out'[Other(e)] = out[Other(e)] /\ taken'[Other(e)] = taken[Other(e)]
              /\ UNCHANGED <<got, sink, reader, catcher, wire, net>>
            BY <1>0, <1>7, <2>2 DEF ReadChunk, Queue, streamVars, readerVars, linkVars
        <3> QED BY <1>0, <3>1, OneQuiet DEF Quiet
    <2> QED BY <2>1, <2>2
<1>8. ASSUME NEW d \in Ends, NEW t \in Streams, SourceEnds(d, t) PROVE One(e, c)'
    <2>1. CASE Queue(d, CloseEvent(t))
        <3>1. ~IsChunk(CloseEvent(t))
            BY EventParts DEF IsChunk
        <3> QED BY <1>2, <1>8, <2>1, <3>1 DEF SourceEnds, readerVars, linkVars
    <2>2. CASE UNCHANGED out
        BY <1>1, <1>8, <2>2 DEF SourceEnds, readerVars, linkVars
    <2> QED BY <1>8, <2>1, <2>2 DEF SourceEnds
<1>9. ASSUME NEW d \in Ends, NEW t \in Streams,
             SourceFails(d, t) \/ UdpEnds(d, t) \/ SourceGone(d, t) \/ Shutdown(d, t)
      PROVE  One(e, c)'
    BY <1>1, <1>9 DEF SourceFails, UdpEnds, SourceGone, Shutdown, readerVars, queueVars, linkVars
<1>10. ASSUME NEW d \in Ends, NEW t \in Streams, Give(d, t) PROVE One(e, c)'
    <2>1. CASE d = e /\ t = c[1]
        BY <1>0, <1>10, <2>1, OneGives
    <2>2. CASE d # e \/ t # c[1]
        <3>1. got'[e][c[1]] = got[e][c[1]]
            BY <1>0, <1>10, <2>2 DEF Give
        <3>2. sink'[e][c[1]] = sink[e][c[1]]
            BY <1>0, <1>10, <2>2 DEF Give
        <3>3. UNCHANGED <<reader, catcher, wire, out, net, taken>>
            BY <1>10 DEF Give, readerVars, queueVars, linkVars
        <3> QED BY <1>0, <3>1, <3>2, <3>3, OneQuiet DEF Quiet
    <2> QED BY <2>1, <2>2
<1>11. ASSUME NEW d \in Ends, NEW t \in Streams, GiveFails(d, t) PROVE One(e, c)'
    <2>1. sink'[e][c[1]] = sink[e][c[1]] \/ sink'[e][c[1]] = <<>>
        BY <1>0, <1>11 DEF GiveFails
    <2>2. UNCHANGED <<got, reader, catcher, wire, out, net, taken>>
        BY <1>11 DEF GiveFails, readerVars, queueVars, linkVars
    <2> QED BY <1>0, <2>1, <2>2, OneQuiet DEF Quiet
<1>12. ASSUME NEW d \in Ends, WriteEvent(d) PROVE One(e, c)'
    <2>1. UNCHANGED <<got, sink, reader, catcher, net, taken>>
        BY <1>12 DEF WriteEvent, streamVars, readerVars, linkVars
    <2>2. CASE d = Other(e) /\ ~broken
        BY <1>0, <1>12, <2>2, OneWrites
    <2>3. CASE d # Other(e)
        <3>1. out'[Other(e)] = out[Other(e)] /\ wire'[Other(e)] = wire[Other(e)]
            BY <1>0, <1>12, <2>3 DEF WriteEvent, Written
        <3> QED BY <1>0, <2>1, <3>1, OneQuiet DEF Quiet
    <2>4. CASE d = Other(e) /\ broken
        <3>0. wire' = wire /\ out[d] # <<>>
            BY <1>12, <2>4 DEF WriteEvent
        <3>1. CASE out' = [out EXCEPT ![d] = <<>>]
            <4>1. out'[Other(e)] = <<>>
                BY <1>0, <2>4, <3>1
            <4> QED BY <1>0, <2>1, <3>0, <4>1, OneQuiet DEF Quiet
        <3>2. CASE out' = [out EXCEPT ![d] = Tail(out[d])]
            BY <1>0, <2>1, <2>4, <3>0, <3>2, OneDrops
        <3> QED BY <1>12, <2>4, <3>1, <3>2 DEF WriteEvent
    <2> QED BY <2>2, <2>3, <2>4
<1>13. ASSUME NEW d \in Ends, WriteNative(d) PROVE One(e, c)'
    <2>1. CASE d = Other(e)
        BY <1>0, <1>13, <2>1, OneNative
    <2>2. CASE d # Other(e)
        <3>1. out'[Other(e)] = out[Other(e)]
            BY <1>0, <1>13, <2>2 DEF WriteNative
        <3>2. net'[Other(e)] = net[Other(e)]
            BY <1>0, <1>13, <2>2 DEF WriteNative
        <3>3. UNCHANGED <<got, sink, reader, catcher, wire, taken>>
            BY <1>13 DEF WriteNative, streamVars, readerVars
        <3> QED BY <1>0, <3>1, <3>2, <3>3, OneQuiet DEF Quiet
    <2> QED BY <2>1, <2>2
<1>14. ASSUME NEW d \in Ends, LinkLost(d) PROVE One(e, c)'
    BY <1>1, <1>14 DEF LinkLost, streamVars, readerVars, queueVars
<1>15. ASSUME NEW d \in Ends, NativeLost(d) PROVE One(e, c)'
    <2>1. net'[Other(e)] \subseteq net[Other(e)]
        BY <1>0, <1>15 DEF NativeLost
    <2>2. UNCHANGED <<got, sink, reader, catcher, out, wire, taken>>
        BY <1>15 DEF NativeLost, streamVars, readerVars, queueVars
    <2> QED BY <1>0, <2>1, <2>2, OneQuiet DEF Quiet
<1>16. ASSUME NEW d \in Ends, ReaderTakes(d) PROVE One(e, c)'
    <2>1. CASE d = e
        BY <1>0, <1>16, <2>1, OneReads
    <2>2. CASE d # e
        <3>1. Other(d) # Other(e)
            BY <2>2, EndParts
        <3>2. wire'[Other(e)] = wire[Other(e)] /\ reader'[e] = reader[e]
            BY <1>0, <1>16, <2>2, <3>1 DEF ReaderTakes
        <3>3. UNCHANGED <<got, sink, catcher, out, net, taken>>
            BY <1>16 DEF ReaderTakes, linkVars
        <3> QED BY <1>0, <3>2, <3>3, OneQuiet DEF Quiet
    <2> QED BY <2>1, <2>2
<1>17. ASSUME NEW d \in Ends, ReaderConnects(d) \/ ReaderRefused(d) PROVE One(e, c)'
    <2>1. PICK j \in {Idle, Refusing(reader[d].s)} : reader' = [reader EXCEPT ![d] = j]
        BY <1>17 DEF ReaderConnects, ReaderRefused
    <2>2. j.pc # "deliver"
        BY <2>1 DEF Idle, Refusing
    <2>3. reader'[e] = reader[e] \/ reader'[e].pc # "deliver"
        BY <1>0, <2>1, <2>2
    <2>4. UNCHANGED <<got, sink, catcher, wire, out, net, taken>>
        BY <1>17 DEF ReaderConnects, ReaderRefused, streamVars, queueVars, linkVars
    <2> QED BY <1>0, <2>3, <2>4, OneQuiet DEF Quiet
<1>18. ASSUME NEW d \in Ends, ReaderRefuses(d) PROVE One(e, c)'
    <2>1. reader'[e] = reader[e] \/ reader'[e].pc # "deliver"
        BY <1>0, <1>18 DEF ReaderRefuses, Idle
    <2>2. UNCHANGED <<got, sink, catcher, wire, net, taken>>
        BY <1>18 DEF ReaderRefuses, streamVars, linkVars
    <2>3. ~IsChunk(CloseEvent(reader[d].s))
        BY DEF CloseEvent, IsChunk
    <2>4. CASE Queue(d, CloseEvent(reader[d].s))
        BY <1>2, <2>1, <2>2, <2>3, <2>4
    <2>5. CASE UNCHANGED out
        BY <1>0, <2>1, <2>2, <2>5, OneQuiet DEF Quiet
    <2> QED BY <1>18, <2>4, <2>5 DEF ReaderRefuses
<1>19. ASSUME NEW d \in Ends, NEW s \in Streams, NEW x, HandTo(d, s, x), d # e
       PROVE  sink'[e] = sink[e]
    BY <1>0, <1>19 DEF HandTo
<1>20. ASSUME NEW d \in Ends, ReaderHands(d) PROVE One(e, c)'
    <2>1. /\ reader[d].s \in Streams /\ reader[d].chunk \in Chunks /\ reader[d].chunk[1] = reader[d].s
          /\ reader[d].pc = "deliver" /\ HandTo(d, reader[d].s, reader[d].chunk)
          /\ reader' = [reader EXCEPT ![d] = Idle] /\ UNCHANGED <<got, catcher, wire, out, net, taken>>
        BY <1>0, <1>20, Parts DEF ReaderHands, InHand, queueVars, linkVars
    <2>2. CASE d = e
        <3>1. At(e, <<"reader", 0>>, reader[e].chunk)
            BY <2>1, <2>2 DEF At, Busy
        <3>2. ~At(e, <<"reader", 0>>, c)'
            BY <1>0, <2>1, <2>2 DEF At, Busy, Idle
        <3>3. /\ reader[e].s \in Streams /\ reader[e].chunk \in Chunks /\ reader[e].chunk[1] = reader[e].s
              /\ HandTo(e, reader[e].s, reader[e].chunk)
            BY <2>1, <2>2
        <3> QED BY <1>0, <2>1, <3>1, <3>2, <3>3, OneHands
    <2>3. CASE d # e
        <3>1. sink'[e] = sink[e] /\ reader'[e] = reader[e]
            BY <1>0, <1>19, <2>1, <2>3
        <3> QED BY <1>0, <2>1, <3>1, OneQuiet DEF Quiet
    <2> QED BY <2>2, <2>3
<1>21. ASSUME NEW d \in Ends, CatcherHands(d) PROVE One(e, c)'
    <2>1. /\ catcher[d].s \in Streams /\ catcher[d].chunk \in Chunks /\ catcher[d].chunk[1] = catcher[d].s
          /\ catcher[d].pc = "deliver" /\ HandTo(d, catcher[d].s, catcher[d].chunk)
          /\ catcher' = [catcher EXCEPT ![d] = Idle] /\ UNCHANGED <<got, reader, wire, out, net, taken>>
        BY <1>0, <1>21, Parts DEF CatcherHands, InHand, queueVars, linkVars
    <2>2. CASE d = e
        <3>1. At(e, <<"catcher", 0>>, catcher[e].chunk)
            BY <2>1, <2>2 DEF At, Busy
        <3>2. ~At(e, <<"catcher", 0>>, c)'
            BY <1>0, <2>1, <2>2 DEF At, Busy, Idle
        <3>3. /\ catcher[e].s \in Streams /\ catcher[e].chunk \in Chunks /\ catcher[e].chunk[1] = catcher[e].s
              /\ HandTo(e, catcher[e].s, catcher[e].chunk)
            BY <2>1, <2>2
        <3> QED BY <1>0, <2>1, <3>1, <3>2, <3>3, OneHands
    <2>3. CASE d # e
        <3>1. sink'[e] = sink[e] /\ catcher'[e] = catcher[e]
            BY <1>0, <1>19, <2>1, <2>3
        <3> QED BY <1>0, <2>1, <3>1, OneQuiet DEF Quiet
    <2> QED BY <2>2, <2>3
<1>22. ASSUME NEW d \in Ends, ReaderEnds(d) PROVE One(e, c)'
    <2>1. reader'[e] = reader[e] \/ reader'[e].pc # "deliver"
        BY <1>0, <1>22 DEF ReaderEnds, Done
    <2>2. wire'[Other(e)] = wire[Other(e)] \/ wire'[Other(e)] = <<>>
        BY <1>0, <1>22, EndParts DEF ReaderEnds
    <2>3. UNCHANGED <<got, sink, catcher, out, net, taken>>
        BY <1>22 DEF ReaderEnds, linkVars
    <2> QED BY <1>0, <2>1, <2>2, <2>3, OneQuiet DEF Quiet
<1>23. ASSUME NEW d \in Ends, CatcherTakes(d) PROVE One(e, c)'
    <2>1. CASE d = e
        BY <1>0, <1>23, <2>1, OneCatches
    <2>2. CASE d # e
        <3>1. net'[Other(e)] \subseteq net[Other(e)]
            BY <1>0, <1>23, EndParts DEF CatcherTakes
        <3>2. catcher'[e] = catcher[e]
            BY <1>0, <1>23, <2>2 DEF CatcherTakes
        <3>3. UNCHANGED <<got, sink, reader, out, wire, taken>>
            BY <1>23 DEF CatcherTakes, streamVars, queueVars
        <3> QED BY <1>0, <3>1, <3>2, <3>3, OneQuiet DEF Quiet
    <2> QED BY <2>1, <2>2
<1> QED BY Actions, <1>3, <1>4, <1>5, <1>6, <1>7, <1>8, <1>9, <1>10, <1>11, <1>12, <1>13, <1>14,
           <1>15, <1>16, <1>17, <1>18, <1>20, <1>21, <1>22, <1>23

-----------------------------------------------------------------------------
(* The theorems *)

LEMMA Started == ASSUME IdsSuffice, Init PROVE IInv
<1>0. /\ MaxStreams \in Nat /\ plan \in Plans /\ plan.ticks \in Nat /\ plan.native \in BOOLEAN
      /\ {OutCap, SinkCap, WireCap} \subseteq Nat /\ <<>> \in Seq(GoodEvents) /\ <<>> \in Seq(Chunks)
      /\ Len(<<>>) = 0
    BY RelayAssumption, EmptySeq DEF Init
<1>1. ControlTypes
    BY <1>0 DEF Init, ControlTypes
<1>2. FlagTypes
    <2>1. activity \in BOOLEAN /\ broken \in BOOLEAN
        BY DEF Init
    <2>2. link \in [Ends -> BOOLEAN]
        BY <1>0 DEF Init
    <2> QED BY <2>1, <2>2 DEF FlagTypes
<1>3. out = [e \in Ends |-> <<>>] /\ wire = [e \in Ends |-> <<>>] /\ net = [e \in Ends |-> {}]
    BY DEF Init
<1>4. QueueTypes
    BY <1>0, <1>3 DEF QueueTypes
<1>5. /\ sink = [e \in Ends |-> [s \in Streams |-> <<>>]]
      /\ got = [e \in Ends |-> [s \in Streams |-> <<>>]]
    BY DEF Init
<1>6. SinkTypes /\ Own
    BY <1>0, <1>5 DEF SinkTypes, Own
<1>7. reader = [e \in Ends |-> Idle] /\ catcher = [e \in Ends |-> Idle]
    BY DEF Init
<1>8. ReaderTypes /\ InHand
    BY <1>7, Parts, EndParts DEF ReaderTypes, InHand
<1>9. Registered
    BY DEF Init, Registered
<1>10. Staged
    BY EndParts DEF Init, Staged
<1>11. Base
    BY <1>1, <1>2, <1>4, <1>6, <1>8, <1>9, <1>10 DEF Base, Types
<1>12. ASSUME NEW e \in Ends, NEW s \in Tcp PROVE Link(e, s)
    <2>1. s \in Streams /\ Other(e) \in Ends /\ IdOf(s) \in Ids
        BY <1>0, PlanParts, EndParts, IdsDiffer
    <2>2. /\ wire[Other(e)] = <<>> /\ out[Other(e)] = <<>> /\ got[e][s] = <<>> /\ sink[e][s] = <<>>
          /\ reader[e] = Idle
        BY <1>3, <1>5, <1>7, <2>1
    <2>3. pump[e][s] = "off" /\ stage[e][s] = "none" /\ stage["client"][s] = "none" /\ taken[Other(e)][s] = 0
        BY <2>1, EndParts DEF Init
    <2>4. ~Handed(e, s) /\ reader[e].pc # "connect"
        BY <2>2, Parts DEF Handed
    <2>5. PICK m \in Nat : m = Sent(Other(e), s)
        BY <2>3 DEF Sent
    <2>6. m = IF e = "client" THEN 1 ELSE 0
        BY <2>3, <2>5 DEF Sent, Other, Ends
    <2>7. Carried(Other(e), s, m, m)
        BY <2>1, <2>2, <2>5, CountsEmpty DEF Carried
    <2>8. Reached(e, s, m, 0)
        BY <2>2, <2>3, <2>4, <2>6 DEF Reached, Run, Ends
    <2> QED BY <2>7, <2>8 DEF Link
<1>13. ASSUME NEW e \in Ends PROVE Single(e)
    <2>1. ASSUME NEW c \in Chunks, NEW a \in Slots PROVE ~At(e, a, c)
        <3>1. c[1] \in Streams /\ Other(e) \in Ends
            BY EndParts DEF Chunks
        <3>2. got[e][c[1]] = <<>> /\ sink[e][c[1]] = <<>> /\ reader[e] = Idle /\ catcher[e] = Idle
            BY <1>5, <1>7, <3>1
        <3>3. wire[Other(e)] = <<>> /\ out[Other(e)] = <<>> /\ net[Other(e)] = {}
            BY <1>3, <3>1
        <3>4. ~Busy(Idle, c) /\ ~Afloat({}, c) /\ \A i : ~Holds(<<>>, i, c) /\ ~Bears(<<>>, i, c)
            BY DEF Busy, Idle, Afloat, Holds, Bears
        <3> QED BY <3>2, <3>3, <3>4 DEF At
    <2> QED BY <2>1 DEF Single, One
<1> QED BY <1>11, <1>12, <1>13 DEF IInv, Links

LEMMA InvariantKept == ASSUME IdsSuffice, IInv, [Next]_vars PROVE IInv'
<1>1. CASE Next
    <2>1. Base' /\ Links' /\ \A e \in Ends : Single(e)'
        BY <1>1, BaseKept, LinksKept, SingleKept DEF IInv
    <2> QED BY <2>1 DEF IInv
<1>2. CASE UNCHANGED vars
    <2>1. UNCHANGED <<opened, stage, registry, sink, pump, source, taken, got, out, writer, wire,
                      reader, link, net, catcher, activity, ticks, broken, early, plan>>
        BY <1>2 DEF vars, streamVars, queueVars, readerVars, linkVars, counters, fixed
    <2>2. Tcp' = Tcp /\ GoodEvents' = GoodEvents
        <3>1. Tcp' = Tcp
            BY <2>1 DEF Tcp
        <3>2. \A ev : Good(ev)' <=> Good(ev)
            BY <3>1 DEF Good
        <3> QED BY <3>1, <3>2 DEF GoodEvents
    <2>3. Datagrams' = Datagrams
        BY <2>2 DEF Datagrams
    <2>4. Types'
        BY <2>1, <2>2, <2>3 DEF IInv, Base, Types, ControlTypes, FlagTypes, QueueTypes, SinkTypes, ReaderTypes
    <2>5. Registered' /\ InHand' /\ Staged' /\ Own'
        BY <2>1, <2>2 DEF IInv, Base, Registered, InHand, Staged, Own
    <2>6. ASSUME NEW e \in Ends, NEW s \in Tcp PROVE Link(e, s)'
        <3>1. PICK m, n, f \in Nat : Carried(Other(e), s, m, n) /\ Reached(e, s, m, f)
            BY DEF IInv, Links, Link
        <3>2. Sent(Other(e), s)' = Sent(Other(e), s)
            BY <2>1, SentSame
        <3>3. Carried(Other(e), s, m, n)'
            BY <2>1, <3>1, <3>2, CarriedSame
        <3>4. s \in Streams /\ (Handed(e, s)' <=> Handed(e, s))
            BY <2>1, PlanParts DEF Handed, IInv, Base, Types, ControlTypes
        <3>5. Reached(e, s, m, f)'
            BY <2>1, <3>1, <3>4, ReachedSame
        <3> QED BY <3>3, <3>5 DEF Link
    <2>7. ASSUME NEW e \in Ends PROVE Single(e)'
        BY <2>1 DEF IInv, Single, One, At
    <2> QED BY <2>2, <2>4, <2>5, <2>6, <2>7 DEF IInv, Base, Links
<1> QED BY <1>1, <1>2

\* The inductive invariant: while no id is used twice, the chunks of every stream are counted on
\* their way and at one place each, through any interleaving of the tasks of both ends, refusals,
\* failing sockets and a carrier that breaks.
THEOREM RelayInvariance == ASSUME IdsSuffice PROVE Spec => []IInv
<1>1. Init => IInv
    BY Started
<1>2. IInv /\ [Next]_vars => IInv'
    BY InvariantKept
<1> QED BY <1>1, <1>2, PTL DEF Spec

\* Types: no channel holds more than its room, and every queue holds well-formed events.
THEOREM RelayTyped == ASSUME IdsSuffice PROVE Spec => []TypeOK
<1>1. IInv => TypeOK
    <2> SUFFICES ASSUME IInv PROVE TypeOK
        OBVIOUS
    <2>1. ControlTypes /\ FlagTypes /\ QueueTypes /\ SinkTypes /\ ReaderTypes
        BY DEF IInv, Base, Types
    <2>2. ASSUME NEW e \in Ends
          PROVE  /\ Len(out[e]) <= OutCap /\ Len(wire[e]) <= WireCap
                 /\ \A i \in DOMAIN out[e] : out[e][i] \in Events
                 /\ \A i \in DOMAIN wire[e] : wire[e][i] \in Events
                 /\ \A s \in Streams : Len(sink[e][s]) <= SinkCap
                 /\ reader[e].pc \in {"recv", "connect", "refuse", "deliver", "done"}
                 /\ catcher[e].pc \in {"recv", "deliver"}
        <3>1. out[e] \in Seq(Events) /\ wire[e] \in Seq(Events)
            <4>1. out[e] \in Seq(GoodEvents) /\ wire[e] \in Seq(GoodEvents)
                BY <2>1 DEF QueueTypes
            <4> QED BY <4>1, GoodParts
        <3>2. /\ \A i \in DOMAIN out[e] : out[e][i] \in Events
              /\ \A i \in DOMAIN wire[e] : wire[e][i] \in Events
            BY <3>1, ElementOfSeq, LenProperties
        <3>3. reader[e] \in Jobs /\ catcher[e].pc \in {"recv", "deliver"}
            BY <2>1 DEF ReaderTypes
        <3> QED BY <2>1, <3>2, <3>3, Parts DEF QueueTypes, SinkTypes
    <2>3. link \in [Ends -> BOOLEAN]
        BY <2>1 DEF FlagTypes
    <2>4. {activity, broken} \subseteq BOOLEAN
        BY <2>1 DEF FlagTypes
    <2> QED BY <2>1, <2>2, <2>3, <2>4 DEF TypeOK, ControlTypes
<1> QED BY <1>1, RelayInvariance, PTL

\* What a socket was given and what waits for it, one after the other.
LEMMA ReceivedParts ==
    ASSUME SinkTypes, NEW e \in Ends, NEW s \in Streams
    PROVE  /\ Received(e, s) \in Seq(Chunks) /\ Len(got[e][s]) \in Nat /\ Len(sink[e][s]) \in Nat
           /\ Len(Received(e, s)) = Len(got[e][s]) + Len(sink[e][s])
           /\ DOMAIN Received(e, s) = 1..Len(Received(e, s))
           /\ \A i \in 1..Len(Received(e, s)) :
                 \/ i \in 1..Len(got[e][s]) /\ Received(e, s)[i] = got[e][s][i]
                 \/ /\ i - Len(got[e][s]) \in 1..Len(sink[e][s])
                    /\ Received(e, s)[i] = sink[e][s][i - Len(got[e][s])]
<1> DEFINE g == got[e][s]
           q == sink[e][s]
<1>1. g \in Seq(Chunks) /\ q \in Seq(Chunks)
    BY DEF SinkTypes
<1>2. Received(e, s) = g \o q
    BY DEF Received
<1> HIDE DEF g, q
<1>3. /\ g \o q \in Seq(Chunks) /\ Len(g) \in Nat /\ Len(q) \in Nat /\ Len(g \o q) = Len(g) + Len(q)
      /\ DOMAIN (g \o q) = 1..Len(g \o q)
      /\ \A i \in 1..(Len(g) + Len(q)) : (g \o q)[i] = IF i <= Len(g) THEN g[i] ELSE q[i - Len(g)]
    BY <1>1, ConcatProperties, LenProperties
<1>4. ASSUME NEW i \in 1..Len(g \o q)
      PROVE  \/ i \in 1..Len(g) /\ (g \o q)[i] = g[i]
             \/ i - Len(g) \in 1..Len(q) /\ (g \o q)[i] = q[i - Len(g)]
    BY <1>3
<1> QED BY <1>2, <1>3, <1>4 DEF g, q

\* TCP: a socket at either end is given chunks of its own stream only, in the order the other
\* socket produced them and without a hole; at the server from the first one on, and at the
\* client too unless the target spoke before open registered the stream.
THEOREM StreamsInOrder == ASSUME IdsSuffice PROVE Spec => []InOrderWithoutHoles
<1>1. IInv => InOrderWithoutHoles
    <2> SUFFICES ASSUME IInv, NEW e \in Ends, NEW s \in Tcp
                 PROVE  /\ \A i \in DOMAIN Received(e, s) : Received(e, s)[i][1] = s
                        /\ \A i \in 1..(Len(Received(e, s)) - 1) :
                              Received(e, s)[i + 1][2] = Received(e, s)[i][2] + 1
                        /\ Received(e, s) # <<>> /\ (e = "server" \/ s \notin early)
                              => Received(e, s)[1][2] = 1
        BY DEF InOrderWithoutHoles
    <2>1. s \in Streams /\ SinkTypes
        BY PlanParts DEF IInv, Base, Types, ControlTypes
    <2>2. PICK m, f \in Nat : Reached(e, s, m, f)
        BY DEF IInv, Links, Link
    <2>3. Run(got[e][s], s, f) /\ Run(sink[e][s], s, f + Len(got[e][s]))
        BY <2>2 DEF Reached
    <2>4. ASSUME NEW i \in 1..Len(Received(e, s)) PROVE Received(e, s)[i] = <<s, f + i>>
        <3>0. Len(got[e][s]) \in Nat /\ i \in Nat
            BY <2>1, ReceivedParts
        <3>1. CASE i \in 1..Len(got[e][s]) /\ Received(e, s)[i] = got[e][s][i]
            BY <2>3, <3>1 DEF Run
        <3>2. CASE /\ i - Len(got[e][s]) \in 1..Len(sink[e][s])
                   /\ Received(e, s)[i] = sink[e][s][i - Len(got[e][s])]
            <4>1. Received(e, s)[i] = <<s, (f + Len(got[e][s])) + (i - Len(got[e][s]))>>
                BY <2>3, <3>2 DEF Run
            <4>2. \A n \in Nat : (f + n) + (i - n) = f + i
                BY <3>0
            <4>3. (f + Len(got[e][s])) + (i - Len(got[e][s])) = f + i
                BY <3>0, <4>2
            <4> QED BY <4>1, <4>3
        <3> QED BY <2>1, <3>1, <3>2, ReceivedParts
    <2>5. /\ DOMAIN Received(e, s) = 1..Len(Received(e, s)) /\ Len(Received(e, s)) \in Nat
          /\ Received(e, s) # <<>> => Len(Received(e, s)) >= 1
        BY <2>1, ReceivedParts, EmptySeq
    <2>6. e = "server" \/ s \notin early => f = 0
        BY <2>2 DEF Reached
    <2> HIDE DEF Received
    <2>7. \A i \in DOMAIN Received(e, s) : Received(e, s)[i][1] = s
        BY <2>4, <2>5
    <2>8. ASSUME NEW i \in 1..(Len(Received(e, s)) - 1)
          PROVE  Received(e, s)[i + 1][2] = Received(e, s)[i][2] + 1
        <3>1. i \in 1..Len(Received(e, s)) /\ i + 1 \in 1..Len(Received(e, s))
            BY <2>5
        <3>2. Received(e, s)[i + 1] = <<s, f + (i + 1)>> /\ Received(e, s)[i] = <<s, f + i>>
            BY <2>4, <3>1
        <3> QED BY <3>2
    <2>9. Received(e, s) # <<>> /\ (e = "server" \/ s \notin early) => Received(e, s)[1][2] = 1
        <3> SUFFICES ASSUME Received(e, s) # <<>>, e = "server" \/ s \notin early
                     PROVE  Received(e, s)[1][2] = 1
            OBVIOUS
        <3>1. 1 \in 1..Len(Received(e, s)) /\ f = 0
            BY <2>5, <2>6
        <3>2. Received(e, s)[1] = <<s, f + 1>>
            BY <2>4, <3>1
        <3> QED BY <3>1, <3>2
    <2> QED BY <2>7, <2>8, <2>9
<1> QED BY <1>1, RelayInvariance, PTL

\* UDP: a socket is given datagrams of its own stream only, each at most once, whether it came
\* natively, over the session, or the link was lost in between.
THEOREM DatagramsArriveOnce == ASSUME IdsSuffice PROVE Spec => []DatagramsOnce
<1>1. IInv => DatagramsOnce
    <2> SUFFICES ASSUME IInv, NEW e \in Ends, NEW s \in Udp,
                        NEW i \in DOMAIN Received(e, s), NEW j \in DOMAIN Received(e, s)
                 PROVE  /\ Received(e, s)[i][1] = s
                        /\ Received(e, s)[i] = Received(e, s)[j] => i = j
        BY DEF DatagramsOnce
    <2>1. s \in Streams /\ SinkTypes /\ Own /\ Single(e)
        BY PlanParts DEF IInv, Base, Types, ControlTypes
    <2>2. /\ i \in 1..Len(Received(e, s)) /\ j \in 1..Len(Received(e, s)) /\ Len(got[e][s]) \in Nat
          /\ Received(e, s) \in Seq(Chunks) /\ Len(Received(e, s)) \in Nat
        BY <2>1, ReceivedParts, LenProperties
    <2>3. Received(e, s)[i] \in Chunks
        BY <2>2, ElementOfSeq
    \* Where the k-th chunk is.
    <2> DEFINE n == Len(got[e][s])
               slot(k) == IF k <= n THEN <<"got", k>> ELSE <<"sink", k - n>>
    <2>4. ASSUME NEW k \in 1..Len(Received(e, s))
          PROVE  /\ Received(e, s)[k][1] = s /\ slot(k) \in Slots
                 /\ At(e, slot(k), Received(e, s)[k])
        <3>1. CASE k \in 1..n /\ Received(e, s)[k] = got[e][s][k]
            <4>o. \A x \in 1..Len(got[e][s]) : got[e][s][x][1] = s
                BY <2>1 DEF Own
            <4>r. Received(e, s)[k][1] = s
                BY <3>1, <4>o
            <4>1. slot(k) = <<"got", k>> /\ slot(k) \in Slots
                BY <2>2, <3>1 DEF Slots
            <4> QED BY <3>1, <4>r, <4>1 DEF At, Holds
        <3>2. CASE k - n \in 1..Len(sink[e][s]) /\ Received(e, s)[k] = sink[e][s][k - n]
            <4>0. n \in Nat /\ k \in Nat /\ Len(sink[e][s]) \in Nat
                BY <2>1, <2>2, ReceivedParts
            <4>o. \A x \in 1..Len(sink[e][s]) : sink[e][s][x][1] = s
                BY <2>1 DEF Own
            <4> HIDE DEF n
            <4>1. Received(e, s)[k][1] = s
                <5> DEFINE x == k - n
                <5>1. x \in 1..Len(sink[e][s]) /\ Received(e, s)[k] = sink[e][s][x]
                    BY <3>2
                <5> HIDE DEF x
                <5> QED BY <4>o, <5>1
            <4>2. ~(k <= n) /\ k - n \in Nat
                BY <3>2, <4>0
            <4>3. slot(k) = <<"sink", k - n>> /\ slot(k) \in Slots
                BY <4>2 DEF Slots
            <4> QED BY <3>2, <4>1, <4>3 DEF At, Holds
        <3> QED BY <2>1, <3>1, <3>2, ReceivedParts
    <2>5. slot(i) = slot(j) => i = j
        BY <2>2
    <2> HIDE DEF slot
    <2>6. Received(e, s)[i] = Received(e, s)[j] => slot(i) = slot(j)
        BY <2>1, <2>2, <2>3, <2>4 DEF Single, One
    <2> QED BY <2>2, <2>4, <2>5, <2>6
<1> QED BY <1>1, RelayInvariance, PTL
=============================================================================
