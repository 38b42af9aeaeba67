------------------------------- MODULE Relay -------------------------------
(***************************************************************************)
(* The relay of vlyness-node/relay.rs at both ends of one tunnel, with the *)
(* SOCKS5 front end that drives it (socks.rs, client.rs run_socks and      *)
(* run_udp_associate).  At each end one writer task drains the outbound    *)
(* channel, one reader task hands what arrives to the sinks of a registry  *)
(* keyed by stream id, an optional second reader does so for native        *)
(* datagrams, and each stream has a task in either direction.              *)
(*                                                                         *)
(* The session below is the ordered, reliable channel that Session shows   *)
(* it to be, until the carrier breaks; the datagram side channel loses and *)
(* reorders but never repeats (DatagramChannel).  A stream is numbered by  *)
(* the call of open that made it, which the program cannot see: it knows   *)
(* streams by their 16 bit ids.  A chunk is <<stream, number>>.            *)
(***************************************************************************)
EXTENDS Integers, Sequences

CONSTANTS
    MaxStreams,  \* bound: calls of open and open_udp
    IdSpace,     \* 2^16: stream ids wrap here
    OutCap,      \* room of the outbound channel
    SinkCap,     \* room of a stream's sink
    WireCap,     \* bound: events the carrier holds in one direction
    Plans        \* what applications, targets and the carrier may do, see plan

Streams == 1..MaxStreams
Ends    == {"client", "server"}
Other(e) == IF e = "client" THEN "server" ELSE "client"
None    == 0

ASSUME RelayAssumption ==
    /\ MaxStreams \in Nat
    /\ IdSpace \in Nat \ {0} /\ IdSpace % 2 = 0
    /\ {OutCap, SinkCap, WireCap} \subseteq Nat \ {0}
    /\ \A p \in Plans : /\ p.tcp \subseteq Streams /\ p.udp \subseteq Streams
                        /\ p.tcp \cap p.udp = {}
                        /\ p.chunks \in [Ends -> [Streams -> Nat]]
                        /\ p.ends \subseteq Ends \X Streams /\ p.ticks \in Nat
                        /\ {p.native, p.harsh} \subseteq BOOLEAN

VARIABLES
    opened,     \* number of ids handed out; next_id is 2 * opened + 1
    stage,      \* stage[e][s]: "none", at the client "opening" and "sent", "wired", "refused"
    registry,   \* registry[e][id]: the stream whose sink is registered there, or None
    sink,       \* sink[e][s]: the chunks waiting in the stream's inbound channel
    pump,       \* pump[e][s]: the tunnel-to-socket task, "off", "run" or "shut"
    source,     \* source[e][s]: the socket-to-tunnel task, "off", "read", "closing" or "done"
    taken,      \* taken[e][s]: chunks that task has read and queued
    got,        \* got[e][s]: the chunks the socket has been given
    out,        \* out[e]: the outbound channel
    writer,     \* writer[e]: the writer task, "run" or "dead"
    wire,       \* wire[e]: what e has written and the other end not yet read
    reader,     \* reader[e]: what the reader task is doing
    link,       \* link[e]: the writer still has its datagram side
    net,        \* net[e]: native datagrams from e on their way
    catcher,    \* catcher[e]: what the datagram reader is doing
    activity,   \* the client's activity flag
    ticks,      \* ticks of the cadence driver so far
    broken,     \* the carrier has broken
    early,      \* history: streams for which something arrived before they were registered
    plan        \* never changes: tcp and udp, the streams of either kind; chunks, how many
                \* come out of each socket at most; ends, the sockets that may come to an
                \* end; ticks, how often the cadence driver ticks; native, whether the
                \* carrier has a datagram link; harsh, whether sockets and the carrier
                \* may fail

Tcp == plan.tcp
Udp == plan.udp

streamVars == <<registry, sink, pump, source, got>>
queueVars  == <<out, writer, wire>>
readerVars == <<reader, catcher>>
linkVars   == <<link, net>>
counters   == <<activity, ticks>>
fixed      == <<broken, early, plan>>
vars == <<opened, stage, streamVars, taken, queueVars, readerVars, linkVars, counters, fixed>>

\* next_id.fetch_add(2), from 1, in 16 bits.
IdOf(s) == (2 * s - 1) % IdSpace

Ids == 0..(IdSpace - 1)

Events == [type : {"open"}, s : Streams]
          \cup [type : {"data", "datagram"}, id : Ids, chunk : Streams \X Nat]
          \cup [type : {"close"}, id : Ids] \cup [type : {"keepalive"}]

\* MuxEvent: the frames the ends exchange.  Open names the target, hence the stream.
OpenEvent(s)     == [type |-> "open", s |-> s]
ChunkEvent(s, k) == [type |-> IF s \in Tcp THEN "data" ELSE "datagram",
                     id |-> IdOf(s), chunk |-> <<s, k>>]
CloseEvent(s)    == [type |-> "close", id |-> IdOf(s)]
KeepAlive        == [type |-> "keepalive"]

\* A reader between two events, or busy with one.
Idle           == [pc |-> "recv"]
Connecting(s)  == [pc |-> "connect", s |-> s]
Refusing(s)    == [pc |-> "refuse", s |-> s]
Handing(s, c)  == [pc |-> "deliver", s |-> s, chunk |-> c]
Done           == [pc |-> "done"]

TypeOK ==
    /\ opened \in 0..MaxStreams /\ plan \in Plans
    /\ stage \in [Ends -> [Streams -> {"none", "opening", "sent", "wired", "refused"}]]
    /\ registry \in [Ends -> [Ids -> Streams \cup {None}]]
    /\ pump \in [Ends -> [Streams -> {"off", "run", "shut"}]]
    /\ source \in [Ends -> [Streams -> {"off", "read", "closing", "done"}]]
    /\ \A e \in Ends :
          /\ Len(out[e]) <= OutCap /\ Len(wire[e]) <= WireCap
          /\ \A i \in DOMAIN out[e] : out[e][i] \in Events
          /\ \A i \in DOMAIN wire[e] : wire[e][i] \in Events
          /\ \A s \in Streams : Len(sink[e][s]) <= SinkCap
          /\ reader[e].pc \in {"recv", "connect", "refuse", "deliver", "done"}
          /\ catcher[e].pc \in {"recv", "deliver"}
    /\ writer \in [Ends -> {"run", "dead"}] /\ link \in [Ends -> BOOLEAN]
    /\ taken \in [Ends -> [Streams -> Nat]]
    /\ ticks \in 0..plan.ticks /\ {activity, broken} \subseteq BOOLEAN /\ early \subseteq Streams

Init ==
    /\ opened = 0 /\ ticks = 0 /\ early = {} /\ activity = FALSE /\ broken = FALSE
    /\ stage = [e \in Ends |-> [s \in Streams |-> "none"]]
    /\ registry = [e \in Ends |-> [i \in Ids |-> None]]
    /\ sink = [e \in Ends |-> [s \in Streams |-> <<>>]]
    /\ got = sink
    /\ pump = [e \in Ends |-> [s \in Streams |-> "off"]]
    /\ source = pump
    /\ taken = [e \in Ends |-> [s \in Streams |-> 0]]
    /\ out = [e \in Ends |-> <<>>] /\ wire = out
    /\ writer = [e \in Ends |-> "run"]
    /\ reader = [e \in Ends |-> Idle] /\ catcher = reader
    /\ plan \in Plans
    /\ link = [e \in Ends |-> plan.native] /\ net = [e \in Ends |-> {}]

-----------------------------------------------------------------------------
(* Channels *)

\* outbound.send(ev).await goes through: there is room and the writer lives.
Queue(e, ev) ==
    /\ writer[e] = "run" /\ Len(out[e]) < OutCap
    /\ out' = [out EXCEPT ![e] = Append(@, ev)]

\* Mutant: a full sink drops the chunk instead of making the reader wait.
TryHandTo(e, s, c) ==
    \/ /\ pump[e][s] = "run" /\ Len(sink[e][s]) < SinkCap
       /\ sink' = [sink EXCEPT ![e][s] = Append(@, c)]
    \/ /\ pump[e][s] = "run" => Len(sink[e][s]) = SinkCap
       /\ UNCHANGED sink

\* sink.send(chunk).await: waits for room, and fails at once when the task that
\* received is gone.
HandTo(e, s, c) ==
    \/ /\ pump[e][s] = "run" /\ Len(sink[e][s]) < SinkCap
       /\ sink' = [sink EXCEPT ![e][s] = Append(@, c)]
    \/ /\ pump[e][s] # "run"
       /\ UNCHANGED sink

Unregister(e, id) == registry' = [registry EXCEPT ![e][id] = None]

\* wire_stream and wire_udp: a fresh sink under the id, whatever was there before.
Wire(e, s) ==
    /\ stage' = [stage EXCEPT ![e][s] = "wired"]
    /\ registry' = [registry EXCEPT ![e][IdOf(s)] = s]
    /\ pump' = [pump EXCEPT ![e][s] = "run"]
    /\ source' = [source EXCEPT ![e][s] = "read"]

-----------------------------------------------------------------------------
(* The front end: streams are opened at the client *)

\* socks::accept has answered CONNECT, or a datagram for a new target came in on a
\* UDP association: open / open_udp takes the next id.
Request ==
    LET s == opened + 1 IN
    /\ s \in Tcp \cup Udp
    /\ opened' = s
    /\ stage' = [stage EXCEPT !["client"][s] = "opening"]
    /\ UNCHANGED <<streamVars, taken, queueVars, readerVars, linkVars, counters, fixed>>

\* The Open is queued; the stream is not registered yet.
SendOpen(s) ==
    /\ stage["client"][s] = "opening"
    /\ Queue("client", OpenEvent(s))
    /\ stage' = [stage EXCEPT !["client"][s] = "sent"]
    /\ UNCHANGED <<opened, streamVars, taken, writer, wire, readerVars, linkVars, counters,
                   fixed>>

\* The writer is gone: open fails and the application's socket is dropped.
OpenFails(s) ==
    /\ stage["client"][s] = "opening" /\ writer["client"] = "dead"
    /\ stage' = [stage EXCEPT !["client"][s] = "refused"]
    /\ UNCHANGED <<opened, streamVars, taken, queueVars, readerVars, linkVars, counters,
                   fixed>>

Register(s) ==
    /\ stage["client"][s] = "sent"
    /\ Wire("client", s)
    /\ UNCHANGED <<opened, sink, got, taken, queueVars, readerVars, linkVars, counters, fixed>>

-----------------------------------------------------------------------------
(* The tasks of a stream *)

\* Everything that comes out of a socket counts as activity, except what the client's
\* UDP sender sends.
MarksActivity(e, s) == e = "server" \/ s \in Tcp

ReadChunk(e, s) ==
    /\ source[e][s] = "read" /\ taken[e][s] < plan.chunks[e][s]
    /\ Queue(e, ChunkEvent(s, taken[e][s] + 1))
    /\ taken' = [taken EXCEPT ![e][s] = @ + 1]
    /\ activity' = (activity \/ (e = "client" /\ MarksActivity(e, s)))
    /\ UNCHANGED <<opened, stage, streamVars, writer, wire, readerVars, linkVars, ticks,
                   fixed>>

\* The writer is gone, which the task finds out when it next has something to send.
\* The client's UDP association ignores the error.
SourceFails(e, s) ==
    /\ source[e][s] = "read" /\ taken[e][s] < plan.chunks[e][s]
    /\ writer[e] = "dead"
    /\ e = "client" => s \in Tcp
    /\ source' = [source EXCEPT ![e][s] = "closing"]
    /\ UNCHANGED <<opened, stage, registry, sink, pump, got, taken, queueVars, readerVars,
                   linkVars, counters, fixed>>

\* Mutant: the end of a socket is not told to the peer.
SourceEndsSilently(e, s) ==
    /\ s \in Tcp /\ source[e][s] = "read" /\ <<e, s>> \in plan.ends
    /\ source' = [source EXCEPT ![e][s] = "closing"]
    /\ UNCHANGED <<opened, stage, registry, sink, pump, got, taken, queueVars, readerVars,
                   linkVars, counters, fixed>>

\* End of file or an error on a TCP socket: Close is sent, if it can be.
SourceEnds(e, s) ==
    /\ s \in Tcp /\ source[e][s] = "read" /\ <<e, s>> \in plan.ends
    /\ \/ Queue(e, CloseEvent(s))
       \/ writer[e] = "dead" /\ UNCHANGED out
    /\ source' = [source EXCEPT ![e][s] = "closing"]
    /\ UNCHANGED <<opened, stage, registry, sink, pump, got, taken, writer, wire, readerVars,
                   linkVars, counters, fixed>>

\* A UDP stream ends without a word: at the server an error of the socket, after which it
\* is unregistered; at the client the association's control connection, after which not.
UdpEnds(e, s) ==
    /\ s \in Udp /\ source[e][s] = "read" /\ <<e, s>> \in plan.ends
    /\ source' = [source EXCEPT ![e][s] = IF e = "server" THEN "closing" ELSE "done"]
    /\ UNCHANGED <<opened, stage, registry, sink, pump, got, taken, queueVars, readerVars,
                   linkVars, counters, fixed>>

\* The task's last step gives up the stream's own sink, whatever is still to come for it.
SourceGone(e, s) ==
    /\ source[e][s] = "closing"
    /\ source' = [source EXCEPT ![e][s] = "done"]
    /\ Unregister(e, IdOf(s))
    /\ UNCHANGED <<opened, stage, sink, pump, got, taken, queueVars, readerVars, linkVars,
                   counters, fixed>>

\* The socket takes the next chunk, or fails and the rest of the sink is lost.
Give(e, s) ==
    /\ pump[e][s] = "run" /\ sink[e][s] # <<>>
    /\ sink' = [sink EXCEPT ![e][s] = Tail(@)]
    /\ got' = [got EXCEPT ![e][s] = Append(@, Head(sink[e][s]))]
    /\ UNCHANGED <<opened, stage, registry, pump, source, taken, queueVars, readerVars,
                   linkVars, counters, fixed>>

GiveFails(e, s) ==
    /\ plan.harsh
    /\ pump[e][s] = "run" /\ sink[e][s] # <<>>
    /\ pump' = [pump EXCEPT ![e][s] = "shut"]
    /\ sink' = [sink EXCEPT ![e][s] = <<>>]
    /\ UNCHANGED <<opened, stage, registry, source, got, taken, queueVars, readerVars,
                   linkVars, counters, fixed>>

\* Somebody can still put a chunk into the sink of s.
Fed(e, s) ==
    \/ \E id \in Ids : registry[e][id] = s
    \/ \E r \in {reader[e], catcher[e]} : r.pc = "deliver" /\ r.s = s

\* The sink is empty and nobody feeds it any more: the socket is shut down.
Shutdown(e, s) ==
    /\ pump[e][s] = "run" /\ sink[e][s] = <<>> /\ ~Fed(e, s)
    /\ pump' = [pump EXCEPT ![e][s] = "shut"]
    /\ UNCHANGED <<opened, stage, registry, sink, source, got, taken, queueVars, readerVars,
                   linkVars, counters, fixed>>

-----------------------------------------------------------------------------
(* writer_loop *)

Written(e, ev) == wire' = [wire EXCEPT ![e] = Append(@, ev)]

\* An event goes to the session.  With a broken carrier it is swallowed or the error
\* ends the task, and with it everything queued.
WriteEvent(e) ==
    /\ writer[e] = "run" /\ out[e] # <<>>
    /\ \/ /\ ~broken /\ Len(wire[e]) < WireCap
          /\ Written(e, Head(out[e]))
          /\ out' = [out EXCEPT ![e] = Tail(@)]
          /\ UNCHANGED writer
       \/ /\ broken
          /\ out' = [out EXCEPT ![e] = Tail(@)]
          /\ UNCHANGED <<wire, writer>>
       \/ /\ broken
          /\ out' = [out EXCEPT ![e] = <<>>]
          /\ writer' = [writer EXCEPT ![e] = "dead"]
          /\ UNCHANGED wire
    /\ UNCHANGED <<opened, stage, streamVars, taken, readerVars, linkVars, counters, fixed>>

\* Mutant: a datagram sent natively is sent over the session as well.
WriteNativeToo(e) ==
    /\ writer[e] = "run" /\ out[e] # <<>> /\ link[e]
    /\ Head(out[e]).type = "datagram"
    /\ net' = [net EXCEPT ![e] = @ \cup {Head(out[e])}]
    /\ UNCHANGED <<opened, stage, streamVars, taken, queueVars, readerVars, link, counters, fixed>>

\* A datagram that fits takes the native link instead.
WriteNative(e) ==
    /\ writer[e] = "run" /\ out[e] # <<>> /\ link[e]
    /\ Head(out[e]).type = "datagram"
    /\ net' = [net EXCEPT ![e] = @ \cup {Head(out[e])}]
    /\ out' = [out EXCEPT ![e] = Tail(@)]
    /\ UNCHANGED <<opened, stage, streamVars, taken, writer, wire, readerVars, link, counters,
                   fixed>>

\* The native link is found closed: this datagram and all later ones use the session.
LinkLost(e) ==
    /\ writer[e] = "run" /\ out[e] # <<>> /\ link[e]
    /\ Head(out[e]).type = "datagram"
    /\ link' = [link EXCEPT ![e] = FALSE]
    /\ UNCHANGED <<opened, stage, streamVars, taken, queueVars, readerVars, net, counters,
                   fixed>>

-----------------------------------------------------------------------------
(* reader_loop and datagram_reader_loop *)

\* Where a chunk goes: to the registered sink, or nowhere.
Routed(e, ev) ==
    IF registry[e][ev.id] = None THEN Idle ELSE Handing(registry[e][ev.id], ev.chunk)

\* The streams an event comes too early for.
TooEarly(e, ev) ==
    {s \in Streams : /\ e = "client" /\ stage[e][s] = "sent"
                     /\ ev.type \in {"data", "datagram", "close"} /\ ev.id = IdOf(s)}

\* Mutant: the reader stops at a frame that is only padding.
AfterStops(e, ev) ==
    CASE ev.type = "open" /\ e = "server" -> Connecting(ev.s)
      [] ev.type \in {"data", "datagram"} -> Routed(e, ev)
      [] ev.type = "keepalive" -> Done
      [] OTHER -> Idle

\* What the reader does next with an event; an Open that reaches a client is ignored.
After(e, ev) ==
    CASE ev.type = "open" /\ e = "server" -> Connecting(ev.s)
      [] ev.type \in {"data", "datagram"} -> Routed(e, ev)
      [] OTHER -> Idle

ReaderTakes(e) ==
    LET o == Other(e)
        ev == Head(wire[o]) IN
    /\ reader[e].pc = "recv" /\ wire[o] # <<>>
    /\ wire' = [wire EXCEPT ![o] = Tail(@)]
    /\ reader' = [reader EXCEPT ![e] = After(e, ev)]
    /\ IF ev.type = "close" THEN Unregister(e, ev.id) ELSE UNCHANGED registry
    /\ early' = early \cup TooEarly(e, ev)
    /\ UNCHANGED <<opened, stage, sink, pump, source, got, taken, out, writer, catcher,
                   linkVars, counters, broken, plan>>

\* connect_target or bind_udp returns; nothing else is read meanwhile.
ReaderConnects(e) ==
    /\ reader[e].pc = "connect"
    /\ Wire(e, reader[e].s)
    /\ reader' = [reader EXCEPT ![e] = Idle]
    /\ UNCHANGED <<opened, sink, got, taken, queueVars, catcher, linkVars, counters, fixed>>

ReaderRefused(e) ==
    /\ reader[e].pc = "connect"
    /\ stage' = [stage EXCEPT ![e][reader[e].s] = "refused"]
    /\ reader' = [reader EXCEPT ![e] = Refusing(reader[e].s)]
    /\ UNCHANGED <<opened, streamVars, taken, queueVars, catcher, linkVars, counters, fixed>>

ReaderRefuses(e) ==
    /\ reader[e].pc = "refuse"
    /\ \/ Queue(e, CloseEvent(reader[e].s))
       \/ writer[e] = "dead" /\ UNCHANGED out
    /\ reader' = [reader EXCEPT ![e] = Idle]
    /\ UNCHANGED <<opened, stage, streamVars, taken, writer, wire, catcher, linkVars,
                   counters, fixed>>

ReaderHands(e) ==
    /\ reader[e].pc = "deliver"
    /\ HandTo(e, reader[e].s, reader[e].chunk)
    /\ reader' = [reader EXCEPT ![e] = Idle]
    /\ UNCHANGED <<opened, stage, registry, pump, source, got, taken, queueVars, catcher,
                   linkVars, counters, fixed>>

\* Mutant: the registry survives its reader.
ReaderEndsOnly(e) ==
    /\ reader[e].pc = "recv" /\ broken
    /\ reader' = [reader EXCEPT ![e] = Done]
    /\ wire' = [wire EXCEPT ![Other(e)] = <<>>]
    /\ UNCHANGED <<opened, stage, streamVars, taken, out, writer, catcher, linkVars, counters,
                   fixed>>

\* The session fails: the registry is emptied, and with it every sink loses its feeder.
ReaderEnds(e) ==
    /\ reader[e].pc = "recv" /\ broken
    /\ reader' = [reader EXCEPT ![e] = Done]
    /\ registry' = [registry EXCEPT ![e] = [i \in Ids |-> None]]
    /\ wire' = [wire EXCEPT ![Other(e)] = <<>>]
    /\ UNCHANGED <<opened, stage, sink, pump, source, got, taken, out, writer, catcher,
                   linkVars, counters, fixed>>

CatcherTakes(e) ==
    \E ev \in net[Other(e)] :
        /\ catcher[e].pc = "recv"
        /\ net' = [net EXCEPT ![Other(e)] = @ \ {ev}]
        /\ catcher' = [catcher EXCEPT ![e] = Routed(e, ev)]
        /\ early' = early \cup TooEarly(e, ev)
        /\ UNCHANGED <<opened, stage, streamVars, taken, queueVars, reader, link, counters,
                       broken, plan>>

CatcherHands(e) ==
    /\ catcher[e].pc = "deliver"
    /\ HandTo(e, catcher[e].s, catcher[e].chunk)
    /\ catcher' = [catcher EXCEPT ![e] = Idle]
    /\ UNCHANGED <<opened, stage, registry, pump, source, got, taken, queueVars, reader,
                   linkVars, counters, fixed>>

NativeLost(e) ==
    \E ev \in net[e] :
        /\ net' = [net EXCEPT ![e] = @ \ {ev}]
        /\ UNCHANGED <<opened, stage, streamVars, taken, queueVars, readerVars, link,
                       counters, fixed>>

-----------------------------------------------------------------------------
\* enable_cadence: a tick fills the silence when nothing was sent since the last one.
CadenceTick ==
    /\ ticks < plan.ticks
    /\ ticks' = ticks + 1
    /\ activity' = FALSE
    /\ IF activity THEN UNCHANGED out ELSE Queue("client", KeepAlive)
    /\ UNCHANGED <<opened, stage, streamVars, taken, writer, wire, readerVars, linkVars,
                   fixed>>

Break ==
    /\ plan.harsh /\ ~broken
    /\ broken' = TRUE
    /\ UNCHANGED <<opened, stage, streamVars, taken, queueVars, readerVars, linkVars,
                   counters, early, plan>>

StreamTask(e, s) ==
    ReadChunk(e, s) \/ SourceFails(e, s) \/ SourceEnds(e, s) \/ UdpEnds(e, s)
        \/ SourceGone(e, s) \/ Give(e, s) \/ GiveFails(e, s) \/ Shutdown(e, s)

Writer(e)  == WriteEvent(e) \/ WriteNative(e) \/ LinkLost(e)
Reader(e)  == ReaderTakes(e) \/ ReaderConnects(e) \/ ReaderRefused(e) \/ ReaderRefuses(e)
                  \/ ReaderHands(e) \/ ReaderEnds(e)
Catcher(e) == CatcherTakes(e) \/ CatcherHands(e)

Next ==
    \/ Request
    \/ \E s \in Streams : SendOpen(s) \/ OpenFails(s) \/ Register(s)
    \/ \E e \in Ends : \E s \in Streams : StreamTask(e, s)
    \/ \E e \in Ends : Writer(e) \/ Reader(e) \/ Catcher(e) \/ NativeLost(e)
    \/ CadenceTick
    \/ Break

\* While some task can run, one does.  The sockets take what they are given; what comes
\* out of them, their ends, refusals and the carrier's end are not promised.
Tasks ==
    \/ \E s \in Streams : SendOpen(s) \/ OpenFails(s) \/ Register(s)
    \/ \E e \in Ends : \/ Writer(e) \/ Reader(e) \/ Catcher(e)
                       \/ \E s \in Streams : SourceGone(e, s) \/ Give(e, s) \/ Shutdown(e, s)

Fairness == WF_vars(Tasks)

Spec == Init /\ [][Next]_vars /\ Fairness

-----------------------------------------------------------------------------
(* Properties *)

Received(e, s) == got[e][s] \o sink[e][s]

\* A TCP socket is given chunks of its own stream only, in the peer's order and without a
\* hole, as long as ids are not used twice.  At the server
\* nothing is missing in front either: Open comes first and is answered before anything
\* else is read.  At the client the front may be missing, if the target speaks before
\* open has registered the stream.
InOrderWithoutHoles ==
    \A e \in Ends : \A s \in Tcp :
        /\ \A i \in DOMAIN Received(e, s) : Received(e, s)[i][1] = s
        /\ \A i \in 1..(Len(Received(e, s)) - 1) :
              Received(e, s)[i + 1][2] = Received(e, s)[i][2] + 1
        /\ Received(e, s) # <<>> /\ (e = "server" \/ s \notin early)
              => Received(e, s)[1][2] = 1

\* A UDP socket is given datagrams of its own stream only, each at most once, by whichever
\* way they travelled.
DatagramsOnce ==
    \A e \in Ends : \A s \in Udp : \A i, j \in DOMAIN Received(e, s) :
        /\ Received(e, s)[i][1] = s
        /\ Received(e, s)[i] = Received(e, s)[j] => i = j

\* The traffic of a plan is finite, so what must happen to each end and to each chunk is
\* said of the state a behaviour settles in.

\* The end of one socket reaches the other, and a connection the server refuses is shut
\* down at the client, unless the carrier breaks or the word came before the client had
\* registered the stream.
EndArrives ==
    <>[](\A e \in Ends : \A s \in Tcp :
            (\/ source[e][s] \in {"closing", "done"} /\ stage[Other(e)][s] \in {"sent", "wired"}
             \/ stage["server"][s] = "refused" /\ e = "server")
            => pump[Other(e)][s] = "shut" \/ broken \/ s \in early)

\* What was read from a TCP socket arrives, although one reader feeds the sinks of all
\* streams: no chunk waits for ever behind another stream's.  Excepted are streams the
\* server refused, that spoke too early, or whose other socket has come to its own end
\* or failed: the first end of the two unregisters the stream, and what is still on its
\* way to that socket is lost.
ChunksArrive ==
    <>[](\A e \in Ends : \A s \in Tcp :
            \/ Len(got[Other(e)][s]) = taken[e][s]
            \/ source[Other(e)][s] \in {"closing", "done"}
            \/ plan.harsh /\ pump[Other(e)][s] = "shut"
            \/ stage["server"][s] = "refused" \/ broken \/ s \in early)

\* When the carrier breaks, every stream that either end had registered by the time its
\* reader noticed is shut down there.
BreakReachesSockets ==
    \A e \in Ends : \A s \in Streams :
        (broken /\ stage[e][s] = "wired" /\ reader[e].pc # "done") ~> pump[e][s] = "shut"
=============================================================================
