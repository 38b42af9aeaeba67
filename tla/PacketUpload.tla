---------------------------- MODULE PacketUpload ----------------------------
(***************************************************************************)
(* The upstream half of a packet-up tunnel, from the client session's      *)
(* flushes to the bytes the server session reads: H2Stream's packet writer *)
(* and reader (h2bridge.rs), the uploader task of                          *)
(* client_segments_packet_up, the packet-up branch of serve, the task that *)
(* reads each body, and UploadAssembler (http.rs).                         *)
(*                                                                         *)
(* A chunk is its number in the order of the flushes; a request carries a  *)
(* chunk under the uploader's seq.  The download half is already waiting:  *)
(* the client starts the uploader after the answer to its GET.             *)
(***************************************************************************)
EXTENDS Integers, Sequences

CONSTANTS
    QueueCap,    \* capacity of the channel to the uploader
    LastEpoch,   \* last epoch in which the session's token verifies
    NoRequest,   \* the uploader waits for a chunk
    MaxChunks,   \* bound: flushes of the client session
    MaxEpoch     \* bound: the epoch clock stops here

ASSUME UploadAssumption ==
    /\ QueueCap \in Nat \ {0} /\ MaxChunks \in Nat
    /\ LastEpoch \in Nat /\ MaxEpoch \in Nat

Numbers  == 0..MaxChunks
Requests == [seq : Numbers, data : Numbers]

ASSUME RequestAssumption == NoRequest \notin Requests

VARIABLES
    flushed,     \* chunks the client session has flushed
    queue,       \* the channel to the uploader
    writer,      \* the client session's sending half: "open" or "closed"
    uploader,    \* the uploader task: "running" or "stopped"
    seq,         \* the uploader's next number
    request,     \* the POST it waits for, or NoRequest
    answered,    \* every POST the server has answered
    bodies,      \* POSTs whose bodies are being read, each by a task of its own
    session,     \* the server session: "none", "open" or "closed"
    next_seq,    \* UploadAssembler.next_seq
    pending,     \* UploadAssembler.pending
    out,         \* what the server session has been given to read
    epoch,       \* epoch_now()
    broken       \* the h2 connection is gone

client    == <<flushed, queue, writer, uploader, seq, request>>
assembler == <<next_seq, pending, out>>
server    == <<answered, bodies, session, assembler>>
vars      == <<client, server, epoch, broken>>

TypeOK ==
    /\ flushed \in Numbers /\ queue \in Seq(Numbers) /\ Len(queue) <= QueueCap
    /\ writer \in {"open", "closed"} /\ uploader \in {"running", "stopped"}
    /\ seq \in Numbers /\ request \in Requests \cup {NoRequest}
    /\ answered \subseteq Requests /\ bodies \subseteq Requests
    /\ session \in {"none", "open", "closed"}
    /\ next_seq \in Numbers /\ pending \subseteq Requests /\ out \in Seq(Numbers)
    /\ epoch \in 0..MaxEpoch /\ broken \in BOOLEAN

-----------------------------------------------------------------------------
Init ==
    /\ flushed = 0 /\ queue = <<>> /\ seq = 0 /\ request = NoRequest
    /\ writer = "open" /\ uploader = "running"
    /\ answered = {} /\ bodies = {} /\ session = "none"
    /\ next_seq = 0 /\ pending = {} /\ out = <<>>
    /\ epoch = 0 /\ broken = FALSE

\* poll_flush: the buffered record becomes one chunk, once the channel has room; it is an
\* error when the uploader has stopped.
Flush ==
    /\ writer = "open" /\ uploader = "running"
    /\ flushed < MaxChunks /\ Len(queue) < QueueCap
    /\ queue' = Append(queue, flushed) /\ flushed' = flushed + 1
    /\ UNCHANGED <<writer, uploader, seq, request, server, epoch, broken>>

\* poll_shutdown: what is in the channel stays there for the uploader.
Shutdown ==
    /\ writer = "open" /\ writer' = "closed"
    /\ UNCHANGED <<flushed, queue, uploader, seq, request, server, epoch, broken>>

\* The uploader takes a chunk and sends it as a whole.
Post ==
    /\ ~broken /\ uploader = "running" /\ request = NoRequest /\ queue # <<>>
    /\ request' = [seq |-> seq, data |-> Head(queue)] /\ queue' = Tail(queue)
    /\ UNCHANGED <<flushed, writer, uploader, seq, server, epoch, broken>>

\* An answer, whatever its status, lets the uploader go on with the next number.
Answered ==
    /\ request \in answered /\ ~broken
    /\ request' = NoRequest /\ seq' = seq + 1
    /\ UNCHANGED <<flushed, queue, writer, uploader, server, epoch, broken>>

\* The channel is closed and empty, or the connection fails what the uploader tries next;
\* with the task go its end of the channel and the chunks in it.
UploaderStops ==
    /\ uploader = "running" /\ uploader' = "stopped"
    /\ \/ writer = "closed" /\ queue = <<>> /\ request = NoRequest
       \/ broken /\ (queue # <<>> \/ request # NoRequest)
    /\ queue' = <<>> /\ request' = NoRequest
    /\ UNCHANGED <<flushed, writer, seq, server, epoch, broken>>

-----------------------------------------------------------------------------
\* The accept loop has the request of a POST it has not answered yet.
Accept ==
    /\ request # NoRequest /\ request \notin answered /\ ~broken
    /\ answered' = answered \cup {request}
    /\ UNCHANGED <<client, assembler, epoch, broken>>

\* The token verifies: the first packet opens the session, every packet is answered
\* before its body is read.
Admit ==
    /\ Accept /\ epoch <= LastEpoch
    /\ session' = IF session = "none" THEN "open" ELSE session
    /\ bodies' = bodies \cup {request}

\* The token does not verify any more: the site's page, with the same status.
Fallback == Accept /\ epoch > LastEpoch /\ UNCHANGED <<session, bodies>>

\* The carrier delivers an old POST once more.
Repeat(p) ==
    /\ p \in answered /\ ~broken
    /\ epoch <= LastEpoch /\ session # "none"
    /\ bodies' = bodies \cup {p}
    /\ UNCHANGED <<client, answered, session, assembler, epoch, broken>>

-----------------------------------------------------------------------------
Seqs(packets) == {p.seq : p \in packets}

DataAt(packets, n) == (CHOOSE p \in packets : p.seq = n).data

\* The chunks numbered from m to n - 1.
Run(packets, m, n) == [i \in 1..(n - m) |-> DataAt(packets, m + i - 1)]

\* n is the first number from next_seq on that packets lack.
FirstGap(packets, n) ==
    /\ n >= next_seq /\ n \notin Seqs(packets)
    /\ \A k \in next_seq..(n - 1) : k \in Seqs(packets)

\* Mutant: a packet is passed on as it arrives.
DeliverAtOnce(p) ==
    \/ p.seq < next_seq /\ UNCHANGED assembler
    \/ /\ p.seq >= next_seq /\ session = "open"
       /\ out' = Append(out, p.data) /\ next_seq' = p.seq + 1
       /\ UNCHANGED pending
    \/ p.seq >= next_seq /\ session = "closed" /\ UNCHANGED assembler

\* Mutant: `if let` instead of `while let`: one chunk per packet.
DeliverOne(p) ==
    \/ p.seq < next_seq /\ UNCHANGED assembler
    \/ /\ p.seq >= next_seq
       /\ LET all == pending \cup {p}
              now == {q \in all : q.seq = next_seq}
          IN  /\ pending' = all \ now
              /\ IF session = "open" /\ now # {}
                 THEN out' = Append(out, DataAt(all, next_seq)) /\ next_seq' = next_seq + 1
                 ELSE UNCHANGED <<out, next_seq>>

\* UploadAssembler::deliver, under the assembler's mutex.  With the session closed the
\* first send fails and takes its chunk with it.
Deliver(p) ==
    \/ p.seq < next_seq /\ UNCHANGED assembler
    \/ /\ p.seq >= next_seq /\ session = "open"
       /\ LET all == pending \cup {p}
          IN  \E n \in Numbers :
                 /\ FirstGap(all, n)
                 /\ out' = out \o Run(all, next_seq, n)
                 /\ pending' = {q \in all : q.seq > n}
                 /\ next_seq' = n
    \/ /\ p.seq >= next_seq /\ session = "closed"
       /\ pending' = {q \in pending \cup {p} : q.seq # next_seq}
       /\ UNCHANGED <<next_seq, out>>

\* The task of one POST has its body and delivers it; tasks finish in any order.
ReadBody(p) ==
    /\ p \in bodies
    /\ Deliver(p)
    /\ bodies' = bodies \ {p}
    /\ UNCHANGED <<client, answered, session, epoch, broken>>

-----------------------------------------------------------------------------
SessionEnds ==
    /\ session = "open" /\ session' = "closed"
    /\ UNCHANGED <<client, answered, bodies, assembler, epoch, broken>>

\* The connection breaks: bodies that have not arrived in full are lost.
Break ==
    /\ ~broken /\ broken' = TRUE
    /\ bodies' \in SUBSET bodies
    /\ UNCHANGED <<client, answered, session, assembler, epoch>>

Tick ==
    /\ epoch < MaxEpoch /\ epoch' = epoch + 1
    /\ UNCHANGED <<client, server, broken>>

Next ==
    \/ Flush \/ Shutdown \/ Post \/ Answered \/ UploaderStops
    \/ Admit \/ Fallback
    \/ \E p \in answered : Repeat(p)
    \/ \E p \in bodies : ReadBody(p)
    \/ SessionEnds \/ Break \/ Tick

Spec == Init /\ [][Next]_vars

\* The uploader, the accept loop and every body task are scheduled while the connection
\* carries data.
FairSpec ==
    /\ Spec
    /\ WF_vars(Post \/ Answered) /\ WF_vars(Admit \/ Fallback)
    /\ \A n \in 0..(MaxChunks - 1) : WF_vars(\E p \in bodies : p.seq = n /\ ReadBody(p))

-----------------------------------------------------------------------------
(* Properties *)

\* The server session reads what the client session wrote: the same chunks, in the order
\* of the flushes, none missing in between and none twice, although bodies finish in any
\* order and a carrier may repeat a POST.
InOrder == \A i \in 1..Len(out) : out[i] = i - 1

\* Every chunk that is flushed is read in the end, also after the client session has shut
\* down its sending half, unless the session or the connection ends first or the token
\* runs out.
AllRead ==
    \A k \in 0..(MaxChunks - 1) :
        flushed > k ~> Len(out) > k \/ session = "closed" \/ broken \/ epoch > LastEpoch
=============================================================================
