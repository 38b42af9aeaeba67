------------------------- MODULE PacketUploadProofs -------------------------
(***************************************************************************)
(* The server session reads the chunks in the order of the flushes, for    *)
(* every channel capacity, number of chunks and life of the token.         *)
(***************************************************************************)
EXTENDS PacketUpload, SequenceTheorems, TLAPS

\* Chunks the uploader holds: the one of the POST it waits for.
Held == IF request = NoRequest THEN 0 ELSE 1

\* The uploader's numbers count the flushes: the chunks it has sent, holds and will take
\* are all of them.  Once it has stopped nothing is flushed any more.
Numbering ==
    /\ uploader = "stopped" => request = NoRequest
    /\ uploader = "running" => flushed = seq + Held + Len(queue)
    /\ \A i \in 1..Len(queue) : queue[i] = seq + Held + i - 1
    /\ request # NoRequest => request.seq = seq

\* Every packet carries the chunk of its number.
Faithful(packets) == \A p \in packets : p.data = p.seq

\* Everything the assembler and the reading tasks hold is faithful, and what was passed on
\* is as long as next_seq says.
IInv ==
    /\ TypeOK /\ Numbering
    /\ (request # NoRequest => request.data = request.seq)
    /\ Faithful(answered) /\ Faithful(bodies) /\ Faithful(pending)
    /\ Len(out) = next_seq /\ InOrder

\* DataAt finds the chunk of a number among faithful packets.
LEMMA DataAtFaithful ==
    ASSUME NEW packets \in SUBSET Requests, Faithful(packets),
           NEW n \in Seqs(packets)
    PROVE  DataAt(packets, n) = n /\ n \in Numbers
<1>1. PICK p \in packets : p.seq = n
    BY DEF Seqs
<1>2. (CHOOSE q \in packets : q.seq = n) \in packets
      /\ (CHOOSE q \in packets : q.seq = n).seq = n
    BY <1>1
<1> QED BY <1>2, <1>1 DEF DataAt, Faithful, Requests

\* The state at the start.
LEMMA InitIInv == Init => IInv
<1> SUFFICES ASSUME Init PROVE IInv
    OBVIOUS
<1>1. TypeOK
    <2>1. 0 \in Numbers /\ 0 \in 0..MaxEpoch /\ Len(<<>>) <= QueueCap /\ <<>> \in Seq(Numbers)
        BY UploadAssumption DEF Numbers
    <2>2. broken \in BOOLEAN
        BY DEF Init
    <2> QED BY <2>1, <2>2 DEF Init, TypeOK
<1>2. Numbering
    BY DEF Init, Numbering, Held
<1> QED BY <1>1, <1>2 DEF Init, IInv, Faithful, InOrder

\* What the client's side does is invisible to the server's invariants.
LEMMA ClientSteps ==
    ASSUME IInv, Flush \/ Shutdown \/ Post \/ Answered \/ UploaderStops
    PROVE  IInv'
<1> USE UploadAssumption, RequestAssumption
<1>0. UNCHANGED <<answered, bodies, session, next_seq, pending, out, epoch, broken>>
    BY DEF Flush, Shutdown, Post, Answered, UploaderStops, server, assembler
<1>1. Faithful(answered)' /\ Faithful(bodies)' /\ Faithful(pending)'
      /\ (Len(out) = next_seq)' /\ InOrder'
    BY <1>0 DEF IInv, Faithful, InOrder
<1>2. CASE Flush
    <2>1. TypeOK' BY <1>2, <1>0 DEF IInv, TypeOK, Flush, Numbers
    <2>2. Len(queue') = Len(queue) + 1 /\ queue'[Len(queue) + 1] = flushed
          /\ \A i \in 1..Len(queue) : queue'[i] = queue[i]
        BY <1>2 DEF IInv, TypeOK, Flush
    <2>3. flushed = seq + Held + Len(queue) /\ Held' = Held /\ Held \in {0, 1}
        BY <1>2 DEF IInv, Flush, Numbering, Held
    <2>4. flushed' = flushed + 1 /\ seq' = seq /\ seq \in Nat /\ Len(queue) \in Nat
        BY <1>2 DEF IInv, TypeOK, Flush, Numbers
    <2>5. \A i \in 1..Len(queue') : queue'[i] = seq + Held + i - 1
        BY <2>2, <2>3, <2>4 DEF IInv, Numbering
    <2>6. Numbering'
        BY <1>2, <2>2, <2>3, <2>4, <2>5 DEF IInv, Flush, Numbering
    <2> QED BY <1>1, <2>1, <2>6, <1>2 DEF IInv, Flush
<1>3. CASE Shutdown
    BY <1>0, <1>1, <1>3 DEF IInv, TypeOK, Numbering, Held, Shutdown
<1>4. CASE Post
    <2>0. queue \in Seq(Numbers) /\ queue # <<>> /\ seq \in Nat /\ Held = 0
          /\ flushed = seq + Held + Len(queue)
          /\ \A i \in 1..Len(queue) : queue[i] = seq + Held + i - 1
        BY <1>4 DEF IInv, TypeOK, Post, Numbers, Numbering, Held
    <2>1. Len(queue) > 0 /\ Head(queue) = queue[1] /\ Head(queue) = seq
          /\ flushed = seq + Len(queue)
        BY <2>0
    <2>2. request' = [seq |-> seq, data |-> seq] /\ request' \in Requests
          /\ request' # NoRequest
        BY <1>4, <2>1 DEF IInv, TypeOK, Post, Requests
    <2>3. queue' \in Seq(Numbers) /\ Len(queue') = Len(queue) - 1
          /\ \A i \in 1..Len(queue') : queue'[i] = queue[i + 1]
        BY <1>4, <2>1 DEF IInv, TypeOK, Post
    <2>4. TypeOK' BY <1>4, <1>0, <2>2, <2>3 DEF IInv, TypeOK, Post
    <2>5. Numbering'
        BY <1>4, <2>1, <2>2, <2>3 DEF IInv, TypeOK, Post, Numbers, Numbering, Held
    <2> QED BY <1>1, <2>2, <2>4, <2>5 DEF IInv
<1>5. CASE Answered
    <2>1. request # NoRequest
        BY <1>5 DEF IInv, TypeOK, Answered
    <2>2. seq < MaxChunks
        BY <2>1 DEF IInv, TypeOK, Numbers, Numbering, Held
    <2>3. seq' = seq + 1 /\ request' = NoRequest
          /\ UNCHANGED <<flushed, queue, writer, uploader>>
        BY <1>5 DEF Answered
    <2>4. TypeOK'
        BY <1>0, <2>2, <2>3 DEF IInv, TypeOK, Numbers
    <2>5. Held = 1 /\ Held' = 0 /\ seq \in Nat
        BY <2>1, <2>3 DEF Held, IInv, TypeOK, Numbers
    <2>6. Numbering'
        BY <2>3, <2>5 DEF IInv, Numbering
    <2> QED BY <1>1, <2>3, <2>4, <2>6 DEF IInv
<1>6. CASE UploaderStops
    <2>0. <<>> \in Seq(Numbers) /\ Len(<<>>) <= QueueCap
        OBVIOUS
    <2>1. TypeOK' BY <1>6, <1>0, <2>0 DEF IInv, TypeOK, UploaderStops
    <2>2. uploader' = "stopped" /\ queue' = <<>> /\ request' = NoRequest
        BY <1>6 DEF UploaderStops
    <2>3. Numbering'
        BY <2>2 DEF Numbering
    <2> QED BY <2>1, <2>2, <2>3, <1>1 DEF IInv
<1> QED BY <1>2, <1>3, <1>4, <1>5, <1>6

\* The accept loop hands on faithful packets and leaves the assembler alone, a break and a
\* repetition included.
LEMMA AcceptSteps ==
    ASSUME IInv,
           \/ Admit \/ Fallback \/ SessionEnds \/ Break \/ Tick
           \/ \E p \in answered : Repeat(p)
    PROVE  IInv'
<1> USE UploadAssumption, RequestAssumption
<1>0. UNCHANGED <<flushed, queue, writer, uploader, seq, request, next_seq, pending, out>>
    BY DEF Admit, Fallback, Accept, SessionEnds, Break, Tick, Repeat, client, server, assembler
<1>1. Numbering' /\ (request # NoRequest => request.data = request.seq)'
      /\ Faithful(pending)' /\ (Len(out) = next_seq)' /\ InOrder'
    BY <1>0 DEF IInv, Numbering, Held, Faithful, InOrder
<1>2. CASE Admit \/ Fallback
    <2>1. request \in Requests /\ request.data = request.seq
        BY <1>2 DEF IInv, TypeOK, Admit, Fallback, Accept
    <2>2. answered' = answered \cup {request} /\ bodies' \subseteq bodies \cup {request}
        BY <1>2 DEF Admit, Fallback, Accept
    <2>3. session' \in {"none", "open", "closed"} /\ epoch' = epoch /\ broken' = broken
        BY <1>2 DEF IInv, TypeOK, Admit, Fallback, Accept
    <2>4. TypeOK'
        BY <1>0, <2>1, <2>2, <2>3 DEF IInv, TypeOK
    <2> QED BY <1>1, <2>1, <2>2, <2>4 DEF IInv, Faithful
<1>3. CASE SessionEnds \/ Break \/ Tick
    <2>1. answered' = answered /\ bodies' \subseteq bodies
        BY <1>3 DEF SessionEnds, Break, Tick, server
    <2>2. session' \in {"none", "open", "closed"} /\ epoch' \in 0..MaxEpoch
        BY <1>3 DEF IInv, TypeOK, SessionEnds, Break, Tick, server
    <2>3. broken' \in BOOLEAN
        BY <1>3 DEF IInv, TypeOK, SessionEnds, Break, Tick
    <2>4. TypeOK'
        BY <1>0, <2>1, <2>2, <2>3 DEF IInv, TypeOK
    <2> QED BY <1>1, <2>1, <2>4 DEF IInv, Faithful
<1>4. CASE \E p \in answered : Repeat(p)
    <2>1. PICK p \in answered : Repeat(p)
        BY <1>4
    <2>2. p \in Requests /\ p.data = p.seq /\ bodies' = bodies \cup {p}
          /\ UNCHANGED <<answered, session, epoch, broken>>
        BY <2>1 DEF IInv, TypeOK, Faithful, Repeat
    <2>3. TypeOK'
        BY <1>0, <2>2 DEF IInv, TypeOK
    <2> QED BY <1>1, <2>2, <2>3 DEF IInv, Faithful
<1> QED BY <1>2, <1>3, <1>4

\* Faithful packets without a gap from m up to n, as a sequence.
LEMMA RunOfPackets ==
    ASSUME NEW packets \in SUBSET Requests, Faithful(packets),
           NEW m \in Nat, NEW n \in Nat, m <= n,
           \A k \in m..(n - 1) : k \in Seqs(packets)
    PROVE  /\ Run(packets, m, n) \in Seq(Numbers) /\ Len(Run(packets, m, n)) = n - m
           /\ \A i \in 1..(n - m) : Run(packets, m, n)[i] = m + i - 1
<1> DEFINE run == Run(packets, m, n)
<1>1. \A k \in m..(n - 1) : DataAt(packets, k) = k /\ k \in Numbers
    BY DataAtFaithful
<1>2. \A i \in 1..(n - m) : m + i - 1 \in m..(n - 1)
    OBVIOUS
<1>3. \A i \in 1..(n - m) : run[i] = m + i - 1 /\ run[i] \in Numbers
    BY <1>1, <1>2 DEF Run
<1>4. n - m \in Nat
    OBVIOUS
<1>5. run \in [1..(n - m) -> Numbers]
    BY <1>3 DEF Run
<1> HIDE DEF run
<1>6. run \in Seq(Numbers) /\ Len(run) = n - m
    <2>1. \A k \in Nat : \A f \in [1..k -> Numbers] : f \in Seq(Numbers) /\ Len(f) = k
        BY SeqDef
    <2> QED BY ONLY <1>4, <1>5, <2>1
<1> QED BY <1>3, <1>6 DEF run

\* A sequence in order, continued by one that starts at its length, is in order.
LEMMA OrderContinues ==
    ASSUME NEW s \in Seq(Numbers), NEW t \in Seq(Numbers), NEW n \in Nat,
           Len(t) = n - Len(s),
           \A i \in 1..Len(s) : s[i] = i - 1,
           \A i \in 1..Len(t) : t[i] = Len(s) + i - 1
    PROVE  s \o t \in Seq(Numbers) /\ Len(s \o t) = n
           /\ \A i \in 1..Len(s \o t) : (s \o t)[i] = i - 1
<1>1. s \o t \in Seq(Numbers) /\ Len(s \o t) = Len(s) + Len(t)
      /\ \A i \in 1..(Len(s) + Len(t)) :
            (s \o t)[i] = IF i <= Len(s) THEN s[i] ELSE t[i - Len(s)]
    BY ConcatProperties
<1>2. Len(s) \in Nat /\ Len(t) \in Nat
    OBVIOUS
<1>3. ASSUME NEW i \in 1..(Len(s) + Len(t)) PROVE (s \o t)[i] = i - 1
    <2>1. CASE i <= Len(s)
        BY <1>1, <1>2, <2>1
    <2>2. CASE i > Len(s)
        <3>1. i - Len(s) \in 1..Len(t) /\ (s \o t)[i] = t[i - Len(s)]
            BY <1>1, <1>2, <2>2
        <3> QED BY <1>2, <3>1
    <2> QED BY <2>1, <2>2, <1>2
<1> QED BY <1>1, <1>2, <1>3

\* deliver, with the session open: what is passed on continues the order.
LEMMA DeliverOpen ==
    ASSUME IInv, NEW p \in bodies, NEW n \in Numbers,
           FirstGap(pending \cup {p}, n),
           out' = out \o Run(pending \cup {p}, next_seq, n),
           next_seq' = n
    PROVE  out' \in Seq(Numbers) /\ Len(out') = next_seq' /\ InOrder'
<1>1. pending \cup {p} \in SUBSET Requests /\ Faithful(pending \cup {p})
    BY DEF IInv, TypeOK, Faithful
<1>2. next_seq \in Nat /\ n \in Nat /\ next_seq <= n
      /\ \A k \in next_seq..(n - 1) : k \in Seqs(pending \cup {p})
    <2>1. next_seq \in Numbers
        BY DEF IInv, TypeOK
    <2>2. next_seq \in Nat /\ n \in Nat
        BY ONLY <2>1, n \in Numbers, UploadAssumption DEF Numbers
    <2>3. n >= next_seq /\ \A k \in next_seq..(n - 1) : k \in Seqs(pending \cup {p})
        BY ONLY FirstGap(pending \cup {p}, n) DEF FirstGap
    <2> QED BY ONLY <2>2, <2>3
<1> DEFINE run == Run(pending \cup {p}, next_seq, n)
<1>3. run \in Seq(Numbers) /\ Len(run) = n - next_seq
      /\ \A i \in 1..(n - next_seq) : run[i] = next_seq + i - 1
    BY ONLY <1>1, <1>2, RunOfPackets
<1> HIDE DEF run
<1>4. out \in Seq(Numbers) /\ Len(out) = next_seq /\ \A i \in 1..Len(out) : out[i] = i - 1
    BY DEF IInv, TypeOK, InOrder
<1>5. out \o run \in Seq(Numbers) /\ Len(out \o run) = n
      /\ \A i \in 1..Len(out \o run) : (out \o run)[i] = i - 1
    BY <1>2, <1>3, <1>4, OrderContinues
<1>6. out' = out \o run
    BY DEF run
<1> QED BY <1>5, <1>6 DEF InOrder

\* A task that has its body delivers it.
LEMMA ReadStep ==
    ASSUME IInv, NEW p \in bodies, ReadBody(p)
    PROVE  IInv'
<1>0. UNCHANGED <<flushed, queue, writer, uploader, seq, request, answered, session,
                  epoch, broken>>
      /\ bodies' = bodies \ {p} /\ Deliver(p)
    BY DEF ReadBody, client
<1>1. Numbering' /\ (request # NoRequest => request.data = request.seq)'
      /\ Faithful(answered)' /\ Faithful(bodies)'
    BY <1>0 DEF IInv, Numbering, Held, Faithful
<1>2. Faithful(pending \cup {p}) /\ pending \cup {p} \subseteq Requests
    BY DEF IInv, TypeOK, Faithful
<1>3. pending' \subseteq pending \cup {p}
    BY <1>0 DEF Deliver, assembler
<1>4. next_seq' \in Numbers /\ out' \in Seq(Numbers) /\ Len(out') = next_seq' /\ InOrder'
    <2>1. CASE UNCHANGED <<next_seq, out>>
        BY <2>1 DEF IInv, TypeOK, InOrder
    <2>2. CASE \E n \in Numbers :
                 /\ FirstGap(pending \cup {p}, n)
                 /\ out' = out \o Run(pending \cup {p}, next_seq, n)
                 /\ next_seq' = n
        BY <2>2, DeliverOpen
    <2> QED BY <1>0, <2>1, <2>2 DEF Deliver, assembler
<1>5. TypeOK'
    BY <1>0, <1>2, <1>3, <1>4 DEF IInv, TypeOK
<1> QED BY <1>1, <1>2, <1>3, <1>4, <1>5 DEF IInv, Faithful

\* A step that leaves every variable alone.
LEMMA Stutter == IInv /\ UNCHANGED vars => IInv'
<1> SUFFICES ASSUME IInv, UNCHANGED vars PROVE IInv'
    OBVIOUS
<1> USE DEF vars, client, server, assembler
<1>1. TypeOK' BY DEF IInv, TypeOK
<1>2. Numbering' BY DEF IInv, Numbering, Held
<1> QED BY <1>1, <1>2 DEF IInv, Faithful, InOrder

\* IInv is inductive.
THEOREM Inductive == Spec => []IInv
<1>1. IInv /\ [Next]_vars => IInv'
    BY ClientSteps, AcceptSteps, ReadStep, Stutter DEF Next
<1> QED BY InitIInv, <1>1, PTL DEF Spec

\* The types hold: the channel to the uploader never exceeds its capacity.
THEOREM TypeCorrect == Spec => []TypeOK
<1>1. IInv => TypeOK
    BY DEF IInv
<1> QED BY Inductive, <1>1, PTL

\* UploadAssembler gives the server session the client's chunks in the order of the
\* flushes, whatever the order in which bodies finish and however often a POST is repeated.
THEOREM UploadInOrder == Spec => []InOrder
<1>1. IInv => InOrder
    BY DEF IInv
<1> QED BY Inductive, <1>1, PTL
=============================================================================
