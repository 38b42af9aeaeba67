------------------------------ MODULE Session ------------------------------
(***************************************************************************)
(* One direction of a session of vlyness-transport/session.rs: the Noise   *)
(* handshake (noise.rs), the writer that shapes events into records,       *)
(* seals them and changes its key after a number of frames, the carrier    *)
(* that holds records in order (record.rs), and the reader that opens them *)
(* and follows the changes of key.  The two directions share a Transport   *)
(* under a mutex but none of its fields.                                   *)
(*                                                                         *)
(* The bytes of events are numbered; a frame is the run first..last of     *)
(* them.  A sealed record opens only with the key and the nonce it was     *)
(* sealed with; rekey changes the key and leaves the nonce counting.       *)
(***************************************************************************)
EXTENDS Integers, Sequences

CONSTANTS
    HeaderLen,      \* HEADER_LEN
    IdLen,          \* STREAM_ID_LEN
    TagLen,         \* TAG_LEN
    MaxPlaintext,   \* MAX_PLAINTEXT
    MaxRecord,      \* MAX_RECORD, u16::MAX
    MaxChunk,       \* MAX_STREAM_CHUNK
    MaxDatagram,    \* the longest UDP payload
    Targets,        \* the lengths the sampler may draw
    Intervals,      \* values given to set_rekey_interval
    MaxBytes,       \* bound: bytes put into the session
    MaxFrames,      \* bound: no new event after so many records
    WireCap         \* bound: records the carrier holds

ASSUME SessionAssumption ==
    /\ {HeaderLen, IdLen, TagLen, MaxPlaintext, MaxRecord, MaxChunk, MaxDatagram} \subseteq Nat
    /\ HeaderLen > 0 /\ IdLen > 0 /\ WireCap \in Nat \ {0} /\ {MaxBytes, MaxFrames} \subseteq Nat
    /\ Targets \subseteq Nat /\ Intervals \subseteq Nat

\* The lengths the code's constants are chosen for: a full record is a full Noise message,
\* and a whole chunk or datagram fits into one.
ASSUME LengthAssumption ==
    /\ MaxPlaintext + TagLen = MaxRecord
    /\ HeaderLen + IdLen + MaxChunk <= MaxPlaintext
    /\ HeaderLen + IdLen + MaxDatagram <= MaxPlaintext

VARIABLES
    phase,        \* of the handshake: "start", "hello", "answered", "open" or "failed"
    agree,        \* never changes: both ends have the same AUTH bytes and server key
    sender,       \* never changes: the end this direction starts from
    shaped,       \* never changes: the sender has a sampler
    interval,     \* rekey_interval
    halved,       \* the sender's Session has been split
    event,        \* the event being sent: the bytes of it that are left, and its kind
    accepted,     \* bytes put in so far
    sent_frames,  \* frames since the last change of key, as the sender counts
    due,          \* the sender has to change its key next
    key_out, nonce_out,   \* the sender's cipher state
    under,        \* history: frames sealed with the key in use, Rekey not counted
    limit,        \* history: how many the interval allows this key if its count runs on
    split_key,    \* history: the key in use when the session was split
    wire,         \* records on their way
    key_in, nonce_in,     \* the receiver's cipher state
    turning,      \* the receiver has read Rekey and not yet changed its key
    delivered,    \* the bytes handed to the receiving relay
    cut           \* the carrier has ended

config   == <<agree, sender, shaped>>
history  == <<limit, split_key>>
outVars  == <<interval, halved, event, accepted, sent_frames, due, key_out, nonce_out, under,
              history>>
inVars   == <<key_in, nonce_in, turning, delivered>>
vars     == <<phase, config, outVars, wire, inVars, cut>>

Least(a, b)    == IF a <= b THEN a ELSE b
Greatest(a, b) == IF a >= b THEN a ELSE b
Minus(a, b)    == Greatest(a - b, 0)   \* saturating_sub

Nothing == [kind |-> "none", first |-> 1, last |-> 0]
Kinds   == {"data", "datagram", "control"}
Runs    == [kind : Kinds \cup {"none"}, first : Nat, last : Nat]
Records == [type : Kinds \cup {"rekey"}, first : Nat, last : Nat, pad : Nat,
            key : Nat, nonce : Nat]

\* mux::encode: what of a frame is payload.  A control event is one byte here and a
\* handful in the code.
Payload(type, first, last) ==
    CASE type \in {"data", "datagram"} -> IdLen + (last - first + 1)
      [] type = "control" -> last - first + 1
      [] OTHER -> 0

\* Frame::plaintext_len of a record.
Plain(r) == HeaderLen + Payload(r.type, r.first, r.last) + r.pad

TypeOK ==
    /\ phase \in {"start", "hello", "answered", "open", "failed"}
    /\ {agree, shaped, halved, due, turning, cut} \subseteq BOOLEAN
    /\ sender \in {"client", "server"}
    /\ interval \in Nat \ {0} /\ event \in Runs
    /\ {accepted, sent_frames, key_out, nonce_out, under, limit, split_key, key_in, nonce_in}
           \subseteq Nat
    /\ wire \in Seq(Records) /\ Len(wire) <= WireCap
    /\ delivered \in Seq(Nat)

Init ==
    /\ phase = "start" /\ agree \in BOOLEAN /\ sender \in {"client", "server"}
    /\ shaped \in BOOLEAN /\ interval \in {Greatest(i, 1) : i \in Intervals}
    /\ halved = FALSE /\ event = Nothing /\ accepted = 0
    /\ sent_frames = 0 /\ due = FALSE /\ key_out = 0 /\ nonce_out = 0 /\ under = 0
    /\ limit = interval /\ split_key = 0
    /\ wire = <<>> /\ key_in = 0 /\ nonce_in = 0 /\ turning = FALSE
    /\ delivered = <<>> /\ cut = FALSE

-----------------------------------------------------------------------------
(* The handshake: Noise_IK with the AUTH bytes as prologue *)

\* connect writes msg1.
Hello ==
    /\ phase = "start"
    /\ phase' = "hello"
    /\ UNCHANGED <<config, outVars, wire, inVars, cut>>

\* accept reads msg1, which it can only if the ends agree, and writes msg2.
Answer ==
    /\ phase = "hello"
    /\ phase' = IF agree THEN "answered" ELSE "failed"
    /\ UNCHANGED <<config, outVars, wire, inVars, cut>>

\* Mutant: the client cannot read msg2 with records behind it.
OpenAlone ==
    /\ phase = "answered" /\ wire = <<>>
    /\ phase' = "open"
    /\ UNCHANGED <<config, outVars, wire, inVars, cut>>

\* The client reads msg2; the server may have sent records behind it.
Open ==
    /\ phase = "answered"
    /\ phase' = "open"
    /\ UNCHANGED <<config, outVars, wire, inVars, cut>>

\* An end has its Transport as soon as it has written or read msg2.
Ready(end) == phase = "open" \/ (phase = "answered" /\ end = "server")

-----------------------------------------------------------------------------
(* The writer *)

\* Mutant: padding may outgrow the record.
PadToTarget(payload, target) == IF shaped THEN Minus(target, HeaderLen + payload) ELSE 0

\* pad_to_target within choose_pad.
ChosenPad(payload, target) ==
    IF shaped THEN Least(Minus(target, HeaderLen + payload),
                         Minus(MaxPlaintext, HeaderLen + payload))
    ELSE 0

\* seal and write_record.
Send(type, first, last, pad) ==
    /\ Ready(sender) /\ ~cut /\ Len(wire) < WireCap
    /\ wire' = Append(wire, [type |-> type, first |-> first, last |-> last, pad |-> pad,
                             key |-> key_out, nonce |-> nonce_out])
    /\ nonce_out' = nonce_out + 1
    /\ under' = under + 1

\* Mutant: the change of key comes one frame late.
CountLate ==
    /\ sent_frames' = sent_frames + 1
    /\ due' = (sent_frames + 1 > interval)

\* The end of send_padded: count the frame, and change the key when it is time.
Count ==
    /\ sent_frames' = sent_frames + 1
    /\ due' = (sent_frames + 1 >= interval)

\* send_event takes the next event: a chunk, a datagram or a control frame.
Take(kind, n) ==
    /\ Ready(sender) /\ event = Nothing /\ ~due /\ ~cut /\ nonce_out < MaxFrames
    /\ n <= (CASE kind = "data" -> MaxChunk [] kind = "datagram" -> MaxDatagram [] OTHER -> 1)
    /\ n >= (IF kind = "control" THEN 1 ELSE 0) /\ accepted + n <= MaxBytes
    /\ event' = [kind |-> kind, first |-> accepted + 1, last |-> accepted + n]
    /\ accepted' = accepted + n
    /\ UNCHANGED <<phase, config, interval, halved, sent_frames, due, key_out, nonce_out, under,
                   history, wire, inVars, cut>>

\* Mutant: the stream id is left out of what a record has to hold.
RoomWithoutId(target) == Greatest(Minus(target, HeaderLen), 1)

\* plan_shaped_records: how many bytes go into a record of a given length.
Room(target) == Greatest(Minus(target, HeaderLen + IdLen), 1)

\* Mutant: the next record starts with the last byte of this one.
SendOverlapping(target) ==
    LET end == Least(event.first + Room(target) - 1, event.last) IN
    /\ event.kind = "data" /\ shaped /\ ~due
    /\ Send("data", event.first, end,
            ChosenPad(Payload("data", event.first, end), target))
    /\ Count
    /\ event' = IF end >= event.last THEN Nothing ELSE [event EXCEPT !.first = end]
    /\ UNCHANGED <<phase, config, interval, halved, accepted, key_out, history, inVars, cut>>

\* One step of plan_shaped_records and of the loop that sends the plan: the next record
\* of a chunk, cut or filled to the target; the last one ends the event.
SendShaped(target) ==
    LET end == Least(event.first + Room(target) - 1, event.last) IN
    /\ event.kind = "data" /\ shaped /\ ~due
    /\ Send("data", event.first, end,
            ChosenPad(Payload("data", event.first, end), target))
    /\ Count
    /\ event' = IF end >= event.last THEN Nothing ELSE [event EXCEPT !.first = end + 1]
    /\ UNCHANGED <<phase, config, interval, halved, accepted, key_out, history, inVars, cut>>

\* send_frame: the whole event in one record.
SendWhole(target) ==
    /\ event # Nothing /\ (event.kind = "data" => ~shaped) /\ ~due
    /\ Send(event.kind, event.first, event.last,
            ChosenPad(Payload(event.kind, event.first, event.last), target))
    /\ Count
    /\ event' = Nothing
    /\ UNCHANGED <<phase, config, interval, halved, accepted, key_out, history, inVars, cut>>

\* Mutant: the key changes before Rekey is sealed.
RekeyFirst(target) ==
    /\ due /\ Ready(sender) /\ ~cut /\ Len(wire) < WireCap
    /\ wire' = Append(wire, [type |-> "rekey", first |-> 1, last |-> 0,
                             pad |-> ChosenPad(0, target),
                             key |-> key_out + 1, nonce |-> nonce_out])
    /\ nonce_out' = nonce_out + 1 /\ key_out' = key_out + 1 /\ under' = 1
    /\ sent_frames' = 0 /\ due' = FALSE /\ limit' = interval
    /\ UNCHANGED <<phase, config, interval, halved, event, accepted, split_key, inVars, cut>>

\* rekey_outgoing: Rekey is the last record under the old key.
RekeyOutgoing(target) ==
    /\ due /\ Ready(sender) /\ ~cut /\ Len(wire) < WireCap
    /\ wire' = Append(wire, [type |-> "rekey", first |-> 1, last |-> 0,
                             pad |-> ChosenPad(0, target),
                             key |-> key_out, nonce |-> nonce_out])
    /\ nonce_out' = nonce_out + 1 /\ key_out' = key_out + 1 /\ under' = 0
    /\ sent_frames' = 0 /\ due' = FALSE /\ limit' = interval
    /\ UNCHANGED <<phase, config, interval, halved, event, accepted, split_key, inVars, cut>>

\* set_rekey_interval, between two events.
SetRekeyInterval(frames) ==
    /\ Ready(sender) /\ event = Nothing /\ ~due
    /\ interval' = Greatest(frames, 1)
    /\ limit' = Greatest(under + 1, interval')
    /\ UNCHANGED <<phase, config, halved, event, accepted, sent_frames, due, key_out, nonce_out,
                   under, split_key, wire, inVars, cut>>

\* split: the halves keep the Transport, and the count of frames starts again.
Split ==
    /\ Ready(sender) /\ event = Nothing /\ ~due /\ ~halved
    /\ halved' = TRUE /\ split_key' = key_out
    /\ sent_frames' = 0
    /\ UNCHANGED <<phase, config, interval, event, accepted, due, key_out, nonce_out, under,
                   limit, wire, inVars, cut>>

-----------------------------------------------------------------------------
(* The reader *)

Receiver == IF sender = "client" THEN "server" ELSE "client"

\* The run of bytes first..last.
Bytes(first, last) == [i \in 1..(last - first + 1) |-> first + i - 1]

\* recv_frame: read a record and open it, under the lock.  An event goes to the caller;
\* after Rekey the lock is taken a second time.
Receive ==
    LET r == Head(wire) IN
    /\ Ready(Receiver) /\ wire # <<>> /\ ~turning
    /\ r.key = key_in /\ r.nonce = nonce_in
    /\ wire' = Tail(wire)
    /\ nonce_in' = nonce_in + 1
    /\ turning' = (r.type = "rekey")
    /\ delivered' = IF r.type = "rekey" THEN delivered ELSE delivered \o Bytes(r.first, r.last)
    /\ UNCHANGED <<phase, config, outVars, key_in, cut>>

RekeyIncoming ==
    /\ turning
    /\ turning' = FALSE
    /\ key_in' = key_in + 1
    /\ UNCHANGED <<phase, config, outVars, wire, nonce_in, delivered, cut>>

\* The carrier ends; what it held beyond some point is lost.
Cut ==
    /\ ~cut
    /\ cut' = TRUE
    /\ \E n \in 0..Len(wire) : wire' = SubSeq(wire, 1, n)
    /\ UNCHANGED <<phase, config, outVars, inVars>>

Next ==
    \/ Hello \/ Answer \/ Open
    \/ \E kind \in Kinds, n \in 0..MaxBytes : Take(kind, n)
    \/ \E target \in Targets : SendShaped(target) \/ SendWhole(target) \/ RekeyOutgoing(target)
    \/ \E frames \in Intervals : SetRekeyInterval(frames)
    \/ Split
    \/ Receive \/ RekeyIncoming
    \/ Cut

\* The writer and the reader task run while they can.
Fairness ==
    /\ WF_vars(Hello \/ Answer \/ Open)
    /\ WF_vars(\E target \in Targets :
                  SendShaped(target) \/ SendWhole(target) \/ RekeyOutgoing(target))
    /\ WF_vars(Receive \/ RekeyIncoming)

Spec == Init /\ [][Next]_vars /\ Fairness

-----------------------------------------------------------------------------
(* Properties *)

\* The record the reader takes next was sealed with the key and the nonce it expects, also
\* when the sender has changed its key several times since: open never fails.
NextRecordOpens ==
    wire # <<>> => wire[1].nonce = nonce_in
                   /\ wire[1].key = key_in + (IF turning THEN 1 ELSE 0)

\* Every record fits into a Noise message and into the length prefix, whatever the sampler
\* drew: seal and write_record never refuse one.
RecordsFit ==
    \A i \in DOMAIN wire : Plain(wire[i]) <= MaxPlaintext /\ Plain(wire[i]) + TagLen <= MaxRecord

\* A shaped data record has the length that was drawn, up to the largest there is, unless
\* the shortest possible record is longer.
ShapedToTarget ==
    shaped => \A i \in DOMAIN wire : wire[i].type = "data" =>
        \E target \in Targets :
            Plain(wire[i]) = Greatest(Least(target, MaxPlaintext),
                                      HeaderLen + IdLen
                                        + Least(wire[i].last - wire[i].first + 1, 1))

\* A key seals at most rekey_interval frames before Rekey, the last record under it.  The
\* interval is the one in force; one set in the middle of a key counts from the next frame,
\* which a key that is past it may still seal.  Only for the one key in use when the session
\* is split the count starts twice.
KeysWearOut ==
    under <= (IF halved /\ key_out = split_key THEN 2 * limit - 1 ELSE limit)

Pipe == INSTANCE OrderedPipe

\* A session is an ordered pipe: what arrives is a prefix of what was put in.
OrderedDelivery == Pipe!Spec

\* What was put in comes out, unless the carrier ends or the handshake fails.
AllArrives == <>[](cut \/ phase = "failed" \/ Len(delivered) = accepted)
=============================================================================
