--------------------------- MODULE SessionProofs ---------------------------
(***************************************************************************)
(* Proofs about Session for every choice of lengths, targets and rekey     *)
(* intervals: the ends' keys stay in step, every record fits and has the   *)
(* drawn length, keys wear out, and the session implements OrderedPipe.    *)
(***************************************************************************)
EXTENDS Session, SequenceTheorems, TLAPS

Turn == IF turning THEN 1 ELSE 0

\* The key of the record behind r.
KeyAfter(r) == IF r.type = "rekey" THEN r.key + 1 ELSE r.key

\* The records on the wire are sealed one behind the other: the first is the one the reader
\* expects, and, while the carrier lives, the sender goes on where the last one ends.
InStep ==
    /\ \A i \in 1..Len(wire) : wire[i].nonce = nonce_in + i - 1
    /\ ~cut => nonce_out = nonce_in + Len(wire)
    /\ wire # <<>> => wire[1].key = key_in + Turn
    /\ \A i \in 1..(Len(wire) - 1) : wire[i + 1].key = KeyAfter(wire[i])
    /\ ~cut => key_out = (IF wire = <<>> THEN key_in + Turn ELSE KeyAfter(wire[Len(wire)]))

\* Bytes of events that are in records already.
Sent == IF event = Nothing THEN accepted ELSE event.first - 1

\* The event in hand is the tail of what was put in, and no longer than its kind allows.
EventInHand ==
    /\ event.kind = "none" => event = Nothing
    /\ event.kind # "none" => event.last = accepted /\ event.first \in 1..(accepted + 1)
    /\ event.kind = "data" => event.last - event.first + 1 <= MaxChunk
    /\ event.kind = "datagram" => event.last - event.first + 1 <= MaxDatagram
    /\ event.kind = "control" => event.last - event.first + 1 <= 1

\* pos[i] bytes come before the i-th record.
Follows(w, pos) ==
    \A i \in 1..Len(w) :
        IF w[i].type = "rekey" THEN pos[i + 1] = pos[i]
        ELSE w[i].first = pos[i] + 1 /\ w[i].last = pos[i + 1] /\ pos[i] <= pos[i + 1]

\* The records on the wire carry the bytes between those delivered and those still to send.
Placed ==
    \E pos \in [1..(Len(wire) + 1) -> 0..accepted] :
        /\ pos[1] = Len(delivered)
        /\ Follows(wire, pos)
        /\ ~cut => pos[Len(wire) + 1] = Sent

\* What was delivered is everything from the first byte on.
DeliveredInOrder == \A i \in 1..Len(delivered) : delivered[i] = i

Fits(r) == Plain(r) <= MaxPlaintext

AsDrawn(r) ==
    shaped /\ r.type = "data" =>
        \E target \in Targets :
            Plain(r) = Greatest(Least(target, MaxPlaintext),
                                HeaderLen + IdLen + Least(r.last - r.first + 1, 1))

\* Every record on the wire has a good length.
WellShaped == \A i \in 1..Len(wire) : Fits(wire[i]) /\ AsDrawn(wire[i])

\* The count runs up to the limit; only under the key of the split were frames sealed that
\* it has forgotten.
Wear ==
    /\ interval <= limit
    /\ sent_frames <= under
    /\ sent_frames <= (IF due THEN limit ELSE limit - 1)
    /\ under <= sent_frames + (IF halved /\ key_out = split_key THEN limit - 1 ELSE 0)

IInv == TypeOK /\ InStep /\ EventInHand /\ Placed /\ DeliveredInOrder /\ WellShaped /\ Wear

-----------------------------------------------------------------------------
(* Numbers *)

\* What set_rekey_interval stores.
LEMMA IntervalStored == \A i \in Intervals : Greatest(i, 1) \in Nat \ {0}
<1>1. Intervals \subseteq Nat
    BY SessionAssumption
<1> QED BY <1>1 DEF Greatest

\* choose_pad never makes a record longer than a Noise message.
LEMMA PadFits ==
    ASSUME NEW n \in Nat, HeaderLen + n <= MaxPlaintext, NEW target \in Targets,
           shaped \in BOOLEAN
    PROVE  /\ ChosenPad(n, target) \in Nat
           /\ HeaderLen + n + ChosenPad(n, target) <= MaxPlaintext
<1>1. target \in Nat /\ HeaderLen \in Nat /\ MaxPlaintext \in Nat
    BY SessionAssumption
<1> QED BY <1>1 DEF ChosenPad, Least, Greatest, Minus

\* A record cut by plan_shaped_records and filled by pad_to_target has the drawn length.
LEMMA CutAndFilled ==
    ASSUME NEW target \in Targets, shaped,
           NEW n \in Nat, n <= Room(target), HeaderLen + IdLen + n <= MaxPlaintext
    PROVE  HeaderLen + (IdLen + n) + ChosenPad(IdLen + n, target)
             = Greatest(Least(target, MaxPlaintext), HeaderLen + IdLen + Least(n, 1))
<1>1. target \in Nat /\ HeaderLen \in Nat /\ IdLen \in Nat /\ MaxPlaintext \in Nat
    BY SessionAssumption
<1>2. CASE target >= HeaderLen + IdLen + 1
    BY <1>1, <1>2 DEF ChosenPad, Least, Greatest, Minus, Room
<1>3. CASE target < HeaderLen + IdLen + 1
    BY <1>1, <1>3 DEF ChosenPad, Least, Greatest, Minus, Room
<1> QED BY <1>1, <1>2, <1>3

-----------------------------------------------------------------------------
(* A record is written *)

\* A record behind the last one, sealed with the sender's state.
Written(r) ==
    /\ ~cut /\ cut' = cut /\ Len(wire) < WireCap
    /\ r \in Records /\ r.key = key_out /\ r.nonce = nonce_out
    /\ wire' = Append(wire, r)
    /\ nonce_out' = nonce_out + 1 /\ key_out' = KeyAfter(r)
    /\ UNCHANGED inVars

\* What Append does to the wire.
LEMMA WireGrows ==
    ASSUME TypeOK, NEW r \in Records, wire' = Append(wire, r)
    PROVE  /\ wire' \in Seq(Records) /\ Len(wire') = Len(wire) + 1 /\ wire' # <<>>
           /\ Len(wire) \in Nat
           /\ \A i \in 1..Len(wire) : wire'[i] = wire[i] /\ wire[i] \in Records
           /\ wire'[Len(wire) + 1] = r
BY AppendProperties, LenProperties, ElementOfSeq DEF TypeOK

\* The sender seals with the key and the nonce the reader will have come to.
LEMMA WrittenInStep ==
    ASSUME TypeOK, InStep, NEW r, Written(r)
    PROVE  InStep'
<1>1. r \in Records /\ wire' = Append(wire, r) /\ r.key = key_out /\ r.nonce = nonce_out
      /\ nonce_out' = nonce_out + 1 /\ key_out' = KeyAfter(r) /\ ~cut
      /\ key_in' = key_in /\ nonce_in' = nonce_in /\ turning' = turning
    BY DEF Written, inVars
<1>2. /\ wire' \in Seq(Records) /\ Len(wire') = Len(wire) + 1 /\ wire' # <<>>
      /\ Len(wire) \in Nat
      /\ \A i \in 1..Len(wire) : wire'[i] = wire[i]
      /\ wire'[Len(wire) + 1] = r
    BY <1>1, WireGrows
<1>3. nonce_in \in Nat /\ nonce_out = nonce_in + Len(wire) /\ Turn' = Turn
    BY <1>1 DEF TypeOK, InStep, Turn
<1>4. \A i \in 1..Len(wire') : wire'[i].nonce = nonce_in' + i - 1
    <2> SUFFICES ASSUME NEW i \in 1..Len(wire') PROVE wire'[i].nonce = nonce_in' + i - 1
        OBVIOUS
    <2>1. CASE i \in 1..Len(wire)
        BY <1>1, <1>2, <2>1 DEF InStep
    <2>2. CASE i = Len(wire) + 1
        BY <1>1, <1>2, <1>3, <2>2
    <2> QED BY <1>2, <2>1, <2>2
<1>5. nonce_out' = nonce_in' + Len(wire')
    BY <1>1, <1>2, <1>3
<1>6. CASE wire = <<>>
    <2>1. Len(wire) = 0
        BY <1>6
    <2>2. wire'[1] = r /\ r.key = key_in + Turn /\ Len(wire') = 1
        BY <1>1, <1>2, <1>6, <2>1 DEF InStep
    <2> QED BY <1>1, <1>2, <1>3, <1>4, <1>5, <2>2 DEF InStep
<1>7. CASE wire # <<>>
    <2>1. Len(wire) >= 1
        BY <1>7, EmptySeq DEF TypeOK
    <2>2. wire'[1].key = key_in' + Turn'
        BY <1>1, <1>2, <1>3, <1>7, <2>1 DEF InStep
    <2>3. r.key = KeyAfter(wire[Len(wire)])
        BY <1>1, <1>7 DEF InStep
    <2>4. \A i \in 1..(Len(wire') - 1) : wire'[i + 1].key = KeyAfter(wire'[i])
        <3> SUFFICES ASSUME NEW i \in 1..Len(wire) PROVE wire'[i + 1].key = KeyAfter(wire'[i])
            BY <1>2
        <3>1. CASE i < Len(wire)
            <4>1. i \in 1..(Len(wire) - 1) /\ i + 1 \in 1..Len(wire)
                BY <1>2, <3>1
            <4> QED BY <1>2, <4>1 DEF InStep
        <3>2. CASE i = Len(wire)
            BY <1>2, <2>3, <3>2
        <3> QED BY <1>2, <3>1, <3>2
    <2>5. key_out' = KeyAfter(wire'[Len(wire')])
        BY <1>1, <1>2
    <2> QED BY <1>2, <1>4, <1>5, <2>2, <2>4, <2>5 DEF InStep
<1> QED BY <1>6, <1>7

\* A record carries the bytes that come next, Rekey none.
LEMMA WrittenPlaced ==
    ASSUME TypeOK, Placed, NEW r, Written(r), accepted' = accepted,
           IF r.type = "rekey" THEN Sent' = Sent
           ELSE r.first = Sent + 1 /\ r.last = Sent' /\ Sent <= Sent' /\ Sent' <= accepted,
           Sent' \in Nat
    PROVE  Placed'
<1>1. r \in Records /\ wire' = Append(wire, r) /\ ~cut /\ ~cut' /\ delivered' = delivered
    BY DEF Written, inVars
<1>2. /\ Len(wire') = Len(wire) + 1 /\ Len(wire) \in Nat
      /\ \A i \in 1..Len(wire) : wire'[i] = wire[i]
      /\ wire'[Len(wire) + 1] = r
    BY <1>1, WireGrows
<1>3. PICK pos \in [1..(Len(wire) + 1) -> 0..accepted] :
          pos[1] = Len(delivered) /\ Follows(wire, pos) /\ pos[Len(wire) + 1] = Sent
    BY <1>1 DEF Placed
<1> DEFINE new == [i \in 1..(Len(wire) + 2) |-> IF i <= Len(wire) + 1 THEN pos[i] ELSE Sent']
<1>4. accepted \in Nat /\ Sent \in 0..accepted /\ Sent' \in 0..accepted
    <2>1. Len(wire) + 1 \in 1..(Len(wire) + 1)
        BY <1>2
    <2>2. accepted \in Nat
        BY DEF TypeOK
    <2> QED BY <1>3, <2>1, <2>2
<1>5. new \in [1..(Len(wire') + 1) -> 0..accepted']
    BY <1>2, <1>3, <1>4
<1>6. new[1] = Len(delivered') /\ new[Len(wire') + 1] = Sent'
    BY <1>1, <1>2, <1>3
<1>7. Follows(wire', new)
    <2> SUFFICES ASSUME NEW i \in 1..Len(wire')
                 PROVE  IF wire'[i].type = "rekey" THEN new[i + 1] = new[i]
                        ELSE wire'[i].first = new[i] + 1 /\ wire'[i].last = new[i + 1]
                             /\ new[i] <= new[i + 1]
        BY DEF Follows
    <2>1. CASE i \in 1..Len(wire)
        <3>1. new[i] = pos[i] /\ new[i + 1] = pos[i + 1] /\ wire'[i] = wire[i]
            BY <1>2, <2>1
        <3> QED BY <1>3, <2>1, <3>1 DEF Follows
    <2>2. CASE i = Len(wire) + 1
        <3>1. new[i] = Sent /\ new[i + 1] = Sent' /\ wire'[i] = r
            BY <1>2, <1>3, <2>2
        <3> HIDE DEF new
        <3> QED BY <3>1
    <2> QED BY <1>2, <2>1, <2>2
<1> HIDE DEF new
<1> QED BY <1>5, <1>6, <1>7 DEF Placed

\* A record of a good length keeps the wire well shaped.
LEMMA WrittenShaped ==
    ASSUME TypeOK, WellShaped, NEW r, Written(r), shaped' = shaped, Fits(r), AsDrawn(r)
    PROVE  WellShaped'
<1>1. /\ Len(wire') = Len(wire) + 1 /\ Len(wire) \in Nat
      /\ \A i \in 1..Len(wire) : wire'[i] = wire[i]
      /\ wire'[Len(wire) + 1] = r
    BY WireGrows DEF Written
<1> SUFFICES ASSUME NEW i \in 1..Len(wire')
             PROVE  Fits(wire'[i]) /\ AsDrawn(wire'[i])
    BY DEF WellShaped, AsDrawn
<1>2. CASE i \in 1..Len(wire)
    BY <1>1, <1>2 DEF WellShaped
<1>3. CASE i = Len(wire) + 1
    BY <1>1, <1>3
<1> QED BY <1>1, <1>2, <1>3

\* Count after a frame: a key that has sealed its last frame is due for a change.
LEMMA CountWears ==
    ASSUME TypeOK, Wear, ~due, Count, under' = under + 1,
           UNCHANGED <<interval, halved, key_out, limit, split_key>>
    PROVE  Wear' /\ sent_frames' \in Nat /\ due' \in BOOLEAN
<1>1. sent_frames \in Nat /\ interval \in Nat /\ under \in Nat /\ limit \in Nat
    BY DEF TypeOK
<1>2. sent_frames <= limit - 1 /\ interval <= limit /\ sent_frames <= under
    BY DEF Wear
<1>3. sent_frames' = sent_frames + 1 /\ (due' <=> sent_frames + 1 >= interval)
    BY DEF Count
<1>4. due' \in BOOLEAN
    BY DEF Count
<1>5. sent_frames' <= (IF due' THEN limit' ELSE limit' - 1)
    BY <1>1, <1>2, <1>3
<1>6. under' <= sent_frames' + (IF halved' /\ key_out' = split_key' THEN limit' - 1 ELSE 0)
    BY <1>1, <1>3 DEF Wear
<1>7. interval' <= limit' /\ sent_frames' <= under'
    BY <1>1, <1>2, <1>3
<1> QED BY <1>1, <1>3, <1>4, <1>5, <1>6, <1>7 DEF Wear

\* The types of what a written record changes.
LEMMA WrittenTypes ==
    ASSUME TypeOK, NEW r, Written(r)
    PROVE  /\ wire' \in Seq(Records) /\ Len(wire') <= WireCap
           /\ nonce_out' \in Nat /\ key_out' \in Nat /\ cut' \in BOOLEAN
           /\ key_in' \in Nat /\ nonce_in' \in Nat /\ turning' \in BOOLEAN
           /\ delivered' \in Seq(Nat)
<1>1. wire' \in Seq(Records) /\ Len(wire') = Len(wire) + 1 /\ Len(wire) \in Nat
    BY WireGrows DEF Written
<1>2. nonce_out' \in Nat
    BY DEF Written, TypeOK
<1>3. key_out' \in Nat
    BY DEF Written, TypeOK, KeyAfter, Records
<1>4. cut' \in BOOLEAN /\ turning' \in BOOLEAN
    BY Zenon DEF Written, TypeOK, inVars
<1>5. key_in' \in Nat /\ nonce_in' \in Nat /\ delivered' \in Seq(Nat)
    BY DEF Written, TypeOK, inVars
<1>6. Len(wire') <= WireCap
    BY <1>1, SessionAssumption DEF Written
<1> QED BY <1>1, <1>2, <1>3, <1>4, <1>5, <1>6

\* One record of plan_shaped_records.
LEMMA ShapedStep ==
    ASSUME IInv, NEW target \in Targets, SendShaped(target)
    PROVE  IInv'
<1> DEFINE first == event.first
           last == event.last
           end == Least(first + Room(target) - 1, last)
           n == end - first + 1
           pad == ChosenPad(IdLen + n, target)
           r == [type |-> "data", first |-> first, last |-> end, pad |-> pad,
                 key |-> key_out, nonce |-> nonce_out]
<1>1. event.kind = "data" /\ shaped /\ ~due /\ ~cut /\ Len(wire) < WireCap
      /\ UNCHANGED <<phase, agree, sender, shaped, interval, halved, accepted, key_out, cut,
                     limit, split_key>>
      /\ UNCHANGED <<key_in, nonce_in, turning, delivered>>
      /\ under' = under + 1 /\ nonce_out' = nonce_out + 1 /\ Count
      /\ event' = IF end >= last THEN Nothing ELSE [event EXCEPT !.first = end + 1]
    BY DEF SendShaped, Send, config, history, inVars
<1>2. wire' = Append(wire, r)
    BY DEF SendShaped, Send, Payload
<1>3. first \in Nat /\ last \in Nat /\ accepted \in Nat /\ key_out \in Nat /\ nonce_out \in Nat
      /\ last = accepted /\ 1 <= first /\ first <= accepted + 1 /\ last - first + 1 <= MaxChunk
      /\ event # Nothing /\ event \in Runs
    BY <1>1 DEF IInv, TypeOK, EventInHand, Runs, Nothing
<1>4. Room(target) \in Nat /\ Room(target) >= 1 /\ IdLen \in Nat /\ HeaderLen \in Nat
      /\ MaxPlaintext \in Nat /\ MaxChunk \in Nat
    BY SessionAssumption DEF Room, Greatest, Minus
<1>5. end \in Nat /\ first - 1 <= end /\ end <= last /\ n \in Nat /\ n <= Room(target)
      /\ n <= MaxChunk
    BY <1>3, <1>4 DEF Least
<1>6. IdLen + n \in Nat /\ HeaderLen + IdLen + n <= MaxPlaintext
      /\ HeaderLen + (IdLen + n) <= MaxPlaintext
    BY <1>4, <1>5, LengthAssumption
<1> HIDE DEF end, n
<1>7. pad \in Nat /\ HeaderLen + (IdLen + n) + pad <= MaxPlaintext
    BY <1>1, <1>6, PadFits
<1>8. HeaderLen + (IdLen + n) + pad
        = Greatest(Least(target, MaxPlaintext), HeaderLen + IdLen + Least(n, 1))
    BY <1>1, <1>5, <1>6, CutAndFilled
<1> HIDE DEF pad
<1>9. r \in Records /\ r.type = "data" /\ r.first = first /\ r.last = end
      /\ r.key = key_out /\ r.nonce = nonce_out /\ r.pad = pad
    BY <1>3, <1>5, <1>7 DEF Records, Kinds
<1> HIDE DEF r
<1>10. Written(r) /\ TypeOK /\ InStep /\ Placed /\ WellShaped /\ Wear
    BY <1>1, <1>2, <1>9 DEF IInv, Written, KeyAfter, inVars
<1>11. Plain(r) = HeaderLen + (IdLen + n) + pad
    BY <1>9 DEF Plain, Payload, n
<1>12. Fits(r) /\ AsDrawn(r)
    BY <1>7, <1>8, <1>9, <1>11 DEF Fits, AsDrawn, n
<1>13. Sent = first - 1 /\ Sent' = end
    <2>1. Sent = first - 1
        BY <1>3 DEF Sent
    <2>2. CASE end >= last
        BY <1>1, <1>3, <1>5, <2>2 DEF Sent
    <2>3. CASE ~(end >= last)
        <3>1. event' = [event EXCEPT !.first = end + 1]
            BY <1>1, <2>3
        <3>2. event'.first = end + 1 /\ event'.kind = "data"
            BY <1>1, <1>3, <3>1 DEF Runs
        <3>3. event' # Nothing
            BY <3>2 DEF Nothing
        <3> QED BY <1>5, <2>1, <3>2, <3>3 DEF Sent
    <2> QED BY <2>1, <2>2, <2>3
<1>14. event' \in Runs /\ EventInHand'
    <2>1. CASE end >= last
        <3>1. event' = Nothing
            BY <1>1, <2>1
        <3> QED BY <3>1 DEF Nothing, Runs, EventInHand
    <2>2. CASE ~(end >= last)
        <3>1. event' = [event EXCEPT !.first = end + 1]
            BY <1>1, <2>2
        <3>2. event' = [kind |-> "data", first |-> end + 1, last |-> last]
            BY <1>1, <1>3, <1>5, <3>1 DEF Runs
        <3>3. event' \in Runs
            BY <1>3, <1>5, <3>2 DEF Runs, Kinds
        <3>4. event'.first = end + 1 /\ event'.kind = "data" /\ event'.last = last
            BY <3>2
        <3>5. last - (end + 1) + 1 <= MaxChunk /\ end + 1 \in 1..(accepted + 1)
            BY <1>3, <1>4, <1>5, <2>2
        <3> QED BY <1>1, <1>3, <3>3, <3>4, <3>5 DEF EventInHand
    <2> QED BY <2>1, <2>2
<1>15. InStep' /\ WellShaped'
    BY <1>1, <1>10, <1>12, WrittenInStep, WrittenShaped
<1>16. Placed'
    BY <1>1, <1>3, <1>5, <1>9, <1>10, <1>13, WrittenPlaced
<1>17. Wear' /\ sent_frames' \in Nat /\ due' \in BOOLEAN
    BY <1>1, <1>10, CountWears
<1>18. TypeOK'
    BY <1>1, <1>10, <1>14, <1>17, WrittenTypes DEF TypeOK
<1>19. DeliveredInOrder'
    BY <1>1 DEF IInv, DeliveredInOrder
<1> QED BY <1>14, <1>15, <1>16, <1>17, <1>18, <1>19 DEF IInv

\* send_frame: the event whole.
LEMMA WholeStep ==
    ASSUME IInv, NEW target \in Targets, SendWhole(target)
    PROVE  IInv'
<1> DEFINE first == event.first
           last == event.last
           n == last - first + 1
           load == Payload(event.kind, first, last)
           pad == ChosenPad(load, target)
           r == [type |-> event.kind, first |-> first, last |-> last, pad |-> pad,
                 key |-> key_out, nonce |-> nonce_out]
<1>1. event # Nothing /\ (event.kind = "data" => ~shaped) /\ ~due /\ ~cut
      /\ Len(wire) < WireCap
      /\ UNCHANGED <<phase, agree, sender, shaped, interval, halved, accepted, key_out, cut,
                     limit, split_key>>
      /\ UNCHANGED <<key_in, nonce_in, turning, delivered>>
      /\ under' = under + 1 /\ nonce_out' = nonce_out + 1 /\ Count
      /\ event' = Nothing
      /\ wire' = Append(wire, r)
    BY DEF SendWhole, Send, config, history, inVars
<1>2. event.kind \in Kinds /\ first \in Nat /\ last \in Nat /\ accepted \in Nat
      /\ key_out \in Nat /\ nonce_out \in Nat
      /\ last = accepted /\ 1 <= first /\ first <= accepted + 1
    BY <1>1 DEF IInv, TypeOK, EventInHand, Runs
<1>3. IdLen \in Nat /\ HeaderLen \in Nat /\ MaxPlaintext \in Nat /\ MaxChunk \in Nat
      /\ MaxDatagram \in Nat /\ IdLen > 0
    BY SessionAssumption
<1>4. n \in Nat
    BY <1>2
<1>5. load \in Nat /\ HeaderLen + load <= MaxPlaintext
    <2>1. CASE event.kind = "data"
        <3>1. load = IdLen + n /\ n <= MaxChunk
            BY <2>1 DEF Payload, IInv, EventInHand
        <3> QED BY <1>3, <1>4, <3>1, LengthAssumption
    <2>2. CASE event.kind = "datagram"
        <3>1. load = IdLen + n /\ n <= MaxDatagram
            BY <2>2 DEF Payload, IInv, EventInHand
        <3> QED BY <1>3, <1>4, <3>1, LengthAssumption
    <2>3. CASE event.kind = "control"
        <3>1. load = n /\ n <= 1
            BY <2>3 DEF Payload, IInv, EventInHand
        <3> QED BY <1>3, <1>4, <3>1, LengthAssumption
    <2> QED BY <1>2, <2>1, <2>2, <2>3 DEF Kinds
<1> HIDE DEF load, n
<1>6. pad \in Nat /\ HeaderLen + load + pad <= MaxPlaintext
    <2>1. shaped \in BOOLEAN
        BY DEF IInv, TypeOK
    <2> QED BY <1>5, <2>1, PadFits
<1> HIDE DEF pad
<1>7. r \in Records /\ r.type = event.kind /\ r.first = first /\ r.last = last
      /\ r.key = key_out /\ r.nonce = nonce_out /\ r.pad = pad /\ r.type # "rekey"
    BY <1>2, <1>6 DEF Records, Kinds
<1>8. Plain(r) = HeaderLen + load + pad
    BY <1>7 DEF Plain, load
<1> HIDE DEF r
<1>9. Written(r) /\ TypeOK /\ InStep /\ Placed /\ WellShaped /\ Wear
    BY <1>1, <1>7 DEF IInv, Written, KeyAfter, inVars
<1>10. Fits(r) /\ AsDrawn(r)
    BY <1>1, <1>6, <1>7, <1>8 DEF Fits, AsDrawn
<1>11. Sent = first - 1 /\ Sent' = last
    BY <1>1, <1>2 DEF Sent
<1>12. event' \in Runs /\ EventInHand'
    BY <1>1 DEF Nothing, Runs, EventInHand
<1>13. InStep' /\ WellShaped'
    BY <1>1, <1>9, <1>10, WrittenInStep, WrittenShaped
<1>14. Placed'
    BY <1>1, <1>2, <1>7, <1>9, <1>11, WrittenPlaced
<1>15. Wear' /\ sent_frames' \in Nat /\ due' \in BOOLEAN
    BY <1>1, <1>9, CountWears
<1>16. TypeOK'
    BY <1>1, <1>9, <1>12, <1>15, WrittenTypes DEF TypeOK
<1>17. DeliveredInOrder'
    BY <1>1 DEF IInv, DeliveredInOrder
<1> QED BY <1>12, <1>13, <1>14, <1>15, <1>16, <1>17 DEF IInv

\* rekey_outgoing: the record of the change is the last under the old key.
LEMMA RekeyStep ==
    ASSUME IInv, NEW target \in Targets, RekeyOutgoing(target)
    PROVE  IInv'
<1> DEFINE pad == ChosenPad(0, target)
           r == [type |-> "rekey", first |-> 1, last |-> 0, pad |-> pad,
                 key |-> key_out, nonce |-> nonce_out]
<1>1. ~cut /\ Len(wire) < WireCap
      /\ UNCHANGED <<phase, agree, sender, shaped, interval, halved, event, accepted, cut,
                     split_key>>
      /\ limit' = interval
      /\ UNCHANGED <<key_in, nonce_in, turning, delivered>>
      /\ nonce_out' = nonce_out + 1 /\ key_out' = key_out + 1
      /\ under' = 0 /\ sent_frames' = 0 /\ due' = FALSE
      /\ wire' = Append(wire, r)
    BY DEF RekeyOutgoing, config, inVars
<1>2. pad \in Nat /\ HeaderLen + 0 + pad <= MaxPlaintext
    <2>1. shaped \in BOOLEAN
        BY DEF IInv, TypeOK
    <2>2. 0 \in Nat /\ HeaderLen + 0 <= MaxPlaintext
        BY SessionAssumption, LengthAssumption
    <2> QED BY <2>1, <2>2, PadFits
<1> HIDE DEF pad
<1>3. key_out \in Nat /\ nonce_out \in Nat
    BY DEF IInv, TypeOK
<1>4. r \in Records /\ r.type = "rekey" /\ r.key = key_out /\ r.nonce = nonce_out
      /\ r.pad = pad
    BY <1>2, <1>3 DEF Records
<1> HIDE DEF r
<1>5. Fits(r) /\ AsDrawn(r)
    BY <1>2, <1>4 DEF Fits, AsDrawn, Plain, Payload
<1>6. Written(r) /\ TypeOK /\ InStep /\ Placed /\ WellShaped
    BY <1>1, <1>4 DEF IInv, Written, KeyAfter, inVars
<1>7. Sent' = Sent /\ Sent' \in Nat
    BY <1>1 DEF Sent, IInv, TypeOK, EventInHand
<1>8. InStep' /\ WellShaped' /\ Placed'
    BY <1>1, <1>4, <1>5, <1>6, <1>7, WrittenInStep, WrittenShaped, WrittenPlaced
<1>9. Wear'
    BY <1>1 DEF IInv, TypeOK, Wear
<1>10. TypeOK'
    <2>1. halved' \in BOOLEAN /\ due' \in BOOLEAN /\ agree' \in BOOLEAN /\ shaped' \in BOOLEAN
        BY <1>1, Zenon DEF IInv, TypeOK
    <2> QED BY <1>1, <1>6, <2>1, WrittenTypes DEF TypeOK
<1>11. EventInHand' /\ DeliveredInOrder'
    BY <1>1 DEF IInv, EventInHand, DeliveredInOrder
<1> QED BY <1>8, <1>9, <1>10, <1>11 DEF IInv

-----------------------------------------------------------------------------
(* The other steps of the sender, and the handshake *)

\* What a step that leaves the wire and both cipher states alone preserves.
LEMMA WireAlone ==
    ASSUME IInv, UNCHANGED <<wire, key_in, nonce_in, turning, delivered, cut, shaped,
                             key_out, nonce_out>>
    PROVE  InStep' /\ WellShaped' /\ DeliveredInOrder'
<1>1. InStep'
    BY DEF IInv, InStep, Turn
<1>2. WellShaped'
    BY DEF IInv, WellShaped, AsDrawn
<1> QED BY <1>1, <1>2 DEF IInv, DeliveredInOrder

\* send_event takes an event: nothing of it is sent yet.
LEMMA TakeStep ==
    ASSUME IInv, NEW kind \in Kinds, NEW n \in 0..MaxBytes, Take(kind, n)
    PROVE  IInv'
<1>1. event = Nothing /\ UNCHANGED <<phase, agree, sender, shaped, interval, halved,
         sent_frames, due, key_out, nonce_out, under, limit, split_key, wire, key_in, nonce_in,
         turning, delivered, cut>>
      /\ event' = [kind |-> kind, first |-> accepted + 1, last |-> accepted + n]
      /\ accepted' = accepted + n
    BY DEF Take, config, history, inVars
<1>2. n \in Nat /\ accepted \in Nat
    BY SessionAssumption DEF IInv, TypeOK
<1>3. event'.kind = kind /\ event'.first = accepted + 1 /\ event'.last = accepted + n
      /\ event' \in Runs /\ event' # Nothing /\ kind # "none"
    BY <1>1, <1>2 DEF Runs, Kinds, Nothing
<1>4. TypeOK'
    BY <1>1, <1>2, <1>3 DEF IInv, TypeOK
<1>5. EventInHand'
    <2>1. event'.last - event'.first + 1 = n
        BY <1>2, <1>3
    <2>2. (kind = "data" => n <= MaxChunk) /\ (kind = "datagram" => n <= MaxDatagram)
          /\ (kind = "control" => n <= 1)
        BY DEF Take, Kinds
    <2>3. event'.last = accepted' /\ event'.first \in 1..(accepted' + 1)
        BY <1>1, <1>2, <1>3
    <2> QED BY <1>3, <2>1, <2>2, <2>3 DEF EventInHand
<1>6. Placed'
    <2>1. PICK pos \in [1..(Len(wire) + 1) -> 0..accepted] :
              pos[1] = Len(delivered) /\ Follows(wire, pos)
              /\ (~cut => pos[Len(wire) + 1] = Sent)
        BY DEF IInv, Placed
    <2>2. pos \in [1..(Len(wire') + 1) -> 0..accepted']
        BY <1>1, <1>2
    <2>3. Sent' = Sent
        BY <1>1, <1>2, <1>3 DEF Sent
    <2> QED BY <1>1, <2>1, <2>2, <2>3 DEF Placed, Follows
<1>7. Wear'
    BY <1>1 DEF IInv, Wear
<1> QED BY <1>1, <1>4, <1>5, <1>6, <1>7, WireAlone DEF IInv

\* The handshake, set_rekey_interval and split.
LEMMA QuietSteps ==
    ASSUME IInv, \/ Hello \/ Answer \/ Open \/ Split
                 \/ \E frames \in Intervals : SetRekeyInterval(frames)
    PROVE  IInv'
<1>1. UNCHANGED <<agree, sender, shaped, event, accepted, due, key_out, nonce_out, under, wire,
                  key_in, nonce_in, turning, delivered, cut>>
    BY DEF Hello, Answer, Open, Split, SetRekeyInterval, config, outVars, history, inVars
<1>2. EventInHand'
    BY <1>1 DEF IInv, EventInHand
<1>3. Placed'
    BY <1>1 DEF IInv, Placed, Follows, Sent
<1>4. phase' \in {"start", "hello", "answered", "open", "failed"}
    BY DEF IInv, TypeOK, Hello, Answer, Open, Split, SetRekeyInterval
<1>5. halved' \in BOOLEAN /\ interval' \in Nat \ {0} /\ sent_frames' \in Nat
      /\ limit' \in Nat /\ split_key' \in Nat /\ Wear'
    <2>0. under \in Nat /\ sent_frames \in Nat /\ limit \in Nat /\ key_out \in Nat
          /\ interval \in Nat
        BY DEF IInv, TypeOK
    <2>1. CASE Hello \/ Answer \/ Open
        BY <2>1 DEF IInv, TypeOK, Wear, Hello, Answer, Open, outVars, history
    <2>2. CASE Split
        <3>1. halved' = TRUE /\ sent_frames' = 0 /\ interval' = interval /\ under' = under
              /\ due' = due /\ ~due /\ ~halved /\ split_key' = key_out /\ limit' = limit
              /\ key_out' = key_out
            BY <2>2 DEF Split
        <3> QED BY <2>0, <3>1 DEF IInv, TypeOK, Wear
    <2>3. CASE \E frames \in Intervals : SetRekeyInterval(frames)
        <3>1. PICK frames \in Intervals : SetRekeyInterval(frames)
            BY <2>3
        <3>2. interval' = Greatest(frames, 1) /\ limit' = Greatest(under + 1, interval') /\ ~due
              /\ UNCHANGED <<halved, sent_frames, under, due, key_out, split_key>>
            BY <3>1 DEF SetRekeyInterval
        <3>3. interval' \in Nat \ {0}
            BY <3>2, IntervalStored
        <3>4. limit' \in Nat /\ interval' <= limit' /\ under + 1 <= limit'
            BY <2>0, <3>2, <3>3 DEF Greatest
        <3> QED BY <2>0, <3>2, <3>3, <3>4 DEF IInv, TypeOK, Wear
    <2> QED BY <2>1, <2>2, <2>3
<1>6. TypeOK'
    BY <1>1, <1>4, <1>5 DEF IInv, TypeOK
<1> QED BY <1>1, <1>2, <1>3, <1>5, <1>6, WireAlone DEF IInv

-----------------------------------------------------------------------------
(* The reader and the carrier *)

\* The reader takes the first record.
LEMMA WireShrinks ==
    ASSUME TypeOK, wire # <<>>, wire' = Tail(wire)
    PROVE  /\ wire' \in Seq(Records) /\ Len(wire') = Len(wire) - 1 /\ Len(wire) \in Nat \ {0}
           /\ Head(wire) = wire[1] /\ wire[1] \in Records
           /\ \A i \in 1..Len(wire') : wire'[i] = wire[i + 1]
           /\ (wire' = <<>> <=> Len(wire) = 1)
<1>1. wire \in Seq(Records)
    BY DEF TypeOK
<1>2. wire' \in Seq(Records) /\ Len(wire') = Len(wire) - 1
      /\ \A i \in 1..Len(wire') : wire'[i] = wire[i + 1]
    BY <1>1, HeadTailProperties
<1>3. Len(wire) \in Nat \ {0} /\ wire[1] \in Records
    BY <1>1, EmptySeq, ElementOfSeq
<1>4. Head(wire) = wire[1]
    BY <1>1
<1>5. wire' = <<>> <=> Len(wire') = 0
    BY <1>2, EmptySeq
<1> QED BY <1>2, <1>3, <1>4, <1>5

\* Appending the bytes of a record to those delivered.
LEMMA BytesContinue ==
    ASSUME NEW s \in Seq(Nat), \A i \in 1..Len(s) : s[i] = i,
           NEW first \in Nat, NEW last \in Nat, first = Len(s) + 1, last >= Len(s)
    PROVE  /\ s \o Bytes(first, last) \in Seq(Nat)
           /\ Len(s \o Bytes(first, last)) = last
           /\ \A i \in 1..last : (s \o Bytes(first, last))[i] = i
<1> DEFINE n == last - first + 1
           b == Bytes(first, last)
<1>1. Len(s) \in Nat /\ n \in Nat /\ n = last - Len(s)
    OBVIOUS
<1>2. b = [i \in 1..n |-> first + i - 1]
    BY DEF Bytes
<1>3. b \in [1..n -> Nat]
    BY <1>1, <1>2
<1> HIDE DEF b
<1>4. b \in Seq(Nat) /\ Len(b) = n
    <2>1. \A k \in Nat : \A f \in [1..k -> Nat] : f \in Seq(Nat) /\ Len(f) = k
        BY SeqDef
    <2> QED BY ONLY <1>1, <1>3, <2>1
<1>5. s \o b \in Seq(Nat) /\ Len(s \o b) = Len(s) + Len(b)
      /\ \A i \in 1..(Len(s) + Len(b)) :
            (s \o b)[i] = IF i <= Len(s) THEN s[i] ELSE b[i - Len(s)]
    BY <1>4, ConcatProperties
<1>6. Len(s) + Len(b) = last
    BY <1>1, <1>4
<1>7. ASSUME NEW i \in 1..last PROVE (s \o b)[i] = i
    <2>1. CASE i <= Len(s)
        BY <1>1, <1>5, <1>6, <2>1
    <2>2. CASE i > Len(s)
        <3>1. i - Len(s) \in 1..n /\ (s \o b)[i] = b[i - Len(s)]
            BY <1>1, <1>5, <1>6, <2>2
        <3>2. b[i - Len(s)] = first + (i - Len(s)) - 1
            BY <1>2, <3>1
        <3>3. first + (i - Len(s)) - 1 = i
            BY <1>1
        <3> QED BY <3>1, <3>2, <3>3
    <2>3. i <= Len(s) \/ i > Len(s)
        BY <1>1
    <2> QED BY <2>1, <2>2, <2>3
<1> QED BY <1>5, <1>6, <1>7 DEF b

\* recv_frame opens the next record: the bytes it carries are the next ones.
LEMMA ReceiveDelivers ==
    ASSUME IInv, Receive
    PROVE  /\ delivered' \in Seq(Nat) /\ DeliveredInOrder' /\ Placed'
           /\ Len(delivered') \in Len(delivered)..accepted
<1> DEFINE r == wire[1]
<1>1. TypeOK /\ wire # <<>> /\ wire' = Tail(wire)
    BY DEF IInv, Receive
<1>2. /\ Len(wire') = Len(wire) - 1 /\ Len(wire) \in Nat \ {0}
      /\ Head(wire) = wire[1] /\ r \in Records
      /\ \A i \in 1..Len(wire') : wire'[i] = wire[i + 1]
    BY <1>1, WireShrinks
<1>3. delivered' = (IF r.type = "rekey" THEN delivered ELSE delivered \o Bytes(r.first, r.last))
      /\ UNCHANGED <<accepted, event, cut>>
    BY <1>2 DEF Receive, outVars, history
<1>4. PICK pos \in [1..(Len(wire) + 1) -> 0..accepted] :
          pos[1] = Len(delivered) /\ Follows(wire, pos) /\ (~cut => pos[Len(wire) + 1] = Sent)
    BY DEF IInv, Placed
<1>5. delivered \in Seq(Nat) /\ (\A i \in 1..Len(delivered) : delivered[i] = i)
      /\ Len(delivered) \in Nat /\ accepted \in Nat
    BY DEF IInv, TypeOK, DeliveredInOrder
<1>6. pos[1] \in 0..accepted /\ pos[2] \in 0..accepted
    BY <1>2, <1>4
<1>7. delivered' \in Seq(Nat) /\ DeliveredInOrder' /\ Len(delivered') = pos[2] /\ pos[1] <= pos[2]
    <2>1. CASE r.type = "rekey"
        <3>1. pos[2] = pos[1] /\ delivered' = delivered
            BY <1>2, <1>3, <1>4, <2>1 DEF Follows
        <3> QED BY <1>4, <1>5, <1>6, <3>1 DEF DeliveredInOrder
    <2>2. CASE r.type # "rekey"
        <3>1. r.first = Len(delivered) + 1 /\ r.last = pos[2] /\ pos[1] <= pos[2]
            BY <1>2, <1>4, <2>2 DEF Follows
        <3>2. r.first \in Nat /\ r.last \in Nat /\ r.last >= Len(delivered)
            BY <1>4, <1>5, <1>6, <3>1
        <3>3. delivered' = delivered \o Bytes(r.first, r.last)
            BY <1>3, <2>2
        <3>4. delivered' \in Seq(Nat) /\ Len(delivered') = r.last
              /\ \A i \in 1..r.last : delivered'[i] = i
            <4>1. ASSUME NEW first \in Nat, NEW last \in Nat, first = Len(delivered) + 1,
                         last >= Len(delivered)
                  PROVE  /\ delivered \o Bytes(first, last) \in Seq(Nat)
                         /\ Len(delivered \o Bytes(first, last)) = last
                         /\ \A i \in 1..last : (delivered \o Bytes(first, last))[i] = i
                <5>1. delivered \in Seq(Nat) /\ \A i \in 1..Len(delivered) : delivered[i] = i
                    BY ONLY <1>5
                <5>2. delivered \o Bytes(first, last) \in Seq(Nat)
                    BY ONLY <4>1, <5>1, BytesContinue
                <5>3. Len(delivered \o Bytes(first, last)) = last
                    BY ONLY <4>1, <5>1, BytesContinue
                <5>4. \A i \in 1..last : (delivered \o Bytes(first, last))[i] = i
                    BY ONLY <4>1, <5>1, BytesContinue
                <5> QED BY ONLY <5>2, <5>3, <5>4
            <4> HIDE DEF r
            <4> QED BY ONLY <3>1, <3>2, <3>3, <4>1
        <3> QED BY <3>1, <3>4 DEF DeliveredInOrder
    <2> QED BY <2>1, <2>2
<1>8. Placed'
    <2> DEFINE new == [i \in 1..Len(wire) |-> pos[i + 1]]
    <2>1. new \in [1..(Len(wire') + 1) -> 0..accepted']
        BY <1>2, <1>3, <1>4
    <2>2. new[1] = Len(delivered') /\ new[Len(wire') + 1] = pos[Len(wire) + 1]
        BY <1>2, <1>7
    <2>3. \A i \in 1..Len(wire') : new[i] = pos[i + 1] /\ new[i + 1] = pos[i + 2]
                                   /\ wire'[i] = wire[i + 1] /\ i + 1 \in 1..Len(wire)
        BY <1>2
    <2> HIDE DEF new
    <2>4. Follows(wire', new)
        <3> SUFFICES ASSUME NEW i \in 1..Len(wire')
                     PROVE  IF wire'[i].type = "rekey" THEN new[i + 1] = new[i]
                            ELSE wire'[i].first = new[i] + 1 /\ wire'[i].last = new[i + 1]
                                 /\ new[i] <= new[i + 1]
            BY DEF Follows
        <3> DEFINE j == i + 1
        <3>1. new[i] = pos[j] /\ new[i + 1] = pos[j + 1] /\ wire'[i] = wire[j]
              /\ j \in 1..Len(wire)
            BY <1>2, <2>3
        <3> HIDE DEF j
        <3> QED BY <1>4, <3>1 DEF Follows
    <2>5. Sent' = Sent /\ cut' = cut
        BY <1>3 DEF Sent
    <2> QED BY <1>4, <2>1, <2>2, <2>4, <2>5 DEF Placed
<1> QED BY <1>4, <1>5, <1>6, <1>7, <1>8

\* The reader expects the record behind the one it took.
LEMMA ReceiveInStep ==
    ASSUME TypeOK, InStep, Receive
    PROVE  InStep'
<1>1. wire # <<>> /\ wire' = Tail(wire) /\ ~turning /\ nonce_in' = nonce_in + 1
      /\ UNCHANGED <<key_in, key_out, nonce_out, cut>>
    BY DEF Receive, outVars, history
<1>2. /\ wire' \in Seq(Records) /\ Len(wire') = Len(wire) - 1 /\ Len(wire) \in Nat \ {0}
      /\ Head(wire) = wire[1] /\ wire[1] \in Records
      /\ \A i \in 1..Len(wire') : wire'[i] = wire[i + 1]
      /\ (wire' = <<>> <=> Len(wire) = 1)
    BY <1>1, WireShrinks
<1>3. wire[1].key = key_in /\ (turning' <=> wire[1].type = "rekey")
      /\ key_in \in Nat /\ nonce_in \in Nat
    BY <1>2 DEF Receive, TypeOK
<1>4. key_in' + Turn' = KeyAfter(wire[1])
    BY <1>1, <1>3 DEF Turn, KeyAfter
<1>5. \A i \in 1..Len(wire') : wire'[i].nonce = nonce_in' + i - 1
    <2> SUFFICES ASSUME NEW i \in 1..Len(wire') PROVE wire'[i].nonce = nonce_in' + i - 1
        OBVIOUS
    <2>1. i + 1 \in 1..Len(wire) /\ wire'[i] = wire[i + 1]
        BY <1>2
    <2>2. wire[i + 1].nonce = nonce_in + (i + 1) - 1
        BY <2>1 DEF InStep
    <2> QED BY <1>1, <1>3, <2>1, <2>2
<1>6. ~cut' => nonce_out' = nonce_in' + Len(wire')
    BY <1>1, <1>2, <1>3 DEF InStep
<1>7. wire' # <<>> => wire'[1].key = key_in' + Turn'
    <2> SUFFICES ASSUME wire' # <<>> PROVE wire'[1].key = KeyAfter(wire[1])
        BY <1>4
    <2>1. 1 \in 1..Len(wire') /\ 1 \in 1..(Len(wire) - 1)
        BY <1>2
    <2>2. wire'[1] = wire[1 + 1] /\ wire[1 + 1].key = KeyAfter(wire[1])
        BY <1>2, <2>1 DEF InStep
    <2> QED BY <2>2
<1>8. \A i \in 1..(Len(wire') - 1) : wire'[i + 1].key = KeyAfter(wire'[i])
    <2> SUFFICES ASSUME NEW i \in 1..(Len(wire') - 1)
                 PROVE  wire'[i + 1].key = KeyAfter(wire'[i])
        OBVIOUS
    <2> DEFINE j == i + 1
    <2>1. j \in 1..(Len(wire) - 1) /\ wire'[i] = wire[j] /\ wire'[i + 1] = wire[j + 1]
        BY <1>2
    <2> HIDE DEF j
    <2> QED BY <2>1 DEF InStep
<1>9. ~cut' => key_out' = (IF wire' = <<>> THEN key_in' + Turn'
                           ELSE KeyAfter(wire'[Len(wire')]))
    <2>1. CASE wire' = <<>>
        BY <1>1, <1>2, <1>4, <2>1 DEF InStep
    <2>2. CASE wire' # <<>>
        <3>1. Len(wire') \in 1..Len(wire') /\ wire'[Len(wire')] = wire[Len(wire)]
            BY <1>2, <2>2
        <3> QED BY <1>1, <2>2, <3>1 DEF InStep
    <2> QED BY <2>1, <2>2
<1> QED BY <1>5, <1>6, <1>7, <1>8, <1>9 DEF InStep

\* Receive preserves the invariant.
LEMMA ReceiveStep == ASSUME IInv, Receive PROVE IInv'
<1>1. UNCHANGED <<phase, agree, sender, shaped, interval, halved, event, accepted, sent_frames,
                  due, key_out, nonce_out, under, limit, split_key, key_in, cut>>
      /\ wire # <<>> /\ wire' = Tail(wire) /\ nonce_in' = nonce_in + 1
    BY DEF Receive, config, outVars, history
<1>2. TypeOK /\ InStep
    BY DEF IInv
<1>3. /\ wire' \in Seq(Records) /\ Len(wire') = Len(wire) - 1 /\ Len(wire) \in Nat \ {0}
      /\ \A i \in 1..Len(wire') : wire'[i] = wire[i + 1]
    BY <1>1, <1>2, WireShrinks
<1>4. turning' \in BOOLEAN
    BY DEF Receive
<1>5. TypeOK'
    <2>1. Len(wire') <= WireCap
        BY <1>2, <1>3, SessionAssumption DEF TypeOK
    <2>2. nonce_in' \in Nat
        BY <1>1, <1>2 DEF TypeOK
    <2> QED BY <1>1, <1>2, <1>3, <1>4, <2>1, <2>2, ReceiveDelivers DEF TypeOK
<1>6. EventInHand' /\ Wear'
    BY <1>1 DEF IInv, EventInHand, Wear
<1>7. WellShaped'
    <2> SUFFICES ASSUME NEW i \in 1..Len(wire') PROVE Fits(wire'[i]) /\ AsDrawn(wire'[i])
        BY <1>1 DEF WellShaped, AsDrawn
    <2>1. i + 1 \in 1..Len(wire) /\ wire'[i] = wire[i + 1]
        BY <1>3
    <2> QED BY <2>1 DEF IInv, WellShaped
<1> QED BY <1>2, <1>5, <1>6, <1>7, ReceiveInStep, ReceiveDelivers DEF IInv

\* The second lock of recv_frame: the reader has followed the change of key.
LEMMA RekeyIncomingStep == ASSUME IInv, RekeyIncoming PROVE IInv'
<1>1. UNCHANGED <<phase, agree, sender, shaped, interval, halved, event, accepted, sent_frames,
                  due, key_out, nonce_out, under, limit, split_key, wire, nonce_in, delivered, cut>>
      /\ turning /\ turning' = FALSE /\ key_in' = key_in + 1
    BY DEF RekeyIncoming, config, outVars, history
<1>2. key_in' + Turn' = key_in + Turn
    BY <1>1 DEF Turn, IInv, TypeOK
<1>3. InStep'
    BY <1>1, <1>2 DEF IInv, InStep
<1>4. TypeOK'
    <2>1. turning' \in BOOLEAN
        BY <1>1
    <2>2. key_in' \in Nat
        BY <1>1 DEF IInv, TypeOK
    <2> QED BY <1>1, <2>1, <2>2 DEF IInv, TypeOK
<1>5. EventInHand' /\ Wear' /\ DeliveredInOrder' /\ Placed'
    BY <1>1 DEF IInv, EventInHand, Wear, DeliveredInOrder, Placed, Follows, Sent
<1>6. WellShaped'
    BY <1>1 DEF IInv, WellShaped, AsDrawn
<1> QED BY <1>3, <1>4, <1>5, <1>6 DEF IInv

\* The carrier ends after a prefix of what it holds.
LEMMA CutStep == ASSUME IInv, Cut PROVE IInv'
<1>1. PICK n \in 0..Len(wire) : wire' = SubSeq(wire, 1, n)
    BY DEF Cut
<1>2. cut' = TRUE
      /\ UNCHANGED <<phase, agree, sender, shaped, interval, halved, event, accepted, sent_frames,
                     due, key_out, nonce_out, under, limit, split_key, key_in, nonce_in,
                     turning, delivered>>
    BY DEF Cut, config, outVars, history, inVars
<1>3. wire \in Seq(Records) /\ Len(wire) \in Nat /\ n \in Nat /\ n <= Len(wire)
      /\ Len(wire) <= WireCap
    BY DEF IInv, TypeOK
<1>4. \A i \in 1..n : wire[i] \in Records
    BY <1>3, ElementOfSeq
<1>5. wire' \in Seq(Records) /\ Len(wire') = n /\ \A i \in 1..n : wire'[i] = wire[i]
    <2>1. wire' \in Seq(Records) /\ Len(wire') = (IF 1 <= n THEN n - 1 + 1 ELSE 0)
          /\ \A i \in 1..(n - 1 + 1) : wire'[i] = wire[1 + i - 1]
        BY <1>1, <1>3, <1>4, SubSeqProperties
    <2> QED BY <1>3, <2>1
<1>6. TypeOK'
    <2>1. n <= WireCap
        BY <1>3, SessionAssumption
    <2> QED BY <1>2, <1>5, <2>1 DEF IInv, TypeOK
<1>7. InStep'
    <2>1. Turn' = Turn
        BY <1>2 DEF Turn
    <2>2. wire' # <<>> => n >= 1 /\ wire # <<>>
        BY <1>3, <1>5, EmptySeq
    <2>3. wire' # <<>> => wire'[1].key = key_in' + Turn'
        BY <1>2, <1>3, <1>5, <2>1, <2>2 DEF IInv, InStep
    <2>4. \A i \in 1..Len(wire') : wire'[i].nonce = nonce_in' + i - 1
        BY <1>2, <1>3, <1>5 DEF IInv, InStep
    <2>5. \A i \in 1..(Len(wire') - 1) : wire'[i + 1].key = KeyAfter(wire'[i])
        <3> SUFFICES ASSUME NEW i \in 1..(n - 1) PROVE wire'[i + 1].key = KeyAfter(wire'[i])
            BY <1>5
        <3>1. i \in 1..(Len(wire) - 1) /\ i \in 1..n /\ i + 1 \in 1..n
            BY <1>3
        <3> QED BY <1>5, <3>1 DEF IInv, InStep
    <2> QED BY <1>2, <2>3, <2>4, <2>5 DEF InStep
<1>8. Placed'
    <2>1. PICK pos \in [1..(Len(wire) + 1) -> 0..accepted] :
              pos[1] = Len(delivered) /\ Follows(wire, pos)
        BY DEF IInv, Placed
    <2> DEFINE new == [i \in 1..(n + 1) |-> pos[i]]
    <2>2. new \in [1..(Len(wire') + 1) -> 0..accepted'] /\ new[1] = Len(delivered')
        BY <1>2, <1>3, <1>5, <2>1
    <2>3. \A i \in 1..n : new[i] = pos[i] /\ new[i + 1] = pos[i + 1] /\ i \in 1..Len(wire)
        BY <1>3
    <2> HIDE DEF new
    <2>4. Follows(wire', new)
        BY <1>5, <2>1, <2>3 DEF Follows
    <2> QED BY <1>2, <2>2, <2>4 DEF Placed
<1>9. EventInHand' /\ Wear' /\ DeliveredInOrder'
    BY <1>2 DEF IInv, EventInHand, Wear, DeliveredInOrder
<1>10. WellShaped'
    <2> SUFFICES ASSUME NEW i \in 1..n PROVE Fits(wire'[i]) /\ AsDrawn(wire'[i])
        BY <1>2, <1>5 DEF WellShaped, AsDrawn
    <2>1. i \in 1..Len(wire)
        BY <1>3
    <2> QED BY <1>5, <2>1 DEF IInv, WellShaped
<1> QED BY <1>6, <1>7, <1>8, <1>9, <1>10 DEF IInv

-----------------------------------------------------------------------------
(* Theorems *)

\* The state before the handshake.
LEMMA InitIInv == Init => IInv
<1> SUFFICES ASSUME Init PROVE IInv
    OBVIOUS
<1>1. Intervals \subseteq Nat /\ <<>> \in Seq(Records) /\ <<>> \in Seq(Nat) /\ Len(<<>>) = 0
      /\ 0 <= WireCap
    BY SessionAssumption, EmptySeq
<1>2. interval \in Nat \ {0}
    BY IntervalStored DEF Init
<1>3. event = Nothing /\ event \in Runs /\ event.kind = "none"
    BY DEF Init, Nothing, Runs
<1>4. TypeOK
    <2>1. {agree, shaped, halved, due, turning, cut} \subseteq BOOLEAN
        BY Zenon DEF Init
    <2> QED BY <1>1, <1>2, <1>3, <2>1 DEF Init, TypeOK
<1>5. InStep
    BY <1>1 DEF Init, InStep, Turn
<1>6. EventInHand
    BY <1>3 DEF EventInHand
<1>7. Placed
    <2> DEFINE pos == [i \in 1..1 |-> 0]
    <2>1. pos \in [1..(Len(wire) + 1) -> 0..accepted] /\ pos[1] = Len(delivered)
          /\ pos[Len(wire) + 1] = Sent /\ Follows(wire, pos)
        BY <1>1, <1>3 DEF Init, Sent, Follows
    <2> QED BY <2>1 DEF Placed
<1>8. DeliveredInOrder /\ WellShaped /\ Wear
    BY <1>1, <1>2 DEF Init, DeliveredInOrder, WellShaped, Wear
<1> QED BY <1>4, <1>5, <1>6, <1>7, <1>8 DEF IInv

\* A step that leaves every variable alone.
LEMMA StutterStep == ASSUME IInv, UNCHANGED vars PROVE IInv'
<1>1. UNCHANGED <<phase, agree, sender, shaped, interval, halved, event, accepted, sent_frames,
                  due, key_out, nonce_out, under, limit, split_key, wire, key_in, nonce_in,
                  turning, delivered, cut>>
    BY DEF vars, config, outVars, history, inVars
<1>2. TypeOK' /\ EventInHand' /\ Wear'
    BY <1>1 DEF IInv, TypeOK, EventInHand, Wear
<1>3. Placed'
    BY <1>1 DEF IInv, Placed, Follows, Sent
<1> QED BY <1>1, <1>2, <1>3, WireAlone DEF IInv

\* Every step preserves the inductive invariant.
LEMMA NextIInv == IInv /\ [Next]_vars => IInv'
<1> SUFFICES ASSUME IInv, [Next]_vars PROVE IInv'
    OBVIOUS
<1>1. CASE \/ Hello \/ Answer \/ Open \/ Split
           \/ \E frames \in Intervals : SetRekeyInterval(frames)
    BY <1>1, QuietSteps
<1>2. CASE \E kind \in Kinds, n \in 0..MaxBytes : Take(kind, n)
    BY <1>2, TakeStep
<1>3. CASE \E target \in Targets :
              SendShaped(target) \/ SendWhole(target) \/ RekeyOutgoing(target)
    BY <1>3, ShapedStep, WholeStep, RekeyStep
<1>4. CASE Receive \/ RekeyIncoming \/ Cut
    BY <1>4, ReceiveStep, RekeyIncomingStep, CutStep
<1>5. CASE UNCHANGED vars
    BY <1>5, StutterStep
<1> QED BY <1>1, <1>2, <1>3, <1>4, <1>5 DEF Next

\* The inductive invariant holds in every reachable state.
THEOREM Invariance == Spec => []IInv
<1> QED BY InitIInv, NextIInv, PTL DEF Spec

\* Type correctness of the session.
THEOREM TypeCorrect == Spec => []TypeOK
<1>1. IInv => TypeOK
    BY DEF IInv
<1> QED BY <1>1, Invariance, PTL

\* The reader always has the key and the nonce of the record it takes next: open never fails,
\* however many keys the sender is ahead and wherever the session was split.
THEOREM KeysInStep == Spec => []NextRecordOpens
<1>1. IInv => NextRecordOpens
    <2> SUFFICES ASSUME IInv, wire # <<>>
                 PROVE  wire[1].nonce = nonce_in /\ wire[1].key = key_in + Turn
        BY DEF NextRecordOpens, Turn
    <2>1. 1 \in 1..Len(wire) /\ nonce_in \in Nat
        BY EmptySeq DEF IInv, TypeOK
    <2> QED BY <2>1 DEF IInv, InStep
<1> QED BY <1>1, Invariance, PTL

\* seal and write_record are never given more than they can take, whatever lengths are drawn.
THEOREM EveryRecordFits == Spec => []RecordsFit
<1>1. IInv => RecordsFit
    <2> SUFFICES ASSUME IInv, NEW i \in DOMAIN wire
                 PROVE  Plain(wire[i]) <= MaxPlaintext /\ Plain(wire[i]) + TagLen <= MaxRecord
        BY DEF RecordsFit
    <2>1. i \in 1..Len(wire) /\ wire[i] \in Records
        BY LenProperties, ElementOfSeq DEF IInv, TypeOK
    <2>2. Plain(wire[i]) <= MaxPlaintext
        BY <2>1 DEF IInv, WellShaped, Fits
    <2>3. Plain(wire[i]) \in Int
        <3>1. wire[i].first \in Nat /\ wire[i].last \in Nat /\ wire[i].pad \in Nat
            BY <2>1 DEF Records
        <3>2. HeaderLen \in Nat /\ IdLen \in Nat
            BY SessionAssumption
        <3>3. Payload(wire[i].type, wire[i].first, wire[i].last) \in Int
            BY <3>1, <3>2 DEF Payload
        <3> QED BY <3>1, <3>2, <3>3 DEF Plain
    <2> QED BY <2>2, <2>3, SessionAssumption, LengthAssumption
<1> QED BY <1>1, Invariance, PTL

\* What plan_shaped_records and pad_to_target make of a chunk has the drawn lengths.
THEOREM ShapeHolds == Spec => []ShapedToTarget
<1>1. IInv => ShapedToTarget
    <2> SUFFICES ASSUME IInv, shaped, NEW i \in DOMAIN wire, wire[i].type = "data"
                 PROVE  \E target \in Targets :
                            Plain(wire[i]) = Greatest(Least(target, MaxPlaintext),
                                  HeaderLen + IdLen + Least(wire[i].last - wire[i].first + 1, 1))
        BY DEF ShapedToTarget
    <2>1. i \in 1..Len(wire)
        BY LenProperties DEF IInv, TypeOK
    <2> QED BY <2>1 DEF IInv, WellShaped, AsDrawn
<1> QED BY <1>1, Invariance, PTL

\* Every key seals at most the frames of the interval in force; only the key in use at the
\* split may seal almost twice as many.
THEOREM KeysWear == Spec => []KeysWearOut
<1>1. IInv => KeysWearOut
    <2> SUFFICES ASSUME IInv PROVE KeysWearOut
        OBVIOUS
    <2>1. limit \in Nat /\ sent_frames \in Nat /\ under \in Nat /\ sent_frames <= limit
        BY DEF IInv, TypeOK, Wear
    <2> QED BY <2>1 DEF IInv, Wear, KeysWearOut
<1> QED BY <1>1, Invariance, PTL

\* Every step of the session is a step of the pipe or leaves it alone.
LEMMA StepOfPipe ==
    ASSUME IInv, [Next]_vars
    PROVE  [Pipe!Next]_<<accepted, delivered>>
<1>1. CASE \E kind \in Kinds, n \in 0..MaxBytes : Take(kind, n)
    <2>1. PICK kind \in Kinds, n \in 0..MaxBytes : Take(kind, n)
        BY <1>1
    <2>2. accepted' = accepted + n /\ accepted \in Nat /\ n \in Nat /\ UNCHANGED delivered
        BY <2>1, SessionAssumption DEF IInv, TypeOK, Take, inVars
    <2> QED BY <2>2 DEF Pipe!Next, Pipe!Put
<1>2. CASE Receive
    <2>1. /\ delivered' \in Seq(Nat) /\ DeliveredInOrder'
          /\ Len(delivered') \in Len(delivered)..accepted
        BY <1>2, ReceiveDelivers
    <2>2. delivered' = Pipe!Upto(Len(delivered'))
        <3>1. /\ delivered' = [i \in 1..Len(delivered') |-> delivered'[i]]
            BY <2>1, LenProperties
        <3> QED BY <2>1, <3>1 DEF DeliveredInOrder, Pipe!Upto
    <2>3. UNCHANGED accepted
        BY <1>2 DEF Receive, outVars, history
    <2> QED BY <2>1, <2>2, <2>3 DEF Pipe!Next, Pipe!Get
<1>3. CASE \/ Hello \/ Answer \/ Open \/ Split \/ RekeyIncoming \/ Cut
           \/ \E frames \in Intervals : SetRekeyInterval(frames)
           \/ \E target \in Targets :
                 SendShaped(target) \/ SendWhole(target) \/ RekeyOutgoing(target)
    BY <1>3 DEF Hello, Answer, Open, Split, RekeyIncoming, Cut, SetRekeyInterval, SendShaped,
                SendWhole, RekeyOutgoing, Count, Send, outVars, inVars
<1>4. CASE UNCHANGED vars
    BY <1>4 DEF vars, outVars, history, inVars
<1> QED BY <1>1, <1>2, <1>3, <1>4 DEF Next

\* The session implements an ordered pipe: whatever is cut, padded, rekeyed or lost with the
\* carrier, the reader hands on the bytes from the first one, in order and without a hole.
THEOREM Refinement == Spec => OrderedDelivery
<1>1. Init => Pipe!Init
    BY DEF Init, Pipe!Init
<1> QED BY <1>1, StepOfPipe, Invariance, PTL DEF Spec, OrderedDelivery, Pipe!Spec
=============================================================================
