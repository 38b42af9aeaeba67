------------------------------ MODULE MCRelay ------------------------------
(* Small tunnels: one TCP stream with everything that can fail, one with     *)
(* enough chunks to fill every channel, two TCP streams side by side, and a  *)
(* UDP stream over native datagrams and the session.                         *)
EXTENDS Relay

Chunks(c, s) == [e \in Ends |-> [i \in Streams |-> IF e = "client" THEN c ELSE s]]

\* Both streams only send, the first one more than its sink holds: the server's reader
\* waits at the first sink with a chunk of the second stream behind.
Behind == [e \in Ends |-> [i \in Streams |-> IF e = "server" THEN 0 ELSE IF i = 1 THEN 2 ELSE 1]]

\* The first stream only sends, the second only receives.
Crossed == [e \in Ends |-> [i \in Streams |-> IF (e = "client") = (i = 1) THEN 1 ELSE 0]]

AllEnds == Ends \X Streams
Senders == {<<"client", 1>>, <<"server", 2>>}

Tunnel(tcp, udp, chunks, ends, t, native, harsh) ==
    [tcp |-> tcp, udp |-> udp, chunks |-> chunks, ends |-> ends, ticks |-> t,
     native |-> native, harsh |-> harsh]

Tunnels == {Tunnel({1}, {}, Chunks(2, 1), AllEnds, 0, FALSE, TRUE),
            Tunnel({1}, {}, Chunks(3, 0), AllEnds, 1, FALSE, FALSE),
            Tunnel({1, 2}, {}, Crossed, Senders, 0, FALSE, FALSE),
            Tunnel({1, 2}, {}, Behind, {}, 0, FALSE, FALSE),
            Tunnel({}, {1}, Chunks(1, 1), AllEnds, 1, TRUE, TRUE),
            Tunnel({}, {1}, Chunks(2, 0), AllEnds, 1, TRUE, FALSE)}
=============================================================================
