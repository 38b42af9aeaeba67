---------------------------- MODULE TunnelServer ----------------------------
(***************************************************************************)
(* How a server turns requests into sessions: serve of                     *)
(* vlyness-carrier/http.rs and handle_request of quic.rs, many connections *)
(* at once, over the ReplayGuard they share and a list of keys that the    *)
(* administrator may shorten; and the clients that send the requests       *)
(* (client_stream_one, client_segments, client_segments_packet_up,         *)
(* client_datagram).                                                       *)
(*                                                                         *)
(* A connection's task handles its requests one by one; its tables of      *)
(* halves and uploads are its own.  A request names a token and, for       *)
(* segments, a pid, which a client takes from the token's nonce.  It is    *)
(* judged by the keys of the snapshot taken when it arrives.  Whatever a   *)
(* client has sent may come again as a request of somebody else: before or *)
(* after the client's own, over any connection, in any mode and with any   *)
(* pid that was in use.                                                    *)
(***************************************************************************)
EXTENDS ReplayGuard, Sequences

CONSTANTS
    Honest,       \* connections that carry a client's requests
    MaxTraffic    \* bound: clients' sessions begun and requests repeated

ASSUME ServerAssumption ==
    /\ Honest \subseteq Tasks /\ MaxTraffic \in Nat
    /\ Nonces \subseteq Nat \ {0} /\ NoJob \notin Nonces

VARIABLES
    active,       \* the clients' key is in PskList
    inbox,        \* per connection: requests not yet handled
    pending,      \* per connection and pid: the half that waits, or NoHalf
    uploads,      \* per connection and pid: the token of the packet-up session, or NoToken
    client,       \* per honest connection: what its client waits for
    own,          \* per honest connection: its client's token, or NoToken
    sessions,     \* history: per token, sessions it took part in
    sent,         \* tokens clients have sent
    strange,      \* repeated requests so far
    crossed       \* history: clients that wait and whose session a repeated request may take

tables     == <<pending, uploads>>
clientVars == <<client, own, sent, strange, crossed>>
serverVars == <<active, inbox, tables, clientVars, sessions>>

Pids     == Nonces
NoToken  == [epoch |-> 0, nonce |-> NoJob]
NoHalf   == [dir |-> "none", token |-> NoToken, mine |-> FALSE]
Kinds    == {"one", "down", "up", "packet"}
Requests == [kind : Kinds, token : Tokens, pid : Pids, mine : BOOLEAN]
Halves   == [dir : {"down", "up"}, token : Tokens, mine : BOOLEAN] \cup {NoHalf}
Waiting  == {"one", "segments", "packet", "granted", "posted"}

\* A request of the client the connection belongs to.
Request(kind, token) == [kind |-> kind, token |-> token, pid |-> token.nonce, mine |-> TRUE]

ServerTypeOK ==
    /\ TypeOK /\ active \in BOOLEAN
    /\ inbox \in [Tasks -> Seq(Requests)]
    /\ pending \in [Tasks -> [Pids -> Halves]]
    /\ uploads \in [Tasks -> [Pids -> Tokens \cup {NoToken}]]
    /\ client \in [Honest -> {"new", "open", "refused"} \cup Waiting]
    /\ own \in [Honest -> Tokens \cup {NoToken}]
    /\ sessions \in [Tokens -> Nat] /\ sent \subseteq Tokens /\ strange \in Nat
    /\ crossed \subseteq Honest

ServerInit ==
    /\ Init /\ active = TRUE
    /\ inbox = [c \in Tasks |-> <<>>]
    /\ pending = [c \in Tasks |-> [p \in Pids |-> NoHalf]]
    /\ uploads = [c \in Tasks |-> [p \in Pids |-> NoToken]]
    /\ client = [c \in Honest |-> "new"] /\ own = [c \in Honest |-> NoToken]
    /\ sessions = [t \in Tokens |-> 0] /\ sent = {} /\ strange = 0 /\ crossed = {}

-----------------------------------------------------------------------------
(* Clients *)

SentNonces == {t.nonce : t \in sent}

MoreTraffic == Cardinality(sent) + strange < MaxTraffic

\* AuthToken::build: a nonce nobody has used, here the least, and the client's idea of the
\* hour.
Fresh(token) ==
    /\ token.epoch \in Accepted(epoch)
    /\ token.nonce \notin SentNonces
    /\ \A n \in Nonces \ SentNonces : token.nonce <= n

Start(c, mode, token, requests) ==
    /\ MoreTraffic
    /\ client[c] = "new" /\ Fresh(token)
    /\ client' = [client EXCEPT ![c] = mode]
    /\ own' = [own EXCEPT ![c] = token]
    /\ sent' = sent \cup {token}
    /\ inbox' = [inbox EXCEPT ![c] = @ \o requests]
    /\ UNCHANGED <<vars, active, tables, sessions, strange, crossed>>

ClientStreamOne(c, token) ==
    Start(c, "one", token, <<Request("one", token)>>)

\* GET and POST are sent one after the other, before either is answered.
ClientSegments(c, token) ==
    Start(c, "segments", token, <<Request("down", token),
                                  Request("up", token)>>)

\* With packet-up the GET is answered first.
ClientPacketUp(c, token) ==
    Start(c, "packet", token, <<Request("down", token)>>)

ClientPosts(c) ==
    /\ client[c] = "granted"
    /\ client' = [client EXCEPT ![c] = "posted"]
    /\ inbox' = [inbox EXCEPT ![c] = Append(@, Request("packet", own[c]))]
    /\ UNCHANGED <<vars, active, tables, own, sent, sessions, strange, crossed>>

\* The uploader's next POST, once the last one is answered.
ClientPostsAgain(c) ==
    /\ client[c] = "open" /\ uploads[c][own[c].nonce] = own[c] /\ inbox[c] = <<>>
    /\ inbox' = [inbox EXCEPT ![c] = Append(@, Request("packet", own[c]))]
    /\ UNCHANGED <<vars, active, tables, clientVars, sessions>>

\* The clients a repeated request on c may keep from their session: it may be the first to
\* show the token, or it meddles with what waits under the client's pid, where only requests
\* that fail at the guard are harmless.
Crosses(c, r) ==
    {h \in Honest : /\ client[h] \in Waiting
                    /\ \/ r.token = own[h] /\ used[r.token] = 0 /\ r.kind # "packet"
                       \/ /\ h = c /\ r.pid = own[h].nonce /\ r.kind # "one"
                          /\ r.token = own[h] \/ used[r.token] = 0 \/ r.kind = "packet"}

\* A request with a token that a client has sent comes again: over another connection or,
\* behind a front that shares connections, over a client's, before, between or behind the
\* client's own requests.  Pids are random: nobody names one before it was sent.
Repeat(c, r) ==
    /\ MoreTraffic /\ ~r.mine
    /\ r.token \in sent /\ r.pid \in SentNonces
    /\ r.kind = "one" => r.pid = r.token.nonce
    /\ \E i \in 0..Len(inbox[c]) :
          /\ job[c] # NoJob => i > 0
          /\ inbox' = [inbox EXCEPT ![c] = SubSeq(@, 1, i) \o <<r>> \o SubSeq(@, i + 1, Len(@))]
    /\ strange' = strange + 1
    /\ crossed' = crossed \cup Crosses(c, r)
    /\ UNCHANGED <<vars, active, tables, client, own, sent, sessions>>

\* The connection ends, between two requests, and its tables with it; a new one follows.
Reconnect(c) ==
    /\ job[c] = NoJob
    /\ inbox' = [inbox EXCEPT ![c] = <<>>]
    /\ pending' = [pending EXCEPT ![c] = [p \in Pids |-> NoHalf]]
    /\ uploads' = [uploads EXCEPT ![c] = [p \in Pids |-> NoToken]]
    /\ client' = IF c \in Honest THEN [client EXCEPT ![c] = "new"] ELSE client
    /\ own' = IF c \in Honest THEN [own EXCEPT ![c] = NoToken] ELSE own
    /\ crossed' = crossed \ {c}
    /\ UNCHANGED <<vars, active, sent, sessions, strange>>

-----------------------------------------------------------------------------
(* serve: the request at the head of a connection's inbox *)

At(c, kinds) == inbox[c] # <<>> /\ Head(inbox[c]).kind \in kinds

Done(c) == inbox' = [inbox EXCEPT ![c] = Tail(@)]

\* verify_any with the keys as they are now.
Verifies(token) == active /\ token.epoch \in Accepted(epoch)

\* A client that waits for its session hears one of the answers.
Hears(c, answers) ==
    client' \in IF c \in Honest /\ client[c] \in Waiting
                THEN {[client EXCEPT ![c] = a] : a \in answers} ELSE {client}

\* Its request is answered by the site, or its half is dropped, which resets the stream.  The
\* client reads the answer to its GET, and to the POST of stream-one, where the handshake
\* fails; of the POST of stream-up it only notices a reset, if that is there before it writes
\* its first record; and of a packet's nothing.
Lost(c, mine, kind) ==
    IF ~mine \/ kind = "packet" THEN UNCHANGED client
    ELSE Hears(c, {"refused"} \cup IF kind = "up" THEN {client[c]} ELSE {})

\* serve_fallback, or 404 over QUIC.
Fallback(c) == Lost(c, Head(inbox[c]).mine, Head(inbox[c]).kind)

\* The first half is taken: the GET of packet-up is answered.
Granted(c) ==
    IF Head(inbox[c]).mine /\ c \in Honest /\ client[c] = "packet"
    THEN Hears(c, {"granted"}) ELSE UNCHANGED client

\* spawn_session, counted for every token that had a part in it.  Of a session that is partly
\* its own a client may hear anything, or nothing.
OpenSession(c, tokens, mine) ==
    /\ sessions' = [t \in Tokens |-> sessions[t] + (IF t \in tokens THEN 1 ELSE 0)]
    /\ CASE mine = {TRUE}  -> Hears(c, {"open"})
         [] mine = {FALSE} -> UNCHANGED client
         [] OTHER          -> Hears(c, IF client[c] = "packet" THEN {"granted"}
                                       ELSE {client[c], "open", "refused"})

\* What no request changes.
Beside == UNCHANGED <<active, own, sent, strange, crossed>>

\* The token does not verify.
Refuse(c) ==
    /\ At(c, Kinds) /\ job[c] = NoJob
    /\ ~Verifies(Head(inbox[c]).token)
    /\ Done(c) /\ Fallback(c)
    /\ UNCHANGED <<vars, tables, sessions>> /\ Beside

\* stream-one, a QUIC CONNECT and the first half of a pair go on to the replay guard.
IsFirst(c) ==
    \/ At(c, {"one"})
    \/ At(c, {"down", "up"}) /\ pending[c][Head(inbox[c]).pid] = NoHalf

Check(c) ==
    /\ IsFirst(c) /\ active
    /\ Verify(c, Head(inbox[c]).token)
    /\ UNCHANGED serverVars

\* authorize, or observe_token of serve, and what follows from it.
Observed(c) ==
    LET r == Head(inbox[c])
        fresh == r.token \notin window IN
    /\ Observe(c)
    /\ Done(c)
    /\ IF fresh /\ r.kind # "one"
       THEN pending' = [pending EXCEPT ![c][r.pid] =
                            [dir |-> r.kind, token |-> r.token, mine |-> r.mine]]
       ELSE UNCHANGED pending
    /\ CASE ~fresh -> Fallback(c) /\ UNCHANGED sessions
         [] fresh /\ r.kind = "one" -> OpenSession(c, {r.token}, {r.mine})
         [] OTHER -> Granted(c) /\ UNCHANGED sessions
    /\ UNCHANGED uploads /\ Beside

\* Mutant: a half of another token is not put back.
PairForgets(c) ==
    LET r == Head(inbox[c])
        half == pending[c][r.pid] IN
    /\ At(c, {"down", "up"}) /\ job[c] = NoJob /\ half # NoHalf /\ Verifies(r.token)
    /\ Done(c)
    /\ pending' = [pending EXCEPT ![c][r.pid] = NoHalf]
    /\ IF half.token = r.token /\ half.dir # r.kind
       THEN OpenSession(c, {r.token}, {half.mine, r.mine})
       ELSE Lost(c, half.mine, half.dir) /\ UNCHANGED sessions
    /\ UNCHANGED <<vars, uploads>> /\ Beside

\* The second half: a different token leaves the first one waiting; the same token in the
\* same direction loses both.
Pair(c) ==
    LET r == Head(inbox[c])
        half == pending[c][r.pid] IN
    /\ At(c, {"down", "up"}) /\ job[c] = NoJob /\ half # NoHalf /\ Verifies(r.token)
    /\ Done(c)
    /\ IF half.token # r.token
       THEN Fallback(c) /\ UNCHANGED <<pending, sessions>>
       ELSE /\ pending' = [pending EXCEPT ![c][r.pid] = NoHalf]
            /\ IF half.dir # r.kind
               THEN OpenSession(c, {half.token, r.token}, {half.mine, r.mine})
               ELSE Lost(c, half.mine \/ r.mine, r.kind) /\ UNCHANGED sessions
    /\ UNCHANGED <<vars, uploads>> /\ Beside

\* A packet for a session that is there: of this token, or else for the site, which is the
\* same to who sent it.
PacketNext(c) ==
    LET r == Head(inbox[c]) IN
    /\ At(c, {"packet"}) /\ job[c] = NoJob /\ Verifies(r.token)
    /\ uploads[c][r.pid] # NoToken
    /\ Done(c)
    /\ IF uploads[c][r.pid] = r.token /\ r.mine
       THEN Hears(c, {client[c], "open", "refused"}) ELSE Fallback(c)
    /\ UNCHANGED <<vars, tables, sessions>> /\ Beside

\* Mutant: the first packet starts a session on its own token, waiting half or not.
PacketAlone(c) ==
    LET r == Head(inbox[c]) IN
    /\ At(c, {"packet"}) /\ job[c] = NoJob /\ Verifies(r.token)
    /\ uploads[c][r.pid] = NoToken
    /\ Done(c)
    /\ pending' = [pending EXCEPT ![c][r.pid] = NoHalf]
    /\ OpenSession(c, {r.token}, {r.mine})
    /\ uploads' = [uploads EXCEPT ![c][r.pid] = r.token]
    /\ UNCHANGED vars /\ Beside

\* Mutant: the first packet makes an assembler and no session.
PacketQuiet(c) ==
    LET r == Head(inbox[c]) IN
    /\ At(c, {"packet"}) /\ job[c] = NoJob /\ Verifies(r.token)
    /\ uploads[c][r.pid] = NoToken
    /\ Done(c)
    /\ pending' = [pending EXCEPT ![c][r.pid] = NoHalf]
    /\ uploads' = [uploads EXCEPT ![c][r.pid] = r.token]
    /\ UNCHANGED <<vars, client, sessions>> /\ Beside

\* The first packet takes what waits under its pid, and only then looks at it.
PacketFirst(c) ==
    LET r == Head(inbox[c])
        half == pending[c][r.pid] IN
    /\ At(c, {"packet"}) /\ job[c] = NoJob /\ Verifies(r.token)
    /\ uploads[c][r.pid] = NoToken
    /\ Done(c)
    /\ pending' = [pending EXCEPT ![c][r.pid] = NoHalf]
    /\ IF half.dir = "down" /\ half.token = r.token
       THEN /\ OpenSession(c, {half.token}, {half.mine, r.mine})
            /\ uploads' = [uploads EXCEPT ![c][r.pid] = r.token]
       ELSE Lost(c, half.mine, half.dir) /\ UNCHANGED <<uploads, sessions>>
    /\ UNCHANGED vars /\ Beside

\* The administrator revokes the clients' key: resync shortens PskList.
Revoke ==
    /\ active
    /\ active' = FALSE
    /\ UNCHANGED <<vars, inbox, tables, clientVars, sessions>>

NextHour == Tick /\ UNCHANGED serverVars

Serve(c) == Refuse(c) \/ Check(c) \/ Observed(c) \/ Pair(c) \/ PacketNext(c) \/ PacketFirst(c)

ServerNext ==
    \/ \E c \in Honest : \/ \E token \in Tokens : \/ ClientStreamOne(c, token)
                                                  \/ ClientSegments(c, token)
                                                  \/ ClientPacketUp(c, token)
                         \/ ClientPosts(c) \/ ClientPostsAgain(c)
    \/ \E c \in Tasks : Serve(c) \/ Reconnect(c) \/ \E r \in Requests : Repeat(c, r)
    \/ Revoke \/ NextHour

\* Connection tasks run, and a packet-up client posts once its GET is answered.
ServerSpec ==
    /\ ServerInit /\ [][ServerNext]_<<vars, serverVars>>
    /\ \A c \in Tasks : WF_<<vars, serverVars>>(Serve(c))
    /\ \A c \in Honest : WF_<<vars, serverVars>>(ClientPosts(c))

-----------------------------------------------------------------------------
(* Properties *)

\* A token has a part in at most one session, whatever mode, pid and connection its copies
\* come by: pairing and packets do not ask the guard, and need not.
OneSessionPerToken == \A t \in Tokens : sessions[t] <= 1

\* An honest client fails only if its key was revoked, its token's hour is over, or a repeated
\* request was the first to show its token or came between its own under its pid: no other
\* repeated request costs it the session.
HonestNotRefused ==
    \A c \in Honest :
        client[c] = "refused" => ~active \/ own[c].epoch \notin Accepted(epoch) \/ c \in crossed

\* Every client gets an answer that settles it, or its connection ends, unless its requests
\* stop being good before it has: then one whose POST is refused waits for ever.  With
\* stream-one the answer always comes.
ClientsSettle ==
    \A c \in Honest :
        client[c] \in Waiting
            ~> \/ client[c] \notin Waiting
               \/ /\ client[c] # "one"
                  /\ ~active \/ own[c].epoch \notin Accepted(epoch) \/ c \in crossed
=============================================================================
