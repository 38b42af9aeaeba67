# A TLA+ verification of vlyness

vlyness is a Rust tunnel: a client with a local SOCKS5 port keeps one long-lived
connection to a server, through one of several HTTP/2 or QUIC carriers, and multiplexes TCP
streams and UDP datagrams over it. Most of its own logic is about *when* to connect, how
long to be silent, which carrier to use, which session tokens to accept and in which order
bytes and datagrams are handed on. That logic is what the modules in this directory model.

* [Inventory](#inventory): the parts of the system
* [Modules](#modules): what is modelled, and how state and actions correspond to the code
* [Runs](#runs): what TLC checks, under which bounds and fairness
* [Proofs](#proofs): what TLAPS proves for every value of the constants
* [Divergences](#divergences): where the code and its comments disagree
* [Plan](#plan) and [what is not modelled](#not-modelled)

## Inventory

| component | state | operations | interacts with | hard behaviour |
|---|---|---|---|---|
| `vlyness-discipline` (`ConnectionManager`) | open-connection count, earliest next attempt, backoff exponent, first unanswered send, two reference marks, strikes, end of silence | `poll`, `note_attempt/success/failure/drop/close`, `note_sent/recv/reference` | called by the client loop only; reads a monotonic clock | order of notes, pauses of four origins overlapping, stale evidence, escalation |
| `vlyness-profile/pool.rs` (`CarrierPool`) | current carrier, cooldown and falls per carrier | `select`, `mark_failed`, `mark_healthy` | client loop | escalating cooldown, all carriers cooling |
| `vlyness-cli/client.rs` (`run`, `rotate_carrier`, `Controller`, `Reporter`) | connection parameters, failures in a row, shown state, stop signal, reference flag | one async loop with awaits | manager, pool, relay, prober task, user | stop against dial and sleep, abandoned tunnels, rotation half done |
| `vlyness-core/datagram.rs` | sealing counter, sliding window | `seal`, `open` | relay, QUIC pumps | loss, duplication, reordering, window edge |
| `vlyness-core/auth.rs`, `replay.rs`, `authorize` in `vlyness-carrier/http.rs` | per-epoch nonce cache behind a mutex | `verify`, `observe` | every connection task of the server | verification before the lock, change of hour, pruning |
| `vlyness-carrier/http.rs` (`serve`, `UploadAssembler`) | waiting halves, upload assemblers per connection | pairing of GET and POST halves, numbered upload packets | replay guard, session layer | packets out of order, mismatched halves |
| `vlyness-node/relay.rs`, `vlyness-transport/mux.rs`, `vlyness-core/frame.rs` | stream registry, bounded channels, 16-bit stream ids, activity, statistics | open, data, datagram, close, keep-alive; writer, reader and cadence tasks | session layer, sockets | back pressure of one stream on all, half-close, id reuse |
| `vlyness-transport/session.rs`, `record.rs`, `vlyness-core/noise.rs` | record counters, keys, padding state | handshake, send and receive of records, rekey | carriers, relay | both ends rekey in step, fragmentation |
| `vlyness-carrier/quic.rs` | two bounded queues and two pumps per link | datagram link, WebTransport session | relay | queue limits, a pump that ends |
| server: `bin/server.rs`, `keyring.rs`, `admin.rs` | client keys in memory and in a file, counters, log ring | add, revoke, persist, sample | HTTP and QUIC carriers | crash while persisting, reload |
| `vlyness-profile/model.rs`, `validate.rs`, `profilegen.rs` | none | coherence checks, profiles written by the panel | pool, client, desktop, panel | checks, resolver and dialer must agree |
| `vlyness-shaping`, `vlyness-metrics` | samplers | sampling, distances | session, tests | none |
| `socks.rs`, `address.rs`, `tls.rs`, `doh.rs` | none | parsing, library calls | client, server | none |
| `vlyness-gui`, `Controller` and `Reporter` of `client.rs` | profile list, settings file, log cursor and ring, shown state | add, paste, remove, connect, disconnect, poll | the client task, the file system | files that change under the program, lines lost between polls |
| `bin/client.rs`, `bin/setup.rs`, `config.rs` | none | reading and writing configuration | the rest | none |

What makes the parts correct: the manager never storms and never shortens a silence, and
counts one strike per probe; the pool never offers a cooling carrier and never cools one
without cause; the supervisor follows the pool, comes back when it can and stops when told;
a datagram is handed over once at most; a token opens one session at most and an honest
client is not turned away; the uploaded bytes arrive once, in order; a session is an ordered
pipe whose ends change keys in step; every socket behind the relay gets a prefix of what was
sent to it and learns of the end; a revoked client stays out and an issued one stays known
through crashes; a profile that passes validation is never dialed with its name in the clear
on a stream carrier (on a datagram carrier it is, see [divergences](#divergences)).

## Modules

### `ConnectionManager`

Crate `vlyness-discipline` with its one sequential caller. The variables are the fields of
`ConnectionBudget` (`active`, `next_allowed`, `attempt` of its `Backoff`),
`BlackholeDetector` (`unacked_since`, `last_ok`, `last_bad`) and `FreezeController`
(`strikes`, `silent_until`); `verdict` is the answer of the last `poll`, `link` where the
caller is. Each `note_*` method is one action and includes everything it calls (for example
`NoteDrop`: decrement, backoff draw, minimum interval, bump). `poll` is `Poll` with its
four outcomes; `PollTrip` is the whole of `trip`, `freeze_until`, `release_all` and
`clear_pending`. The jittered delay is any value of `BackoffWindow`. Every method reads the
clock itself, so `Advance` may come between any two calls and by any amount. The clock is the
module `Clock`, which `CarrierPool` extends as well.
`paced_at`, `quiet_until` and `probed` are history variables that no guard reads.

The guards that are not in the crate (`MayPoll`, `link`) are the caller's protocol, read off
`client.rs`: dial only on `Connect`, then success or failure, then traffic, polls and a
drop. `note_close` is public and never called by the client; it is modelled as a normal end
of a live link.

### `CarrierPool`

`pool.rs` with profiles reduced to a position and a cost. The stable sort by cost is the
order `Before`; `select` is the least available carrier in it. `Cooldown` keeps the capped
shift and the one-hour ceiling; `CoolingIsEarned` does not use it but states in its own terms
(`Worth`) what a number of falls may cost. Its initial predicate, next-state relation and
specification carry the prefix `Pool`, as those of `ClientSupervisor` do `Supervisor`, so that the
supervisor can extend both of its parts.

### `ClientSupervisor`

`run` and `rotate_carrier`. The module extends `ConnectionManager` and `CarrierPool`, which
share the clock, and drives their actions. Every `await` is a point where other actors may step,
so `pc` names the places between awaits: the head of the loop, the answer of `poll`, the
dial, the monitoring tick (`traffic`, `reference`, `assess`), the drop and the two halves of
the rotation. Besides the task there are the user (`RequestStop`), the network
(`DialOk`, `DialFail`, `DialTakesTime`, `ReaderDone`), the prober, whose flag may hold either
value at each tick, and a tunnel that was left running (`abandoned`). `setup` says whether
the client runs on a pool or on environment variables and whether a reference host is
configured. `Fragile` carriers may fail to resolve; `AlwaysUp` ones never fail a dial. `Start`
may fail with any carrier, since the SOCKS address may be taken.

Sleeps move the clock by their length in one step. Time spent in `resolve_from_profile` is
not modelled. A fresh manager (`build_manager`) keeps the clock's value and the history
variable `quiet_until`, so that a property can speak about silences the old manager imposed.

### `DatagramChannel`, `OnceChannel`

One direction of the datagram side channel: sealer, carrier, opener. The bitmap is the set
of positions of its one bits, so that the shift, the bits lost on the left and the
comparison with the window's width are those of `check_and_set`. The carrier is external:
it may lose, duplicate and reorder. Authentication is perfect, so a frame the sealer did
not produce changes nothing and is left out. `OnceChannel` is the promise: numbers are
handed over at most once and only after they were sealed. `MaxCounter` stands for
`u64::MAX`; `seal` panics rather than wrap, so the bound is the code's own.

### `ReplayGuard`

`verify`, `observe` with `prune`, and `authorize`, which concurrent connection tasks run.
`Verify` is the part before the mutex, `Observe` the part under it. `window` is the map from
epochs to nonce sets, as a set of pairs: `observe` never leaves an epoch without nonces.
The tag is perfect, and the epoch clock does not step back. `MaxLag` bounds the hours that
may begin between a task's two steps.

### `PacketUpload`

The upstream half of a packet-up tunnel. On the client: `poll_flush` and `poll_shutdown` of
`H2Stream`'s packet writer, the bounded channel and the uploader task that sends one
numbered POST at a time and waits for its answer. On the server: the packet-up branch of
`serve` (`Admit`, `Fallback`), the tasks that read the bodies and `UploadAssembler::deliver`.
The server answers a POST before its body is read, so several bodies may be on their way at
once although the uploader waits for each answer; that is what makes `deliver`'s reordering
necessary. A chunk is its number in the order of the flushes, `out` what went through the
unbounded channel to the session. The connection may break at any time, the server session
may end, and a carrier between the two may repeat a POST. `LastEpoch` is the last hour in
which `verify` accepts the session's token. The GET half is waiting when the uploader
starts, since the client waits for its answer; how halves are paired, and what other tokens
can do to them, is `TunnelServer`.

### `TunnelServer`

`serve` of `http.rs` and `handle_request` of `quic.rs`, for several connections at once. It
extends `ReplayGuard`: a request that asks for the guard takes `Check` (`Verify`, before the
mutex) and `Observed` (`Observe`, and the session or the waiting half that follows from it)
as two steps of its connection's task, so that copies of one token on two connections
interleave, both verified before either is observed. `pending` and `uploads` are the
connection's own tables, and a half remembers whether it is the client's own. `Pair`,
`PacketFirst` and `PacketNext` do not consult the guard, as in the code; that this is enough
is `OneSessionPerToken`. The clients are `client_stream_one`, `client_segments`,
`client_segments_packet_up` and `client_datagram`.

`Repeat` is a request with any token that was sent, of any kind and under any pid that was in
use, on any connection and, behind a front that merges connections, at any place in a
client's own queue. Some of these cost a client its session: one that is the first to show
its token, and under its pid on its connection a packet (`http.rs:508`), a copy of its own
half (`http.rs:551`) and a half that is let in. `Crosses` lists them, `crossed` remembers
whom they hit, and `HonestNotRefused` says that all others are harmless. `Lost` is what a
client learns of a request that was turned down: it reads the answer to its GET and to the
POST of stream-one, of a pair's POST it notices a reset at most, and of a packet's nothing,
so it may wait for ever (`ClientsSettle` excepts exactly these). `Revoke` shortens the key
list at any time.

### `Session`, `OrderedPipe`

One direction of `Session` / `SessionWriter` / `SessionReader`. The handshake is four phases;
a server may send records before the client has read its answer. Bytes are numbered, a record
is a run of them with padding, a key and a nonce; it opens only under the same key and nonce.
`SendShaped` is one step of `plan_shaped_records` and of the loop that sends the plan,
`SendWhole` is `send_frame`, `RekeyOutgoing` the record that ends a key. `recv_frame` takes
the transport's lock once to open a record and a second time to change the key: `Receive`
and `RekeyIncoming`. `Split` restarts the count of frames, as `split` does; `limit` and
`split_key` record how many frames the key in use may seal and which key was split. `Cut` ends the
carrier after any prefix of what it holds. `OrderedPipe` is the promise to the relay.

### `Relay`

Both ends of `relay.rs` with the SOCKS front end. At each end there is one writer task, one
reader task, an optional reader of native datagrams, the registry from 16-bit ids to sinks,
and two tasks per stream. Every `send().await` on a bounded channel is a guard on its room:
a reader that hands a chunk to a full sink stays in `deliver`, and everything behind it
waits. `Request`, `SendOpen` and `Register` are three steps because `open` queues the frame
before it registers the sink. The session below is an ordered pipe until `broken`, the native
link loses and reorders without repeating; these are what `Session` and `DatagramChannel`
show. A stream is numbered by the call that opened it, which no guard reads except through
its id. `plan` fixes what applications and targets send and which sockets may come to an end
of their own. A source that ends first queues its Close and then, in a step of its own
(`SourceGone`), takes the stream off the registry.

### `ServerAdmin`

The keyring and its file, the panel's requests and the metrics. `issue` and `revoke` change
memory and the key list first and then write the file, which is two steps (`PersistOpen`
truncates, `PersistWrite` fills), either of which may fail; `Crash` may come between any two.
`Loaded` is `load_or_seed`, to which a torn file is as good as none. `told` remembers what
the panel has answered and `faults` which writes went wrong, for the properties only.
`status_json` reads its counters in two steps, with sessions ending in between.

### `Profiles`, `Desktop`

`Profiles` has no variables: `Errors` is `validate`, one operator per check, over profiles
whose strings are kept as far as a check looks at them; `ExampleMedia`, `ExampleRtc` and
`ClientProfile` are the profiles the repository writes; `Ech`, `CarrierMode` and `Dialed` are
what `resolve_from_profile` and `establish` make of one. `Desktop` runs on it: the window's
handlers, the settings file, the `Controller` and what the window sees of the task through
`Reporter`. Files may change at any time between events. A save (`Persist`) may fail without
a word, leaving the old file or a truncated one, which the next start reads as an empty
list. `OpenApp` lists the stored profiles
that load as an order-preserving choice of their positions, which there is exactly one of; this
says what the loop of `App::new` computes without recursion over a sequence.

Each module states the type of its variables as `TypeOK`. It is a checked property where a
proof rests on it and documentation elsewhere.

## Runs

| run | module, cfg | checks |
|---|---|---|
| `manager` | `MCConnectionManager` | `TypeOK`, `BudgetExact`, `PauseBounded`, `Pacing`, `SilenceKept`, `StrikeNeedsProbe`: pauses never shrink, no storm, one strike per probe |
| `supervisor` | `MCClientSupervisor` | `PoolTracksConn`, `CurrentNotCooling`, `CoolingIsEarned`, `CooldownDeserved`, `SilenceWithoutPool`, `StopHonoured`: pool and connection agree, a cooling carrier is not the current one and none cools longer than its falls are worth, the rotation blames the right carrier, silence and stop are honoured |
| `supervisor_recovers` | `MCClientSupervisor`, `MCSupervisorRecovers.cfg` | `Recovers`: with one good carrier a tunnel comes up, also while that carrier cools after three strikes |
| `datagram_channel` | `MCDatagramChannel` | `TypeOK`, `PromiseKept` (refinement of `OnceChannel`), `InWindowAccepted` |
| `packet_upload` | `MCPacketUpload` | `InOrder`, `AllRead`: chunks arrive in order and, if nothing breaks, all of them |
| `relay` | `MCRelay` | `InOrderWithoutHoles`, `DatagramsOnce`, `EndArrives`, `ChunksArrive`, `BreakReachesSockets`: a socket gets its stream's chunks from the first one on, without holes, back pressure never deadlocks the ends, ends and breaks reach every socket |
| `session` | `MCSession` | `NextRecordOpens`, `RecordsFit`, `ShapedToTarget`, `KeysWearOut`, `OrderedDelivery` (refinement of `OrderedPipe`), `AllArrives` |
| `replay_guard` | `MCReplayGuard` | `UsedOnce`, `FirstUseOpens`: tasks that verified one token race to the mutex, while the oldest hour is dropped |
| `server` | `MCTunnelServer` | `OneSessionPerToken`, `HonestNotRefused`, `ClientsSettle` |
| `admin` | `MCServerAdmin` | `RevokedStayOut`, `IssuedRemembered`, `NothingCountedTwice` |
| `desktop` | `MCDesktop` | `KeptUnlessRemoved`, `NewestLinesShown`, `NameHidden` |

One more run, `connections_within_budget`, shows a divergence; see below.

**Bounds.** Durations are small integers that keep the order the real ones have where it
matters (first freeze shorter than the repeated one, cooldown that doubles into its
ceiling). `MaxTime` and `Horizon` end a behaviour; in `manager` they leave room for three
strikes with dials, drops and failures between them, in `supervisor` for three strikes and
the rotation they cause, for two failed dials and a rotation, and for a pool that cools
completely. `supervisor_recovers` runs for 15 ticks and asks for a tunnel within 4, so that
the good carrier too has been struck three times and cools, with pauses and silences running,
when the promise has to be kept. `datagram_channel` has a window of three and seven numbers,
so that gaps below, at and above the width occur. `packet_upload` sends four chunks through
a channel of two and lets the token run out at any point.

`relay` gives every channel room for one, which is where back pressure bites, and tries six
plans: a TCP stream whose sockets and carrier may fail, one whose chunks fill every channel
and meet a keep-alive, two TCP streams crossing each other, two that both send, the first
more than its sink holds, so that the server's reader waits at a full sink with a chunk of
the other stream behind it, and UDP with and without failures over the native link. Which
sockets may end is part of the plan. `IdSpace` is 8 and the streams are at most two, so ids do not
wrap (an id wrapping onto an open stream is listed below). `session` has records of at most
eight bytes, targets below the shortest record, inside and above the longest, and keys that
last one or two frames (`Intervals` is 0, which the code reads as one, and 2), so that a key
changes inside a chunk. `replay_guard` has three tasks, two nonces and four epochs, one more
than the guard keeps: tasks verify one token before either is observed, and pruning does drop
an hour. `MaxLag` is 0 in both runs of the guard: no task sleeps through a change of the hour
between `verify` and `observe`, a stretch of microseconds; the theorem holds for every
`KeepEpochs >= 3 + MaxLag`. `server` has one client that connects in every mode, a second
connection, and three pieces of traffic (connections begun and requests repeated) over three
nonces, with a revocation and a change of hour at any point; what three pieces cannot show,
such as two clients at once, is proved for any number. `admin` has the default client, an
issued one and two sessions (interchangeable, and no property names one, so symmetry is
sound; no liveness is checked with it). `desktop` has two files, four profiles (one that
validation refuses, one without an endpoint), a ring of two lines under four, and saves any
of which may fail or be torn.

Deadlock checking is off where the system may really stop: the client that has stopped or
reached its horizon, the channel whose wire is empty and whose counter is used up, the
upload after its last chunk, the relay, the session and the server when their traffic is
over, the guard in its last hour, the desktop with its log at the bound. It is on in
`manager` and `admin`, where some call is always possible.

**Fairness.** `FairSpec` assumes weak fairness of the task (`TaskStep`: the runtime polls a
ready task and timers fire) and of `DialReturns` (a dial eventually succeeds or fails). The
second is an assumption about TCP and QUIC: `establish` has no timeout of its own. For
`packet_upload` the uploader, the accept loop and each body task are weakly fair while the
connection carries data. In `relay` the tasks of both ends together are weakly fair: traffic
is finite there, so no task can starve another for ever; sockets accept what they are given
or fail. In `session` the handshake, the writer and the reader are, in `server` each
connection's task and the packet-up client that waits for its GET. `replay_guard`, `admin` and
`desktop` have no liveness properties. Nothing is assumed of the user, of the reader's end or of
abandoned tunnels. `Recovers` adds that one carrier takes dials, and asks for a tunnel
within `RecoveryTime`.

## Proofs

TLAPS proves, with the assumptions named in each module and nothing else:

* `ClientSupervisorProofs`, the manager: all six properties of the run `manager`, for every
  budget, backoff, threshold and freeze length. The properties are not inductive alone.
  `ManagerInv` adds `PauseCovers` (the earliest next attempt is never before the end of the
  last silence, nor before the minimum interval after the last attempt, drop or close), `Awake`
  (a `Connect` verdict is only held when that time has come) and `PendingProbed` (an unanswered
  send exists only after a connection came up since the last strike). `PauseCovers` is what
  makes a decision taken by an earlier `poll` safe when the dial starts later.
* `ClientSupervisorProofs`, the pool: type correctness (no run lists it), `CurrentNotCooling`
  and `CoolingIsEarned` for every set of carriers and every cost table; together they are
  inductive (`PoolInv`). `CooldownWorth` shows that the code's formula, a capped shift under a
  ceiling, gives what a number of falls is worth and no more.
* `ClientSupervisorProofs`, the loop: `PoolTracksConn`, `CooldownDeserved`,
  `SilenceWithoutPool`, and the pool's two invariants in the loop, for every interval and every
  pool. `SupervisorInv` reuses the lemmas about the two parts: each step of the supervisor is
  shown to be, for the manager and for the pool, a step they know or a sleep. The manager's
  invariant is carried only without a pool, since a rotation builds a new manager that knows
  nothing of the silence.
* `DatagramChannelProofs`: for every window width and counter range, type correctness, the
  refinement of `OnceChannel` and `InWindowAccepted`. `Exact` is the heart: inside the
  window a bit is set exactly for the numbers handed over, above it nothing was, below it
  nothing was handed over twice; `AcceptExact` shows each of the three accepting branches
  keeps it, the shift by the gap being the interesting one.
* `TunnelServerProofs`, the guard: for every number of tasks and nonces, `UsedOnce` and
  `FirstUseOpens`, from `KeepEpochs >= 3 + MaxLag`. `PruneKeepsYoung` counts: the epochs that
  can reach the guard lie in an interval of `3 + MaxLag`, so pruning to that many newest ones
  never drops one of them (`Remembered`). The code keeps three, which is exactly enough when a
  task has the mutex in the epoch in which it verified (`MaxLag = 0`), a stretch of
  microseconds against an hour.
* `TunnelServerProofs`, the requests: `UsesGuard` shows that the server implements
  `ReplayGuard` (every step is one of the guard's or leaves it alone), so both properties
  above hold of the server, for any number of connections, clients and repeated requests.
  `OneSessionPerToken` and `HonestNotRefused` need more, because the second half of a pair
  and packets never ask the guard. The first follows from `TablesKnown`: a half waits only
  while its token was used and has no session, a token waits in one place at most, and has had
  no more sessions than uses. `AtWork` adds that between `verify` and `observe` a request is
  still the head of its queue with no half to pair. The second is `Stage`, for each client:
  its claim to a session is gone (the key revoked, the hour over, a repeated request came
  between), or it does not wait, or nothing queued anywhere can come between it and its session
  (`Alone`) and what it waits for fixes which of its own requests are still queued and what
  waits under its pid (`Progress`).
* `SessionProofs`: for every choice of lengths, targets and intervals, `NextRecordOpens`,
  `RecordsFit`, `ShapedToTarget`, `KeysWearOut` and the refinement of `OrderedPipe`. The
  invariant follows the wire from end to end: nonces and keys continue from one record to the
  next, from what the reader expects to where the sender is (`InStep`), and so do the bytes
  (`Placed`), while the carrier lives. `KeysWearOut` has the interval in force when the
  key came into use: only the key that `split` found in use may seal twice as many frames, as
  the count starts again there (`split_key`).
* `ServerAdminProofs`: `RevokedStayOut`, `IssuedRemembered` and `NothingCountedTwice` for any
  number of clients and sessions. For the keyring the invariant says what the file holds at
  each point of a save (`FileFollows`), what the holder of the keyring has already done
  (`InHand`), and that a revocation or an issue the panel was told of is in memory and in the
  file (`RevokedBoth`, `IssuedBoth`); for the default client the file has to name it, as a
  keyring without it would be seeded. For the metrics it bounds each session's part in what a
  status has read. The sums are over finite sets of any size: where the argument needs
  induction, it takes a smallest set that is wrong, which the library's well-foundedness of
  strict subsets provides.
* `PacketUploadProofs`: type correctness and `InOrder` for every channel capacity, number of
  chunks and life of the token. `Numbering` ties the uploader's counter to the flushes (what
  it has sent, holds and finds in the channel are consecutive numbers), so that a packet's
  number determines its chunk (`Faithful`) wherever it is: posted, repeated, being read or
  waiting in the assembler. `RunOfPackets` and `OrderContinues` then show that what `deliver`
  passes on continues what it passed on before.
* `RelayProofs`: type correctness, `InOrderWithoutHoles` and `DatagramsOnce` for every plan,
  every room of the channels and any number of streams, under `IdsSuffice`: the id space holds
  all the ids handed out. The code's 16-bit counter does wrap, onto an open stream if there is
  one; the properties are false then (see [divergences](#divergences)), so the hypothesis is
  needed. For a TCP stream `Links` follows its events (the Open, then the chunks) from the
  socket that produced them to the socket that gets them: `m` of them have left the wire, the
  next ones are on it and in the queue before it, without a gap and up to the number the source
  has taken (`Counts`, `Carried`), and the sink with the socket holds a hole-free run that ends
  at `m` (`Reached`). A queue is shared by all streams, so `Counts` gives each of its positions
  the number of the stream's events in front of it; it is this witness that the lemmas about
  `Append` and `Tail` carry along. For datagrams no order is kept, so `Single` says instead
  that a chunk is at one place at most among all queues, the native link, the readers' hands,
  sinks and sockets, and that its number is one the source has used. `Registered`, `InHand` and
  `Staged` make an id stand for its stream wherever it is used to find a sink.
* `DesktopProofs`: type correctness, `KeptUnlessRemoved`, `NewestLinesShown` and `NameHidden`
  for any files, library of profiles and ring. The strengthening says that the list names no
  path twice and holds only profiles that passed `validate` when they were loaded (`ListOK`),
  that what the task was started with passed it too (`Vetted`), and that the
  window's cursor is not ahead of the log. `OpenedPaths` is the start-up: if nothing failed to
  load, the order-preserving choice of positions is onto, by the pigeonhole theorem of the
  library. `PollShows` is the arithmetic of a ring that overflowed between two polls, cut once
  by `logs_since` and once by the window; `VettedHidden` goes through the checks of `validate`
  and the resolver's fallbacks and shows that they agree on when a name is hidden.

Powers of two are not evaluated by the provers: `ShiftAssumption` states that those the pool
can meet are naturals, and TLC evaluates it on every run.

Every safety property of a passing run is thus a theorem. Only model-checked: the liveness
properties `StopHonoured`, `Recovers`, `AllRead`, `EndArrives`, `ChunksArrive`,
`BreakReachesSockets`, `AllArrives` and `ClientsSettle`, since the prover does not handle
fairness or ENABLED.

## Divergences

One run ends in the violation it expects: `connections_within_budget`. The tunnel that is
left on a freeze goes on running beside the probe, so two connections exist where the budget
counts one.

Met while modelling and not kept as runs.

Client loop and discipline:

* `note_drop` keeps the pending send, so a connection that simply dropped is later counted as
  a blackhole (`vlyness-discipline/src/lib.rs:136`).
* When every carrier cools, the loop sleeps until the first is free and dials the one it had,
  which may not be that one (`client.rs:528`).
* With a pool, the third strike switches at once; the new manager knows nothing of the silence
  (`client.rs:725`). The poll at the loop's head ignores `SwitchProfile`.
* A carrier that cannot be resolved during a rotation ends the client although another one
  works (`client.rs:523`). The shown state stays `Up` after a drop (`client.rs:718`). `run`
  cannot be stopped while a dial hangs; `Controller::stop` bounds its own wait.
* A positive reference mark that is still fresh outvotes a newer negative one
  (`blackhole.rs:107`).

Relay:

* What the client sends over UDP counts neither as bytes sent nor as activity
  (`relay.rs:283`), though `TunnelStats` (`relay.rs:45`) is what the blackhole detector reads
  as the tunnel's traffic up and down.
* Data or a Close that arrives between the Open and the registration of the sink is dropped
  (`relay.rs:194`); the delivery properties except such streams (`early`).
* The first end of a TCP stream to be noticed unregisters it (`relay.rs:464`): what is still on
  its way to the socket that ended is lost, although a socket that has stopped sending may
  still be read. `ChunksArrive` excepts exactly that direction.
* An id that wraps onto an open stream replaces its sink (`relay.rs:192`). The client's UDP
  entries are never removed from the registry (`relay.rs:220`).

Server:

* Every packet is checked against the token of the session's start, so after its last hour the
  packets of an open session get the site's page; the uploader takes any answer for success
  and the chunk is lost without an error (`http.rs:486`).
* A packet under the pid of a waiting half but with another token discards the half
  (`http.rs:508`); two equal halves lose both (`http.rs:551`). The table of uploads never
  shrinks while the connection lives (`http.rs:525`).
* A client does not read the answer to the POST of a pair (`http.rs:138`), nor the status of a
  packet's (`http.rs:239`). If its GET was taken and the POST is then refused, because the key
  was revoked or the hour ended in between, it waits in the handshake for ever
  (`ClientsSettle` excepts it).
* A packet is answered before its body is read, so waiting for the answer does not bound the
  bodies the server still has to read.
* `keyring.rs:11` seeds the default client "if there is no file yet"; a torn or unreadable
  file is seeded too, which lets a revoked default client in again. A write that fails is only
  logged. The panel issues a client before it validates its profile (`admin.rs:308`).
* A status that is put together while a session ends can show fewer bytes than an earlier one
  (`admin.rs:102`).

Session:

* The wire specification (`docs/03-wire-spec.md:74`) ends a key after an interval or 2^34
  bytes; the code counts frames only.

Profiles and desktop:

* `save_settings` (`vlyness-gui/src/main.rs:80`) swallows every error and truncates the file
  before it writes; `load_settings` (`main.rs:73`) takes a torn or missing file for an empty
  list. A user who closes the window after such a save has lost the list. `KeptUnlessRemoved`
  says how far the promise goes: the window shows the list all the same, and the next save
  that goes through stores it whole.

* A datagram carrier is dialed without the ECH that `validate` requires of its profile
  (`client.rs:457`); `NameHidden` therefore speaks of the other modes. `validate` accepts
  `mode = datagram` with `http.version = 2`.
* After a fatal error the window keeps the controller, unlike the comment at
  `vlyness-gui/src/main.rs:273` says. A pasted profile whose id collides with a listed one
  overwrites the file and keeps the stale entry (`main.rs:223`).
* A stored profile that does not load at one start is dropped from the settings at the next
  change (`KeptUnlessRemoved` excepts it through `missing`).

## Plan

1. Done: `ConnectionManager`, `CarrierPool`, `ClientSupervisor`, `DatagramChannel` with
   `OnceChannel`, `ReplayGuard`, `PacketUpload`, and the proofs above.
2. Done: `Relay`; `TunnelServer` over `ReplayGuard`; `Session` with `OrderedPipe`;
   `ServerAdmin`; `Profiles` and `Desktop`.
3. Done: the proofs about `Session`, `ServerAdmin`, `TunnelServer` over the guard,
   `ClientSupervisor` over the manager and the pool, `Relay` and `Desktop`.
4. Open: a model of the pump queues of `quic.rs`, and of a stream id that wraps, with a
   weaker promise than `InOrderWithoutHoles` for the streams it hits.

## Not modelled

* Ciphers, the Noise handshake's messages and key derivation: assumed perfect.
* TLS, HTTP/2, QUIC and DNS libraries and the DNS wire format; flow control of `H2Stream` in
  stream mode and the pump queues of `quic.rs`, which only the libraries' back pressure
  exercises.
* The distributions from which lengths and intervals are sampled, and the detectability
  metrics: statistics of real numbers.
* Byte parsing of SOCKS requests, addresses and the panel's HTTP; its ring of log lines.
* The set-up tools and configuration files, drawing, and the autostart entry of the registry:
  input and output without state of their own.
