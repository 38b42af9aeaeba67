------------------------- MODULE TunnelServerProofs -------------------------
(***************************************************************************)
(* Proofs about ReplayGuard, for every set of tasks and nonces and every   *)
(* KeepEpochs >= 3 + MaxLag (the three epochs of the code are exactly what *)
(* tasks that take the mutex in the epoch they verified in need), and      *)
(* about TunnelServer on top of it, for any connections, clients, nonces   *)
(* and repeated requests: requests use the guard as ReplayGuard says, a    *)
(* token has a part in one session, and a client whose requests nobody     *)
(* crosses is served.                                                      *)
(***************************************************************************)
EXTENDS TunnelServer, FiniteSetTheorems, SequenceTheorems, TLAPS

-----------------------------------------------------------------------------
(* The replay guard by itself *)

\* A verified token is at most MaxLag + 1 epochs old when the guard sees it.
JobsRecent ==
    \A k \in Tasks :
        job[k] # NoJob =>
            /\ job[k].token.epoch <= epoch + 1
            /\ job[k].token.epoch >= epoch - 1 - MaxLag
            /\ job[k].at <= epoch /\ epoch - job[k].at <= MaxLag
            /\ job[k].token.epoch >= job[k].at - 1

\* The window holds used tokens only, none from beyond the next epoch.
WindowUsed == \A t \in window : used[t] = 1 /\ t.epoch <= epoch + 1

\* Every used token that can still reach the guard is remembered.
Remembered ==
    \A t \in Tokens : used[t] # 0 /\ t.epoch >= epoch - 1 - MaxLag => t \in window

GuardInv == TypeOK /\ JobsRecent /\ WindowUsed /\ Remembered /\ UsedOnce

\* prune drops no token young enough to be presented again.
LEMMA PruneKeepsYoung ==
    ASSUME NEW w \in SUBSET Tokens, NEW e \in Nat, \A u \in w : u.epoch <= e + 1,
           NEW t \in w, t.epoch >= e - 1 - MaxLag
    PROVE  t \in Prune(w)
<1>1. t.epoch \in Int /\ e + 1 \in Int /\ \A u \in w : u.epoch \in Int
  BY EpochAssumption DEF Tokens, Epochs
<1>2. Newer(w, t.epoch) \subseteq t.epoch..(e + 1)
  BY <1>1 DEF Newer
<1>3. IsFiniteSet(t.epoch..(e + 1)) /\ Cardinality(t.epoch..(e + 1)) <= 3 + MaxLag
  BY <1>1, FS_Interval, KeepAssumption
<1>4. Cardinality(Newer(w, t.epoch)) <= Cardinality(t.epoch..(e + 1))
      /\ IsFiniteSet(Newer(w, t.epoch))
  BY <1>2, <1>3, FS_Subset
<1>5. Cardinality(Newer(w, t.epoch)) \in Nat /\ Cardinality(t.epoch..(e + 1)) \in Nat
  BY <1>3, <1>4, FS_CardinalityType
<1>6. Cardinality(Newer(w, t.epoch)) <= KeepEpochs
  BY <1>3, <1>4, <1>5, KeepAssumption
<1> QED
  BY <1>6 DEF Prune

\* The invariant holds initially.
LEMMA GuardInit == Init => GuardInv
BY DEF Init, GuardInv, TypeOK, JobsRecent, WindowUsed, Remembered, UsedOnce

\* A task's verification preserves the invariant.
LEMMA VerifyKeepsGuard ==
    ASSUME GuardInv, NEW k \in Tasks, NEW token \in Tokens, Verify(k, token)
    PROVE  GuardInv'
<1> USE KeepAssumption, EpochAssumption
<1>1. epoch \in Nat /\ epoch \in Epochs /\ token.epoch \in Int
  BY DEF GuardInv, TypeOK, Epochs, Tokens
<1>2. [token |-> token, at |-> epoch] \in Jobs
  BY <1>1 DEF Jobs
<1>3. TypeOK'
  BY <1>2 DEF GuardInv, TypeOK, Verify
<1>4. JobsRecent'
  BY <1>1 DEF GuardInv, TypeOK, JobsRecent, Verify, Accepted
<1> QED
  BY <1>3, <1>4 DEF GuardInv, WindowUsed, Remembered, UsedOnce, Verify

\* The guard's decision preserves the invariant.
LEMMA ObserveKeepsGuard == ASSUME GuardInv, NEW k \in Tasks, Observe(k) PROVE GuardInv'
<1> USE KeepAssumption, EpochAssumption
<1> DEFINE token == job[k].token
           grown == window \cup {token}
<1>1. job[k] \in Jobs /\ token \in Tokens /\ epoch \in Nat /\ used \in [Tokens -> Nat]
  BY DEF Observe, GuardInv, TypeOK, Jobs
<1>2. token.epoch <= epoch + 1 /\ token.epoch >= epoch - 1 - MaxLag
  BY DEF Observe, GuardInv, JobsRecent
<1>3. grown \in SUBSET Tokens /\ \A u \in grown : u.epoch <= epoch + 1
  BY <1>1, <1>2 DEF GuardInv, TypeOK, WindowUsed
<1>4. window' = Prune(grown) /\ epoch' = epoch
  BY DEF Observe
<1>5. window' \subseteq grown
  BY <1>4 DEF Prune
<1>6. token \notin window => used[token] = 0
  BY <1>1, <1>2 DEF GuardInv, Remembered
<1>7. used' \in [Tokens -> Nat] /\ used'[token] = 1
      /\ \A t \in Tokens : t # token => used'[t] = used[t]
  <2>1. CASE token \in window
    BY <1>1, <2>1 DEF Observe, GuardInv, WindowUsed
  <2>2. CASE token \notin window
    BY <1>1, <1>6, <2>2 DEF Observe
  <2> QED
    BY <2>1, <2>2
<1>8. TypeOK'
  BY <1>3, <1>4, <1>5, <1>7 DEF GuardInv, TypeOK, Observe
<1>9. JobsRecent'
  BY <1>4 DEF GuardInv, TypeOK, JobsRecent, Observe
<1>10. WindowUsed'
  BY <1>3, <1>4, <1>5, <1>7 DEF GuardInv, WindowUsed
<1>11. Remembered'
  <2> SUFFICES ASSUME NEW t \in Tokens, used'[t] # 0, t.epoch >= epoch - 1 - MaxLag
               PROVE  t \in Prune(grown)
    BY <1>4 DEF Remembered
  <2>1. t \in grown
    BY <1>7 DEF GuardInv, Remembered
  <2> QED
    BY <1>1, <1>3, <2>1, PruneKeepsYoung
<1>12. UsedOnce'
  BY <1>7 DEF GuardInv, UsedOnce
<1> QED
  BY <1>8, <1>9, <1>10, <1>11, <1>12 DEF GuardInv

\* Every step preserves the inductive invariant.
LEMMA GuardNext == GuardInv /\ [Next]_vars => GuardInv'
<1> SUFFICES ASSUME GuardInv, [Next]_vars PROVE GuardInv'
  OBVIOUS
<1>1. CASE \E k \in Tasks : Observe(k)
  BY <1>1, ObserveKeepsGuard
<1>2. CASE \E k \in Tasks : \E token \in Tokens : Verify(k, token)
  BY <1>2, VerifyKeepsGuard
<1>3. CASE Tick
  <2> USE KeepAssumption, EpochAssumption
  <2>1. TypeOK' /\ UsedOnce'
    BY <1>3 DEF Tick, GuardInv, TypeOK, UsedOnce
  <2>2. WindowUsed' /\ Remembered'
    BY <1>3 DEF Tick, GuardInv, TypeOK, WindowUsed, Remembered, Tokens, Epochs
  <2>3. JobsRecent'
    BY <1>3 DEF Tick, GuardInv, TypeOK, JobsRecent, Jobs, Tokens, Epochs
  <2> QED
    BY <2>1, <2>2, <2>3 DEF GuardInv
<1>4. CASE UNCHANGED vars
  BY <1>4 DEF vars, GuardInv, TypeOK, JobsRecent, WindowUsed, Remembered, UsedOnce
<1> QED
  BY <1>1, <1>2, <1>3, <1>4 DEF Next

\* The inductive invariant holds in every reachable state.
THEOREM GuardInvariance == Spec => []GuardInv
<1> QED
  BY GuardInit, GuardNext, PTL DEF Spec

\* Type correctness of the guard and its tasks.
THEOREM GuardTypeCorrect == Spec => []TypeOK
<1>1. GuardInv => TypeOK
  BY DEF GuardInv
<1> QED
  BY <1>1, GuardInvariance, PTL

\* No token ever opens two sessions.
THEOREM TokensUsedOnce == Spec => []UsedOnce
<1>1. GuardInv => UsedOnce
  BY DEF GuardInv
<1> QED
  BY <1>1, GuardInvariance, PTL

\* A token's first presentation always opens its session.
THEOREM FirstUse == Spec => FirstUseOpens
<1>1. GuardInv /\ [Next]_vars
      => [\A k \in Tasks :
             job[k] # NoJob /\ job'[k] = NoJob /\ used[job[k].token] = 0
                 => used'[job[k].token] = 1]_vars
  <2> SUFFICES ASSUME GuardInv, [Next]_vars, NEW k \in Tasks,
                      job[k] # NoJob, job'[k] = NoJob, used[job[k].token] = 0
               PROVE  used'[job[k].token] = 1
    OBVIOUS
  <2>1. job[k] \in Jobs /\ job[k].token \in Tokens /\ epoch \in Epochs
    BY EpochAssumption DEF GuardInv, TypeOK, Jobs, Epochs
  <2>2. Observe(k)
    <3>1. ASSUME NEW j \in Tasks, NEW token \in Tokens, Verify(j, token) PROVE FALSE
      <4>1. [token |-> token, at |-> epoch] \in Jobs
        BY <2>1 DEF Jobs
      <4> QED
        BY <3>1, <4>1, JobAssumption DEF Verify, GuardInv, TypeOK
    <3>2. ~Tick /\ ~UNCHANGED vars
      BY DEF Tick, vars
    <3>3. ASSUME NEW j \in Tasks, Observe(j), j # k PROVE FALSE
      BY <3>3 DEF Observe, GuardInv, TypeOK
    <3> QED
      BY <3>1, <3>2, <3>3 DEF Next
  <2>3. job[k].token \notin window
    BY DEF GuardInv, WindowUsed
  <2> QED
    BY <2>1, <2>2, <2>3 DEF Observe, GuardInv, TypeOK
<1> QED
  BY <1>1, GuardInvariance, PTL DEF Spec, FirstUseOpens

-----------------------------------------------------------------------------
(* What waits on a connection *)

\* The client's own requests in a queue, by kind and in this order.
NoneMine(q) == \A i \in 1..Len(q) : ~q[i].mine
OneMine(q, a) ==
    \E j \in 1..Len(q) : q[j].kind = a /\ \A i \in 1..Len(q) : q[i].mine <=> i = j
TwoMine(q, a, b) ==
    \E j, k \in 1..Len(q) :
        /\ j < k /\ q[j].kind = a /\ q[k].kind = b
        /\ \A i \in 1..Len(q) : q[i].mine <=> i = j \/ i = k

\* A request shows a token and a pid that were sent, a client's own those of its client.
Known(c, r) ==
    /\ r.token \in sent /\ r.pid \in SentNonces
    /\ r.mine => c \in Honest /\ r.token = own[c] /\ r.pid = own[c].nonce

RequestsKnown == \A c \in Tasks : \A i \in 1..Len(inbox[c]) : Known(c, inbox[c][i])

\* A nonce is used once, by one client, and an hour ahead at most.
OwnTokens ==
    /\ \A c \in Honest : IF client[c] = "new" THEN own[c] = NoToken
                         ELSE own[c] \in sent /\ own[c].epoch <= epoch + 1
    /\ \A c, d \in Honest : c # d /\ own[c] \in Tokens => own[c] # own[d]
    /\ \A t, u \in sent : t.nonce = u.nonce => t = u
    /\ \A t \in Tokens : used[t] # 0 => t \in sent

\* The token of a half that waits has been used and has no session yet; a client's own half
\* waits on its connection under its pid.
HalfKnown(c, p, half) ==
    /\ p \in SentNonces
    /\ half.token \in Tokens /\ used[half.token] # 0 /\ sessions[half.token] = 0
    /\ half.mine => c \in Honest /\ half.token = own[c] /\ p = own[c].nonce

\* A token waits in one place at most, and has had no more sessions than uses.
TablesKnown ==
    /\ \A c \in Tasks, p \in Pids :
          /\ pending[c][p] # NoHalf => HalfKnown(c, p, pending[c][p])
          /\ uploads[c][p] # NoToken => p \in SentNonces
    /\ \A c, d \in Tasks, p, q \in Pids :
          pending[c][p] # NoHalf /\ pending[d][q].token = pending[c][p].token
              => c = d /\ p = q
    /\ \A t \in Tokens : sessions[t] <= used[t]

\* Between verify and observe a task is at the head of its queue, with no half to pair.
AtWork ==
    \A c \in Tasks : job[c] # NoJob =>
        /\ inbox[c] # <<>> /\ Head(inbox[c]).token = job[c].token
        /\ Head(inbox[c]).kind \in {"one", "down", "up"}
        /\ Head(inbox[c]).kind # "one" => pending[c][Head(inbox[c]).pid] = NoHalf

Unused(c)       == used[own[c]] = 0
NothingWaits(c) == pending[c][own[c].nonce] = NoHalf
HalfWaits(c)    ==
    pending[c][own[c].nonce] = [dir |-> "down", token |-> own[c], mine |-> TRUE]

\* The client has lost its claim to a session.
Settled(c) == ~active \/ own[c].epoch \notin Accepted(epoch) \/ c \in crossed

\* A request of somebody else on connection d that cannot come between client c and its
\* session: it is not the first to show the token, and under the client's pid, on its
\* connection, it fails at the guard.
Harmless(c, d, r) ==
    ~r.mine => /\ r.token = own[c] /\ r.kind # "packet" => used[own[c]] # 0
               /\ d = c /\ r.pid = own[c].nonce /\ r.kind # "one" =>
                     r.kind # "packet" /\ r.token # own[c] /\ used[r.token] # 0

Alone(c) == \A d \in Tasks : \A i \in 1..Len(inbox[d]) : Harmless(c, d, inbox[d][i])

\* How far a client's own requests have come, by what the client waits for.
Progress(c) ==
    /\ uploads[c][own[c].nonce] = NoToken
    /\ client[c] = "one" => Unused(c) /\ NothingWaits(c) /\ OneMine(inbox[c], "one")
    /\ client[c] = "segments" =>
           \/ Unused(c) /\ NothingWaits(c) /\ TwoMine(inbox[c], "down", "up")
           \/ HalfWaits(c) /\ OneMine(inbox[c], "up")
    /\ client[c] = "packet" => Unused(c) /\ NothingWaits(c) /\ OneMine(inbox[c], "down")
    /\ client[c] = "granted" => HalfWaits(c) /\ NoneMine(inbox[c])
    /\ client[c] = "posted" => HalfWaits(c) /\ OneMine(inbox[c], "packet")

\* A client that nobody crosses, and whose token is good, makes progress to its session.
Stage(c) ==
    \/ Settled(c)
    \/ client[c] \in {"new", "open"}
    \/ client[c] \in Waiting /\ Alone(c) /\ Progress(c)

Stages == \A c \in Honest : Stage(c)

Tables == ServerTypeOK /\ RequestsKnown /\ OwnTokens /\ TablesKnown /\ AtWork

ServerInv == Tables /\ Stages

Inv == GuardInv /\ ServerInv

-----------------------------------------------------------------------------
(* Queues *)

\* A request at the end of a queue.
LEMMA Queued ==
    ASSUME NEW q \in Seq(Requests), NEW r \in Requests
    PROVE  /\ Append(q, r) \in Seq(Requests) /\ Len(Append(q, r)) = Len(q) + 1
           /\ Len(q) \in Nat /\ Append(q, r)[Len(q) + 1] = r
           /\ \A i \in 1..Len(q) : Append(q, r)[i] = q[i]
           /\ q # <<>> => Head(Append(q, r)) = Head(q)
           /\ Append(q, r) # <<>>
<1>1. /\ Append(q, r) \in Seq(Requests) /\ Len(Append(q, r)) = Len(q) + 1
      /\ Len(q) \in Nat /\ Append(q, r)[Len(q) + 1] = r
      /\ \A i \in 1..Len(q) : Append(q, r)[i] = q[i]
    BY AppendProperties, LenProperties
<1>2. q # <<>> => Len(q) >= 1
    BY <1>1, EmptySeq
<1>3. Append(q, r) # <<>>
    BY <1>1, EmptySeq
<1>4. q # <<>> => Head(Append(q, r)) = Append(q, r)[1] /\ Head(q) = q[1]
    BY <1>1, <1>3, HeadTailProperties
<1> QED BY <1>1, <1>2, <1>3, <1>4

\* The queue behind its head.
LEMMA Behind ==
    ASSUME NEW q \in Seq(Requests), q # <<>>
    PROVE  /\ Tail(q) \in Seq(Requests) /\ Len(Tail(q)) = Len(q) - 1 /\ Len(q) \in Nat \ {0}
           /\ Head(q) \in Requests /\ Head(q) = q[1]
           /\ \A i \in 1..Len(Tail(q)) : Tail(q)[i] = q[i + 1]
<1>1. Len(q) \in Nat \ {0}
    BY EmptySeq, LenProperties
<1>2. Head(q) = q[1]
    OBVIOUS
<1>3. q[1] \in Requests
    BY <1>1, ElementOfSeq
<1> QED BY <1>1, <1>2, <1>3, HeadTailProperties

\* The client's own next request joins.
LEMMA MineQueued ==
    ASSUME NEW q \in Seq(Requests), NEW r \in Requests, r.mine, NEW a
    PROVE  /\ NoneMine(q) => OneMine(Append(q, r), r.kind)
           /\ OneMine(q, a) => TwoMine(Append(q, r), a, r.kind)
<1> DEFINE w == Append(q, r)
<1>1. /\ Len(w) = Len(q) + 1 /\ Len(q) \in Nat /\ w[Len(q) + 1] = r
      /\ \A i \in 1..Len(q) : w[i] = q[i]
    BY Queued
<1> HIDE DEF w
<1>2. \A i \in 1..Len(w) : i \in 1..Len(q) \/ i = Len(q) + 1
    BY <1>1
<1>3. NoneMine(q) => OneMine(w, r.kind)
    BY <1>1, <1>2 DEF NoneMine, OneMine
<1>4. OneMine(q, a) => TwoMine(w, a, r.kind)
    BY <1>1, <1>2 DEF OneMine, TwoMine
<1> QED BY <1>3, <1>4 DEF w

\* w is the queue q with the request r put in behind the first n.
Joins(q, r, n, w) ==
    /\ w \in Seq(Requests) /\ Len(w) = Len(q) + 1 /\ Len(q) \in Nat /\ w[n + 1] = r
    /\ \A i \in 1..n : w[i] = q[i]
    /\ \A i \in (n + 1)..Len(q) : w[i + 1] = q[i]

\* A request of somebody else joins a queue at some place.
LEMMA Inserted ==
    ASSUME NEW q \in Seq(Requests), NEW r \in Requests, NEW n \in 0..Len(q)
    PROVE  Joins(q, r, n, SubSeq(q, 1, n) \o <<r>> \o SubSeq(q, n + 1, Len(q)))
<1> DEFINE x == SubSeq(q, 1, n)
           z == SubSeq(q, n + 1, Len(q))
           y == x \o <<r>>
           w == y \o z
<1>1. Len(q) \in Nat /\ n \in Nat /\ n <= Len(q) /\ \A i \in 1..Len(q) : q[i] \in Requests
    BY LenProperties, ElementOfSeq
<1>2. /\ x \in Seq(Requests) /\ Len(x) = n /\ \A i \in 1..n : x[i] = q[i]
    <2>1. 1 \in Int /\ n \in Int /\ \A i \in 1..n : q[i] \in Requests
        BY <1>1
    <2>2. /\ x \in Seq(Requests) /\ Len(x) = (IF 1 <= n THEN n - 1 + 1 ELSE 0)
          /\ \A i \in 1..(n - 1 + 1) : x[i] = q[1 + i - 1]
        BY <2>1, SubSeqProperties
    <2> HIDE DEF x
    <2> QED BY <1>1, <2>2
<1>3. /\ z \in Seq(Requests) /\ Len(z) = Len(q) - n
      /\ \A i \in 1..(Len(q) - n) : z[i] = q[n + i]
    <2>1. n + 1 \in Int /\ Len(q) \in Int /\ \A i \in (n + 1)..Len(q) : q[i] \in Requests
        BY <1>1
    <2>2. /\ z \in Seq(Requests)
          /\ Len(z) = (IF n + 1 <= Len(q) THEN Len(q) - (n + 1) + 1 ELSE 0)
          /\ \A i \in 1..(Len(q) - (n + 1) + 1) : z[i] = q[(n + 1) + i - 1]
        BY <2>1, SubSeqProperties
    <2> HIDE DEF z
    <2>3. Len(q) - (n + 1) + 1 = Len(q) - n
        BY <1>1
    <2>4. Len(z) = Len(q) - n
        <3>1. CASE n < Len(q)
            <4>1. n + 1 <= Len(q)
                BY <1>1, <3>1
            <4>2. Len(z) = Len(q) - (n + 1) + 1
                BY <2>2, <4>1
            <4> QED BY <2>3, <4>2
        <3>2. CASE n = Len(q)
            <4>1. ~(n + 1 <= Len(q)) /\ Len(q) - n = 0
                BY <1>1, <3>2
            <4>2. Len(z) = 0
                BY <2>2, <4>1
            <4> QED BY <4>1, <4>2
        <3> QED BY <1>1, <3>1, <3>2
    <2>5. ASSUME NEW i \in 1..(Len(q) - n) PROVE z[i] = q[n + i]
        <3>1. (n + 1) + i - 1 = n + i
            BY <1>1
        <3>2. z[i] = q[(n + 1) + i - 1]
            BY <2>2, <2>3
        <3> QED BY <3>1, <3>2
    <2> QED BY <2>2, <2>4, <2>5
<1>4. y = Append(x, r)
    BY <1>2, AppendIsConcat
<1>5. /\ y \in Seq(Requests) /\ Len(y) = n + 1 /\ y[n + 1] = r
      /\ \A i \in 1..n : y[i] = q[i]
    BY <1>2, <1>4, AppendProperties
<1> HIDE DEF x, y, z
<1>6. /\ w \in Seq(Requests) /\ Len(w) = Len(y) + Len(z)
      /\ \A i \in 1..(Len(y) + Len(z)) : w[i] = IF i <= Len(y) THEN y[i] ELSE z[i - Len(y)]
    BY <1>3, <1>5, ConcatProperties
<1> HIDE DEF w
<1>7. Len(w) = Len(q) + 1 /\ w[n + 1] = r /\ \A i \in 1..n : w[i] = q[i]
    BY <1>1, <1>3, <1>5, <1>6
<1>8. ASSUME NEW i \in (n + 1)..Len(q) PROVE w[i + 1] = q[i]
    <2>1. /\ i + 1 \in 1..(Len(y) + Len(z)) /\ ~(i + 1 <= Len(y))
          /\ (i + 1) - Len(y) = i - n /\ i - n \in 1..(Len(q) - n) /\ n + (i - n) = i
        BY <1>1, <1>3, <1>5
    <2>2. w[i + 1] = z[i - n]
        BY <1>6, <2>1
    <2>3. z[i - n] = q[n + (i - n)]
        BY <1>3, <2>1
    <2> QED BY <2>1, <2>2, <2>3
<1> QED BY <1>1, <1>6, <1>7, <1>8 DEF w, x, y, z, Joins

\* It leaves the client's own as they were, in their order.
LEMMA OtherInserted ==
    ASSUME NEW q \in Seq(Requests), NEW r \in Requests, ~r.mine, NEW n \in 0..Len(q),
           NEW w, Joins(q, r, n, w)
    PROVE  /\ w \in Seq(Requests) /\ (n > 0 => w # <<>> /\ Head(w) = Head(q))
           /\ \A i \in 1..Len(w) : w[i] = r \/ \E j \in 1..Len(q) : w[i] = q[j]
           /\ NoneMine(q) => NoneMine(w)
           /\ \A a : OneMine(q, a) => OneMine(w, a)
           /\ \A a, b : TwoMine(q, a, b) => TwoMine(w, a, b)
<1>1. /\ w \in Seq(Requests) /\ Len(w) = Len(q) + 1 /\ Len(q) \in Nat /\ w[n + 1] = r
      /\ \A i \in 1..n : w[i] = q[i]
      /\ \A i \in (n + 1)..Len(q) : w[i + 1] = q[i]
    BY DEF Joins
<1> DEFINE at(i) == IF i <= n THEN i ELSE i + 1
<1>2. \A i \in 1..Len(q) : at(i) \in 1..Len(w) /\ w[at(i)] = q[i]
    BY <1>1
<1>3. \A i \in 1..Len(w) : i = n + 1 \/ \E j \in 1..Len(q) : i = at(j)
    <2> SUFFICES ASSUME NEW i \in 1..Len(w), i # n + 1
                 PROVE  \E j \in 1..Len(q) : i = at(j)
        OBVIOUS
    <2>1. CASE i <= n
        BY <1>1, <2>1
    <2>2. CASE i > n + 1
        <3>1. i - 1 \in 1..Len(q) /\ i = at(i - 1)
            BY <1>1, <2>2
        <3> QED BY <3>1
    <2> QED BY <1>1, <2>1, <2>2
<1>4. \A i, j \in 1..Len(q) : /\ i < j => at(i) < at(j)
                              /\ at(i) = at(j) => i = j
                              /\ at(i) # n + 1
    BY <1>1
<1>5. n > 0 => w # <<>> /\ Head(w) = Head(q)
    <2> SUFFICES ASSUME n > 0 PROVE w # <<>> /\ Head(w) = Head(q)
        OBVIOUS
    <2>1. Len(w) # 0 /\ Len(q) # 0 /\ w[1] = q[1]
        BY <1>1
    <2>2. w # <<>> /\ q # <<>>
        BY <2>1, EmptySeq
    <2> QED BY <1>1, <2>1, <2>2, Behind
<1> HIDE DEF at
<1>6. \A i \in 1..Len(w) : \/ i = n + 1 /\ w[i] = r
                           \/ \E j \in 1..Len(q) : i = at(j) /\ w[i] = q[j]
    BY <1>1, <1>2, <1>3
<1>7. NoneMine(q) => NoneMine(w)
    BY <1>6 DEF NoneMine
<1>8. ASSUME NEW a, OneMine(q, a) PROVE OneMine(w, a)
    <2>1. PICK j \in 1..Len(q) : q[j].kind = a /\ \A i \in 1..Len(q) : q[i].mine <=> i = j
        BY <1>8 DEF OneMine
    <2>2. at(j) \in 1..Len(w) /\ w[at(j)].kind = a
        BY <1>2, <2>1
    <2>3. \A i \in 1..Len(w) : w[i].mine <=> i = at(j)
        BY <1>2, <1>4, <1>6, <2>1
    <2> QED BY <2>2, <2>3 DEF OneMine
<1>9. ASSUME NEW a, NEW b, TwoMine(q, a, b) PROVE TwoMine(w, a, b)
    <2>1. PICK j, k \in 1..Len(q) : /\ j < k /\ q[j].kind = a /\ q[k].kind = b
                                   /\ \A i \in 1..Len(q) : q[i].mine <=> i = j \/ i = k
        BY <1>9 DEF TwoMine
    <2>2. /\ at(j) \in 1..Len(w) /\ at(k) \in 1..Len(w) /\ at(j) < at(k)
          /\ w[at(j)].kind = a /\ w[at(k)].kind = b
        BY <1>2, <1>4, <2>1
    <2>3. \A i \in 1..Len(w) : w[i].mine <=> i = at(j) \/ i = at(k)
        BY <1>2, <1>4, <1>6, <2>1
    <2> QED BY <2>2, <2>3 DEF TwoMine
<1>10. \A i \in 1..Len(w) : w[i] = r \/ \E j \in 1..Len(q) : w[i] = q[j]
    BY <1>6
<1> QED BY <1>1, <1>5, <1>7, <1>8, <1>9, <1>10

\* The head of a queue is handled.
LEMMA HeadHandled ==
    ASSUME NEW q \in Seq(Requests), q # <<>>, NEW a, NEW b
    PROVE  /\ NoneMine(q) => NoneMine(Tail(q)) /\ ~Head(q).mine
           /\ OneMine(q, a) /\ ~Head(q).mine => OneMine(Tail(q), a)
           /\ OneMine(q, a) /\ Head(q).mine => NoneMine(Tail(q)) /\ Head(q).kind = a
           /\ TwoMine(q, a, b) /\ ~Head(q).mine => TwoMine(Tail(q), a, b)
           /\ TwoMine(q, a, b) /\ Head(q).mine => OneMine(Tail(q), b) /\ Head(q).kind = a
<1> DEFINE t == Tail(q)
           h == Head(q)
<1>1. /\ Len(t) = Len(q) - 1 /\ Len(q) \in Nat \ {0} /\ h = q[1]
      /\ \A i \in 1..Len(t) : t[i] = q[i + 1]
    BY Behind
<1> HIDE DEF t, h
<1>2. 1 \in 1..Len(q) /\ \A i \in 1..Len(t) : i + 1 \in 1..Len(q) /\ i + 1 # 1
    BY <1>1
<1>3. \A j \in 1..Len(q) : j # 1 => j - 1 \in 1..Len(t) /\ (j - 1) + 1 = j
    BY <1>1
<1>4. NoneMine(q) => NoneMine(t) /\ ~h.mine
    BY <1>1, <1>2 DEF NoneMine
<1>5. OneMine(q, a) /\ ~h.mine => OneMine(t, a)
    <2> SUFFICES ASSUME OneMine(q, a), ~h.mine PROVE OneMine(t, a)
        OBVIOUS
    <2>1. PICK j \in 1..Len(q) : q[j].kind = a /\ \A i \in 1..Len(q) : q[i].mine <=> i = j
        BY DEF OneMine
    <2>2. j # 1
        BY <2>1, <1>1, <1>2
    <2>3. j - 1 \in 1..Len(t) /\ t[j - 1].kind = a
        BY <2>1, <2>2, <1>1, <1>3
    <2>4. \A i \in 1..Len(t) : t[i].mine <=> i = j - 1
        BY <2>1, <1>1, <1>2
    <2> QED BY <2>3, <2>4 DEF OneMine
<1>6. OneMine(q, a) /\ h.mine => NoneMine(t) /\ h.kind = a
    BY <1>1, <1>2 DEF OneMine, NoneMine
<1>7. TwoMine(q, a, b) => IF h.mine THEN OneMine(t, b) /\ h.kind = a ELSE TwoMine(t, a, b)
    <2> SUFFICES ASSUME TwoMine(q, a, b)
                 PROVE  IF h.mine THEN OneMine(t, b) /\ h.kind = a ELSE TwoMine(t, a, b)
        OBVIOUS
    <2>1. PICK j, k \in 1..Len(q) : /\ j < k /\ q[j].kind = a /\ q[k].kind = b
                                   /\ \A i \in 1..Len(q) : q[i].mine <=> i = j \/ i = k
        BY DEF TwoMine
    <2>2. k - 1 \in 1..Len(t) /\ t[k - 1].kind = b
        BY <2>1, <1>1, <1>3
    <2>3. \A i \in 1..Len(t) : t[i].mine <=> i = j - 1 \/ i = k - 1
        BY <2>1, <1>1, <1>2
    <2>4. CASE j = 1
        BY <2>1, <2>2, <2>3, <2>4, <1>1, <1>2 DEF OneMine
    <2>5. CASE j # 1
        <3>1. j - 1 \in 1..Len(t) /\ t[j - 1].kind = a /\ j - 1 < k - 1 /\ ~h.mine
            BY <2>1, <2>5, <1>1, <1>3
        <3> QED BY <3>1, <2>2, <2>3 DEF TwoMine
    <2> QED BY <2>4, <2>5
<1> QED BY <1>4, <1>5, <1>6, <1>7 DEF t, h

\* What the rest of a queue holds when its head was the client's own.
LEMMA HeadMine ==
    ASSUME NEW q \in Seq(Requests), q # <<>>, Head(q).mine
    PROVE  /\ ~NoneMine(q)
           /\ \A a : OneMine(q, a) => NoneMine(Tail(q)) /\ Head(q).kind = a
           /\ \A a, b : TwoMine(q, a, b) => OneMine(Tail(q), b) /\ Head(q).kind = a
<1>1. ASSUME NEW a, NEW b
      PROVE  /\ ~NoneMine(q)
             /\ OneMine(q, a) => NoneMine(Tail(q)) /\ Head(q).kind = a
             /\ TwoMine(q, a, b) => OneMine(Tail(q), b) /\ Head(q).kind = a
      BY HeadHandled
<1> QED BY <1>1

-----------------------------------------------------------------------------
(* The guard behind the requests *)

\* The parts of tokens, halves and requests.
LEMMA Parts ==
    /\ NoToken \notin Tokens
    /\ \A t \in Tokens : t.nonce \in Nonces /\ t.nonce \in Nat \ {0} /\ t.epoch \in Nat
    /\ \A kind \in Kinds, t \in Tokens :
          /\ Request(kind, t) \in Requests
          /\ Request(kind, t).kind = kind /\ Request(kind, t).token = t
          /\ Request(kind, t).pid = t.nonce /\ Request(kind, t).mine
    /\ \A r \in Requests :
          r.token \in Tokens /\ r.pid \in Pids /\ r.kind \in Kinds /\ r.mine \in BOOLEAN
<1>1. NoToken \notin Tokens
    BY ServerAssumption DEF NoToken, Tokens
<1>2. ASSUME NEW t \in Tokens PROVE t.nonce \in Nonces /\ t.nonce \in Nat \ {0} /\ t.epoch \in Nat
    <2>1. t.nonce \in Nonces /\ t.epoch \in Epochs
        BY DEF Tokens
    <2>2. t.nonce \in Nat \ {0}
        BY <2>1, ServerAssumption
    <2>3. t.epoch \in Nat
        BY <2>1, EpochAssumption DEF Epochs
    <2> QED BY <2>1, <2>2, <2>3
<1>3. ASSUME NEW kind \in Kinds, NEW t \in Tokens
      PROVE  /\ Request(kind, t) \in Requests
             /\ Request(kind, t).kind = kind /\ Request(kind, t).token = t
             /\ Request(kind, t).pid = t.nonce /\ Request(kind, t).mine
    <2>1. Request(kind, t) = [kind |-> kind, token |-> t, pid |-> t.nonce, mine |-> TRUE]
          /\ t.nonce \in Pids
        BY <1>2 DEF Request, Pids
    <2>2. Request(kind, t).mine
        BY <2>1
    <2>3. /\ Request(kind, t).kind = kind /\ Request(kind, t).token = t
          /\ Request(kind, t).pid = t.nonce
        BY <2>1
    <2>4. TRUE \in BOOLEAN
        OBVIOUS
    <2>5. Request(kind, t) \in Requests
        BY <2>1, <2>4 DEF Requests
    <2> QED BY <2>2, <2>3, <2>5
<1>4. ASSUME NEW r \in Requests
      PROVE  r.token \in Tokens /\ r.pid \in Pids /\ r.kind \in Kinds /\ r.mine \in BOOLEAN
    BY DEF Requests
<1> QED BY <1>1, <1>2, <1>3, <1>4

\* The types of what belongs to one connection.
LEMMA OfConnection ==
    ASSUME ServerTypeOK, NEW c \in Tasks
    PROVE  /\ inbox[c] \in Seq(Requests)
           /\ \A i \in 1..Len(inbox[c]) : inbox[c][i] \in Requests
           /\ inbox[c] # <<>> => /\ Head(inbox[c]) \in Requests
                                 /\ Head(inbox[c]) = inbox[c][1] /\ 1 \in 1..Len(inbox[c])
<1>1. inbox[c] \in Seq(Requests)
    BY DEF ServerTypeOK
<1>2. \A i \in 1..Len(inbox[c]) : inbox[c][i] \in Requests
    BY <1>1, ElementOfSeq
<1>3. inbox[c] # <<>> => /\ Head(inbox[c]) \in Requests
                         /\ Head(inbox[c]) = inbox[c][1] /\ 1 \in 1..Len(inbox[c])
    BY <1>1, Behind
<1> QED BY <1>1, <1>2, <1>3

\* Requests use the guard in no other way than ReplayGuard says.
LEMMA GuardStep ==
    ASSUME ServerTypeOK, [ServerNext]_<<vars, serverVars>>
    PROVE  [Next]_vars
<1>1. ASSUME NEW c \in Tasks, Check(c) PROVE Next
    <2>1. inbox[c] # <<>> /\ Verify(c, Head(inbox[c]).token)
        BY <1>1 DEF Check, IsFirst, At
    <2>2. Head(inbox[c]).token \in Tokens
        BY <2>1, OfConnection, Parts
    <2> QED BY <2>1, <2>2 DEF Next
<1>2. ASSUME NEW c \in Tasks, Observed(c) PROVE Next
    BY <1>2 DEF Observed, Next
<1>3. ASSUME NEW c \in Tasks, Refuse(c) \/ Pair(c) \/ PacketNext(c) \/ PacketFirst(c)
      PROVE  UNCHANGED vars
    BY <1>3 DEF Refuse, Pair, PacketNext, PacketFirst
<1>4. ASSUME NEW c \in Tasks, Reconnect(c) \/ \E r \in Requests : Repeat(c, r)
      PROVE  UNCHANGED vars
    BY <1>4 DEF Reconnect, Repeat
<1>5. ASSUME NEW c \in Honest,
             \/ \E token \in Tokens : \/ ClientStreamOne(c, token)
                                      \/ ClientSegments(c, token)
                                      \/ ClientPacketUp(c, token)
             \/ ClientPosts(c) \/ ClientPostsAgain(c)
      PROVE  UNCHANGED vars
    BY <1>5 DEF ClientStreamOne, ClientSegments, ClientPacketUp, Start, ClientPosts,
                ClientPostsAgain
<1>6. ASSUME Revoke \/ NextHour PROVE [Next]_vars
    BY <1>6 DEF Revoke, NextHour, Next
<1> QED BY <1>1, <1>2, <1>3, <1>4, <1>5, <1>6 DEF ServerNext, Serve

\* Two requests sent one after the other.
LEMMA TwoInARow ==
    ASSUME NEW x \in Requests, NEW y \in Requests
    PROVE  <<x>> \o <<y>> = <<x, y>>
<1>1. /\ <<x>> \in Seq(Requests) /\ <<y>> \in Seq(Requests) /\ <<x, y>> \in Seq(Requests)
      /\ Len(<<x>>) = 1 /\ Len(<<y>>) = 1 /\ Len(<<x, y>>) = 2
      /\ <<x>>[1] = x /\ <<y>>[1] = y /\ <<x, y>>[1] = x /\ <<x, y>>[2] = y
    OBVIOUS
<1> DEFINE z == <<x>> \o <<y>>
<1>2. z \in Seq(Requests) /\ Len(z) = 2 /\ z[1] = x /\ z[2] = y
    BY <1>1, ConcatProperties
<1>3. \A i \in 1..2 : z[i] = <<x, y>>[i]
    <2>1. 1..2 = {1, 2}
        OBVIOUS
    <2> QED BY <1>1, <1>2, <2>1
<1> HIDE DEF z
<1>4. z = <<x, y>>
    BY <1>1, <1>2, <1>3, SeqEqual
<1> QED BY <1>4 DEF z

-----------------------------------------------------------------------------
(* What a served request does to the tables *)

\* Only the client the connection belongs to hears of it, and only while it waits.
ClientMoves(c) ==
    \/ client' = client
    \/ /\ c \in Honest /\ client[c] \in Waiting
       /\ \E a \in Waiting \cup {"open", "refused"} : client' = [client EXCEPT ![c] = a]

\* The request's own half begins to wait, on a token the guard has just let in.
BeginsToWait(c, p) ==
    LET r == Head(inbox[c]) IN
    /\ p = r.pid /\ r.kind \in {"down", "up"}
    /\ pending'[c][p] = [dir |-> r.kind, token |-> r.token, mine |-> r.mine]
    /\ used[r.token] = 0 /\ used'[r.token] = 1 /\ sessions' = sessions

\* A token has its first session, and waits no longer.
GetsSession(t) ==
    /\ sessions[t] = 0 /\ sessions'[t] = 1 /\ used'[t] # 0
    /\ \A d \in Tasks, p \in Pids : pending'[d][p].token # t

\* The request at the head of c's queue is served.
Served(c) ==
    LET r == Head(inbox[c]) IN
    /\ inbox[c] # <<>> /\ Done(c) /\ Beside /\ epoch' = epoch
    /\ job'[c] = NoJob /\ \A d \in Tasks : d # c => job'[d] = job[d]
    /\ ClientMoves(c)
    /\ pending' \in [Tasks -> [Pids -> Halves]]
    /\ uploads' \in [Tasks -> [Pids -> Tokens \cup {NoToken}]]
    /\ \A d \in Tasks : d # c => pending'[d] = pending[d] /\ uploads'[d] = uploads[d]
    /\ \A p \in Pids : \/ pending'[c][p] = pending[c][p] \/ pending'[c][p] = NoHalf
                       \/ BeginsToWait(c, p)
    /\ \A p \in Pids : p # r.pid => uploads'[c][p] = uploads[c][p]
    /\ \A t \in Tokens : \/ used'[t] = used[t]
                         \/ /\ t = r.token /\ r.kind # "packet"
                            /\ used[t] = 0 /\ used'[t] = 1
    /\ sessions' \in [Tokens -> Nat]
    /\ \A t \in Tokens : sessions'[t] = sessions[t] \/ GetsSession(t)

\* What was sent, and where its nonces are.
LEMMA SentKnown ==
    ASSUME ServerTypeOK
    PROVE  /\ sent \subseteq Tokens /\ SentNonces \subseteq Pids
           /\ \A t \in sent : t.nonce \in SentNonces
           /\ NoHalf.token = NoToken /\ NoHalf.token \notin Tokens /\ ~NoHalf.mine
           /\ \A c \in Tasks, p \in Pids : pending[c][p] \in Halves
           /\ \A h \in Halves : h = NoHalf \/ h.token \in Tokens
           /\ Honest \subseteq Tasks
<1>1. sent \subseteq Tokens
    BY DEF ServerTypeOK
<1>2. SentNonces \subseteq Pids
    BY <1>1, Parts DEF SentNonces, Pids
<1>3. \A t \in sent : t.nonce \in SentNonces
    BY DEF SentNonces
<1>4. NoHalf.token = NoToken /\ NoHalf.token \notin Tokens /\ ~NoHalf.mine
    BY Parts DEF NoHalf
<1>5. \A h \in Halves : h = NoHalf \/ h.token \in Tokens
    BY DEF Halves
<1>6. \A c \in Tasks, p \in Pids : pending[c][p] \in Halves
    BY DEF ServerTypeOK
<1> QED BY <1>1, <1>2, <1>3, <1>4, <1>5, <1>6, ServerAssumption

\* The queue moves up, the others stand.
LEMMA DoneStep ==
    ASSUME ServerTypeOK, NEW c \in Tasks, inbox[c] # <<>>, Done(c)
    PROVE  /\ inbox' \in [Tasks -> Seq(Requests)] /\ inbox'[c] = Tail(inbox[c])
           /\ \A d \in Tasks : d # c => inbox'[d] = inbox[d]
           /\ \A d \in Tasks : \A i \in 1..Len(inbox'[d]) :
                 \E j \in 1..Len(inbox[d]) : inbox'[d][i] = inbox[d][j]
<1>1. /\ inbox \in [Tasks -> Seq(Requests)] /\ Tail(inbox[c]) \in Seq(Requests)
      /\ Len(Tail(inbox[c])) = Len(inbox[c]) - 1 /\ Len(inbox[c]) \in Nat \ {0}
      /\ \A i \in 1..Len(Tail(inbox[c])) : Tail(inbox[c])[i] = inbox[c][i + 1]
    BY Behind DEF ServerTypeOK
<1>2. /\ inbox' \in [Tasks -> Seq(Requests)] /\ inbox'[c] = Tail(inbox[c])
      /\ \A d \in Tasks : d # c => inbox'[d] = inbox[d]
    BY <1>1 DEF Done
<1>3. ASSUME NEW d \in Tasks, NEW i \in 1..Len(inbox'[d])
      PROVE  \E j \in 1..Len(inbox[d]) : inbox'[d][i] = inbox[d][j]
    <2>1. CASE d = c
        <3>1. i + 1 \in 1..Len(inbox[c]) /\ inbox'[c][i] = inbox[c][i + 1]
            BY <1>1, <1>2, <1>3, <2>1
        <3> QED BY <3>1, <2>1
    <2>2. CASE d # c
        BY <1>2, <1>3, <2>2
    <2> QED BY <2>1, <2>2
<1> QED BY <1>2, <1>3

\* The head of a queue is a request that is known.
LEMMA HeadKnown ==
    ASSUME Tables, NEW c \in Tasks, inbox[c] # <<>>
    PROVE  LET r == Head(inbox[c]) IN
           /\ r \in Requests /\ r.token \in Tokens /\ r.pid \in Pids /\ r.kind \in Kinds
           /\ r.mine \in BOOLEAN /\ Known(c, r)
           /\ \E i \in 1..Len(inbox[c]) : r = inbox[c][i]
BY OfConnection, Parts DEF Tables, RequestsKnown

\* Serving a request keeps what is known of requests, tokens and tables.
LEMMA ServedKeeps == ASSUME Inv, GuardInv', NEW c \in Tasks, Served(c) PROVE Tables'
<1> DEFINE r == Head(inbox[c])
<1>1. Tables /\ ServerTypeOK /\ RequestsKnown /\ OwnTokens /\ TablesKnown /\ AtWork
    BY DEF Inv, ServerInv, Tables
<1>2. /\ inbox[c] # <<>> /\ Done(c) /\ epoch' = epoch
      /\ UNCHANGED <<active, own, sent, strange, crossed>>
    BY DEF Served, Beside
<1>3. /\ r \in Requests /\ r.token \in Tokens /\ r.pid \in Pids /\ r.kind \in Kinds
      /\ r.mine \in BOOLEAN /\ Known(c, r)
    BY <1>1, <1>2, HeadKnown
<1>4. /\ inbox' \in [Tasks -> Seq(Requests)] /\ inbox'[c] = Tail(inbox[c])
      /\ \A d \in Tasks : d # c => inbox'[d] = inbox[d]
      /\ \A d \in Tasks : \A i \in 1..Len(inbox'[d]) :
            \E j \in 1..Len(inbox[d]) : inbox'[d][i] = inbox[d][j]
    BY <1>1, <1>2, DoneStep
<1>5. SentNonces' = SentNonces
    BY <1>2 DEF SentNonces
<1>6. \A t \in Tokens : /\ used[t] \in Nat /\ used'[t] \in Nat
                        /\ used[t] # 0 => used'[t] # 0
                        /\ used[t] <= used'[t]
    BY DEF Served, Inv, GuardInv, TypeOK
<1>7. ServerTypeOK'
    <2>1. client' \in [Honest -> {"new", "open", "refused"} \cup Waiting]
        BY <1>1 DEF Served, ClientMoves, ServerTypeOK
    <2>2. /\ pending' \in [Tasks -> [Pids -> Halves]]
          /\ uploads' \in [Tasks -> [Pids -> Tokens \cup {NoToken}]]
          /\ sessions' \in [Tokens -> Nat]
        BY DEF Served
    <2>3. /\ active' \in BOOLEAN /\ own' \in [Honest -> Tokens \cup {NoToken}]
          /\ sent' \subseteq Tokens /\ strange' \in Nat /\ crossed' \subseteq Honest
        BY <1>1, <1>2 DEF ServerTypeOK
    <2>4. TypeOK'
        BY DEF GuardInv
    <2> QED BY <1>4, <2>1, <2>2, <2>3, <2>4 DEF ServerTypeOK
<1>8. RequestsKnown'
    <2> SUFFICES ASSUME NEW d \in Tasks, NEW i \in 1..Len(inbox'[d])
                 PROVE  Known(d, inbox[d][i])'
        BY DEF RequestsKnown
    <2>1. PICK j \in 1..Len(inbox[d]) : inbox'[d][i] = inbox[d][j]
        BY <1>4
    <2>2. Known(d, inbox[d][j])
        BY <1>1 DEF RequestsKnown
    <2> QED BY <1>2, <1>5, <2>1, <2>2 DEF Known
<1>9. OwnTokens'
    <2>1. \A h \in Honest : client[h] = "new" <=> client'[h] = "new"
        BY <1>1 DEF Served, ClientMoves, ServerTypeOK, Waiting
    <2>2. \A t \in Tokens : used'[t] # 0 => t \in sent
        BY <1>1, <1>3 DEF Served, OwnTokens, Known
    <2> QED BY <1>1, <1>2, <2>1, <2>2 DEF OwnTokens
<1>10. ASSUME NEW d \in Tasks, NEW p \in Pids, pending'[d][p] # NoHalf
       PROVE  \/ pending'[d][p] = pending[d][p] /\ sessions'[pending[d][p].token] = 0
              \/ d = c /\ BeginsToWait(c, p)
    <2>1. pending'[d][p] = pending[d][p] \/ (d = c /\ BeginsToWait(c, p))
        <3>1. CASE d # c
            BY <3>1 DEF Served
        <3>2. CASE d = c
            <4>1. \/ pending'[c][p] = pending[c][p] \/ pending'[c][p] = NoHalf
                  \/ BeginsToWait(c, p)
                BY DEF Served
            <4> QED BY <1>10, <3>2, <4>1
        <3> QED BY <3>1, <3>2
    <2> SUFFICES ASSUME pending'[d][p] = pending[d][p]
                 PROVE  sessions'[pending[d][p].token] = 0
        BY <2>1
    <2>2. pending[d][p].token \in Tokens /\ sessions[pending[d][p].token] = 0
        BY <1>1, <1>10 DEF TablesKnown, HalfKnown
    <2>3. ~GetsSession(pending[d][p].token)
        BY <1>10 DEF GetsSession
    <2> QED BY <2>2, <2>3 DEF Served
<1>11. ASSUME NEW p \in Pids, BeginsToWait(c, p)
       PROVE  /\ p = r.pid /\ pending'[c][p].token = r.token /\ pending'[c][p].mine = r.mine
              /\ used[r.token] = 0 /\ used'[r.token] = 1 /\ sessions'[r.token] = 0
    <2>1. /\ p = r.pid /\ pending'[c][p].token = r.token /\ pending'[c][p].mine = r.mine
          /\ used[r.token] = 0 /\ used'[r.token] = 1 /\ sessions' = sessions
        BY <1>11 DEF BeginsToWait
    <2>2. sessions[r.token] \in Nat /\ sessions[r.token] <= used[r.token]
        BY <1>1, <1>3 DEF TablesKnown, ServerTypeOK
    <2> QED BY <2>1, <2>2
<1>12. ASSUME NEW d \in Tasks, NEW p \in Pids, pending'[d][p] # NoHalf
       PROVE  HalfKnown(d, p, pending[d][p])'
    <2>1. CASE pending'[d][p] = pending[d][p] /\ sessions'[pending[d][p].token] = 0
        <3>1. HalfKnown(d, p, pending[d][p])
            BY <1>1, <1>12, <2>1 DEF TablesKnown
        <3> QED BY <1>2, <1>5, <1>6, <2>1, <3>1 DEF HalfKnown
    <2>2. CASE d = c /\ BeginsToWait(c, p)
        BY <1>2, <1>3, <1>5, <1>11, <2>2 DEF HalfKnown, Known
    <2> QED BY <1>10, <1>12, <2>1, <2>2
<1>13. ASSUME NEW d \in Tasks, NEW p \in Pids, uploads'[d][p] # NoToken PROVE p \in SentNonces
    BY <1>1, <1>3, <1>13 DEF Served, TablesKnown, Known
<1>14. ASSUME NEW d \in Tasks, NEW e \in Tasks, NEW p \in Pids, NEW q \in Pids,
              pending'[d][p] # NoHalf, pending'[e][q].token = pending'[d][p].token
       PROVE  d = e /\ p = q
    <2>1. pending'[e][q] # NoHalf
        <3>1. pending'[d][p].token \in Tokens
            BY <1>12, <1>14 DEF HalfKnown
        <3> QED BY <1>1, <1>14, <3>1, SentKnown
    <2>2. ASSUME NEW x \in Tasks, NEW y \in Pids, pending'[x][y] # NoHalf,
                 pending'[x][y] = pending[x][y]
          PROVE  used[pending'[x][y].token] # 0
        BY <1>1, <2>2 DEF TablesKnown, HalfKnown
    <2>3. CASE pending'[d][p] = pending[d][p] /\ pending'[e][q] = pending[e][q]
        BY <1>1, <1>14, <2>1, <2>3 DEF TablesKnown
    <2>4. CASE d = c /\ BeginsToWait(c, p) /\ e = c /\ BeginsToWait(c, q)
        BY <1>11, <2>4
    <2>5. CASE pending'[d][p] = pending[d][p] /\ e = c /\ BeginsToWait(c, q)
        BY <1>11, <1>14, <2>2, <2>5
    <2>6. CASE pending'[e][q] = pending[e][q] /\ d = c /\ BeginsToWait(c, p)
        BY <1>11, <1>14, <2>1, <2>2, <2>6
    <2> QED BY <1>10, <1>14, <2>1, <2>3, <2>4, <2>5, <2>6
<1>15. ASSUME NEW t \in Tokens PROVE sessions'[t] <= used'[t]
    <2>1. sessions[t] \in Nat /\ sessions[t] <= used[t]
        BY <1>1 DEF TablesKnown, ServerTypeOK
    <2>2. CASE sessions'[t] = sessions[t]
        BY <1>6, <2>1, <2>2
    <2>3. CASE GetsSession(t)
        BY <1>6, <2>3 DEF GetsSession
    <2> QED BY <2>2, <2>3 DEF Served
<1>16. TablesKnown'
    BY <1>5, <1>12, <1>13, <1>14, <1>15 DEF TablesKnown
<1>17. AtWork'
    BY <1>1, <1>4 DEF Served, AtWork
<1> QED BY <1>7, <1>8, <1>9, <1>16, <1>17 DEF Tables

-----------------------------------------------------------------------------
(* What a served request means for the clients *)

\* A client on its way to its session.
OnItsWay(c) == client[c] \in Waiting /\ ~Settled(c) /\ Alone(c) /\ Progress(c)

\* The parts of the invariant.
LEMMA Parted ==
    ASSUME Inv
    PROVE  /\ Tables /\ ServerTypeOK /\ RequestsKnown /\ OwnTokens /\ TablesKnown /\ AtWork
           /\ Stages /\ Honest \subseteq Tasks
BY ServerAssumption DEF Inv, ServerInv, Tables

\* Nobody new comes between a client and its session.
LEMMA AloneStays ==
    ASSUME Inv, GuardInv', NEW c \in Tasks, Served(c), NEW h \in Honest, Alone(h)
    PROVE  Alone(h)'
<1>1. /\ own' = own
      /\ \A d \in Tasks : \A i \in 1..Len(inbox'[d]) :
            \E j \in 1..Len(inbox[d]) : inbox'[d][i] = inbox[d][j]
    BY Parted, DoneStep DEF Served, Beside
<1>2. \A t \in Tokens : used[t] # 0 => used'[t] # 0
    BY DEF Served
<1>3. \A d \in Tasks : \A i \in 1..Len(inbox[d]) : inbox[d][i].token \in Tokens
    BY Parted, OfConnection, Parts
<1>4. ASSUME NEW d \in Tasks, NEW i \in 1..Len(inbox'[d]) PROVE Harmless(h, d, inbox[d][i])'
    <2>1. PICK j \in 1..Len(inbox[d]) : inbox'[d][i] = inbox[d][j]
        BY <1>1, <1>4
    <2>2. Harmless(h, d, inbox[d][j]) /\ inbox[d][j].token \in Tokens
        BY <1>3 DEF Alone
    <2> QED BY <1>1, <1>2, <2>1, <2>2 DEF Harmless
<1> QED BY <1>4 DEF Alone

\* What a client stands for as long as its queue, half and token are as they were.
LEMMA ProgressStays ==
    ASSUME NEW h \in Honest, Progress(h), client'[h] = client[h], own'[h] = own[h],
           uploads'[h][own[h].nonce] = uploads[h][own[h].nonce],
           pending'[h][own[h].nonce] = pending[h][own[h].nonce],
           used'[own[h]] = used[own[h]],
           NoneMine(inbox[h]) => NoneMine(inbox'[h]),
           \A a : OneMine(inbox[h], a) => OneMine(inbox'[h], a),
           \A a, b : TwoMine(inbox[h], a, b) => TwoMine(inbox'[h], a, b)
    PROVE  Progress(h)'
<1>1. /\ Unused(h)' = Unused(h) /\ NothingWaits(h)' = NothingWaits(h)
      /\ HalfWaits(h)' = HalfWaits(h)
    BY DEF Unused, NothingWaits, HalfWaits
<1>2. NoneMine(inbox[h]) => NoneMine(inbox[h])'
    BY DEF NoneMine
<1>3. ASSUME NEW a, OneMine(inbox[h], a) PROVE OneMine(inbox[h], a)'
    <2>1. OneMine(inbox'[h], a)
        BY <1>3
    <2> QED BY <2>1 DEF OneMine
<1>4. ASSUME TwoMine(inbox[h], "down", "up") PROVE TwoMine(inbox[h], "down", "up")'
    <2>1. TwoMine(inbox'[h], "down", "up")
        BY <1>4
    <2> QED BY <2>1 DEF TwoMine
<1>5. /\ OneMine(inbox[h], "one") => OneMine(inbox[h], "one")'
      /\ OneMine(inbox[h], "up") => OneMine(inbox[h], "up")'
      /\ OneMine(inbox[h], "down") => OneMine(inbox[h], "down")'
      /\ OneMine(inbox[h], "packet") => OneMine(inbox[h], "packet")'
    BY <1>3
<1> QED BY <1>1, <1>2, <1>4, <1>5 DEF Progress

\* A client that waits has a token that was sent.
LEMMA WaitsWithToken ==
    ASSUME Inv, NEW h \in Honest, client[h] # "new"
    PROVE  /\ own[h] \in Tokens /\ own[h] \in sent /\ own[h].nonce \in Pids
           /\ own[h].nonce \in SentNonces /\ h \in Tasks
BY Parted, SentKnown DEF OwnTokens

\* Nothing changes for the clients of other connections: a first use of their token would
\* cross them.
LEMMA OtherStage ==
    ASSUME Inv, GuardInv', NEW c \in Tasks, Served(c), NEW h \in Honest, h # c
    PROVE  Stage(h)'
<1>1. /\ inbox[c] # <<>> /\ Done(c) /\ own' = own /\ active' = active /\ crossed' = crossed
      /\ epoch' = epoch /\ client'[h] = client[h] /\ h \in Tasks
      /\ pending'[h] = pending[h] /\ uploads'[h] = uploads[h]
    BY Parted DEF Served, Beside, ClientMoves, ServerTypeOK
<1>2. Settled(h)' = Settled(h)
    BY <1>1 DEF Settled
<1>3. Stage(h)
    BY Parted DEF Stages
<1>4. CASE Settled(h) \/ client[h] \in {"new", "open"}
    BY <1>1, <1>2, <1>4 DEF Stage
<1>5. CASE client[h] \in Waiting /\ Alone(h) /\ Progress(h)
    <2> DEFINE r == Head(inbox[c])
    <2>1. client[h] # "new"
        BY <1>5 DEF Waiting
    <2>2. own[h] \in Tokens
        BY <2>1, WaitsWithToken
    <2>3. ASSUME r.token = own[h], r.kind # "packet" PROVE used[own[h]] # 0
        <3>1. Known(c, r) /\ \E i \in 1..Len(inbox[c]) : r = inbox[c][i]
            BY <1>1, Parted, HeadKnown
        <3>2. ~r.mine
            BY <2>2, <2>3, <3>1, Parted DEF Known, OwnTokens
        <3>3. Harmless(h, c, r)
            BY <1>5, <3>1 DEF Alone
        <3> QED BY <2>3, <3>2, <3>3 DEF Harmless
    <2>4. used'[own[h]] = used[own[h]]
        BY <2>2, <2>3 DEF Served
    <2>5. Alone(h)'
        BY <1>5, AloneStays
    <2>6. inbox'[h] = inbox[h]
        BY <1>1, Parted, DoneStep
    <2>7. Progress(h)'
        BY <1>1, <1>5, <2>4, <2>6, ProgressStays
    <2> QED BY <1>1, <1>5, <2>5, <2>7 DEF Stage
<1> QED BY <1>3, <1>4, <1>5 DEF Stage

\* A served request keeps the invariant if a client on its way stays on it, or is done.
LEMMA ServedStage ==
    ASSUME Inv, GuardInv', NEW c \in Tasks, Served(c),
           c \in Honest /\ OnItsWay(c) => Stage(c)'
    PROVE  ServerInv'
<1>1. Tables'
    BY ServedKeeps
<1>2. ASSUME c \in Honest PROVE Stage(c)'
    <2>1. Stage(c)
        BY <1>2, Parted DEF Stages
    <2>2. Settled(c)' = Settled(c)
        BY DEF Settled, Served, Beside
    <2>3. client[c] \in {"new", "open"} => client'[c] = client[c]
        BY DEF Served, ClientMoves, Waiting
    <2>4. CASE Settled(c)
        BY <2>2, <2>4 DEF Stage
    <2>5. CASE client[c] \in {"new", "open"}
        BY <2>3, <2>5 DEF Stage
    <2>6. CASE ~Settled(c) /\ client[c] \notin {"new", "open"}
        BY <1>2, <2>1, <2>6 DEF Stage, OnItsWay
    <2> QED BY <2>4, <2>5, <2>6
<1>3. Stages'
    BY <1>2, OtherStage DEF Stages
<1> QED BY <1>1, <1>3 DEF ServerInv

\* A request of somebody else that leaves the client's half and token alone.
LEMMA OthersServed ==
    ASSUME Inv, GuardInv', NEW c \in Honest, c \in Tasks, Served(c), OnItsWay(c),
           ~Head(inbox[c]).mine, client'[c] = client[c],
           uploads'[c][own[c].nonce] = uploads[c][own[c].nonce],
           pending'[c][own[c].nonce] = pending[c][own[c].nonce],
           used'[own[c]] = used[own[c]]
    PROVE  Stage(c)'
<1>1. inbox[c] # <<>> /\ inbox'[c] = Tail(inbox[c]) /\ inbox[c] \in Seq(Requests) /\ own' = own
    BY Parted, DoneStep DEF Served, Beside, ServerTypeOK
<1>2. /\ NoneMine(inbox[c]) => NoneMine(inbox'[c])
      /\ \A a : OneMine(inbox[c], a) => OneMine(inbox'[c], a)
      /\ \A a, b : TwoMine(inbox[c], a, b) => TwoMine(inbox'[c], a, b)
    BY <1>1, HeadHandled
<1>3. Alone(c)' /\ Progress(c)'
    BY <1>1, <1>2, AloneStays, ProgressStays DEF OnItsWay
<1> QED BY <1>3 DEF Stage, OnItsWay

\* Where a client on its way finds its half, and what may still come to its connection.
LEMMA WayFacts ==
    ASSUME Inv, NEW c \in Honest, OnItsWay(c)
    PROVE  LET p == own[c].nonce IN
           /\ own[c] \in Tokens /\ p \in Pids /\ c \in Tasks
           /\ NothingWaits(c) \/ HalfWaits(c)
           /\ uploads[c][p] = NoToken
           /\ active /\ own[c].epoch \in Accepted(epoch)
           /\ inbox[c] # <<>> => Harmless(c, c, Head(inbox[c]))
<1>1. client[c] # "new"
    BY DEF OnItsWay, Waiting
<1>2. own[c] \in Tokens /\ own[c].nonce \in Pids /\ c \in Tasks
    BY <1>1, WaitsWithToken
<1>3. NothingWaits(c) \/ HalfWaits(c)
    BY DEF OnItsWay, Waiting, Progress
<1>4. uploads[c][own[c].nonce] = NoToken /\ active /\ own[c].epoch \in Accepted(epoch)
    BY DEF OnItsWay, Progress, Settled
<1>5. inbox[c] # <<>> => Harmless(c, c, Head(inbox[c]))
    BY <1>2, Parted, HeadKnown DEF OnItsWay, Alone
<1> QED BY <1>2, <1>3, <1>4, <1>5

\* What the answers can be.
LEMMA Answers ==
    ASSUME ServerTypeOK, NEW c \in Tasks
    PROVE  /\ \A m, k : Lost(c, m, k) => ClientMoves(c)
           /\ \A A \in SUBSET (Waiting \cup {"open", "refused"}) : Hears(c, A) => ClientMoves(c)
           /\ Granted(c) => ClientMoves(c)
           /\ UNCHANGED client => ClientMoves(c)
<1>1. ASSUME NEW A \in SUBSET (Waiting \cup {"open", "refused"}), Hears(c, A)
      PROVE  ClientMoves(c)
    BY <1>1 DEF Hears, ClientMoves
<1>2. ASSUME NEW m, NEW k, Lost(c, m, k) PROVE ClientMoves(c)
    <2>1. CASE client' = client
        BY <2>1 DEF ClientMoves
    <2>2. CASE client' # client
        <3>1. Hears(c, {"refused"} \cup IF k = "up" THEN {client[c]} ELSE {})
            BY <1>2, <2>2 DEF Lost
        <3> QED BY <2>2, <3>1 DEF Hears, ClientMoves
    <2> QED BY <2>1, <2>2
<1>3. Granted(c) => ClientMoves(c)
    <2>1. {"granted"} \in SUBSET (Waiting \cup {"open", "refused"})
        BY DEF Waiting
    <2> QED BY <1>1, <2>1 DEF Granted, ClientMoves
<1> QED BY <1>1, <1>2, <1>3 DEF ClientMoves

\* The session of a token that has none yet and waits nowhere any more.
LEMMA Opened ==
    ASSUME Inv, NEW c \in Tasks, NEW t \in Tokens, NEW m \in SUBSET BOOLEAN,
           OpenSession(c, {t}, m), sessions[t] = 0, used'[t] # 0,
           \A d \in Tasks, p \in Pids : pending'[d][p].token # t
    PROVE  /\ ClientMoves(c) /\ sessions' \in [Tokens -> Nat]
           /\ \A u \in Tokens : sessions'[u] = sessions[u] \/ GetsSession(u)
           /\ m = {FALSE} => client' = client
           /\ m = {TRUE} => Hears(c, {"open"})
<1>1. sessions' = [u \in Tokens |-> sessions[u] + (IF u \in {t} THEN 1 ELSE 0)]
    BY DEF OpenSession
<1>2. sessions \in [Tokens -> Nat]
    BY Parted DEF ServerTypeOK
<1>3. sessions' \in [Tokens -> Nat] /\ sessions'[t] = 1
      /\ \A u \in Tokens : u # t => sessions'[u] = sessions[u]
    BY <1>1, <1>2
<1>4. GetsSession(t)
    BY <1>3 DEF GetsSession
<1>5. m = {FALSE} => client' = client
    BY DEF OpenSession
<1>6. m = {TRUE} => Hears(c, {"open"})
    BY DEF OpenSession
<1>7. ClientMoves(c)
    <2>1. CASE m = {FALSE}
        BY <1>5, <2>1 DEF ClientMoves
    <2>2. CASE m = {TRUE}
        BY <1>6, <2>2 DEF Hears, ClientMoves
    <2>3. CASE m # {FALSE} /\ m # {TRUE}
        <3>1. Hears(c, IF client[c] = "packet" THEN {"granted"} ELSE {client[c], "open", "refused"})
            BY <2>3 DEF OpenSession
        <3>2. "granted" \in Waiting
            BY DEF Waiting
        <3> QED BY <3>1, <3>2 DEF Hears, ClientMoves
    <2> QED BY <2>1, <2>2, <2>3
<1> QED BY <1>3, <1>4, <1>5, <1>6, <1>7

-----------------------------------------------------------------------------
(* serve, request by request *)

\* What a step that handles a request has in common with all others.
LEMMA AtHead ==
    ASSUME Inv, NEW c \in Tasks, inbox[c] # <<>>
    PROVE  LET r == Head(inbox[c]) IN
           /\ r \in Requests /\ r.token \in Tokens /\ r.pid \in Pids /\ r.kind \in Kinds
           /\ r.mine \in BOOLEAN /\ Known(c, r) /\ inbox[c] \in Seq(Requests)
           /\ r.mine => c \in Honest /\ r.token = own[c] /\ r.pid = own[c].nonce
           /\ pending[c][r.pid] \in Halves /\ pending \in [Tasks -> [Pids -> Halves]]
           /\ uploads \in [Tasks -> [Pids -> Tokens \cup {NoToken}]]
           /\ sessions \in [Tokens -> Nat]
BY Parted, HeadKnown DEF Known, ServerTypeOK

\* The client's session begins.
LEMMA Opens ==
    ASSUME Inv, NEW c \in Honest, client[c] \in Waiting, Hears(c, {"open"})
    PROVE  Stage(c)'
<1>1. /\ client' = [client EXCEPT ![c] = "open"]
      /\ client \in [Honest -> {"new", "open", "refused"} \cup Waiting]
    BY Parted DEF Hears, ServerTypeOK
<1>2. client'[c] = "open"
    BY <1>1
<1> QED BY <1>2 DEF Stage

\* A token that does not verify is over, or its key revoked.
LEMMA RefuseStep == ASSUME Inv, GuardInv', NEW c \in Tasks, Refuse(c) PROVE ServerInv'
<1> DEFINE r == Head(inbox[c])
<1>1. /\ inbox[c] # <<>> /\ job[c] = NoJob /\ ~Verifies(r.token) /\ Done(c)
      /\ Lost(c, r.mine, r.kind) /\ UNCHANGED <<vars, pending, uploads, sessions>> /\ Beside
    BY DEF Refuse, At, Fallback, tables
<1>2. Served(c)
    <2>1. ClientMoves(c)
        BY <1>1, Parted, Answers
    <2> QED BY <1>1, <2>1, AtHead DEF Served, vars
<1>3. ASSUME c \in Honest, OnItsWay(c) PROVE Stage(c)'
    <2>1. ~r.mine
        BY <1>1, <1>3, AtHead, WayFacts DEF Verifies
    <2>2. client' = client
        BY <1>1, <2>1 DEF Lost
    <2> QED BY <1>1, <1>2, <1>3, <2>1, <2>2, OthersServed DEF vars
<1> QED BY <1>2, <1>3, ServedStage

\* A task at a first request verifies its token.
LEMMA CheckStep == ASSUME Inv, GuardInv', NEW c \in Tasks, Check(c) PROVE ServerInv'
<1> DEFINE r == Head(inbox[c])
<1>1. /\ inbox[c] # <<>> /\ r.kind \in {"one", "down", "up"}
      /\ r.kind # "one" => pending[c][r.pid] = NoHalf
    BY DEF Check, IsFirst, At
<1>2. /\ job' = [job EXCEPT ![c] = [token |-> r.token, at |-> epoch]]
      /\ UNCHANGED <<epoch, window, used>>
      /\ UNCHANGED <<active, inbox, pending, uploads>>
      /\ UNCHANGED <<client, own, sent, strange, crossed, sessions>>
    BY DEF Check, Verify, serverVars, tables, clientVars
<1>3. job \in [Tasks -> Jobs \cup {NoJob}]
    BY DEF Inv, GuardInv, TypeOK
<1>4. job'[c].token = r.token /\ \A d \in Tasks : d # c => job'[d] = job[d]
    BY <1>2, <1>3
<1>5. AtWork'
    <2> SUFFICES ASSUME NEW d \in Tasks, job'[d] # NoJob
                 PROVE  /\ inbox[d] # <<>> /\ Head(inbox[d]).token = job'[d].token
                        /\ Head(inbox[d]).kind \in {"one", "down", "up"}
                        /\ Head(inbox[d]).kind # "one" => pending[d][Head(inbox[d]).pid] = NoHalf
        BY <1>2 DEF AtWork
    <2>1. CASE d = c
        BY <1>1, <1>4, <2>1
    <2>2. CASE d # c
        BY <1>4, <2>2, Parted DEF AtWork
    <2> QED BY <2>1, <2>2
<1>6. ServerTypeOK'
    BY <1>2, Parted DEF ServerTypeOK, GuardInv
<1>7. RequestsKnown' /\ OwnTokens' /\ TablesKnown'
    BY <1>2, Parted DEF RequestsKnown, Known, OwnTokens, TablesKnown, HalfKnown, SentNonces
<1>8. Stages'
    BY <1>2, Parted DEF Stages, Stage, Settled, Alone, Harmless, Progress, Unused, NothingWaits,
                        HalfWaits
<1> QED BY <1>5, <1>6, <1>7, <1>8 DEF ServerInv, Tables

\* Two halves meet: of one token, or else the second is for the site.
LEMMA PairStep == ASSUME Inv, GuardInv', NEW c \in Tasks, Pair(c) PROVE ServerInv'
<1> DEFINE r == Head(inbox[c])
           half == pending[c][r.pid]
<1>1. /\ inbox[c] # <<>> /\ r.kind \in {"down", "up"} /\ job[c] = NoJob /\ half # NoHalf
      /\ Done(c) /\ UNCHANGED <<vars, uploads>> /\ Beside
    BY DEF Pair, At
<1>2. /\ r.token \in Tokens /\ r.pid \in Pids /\ r.mine \in BOOLEAN
      /\ r.mine => c \in Honest /\ r.token = own[c] /\ r.pid = own[c].nonce
      /\ pending \in [Tasks -> [Pids -> Halves]] /\ sessions \in [Tokens -> Nat]
      /\ uploads \in [Tasks -> [Pids -> Tokens \cup {NoToken}]]
    BY <1>1, AtHead
<1>3. /\ HalfKnown(c, r.pid, half) /\ half \in Halves /\ half.mine \in BOOLEAN
      /\ half.token \in Tokens /\ used[half.token] # 0 /\ sessions[half.token] = 0
    BY <1>1, <1>2, Parted DEF TablesKnown, HalfKnown, Halves
<1>4. used' = used /\ job' = job /\ epoch' = epoch
    BY <1>1 DEF vars
<1>5. CASE half.token # r.token
    <2>1. Lost(c, r.mine, r.kind) /\ UNCHANGED <<pending, sessions>>
        BY <1>5 DEF Pair, Fallback
    <2>2. Served(c)
        <3>1. ClientMoves(c)
            BY <2>1, Parted, Answers
        <3> QED BY <1>1, <1>2, <1>4, <2>1, <3>1 DEF Served
    <2>3. ASSUME c \in Honest, OnItsWay(c) PROVE Stage(c)'
        <3>1. ~r.mine
            <4> SUFFICES ASSUME r.mine PROVE FALSE
                OBVIOUS
            <4>1. HalfWaits(c)
                BY <1>1, <1>2, <2>3, WayFacts DEF NothingWaits
            <4> QED BY <1>2, <1>5, <4>1 DEF HalfWaits
        <3>2. client' = client
            BY <2>1, <3>1 DEF Lost
        <3> QED BY <1>1, <1>4, <2>1, <2>2, <2>3, <3>1, <3>2, OthersServed
    <2> QED BY <2>2, <2>3, ServedStage
<1>6. CASE half.token = r.token
    <2>1. pending' = [pending EXCEPT ![c][r.pid] = NoHalf]
        BY <1>6 DEF Pair
    <2>2. /\ pending' \in [Tasks -> [Pids -> Halves]] /\ pending'[c][r.pid] = NoHalf
          /\ \A p \in Pids : p # r.pid => pending'[c][p] = pending[c][p]
          /\ \A d \in Tasks : d # c => pending'[d] = pending[d]
        BY <1>2, <2>1 DEF Halves
    <2>3. \A d \in Tasks, p \in Pids : pending'[d][p].token # half.token
        <3> SUFFICES ASSUME NEW d \in Tasks, NEW p \in Pids, pending'[d][p].token = half.token
                     PROVE  FALSE
            OBVIOUS
        <3>1. pending'[d][p] # NoHalf
            BY <1>3, Parted, SentKnown
        <3>2. pending'[d][p] = pending[d][p] /\ ~(d = c /\ p = r.pid)
            BY <2>2, <3>1
        <3> QED BY <1>1, <1>2, <3>2, Parted DEF TablesKnown
    <2>4. CASE half.dir # r.kind
        <3>1. OpenSession(c, {half.token}, {half.mine, r.mine})
            <4>1. {half.token, r.token} = {half.token}
                BY <1>6
            <4> QED BY <1>6, <2>4, <4>1 DEF Pair
        <3>2. {half.mine, r.mine} \in SUBSET BOOLEAN
            BY <1>2, <1>3
        <3>3. /\ ClientMoves(c) /\ sessions' \in [Tokens -> Nat]
              /\ \A u \in Tokens : sessions'[u] = sessions[u] \/ GetsSession(u)
              /\ {half.mine, r.mine} = {FALSE} => client' = client
              /\ {half.mine, r.mine} = {TRUE} => Hears(c, {"open"})
            BY <1>3, <1>4, <2>3, <3>1, <3>2, Opened
        <3>4. Served(c)
            BY <1>1, <1>2, <1>4, <2>2, <3>3 DEF Served
        <3>5. ASSUME c \in Honest, OnItsWay(c) PROVE Stage(c)'
            <4>1. CASE r.mine
                <5>1. HalfWaits(c)
                    BY <1>1, <1>2, <3>5, <4>1, WayFacts DEF NothingWaits
                <5>2. half.mine
                    BY <1>2, <4>1, <5>1 DEF HalfWaits
                <5>3. Hears(c, {"open"})
                    BY <1>2, <1>3, <3>3, <4>1, <5>2
                <5> QED BY <3>5, <5>3, Opens DEF OnItsWay
            <4>2. CASE ~r.mine
                <5>1. Harmless(c, c, r)
                    BY <1>1, <3>5, WayFacts
                <5>2. r.pid = own[c].nonce => r.token # own[c] /\ HalfWaits(c)
                    BY <1>1, <3>5, <4>2, <5>1, WayFacts DEF Harmless, NothingWaits
                <5>3. r.pid # own[c].nonce
                    BY <1>6, <5>2 DEF HalfWaits
                <5>4. ~half.mine
                    BY <1>3, <5>3 DEF HalfKnown
                <5>5. client' = client
                    BY <1>2, <1>3, <3>3, <4>2, <5>4
                <5>6. pending'[c][own[c].nonce] = pending[c][own[c].nonce]
                    BY <2>2, <3>5, <5>3, WayFacts
                <5> QED BY <1>1, <1>4, <3>4, <3>5, <4>2, <5>5, <5>6, OthersServed
            <4> QED BY <4>1, <4>2
        <3> QED BY <3>4, <3>5, ServedStage
    <2>5. CASE half.dir = r.kind
        <3>1. Lost(c, half.mine \/ r.mine, r.kind) /\ UNCHANGED sessions
            BY <1>6, <2>5 DEF Pair
        <3>2. Served(c)
            <4>1. ClientMoves(c)
                BY <3>1, Parted, Answers
            <4> QED BY <1>1, <1>2, <1>4, <2>2, <3>1, <4>1 DEF Served
        <3>3. ASSUME c \in Honest, OnItsWay(c) PROVE Stage(c)'
            <4>1. ~r.mine
                <5> SUFFICES ASSUME r.mine PROVE FALSE
                    OBVIOUS
                <5>1. HalfWaits(c) /\ half.dir = "down"
                    BY <1>1, <1>2, <3>3, WayFacts DEF NothingWaits, HalfWaits
                <5>2. /\ \/ OneMine(inbox[c], "up") \/ NoneMine(inbox[c])
                         \/ OneMine(inbox[c], "packet")
                    BY <3>3, <5>1 DEF OnItsWay, Progress, Waiting, HalfWaits, NothingWaits, NoHalf
                <5> QED BY <1>1, <2>5, <5>1, <5>2, AtHead, HeadMine
            <4>2. Harmless(c, c, r)
                BY <1>1, <3>3, WayFacts
            <4>3. r.pid = own[c].nonce => r.token # own[c] /\ HalfWaits(c)
                BY <1>1, <3>3, <4>1, <4>2, WayFacts DEF Harmless, NothingWaits
            <4>4. r.pid # own[c].nonce
                BY <1>6, <4>3 DEF HalfWaits
            <4>5. ~half.mine
                BY <1>3, <4>4 DEF HalfKnown
            <4>6. client' = client
                BY <3>1, <4>1, <4>5 DEF Lost
            <4>7. pending'[c][own[c].nonce] = pending[c][own[c].nonce]
                BY <2>2, <3>3, <4>4, WayFacts
            <4> QED BY <1>1, <1>4, <3>2, <3>3, <4>1, <4>6, <4>7, OthersServed
        <3> QED BY <3>2, <3>3, ServedStage
    <2> QED BY <2>4, <2>5
<1> QED BY <1>5, <1>6

\* A packet for a session that is there changes no table; of a client on its way none is.
LEMMA PacketNextStep == ASSUME Inv, GuardInv', NEW c \in Tasks, PacketNext(c) PROVE ServerInv'
<1> DEFINE r == Head(inbox[c])
<1>1. /\ inbox[c] # <<>> /\ job[c] = NoJob /\ Done(c) /\ r.kind = "packet"
      /\ uploads[c][r.pid] # NoToken
      /\ UNCHANGED <<vars, pending, uploads, sessions>> /\ Beside
    BY DEF PacketNext, At, tables
<1>2. /\ r.mine => c \in Honest /\ r.token = own[c] /\ r.pid = own[c].nonce
      /\ pending \in [Tasks -> [Pids -> Halves]] /\ sessions \in [Tokens -> Nat]
      /\ uploads \in [Tasks -> [Pids -> Tokens \cup {NoToken}]]
    BY <1>1, AtHead
<1>3. \/ r.mine /\ Hears(c, {client[c], "open", "refused"})
      \/ Lost(c, r.mine, "packet")
    BY <1>1 DEF PacketNext, Fallback
<1>4. ClientMoves(c)
    <2>1. ASSUME Hears(c, {client[c], "open", "refused"}) PROVE ClientMoves(c)
        BY <2>1 DEF Hears, ClientMoves
    <2> QED BY <1>3, <2>1, Parted, Answers
<1>5. Served(c)
    BY <1>1, <1>2, <1>4 DEF Served, vars
<1>6. ASSUME c \in Honest, OnItsWay(c) PROVE Stage(c)'
    <2>1. ~r.mine
        BY <1>1, <1>2, <1>6, WayFacts
    <2>2. client' = client
        BY <1>3, <2>1 DEF Lost
    <2> QED BY <1>1, <1>5, <1>6, <2>1, <2>2, OthersServed DEF vars
<1> QED BY <1>5, <1>6, ServedStage

\* The first packet takes what waits under its pid: the client's own packet, its own half.
LEMMA PacketFirstStep == ASSUME Inv, GuardInv', NEW c \in Tasks, PacketFirst(c) PROVE ServerInv'
<1> DEFINE r == Head(inbox[c])
           half == pending[c][r.pid]
<1>1. /\ inbox[c] # <<>> /\ job[c] = NoJob /\ Done(c) /\ r.kind = "packet"
      /\ UNCHANGED vars /\ Beside
      /\ pending' = [pending EXCEPT ![c][r.pid] = NoHalf]
    BY DEF PacketFirst, At
<1>2. /\ r.token \in Tokens /\ r.pid \in Pids /\ r.mine \in BOOLEAN
      /\ r.mine => c \in Honest /\ r.token = own[c] /\ r.pid = own[c].nonce
      /\ pending \in [Tasks -> [Pids -> Halves]] /\ sessions \in [Tokens -> Nat]
      /\ uploads \in [Tasks -> [Pids -> Tokens \cup {NoToken}]]
    BY <1>1, AtHead
<1>3. /\ pending' \in [Tasks -> [Pids -> Halves]] /\ pending'[c][r.pid] = NoHalf
      /\ \A p \in Pids : p # r.pid => pending'[c][p] = pending[c][p]
      /\ \A d \in Tasks : d # c => pending'[d] = pending[d]
    BY <1>1, <1>2 DEF Halves
<1>4. used' = used /\ job' = job /\ epoch' = epoch
    BY <1>1 DEF vars
<1>5. /\ half \in Halves /\ half.mine \in BOOLEAN
      /\ half # NoHalf => HalfKnown(c, r.pid, half)
      /\ half.mine => c \in Honest /\ half.token = own[c] /\ r.pid = own[c].nonce
    <2>1. half \in Halves /\ half.mine \in BOOLEAN
        <3>1. half \in Halves
            BY <1>2
        <3>2. CASE half = NoHalf
            BY <3>1, <3>2 DEF NoHalf
        <3>3. CASE half # NoHalf
            BY <3>1, <3>3 DEF Halves
        <3> QED BY <3>1, <3>2, <3>3
    <2>2. half # NoHalf => HalfKnown(c, r.pid, half)
        BY <1>2, Parted DEF TablesKnown
    <2>3. half.mine => half # NoHalf
        BY DEF NoHalf
    <2> QED BY <2>1, <2>2, <2>3 DEF HalfKnown
<1>6. ASSUME c \in Honest, OnItsWay(c), r.mine
      PROVE  half.dir = "down" /\ half.token = r.token /\ half.mine
    <2>1. HalfWaits(c)
        <3>1. /\ ~NoneMine(inbox[c]) /\ ~OneMine(inbox[c], "one") /\ ~OneMine(inbox[c], "up")
              /\ ~OneMine(inbox[c], "down") /\ ~TwoMine(inbox[c], "down", "up")
            BY <1>1, <1>6, AtHead, HeadMine
        <3> QED BY <1>6, <3>1 DEF OnItsWay, Waiting, Progress
    <2> QED BY <1>2, <1>6, <2>1 DEF HalfWaits
<1>7. ASSUME c \in Honest, OnItsWay(c), ~r.mine
      PROVE  ~half.mine /\ r.pid # own[c].nonce
    BY <1>1, <1>5, <1>7, WayFacts DEF Harmless
<1>8. CASE half.dir = "down" /\ half.token = r.token
    <2>1. /\ OpenSession(c, {half.token}, {half.mine, r.mine})
          /\ uploads' = [uploads EXCEPT ![c][r.pid] = r.token]
        BY <1>8 DEF PacketFirst
    <2>2. half # NoHalf /\ half.token \in Tokens /\ used[half.token] # 0 /\ sessions[half.token] = 0
        BY <1>5, <1>8 DEF NoHalf, HalfKnown
    <2>3. \A d \in Tasks, p \in Pids : pending'[d][p].token # half.token
        <3> SUFFICES ASSUME NEW d \in Tasks, NEW p \in Pids, pending'[d][p].token = half.token
                     PROVE  FALSE
            OBVIOUS
        <3>1. pending'[d][p] # NoHalf
            BY <2>2, Parted, SentKnown
        <3>2. pending'[d][p] = pending[d][p] /\ ~(d = c /\ p = r.pid)
            BY <1>3, <3>1
        <3> QED BY <1>2, <2>2, <3>2, Parted DEF TablesKnown
    <2>4. /\ uploads' \in [Tasks -> [Pids -> Tokens \cup {NoToken}]]
          /\ \A d \in Tasks : d # c => uploads'[d] = uploads[d]
          /\ \A p \in Pids : p # r.pid => uploads'[c][p] = uploads[c][p]
        BY <1>2, <2>1
    <2>5. {half.mine, r.mine} \in SUBSET BOOLEAN
        BY <1>2, <1>5
    <2>6. /\ ClientMoves(c) /\ sessions' \in [Tokens -> Nat]
          /\ \A u \in Tokens : sessions'[u] = sessions[u] \/ GetsSession(u)
          /\ {half.mine, r.mine} = {FALSE} => client' = client
          /\ {half.mine, r.mine} = {TRUE} => Hears(c, {"open"})
        BY <1>4, <2>1, <2>2, <2>3, <2>5, Opened
    <2>7. Served(c)
        BY <1>1, <1>2, <1>3, <1>4, <2>4, <2>6 DEF Served
    <2>8. ASSUME c \in Honest, OnItsWay(c) PROVE Stage(c)'
        <3>1. CASE r.mine
            <4>1. Hears(c, {"open"})
                BY <1>2, <1>5, <1>6, <2>6, <2>8, <3>1
            <4> QED BY <2>8, <4>1, Opens DEF OnItsWay
        <3>2. CASE ~r.mine
            <4>1. client' = client
                BY <1>2, <1>5, <1>7, <2>6, <2>8, <3>2
            <4>2. /\ pending'[c][own[c].nonce] = pending[c][own[c].nonce]
                  /\ uploads'[c][own[c].nonce] = uploads[c][own[c].nonce]
                BY <1>3, <1>7, <2>4, <2>8, <3>2, WayFacts
            <4> QED BY <1>1, <1>4, <2>7, <2>8, <3>2, <4>1, <4>2, OthersServed
        <3> QED BY <3>1, <3>2
    <2> QED BY <2>7, <2>8, ServedStage
<1>9. CASE ~(half.dir = "down" /\ half.token = r.token)
    <2>1. Lost(c, half.mine, half.dir) /\ UNCHANGED <<uploads, sessions>>
        BY <1>9 DEF PacketFirst
    <2>2. Served(c)
        <3>1. ClientMoves(c)
            BY <2>1, Parted, Answers
        <3> QED BY <1>1, <1>2, <1>3, <1>4, <2>1, <3>1 DEF Served
    <2>3. ASSUME c \in Honest, OnItsWay(c) PROVE Stage(c)'
        <3>1. ~r.mine
            BY <1>6, <1>9, <2>3
        <3>2. client' = client
            BY <1>7, <2>1, <2>3, <3>1 DEF Lost
        <3>3. pending'[c][own[c].nonce] = pending[c][own[c].nonce]
            BY <1>3, <1>7, <2>3, <3>1, WayFacts
        <3> QED BY <1>1, <1>4, <2>1, <2>2, <2>3, <3>1, <3>2, <3>3, OthersServed
    <2> QED BY <2>2, <2>3, ServedStage
<1> QED BY <1>8, <1>9

\* The guard has decided about a first request: the client's own is fresh, and whoever else
\* is fresh has crossed the client.
LEMMA ObservedStep == ASSUME Inv, GuardInv', NEW c \in Tasks, Observed(c) PROVE ServerInv'
<1> DEFINE r == Head(inbox[c])
           fresh == r.token \notin window
<1>1. /\ Observe(c) /\ Done(c) /\ job[c] # NoJob /\ uploads' = uploads /\ Beside
    BY DEF Observed, Observe
<1>2. /\ inbox[c] # <<>> /\ r.token = job[c].token /\ r.kind \in {"one", "down", "up"}
      /\ r.kind # "one" => pending[c][r.pid] = NoHalf
    BY <1>1, Parted DEF AtWork
<1>3. /\ r.token \in Tokens /\ r.pid \in Pids /\ r.mine \in BOOLEAN
      /\ r.mine => c \in Honest /\ r.token = own[c] /\ r.pid = own[c].nonce
      /\ pending \in [Tasks -> [Pids -> Halves]] /\ sessions \in [Tokens -> Nat]
      /\ uploads \in [Tasks -> [Pids -> Tokens \cup {NoToken}]]
      /\ inbox[c] \in Seq(Requests)
    BY <1>2, AtHead
<1>4. /\ epoch' = epoch /\ job'[c] = NoJob /\ \A d \in Tasks : d # c => job'[d] = job[d]
      /\ used' = IF fresh THEN [used EXCEPT ![r.token] = @ + 1] ELSE used
      /\ used \in [Tokens -> Nat]
    BY <1>1, <1>2 DEF Observe, Inv, GuardInv, TypeOK
<1>5. fresh <=> used[r.token] = 0
    <2>1. ~fresh => used[r.token] = 1
        BY DEF Inv, GuardInv, WindowUsed
    <2>2. r.token.epoch >= epoch - 1 - MaxLag
        BY <1>1, <1>2 DEF Inv, GuardInv, JobsRecent
    <2> QED BY <1>3, <2>1, <2>2 DEF Inv, GuardInv, Remembered
<1>6. /\ fresh => used'[r.token] = 1 /\ \A t \in Tokens : t # r.token => used'[t] = used[t]
      /\ ~fresh => used' = used
    BY <1>3, <1>4, <1>5
<1>7. ASSUME c \in Honest, OnItsWay(c), ~r.mine, fresh
      PROVE  r.token # own[c] /\ (r.kind # "one" => r.pid # own[c].nonce)
    BY <1>2, <1>5, <1>7, WayFacts DEF Harmless
<1>8. ASSUME c \in Honest, OnItsWay(c), ~r.mine PROVE used'[own[c]] = used[own[c]]
    BY <1>6, <1>7, <1>8, WayFacts
<1>9. ASSUME c \in Honest, OnItsWay(c), r.mine
      PROVE  /\ fresh /\ client[c] \in {"one", "segments", "packet"}
             /\ client[c] = "one" <=> r.kind = "one"
             /\ client[c] = "segments" => r.kind = "down" /\ OneMine(Tail(inbox[c]), "up")
             /\ client[c] = "packet" => r.kind = "down" /\ NoneMine(Tail(inbox[c]))
    <2>1. /\ ~NoneMine(inbox[c]) /\ ~OneMine(inbox[c], "packet")
          /\ \A a : OneMine(inbox[c], a) => r.kind = a /\ NoneMine(Tail(inbox[c]))
          /\ TwoMine(inbox[c], "down", "up") => r.kind = "down" /\ OneMine(Tail(inbox[c]), "up")
        <3>1. /\ ~NoneMine(inbox[c])
              /\ \A a : OneMine(inbox[c], a) => NoneMine(Tail(inbox[c])) /\ r.kind = a
              /\ \A a, b : TwoMine(inbox[c], a, b) => OneMine(Tail(inbox[c]), b) /\ r.kind = a
            BY <1>2, <1>3, <1>9, HeadMine
        <3>2. r.kind # "packet"
            BY <1>2
        <3> QED BY <3>1, <3>2
    <2>2. ~(HalfWaits(c) /\ OneMine(inbox[c], "up"))
        <3> SUFFICES ASSUME HalfWaits(c), OneMine(inbox[c], "up") PROVE FALSE
            OBVIOUS
        <3>1. pending[c][r.pid] = NoHalf
            BY <1>2, <2>1
        <3> QED BY <1>3, <1>9, <3>1 DEF HalfWaits, NoHalf
    <2>3. /\ Unused(c) /\ client[c] \in {"one", "segments", "packet"}
          /\ client[c] = "one" => OneMine(inbox[c], "one")
          /\ client[c] = "segments" => TwoMine(inbox[c], "down", "up")
          /\ client[c] = "packet" => OneMine(inbox[c], "down")
        BY <1>9, <2>1, <2>2 DEF OnItsWay, Waiting, Progress
    <2>4. fresh
        BY <1>3, <1>5, <1>9, <2>3 DEF Unused
    <2> QED BY <2>1, <2>3, <2>4
<1>10. CASE ~fresh
    <2>1. Lost(c, r.mine, r.kind) /\ UNCHANGED <<pending, sessions>> /\ used' = used
        BY <1>6, <1>10 DEF Observed, Fallback
    <2>2. Served(c)
        <3>1. ClientMoves(c)
            BY <2>1, Parted, Answers
        <3> QED BY <1>1, <1>2, <1>3, <1>4, <2>1, <3>1 DEF Served
    <2>3. ASSUME c \in Honest, OnItsWay(c) PROVE Stage(c)'
        <3>1. ~r.mine
            BY <1>9, <1>10, <2>3
        <3>2. client' = client
            BY <2>1, <3>1 DEF Lost
        <3> QED BY <1>1, <2>1, <2>2, <2>3, <3>1, <3>2, ServerAssumption, OthersServed
    <2> QED BY <2>2, <2>3, ServedStage
<1>11. CASE fresh /\ r.kind = "one"
    <2>1. OpenSession(c, {r.token}, {r.mine}) /\ pending' = pending
        BY <1>11 DEF Observed
    <2>2. sessions[r.token] = 0
        <3>1. sessions[r.token] \in Nat /\ sessions[r.token] <= used[r.token]
            BY <1>3, Parted DEF TablesKnown
        <3> QED BY <1>5, <1>11, <3>1
    <2>3. \A d \in Tasks, p \in Pids : pending'[d][p].token # r.token
        <3> SUFFICES ASSUME NEW d \in Tasks, NEW p \in Pids, pending[d][p].token = r.token
                     PROVE  FALSE
            BY <2>1
        <3>1. pending[d][p] # NoHalf
            BY <1>3, Parted, SentKnown
        <3> QED BY <1>5, <1>11, <3>1, Parted DEF TablesKnown, HalfKnown
    <2>4. {r.mine} \in SUBSET BOOLEAN /\ used'[r.token] # 0
        BY <1>3, <1>6, <1>11
    <2>5. /\ ClientMoves(c) /\ sessions' \in [Tokens -> Nat]
          /\ \A u \in Tokens : sessions'[u] = sessions[u] \/ GetsSession(u)
          /\ {r.mine} = {FALSE} => client' = client
          /\ {r.mine} = {TRUE} => Hears(c, {"open"})
        BY <1>3, <2>1, <2>2, <2>3, <2>4, Opened
    <2>6. Served(c)
        <3>1. \A t \in Tokens : \/ used'[t] = used[t]
                                \/ /\ t = r.token /\ r.kind # "packet"
                                   /\ used[t] = 0 /\ used'[t] = 1
            BY <1>5, <1>6, <1>11
        <3> QED BY <1>1, <1>2, <1>3, <1>4, <2>1, <2>5, <3>1 DEF Served
    <2>7. ASSUME c \in Honest, OnItsWay(c) PROVE Stage(c)'
        <3>1. CASE r.mine
            <4>1. Hears(c, {"open"})
                BY <1>3, <2>5, <3>1
            <4> QED BY <2>7, <4>1, Opens DEF OnItsWay
        <3>2. CASE ~r.mine
            <4>1. client' = client
                BY <1>3, <2>5, <3>2
            <4> QED BY <1>1, <1>8, <2>1, <2>6, <2>7, <3>2, <4>1, OthersServed
        <3> QED BY <3>1, <3>2
    <2> QED BY <2>6, <2>7, ServedStage
<1>12. CASE fresh /\ r.kind # "one"
    <2> DEFINE half == [dir |-> r.kind, token |-> r.token, mine |-> r.mine]
    <2>1. /\ Granted(c) /\ sessions' = sessions
          /\ pending' = [pending EXCEPT ![c][r.pid] = half]
        BY <1>12 DEF Observed
    <2>2. half \in Halves
        BY <1>2, <1>3, <1>12 DEF Halves
    <2> HIDE DEF half
    <2>3. /\ pending' \in [Tasks -> [Pids -> Halves]] /\ pending'[c][r.pid] = half
          /\ \A p \in Pids : p # r.pid => pending'[c][p] = pending[c][p]
          /\ \A d \in Tasks : d # c => pending'[d] = pending[d]
        BY <1>3, <2>1, <2>2
    <2>4. BeginsToWait(c, r.pid)
        BY <1>2, <1>5, <1>6, <1>12, <2>1, <2>3 DEF BeginsToWait, half
    <2>5. Served(c)
        <3>1. ClientMoves(c)
            BY <2>1, Parted, Answers
        <3>2. \A t \in Tokens : \/ used'[t] = used[t]
                                \/ /\ t = r.token /\ r.kind # "packet"
                                   /\ used[t] = 0 /\ used'[t] = 1
            BY <1>2, <1>5, <1>6, <1>12
        <3>3. \A p \in Pids : \/ pending'[c][p] = pending[c][p] \/ pending'[c][p] = NoHalf
                              \/ BeginsToWait(c, p)
            BY <2>3, <2>4
        <3> QED BY <1>1, <1>2, <1>3, <1>4, <2>1, <2>3, <3>1, <3>2, <3>3 DEF Served
    <2>6. ASSUME c \in Honest, OnItsWay(c) PROVE Stage(c)'
        <3>1. CASE ~r.mine
            <4>1. client' = client
                BY <2>1, <3>1 DEF Granted
            <4>2. pending'[c][own[c].nonce] = pending[c][own[c].nonce]
                BY <1>7, <1>12, <2>3, <2>6, <3>1, WayFacts
            <4> QED BY <1>1, <1>8, <2>5, <2>6, <3>1, <4>1, <4>2, OthersServed
        <3>2. CASE r.mine
            <4>1. /\ own' = own /\ own[c] \in Tokens /\ own[c].nonce \in Pids
                  /\ uploads'[c][own[c].nonce] = NoToken
                BY <1>1, <2>6, WayFacts DEF Beside
            <4>2. r.kind = "down" /\ client[c] \in {"segments", "packet"}
                BY <1>9, <1>12, <2>6, <3>2
            <4>3. HalfWaits(c)'
                <5>1. pending'[c][own[c].nonce] = [dir |-> "down", token |-> own[c], mine |-> TRUE]
                    BY <1>3, <2>3, <3>2, <4>2 DEF half
                <5> QED BY <4>1, <5>1 DEF HalfWaits
            <4>4. inbox'[c] = Tail(inbox[c])
                BY <1>1, <1>2, Parted, DoneStep
            <4>5. Alone(c)'
                BY <2>5, <2>6, AloneStays DEF OnItsWay
            <4>6. client \in [Honest -> {"new", "open", "refused"} \cup Waiting]
                BY Parted DEF ServerTypeOK
            <4>7. CASE client[c] = "segments"
                <5>1. client' = client
                    BY <2>1, <4>7 DEF Granted
                <5>2. OneMine(inbox[c], "up")'
                    <6>1. OneMine(inbox'[c], "up")
                        BY <1>9, <2>6, <3>2, <4>4, <4>7
                    <6> QED BY <6>1 DEF OneMine
                <5>3. Progress(c)'
                    BY <4>1, <4>3, <4>7, <5>1, <5>2 DEF Progress
                <5> QED BY <4>5, <4>7, <5>1, <5>3 DEF Stage, Waiting
            <4>8. CASE client[c] = "packet"
                <5>1. client' = [client EXCEPT ![c] = "granted"]
                    BY <2>1, <2>6, <3>2, <4>8 DEF Granted, Hears, OnItsWay
                <5>2. client'[c] = "granted"
                    BY <2>6, <4>6, <5>1
                <5>3. NoneMine(inbox[c])'
                    <6>1. NoneMine(inbox'[c])
                        BY <1>9, <2>6, <3>2, <4>4, <4>8
                    <6> QED BY <6>1 DEF NoneMine
                <5>4. Progress(c)'
                    BY <4>1, <4>3, <5>2, <5>3 DEF Progress
                <5> QED BY <4>5, <5>2, <5>4 DEF Stage, Waiting
            <4> QED BY <4>2, <4>7, <4>8
        <3> QED BY <3>1, <3>2
    <2> QED BY <2>5, <2>6, ServedStage
<1> QED BY <1>10, <1>11, <1>12

-----------------------------------------------------------------------------
(* Steps of the clients and of others *)

\* Queues that grow behind their heads leave tasks where they are.
LEMMA AtWorkStays ==
    ASSUME AtWork, job' = job, pending' = pending,
           \A d \in Tasks : job[d] # NoJob /\ inbox[d] # <<>>
                                => inbox'[d] # <<>> /\ Head(inbox'[d]) = Head(inbox[d])
    PROVE  AtWork'
BY DEF AtWork

\* A client stays alone when what comes is its own, or some client's, or harmless to it.
LEMMA AloneGrows ==
    ASSUME NEW h \in Honest, Alone(h), own'[h] = own[h], used' = used,
           \A d \in Tasks : \A i \in 1..Len(inbox'[d]) :
              \/ inbox'[d][i].mine
              \/ Harmless(h, d, inbox[d][i])'
              \/ \E j \in 1..Len(inbox[d]) : inbox'[d][i] = inbox[d][j]
    PROVE  Alone(h)'
<1> SUFFICES ASSUME NEW d \in Tasks, NEW i \in 1..Len(inbox'[d])
             PROVE  Harmless(h, d, inbox[d][i])'
    BY DEF Alone
<1>1. CASE inbox'[d][i].mine
    BY <1>1 DEF Harmless
<1>2. CASE \E j \in 1..Len(inbox[d]) : inbox'[d][i] = inbox[d][j]
    <2>1. PICK j \in 1..Len(inbox[d]) : inbox'[d][i] = inbox[d][j]
        BY <1>2
    <2>2. Harmless(h, d, inbox[d][j])
        BY DEF Alone
    <2> QED BY <2>1, <2>2 DEF Harmless
<1> QED BY <1>1, <1>2

\* A client's stage does not change with it.
LEMMA StageStays ==
    ASSUME NEW h \in Honest, Stage(h), client'[h] = client[h], own'[h] = own[h],
           client[h] # "new" /\ Settled(h) => Settled(h)',
           client[h] \in Waiting /\ ~Settled(h)' /\ Alone(h) => Alone(h)',
           client[h] \in Waiting /\ Progress(h) => Progress(h)'
    PROVE  Stage(h)'
BY DEF Stage, Waiting

\* The hour changes or the key is revoked: a token that is over stays over.
LEMMA QuietStep ==
    ASSUME Inv, GuardInv', Revoke \/ NextHour \/ UNCHANGED <<vars, serverVars>>
    PROVE  ServerInv'
<1>1. /\ UNCHANGED <<inbox, pending, uploads, client, own, sent, strange, crossed, sessions>>
      /\ UNCHANGED <<job, used>> /\ (active' => active) /\ active' \in BOOLEAN
      /\ epoch' \in {epoch, epoch + 1}
    <2>0. active \in BOOLEAN
        BY Parted DEF ServerTypeOK
    <2>1. CASE Revoke
        BY <2>0, <2>1 DEF Revoke, vars, tables, clientVars
    <2>2. CASE NextHour
        BY <2>0, <2>2 DEF NextHour, Tick, serverVars, tables, clientVars
    <2>3. CASE UNCHANGED <<vars, serverVars>>
        BY <2>0, <2>3 DEF vars, serverVars, tables, clientVars
    <2> QED BY <2>1, <2>2, <2>3
<1>2. ServerTypeOK'
    BY <1>1, Parted DEF ServerTypeOK, GuardInv
<1>3. RequestsKnown' /\ TablesKnown' /\ AtWork'
    BY <1>1, Parted DEF RequestsKnown, Known, TablesKnown, HalfKnown, SentNonces, AtWork
<1>4. epoch \in Nat
    BY DEF Inv, GuardInv, TypeOK
<1>5. OwnTokens'
    <2>1. ASSUME NEW h \in Honest, client[h] # "new" PROVE own[h].epoch <= epoch' + 1
        <3>1. own[h].epoch <= epoch + 1 /\ own[h].epoch \in Nat
            BY <2>1, WaitsWithToken, Parts, Parted DEF OwnTokens
        <3> QED BY <1>1, <1>4, <3>1
    <2> QED BY <1>1, <2>1, Parted DEF OwnTokens
<1>6. ASSUME NEW h \in Honest PROVE Stage(h)'
    <2>1. ASSUME client[h] # "new", Settled(h) PROVE Settled(h)'
        <3>1. own[h].epoch <= epoch + 1 /\ own[h].epoch \in Nat
            BY <2>1, WaitsWithToken, Parts, Parted DEF OwnTokens
        <3>2. own[h].epoch \notin Accepted(epoch) => own[h].epoch \notin Accepted(epoch')
            BY <1>1, <1>4, <3>1 DEF Accepted
        <3>3. own[h].epoch \notin Accepted(epoch) => own[h].epoch \notin Accepted(epoch)'
            BY <3>2 DEF Accepted
        <3> QED BY <1>1, <2>1, <3>3 DEF Settled
    <2>2. Alone(h) => Alone(h)'
        BY <1>1 DEF Alone, Harmless
    <2>3. Progress(h) => Progress(h)'
        BY <1>1 DEF Progress, Unused, NothingWaits, HalfWaits, OneMine, TwoMine, NoneMine
    <2>4. Stage(h)
        BY Parted DEF Stages
    <2> QED BY <1>1, <2>1, <2>2, <2>3, <2>4, StageStays
<1> QED BY <1>2, <1>3, <1>5, <1>6 DEF ServerInv, Tables, Stages

\* A repeated request either crosses a client or is harmless to it.
LEMMA RepeatStep ==
    ASSUME Inv, GuardInv', NEW c \in Tasks, NEW r \in Requests, Repeat(c, r)
    PROVE  ServerInv'
<1>1. /\ UNCHANGED <<epoch, window, job, used>>
      /\ UNCHANGED <<active, pending, uploads, client, own, sent, sessions>>
      /\ ~r.mine /\ r.token \in sent /\ r.pid \in SentNonces
      /\ strange' = strange + 1 /\ crossed' = crossed \cup Crosses(c, r)
    BY DEF Repeat, vars, tables
<1> DEFINE q == inbox[c]
           w(n) == SubSeq(q, 1, n) \o <<r>> \o SubSeq(q, n + 1, Len(q))
<1>2. PICK n \in 0..Len(q) : (job[c] # NoJob => n > 0) /\ inbox' = [inbox EXCEPT ![c] = w(n)]
    BY DEF Repeat
<1>3. inbox \in [Tasks -> Seq(Requests)] /\ q \in Seq(Requests)
    BY Parted DEF ServerTypeOK
<1>4. Joins(q, r, n, w(n))
    BY <1>3, Inserted
<1> HIDE DEF w
<1>5. /\ w(n) \in Seq(Requests) /\ (n > 0 => w(n) # <<>> /\ Head(w(n)) = Head(q))
      /\ \A i \in 1..Len(w(n)) : w(n)[i] = r \/ \E j \in 1..Len(q) : w(n)[i] = q[j]
      /\ NoneMine(q) => NoneMine(w(n))
      /\ \A a : OneMine(q, a) => OneMine(w(n), a)
      /\ \A a, b : TwoMine(q, a, b) => TwoMine(w(n), a, b)
    BY <1>1, <1>3, <1>4, OtherInserted
<1>6. /\ inbox' \in [Tasks -> Seq(Requests)] /\ inbox'[c] = w(n)
      /\ \A d \in Tasks : d # c => inbox'[d] = inbox[d]
    BY <1>2, <1>3, <1>5
<1>7. ASSUME NEW d \in Tasks, NEW i \in 1..Len(inbox'[d])
      PROVE  \/ d = c /\ inbox'[d][i] = r
             \/ \E j \in 1..Len(inbox[d]) : inbox'[d][i] = inbox[d][j]
    <2>1. CASE d = c
        BY <1>5, <1>6, <1>7, <2>1
    <2>2. CASE d # c
        BY <1>6, <1>7, <2>2
    <2> QED BY <2>1, <2>2
<1>8. ServerTypeOK'
    <2>1. strange' \in Nat /\ crossed' \subseteq Honest
        BY <1>1, Parted DEF ServerTypeOK, Crosses
    <2> QED BY <1>1, <1>6, <2>1, Parted DEF ServerTypeOK, GuardInv
<1>9. RequestsKnown'
    <2> SUFFICES ASSUME NEW d \in Tasks, NEW i \in 1..Len(inbox'[d])
                 PROVE  Known(d, inbox[d][i])'
        BY DEF RequestsKnown
    <2>1. CASE d = c /\ inbox'[d][i] = r
        BY <1>1, <2>1 DEF Known, SentNonces
    <2>2. CASE \E j \in 1..Len(inbox[d]) : inbox'[d][i] = inbox[d][j]
        BY <1>1, <2>2, Parted DEF RequestsKnown, Known, SentNonces
    <2> QED BY <1>7, <2>1, <2>2
<1>10. OwnTokens' /\ TablesKnown'
    BY <1>1, Parted DEF OwnTokens, TablesKnown, HalfKnown, SentNonces
<1>11. AtWork'
    <2>1. ASSUME NEW d \in Tasks, job[d] # NoJob, inbox[d] # <<>>
          PROVE  inbox'[d] # <<>> /\ Head(inbox'[d]) = Head(inbox[d])
        BY <1>2, <1>5, <1>6, <2>1
    <2> QED BY <1>1, <2>1, Parted, AtWorkStays
<1>12. ASSUME NEW h \in Honest PROVE Stage(h)'
    <2>1. Stage(h) /\ h \in Tasks
        BY Parted DEF Stages
    <2>2. Settled(h) => Settled(h)'
        BY <1>1 DEF Settled
    <2>3. ASSUME client[h] \in Waiting, ~Settled(h)', Alone(h) PROVE Alone(h)'
        <3>1. h \notin Crosses(c, r)
            BY <1>1, <2>3 DEF Settled
        <3>2. Harmless(h, c, r)
            BY <2>3, <3>1 DEF Crosses, Harmless
        <3>3. ASSUME NEW d \in Tasks, NEW i \in 1..Len(inbox'[d]), d = c, inbox'[d][i] = r
              PROVE  Harmless(h, d, inbox[d][i])'
            BY <1>1, <3>2, <3>3 DEF Harmless
        <3> QED BY <1>1, <1>7, <2>3, <3>3, AloneGrows
    <2>4. ASSUME Progress(h) PROVE Progress(h)'
        <3>1. /\ NoneMine(inbox[h]) => NoneMine(inbox'[h])
              /\ \A a : OneMine(inbox[h], a) => OneMine(inbox'[h], a)
              /\ \A a, b : TwoMine(inbox[h], a, b) => TwoMine(inbox'[h], a, b)
            BY <1>5, <1>6, <2>1
        <3> QED BY <1>1, <2>4, <3>1, ProgressStays
    <2> QED BY <1>1, <2>1, <2>2, <2>3, <2>4, StageStays
<1> QED BY <1>8, <1>9, <1>10, <1>11, <1>12 DEF ServerInv, Tables, Stages

\* A packet-up client posts.
LEMMA PostStep ==
    ASSUME Inv, GuardInv', NEW c \in Honest, ClientPosts(c) \/ ClientPostsAgain(c)
    PROVE  ServerInv'
<1> DEFINE q == inbox[c]
           r == Request("packet", own[c])
           w == Append(q, r)
<1>1. /\ client[c] \in {"granted", "open"} /\ inbox' = [inbox EXCEPT ![c] = w]
      /\ UNCHANGED <<epoch, window, job, used>>
      /\ UNCHANGED <<active, pending, uploads, own, sent, sessions, strange, crossed>>
    BY DEF ClientPosts, ClientPostsAgain, vars, tables, clientVars
<1>2. /\ inbox \in [Tasks -> Seq(Requests)] /\ q \in Seq(Requests)
      /\ client \in [Honest -> {"new", "open", "refused"} \cup Waiting]
    BY Parted DEF ServerTypeOK
<1>3. own[c] \in Tokens /\ own[c] \in sent /\ own[c].nonce \in SentNonces /\ c \in Tasks
    BY <1>1, WaitsWithToken
<1>4. r \in Requests /\ r.kind = "packet" /\ r.token = own[c] /\ r.pid = own[c].nonce /\ r.mine
    BY <1>3, Parts DEF Kinds
<1> HIDE DEF r
<1>5. /\ w \in Seq(Requests) /\ Len(w) = Len(q) + 1 /\ Len(q) \in Nat /\ w[Len(q) + 1] = r
      /\ \A i \in 1..Len(q) : w[i] = q[i]
      /\ q # <<>> => w # <<>> /\ Head(w) = Head(q)
      /\ NoneMine(q) => OneMine(w, "packet")
    BY <1>2, <1>4, Queued, MineQueued
<1> HIDE DEF w
<1>6. /\ inbox' \in [Tasks -> Seq(Requests)] /\ inbox'[c] = w
      /\ \A d \in Tasks : d # c => inbox'[d] = inbox[d]
    BY <1>1, <1>2, <1>3, <1>5
<1>7. ASSUME NEW d \in Tasks, NEW i \in 1..Len(inbox'[d])
      PROVE  \/ d = c /\ inbox'[d][i] = r
             \/ \E j \in 1..Len(inbox[d]) : inbox'[d][i] = inbox[d][j]
    <2>1. CASE d = c
        <3>1. i = Len(q) + 1 \/ i \in 1..Len(q)
            BY <1>5, <1>6, <1>7, <2>1
        <3> QED BY <1>5, <1>6, <2>1, <3>1
    <2>2. CASE d # c
        BY <1>6, <1>7, <2>2
    <2> QED BY <2>1, <2>2
<1>8. /\ client' \in [Honest -> {"new", "open", "refused"} \cup Waiting]
      /\ \A h \in Honest : h # c => client'[h] = client[h]
      /\ client[c] = "granted" => client'[c] = "posted"
      /\ client[c] = "open" => client'[c] = "open"
    BY <1>1, <1>2 DEF ClientPosts, ClientPostsAgain, clientVars, Waiting
<1>9. ServerTypeOK'
    BY <1>1, <1>6, <1>8, Parted DEF ServerTypeOK, GuardInv
<1>10. RequestsKnown'
    <2> SUFFICES ASSUME NEW d \in Tasks, NEW i \in 1..Len(inbox'[d])
                 PROVE  Known(d, inbox[d][i])'
        BY DEF RequestsKnown
    <2>1. CASE d = c /\ inbox'[d][i] = r
        BY <1>1, <1>3, <1>4, <2>1 DEF Known, SentNonces
    <2>2. CASE \E j \in 1..Len(inbox[d]) : inbox'[d][i] = inbox[d][j]
        BY <1>1, <2>2, Parted DEF RequestsKnown, Known, SentNonces
    <2> QED BY <1>7, <2>1, <2>2
<1>11. OwnTokens' /\ TablesKnown'
    <2>1. \A h \in Honest : client'[h] = "new" <=> client[h] = "new"
        BY <1>1, <1>8
    <2> QED BY <1>1, <2>1, Parted DEF OwnTokens, TablesKnown, HalfKnown, SentNonces
<1>12. AtWork'
    <2>1. ASSUME NEW d \in Tasks, inbox[d] # <<>>
          PROVE  inbox'[d] # <<>> /\ Head(inbox'[d]) = Head(inbox[d])
        BY <1>5, <1>6, <2>1
    <2> QED BY <1>1, <2>1, Parted, AtWorkStays
<1>13. ASSUME NEW h \in Honest, Alone(h) PROVE Alone(h)'
    <2>1. ASSUME NEW d \in Tasks, NEW i \in 1..Len(inbox'[d])
          PROVE  inbox'[d][i].mine \/ \E j \in 1..Len(inbox[d]) : inbox'[d][i] = inbox[d][j]
        BY <1>4, <1>7, <2>1
    <2> QED BY <1>1, <1>13, <2>1, AloneGrows
<1>14. ASSUME NEW h \in Honest PROVE Settled(h)' = Settled(h)
    BY <1>1 DEF Settled
<1>15. ASSUME NEW h \in Honest, h # c PROVE Stage(h)'
    <2>1. inbox'[h] = inbox[h] /\ client'[h] = client[h]
        BY <1>6, <1>8, <1>15, Parted
    <2>2. Progress(h) => Progress(h)'
        BY <1>1, <2>1, ProgressStays
    <2>3. Stage(h)
        BY Parted DEF Stages
    <2> QED BY <1>1, <1>13, <1>14, <2>1, <2>2, <2>3, StageStays
<1>16. Stage(c)'
    <2>1. CASE client[c] = "open"
        BY <1>8, <2>1 DEF Stage
    <2>2. CASE client[c] = "granted"
        <3>1. Settled(c) \/ (Alone(c) /\ Progress(c))
            BY <2>2, Parted DEF Stages, Stage
        <3>2. CASE Settled(c)
            BY <1>14, <3>2 DEF Stage
        <3>3. CASE Alone(c) /\ Progress(c)
            <4>1. HalfWaits(c) /\ OneMine(inbox'[c], "packet") /\ uploads[c][own[c].nonce] = NoToken
                BY <1>5, <1>6, <2>2, <3>3 DEF Progress
            <4>2. OneMine(inbox[c], "packet")'
                BY <4>1 DEF OneMine
            <4>3. HalfWaits(c)'
                BY <1>1, <4>1 DEF HalfWaits
            <4>4. Progress(c)'
                BY <1>1, <1>8, <2>2, <4>1, <4>2, <4>3 DEF Progress
            <4> QED BY <1>8, <1>13, <2>2, <3>3, <4>4 DEF Stage, Waiting
        <3> QED BY <3>1, <3>2, <3>3
    <2> QED BY <1>1, <2>1, <2>2
<1> QED BY <1>9, <1>10, <1>11, <1>12, <1>15, <1>16 DEF ServerInv, Tables, Stages

\* A connection ends: its queue and tables are gone, and its client begins anew.
LEMMA ReconnectStep ==
    ASSUME Inv, GuardInv', NEW c \in Tasks, Reconnect(c)
    PROVE  ServerInv'
<1>1. /\ job[c] = NoJob /\ UNCHANGED <<epoch, window, job, used>>
      /\ UNCHANGED <<active, sent, sessions, strange>> /\ crossed' = crossed \ {c}
    BY DEF Reconnect, vars
<1>2. /\ inbox' \in [Tasks -> Seq(Requests)] /\ inbox'[c] = <<>> /\ Len(inbox'[c]) = 0
      /\ \A d \in Tasks : d # c => inbox'[d] = inbox[d]
    <2>1. inbox \in [Tasks -> Seq(Requests)] /\ <<>> \in Seq(Requests) /\ Len(<<>>) = 0
        BY Parted, EmptySeq DEF ServerTypeOK
    <2> QED BY <2>1 DEF Reconnect
<1>3. /\ pending' \in [Tasks -> [Pids -> Halves]] /\ \A p \in Pids : pending'[c][p] = NoHalf
      /\ \A d \in Tasks : d # c => pending'[d] = pending[d]
    <2>1. pending \in [Tasks -> [Pids -> Halves]] /\ [p \in Pids |-> NoHalf] \in [Pids -> Halves]
        BY Parted DEF ServerTypeOK, Halves
    <2> QED BY <2>1 DEF Reconnect
<1>4. /\ uploads' \in [Tasks -> [Pids -> Tokens \cup {NoToken}]]
      /\ \A p \in Pids : uploads'[c][p] = NoToken
      /\ \A d \in Tasks : d # c => uploads'[d] = uploads[d]
    <2>1. /\ uploads \in [Tasks -> [Pids -> Tokens \cup {NoToken}]]
          /\ [p \in Pids |-> NoToken] \in [Pids -> Tokens \cup {NoToken}]
        BY Parted DEF ServerTypeOK
    <2> QED BY <2>1 DEF Reconnect
<1>5. /\ client' \in [Honest -> {"new", "open", "refused"} \cup Waiting]
      /\ own' \in [Honest -> Tokens \cup {NoToken}]
      /\ \A h \in Honest : h # c => client'[h] = client[h] /\ own'[h] = own[h]
      /\ c \in Honest => client'[c] = "new" /\ own'[c] = NoToken
    BY Parted DEF Reconnect, ServerTypeOK
<1>6. ASSUME NEW d \in Tasks, NEW i \in 1..Len(inbox'[d])
      PROVE  d # c /\ i \in 1..Len(inbox[d]) /\ inbox'[d][i] = inbox[d][i]
    BY <1>2, <1>6
<1>7. SentNonces' = SentNonces
    BY <1>1 DEF SentNonces
<1>8. ServerTypeOK'
    BY <1>1, <1>2, <1>3, <1>4, <1>5, Parted DEF ServerTypeOK, GuardInv
<1>9. RequestsKnown'
    <2> SUFFICES ASSUME NEW d \in Tasks, NEW i \in 1..Len(inbox'[d])
                 PROVE  Known(d, inbox[d][i])'
        BY DEF RequestsKnown
    <2>1. d # c /\ i \in 1..Len(inbox[d]) /\ inbox'[d][i] = inbox[d][i] /\ Known(d, inbox[d][i])
        BY <1>6, Parted DEF RequestsKnown
    <2> QED BY <1>1, <1>5, <1>7, <2>1 DEF Known
<1>10. OwnTokens'
    <2>1. NoToken \notin Tokens
        BY Parts
    <2> QED BY <1>1, <1>5, <2>1, Parted DEF OwnTokens
<1>11. ASSUME NEW d \in Tasks, NEW p \in Pids, pending'[d][p] # NoHalf
       PROVE  d # c /\ pending'[d][p] = pending[d][p]
    BY <1>3, <1>11
<1>12. ASSUME NEW d \in Tasks, NEW p \in Pids, pending'[d][p] # NoHalf
       PROVE  HalfKnown(d, p, pending[d][p])'
    <2>1. d # c /\ pending'[d][p] = pending[d][p] /\ HalfKnown(d, p, pending[d][p])
        BY <1>11, <1>12, Parted DEF TablesKnown
    <2> QED BY <1>1, <1>5, <1>7, <2>1 DEF HalfKnown
<1>13. ASSUME NEW d \in Tasks, NEW e \in Tasks, NEW p \in Pids, NEW q \in Pids,
              pending'[d][p] # NoHalf, pending'[e][q].token = pending'[d][p].token
       PROVE  d = e /\ p = q
    <2>1. pending'[d][p].token \in Tokens
        BY <1>12, <1>13 DEF HalfKnown
    <2>2. pending'[e][q] # NoHalf
        BY <1>13, <2>1, Parted, SentKnown
    <2> QED BY <1>11, <1>13, <2>2, Parted DEF TablesKnown
<1>14. \A d \in Tasks, p \in Pids : uploads'[d][p] # NoToken => p \in SentNonces
    BY <1>4, Parted DEF TablesKnown
<1>15. TablesKnown'
    BY <1>1, <1>7, <1>12, <1>13, <1>14, Parted DEF TablesKnown
<1>16. AtWork'
    BY <1>1, <1>2, <1>3, Parted DEF AtWork
<1>17. ASSUME NEW h \in Honest PROVE Stage(h)'
    <2>1. CASE h = c
        BY <1>5, <2>1 DEF Stage
    <2>2. CASE h # c
        <3>1. /\ inbox'[h] = inbox[h] /\ client'[h] = client[h] /\ own'[h] = own[h] /\ Stage(h)
              /\ pending'[h] = pending[h] /\ uploads'[h] = uploads[h]
            BY <1>2, <1>3, <1>4, <1>5, <2>2, Parted DEF Stages
        <3>2. Settled(h) => Settled(h)'
            BY <1>1, <2>2, <3>1 DEF Settled
        <3>3. Alone(h) => Alone(h)'
            BY <1>1, <1>6, <3>1, AloneGrows
        <3>4. Progress(h) => Progress(h)'
            BY <1>1, <3>1, ProgressStays
        <3> QED BY <3>1, <3>2, <3>3, <3>4, StageStays
    <2> QED BY <2>1, <2>2
<1> QED BY <1>8, <1>9, <1>10, <1>15, <1>16, <1>17 DEF ServerInv, Tables, Stages

\* What a client that starts knows, and what it changes.
Starts(c, token, q) ==
    /\ client[c] = "new" /\ Fresh(token)
    /\ UNCHANGED <<epoch, window, job, used>>
    /\ UNCHANGED <<active, pending, uploads, sessions, strange, crossed>>
    /\ own' = [own EXCEPT ![c] = token] /\ sent' = sent \cup {token}
    /\ inbox' \in [Tasks -> Seq(Requests)] /\ inbox'[c] = q
    /\ \A d \in Tasks : d # c => inbox'[d] = inbox[d]
    /\ inbox[c] # <<>> => q # <<>> /\ Head(q) = Head(inbox[c])
    /\ \A i \in 1..Len(q) :
          \/ q[i].mine /\ q[i].token = token /\ q[i].pid = token.nonce
          \/ \E j \in 1..Len(inbox[c]) : q[i] = inbox[c][j]
    /\ client' \in [Honest -> {"new", "open", "refused"} \cup Waiting]
    /\ \A h \in Honest : h # c => client'[h] = client[h]
    /\ \/ client'[c] = "one" /\ OneMine(q, "one")
       \/ client'[c] = "segments" /\ TwoMine(q, "down", "up")
       \/ client'[c] = "packet" /\ OneMine(q, "down")

\* Whichever way it starts, its requests go to the end of the queue, in order.
LEMMA StartsSo ==
    ASSUME Inv, NEW c \in Honest, NEW token \in Tokens,
           \/ ClientStreamOne(c, token) \/ ClientSegments(c, token) \/ ClientPacketUp(c, token)
    PROVE  \E q \in Seq(Requests) : Starts(c, token, q)
<1> DEFINE q == inbox[c]
           one == Request("one", token)
           down == Request("down", token)
           up == Request("up", token)
<1>1. /\ client[c] = "new" /\ Fresh(token) /\ c \in Tasks
      /\ UNCHANGED <<epoch, window, job, used>>
      /\ UNCHANGED <<active, pending, uploads, sessions, strange, crossed>>
      /\ own' = [own EXCEPT ![c] = token] /\ sent' = sent \cup {token}
    BY Parted DEF ClientStreamOne, ClientSegments, ClientPacketUp, Start, tables, vars
<1>2. /\ inbox \in [Tasks -> Seq(Requests)] /\ q \in Seq(Requests)
      /\ client \in [Honest -> {"new", "open", "refused"} \cup Waiting]
    BY <1>1, Parted DEF ServerTypeOK
<1>3. NoneMine(q)
    <2>1. own[c] \notin Tokens
        BY <1>1, Parted, Parts DEF OwnTokens
    <2>2. \A i \in 1..Len(q) : Known(c, q[i]) /\ q[i].token \in Tokens
        BY <1>1, Parted, OfConnection, Parts DEF RequestsKnown
    <2> QED BY <2>1, <2>2 DEF NoneMine, Known
<1>4. /\ one \in Requests /\ one.kind = "one" /\ one.mine
      /\ one.token = token /\ one.pid = token.nonce
      /\ down \in Requests /\ down.kind = "down" /\ down.mine
      /\ down.token = token /\ down.pid = token.nonce
      /\ up \in Requests /\ up.kind = "up" /\ up.mine
      /\ up.token = token /\ up.pid = token.nonce
    BY Parts DEF Kinds
<1> HIDE DEF one, down, up
<1>5. ASSUME NEW r \in Requests, r.mine, r.token = token, r.pid = token.nonce
      PROVE  /\ Append(q, r) \in Seq(Requests) /\ OneMine(Append(q, r), r.kind)
             /\ \A i \in 1..Len(Append(q, r)) :
                   \/ Append(q, r)[i] = r \/ \E j \in 1..Len(q) : Append(q, r)[i] = q[j]
             /\ Append(q, r) # <<>> /\ (q # <<>> => Head(Append(q, r)) = Head(q))
             /\ q \o <<r>> = Append(q, r)
    <2> DEFINE w == Append(q, r)
    <2>1. /\ w \in Seq(Requests) /\ Len(w) = Len(q) + 1 /\ Len(q) \in Nat
          /\ w[Len(q) + 1] = r /\ \A i \in 1..Len(q) : w[i] = q[i]
          /\ w # <<>> /\ (q # <<>> => Head(w) = Head(q))
        BY <1>2, Queued
    <2>2. OneMine(w, r.kind)
        BY <1>2, <1>3, <1>5, MineQueued
    <2>3. q \o <<r>> = w
        BY <1>2, AppendIsConcat
    <2> HIDE DEF w
    <2>4. \A i \in 1..Len(w) : w[i] = r \/ \E j \in 1..Len(q) : w[i] = q[j]
        BY <2>1
    <2> QED BY <2>1, <2>2, <2>3, <2>4 DEF w
<1>6. CASE ClientStreamOne(c, token)
    <2> DEFINE w == Append(q, one)
    <2>1. /\ w \in Seq(Requests) /\ OneMine(w, "one")
          /\ \A i \in 1..Len(w) : w[i] = one \/ \E j \in 1..Len(q) : w[i] = q[j]
          /\ w # <<>> /\ (q # <<>> => Head(w) = Head(q)) /\ q \o <<one>> = w
        BY <1>4, <1>5
    <2>2. inbox' = [inbox EXCEPT ![c] = w] /\ client' = [client EXCEPT ![c] = "one"]
        BY <1>6, <2>1 DEF ClientStreamOne, Start, one
    <2> HIDE DEF w
    <2>3. Starts(c, token, w)
        BY <1>1, <1>2, <1>4, <2>1, <2>2 DEF Starts, Waiting
    <2> QED BY <2>1, <2>3
<1>7. CASE ClientPacketUp(c, token)
    <2> DEFINE w == Append(q, down)
    <2>1. /\ w \in Seq(Requests) /\ OneMine(w, "down")
          /\ \A i \in 1..Len(w) : w[i] = down \/ \E j \in 1..Len(q) : w[i] = q[j]
          /\ w # <<>> /\ (q # <<>> => Head(w) = Head(q)) /\ q \o <<down>> = w
        BY <1>4, <1>5
    <2>2. inbox' = [inbox EXCEPT ![c] = w] /\ client' = [client EXCEPT ![c] = "packet"]
        BY <1>7, <2>1 DEF ClientPacketUp, Start, down
    <2> HIDE DEF w
    <2>3. Starts(c, token, w)
        BY <1>1, <1>2, <1>4, <2>1, <2>2 DEF Starts, Waiting
    <2> QED BY <2>1, <2>3
<1>8. CASE ClientSegments(c, token)
    <2> DEFINE v == Append(q, down)
               w == Append(v, up)
    <2>1. /\ v \in Seq(Requests) /\ OneMine(v, "down")
          /\ \A i \in 1..Len(v) : v[i] = down \/ \E j \in 1..Len(q) : v[i] = q[j]
          /\ v # <<>> /\ (q # <<>> => Head(v) = Head(q)) /\ q \o <<down>> = v
        BY <1>4, <1>5
    <2> HIDE DEF v
    <2>2. /\ w \in Seq(Requests) /\ Len(w) = Len(v) + 1 /\ Len(v) \in Nat
          /\ w[Len(v) + 1] = up /\ \A i \in 1..Len(v) : w[i] = v[i]
          /\ w # <<>> /\ Head(w) = Head(v)
        BY <1>4, <2>1, Queued
    <2>3. TwoMine(w, "down", "up")
        BY <1>4, <2>1, MineQueued
    <2>4. q \o <<down, up>> = w
        <3>1. <<down>> \o <<up>> = <<down, up>>
            BY <1>4, TwoInARow
        <3>2. q \o (<<down>> \o <<up>>) = (q \o <<down>>) \o <<up>>
            BY <1>2, <1>4, ConcatAssociative
        <3>3. v \o <<up>> = w
            BY <1>4, <2>1, AppendIsConcat
        <3> QED BY <2>1, <3>1, <3>2, <3>3
    <2>5. inbox' = [inbox EXCEPT ![c] = w] /\ client' = [client EXCEPT ![c] = "segments"]
        BY <1>8, <2>4 DEF ClientSegments, Start, down, up
    <2> HIDE DEF w
    <2>6. ASSUME NEW i \in 1..Len(w)
          PROVE  w[i] = down \/ w[i] = up \/ \E j \in 1..Len(q) : w[i] = q[j]
        <3>1. CASE i = Len(v) + 1
            BY <2>2, <3>1
        <3>2. CASE i # Len(v) + 1
            <4>1. i \in 1..Len(v)
                BY <2>2, <3>2
            <4> QED BY <2>1, <2>2, <4>1
        <3> QED BY <3>1, <3>2
    <2>7. Starts(c, token, w)
        BY <1>1, <1>2, <1>4, <2>1, <2>2, <2>3, <2>5, <2>6 DEF Starts, Waiting
    <2> QED BY <2>2, <2>7
<1> QED BY <1>6, <1>7, <1>8

\* A client starts with a token nobody has used and a pid nobody has named.
LEMMA StartStep ==
    ASSUME Inv, GuardInv', NEW c \in Honest, NEW token \in Tokens,
           \/ ClientStreamOne(c, token) \/ ClientSegments(c, token) \/ ClientPacketUp(c, token)
    PROVE  ServerInv'
<1>1. PICK q \in Seq(Requests) : Starts(c, token, q)
    BY StartsSo
<1>2. /\ client[c] = "new" /\ token.nonce \notin SentNonces
      /\ token.epoch \in Accepted(epoch) /\ c \in Tasks /\ epoch \in Nat
      /\ UNCHANGED <<epoch, window, job, used>>
      /\ UNCHANGED <<active, pending, uploads, sessions, strange, crossed>>
      /\ sent' = sent \cup {token} /\ own \in [Honest -> Tokens \cup {NoToken}]
      /\ own'[c] = token /\ \A h \in Honest : h # c => own'[h] = own[h]
      /\ own' \in [Honest -> Tokens \cup {NoToken}]
    BY <1>1, Parted DEF Starts, Fresh, ServerTypeOK, Inv, GuardInv, TypeOK
<1>3. /\ token \notin sent /\ own[c] \notin Tokens /\ own[c] = NoToken
      /\ SentNonces' = SentNonces \cup {token.nonce}
    BY <1>2, Parted, Parts DEF SentNonces, OwnTokens
<1>4. used[token] = 0
    BY <1>3, Parted DEF OwnTokens
<1>5. \A p \in Pids : p \notin SentNonces
          => pending[c][p] = NoHalf /\ uploads[c][p] = NoToken
    BY <1>2, Parted DEF TablesKnown, HalfKnown
<1>6. ASSUME NEW d \in Tasks, NEW i \in 1..Len(inbox'[d])
      PROVE  \/ /\ d = c /\ inbox'[d][i].mine
                /\ inbox'[d][i].token = token /\ inbox'[d][i].pid = token.nonce
             \/ \E j \in 1..Len(inbox[d]) : inbox'[d][i] = inbox[d][j]
    BY <1>1, <1>6 DEF Starts
<1>7. \A d \in Tasks : \A i \in 1..Len(inbox[d]) :
          /\ Known(d, inbox[d][i]) /\ inbox[d][i].token \in Tokens
          /\ d = c => ~inbox[d][i].mine
    BY <1>3, Parted, OfConnection, Parts DEF RequestsKnown, Known
<1>8. ServerTypeOK'
    <2>1. /\ inbox' \in [Tasks -> Seq(Requests)] /\ sent' \subseteq Tokens
          /\ client' \in [Honest -> {"new", "open", "refused"} \cup Waiting]
        BY <1>1, <1>2, Parted, SentKnown DEF Starts
    <2> QED BY <1>2, <2>1, Parted DEF ServerTypeOK, GuardInv
<1>9. RequestsKnown'
    <2> SUFFICES ASSUME NEW d \in Tasks, NEW i \in 1..Len(inbox'[d])
                 PROVE  Known(d, inbox[d][i])'
        BY DEF RequestsKnown
    <2>1. CASE /\ d = c /\ inbox'[d][i].mine
               /\ inbox'[d][i].token = token /\ inbox'[d][i].pid = token.nonce
        BY <1>2, <1>3, <2>1 DEF Known
    <2>2. CASE \E j \in 1..Len(inbox[d]) : inbox'[d][i] = inbox[d][j]
        <3>1. PICK j \in 1..Len(inbox[d]) : inbox'[d][i] = inbox[d][j]
            BY <2>2
        <3>2. Known(d, inbox[d][j]) /\ (d = c => ~inbox[d][j].mine)
            BY <1>7
        <3> QED BY <1>2, <1>3, <3>1, <3>2 DEF Known
    <2> QED BY <1>6, <2>1, <2>2
<1>10. OwnTokens'
    <2>1. \A h \in Honest : h # c => client'[h] = client[h]
        BY <1>1 DEF Starts
    <2>2. client'[c] # "new" /\ token.epoch <= epoch + 1
        BY <1>1, <1>2 DEF Starts, Accepted
    <2>3. ASSUME NEW h \in Honest
          PROVE  IF client'[h] = "new" THEN own'[h] = NoToken
                 ELSE own'[h] \in sent' /\ own'[h].epoch <= epoch + 1
        BY <1>2, <2>1, <2>2, Parted DEF OwnTokens
    <2>4. \A h \in Honest : h # c => own[h] # token
        BY <1>3, Parted, Parts DEF OwnTokens
    <2>5. ASSUME NEW h \in Honest, NEW d \in Honest, h # d, own'[h] \in Tokens
          PROVE  own'[h] # own'[d]
        BY <1>2, <2>4, <2>5, Parted DEF OwnTokens
    <2>6. ASSUME NEW t \in sent', NEW u \in sent', t.nonce = u.nonce PROVE t = u
        <3>1. \A v \in sent : v.nonce # token.nonce
            BY <1>2, SentKnown, Parted
        <3> QED BY <1>2, <2>6, <3>1, Parted DEF OwnTokens
    <2> QED BY <1>2, <2>3, <2>5, <2>6, Parted DEF OwnTokens
<1>11. TablesKnown'
    <2>1. ASSUME NEW d \in Tasks, NEW p \in Pids, pending[d][p] # NoHalf
          PROVE  HalfKnown(d, p, pending[d][p])'
        <3>1. HalfKnown(d, p, pending[d][p])
            BY <2>1, Parted DEF TablesKnown
        <3>2. pending[d][p].mine => d # c
            BY <1>3, <3>1 DEF HalfKnown
        <3> QED BY <1>2, <1>3, <3>1, <3>2 DEF HalfKnown
    <2> QED BY <1>2, <1>3, <2>1, Parted DEF TablesKnown
<1>12. AtWork'
    <2>1. ASSUME NEW d \in Tasks, inbox[d] # <<>>
          PROVE  inbox'[d] # <<>> /\ Head(inbox'[d]) = Head(inbox[d])
        BY <1>1, <2>1 DEF Starts
    <2> QED BY <1>2, <2>1, Parted, AtWorkStays
<1>13. ASSUME NEW h \in Honest, h # c PROVE Stage(h)'
    <2>1. inbox'[h] = inbox[h] /\ client'[h] = client[h] /\ own'[h] = own[h] /\ Stage(h)
        BY <1>1, <1>2, <1>13, Parted DEF Starts, Stages
    <2>2. Alone(h) => Alone(h)'
        BY <1>2, <1>6, <2>1, AloneGrows
    <2>3. Progress(h) => Progress(h)'
        BY <1>2, <2>1, ProgressStays
    <2>4. Settled(h) => Settled(h)'
        BY <1>2, <2>1 DEF Settled
    <2> QED BY <2>1, <2>2, <2>3, <2>4, StageStays
<1>14. Alone(c)'
    <2> SUFFICES ASSUME NEW d \in Tasks, NEW i \in 1..Len(inbox'[d])
                 PROVE  Harmless(c, d, inbox[d][i])'
        BY DEF Alone
    <2>1. CASE inbox'[d][i].mine
        BY <2>1 DEF Harmless
    <2>2. CASE \E j \in 1..Len(inbox[d]) : inbox'[d][i] = inbox[d][j]
        <3>1. inbox'[d][i].token # token /\ inbox'[d][i].pid # token.nonce
            BY <1>2, <1>3, <1>7, <2>2 DEF Known
        <3> QED BY <1>2, <3>1 DEF Harmless
    <2> QED BY <1>6, <2>1, <2>2
<1>15. Stage(c)'
    <2>1. token.nonce \in Pids
        BY Parts DEF Pids
    <2>2. Unused(c)' /\ NothingWaits(c)' /\ uploads'[c][own'[c].nonce] = NoToken
        BY <1>2, <1>4, <1>5, <2>1 DEF Unused, NothingWaits
    <2>3. /\ \A a : OneMine(q, a) => OneMine(inbox'[c], a)
          /\ TwoMine(q, "down", "up") => TwoMine(inbox'[c], "down", "up")
        BY <1>1 DEF Starts
    <2>4. \/ client'[c] = "one" /\ OneMine(inbox'[c], "one")
          \/ client'[c] = "segments" /\ TwoMine(inbox'[c], "down", "up")
          \/ client'[c] = "packet" /\ OneMine(inbox'[c], "down")
        BY <1>1, <2>3 DEF Starts
    <2>5. \/ client'[c] = "one" /\ OneMine(inbox[c], "one")'
          \/ client'[c] = "segments" /\ TwoMine(inbox[c], "down", "up")'
          \/ client'[c] = "packet" /\ OneMine(inbox[c], "down")'
        BY <2>4 DEF OneMine, TwoMine
    <2>6. Progress(c)' /\ client'[c] \in Waiting
        BY <2>2, <2>5 DEF Progress, Waiting
    <2> QED BY <1>14, <2>6 DEF Stage
<1> QED BY <1>8, <1>9, <1>10, <1>11, <1>12, <1>13, <1>15 DEF ServerInv, Tables, Stages

-----------------------------------------------------------------------------
(* The invariant and what follows from it *)

\* The invariant holds initially: nothing is queued, nothing waits, nobody has a token.
LEMMA ServerInitInv == ServerInit => Inv
<1> SUFFICES ASSUME ServerInit PROVE Inv
    OBVIOUS
<1>1. GuardInv
    BY GuardInit DEF ServerInit
<1>2. ServerTypeOK
    <2>1. <<>> \in Seq(Requests) /\ NoHalf \in Halves /\ TRUE \in BOOLEAN
        BY DEF Halves
    <2> QED BY <1>1, <2>1, ServerAssumption DEF GuardInv, ServerInit, ServerTypeOK
<1>3. \A c \in Tasks : inbox[c] = <<>> /\ Len(inbox[c]) = 0
    BY DEF ServerInit
<1>4. RequestsKnown
    BY <1>3 DEF RequestsKnown
<1>5. \A c \in Honest : own[c] = NoToken /\ own[c] \notin Tokens /\ client[c] = "new"
    BY Parts DEF ServerInit
<1>6. OwnTokens
    BY <1>5 DEF OwnTokens, ServerInit, Init
<1>7. TablesKnown
    <2>1. \A c \in Tasks, p \in Pids : pending[c][p] = NoHalf /\ uploads[c][p] = NoToken
        BY DEF ServerInit
    <2>2. \A t \in Tokens : sessions[t] <= used[t]
        BY DEF ServerInit, Init
    <2> QED BY <2>1, <2>2 DEF TablesKnown
<1>8. AtWork
    BY DEF AtWork, ServerInit, Init
<1>9. Stages
    BY <1>5 DEF Stages, Stage
<1> QED BY <1>1, <1>2, <1>4, <1>6, <1>7, <1>8, <1>9 DEF Inv, ServerInv, Tables

\* Every step preserves it.
LEMMA ServerNextInv == Inv /\ [ServerNext]_<<vars, serverVars>> => Inv'
<1> SUFFICES ASSUME Inv, [ServerNext]_<<vars, serverVars>> PROVE Inv'
    OBVIOUS
<1>1. GuardInv'
    BY GuardStep, GuardNext, Parted DEF Inv
<1>2. ServerInv'
    <2>1. ASSUME NEW c \in Honest, NEW token \in Tokens,
                 ClientStreamOne(c, token) \/ ClientSegments(c, token) \/ ClientPacketUp(c, token)
          PROVE  ServerInv'
        BY <1>1, <2>1, StartStep
    <2>2. ASSUME NEW c \in Honest, ClientPosts(c) \/ ClientPostsAgain(c) PROVE ServerInv'
        BY <1>1, <2>2, PostStep
    <2>3. ASSUME NEW c \in Tasks, Serve(c) PROVE ServerInv'
        BY <1>1, <2>3, RefuseStep, CheckStep, ObservedStep, PairStep, PacketNextStep,
           PacketFirstStep DEF Serve
    <2>4. ASSUME NEW c \in Tasks, Reconnect(c) PROVE ServerInv'
        BY <1>1, <2>4, ReconnectStep
    <2>5. ASSUME NEW c \in Tasks, NEW r \in Requests, Repeat(c, r) PROVE ServerInv'
        BY <1>1, <2>5, RepeatStep
    <2>6. ASSUME Revoke \/ NextHour \/ UNCHANGED <<vars, serverVars>> PROVE ServerInv'
        BY <1>1, <2>6, QuietStep
    <2> QED BY <2>1, <2>2, <2>3, <2>4, <2>5, <2>6 DEF ServerNext
<1> QED BY <1>1, <1>2 DEF Inv

\* The guard's invariant and the server's hold in every reachable state.
THEOREM ServerInvariance == ServerSpec => []Inv
<1> QED BY ServerInitInv, ServerNextInv, PTL DEF ServerSpec

\* Type correctness of the server, its connections and its clients.
THEOREM ServerTypeCorrect == ServerSpec => []ServerTypeOK
<1>1. Inv => ServerTypeOK
    BY Parted
<1> QED BY <1>1, ServerInvariance, PTL

\* serve implements ReplayGuard: however connections interleave, halves pair and packets
\* come, every step is one of the guard's or leaves it alone, so what is proved of the guard
\* holds in the server.
THEOREM UsesGuard == ServerSpec => Spec
<1>1. ServerInit => Init
    BY DEF ServerInit
<1>2. Inv /\ [ServerNext]_<<vars, serverVars>> => [Next]_vars
    BY GuardStep, Parted
<1> QED BY <1>1, <1>2, ServerInvariance, PTL DEF ServerSpec, Spec

\* A first request of a token that was not used before is let in, with all that serve does
\* around the guard.
THEOREM FirstRequestOpens == ServerSpec => FirstUseOpens
<1> QED BY UsesGuard, FirstUse, PTL

\* A token has a part in at most one session, although pairs and packets do not ask the guard.
THEOREM OneSession == ServerSpec => []OneSessionPerToken
<1>1. Inv => OneSessionPerToken
    <2> SUFFICES ASSUME Inv, NEW t \in Tokens PROVE sessions[t] <= 1
        BY DEF OneSessionPerToken
    <2>1. sessions[t] \in Nat /\ used[t] \in Nat /\ used[t] <= 1 /\ sessions[t] <= used[t]
        BY Parted DEF Inv, GuardInv, TypeOK, UsedOnce, ServerTypeOK, TablesKnown
    <2> QED BY <2>1
<1> QED BY <1>1, ServerInvariance, PTL

\* An honest client fails only when its key was revoked, its token's hour is over, or a
\* repeated request was the first to show its token or came between its own under its pid, as
\* Crosses says; every other repeated request is harmless to it.
THEOREM HonestServed == ServerSpec => []HonestNotRefused
<1>1. Inv => HonestNotRefused
    <2> SUFFICES ASSUME Inv, NEW c \in Honest, client[c] = "refused" PROVE Settled(c)
        BY DEF HonestNotRefused, Settled
    <2> QED BY Parted DEF Stages, Stage, Waiting
<1> QED BY <1>1, ServerInvariance, PTL
=============================================================================
