---------------------------- MODULE ReplayGuard ----------------------------
(***************************************************************************)
(* One-time use of session tokens: AuthToken::verify of vlyness-core,      *)
(* ReplayGuard of replay.rs, and authorize of vlyness-carrier/http.rs,     *)
(* which concurrent connection tasks run.  A task reads the epoch clock    *)
(* and checks the tag before it takes the guard's mutex, so other tasks    *)
(* and the clock may move in between.                                      *)
(*                                                                         *)
(* A token is the pair of the epoch its tag is good for and its nonce; a   *)
(* token with a bad tag is refused before any state is touched and is left *)
(* out.  The system clock is assumed not to step back.                     *)
(***************************************************************************)
EXTENDS Integers, FiniteSets

CONSTANTS
    Tasks,        \* connection tasks of the server
    Nonces,       \* client nonces
    NoJob,        \* a task that is not between verify and observe
    KeepEpochs,   \* KEEP_EPOCHS
    MaxLag,       \* epoch changes a task may sleep through before it has the mutex
    MaxEpoch      \* bound: the epoch clock stops here

ASSUME KeepAssumption ==
    /\ KeepEpochs \in Nat /\ MaxLag \in Nat
    /\ KeepEpochs >= 3 + MaxLag

ASSUME EpochAssumption == MaxEpoch \in Nat

VARIABLES
    epoch,        \* epoch_now()
    window,       \* ReplayGuard.window: the (epoch, nonce) pairs it holds
    job,          \* per task: the token it verified and when, or NoJob
    used          \* history: per token, how many sessions it opened

vars == <<epoch, window, job, used>>

Epochs == 0..(MaxEpoch + 1)
Tokens == [epoch : Epochs, nonce : Nonces]
Jobs   == [token : Tokens, at : Epochs]

ASSUME JobAssumption == NoJob \notin Jobs

TypeOK ==
    /\ epoch \in 1..MaxEpoch
    /\ window \subseteq Tokens
    /\ job \in [Tasks -> Jobs \cup {NoJob}]
    /\ used \in [Tokens -> Nat]

-----------------------------------------------------------------------------
Init ==
    /\ epoch \in 1..MaxEpoch
    /\ window = {}
    /\ job = [k \in Tasks |-> NoJob]
    /\ used = [t \in Tokens |-> 0]

Accepted(e) == {e - 1, e, e + 1}

\* verify: the tag matches one of the epochs around now.
Verify(k, token) ==
    /\ job[k] = NoJob
    /\ token.epoch \in Accepted(epoch)
    /\ job' = [job EXCEPT ![k] = [token |-> token, at |-> epoch]]
    /\ UNCHANGED <<epoch, window, used>>

Newer(w, e) == {t.epoch : t \in {u \in w : u.epoch >= e}}

PruneTooMuch(w) == {t \in w : Cardinality(Newer(w, t.epoch)) < KeepEpochs}  \* mutant: >= for >

\* prune: the KeepEpochs newest epochs stay.
Prune(w) == {t \in w : Cardinality(Newer(w, t.epoch)) <= KeepEpochs}

\* Mutant: the guard looks at the epoch alone.
ObserveEpoch(k) ==
    /\ job[k] # NoJob
    /\ window' = Prune(window \cup {job[k].token})
    /\ used' = IF \E t \in window : t.epoch = job[k].token.epoch
               THEN used ELSE [used EXCEPT ![job[k].token] = @ + 1]
    /\ job' = [job EXCEPT ![k] = NoJob]
    /\ UNCHANGED epoch

\* observe under the mutex: insert, prune, and tell a fresh nonce from a repeated one.
Observe(k) ==
    /\ job[k] # NoJob
    /\ window' = Prune(window \cup {job[k].token})
    /\ used' = IF job[k].token \in window THEN used ELSE [used EXCEPT ![job[k].token] = @ + 1]
    /\ job' = [job EXCEPT ![k] = NoJob]
    /\ UNCHANGED epoch

\* The hour ends; no task sleeps through more than MaxLag of these.
Tick ==
    /\ epoch < MaxEpoch
    /\ \A k \in Tasks : job[k] # NoJob => epoch - job[k].at < MaxLag
    /\ epoch' = epoch + 1
    /\ UNCHANGED <<window, job, used>>

Next ==
    \/ \E k \in Tasks : Observe(k) \/ \E token \in Tokens : Verify(k, token)
    \/ Tick

Spec == Init /\ [][Next]_vars

-----------------------------------------------------------------------------
(* Properties *)

\* A token opens at most one session, however often it is presented, by however many
\* concurrent connections, and however the hour changes between its uses.
UsedOnce == \A t \in Tokens : used[t] <= 1

\* The guard never turns an honest client away: the first presentation of a token that
\* verifies opens a session.
FirstUseOpens ==
    [][\A k \in Tasks :
          job[k] # NoJob /\ job'[k] = NoJob /\ used[job[k].token] = 0
              => used'[job[k].token] = 1]_vars
=============================================================================
