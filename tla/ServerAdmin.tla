---------------------------- MODULE ServerAdmin ----------------------------
(***************************************************************************)
(* The server process around its tunnels: the keyring and its file         *)
(* (keyring.rs), the requests of the panel that issue and revoke clients   *)
(* and the metrics it shows (admin.rs), and the handlers that count        *)
(* sessions (bin/server.rs).  The process may crash at any step and is     *)
(* started again from the file.                                            *)
(*                                                                         *)
(* A client is its id, which stands for its key too.  issue and revoke     *)
(* hold the keyring's mutex until the file is written; connections read    *)
(* the list of keys meanwhile, under a mutex of its own.                   *)
(***************************************************************************)
EXTENDS Integers, FiniteSetsExt

CONSTANTS
    Default,      \* the client seeded from server.toml
    Issued,       \* ids that rand_hex gives to issued clients
    Sids,         \* sessions
    Missing,      \* the file does not exist
    Torn,         \* the file was truncated and not written, or cannot be parsed
    MaxBytes      \* bound: bytes a session counts

ASSUME AdminAssumption == Default \notin Issued /\ MaxBytes \in Nat /\ IsFiniteSet(Sids)

VARIABLES
    process,      \* "down", "starting" or "serving"
    clients,      \* Keyring.clients: per id "none", "live" or "revoked"
    psks,         \* the PskList that connections read
    file,         \* the key file: Missing, Torn or what it holds
    keeper,       \* who holds the keyring: what it does, for which id, and the next step
    coherent,     \* never changes: profiles built from server.toml pass validate
    session,      \* per session: where its handler is
    stats,        \* per session: TunnelStats
    total,        \* tcp_total + quic_total
    closed,       \* closed_up + closed_down
    reading,      \* status_json between its two reads: the value of closed, or -1
    report,       \* the last status: bytes, active and total sessions
    told,         \* history: ids drawn so far, and those the panel was told of
    faults        \* history: "torn" after a write cut short, "refused" after a file not opened

Ids      == Issued \cup {Default}
Contents == [Ids -> {"none", "live", "revoked"}]
Free     == [op |-> "none", id |-> Default, at |-> "free"]

keys    == <<process, clients, psks, file, keeper>>
metrics == <<session, stats, total, closed, reading, report>>
history == <<told, faults>>
vars    == <<keys, coherent, metrics, history>>

ASSUME FileAssumption == Missing \notin Contents /\ Torn \notin Contents

Held == {s \in Sids : session[s] = "active"}

TypeOK ==
    /\ process \in {"down", "starting", "serving"} /\ clients \in Contents /\ psks \subseteq Ids
    /\ file \in Contents \cup {Missing, Torn} /\ coherent \in BOOLEAN
    /\ keeper \in [op : {"none", "seed", "issue", "revoke"}, id : Ids,
                   at : {"free", "open", "write", "answer"}]
    /\ session \in [Sids -> {"new", "counted", "active", "ended"}]
    /\ stats \in [Sids -> 0..MaxBytes] /\ total \in 0..Cardinality(Sids) /\ closed \in Nat
    /\ reading \in Int
    /\ report \in [bytes : Nat, active : Nat, total : Nat]
    /\ told \in [drawn : SUBSET Issued, issued : SUBSET Issued, revoked : SUBSET Ids]
    /\ faults \subseteq {"torn", "refused"}

-----------------------------------------------------------------------------
Nobody  == [id \in Ids |-> "none"]
NoStats == [s \in Sids |-> 0]
NoSessions ==
    /\ session' = [s \in Sids |-> "new"] /\ stats' = NoStats
    /\ total' = 0 /\ closed' = 0 /\ reading' = -1
    /\ report' = [bytes |-> 0, active |-> 0, total |-> 0]

Init ==
    /\ process = "down" /\ clients = Nobody /\ psks = {} /\ file = Missing /\ keeper = Free
    /\ coherent \in BOOLEAN
    /\ session = [s \in Sids |-> "new"] /\ stats = NoStats
    /\ total = 0 /\ closed = 0 /\ reading = -1
    /\ report = [bytes |-> 0, active |-> 0, total |-> 0]
    /\ told = [drawn |-> {}, issued |-> {}, revoked |-> {}] /\ faults = {}

Live(cs) == {id \in Ids : cs[id] = "live"}

\* resync: the list connections read is rebuilt from the entries that are not revoked.
Resync(cs) == clients' = cs /\ psks' = Live(cs)

Seed == [Nobody EXCEPT ![Default] = "live"]

\* Mutant: a keyring with no live client left is seeded again.
LoadedLive == IF file \in {Missing, Torn} \/ Live(file) = {} THEN Seed ELSE file

\* What load_or_seed makes of the file: a missing, unreadable or empty one is as good as none.
Loaded == IF file \in {Missing, Torn, Nobody} THEN Seed ELSE file

\* The process starts; a keyring that had to be seeded is saved at once.
Boot ==
    /\ process = "down"
    /\ Resync(Loaded)
    /\ IF Loaded = file
       THEN process' = "serving" /\ keeper' = Free
       ELSE /\ process' = "starting"
            /\ keeper' = [op |-> "seed", id |-> Default, at |-> "open"]
    /\ UNCHANGED <<file, coherent, metrics, history>>

\* Mutant: an issued client lives in memory only.
IssueUnsaved(id) ==
    /\ process = "serving" /\ keeper = Free /\ id \notin told.drawn
    /\ Resync([clients EXCEPT ![id] = "live"])
    /\ keeper' = [op |-> "issue", id |-> id, at |-> "answer"]
    /\ told' = [told EXCEPT !.drawn = @ \cup {id}]
    /\ UNCHANGED <<process, file, coherent, metrics, faults>>

\* Keyring::issue up to persist, for a request of the panel whole or cut short: a body that
\* does not parse is a client without a label.
IssueKey(id) ==
    /\ process = "serving" /\ keeper = Free /\ id \notin told.drawn
    /\ Resync([clients EXCEPT ![id] = "live"])
    /\ keeper' = [op |-> "issue", id |-> id, at |-> "open"]
    /\ told' = [told EXCEPT !.drawn = @ \cup {id}]
    /\ UNCHANGED <<process, file, coherent, metrics, faults>>

\* Keyring::revoke up to persist.
RevokeKey(id) ==
    /\ process = "serving" /\ keeper = Free /\ clients[id] = "live"
    /\ Resync([clients EXCEPT ![id] = "revoked"])
    /\ keeper' = [op |-> "revoke", id |-> id, at |-> "open"]
    /\ UNCHANGED <<process, file, coherent, metrics, history>>

\* A client revoked before: the answer is the same and nothing is saved.
RevokeAgain(id) ==
    /\ process = "serving" /\ keeper = Free /\ clients[id] = "revoked"
    /\ keeper' = [op |-> "revoke", id |-> id, at |-> "answer"]
    /\ UNCHANGED <<process, clients, psks, file, coherent, metrics, history>>

\* fs::write opens the file, which truncates it, and then writes it.
PersistOpen ==
    /\ keeper.at = "open"
    /\ file' = Torn /\ keeper' = [keeper EXCEPT !.at = "write"]
    /\ UNCHANGED <<process, clients, psks, coherent, metrics, history>>

PersistWrite ==
    /\ keeper.at = "write"
    /\ file' = clients /\ keeper' = [keeper EXCEPT !.at = "answer"]
    /\ UNCHANGED <<process, clients, psks, coherent, metrics, history>>

\* An error of either is logged, and that is all.
PersistFails ==
    /\ keeper.at \in {"open", "write"}
    /\ keeper' = [keeper EXCEPT !.at = "answer"]
    /\ faults' = faults \cup {IF keeper.at = "open" THEN "refused" ELSE "torn"}
    /\ UNCHANGED <<process, clients, psks, file, coherent, metrics, told>>

\* The mutex is released and the panel answered; an issued client whose profile does not
\* pass validate gets an error, and stays in the keyring.
Answer ==
    /\ keeper.at = "answer"
    /\ keeper' = Free /\ process' = "serving"
    /\ told' = CASE keeper.op = "issue" /\ coherent ->
                        [told EXCEPT !.issued = @ \cup {keeper.id}]
                 [] keeper.op = "revoke" -> [told EXCEPT !.revoked = @ \cup {keeper.id}]
                 [] OTHER -> told
    /\ UNCHANGED <<clients, psks, file, coherent, metrics, faults>>

\* The panel's connection is gone before the answer; the handler has done its work.
AnswerLost ==
    /\ keeper.at = "answer" /\ keeper.op # "seed"
    /\ keeper' = Free
    /\ UNCHANGED <<process, clients, psks, file, coherent, metrics, history>>

Crash ==
    /\ process # "down"
    /\ process' = "down" /\ clients' = Nobody /\ psks' = {} /\ keeper' = Free
    /\ faults' = IF keeper.at = "write" THEN faults \cup {"torn"} ELSE faults
    /\ NoSessions
    /\ UNCHANGED <<file, coherent, told>>

-----------------------------------------------------------------------------
(* Sessions and metrics *)

Same == UNCHANGED <<keys, coherent, history>>

\* session_start, for a session that some key has authorised: the totals are counted ...
SessionCounted(s) ==
    /\ process = "serving" /\ session[s] = "new" /\ psks # {}
    /\ session' = [session EXCEPT ![s] = "counted"]
    /\ total' = total + 1
    /\ UNCHANGED <<stats, closed, reading, report>> /\ Same

\* ... before the session is listed.
SessionListed(s) ==
    /\ session[s] = "counted"
    /\ session' = [session EXCEPT ![s] = "active"]
    /\ UNCHANGED <<stats, total, closed, reading, report>> /\ Same

\* The relay's tasks count; some of them may outlive the handler.
Count(s) ==
    /\ session[s] \in {"active", "ended"} /\ stats[s] < MaxBytes
    /\ stats' = [stats EXCEPT ![s] = @ + 1]
    /\ UNCHANGED <<session, total, closed, reading, report>> /\ Same

\* Mutant: the bytes are added while the session is still listed.
EndStaysListed(s) ==
    /\ session[s] = "active" /\ closed = 0
    /\ closed' = closed + stats[s]
    /\ UNCHANGED <<session, stats, total, reading, report>> /\ Same

\* session_end: the session is taken off the list and its bytes are added under one lock.
SessionEnd(s) ==
    /\ session[s] = "active"
    /\ session' = [session EXCEPT ![s] = "ended"]
    /\ closed' = closed + stats[s]
    /\ UNCHANGED <<stats, total, reading, report>> /\ Same

Bytes(S) == MapThenSumSet(LAMBDA s : stats[s], S)

\* status_json reads the closed bytes before it locks the list of sessions, and the totals
\* after it.
StatusLoad ==
    /\ process = "serving" /\ reading = -1
    /\ reading' = closed
    /\ UNCHANGED <<session, stats, total, closed, report>> /\ Same

StatusSum ==
    /\ reading # -1
    /\ report' = [bytes |-> reading + Bytes(Held), active |-> Cardinality(Held), total |-> total]
    /\ reading' = -1
    /\ UNCHANGED <<session, stats, total, closed>> /\ Same

Next ==
    \/ Boot \/ Crash
    \/ PersistOpen \/ PersistWrite \/ PersistFails \/ Answer \/ AnswerLost
    \/ \E id \in Issued : IssueKey(id)
    \/ \E id \in Ids : RevokeKey(id) \/ RevokeAgain(id)
    \/ \E s \in Sids : SessionCounted(s) \/ SessionListed(s) \/ Count(s) \/ SessionEnd(s)
    \/ StatusLoad \/ StatusSum

Spec == Init /\ [][Next]_vars

-----------------------------------------------------------------------------
(* Properties *)

\* A client whose revocation the panel was told of is never let in again, through crashes
\* and restarts; the exceptions are a file that could not be opened, whose error only goes
\* to the log, and, for the client of server.toml, a write cut short, after which the next
\* start seeds it anew.
RevokedStayOut ==
    \A id \in told.revoked \cap psks :
        "refused" \in faults \/ (id = Default /\ "torn" \in faults)

\* A client whose profile was handed out is never forgotten by a restart, unless a write
\* of the file failed or was cut short.
IssuedRemembered ==
    process = "serving" /\ faults = {} => \A id \in told.issued : clients[id] # "none"

\* No status shows more bytes than were relayed, nor more sessions at work than were ever
\* started: a session that ends or starts while the status is put together is counted once
\* or not at all.
NothingCountedTwice == report.bytes <= Bytes(Sids) /\ report.active <= report.total
=============================================================================
