------------------------- MODULE ConnectionManager -------------------------
(***************************************************************************)
(* The connection discipline of crate vlyness-discipline: Backoff,         *)
(* ConnectionBudget, BlackholeDetector and FreezeController joined by      *)
(* ConnectionManager, driven by the one sequential caller the program has  *)
(* (client.rs: poll, note_attempt, note_success or note_failure, traffic   *)
(* notes and polls while the tunnel is up, note_drop).                     *)
(*                                                                         *)
(* Times are milliseconds of the manager's monotonic clock; an absent      *)
(* Option<Millis> is None.  Every manager call reads the clock by itself,  *)
(* so the clock may advance between any two calls.                         *)
(***************************************************************************)
EXTENDS Clock

CONSTANTS
    MaxConns,      \* ConnectionBudget.max_conns
    MinInterval,   \* ConnectionBudget.min_interval_ms
    BackoffBase,   \* Backoff.base_ms
    BackoffCap,    \* Backoff.cap_ms
    Silence,       \* BlackholeDetector.silence_threshold_ms
    Fresh,         \* BlackholeDetector.reference_fresh_ms
    FirstFreeze,   \* FreezeController.first_ms
    RepeatFreeze   \* FreezeController.repeat_ms

ASSUME BudgetAssumption ==
    /\ MaxConns \in Nat \ {0}
    /\ MinInterval \in Nat
    /\ BackoffBase \in Nat
    /\ BackoffCap \in Nat

ASSUME DetectorAssumption == Silence \in Nat /\ Fresh \in Nat

ASSUME FreezeAssumption == FirstFreeze \in Nat /\ RepeatFreeze \in Nat

VARIABLES
    active,         \* budget: connections counted as open
    next_allowed,   \* budget: no attempt before this time
    attempt,        \* backoff: failures since the last success
    unacked_since,  \* detector: first unanswered send
    last_ok,        \* detector: last time the reference host answered
    last_bad,       \* detector: last time it did not
    strikes,        \* freeze: blackholes since the last recovery
    silent_until,   \* freeze: end of the silence
    verdict,        \* answer of the caller's last poll
    link,           \* the caller: "idle", "dialing" or "up"
    paced_at,       \* history: last attempt, drop or close
    quiet_until,    \* history: end of the latest silence ever imposed
    probed          \* history: a connection came up since the last strike

budget   == <<active, next_allowed, attempt>>
detector == <<unacked_since, last_ok, last_bad>>
freeze   == <<strikes, silent_until>>
history  == <<paced_at, quiet_until, probed>>
vars     == <<now, budget, detector, freeze, verdict, link, history>>

None     == -1
Times    == Nat
OptTimes == Nat \cup {None}
Verdicts == {"none", "connect", "wait", "at_capacity", "frozen", "network_down"}
Links    == {"idle", "dialing", "up"}

TypeOK ==
    /\ now \in Times
    /\ active \in Nat /\ next_allowed \in Times /\ attempt \in Nat
    /\ unacked_since \in OptTimes /\ last_ok \in OptTimes /\ last_bad \in OptTimes
    /\ strikes \in Nat /\ silent_until \in OptTimes
    /\ verdict \in Verdicts /\ link \in Links
    /\ paced_at \in OptTimes /\ quiet_until \in Times /\ probed \in BOOLEAN

-----------------------------------------------------------------------------
(* Backoff and ConnectionBudget *)

Later(a, b)   == IF a > b THEN a ELSE b
Earlier(a, b) == IF a < b THEN a ELSE b

\* next_delay: full jitter over [0, min(cap, base * 2^attempt)], both ends reachable.
BackoffWindow(n) == {d \in 0..BackoffCap : d <= BackoffBase * 2^Earlier(n, 63)}

BumpReplaces(when) == when                         \* mutant: shortens a pause
BumpAdds(when) == next_allowed + (when - now)      \* mutant: pauses add up

\* bump_next_allowed: a pause is prolonged, never shortened.
Bump(when) == Later(next_allowed, when)

WrappingDec(n) == n - 1                            \* mutant: no saturation

SatDec(n) == IF n = 0 THEN 0 ELSE n - 1

AtCapacity == active >= MaxConns

Gate ==
    IF AtCapacity THEN "at_capacity" ELSE IF now < next_allowed THEN "wait" ELSE "connect"

(* BlackholeDetector and FreezeController *)

IsFresh(mark) == mark # None /\ now - mark <= Fresh

Unanswered == unacked_since # None /\ now - unacked_since >= Silence

Health ==
    IF ~Unanswered THEN "healthy"
    ELSE IF IsFresh(last_ok) THEN "blackholed"
    ELSE IF IsFresh(last_bad) THEN "network_down"
    ELSE "suspect"

IsSilent == silent_until # None /\ now < silent_until

FlatFreezeLength(s) == FirstFreeze                 \* mutant: no escalation

FreezeLength(s) == IF s <= 1 THEN FirstFreeze ELSE RepeatFreeze

\* FreezeController::current: what to do when the silence ends.
Then == IF strikes >= 3 THEN "switch_profile" ELSE "probe"

-----------------------------------------------------------------------------
Init ==
    /\ now = 0
    /\ active = 0 /\ next_allowed = 0 /\ attempt = 0
    /\ unacked_since = None /\ last_ok = None /\ last_bad = None
    /\ strikes = 0 /\ silent_until = None
    /\ verdict = "none" /\ link = "idle"
    /\ paced_at = None /\ quiet_until = 0 /\ probed = FALSE

\* The caller acts on "connect" when idle and on "frozen" when up; it polls again otherwise.
MayPoll ==
    \/ link = "idle" /\ verdict # "connect"
    \/ link = "up" /\ verdict # "frozen"

PollFrozen ==
    /\ IsSilent
    /\ verdict' = "frozen"
    /\ UNCHANGED <<now, budget, detector, freeze, link, history>>

\* Mutant: release_all is forgotten.
TripKeepsActive ==
    /\ ~IsSilent /\ Health = "blackholed"
    /\ strikes' = strikes + 1
    /\ silent_until' = now + FreezeLength(strikes')
    /\ next_allowed' = Bump(silent_until')
    /\ unacked_since' = None
    /\ verdict' = "frozen"
    /\ quiet_until' = now + (IF strikes = 0 THEN FirstFreeze ELSE RepeatFreeze)
    /\ probed' = FALSE
    /\ UNCHANGED <<now, active, attempt, last_ok, last_bad, link, paced_at>>

\* Mutant: clear_pending is forgotten.
TripKeepsPending ==
    /\ ~IsSilent /\ Health = "blackholed"
    /\ strikes' = strikes + 1
    /\ silent_until' = now + FreezeLength(strikes')
    /\ next_allowed' = Bump(silent_until')
    /\ active' = 0
    /\ verdict' = "frozen"
    /\ quiet_until' = now + (IF strikes = 0 THEN FirstFreeze ELSE RepeatFreeze)
    /\ probed' = FALSE
    /\ UNCHANGED <<now, attempt, unacked_since, last_ok, last_bad, link, paced_at>>

\* trip, freeze_until, release_all and clear_pending, in one call.
PollTrip ==
    /\ ~IsSilent /\ Health = "blackholed"
    /\ strikes' = strikes + 1
    /\ silent_until' = now + FreezeLength(strikes')
    /\ next_allowed' = Bump(silent_until')
    /\ active' = 0
    /\ unacked_since' = None
    /\ verdict' = "frozen"
    /\ quiet_until' = now + (IF strikes = 0 THEN FirstFreeze ELSE RepeatFreeze)
    /\ probed' = FALSE
    /\ UNCHANGED <<now, attempt, last_ok, last_bad, link, paced_at>>

PollNetworkDown ==
    /\ ~IsSilent /\ Health = "network_down"
    /\ verdict' = "network_down"
    /\ UNCHANGED <<now, budget, detector, freeze, link, history>>

PollBudget ==
    /\ ~IsSilent /\ Health \in {"healthy", "suspect"}
    /\ verdict' = Gate
    /\ UNCHANGED <<now, budget, detector, freeze, link, history>>

Poll == MayPoll /\ (PollFrozen \/ PollTrip \/ PollNetworkDown \/ PollBudget)

NoteAttempt ==
    /\ link = "idle" /\ verdict = "connect"
    /\ next_allowed' = Bump(now + MinInterval)
    /\ link' = "dialing" /\ verdict' = "none" /\ paced_at' = now
    /\ UNCHANGED <<now, active, attempt, detector, freeze, quiet_until, probed>>

NoteSuccess ==
    /\ link = "dialing"
    /\ active' = active + 1 /\ attempt' = 0
    /\ link' = "up" /\ probed' = TRUE
    /\ UNCHANGED <<now, next_allowed, detector, freeze, verdict, paced_at, quiet_until>>

NoteFailure ==
    /\ link = "dialing"
    /\ \E delay \in BackoffWindow(attempt) : next_allowed' = Bump(now + delay)
    /\ attempt' = attempt + 1
    /\ link' = "idle"
    /\ UNCHANGED <<now, active, detector, freeze, verdict, history>>

NoteDrop ==
    /\ link = "up"
    /\ active' = SatDec(active)
    /\ \E delay \in BackoffWindow(attempt) :
          next_allowed' = Bump(now + Later(delay, MinInterval))
    /\ attempt' = attempt + 1
    /\ link' = "idle" /\ verdict' = "none" /\ paced_at' = now
    /\ UNCHANGED <<now, detector, freeze, quiet_until, probed>>

NoteClose ==
    /\ link = "up" /\ verdict # "frozen"
    /\ active' = SatDec(active)
    /\ next_allowed' = Bump(now + MinInterval)
    /\ link' = "idle" /\ verdict' = "none" /\ paced_at' = now
    /\ UNCHANGED <<now, attempt, detector, freeze, quiet_until, probed>>

NoteSent ==
    /\ link = "up" /\ verdict # "frozen"
    /\ unacked_since' = IF unacked_since = None THEN now ELSE unacked_since
    /\ UNCHANGED <<now, budget, last_ok, last_bad, freeze, verdict, link, history>>

NoteRecv ==
    /\ link = "up" /\ verdict # "frozen"
    /\ unacked_since' = None
    /\ strikes' = 0 /\ silent_until' = None
    /\ UNCHANGED <<now, budget, last_ok, last_bad, verdict, link, history>>

NoteReference(reachable) ==
    /\ link = "up" /\ verdict # "frozen"
    /\ last_ok'  = IF reachable THEN now ELSE last_ok
    /\ last_bad' = IF reachable THEN last_bad ELSE now
    /\ UNCHANGED <<now, budget, unacked_since, freeze, verdict, link, history>>

Advance ==
    /\ Elapse
    /\ UNCHANGED <<budget, detector, freeze, verdict, link, history>>

Next ==
    \/ Poll
    \/ NoteAttempt
    \/ NoteSuccess
    \/ NoteFailure
    \/ NoteDrop
    \/ NoteClose
    \/ NoteSent
    \/ NoteRecv
    \/ \E reachable \in BOOLEAN : NoteReference(reachable)
    \/ Advance

Spec == Init /\ [][Next]_vars

-----------------------------------------------------------------------------
(* Properties *)

Dials == link = "idle" /\ link' = "dialing"
Strikes == strikes' > strikes

\* The budget's count is exact: a connection is counted from note_success until it is
\* dropped, closed or released by a blackhole, so the capacity gate never blocks the
\* probe after a silence and never lets a second connection in.
BudgetExact == active = IF link = "up" /\ verdict # "frozen" THEN 1 ELSE 0

\* However failures, drops and freezes mix, the pause the budget has accumulated never
\* reaches further than the longest single pause: backoffs do not add up.
PauseBounded ==
    next_allowed <= now + Later(Later(BackoffCap, MinInterval), Later(FirstFreeze, RepeatFreeze))

\* No reconnect storm: a dial starts at least min_interval after the previous attempt,
\* drop or close, although the decision to dial was taken by an earlier poll.
Pacing == [][Dials => paced_at = None \/ now - paced_at >= MinInterval]_vars

\* Nothing shortens a silence: after a strike no dial starts before the window it
\* imposed has run out, whatever is noted in between.
SilenceKept == [][Dials => now >= quiet_until]_vars

\* One strike per probe: the escalation to the longer silence and to a change of
\* profile counts a second blackhole only after a new connection was established,
\* never the leftover unanswered sends of the one already punished.
StrikeNeedsProbe == [][Strikes /\ strikes > 0 => probed]_vars
=============================================================================
