-------------------------- MODULE ClientSupervisor --------------------------
(***************************************************************************)
(* The client's supervising task, client.rs `run` with `rotate_carrier`:   *)
(* one loop that polls the ConnectionManager, dials, watches the tunnel    *)
(* and rotates the CarrierPool, next to the reference prober task, the     *)
(* stop signal and the tunnels it has abandoned.                           *)
(*                                                                         *)
(* Every await of the task is a step of its own; a sleep moves the clock.  *)
(* pc says where the task is:                                              *)
(*   start, top, act       before the loop, at its head, after mgr.poll()  *)
(*   dialing               inside establish                                *)
(*   monitor ... assess    the monitoring loop and the parts of its tick   *)
(*   drop, drop_switch, drop_stop   after it, by what broke it             *)
(*   rotate, select        inside rotate_carrier                           *)
(*   stopped, error        run has returned                                *)
(***************************************************************************)
EXTENDS ConnectionManager, CarrierPool

CONSTANTS
    MaxFailures,    \* MAX_CONNECT_FAILURES
    MonitorTick,    \* MONITOR_TICK_MS
    MinPause,       \* the 50 ms floor of a wait
    CapacityPause,  \* 500 ms
    FrozenPause,    \* 1000 ms
    CoolingPause,   \* the 1000 ms floor of the wait for a carrier
    Setups,         \* the ways the client is started
    Fragile,        \* carriers on which resolve_from_profile may fail
    AlwaysUp,       \* carriers to which establish always succeeds
    DialTime,       \* bound: the longest dial
    Horizon,        \* bound: no new iteration starts after this time
    RecoveryTime    \* time the supervisor is given to reach a carrier that is up

VARIABLES
    pc,           \* where the task is
    conn,         \* the carrier of `conn: CarrierConn`
    fail_streak,  \* failed dials in a row
    state,        \* LinkState shown by the Reporter
    stop,         \* the watch channel holds true
    abandoned,    \* a tunnel left without being closed is still running
    setup         \* never changes: pooled (Source::Pool rather than Source::Env) and
                  \* prober (a reference host is configured)

mgrVars == <<budget, detector, freeze, verdict, link, history>>
runVars == <<pc, conn, fail_streak, state>>
supervisorVars == <<now, mgrVars, pool, runVars, stop, abandoned, setup>>

ASSUME SupervisorAssumption ==
    /\ MaxFailures \in Nat \ {0}
    /\ {MonitorTick, MinPause, CapacityPause, FrozenPause, CoolingPause} \subseteq Nat \ {0}
    /\ Setups \subseteq [pooled : BOOLEAN, prober : BOOLEAN]
    /\ Carriers # {} /\ Fragile \subseteq Carriers /\ AlwaysUp \subseteq Carriers
    /\ DialTime \in Nat /\ Horizon \in Nat /\ RecoveryTime \in Nat

Pcs == {"start", "top", "act", "dialing", "monitor", "traffic", "reference", "assess",
        "drop", "drop_switch", "drop_stop", "rotate", "select", "stopped", "error"}

LinkStates == {"idle", "connecting", "up", "frozen", "switching", "stopped", "error"}

SupervisorTypeOK ==
    /\ TypeOK /\ PoolTypeOK
    /\ pc \in Pcs /\ conn \in Carriers \cup {NoCarrier}
    /\ fail_streak \in 0..MaxFailures /\ state \in LinkStates
    /\ stop \in BOOLEAN /\ abandoned \in BOOLEAN /\ setup \in Setups

Goto(p) == pc' = p
Show(s) == state' = s

\* A sleep of d ms; the task does nothing else meanwhile.
Sleep(d) ==
    /\ now' = now + d
    /\ UNCHANGED <<mgrVars, pool, conn, stop, abandoned, setup>>

-----------------------------------------------------------------------------
SupervisorInit ==
    /\ Init /\ PoolInit
    /\ pc = "start" /\ conn = NoCarrier /\ fail_streak = 0 /\ state = "idle"
    /\ stop = FALSE /\ abandoned = FALSE
    /\ setup \in Setups

\* An error of resolve_from_profile, wherever it is called, or of bind is fatal for run.
Fatal == Goto("error") /\ Show("error")

\* Select the first carrier (or take the environment's), resolve it and bind the SOCKS
\* address; the address may be taken whatever the carrier.
Start ==
    /\ pc = "start"
    /\ IF setup.pooled THEN Select ELSE UNCHANGED pool
    /\ conn' = IF setup.pooled THEN current' ELSE CHOOSE c \in Carriers : TRUE
    /\ \/ Goto("top") /\ UNCHANGED state
       \/ Fatal
    /\ UNCHANGED <<now, mgrVars, fail_streak, stop, abandoned, setup>>

StopAtTop ==
    /\ pc = "top" /\ stop
    /\ Goto("stopped") /\ Show("stopped")
    /\ UNCHANGED <<now, mgrVars, pool, conn, fail_streak, stop, abandoned, setup>>

PollTop ==
    /\ pc = "top" /\ ~stop /\ now < Horizon
    /\ Poll
    /\ Goto("act")
    /\ UNCHANGED <<pool, conn, fail_streak, state, stop, abandoned, setup>>

\* Wait(ms), NetworkDown(ms), AtCapacity and Frozen all sleep and poll again.
PauseLength ==
    CASE verdict = "at_capacity" -> CapacityPause
      [] verdict = "frozen" -> FrozenPause
      [] OTHER -> Later(IF AtCapacity THEN 0 ELSE next_allowed - now, MinPause)

Pause ==
    /\ pc = "act" /\ verdict # "connect" /\ ~stop
    /\ Sleep(PauseLength)
    /\ Goto("top") /\ UNCHANGED <<fail_streak, state>>

StopInPause ==
    /\ pc = "act" /\ verdict # "connect" /\ stop
    /\ Goto("stopped") /\ Show("stopped")
    /\ UNCHANGED <<now, mgrVars, pool, conn, fail_streak, stop, abandoned, setup>>

Dial ==
    /\ pc = "act"
    /\ NoteAttempt
    /\ Goto("dialing") /\ Show("connecting")
    /\ UNCHANGED <<pool, conn, fail_streak, stop, abandoned, setup>>

\* establish has no timeout of its own and does not watch the stop signal.
DialTakesTime ==
    /\ pc = "dialing" /\ now - paced_at < DialTime
    /\ Sleep(1)
    /\ UNCHANGED <<pc, fail_streak, state>>

DialOk ==
    /\ pc = "dialing"
    /\ NoteSuccess
    /\ MarkHealthy
    /\ fail_streak' = 0
    /\ Goto("monitor") /\ Show("up")
    /\ UNCHANGED <<conn, stop, abandoned, setup>>

\* Mutant: a carrier that cannot be reached is never changed.
DialFailStays ==
    /\ pc = "dialing" /\ conn \notin AlwaysUp
    /\ NoteFailure
    /\ fail_streak' = 0
    /\ Goto("top") /\ UNCHANGED state
    /\ UNCHANGED <<pool, conn, stop, abandoned, setup>>

\* Mutant: the first failed dial changes the carrier.
DialFailRotates ==
    /\ pc = "dialing" /\ conn \notin AlwaysUp
    /\ NoteFailure
    /\ fail_streak' = fail_streak + 1
    /\ Goto("rotate") /\ Show("switching")
    /\ UNCHANGED <<pool, conn, stop, abandoned, setup>>

DialFail ==
    /\ pc = "dialing" /\ conn \notin AlwaysUp
    /\ NoteFailure
    /\ fail_streak' = fail_streak + 1
    /\ \/ fail_streak' < MaxFailures /\ Goto("top") /\ UNCHANGED state
       \/ fail_streak' >= MaxFailures /\ Goto("rotate") /\ Show("switching")
    /\ UNCHANGED <<pool, conn, stop, abandoned, setup>>

-----------------------------------------------------------------------------
(* The monitoring loop: every MONITOR_TICK_MS the byte counters, the prober's *)
(* flag and a poll; the loop ends on stop, on the reader's end or on Frozen.  *)

MonitorSleep ==
    /\ pc = "monitor" /\ ~stop /\ now < Horizon
    /\ Sleep(MonitorTick)
    /\ Goto("traffic") /\ UNCHANGED <<fail_streak, state>>

\* Received bytes win over sent ones; neither counter may have moved.
Traffic ==
    /\ pc = "traffic"
    /\ NoteRecv \/ NoteSent \/ UNCHANGED <<now, mgrVars>>
    /\ Goto("reference")
    /\ UNCHANGED <<pool, conn, fail_streak, state, stop, abandoned, setup>>

\* The flag holds whatever the prober task, running at its own pace, stored last.
Reference ==
    /\ pc = "reference"
    /\ IF setup.prober
          THEN \E reachable \in BOOLEAN : NoteReference(reachable)
          ELSE UNCHANGED <<now, mgrVars>>
    /\ Goto("assess")
    /\ UNCHANGED <<pool, conn, fail_streak, state, stop, abandoned, setup>>

\* On Frozen the loop is left, but nothing closes the tunnel: its reader, writer and
\* cadence tasks go on.
Assess ==
    /\ pc = "assess"
    /\ Poll
    /\ \/ verdict' # "frozen" /\ Goto("monitor") /\ UNCHANGED <<state, abandoned>>
       \/ /\ verdict' = "frozen"
          /\ Goto(IF Then' = "switch_profile" THEN "drop_switch" ELSE "drop")
          /\ Show("frozen") /\ abandoned' = TRUE
    /\ UNCHANGED <<pool, conn, fail_streak, stop, setup>>

ReaderDone ==
    /\ pc = "monitor"
    /\ Goto("drop")
    /\ UNCHANGED <<now, mgrVars, pool, conn, fail_streak, state, stop, abandoned, setup>>

\* Mutant: the wake-up by the stop signal is taken for a tick.
MonitorIgnoresStop ==
    /\ pc = "monitor" /\ stop
    /\ Goto("traffic")
    /\ UNCHANGED <<now, mgrVars, pool, conn, fail_streak, state, stop, abandoned, setup>>

StopInMonitor ==
    /\ pc = "monitor" /\ stop
    /\ Goto("drop_stop")
    /\ UNCHANGED <<now, mgrVars, pool, conn, fail_streak, state, stop, abandoned, setup>>

Drop ==
    /\ NoteDrop
    /\ \/ pc = "drop" /\ Goto("top") /\ UNCHANGED state
       \/ pc = "drop_switch" /\ Goto("rotate") /\ Show("switching")
       \/ pc = "drop_stop" /\ Goto("stopped") /\ Show("stopped")
    /\ UNCHANGED <<pool, conn, fail_streak, stop, abandoned, setup>>

-----------------------------------------------------------------------------
(* rotate_carrier *)

\* build_manager: everything but the elapsed time and the history starts afresh.
FreshManager ==
    /\ link = "idle"
    /\ active' = 0 /\ next_allowed' = 0 /\ attempt' = 0
    /\ unacked_since' = None /\ last_ok' = None /\ last_bad' = None
    /\ strikes' = 0 /\ silent_until' = None
    /\ verdict' = "none" /\ paced_at' = None /\ probed' = FALSE
    /\ UNCHANGED <<now, link, quiet_until>>

\* Mutant: the manager is rebuilt although there is no pool.
RotateRebuilds ==
    /\ pc = "rotate"
    /\ \/ ~setup.pooled /\ Goto("top") /\ fail_streak' = 0 /\ UNCHANGED pool /\ FreshManager
       \/ /\ setup.pooled /\ Goto("select") /\ MarkFailed
          /\ UNCHANGED <<now, mgrVars, fail_streak>>
    /\ UNCHANGED <<conn, state, stop, abandoned, setup>>

\* Without a pool there is nothing to rotate; with one, the current carrier cools.
RotateMarkFailed ==
    /\ pc = "rotate"
    /\ \/ ~setup.pooled /\ Goto("top") /\ fail_streak' = 0 /\ UNCHANGED pool
       \/ setup.pooled /\ Goto("select") /\ MarkFailed /\ UNCHANGED fail_streak
    /\ UNCHANGED <<now, mgrVars, conn, state, stop, abandoned, setup>>

\* Mutant: the selected profile is not resolved into conn.
SelectKeepsConn ==
    /\ pc = "select" /\ Available # {}
    /\ Select
    /\ \/ /\ UNCHANGED conn
          /\ FreshManager
          /\ fail_streak' = 0
          /\ Goto("top") /\ UNCHANGED state
       \/ /\ current' \in Fragile
          /\ Fatal
          /\ UNCHANGED <<conn, mgrVars, fail_streak>>
    /\ UNCHANGED <<now, stop, abandoned, setup>>

RotateSelect ==
    /\ pc = "select" /\ Available # {}
    /\ Select
    /\ \/ /\ conn' = current'
          /\ FreshManager
          /\ fail_streak' = 0
          /\ Goto("top") /\ UNCHANGED state
       \/ /\ current' \in Fragile
          /\ Fatal
          /\ UNCHANGED <<conn, mgrVars, fail_streak>>
    /\ UNCHANGED <<now, stop, abandoned, setup>>

\* Every carrier is cooling: sleep, deaf to stop, and go on with conn as it was.
RotateCooling ==
    /\ pc = "select" /\ Available = {}
    /\ Sleep(Later(NextAvailable - now, CoolingPause))
    /\ fail_streak' = 0
    /\ Goto("top") /\ UNCHANGED state

-----------------------------------------------------------------------------
(* The surroundings: the user and the tunnels left behind. *)

RequestStop ==
    /\ ~stop /\ stop' = TRUE
    /\ UNCHANGED <<now, mgrVars, pool, runVars, abandoned, setup>>

\* The far end or the operating system finally gives the abandoned tunnels up.
AbandonedEnds ==
    /\ abandoned /\ abandoned' = FALSE
    /\ UNCHANGED <<now, mgrVars, pool, runVars, stop, setup>>

DialReturns == DialOk \/ DialFail

TaskStep ==
    \/ Start \/ StopAtTop \/ PollTop \/ Pause \/ StopInPause \/ Dial
    \/ MonitorSleep \/ Traffic \/ Reference \/ Assess \/ StopInMonitor \/ Drop
    \/ RotateMarkFailed \/ RotateSelect \/ RotateCooling

SupervisorNext ==
    \/ TaskStep \/ DialReturns \/ DialTakesTime \/ ReaderDone
    \/ RequestStop \/ AbandonedEnds

SupervisorSpec == SupervisorInit /\ [][SupervisorNext]_supervisorVars

\* The runtime schedules the task and its timers fire.
TaskFairness == WF_supervisorVars(TaskStep)

\* Assumed of the network: a dial eventually succeeds or fails.
DialFairness == WF_supervisorVars(DialReturns)

FairSpec == SupervisorSpec /\ TaskFairness /\ DialFairness

-----------------------------------------------------------------------------
(* Properties *)

\* The pool's bookkeeping is about the carrier really in use: what is marked healthy or
\* failed is the carrier that was dialed.
PoolTracksConn == pc \notin {"start", "error"} /\ current # NoCarrier => conn = current

\* A carrier is sent to cool only for cause: MAX_CONNECT_FAILURES dials in a row failed
\* or the detector has counted three strikes against it, with no answer in between.
CooldownDeserved ==
    [][\A c \in Carriers :
          falls'[c] > falls[c] => c = conn /\ (fail_streak >= MaxFailures \/ strikes >= 3)]_supervisorVars

\* A stop request ends the task from wherever it is (given that dials return).
StopHonoured == stop ~> pc \in {"stopped", "error"}

\* However carriers fail, drop and freeze, the supervisor is back on a tunnel within
\* RecoveryTime as long as one carrier takes dials: neither the pauses of the manager
\* nor the cooldowns of the pool can lock it out.
Recovers == (pc = "top" /\ now + RecoveryTime <= Horizon) ~> (pc = "monitor" \/ stop)

\* Without a pool the silence after a strike holds through the whole loop: drops, failed
\* dials and fruitless rotations do not end it early.
SilenceWithoutPool == [][Dials /\ ~setup.pooled => now >= quiet_until]_supervisorVars

\* budget.rs:5: no more than max_conns connections at a time.
ConnectionsWithinBudget == [][link = "dialing" /\ link' = "up" /\ MaxConns = 1 => ~abandoned]_supervisorVars
=============================================================================
