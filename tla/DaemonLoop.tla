----------------------------- MODULE DaemonLoop -----------------------------
(***************************************************************************)
(* src/src/daemon.rs: the state machine that says when a daemon syncs and  *)
(* when it stops.  Its owner calls one method at a time and reads the      *)
(* clock before each call; it may call any method at any time, so that a   *)
(* sync may be reported that no call began.  (run_daemon of                *)
(* src/src/runtime.rs has a loop of its own: KeySync.)                     *)
(***************************************************************************)
EXTENDS Naturals

CONSTANTS
    sync_interval_secs, jitter_secs,
    Word,           \* 2^64: sums wrap around in a release build
    Peers,          \* the counts of peers the owner reports
    None,
    MaxTime         \* bound of the clock

ASSUME LoopAssumption ==
    /\ sync_interval_secs \in Nat /\ jitter_secs \in Nat /\ MaxTime \in Nat
    /\ Word \in Nat \ {0}
    /\ Peers \subseteq Nat
    /\ None \notin Nat

VARIABLES
    now,                            \* the clock
    mode, known_peers_count, sync_trigger_pending, next_sync_due_secs,
    in_flight_sync, last_successful_sync_at_secs, last_peer_errors,
    last_critical_error,            \* DaemonState (errors: whether there are any)
    shutdown_requested,
    owed        \* whether a trigger came since start_sync last began one (history)

vars == <<now, mode, known_peers_count, sync_trigger_pending, next_sync_due_secs,
          in_flight_sync, last_successful_sync_at_secs, last_peer_errors,
          last_critical_error, shutdown_requested, owed>>

\* sync_interval_secs.max(1) and the jitter.
Pause == (IF sync_interval_secs = 0 THEN 1 ELSE sync_interval_secs) + jitter_secs

\* Variant: a sum that does not wrap around.
Due_unbounded(t) == t + Pause

Due(t) == (t + Pause) % Word

\* DaemonLoop::new at time 0.
Init ==
    /\ now = 0
    /\ mode = "Running"
    /\ known_peers_count = 0
    /\ sync_trigger_pending = FALSE
    /\ next_sync_due_secs = Due(0)
    /\ in_flight_sync = FALSE
    /\ last_successful_sync_at_secs = None
    /\ last_peer_errors = FALSE
    /\ last_critical_error = FALSE
    /\ shutdown_requested = FALSE
    /\ owed = FALSE

Tick ==
    /\ now < MaxTime
    /\ now' = now + 1
    /\ UNCHANGED <<mode, known_peers_count, sync_trigger_pending, next_sync_due_secs,
                   in_flight_sync, last_successful_sync_at_secs, last_peer_errors,
                   last_critical_error, shutdown_requested, owed>>

set_known_peers_count ==
    /\ known_peers_count' \in Peers
    /\ UNCHANGED <<now, mode, sync_trigger_pending, next_sync_due_secs,
                   in_flight_sync, last_successful_sync_at_secs, last_peer_errors,
                   last_critical_error, shutdown_requested, owed>>

trigger_sync_from_discovery ==
    /\ sync_trigger_pending' = (sync_trigger_pending \/ mode = "Running")
    /\ owed' = (owed \/ mode = "Running")
    /\ UNCHANGED <<now, mode, known_peers_count, next_sync_due_secs, in_flight_sync,
                   last_successful_sync_at_secs, last_peer_errors,
                   last_critical_error, shutdown_requested>>

\* Variant: a sync that is under way is not waited for.
request_shutdown_at_once ==
    /\ shutdown_requested' = TRUE
    /\ mode' = "Stopped"
    /\ UNCHANGED <<now, known_peers_count, sync_trigger_pending, next_sync_due_secs,
                   in_flight_sync, last_successful_sync_at_secs, last_peer_errors,
                   last_critical_error, owed>>

request_shutdown ==
    /\ shutdown_requested' = TRUE
    /\ mode' = IF mode # "Stopped" /\ in_flight_sync THEN "Stopping" ELSE "Stopped"
    /\ UNCHANGED <<now, known_peers_count, sync_trigger_pending, next_sync_due_secs,
                   in_flight_sync, last_successful_sync_at_secs, last_peer_errors,
                   last_critical_error, owed>>

\* Variant: the timer is not looked at.
should_start_sync_triggered ==
    /\ mode # "Stopped" /\ ~shutdown_requested /\ ~in_flight_sync
    /\ sync_trigger_pending

should_start_sync ==
    /\ mode # "Stopped" /\ ~shutdown_requested /\ ~in_flight_sync
    /\ sync_trigger_pending \/ now >= next_sync_due_secs

\* start_sync returns true (it changes nothing when it returns false).
start_sync ==
    /\ should_start_sync
    /\ in_flight_sync' = TRUE
    /\ owed' = FALSE
    /\ UNCHANGED <<now, mode, known_peers_count, sync_trigger_pending,
                   next_sync_due_secs, last_successful_sync_at_secs,
                   last_peer_errors, last_critical_error, shutdown_requested>>

\* Variants: the mode decides, not the flag; a stop under way is not completed;
\* the timer is not set again.
Success_by_mode(errors) ==
    /\ in_flight_sync' = FALSE
    /\ sync_trigger_pending' = FALSE
    /\ last_successful_sync_at_secs' = now
    /\ last_peer_errors' = errors
    /\ last_critical_error' = FALSE
    /\ next_sync_due_secs' = Due(now)
    /\ mode' = IF mode = "Stopping" THEN "Stopped" ELSE "Running"
Success_keeps_stopping(errors) ==
    /\ in_flight_sync' = FALSE
    /\ sync_trigger_pending' = FALSE
    /\ last_successful_sync_at_secs' = now
    /\ last_peer_errors' = errors
    /\ last_critical_error' = FALSE
    /\ next_sync_due_secs' = Due(now)
    /\ mode' = IF mode = "Stopping" THEN mode
               ELSE IF shutdown_requested THEN "Stopped" ELSE "Running"
Success_no_timer(errors) ==
    /\ in_flight_sync' = FALSE
    /\ sync_trigger_pending' = FALSE
    /\ last_successful_sync_at_secs' = now
    /\ last_peer_errors' = errors
    /\ last_critical_error' = FALSE
    /\ next_sync_due_secs' = next_sync_due_secs
    /\ mode' = IF shutdown_requested THEN "Stopped" ELSE "Running"

\* finish_sync(Success): a trigger that came during the sync is cleared too.
Success(errors) ==
    /\ in_flight_sync' = FALSE
    /\ sync_trigger_pending' = FALSE
    /\ last_successful_sync_at_secs' = now
    /\ last_peer_errors' = errors
    /\ last_critical_error' = FALSE
    /\ next_sync_due_secs' = Due(now)
    /\ mode' = IF shutdown_requested THEN "Stopped" ELSE "Running"

\* finish_sync(CriticalFailure)
CriticalFailure ==
    /\ in_flight_sync' = FALSE
    /\ sync_trigger_pending' = FALSE
    /\ last_critical_error' = TRUE
    /\ mode' = "Stopped"
    /\ UNCHANGED <<next_sync_due_secs, last_successful_sync_at_secs, last_peer_errors>>

finish_sync ==
    /\ CriticalFailure \/ \E errors \in BOOLEAN : Success(errors)
    /\ UNCHANGED <<now, known_peers_count, shutdown_requested, owed>>

\* start_sync, or just the flag when it returns false; then finish_sync.
run_startup_sync ==
    /\ CriticalFailure \/ \E errors \in BOOLEAN : Success(errors)
    /\ UNCHANGED <<now, known_peers_count, shutdown_requested, owed>>

Next ==
    \/ Tick \/ set_known_peers_count \/ trigger_sync_from_discovery
    \/ request_shutdown \/ start_sync \/ finish_sync \/ run_startup_sync

Spec == Init /\ [][Next]_vars

\* The clock goes on, the owner starts the syncs that are due and ends the
\* ones it started; nobody has to trigger one or to ask for a stop.
FairSpec ==
    /\ Spec
    /\ WF_vars(Tick) /\ WF_vars(start_sync)
    /\ WF_vars(in_flight_sync /\ finish_sync)

-----------------------------------------------------------------------------
(* Properties                                                              *)

\* The type of the state.
TypeOK ==
    /\ now \in 0 .. MaxTime
    /\ mode \in {"Running", "Stopping", "Stopped"}
    /\ known_peers_count \in Peers \cup {0}
    /\ next_sync_due_secs \in 0 .. Word - 1
    /\ last_successful_sync_at_secs \in 0 .. MaxTime \cup {None}
    /\ {sync_trigger_pending, in_flight_sync, last_peer_errors, last_critical_error,
        shutdown_requested, owed} \subseteq BOOLEAN

\* A daemon says Stopped only when no sync is under way any more, and only
\* because somebody asked for it or a sync failed critically, never because
\* of the errors of peers.
StoppedForCause ==
    mode = "Stopped" => ~in_flight_sync /\ (shutdown_requested \/ last_critical_error)

\* A stopped daemon starts no sync, and a stop that was requested is final
\* whatever is called after it, even the report of a sync that succeeded.
\* One after a critical failure is undone in one way only: by finish_sync or
\* run_startup_sync with a success, which takes the error back too.
StoppedIsFinal ==
    [][mode = "Stopped" =>
        /\ ~in_flight_sync'
        /\ \/ mode' = "Stopped"
           \/ ~shutdown_requested /\ last_critical_error /\ ~last_critical_error']_vars

\* A sync that nothing triggered comes no sooner than the interval and the
\* jitter after the last one that succeeded, unless the sum overflows.
PollKeepsInterval ==
    [][(/\ in_flight_sync' /\ ~in_flight_sync /\ ~sync_trigger_pending
        /\ last_successful_sync_at_secs # None
        /\ last_successful_sync_at_secs + Pause < Word)
       => now >= last_successful_sync_at_secs + Pause]_vars

\* A daemon that is asked to stop does: at once, or after the sync under way.
ShutdownCompletes == shutdown_requested ~> mode = "Stopped"

\* finish_sync and run_startup_sync clear a trigger that came during the sync,
\* which may have read the peers before it.  It is late, not lost: start_sync
\* begins another after the trigger, when the timer runs out at the latest.
TriggerIsServed ==
    owed ~> ~owed \/ mode = "Stopped" \/ next_sync_due_secs > MaxTime
=============================================================================
