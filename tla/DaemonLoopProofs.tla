-------------------------- MODULE DaemonLoopProofs --------------------------
(***************************************************************************)
(* Proofs about DaemonLoop, for every interval, jitter, word size and      *)
(* length of the run.                                                      *)
(***************************************************************************)
EXTENDS DaemonLoop, TLAPS

\* What the properties need besides the type: the mode follows the flags.
ModeFollowsFlags ==
    /\ StoppedForCause
    /\ mode = "Stopping" => in_flight_sync /\ shutdown_requested
    /\ mode = "Running" => ~shutdown_requested

\* The timer was set by the last sync that succeeded.
TimerIsSet ==
    last_successful_sync_at_secs # None =>
        next_sync_due_secs = Due(last_successful_sync_at_secs)

IInv == TypeOK /\ ModeFollowsFlags /\ TimerIsSet

\* A due time fits the word.
LEMMA DueType == ASSUME NEW t \in Nat PROVE Due(t) \in 0 .. Word - 1
  BY LoopAssumption DEF Due, Pause

\* The state after a sync that succeeded is typed.
LEMMA SuccessType ==
    ASSUME TypeOK, NEW errors \in BOOLEAN, Success(errors),
           now' = now, known_peers_count' = known_peers_count,
           shutdown_requested' = shutdown_requested,
           owed' \in BOOLEAN
    PROVE  TypeOK'
  <1>1. now \in Nat
    BY LoopAssumption DEF TypeOK
  <1>2. next_sync_due_secs' \in 0 .. Word - 1
    BY <1>1, DueType DEF Success
  <1> QED
    BY <1>1, <1>2, LoopAssumption DEF TypeOK, Success

\* The constructor leaves a state of the invariant.
LEMMA InitIInv == Init => IInv
  <1> SUFFICES ASSUME Init PROVE IInv
    OBVIOUS
  <1>1. next_sync_due_secs \in 0 .. Word - 1
    BY DueType DEF Init
  <1>2. TypeOK
    <2>1. now \in 0 .. MaxTime
      BY LoopAssumption DEF Init
    <2>2. {sync_trigger_pending, in_flight_sync, last_peer_errors, last_critical_error,
           shutdown_requested, owed} \subseteq BOOLEAN
      BY Zenon DEF Init
    <2> QED
      BY <1>1, <2>1, <2>2, Zenon DEF Init, TypeOK
  <1> QED
    BY <1>2 DEF Init, IInv, ModeFollowsFlags, StoppedForCause, TimerIsSet

\* Every call keeps the invariant.
LEMMA NextIInv == IInv /\ [Next]_vars => IInv'
  <1> SUFFICES ASSUME IInv, [Next]_vars PROVE IInv'
    OBVIOUS
  <1> USE DEF IInv, ModeFollowsFlags, StoppedForCause, TimerIsSet
  <1>1. CASE Tick
    BY <1>1, LoopAssumption DEF Tick, TypeOK
  <1>2. CASE set_known_peers_count
    BY <1>2, LoopAssumption DEF set_known_peers_count, TypeOK
  <1>3. CASE trigger_sync_from_discovery
    BY <1>3 DEF trigger_sync_from_discovery, TypeOK
  <1>4. CASE request_shutdown
    BY <1>4 DEF request_shutdown, TypeOK
  <1>5. CASE start_sync
    BY <1>5 DEF start_sync, should_start_sync, TypeOK
  <1>6. CASE finish_sync
    <2>1. CASE CriticalFailure
      BY <1>6, <2>1 DEF finish_sync, CriticalFailure, TypeOK
    <2>2. ASSUME NEW errors \in BOOLEAN, Success(errors) PROVE IInv'
      <3>1. TypeOK'
        BY <1>6, <2>2, SuccessType DEF finish_sync, TypeOK
      <3> QED
        BY <1>6, <2>2, <3>1 DEF finish_sync, Success, TypeOK
    <2> QED
      BY <1>6, <2>1, <2>2 DEF finish_sync
  <1>7. CASE run_startup_sync
    <2>1. CASE CriticalFailure
      BY <1>7, <2>1 DEF run_startup_sync, CriticalFailure, TypeOK
    <2>2. ASSUME NEW errors \in BOOLEAN, Success(errors) PROVE IInv'
      <3>1. TypeOK'
        BY <1>7, <2>2, SuccessType DEF run_startup_sync, TypeOK
      <3> QED
        BY <1>7, <2>2, <3>1 DEF run_startup_sync, Success, TypeOK
    <2> QED
      BY <1>7, <2>1, <2>2 DEF run_startup_sync
  <1>8. CASE UNCHANGED vars
    BY <1>8 DEF vars, TypeOK
  <1> QED
    BY <1>1, <1>2, <1>3, <1>4, <1>5, <1>6, <1>7, <1>8 DEF Next

\* The invariant holds throughout.
LEMMA AlwaysIInv == Spec => []IInv
  BY InitIInv, NextIInv, PTL DEF Spec

\* The state of a daemon (src/src/daemon.rs) has its type, the due time too,
\* whose sum wraps around.
THEOREM LoopTypes == Spec => []TypeOK
  <1>1. IInv => TypeOK
    BY DEF IInv
  <1> QED
    BY <1>1, AlwaysIInv, PTL

\* Whatever is called in whatever order, a daemon (src/src/daemon.rs) says
\* Stopped only when no sync is under way, and only after request_shutdown
\* or a critical failure.
THEOREM StopHasCause == Spec => []StoppedForCause
  <1>1. IInv => StoppedForCause
    BY DEF IInv, ModeFollowsFlags
  <1> QED
    BY <1>1, AlwaysIInv, PTL

\* Whatever is called in whatever order (src/src/daemon.rs), a stop that was
\* requested is final, a stopped daemon starts no sync, and only the report
\* of a sync that succeeded takes back a stop after a critical failure.
THEOREM StopIsFinal == Spec => StoppedIsFinal
  <1> DEFINE Final ==
        mode = "Stopped" =>
          /\ ~in_flight_sync'
          /\ \/ mode' = "Stopped"
             \/ ~shutdown_requested /\ last_critical_error /\ ~last_critical_error'
  <1>1. ASSUME IInv, [Next]_vars PROVE [Final]_vars
    <2> SUFFICES ASSUME mode = "Stopped", Next
                 PROVE  /\ ~in_flight_sync'
                        /\ \/ mode' = "Stopped"
                           \/ /\ ~shutdown_requested
                              /\ last_critical_error /\ ~last_critical_error'
      BY <1>1
    <2>1. ~in_flight_sync /\ (shutdown_requested \/ last_critical_error)
      BY <1>1 DEF IInv, ModeFollowsFlags, StoppedForCause
    <2>2. CASE finish_sync \/ run_startup_sync
      BY <2>1, <2>2 DEF finish_sync, run_startup_sync, CriticalFailure, Success
    <2>3. CASE Tick \/ set_known_peers_count \/ trigger_sync_from_discovery
               \/ request_shutdown \/ start_sync
      BY <2>1, <2>3 DEF Tick, set_known_peers_count, trigger_sync_from_discovery,
         request_shutdown, start_sync, should_start_sync
    <2> QED
      BY <2>2, <2>3 DEF Next
  <1> QED
    BY <1>1, AlwaysIInv, PTL DEF Spec, StoppedIsFinal

\* A sum that does not overflow is the due time itself.
LEMMA DueIsSum ==
    ASSUME NEW t \in Nat, t + Pause < Word
    PROVE  Due(t) = t + Pause
  BY LoopAssumption DEF Due, Pause

\* Only start_sync begins a sync that its caller ends later, and it looks at
\* the timer, which finish_sync and run_startup_sync (src/src/daemon.rs) set
\* from the clock whenever a sync succeeds: nothing that is called in between
\* brings the next poll forward, unless the sum overflows.
THEOREM PollsKeepInterval == Spec => PollKeepsInterval
  <1> DEFINE Kept ==
        (/\ in_flight_sync' /\ ~in_flight_sync /\ ~sync_trigger_pending
         /\ last_successful_sync_at_secs # None
         /\ last_successful_sync_at_secs + Pause < Word)
        => now >= last_successful_sync_at_secs + Pause
  <1>1. ASSUME IInv, [Next]_vars PROVE [Kept]_vars
    <2> SUFFICES ASSUME Next, in_flight_sync', ~in_flight_sync, ~sync_trigger_pending,
                        last_successful_sync_at_secs # None,
                        last_successful_sync_at_secs + Pause < Word
                 PROVE  now >= last_successful_sync_at_secs + Pause
      BY <1>1
    <2>1. start_sync
      BY DEF Next, Tick, set_known_peers_count, trigger_sync_from_discovery,
         request_shutdown, finish_sync, run_startup_sync, CriticalFailure, Success
    <2>2. last_successful_sync_at_secs \in Nat
      BY <1>1, LoopAssumption DEF IInv, TypeOK
    <2>3. next_sync_due_secs = last_successful_sync_at_secs + Pause
      BY <1>1, <2>2, DueIsSum DEF IInv, TimerIsSet
    <2> QED
      BY <2>1, <2>3 DEF start_sync, should_start_sync
  <1> QED
    BY <1>1, AlwaysIInv, PTL DEF Spec, PollKeepsInterval
=============================================================================
