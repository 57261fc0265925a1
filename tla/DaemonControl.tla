--------------------------- MODULE DaemonControl ----------------------------
(***************************************************************************)
(* Starting and stopping the daemons of one user on one host: the start of *)
(* run_daemon and its end, stop_daemon, status_daemon and the resolution   *)
(* of the current sid of src/src/runtime.rs, and the start and stop        *)
(* commands of src/src/main.rs.  Each sid has a directory with a pid file  *)
(* and a stop file, a marker names the current sid; nothing is locked, and *)
(* any daemon may be killed between two steps.  Daemons exclude each other *)
(* by the two addresses they listen at and by nothing else: those of one   *)
(* sid may be given different ones, those of two sids the same.            *)
(***************************************************************************)
EXTENDS Naturals, FiniteSets

CONSTANTS
    Pid,            \* the process ids, each free or in use
    Stopper,        \* the stop commands
    Sid,            \* the sids that are used
    Listen,         \* Listen[n]: the pairs [http, udp] of addresses that daemons of
                    \* sid n are started with (http_listen_addr, udp_announce_addr)
    Sanitized,      \* Sanitized[n]: name n with "_" for what a file name may not have
    None, Empty,    \* no file (pid, value), an empty file
    Garbled,        \* the text of a marker that two daemons wrote over each other
    Foreground,     \* whether start skips the status check (--foreground)
    MaxStarts       \* a bound on the processes that start

Dir == {Sanitized[n] : n \in Sid}

ASSUME ControlAssumption ==
    /\ {None, Empty} \cap (Pid \cup Sid \cup Dir) = {}
    /\ \A n \in Sid : \A l \in Listen[n] : l = [http |-> l.http, udp |-> l.udp]
    /\ Sid \cup Dir \cup {Garbled} \subseteq DOMAIN Sanitized
    /\ \A d \in Dir : Sanitized[d] = d
    /\ Foreground \in BOOLEAN
    /\ MaxStarts \in Nat

VARIABLES
    process,    \* process[i]: "none", "daemon" or "other"
    sid,        \* sid[i]: the sid of daemon i
    listen,     \* listen[i]: the addresses daemon i was started with
    pc,         \* pc[i]: where daemon i is in run_daemon
    signalled,  \* the processes that were sent a SIGTERM
    pidFile,    \* pidFile[d]: None, Empty or the pid in the file of directory d
    stopFile,   \* stopFile[d]: whether the stop file exists
    oldStop,    \* the daemons whose stop file is older than their sockets (history)
    marker,     \* the current sid: None, Empty or the text in the file
    stop,       \* stop[s]: where stop command s is in stop_daemon
    about,      \* about[s]: the sid that s is about
    target,     \* target[s]: the pid that s found in the pid file
    starts,     \* how many processes have started
    recycled,   \* the pids that went to a new process while a pid file or a stop
                \* command still meant an earlier one (history)
    rivals      \* the daemons beside which another one with the same directory got
                \* its sockets, at addresses of its own (history)

vars == <<process, sid, listen, pc, signalled, pidFile, stopFile, oldStop, marker, stop,
          about, target, starts, recycled, rivals>>
table == <<process, sid, listen, signalled, starts, recycled, rivals>>
command == <<stop, about, target>>

Exists(i) == process[i] # "none"

\* Variant: every name becomes the same.
sanitize_for_file_blunt(n) == CHOOSE d \in Dir : TRUE

sanitize_for_file(n) == Sanitized[n]

\* status_daemon of a sid.
status(n) ==
    LET file == IF sanitize_for_file(n) \in Dir THEN pidFile[sanitize_for_file(n)] ELSE None
    IN  CASE file = None -> "Stopped"
          [] file = Empty -> "Error"
          [] OTHER -> IF Exists(file) THEN "Running" ELSE "StalePidFile"

\* discover_sid_from_pid_files: the name of the only directory with a pid file.
discover_sid_from_pid_files ==
    LET found == {d \in Dir : pidFile[d] # None}
    IN  IF Cardinality(found) = 1 THEN CHOOSE d \in found : TRUE ELSE None

resolve_current_sid ==
    IF marker \notin {None, Empty} THEN marker ELSE discover_sid_from_pid_files

Init ==
    /\ process = [i \in Pid |-> "none"]
    /\ sid = [i \in Pid |-> None]
    /\ pc = [i \in Pid |-> "none"]
    /\ listen = [i \in Pid |-> None]
    /\ signalled = {}
    /\ pidFile = [d \in Dir |-> None]
    /\ stopFile = [d \in Dir |-> FALSE]
    /\ oldStop = {}
    /\ marker = None
    /\ stop = [s \in Stopper |-> "idle"]
    /\ about = [s \in Stopper |-> None]
    /\ target = [s \in Stopper |-> None]
    /\ starts = 0
    /\ recycled = {}
    /\ rivals = {}

\* The directory of daemon i and of command s.
dir(i) == sanitize_for_file(sid[i])
stopDir(s) == sanitize_for_file(about[s])

\* The stop file of directory d is new, or it is gone.
Renewed(d) == {i \in oldStop : dir(i) # d}

-----------------------------------------------------------------------------
(* The process table                                                       *)

\* The process ends; its sockets are closed.
Ends(i) ==
    /\ process' = [process EXCEPT ![i] = "none"]
    /\ sid' = [sid EXCEPT ![i] = None]
    /\ listen' = [listen EXCEPT ![i] = None]
    /\ pc' = [pc EXCEPT ![i] = "none"]
    /\ signalled' = signalled \ {i}
    /\ rivals' = rivals \ {i}
    /\ UNCHANGED <<starts, recycled>>

\* It ends without a word: no file is removed.
EndsAtOnce(i) ==
    /\ Ends(i)
    /\ oldStop' = oldStop \ {i}
    /\ UNCHANGED <<pidFile, stopFile, marker, command>>

\* A crash, a kill from outside, or an error that ends run_daemon,
Dies(i) == Exists(i) /\ EndsAtOnce(i)

\* or the SIGTERM of a stop command, which the program does not handle.
Terminated(i) == i \in signalled /\ process[i] = "daemon" /\ EndsAtOnce(i)

\* Pid i goes to a new process.
Begins(i, what) ==
    /\ ~Exists(i)
    /\ starts < MaxStarts
    /\ starts' = starts + 1
    /\ process' = [process EXCEPT ![i] = what]
    /\ recycled' = IF \/ \E d \in Dir : pidFile[d] = i
                      \/ \E s \in Stopper : target[s] = i
                   THEN recycled \cup {i} ELSE recycled
    /\ UNCHANGED <<signalled, pidFile, stopFile, oldStop, marker, command, rivals>>

\* An unrelated process begins.
OtherStarts(i) == Begins(i, "other") /\ UNCHANGED <<sid, listen, pc>>

-----------------------------------------------------------------------------
(* start and run_daemon                                                    *)

\* main, the start command: it refuses when the daemon seems to be running
\* or the pid file cannot be parsed, and spawns the daemon otherwise.
Spawn(i, n, l) ==
    /\ Foreground \/ status(n) \in {"Stopped", "StalePidFile"}
    /\ Begins(i, "daemon")
    /\ sid' = [sid EXCEPT ![i] = n]
    /\ listen' = [listen EXCEPT ![i] = l]
    /\ pc' = [pc EXCEPT ![i] = "bind_http"]

\* Variant: the sockets are closed before the clean-up.
Holds_until_cleanup(i) ==
    LET after == {"rm_stop", "open_pid", "write_pid", "open_marker", "write_marker", "loop"}
    IN  {<<"tcp", listen[i].http>> : q \in {pc[i]} \cap (after \cup {"bind_udp"})}
        \cup {<<"udp", listen[i].udp>> : q \in {pc[i]} \cap after}

\* The sockets of process i.
Holds(i) ==
    {<<"tcp", listen[i].http>> : q \in {pc[i]} \ {"none", "bind_http"}}
    \cup {<<"udp", listen[i].udp>> : q \in {pc[i]} \ {"none", "bind_http", "bind_udp"}}

Taken(a) == \E j \in Pid : a \in Holds(j)

\* TcpListener::bind
BindHttp(i) ==
    /\ pc[i] = "bind_http"
    /\ ~Taken(<<"tcp", listen[i].http>>)
    /\ pc' = [pc EXCEPT ![i] = "bind_udp"]
    /\ UNCHANGED <<table, pidFile, stopFile, oldStop, marker, command>>

\* Variant: a start that fails tidies up as if it had run.
BindHttpFails_tidies(i) ==
    /\ pc[i] = "bind_http"
    /\ Taken(<<"tcp", listen[i].http>>)
    /\ Ends(i)
    /\ pidFile' = [pidFile EXCEPT ![dir(i)] = None]
    /\ oldStop' = oldStop \ {i}
    /\ UNCHANGED <<stopFile, marker, command>>

\* The address is in use: RuntimeError::BindHttp.
BindHttpFails(i) ==
    /\ pc[i] = "bind_http"
    /\ Taken(<<"tcp", listen[i].http>>)
    /\ EndsAtOnce(i)

\* The daemons with the directory of i that neither address of i keeps out.
Beside(i) ==
    {j \in Pid \ {i} :
        /\ pc[j] \notin {"none", "bind_http", "bind_udp"}
        /\ dir(j) = dir(i)
        /\ listen[j].http # listen[i].http /\ listen[j].udp # listen[i].udp}

\* UdpSocket::bind; nothing else excludes another daemon.
BindUdp(i) ==
    /\ pc[i] = "bind_udp"
    /\ ~Taken(<<"udp", listen[i].udp>>)
    /\ pc' = [pc EXCEPT ![i] = "rm_stop"]
    /\ oldStop' = IF stopFile[dir(i)] THEN oldStop \cup {i} ELSE oldStop
    /\ rivals' = IF Beside(i) = {} THEN rivals ELSE rivals \cup Beside(i) \cup {i}
    /\ UNCHANGED <<process, sid, listen, signalled, starts, recycled, pidFile, stopFile,
                   marker, command>>

\* RuntimeError::BindUdp
BindUdpFails(i) ==
    /\ pc[i] = "bind_udp"
    /\ Taken(<<"udp", listen[i].udp>>)
    /\ EndsAtOnce(i)

\* Variant: the stop file from before is left where it is.
RemoveOldStop_skipped(i) ==
    /\ pc[i] = "rm_stop"
    /\ pc' = [pc EXCEPT ![i] = "open_pid"]
    /\ UNCHANGED <<table, pidFile, stopFile, oldStop, marker, command>>

\* A stop file from before is removed.
RemoveOldStop(i) ==
    /\ pc[i] = "rm_stop"
    /\ stopFile' = [stopFile EXCEPT ![dir(i)] = FALSE]
    /\ oldStop' = Renewed(dir(i))
    /\ pc' = [pc EXCEPT ![i] = "open_pid"]
    /\ UNCHANGED <<table, pidFile, marker, command>>

\* write_control_file of the pid file: open with create and truncate,
OpenPidFile(i) ==
    /\ pc[i] = "open_pid"
    /\ pidFile' = [pidFile EXCEPT ![dir(i)] = Empty]
    /\ pc' = [pc EXCEPT ![i] = "write_pid"]
    /\ UNCHANGED <<table, stopFile, oldStop, marker, command>>

\* then write, sync and set_permissions,
WritePidFile(i) ==
    /\ pc[i] = "write_pid"
    /\ pidFile[dir(i)] # None
    /\ pidFile' = [pidFile EXCEPT ![dir(i)] = i]
    /\ pc' = [pc EXCEPT ![i] = "open_marker"]
    /\ UNCHANGED <<table, stopFile, oldStop, marker, command>>

\* which fails when a stop command removed the file meanwhile.
WritePidFileFails(i) ==
    /\ pc[i] = "write_pid"
    /\ pidFile[dir(i)] = None
    /\ EndsAtOnce(i)

\* set_current_sid, the same way; nobody removes the marker.
OpenMarker(i) ==
    /\ pc[i] = "open_marker"
    /\ marker' = Empty
    /\ pc' = [pc EXCEPT ![i] = "write_marker"]
    /\ UNCHANGED <<table, pidFile, stopFile, oldStop, command>>

\* What another daemon has written since the marker was opened is overwritten
\* from the start, not necessarily to its end.
WriteMarker(i) ==
    /\ pc[i] = "write_marker"
    /\ marker' \in {sid[i]} \cup (IF marker \in {Empty, sid[i]} THEN {} ELSE {Garbled})
    /\ pc' = [pc EXCEPT ![i] = "loop"]
    /\ UNCHANGED <<table, pidFile, stopFile, oldStop, command>>

\* The loop finds the stop file at the end of an iteration.
SeeStop(i) ==
    /\ pc[i] = "loop"
    /\ stopFile[dir(i)]
    /\ pc' = [pc EXCEPT ![i] = "cleanup_pid"]
    /\ UNCHANGED <<table, pidFile, stopFile, oldStop, marker, command>>

RemovePidFile(i) ==
    /\ pc[i] = "cleanup_pid"
    /\ pidFile' = [pidFile EXCEPT ![dir(i)] = None]
    /\ pc' = [pc EXCEPT ![i] = "cleanup_stop"]
    /\ UNCHANGED <<table, stopFile, oldStop, marker, command>>

\* The stop file goes last; run_daemon returns and closes its sockets.
RemoveStopFile(i) ==
    /\ pc[i] = "cleanup_stop"
    /\ stopFile' = [stopFile EXCEPT ![dir(i)] = FALSE]
    /\ oldStop' = Renewed(dir(i))
    /\ Ends(i)
    /\ UNCHANGED <<pidFile, marker, command>>

-----------------------------------------------------------------------------
(* stop                                                                    *)

\* resolve_control_sid: the sid of the arguments or the environment, or the
\* current one.  Without any the command ends here.
Resolve(s) ==
    /\ stop[s] = "idle"
    /\ about' \in {[about EXCEPT ![s] = n] : n \in Sid \cup ({resolve_current_sid} \ {None})}
    /\ stop' = [stop EXCEPT ![s] = "status"]
    /\ UNCHANGED <<table, pc, pidFile, stopFile, oldStop, marker, target>>

\* The command ends.
Returns(s) ==
    /\ stop' = [stop EXCEPT ![s] = "idle"]
    /\ about' = [about EXCEPT ![s] = None]
    /\ target' = [target EXCEPT ![s] = None]

\* Variant: a missing pid file is handled like a stale one.
ReadStatus_any(s) ==
    /\ stop[s] = "status"
    /\ \E d \in {stopDir(s)} \cap Dir :
        target' = [target EXCEPT ![s] = pidFile[d]]
    /\ stop' = [stop EXCEPT ![s] = IF status(about[s]) = "Running" THEN "open_stop" ELSE "rm_pid"]
    /\ UNCHANGED <<table, pc, pidFile, stopFile, oldStop, marker, about>>

\* status_daemon, and where its answer leads,
ReadStatus(s) ==
    /\ stop[s] = "status"
    /\ status(about[s]) \in {"Running", "StalePidFile"}
    /\ target' = [target EXCEPT ![s] = pidFile[stopDir(s)]]
    /\ stop' = [stop EXCEPT ![s] = IF status(about[s]) = "Running" THEN "open_stop" ELSE "rm_pid"]
    /\ UNCHANGED <<table, pc, pidFile, stopFile, oldStop, marker, about>>

\* or "Daemon is not running", or the error.
NotRunning(s) ==
    /\ stop[s] = "status"
    /\ status(about[s]) \in {"Stopped", "Error"}
    /\ Returns(s)
    /\ UNCHANGED <<table, pc, pidFile, stopFile, oldStop, marker>>

\* write_control_file of the stop file: open with create,
OpenStopFile(s) ==
    /\ stop[s] = "open_stop"
    /\ stopFile' = [stopFile EXCEPT ![stopDir(s)] = TRUE]
    /\ oldStop' = Renewed(stopDir(s))
    /\ stop' = [stop EXCEPT ![s] = "chmod_stop"]
    /\ UNCHANGED <<table, pc, pidFile, marker, about, target>>

\* then write, sync and set_permissions,
WroteStopFile(s) ==
    /\ stop[s] = "chmod_stop"
    /\ stopFile[stopDir(s)]
    /\ stop' = [stop EXCEPT ![s] = "wait"]
    /\ UNCHANGED <<table, pc, pidFile, stopFile, oldStop, marker, about, target>>

\* which fails, and the command with it, when a daemon has removed the file
\* meanwhile.
WriteStopFileFails(s) ==
    /\ stop[s] = "chmod_stop"
    /\ ~stopFile[stopDir(s)]
    /\ Returns(s)
    /\ UNCHANGED <<table, pc, pidFile, stopFile, oldStop, marker>>

\* The target is gone within STOP_WAIT_MILLIS: Ok(true).
Stopped(s) ==
    /\ stop[s] = "wait"
    /\ ~Exists(target[s])
    /\ Returns(s)
    /\ UNCHANGED <<table, pc, pidFile, stopFile, oldStop, marker>>

\* It is not (a sync cycle may take longer).
WaitedEnough(s) ==
    /\ stop[s] = "wait"
    /\ Exists(target[s])
    /\ stop' = [stop EXCEPT ![s] = "kill"]
    /\ UNCHANGED <<table, pc, pidFile, stopFile, oldStop, marker, about, target>>

\* Variant: stop_daemon gives up after STOP_WAIT_MILLIS.
Kill_gives_up(s) ==
    /\ stop[s] = "kill"
    /\ Exists(target[s])
    /\ Returns(s)
    /\ UNCHANGED <<table, pc, pidFile, stopFile, oldStop, marker>>

\* kill -TERM sends the signal, and stop_daemon returns Ok(true) without
\* waiting for what it does.
Kill(s) ==
    /\ stop[s] = "kill"
    /\ Exists(target[s])
    /\ signalled' = signalled \cup {target[s]}
    /\ Returns(s)
    /\ UNCHANGED <<process, sid, listen, starts, recycled, rivals, pc, pidFile, stopFile,
                   oldStop, marker>>

\* kill fails (RuntimeError::KillProcess): the target is gone by now, or the
\* pid has gone to a process of another user.
KillFails(s) ==
    /\ stop[s] = "kill"
    /\ process[target[s]] # "daemon"
    /\ Returns(s)
    /\ UNCHANGED <<table, pc, pidFile, stopFile, oldStop, marker>>

\* A stale pid file is removed, and the stop file with it.
RemoveStalePidFile(s) ==
    /\ stop[s] = "rm_pid"
    /\ pidFile' = [pidFile EXCEPT ![stopDir(s)] = None]
    /\ stop' = [stop EXCEPT ![s] = "rm_stop"]
    /\ UNCHANGED <<table, pc, stopFile, oldStop, marker, about, target>>

RemoveStaleStopFile(s) ==
    /\ stop[s] = "rm_stop"
    /\ stopFile' = [stopFile EXCEPT ![stopDir(s)] = FALSE]
    /\ oldStop' = Renewed(stopDir(s))
    /\ Returns(s)
    /\ UNCHANGED <<table, pc, pidFile, marker>>

\* An error ends the command early: the stop file cannot be opened, or another
\* process removed a file after this one had looked for it.
CommandFails(s) ==
    /\ stop[s] \in {"open_stop", "rm_pid", "rm_stop"}
    /\ Returns(s)
    /\ UNCHANGED <<table, pc, pidFile, stopFile, oldStop, marker>>

-----------------------------------------------------------------------------
DaemonStep(i) ==
    \/ BindHttp(i) \/ BindHttpFails(i) \/ BindUdp(i) \/ BindUdpFails(i)
    \/ RemoveOldStop(i) \/ OpenPidFile(i) \/ WritePidFile(i) \/ WritePidFileFails(i) \/ OpenMarker(i) \/ WriteMarker(i)
    \/ SeeStop(i) \/ RemovePidFile(i) \/ RemoveStopFile(i)

StopStep(s) ==
    \/ ReadStatus(s) \/ NotRunning(s)
    \/ OpenStopFile(s) \/ WroteStopFile(s) \/ WriteStopFileFails(s)
    \/ Stopped(s) \/ WaitedEnough(s) \/ Kill(s) \/ KillFails(s)
    \/ RemoveStalePidFile(s) \/ RemoveStaleStopFile(s) \/ CommandFails(s)

Next ==
    \/ \E i \in Pid : \/ Dies(i) \/ Terminated(i) \/ OtherStarts(i) \/ DaemonStep(i)
                      \/ \E n \in Sid : \E l \in Listen[n] : Spawn(i, n, l)
    \/ \E s \in Stopper : Resolve(s) \/ StopStep(s)

Spec == Init /\ [][Next]_vars

\* Processes that run go on, or end by a signal; nobody has to start or to stop
\* a daemon.
FairSpec ==
    /\ Spec
    /\ \A i \in Pid : WF_vars(DaemonStep(i) \/ Terminated(i))
    /\ \A s \in Stopper : WF_vars(StopStep(s))

-----------------------------------------------------------------------------
(* Properties                                                              *)

\* The type of the state.
TypeOK ==
    /\ process \in [Pid -> {"none", "daemon", "other"}]
    /\ sid \in [Pid -> Sid \cup {None}]
    /\ listen \in [Pid -> (UNION {Listen[n] : n \in Sid}) \cup {None}]
    /\ signalled \subseteq Pid /\ rivals \subseteq Pid /\ oldStop \subseteq Pid
    /\ pc \in [Pid -> {"none", "bind_http", "bind_udp", "rm_stop", "open_pid", "write_pid",
                       "open_marker", "write_marker", "loop", "cleanup_pid", "cleanup_stop"}]
    /\ pidFile \in [Dir -> Pid \cup {None, Empty}]
    /\ stopFile \in [Dir -> BOOLEAN]
    /\ marker \in Sid \cup {None, Empty, Garbled}
    /\ stop \in [Stopper -> {"idle", "status", "open_stop", "chmod_stop", "wait", "kill",
                             "rm_pid", "rm_stop"}]
    /\ about \in [Stopper -> Sid \cup Dir \cup {None, Garbled}]
    /\ target \in [Stopper -> Pid \cup {None}]
    /\ starts \in 0 .. MaxStarts
    /\ recycled \subseteq Pid

\* Sids have directories of their own.
DistinctDirs == \A m, n \in Sid : Sanitized[m] = Sanitized[n] => m = n

\* The clean-up of a daemon does not remove the pid file of another one,
\* although nothing locks the files: a later daemon with the directory does
\* not get the addresses, which are held until the files are removed.  Only a
\* daemon beside which one was started at other addresses may do it.
CleanupIsOwn ==
    \A i \in Pid \ rivals : pc[i] = "cleanup_pid" => pidFile[dir(i)] \in {i, None}

\* The clean-up of a daemon removes the "PID file for running daemon" (man.md)
\* of no other daemon.
CleanupSparesOthers ==
    \A i \in Pid : pc[i] = "cleanup_pid" => pidFile[dir(i)] \notin Pid \ {i}

\* A stop file that was left behind does not stop the next daemon: in its
\* loop a daemon only finds stop files written since it has its sockets.
StopFileIsFresh ==
    \A i \in Pid : pc[i] \in {"open_pid", "write_pid", "open_marker", "write_marker", "loop"}
        => ~(stopFile[dir(i)] /\ i \in oldStop)

\* A stop command acts on the daemon of the sid it is about (the directory's
\* name when the sid was found there), not on an unrelated process nor on the
\* daemon of another sid, whatever the marker says: unless the pid was given
\* away while the file or the command still meant its former owner.
StopSparesOthers ==
    \A s \in Stopper :
        stop[s] \in {"open_stop", "chmod_stop", "wait", "kill"} /\ target[s] \notin recycled
        /\ Exists(target[s])
        => /\ process[target[s]] = "daemon"
           /\ about[s] \in {sid[target[s]], Sanitized[sid[target[s]]]}

\* A daemon that a stop command waits for ends: it sees the stop file or gets
\* the signal, even when another command or daemon removes the file first.
\* (The command may return before that: it does not wait after the kill.)
StopTakesEffect ==
    \A i \in Pid :
        process[i] = "daemon" /\ (\E s \in Stopper : stop[s] = "wait" /\ target[s] = i)
            ~> ~Exists(i)

\* The pid file of a daemon in its loop (man.md: "PID file for running
\* daemon") is lost in two ways only: a stop command of its directory found a
\* stale file before and removes it without looking again, or another daemon
\* with its directory was started at other addresses.
PidFileKept ==
    [][\A i \in Pid \ rivals :
          pc[i] = "loop" /\ pc'[i] = "loop" /\ pidFile[dir(i)] = i /\ pidFile'[dir(i)] # i
          => \E s \in Stopper : stop[s] = "rm_pid" /\ stopDir(s) = dir(i)]_vars
=============================================================================
