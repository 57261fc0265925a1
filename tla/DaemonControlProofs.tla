------------------------ MODULE DaemonControlProofs -------------------------
(***************************************************************************)
(* Proofs about DaemonControl, for every number of pids, stop commands,    *)
(* sids, addresses and starts.                                             *)
(***************************************************************************)
EXTENDS DaemonControl, FiniteSetTheorems, TLAPS

\* Every sid has a directory of its own, which is not the one a garbled
\* marker leads to.
OwnDirs == DistinctDirs /\ Sanitized[Garbled] \notin Dir

\* The daemons of a directory are all given one of the two addresses.
OneAddress ==
    \A m, n \in Sid : Sanitized[m] = Sanitized[n] =>
        \A k \in Listen[m], l \in Listen[n] : k.http = l.http \/ k.udp = l.udp

-----------------------------------------------------------------------------
(* The inductive invariant.  The control files are locked by nothing; what *)
(* keeps daemons of one directory apart is an address they have in common. *)

\* Where a daemon has both sockets.
Holding == {"rm_stop", "open_pid", "write_pid", "open_marker", "write_marker", "loop",
            "cleanup_pid", "cleanup_stop"}

\* A daemon is where its process says.
Placed(i) ==
    pc[i] # "none" => process[i] = "daemon" /\ sid[i] \in Sid /\ listen[i] \in Listen[sid[i]]

\* An HTTP address belongs to one daemon at a time.
OneHttp ==
    \A i, j \in Pid :
        {pc[i], pc[j]} \subseteq Holding \cup {"bind_udp"} /\ i # j
            => listen[i].http # listen[j].http

\* Two daemons are in the same directory only as rivals.
Apart ==
    \A i, j \in Pid :
        {pc[i], pc[j]} \subseteq Holding /\ i # j /\ dir(i) = dir(j) => i \in rivals

\* Only stop commands and rivals touch the pid file that a daemon has written.
OwnPidFile(i) ==
    i \notin rivals /\ pc[i] \in {"open_marker", "write_marker", "loop", "cleanup_pid"}
        => pidFile[dir(i)] \in {i, None}

FreshStop(i) ==
    pc[i] \in {"open_pid", "write_pid", "open_marker", "write_marker", "loop"}
        => ~(stopFile[dir(i)] /\ i \in oldStop)

\* Pid i is still the daemon of directory d, dead, or was given away.
Means(i, d) ==
    i \in Pid /\ Exists(i) /\ i \notin recycled
        => process[i] = "daemon" /\ sid[i] \in Sid /\ dir(i) = d

\* A stop command has a sid, and once it found a pid file its directory.
Aimed(s) ==
    /\ stop[s] # "idle" => about[s] \in Sid \cup Dir \cup {Garbled}
    /\ stop[s] \notin {"idle", "status"} => stopDir(s) \in Dir /\ target[s] \in Pid
    /\ stop[s] \in {"open_stop", "chmod_stop", "wait", "kill"} => Means(target[s], stopDir(s))

IInv ==
    /\ TypeOK
    /\ \A i \in Pid : Placed(i) /\ OwnPidFile(i) /\ FreshStop(i)
    /\ OneHttp
    /\ Apart
    /\ \A d \in Dir : Means(pidFile[d], d)
    /\ \A s \in Stopper : Aimed(s)

\* What is settled about a process while it is neither started nor ended.
lasting == <<process, sid, listen, recycled, rivals>>

\* Every sid has a directory.
LEMMA DirOfSid ==
    ASSUME NEW n \in Sid
    PROVE  Sanitized[n] \in Dir
BY DEF Dir

\* A free HTTP address is that of no daemon that has bound one.
LEMMA FreeHttp ==
    ASSUME NEW h, ~Taken(<<"tcp", h>>), NEW j \in Pid, pc[j] \in Holding \cup {"bind_udp"}
    PROVE  listen[j].http # h
<1>1. <<"tcp", h>> \notin Holds(j)
  BY DEF Taken
<1>2. pc[j] \in {pc[j]} \ {"none", "bind_http"}
  BY DEF Holding
<1>3. <<"tcp", listen[j].http>> \in Holds(j)
  BY <1>2 DEF Holds
<1> QED
  BY <1>1, <1>3

\* A free UDP address is that of no daemon that has both sockets.
LEMMA FreeUdp ==
    ASSUME NEW u, ~Taken(<<"udp", u>>), NEW j \in Pid, pc[j] \in Holding
    PROVE  listen[j].udp # u
<1>1. <<"udp", u>> \notin Holds(j)
  BY DEF Taken
<1>2. pc[j] \in {pc[j]} \ {"none", "bind_http", "bind_udp"}
  BY DEF Holding
<1>3. <<"udp", listen[j].udp>> \in Holds(j)
  BY <1>2 DEF Holds
<1> QED
  BY <1>1, <1>3

\* resolve_current_sid returns a sid, the name of a directory or garbled text.
LEMMA CurrentSid ==
    ASSUME TypeOK, resolve_current_sid # None
    PROVE  resolve_current_sid \in Sid \cup Dir \cup {Garbled}
<1> DEFINE found == {d \in Dir : pidFile[d] # None}
<1>1. CASE marker \notin {None, Empty}
  BY <1>1 DEF TypeOK, resolve_current_sid
<1>2. CASE marker \in {None, Empty}
  <2>1. Cardinality(found) = 1
    BY <1>2 DEF resolve_current_sid, discover_sid_from_pid_files
  <2>2. found # {}
    BY <2>1, FS_EmptySet
  <2>3. (CHOOSE d \in found : TRUE) \in Dir
    BY <2>2
  <2> QED
    BY <1>2, <2>1, <2>3 DEF resolve_current_sid, discover_sid_from_pid_files
<1> QED
  BY <1>1, <1>2

\* Where the answer of status_daemon leads, there is a directory with a pid.
LEMMA StatusFound ==
    ASSUME TypeOK, NEW n, status(n) \in {"Running", "StalePidFile"}
    PROVE  sanitize_for_file(n) \in Dir /\ pidFile[sanitize_for_file(n)] \in Pid
<1>1. sanitize_for_file(n) \in Dir
  BY DEF status
<1> QED
  BY <1>1 DEF TypeOK, status

-----------------------------------------------------------------------------
(* Types                                                                   *)

\* The types at the start.
LEMMA TypeInit == Init => TypeOK
BY ControlAssumption DEF Init, TypeOK

\* Every step keeps the types.
LEMMA TypeStep == IInv /\ [Next]_vars => TypeOK'
<1> SUFFICES ASSUME IInv, [Next]_vars PROVE TypeOK'
  OBVIOUS
<1> USE DEF IInv
<1>1. ASSUME NEW i \in Pid, EndsAtOnce(i) \/ RemoveStopFile(i)
      PROVE  TypeOK'
  BY <1>1 DEF TypeOK, EndsAtOnce, RemoveStopFile, Renewed, Ends, command
<1>2. ASSUME NEW i \in Pid, OtherStarts(i) \/ \E n \in Sid : \E l \in Listen[n] : Spawn(i, n, l)
      PROVE  TypeOK'
  <2>1. starts' \in 0 .. MaxStarts
    BY <1>2, ControlAssumption DEF TypeOK, OtherStarts, Spawn, Begins
  <2>2. /\ process' \in [Pid -> {"none", "daemon", "other"}]
        /\ UNCHANGED <<signalled, pidFile, stopFile, oldStop, marker, rivals>>
        /\ UNCHANGED command /\ recycled' \subseteq Pid
    BY <1>2 DEF TypeOK, OtherStarts, Spawn, Begins
  <2>3. CASE OtherStarts(i)
    BY <2>1, <2>2, <2>3 DEF TypeOK, OtherStarts, command
  <2>4. ASSUME NEW n \in Sid, NEW l \in Listen[n], Spawn(i, n, l) PROVE TypeOK'
    <3>1. l \in UNION {Listen[m] : m \in Sid}
      OBVIOUS
    <3>2. listen' \in [Pid -> (UNION {Listen[m] : m \in Sid}) \cup {None}]
      BY <2>4, <3>1 DEF TypeOK, Spawn
    <3> QED
      BY <2>1, <2>2, <2>4, <3>2 DEF TypeOK, Spawn, command
  <2> QED
    BY <1>2, <2>3, <2>4
<1>3. ASSUME NEW i \in Pid, \/ BindHttp(i) \/ RemoveOldStop(i) \/ OpenPidFile(i)
                            \/ WritePidFile(i) \/ RemovePidFile(i)
      PROVE  TypeOK'
  BY <1>3 DEF TypeOK, BindHttp, RemoveOldStop, OpenPidFile, WritePidFile, RemovePidFile,
              Renewed, table, command
<1>11. ASSUME NEW i \in Pid, BindUdp(i) PROVE TypeOK'
  <2>1. rivals' \subseteq Pid /\ oldStop' \subseteq Pid
    BY <1>11 DEF TypeOK, BindUdp, Beside
  <2> QED
    BY <1>11, <2>1 DEF TypeOK, BindUdp, command
<1>4. ASSUME NEW i \in Pid, OpenMarker(i) \/ WriteMarker(i) \/ SeeStop(i)
      PROVE  TypeOK'
  BY <1>4 DEF TypeOK, OpenMarker, WriteMarker, SeeStop, table, command
<1>5. ASSUME NEW s \in Stopper, Resolve(s) PROVE TypeOK'
  <2>1. PICK n \in Sid \cup ({resolve_current_sid} \ {None}) :
          about' = [about EXCEPT ![s] = n]
    BY <1>5 DEF Resolve
  <2>2. n \in Sid \cup Dir \cup {Garbled}
    BY <2>1, CurrentSid
  <2> QED
    BY <1>5, <2>1, <2>2 DEF TypeOK, Resolve, table
<1>6. ASSUME NEW s \in Stopper, ReadStatus(s) PROVE TypeOK'
  <2>1. pidFile[stopDir(s)] \in Pid
    BY <1>6, StatusFound DEF ReadStatus, stopDir
  <2> QED
    BY <1>6, <2>1 DEF TypeOK, ReadStatus, table
<1>7. ASSUME NEW s \in Stopper, \/ NotRunning(s) \/ WriteStopFileFails(s) \/ Stopped(s)
                                \/ KillFails(s) \/ RemoveStaleStopFile(s) \/ CommandFails(s)
      PROVE  TypeOK'
  BY <1>7 DEF TypeOK, NotRunning, WriteStopFileFails, Stopped, KillFails, RemoveStaleStopFile,
              CommandFails, Returns, Renewed, table
<1>8. ASSUME NEW s \in Stopper, \/ OpenStopFile(s) \/ WroteStopFile(s) \/ WaitedEnough(s)
                                \/ RemoveStalePidFile(s)
      PROVE  TypeOK'
  BY <1>8 DEF TypeOK, OpenStopFile, WroteStopFile, WaitedEnough, RemoveStalePidFile, Renewed,
              table
<1>9. ASSUME NEW s \in Stopper, Kill(s) PROVE TypeOK'
  <2>1. signalled' \subseteq Pid
    <3>1. target[s] \in Pid
      BY <1>9 DEF Kill, Aimed
    <3> QED
      BY <1>9, <3>1 DEF TypeOK, Kill
  <2> QED
    BY <1>9, <2>1 DEF TypeOK, Kill, Returns
<1>10. CASE UNCHANGED vars
  BY <1>10 DEF TypeOK, vars
<1> QED
  BY <1>1, <1>2, <1>3, <1>4, <1>5, <1>6, <1>7, <1>8, <1>9, <1>10, <1>11
     DEF Next, DaemonStep, StopStep, Dies, Terminated, BindHttpFails, BindUdpFails,
         WritePidFileFails

-----------------------------------------------------------------------------
(* Steps                                                                   *)

\* There is no daemon and no file at first.
LEMMA InvInit == Init => IInv
<1> SUFFICES ASSUME Init PROVE IInv
  OBVIOUS
<1>1. TypeOK
  BY TypeInit
<1>2. \A i \in Pid : Placed(i) /\ OwnPidFile(i) /\ FreshStop(i)
  BY DEF Init, Placed, OwnPidFile, FreshStop
<1>3. OneHttp /\ Apart
  BY DEF Init, OneHttp, Apart, Holding
<1>4. \A d \in Dir : Means(pidFile[d], d)
  BY DEF Init, Means, Exists
<1>5. \A s \in Stopper : Aimed(s)
  BY DEF Init, Aimed
<1> QED
  BY <1>1, <1>2, <1>3, <1>4, <1>5 DEF IInv

\* No stop file of daemon j that was there before its sockets comes back.
NoOlder(j) ==
    pc[j] # "none" /\ stopFile'[dir(j)] /\ j \in oldStop' => stopFile[dir(j)] /\ j \in oldStop

\* Whatever is written or removed in d, d is then Renewed.
LEMMA RenewedIsNew ==
    ASSUME IInv, NEW d \in Dir, NEW b \in BOOLEAN, stopFile' = [stopFile EXCEPT ![d] = b],
           oldStop' = Renewed(d)
    PROVE  \A j \in Pid : NoOlder(j)
<1> SUFFICES ASSUME NEW j \in Pid, pc[j] # "none", stopFile'[dir(j)], j \in oldStop'
             PROVE  stopFile[dir(j)] /\ j \in oldStop
  BY DEF NoOlder
<1>1. j \in oldStop /\ dir(j) # d
  BY DEF Renewed
<1>2. dir(j) \in Dir
  BY DirOfSid DEF IInv, Placed, dir, sanitize_for_file
<1> QED
  BY <1>1, <1>2 DEF IInv, TypeOK

\* A process ends; a stop file may be removed with it.
LEMMA EndsStep ==
    ASSUME IInv, TypeOK', NEW i \in Pid, Ends(i), UNCHANGED <<pidFile, command>>,
           \A j \in Pid : NoOlder(j)
    PROVE  IInv'
<1>1. ASSUME NEW j \in Pid, j # i
      PROVE  /\ pc'[j] = pc[j] /\ process'[j] = process[j] /\ sid'[j] = sid[j]
             /\ listen'[j] = listen[j] /\ (j \in rivals' <=> j \in rivals) /\ dir(j)' = dir(j)
  BY <1>1 DEF IInv, TypeOK, Ends, dir, sanitize_for_file
<1>2. pc'[i] = "none" /\ process'[i] = "none" /\ recycled' = recycled
  BY DEF IInv, TypeOK, Ends
<1>3. ASSUME NEW j \in Pid PROVE Placed(j)' /\ OwnPidFile(j)' /\ FreshStop(j)'
  <2>1. CASE j = i
    BY <1>2, <2>1 DEF Placed, OwnPidFile, FreshStop
  <2>2. CASE j # i
    BY <1>1, <2>2 DEF IInv, Placed, OwnPidFile, FreshStop, NoOlder
  <2> QED
    BY <2>1, <2>2
<1>4. OneHttp' /\ Apart'
  BY <1>1, <1>2 DEF IInv, OneHttp, Apart, Holding
<1>5. ASSUME NEW j, NEW d, Means(j, d) PROVE Means(j, d)'
  BY <1>1, <1>2, <1>5 DEF Means, Exists
<1>6. \A d \in Dir : Means(pidFile[d], d)'
  BY <1>5 DEF IInv
<1>7. \A s \in Stopper : Aimed(s)'
  BY <1>5 DEF IInv, Aimed, command, stopDir, sanitize_for_file
<1> QED
  BY <1>3, <1>4, <1>6, <1>7 DEF IInv

\* Without a word, nothing older comes back either.
LEMMA EndsAtOnceStep ==
    ASSUME IInv, TypeOK', NEW i \in Pid, EndsAtOnce(i)
    PROVE  IInv'
<1>1. \A j \in Pid : NoOlder(j)
  BY DEF EndsAtOnce, NoOlder
<1> QED
  BY <1>1, EndsStep DEF EndsAtOnce

\* A pid goes to a new process: if a file or a command means it, it is given away.
LEMMA BeginsStep ==
    ASSUME IInv, TypeOK', NEW i \in Pid,
           \/ OtherStarts(i)
           \/ \E n \in Sid : \E l \in Listen[n] : Spawn(i, n, l)
    PROVE  IInv'
<1>1. /\ ~Exists(i) /\ UNCHANGED <<pidFile, stopFile, oldStop, rivals>> /\ UNCHANGED command
      /\ recycled' = IF \/ \E d \in Dir : pidFile[d] = i
                        \/ \E s \in Stopper : target[s] = i
                     THEN recycled \cup {i} ELSE recycled
  BY DEF OtherStarts, Spawn, Begins
<1>2. pc[i] = "none"
  BY <1>1 DEF IInv, Placed, Exists
<1>3. /\ pc'[i] \in {"none", "bind_http"}
      /\ pc'[i] # "none" => process'[i] = "daemon" /\ sid'[i] \in Sid
                            /\ listen'[i] \in Listen[sid'[i]]
  <2>1. CASE OtherStarts(i)
    BY <1>2, <2>1 DEF OtherStarts
  <2>2. ASSUME NEW n \in Sid, NEW l \in Listen[n], Spawn(i, n, l)
        PROVE  /\ pc'[i] = "bind_http" /\ process'[i] = "daemon" /\ sid'[i] = n
               /\ listen'[i] = l
    BY <2>2 DEF Spawn, Begins, IInv, TypeOK
  <2> QED
    BY <2>1, <2>2
<1>4. ASSUME NEW j \in Pid, j # i
      PROVE  /\ pc'[j] = pc[j] /\ process'[j] = process[j] /\ sid'[j] = sid[j]
             /\ listen'[j] = listen[j] /\ dir(j)' = dir(j) /\ (j \in recycled' <=> j \in recycled)
  BY <1>1, <1>4 DEF OtherStarts, Spawn, Begins, IInv, TypeOK, dir, sanitize_for_file
<1>5. ASSUME NEW j \in Pid PROVE Placed(j)' /\ OwnPidFile(j)' /\ FreshStop(j)'
  <2>1. CASE j = i
    BY <1>3, <2>1 DEF Placed, OwnPidFile, FreshStop
  <2>2. CASE j # i
    BY <1>1, <1>4, <2>2 DEF IInv, Placed, OwnPidFile, FreshStop
  <2> QED
    BY <2>1, <2>2
<1>6. OneHttp' /\ Apart'
  BY <1>1, <1>3, <1>4 DEF IInv, OneHttp, Apart, Holding
<1>7. ASSUME NEW j, NEW d, Means(j, d), j # i PROVE Means(j, d)'
  BY <1>4, <1>7 DEF Means, Exists
<1>8. ASSUME NEW d \in Dir PROVE Means(pidFile[d], d)'
  <2>1. CASE pidFile[d] = i
    BY <1>1, <2>1 DEF Means
  <2>2. CASE pidFile[d] # i
    BY <1>1, <1>7, <2>2 DEF IInv
  <2> QED
    BY <2>1, <2>2
<1>9. ASSUME NEW s \in Stopper PROVE Aimed(s)'
  <2>1. CASE target[s] = i
    BY <1>1, <2>1 DEF IInv, Aimed, Means, command, stopDir, sanitize_for_file
  <2>2. CASE target[s] # i
    BY <1>1, <1>7, <2>2 DEF IInv, Aimed, command, stopDir, sanitize_for_file
  <2> QED
    BY <2>1, <2>2
<1> QED
  BY <1>5, <1>6, <1>8, <1>9 DEF IInv

\* No process begins or ends: what pids mean stays.
LEMMA MeansKept ==
    ASSUME UNCHANGED <<process, sid, recycled>>, NEW j, NEW d, Means(j, d)
    PROVE  Means(j, d)'
BY DEF Means, Exists, dir, sanitize_for_file

\* Then what the commands are about stays as well.
LEMMA AimedKept ==
    ASSUME IInv, UNCHANGED <<process, sid, recycled>>, UNCHANGED command
    PROVE  \A s \in Stopper : Aimed(s)'
BY MeansKept DEF IInv, Aimed, command, stopDir, sanitize_for_file

\* The first socket: no other daemon has the HTTP address.
LEMMA BindHttpStep ==
    ASSUME IInv, TypeOK', NEW i \in Pid, BindHttp(i)
    PROVE  IInv'
<1>1. /\ pc[i] = "bind_http" /\ pc' = [pc EXCEPT ![i] = "bind_udp"] /\ pc'[i] = "bind_udp"
      /\ UNCHANGED lasting /\ UNCHANGED <<pidFile, stopFile, oldStop>> /\ UNCHANGED command
  BY DEF BindHttp, table, lasting, IInv, TypeOK
<1>2. \A j \in Pid : (pc'[j] # pc[j] => j = i) /\ dir(j)' = dir(j)
  BY <1>1 DEF lasting, IInv, TypeOK, dir, sanitize_for_file
<1>3. ASSUME NEW j \in Pid PROVE Placed(j)' /\ OwnPidFile(j)' /\ FreshStop(j)'
  BY <1>1, <1>2 DEF IInv, lasting, Placed, OwnPidFile, FreshStop
<1>4. \A j \in Pid : pc[j] \in Holding \cup {"bind_udp"} => listen[j].http # listen[i].http
  BY FreeHttp DEF BindHttp
<1>5. OneHttp'
  BY <1>1, <1>2, <1>4 DEF IInv, OneHttp, lasting
<1>6. Apart'
  BY <1>1, <1>2 DEF IInv, Apart, Holding, lasting
<1>7. \A d \in Dir : Means(pidFile[d], d)'
  BY <1>1, MeansKept DEF IInv, lasting
<1>8. \A s \in Stopper : Aimed(s)'
  BY <1>1, AimedKept DEF lasting
<1> QED
  BY <1>3, <1>5, <1>6, <1>7, <1>8 DEF IInv

\* The second: a daemon with the same directory that is past it has other
\* addresses, so both are rivals from now on.
LEMMA BindUdpStep ==
    ASSUME IInv, TypeOK', NEW i \in Pid, BindUdp(i)
    PROVE  IInv'
<1>1. /\ pc[i] = "bind_udp" /\ pc' = [pc EXCEPT ![i] = "rm_stop"] /\ pc'[i] = "rm_stop"
      /\ UNCHANGED <<process, sid, listen, recycled, pidFile, stopFile>> /\ UNCHANGED command
      /\ \A j \in oldStop' : j \in oldStop \/ j = i
      /\ rivals \subseteq rivals' /\ Beside(i) \subseteq rivals'
      /\ (Beside(i) # {} => i \in rivals')
  BY DEF BindUdp, IInv, TypeOK
<1>2. \A j \in Pid : (pc'[j] # pc[j] => j = i) /\ dir(j)' = dir(j)
  BY <1>1 DEF IInv, TypeOK, dir, sanitize_for_file
<1>3. ASSUME NEW j \in Pid PROVE Placed(j)' /\ OwnPidFile(j)' /\ FreshStop(j)'
  BY <1>1, <1>2 DEF IInv, Placed, OwnPidFile, FreshStop
<1>4. OneHttp'
  BY <1>1, <1>2 DEF IInv, OneHttp, Holding
<1>5. ASSUME NEW j \in Pid, j # i, pc[j] \in Holding, dir(j) = dir(i) PROVE j \in Beside(i)
  <2>1. listen[j].udp # listen[i].udp
    BY <1>5, FreeUdp DEF BindUdp
  <2>2. listen[j].http # listen[i].http
    BY <1>1, <1>5 DEF IInv, OneHttp
  <2> QED
    BY <1>5, <2>1, <2>2 DEF Beside, Holding
<1>6. ASSUME NEW j \in Pid, NEW k \in Pid, pc'[j] \in Holding, pc'[k] \in Holding, j # k,
             dir(j)' = dir(k)'
      PROVE  j \in rivals'
  <2>1. CASE j = i
    <3>1. k \in Beside(i)
      BY <1>2, <1>5, <1>6, <2>1
    <3> QED
      BY <1>1, <2>1, <3>1
  <2>2. CASE k = i
    BY <1>1, <1>2, <1>5, <1>6, <2>2
  <2>3. CASE j # i /\ k # i
    BY <1>1, <1>2, <1>6, <2>3 DEF IInv, Apart
  <2> QED
    BY <2>1, <2>2, <2>3
<1>7. Apart'
  BY <1>6 DEF Apart
<1>8. \A d \in Dir : Means(pidFile[d], d)'
  BY <1>1, MeansKept DEF IInv
<1>9. \A s \in Stopper : Aimed(s)'
  BY <1>1, AimedKept
<1> QED
  BY <1>3, <1>4, <1>7, <1>8, <1>9 DEF IInv

\* The steps of a daemon that has its sockets.  They touch the files of its
\* own directory only, where another daemon has a file to lose as a rival only.
LEMMA HolderStep ==
    ASSUME IInv, TypeOK', NEW i \in Pid, UNCHANGED lasting, UNCHANGED command,
           pc[i] \in Holding, NEW q \in Holding, pc' = [pc EXCEPT ![i] = q],
           \A d \in Dir \ {dir(i)} : UNCHANGED pidFile[d],
           \A j \in Pid \ {i} : NoOlder(j),
           OwnPidFile(i)', FreshStop(i)',
           pidFile'[dir(i)] \in {pidFile[dir(i)], None, Empty, i}
    PROVE  IInv'
<1>1. sid[i] \in Sid /\ dir(i) \in Dir /\ process[i] = "daemon"
  BY DirOfSid DEF IInv, Placed, Holding, dir, sanitize_for_file
<1>2. \A j \in Pid : /\ pc'[j] # pc[j] => j = i
                     /\ dir(j)' = dir(j)
                     /\ pc'[j] \in Holding => pc[j] \in Holding
  BY DEF lasting, IInv, TypeOK, dir, sanitize_for_file
<1>3. ASSUME NEW j \in Pid PROVE Placed(j)' /\ OwnPidFile(j)' /\ FreshStop(j)'
  <2>1. Placed(j)'
    BY <1>2 DEF IInv, Placed, lasting, Holding
  <2>2. CASE j = i
    BY <2>1, <2>2
  <2>3. CASE j # i
    <3>1. FreshStop(j)'
      BY <1>2, <2>3 DEF IInv, FreshStop, NoOlder
    <3>2. pc[j] \in Holding /\ dir(j) = dir(i) => j \in rivals
      BY <2>3 DEF IInv, Apart
    <3>3. pc[j] \in Holding => dir(j) \in Dir
      BY DirOfSid DEF IInv, Placed, Holding, dir, sanitize_for_file
    <3>4. OwnPidFile(j)'
      BY <1>2, <2>3, <3>2, <3>3 DEF IInv, OwnPidFile, Holding, lasting
    <3> QED
      BY <2>1, <3>1, <3>4
  <2> QED
    BY <2>2, <2>3
<1>4. OneHttp'
  BY <1>2 DEF IInv, OneHttp, lasting, Holding
<1>5. Apart'
  BY <1>2 DEF IInv, Apart, lasting
<1>6. ASSUME NEW d \in Dir PROVE Means(pidFile[d], d)'
  <2>1. Means(pidFile[d], d) /\ UNCHANGED <<process, sid, recycled>>
    BY DEF IInv, lasting
  <2>2. CASE pidFile'[d] = pidFile[d]
    BY <2>1, <2>2 DEF Means, Exists, dir, sanitize_for_file
  <2>3. CASE d = dir(i) /\ pidFile'[d] = i
    BY <1>1, <2>1, <2>3 DEF Means, Exists, dir, sanitize_for_file
  <2>4. CASE pidFile'[d] \in {None, Empty}
    BY <2>4, ControlAssumption DEF Means
  <2> QED
    BY <2>2, <2>3, <2>4
<1>7. \A s \in Stopper : Aimed(s)'
  BY AimedKept DEF lasting
<1> QED
  BY <1>3, <1>4, <1>5, <1>6, <1>7 DEF IInv

\* Every step of run_daemon keeps the invariant.
LEMMA DaemonStepKeeps ==
    ASSUME IInv, TypeOK', NEW i \in Pid, DaemonStep(i)
    PROVE  IInv'
<1>1. pc[i] # "none" => dir(i) \in Dir /\ sid[i] \in Sid
  BY DirOfSid DEF IInv, Placed, dir, sanitize_for_file
<1>2. UNCHANGED table => UNCHANGED lasting /\ dir(i)' = dir(i)
  BY DEF table, lasting, dir, sanitize_for_file
<1>3. UNCHANGED <<stopFile, oldStop>> => \A j \in Pid : NoOlder(j)
  BY DEF NoOlder
<1>4. CASE BindHttp(i) \/ BindUdp(i)
  BY <1>4, BindHttpStep, BindUdpStep
<1>5. CASE BindHttpFails(i) \/ BindUdpFails(i) \/ WritePidFileFails(i)
  BY <1>5, EndsAtOnceStep DEF BindHttpFails, BindUdpFails, WritePidFileFails
<1>6. CASE RemoveOldStop(i)
  <2>1. /\ pc[i] \in Holding /\ pc[i] # "none" /\ "open_pid" \in Holding
        /\ pc' = [pc EXCEPT ![i] = "open_pid"] /\ pc'[i] = "open_pid"
        /\ UNCHANGED table /\ UNCHANGED command /\ UNCHANGED pidFile
        /\ stopFile' = [stopFile EXCEPT ![dir(i)] = FALSE] /\ oldStop' = Renewed(dir(i))
    BY <1>6 DEF RemoveOldStop, Holding, IInv, TypeOK
  <2>2. OwnPidFile(i)' /\ FreshStop(i)'
    BY <1>1, <1>2, <2>1 DEF OwnPidFile, FreshStop, IInv, TypeOK
  <2>3. \A j \in Pid : NoOlder(j)
    BY <1>1, <2>1, RenewedIsNew
  <2> QED
    BY <1>2, <2>1, <2>2, <2>3, HolderStep
<1>7. CASE OpenPidFile(i)
  <2>1. /\ pc[i] = "open_pid" /\ pc[i] \in Holding /\ "write_pid" \in Holding
        /\ pc' = [pc EXCEPT ![i] = "write_pid"] /\ pc'[i] = "write_pid"
        /\ UNCHANGED table /\ UNCHANGED command /\ UNCHANGED <<stopFile, oldStop>>
    BY <1>7 DEF OpenPidFile, Holding, IInv, TypeOK
  <2>2. OwnPidFile(i)' /\ FreshStop(i)'
    BY <1>2, <2>1 DEF OwnPidFile, FreshStop, IInv
  <2>3. (\A d \in Dir \ {dir(i)} : UNCHANGED pidFile[d]) /\ pidFile'[dir(i)] = Empty
    BY <1>1, <1>7 DEF OpenPidFile, IInv, TypeOK
  <2> QED
    BY <1>2, <1>3, <2>1, <2>2, <2>3, HolderStep
<1>8. CASE WritePidFile(i)
  <2>1. /\ pc[i] = "write_pid" /\ pc[i] \in Holding /\ "open_marker" \in Holding
        /\ pc' = [pc EXCEPT ![i] = "open_marker"] /\ pc'[i] = "open_marker"
        /\ UNCHANGED table /\ UNCHANGED command /\ UNCHANGED <<stopFile, oldStop>>
    BY <1>8 DEF WritePidFile, Holding, IInv, TypeOK
  <2>2. (\A d \in Dir \ {dir(i)} : UNCHANGED pidFile[d]) /\ pidFile'[dir(i)] = i
    BY <1>1, <1>8 DEF WritePidFile, IInv, TypeOK
  <2>3. OwnPidFile(i)' /\ FreshStop(i)'
    BY <1>2, <2>1, <2>2 DEF OwnPidFile, FreshStop, IInv
  <2> QED
    BY <1>2, <1>3, <2>1, <2>2, <2>3, HolderStep
<1>9. CASE OpenMarker(i) \/ WriteMarker(i) \/ SeeStop(i)
  <2>1. PICK q \in {"write_marker", "loop", "cleanup_pid"} :
          /\ pc' = [pc EXCEPT ![i] = q] /\ pc'[i] = q
          /\ pc[i] \in {"open_marker", "write_marker", "loop"}
          /\ UNCHANGED table /\ UNCHANGED command /\ UNCHANGED <<pidFile, stopFile, oldStop>>
    BY <1>9 DEF OpenMarker, WriteMarker, SeeStop, IInv, TypeOK
  <2>2. pc[i] \in Holding /\ q \in Holding
    BY <2>1 DEF Holding
  <2>3. OwnPidFile(i)' /\ FreshStop(i)'
    BY <1>2, <2>1 DEF OwnPidFile, FreshStop, IInv, lasting
  <2> QED
    BY <1>2, <1>3, <2>1, <2>2, <2>3, HolderStep
<1>10. CASE RemovePidFile(i)
  <2>1. /\ pc[i] = "cleanup_pid" /\ pc[i] \in Holding /\ "cleanup_stop" \in Holding
        /\ pc' = [pc EXCEPT ![i] = "cleanup_stop"] /\ pc'[i] = "cleanup_stop"
        /\ UNCHANGED table /\ UNCHANGED command /\ UNCHANGED <<stopFile, oldStop>>
    BY <1>10 DEF RemovePidFile, Holding, IInv, TypeOK
  <2>2. OwnPidFile(i)' /\ FreshStop(i)'
    BY <2>1 DEF OwnPidFile, FreshStop
  <2>3. (\A d \in Dir \ {dir(i)} : UNCHANGED pidFile[d]) /\ pidFile'[dir(i)] = None
    BY <1>1, <1>10 DEF RemovePidFile, IInv, TypeOK
  <2> QED
    BY <1>2, <1>3, <2>1, <2>2, <2>3, HolderStep
<1>11. CASE RemoveStopFile(i)
  <2>1. \A j \in Pid : NoOlder(j)
    BY <1>1, <1>11, RenewedIsNew DEF RemoveStopFile
  <2> QED
    BY <1>11, <2>1, EndsStep DEF RemoveStopFile
<1> QED
  BY <1>4, <1>5, <1>6, <1>7, <1>8, <1>9, <1>10, <1>11 DEF DaemonStep

\* A step of a stop command: it writes no pid file and leaves no old stop file.
LEMMA CommandStep ==
    ASSUME IInv, TypeOK', NEW s \in Stopper, UNCHANGED lasting, UNCHANGED pc,
           \A r \in Stopper \ {s} : UNCHANGED <<stop[r], about[r], target[r]>>,
           \A d \in Dir : pidFile'[d] \in {pidFile[d], None},
           \A j \in Pid : NoOlder(j),
           Aimed(s)'
    PROVE  IInv'
<1>1. ASSUME NEW j \in Pid PROVE Placed(j)' /\ OwnPidFile(j)' /\ FreshStop(j)'
  <2>1. dir(j)' = dir(j) /\ (pc[j] # "none" => dir(j) \in Dir)
    BY DirOfSid DEF IInv, Placed, lasting, dir, sanitize_for_file
  <2>2. Placed(j)'
    BY DEF IInv, Placed, lasting
  <2>3. OwnPidFile(j)' /\ FreshStop(j)'
    BY <2>1 DEF IInv, OwnPidFile, FreshStop, NoOlder, lasting
  <2> QED
    BY <2>2, <2>3
<1>2. OneHttp' /\ Apart'
  BY DEF IInv, OneHttp, Apart, lasting, dir, sanitize_for_file
<1>3. ASSUME NEW d \in Dir PROVE Means(pidFile[d], d)'
  <2>1. CASE pidFile'[d] = pidFile[d]
    BY <2>1, MeansKept DEF IInv, lasting, Means, Exists, dir, sanitize_for_file
  <2>2. CASE pidFile'[d] = None
    BY <2>2, ControlAssumption DEF Means
  <2> QED
    BY <2>1, <2>2
<1>4. ASSUME NEW r \in Stopper PROVE Aimed(r)'
  <2>1. CASE r = s
    BY <2>1
  <2>2. CASE r # s
    BY <2>2 DEF IInv, lasting, Aimed, Means, Exists, dir, stopDir, sanitize_for_file
  <2> QED
    BY <2>1, <2>2
<1> QED
  BY <1>1, <1>2, <1>3, <1>4 DEF IInv

\* Every step of stop_daemon keeps the invariant.
LEMMA StopStepKeeps ==
    ASSUME IInv, TypeOK', NEW s \in Stopper, Resolve(s) \/ StopStep(s)
    PROVE  IInv'
<1> DEFINE Others == \A r \in Stopper \ {s} : UNCHANGED <<stop[r], about[r], target[r]>>
<1>1. stop[s] \notin {"idle", "status"} => stopDir(s) \in Dir /\ target[s] \in Pid
  BY DEF IInv, Aimed
<1>2. UNCHANGED table => UNCHANGED lasting
  BY DEF table, lasting
<1>3. UNCHANGED <<stopFile, oldStop>> => \A j \in Pid : NoOlder(j)
  BY DEF NoOlder
<1>4. Returns(s) => Others /\ Aimed(s)'
  BY DEF Returns, IInv, TypeOK, Aimed
<1>5. CASE Resolve(s)
  <2>1. PICK n \in Sid \cup ({resolve_current_sid} \ {None}) :
          about' = [about EXCEPT ![s] = n]
    BY <1>5 DEF Resolve
  <2>2. n \in Sid \cup Dir \cup {Garbled}
    BY <2>1, CurrentSid DEF IInv
  <2>3. Aimed(s)' /\ Others
    BY <1>5, <2>1, <2>2 DEF Resolve, IInv, TypeOK, Aimed
  <2>4. UNCHANGED table /\ UNCHANGED pc /\ UNCHANGED <<pidFile, stopFile, oldStop>>
    BY <1>5 DEF Resolve
  <2> QED
    BY <1>2, <1>3, <2>3, <2>4, CommandStep
<1>6. CASE ReadStatus(s)
  <2>1. /\ stopDir(s) \in Dir /\ pidFile[stopDir(s)] \in Pid
        /\ Means(pidFile[stopDir(s)], stopDir(s))
    BY <1>6, StatusFound DEF ReadStatus, IInv, stopDir
  <2>2. /\ stop' = [stop EXCEPT ![s] = IF status(about[s]) = "Running" THEN "open_stop"
                                       ELSE "rm_pid"]
        /\ target' = [target EXCEPT ![s] = pidFile[stopDir(s)]]
        /\ stop[s] = "status"
        /\ UNCHANGED table /\ UNCHANGED pc
        /\ UNCHANGED <<pidFile, stopFile, oldStop, about>>
    BY <1>6 DEF ReadStatus
  <2>3. Others
    BY <2>2 DEF IInv, TypeOK
  <2>4. /\ stop'[s] \in {"open_stop", "rm_pid"} /\ target'[s] = pidFile[stopDir(s)]
        /\ about'[s] = about[s] /\ stopDir(s)' = stopDir(s)
    BY <2>2 DEF IInv, TypeOK, stopDir, sanitize_for_file
  <2>5. Means(target[s], stopDir(s))'
    BY <2>1, <2>2, <2>4 DEF Means, table, Exists, dir, sanitize_for_file
  <2>6. Aimed(s)'
    BY <2>1, <2>2, <2>4, <2>5 DEF IInv, Aimed
  <2> QED
    BY <1>2, <1>3, <2>2, <2>3, <2>6, CommandStep
<1>7. CASE \/ NotRunning(s) \/ WriteStopFileFails(s) \/ Stopped(s) \/ KillFails(s)
           \/ CommandFails(s)
  <2>1. /\ Returns(s) /\ UNCHANGED table /\ UNCHANGED pc
        /\ UNCHANGED <<pidFile, stopFile, oldStop>>
    BY <1>7 DEF NotRunning, WriteStopFileFails, Stopped, KillFails, CommandFails
  <2> QED
    BY <1>2, <1>3, <1>4, <2>1, CommandStep
<1>8. CASE \/ OpenStopFile(s) \/ WroteStopFile(s) \/ WaitedEnough(s) \/ RemoveStalePidFile(s)
  <2>1. PICK q \in {"chmod_stop", "wait", "kill", "rm_stop"} :
          /\ stop' = [stop EXCEPT ![s] = q]
          /\ \/ stop[s] \in {"open_stop", "chmod_stop", "wait"}
             \/ stop[s] = "rm_pid" /\ q = "rm_stop"
          /\ UNCHANGED table /\ UNCHANGED pc /\ UNCHANGED <<about, target>>
    BY <1>8 DEF OpenStopFile, WroteStopFile, WaitedEnough, RemoveStalePidFile
  <2>2. Others
    BY <2>1 DEF IInv, TypeOK
  <2>3. Aimed(s)'
    BY <2>1 DEF IInv, TypeOK, Aimed, Means, table, Exists, dir, stopDir, sanitize_for_file
  <2>4. \A d \in Dir : pidFile'[d] \in {pidFile[d], None}
    BY <1>8 DEF OpenStopFile, WroteStopFile, WaitedEnough, RemoveStalePidFile, IInv, TypeOK
  <2>5. \A j \in Pid : NoOlder(j)
    BY <1>1, <1>3, <1>8, RenewedIsNew
       DEF OpenStopFile, WroteStopFile, WaitedEnough, RemoveStalePidFile
  <2> QED
    BY <1>2, <2>1, <2>2, <2>3, <2>4, <2>5, CommandStep
<1>9. CASE RemoveStaleStopFile(s)
  <2>1. Returns(s) /\ UNCHANGED table /\ UNCHANGED pc /\ UNCHANGED pidFile
    BY <1>9 DEF RemoveStaleStopFile
  <2>2. \A j \in Pid : NoOlder(j)
    BY <1>1, <1>9, RenewedIsNew DEF RemoveStaleStopFile
  <2> QED
    BY <1>2, <1>4, <2>1, <2>2, CommandStep
<1>10. CASE Kill(s)
  <2>1. /\ Returns(s) /\ UNCHANGED lasting /\ UNCHANGED pc
        /\ UNCHANGED <<pidFile, stopFile, oldStop>>
    BY <1>10 DEF Kill, lasting
  <2> QED
    BY <1>3, <1>4, <2>1, CommandStep
<1> QED
  BY <1>5, <1>6, <1>7, <1>8, <1>9, <1>10 DEF StopStep

\* Every step keeps the invariant.
LEMMA InvStep == IInv /\ [Next]_vars => IInv'
<1> SUFFICES ASSUME IInv, [Next]_vars PROVE IInv'
  OBVIOUS
<1>1. TypeOK'
  BY TypeStep
<1>2. ASSUME NEW i \in Pid, Dies(i) \/ Terminated(i) PROVE IInv'
  BY <1>1, <1>2, EndsAtOnceStep DEF Dies, Terminated
<1>3. CASE UNCHANGED vars
  BY <1>3 DEF vars, IInv, TypeOK, Placed, OwnPidFile, FreshStop, OneHttp, Apart, Means, Aimed,
              Exists, dir, stopDir, sanitize_for_file
<1> QED
  BY <1>1, <1>2, <1>3, BeginsStep, DaemonStepKeeps, StopStepKeeps DEF Next

-----------------------------------------------------------------------------
(* Theorems                                                                *)

\* The invariant always holds, for any sids, directories and addresses.
LEMMA AlwaysInv == Spec => []IInv
BY InvInit, InvStep, PTL DEF Spec

\* The control files and the processes of runtime.rs have their types, for any
\* sids, also those that share a directory: a stop command acts on a pid it
\* read, never on the empty text of a file that is being written.
THEOREM ControlTypes == Spec => []TypeOK
<1>1. IInv => TypeOK
  BY DEF IInv
<1> QED
  BY <1>1, AlwaysInv, PTL

\* run_daemon (runtime.rs) removes no pid file but its own, for any number of
\* daemons, sids and stop commands, deaths and pids that are given away, unless
\* a daemon with its directory was started at two other addresses.  The control
\* files are not locked: it follows from the sockets being held from before the
\* first file is written until after the last is removed.
THEOREM CleanupIsSafe == Spec => []CleanupIsOwn
<1>1. IInv => CleanupIsOwn
  BY DEF IInv, CleanupIsOwn, OwnPidFile
<1> QED
  BY <1>1, AlwaysInv, PTL

\* Where the daemons of a directory all get the same HTTP or the same UDP
\* address, there are no rivals: the clean-up of run_daemon (runtime.rs) never
\* removes the pid file of another daemon.
THEOREM OneAddressSuffices == OneAddress /\ Spec => []CleanupSparesOthers
<1> DEFINE Alone == OneAddress /\ rivals = {}
<1>1. OneAddress /\ Init => Alone
  BY DEF Init
<1>2. Alone /\ IInv /\ [Next]_vars => Alone'
  <2> SUFFICES ASSUME Alone, IInv, [Next]_vars PROVE rivals' = {}
    BY DEF OneAddress
  <2>1. ASSUME NEW i \in Pid, BindUdp(i) PROVE rivals' = {}
    <3>1. sid[i] \in Sid /\ listen[i] \in Listen[sid[i]]
      BY <2>1 DEF BindUdp, IInv, Placed
    <3>2. ASSUME NEW j \in Beside(i) PROVE FALSE
      <4>1. /\ j \in Pid /\ pc[j] # "none" /\ dir(j) = dir(i)
            /\ listen[j].http # listen[i].http /\ listen[j].udp # listen[i].udp
        BY <3>2 DEF Beside
      <4>2. sid[j] \in Sid /\ listen[j] \in Listen[sid[j]]
        BY <4>1 DEF IInv, Placed
      <4> QED
        BY <3>1, <4>1, <4>2 DEF OneAddress, dir, sanitize_for_file
    <3>3. Beside(i) = {}
      BY <3>2
    <3> QED
      BY <2>1, <3>3 DEF BindUdp
  <2>2. ASSUME NEW i \in Pid, ~BindUdp(i), DaemonStep(i) \/ Dies(i) \/ Terminated(i)
        PROVE  rivals' = {}
    BY <2>2 DEF DaemonStep, Dies, Terminated, EndsAtOnce, Ends, BindHttp, BindHttpFails,
                BindUdpFails, RemoveOldStop, OpenPidFile, WritePidFile, WritePidFileFails,
                OpenMarker, WriteMarker, SeeStop, RemovePidFile, RemoveStopFile, table
  <2>3. ASSUME NEW i \in Pid, \/ OtherStarts(i)
                              \/ \E n \in Sid : \E l \in Listen[n] : Spawn(i, n, l)
        PROVE  rivals' = {}
    BY <2>3 DEF OtherStarts, Spawn, Begins
  <2>4. ASSUME NEW s \in Stopper, Resolve(s) \/ StopStep(s) PROVE rivals' = {}
    BY <2>4 DEF StopStep, Resolve, ReadStatus, NotRunning, OpenStopFile, WroteStopFile,
                WriteStopFileFails, Stopped, WaitedEnough, Kill, KillFails,
                RemoveStalePidFile, RemoveStaleStopFile, CommandFails, table
  <2>5. CASE UNCHANGED vars
    BY <2>5 DEF vars
  <2> QED
    BY <2>1, <2>2, <2>3, <2>4, <2>5 DEF Next
<1>3. Alone /\ IInv => CleanupSparesOthers
  BY ControlAssumption DEF IInv, OwnPidFile, CleanupSparesOthers
<1> HIDE DEF Alone
<1> QED
  BY <1>1, <1>2, <1>3, AlwaysInv, PTL DEF Spec

\* A stop file from before run_daemon (runtime.rs) has its sockets never stops
\* the daemon, whoever wrote it, rivals included.
THEOREM OldStopIsIgnored == Spec => []StopFileIsFresh
<1>1. IInv => StopFileIsFresh
  BY DEF IInv, StopFileIsFresh, FreshStop
<1> QED
  BY <1>1, AlwaysInv, PTL

\* What a stop command finds in the directory of its sid belongs to that sid.
LEMMA InvSparesOthers == OwnDirs /\ IInv => StopSparesOthers
<1> SUFFICES ASSUME OwnDirs, IInv, NEW s \in Stopper,
                    stop[s] \in {"open_stop", "chmod_stop", "wait", "kill"},
                    target[s] \notin recycled, Exists(target[s])
             PROVE  /\ process[target[s]] = "daemon"
                    /\ about[s] \in {sid[target[s]], Sanitized[sid[target[s]]]}
  BY DEF StopSparesOthers
<1>1. /\ process[target[s]] = "daemon" /\ sid[target[s]] \in Sid
      /\ dir(target[s]) = stopDir(s) /\ stopDir(s) \in Dir
      /\ about[s] \in Sid \cup Dir \cup {Garbled}
  BY DEF IInv, Aimed, Means
<1>2. Sanitized[sid[target[s]]] = Sanitized[about[s]]
  BY <1>1 DEF dir, stopDir, sanitize_for_file
<1>3. CASE about[s] \in Sid
  BY <1>1, <1>2, <1>3 DEF OwnDirs, DistinctDirs
<1>4. CASE about[s] \in Dir
  BY <1>1, <1>2, <1>4, ControlAssumption
<1>5. CASE about[s] = Garbled
  BY <1>1, <1>5 DEF OwnDirs, stopDir, sanitize_for_file
<1> QED
  BY <1>1, <1>3, <1>4, <1>5

\* stop_daemon (runtime.rs) acts on the daemon of the sid it resolved, as long
\* as the pid has not been given away meanwhile.  Sids are assumed to have
\* distinct directories (sanitize_for_file gives "a:b" and "a_b" the same one).
THEOREM StopIsAimed == OwnDirs /\ Spec => []StopSparesOthers
<1>1. OwnDirs => []OwnDirs
  <2>1. OwnDirs => OwnDirs'
    BY DEF OwnDirs, DistinctDirs
  <2> QED
    BY <2>1, PTL
<1> QED
  BY <1>1, AlwaysInv, InvSparesOthers, PTL

\* The pid file of a daemon of run_daemon (runtime.rs) in its loop is lost to
\* no other daemon but one that was started at two other addresses, and to no
\* stop command but one of its directory that found a stale file earlier
\* (stop_daemon removes it without looking again).
THEOREM PidFileIsKept == Spec => PidFileKept
<1> DEFINE Kept ==
      \A i \in Pid \ rivals :
          pc[i] = "loop" /\ pc'[i] = "loop" /\ pidFile[dir(i)] = i /\ pidFile'[dir(i)] # i
          => \E s \in Stopper : stop[s] = "rm_pid" /\ stopDir(s) = dir(i)
<1>1. IInv /\ [Next]_vars => [Kept]_vars
  <2> SUFFICES ASSUME IInv, Next, NEW i \in Pid \ rivals, pc[i] = "loop", pc'[i] = "loop",
                      pidFile[dir(i)] = i, pidFile'[dir(i)] # i
               PROVE  \E s \in Stopper : stop[s] = "rm_pid" /\ stopDir(s) = dir(i)
    OBVIOUS
  <2>1. pc[i] \in Holding /\ dir(i) \in Dir
    BY DirOfSid DEF IInv, Placed, Holding, dir, sanitize_for_file
  <2>2. pidFile' # pidFile
    OBVIOUS
  <2>3. ASSUME NEW j \in Pid, DaemonStep(j) PROVE FALSE
    <3>1. /\ pc[j] \in {"open_pid", "write_pid", "cleanup_pid"}
          /\ pidFile' \in {[pidFile EXCEPT ![dir(j)] = p] : p \in {Empty, j, None}}
      BY <2>2, <2>3
         DEF DaemonStep, BindHttp, BindHttpFails, BindUdp, BindUdpFails, EndsAtOnce,
             RemoveOldStop, OpenPidFile, WritePidFile, WritePidFileFails, OpenMarker,
             WriteMarker, SeeStop, RemovePidFile, RemoveStopFile
    <3>2. pc[j] \in Holding
      BY <3>1 DEF Holding
    <3>3. dir(j) = dir(i)
      BY <2>1, <3>1 DEF IInv, TypeOK
    <3>4. j = i
      BY <2>1, <3>2, <3>3 DEF IInv, Apart
    <3> QED
      BY <3>1, <3>4
  <2>4. ASSUME NEW s \in Stopper, Resolve(s) \/ StopStep(s)
        PROVE  stop[s] = "rm_pid" /\ stopDir(s) = dir(i)
    <3>1. RemoveStalePidFile(s)
      BY <2>2, <2>4
         DEF StopStep, Resolve, ReadStatus, NotRunning, OpenStopFile, WroteStopFile,
             WriteStopFileFails, Stopped, WaitedEnough, Kill, KillFails, RemoveStaleStopFile,
             CommandFails
    <3> QED
      BY <2>1, <3>1 DEF RemoveStalePidFile, IInv, TypeOK
  <2>5. ASSUME NEW j \in Pid, \/ Dies(j) \/ Terminated(j) \/ OtherStarts(j)
                              \/ \E n \in Sid : \E l \in Listen[n] : Spawn(j, n, l)
        PROVE  FALSE
    BY <2>2, <2>5 DEF Dies, Terminated, EndsAtOnce, OtherStarts, Spawn, Begins
  <2> QED
    BY <2>3, <2>4, <2>5 DEF Next
<1> HIDE DEF Kept
<1>2. Spec => [][Kept]_vars
  BY <1>1, AlwaysInv, PTL DEF Spec
<1> QED
  BY <1>2 DEF Kept, PidFileKept
=============================================================================
