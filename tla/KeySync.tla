------------------------------ MODULE KeySync -------------------------------
(***************************************************************************)
(* The daemons of a LAN exchanging SSH keys: src/src/runtime.rs (the loop  *)
(* of run_daemon, run_single_sync, run_sync_cycle and the HTTP and UDP     *)
(* handlers) over src/src/discovery.rs and src/src/transport.rs.           *)
(*                                                                         *)
(* A process is a daemon or a one-shot `ssh-key-cli sync'.  It has one     *)
(* thread: while it is in its cycle it answers nobody.  Its connections    *)
(* wait in the backlog of the listener meanwhile; a connection breaks when *)
(* the process at its other end exits.  Everything a process knows is lost *)
(* when it exits, except the managed block in its host's authorized_keys.  *)
(***************************************************************************)
EXTENDS Transport, FiniteSets

CONSTANTS
    Daemon, OneShot,    \* the processes that run `start' and `sync'
    Host,               \* Host[p]: the machine, whose authorized_keys p writes
    ParticipantId,      \* ParticipantId[p], Sid[p], SidToken[p], Bootstrap[p]:
    Sid, SidToken,      \*   the configuration of p; Bootstrap[p] is a set of
    Bootstrap,          \*   records [id, address]
    DryRun,             \* the processes with dry_run set
    Address,            \* Address[d]: the addresses daemon d may be given
    PublicKey,          \* PublicKey[h]: the keys h's key file may hold
    NoKey,              \* the empty key of a bootstrap record
    LossyNetwork,       \* whether datagrams and connections may fail
    MaxStarts           \* MaxStarts[p]: how many times p may start

Proc == Daemon \cup OneShot
Hosts == {Host[p] : p \in Proc}

ASSUME ConfigAssumption ==
    /\ Daemon \cap OneShot = {}
    /\ DryRun \subseteq Proc
    /\ \A d \in Daemon : Address[d] # {}
    /\ \A p \in Proc : PublicKey[Host[p]] # {}
    /\ LossyNetwork \in BOOLEAN
    /\ \A p \in Proc : MaxStarts[p] \in Nat
    /\ \A p \in Proc : \A b \in Bootstrap[p] : b = [id |-> b.id, address |-> b.address]

VARIABLES
    pc,         \* pc[p]: "down", or the part of the loop p is in:
                \*   "http" and "udp" (the two handlers), "cycle"
    addr,       \* addr[d]: the address daemon d listens on, since its start
    key,        \* key[p]: the public key p read when it started
    peers,      \* peers[p]: DiscoveryEngine.peers, records [id, address, key]
    trigger,    \* trigger[p]: DiscoveryEngine.sync_trigger_pending
    due,        \* due[p]: now >= next_sync_at
    todo,       \* todo[p]: the endpoints the cycle has not asked yet
    call,       \* call[p]: {} or the one HTTP call p is waiting on
    managed,    \* managed[p]: managed_keys, records [id, key]
    block,      \* block[h]: the keys of the managed block on host h
    udp,        \* the datagrams on their way, records [to, env]
    starts,     \* starts[p]: how many times p was started
    view        \* view[p]: the peers the last cycle of p began with (history)

vars == <<pc, addr, key, peers, trigger, due, todo, call, managed, block, udp,
          starts, view>>

-----------------------------------------------------------------------------
(* Pure parts                                                              *)

AnyAddress == (UNION {Address[d] : d \in Daemon})
               \cup UNION {{b.address : b \in Bootstrap[p]} : p \in Proc}
AnyId == {ParticipantId[p] : p \in Proc}
          \cup UNION {{b.id : b \in Bootstrap[p]} : p \in Proc}
AnyKey == UNION {PublicKey[h] : h \in Hosts}

Up(p) == pc[p] # "down"

\* HashMap::insert for maps kept as sets of records with an id.
Insert(map, record) == {r \in map : r.id # record.id} \cup {record}

service(p, k) ==
    [sid |-> Sid[p], sid_token |-> SidToken[p],
     participant_id |-> ParticipantId[p], public_key |-> k]

\* DiscoveryEngine::add_bootstrap_peers on a new engine.
bootstrap_records(p) ==
    {[id |-> b.id, address |-> b.address, key |-> NoKey] : b \in Bootstrap[p]}

\* DiscoveryEngine::build_startup_announcement
build_startup_announcement(p, a, k) ==
    sign_envelope(Sid[p], SidToken[p], ParticipantId[p], 0, 0, UdpAnnouncement,
                  [sid |-> Sid[p], id |-> ParticipantId[p], address |-> a, key |-> k])

\* run_sync_cycle, the endpoints: the bootstrap peers, overridden by the
\* discovered ones, without the process itself.
endpoints(p) ==
    LET found == {[id |-> r.id, address |-> r.address] : r \in peers[p]}
        configured == {b \in Bootstrap[p] : \A r \in peers[p] : r.id # b.id}
    IN  {e \in found \cup configured : e.id # ParticipantId[p]}

\* send_announcement: a broadcast, which every bound UDP socket gets, the
\* sender's own too.
announced(p, a, k) ==
    {[to |-> d, env |-> build_startup_announcement(p, a, k)] :
        d \in {q \in Daemon : Up(q) \/ q = p}}

Listening(d, a) == d \in Daemon /\ Up(d) /\ addr[d] = a

Call(e, d, status, response) ==
    [peer |-> e, server |-> d, status |-> status, response |-> response]

\* The calls once process p is gone: its own end, those it had not yet
\* answered are reset.
CallsWithout(p) ==
    [q \in Proc |->
        IF q = p THEN {}
        ELSE {IF c.server = p /\ c.status = "sent"
              THEN Call(c.peer, p, "reset", {}) ELSE c : c \in call[q]}]

Init ==
    /\ pc = [p \in Proc |-> "down"]
    /\ addr = [d \in Daemon |-> CHOOSE a \in Address[d] : TRUE]
    /\ key = [p \in Proc |-> CHOOSE k \in PublicKey[Host[p]] : TRUE]
    /\ peers = [p \in Proc |-> {}]
    /\ trigger = [p \in Proc |-> FALSE]
    /\ due = [p \in Proc |-> FALSE]
    /\ todo = [p \in Proc |-> {}]
    /\ call = [p \in Proc |-> {}]
    /\ managed = [p \in Proc |-> {}]
    /\ block = [h \in Hosts |-> {}]
    /\ udp = {}
    /\ starts = [p \in Proc |-> 0]
    /\ view = [p \in Proc |-> {}]

-----------------------------------------------------------------------------
(* Start and exit                                                          *)

\* run_daemon up to its loop: read the key, bind the address (which fails
\* when another daemon has it), take the bootstrap peers, announce.
Start(d) ==
    /\ ~Up(d)
    /\ starts[d] < MaxStarts[d]
    /\ starts' = [starts EXCEPT ![d] = @ + 1]
    /\ \E a \in Address[d], k \in PublicKey[Host[d]] :
        /\ \A q \in Daemon : ~Listening(q, a)
        /\ addr' = [addr EXCEPT ![d] = a]
        /\ key' = [key EXCEPT ![d] = k]
        /\ udp' = udp \cup announced(d, a, k)
    /\ peers' = [peers EXCEPT ![d] = bootstrap_records(d)]
    /\ trigger' = [trigger EXCEPT ![d] = Bootstrap[d] # {}]
    /\ due' = [due EXCEPT ![d] = TRUE]
    /\ managed' = [managed EXCEPT ![d] = {}]
    /\ pc' = [pc EXCEPT ![d] = "http"]
    /\ view' = [view EXCEPT ![d] = {}]
    /\ UNCHANGED <<todo, call, block>>

\* run_single_sync up to its cycle: no sockets, the bootstrap peers only.
StartOneShot(p) ==
    /\ ~Up(p)
    /\ starts[p] < MaxStarts[p]
    /\ starts' = [starts EXCEPT ![p] = @ + 1]
    /\ \E k \in PublicKey[Host[p]] : key' = [key EXCEPT ![p] = k]
    /\ peers' = [peers EXCEPT ![p] = bootstrap_records(p)]
    /\ trigger' = [trigger EXCEPT ![p] = Bootstrap[p] # {}]
    /\ managed' = [managed EXCEPT ![p] = {}]
    /\ todo' = [todo EXCEPT ![p] =
                    {b \in Bootstrap[p] : b.id # ParticipantId[p]}]
    /\ pc' = [pc EXCEPT ![p] = "cycle"]
    /\ view' = [view EXCEPT ![p] = bootstrap_records(p)]
    /\ UNCHANGED <<addr, due, call, block, udp>>

Gone(p) ==
    /\ pc' = [pc EXCEPT ![p] = "down"]
    /\ call' = CallsWithout(p)
    /\ udp' = {m \in udp : m.to # p}
    /\ todo' = [todo EXCEPT ![p] = {}]
    /\ due' = [due EXCEPT ![p] = FALSE]
    /\ peers' = [peers EXCEPT ![p] = {}]
    /\ trigger' = [trigger EXCEPT ![p] = FALSE]
    /\ managed' = [managed EXCEPT ![p] = {}]
    /\ view' = [view EXCEPT ![p] = {}]
    /\ UNCHANGED <<addr, key, starts>>

\* Any end of the process that the loop does not decide: a crash, a kill, a
\* stop request seen at the end of an iteration.
Exit(p) ==
    /\ Up(p)
    /\ Gone(p)
    /\ UNCHANGED block

-----------------------------------------------------------------------------
(* The loop of run_daemon                                                  *)

\* The connection of p waits in d's backlog and d takes it.
Queued(p, d, c) == c \in call[p] /\ c.server = d /\ c.status = "sent"

request(p, c) ==
    build_get_public_key_request(service(p, key[p]), c.peer.id)

\* handle_http_connection with a request that verifies: 200 and the key.
AnswerHttp(d, p) ==
    /\ pc[d] = "http"
    /\ \E c \in call[p] :
        /\ Queued(p, d, c)
        /\ accepts_get_public_key_request(service(d, key[d]), request(p, c))
        /\ call' = [call EXCEPT ![p] =
               {Call(c.peer, d, "answered", {get_public_key_response(service(d, key[d]))})}]
    /\ UNCHANGED <<pc, addr, key, peers, trigger, due, todo, managed, block, udp, starts, view>>

\* handle_http_connection with one that does not: 401.
RefuseHttp(d, p) ==
    /\ pc[d] = "http"
    /\ \E c \in call[p] :
        /\ Queued(p, d, c)
        /\ ~accepts_get_public_key_request(service(d, key[d]), request(p, c))
        /\ call' = [call EXCEPT ![p] = {Call(c.peer, d, "answered", {})}]
    /\ UNCHANGED <<pc, addr, key, peers, trigger, due, todo, managed, block, udp, starts, view>>

\* handle_http_connections returns when accept would block.
HttpDrained(d) ==
    /\ pc[d] = "http"
    /\ \A p \in Proc : \A c \in call[p] : ~Queued(p, d, c)
    /\ pc' = [pc EXCEPT ![d] = "udp"]
    /\ UNCHANGED <<addr, key, peers, trigger, due, todo, call, managed, block, udp, starts, view>>

\* Variant: a peer that is known is never updated.
known_by_id(d, m) ==
    \/ ~verify_envelope(m.env, SidToken[d], Sid[d])
    \/ \E r \in peers[d] : r.id = m.env.body.id

\* DiscoveryEngine::process_announcement of a fresh datagram: another
\* group's is ignored, a record that is already known changes nothing.
known(d, m) ==
    \/ ~verify_envelope(m.env, SidToken[d], Sid[d])
    \/ [id |-> m.env.body.id, address |-> m.env.body.address,
        key |-> m.env.body.key] \in peers[d]

IgnoreAnnouncement(d, m) ==
    /\ pc[d] = "udp"
    /\ m.to = d
    /\ known(d, m)
    /\ udp' = udp \ {m}
    /\ UNCHANGED <<pc, addr, key, peers, trigger, due, todo, call, managed, block, starts, view>>

\* Variant: PeerUpdated does not ask for a cycle.
AdoptAnnouncement_silent_update(d, m) ==
    /\ pc[d] = "udp"
    /\ m.to = d
    /\ ~known(d, m)
    /\ udp' = udp \ {m}
    /\ peers' = [peers EXCEPT ![d] = Insert(@,
           [id |-> m.env.body.id, address |-> m.env.body.address, key |-> m.env.body.key])]
    /\ trigger' = [trigger EXCEPT ![d] = @ \/ \A r \in peers[d] : r.id # m.env.body.id]
    /\ UNCHANGED <<pc, addr, key, due, todo, call, managed, block, starts, view>>

\* PeerAdded and PeerUpdated: records carry no version, the last datagram
\* to arrive wins.
AdoptAnnouncement(d, m) ==
    /\ pc[d] = "udp"
    /\ m.to = d
    /\ ~known(d, m)
    /\ udp' = udp \ {m}
    /\ peers' = [peers EXCEPT ![d] = Insert(@,
           [id |-> m.env.body.id, address |-> m.env.body.address, key |-> m.env.body.key])]
    /\ trigger' = [trigger EXCEPT ![d] = TRUE]
    /\ UNCHANGED <<pc, addr, key, due, todo, call, managed, block, starts, view>>

\* The clock reaches next_sync_at.
Tick(d) ==
    /\ Up(d)
    /\ ~due[d]
    /\ due' = [due EXCEPT ![d] = TRUE]
    /\ UNCHANGED <<pc, addr, key, peers, trigger, todo, call, managed, block, udp, starts, view>>

\* handle_udp_announcements returns when recv_from would block.  On a lossy
\* network a datagram may still be on its way then.
UdpDrained(d) == LossyNetwork \/ \A m \in udp : m.to # d

\* sync_due || take_sync_trigger(): the trigger is taken and a cycle begins.
BeginCycle(d) ==
    /\ pc[d] = "udp"
    /\ UdpDrained(d)
    /\ due[d] \/ trigger[d]
    /\ trigger' = [trigger EXCEPT ![d] = FALSE]
    /\ due' = [due EXCEPT ![d] = FALSE]
    /\ todo' = [todo EXCEPT ![d] = endpoints(d)]
    /\ view' = [view EXCEPT ![d] = peers[d]]
    /\ pc' = [pc EXCEPT ![d] = "cycle"]
    /\ UNCHANGED <<addr, key, peers, call, managed, block, udp, starts>>

\* Nothing to do: the loop goes round.
Sleep(d) ==
    /\ pc[d] = "udp"
    /\ UdpDrained(d)
    /\ ~due[d]
    /\ ~trigger[d]
    /\ pc' = [pc EXCEPT ![d] = "http"]
    /\ UNCHANGED <<addr, key, peers, trigger, due, todo, call, managed, block, udp, starts, view>>

-----------------------------------------------------------------------------
(* run_sync_cycle: one request_public_key after the other, in any order    *)
(* (HashMap::values)                                                       *)

Idle(p) == pc[p] = "cycle" /\ call[p] = {}

Connect(p) ==
    /\ Idle(p)
    /\ \E e \in todo[p], d \in Daemon :
        /\ Listening(d, e.address)
        /\ call' = [call EXCEPT ![p] = {Call(e, d, "sent", {})}]
    /\ UNCHANGED <<pc, addr, key, peers, trigger, due, todo, managed, block, udp, starts, view>>

\* Nobody listens there, or (on a lossy network) the connection fails.
ConnectFails(p) ==
    /\ Idle(p)
    /\ \E e \in todo[p] :
        /\ LossyNetwork \/ \A d \in Daemon : ~Listening(d, e.address)
        /\ todo' = [todo EXCEPT ![p] = @ \ {e}]
    /\ UNCHANGED <<pc, addr, key, peers, trigger, due, call, managed, block, udp, starts, view>>

\* Variant: a peer that does not answer loses its key.
CallFails_forgets(p, c) ==
    /\ todo' = [todo EXCEPT ![p] = @ \ {c.peer}]
    /\ call' = [call EXCEPT ![p] = {}]
    /\ managed' = [managed EXCEPT ![p] = {m \in @ : m.id # c.peer.id}]
    /\ UNCHANGED <<pc, addr, key, peers, trigger, due, block, udp, starts, view>>

\* The call is over and brought no key: managed_keys is left alone.
CallFails(p, c) ==
    /\ todo' = [todo EXCEPT ![p] = @ \ {c.peer}]
    /\ call' = [call EXCEPT ![p] = {}]
    /\ UNCHANGED <<pc, addr, key, peers, trigger, due, managed, block, udp, starts, view>>

\* Variant: the socket has no read timeout.
Timeout_unset(p) ==
    \E c \in call[p] : c.status = "sent" /\ LossyNetwork /\ CallFails(p, c)

\* IO_TIMEOUT_SECS pass without an answer: the listener is in a cycle of
\* its own (or is p itself), or the network fails.
Timeout(p) ==
    \E c \in call[p] :
        /\ c.status = "sent"
        /\ pc[c.server] = "cycle" \/ LossyNetwork
        /\ CallFails(p, c)

\* The process at the other end is gone.
Reset(p) ==
    \E c \in call[p] : c.status = "reset" /\ CallFails(p, c)

\* An answer without an envelope that verifies.
ReceiveError(p) ==
    \E c \in call[p] :
        /\ c.status = "answered"
        /\ \A r \in c.response : ~accepts_public_key_response(service(p, key[p]), r)
        /\ CallFails(p, c)

\* managed_keys.insert(endpoint.participant_id, payload.public_key)
ReceiveKey(p) ==
    \E c \in call[p], r \in UNION {d.response : d \in call[p]} :
        /\ c.status = "answered"
        /\ accepts_public_key_response(service(p, key[p]), r)
        /\ managed' = [managed EXCEPT ![p] =
               Insert(@, [id |-> c.peer.id, key |-> r.body.public_key])]
        /\ todo' = [todo EXCEPT ![p] = @ \ {c.peer}]
        /\ call' = [call EXCEPT ![p] = {}]
        /\ UNCHANGED <<pc, addr, key, peers, trigger, due, block, udp, starts, view>>

\* Variant: the announced keys are written.
applied_from_peers(p) == [block EXCEPT ![Host[p]] = {r.key : r \in peers[p]}]

\* apply_managed_block_to_file: the block becomes the managed keys.
applied(p) ==
    IF p \in DryRun THEN block
    ELSE [block EXCEPT ![Host[p]] = {m.key : m \in managed[p]}]

\* The rest of the iteration: write the block and announce again.
FinishCycle(d) ==
    /\ d \in Daemon
    /\ Idle(d)
    /\ todo[d] = {}
    /\ block' = applied(d)
    /\ udp' = udp \cup announced(d, addr[d], key[d])
    /\ pc' = [pc EXCEPT ![d] = "http"]
    /\ UNCHANGED <<addr, key, peers, trigger, due, todo, call, managed, starts, view>>

\* The end of run_single_sync.
FinishOneShot(p) ==
    /\ p \in OneShot
    /\ Idle(p)
    /\ todo[p] = {}
    /\ block' = applied(p)
    /\ Gone(p)

\* apply_managed_block_to_file fails: the process returns the error.
WriteError(p) ==
    /\ Idle(p)
    /\ todo[p] = {}
    /\ p \notin DryRun
    /\ Gone(p)
    /\ UNCHANGED block

\* A datagram is lost, or arrives outside the window of the verifier.
LoseAnnouncement(m) ==
    /\ LossyNetwork
    /\ udp' = udp \ {m}
    /\ UNCHANGED <<pc, addr, key, peers, trigger, due, todo, call, managed, block, starts, view>>

-----------------------------------------------------------------------------
\* What the code of one running process does.
Step(p) ==
    \/ Connect(p) \/ ConnectFails(p) \/ Timeout(p) \/ Reset(p)
    \/ ReceiveError(p) \/ ReceiveKey(p)
    \/ FinishCycle(p) \/ FinishOneShot(p)

Loop(d) ==
    \/ \E p \in Proc : AnswerHttp(d, p) \/ RefuseHttp(d, p)
    \/ HttpDrained(d) \/ BeginCycle(d) \/ Sleep(d)

Receive(d, m) == IgnoreAnnouncement(d, m) \/ AdoptAnnouncement(d, m)

Next ==
    \/ \E d \in Daemon : Start(d) \/ Loop(d) \/ Tick(d)
    \/ \E d \in Daemon, m \in udp : Receive(d, m)
    \/ \E p \in OneShot : StartOneShot(p)
    \/ \E p \in Proc : Exit(p) \/ Step(p) \/ WriteError(p)
    \/ \E m \in udp : LoseAnnouncement(m)

Spec == Init /\ [][Next]_vars

Datagram ==
    [to : Daemon,
     env : UNION {{build_startup_announcement(d, a, k) :
                      a \in Address[d], k \in PublicKey[Host[d]]} : d \in Daemon}]

\* The operating system runs every process and its clock goes on.  A daemon
\* takes each connection of its backlog (it is a queue) and reads what
\* reached its socket.  Both are empty again and again, because the other
\* processes pause at least a second between two cycles, so the two loops
\* that drain them return.  Nothing obliges a process to start or to exit.
Fairness ==
    /\ \A p \in Proc : WF_vars(Step(p))
    /\ \A d \in Daemon :
        /\ \A p \in Proc : WF_vars(AnswerHttp(d, p) \/ RefuseHttp(d, p))
        /\ SF_vars(HttpDrained(d))
        /\ \A m \in Datagram : WF_vars(m \in udp /\ Receive(d, m))
        /\ SF_vars(BeginCycle(d) \/ Sleep(d))
        /\ WF_vars(Tick(d))

FairSpec == Spec /\ Fairness

-----------------------------------------------------------------------------
(* Properties                                                              *)

Endpoint == [id : AnyId, address : AnyAddress]
PeerRecord == [id : AnyId, address : AnyAddress, key : AnyKey \cup {NoKey}]
ManagedKey == [id : AnyId, key : AnyKey]
Response == {get_public_key_response(service(d, k)) : d \in Daemon, k \in AnyKey}

\* The type of the state; a process waits on at most one call.
TypeOK ==
    /\ pc \in [Proc -> {"down", "http", "udp", "cycle"}]
    /\ addr \in [Daemon -> AnyAddress]
    /\ key \in [Proc -> AnyKey]
    /\ peers \in [Proc -> SUBSET PeerRecord]
    /\ trigger \in [Proc -> BOOLEAN]
    /\ due \in [Proc -> BOOLEAN]
    /\ todo \in [Proc -> SUBSET Endpoint]
    /\ \A p \in Proc :
        /\ Cardinality(call[p]) <= 1
        /\ call[p] \subseteq [peer : Endpoint, server : Daemon,
                              status : {"sent", "answered", "reset"},
                              response : SUBSET Response]
    /\ managed \in [Proc -> SUBSET ManagedKey]
    /\ block \in [Hosts -> SUBSET AnyKey]
    /\ udp \subseteq Datagram
    /\ starts \in [Proc -> Nat] /\ \A p \in Proc : starts[p] <= MaxStarts[p]
    /\ view \in [Proc -> SUBSET PeerRecord]

\* A discovery is never lost: a running process whose known peers differ
\* from those its last cycle began with has the trigger of the next cycle
\* pending (sync_trigger_pending set by process_announcement and by
\* add_bootstrap_peers, cleared by take_sync_trigger only).
NoLostTrigger ==
    \A p \in Proc : Up(p) => trigger[p] \/ view[p] = peers[p]

\* The keys that daemons of p's group may have.
GroupKeys(p) ==
    UNION {PublicKey[Host[d]] :
              d \in {q \in Daemon : Sid[q] = Sid[p] /\ SidToken[q] = SidToken[p]}}

\* Only keys of the own sid and token ever reach the managed keys or
\* authorized_keys, whoever listens on the addresses a process asks.
GroupIsolation ==
    /\ \A p \in Proc : \A m \in managed[p] : m.key \in GroupKeys(p)
    /\ \A h \in Hosts : \A k \in block[h] :
          \E p \in Proc : Host[p] = h /\ k \in GroupKeys(p)

\* RFC 0001: peers that are unreachable "during a cycle" must not break the
\* access that is set up.  While a process runs, no failed call, no refusal
\* and no cycle in which nobody answers takes a peer out of its managed keys.
OutageKeepsKeys ==
    [][\A p \in Proc : Up(p) /\ pc'[p] # "down" =>
          \A m \in managed[p] : \E n \in managed'[p] : n.id = m.id]_vars

\* A cycle always ends, although the daemons it asks may be asking it: every
\* wait in send_http_post is bounded by IO_TIMEOUT_SECS.
CycleEnds == \A p \in Proc : pc[p] = "cycle" ~> pc[p] # "cycle"

\* p knows the address and the key with which q runs.
Knows(p, q) ==
    \E r \in peers[p] : r = [id |-> ParticipantId[q], address |-> addr[q], key |-> key[q]]

SameGroup(p, q) == Sid[p] = Sid[q] /\ SidToken[p] = SidToken[q]

\* Announcements carry no version and overtake each other, so an old address
\* may replace a new one; as every cycle announces again, two daemons of a
\* group that stay up end up with each other's current record for good.
DiscoveryConverges ==
    \A p, q \in Daemon :
        SameGroup(p, q) => (<>[](Up(p) /\ Up(q)) => <>[]Knows(p, q))

\* RFC 0001: "polling gives reliable eventual consistency".  Daemons of a
\* group that stay up keep each other's keys in authorized_keys eventually.
EventualConsistency ==
    \A p, q \in Daemon :
        SameGroup(p, q) /\ p # q /\ p \notin DryRun =>
            (<>[](Up(p) /\ Up(q)) => <>(key[q] \in block[Host[p]]))

\* RFC 0001: the first version "adds and updates" the managed block "but
\* does not remove the keys of vanished participants".  (For configurations
\* in which a host never changes its key.)  The code keeps this promise as
\* long as the process lives: a run gathers managed_keys anew, and its cycles
\* replace the whole block.
VanishedKeysKept == [][\A h \in Hosts : block[h] \subseteq block'[h]]_vars

\* What is left of it: as long as a process was not started again, no outage,
\* failed call, lost datagram or peer that came back elsewhere takes a key out
\* of the block of its host.  (For hosts with one process.)
FirstRunKeepsKeys ==
    [][\A p \in Proc : starts[p] <= 1 => block[Host[p]] \subseteq block'[Host[p]]]_vars
=============================================================================
