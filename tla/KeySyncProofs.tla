--------------------------- MODULE KeySyncProofs ----------------------------
(***************************************************************************)
(* Theorems about KeySync, for any number of daemons, one-shot syncs,      *)
(* groups, hosts, addresses and keys, on a lossy network or not.           *)
(***************************************************************************)
EXTENDS KeySync, FiniteSetTheorems, TLAPS

IsFcn(f, S) == f = [x \in S |-> f[x]]

\* The domains of the state functions: all that the proofs need of TypeOK.
Shape ==
    /\ pc \in [Proc -> {"down", "http", "udp", "cycle"}]
    /\ trigger \in [Proc -> BOOLEAN]
    /\ IsFcn(key, Proc)
    /\ IsFcn(peers, Proc)
    /\ IsFcn(view, Proc)
    /\ IsFcn(call, Proc)
    /\ IsFcn(managed, Proc)
    /\ IsFcn(block, Hosts)

\* The initial state has these domains.
LEMMA ShapeInit == Init => Shape
  BY Zenon DEF Init, Shape, IsFcn, Proc

\* The case split on the actions, once for all proofs.
LEMMA NextCases ==
    ASSUME Next
    PROVE  \/ \E d \in Daemon : Start(d)
           \/ \E p \in Proc : StartOneShot(p)
           \/ \E p \in Proc : Exit(p) \/ FinishOneShot(p) \/ WriteError(p)
           \/ \E d \in Daemon, p \in Proc : AnswerHttp(d, p) \/ RefuseHttp(d, p)
           \/ \E d \in Daemon : HttpDrained(d) \/ Sleep(d) \/ Tick(d)
           \/ \E d \in Daemon : BeginCycle(d)
           \/ \E d \in Daemon, m \in udp : IgnoreAnnouncement(d, m)
           \/ \E d \in Daemon, m \in udp : AdoptAnnouncement(d, m)
           \/ \E p \in Proc : Connect(p) \/ ConnectFails(p)
           \/ \E p \in Proc, c \in UNION {call[q] : q \in Proc} : CallFails(p, c)
           \/ \E p \in Proc : ReceiveKey(p)
           \/ \E d \in Daemon : FinishCycle(d)
           \/ \E m \in udp : LoseAnnouncement(m)
  BY Zenon DEF Next, Step, Loop, Receive, Timeout, Reset, ReceiveError, Proc, FinishCycle

\* No action changes the domain of a state function.
LEMMA ShapeStep == Shape /\ [Next]_vars => Shape'
<1> SUFFICES ASSUME Shape, [Next]_vars PROVE Shape'
  OBVIOUS
<1> USE DEF Shape, IsFcn
<1>1. CASE UNCHANGED vars
  BY <1>1 DEF vars
<1>2. ASSUME NEW d \in Daemon, Start(d) PROVE Shape'
  BY <1>2 DEF Start
<1>3. ASSUME NEW p \in Proc, StartOneShot(p) PROVE Shape'
  BY <1>3 DEF StartOneShot
<1>4. ASSUME NEW p \in Proc, Exit(p) \/ FinishOneShot(p) \/ WriteError(p) PROVE Shape'
  BY <1>4 DEF Exit, FinishOneShot, WriteError, Gone, CallsWithout, applied
<1>5. ASSUME NEW d \in Daemon, NEW p \in Proc, AnswerHttp(d, p) \/ RefuseHttp(d, p)
      PROVE Shape'
  BY <1>5 DEF AnswerHttp, RefuseHttp
<1>6. ASSUME NEW d \in Daemon, HttpDrained(d) \/ Sleep(d) \/ Tick(d) PROVE Shape'
  BY <1>6 DEF HttpDrained, Sleep, Tick
<1>7. ASSUME NEW d \in Daemon, BeginCycle(d) PROVE Shape'
  BY <1>7 DEF BeginCycle
<1>8. ASSUME NEW d \in Daemon, NEW m \in udp, IgnoreAnnouncement(d, m) PROVE Shape'
  BY <1>8 DEF IgnoreAnnouncement
<1>9. ASSUME NEW d \in Daemon, NEW m \in udp, AdoptAnnouncement(d, m) PROVE Shape'
  BY <1>9 DEF AdoptAnnouncement
<1>10. ASSUME NEW p \in Proc, Connect(p) \/ ConnectFails(p) PROVE Shape'
  BY <1>10 DEF Connect, ConnectFails
<1>11. ASSUME NEW p \in Proc, NEW c, CallFails(p, c) PROVE Shape'
  BY <1>11 DEF CallFails
<1>12. ASSUME NEW p \in Proc, ReceiveKey(p) PROVE Shape'
  BY <1>12 DEF ReceiveKey
<1>13. ASSUME NEW d \in Daemon, FinishCycle(d) PROVE Shape'
  BY <1>13 DEF FinishCycle, applied
<1>14. ASSUME NEW m \in udp, LoseAnnouncement(m) PROVE Shape'
  BY <1>14 DEF LoseAnnouncement
<1> QED
  BY <1>1, <1>2, <1>3, <1>4, <1>5, <1>6, <1>7, <1>8, <1>9, <1>10, <1>11, <1>12,
     <1>13, <1>14, NextCases, Zenon

-----------------------------------------------------------------------------
(* A discovery is never lost                                               *)

\* Every action keeps NoLostTrigger: whoever changes peers sets the trigger,
\* and whoever clears the trigger takes the peers as they are.
LEMMA TriggerStep ==
    Shape /\ NoLostTrigger /\ [Next]_vars => NoLostTrigger'
<1> SUFFICES ASSUME Shape, NoLostTrigger, [Next]_vars PROVE NoLostTrigger'
  OBVIOUS
<1> USE DEF Shape, IsFcn, NoLostTrigger, Up
<1>1. CASE UNCHANGED vars
  BY <1>1 DEF vars
<1>2. ASSUME NEW d \in Daemon, Start(d) PROVE NoLostTrigger'
  <2>1. Bootstrap[d] = {} => bootstrap_records(d) = {}
    BY DEF bootstrap_records
  <2>2. /\ trigger' = [trigger EXCEPT ![d] = Bootstrap[d] # {}]
        /\ peers' = [peers EXCEPT ![d] = bootstrap_records(d)]
        /\ view' = [view EXCEPT ![d] = {}]
        /\ pc' = [pc EXCEPT ![d] = "http"]
        /\ d \in Proc
    BY <1>2 DEF Start, Proc
  <2>3. trigger'[d] \/ view'[d] = peers'[d]
    BY <2>1, <2>2
  <2> QED
    BY <2>2, <2>3
<1>3. ASSUME NEW p \in Proc, StartOneShot(p) PROVE NoLostTrigger'
  BY <1>3 DEF StartOneShot
<1>4. ASSUME NEW p \in Proc, Exit(p) \/ FinishOneShot(p) \/ WriteError(p)
      PROVE NoLostTrigger'
  BY <1>4 DEF Exit, FinishOneShot, WriteError, Gone
<1>5. ASSUME NEW d \in Daemon, NEW p \in Proc, AnswerHttp(d, p) \/ RefuseHttp(d, p)
      PROVE NoLostTrigger'
  BY <1>5 DEF AnswerHttp, RefuseHttp
<1>6. ASSUME NEW d \in Daemon, HttpDrained(d) \/ Sleep(d) \/ Tick(d)
      PROVE NoLostTrigger'
  BY <1>6 DEF HttpDrained, Sleep, Tick
<1>7. ASSUME NEW d \in Daemon, BeginCycle(d) PROVE NoLostTrigger'
  BY <1>7 DEF BeginCycle
<1>8. ASSUME NEW d \in Daemon, NEW m \in udp, IgnoreAnnouncement(d, m)
      PROVE NoLostTrigger'
  BY <1>8 DEF IgnoreAnnouncement
<1>9. ASSUME NEW d \in Daemon, NEW m \in udp, AdoptAnnouncement(d, m)
      PROVE NoLostTrigger'
  BY <1>9 DEF AdoptAnnouncement
<1>10. ASSUME NEW p \in Proc, Connect(p) \/ ConnectFails(p) PROVE NoLostTrigger'
  BY <1>10 DEF Connect, ConnectFails
<1>11. ASSUME NEW p \in Proc, NEW c, CallFails(p, c) PROVE NoLostTrigger'
  BY <1>11 DEF CallFails
<1>12. ASSUME NEW p \in Proc, ReceiveKey(p) PROVE NoLostTrigger'
  BY <1>12 DEF ReceiveKey
<1>13. ASSUME NEW d \in Daemon, FinishCycle(d) PROVE NoLostTrigger'
  BY <1>13 DEF FinishCycle, Idle
<1>14. ASSUME NEW m \in udp, LoseAnnouncement(m) PROVE NoLostTrigger'
  BY <1>14 DEF LoseAnnouncement
<1> QED
  BY <1>1, <1>2, <1>3, <1>4, <1>5, <1>6, <1>7, <1>8, <1>9, <1>10, <1>11, <1>12,
     <1>13, <1>14, NextCases, Zenon

\* In every behaviour a process whose peers changed since its last cycle began
\* has its next cycle pending (take_sync_trigger is the only reset).
THEOREM TriggerNotLost == Spec => []NoLostTrigger
<1>1. Init => Shape /\ NoLostTrigger
  BY ShapeInit DEF Init, NoLostTrigger, Up
<1> QED
  BY <1>1, ShapeStep, TriggerStep, PTL DEF Spec

-----------------------------------------------------------------------------
(* Outages                                                                 *)

\* The managed keys of a process that goes on running lose no peer, whatever
\* fails (run_sync_cycle touches managed_keys only with a verified answer).
THEOREM OutageSafe == Spec => OutageKeepsKeys
<1> DEFINE Kept == \A p \in Proc : Up(p) /\ pc'[p] # "down" =>
                       \A m \in managed[p] : \E n \in managed'[p] : n.id = m.id
<1>1. ASSUME Shape, [Next]_vars PROVE Kept
  <2> USE <1>1 DEF Shape, IsFcn, Up
  <2>1. CASE UNCHANGED managed
    BY <2>1
  <2>2. ASSUME NEW p \in Proc, StartOneShot(p) \/ Start(p) PROVE Kept
    BY <2>2 DEF StartOneShot, Start
  <2>3. ASSUME NEW p \in Proc, Exit(p) \/ FinishOneShot(p) \/ WriteError(p) PROVE Kept
    BY <2>3 DEF Exit, FinishOneShot, WriteError, Gone
  <2>4. ASSUME NEW p \in Proc, ReceiveKey(p) PROVE Kept
    <3>1. PICK r : managed' = [managed EXCEPT ![p] = Insert(@, r)]
      BY <2>4 DEF ReceiveKey
    <3>2. \A m \in managed[p] : \E n \in Insert(managed[p], r) : n.id = m.id
      BY DEF Insert
    <3> QED
      BY <3>1, <3>2
  <2>5. \/ UNCHANGED managed
        \/ \E p \in Proc : StartOneShot(p) \/ Start(p)
        \/ \E p \in Proc : Exit(p) \/ FinishOneShot(p) \/ WriteError(p)
        \/ \E p \in Proc : ReceiveKey(p)
    <3>1. CASE UNCHANGED vars
      BY <3>1 DEF vars
    <3>2. CASE Next
      BY <3>2, NextCases, Zenon
         DEF AnswerHttp, RefuseHttp, HttpDrained, Sleep, Tick, BeginCycle,
             IgnoreAnnouncement, AdoptAnnouncement, Connect, ConnectFails, CallFails,
             FinishCycle, LoseAnnouncement, Proc
    <3> QED
      BY <3>1, <3>2
  <2> QED
    BY <2>1, <2>2, <2>3, <2>4, <2>5, Zenon
<1>2. Shape /\ [Next]_vars => [Kept]_vars
  BY <1>1
<1> QED
  BY <1>2, ShapeInit, ShapeStep, PTL DEF Spec, OutageKeepsKeys

-----------------------------------------------------------------------------
(* Isolation of the groups.  GroupIsolation is not inductive: it needs to  *)
(* know where the answers on their way come from.                          *)

\* Every process runs with a key of its host's key file.
OwnKeys == \A p \in Proc : key[p] \in PublicKey[Host[p]]

\* Every answer on its way is one that some daemon signed.
Origin(r) ==
    \E d \in Daemon : \E k \in PublicKey[Host[d]] :
        r = get_public_key_response(service(d, k))

AnswersAreSigned ==
    \A p \in Proc : \A c \in call[p] : \A r \in c.response : Origin(r)

ManagedIsolation == \A p \in Proc : \A m \in managed[p] : m.key \in GroupKeys(p)

BlockIsolation ==
    \A h \in Hosts : \A k \in block[h] :
        \E p \in Proc : Host[p] = h /\ k \in GroupKeys(p)

IInv == Shape /\ OwnKeys /\ AnswersAreSigned /\ ManagedIsolation /\ BlockIsolation

\* verify_envelope lets an answer of the own group through only, and the key
\* in it is that of the daemon that signed it.
LEMMA AcceptedKeyInGroup ==
    ASSUME NEW p \in Proc, NEW pk, NEW r, Origin(r),
           accepts_public_key_response(service(p, pk), r)
    PROVE  r.body.public_key \in GroupKeys(p)
<1>0. PICK d \in Daemon : \E k \in PublicKey[Host[d]] :
          r = get_public_key_response(service(d, k))
  BY DEF Origin
<1>1. PICK k \in PublicKey[Host[d]] : r = get_public_key_response(service(d, k))
  BY <1>0
<1>2. /\ r.sid = Sid[d]
      /\ r.signature.key = SidToken[d]
      /\ r.body.public_key = k
  BY <1>1 DEF get_public_key_response, sign_http_response, sign_envelope, service,
              hmac_signature_hex
<1>3. r.sid = Sid[p] /\ r.signature = hmac_signature_hex(SidToken[p], canonical_payload(r))
  BY DEF accepts_public_key_response, verify_envelope, service
<1>4. r.signature.key = SidToken[p]
  BY <1>3 DEF hmac_signature_hex
<1> QED
  BY <1>2, <1>3, <1>4 DEF GroupKeys

\* Nothing is on its way and nothing is managed at first.
LEMMA GroupInit == Init => IInv
<1> SUFFICES ASSUME Init PROVE IInv
  OBVIOUS
<1>1. OwnKeys
  BY ConfigAssumption DEF Init, OwnKeys
<1>2. AnswersAreSigned /\ ManagedIsolation /\ BlockIsolation
  BY DEF Init, AnswersAreSigned, ManagedIsolation, BlockIsolation
<1> QED
  BY <1>1, <1>2, ShapeInit DEF IInv

\* What a process writes is what it manages.
LEMMA AppliedIsolated ==
    ASSUME IInv, NEW p \in Proc, block' = applied(p)
    PROVE  BlockIsolation'
<1> USE DEF IInv, Shape, IsFcn
<1>1. CASE p \in DryRun
  BY <1>1 DEF applied, BlockIsolation
<1>2. CASE p \notin DryRun
  <2>1. block' = [block EXCEPT ![Host[p]] = {m.key : m \in managed[p]}]
    BY <1>2 DEF applied
  <2>2. \A k \in {m.key : m \in managed[p]} : k \in GroupKeys(p)
    BY DEF ManagedIsolation
  <2> QED
    BY <2>1, <2>2 DEF BlockIsolation
<1> QED
  BY <1>1, <1>2

\* Every action keeps the invariant; only ReceiveKey brings in a key, and
\* that one was verified.
LEMMA GroupStep == IInv /\ [Next]_vars => IInv'
<1> SUFFICES ASSUME IInv, [Next]_vars PROVE IInv'
  OBVIOUS
<1>1. Shape'
  BY ShapeStep DEF IInv
<1> DEFINE Rest == OwnKeys' /\ AnswersAreSigned' /\ ManagedIsolation' /\ BlockIsolation'
<1> USE DEF IInv, Shape, IsFcn, OwnKeys, AnswersAreSigned, ManagedIsolation, BlockIsolation
<1>2. ASSUME UNCHANGED <<key, call, managed, block>> PROVE Rest
  BY <1>2
<1>3. ASSUME NEW d \in Daemon, Start(d) PROVE Rest
  <2>1. /\ UNCHANGED <<call, block>>
        /\ managed' = [managed EXCEPT ![d] = {}]
        /\ \E k \in PublicKey[Host[d]] : key' = [key EXCEPT ![d] = k]
    BY <1>3 DEF Start
  <2> QED
    BY <2>1
<1>4. ASSUME NEW p \in Proc, StartOneShot(p) PROVE Rest
  BY <1>4 DEF StartOneShot
<1>5. ASSUME NEW p \in Proc, Exit(p) \/ FinishOneShot(p) \/ WriteError(p) PROVE Rest
  <2>1. Gone(p) /\ (block' = block \/ block' = applied(p))
    BY <1>5 DEF Exit, FinishOneShot, WriteError
  <2>2. OwnKeys' /\ ManagedIsolation'
    BY <2>1 DEF Gone
  <2>3. AnswersAreSigned'
    <3>1. \A q \in Proc : \A c \in CallsWithout(p)[q] : c \in call[q] \/ c.response = {}
      BY DEF CallsWithout, Call
    <3> QED
      BY <2>1, <3>1 DEF Gone
  <2>4. BlockIsolation'
    BY <2>1, AppliedIsolated
  <2> QED
    BY <2>2, <2>3, <2>4
<1>6. ASSUME NEW d \in Daemon, NEW p \in Proc, AnswerHttp(d, p) \/ RefuseHttp(d, p)
      PROVE Rest
  <2>1. UNCHANGED <<key, managed, block>>
    BY <1>6 DEF AnswerHttp, RefuseHttp
  <2>2. PICK e, resp : /\ call' = [call EXCEPT ![p] = {Call(e, d, "answered", resp)}]
                       /\ resp \in {{}, {get_public_key_response(service(d, key[d]))}}
    BY <1>6 DEF AnswerHttp, RefuseHttp
  <2>3. Origin(get_public_key_response(service(d, key[d])))
    BY DEF Origin, Proc
  <2>4. Call(e, d, "answered", resp).response = resp
    BY DEF Call
  <2>5. AnswersAreSigned'
    BY <2>2, <2>3, <2>4
  <2> QED
    BY <2>1, <2>5
<1>7. ASSUME NEW p \in Proc, Connect(p) PROVE Rest
  <2>1. UNCHANGED <<key, managed, block>>
    BY <1>7 DEF Connect
  <2>2. PICK e, d : call' = [call EXCEPT ![p] = {Call(e, d, "sent", {})}]
    BY <1>7 DEF Connect
  <2>3. AnswersAreSigned'
    BY <2>2 DEF Call
  <2> QED
    BY <2>1, <2>3
<1>8. ASSUME NEW p \in Proc, NEW c, CallFails(p, c) PROVE Rest
  BY <1>8 DEF CallFails
<1>9. ASSUME NEW p \in Proc, ReceiveKey(p) PROVE Rest
  <2>1. PICK c \in call[p], r \in UNION {d.response : d \in call[p]} :
           /\ accepts_public_key_response(service(p, key[p]), r)
           /\ managed' = [managed EXCEPT ![p] =
                  Insert(@, [id |-> c.peer.id, key |-> r.body.public_key])]
    BY <1>9 DEF ReceiveKey
  <2>2. r.body.public_key \in GroupKeys(p)
    BY <2>1, AcceptedKeyInGroup
  <2>3. ManagedIsolation'
    BY <2>1, <2>2 DEF Insert
  <2>4. OwnKeys' /\ AnswersAreSigned' /\ BlockIsolation'
    BY <1>9 DEF ReceiveKey
  <2> QED
    BY <2>3, <2>4
<1>10. ASSUME NEW d \in Daemon, FinishCycle(d) PROVE Rest
  <2>1. OwnKeys' /\ AnswersAreSigned' /\ ManagedIsolation'
    BY <1>10 DEF FinishCycle
  <2>2. BlockIsolation'
    BY <1>10, AppliedIsolated DEF FinishCycle, Proc
  <2> QED
    BY <2>1, <2>2
<1>11. Rest
  <2>1. CASE UNCHANGED vars
    BY <1>2, <2>1 DEF vars
  <2>2. ASSUME NEW d \in Daemon, HttpDrained(d) \/ Sleep(d) \/ Tick(d) \/ BeginCycle(d)
        PROVE Rest
    BY <1>2, <2>2 DEF HttpDrained, Sleep, Tick, BeginCycle
  <2>3. ASSUME NEW d, NEW m,
               IgnoreAnnouncement(d, m) \/ AdoptAnnouncement(d, m) \/ LoseAnnouncement(m)
        PROVE Rest
    BY <1>2, <2>3 DEF IgnoreAnnouncement, AdoptAnnouncement, LoseAnnouncement
  <2>4. ASSUME NEW p \in Proc, ConnectFails(p) PROVE Rest
    BY <1>2, <2>4 DEF ConnectFails
  <2> HIDE DEF Rest
  <2> QED
    BY <1>3, <1>4, <1>5, <1>6, <1>7, <1>8, <1>9, <1>10, <2>1, <2>2, <2>3, <2>4,
       NextCases, Zenon
<1> QED
  BY <1>1, <1>11

\* Keys of another group reach neither the managed keys of a process nor the
\* authorized_keys of its host, in any network of daemons and groups.
THEOREM GroupsAreIsolated == Spec => []GroupIsolation
<1>1. IInv => GroupIsolation
  BY DEF IInv, ManagedIsolation, BlockIsolation, GroupIsolation
<1> QED
  BY <1>1, GroupInit, GroupStep, PTL DEF Spec
-----------------------------------------------------------------------------
(* Types.  TypeOK is not inductive: a datagram has its type because a      *)
(* daemon announces one of its own addresses and keys, and a process waits *)
(* on one call because it begins none while it has one.                    *)

OwnAddresses == addr \in [Daemon -> AnyAddress] /\ \A d \in Daemon : addr[d] \in Address[d]

PeersTyped == peers \in [Proc -> SUBSET PeerRecord] /\ view \in [Proc -> SUBSET PeerRecord]

TodoTyped == todo \in [Proc -> SUBSET Endpoint]

CallRecord ==
    [peer : Endpoint, server : Daemon, status : {"sent", "answered", "reset"},
     response : SUBSET Response]

\* A process waits on at most one call.
CallsTyped ==
    \A p \in Proc : call[p] \subseteq CallRecord /\ \A b, c \in call[p] : b = c

KeysTyped == managed \in [Proc -> SUBSET ManagedKey] /\ block \in [Hosts -> SUBSET AnyKey]

DatagramsTyped == udp \subseteq Datagram

TimersTyped ==
    /\ due \in [Proc -> BOOLEAN]
    /\ starts \in [Proc -> Nat] /\ \A p \in Proc : starts[p] <= MaxStarts[p]

Types ==
    /\ OwnAddresses /\ PeersTyped /\ TodoTyped /\ CallsTyped /\ KeysTyped /\ DatagramsTyped
    /\ TimersTyped

\* What a process is configured with.
LEMMA Configured ==
    /\ \A p \in Proc : PublicKey[Host[p]] \subseteq AnyKey
    /\ \A d \in Daemon : Address[d] \subseteq AnyAddress
    /\ \A p \in Proc : ParticipantId[p] \in AnyId
    /\ \A p \in Proc : Bootstrap[p] \subseteq Endpoint
    /\ \A p \in Proc : bootstrap_records(p) \subseteq PeerRecord
    /\ Daemon \subseteq Proc
<1>1. \A p \in Proc : PublicKey[Host[p]] \subseteq AnyKey
  BY Zenon DEF AnyKey, Hosts
<1>2. \A d \in Daemon : Address[d] \subseteq AnyAddress
  BY Zenon DEF AnyAddress
<1>3. \A p \in Proc : ParticipantId[p] \in AnyId
  BY Zenon DEF AnyId
<1>4. ASSUME NEW p \in Proc, NEW b \in Bootstrap[p]
      PROVE  /\ b = [id |-> b.id, address |-> b.address]
             /\ b.id \in AnyId /\ b.address \in AnyAddress
  <2>1. b.id \in AnyId
    <3> DEFINE ids(q) == {c.id : c \in Bootstrap[q]}
    <3>1. b.id \in ids(p)
      OBVIOUS
    <3> QED
      BY <3>1 DEF AnyId
  <2>2. b.address \in AnyAddress
    <3> DEFINE addresses(q) == {c.address : c \in Bootstrap[q]}
    <3>1. b.address \in addresses(p)
      OBVIOUS
    <3> QED
      BY <3>1 DEF AnyAddress
  <2> QED
    BY <2>1, <2>2, ConfigAssumption
<1>5. \A p \in Proc : Bootstrap[p] \subseteq Endpoint
  BY <1>4 DEF Endpoint
<1>6. \A p \in Proc : bootstrap_records(p) \subseteq PeerRecord
  BY <1>4 DEF bootstrap_records, PeerRecord
<1> QED
  BY <1>1, <1>2, <1>3, <1>5, <1>6 DEF Proc

\* An announcement of a daemon is a datagram to daemons.
LEMMA AnnouncedTyped ==
    ASSUME NEW d \in Daemon, NEW a \in Address[d], NEW k \in PublicKey[Host[d]]
    PROVE  announced(d, a, k) \subseteq Datagram
<1> DEFINE of(c) == {build_startup_announcement(c, b, j) :
                        b \in Address[c], j \in PublicKey[Host[c]]}
<1>1. build_startup_announcement(d, a, k) \in UNION {of(c) : c \in Daemon}
  <2>1. build_startup_announcement(d, a, k) \in of(d)
    OBVIOUS
  <2> HIDE DEF of
  <2> QED
    BY <2>1
<1> QED
  BY <1>1 DEF announced, Datagram

\* The record in a datagram is one of a peer.
LEMMA DatagramRecord ==
    ASSUME NEW m \in Datagram
    PROVE  [id |-> m.env.body.id, address |-> m.env.body.address, key |-> m.env.body.key]
               \in PeerRecord
<1>1. PICK d \in Daemon : \E a \in Address[d], k \in PublicKey[Host[d]] :
          m.env = build_startup_announcement(d, a, k)
  <2> DEFINE of(c) == {build_startup_announcement(c, b, j) :
                          b \in Address[c], j \in PublicKey[Host[c]]}
  <2>1. m.env \in UNION {of(c) : c \in Daemon}
    BY DEF Datagram
  <2>2. PICK d \in Daemon : m.env \in of(d)
    BY <2>1
  <2> QED
    BY <2>2
<1>2. PICK a \in Address[d], k \in PublicKey[Host[d]] :
          m.env = build_startup_announcement(d, a, k)
  BY <1>1
<1>3. m.env.body = [sid |-> Sid[d], id |-> ParticipantId[d], address |-> a, key |-> k]
  BY <1>2 DEF build_startup_announcement, sign_envelope
<1>4. ParticipantId[d] \in AnyId /\ a \in AnyAddress /\ k \in AnyKey
  BY Configured
<1> QED
  BY <1>3, <1>4 DEF PeerRecord
\* Nobody has started.
LEMMA TypesInit == Init => Types
<1> SUFFICES ASSUME Init PROVE Types
  OBVIOUS
<1>1. OwnAddresses
  <2>1. \A d \in Daemon : addr[d] \in Address[d]
    BY ConfigAssumption DEF Init
  <2>2. \A d \in Daemon : addr[d] \in AnyAddress
    BY <2>1, Configured
  <2> QED
    BY <2>1, <2>2 DEF Init, OwnAddresses
<1>2. TimersTyped
  BY ConfigAssumption DEF Init, TimersTyped
<1> QED
  BY <1>1, <1>2 DEF Init, Types, PeersTyped, TodoTyped, CallsTyped, KeysTyped, DatagramsTyped

\* A process starts.
LEMMA TypesStart ==
    ASSUME Shape, Types, NEW p \in Proc, (p \in Daemon /\ Start(p)) \/ StartOneShot(p)
    PROVE  Types'
<1>1. TimersTyped'
  <2>1. starts' = [starts EXCEPT ![p] = @ + 1] /\ starts[p] < MaxStarts[p]
    BY DEF Start, StartOneShot
  <2>2. starts' \in [Proc -> Nat] /\ \A q \in Proc : starts'[q] <= MaxStarts[q]
    BY <2>1, ConfigAssumption DEF Types, TimersTyped
  <2>3. due' = due \/ due' = [due EXCEPT ![p] = TRUE]
    BY DEF Start, StartOneShot
  <2> QED
    BY <2>2, <2>3 DEF Types, TimersTyped
<1>2. PeersTyped'
  BY Configured DEF Start, StartOneShot, Types, PeersTyped
<1>3. KeysTyped' /\ CallsTyped'
  BY DEF Start, StartOneShot, Types, KeysTyped, CallsTyped
<1>4. TodoTyped'
  <2>1. {b \in Bootstrap[p] : b.id # ParticipantId[p]} \subseteq Endpoint
    BY Configured
  <2> QED
    BY <2>1 DEF Start, StartOneShot, Types, TodoTyped
<1>5. OwnAddresses' /\ DatagramsTyped'
  <2>1. CASE StartOneShot(p)
    BY <2>1 DEF StartOneShot, Types, OwnAddresses, DatagramsTyped
  <2>2. CASE p \in Daemon /\ Start(p)
    <3>1. PICK a \in Address[p], k \in PublicKey[Host[p]] :
              addr' = [addr EXCEPT ![p] = a] /\ udp' = udp \cup announced(p, a, k)
      BY <2>2 DEF Start
    <3>2. a \in AnyAddress
      BY <2>2, Configured
    <3>3. OwnAddresses'
      BY <3>1, <3>2 DEF Types, OwnAddresses
    <3>4. DatagramsTyped'
      BY <2>2, <3>1, AnnouncedTyped DEF Types, DatagramsTyped
    <3> QED
      BY <3>3, <3>4
  <2> QED
    BY <2>1, <2>2
<1> QED
  BY <1>1, <1>2, <1>3, <1>4, <1>5 DEF Types

\* A process ends, with what it wrote.
LEMMA TypesGone ==
    ASSUME Shape, Types, NEW p \in Proc, Gone(p), KeysTyped'
    PROVE  Types'
<1>1. CallsTyped'
  <2> SUFFICES ASSUME NEW q \in Proc
               PROVE  /\ CallsWithout(p)[q] \subseteq CallRecord
                      /\ \A b, c \in CallsWithout(p)[q] : b = c
    BY DEF Gone, CallsTyped
  <2> DEFINE left(c) == IF c.server = p /\ c.status = "sent"
                        THEN Call(c.peer, p, "reset", {}) ELSE c
  <2>1. CASE q = p
    BY <2>1 DEF CallsWithout
  <2>2. CASE q # p
    <3>1. CallsWithout(p)[q] = {left(c) : c \in call[q]}
      BY <2>2 DEF CallsWithout
    <3>2. \A c \in call[q] : left(c) \in CallRecord
      BY DEF Types, CallsTyped, CallRecord, Call
    <3> HIDE DEF left
    <3> QED
      BY <3>1, <3>2 DEF Types, CallsTyped
  <2> QED
    BY <2>1, <2>2
<1>2. OwnAddresses' /\ PeersTyped' /\ TodoTyped' /\ DatagramsTyped' /\ TimersTyped'
  BY DEF Gone, Types, OwnAddresses, PeersTyped, TodoTyped, DatagramsTyped, TimersTyped
<1> QED
  BY <1>1, <1>2 DEF Types

\* What a process writes is keys.
LEMMA AppliedTyped ==
    ASSUME Types, NEW p \in Proc, block' = applied(p)
    PROVE  block' \in [Hosts -> SUBSET AnyKey]
<1>1. {m.key : m \in managed[p]} \subseteq AnyKey
  BY DEF Types, KeysTyped, ManagedKey
<1> QED
  BY <1>1 DEF applied, Types, KeysTyped

\* A process calls, is answered, or is not.
LEMMA TypesCall ==
    ASSUME Shape, OwnKeys, Types, NEW p \in Proc,
           \/ \E d \in Daemon : AnswerHttp(d, p) \/ RefuseHttp(d, p)
           \/ Connect(p) \/ ConnectFails(p)
           \/ \E c \in UNION {call[q] : q \in Proc} : CallFails(p, c)
           \/ ReceiveKey(p)
    PROVE  Types'
<1> USE DEF Shape, IsFcn
<1>1. UNCHANGED <<addr, peers, view, udp, due, starts, block>>
  BY DEF AnswerHttp, RefuseHttp, Connect, ConnectFails, CallFails, ReceiveKey
<1>2. OwnAddresses' /\ PeersTyped' /\ DatagramsTyped' /\ TimersTyped'
  BY <1>1 DEF Types, OwnAddresses, PeersTyped, DatagramsTyped, TimersTyped
<1>3. TodoTyped'
  <2>1. todo' = todo \/ \E e : todo' = [todo EXCEPT ![p] = @ \ {e}]
    BY DEF AnswerHttp, RefuseHttp, Connect, ConnectFails, CallFails, ReceiveKey
  <2> QED
    BY <2>1 DEF Types, TodoTyped
<1>4. CallsTyped'
  <2>1. ASSUME NEW r \in CallRecord, call' = [call EXCEPT ![p] = {r}] PROVE CallsTyped'
    BY <2>1 DEF Types, CallsTyped
  <2>2. CASE call' = call \/ call' = [call EXCEPT ![p] = {}]
    BY <2>2 DEF Types, CallsTyped
  <2>3. ASSUME NEW d \in Daemon, AnswerHttp(d, p) PROVE CallsTyped'
    <3>1. PICK c \in call[p] : call' = [call EXCEPT ![p] =
             {Call(c.peer, d, "answered", {get_public_key_response(service(d, key[d]))})}]
      BY <2>3 DEF AnswerHttp
    <3>2. get_public_key_response(service(d, key[d])) \in Response
      BY Configured DEF OwnKeys, Response
    <3>3. Call(c.peer, d, "answered", {get_public_key_response(service(d, key[d]))})
            \in CallRecord
      BY <3>2 DEF Types, CallsTyped, CallRecord, Call
    <3> QED
      BY <2>1, <3>1, <3>3
  <2>4. ASSUME NEW d \in Daemon, RefuseHttp(d, p) PROVE CallsTyped'
    <3>1. PICK c \in call[p] : call' = [call EXCEPT ![p] = {Call(c.peer, d, "answered", {})}]
      BY <2>4 DEF RefuseHttp
    <3>2. Call(c.peer, d, "answered", {}) \in CallRecord
      BY DEF Types, CallsTyped, CallRecord, Call
    <3> QED
      BY <2>1, <3>1, <3>2
  <2>5. CASE Connect(p)
    <3>1. PICK e \in todo[p], d \in Daemon : call' = [call EXCEPT ![p] = {Call(e, d, "sent", {})}]
      BY <2>5 DEF Connect
    <3>2. Call(e, d, "sent", {}) \in CallRecord
      BY DEF Types, TodoTyped, CallRecord, Call
    <3> QED
      BY <2>1, <3>1, <3>2
  <2> QED
    BY <2>2, <2>3, <2>4, <2>5 DEF ConnectFails, CallFails, ReceiveKey
<1>5. KeysTyped'
  <2>1. CASE ReceiveKey(p)
    <3>1. PICK c \in call[p], r \in UNION {d.response : d \in call[p]} :
             managed' = [managed EXCEPT ![p] =
                 Insert(@, [id |-> c.peer.id, key |-> r.body.public_key])]
      BY <2>1 DEF ReceiveKey
    <3>2. c \in CallRecord /\ r \in Response
      BY DEF Types, CallsTyped, CallRecord
    <3>3. r.body.public_key \in AnyKey
      <4>1. PICK d \in Daemon, k \in AnyKey : r = get_public_key_response(service(d, k))
        BY <3>2 DEF Response
      <4>2. service(d, k).public_key = k
        BY DEF service
      <4>3. r.body.public_key = service(d, k).public_key
        BY <4>1 DEF get_public_key_response, sign_http_response, sign_envelope
      <4> QED
        BY <4>2, <4>3
    <3>4. [id |-> c.peer.id, key |-> r.body.public_key] \in ManagedKey
      BY <3>2, <3>3 DEF CallRecord, Endpoint, ManagedKey
    <3> QED
      BY <1>1, <3>1, <3>4 DEF Types, KeysTyped, Insert
  <2>2. CASE UNCHANGED managed
    BY <1>1, <2>2 DEF Types, KeysTyped
  <2> QED
    BY <2>1, <2>2 DEF AnswerHttp, RefuseHttp, Connect, ConnectFails, CallFails
<1> QED
  BY <1>2, <1>3, <1>4, <1>5 DEF Types

\* The other steps of the loop.
LEMMA TypesLoop ==
    ASSUME Shape, OwnKeys, Types, NEW d \in Daemon,
           \/ HttpDrained(d) \/ Sleep(d) \/ Tick(d) \/ BeginCycle(d) \/ FinishCycle(d)
           \/ \E m \in udp : \/ IgnoreAnnouncement(d, m) \/ AdoptAnnouncement(d, m)
                             \/ LoseAnnouncement(m)
    PROVE  Types'
<1>d. d \in Proc
  BY DEF Proc
<1>1. UNCHANGED <<addr, call, starts, managed>>
  BY DEF HttpDrained, Sleep, Tick, BeginCycle, FinishCycle, IgnoreAnnouncement,
         AdoptAnnouncement, LoseAnnouncement
<1>2. OwnAddresses' /\ CallsTyped'
  BY <1>1 DEF Types, OwnAddresses, CallsTyped
<1>3. TimersTyped'
  <2>1. due' = due \/ \E b \in BOOLEAN : due' = [due EXCEPT ![d] = b]
    BY DEF HttpDrained, Sleep, Tick, BeginCycle, FinishCycle, IgnoreAnnouncement,
           AdoptAnnouncement, LoseAnnouncement
  <2> QED
    BY <1>1, <2>1 DEF Types, TimersTyped
<1>4. DatagramsTyped'
  <2>1. \/ udp' \subseteq udp
        \/ udp' = udp \cup announced(d, addr[d], key[d])
    BY DEF HttpDrained, Sleep, Tick, BeginCycle, FinishCycle, IgnoreAnnouncement,
           AdoptAnnouncement, LoseAnnouncement
  <2>2. announced(d, addr[d], key[d]) \subseteq Datagram
    BY <1>d, AnnouncedTyped DEF OwnKeys, Types, OwnAddresses
  <2> QED
    BY <2>1, <2>2 DEF Types, DatagramsTyped
<1>5. KeysTyped'
  <2>1. block' = block \/ block' = applied(d)
    BY DEF HttpDrained, Sleep, Tick, BeginCycle, FinishCycle, IgnoreAnnouncement,
           AdoptAnnouncement, LoseAnnouncement
  <2> QED
    BY <1>1, <1>d, <2>1, AppliedTyped DEF Types, KeysTyped
<1>6. TodoTyped'
  <2>1. todo' = todo \/ todo' = [todo EXCEPT ![d] = endpoints(d)]
    BY DEF HttpDrained, Sleep, Tick, BeginCycle, FinishCycle, IgnoreAnnouncement,
           AdoptAnnouncement, LoseAnnouncement
  <2>2. endpoints(d) \subseteq Endpoint
    <3>1. \A r \in peers[d] : [id |-> r.id, address |-> r.address] \in Endpoint
      BY <1>d DEF Types, PeersTyped, PeerRecord, Endpoint
    <3>2. Bootstrap[d] \subseteq Endpoint
      BY <1>d, Configured
    <3> QED
      BY <3>1, <3>2 DEF endpoints
  <2> QED
    BY <2>1, <2>2 DEF Types, TodoTyped
<1>7. PeersTyped'
  <2>1. ASSUME NEW m \in udp, AdoptAnnouncement(d, m) PROVE PeersTyped'
    <3> DEFINE r == [id |-> m.env.body.id, address |-> m.env.body.address,
                     key |-> m.env.body.key]
    <3>1. r \in PeerRecord
      BY DatagramRecord DEF Types, DatagramsTyped
    <3>2. peers' = [peers EXCEPT ![d] = Insert(@, r)] /\ view' = view
      BY <2>1 DEF AdoptAnnouncement
    <3> HIDE DEF r
    <3> QED
      BY <3>1, <3>2 DEF Types, PeersTyped, Insert
  <2>2. CASE BeginCycle(d)
    BY <1>d, <2>2 DEF BeginCycle, Types, PeersTyped
  <2>3. CASE UNCHANGED <<peers, view>>
    BY <2>3 DEF Types, PeersTyped
  <2> QED
    BY <2>1, <2>2, <2>3 DEF HttpDrained, Sleep, Tick, FinishCycle, IgnoreAnnouncement,
                            LoseAnnouncement
<1> QED
  BY <1>2, <1>3, <1>4, <1>5, <1>6, <1>7 DEF Types

\* Every step keeps the types.
LEMMA TypesStep == IInv /\ Types /\ [Next]_vars => Types'
<1> SUFFICES ASSUME Shape, OwnKeys, Types, [Next]_vars PROVE Types'
  BY DEF IInv
<1>1. CASE UNCHANGED vars
  BY <1>1 DEF vars, Types, OwnAddresses, PeersTyped, TodoTyped, CallsTyped, KeysTyped,
              DatagramsTyped, TimersTyped
<1>2. ASSUME NEW p \in Proc, Exit(p) \/ FinishOneShot(p) \/ WriteError(p) PROVE Types'
  <2>1. Gone(p) /\ (block' = block \/ block' = applied(p))
    BY <1>2 DEF Exit, FinishOneShot, WriteError
  <2>2. KeysTyped'
    BY <2>1, AppliedTyped DEF Gone, Types, KeysTyped
  <2> QED
    BY <2>1, <2>2, TypesGone
<1>3. ASSUME NEW m \in udp, LoseAnnouncement(m) PROVE Types'
  <2>1. udp' \subseteq udp
        /\ UNCHANGED <<addr, peers, due, todo, call, managed, block, starts, view>>
    BY <1>3 DEF LoseAnnouncement
  <2> QED
    BY <2>1 DEF Types, OwnAddresses, PeersTyped, TodoTyped, CallsTyped, KeysTyped,
                DatagramsTyped, TimersTyped
<1> QED
  BY <1>1, <1>2, <1>3, NextCases, TypesStart, TypesCall, TypesLoop DEF Proc

\* The state of every process of the network has its type, for any number of
\* daemons, one-shot syncs, groups, addresses and keys: a process waits on one
\* call at most (send_http_post blocks its only thread, runtime.rs), what is
\* in its tables was configured or announced by some daemon, and what is in
\* authorized_keys is a key of some host.
THEOREM NetworkTypes == Spec => []TypeOK
<1>1. IInv /\ Types => TypeOK
  <2> SUFFICES ASSUME IInv, Types PROVE TypeOK
    OBVIOUS
  <2>1. \A p \in Proc : key[p] \in AnyKey
    BY Configured DEF IInv, OwnKeys
  <2>2. key \in [Proc -> AnyKey]
    BY <2>1 DEF IInv, Shape, IsFcn
  <2>3. ASSUME NEW p \in Proc PROVE Cardinality(call[p]) <= 1
    <3>1. CASE call[p] = {}
      BY <3>1, FS_EmptySet
    <3>2. ASSUME NEW c \in call[p] PROVE Cardinality(call[p]) <= 1
      <4>1. call[p] = {c}
        BY DEF Types, CallsTyped
      <4>2. Cardinality({c}) = 1
        BY FS_Singleton, Zenon
      <4>3. Cardinality(call[p]) = 1
        BY <4>1, <4>2, Zenon
      <4> QED
        BY <4>3
    <3> QED
      BY <3>1, <3>2
  <2> QED
    BY <2>2, <2>3 DEF IInv, Shape, Types, OwnAddresses, PeersTyped, TodoTyped, CallsTyped,
       CallRecord, KeysTyped, DatagramsTyped, TimersTyped, TypeOK
<1> QED
  BY <1>1, GroupInit, GroupStep, TypesInit, TypesStep, PTL DEF Spec
-----------------------------------------------------------------------------
(* The keys of vanished participants.  VanishedKeysKept is violated by     *)
(* restarts; here is what holds of the first run of each process.          *)

\* Whoever of p's group listens at the address of endpoint e has its id.
Leads(p, e) ==
    \A d \in Daemon : SameGroup(p, d) /\ e.address \in Address[d] => e.id = ParticipantId[d]

\* The daemons of a group differ in their ids and their addresses, and the
\* bootstrap lists tell them apart.
Addressed ==
    /\ \A d, e \in Daemon :
          /\ SameGroup(d, e)
          /\ ParticipantId[d] = ParticipantId[e] \/ Address[d] \cap Address[e] # {}
          => d = e
    /\ \A p \in Proc : \A b \in Bootstrap[p] : Leads(p, b)

\* Moreover, one process per host and one key per host.
Settled ==
    /\ Addressed
    /\ \A p, q \in Proc : Host[p] = Host[q] => p = q
    /\ \A p \in Proc : \A j, k \in PublicKey[Host[p]] : j = k

PeersLead == \A p \in Proc : \A r \in peers[p] : Leads(p, r)

TodoLeads == \A p \in Proc : \A e \in todo[p] : Leads(p, e)

\* A call goes to a daemon that may listen there, whose answer has its key.
CallsLead ==
    \A p \in Proc : \A c \in call[p] :
        /\ Leads(p, c.peer)
        /\ c.peer.address \in Address[c.server]
        /\ \A r \in c.response :
              \E k \in PublicKey[Host[c.server]] :
                  r = get_public_key_response(service(c.server, k))

\* The key that d's host has is managed under d's id.
KeysByName ==
    \A p \in Proc : \A m \in managed[p] :
        \E d \in Daemon : /\ SameGroup(p, d)
                          /\ m.id = ParticipantId[d]
                          /\ m.key \in PublicKey[Host[d]]

managed_of(p) == {m.key : m \in managed[p]}

\* In its first run a process has gathered what it wrote.
Gathered ==
    \A p \in Proc :
        /\ starts[p] = 0 => ~Up(p) /\ block[Host[p]] = {}
        /\ starts[p] = 1 /\ Up(p) => block[Host[p]] \subseteq managed_of(p)

RoutesInv == PeersLead /\ TodoLeads /\ CallsLead /\ KeysByName

\* An announcement that verifies leads to its sender.
LEMMA AnnouncementLeads ==
    ASSUME Addressed, NEW d \in Daemon, NEW m \in Datagram,
           verify_envelope(m.env, SidToken[d], Sid[d])
    PROVE  Leads(d, [id |-> m.env.body.id, address |-> m.env.body.address,
                     key |-> m.env.body.key])
<1>1. PICK e \in Daemon : \E a \in Address[e], k \in PublicKey[Host[e]] :
          m.env = build_startup_announcement(e, a, k)
  <2> DEFINE of(c) == {build_startup_announcement(c, b, j) :
                          b \in Address[c], j \in PublicKey[Host[c]]}
  <2>1. m.env \in UNION {of(c) : c \in Daemon}
    BY DEF Datagram
  <2>2. PICK e \in Daemon : m.env \in of(e)
    BY <2>1
  <2> QED
    BY <2>2
<1>2. PICK a \in Address[e], k \in PublicKey[Host[e]] :
          m.env = build_startup_announcement(e, a, k)
  BY <1>1
<1>3. /\ m.env.body = [sid |-> Sid[e], id |-> ParticipantId[e], address |-> a, key |-> k]
      /\ m.env.sid = Sid[e] /\ m.env.signature.key = SidToken[e]
  BY <1>2 DEF build_startup_announcement, sign_envelope, hmac_signature_hex
<1>4. SameGroup(d, e)
  BY <1>3 DEF verify_envelope, hmac_signature_hex, SameGroup
<1>5. ASSUME NEW f \in Daemon, SameGroup(d, f), a \in Address[f] PROVE f = e
  <2>1. SameGroup(e, f)
    BY <1>4, <1>5 DEF SameGroup
  <2>2. Address[e] \cap Address[f] # {}
    BY <1>5
  <2> QED
    BY <2>1, <2>2 DEF Addressed
<1> QED
  BY <1>3, <1>5 DEF Leads

\* Nobody knows anybody.
LEMMA RoutesInit == Init => RoutesInv /\ Gathered
<1> SUFFICES ASSUME Init PROVE RoutesInv /\ Gathered
  OBVIOUS
<1>1. RoutesInv
  BY DEF Init, RoutesInv, PeersLead, TodoLeads, CallsLead, KeysByName
<1>2. Gathered
  BY DEF Init, Gathered, Up, Hosts
<1> QED
  BY <1>1, <1>2

\* The key a process receives is that of the daemon of the name it asked for.
LEMMA ReceivedKeyIsNamed ==
    ASSUME Shape, Types, RoutesInv, NEW p \in Proc, ReceiveKey(p)
    PROVE  \E d \in Daemon : \E k \in PublicKey[Host[d]] :
              /\ SameGroup(p, d)
              /\ managed' = [managed EXCEPT ![p] =
                                Insert(@, [id |-> ParticipantId[d], key |-> k])]
<1>1. PICK c \in call[p], r \in UNION {d.response : d \in call[p]} :
         /\ accepts_public_key_response(service(p, key[p]), r)
         /\ managed' = [managed EXCEPT ![p] =
                Insert(@, [id |-> c.peer.id, key |-> r.body.public_key])]
  BY DEF ReceiveKey
<1>2. r \in c.response
  BY DEF Types, CallsTyped
<1>3. c.server \in Daemon
  BY DEF Types, CallsTyped, CallRecord
<1> DEFINE d == c.server
<1>4. PICK k \in PublicKey[Host[d]] : r = get_public_key_response(service(d, k))
  BY <1>2 DEF RoutesInv, CallsLead
<1>5. r.sid = Sid[d] /\ r.signature.key = SidToken[d] /\ r.body.public_key = k
  BY <1>4 DEF get_public_key_response, sign_http_response, sign_envelope, service,
              hmac_signature_hex
<1>6. r.sid = Sid[p] /\ r.signature = hmac_signature_hex(SidToken[p], canonical_payload(r))
  BY <1>1 DEF accepts_public_key_response, verify_envelope, service
<1>7. SameGroup(p, d)
  BY <1>5, <1>6 DEF SameGroup, hmac_signature_hex
<1>8. c.peer.id = ParticipantId[d]
  BY <1>3, <1>7 DEF RoutesInv, CallsLead, Leads
<1>9. managed' = [managed EXCEPT ![p] = Insert(@, [id |-> ParticipantId[d], key |-> k])]
  BY <1>1, <1>5, <1>8
<1> QED
  BY <1>3, <1>7, <1>9

\* So it is managed under its name.
LEMMA ReceivedByName ==
    ASSUME Shape, Types, RoutesInv, NEW p \in Proc, ReceiveKey(p)
    PROVE  KeysByName'
<1>1. PICK d \in Daemon : \E k \in PublicKey[Host[d]] :
         /\ SameGroup(p, d)
         /\ managed' = [managed EXCEPT ![p] = Insert(@, [id |-> ParticipantId[d], key |-> k])]
  BY ReceivedKeyIsNamed
<1>2. PICK k \in PublicKey[Host[d]] :
         /\ SameGroup(p, d)
         /\ managed' = [managed EXCEPT ![p] = Insert(@, [id |-> ParticipantId[d], key |-> k])]
  BY <1>1
<1> DEFINE n == [id |-> ParticipantId[d], key |-> k]
<1>3. Insert(managed[p], n) \subseteq managed[p] \cup {n}
  BY DEF Insert
<1>4. n.id = ParticipantId[d] /\ n.key = k
  OBVIOUS
<1>5. managed' = [managed EXCEPT ![p] = Insert(@, n)]
  BY <1>2
<1> HIDE DEF n
<1>6. ASSUME NEW q \in Proc, NEW m \in managed'[q]
      PROVE  m \in managed[q] \/ (q = p /\ m = n)
  BY <1>3, <1>5, <1>6 DEF Shape, IsFcn
<1> QED
  BY <1>2, <1>4, <1>6 DEF RoutesInv, KeysByName

\* A process gathers a key and loses none: the key it had under that name is
\* the same one.
LEMMA ReceivedKeyIsAdded ==
    ASSUME Settled, Shape, Types, RoutesInv, NEW p \in Proc, ReceiveKey(p)
    PROVE  \A q \in Proc : managed_of(q) \subseteq managed_of(q)'
<1>1. PICK d \in Daemon : \E k \in PublicKey[Host[d]] :
         /\ SameGroup(p, d)
         /\ managed' = [managed EXCEPT ![p] = Insert(@, [id |-> ParticipantId[d], key |-> k])]
  BY ReceivedKeyIsNamed
<1>2. PICK k \in PublicKey[Host[d]] :
         /\ SameGroup(p, d)
         /\ managed' = [managed EXCEPT ![p] = Insert(@, [id |-> ParticipantId[d], key |-> k])]
  BY <1>1
<1> DEFINE n == [id |-> ParticipantId[d], key |-> k]
<1>3. ASSUME NEW m \in managed[p], m.id = ParticipantId[d] PROVE m.key = k
  <2>1. PICK e \in Daemon : /\ SameGroup(p, e)
                            /\ m.id = ParticipantId[e]
                            /\ m.key \in PublicKey[Host[e]]
    BY DEF RoutesInv, KeysByName
  <2>2. SameGroup(d, e)
    BY <1>2, <2>1 DEF SameGroup
  <2>3. e = d
    BY <1>3, <2>1, <2>2 DEF Settled, Addressed
  <2> QED
    BY <2>1, <2>3 DEF Settled, Proc
<1> SUFFICES ASSUME NEW q \in Proc PROVE managed_of(q) \subseteq managed_of(q)'
  OBVIOUS
<1>4. CASE q # p
  BY <1>2, <1>4 DEF Shape, IsFcn, managed_of
<1>5. CASE q = p
  <2>1. managed'[p] = {m \in managed[p] : m.id # n.id} \cup {n}
    BY <1>2 DEF Shape, IsFcn, Insert
  <2>2. ASSUME NEW m \in managed[p] PROVE \E o \in managed'[p] : o.key = m.key
    BY <1>3, <2>1
  <2> QED
    BY <1>5, <2>2 DEF managed_of
<1> QED
  BY <1>4, <1>5

\* Every step keeps the routes.
LEMMA RoutesStep ==
    ASSUME Addressed, IInv, Types, RoutesInv, [Next]_vars
    PROVE  RoutesInv'
<1> USE DEF IInv, Shape, IsFcn, RoutesInv
<1>1. /\ UNCHANGED peers => PeersLead'
      /\ UNCHANGED todo => TodoLeads'
      /\ UNCHANGED call => CallsLead'
      /\ UNCHANGED managed => KeysByName'
  BY DEF PeersLead, TodoLeads, CallsLead, KeysByName
<1>2. ASSUME NEW p \in Proc, (p \in Daemon /\ Start(p)) \/ StartOneShot(p) PROVE RoutesInv'
  <2>1. \A r \in bootstrap_records(p) : Leads(p, r)
    BY DEF Addressed, Leads, bootstrap_records
  <2>2. PeersLead'
    <3>1. peers' = [peers EXCEPT ![p] = bootstrap_records(p)]
      BY <1>2 DEF Start, StartOneShot
    <3> QED
      BY <2>1, <3>1 DEF PeersLead
  <2>3. TodoLeads'
    <3>1. \/ todo' = todo
          \/ todo' = [todo EXCEPT ![p] = {b \in Bootstrap[p] : b.id # ParticipantId[p]}]
      BY <1>2 DEF Start, StartOneShot
    <3> QED
      BY <3>1 DEF TodoLeads, Addressed, Types, TodoTyped
  <2>4. call' = call /\ managed' = [managed EXCEPT ![p] = {}]
    BY <1>2 DEF Start, StartOneShot
  <2>5. CallsLead'
    BY <2>4 DEF CallsLead
  <2>6. KeysByName'
    BY <2>4 DEF KeysByName
  <2> QED
    BY <2>2, <2>3, <2>5, <2>6
<1>3. ASSUME NEW p \in Proc, Gone(p) PROVE RoutesInv'
  <2>1. CallsLead'
    <3>1. ASSUME NEW q \in Proc, NEW c \in CallsWithout(p)[q]
          PROVE  \/ c \in call[q]
                 \/ \E b \in call[q] : /\ b.server = c.server /\ b.peer = c.peer
                                       /\ c.response = {}
      <4> DEFINE left(b) == IF b.server = p /\ b.status = "sent"
                            THEN Call(b.peer, p, "reset", {}) ELSE b
      <4>1. q # p /\ CallsWithout(p)[q] = {left(b) : b \in call[q]}
        BY <3>1 DEF CallsWithout
      <4>2. PICK b \in call[q] : c = left(b)
        BY <3>1, <4>1
      <4> QED
        BY <4>2 DEF Call
    <3>2. call' = CallsWithout(p)
      BY <1>3 DEF Gone
    <3> SUFFICES ASSUME NEW q \in Proc, NEW c \in CallsWithout(p)[q]
                 PROVE  /\ Leads(q, c.peer)
                        /\ c.peer.address \in Address[c.server]
                        /\ \A r \in c.response :
                              \E k \in PublicKey[Host[c.server]] :
                                  r = get_public_key_response(service(c.server, k))
      BY <3>2 DEF CallsLead
    <3>3. CASE c \in call[q]
      BY <3>3 DEF CallsLead
    <3>4. ASSUME NEW b \in call[q], b.server = c.server, b.peer = c.peer, c.response = {}
          PROVE  /\ Leads(q, c.peer)
                 /\ c.peer.address \in Address[c.server]
      <4>1. Leads(q, b.peer) /\ b.peer.address \in Address[b.server]
        BY DEF CallsLead
      <4> QED
        BY <3>4, <4>1
    <3> QED
      BY <3>1, <3>3, <3>4
  <2>2. /\ peers' = [peers EXCEPT ![p] = {}]
        /\ todo' = [todo EXCEPT ![p] = {}]
        /\ managed' = [managed EXCEPT ![p] = {}]
    BY <1>3 DEF Gone
  <2>3. PeersLead'
    BY <2>2 DEF PeersLead
  <2>4. TodoLeads'
    BY <2>2 DEF TodoLeads, Types, TodoTyped
  <2>5. KeysByName'
    BY <2>2 DEF KeysByName
  <2> QED
    BY <2>1, <2>3, <2>4, <2>5
<1>4. ASSUME NEW d \in Daemon, NEW p \in Proc, AnswerHttp(d, p) \/ RefuseHttp(d, p)
      PROVE RoutesInv'
  <2>1. PICK c \in call[p], resp \in {{}, {get_public_key_response(service(d, key[d]))}} :
           /\ c.server = d
           /\ call' = [call EXCEPT ![p] = {Call(c.peer, d, "answered", resp)}]
    BY <1>4 DEF AnswerHttp, RefuseHttp, Queued
  <2>2. key[d] \in PublicKey[Host[d]]
    BY DEF OwnKeys, Proc
  <2>3. /\ Call(c.peer, d, "answered", resp).response = resp
        /\ Call(c.peer, d, "answered", resp).peer = c.peer
        /\ Call(c.peer, d, "answered", resp).server = d
    BY DEF Call
  <2>4. CallsLead'
    BY <2>1, <2>2, <2>3 DEF CallsLead
  <2> QED
    BY <1>1, <1>4, <2>4 DEF AnswerHttp, RefuseHttp
<1>5. ASSUME NEW d \in Daemon, BeginCycle(d) PROVE RoutesInv'
  <2>1. \A e \in endpoints(d) : Leads(d, e)
    <3>1. \A r \in peers[d] : Leads(d, [id |-> r.id, address |-> r.address])
      BY DEF PeersLead, Leads, Proc
    <3>2. \A b \in Bootstrap[d] : Leads(d, b)
      BY DEF Addressed, Proc
    <3> QED
      BY <3>1, <3>2 DEF endpoints
  <2>2. TodoLeads'
    BY <1>5, <2>1 DEF BeginCycle, TodoLeads, Types, TodoTyped
  <2> QED
    BY <1>1, <1>5, <2>2 DEF BeginCycle
<1>6. ASSUME NEW d \in Daemon, NEW m \in udp, AdoptAnnouncement(d, m) PROVE RoutesInv'
  <2> DEFINE r == [id |-> m.env.body.id, address |-> m.env.body.address, key |-> m.env.body.key]
  <2>1. verify_envelope(m.env, SidToken[d], Sid[d])
    BY <1>6 DEF AdoptAnnouncement, known
  <2>2. Leads(d, r)
    BY <2>1, AnnouncementLeads DEF Types, DatagramsTyped
  <2>3. peers' = [peers EXCEPT ![d] = Insert(@, r)]
    BY <1>6 DEF AdoptAnnouncement
  <2> HIDE DEF r
  <2>4. PeersLead'
    BY <2>2, <2>3 DEF PeersLead, Insert
  <2> QED
    BY <1>1, <1>6, <2>4 DEF AdoptAnnouncement
<1>7. ASSUME NEW p \in Proc, Connect(p) PROVE RoutesInv'
  <2>1. PICK e \in todo[p], d \in Daemon :
           Listening(d, e.address) /\ call' = [call EXCEPT ![p] = {Call(e, d, "sent", {})}]
    BY <1>7 DEF Connect
  <2>2. e.address \in Address[d] /\ Leads(p, e)
    BY <2>1 DEF Listening, Types, OwnAddresses, TodoLeads
  <2>3. CallsLead'
    BY <2>1, <2>2 DEF CallsLead, Call
  <2> QED
    BY <1>1, <1>7, <2>3 DEF Connect
<1>8. ASSUME NEW p \in Proc, NEW c, ConnectFails(p) \/ CallFails(p, c) PROVE RoutesInv'
  <2>1. PICK e : todo' = [todo EXCEPT ![p] = @ \ {e}]
    BY <1>8 DEF ConnectFails, CallFails
  <2>2. TodoLeads'
    BY <2>1 DEF TodoLeads, Types, TodoTyped
  <2>3. UNCHANGED <<peers, managed>> /\ (call' = call \/ call' = [call EXCEPT ![p] = {}])
    BY <1>8 DEF ConnectFails, CallFails
  <2>4. CallsLead'
    BY <2>3 DEF CallsLead
  <2> QED
    BY <1>1, <2>2, <2>3, <2>4
<1>9. ASSUME NEW p \in Proc, ReceiveKey(p) PROVE RoutesInv'
  <2>1. KeysByName'
    BY <1>9, ReceivedByName
  <2>2. PICK e : todo' = [todo EXCEPT ![p] = @ \ {e}]
    BY <1>9 DEF ReceiveKey
  <2>3. TodoLeads'
    BY <2>2 DEF TodoLeads, Types, TodoTyped
  <2>4. peers' = peers /\ call' = [call EXCEPT ![p] = {}]
    BY <1>9 DEF ReceiveKey
  <2>5. CallsLead'
    BY <2>4 DEF CallsLead
  <2> QED
    BY <1>1, <2>1, <2>3, <2>4, <2>5
<1>10. ASSUME NEW d,
              \/ HttpDrained(d) \/ Sleep(d) \/ Tick(d) \/ FinishCycle(d)
              \/ \E m \in udp : IgnoreAnnouncement(d, m) \/ LoseAnnouncement(m)
       PROVE RoutesInv'
  BY <1>1, <1>10 DEF HttpDrained, Sleep, Tick, FinishCycle, IgnoreAnnouncement, LoseAnnouncement
<1>11. CASE UNCHANGED vars
  BY <1>1, <1>11 DEF vars
<1> HIDE DEF IInv, Shape, IsFcn, RoutesInv
<1>12. ASSUME NEW p \in Proc, Exit(p) \/ FinishOneShot(p) \/ WriteError(p) PROVE RoutesInv'
  BY <1>3, <1>12 DEF Exit, FinishOneShot, WriteError
<1> QED
  BY <1>2, <1>4, <1>5, <1>6, <1>7, <1>8, <1>9, <1>10, <1>11, <1>12, NextCases, Zenon DEF Proc

\* run_sync_cycle stores a key under the id of the endpoint it asked, although
\* the answer names its sender and nobody compares the two.  In a network where
\* no two daemons of a group have an address in common and the bootstrap lists
\* are right, the key under an id is one of the host of that id: through
\* restarts, changes of address and key, and whoever of another group listens.
THEOREM KeysAreAttributed ==
    ASSUME Addressed
    PROVE  Spec => []KeysByName
<1> DEFINE All == IInv /\ Types /\ RoutesInv
<1>1. Init => All
  BY GroupInit, TypesInit, RoutesInit
<1>2. All /\ [Next]_vars => All'
  BY GroupStep, TypesStep, RoutesStep
<1>3. All => KeysByName
  BY DEF RoutesInv
<1> HIDE DEF All
<1> QED
  BY <1>1, <1>2, <1>3, PTL DEF Spec

\* The only step that writes a block.
LEMMA BlockWritten ==
    ASSUME Next
    PROVE  \/ UNCHANGED block
           \/ \E p \in Proc : Up(p) /\ block' = applied(p)
                              /\ (FinishCycle(p) \/ FinishOneShot(p))
<1>1. ASSUME NEW d \in Daemon, FinishCycle(d)
      PROVE  d \in Proc /\ Up(d) /\ block' = applied(d)
  BY <1>1 DEF FinishCycle, Idle, Up, Proc
<1>2. ASSUME NEW p \in Proc, FinishOneShot(p) PROVE Up(p) /\ block' = applied(p)
  BY <1>2 DEF FinishOneShot, Idle, Up
<1>3. ASSUME NEW p, \/ Start(p) \/ StartOneShot(p) \/ Exit(p) \/ WriteError(p)
                    \/ \E q \in Proc : AnswerHttp(p, q) \/ RefuseHttp(p, q)
                    \/ HttpDrained(p) \/ Sleep(p) \/ Tick(p) \/ BeginCycle(p)
                    \/ \E m \in udp : \/ IgnoreAnnouncement(p, m) \/ AdoptAnnouncement(p, m)
                                      \/ LoseAnnouncement(m)
                    \/ Connect(p) \/ ConnectFails(p) \/ ReceiveKey(p)
                    \/ \E c : CallFails(p, c)
      PROVE  UNCHANGED block
  BY <1>3 DEF Start, StartOneShot, Exit, WriteError, AnswerHttp, RefuseHttp, HttpDrained, Sleep,
              Tick, BeginCycle, IgnoreAnnouncement, AdoptAnnouncement, LoseAnnouncement,
              Connect, ConnectFails, ReceiveKey, CallFails
<1> QED
  BY <1>1, <1>2, <1>3, NextCases, Zenon

\* What p writes is what it manages, on its own host.
LEMMA WrittenBlock ==
    ASSUME Settled, Shape, NEW p \in Proc, block' = applied(p)
    PROVE  /\ block'[Host[p]] = IF p \in DryRun THEN block[Host[p]] ELSE managed_of(p)
           /\ \A q \in Proc : q # p => block'[Host[q]] = block[Host[q]]
<1>1. \A q \in Proc : Host[q] \in Hosts
  BY DEF Hosts
<1>2. \A q \in Proc : q # p => Host[q] # Host[p]
  BY DEF Settled
<1> QED
  BY <1>1, <1>2 DEF applied, managed_of, Shape, IsFcn

\* Every step keeps what the first run of a process has gathered.
LEMMA GatheredStep ==
    ASSUME Settled, IInv, Types, RoutesInv, Gathered, [Next]_vars
    PROVE  Gathered'
<1> USE DEF IInv
<1>0. starts \in [Proc -> Nat]
  BY DEF Types, TimersTyped
<1>1. ASSUME UNCHANGED <<managed, block, starts>>, \A p \in Proc : Up(p)' => Up(p)
      PROVE  Gathered'
  BY <1>1 DEF Gathered, managed_of
<1>2. ASSUME NEW p \in Proc, (p \in Daemon /\ Start(p)) \/ StartOneShot(p) PROVE Gathered'
  <2>1. /\ starts' = [starts EXCEPT ![p] = @ + 1] /\ block' = block
        /\ \A q \in Proc : q # p => managed'[q] = managed[q] /\ pc'[q] = pc[q]
    BY <1>2 DEF Start, StartOneShot, Shape, IsFcn
  <2>2. starts'[p] # 0 /\ (starts'[p] = 1 => starts[p] = 0)
    BY <1>0, <2>1
  <2>3. \A q \in Proc : q # p => starts'[q] = starts[q]
    BY <1>0, <2>1
  <2> QED
    BY <2>1, <2>2, <2>3 DEF Gathered, managed_of, Up
<1>3. ASSUME NEW p \in Proc, Up(p), Gone(p), block' = block \/ block' = applied(p)
      PROVE  Gathered'
  <2>1. /\ UNCHANGED starts
        /\ ~Up(p)'
        /\ \A q \in Proc : q # p => managed'[q] = managed[q] /\ pc'[q] = pc[q]
    BY <1>3 DEF Gone, Shape, IsFcn, Up
  <2>2. \A q \in Proc : q # p => block'[Host[q]] = block[Host[q]]
    BY <1>3, WrittenBlock
  <2>3. starts[p] # 0
    BY <1>3 DEF Gathered
  <2> QED
    BY <2>1, <2>2, <2>3 DEF Gathered, managed_of, Up
<1>4. ASSUME NEW p \in Proc, ReceiveKey(p) PROVE Gathered'
  <2>1. \A q \in Proc : managed_of(q) \subseteq managed_of(q)'
    BY <1>4, ReceivedKeyIsAdded
  <2>2. UNCHANGED <<pc, block, starts>>
    BY <1>4 DEF ReceiveKey
  <2> QED
    BY <2>1, <2>2 DEF Gathered, Up
<1>5. ASSUME NEW d \in Daemon, FinishCycle(d) PROVE Gathered'
  <2>1. d \in Proc /\ Up(d) /\ block' = applied(d)
    BY <1>5 DEF FinishCycle, Idle, Up, Proc
  <2>2. /\ UNCHANGED <<starts, managed>>
        /\ \A q \in Proc : Up(q)' => Up(q)
    BY <1>5, <2>1 DEF FinishCycle, Up, Shape
  <2>3. /\ block'[Host[d]] = IF d \in DryRun THEN block[Host[d]] ELSE managed_of(d)
        /\ \A q \in Proc : q # d => block'[Host[q]] = block[Host[q]]
    BY <2>1, WrittenBlock
  <2>4. starts[d] # 0
    BY <2>1 DEF Gathered
  <2> QED
    BY <2>1, <2>2, <2>3, <2>4 DEF Gathered, managed_of
<1>6. CASE UNCHANGED vars
  BY <1>1, <1>6 DEF vars, Up
<1>7. ASSUME NEW p, \/ \E q \in Proc : AnswerHttp(p, q) \/ RefuseHttp(p, q)
                    \/ \E m \in udp : \/ IgnoreAnnouncement(p, m) \/ AdoptAnnouncement(p, m)
                                      \/ LoseAnnouncement(m)
                    \/ Connect(p) \/ ConnectFails(p) \/ Tick(p)
                    \/ \E c : CallFails(p, c)
      PROVE  Gathered'
  <2>1. UNCHANGED <<pc, managed, block, starts>>
    BY <1>7 DEF AnswerHttp, RefuseHttp, IgnoreAnnouncement, AdoptAnnouncement,
                LoseAnnouncement, Connect, ConnectFails, Tick, CallFails
  <2> QED
    BY <1>1, <2>1 DEF Up
<1>8. ASSUME NEW d \in Daemon, HttpDrained(d) \/ Sleep(d) \/ BeginCycle(d) PROVE Gathered'
  <2>1. UNCHANGED <<managed, block, starts>>
    BY <1>8 DEF HttpDrained, Sleep, BeginCycle
  <2>2. pc[d] = "udp" \/ pc[d] = "http"
    BY <1>8 DEF HttpDrained, Sleep, BeginCycle
  <2>3. \A p \in Proc : p # d => pc'[p] = pc[p]
    BY <1>8 DEF HttpDrained, Sleep, BeginCycle, Shape
  <2> QED
    BY <1>1, <2>1, <2>2, <2>3 DEF Up
<1>9. ASSUME NEW p \in Proc, Exit(p) \/ FinishOneShot(p) \/ WriteError(p) PROVE Gathered'
  <2>1. Up(p) /\ Gone(p) /\ (block' = block \/ block' = applied(p))
    BY <1>9 DEF Exit, FinishOneShot, WriteError, Idle, Up
  <2> QED
    BY <1>3, <2>1
<1> QED
  BY <1>2, <1>4, <1>5, <1>6, <1>7, <1>8, <1>9, NextCases, Zenon DEF Proc

\* The block of a host whose process is in its first run only grows.
LEMMA FirstRunGrows ==
    ASSUME Settled, IInv, Types, Gathered, [Next]_vars, NEW p \in Proc, starts[p] <= 1
    PROVE  block[Host[p]] \subseteq block'[Host[p]]
<1>1. CASE UNCHANGED block
  BY <1>1
<1>2. ASSUME NEW q \in Proc, Up(q), block' = applied(q)
      PROVE  block[Host[p]] \subseteq block'[Host[p]]
  <2>1. /\ block'[Host[q]] = IF q \in DryRun THEN block[Host[q]] ELSE managed_of(q)
        /\ p # q => block'[Host[p]] = block[Host[p]]
    BY <1>2, WrittenBlock DEF IInv
  <2>2. p = q => starts[p] = 1
    <3>1. starts[p] \in Nat /\ (p = q => starts[p] # 0)
      BY <1>2 DEF Gathered, Types, TimersTyped
    <3> QED
      BY <3>1
  <2> QED
    BY <1>2, <2>1, <2>2 DEF Gathered
<1> QED
  BY <1>1, <1>2, BlockWritten DEF vars

\* The invariants of a settled network hold in every behaviour.
LEMMA SettledAlways ==
    ASSUME Settled
    PROVE  Spec => [](IInv /\ Types /\ RoutesInv /\ Gathered)
<1> DEFINE All == IInv /\ Types /\ RoutesInv /\ Gathered
<1>1. Init => All
  BY GroupInit, TypesInit, RoutesInit
<1>2. All /\ [Next]_vars => All'
  BY GroupStep, TypesStep, RoutesStep, GatheredStep DEF Settled
<1> HIDE DEF All
<1>3. Spec => []All
  BY <1>1, <1>2, PTL DEF Spec
<1> QED
  BY <1>3 DEF All

\* RFC 0001: the first version "does not remove the keys of vanished
\* participants".  With any outages, lost datagrams, failed calls and peers
\* that stop or come back elsewhere, a key leaves the block of a host only
\* after a process of that host was started again: managed_keys is gathered
\* anew by each run, and apply_managed_block_to_file replaces the whole block.
THEOREM OnlyRestartsForget ==
    ASSUME Settled
    PROVE  Spec => FirstRunKeepsKeys
<1> DEFINE All == IInv /\ Types /\ RoutesInv /\ Gathered
           Grows == \A p \in Proc : starts[p] <= 1 => block[Host[p]] \subseteq block'[Host[p]]
<1>1. All /\ [Next]_vars => Grows
  BY FirstRunGrows
<1>2. Spec => []All
  BY SettledAlways
<1> HIDE DEF All
<1>3. All /\ [Next]_vars => [Grows]_vars
  BY <1>1
<1> QED
  BY <1>2, <1>3, PTL DEF Spec, FirstRunKeepsKeys

\* The promise of the RFC about vanished participants holds of a network whose
\* processes are each started once, whatever else happens to them.
THEOREM OneRunKeepsVanished ==
    ASSUME Settled, \A p \in Proc : MaxStarts[p] <= 1
    PROVE  Spec => VanishedKeysKept
<1> DEFINE All == IInv /\ Types /\ RoutesInv /\ Gathered
           Grows == \A h \in Hosts : block[h] \subseteq block'[h]
<1>1. All /\ [Next]_vars => Grows
  <2> SUFFICES ASSUME All, [Next]_vars, NEW h \in Hosts PROVE block[h] \subseteq block'[h]
    OBVIOUS
  <2>1. PICK p \in Proc : h = Host[p]
    BY DEF Hosts
  <2>2. starts[p] <= 1
    <3>1. starts[p] \in Nat /\ starts[p] <= MaxStarts[p] /\ MaxStarts[p] \in Nat
      BY ConfigAssumption DEF Types, TimersTyped
    <3> QED
      BY <3>1
  <2> QED
    BY <2>1, <2>2, FirstRunGrows
<1>2. Spec => []All
  BY SettledAlways
<1> HIDE DEF All
<1>3. All /\ [Next]_vars => [Grows]_vars
  BY <1>1
<1> QED
  BY <1>2, <1>3, PTL DEF Spec, VanishedKeysKept
=============================================================================
