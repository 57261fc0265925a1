----------------------- MODULE EnvelopeVerifierProofs -----------------------
(***************************************************************************)
(* Proofs about EnvelopeVerifier, for every skew, ttl, set of signers and  *)
(* number of restarts.                                                     *)
(***************************************************************************)
EXTENDS EnvelopeVerifier, SequenceTheorems, TLAPS

\* What the constants of runtime.rs must satisfy for the nonce cache to
\* outlive the window: 120 >= 2 * 60 + MaxBackStep leaves no slack at all.
TtlCoversWindow == nonce_ttl_secs >= 2 * timestamp_skew_secs + MaxBackStep

\* A signed envelope that the network altered does not verify, and one that
\* verifies was signed with this group's name and token (verify_envelope).
LEMMA AuthenticUnaltered ==
    ASSUME NEW s \in Signer, NEW t \in Time, NEW n \in Nonce, NEW b \in Body,
           NEW e \in Variants(Envelope(s, t, n, b)),
           Authentic(e)
    PROVE  /\ e = Envelope(s, t, n, b)
           /\ s.sid = Sid
           /\ s.token = SidToken
<1> DEFINE m == Envelope(s, t, n, b)
           payload == <<s.sid, s.sender_id, t, n, UdpAnnouncement, b>>
           sig == [hex |-> TRUE, key |-> s.token, payload |-> payload]
<1>1. /\ m = [sid |-> s.sid, sender_id |-> s.sender_id, timestamp_secs |-> t,
             nonce |-> n, context |-> UdpAnnouncement, body |-> b, signature |-> sig]
  BY DEF Envelope, sign_envelope, canonical_payload, hmac_signature_hex
<1>2. /\ m.context = UdpAnnouncement /\ m.body = b
      /\ m.signature.key = s.token /\ m.signature.payload = payload
  BY <1>1
<1>3. PICK p \in Signer, r \in Signer, ts \in Time, nonce \in Nonce, h \in BOOLEAN :
           e = Altered(m, p.sid, r.sender_id, ts, nonce, h)
  BY DEF Variants
<1>4. e = [sid |-> p.sid, sender_id |-> r.sender_id, timestamp_secs |-> ts,
           nonce |-> nonce, context |-> UdpAnnouncement, body |-> b,
           signature |-> [hex |-> h, key |-> s.token, payload |-> payload]]
  BY <1>2, <1>3 DEF Altered
<1>5. /\ p.sid = Sid /\ h = TRUE
      /\ [hex |-> h, key |-> s.token, payload |-> payload]
          = [hex |-> TRUE, key |-> SidToken,
             payload |-> <<p.sid, r.sender_id, ts, nonce, UdpAnnouncement, b>>]
  BY <1>4 DEF Authentic, verify_envelope, canonical_payload, hmac_signature_hex
<1>6. /\ s.token = SidToken
      /\ payload = <<p.sid, r.sender_id, ts, nonce, UdpAnnouncement, b>>
  BY <1>5
<1>7. p.sid = s.sid /\ r.sender_id = s.sender_id /\ ts = t /\ nonce = n
  BY <1>6
<1> QED
  BY <1>1, <1>4, <1>5, <1>6, <1>7

-----------------------------------------------------------------------------
(* The inductive invariant.  NoReplayWithinRun is not inductive: it needs   *)
(* to know that a key this run accepted is either still cached or so old   *)
(* that its timestamp has left the window for good.                        *)

\* A sender uses a nonce for one envelope only.
FreshNonces ==
    \A e, f \in sent : nonce_key(e) = nonce_key(f) => e = f

\* The wall clock stays within MaxBackStep of its peak.
ClockNearPeak == now <= peak /\ now >= peak - MaxBackStep

\* An acceptance was in the window, and its key is cached until the clock
\* has once been more than the ttl past it.
CacheCovers ==
    \A i \in 1 .. Len(log) :
        /\ log[i].at <= peak
        /\ log[i].env.timestamp_secs <= log[i].at + timestamp_skew_secs
        /\ log[i].at <= log[i].env.timestamp_secs + timestamp_skew_secs
        /\ log[i].run <= run
        /\ log[i].run = run =>
              \/ [key |-> nonce_key(log[i].env), at |-> log[i].at] \in seen_nonces
              \/ peak > log[i].at + nonce_ttl_secs

\* No key is accepted twice, if the ttl covers the window.
NoReplayIfCovered == TtlCoversWindow => NoReplayWithinRun

IInv ==
    /\ TypeOK
    /\ FreshNonces
    /\ ClockNearPeak
    /\ AcceptedAsSigned
    /\ CacheCovers
    /\ CacheOnlyAccepted
    /\ NoReplayIfCovered

\* What a delivery that verifies carries: an envelope that was signed as it
\* is, by a member of the group.
LEMMA DeliveredAsSigned ==
    ASSUME TypeOK, NEW m \in sent, NEW e \in Variants(m), Authentic(e)
    PROVE  /\ e = m
           /\ nonce_key(e) \in Key
           /\ \E s \in Signer, t \in Time, n \in Nonce, b \in Body :
                 /\ s.sid = Sid /\ s.token = SidToken
                 /\ e = Envelope(s, t, n, b)
<1>1. PICK s \in Signer, t \in Time, n \in Nonce, b \in Body : m = Envelope(s, t, n, b)
  BY DEF TypeOK, Sent
<1>2. e = m /\ s.sid = Sid /\ s.token = SidToken
  BY <1>1, AuthenticUnaltered
<1>3. m.sender_id = s.sender_id /\ m.nonce = n
  BY <1>1 DEF Envelope, sign_envelope
<1>4. nonce_key(e) \in Key
  BY <1>2, <1>3 DEF Key, nonce_key
<1> QED
  BY <1>1, <1>2, <1>4

\* The timestamp of a signed envelope is a second.
LEMMA SentTimestamp ==
    ASSUME NEW m \in Sent
    PROVE  m.timestamp_secs \in Time
<1>1. PICK s \in Signer, t \in Time, n \in Nonce, b \in Body : m = Envelope(s, t, n, b)
  BY DEF Sent
<1> QED
  BY <1>1 DEF Envelope, sign_envelope

\* The arithmetic of the replay window: an envelope whose key the cache has
\* already dropped is outside the window, because the ttl covers it.
LEMMA ForgottenIsStale ==
    ASSUME TtlCoversWindow,
           NEW t \in Nat, NEW at \in Nat, NEW n \in Nat, NEW p \in Nat,
           t <= at + timestamp_skew_secs,
           p > at + nonce_ttl_secs,
           n >= p - MaxBackStep
    PROVE  ~InWindow(t, n, timestamp_skew_secs)
BY TimeAssumption DEF TtlCoversWindow, InWindow, saturating_sub

\* Type correctness is inductive.
LEMMA TypeStep ==
    ASSUME TypeOK, [Next]_vars
    PROVE  TypeOK'
<1> USE TimeAssumption DEF TypeOK, Time
<1>1. ASSUME NEW s \in Signer, NEW t \in Time, NEW n \in Nonce, NEW b \in Body,
             Sign(s, t, n, b)
      PROVE  TypeOK'
  BY <1>1 DEF Sign, Sent
<1>2. ASSUME NEW t \in Time, ClockChange(t)
      PROVE  TypeOK'
  BY <1>2 DEF ClockChange
<1>3. CASE Restart
  BY <1>3 DEF Restart
<1>4. ASSUME NEW m \in sent, NEW e \in Variants(m), Deliver(e)
      PROVE  TypeOK'
  <2>1. Pruned \subseteq seen_nonces
    BY DEF Pruned, prune_nonces
  <2>2. CASE RejectEnvelope(e) \/ RejectTimestamp(e)
    BY <2>2 DEF RejectEnvelope, RejectTimestamp, vars
  <2>3. CASE RejectReplay(e)
    BY <2>1, <2>3 DEF RejectReplay
  <2>4. CASE Accept(e)
    <3>1. e \in Sent /\ nonce_key(e) \in Key
      BY <1>4, <2>4, DeliveredAsSigned DEF Accept
    <3>2. log' \in Seq([env : Sent, at : Time, run : 1 .. MaxRuns])
      BY <2>4, <3>1 DEF Accept
    <3>3. seen_nonces' \subseteq [key : Key, at : Time]
      BY <2>1, <2>4, <3>1 DEF Accept
    <3> QED
      BY <2>4, <3>2, <3>3 DEF Accept
  <2> QED
    BY <1>4, <2>2, <2>3, <2>4 DEF Deliver
<1>5. CASE UNCHANGED vars
  BY <1>5 DEF vars
<1> QED
  BY <1>1, <1>2, <1>3, <1>4, <1>5 DEF Next

\* The state always has its type: in particular the cache holds only keys
\* of known senders and the log only envelopes that were signed.
THEOREM TypeCorrect == Spec => []TypeOK
<1>1. Init => TypeOK
  BY TimeAssumption DEF Init, TypeOK, Time
<1> QED
  BY <1>1, TypeStep, PTL DEF Spec

-----------------------------------------------------------------------------
(* The step of the inductive invariant, one lemma for the action that may   *)
(* break it and one for the others.                                        *)

\* What TypeOK says of one acceptance.
LEMMA LogEntry ==
    ASSUME TypeOK, NEW i \in 1 .. Len(log)
    PROVE  /\ log[i].env \in Sent
           /\ log[i].at \in Nat
           /\ log[i].run \in 1 .. MaxRuns
<1>1. log[i] \in [env : Sent, at : Time, run : 1 .. MaxRuns]
  BY ElementOfSeq, Zenon DEF TypeOK
<1> QED
  BY <1>1, TimeAssumption DEF Time

\* Pruning drops a key only when the clock is past its ttl, so what the
\* cache covers before it is covered after it.
LEMMA PruneCovers ==
    ASSUME IInv, NEW i \in 1 .. Len(log), log[i].run = run
    PROVE  \/ [key |-> nonce_key(log[i].env), at |-> log[i].at] \in Pruned
           \/ peak > log[i].at + nonce_ttl_secs
<1> DEFINE s == [key |-> nonce_key(log[i].env), at |-> log[i].at]
<1>1. s.at = log[i].at /\ log[i].at \in Nat /\ now \in Nat /\ peak \in Nat
  BY LogEntry, TimeAssumption DEF IInv, TypeOK, Time
<1>2. CASE s \in seen_nonces
  <2>1. CASE saturating_sub(now, s.at) <= nonce_ttl_secs
    BY <1>2, <2>1 DEF Pruned, prune_nonces
  <2>2. CASE ~(saturating_sub(now, s.at) <= nonce_ttl_secs)
    BY <1>1, <2>2, TimeAssumption DEF saturating_sub, IInv, ClockNearPeak
  <2> QED
    BY <2>1, <2>2
<1>3. CASE s \notin seen_nonces
  BY <1>3 DEF IInv, CacheCovers
<1> QED
  BY <1>2, <1>3

\* Accept keeps the invariant.
LEMMA AcceptStep ==
    ASSUME IInv, TypeOK', NEW m \in sent, NEW e \in Variants(m), Accept(e)
    PROVE  IInv'
<1> DEFINE entry == [env |-> e, at |-> now, run |-> run]
           k == Len(log) + 1
<1>1. /\ log \in Seq([env : Sent, at : Time, run : 1 .. MaxRuns])
      /\ now \in Nat /\ peak \in Nat /\ run \in Nat
  BY TimeAssumption DEF IInv, TypeOK, Time
<1>2. /\ e \in sent /\ e \in Sent
      /\ \E s \in Signer, t \in Time, n \in Nonce, b \in Body :
            /\ s.sid = Sid /\ s.token = SidToken
            /\ e = Envelope(s, t, n, b)
  BY DeliveredAsSigned DEF IInv, TypeOK, Accept
<1>3. /\ log' = Append(log, entry)
      /\ UNCHANGED <<now, peak, sent, run>>
      /\ seen_nonces' = Pruned \cup {[key |-> nonce_key(e), at |-> now]}
  BY DEF Accept
<1>4. /\ Len(log') = k /\ Len(log) \in Nat
      /\ log'[k] = entry
      /\ \A i \in 1 .. Len(log) : log'[i] = log[i]
      /\ \A i \in 1 .. Len(log') : i = k \/ i \in 1 .. Len(log)
  BY <1>1, <1>3
<1>5. TtlCoversWindow =>
        \A i \in 1 .. Len(log) : log[i].run = run => nonce_key(log[i].env) # nonce_key(e)
  <2> SUFFICES ASSUME TtlCoversWindow, NEW i \in 1 .. Len(log), log[i].run = run,
                      nonce_key(log[i].env) = nonce_key(e)
               PROVE  FALSE
    OBVIOUS
  <2>1. log[i].env = e
    BY <1>2 DEF IInv, AcceptedAsSigned, FreshNonces
  <2>2. [key |-> nonce_key(e), at |-> log[i].at] \notin Pruned
    BY DEF Accept
  <2>3. peak > log[i].at + nonce_ttl_secs
    BY <2>2, PruneCovers
  <2>4. /\ e.timestamp_secs \in Nat /\ log[i].at \in Nat
        /\ e.timestamp_secs <= log[i].at + timestamp_skew_secs
    <3>1. e.timestamp_secs \in Nat
      BY <1>2, SentTimestamp, TimeAssumption DEF Time
    <3> QED
      BY <2>1, <3>1, LogEntry DEF IInv, CacheCovers
  <2>5. ~InWindow(e.timestamp_secs, now, timestamp_skew_secs)
    BY <1>1, <2>3, <2>4, ForgottenIsStale DEF IInv, ClockNearPeak
  <2> QED
    BY <2>5 DEF Accept
<1>6. FreshNonces' /\ ClockNearPeak'
  BY <1>3 DEF IInv, FreshNonces, ClockNearPeak
<1>7. AcceptedAsSigned'
  BY <1>2, <1>3, <1>4 DEF IInv, AcceptedAsSigned
<1>8. CacheCovers'
  <2> SUFFICES ASSUME NEW i \in 1 .. Len(log')
               PROVE  /\ log'[i].at <= peak
                      /\ log'[i].env.timestamp_secs <= log'[i].at + timestamp_skew_secs
                      /\ log'[i].at <= log'[i].env.timestamp_secs + timestamp_skew_secs
                      /\ log'[i].run <= run
                      /\ log'[i].run = run =>
                            \/ [key |-> nonce_key(log'[i].env), at |-> log'[i].at]
                                   \in seen_nonces'
                            \/ peak > log'[i].at + nonce_ttl_secs
    BY <1>3 DEF CacheCovers, nonce_key
  <2>1. CASE i = k
    <3>1. e.timestamp_secs \in Nat
      BY <1>2, SentTimestamp, TimeAssumption DEF Time
    <3>2. now <= e.timestamp_secs + timestamp_skew_secs
      BY <1>1, <3>1, TimeAssumption DEF Accept, InWindow, saturating_sub
    <3> QED
      BY <1>1, <1>3, <1>4, <2>1, <3>2 DEF Accept, InWindow, IInv, ClockNearPeak
  <2>2. CASE i \in 1 .. Len(log)
    BY <1>3, <1>4, <2>2, PruneCovers DEF IInv, CacheCovers
  <2> QED
    BY <1>4, <2>1, <2>2
<1>9. CacheOnlyAccepted'
  <2> SUFFICES ASSUME NEW s \in seen_nonces'
               PROVE  \E i \in 1 .. Len(log') :
                          /\ log'[i].run = run
                          /\ log'[i].at = s.at
                          /\ nonce_key(log'[i].env) = s.key
    BY <1>3 DEF CacheOnlyAccepted, nonce_key
  <2>1. CASE s = [key |-> nonce_key(e), at |-> now]
    BY <1>4, <2>1
  <2>2. CASE s \in Pruned
    <3>1. s \in seen_nonces
      BY <2>2 DEF Pruned, prune_nonces
    <3>2. PICK i \in 1 .. Len(log) : /\ log[i].run = run
                                     /\ log[i].at = s.at
                                     /\ nonce_key(log[i].env) = s.key
      BY <3>1 DEF IInv, CacheOnlyAccepted
    <3> QED
      BY <1>4, <3>2
  <2> QED
    BY <1>3, <2>1, <2>2
<1>10. NoReplayIfCovered'
  <2> SUFFICES ASSUME TtlCoversWindow, NEW i \in 1 .. Len(log'), NEW j \in 1 .. Len(log'),
                      i # j, log'[i].run = log'[j].run
               PROVE  nonce_key(log'[i].env) # nonce_key(log'[j].env)
    BY DEF NoReplayIfCovered, NoReplayWithinRun, TtlCoversWindow, nonce_key
  <2>1. CASE i \in 1 .. Len(log) /\ j \in 1 .. Len(log)
    BY <1>4, <2>1 DEF IInv, NoReplayIfCovered, NoReplayWithinRun
  <2>2. CASE i = k /\ j \in 1 .. Len(log)
    BY <1>4, <1>5, <2>2
  <2>3. CASE i \in 1 .. Len(log) /\ j = k
    BY <1>4, <1>5, <2>3
  <2> QED
    BY <1>4, <2>1, <2>2, <2>3
<1> QED
  BY <1>6, <1>7, <1>8, <1>9, <1>10 DEF IInv

\* The other actions, and the whole step.
LEMMA InvStep ==
    ASSUME IInv, [Next]_vars
    PROVE  IInv'
<1>t. TypeOK'
  BY TypeStep DEF IInv
<1>n. now \in Nat /\ peak \in Nat /\ run \in Nat
  BY TimeAssumption DEF IInv, TypeOK, Time
<1>u. CASE UNCHANGED vars
  <2>1. UNCHANGED <<now, peak, sent, seen_nonces, run, log>>
    BY <1>u DEF vars
  <2>2. AcceptedAsSigned'
    BY <2>1 DEF IInv, AcceptedAsSigned
  <2>3. FreshNonces' /\ ClockNearPeak' /\ CacheCovers' /\ CacheOnlyAccepted' /\ NoReplayIfCovered'
    BY <2>1 DEF IInv, FreshNonces, ClockNearPeak, CacheCovers, CacheOnlyAccepted,
                NoReplayIfCovered, NoReplayWithinRun, TtlCoversWindow, nonce_key
  <2> QED
    BY <1>t, <2>2, <2>3 DEF IInv
<1>1. ASSUME NEW s \in Signer, NEW t \in Time, NEW n \in Nonce, NEW b \in Body,
             Sign(s, t, n, b)
      PROVE  IInv'
  <2> DEFINE f == Envelope(s, t, n, b)
  <2>1. /\ sent' = sent \cup {f}
        /\ UNCHANGED <<now, peak, seen_nonces, run, log>>
        /\ \A m \in sent : m.sender_id = s.sender_id => m.nonce # n
    BY <1>1 DEF Sign
  <2>2. f.sender_id = s.sender_id /\ f.nonce = n
    BY DEF Envelope, sign_envelope
  <2> HIDE DEF f
  <2>3. FreshNonces'
    BY <2>1, <2>2 DEF IInv, FreshNonces, nonce_key
  <2>4. AcceptedAsSigned'
    BY <2>1 DEF IInv, AcceptedAsSigned
  <2>5. ClockNearPeak' /\ CacheCovers' /\ CacheOnlyAccepted' /\ NoReplayIfCovered'
    BY <2>1 DEF IInv, ClockNearPeak, CacheCovers, CacheOnlyAccepted,
                NoReplayIfCovered, NoReplayWithinRun, TtlCoversWindow, nonce_key
  <2> QED
    BY <1>t, <2>3, <2>4, <2>5 DEF IInv
<1>2. ASSUME NEW t \in Time, ClockChange(t)
      PROVE  IInv'
  <2>1. /\ now' = t /\ t >= peak - MaxBackStep
        /\ peak' \in Nat /\ peak' >= peak /\ peak' >= t
        /\ (peak' = peak \/ peak' = t)
        /\ UNCHANGED <<sent, seen_nonces, run, log>>
    BY <1>2, <1>n, TimeAssumption DEF ClockChange, Time
  <2>2. ClockNearPeak'
    <3>1. t <= peak' /\ t >= peak' - MaxBackStep
      <4>1. t \in Nat
        BY TimeAssumption DEF Time
      <4>2. CASE peak' = peak
        BY <2>1, <4>2
      <4>3. CASE peak' = t
        BY <4>1, <4>3, TimeAssumption
      <4> QED
        BY <2>1, <4>2, <4>3
    <3>2. now' <= peak' /\ now' >= peak' - MaxBackStep
      BY <2>1, <3>1, Zenon
    <3> QED
      BY <3>2, Zenon DEF ClockNearPeak
  <2>3. CacheCovers'
    <3> SUFFICES ASSUME NEW i \in 1 .. Len(log)
                 PROVE  /\ log[i].at <= peak'
                        /\ log[i].env.timestamp_secs <= log[i].at + timestamp_skew_secs
                        /\ log[i].at <= log[i].env.timestamp_secs + timestamp_skew_secs
                        /\ log[i].run <= run
                        /\ log[i].run = run =>
                              \/ [key |-> nonce_key(log[i].env), at |-> log[i].at]
                                     \in seen_nonces
                              \/ peak' > log[i].at + nonce_ttl_secs
      BY <2>1 DEF CacheCovers, nonce_key
    <3>1. log[i].at \in Nat
      BY LogEntry DEF IInv
    <3> QED
      BY <1>n, <2>1, <3>1, TimeAssumption DEF IInv, CacheCovers
  <2>4. FreshNonces' /\ AcceptedAsSigned' /\ CacheOnlyAccepted' /\ NoReplayIfCovered'
    BY <2>1 DEF IInv, FreshNonces, AcceptedAsSigned, CacheOnlyAccepted,
                NoReplayIfCovered, NoReplayWithinRun, TtlCoversWindow, nonce_key
  <2> QED
    BY <1>t, <2>2, <2>3, <2>4 DEF IInv
<1>3. CASE Restart
  <2>1. /\ run' = run + 1 /\ seen_nonces' = {}
        /\ UNCHANGED <<now, peak, sent, log>>
    BY <1>3 DEF Restart
  <2>2. CacheCovers'
    <3> SUFFICES ASSUME NEW i \in 1 .. Len(log)
                 PROVE  /\ log[i].at <= peak
                        /\ log[i].env.timestamp_secs <= log[i].at + timestamp_skew_secs
                        /\ log[i].at <= log[i].env.timestamp_secs + timestamp_skew_secs
                        /\ log[i].run < run + 1
      BY <2>1, <1>n, LogEntry, TimeAssumption DEF IInv, CacheCovers
    <3>1. /\ log[i].at <= peak
          /\ log[i].env.timestamp_secs <= log[i].at + timestamp_skew_secs
          /\ log[i].at <= log[i].env.timestamp_secs + timestamp_skew_secs
          /\ log[i].run <= run
      BY DEF IInv, CacheCovers
    <3>2. log[i].run \in Nat
      BY LogEntry, TimeAssumption DEF IInv
    <3> QED
      BY <1>n, <3>1, <3>2
  <2>3. /\ FreshNonces' /\ AcceptedAsSigned' /\ CacheOnlyAccepted'
        /\ NoReplayIfCovered' /\ ClockNearPeak'
    BY <2>1 DEF IInv, FreshNonces, AcceptedAsSigned, CacheOnlyAccepted,
                NoReplayIfCovered, NoReplayWithinRun, TtlCoversWindow,
                ClockNearPeak, nonce_key
  <2> QED
    BY <1>t, <2>2, <2>3 DEF IInv
<1>4. ASSUME NEW m \in sent, NEW e \in Variants(m), Deliver(e)
      PROVE  IInv'
  <2>1. CASE RejectReplay(e)
    <3>1. /\ seen_nonces' = Pruned /\ Pruned \subseteq seen_nonces
          /\ UNCHANGED <<now, peak, sent, run, log>>
      BY <2>1 DEF RejectReplay, Pruned, prune_nonces
    <3>2. CacheCovers'
      BY <3>1, PruneCovers DEF IInv, CacheCovers, nonce_key
    <3>3. CacheOnlyAccepted'
      BY <3>1 DEF IInv, CacheOnlyAccepted, nonce_key
    <3>4. FreshNonces' /\ AcceptedAsSigned' /\ NoReplayIfCovered' /\ ClockNearPeak'
      BY <3>1 DEF IInv, FreshNonces, AcceptedAsSigned, NoReplayIfCovered, NoReplayWithinRun,
                  TtlCoversWindow, ClockNearPeak, nonce_key
    <3> QED
      BY <1>t, <3>2, <3>3, <3>4 DEF IInv
  <2>2. CASE Accept(e)
    BY <1>t, <1>4, <2>2, AcceptStep
  <2>3. CASE RejectEnvelope(e) \/ RejectTimestamp(e)
    BY <1>u, <2>3 DEF RejectEnvelope, RejectTimestamp
  <2> QED
    BY <1>4, <2>1, <2>2, <2>3 DEF Deliver
<1> QED
  BY <1>1, <1>2, <1>3, <1>4, <1>u DEF Next

\* The initial states satisfy the invariant: nothing was signed or accepted.
LEMMA InvInit ==
    ASSUME Init
    PROVE  IInv
BY TimeAssumption DEF Init, IInv, TypeOK, Time, FreshNonces, ClockNearPeak,
   AcceptedAsSigned, CacheCovers, CacheOnlyAccepted, NoReplayIfCovered, NoReplayWithinRun

\* Replay protection holds for every skew, ttl and clock step for which the
\* ttl covers the window: a run of the daemon accepts no announcement twice.
THEOREM ReplayProtection ==
    ASSUME TtlCoversWindow
    PROVE  Spec => []NoReplayWithinRun
<1>1. IInv => NoReplayWithinRun
  BY DEF IInv, NoReplayIfCovered
<1> QED
  BY <1>1, InvInit, InvStep, PTL DEF Spec

\* Every envelope that verify (src/src/auth.rs) ever accepted is one that a
\* holder of this group's sid and token signed, unaltered.
THEOREM AcceptanceIsSound == Spec => []AcceptedAsSigned
<1>1. IInv => AcceptedAsSigned
  BY DEF IInv
<1> QED
  BY <1>1, InvInit, InvStep, PTL DEF Spec

\* Only the keys of accepted envelopes are in the nonce cache of auth.rs,
\* whatever is purged when, so a first delivery is never mistaken for a replay.
THEOREM FirstDeliveryIsNew == Spec => []CacheOnlyAccepted
<1>1. IInv => CacheOnlyAccepted
  BY DEF IInv
<1> QED
  BY <1>1, InvInit, InvStep, PTL DEF Spec

\* However often the daemon restarts, and loses its cache with that, an
\* announcement is accepted again only within twice the skew of the first time.
THEOREM RestartReplayIsBounded == Spec => []ReplayIsRecent
<1>1. IInv => ReplayIsRecent
  <2> SUFFICES ASSUME IInv, NEW i \in 1 .. Len(log), NEW j \in 1 .. Len(log),
                      nonce_key(log[i].env) = nonce_key(log[j].env)
               PROVE  log[j].at <= log[i].at + 2 * timestamp_skew_secs
    BY DEF ReplayIsRecent
  <2>1. log[i].env = log[j].env
    BY DEF IInv, AcceptedAsSigned, FreshNonces
  <2>2. log[i].env.timestamp_secs \in Nat
    BY LogEntry, SentTimestamp, TimeAssumption DEF IInv, Time
  <2>3. /\ log[j].at <= log[j].env.timestamp_secs + timestamp_skew_secs
        /\ log[i].env.timestamp_secs <= log[i].at + timestamp_skew_secs
    BY DEF IInv, CacheCovers
  <2>4. log[i].at \in Nat /\ log[j].at \in Nat
    BY LogEntry DEF IInv
  <2>5. \A a, b, t \in Nat :
          b <= t + timestamp_skew_secs /\ t <= a + timestamp_skew_secs
          => b <= a + 2 * timestamp_skew_secs
    BY TimeAssumption
  <2>6. log[j].at <= log[i].env.timestamp_secs + timestamp_skew_secs
    BY <2>1, <2>3, Zenon
  <2> QED
    BY <2>2, <2>3, <2>4, <2>5, <2>6, Zenon
<1> QED
  BY <1>1, InvInit, InvStep, PTL DEF Spec
=============================================================================
