-------------------------- MODULE EnvelopeVerifier --------------------------
(***************************************************************************)
(* src/src/auth.rs, EnvelopeVerifier: the replay protection of one         *)
(* daemon's UDP announcements.  Members and strangers sign envelopes at    *)
(* the time of their own clocks; the network keeps every envelope and      *)
(* delivers it, intact or altered, any number of times and in any order;   *)
(* the verifier reads the wall clock of its host, which jumps forward      *)
(* freely and back by at most MaxBackStep; the daemon restarts, which      *)
(* empties its nonce cache.                                                *)
(***************************************************************************)
EXTENDS Auth, Sequences

CONSTANTS
    Sid, SidToken,          \* the group of this verifier
    Signer,                 \* who signs: records [sid, token, sender_id]
    Nonce, Body,
    timestamp_skew_secs,    \* TIMESTAMP_SKEW_SECS, 60 in runtime.rs
    nonce_ttl_secs,         \* NONCE_TTL_SECS, 120 in runtime.rs
    MaxBackStep,            \* how far the wall clock may step back
    Horizon,                \* the last second of the model
    MaxRuns                 \* how many times the daemon starts

ASSUME TimeAssumption ==
    /\ timestamp_skew_secs \in Nat
    /\ nonce_ttl_secs \in Nat
    /\ MaxBackStep \in Nat
    /\ Horizon \in Nat
    /\ MaxRuns \in Nat \ {0}

VARIABLES
    now,            \* the wall clock, seconds
    peak,           \* the latest value the wall clock had (history)
    sent,           \* the envelopes that were signed, with the signer
    seen_nonces,    \* the cache of this run: records [key, at]
    run,            \* the number of this run of the daemon
    log             \* the acceptances so far, in order (history)

vars == <<now, peak, sent, seen_nonces, run, log>>

Time == 0 .. Horizon

Envelope(s, t, n, b) ==
    sign_envelope(s.sid, s.token, s.sender_id, t, n, UdpAnnouncement, b)

\* What the network may deliver of a signed envelope: the signature of e on
\* an envelope whose fields may be others than the ones that were signed.
Altered(e, sid, sender_id, timestamp_secs, nonce, hex) ==
    [sid |-> sid, sender_id |-> sender_id, timestamp_secs |-> timestamp_secs,
     nonce |-> nonce, context |-> e.context, body |-> e.body,
     signature |-> [hex |-> hex, key |-> e.signature.key,
                    payload |-> e.signature.payload]]

Variants(e) ==
    {Altered(e, s.sid, r.sender_id, t, n, h) :
        s \in Signer, r \in Signer, t \in Time, n \in Nonce, h \in BOOLEAN}

Init ==
    /\ now \in Time
    /\ peak = now
    /\ sent = {}
    /\ seen_nonces = {}
    /\ run = 1
    /\ log = <<>>

-----------------------------------------------------------------------------
(* The environment                                                         *)

\* An announcement leaves a daemon.  Its nonce is the nanosecond of its
\* clock (runtime.rs next_nonce), so a sender never uses one twice.
Sign(s, t, n, b) ==
    /\ \A m \in sent : m.sender_id = s.sender_id => m.nonce # n
    /\ sent' = sent \cup {Envelope(s, t, n, b)}
    /\ UNCHANGED <<now, peak, seen_nonces, run, log>>

ClockChange(t) ==
    /\ t # now
    /\ t >= peak - MaxBackStep
    /\ now' = t
    /\ peak' = IF t > peak THEN t ELSE peak
    /\ UNCHANGED <<sent, seen_nonces, run, log>>

\* EnvelopeVerifier::new in a new process: nothing of the cache is kept.
Restart ==
    /\ run < MaxRuns
    /\ run' = run + 1
    /\ seen_nonces' = {}
    /\ UNCHANGED <<now, peak, sent, log>>

-----------------------------------------------------------------------------
(* EnvelopeVerifier::verify, one action for each of its ends               *)

Authentic(e) == verify_envelope(e, SidToken, Sid)

RejectEnvelope(e) ==
    /\ ~Authentic(e)
    /\ UNCHANGED vars

\* Variant: the nonce is remembered before the time window is checked.
RejectTimestamp_remembers(e) ==
    /\ Authentic(e)
    /\ ~InWindow(e.timestamp_secs, now, timestamp_skew_secs)
    /\ seen_nonces' = seen_nonces \cup {[key |-> nonce_key(e), at |-> now]}
    /\ UNCHANGED <<now, peak, sent, run, log>>

RejectTimestamp(e) ==
    /\ Authentic(e)
    /\ ~InWindow(e.timestamp_secs, now, timestamp_skew_secs)
    /\ UNCHANGED vars

Pruned == prune_nonces(seen_nonces, now, nonce_ttl_secs)

RejectReplay(e) ==
    /\ Authentic(e)
    /\ InWindow(e.timestamp_secs, now, timestamp_skew_secs)
    /\ \E s \in Pruned : s.key = nonce_key(e)
    /\ seen_nonces' = Pruned
    /\ UNCHANGED <<now, peak, sent, run, log>>

Accept(e) ==
    /\ Authentic(e)
    /\ InWindow(e.timestamp_secs, now, timestamp_skew_secs)
    /\ \A s \in Pruned : s.key # nonce_key(e)
    /\ seen_nonces' = Pruned \cup {[key |-> nonce_key(e), at |-> now]}
    /\ log' = Append(log, [env |-> e, at |-> now, run |-> run])
    /\ UNCHANGED <<now, peak, sent, run>>

Deliver(e) ==
    \/ RejectEnvelope(e)
    \/ RejectTimestamp(e)
    \/ RejectReplay(e)
    \/ Accept(e)

Next ==
    \/ \E s \in Signer, t \in Time, n \in Nonce, b \in Body : Sign(s, t, n, b)
    \/ \E t \in Time : ClockChange(t)
    \/ Restart
    \/ \E m \in sent : \E e \in Variants(m) : Deliver(e)

Spec == Init /\ [][Next]_vars

-----------------------------------------------------------------------------
(* Properties                                                              *)

Key == {s.sender_id : s \in Signer} \X Nonce

Sent == {Envelope(s, t, n, b) : s \in Signer, t \in Time, n \in Nonce, b \in Body}

\* The type of the state: the clock and the cache hold seconds, the cache is
\* keyed by sender and nonce, and the log records what verify let through.
TypeOK ==
    /\ now \in Time
    /\ peak \in Time
    /\ sent \subseteq Sent
    /\ seen_nonces \subseteq [key : Key, at : Time]
    /\ run \in 1 .. MaxRuns
    /\ log \in Seq([env : Sent, at : Time, run : 1 .. MaxRuns])

\* One run of the daemon never accepts the same announcement twice, however
\* often and however late the network repeats it: the nonce cache outlives
\* the time window (EnvelopeVerifier::verify and prune_nonces).
NoReplayWithinRun ==
    \A i, j \in 1 .. Len(log) :
        /\ i # j
        /\ log[i].run = log[j].run
        => nonce_key(log[i].env) # nonce_key(log[j].env)

\* A restart empties the cache, but what was accepted before it (or is fetched
\* from an old recording) is accepted again only within twice the skew of the
\* first time: the window of verify does not depend on the cache.
ReplayIsRecent ==
    \A i, j \in 1 .. Len(log) :
        nonce_key(log[i].env) = nonce_key(log[j].env)
        => log[j].at <= log[i].at + 2 * timestamp_skew_secs

\* Whatever verify lets through is, field for field, what a holder of the
\* group's sid and token signed: neither an envelope altered on its way nor
\* one that a stranger signed with another sid or token gets through.
AcceptedAsSigned ==
    \A i \in 1 .. Len(log) :
        /\ log[i].env \in sent
        /\ \E s \in Signer, t \in Time, n \in Nonce, b \in Body :
              /\ s.sid = Sid /\ s.token = SidToken
              /\ log[i].env = Envelope(s, t, n, b)

\* A first delivery is never refused as a replay: the cache holds only keys
\* that this run accepted, and a rejected envelope leaves no key behind.
CacheOnlyAccepted ==
    \A s \in seen_nonces :
        \E i \in 1 .. Len(log) :
            /\ log[i].run = run
            /\ log[i].at = s.at
            /\ nonce_key(log[i].env) = s.key
=============================================================================
