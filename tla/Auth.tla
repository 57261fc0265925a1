-------------------------------- MODULE Auth --------------------------------
(***************************************************************************)
(* src/src/auth.rs: signed envelopes and the pure part of their            *)
(* verification.  The cryptography is ideal: an HMAC is the pair of its    *)
(* key and its payload, so two signatures are equal exactly when key and   *)
(* payload are, and a body stands for its own SHA-256 digest.  `hex' says  *)
(* whether the signature text decodes as hexadecimal.                      *)
(***************************************************************************)
EXTENDS Integers

\* MessageContext, with the method already in upper case (canonical_context).
UdpAnnouncement == <<"udp_announcement">>
HttpRequest(method, path) == <<"http_request", method, path>>
HttpResponse(status_code, path) == <<"http_response", status_code, path>>

\* Variant: the body is not signed.
canonical_payload_bodiless(e) ==
    <<e.sid, e.sender_id, e.timestamp_secs, e.nonce, e.context>>

canonical_payload(e) ==
    <<e.sid, e.sender_id, e.timestamp_secs, e.nonce, e.context, e.body>>

hmac_signature_hex(sid_token, payload) ==
    [hex |-> TRUE, key |-> sid_token, payload |-> payload]

sign_envelope(sid, sid_token, sender_id, timestamp_secs, nonce, context, body) ==
    LET unsigned == [sid |-> sid, sender_id |-> sender_id,
                     timestamp_secs |-> timestamp_secs, nonce |-> nonce,
                     context |-> context, body |-> body]
    IN  [sid |-> sid, sender_id |-> sender_id,
         timestamp_secs |-> timestamp_secs, nonce |-> nonce,
         context |-> context, body |-> body,
         signature |-> hmac_signature_hex(sid_token, canonical_payload(unsigned))]

\* Variant: any signature of the right group name will do.
verify_envelope_by_name(e, sid_token, expected_sid) ==
    e.sid = expected_sid /\ e.signature.hex

\* Variant: the signature decides alone, whatever group it names.
verify_envelope_any_sid(e, sid_token, expected_sid) ==
    /\ e.signature.hex
    /\ e.signature = hmac_signature_hex(sid_token, canonical_payload(e))

\* verify_envelope returns Ok: the sid is ours, the signature is hexadecimal
\* and it is the HMAC of what the envelope says.  (Its three errors are not
\* told apart by any caller.)
verify_envelope(e, sid_token, expected_sid) ==
    /\ e.sid = expected_sid
    /\ e.signature.hex
    /\ e.signature = hmac_signature_hex(sid_token, canonical_payload(e))

\* u64::saturating_sub
saturating_sub(a, b) == IF a > b THEN a - b ELSE 0

\* Variant: only the future is refused.
InWindow_open(timestamp_secs, now_secs, skew) == timestamp_secs <= now_secs + skew

\* EnvelopeVerifier::verify, the time window (saturating_add cannot saturate
\* on a clock of seconds since 1970).
InWindow(timestamp_secs, now_secs, skew) ==
    /\ timestamp_secs >= saturating_sub(now_secs, skew)
    /\ timestamp_secs <= now_secs + skew

\* Variant: a nonce is forgotten one second early.
prune_nonces_early(seen, now_secs, ttl) ==
    {s \in seen : saturating_sub(now_secs, s.at) < ttl}

\* EnvelopeVerifier::prune_nonces.  The cache is a set of [key, at] records.
prune_nonces(seen, now_secs, ttl) ==
    {s \in seen : saturating_sub(now_secs, s.at) <= ttl}

\* Variant: the cache forgets whose nonce it is.
nonce_key_anonymous(e) == <<e.nonce>>

\* The key of the cache: format!("{}:{}", sender_id, nonce).
nonce_key(e) == <<e.sender_id, e.nonce>>
=============================================================================
