----------------------------- MODULE Transport ------------------------------
(***************************************************************************)
(* src/src/transport.rs: the key exchange over HTTP as operators on signed *)
(* envelopes.  A service is a record [sid, sid_token, participant_id,      *)
(* public_key]; a body is the record that serialize_payload writes and     *)
(* parse_payload reads back.  Timestamps and nonces of HTTP envelopes are  *)
(* signed but no code reads them: they are 0 here.                         *)
(***************************************************************************)
EXTENDS Auth

PATH_GET_PUBLIC_KEY == "/v1/keys/get"

sign_http_request(service, path, sender_id, body) ==
    sign_envelope(service.sid, service.sid_token, sender_id, 0, 0,
                  HttpRequest("POST", path), body)

sign_http_response(service, path, status_code, body) ==
    sign_envelope(service.sid, service.sid_token, service.participant_id, 0, 0,
                  HttpResponse(status_code, path), body)

\* The path of the context is compared, not the one of the HTTP request line.
expect_http_request_context(e, method, path) == e.context = HttpRequest(method, path)
expect_http_response_context(e, status_code, path) == e.context = HttpResponse(status_code, path)

\* The requester signs with the id of the peer it asks (request_public_key
\* passes the endpoint's participant_id as sender_id).
build_get_public_key_request(service, sender_id) ==
    sign_http_request(service, PATH_GET_PUBLIC_KEY, sender_id,
        [request |-> "public_key"])

\* handle_get_public_key_request accepts the request; otherwise the caller
\* answers 401.
accepts_get_public_key_request(service, e) ==
    /\ verify_envelope(e, service.sid_token, service.sid)
    /\ expect_http_request_context(e, "POST", PATH_GET_PUBLIC_KEY)

\* The envelope it returns then.
get_public_key_response(service) ==
    sign_http_response(service, PATH_GET_PUBLIC_KEY, 200,
        [sid |-> service.sid, participant_id |-> service.participant_id,
         public_key |-> service.public_key])

\* verify_and_parse_public_key_response returns Ok: the three fields are there.
\* The key it returns is e.body.public_key, which the server has normalized
\* once already; the sid and the participant_id are compared with nothing.
accepts_public_key_response(service, e) ==
    /\ verify_envelope(e, service.sid_token, service.sid)
    /\ expect_http_response_context(e, 200, PATH_GET_PUBLIC_KEY)
    /\ {"sid", "participant_id", "public_key"} \subseteq DOMAIN e.body

PATH_PUBLISH_PARTICIPANT == "/v1/participants/publish"

\* build_publish_request; the payload is [participant_id, address, port,
\* public_key].  The program has no caller of it.
build_publish_request(service, sender_id, payload) ==
    sign_http_request(service, PATH_PUBLISH_PARTICIPANT, sender_id, payload)

\* The body has the four fields and its port is a number.
parse_publish_request(body, Port) ==
    /\ {"participant_id", "address", "port", "public_key"} \subseteq DOMAIN body
    /\ body.port \in Port

\* handle_publish_request accepts the request, with a key that is one.
\* Nothing is stored.
accepts_publish_request(service, e, Port, Key) ==
    /\ verify_envelope(e, service.sid_token, service.sid)
    /\ expect_http_request_context(e, "POST", PATH_PUBLISH_PARTICIPANT)
    /\ parse_publish_request(e.body, Port)
    /\ e.body.public_key \in Key

\* The envelope it returns then.
publish_response(service, e) ==
    sign_http_response(service, PATH_PUBLISH_PARTICIPANT, 202,
        [status |-> "accepted", participant_id |-> e.body.participant_id])
=============================================================================
