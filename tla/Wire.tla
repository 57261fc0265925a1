-------------------------------- MODULE Wire --------------------------------
(***************************************************************************)
(* src/src/runtime.rs: how envelopes travel, as text in HTTP messages and  *)
(* in datagrams, and how addresses are written.                            *)
(*                                                                         *)
(* A message is a sequence of units, each a run of bytes: a header line, a *)
(* line break CRLF, or a line <<name, value>> of a serialized envelope.  A *)
(* stream may be read in any pieces and may end anywhere.                  *)
(***************************************************************************)
EXTENDS Config, Transport

CONSTANTS
    CutText,    \* a value without its last bytes
    NoPort,
    Address,    \* how the text of an address splits: [first, last, port], before
                \* its first and its last colon, and the number behind that
    PeerText    \* how the text of a bootstrap peer splits at "@": [id, address]

CRLF == <<"CRLF">>
Headers(start, n) == <<start, CRLF, <<"Content-Length", n>>, CRLF, CRLF>>

-----------------------------------------------------------------------------
(* Envelopes                                                               *)

\* serialize_envelope.  (The timestamp and the nonce of HTTP messages are
\* signed and read by no one; lines of the context's arguments are one line.)
serialize_envelope(e) ==
    << <<"sid", e.sid>>, <<"sender_id", e.sender_id>>,
       <<"timestamp_secs", e.timestamp_secs>>, <<"nonce", e.nonce>>,
       <<"signature_hex", e.signature>>, <<"context", e.context>>,
       <<"body_hex", e.body>> >>

\* What from_hex refuses, and what parse_envelope does.
NotHex == [hexadecimal |-> FALSE]
InvalidEnvelope == [error |-> "invalid envelope"]

\* to_hex and from_hex on what is left of a body whose hexadecimal form was
\* cut: an odd number of digits is refused, an even one gives the first
\* bytes of the body, its last field cut or gone.
CutBodies(body) ==
    LET last == CASE "public_key" \in DOMAIN body -> "public_key"
                  [] "status" \in DOMAIN body -> "participant_id"
                  [] OTHER -> "request"
    IN  {NotHex, [f \in DOMAIN body \ {last} |-> body[f]], [body EXCEPT ![last] = CutText]}

\* What may be there of a text when the stream ends early: the first n units
\* and a part of the next.  A line that is cut in its name is no line; one
\* that is cut in its value matters only when it is the last one, because
\* parse_envelope wants them all.
Cuts(text) ==
    {SubSeq(text, 1, n) : n \in 0 .. Len(text) - 1}
    \cup IF text # <<>> /\ Last(text)[1] = "body_hex"
         THEN {Append(Front(text), <<"body_hex", b>>) : b \in CutBodies(Last(text)[2])}
         ELSE {}

EnvelopeLine ==
    {"sid", "sender_id", "timestamp_secs", "nonce", "signature_hex", "context", "body_hex"}

\* The envelope that parse_envelope returns, names and values trimmed; it is an
\* error when a line is missing or the body is not hexadecimal.
parse_envelope(text) ==
    LET value(name) == text[Max({i \in DOMAIN text : text[i][1] = name})][2]
    IN  IF \/ ~ EnvelopeLine \subseteq {text[i][1] : i \in DOMAIN text}
           \/ <<"body_hex", NotHex>> \in Range(text)
        THEN InvalidEnvelope
        ELSE [sid |-> trim(value("sid")), sender_id |-> trim(value("sender_id")),
              timestamp_secs |-> value("timestamp_secs"), nonce |-> value("nonce"),
              signature |-> value("signature_hex"), context |-> value("context"),
              body |-> value("body_hex")]

-----------------------------------------------------------------------------
(* HTTP                                                                    *)

\* The end of the headers, or 0: find_subslice(data, "\r\n\r\n") and 4 more.
header_end(data) ==
    LET ends == {i \in 2 .. Len(data) : data[i - 1] = CRLF /\ data[i] = CRLF}
    IN  IF ends = {} THEN 0 ELSE Min(ends)

\* The last Content-Length of the headers, 0 without one.
content_length(data) ==
    LET lines == {i \in 1 .. header_end(data) : data[i][1] = "Content-Length"}
    IN  IF lines = {} THEN 0 ELSE data[Max(lines)][2]

\* read_http_request has the headers and the whole body.
is_request(data) ==
    header_end(data) > 0 /\ Len(data) >= header_end(data) + content_length(data)

request_path(data) == data[1][2]
request_body(data) ==
    SubSeq(data, header_end(data) + 1,
           IF Len(data) < header_end(data) + content_length(data) THEN Len(data)
           ELSE header_end(data) + content_length(data))

\* What send_http_post writes.
http_post(path, body) == Headers(<<"POST", path>>, Len(body)) \o body

\* What write_http_response writes.
http_response(status_code, body) == Headers(<<"HTTP/1.1", status_code>>, Len(body)) \o body

\* What send_http_post returns of the bytes up to the end of the stream: all
\* behind the headers; the status and the length are not looked at.
response_body(data) == SubSeq(data, header_end(data) + 1, Len(data))

\* The answer of handle_http_connection to a request for the path with the
\* parsed envelope e.
handle_http_connection(service, path, e, Port, Key) ==
    IF e = InvalidEnvelope THEN http_response(400, << <<"invalid envelope">> >>)
    ELSE IF path = PATH_GET_PUBLIC_KEY THEN
        IF accepts_get_public_key_request(service, e)
        THEN http_response(200, serialize_envelope(get_public_key_response(service)))
        ELSE http_response(401, << <<"verification failed">> >>)
    ELSE IF path = PATH_PUBLISH_PARTICIPANT THEN
        IF accepts_publish_request(service, e, Port, Key)
        THEN http_response(200, serialize_envelope(publish_response(service, e)))
        ELSE http_response(401, << <<"verification failed">> >>)
    ELSE http_response(404, << <<"not found">> >>)

-----------------------------------------------------------------------------
(* Addresses                                                               *)

parse_port(address) == Address[address.text].port

\* "[::]:9922" has "[" before its first colon, which stands for no host.
advertised_address(http_listen_addr, participant_id) ==
    LET host == Address[http_listen_addr.text].first
    IN  IF host \in {"0.0.0.0", "::"} THEN participant_id ELSE Plain(host)

\* parse_bootstrap_peer: without "@" the whole text is the id.
parse_bootstrap_peer(text) ==
    LET peer == PeerText[text]
        port == Address[peer.address].port
    IN  IF port = NoPort THEN None
        ELSE [participant_id |-> Plain(peer.id),
              address |-> Plain(Address[peer.address].last), port |-> port]
=============================================================================
