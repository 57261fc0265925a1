---------------------------- MODULE KeyExchange -----------------------------
(***************************************************************************)
(* One exchange of a key end to end: a server (run_daemon) and a client    *)
(* that asks it (a cycle of run_daemon or run_single_sync) read their      *)
(* configurations, set up TLS or not, and talk over a connection that      *)
(* delivers in any pieces and may break; request_public_key,               *)
(* handle_http_connection and the set-up of TLS in src/src/runtime.rs.     *)
(* The cryptography of TLS is ideal.                                       *)
(***************************************************************************)
EXTENDS Wire

CONSTANTS
    Sources,        \* Sources[r]: a sequence of sources role r may be started with
    PublicKey,      \* PublicKey[r]: the key of role r
    Pem,            \* the readable PEM files: path |-> [certs, key]; a
                    \* certificate is [id, issuer, names, key]
    Resolves        \* the host names that lead to the server's host

Role == {"client", "server"}

IsText(v) == v = [text |-> v.text, padded |-> v.padded] /\ v.padded \in BOOLEAN

ASSUME SourcesAssumption ==
    \A r \in Role : \A i \in DOMAIN Sources[r] :
        LET s == Sources[r][i]
        IN  /\ s = [args |-> s.args, env |-> s.env, file |-> s.file]
            /\ \A o \in DOMAIN s.args : IsText(s.args[o])
            /\ \A o \in DOMAIN s.env : IsText(s.env[o])

\* Address says of every address the server may listen at how it splits.
ASSUME AddressAssumption ==
    \A i \in DOMAIN Sources["server"] :
        config_error(Sources["server"][i], FALSE) = "Ok"
        => app_config(Sources["server"][i]).http_listen_addr.text \in DOMAIN Address

\* A key is neither of the two other results, nor is "Ok" none.
ASSUME ResultAssumption ==
    /\ DOMAIN PublicKey = Role /\ \A r \in Role : PublicKey[r] \notin {None, "Err"}
    /\ None \notin {"Ok", "Err"}

VARIABLES
    given,          \* given[r]: which of the sources r is started with
    pc,             \* pc[r]: where r is
    config,         \* config[r]: the AppConfig r has loaded, or None
    security,       \* security[r]: its TransportSecurity, or None
    registry,       \* the endpoint the client has learned from the server's announcement
    asks,           \* "get" or "publish"
    channel,        \* "none", "clear", "tls", or "foreign" when only one end has TLS
    up, down,       \* what is on its way to the server and to the client
    data,           \* what the server has read
    result,         \* the key, "Ok" for publish, or "Err" (None before the end)
    clear,          \* the roles that sent an HTTP message in the clear (history)
    faulty          \* whether a timeout or a failure interfered (history)

vars == <<given, pc, config, security, registry, asks, channel, up, down,
          data, result, clear, faulty>>
loaded == <<given, config, security>>
fixed == <<loaded, registry, asks>>

service(r) ==
    [sid |-> config[r].sid, sid_token |-> config[r].sid_token,
     participant_id |-> config[r].participant_id, public_key |-> PublicKey[r]]

-----------------------------------------------------------------------------
(* TLS                                                                     *)

load_cert_chain(path) ==
    IF path # None /\ path.text \in DOMAIN Pem THEN Pem[path.text].certs ELSE <<>>
load_private_key(path) ==
    IF path # None /\ path.text \in DOMAIN Pem THEN Pem[path.text].key ELSE None

\* Variant: without certificates there is no TLS.
build_transport_security_lenient(c) ==
    LET certs == load_cert_chain(c.tls_cert_path)
        key == load_private_key(c.tls_key_path)
        roots == load_cert_chain(c.tls_ca_path)
    IN  IF c.insecure_no_tls \/ certs = <<>> \/ roots = <<>> THEN [tls |-> FALSE]
        ELSE IF key = None \/ key # certs[1].key THEN None
        ELSE [tls |-> TRUE, cert |-> certs[1], roots |-> {r.id : r \in Range(roots)},
              server_name_override |-> c.tls_server_name]

\* build_transport_security; None is an error, which ends the process.
build_transport_security(c) ==
    LET certs == load_cert_chain(c.tls_cert_path)
        key == load_private_key(c.tls_key_path)
        roots == load_cert_chain(c.tls_ca_path)
    IN  IF c.insecure_no_tls THEN [tls |-> FALSE]
        ELSE IF certs = <<>> \/ key = None \/ key # certs[1].key \/ roots = <<>> THEN None
        ELSE [tls |-> TRUE, cert |-> certs[1], roots |-> {r.id : r \in Range(roots)},
              server_name_override |-> c.tls_server_name]

\* resolve_tls_server_name: the override, else the address, trimmed.
resolve_tls_server_name(address, override) == trim(or_default(override, address)).text

\* rustls accepts the server's certificate.
Trusted(address) ==
    /\ security["server"].cert.issuer \in security["client"].roots
    /\ resolve_tls_server_name(address, security["client"].server_name_override)
         \in security["server"].cert.names

-----------------------------------------------------------------------------
(* Where the client finds the server                                       *)

\* The announcement that the server broadcasts (send_announcement).
announcement ==
    LET c == config["server"]
    IN  serialize_envelope(
          sign_envelope(c.sid, c.sid_token, c.participant_id, 0, 0, UdpAnnouncement,
            [sid |-> c.sid, participant_id |-> c.participant_id,
             address |-> advertised_address(c.http_listen_addr, c.participant_id),
             port |-> parse_port(c.http_listen_addr),
             public_key |-> PublicKey["server"]]))

\* Names and values of the payload are trimmed.
parse_announcement_payload(body) ==
    [sid |-> trim(body.sid), participant_id |-> trim(body.participant_id),
     address |-> trim(body.address), port |-> body.port]

\* process_announcement inserts the participant of a fresh envelope e with the
\* payload a.
accepts_announcement(e, a) ==
    /\ e.context = UdpAnnouncement
    /\ verify_envelope(e, config["client"].sid_token, config["client"].sid)
    /\ a.address.text # ""
    /\ a.sid = config["client"].sid
    /\ a.participant_id.text # ""

\* The endpoints of run_sync_cycle: those of the registry, and the bootstrap
\* peers whose id is not there.
endpoints ==
    LET bootstrap == {parse_bootstrap_peer(t) : t \in Range(config["client"].bootstrap_peers)}
                     \ {None}
    IN  {e \in {b \in bootstrap : \A a \in registry : a.participant_id # b.participant_id}
               \cup registry : e.participant_id # config["client"].participant_id}

-----------------------------------------------------------------------------
Init ==
    /\ \E c \in DOMAIN Sources["client"], s \in DOMAIN Sources["server"] :
          given = [client |-> c, server |-> s]
    /\ pc = [r \in Role |-> "start"]
    /\ config = [r \in Role |-> None]
    /\ security = [r \in Role |-> None]
    /\ registry = {}
    /\ asks = "get"
    /\ channel = "none"
    /\ up = <<>> /\ down = <<>> /\ data = <<>>
    /\ result = None
    /\ clear = {}
    /\ faulty = FALSE

\* run_daemon wants ports in its addresses.
HasPorts(c) ==
    parse_port(c.http_listen_addr) # NoPort /\ parse_port(c.udp_announce_addr) # NoPort

\* The configuration is complete, TLS can be set up and the addresses do.
Starts(r, s) ==
    /\ config_error(s, FALSE) = "Ok"
    /\ \E c \in {app_config(s)} :
        /\ build_transport_security(c) # None
        /\ r = "server" => HasPorts(c)

\* main: load_config, then run_daemon (run_single_sync) up to its loop,
Start(r) ==
    LET s == Sources[r][given[r]]
    IN  /\ pc[r] = "start"
        /\ Starts(r, s)
        /\ \E c \in {app_config(s)} :
            /\ config' = [config EXCEPT ![r] = c]
            /\ security' = [security EXCEPT ![r] = build_transport_security(c)]
        /\ pc' = [pc EXCEPT ![r] = "ready"]
        /\ UNCHANGED <<given, registry, asks, channel, up, down, data,
                       result, clear, faulty>>

\* or the error that ends the process.
StartFails(r) ==
    /\ pc[r] = "start"
    /\ ~Starts(r, Sources[r][given[r]])
    /\ pc' = [pc EXCEPT ![r] = "exit"]
    /\ UNCHANGED <<fixed, channel, up, down, data, result, clear, faulty>>

\* handle_udp_announcements at the client takes the server's announcement.
Hear ==
    /\ \A r \in Role : pc[r] = "ready"
    /\ \E e \in {parse_envelope(announcement)} :
       \E a \in {parse_announcement_payload(e.body)} :
        /\ accepts_announcement(e, a)
        /\ registry' = {[participant_id |-> a.participant_id, address |-> a.address,
                         port |-> a.port]}
    /\ UNCHANGED <<loaded, pc, asks, channel, up, down, data, result, clear,
                   faulty>>

Reaches(e) ==
    /\ pc["server"] = "ready"
    /\ e.address.text \in Resolves
    /\ e.port = parse_port(config["server"].http_listen_addr)

\* The cycle has no one to ask, or send_http_post finds no one at the address.
ConnectFails ==
    /\ pc["client"] = "ready"
    /\ endpoints = {} \/ \E e \in endpoints : ~Reaches(e)
    /\ result' = "Err"
    /\ pc' = [pc EXCEPT !["client"] = "done"]
    /\ UNCHANGED <<fixed, channel, up, down, data, clear, faulty>>

request(e, what) ==
    IF what = "get"
    THEN http_post(PATH_GET_PUBLIC_KEY,
           serialize_envelope(build_get_public_key_request(service("client"),
                                                           e.participant_id)))
    ELSE http_post(PATH_PUBLISH_PARTICIPANT,
           serialize_envelope(build_publish_request(service("client"), e.participant_id,
             [participant_id |-> e.participant_id, address |-> e.address, port |-> e.port,
              public_key |-> PublicKey["client"]])))

\* The client connects and writes its request, or the first message of TLS.
Connect ==
    /\ pc["client"] = "ready"
    /\ asks' \in {"get", "publish"}
    /\ \E e \in endpoints :
        /\ Reaches(e)
        /\ IF ~security["client"].tls THEN
              /\ channel' = IF security["server"].tls THEN "foreign" ELSE "clear"
              /\ up' = request(e, asks')
              /\ clear' = clear \cup {"client"}
              /\ pc' = [client |-> "wait", server |-> "read"]
              /\ UNCHANGED result
           ELSE IF ~security["server"].tls THEN
              /\ channel' = "foreign"
              /\ up' = << <<"hello">> >>
              /\ pc' = [client |-> "wait", server |-> "read"]
              /\ UNCHANGED <<result, clear>>
           ELSE IF Trusted(e.address) THEN
              /\ channel' = "tls"
              /\ up' = request(e, asks')
              /\ pc' = [client |-> "wait", server |-> "read"]
              /\ UNCHANGED <<result, clear>>
           ELSE \* the handshake fails at both ends
              /\ channel' = "tls"
              /\ result' = "Err"
              /\ pc' = [r \in Role |-> "done"]
              /\ UNCHANGED <<up, clear>>
    /\ UNCHANGED <<loaded, registry, down, data, faulty>>

\* The server drops the connection, and what was sent to it with it.
Close ==
    /\ pc' = [pc EXCEPT !["server"] = "done"]
    /\ up' = <<>>
    /\ UNCHANGED <<fixed, channel, data, result>>

\* A server with TLS does not understand a client without.
HandshakeFails ==
    /\ pc["server"] = "read" /\ channel = "foreign" /\ security["server"].tls
    /\ down' = << <<"alert">> >>
    /\ UNCHANGED <<clear, faulty>>
    /\ Close

\* One read of read_http_request: some of what has arrived.  (Messages of
\* this program are far below its limit of 64 KiB.)
ServerReads ==
    /\ pc["server"] = "read" /\ ~is_request(data)
    /\ channel = "foreign" => ~security["server"].tls
    /\ \E n \in 1 .. Len(up) :
        /\ data' = data \o SubSeq(up, 1, n)
        /\ up' = SubSeq(up, n + 1, Len(up))
    /\ UNCHANGED <<fixed, pc, channel, down, result, clear, faulty>>

answer(e) ==
    handle_http_connection(service("server"), request_path(data), e,
                           {a.port : a \in Range(Address)} \ {NoPort}, Range(PublicKey))

\* The server answers and closes the connection.
ServerAnswers ==
    /\ pc["server"] = "read" /\ is_request(data)
    /\ \E e \in {parse_envelope(request_body(data))} : down' = answer(e)
    /\ clear' = IF channel = "clear" THEN clear \cup {"server"} ELSE clear
    /\ UNCHANGED faulty
    /\ Close

\* The server's process ends while it writes its answer.
ServerDies ==
    /\ pc["server"] = "read" /\ is_request(data)
    /\ \E e \in {parse_envelope(request_body(data))} :
        \E written \in {answer(e)} : down' \in Cuts(written)
    /\ clear' = IF channel = "clear" THEN clear \cup {"server"} ELSE clear
    /\ faulty' = TRUE
    /\ Close

\* read_http_request fails: the stream ends early ("connection closed", "short
\* body").
ServerRefuses ==
    /\ pc["server"] = "read" /\ ~is_request(data)
    /\ up = <<>> /\ pc["client"] = "done"
    /\ UNCHANGED <<down, clear, faulty>>
    /\ Close

\* Variant: the accepted connection has no timeout.
ServerTimeout_unset == FALSE /\ UNCHANGED vars

\* The server's read times out.  Only a network that holds the request back
\* brings that about when both ends speak the same language.
ServerTimeout ==
    /\ pc["server"] = "read" /\ ~is_request(data)
    /\ faulty' = (faulty \/ channel # "foreign")
    /\ UNCHANGED <<down, clear>>
    /\ Close

\* The client gives up: its read times out, the connection is reset or its
\* process ends.  The server still gets the first units of what was sent.
ClientGivesUp ==
    /\ pc["client"] = "wait"
    /\ result' = "Err"
    /\ pc' = [pc EXCEPT !["client"] = "done"]
    /\ \E n \in 0 .. Len(up) : up' = SubSeq(up, 1, n)
    /\ faulty' = TRUE
    /\ UNCHANGED <<fixed, channel, down, data, clear>>

\* The result of request_public_key (and what a caller of publish would make
\* of it) for the parsed answer e.  A server drops its TLS stream when it has
\* flushed the answer, and never ends the TLS session (close_notify): to the
\* client's read_to_end that is UnexpectedEof, whatever was read before it.
outcome(e) ==
    IF \/ channel = "tls"
       \/ header_end(down) = 0
       \/ e = InvalidEnvelope
    THEN "Err"
    ELSE IF asks = "publish"
    THEN IF /\ verify_envelope(e, config["client"].sid_token, config["client"].sid)
            /\ expect_http_response_context(e, 202, PATH_PUBLISH_PARTICIPANT)
         THEN "Ok" ELSE "Err"
    ELSE IF accepts_public_key_response(service("client"), e)
         THEN e.body.public_key ELSE "Err"

ClientReads ==
    /\ pc["client"] = "wait" /\ pc["server"] = "done"
    /\ \E e \in {parse_envelope(response_body(down))} : result' = outcome(e)
    /\ pc' = [pc EXCEPT !["client"] = "done"]
    /\ UNCHANGED <<fixed, channel, up, down, data, clear, faulty>>

ServerStep ==
    \/ HandshakeFails \/ ServerReads \/ ServerAnswers \/ ServerRefuses \/ ServerTimeout

Next ==
    \/ \E r \in Role : Start(r) \/ StartFails(r)
    \/ Hear \/ ConnectFails \/ Connect
    \/ ServerStep \/ ServerDies
    \/ ClientGivesUp \/ ClientReads

\* A server reads what has arrived or times out; a client reads to the end of
\* a stream that has one.  The server does not count on the client's timeout.
Spec == Init /\ [][Next]_vars /\ WF_vars(ServerStep) /\ WF_vars(ClientReads)

-----------------------------------------------------------------------------
(* Properties                                                              *)

SameGroup ==
    /\ config["client"].sid.text = config["server"].sid.text
    /\ config["client"].sid_token.text = config["server"].sid_token.text

\* Whatever pieces the answer comes in and wherever it is cut (the client
\* looks neither at the status nor at the length), the client ends with the
\* server's key or with an error, and with a key only when both have the
\* same sid and token.
KeyIsServers ==
    result \notin {None, "Err"} =>
        SameGroup /\ result = IF asks = "get" THEN PublicKey["server"] ELSE "Ok"

\* The sources say that TLS is off: the flag, else the environment, else the
\* file, as far as they can be understood.
AskedForPlaintext(s) ==
    LET says(m, v) == "insecure_no_tls" \in DOMAIN m /\ parse_bool(m["insecure_no_tls"]) = v
    IN  \/ "insecure_no_tls" \in DOMAIN s.args
        \/ says(s.env, TRUE)
        \/ ~says(s.env, FALSE) /\ says(read_config_file(s), TRUE)

\* CHANGELOG: "Enabled TLS transport by default".  No missing path, broken certificate or peer
\* without TLS makes a process send an HTTP message in the clear that was
\* not told to.
NoSilentPlaintext == \A r \in clear : AskedForPlaintext(Sources[r][given[r]])

\* Two processes of a group that both have TLS off, and whose connection stays
\* up, exchange the key, however the bytes are cut into pieces and whatever
\* blanks are around the sid and the token.  (Blanks around the server's
\* participant id are signed but not transmitted, so its answers do not verify.)
ExchangeSucceeds ==
    (/\ pc["client"] = "done" /\ data # <<>> /\ ~faulty /\ channel = "clear"
     /\ SameGroup /\ ~config["server"].participant_id.padded)
    => result \notin {None, "Err"}

\* CHANGELOG: "Enabled TLS transport by default for runtime request/response
\* paths".  Two processes of a group that both have TLS, whose handshake was
\* made and whose connection stays up, exchange the key.
TlsExchangeSucceeds ==
    (/\ pc["client"] = "done" /\ data # <<>> /\ ~faulty /\ channel = "tls"
     /\ SameGroup /\ ~config["server"].participant_id.padded)
    => result \notin {None, "Err"}

\* No end waits for ever, not even a server without TLS and a client with it,
\* of which each waits for the other to say something it understands.
ExchangeEnds == pc["client"] = "wait" ~> \A r \in Role : pc[r] = "done"
=============================================================================
