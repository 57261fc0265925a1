--------------------------- MODULE MCKeyExchange ----------------------------
(***************************************************************************)
(* Instances of KeyExchange for TLC: configurations that a host may have.  *)
(***************************************************************************)
EXTENDS KeyExchange, TLC

CONSTANTS kClient, kServer

Padded(t) == [text |-> t, padded |-> TRUE]
NoFile == [given |-> FALSE, readable |-> FALSE, lines |-> <<>>]
Lines(ls) == [given |-> TRUE, readable |-> TRUE, lines |-> ls]

\* Sources from the texts of some arguments, the rest on top.
From(args, env, file) == [args |-> args, env |-> env, file |-> file]
Group == [sid |-> Plain("g"), sid_token |-> Plain("t")]
Named(id) == Group @@ [participant_id |-> Plain(id)]
Tls(cert, key, ca) ==
    [tls_cert_path |-> Plain(cert), tls_key_path |-> Plain(key), tls_ca_path |-> Plain(ca)]
Insecure == "insecure_no_tls" :> Plain("true")
Peers(items) == [bootstrap_peers |-> Plain(items)]
ServerTls == Tls("srv.pem", "srv.key", "ca.pem")

MCServer == <<
    From(Named("srv") @@ ServerTls, <<>>, NoFile),
    From(Named("srv") @@ Insecure, <<>>, NoFile),
    \* the environment cannot be understood and the file counts
    From(Named("srv"), "insecure_no_tls" :> Plain("maybe"),
         Lines(<< <<"insecure_no_tls", Plain("off")>>, <<>>,
                  <<"insecure_no_tls", Padded("on")>> >>)),
    \* the environment says no
    From(Named("srv") @@ ServerTls, "insecure_no_tls" :> Padded("no"),
         Lines(<< <<"insecure_no_tls", Plain("1")>> >>)),
    \* neither TLS nor a word about it
    From(Named("srv"), <<>>, NoFile),
    \* blanks around the participant id, kept from the environment only
    From(Group @@ Insecure, "participant_id" :> Padded("srv"), NoFile),
    From(Group @@ Insecure, <<>>, Lines(<< <<"participant_id", Padded("srv")>> >>)),
    \* blanks around the sid and the token
    From([sid |-> Padded("g"), sid_token |-> Padded("t")] @@ Insecure,
         "HOSTNAME" :> Plain("srv"), NoFile),
    \* another token, in the file and from above
    From([sid |-> Plain("g")] @@ Insecure, <<>>, Lines(<< <<"sid_token", Plain("u")>> >>)),
    From(Named("srv") @@ Insecure, "sid_token" :> Plain("u"), NoFile),
    \* addresses
    From(Named("srv") @@ Insecure @@ [http_listen_addr |-> Plain("[::]:9922")], <<>>, NoFile),
    From(Named("srv") @@ Insecure @@ [http_listen_addr |-> Plain("srv")], <<>>, NoFile),
    \* intervals: not a number, and zero
    From(Named("srv") @@ Insecure, "sync_interval_secs" :> Padded("5"), NoFile),
    From(Named("srv") @@ Insecure, "sync_interval_secs" :> Plain("0"), NoFile),
    \* what ends the process
    From([sid |-> Padded("")], <<>>, NoFile),
    From([sid |-> Plain("g")], <<>>, NoFile),
    From(<<>>, [sid_token |-> Plain("t")], NoFile),
    From(Group, <<>>, [NoFile EXCEPT !.given = TRUE]),
    From(Named("srv") @@ Tls("srv.pem", "other.key", "ca.pem"), <<>>, NoFile),
    \* a certificate of another name
    From(Named("srv") @@ Tls("other.pem", "other.key", "ca.pem"), <<>>, NoFile) >>

MCClient == <<
    From(Named("cli") @@ ServerTls @@ Peers(<<Plain("srv@srv:9922")>>), <<>>, NoFile),
    From(Named("cli") @@ Insecure
         @@ Peers(<<Padded("srv@srv:9922"), Plain(""), Plain("srv@srv:9922")>>), <<>>, NoFile),
    From(Named("cli") @@ Insecure, <<>>, NoFile),
    From(Named("cli") @@ Tls("srv.pem", "srv.key", "other.pem")
         @@ Peers(<<Plain("srv:9922")>>), <<>>, NoFile),
    From(Named("cli") @@ ServerTls @@ [tls_server_name |-> Padded("other")]
         @@ Peers(<<Plain("srv:9922"), Plain("srv")>>), <<>>, NoFile),
    From([sid |-> Plain("h"), sid_token |-> Plain("t")] @@ Insecure
         @@ Peers(<<Plain("away@away:9922")>>), <<>>, NoFile),
    From(Named("cli") @@ [tls_cert_path |-> Plain("missing.pem")], <<>>, NoFile) >>

MCSources == [client |-> MCClient, server |-> MCServer]
MCPublicKey == [client |-> kClient, server |-> kServer]
MCNumeral == "0" :> 0 @@ "5" :> 5
MCResolves == {"srv"}

Split(first, last, port) == [first |-> first, last |-> last, port |-> port]
MCAddress ==
    "0.0.0.0:9922" :> Split("0.0.0.0", "0.0.0.0", 9922)
    @@ "0.0.0.0:9923" :> Split("0.0.0.0", "0.0.0.0", 9923)
    @@ "[::]:9922" :> Split("[", "[::]", 9922)
    @@ "srv:9922" :> Split("srv", "srv", 9922)
    @@ "away:9922" :> Split("away", "away", 9922)
    @@ "srv" :> Split("srv", "", NoPort)
MCPeerText ==
    "srv@srv:9922" :> [id |-> "srv", address |-> "srv:9922"]
    @@ "away@away:9922" :> [id |-> "away", address |-> "away:9922"]
    @@ "srv:9922" :> [id |-> "srv:9922", address |-> "srv:9922"]
    @@ "srv" :> [id |-> "srv", address |-> "srv"]

Cert(id, issuer, names, key) == [id |-> id, issuer |-> issuer, names |-> names, key |-> key]
MCPem ==
    "srv.pem" :> [certs |-> <<Cert("srv", "ca", {"srv"}, "srv")>>, key |-> None]
    @@ "other.pem" :> [certs |-> <<Cert("other", "ca", {"other"}, "other")>>, key |-> None]
    @@ "ca.pem" :> [certs |-> <<Cert("ca", "ca", {}, "ca")>>, key |-> None]
    @@ "srv.key" :> [certs |-> <<>>, key |-> "srv"]
    @@ "other.key" :> [certs |-> <<>>, key |-> "other"]
=============================================================================
