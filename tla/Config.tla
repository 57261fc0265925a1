------------------------------- MODULE Config -------------------------------
(***************************************************************************)
(* src/src/config.rs: the configuration from arguments, environment and    *)
(* file.  A text is [text, padded], `padded' when there are blanks around  *)
(* it.  The sources of a process are a record                              *)
(*   args, env   functions from the options that are given to texts (a     *)
(*               flag is an option that is given)                          *)
(*   file        [given, readable, lines]; a line is <<option, text>>, or  *)
(*               <<>> for a comment, a blank line or one without "="       *)
(***************************************************************************)
EXTENDS Integers, Sequences, SequencesExt

CONSTANTS
    None,
    Numeral     \* the texts that parse as u64, and their values

ASSUME NoneAssumption == None \notin BOOLEAN

Plain(t) == [text |-> t, padded |-> FALSE]
trim(v) == Plain(v.text)

\* The last line of an option counts.
parse_config_key_values(lines) ==
    LET entries == SelectSeq(lines, LAMBDA l : l # <<>>)
    IN  [o \in {l[1] : l \in Range(entries)} |->
            trim(entries[Max({i \in DOMAIN entries : entries[i][1] = o})][2])]

\* read_config_file
read_config_file(s) ==
    IF s.file.given THEN parse_config_key_values(s.file.lines) ELSE <<>>

\* The first source with a value of the option for which Ok holds has it.
resolve(s, option, Ok(_)) ==
    LET given == <<s.args, s.env, read_config_file(s)>>
        hits == {i \in 1 .. 3 : option \in DOMAIN given[i] /\ Ok(given[i][option])}
    IN  IF hits = {} THEN None ELSE given[Min(hits)][option]

resolve_string(s, option) == resolve(s, option, LAMBDA v : TRUE)

\* parse::<u64> takes no blanks; a text it does not take counts as none.
resolve_u64(s, option) ==
    LET v == resolve(s, option, LAMBDA w : ~w.padded /\ w.text \in DOMAIN Numeral)
    IN  IF v = None THEN None ELSE Numeral[v.text]

\* (In lower case.)
parse_bool(v) ==
    CASE v.text \in {"1", "true", "yes", "on"} -> TRUE
      [] v.text \in {"0", "false", "no", "off"} -> FALSE
      [] OTHER -> None

\* The flag; else the first source that says yes or no; else no.
resolve_bool(s, option) ==
    \/ option \in DOMAIN s.args
    \/ LET v == resolve([s EXCEPT !.args = <<>>], option, LAMBDA w : parse_bool(w) # None)
       IN  v # None /\ parse_bool(v)

\* parse_csv of a text that is a sequence of items.
parse_csv(items) ==
    LET Add(seen, item) ==
            IF item.text = "" \/ item.text \in Range(seen) THEN seen
            ELSE Append(seen, item.text)
    IN  FoldLeft(Add, <<>>, items)

\* Variant: blanks around a name are part of it.
normalize_non_empty_raw(v) == IF v.text = "" THEN None ELSE v

normalize_non_empty(v) == IF v.text = "" THEN None ELSE trim(v)

or_default(v, default) == IF v = None THEN default ELSE v

\* The checks of load_config_with_sources in their order; "Ok" when all pass
\* and "Absent" for Ok(None).
config_error(s, allow_missing) ==
    LET sid == resolve_string(s, "sid")
        token == resolve_string(s, "sid_token")
        checks ==
          << <<s.file.given /\ ~s.file.readable, "ConfigFileReadFailed">>,
             <<allow_missing /\ sid = None /\ token = None, "Absent">>,
             <<sid = None, "MissingSid">>,
             <<sid # None /\ normalize_non_empty(sid) = None, "InvalidSid">>,
             <<token = None, "MissingSidToken">>,
             <<token # None /\ normalize_non_empty(token) = None, "InvalidSidToken">>,
             <<resolve_u64(s, "sync_interval_secs") = 0, "InvalidSyncInterval">> >>
        failed == {i \in DOMAIN checks : checks[i][1]}
    IN  IF failed = {} THEN "Ok" ELSE checks[Min(failed)][2]

\* The AppConfig that load_config returns when there is no error.  The sid and
\* the token are trimmed, the other texts are taken as they are.
app_config(s) ==
    [sid |-> normalize_non_empty(resolve_string(s, "sid")),
     sid_token |-> normalize_non_empty(resolve_string(s, "sid_token")),
     participant_id |->
        or_default(resolve_string(s, "participant_id"),
            IF "HOSTNAME" \in DOMAIN s.env THEN s.env["HOSTNAME"]
            ELSE Plain("unknown-participant")),
     http_listen_addr |->
        or_default(resolve_string(s, "http_listen_addr"), Plain("0.0.0.0:9922")),
     udp_announce_addr |->
        or_default(resolve_string(s, "udp_announce_addr"), Plain("0.0.0.0:9923")),
     bootstrap_peers |->
        LET csv == resolve_string(s, "bootstrap_peers")
        IN  IF csv = None THEN <<>> ELSE parse_csv(csv.text),
     sync_interval_secs |-> or_default(resolve_u64(s, "sync_interval_secs"), 30),
     public_key_path |->
        or_default(resolve_string(s, "public_key_path"), Plain("~/.ssh/id_ed25519.pub")),
     authorized_keys_path |->
        or_default(resolve_string(s, "authorized_keys_path"),
                   Plain("~/.ssh/authorized_keys")),
     tls_cert_path |-> resolve_string(s, "tls_cert_path"),
     tls_key_path |-> resolve_string(s, "tls_key_path"),
     tls_ca_path |-> resolve_string(s, "tls_ca_path"),
     tls_server_name |-> resolve_string(s, "tls_server_name"),
     insecure_no_tls |-> resolve_bool(s, "insecure_no_tls"),
     dry_run |-> resolve_bool(s, "dry_run")]
=============================================================================
