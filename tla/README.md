# TLA+ models of ssh-key-cli

`ssh-key-cli` keeps the `authorized_keys` files of a group of hosts in step: each
host runs a daemon that finds the others (bootstrap list, UDP broadcast), fetches
their public SSH keys over HTTP and writes them into a managed block of
`~/.ssh/authorized_keys`. This directory holds models of its Rust code
(`src/src/*.rs`), TLC configurations that check them on small instances and proofs
that TLAPS checks for every instance.

## 1. Inventory

| Part | State | Operations | Interacts with |
|---|---|---|---|
| `auth.rs` | nonce cache `seen_nonces` | `sign_envelope`, `verify_envelope`, `EnvelopeVerifier::verify`, `prune_nonces` | called by discovery and transport; reads the wall clock |
| `discovery.rs` | `peers`, `sync_trigger_pending` | `add_bootstrap_peers`, `build_startup_announcement`, `process_announcement`, `take_sync_trigger` | UDP datagrams of other daemons; the loop takes the trigger |
| `transport.rs` | none (a service record) | request, response and verification of the key exchange; publish endpoint | HTTP handler and client of the runtime |
| `runtime.rs`, loop | `managed_keys`, `next_sync_at`, sockets | `run_daemon`, `run_sync_cycle`, `run_single_sync`, HTTP and UDP handlers | everything above, `authorized_keys.rs` |
| `runtime.rs`, control | pid file, stop file, current-sid marker, process table | `stop_daemon`, `status_daemon`, `write_control_file`, sid resolution | other processes on the host, through files |
| `runtime.rs`, codec | none | envelope text, HTTP framing, TLS set-up | the network |
| `authorized_keys.rs` | the file and its temporary file | `upsert_managed_block`, `atomic_write` | the owner's editor, other processes, the file system |
| `ssh_keys.rs` | none | `parse_public_key`, `normalize_public_key` | everyone who handles a key |
| `daemon.rs` | `DaemonState` | `DaemonLoop` | only its own unit tests |
| `config.rs`, `main.rs` | none | precedence and validation of settings; command line | start everything |

What is hard here, and what makes each part right:

* **Replay protection** rests on the arithmetic of two windows on a wall clock that
  is set from outside, and on a cache that a restart empties. Right: a run never
  accepts an announcement twice, accepts only what a member signed, and never
  mistakes a first delivery for a repetition.
* **Discovery** is by datagrams that are lost, repeated and reordered and carry no
  version. Right: no discovery is dropped between the handler and the loop, and
  daemons that stay up end up with each other's current record.
* **The loop has one thread.** While a daemon asks its peers it answers nobody, so
  daemons wait on each other. Right: cycles end, keys stay in their group, and an
  outage removes nothing.
* **An exchange** depends on two configurations, each put together from arguments,
  environment, file and defaults, and on a stream that comes in pieces and may end
  anywhere. Right: the client ends with the server's key or with an error, a pair that
  fits together succeeds (which the code achieves without TLS only), and nothing goes out
  in the clear unasked.
* **authorized_keys** belongs to its owner and may be written by several processes;
  a torn file locks people out. Right: one whole version at every moment, an
  acknowledged update survives a power failure, the owner's lines stay.
* **Start and stop** communicate through files that nobody locks, for several sids,
  with a marker for the current one. Right: a stop takes effect, on the right
  process, and no command removes what belongs to another daemon (which rests on the
  addresses the daemons listen at).
* **`DaemonLoop`** is told of peers, triggers and a shutdown while a sync is in
  flight. Right: it stops for a reason, a requested stop is final, and a trigger is not
  lost.

`PROJECT.json` lists each hazard at its line with the properties that cover it.

## 2. Modules

| Module | Models | State and actions |
|---|---|---|
| `Auth` | `auth.rs`, pure part | operators only. An HMAC is the pair of key and payload (ideal cryptography), a body is its own digest |
| `EnvelopeVerifier` | `EnvelopeVerifier::verify` and `new`, `next_nonce`, `now_secs` | the clock, everything signed so far, the cache, the log of acceptances; one action for each end of `verify` (`RejectEnvelope`, `RejectTimestamp`, `RejectReplay`, `Accept`), plus `Sign`, `ClockChange`, `Restart`. The network delivers any signed envelope any number of times, with any field replaced |
| `Transport` | `transport.rs` | both endpoints as operators on envelopes |
| `KeySync` | `run_daemon`, `run_single_sync`, `run_sync_cycle`, the HTTP and UDP handlers, `discovery.rs` | per process: the place in the loop, peers, trigger, due, endpoints still to ask, the call it waits on, managed keys; per host: the block; datagrams on their way. One action for each step of the loop and each outcome of a call |
| `Config` | `config.rs` | operators only: the three sources and the defaults, the parsers, the checks in their order, the resulting `AppConfig` |
| `Wire` | `runtime.rs`: envelope text, HTTP framing, addresses | operators on sequences of units (header lines, line breaks, lines of an envelope) |
| `KeyExchange` | one exchange end to end: `load_config`, `build_transport_security`, the announcement, `request_public_key`, `read_http_request`, `handle_http_connection` | two processes with their configurations, the endpoint learned by UDP, the connection in both directions; each read takes any part of what has arrived, and the connection or either process may fail at any moment |
| `ManagedBlock` | `upsert_managed_block`, `normalize_and_dedup`, `ssh_keys.rs` | the text as lines, with its last newline; updates with their three results, and the owner's edits |
| `FileUpdate` | `apply_managed_block_to_file`, `atomic_write`, the permissions | directory, inodes, their modes and what is on the disk; one action per system call, plus deaths, errors, power failures and the owner |
| `AtomicFile` | what the README promises of an update | the current version and those a power failure may leave |
| `DaemonControl` | start (`main.rs`), `run_daemon` outside its loop, `stop_daemon`, `status_daemon`, `write_control_file`, the marker and the resolution of the sid | process table, signals, both listening addresses, pid files, stop files and marker, several daemons, sids and stop commands; one action per file operation |
| `DaemonLoop` | `daemon.rs` | the clock and the fields of `DaemonState`; one action per method, called in any order |
| `EnvelopeVerifierProofs`, `KeySyncProofs`, `KeyExchangeProofs`, `ManagedBlockProofs`, `FileUpdateProofs`, `DaemonControlProofs`, `DaemonLoopProofs` | | theorems (section 5) |
| `MC...` | | values of the constants for TLC |

`KeySync` and `KeyExchange` compose `Transport` and `Auth`: every message in them is an
envelope that the operators of `Transport` built and accept or not. They look at the
same exchange from two sides. In `KeySync` there are several processes whose messages
arrive whole or not at all; its verification of announcements is `verify_envelope`, the
time window and the nonce cache are `EnvelopeVerifier`'s, and `LoseAnnouncement` stands
for what they refuse. In `KeyExchange` there are one client and one server, with
everything below: configuration, TLS, addresses, text, pieces. A definition whose name
is that of another with a suffix, under a comment that says `Variant`, is that
definition with a plausible bug; the runs must tell it from the original (`mutants` in
`PROJECT.json`).

Abstractions that matter for reading the results:

* In `KeySync` a peer's address and port are one value; bootstrap entries that do not
  parse are in `KeyExchange`. Announcements that verify but do not parse are left out.
* The timestamps and nonces of HTTP envelopes are signed but no code reads them: they are
  left out.
* The exchanges of `KeySync` succeed whenever both ends are free. With this code that is so
  only with `--insecure-no-tls` (run `key_exchange_tls`); over TLS each of them fails,
  which in `KeySync` is `Reset`.
* `due` stands for `now >= next_sync_at`. `next_sync_at` is computed from the time
  at which the cycle began, so it may become due again within the cycle (`Tick`).
* A text of a configuration is its trimmed form and whether blanks are around it. How a
  text splits at `:` and `@` is a constant (`Address`, `PeerText`).
* In `Wire` a unit stands for the bytes of a line; a read or the end of a stream falls
  between units, and within the last line, whose value is the hexadecimal body. A cut
  within another line leaves an envelope without its last lines, which the model has.
* TLS is what `rustls` decides by issuer and name. No code ends a TLS session:
  `write_http_response` only flushes and `handle_http_connections` drops the stream, so the
  client's `read_to_end` gets `UnexpectedEof` and its result is an error (`outcome`).
* A version in `FileUpdate` is the pair of the owner's edit and the update in it,
  written in `Chunks` pieces; the file and its directory exist at the start. The mode
  of an inode is one bit; it is not synced, so `AckedPrivate` claims nothing behind a
  power failure.
* In `DaemonControl` an error that ends a daemon between two of its steps is `Dies`, one
  that ends a stop command `CommandFails`. `Kill` sends the signal and returns,
  `Terminated` is its effect, `KillFails` a kill of a process that just ended or belongs
  to another user. An address is taken or free as a whole (no wildcard addresses). A
  daemon started in the background reads its configuration again; the model takes both
  readings for the same.

## 3. Runs

Passing runs:

| Run | Instance | Shows |
|---|---|---|
| `envelope_verifier` | skew 1, ttl 2, five seconds, two nonces, two runs of the daemon; a member, a host with another token and one of another sid, all under one id | `NoReplayWithinRun`, `ReplayIsRecent`, `AcceptedAsSigned`, `CacheOnlyAccepted` |
| `key_sync_groups` | a daemon (two starts) and a one-shot sync (two starts) of a group, and a dry-run daemon with their sid but another token, which claims a member's id and may sit on the address of either member; lossy network | `NoLostTrigger`, `GroupIsolation` |
| `key_sync_convergence` | two daemons that find each other by announcements, the second with two starts and two addresses; fair | `OutageKeepsKeys`, `CycleEnds`, `DiscoveryConverges`, `FirstRunKeepsKeys` |
| `key_exchange` | twenty configurations of a server and seven of a client: TLS on, off, asked for in each source, half configured, with the wrong key, name or authority; blanks around names; other sids and tokens; addresses with and without a port; intervals that are no number or zero; fair | `KeyIsServers`, `NoSilentPlaintext`, `ExchangeSucceeds` (both without TLS), `ExchangeEnds` |
| `managed_block` | two owner's lines, one key in two layouts, the same key with a comment, a text that is no key; three edits of any kind, the removal of either marker among them | `KeysPresent`, `UpdateKeepsOwnerLines`, `BlockIsApplied`, `Idempotent` |
| `file_update` | one writer, two updates of two pieces, two edits, one power failure, four inodes (symmetric) | `NeverTorn`, `AckedSurvives`, `EditsKept`, `AckedPrivate`, `ImplementsAtomicFile` |
| `daemon_control` | two pids, two stop commands, two sids of which one has a directory of another name, two starts with `--foreground` (no status check, so two daemons of a sid do start); two pairs of addresses for one sid, of which the other sid uses one each; fair | `CleanupIsOwn`, `StopFileIsFresh`, `StopSparesOthers`, `PidFileKept`, `StopTakesEffect` |
| `daemon_loop` | interval 2, jitter 1, nine seconds, a word of 10, so that due times do wrap around; fair | `StoppedForCause`, `StoppedIsFinal`, `PollKeepsInterval`, `ShutdownCompletes`, `TriggerIsServed` |

Each module's first run (but `key_exchange`) also checks its `TypeOK`. Runs that TLC
refutes, each against a sentence of the documentation (quoted under `findings` in
`PROJECT.json`):

| Run | What happens |
|---|---|
| `key_sync_lockstep` | the RFC's jitter is missing from `run_daemon`: two daemons whose cycles coincide ask each other while neither answers, in every cycle |
| `managed_block_append` | no newline behind the end marker: `echo key >> authorized_keys` joins it, and the next update ends the daemon with `MissingManagedEnd` |
| `file_update_two_writers` | one `authorized_keys.tmp` for all processes: a partial file is renamed into place |
| `key_exchange_tls` | the server never ends its TLS session: the client reads the whole answer and then `UnexpectedEof`, so no exchange over the default transport succeeds |

Limits of the code that the models contain; the properties name them as exceptions:

* The nonce cache is in memory: after a restart an announcement is accepted again, but
  only while its timestamp is in the window (`ReplayIsRecent`).
* When the owner removes the begin marker only, the end marker that stays behind makes
  every later update copy the lines between it and the new block: the file grows. When the
  end marker goes, updates fail with `MissingManagedEnd` until it is back. `Idempotent`
  and `BlockIsApplied` therefore speak of markers in order (`InOrder`).
* An edit saved between the read and the rename of an update is lost; `EditsKept` is
  about those saved at any other moment (`quiet`).
* `stop` identifies the daemon by its pid alone: once the pid was given to another
  process (`recycled`), `Kill` hits that one.
* A `stop` that found a stale pid file removes the one of a daemon that started since, and
  a daemon of the sid at other addresses overwrites it and removes it (`PidFileKept` and
  `CleanupIsOwn` say that nothing else does; `rivals` are the daemons this happened to). The
  daemon runs on without one.
* `stop` does not wait after the `kill`: `StopTakesEffect` says that the daemon ends, not
  that it has ended when the command returns.
* A requested stop of `DaemonLoop` is final; one after a critical failure is taken back when
  its owner reports a success afterwards (`StoppedIsFinal`).
* The marker is never removed, and two daemons may write it over each other: a `stop`
  without `--sid` may find the sid of a daemon that ended, or a text that is no sid.
  Either way it stops no other daemon than the one of the name it read.
* Sids such as `a:b` and `a_b` have the same directory. The run and `StopIsAimed` are about
  sids with directories of their own.
* A participant id with blanks around it (possible in arguments and environment) is
  signed with them and transmitted without: the answers of such a server do not verify,
  and `ExchangeSucceeds` excepts it.
* A server listening on `[::]:9922` announces the host `[`, which nobody reaches.
* `finish_sync` clears a trigger that came during the sync; `TriggerIsServed` shows that
  the next polling sync makes up for it, not that one follows at once.

Where the code does not do what a document says, beside the refuted runs:

* `src/docs/rfcs/0001.md:254-255` says that the keys of vanished participants are not removed.
  `managed_keys` starts empty (`runtime.rs:158`), so the first cycle after a restart, and any
  one-shot sync, removes the keys of the peers it did not reach. `FirstRunKeepsKeys` says
  that nothing else does.
* `src/README.md:241` and `src/docs/PLAN_0001.md:31` say that a stale timestamp or a replayed
  nonce is rejected. That is so for announcements (`EnvelopeVerifier`); `verify_http_request`
  and `verify_http_response` (`transport.rs:231-245`) check the sid and the signature only,
  so a request is answered at any later time and any number of times.
* `src/docs/rfcs/0001.md:153` has the sender's id in what is signed. `request_public_key`
  (`runtime.rs:386`) signs with the id of the peer it asks; `request` in `KeySync` and
  `KeyExchange` does the same, and `src/ISSUE.md`, item 1, lists it as open.
* `src/docs/man.md:122-123` has the pid file of the running daemon. A second daemon of the sid,
  started in the foreground at other addresses, overwrites it (`runtime.rs:168`), and the
  clean-up of the first removes it (`runtime.rs:233`): the exception of `CleanupIsOwn` and
  `PidFileKept`.

### Bounds

Every bound is a constant (`Horizon`, `MaxRuns`, `MaxStarts`, `MaxLines`, `MaxKeys`,
`MaxEdits`, `MaxUpdates`, `MaxFailures`, `MaxTime`, `Chunks`) or the size of a set. They
are the smallest at which the case a property is about happens: a horizon of 4 with skew 1
and ttl 2 has a timestamp in the future of the window, its acceptance, the expiry of its
nonce and the end of its window; two pieces make a partial file possible; two pids and two
stop commands are enough for a stop that looked, a daemon that died and one that came;
nine seconds hold two polling intervals and a due time that wraps. The variants of section
2 are caught within these bounds. `CHECK_DEADLOCK FALSE` is set where the number of starts
or updates is bounded or an exchange is over: the model stops there although the program
would not. The inodes of `file_update` are interchangeable (only compared, never chosen by
`CHOOSE`), so its symmetry is sound for the invariants and for the refinement, which is a
safety property. No run with a liveness property uses symmetry; `daemon_control`
instead leaves out, by a constraint (`FirstPid`), the behaviours in which the other pid is
given away first. Each of them is one of the rest with the pids exchanged, and a behaviour
that starts with the right pid is followed to its end, so that this is sound for liveness
too.

### Fairness

* `KeySync!Fairness`: a running process goes on (its calls are bounded by
  `IO_TIMEOUT_SECS`), the clock reaches `next_sync_at`, a connection in the backlog is
  taken and a datagram in the socket is read (both are queues, and no loss happens in
  these runs). `handle_http_connections` and `handle_udp_announcements` loop until
  their queue is empty, which others may refill: that they return is strong fairness,
  justified because every other process pauses at least a second between two cycles
  while a request takes milliseconds. Nobody is obliged to start or to exit.
* `KeyExchange!Spec`: a server with a connection reads what has arrived or times out
  (`IO_TIMEOUT_SECS` on both sides of the socket), a client reads a stream that has
  ended. The client's own timeout is possible but not obliged.
* `DaemonControl!FairSpec`: daemons and stop commands that run go on, or are ended by a
  `SIGTERM` (the program installs no handler). Nobody is
  obliged to start one. A stop command is not killed while it waits.
* `DaemonLoop!FairSpec`: the clock goes on, and the owner of the loop starts the syncs
  that are due and finishes those it started. Nobody is obliged to trigger one or to
  ask for a shutdown.

## 4. Liveness

`CycleEnds`, `DiscoveryConverges`, `ExchangeEnds`, `StopTakesEffect`,
`ShutdownCompletes` and `TriggerIsServed` hold under that fairness, on the instances
above. They stay with TLC: TLAPS, as installed here, reasons neither about fairness nor
about `ENABLED`.

## 5. Proofs

`EnvelopeVerifierProofs`, for all values of the constants:

* `TypeCorrect`: `Spec => []TypeOK`.
* `ReplayProtection`: if `nonce_ttl_secs >= 2 * timestamp_skew_secs + MaxBackStep`
  (`TtlCoversWindow`) then `Spec => []NoReplayWithinRun`. The property is not
  inductive, since it says nothing of the cache. The invariant `IInv` adds
  `FreshNonces` (a sender uses a nonce once), `ClockNearPeak` (the clock is at most
  `MaxBackStep` behind its peak) and `CacheCovers`: each key this run accepted is
  cached, or its acceptance lies more than the ttl before the peak. In the latter
  case its timestamp, at most skew ahead of that acceptance, has left the window for
  good. The 60 and 120 seconds of `runtime.rs` satisfy the assumption exactly for a
  clock that never steps back: there is no slack for one that does.
* `AcceptanceIsSound`: `Spec => []AcceptedAsSigned` (what is accepted equals an envelope of
  a signer with the group's sid and token), `FirstDeliveryIsNew`:
  `Spec => []CacheOnlyAccepted`, and `RestartReplayIsBounded`: `Spec => []ReplayIsRecent`,
  across restarts: two acceptances of a nonce are of one envelope, each within skew of
  its timestamp. These hold for every ttl: the invariant is the same, but its part about
  repetitions within a run is an implication with `TtlCoversWindow` on its left
  (`NoReplayIfCovered`), so that only `ReplayProtection` needs it.

`KeySyncProofs`, for any sets of daemons, one-shot syncs, hosts, groups, addresses and
keys, on a lossy network or not:

* `TriggerNotLost`: `Spec => []NoLostTrigger`, inductive together with the domains of
  the state functions (`Shape`).
* `OutageSafe`: `Spec => OutageKeepsKeys`, from `Shape` alone.
* `GroupsAreIsolated`: `Spec => []GroupIsolation`. The invariant adds where the
  answers on their way come from (`AnswersAreSigned`: some daemon signed each, with a
  key of its host) and that processes hold keys of their hosts (`OwnKeys`); the lemma
  `AcceptedKeyInGroup` then shows that what verifies was signed in the own group.
* `NetworkTypes`: `Spec => []TypeOK`. `Types` adds that a daemon announces an address of
  its own (`OwnAddresses`), from which datagrams and tables have their types, and that a
  process waits on one call at most (`CallsTyped`).
* `KeysAreAttributed`: `Spec => []KeysByName`, the key managed under an id is one of the
  host of that id, if the network is `Addressed`: no two daemons of a group have an id or
  an address in common, and the bootstrap lists give an address the id of its daemon. The
  code needs this of its configuration: `run_sync_cycle` stores what it receives under the
  id it asked for, whoever answered. `RoutesInv` follows the pairs of id and address from
  the bootstrap lists and the announcements (`AnnouncementLeads`) through `peers` and
  `todo` to the daemon that answers the call (`PeersLead`, `TodoLeads`, `CallsLead`).
* `OnlyRestartsForget` and `OneRunKeepsVanished` say what is left of the RFC's promise about
  vanished participants (`VanishedKeysKept`). If the network is `Settled` (`Addressed`, with
  one process and one key per host), `Spec => FirstRunKeepsKeys`: a key leaves the block of a
  host only after its process was started again; if every process starts at most once,
  `Spec => VanishedKeysKept`.
  The invariant `Gathered`: in its first run a process manages every key it has written,
  because what it receives under an id is the key it had there (`ReceivedKeyIsAdded`).

`KeyExchangeProofs`, for any configurations of the two processes, any keys and any way
the stream is cut and read:

* `KeyComesFromServer`: `Spec => []KeyIsServers`. The client parses whatever it got until
  the stream ended; that is a prefix of what the server wrote. `KeyInv` says that what is
  on its way down is the beginning of an answer of `handle_http_connection` (`DownIsAnswer`)
  and that a result is final (`ResultIsLast`). The lemmas follow an answer through
  `Wire`: where its headers end, whatever is cut off (`HeadersEnd`, `HeadersCut`); that a
  cut answer either lacks a line and does not parse (`ParsedShort`) or has all of them
  (`ParsedLines`); that the body of an error is no envelope (`ErrorIsNoEnvelope`); and that
  an envelope that verifies is the one the server signed, in its own group
  (`VerifiedAnswer`).
* `PlaintextIsAskedFor`: `Spec => []NoSilentPlaintext`. `PlainInv` says that the
  configuration in use is the one loaded from the given sources (`Loaded`) and that only a
  process without TLS has sent anything in the clear (`ClearIsPlain`); the lemma
  `PlaintextAsked` is about `load_config`: TLS is off in its result only if the flag, else
  the environment, else the file says so.
* `GroupExchangesKeys`: `Spec => []ExchangeSucceeds`, the converse of the first for
  connections without TLS (over TLS it is false, see `key_exchange_tls`). `SentInv`
  says that an undisturbed connection carries an exchange (`Sent`): what the server has
  read and what is still on its way make up one request to some endpoint (`Parted`), and
  once it has answered, it answered that request. `PartOfMessage` shows that
  `read_http_request` is not satisfied with a part of a message, `WholeMessage` and
  `ParsedBack` that it and `parse_envelope` make of a whole one what was serialized, with
  its names trimmed. `TrimmedNames`, `ParticipantText` and `EndpointTrimmed` are about
  `load_config` and `parse_bootstrap_peer`: nothing is left to trim, unless the server's
  participant id has blanks. Then what was signed is what is verified (`SignedVerifies`),
  at the server (`RequestArrives`) and at the client (`AnswerArrives`).
* `HeardFromGroup`: what `handle_udp_announcements` has put into the registry is the id,
  the address and the port with which the server is configured (`Heard`), of the client's
  own sid and token. An announcement of a server with blanks around its id never verifies
  (`VerifiedSender`).

`ManagedBlockProofs`, for texts, lists of keys and numbers of edits of any length:

* `BlockTypes` (`TypeOK`), `UpdateIsComplete` (`KeysPresent`), `UpdateIsIdempotent`
  (`Idempotent`), `OwnerLinesSurvive` (`UpdateKeepsOwnerLines`) and `OneBlockOfItsKeys`
  (`BlockIsApplied`). The invariant `BlockInv` adds to the types that after an update its
  block is somewhere in the text (`Fresh`) and that between a begin marker and the first
  end marker there are only keys (`Sealed`). Without `Sealed` the owner's lines could be
  in the part that the next update replaces; that it is inductive depends on what is
  inserted only outside of the block and on what happens to a marker that the shell
  extends (it is none any more). `NewText` says what `upsert_managed_block` and `join`
  make of any text: the block was added behind it, or came in the place of what was
  between the first markers, in which case an empty last line is gone.
* `EditorsKeepLines` and `OnlyGluingLoses` say what is left of `OwnerLinesKept`, which
  `managed_block_append` refutes: without the shell's append it always holds, and with it
  the only step that loses a line is an append to a text whose last newline the update
  left out (`Glues`). Both rest on `OwnerStep`, on top of `BlockInv`.
* The loops (`normalize_and_dedup`, and `without` for the owner's deletions) are folds over
  the positions of a sequence. The library's induction theorems cannot be used with the
  installed provers, but its theorem on minimal elements can: `Least` and `Induction` are
  proved from it, `FoldDefined` shows that the fold is a function, `DedupLoop` and
  `WithoutLoop` state what each turn does, and `Dedup` and `Without` what the loop returns.

`FileUpdateProofs`, for any number of inodes, pieces, updates, edits and power failures:

* `FileTypes`: `Spec => []TypeOK`, and `FileIsThere`: `Spec => []NeverMissing`, for any
  number of writers: the name `authorized_keys` only ever moves from one inode to another.
* `OneWriterNeverTears`, `OneWriterIsDurable`, `OneWriterKeepsEdits`: with one writer
  (`OneWriter`, which the code does not enforce and `file_update_two_writers` shows to be
  necessary) `NeverTorn`, `AckedSurvives` and `EditsKept` always hold. None is inductive.
  `IInv` says that what the directory names `authorized_keys`, in memory and on the disk,
  is whole, synced and no older than what was acknowledged and saved (`KeysSafe`), that
  the temporary file and the open file are other inodes (`TmpApart`, `OpenApart`), what
  has been written so far and that all of it is synced before the rename
  (`Written_so_far`), and that the update is in place before it is acknowledged
  (`OutIsNew`, `InPlace`).
* `OneWriterIsPrivate`: with one writer `AckedPrivate`. `ModeInv`, on top of `IInv`, says
  that the mode of a file with the latest acknowledged update is set (`ModeSet`) and that
  what is about to be renamed into place is newer than that update (`Fresh`).
* `OneWriterIsAtomic`: then `Spec => ImplementsAtomicFile`. Under `IInv` every step maps
  to a step of `AtomicFile` or a stutter; `Rename` is the one that shows the new version,
  `SyncDir` the one that makes the old one impossible.

`DaemonControlProofs`, for any number of pids, sids, addresses, stop commands and starts,
also for sids that share a directory:

* `ControlTypes` (`TypeOK`), `CleanupIsSafe` (`CleanupIsOwn`), `OldStopIsIgnored`
  (`StopFileIsFresh`) and `PidFileIsKept` (`PidFileKept`). The control files are not locked;
  what carries the proof are the two sockets, which a daemon holds from before it touches
  the first file until after it has removed the last one. `IInv` relates the place in
  `run_daemon` to the process (`Placed`), says that no two daemons hold an HTTP address
  (`OneHttp`) and that two daemons with a directory, neither of which is in `rivals`, are
  never both past their sockets (`Apart`), from which only stop commands touch the pid file
  such a daemon has written (`OwnPidFile`); `FreshStop` follows the age of stop files.
* `StopIsAimed` (`StopSparesOthers`), if sids have directories of their own and a garbled
  marker leads to none of them (`OwnDirs`). `Means` and `Aimed` follow what a pid in a file
  or in a command means: a daemon of that directory, a dead process, or a pid that was given
  away.
* `OneAddressSuffices`: `CleanupIsOwn` without its exception (`CleanupSparesOthers`). If
  the daemons of a directory have one HTTP or one UDP address in common (`OneAddress`, which
  the code does not enforce), there are never any `rivals`, and no clean-up removes the pid file of another daemon.

`DaemonLoopProofs`, for every interval, jitter and word size: `LoopTypes` (`TypeOK`),
`StopHasCause` (`StoppedForCause`), `StopIsFinal` (`StoppedIsFinal`) and
`PollsKeepInterval` (`PollKeepsInterval`). The invariant ties the mode to the flags:
`Running` without a request, `Stopping` only with a request and a sync in flight,
`Stopped` with its cause. `StoppedIsFinal` holds for calls in any order, `finish_sync`
without a sync and `run_startup_sync` at any time among them; for the last theorem
`TimerIsSet` adds that, once a sync has succeeded, the due time is the one computed from
that success, with its overflow.

Assumptions: `TimeAssumption`, `ConfigAssumption`, `BoundAssumption`, `ControlAssumption`,
`LoopAssumption`, `BoundsAssumption`, `SourcesAssumption`, `AddressAssumption`,
`ResultAssumption` and `NoneAssumption` (types of the constants, non-empty sets of
addresses and keys, a bound of at least the two lines a text starts with, a splitting for
every address a server listens at, values that are not files, pids, results or truth
values), `TtlCoversWindow`, `OneWriter`, `OwnDirs`, `OneAddress`, `Addressed` and
`Settled` where stated, and the ideal cryptography of `Auth`. The inductive invariants
also hold, by TLC, on the instances of section 3; `key_sync_convergence` is an
instance of a `Settled` network. Every invariant and every action property of the passing
runs is a theorem, and so is what holds instead of `OwnerLinesKept`, `NeverTorn` and
`TlsExchangeSucceeds`, which other runs refute (`OnlyGluingLoses`, `OneWriterNeverTears`,
`GroupExchangesKeys`). Checked by TLC only: everything in section 4, with
`EventualConsistency`, which `key_sync_lockstep` refutes.

## 6. Not modelled

Argument parsing, messages, the log file of a background daemon, the masked debug output
of the configuration; the creation of `~/.ssh` and of a first `authorized_keys`; the
64 KiB limit on headers and a `Content-Length` that overflows (no client of this program
sends such a request); the end-to-end tests and the packaging.

## 7. Plan

Done: `Auth`, `EnvelopeVerifier`; `Transport`, `KeySync`; `ManagedBlock`; `FileUpdate`
over `AtomicFile`; `DaemonControl` with the marker and several sids; `DaemonLoop`;
`Config`, `Wire` and `KeyExchange`; proofs about each of them.

Next, in this order:

1. `KeySync`: what may be managed under an id when an address does change hands within a
   group, which `KeysAreAttributed` excludes.
2. `FileUpdate`: a file and a directory that do not exist at the start.
3. `ManagedBlock`: markers that the owner moves or copies.
