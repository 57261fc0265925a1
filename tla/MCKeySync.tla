----------------------------- MODULE MCKeySync ------------------------------
(***************************************************************************)
(* Instances of KeySync for TLC.                                           *)
(***************************************************************************)
EXTENDS KeySync

\* Two daemons of one group, each the other's bootstrap peer.
PairHost == [d1 |-> "h1", d2 |-> "h2"]
PairId == [d1 |-> "d1", d2 |-> "d2"]
PairSid == [d1 |-> "sid", d2 |-> "sid"]
PairToken == [d1 |-> "token", d2 |-> "token"]
PairBootstrap == [d1 |-> {[id |-> "d2", address |-> "a2"]},
                  d2 |-> {[id |-> "d1", address |-> "a1"]}]
PairAddress == [d1 |-> {"a1"}, d2 |-> {"a2"}]
PairKey == [h1 |-> {"k1"}, h2 |-> {"k2"}]
PairStartsOnce == [d1 |-> 1, d2 |-> 1]

\* The same daemons, which find each other by announcements only; the second
\* may come back at another address after a restart.
NoBootstrap == [d1 |-> {}, d2 |-> {}]
MovingAddress == [d1 |-> {"a1"}, d2 |-> {"a2", "a3"}]
MovingStarts == [d1 |-> 1, d2 |-> 2]

\* d1 is a daemon and s1 a one-shot sync of one group.  x is a daemon with
\* their sid but another token, which claims the id d2 and may listen where
\* d1 expects d2 or where s1 expects d1.  The list of d1 has d1 itself.
MixedHost == [d1 |-> "h1", s1 |-> "h2", x |-> "hx"]
MixedId == [d1 |-> "d1", s1 |-> "d2", x |-> "d2"]
MixedSid == [d1 |-> "sid", s1 |-> "sid", x |-> "sid"]
MixedToken == [d1 |-> "token", s1 |-> "token", x |-> "other"]
MixedPeers == {[id |-> "d1", address |-> "a1"], [id |-> "d2", address |-> "a2"]}
MixedBootstrap == [d1 |-> MixedPeers, s1 |-> MixedPeers, x |-> {}]
MixedAddress == [d1 |-> {"a1"}, x |-> {"a1", "a2"}]
MixedKey == [h1 |-> {"k1"}, h2 |-> {"k2"}, hx |-> {"kx"}]
MixedStarts == [d1 |-> 2, s1 |-> 2, x |-> 1]
=============================================================================
