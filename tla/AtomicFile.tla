----------------------------- MODULE AtomicFile -----------------------------
(***************************************************************************)
(* What authorized_keys.rs promises of its updates (README: "file writes   *)
(* use atomic temp write + fsync + rename flow"): the file goes from one   *)
(* whole version to the next in one step, and a power failure leaves one   *)
(* of the versions that were current since the last one that was made      *)
(* durable.                                                                *)
(***************************************************************************)
CONSTANT Version

VARIABLES
    current,    \* the version a reader sees
    survivors   \* the versions a power failure may leave

vars == <<current, survivors>>

Init == current \in Version /\ survivors = {current}

\* The next version is there; until it is made durable a power failure may
\* still bring an earlier one back.
Replace ==
    /\ current' \in Version
    /\ survivors' \subseteq survivors \cup {current'}
    /\ current' \in survivors'

\* Only the current version survives from now on.
Persist == survivors' = {current} /\ UNCHANGED current

PowerFailure == current' \in survivors /\ survivors' = {current'}

Next == Replace \/ Persist \/ PowerFailure

Spec == Init /\ [][Next]_vars
=============================================================================
