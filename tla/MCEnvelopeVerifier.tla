------------------------- MODULE MCEnvelopeVerifier -------------------------
(***************************************************************************)
(* The instance of EnvelopeVerifier for TLC: a member of the group, a host *)
(* with the group's name and another token, and a host of another group    *)
(* that was given the same token.  The last two use the member's id.       *)
(***************************************************************************)
EXTENDS EnvelopeVerifier

MCSigner ==
    {[sid |-> "sid", token |-> "token", sender_id |-> "member"],
     [sid |-> "sid", token |-> "other", sender_id |-> "member"],
     [sid |-> "sid2", token |-> "token", sender_id |-> "member"]}
=============================================================================
