--------------------------- MODULE MCManagedBlock ---------------------------
(***************************************************************************)
(* The instance of ManagedBlock for TLC: one key in two layouts, the same  *)
(* key with a comment, and a text that is no key.                          *)
(***************************************************************************)
EXTENDS ManagedBlock

MCRawKey ==
    {[words |-> <<"ssh-ed25519", "A">>, tidy |-> TRUE],
     [words |-> <<"ssh-ed25519", "A">>, tidy |-> FALSE],
     [words |-> <<"ssh-ed25519", "A", "me">>, tidy |-> TRUE],
     [words |-> <<"ssh-ed25519">>, tidy |-> TRUE]}
=============================================================================
