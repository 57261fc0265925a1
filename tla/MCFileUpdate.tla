---------------------------- MODULE MCFileUpdate ----------------------------
(***************************************************************************)
(* Instances of FileUpdate for TLC.                                        *)
(***************************************************************************)
EXTENDS FileUpdate, TLC

Symmetry == Permutations(Inode)
=============================================================================
