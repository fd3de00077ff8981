---------------------------- MODULE MCCheckpoints ----------------------------
(***************************************************************************)
(* Small instances of Checkpoints.                                         *)
(***************************************************************************)
EXTENDS Checkpoints

\* Sessions are only compared for equality.
SessionSymmetry == Permutations(Sessions)

=============================================================================
