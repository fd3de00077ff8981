------------------------------ MODULE MCGateway ------------------------------
(***************************************************************************)
(* Small instances of Gateway.                                             *)
(***************************************************************************)
EXTENDS Gateway, TLC

\* Chats are only compared for equality.
ChatSymmetry == Permutations(Chats)

=============================================================================
