---------------------------- MODULE MCPutManager ----------------------------
(* Instances of PutManager for TLC. *)
EXTENDS PutManager, TLC

Symmetry == Permutations(Images)
=============================================================================
