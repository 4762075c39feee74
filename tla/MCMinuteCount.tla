--------------------------- MODULE MCMinuteCount ---------------------------
(* Instances of MinuteCount for TLC. *)
EXTENDS MinuteCount, TLC

Symmetry == Permutations(Threads) \cup Permutations(Marks)
=============================================================================
