------------------------ MODULE MCStreamingContexts ------------------------
(* Instances of StreamingContexts for TLC. *)
EXTENDS StreamingContexts, TLC

Symmetry == Permutations(Tokens) \cup Permutations(Workers) \cup Permutations(Models)
=============================================================================
