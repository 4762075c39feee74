-------------------------- MODULE MCShardConsumer --------------------------
(* Instances of ShardConsumer for TLC.  Tokens are interchangeable: the    *)
(* first record that has one has always the same.                          *)
EXTENDS ShardConsumer, TLC

Symmetry == Permutations(Tokens)

FirstTokenIsFixed ==
    \A i \in Records :
        tokenOf[i] # Bad /\ (\A j \in 1 .. i - 1 : tokenOf[j] = Bad) =>
            tokenOf[i] = CHOOSE t \in Tokens : TRUE

MCInit == Init /\ FirstTokenIsFixed

\* FairSpec from those initial states only.
MCFairSpec == MCInit /\ [][Next]_vars /\ WF_vars(KCLStep) /\ WF_vars(BatchStep)
=============================================================================
