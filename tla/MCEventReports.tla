--------------------------- MODULE MCEventReports ---------------------------
(* Instances of EventReports for TLC: every stream has a token of its own, *)
(* and all streams share the first of two object threads.  One stream has  *)
(* more frames than the burst of its object events may have.               *)
EXTENDS EventReports, TLC

CONSTANTS t1, t2, x1, x2

MCTokens == {t1, t2}
MCThreads == {x1, x2}
MCTokenOf == [s \in Streams |-> IF s = CHOOSE r \in Streams : TRUE THEN t1 ELSE t2]
MCMaxFrames == [s \in Streams |-> IF MCTokenOf[s] = t1 THEN 4 ELSE 2]
MCThreadOf == [s \in Streams |-> x1]
=============================================================================
