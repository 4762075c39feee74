----------------------------- MODULE MCBoxMerge -----------------------------
(* Instances of BoxMerge for TLC: up to three boxes on a small grid, and   *)
(* four boxes in two rows.                                                 *)
EXTENDS BoxMerge, TLC

MCBoxes == [x : {0, 2, 4}, y : {0, 3}, width : {1, 2}, height : {1, 3}]
MCLine == [x : {0, 2, 3}, y : {0, 2}, width : {1}, height : {1}]

MCInputs == UNION {[1 .. n -> MCBoxes] : n \in 0 .. 2}
            \cup [1 .. 3 -> [x : {0, 2, 4}, y : {0, 3}, width : {1, 3}, height : {1}]]
            \cup [1 .. 4 -> MCLine]
=============================================================================
