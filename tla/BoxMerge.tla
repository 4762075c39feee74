------------------------------ MODULE BoxMerge ------------------------------
(***************************************************************************)
(* The end of getValidContours: the bounding boxes of a zone's contours    *)
(* are sorted by their left edges and boxes that touch are merged, in      *)
(* place.                                                                  *)
(*                                                                         *)
(* The merge compares box i with the later ones.  When two touch, box i    *)
(* becomes the box around both, the later one is erased and box i is       *)
(* looked at again: "i--; break;" and the i++ of the loop.  i is unsigned, *)
(* and for the first box it goes through the largest unsigned number.      *)
(*                                                                         *)
(* Indices are one more than in the code, so i runs from 1 and goes        *)
(* through 0, which stands for that largest number.                        *)
(***************************************************************************)
EXTENDS Integers, Sequences

CONSTANT Inputs   \* the sequences of boxes the contours may give

Boxes == [x : Int, y : Int, width : Nat, height : Nat]

ASSUME InputsAreBoxes == \A s \in Inputs : s \in Seq(Boxes)

VARIABLES
    input,      \* the boxes as the contours gave them
    rectangles,
    pc,         \* "sort", "merge" or "done"
    i, m        \* the loop variables of the present loop

vars == <<input, rectangles, pc, i, m>>

Right(r) == r.x + r.width
Bottom(r) == r.y + r.height

Init ==
    /\ input \in Inputs
    /\ rectangles = input
    /\ pc = "sort"
    /\ i = 2
    /\ m = Len(input)

-----------------------------------------------------------------------------
(* for (i = 1; i < size; i++) for (m = size - 1; m >= i; m--)              *)

Swapped(s, k) == [s EXCEPT ![k - 1] = s[k], ![k] = s[k - 1]]

\* One round of the inner loop.
SortStep ==
    /\ pc = "sort"
    /\ i <= Len(rectangles)
    /\ m >= i
    /\ rectangles' = IF rectangles[m].x < rectangles[m - 1].x
                     THEN Swapped(rectangles, m) ELSE rectangles
    /\ m' = m - 1
    /\ UNCHANGED <<input, pc, i>>

\* Mutant: one pass only.
SortNext_Once ==
    /\ pc = "sort"
    /\ i <= Len(rectangles)
    /\ m < i
    /\ i' = Len(rectangles) + 1
    /\ m' = Len(rectangles)
    /\ UNCHANGED <<input, rectangles, pc>>

SortNext ==
    /\ pc = "sort"
    /\ i <= Len(rectangles)
    /\ m < i
    /\ i' = i + 1
    /\ m' = Len(rectangles)
    /\ UNCHANGED <<input, rectangles, pc>>

SortEnds ==
    /\ pc = "sort"
    /\ i > Len(rectangles)
    /\ pc' = "merge"
    /\ i' = 1
    /\ m' = 2
    /\ UNCHANGED <<input, rectangles>>

-----------------------------------------------------------------------------
(* for (i = 0; i < size; i++) for (m = i + 1; m < size; m++)               *)

\* The test of the code: that box q does not end left of p is taken for
\* granted, because q comes later in the order of the left edges.
Touches(p, q) ==
    /\ Right(p) >= q.x
    /\ q.y <= Bottom(p)
    /\ Bottom(q) >= p.y

Lesser(a, b) == IF a > b THEN b ELSE a
Greater(a, b) == IF a > b THEN a ELSE b

\* Mutant: the width of the first box is kept.
Around_KeepsWidth(p, q) ==
    [x |-> Lesser(p.x, q.x),
     y |-> Lesser(p.y, q.y),
     width |-> p.width,
     height |-> Greater(Bottom(p), Bottom(q)) - Lesser(p.y, q.y)]

\* The box around two boxes.
Around(p, q) ==
    [x |-> Lesser(p.x, q.x),
     y |-> Lesser(p.y, q.y),
     width |-> Greater(Right(p), Right(q)) - Lesser(p.x, q.x),
     height |-> Greater(Bottom(p), Bottom(q)) - Lesser(p.y, q.y)]

Erased(s, k) == [j \in 1 .. Len(s) - 1 |-> IF j < k THEN s[j] ELSE s[j + 1]]

\* Mutant: nothing is erased, and the box is looked at again.
Merge_KeepsBoth ==
    /\ pc = "merge"
    /\ m <= Len(rectangles)
    /\ Touches(rectangles[i], rectangles[m])
    /\ rectangles' = [rectangles EXCEPT ![i] = Around(@, rectangles[m])]
    /\ i' = i - 1
    /\ m' = Len(rectangles) + 1
    /\ UNCHANGED <<input, pc>>

\* Box i grows, box m goes; the inner loop is left with m behind the last box.
Merge ==
    /\ pc = "merge"
    /\ m <= Len(rectangles)
    /\ Touches(rectangles[i], rectangles[m])
    /\ rectangles' =
        Erased([rectangles EXCEPT ![i] = Around(@, rectangles[m])], m)
    /\ i' = i - 1
    /\ m' = Len(rectangles) + 1
    /\ UNCHANGED <<input, pc>>

Compare ==
    /\ pc = "merge"
    /\ m <= Len(rectangles)
    /\ ~Touches(rectangles[i], rectangles[m])
    /\ m' = m + 1
    /\ UNCHANGED <<input, rectangles, pc, i>>

MergeNext ==
    /\ pc = "merge"
    /\ i <= Len(rectangles)
    /\ m > Len(rectangles)
    /\ i' = i + 1
    /\ m' = i + 2
    /\ UNCHANGED <<input, rectangles, pc>>

MergeEnds ==
    /\ pc = "merge"
    /\ i > Len(rectangles)
    /\ pc' = "done"
    /\ UNCHANGED <<input, rectangles, i, m>>

-----------------------------------------------------------------------------
Next ==
    \/ SortStep \/ SortNext \/ SortEnds
    \/ Merge \/ Compare \/ MergeNext \/ MergeEnds

Spec == Init /\ [][Next]_vars

\* The code is one function of one thread.
FairSpec == Spec /\ WF_vars(Next)

-----------------------------------------------------------------------------
(* Properties.                                                             *)

TypeOK ==
    /\ input \in Inputs
    /\ rectangles \in Seq(Boxes)
    /\ pc \in {"sort", "merge", "done"}
    /\ i \in Nat
    /\ m \in Nat

Inside(r, q) ==
    /\ q.x <= r.x /\ Right(r) <= Right(q)
    /\ q.y <= r.y /\ Bottom(r) <= Bottom(q)

Covered ==
    \A a \in DOMAIN input : \E b \in DOMAIN rectangles : Inside(input[a], rectangles[b])

\* Each side of r is the side of an input box that lies in r.
HasSides(r) ==
    LET of == {a \in DOMAIN input : Inside(input[a], r)} IN
    /\ \E a \in of : input[a].x = r.x
    /\ \E a \in of : input[a].y = r.y
    /\ \E a \in of : Right(input[a]) = Right(r)
    /\ \E a \in of : Bottom(input[a]) = Bottom(r)

Tight == \A b \in DOMAIN rectangles : HasSides(rectangles[b])

\* Whatever the order of merging: every box the contours gave lies in one of
\* the boxes that are left, so that no motion is lost, and every box that is
\* left has each of its sides from a box of the contours that lies in it.
BoxesAreHulls == Covered /\ Tight

\* The boxes stay sorted while they are merged: otherwise the test of the left
\* edges, which looks at one side only, would merge boxes that do not touch.
TestIsExact ==
    pc = "merge" /\ i > 0 =>
        \A k \in i + 1 .. Len(rectangles) :
            rectangles[k].x + rectangles[k].width >= rectangles[i].x

LeftOf(a, b) == rectangles[a].x <= rectangles[b].x

\* After each round of the outer loop one more box is in its final place, and
\* in the inner loop box m is the leftmost of those it has been compared with.
SortedSoFar ==
    pc = "sort" =>
        /\ i >= 2 /\ m <= Len(rectangles)
        /\ i <= Len(rectangles) => m >= i - 1
        /\ \A a \in 1 .. i - 2 : \A b \in a + 1 .. Len(rectangles) : LeftOf(a, b)
        /\ \A b \in m + 1 .. Len(rectangles) : LeftOf(m, b)

\* A merge compares two boxes, also when the index has gone below the first.
SortedForGood ==
    /\ pc # "sort" => \A b \in DOMAIN rectangles : \A a \in 1 .. b - 1 : LeftOf(a, b)
    /\ pc = "merge" => i < m /\ (i = 0 => m > Len(rectangles))

\* The inductive invariant.
BoxInv == TypeOK /\ SortedSoFar /\ SortedForGood /\ BoxesAreHulls

\* The loops end although merging moves i back.
MergingEnds == <>(pc = "done")
=============================================================================
