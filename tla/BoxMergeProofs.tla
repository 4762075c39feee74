--------------------------- MODULE BoxMergeProofs ---------------------------
(***************************************************************************)
(* Proofs about BoxMerge, for any number of boxes of any size.             *)
(***************************************************************************)
EXTENDS BoxMerge, SequenceTheorems, TLAPS

\* What the prover needs to know of boxes.
LEMMA BoxFields ==
    ASSUME NEW r \in Boxes
    PROVE  /\ r.x \in Int /\ r.y \in Int /\ r.width \in Nat /\ r.height \in Nat
           /\ Right(r) \in Int /\ Bottom(r) \in Int
           /\ r.x <= Right(r) /\ r.y <= Bottom(r)
BY DEF Boxes, Right, Bottom

\* The box around two boxes is one, and both lie in it.
LEMMA AroundBoth ==
    ASSUME NEW p \in Boxes, NEW q \in Boxes
    PROVE  LET r == Around(p, q) IN
           /\ r \in Boxes
           /\ r.x = Lesser(p.x, q.x) /\ r.y = Lesser(p.y, q.y)
           /\ Right(r) = Greater(Right(p), Right(q))
           /\ Bottom(r) = Greater(Bottom(p), Bottom(q))
           /\ Inside(p, r) /\ Inside(q, r)
<1>1. /\ p.x \in Int /\ p.y \in Int /\ Right(p) \in Int /\ Bottom(p) \in Int
      /\ q.x \in Int /\ q.y \in Int /\ Right(q) \in Int /\ Bottom(q) \in Int
      /\ p.x <= Right(p) /\ p.y <= Bottom(p) /\ q.x <= Right(q) /\ q.y <= Bottom(q)
  BY BoxFields
<1>2. Around(p, q) \in Boxes
  BY <1>1 DEF Around, Lesser, Greater, Boxes
<1>3. /\ Around(p, q).x = Lesser(p.x, q.x) /\ Around(p, q).y = Lesser(p.y, q.y)
      /\ Right(Around(p, q)) = Greater(Right(p), Right(q))
      /\ Bottom(Around(p, q)) = Greater(Bottom(p), Bottom(q))
  <2>1. \A a, b \in Int : Lesser(a, b) \in Int /\ Greater(a, b) \in Int
    BY DEF Lesser, Greater
  <2>2. /\ Lesser(p.x, q.x) \in Int /\ Greater(Right(p), Right(q)) \in Int
        /\ Lesser(p.y, q.y) \in Int /\ Greater(Bottom(p), Bottom(q)) \in Int
    BY <1>1, <2>1
  <2>3. \A a, b \in Int : a + (b - a) = b
    OBVIOUS
  <2>4. /\ Around(p, q).x = Lesser(p.x, q.x) /\ Around(p, q).y = Lesser(p.y, q.y)
        /\ Around(p, q).width = Greater(Right(p), Right(q)) - Lesser(p.x, q.x)
        /\ Around(p, q).height = Greater(Bottom(p), Bottom(q)) - Lesser(p.y, q.y)
    BY Zenon DEF Around
  <2>5. /\ Around(p, q).x + Around(p, q).width = Greater(Right(p), Right(q))
        /\ Around(p, q).y + Around(p, q).height = Greater(Bottom(p), Bottom(q))
    BY <2>2, <2>3, <2>4
  <2> QED
    BY <2>4, <2>5 DEF Right, Bottom
<1> QED
  BY <1>1, <1>2, <1>3 DEF Inside, Lesser, Greater

\* Lying in a box is transitive.
LEMMA InsideOfInside ==
    ASSUME NEW p \in Boxes, NEW q \in Boxes, NEW r \in Boxes, Inside(p, q), Inside(q, r)
    PROVE  Inside(p, r)
BY BoxFields DEF Inside

\* The boxes of the contours are boxes.
LEMMA InputBoxes ==
    ASSUME TypeOK
    PROVE  /\ \A a \in DOMAIN input : input[a] \in Boxes
           /\ \A b \in DOMAIN rectangles : rectangles[b] \in Boxes
           /\ Len(rectangles) \in Nat /\ DOMAIN rectangles = 1 .. Len(rectangles)
<1>1. input \in Seq(Boxes)
  BY InputsAreBoxes DEF TypeOK
<1> HIDE DEF Boxes
<1> QED
  BY <1>1 DEF TypeOK

\* A box around two that have their sides from the input has so, too.
LEMMA AroundHasSides ==
    ASSUME TypeOK, NEW p \in Boxes, NEW q \in Boxes, HasSides(p), HasSides(q)
    PROVE  HasSides(Around(p, q))
<1> DEFINE r == Around(p, q)
<1>1. /\ r \in Boxes /\ Inside(p, r) /\ Inside(q, r)
      /\ r.x = Lesser(p.x, q.x) /\ r.y = Lesser(p.y, q.y)
      /\ Right(r) = Greater(Right(p), Right(q))
      /\ Bottom(r) = Greater(Bottom(p), Bottom(q))
  BY AroundBoth
<1> HIDE DEF r
<1>2. \A a \in DOMAIN input : Inside(input[a], p) \/ Inside(input[a], q) => Inside(input[a], r)
  BY <1>1, InputBoxes, InsideOfInside
<1>3. /\ \A a, b : Lesser(a, b) \in {a, b}
      /\ \A a, b : Greater(a, b) \in {a, b}
  BY DEF Lesser, Greater
<1>4. /\ r.x \in {p.x, q.x} /\ r.y \in {p.y, q.y}
      /\ Right(r) \in {Right(p), Right(q)} /\ Bottom(r) \in {Bottom(p), Bottom(q)}
  BY <1>1, <1>3
<1> DEFINE of == {a \in DOMAIN input : Inside(input[a], r)}
           ofP == {a \in DOMAIN input : Inside(input[a], p)}
           ofQ == {a \in DOMAIN input : Inside(input[a], q)}
<1>5. /\ \E a \in ofP : input[a].x = p.x
      /\ \E a \in ofP : input[a].y = p.y
      /\ \E a \in ofP : Right(input[a]) = Right(p)
      /\ \E a \in ofP : Bottom(input[a]) = Bottom(p)
      /\ \E a \in ofQ : input[a].x = q.x
      /\ \E a \in ofQ : input[a].y = q.y
      /\ \E a \in ofQ : Right(input[a]) = Right(q)
      /\ \E a \in ofQ : Bottom(input[a]) = Bottom(q)
  BY DEF HasSides
<1>6. ofP \subseteq of /\ ofQ \subseteq of
  BY <1>2
<1> HIDE DEF of, ofP, ofQ
<1>7. /\ \E a \in of : input[a].x = r.x
      /\ \E a \in of : input[a].y = r.y
      /\ \E a \in of : Right(input[a]) = Right(r)
      /\ \E a \in of : Bottom(input[a]) = Bottom(r)
  BY <1>4, <1>5, <1>6
<1> QED
  BY <1>7 DEF HasSides, of, r

\* Exchanging two neighbours.
LEMMA SwappedBoxes ==
    ASSUME NEW s \in Seq(Boxes), NEW k \in 2 .. Len(s)
    PROVE  /\ Swapped(s, k) \in Seq(Boxes) /\ Len(Swapped(s, k)) = Len(s)
           /\ \A a \in 1 .. Len(s) :
                Swapped(s, k)[a] = s[IF a = k THEN k - 1 ELSE IF a = k - 1 THEN k ELSE a]
<1> HIDE DEF Boxes
<1>1. Len(s) \in Nat /\ k - 1 \in 1 .. Len(s) /\ k \in 1 .. Len(s) /\ k - 1 # k
  OBVIOUS
<1>2. s[k] \in Boxes /\ s[k - 1] \in Boxes
  BY <1>1, ElementOfSeq
<1>3. Swapped(s, k) \in Seq(Boxes) /\ Len(Swapped(s, k)) = Len(s)
  BY <1>1, <1>2 DEF Swapped
<1> QED
  BY <1>1, <1>2, <1>3 DEF Swapped

\* Taking one box out.
LEMMA ErasedBoxes ==
    ASSUME NEW s \in Seq(Boxes), NEW k \in 1 .. Len(s)
    PROVE  /\ Erased(s, k) \in Seq(Boxes) /\ Len(Erased(s, k)) = Len(s) - 1
           /\ \A a \in 1 .. Len(s) - 1 : Erased(s, k)[a] = s[IF a < k THEN a ELSE a + 1]
<1> HIDE DEF Boxes
<1>1. Len(s) - 1 \in Nat
  OBVIOUS
<1>2. \A a \in 1 .. Len(s) - 1 :
        /\ (IF a < k THEN s[a] ELSE s[a + 1]) \in Boxes
        /\ (IF a < k THEN s[a] ELSE s[a + 1]) = s[IF a < k THEN a ELSE a + 1]
  BY ElementOfSeq
<1>3. Erased(s, k) \in [1 .. Len(s) - 1 -> Boxes]
  BY <1>2 DEF Erased
<1>4. Erased(s, k) \in Seq(Boxes)
  BY <1>1, <1>3, SeqDef
<1> QED
  BY <1>1, <1>2, <1>3, <1>4 DEF Erased

-----------------------------------------------------------------------------
\* The boxes as they come from the contours are their own hulls.
LEMMA InitBoxes == Init => BoxInv
<1> SUFFICES ASSUME Init PROVE BoxInv
  OBVIOUS
<1>1. input \in Seq(Boxes) /\ rectangles = input
  BY InputsAreBoxes DEF Init
<1>2. TypeOK
  <2> HIDE DEF Boxes
  <2> QED
    BY <1>1 DEF Init, TypeOK
<1>3. SortedSoFar /\ SortedForGood
  BY <1>1 DEF Init, SortedSoFar, SortedForGood
<1>4. \A a \in DOMAIN input : Inside(input[a], rectangles[a])
  BY <1>1, <1>2, InputBoxes, BoxFields DEF Inside
<1>5. Covered
  BY <1>1, <1>4 DEF Covered
<1>6. Tight
  BY <1>1, <1>4 DEF Tight, HasSides
<1> QED
  BY <1>2, <1>3, <1>5, <1>6 DEF BoxInv, BoxesAreHulls

\* Hulls stay hulls wherever they are put.
LEMMA HullsElsewhere ==
    ASSUME BoxesAreHulls, input' = input,
           \A b \in DOMAIN rectangles : \E c \in DOMAIN rectangles' : rectangles'[c] = rectangles[b],
           \A c \in DOMAIN rectangles' : \E b \in DOMAIN rectangles : rectangles'[c] = rectangles[b]
    PROVE  BoxesAreHulls'
<1>1. Covered'
  BY DEF BoxesAreHulls, Covered, Inside
<1>2. \A r : HasSides(r) => HasSides(r)'
  BY DEF HasSides
<1>3. \A c \in DOMAIN rectangles' : HasSides(rectangles'[c])
  BY DEF BoxesAreHulls, Tight
<1>4. Tight'
  BY <1>2, <1>3 DEF Tight, HasSides
<1> QED
  BY <1>1, <1>4 DEF BoxesAreHulls

LEMMA SortStepKeeps == BoxInv /\ SortStep => BoxInv'
<1> SUFFICES ASSUME BoxInv, SortStep PROVE BoxInv'
  OBVIOUS
<1> DEFINE n == Len(rectangles)
<1>1. /\ rectangles \in Seq(Boxes) /\ n \in Nat /\ DOMAIN rectangles = 1 .. n
      /\ \A b \in 1 .. n : rectangles[b].x \in Int
  BY InputBoxes, BoxFields DEF BoxInv, TypeOK
<1>2. /\ pc = "sort" /\ pc' = pc /\ i' = i /\ m' = m - 1 /\ input' = input
      /\ i \in Nat /\ m \in Nat /\ 2 <= i /\ i <= m /\ m <= n
      /\ m \in 2 .. n
  BY DEF BoxInv, TypeOK, SortedSoFar, SortStep
<1>3. /\ rectangles' \in Seq(Boxes) /\ Len(rectangles') = n
      /\ DOMAIN rectangles' = 1 .. n
      /\ \A a \in 1 .. n : rectangles'[a] =
            rectangles[IF rectangles[m].x < rectangles[m - 1].x
                       THEN IF a = m THEN m - 1 ELSE IF a = m - 1 THEN m ELSE a
                       ELSE a]
  <2> HIDE DEF Boxes
  <2>1. CASE rectangles[m].x < rectangles[m - 1].x
    <3>1. rectangles' = Swapped(rectangles, m)
      BY <2>1 DEF SortStep
    <3>2. /\ Swapped(rectangles, m) \in Seq(Boxes)
          /\ Len(Swapped(rectangles, m)) = n
          /\ \A a \in 1 .. n : Swapped(rectangles, m)[a] =
                rectangles[IF a = m THEN m - 1 ELSE IF a = m - 1 THEN m ELSE a]
      BY <1>1, <1>2, SwappedBoxes
    <3> QED
      BY <2>1, <3>1, <3>2
  <2>2. CASE ~(rectangles[m].x < rectangles[m - 1].x)
    BY <1>1, <2>2 DEF SortStep
  <2> QED
    BY <2>1, <2>2
<1>4. TypeOK'
  <2> HIDE DEF Boxes
  <2> QED
    BY <1>2, <1>3 DEF BoxInv, TypeOK
<1>5. BoxesAreHulls'
  <2>1. \A b \in 1 .. n : \E c \in 1 .. n : rectangles'[c] = rectangles[b]
    <3> TAKE b \in 1 .. n
    <3>1. CASE rectangles[m].x < rectangles[m - 1].x
      <4>1. m - 1 \in 1 .. n /\ m \in 1 .. n /\ m - 1 # m
        BY <1>2
      <4>2. CASE b = m
        BY <1>3, <3>1, <4>1, <4>2
      <4>3. CASE b = m - 1
        BY <1>3, <3>1, <4>1, <4>3
      <4>4. CASE b # m /\ b # m - 1
        BY <1>3, <3>1, <4>4
      <4> QED
        BY <4>2, <4>3, <4>4
    <3>2. CASE ~(rectangles[m].x < rectangles[m - 1].x)
      BY <1>3, <3>2
    <3> QED
      BY <3>1, <3>2
  <2>2. \A c \in 1 .. n : \E b \in 1 .. n : rectangles'[c] = rectangles[b]
    BY <1>2, <1>3
  <2> QED
    BY <1>1, <1>2, <1>3, <2>1, <2>2, HullsElsewhere DEF BoxInv
<1>6. SortedForGood'
  BY <1>2 DEF SortedForGood
<1>7. SortedSoFar'
  <2>1. /\ \A a \in 1 .. i - 2 : \A b \in a + 1 .. n : rectangles[a].x <= rectangles[b].x
        /\ \A b \in m + 1 .. n : rectangles[m].x <= rectangles[b].x
    BY <1>2 DEF BoxInv, SortedSoFar, LeftOf
  <2>2. ASSUME NEW a \in 1 .. i - 2, NEW b \in a + 1 .. n
        PROVE  rectangles'[a].x <= rectangles'[b].x
    <3>1. a \in 1 .. n /\ a < m - 1 /\ rectangles'[a] = rectangles[a]
      BY <1>2, <1>3
    <3>2. PICK c \in a + 1 .. n : rectangles'[b] = rectangles[c]
      BY <1>2, <1>3, <3>1
    <3> QED
      BY <2>1, <3>1, <3>2
  <2>3. ASSUME NEW b \in m - 1 + 1 .. n
        PROVE  rectangles'[m - 1].x <= rectangles'[b].x
    <3>1. /\ m \in 1 .. n /\ m - 1 \in 1 .. n /\ b \in 1 .. n
          /\ rectangles[m].x \in Int /\ rectangles[m - 1].x \in Int
      BY <1>1, <1>2
    <3>2. CASE b = m
      BY <1>3, <3>1, <3>2
    <3>3. CASE b # m
      <4>1. b \in m + 1 .. n /\ b # m - 1
        BY <1>2, <3>3
      <4>2. rectangles'[b] = rectangles[b]
        BY <1>3, <3>1, <3>3, <4>1
      <4>3. rectangles[m].x <= rectangles[b].x /\ rectangles[b].x \in Int
        BY <1>1, <2>1, <3>1, <4>1
      <4>4. rectangles'[m - 1].x <= rectangles[m].x /\ rectangles'[m - 1].x \in Int
        BY <1>3, <3>1
      <4> QED
        BY <3>1, <4>2, <4>3, <4>4
    <3> QED
      BY <3>2, <3>3
  <2> QED
    BY <1>2, <1>3, <2>2, <2>3 DEF SortedSoFar, LeftOf
<1> QED
  BY <1>4, <1>5, <1>6, <1>7 DEF BoxInv

\* The end of a round: one more box is in place.
LEMMA SortNextKeeps == BoxInv /\ SortNext => BoxInv'
<1> SUFFICES ASSUME BoxInv, SortNext PROVE BoxInv'
  OBVIOUS
<1>1. /\ pc = "sort" /\ i' = i + 1 /\ m' = Len(rectangles)
      /\ UNCHANGED <<input, rectangles, pc>>
      /\ i <= Len(rectangles) /\ m < i /\ i \in Nat /\ m \in Nat
      /\ Len(rectangles) \in Nat
  BY InputBoxes DEF BoxInv, TypeOK, SortNext
<1>2. TypeOK'
  BY <1>1 DEF BoxInv, TypeOK
<1>3. m = i - 1 /\ i >= 2
  BY <1>1 DEF BoxInv, SortedSoFar
<1>4. SortedSoFar'
  BY <1>1, <1>3 DEF BoxInv, SortedSoFar, LeftOf
<1>5. SortedForGood' /\ BoxesAreHulls'
  BY <1>1 DEF BoxInv, SortedForGood, BoxesAreHulls, Covered, Tight, HasSides
<1> QED
  BY <1>2, <1>4, <1>5 DEF BoxInv

LEMMA SortEndsKeeps == BoxInv /\ SortEnds => BoxInv'
<1> SUFFICES ASSUME BoxInv, SortEnds PROVE BoxInv'
  OBVIOUS
<1>1. /\ pc = "sort" /\ pc' = "merge" /\ i' = 1 /\ m' = 2
      /\ UNCHANGED <<input, rectangles>>
      /\ i > Len(rectangles) /\ i \in Nat /\ i >= 2
      /\ Len(rectangles) \in Nat /\ DOMAIN rectangles = 1 .. Len(rectangles)
  BY InputBoxes DEF BoxInv, TypeOK, SortedSoFar, SortEnds
<1>2. TypeOK'
  BY <1>1 DEF BoxInv, TypeOK
<1>3. SortedForGood'
  BY <1>1 DEF BoxInv, SortedSoFar, SortedForGood, LeftOf
<1>4. SortedSoFar' /\ BoxesAreHulls'
  BY <1>1 DEF BoxInv, SortedSoFar, BoxesAreHulls, Covered, Tight, HasSides
<1> QED
  BY <1>2, <1>3, <1>4 DEF BoxInv

-----------------------------------------------------------------------------
LEMMA MergeKeeps == BoxInv /\ Merge => BoxInv'
<1> SUFFICES ASSUME BoxInv, Merge PROVE BoxInv'
  OBVIOUS
<1> DEFINE n == Len(rectangles)
           r == Around(rectangles[i], rectangles[m])
           grown == [rectangles EXCEPT ![i] = r]
<1>1. /\ rectangles \in Seq(Boxes) /\ n \in Nat /\ DOMAIN rectangles = 1 .. n
      /\ \A b \in 1 .. n : rectangles[b] \in Boxes /\ rectangles[b].x \in Int
  BY InputBoxes, BoxFields DEF BoxInv, TypeOK
<1>2. /\ pc = "merge" /\ pc' = pc /\ input' = input /\ i' = i - 1 /\ m' = n + 1
      /\ i \in Nat /\ m \in Nat /\ m <= n /\ i < m /\ i # 0
      /\ i \in 1 .. n /\ m \in 1 .. n
      /\ rectangles' = Erased(grown, m)
  BY <1>1 DEF BoxInv, TypeOK, SortedForGood, Merge
<1>3. /\ r \in Boxes /\ r.x = Lesser(rectangles[i].x, rectangles[m].x)
      /\ Inside(rectangles[i], r) /\ Inside(rectangles[m], r)
  BY <1>1, <1>2, AroundBoth
<1>4. HasSides(r)
  BY <1>1, <1>2, AroundHasSides DEF BoxInv, BoxesAreHulls, Tight
<1>5. \A a, b \in 1 .. n : a < b => rectangles[a].x <= rectangles[b].x
  BY <1>1, <1>2 DEF BoxInv, SortedForGood, LeftOf
<1>6. r.x = rectangles[i].x
  BY <1>1, <1>2, <1>3, <1>5 DEF Lesser
<1> HIDE DEF r
<1> HIDE DEF Boxes
<1>7. /\ grown \in Seq(Boxes) /\ Len(grown) = n
      /\ \A a \in 1 .. n : grown[a] = IF a = i THEN r ELSE rectangles[a]
  BY <1>1, <1>2, <1>3, ExceptSeq
<1> HIDE DEF grown
<1>8. /\ rectangles' \in Seq(Boxes) /\ Len(rectangles') = n - 1
      /\ DOMAIN rectangles' = 1 .. n - 1
      /\ \A a \in 1 .. n - 1 : rectangles'[a] = grown[IF a < m THEN a ELSE a + 1]
  <2>1. /\ Erased(grown, m) \in Seq(Boxes) /\ Len(Erased(grown, m)) = n - 1
        /\ \A a \in 1 .. n - 1 : Erased(grown, m)[a] = grown[IF a < m THEN a ELSE a + 1]
    BY <1>2, <1>7, ErasedBoxes
  <2> QED
    BY <1>2, <2>1
<1>9. \A a \in 1 .. n - 1 : rectangles'[a] =
        IF a = i THEN r ELSE rectangles[IF a < m THEN a ELSE a + 1]
  <2> TAKE a \in 1 .. n - 1
  <2> DEFINE old == IF a < m THEN a ELSE a + 1
  <2>1. old \in 1 .. n /\ (old = i <=> a = i)
    BY <1>1, <1>2
  <2>2. rectangles'[a] = grown[old]
    BY <1>8
  <2> HIDE DEF old
  <2>3. rectangles'[a] = IF a = i THEN r ELSE rectangles[old]
    BY <1>7, <2>1, <2>2
  <2> QED
    BY <2>3 DEF old
<1>10. TypeOK'
  BY <1>1, <1>2, <1>8 DEF BoxInv, TypeOK
<1>11. SortedSoFar'
  BY <1>2 DEF SortedSoFar
<1>12. SortedForGood'
  <2>1. ASSUME NEW b \in 1 .. n - 1, NEW a \in 1 .. b - 1
        PROVE  rectangles'[a].x <= rectangles'[b].x
    <3> DEFINE at(c) == IF c < m THEN c ELSE c + 1
    <3>1. at(a) \in 1 .. n /\ at(b) \in 1 .. n /\ at(a) < at(b) /\ a \in 1 .. n - 1
      BY <1>1, <1>2
    <3>2. at(i) = i
      BY <1>2
    <3>3. \A c \in 1 .. n - 1 : rectangles'[c].x = rectangles[at(c)].x
      BY <1>6, <1>9, <3>2
    <3> HIDE DEF at
    <3> QED
      BY <1>5, <2>1, <3>1, <3>3
  <2>2. i - 1 < n + 1 /\ n + 1 > n - 1
    BY <1>1, <1>2
  <2>3. \A b \in DOMAIN rectangles' : \A a \in 1 .. b - 1 : LeftOf(a, b)'
    BY <1>8, <2>1 DEF LeftOf
  <2> QED
    BY <1>2, <1>8, <2>2, <2>3 DEF SortedForGood
<1>13. Covered'
  <2>1. ASSUME NEW a \in DOMAIN input
        PROVE  \E c \in 1 .. n - 1 : Inside(input[a], rectangles'[c])
    <3>1. PICK b \in 1 .. n : Inside(input[a], rectangles[b])
      BY <1>1 DEF BoxInv, BoxesAreHulls, Covered
    <3>2. CASE b = i \/ b = m
      <4>1. Inside(input[a], r)
        BY <1>1, <1>2, <1>3, <3>1, <3>2, InputBoxes, InsideOfInside DEF BoxInv
      <4>2. i \in 1 .. n - 1 /\ rectangles'[i] = r
        BY <1>1, <1>2, <1>9
      <4> QED
        BY <4>1, <4>2
    <3>3. CASE b < m /\ b # i
      <4>1. b \in 1 .. n - 1 /\ rectangles'[b] = rectangles[b]
        BY <1>1, <1>2, <1>9, <3>3
      <4> QED
        BY <3>1, <4>1
    <3>4. CASE b > m
      <4>1. /\ b - 1 \in 1 .. n - 1 /\ b - 1 # i /\ ~(b - 1 < m) /\ (b - 1) + 1 = b
        BY <1>1, <1>2, <3>4
      <4>2. rectangles'[b - 1] = rectangles[b]
        BY <1>9, <4>1
      <4> QED
        BY <3>1, <4>1, <4>2
    <3> QED
      BY <1>2, <3>2, <3>3, <3>4
  <2> QED
    BY <1>2, <1>8, <2>1 DEF Covered, Inside
<1>14. Tight'
  <2>1. \A c \in 1 .. n - 1 : HasSides(rectangles'[c])
    <3> TAKE c \in 1 .. n - 1
    <3>1. CASE c = i
      BY <1>4, <1>9, <3>1
    <3>2. CASE c # i
      <4>1. PICK b \in 1 .. n : rectangles'[c] = rectangles[b]
        BY <1>1, <1>2, <1>9, <3>2
      <4> QED
        BY <1>1, <4>1 DEF BoxInv, BoxesAreHulls, Tight
    <3> QED
      BY <3>1, <3>2
  <2> QED
    BY <1>2, <1>8, <2>1 DEF Tight, HasSides
<1> QED
  BY <1>10, <1>11, <1>12, <1>13, <1>14 DEF BoxInv, BoxesAreHulls

\* The other steps of the merge only move the indices.
LEMMA IndicesMove ==
    ASSUME BoxInv, UNCHANGED <<input, rectangles>>, pc # "sort", pc' \in {"merge", "done"},
           i' \in Nat, m' \in Nat,
           pc' = "merge" => i' < m' /\ i' # 0
    PROVE  BoxInv'
<1>1. TypeOK'
  BY DEF BoxInv, TypeOK
<1>2. SortedSoFar' /\ SortedForGood'
  BY DEF BoxInv, SortedSoFar, SortedForGood, LeftOf
<1>3. BoxesAreHulls'
  BY DEF BoxInv, BoxesAreHulls, Covered, Tight, HasSides
<1> QED
  BY <1>1, <1>2, <1>3 DEF BoxInv

LEMMA NextKeepsBoxes == BoxInv /\ [Next]_vars => BoxInv'
<1> SUFFICES ASSUME BoxInv, [Next]_vars PROVE BoxInv'
  OBVIOUS
<1>1. CASE Compare
  <2>1. /\ m <= Len(rectangles) /\ pc = "merge" /\ pc' = pc /\ i' = i /\ m' = m + 1
        /\ UNCHANGED <<input, rectangles>>
        /\ i \in Nat /\ m \in Nat /\ Len(rectangles) \in Nat
    BY <1>1, InputBoxes DEF BoxInv, TypeOK, Compare
  <2>2. i < m /\ i # 0
    BY <2>1 DEF BoxInv, SortedForGood
  <2> QED
    BY <2>1, <2>2, IndicesMove
<1>2. CASE MergeNext
  <2>1. /\ pc = "merge" /\ pc' = pc /\ i' = i + 1 /\ m' = i + 2 /\ i \in Nat
        /\ UNCHANGED <<input, rectangles>>
    BY <1>2 DEF BoxInv, TypeOK, MergeNext
  <2> QED
    BY <2>1, IndicesMove
<1>3. CASE MergeEnds
  BY <1>3, IndicesMove DEF BoxInv, TypeOK, MergeEnds
<1>4. CASE UNCHANGED vars
  BY <1>4 DEF vars, BoxInv, TypeOK, SortedSoFar, SortedForGood, LeftOf,
              BoxesAreHulls, Covered, Tight, HasSides
<1> QED
  BY <1>1, <1>2, <1>3, <1>4, SortStepKeeps, SortNextKeeps, SortEndsKeeps, MergeKeeps
  DEF Next

-----------------------------------------------------------------------------
\* Sorting and merging in place keep the boxes sorted and hulls of the input
\* at every step, also while the index is below the first box (getValidContours).
THEOREM BoxInvariant == Spec => []BoxInv
BY InitBoxes, NextKeepsBoxes, PTL DEF Spec

\* No motion is lost by merging, and no box grows beyond what was merged into
\* it (getValidContours).
THEOREM Hulls == Spec => []BoxesAreHulls
<1>1. BoxInv => BoxesAreHulls
  BY DEF BoxInv
<1> QED
  BY <1>1, BoxInvariant, PTL

\* The test of the left edges needs to look at one side only (getValidContours).
THEOREM ExactTest == Spec => []TestIsExact
<1>1. BoxInv => TestIsExact
  <2> SUFFICES ASSUME BoxInv, pc = "merge", i > 0, NEW k \in i + 1 .. Len(rectangles)
               PROVE  rectangles[k].x + rectangles[k].width >= rectangles[i].x
    BY DEF TestIsExact
  <2>1. i \in Nat /\ Len(rectangles) \in Nat /\ DOMAIN rectangles = 1 .. Len(rectangles)
    BY InputBoxes DEF BoxInv, TypeOK
  <2>2. i \in DOMAIN rectangles /\ k \in DOMAIN rectangles /\ i \in 1 .. k - 1
    BY <2>1
  <2>3. rectangles[i].x <= rectangles[k].x
    BY <2>2 DEF BoxInv, SortedForGood, LeftOf
  <2>4. rectangles[i] \in Boxes /\ rectangles[k] \in Boxes
    BY <2>2, InputBoxes DEF BoxInv
  <2>5. rectangles[i].x \in Int /\ rectangles[k].x \in Int /\ rectangles[k].width \in Nat
    BY <2>4, BoxFields
  <2> QED
    BY <2>3, <2>5
<1> QED
  BY <1>1, BoxInvariant, PTL
=============================================================================
