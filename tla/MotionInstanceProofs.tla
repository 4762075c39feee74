------------------------ MODULE MotionInstanceProofs ------------------------
(***************************************************************************)
(* Proofs about MotionInstance, for any configurations and areas.          *)
(***************************************************************************)
EXTENDS MotionInstance, FiniteSetTheorems, SequenceTheorems, TLAPS

\* Removing nested zones adds none.
LEMMA UnnestedIsSmaller ==
    ASSUME NEW p
    PROVE  DOMAIN Unnested(p) \subseteq DOMAIN ZoneMap(p)
<1> DEFINE zones == ZoneMap(p)
<1> HIDE DEF zones
<1>1. \A ids : DOMAIN Without(zones, ids) \subseteq DOMAIN zones
  BY DEF Without
<1>2. DOMAIN Unnest2(p, zones) \subseteq DOMAIN zones
  BY <1>1 DEF Unnest2
<1>3. DOMAIN Unnest3(p, zones) \subseteq DOMAIN zones
  <2> DEFINE o == ByX(p, zones)
             inFirst == {o[k] : k \in {m \in 2 .. 3 : InsideFrom(zones[o[1]], zones[o[m]])}}
  <2>1. Unnest3(p, zones) =
          CASE inFirst # {} /\ o[2] = o[3] -> [zones EXCEPT ![o[2]] = Zero]
            [] inFirst # {} /\ o[2] # o[3] -> Without(zones, inFirst)
            [] inFirst = {} /\ InsideFrom(zones[o[2]], zones[o[3]]) -> Without(zones, {o[3]})
            [] OTHER -> zones
    BY DEF Unnest3
  <2> HIDE DEF o, inFirst
  <2>2. \A i : DOMAIN [zones EXCEPT ![i] = Zero] = DOMAIN zones
    OBVIOUS
  <2> QED
    BY <1>1, <2>1, <2>2
<1> QED
  BY <1>2, <1>3 DEF Unnested, zones

\* The zones of a configuration.
LEMMA ConfigZones ==
    ASSUME NEW c \in Configs
    PROVE  /\ Len(c) \in Nat /\ DOMAIN c = 1 .. Len(c)
           /\ \A i \in DOMAIN c : c[i].id \in Int /\ c[i].pos \in Rects \cup {NULL}
<1> DEFINE Zone == [id : Int, pos : Rects \cup {NULL}]
<1>1. /\ c \in Seq(Zone)
      /\ \A z \in Zone : z.id \in Int /\ z.pos \in Rects \cup {NULL}
  BY ConfigsType
<1> HIDE DEF Zone
<1>2. /\ Len(c) \in Nat /\ DOMAIN c = 1 .. Len(c)
      /\ \A i \in 1 .. Len(c) : c[i] \in Zone
  BY <1>1
<1> QED
  BY <1>1, <1>2

\* The ids of a configuration are integers, no more than it has zones.
LEMMA ZoneIds ==
    ASSUME NEW c \in Configs
    PROVE  /\ DOMAIN Zones(c) \subseteq Int
           /\ IsFiniteSet(DOMAIN Zones(c))
           /\ Cardinality(DOMAIN Zones(c)) <= Len(c)
<1> DEFINE p == Params(c)
           ids == {p[i].id : i \in DOMAIN c}
           f == [i \in DOMAIN c |-> p[i].id]
<1>1. /\ Len(c) \in Nat /\ DOMAIN c = 1 .. Len(c)
      /\ \A i \in DOMAIN c : c[i].id \in Int
  BY ConfigZones
<1>2. DOMAIN p = DOMAIN c
  BY DEF Params
<1>3. \A i \in DOMAIN c : p[i].id \in Int
  BY <1>1 DEF Params
<1> HIDE DEF p
<1>4. f \in Surjection(DOMAIN c, ids)
  BY DEF Surjection
<1>5. IsFiniteSet(DOMAIN c) /\ Cardinality(DOMAIN c) = Len(c)
  BY <1>1, FS_Interval
<1>6. IsFiniteSet(ids) /\ Cardinality(ids) <= Len(c)
  BY <1>4, <1>5, FS_Surjection
<1>7. DOMAIN ZoneMap(p) = ids
  BY <1>2 DEF ZoneMap
<1>8. DOMAIN Zones(c) \subseteq ids
  BY <1>7, UnnestedIsSmaller DEF Zones, p
<1>9. ids \subseteq Int
  BY <1>3
<1>10. /\ IsFiniteSet(DOMAIN Zones(c))
       /\ Cardinality(DOMAIN Zones(c)) <= Cardinality(ids)
  BY <1>6, <1>8, FS_Subset
<1>11. Cardinality(DOMAIN Zones(c)) \in Nat /\ Cardinality(ids) \in Nat
  BY <1>6, <1>10, FS_CardinalityType
<1> HIDE DEF ids
<1> QED
  BY <1>1, <1>6, <1>8, <1>9, <1>10, <1>11

\* Every zone has a place of its own among the three.
LEMMA PlacesDiffer ==
    ASSUME NEW c \in Configs, Parses(c),
           NEW y \in DOMAIN Zones(c), NEW z \in DOMAIN Zones(c)
    PROVE  /\ Place(Zones(c), z) \in 0 .. 2
           /\ y # z => Place(Zones(c), y) # Place(Zones(c), z)
<1> DEFINE D == DOMAIN Zones(c)
           below(x) == {w \in D : w < x}
<1>1. D \subseteq Int /\ IsFiniteSet(D) /\ Cardinality(D) <= 3 /\ Cardinality(D) \in Nat
  <2>1. Len(c) \in Nat /\ Len(c) <= 3
    <3>1. c \in Seq([id : Int, pos : Rects \cup {NULL}])
      BY ConfigsType
    <3> QED
      BY <3>1 DEF Parses
  <2>2. Cardinality(D) \in Nat
    BY ZoneIds, FS_CardinalityType
  <2> QED
    BY <2>1, <2>2, ZoneIds
<1>2. \A x \in D : Place(Zones(c), x) = Cardinality(below(x))
  BY DEF Place
<1> HIDE DEF D
<1>3. \A x \in D : /\ IsFiniteSet(below(x))
                   /\ Cardinality(below(x)) \in Nat
                   /\ Cardinality(below(x)) < Cardinality(D)
  <2> TAKE x \in D
  <2>1. below(x) \subseteq D /\ below(x) # D
    BY <1>1
  <2>2. /\ IsFiniteSet(below(x)) /\ Cardinality(below(x)) <= Cardinality(D)
        /\ Cardinality(below(x)) # Cardinality(D)
    BY <1>1, <2>1, FS_Subset
  <2>3. Cardinality(below(x)) \in Nat
    BY <2>2, FS_CardinalityType
  <2> HIDE DEF below
  <2> QED
    BY <1>1, <2>2, <2>3
<1>4. \A v, w \in D : v < w => Cardinality(below(v)) # Cardinality(below(w))
  <2> SUFFICES ASSUME NEW v \in D, NEW w \in D, v < w
               PROVE  Cardinality(below(v)) # Cardinality(below(w))
    OBVIOUS
  <2>1. v \in Int /\ w \in Int
    BY <1>1
  <2>2. v \in below(w) /\ v \notin below(v)
    BY <2>1
  <2>3. \A u \in below(v) : u \in below(w)
    BY <1>1, <2>1
  <2>4. IsFiniteSet(below(w))
    BY <1>3
  <2> HIDE DEF below
  <2>5. below(v) \subseteq below(w) /\ below(v) # below(w)
    BY <2>2, <2>3
  <2> QED
    BY <2>4, <2>5, FS_Subset
<1>5. y \in D /\ z \in D
  BY DEF D
<1> HIDE DEF below
<1>6. Place(Zones(c), z) \in 0 .. 2
  BY <1>1, <1>2, <1>3, <1>5
<1>7. ASSUME y # z PROVE Place(Zones(c), y) # Place(Zones(c), z)
  BY <1>1, <1>2, <1>4, <1>5, <1>7
<1> QED
  BY <1>6, <1>7

-----------------------------------------------------------------------------
(* What parsing and the removal of nested zones leave of a configuration.  *)

\* What the prover needs to know of rectangles.
LEMMA RectFields ==
    /\ \A r \in Rects : r.x \in Nat /\ r.y \in Nat /\ r.width \in Nat /\ r.height \in Nat
    /\ Zero \in Rects
    /\ Zero.x = 0 /\ Zero.y = 0 /\ Zero.width = 0 /\ Zero.height = 0
BY DEF Rects, Zero

\* A zone is taken over as it is as long as all up to it have a position;
\* behind that all rectangles are zero.
LEMMA ParamsOf ==
    ASSUME NEW c \in Configs, NEW i \in 1 .. Len(c)
    PROVE  LET p == Params(c) IN
           /\ p[i].id \in Int /\ p[i].pos \in Rects
           /\ (\A j \in 1 .. i : c[j].pos # NULL) => p[i] = c[i]
           /\ \A j \in 1 .. i : c[j].pos = NULL => p[i].pos = Zero
           /\ (\A j \in 1 .. i - 1 : c[j].pos # NULL) => p[i].id = c[i].id
<1>1. /\ Len(c) \in Nat /\ DOMAIN c = 1 .. Len(c)
      /\ c[i].id \in Int /\ c[i].pos \in Rects \cup {NULL}
  BY ConfigZones
<1>2. Params(c)[i] =
        IF \E j \in 1 .. i - 1 : c[j].pos = NULL THEN [id |-> 0, pos |-> Zero]
        ELSE IF c[i].pos = NULL THEN [id |-> c[i].id, pos |-> Zero]
        ELSE c[i]
  BY <1>1 DEF Params
<1>3. /\ 1 .. i = (1 .. i - 1) \cup {i}
  BY <1>1
<1>4. CASE \E j \in 1 .. i - 1 : c[j].pos = NULL
  BY <1>2, <1>3, <1>4, RectFields
<1>5. CASE ~(\E j \in 1 .. i - 1 : c[j].pos = NULL) /\ c[i].pos = NULL
  BY <1>1, <1>2, <1>3, <1>5, RectFields
<1>6. CASE ~(\E j \in 1 .. i - 1 : c[j].pos = NULL) /\ c[i].pos # NULL
  BY <1>1, <1>2, <1>3, <1>6
<1> QED
  BY <1>4, <1>5, <1>6

\* As many parameters as zones.
LEMMA ParamsLength ==
    ASSUME NEW c \in Configs
    PROVE  /\ Len(Params(c)) = Len(c) /\ DOMAIN Params(c) = 1 .. Len(c)
           /\ Len(c) \in Nat
<1>1. Len(c) \in Nat /\ DOMAIN c = 1 .. Len(c)
  BY ConfigZones
<1>2. DOMAIN Params(c) = 1 .. Len(c)
  BY <1>1 DEF Params
<1>3. Params(c) \in [1 .. Len(c) -> {Params(c)[i] : i \in 1 .. Len(c)}]
  BY <1>1 DEF Params
<1>4. Params(c) \in Seq({Params(c)[i] : i \in 1 .. Len(c)})
  BY <1>1, <1>3, SeqDef
<1> QED
  BY <1>1, <1>2, <1>4

\* The last of the zones with an id is its entry in the map.
LEMMA MapOf ==
    ASSUME NEW c \in Configs, NEW k \in 1 .. Len(c),
           \A j \in 1 .. Len(c) : Params(c)[j].id = Params(c)[k].id => j <= k
    PROVE  /\ Params(c)[k].id \in DOMAIN ZoneMap(Params(c))
           /\ ZoneMap(Params(c))[Params(c)[k].id] = Params(c)[k].pos
<1> DEFINE p == Params(c)
<1>1. DOMAIN p = 1 .. Len(c) /\ Len(c) \in Nat
  BY ParamsLength
<1> HIDE DEF p
<1>2. \A j \in DOMAIN p : p[j].id = p[k].id => j <= k
  BY <1>1 DEF p
<1> DEFINE last == CHOOSE i \in DOMAIN p :
                      p[i].id = p[k].id /\ \A j \in DOMAIN p : p[j].id = p[k].id => j <= i
<1>3. last = k
  BY <1>1, <1>2
<1> HIDE DEF last
<1>4. /\ p[k].id \in DOMAIN ZoneMap(p)
      /\ ZoneMap(p)[p[k].id] = p[last].pos
  BY <1>1 DEF ZoneMap, last
<1> QED
  BY <1>3, <1>4 DEF p

\* Every entry of the map is the rectangle of one of up to three zones.
LEMMA MapEntries ==
    ASSUME NEW c \in Configs, Parses(c), NEW z \in DOMAIN ZoneMap(Params(c))
    PROVE  \E k \in 1 .. Len(c) :
            /\ Params(c)[k].id = z
            /\ ZoneMap(Params(c))[z] = Params(c)[k].pos
<1> DEFINE p == Params(c)
           n == Len(c)
<1>1. DOMAIN p = 1 .. n /\ n \in Nat /\ n <= 3
  BY ParamsLength DEF Parses
<1>2. PICK i \in 1 .. n : p[i].id = z
  <2>1. DOMAIN ZoneMap(p) = {p[i].id : i \in DOMAIN p}
    BY DEF ZoneMap
  <2> QED
    BY <1>1, <2>1
<1> HIDE DEF p
<1>3. PICK k \in 1 .. n : p[k].id = z /\ \A j \in 1 .. n : p[j].id = z => j <= k
  <2> DEFINE Last(k) == k \in 1 .. n /\ p[k].id = z /\ \A j \in 1 .. n : p[j].id = z => j <= k
  <2>1. \A j \in 1 .. n : j \in {1, 2, 3}
    BY <1>1
  <2>2. CASE 3 \in 1 .. n /\ p[3].id = z
    <3>1. Last(3)
      BY <1>1, <2>2
    <3> QED
      BY <3>1
  <2>3. CASE ~(3 \in 1 .. n /\ p[3].id = z) /\ 2 \in 1 .. n /\ p[2].id = z
    <3>1. Last(2)
      BY <2>1, <2>3
    <3> QED
      BY <3>1
  <2>4. CASE ~(3 \in 1 .. n /\ p[3].id = z) /\ ~(2 \in 1 .. n /\ p[2].id = z)
    <3>1. Last(1)
      BY <1>2, <2>1, <2>4
    <3> QED
      BY <3>1
  <2> QED
    BY <2>2, <2>3, <2>4
<1>4. ZoneMap(p)[z] = p[k].pos
  BY <1>3, MapOf DEF p
<1> QED
  BY <1>3, <1>4 DEF p

\* The three zones come out in the order of their left edges.
LEMMA SortedByX ==
    ASSUME NEW p, NEW zones,
           \A i \in 1 .. 3 : zones[p[i].id].x \in Int
    PROVE  LET o == ByX(p, zones) IN
           /\ {o[1], o[2], o[3]} = {p[1].id, p[2].id, p[3].id}
           /\ zones[o[1]].x <= zones[o[2]].x /\ zones[o[2]].x <= zones[o[3]].x
<1> DEFINE x(i) == zones[p[i].id].x
           order == CASE x(1) <= x(2) /\ x(1) <= x(3) /\ x(2) <= x(3) -> <<1, 2, 3>>
                      [] x(1) <= x(2) /\ x(1) <= x(3) /\ x(2) > x(3) -> <<1, 3, 2>>
                      [] x(1) <= x(2) /\ x(1) > x(3) -> <<3, 1, 2>>
                      [] x(1) > x(2) /\ x(2) <= x(3) /\ x(1) <= x(3) -> <<2, 1, 3>>
                      [] x(1) > x(2) /\ x(2) <= x(3) /\ x(1) > x(3) -> <<2, 3, 1>>
                      [] x(1) > x(2) /\ x(2) > x(3) -> <<3, 2, 1>>
<1>1. x(1) \in Int /\ x(2) \in Int /\ x(3) \in Int
  OBVIOUS
<1>2. ByX(p, zones) = [k \in 1 .. 3 |-> p[order[k]].id]
  BY DEF ByX
<1> HIDE DEF x
<1>3. \/ order = <<1, 2, 3>> /\ x(1) <= x(2) /\ x(2) <= x(3)
      \/ order = <<1, 3, 2>> /\ x(1) <= x(3) /\ x(3) <= x(2)
      \/ order = <<3, 1, 2>> /\ x(3) <= x(1) /\ x(1) <= x(2)
      \/ order = <<2, 1, 3>> /\ x(2) <= x(1) /\ x(1) <= x(3)
      \/ order = <<2, 3, 1>> /\ x(2) <= x(3) /\ x(3) <= x(1)
      \/ order = <<3, 2, 1>> /\ x(3) <= x(2) /\ x(2) <= x(1)
  BY <1>1
<1> HIDE DEF order
<1> DEFINE o == ByX(p, zones)
<1>4. o[1] = p[order[1]].id /\ o[2] = p[order[2]].id /\ o[3] = p[order[3]].id
  BY <1>2
<1> HIDE DEF o
<1>5. /\ {o[1], o[2], o[3]} = {p[1].id, p[2].id, p[3].id}
      /\ zones[o[1]].x <= zones[o[2]].x /\ zones[o[2]].x <= zones[o[3]].x
  BY <1>3, <1>4 DEF x
<1> QED
  BY <1>5 DEF o

\* No rectangle lies inside itself or inside the zero rectangle, and none
\* around it is the zero rectangle.
LEMMA InsideIsStrict ==
    /\ \A r \in Rects : ~InsideFrom(r, r)
    /\ \A r \in Rects : ~InsideFrom(r, Zero) /\ ~InsideFrom(Zero, r)
BY RectFields DEF InsideFrom

\* What the switch over the number of zones does.
LEMMA UnnestedCases ==
    ASSUME NEW c \in Configs
    PROVE  LET p == Params(c) IN
           /\ Len(c) = 2 => Zones(c) = Unnest2(p, ZoneMap(p))
           /\ Len(c) = 3 => Zones(c) = Unnest3(p, ZoneMap(p))
           /\ Len(c) \notin {2, 3} => Zones(c) = ZoneMap(p)
<1> DEFINE p == Params(c)
<1>1. Len(p) = Len(c) /\ Len(c) \in Nat
  BY ParamsLength
<1>2. Zones(c) = Unnested(p)
  BY DEF Zones
<1> HIDE DEF p
<1>3. Unnested(p) = CASE Len(p) = 2 -> Unnest2(p, ZoneMap(p))
                      [] Len(p) = 3 -> Unnest3(p, ZoneMap(p))
                      [] OTHER -> ZoneMap(p)
  BY DEF Unnested
<1>4. ASSUME Len(c) = 2 PROVE Unnested(p) = Unnest2(p, ZoneMap(p))
  BY <1>1, <1>3, <1>4
<1>5. ASSUME Len(c) = 3 PROVE Unnested(p) = Unnest3(p, ZoneMap(p))
  BY <1>1, <1>3, <1>5
<1>6. ASSUME Len(c) \notin {2, 3} PROVE Unnested(p) = ZoneMap(p)
  BY <1>1, <1>3, <1>6
<1> QED
  BY <1>2, <1>4, <1>5, <1>6 DEF p

\* The zones before nested ones are removed, and three of them in their order.
Listed(c) == ZoneMap(Params(c))
Ordered(c) == ByX(Params(c), Listed(c))
InFirst(c, k) == InsideFrom(Listed(c)[Ordered(c)[1]], Listed(c)[Ordered(c)[k]])
LastInSecond(c) == InsideFrom(Listed(c)[Ordered(c)[2]], Listed(c)[Ordered(c)[3]])

\* What becomes of three zones.
LEMMA ThreeZones ==
    ASSUME NEW c \in Configs, Len(c) = 3
    PROVE  \/ /\ Ordered(c)[2] = Ordered(c)[3] /\ InFirst(c, 2)
              /\ Zones(c) = [Listed(c) EXCEPT ![Ordered(c)[2]] = Zero]
           \/ /\ Ordered(c)[2] # Ordered(c)[3] /\ (InFirst(c, 2) \/ InFirst(c, 3))
              /\ Zones(c) = Without(Listed(c), {Ordered(c)[k] : k \in {m \in 2 .. 3 : InFirst(c, m)}})
           \/ /\ ~InFirst(c, 2) /\ ~InFirst(c, 3) /\ LastInSecond(c)
              /\ Zones(c) = Without(Listed(c), {Ordered(c)[3]})
           \/ /\ ~InFirst(c, 2) /\ ~InFirst(c, 3) /\ ~LastInSecond(c)
              /\ Zones(c) = Listed(c)
<1> DEFINE o == Ordered(c)
           zones == Listed(c)
           inside(m) == InsideFrom(zones[o[1]], zones[o[m]])
           inFirst == {o[k] : k \in {m \in 2 .. 3 : inside(m)}}
<1>1. Zones(c) =
        CASE inFirst # {} /\ o[2] = o[3] -> [zones EXCEPT ![o[2]] = Zero]
          [] inFirst # {} /\ o[2] # o[3] -> Without(zones, inFirst)
          [] inFirst = {} /\ InsideFrom(zones[o[2]], zones[o[3]]) -> Without(zones, {o[3]})
          [] OTHER -> zones
  <2>1. Zones(c) = Unnest3(Params(c), ZoneMap(Params(c)))
    BY UnnestedCases
  <2> QED
    BY <2>1 DEF Unnest3, Ordered, Listed
<1>2. /\ \A m : InFirst(c, m) <=> inside(m)
      /\ LastInSecond(c) <=> InsideFrom(zones[o[2]], zones[o[3]])
      /\ inFirst = {Ordered(c)[k] : k \in {m \in 2 .. 3 : InFirst(c, m)}}
  BY DEF InFirst, LastInSecond
<1> HIDE DEF o, zones, inside
<1>3. inFirst = {} <=> ~inside(2) /\ ~inside(3)
  OBVIOUS
<1> HIDE DEF inFirst
<1>4. CASE inFirst # {} /\ o[2] = o[3]
  <2>1. Zones(c) = [zones EXCEPT ![o[2]] = Zero]
    BY <1>1, <1>4
  <2>2. inside(2) \/ inside(3)
    BY <1>3, <1>4
  <2>3. inside(2)
    BY <1>4, <2>2 DEF inside
  <2> QED
    BY <1>2, <1>4, <2>1, <2>3 DEF o, zones
<1>5. CASE inFirst # {} /\ o[2] # o[3]
  <2>1. Zones(c) = Without(zones, inFirst)
    BY <1>1, <1>5
  <2> QED
    BY <1>2, <1>3, <1>5, <2>1 DEF o, zones
<1>6. CASE inFirst = {} /\ InsideFrom(zones[o[2]], zones[o[3]])
  <2>1. Zones(c) = Without(zones, {o[3]})
    BY <1>1, <1>6
  <2> QED
    BY <1>2, <1>3, <1>6, <2>1 DEF o, zones
<1>7. CASE inFirst = {} /\ ~InsideFrom(zones[o[2]], zones[o[3]])
  <2>1. Zones(c) = zones
    BY <1>1, <1>7
  <2> QED
    BY <1>2, <1>3, <1>7, <2>1 DEF o, zones
<1> QED
  BY <1>4, <1>5, <1>6, <1>7

\* The zones of the map, and how the order of three zones stands to them.
LEMMA ListedZones ==
    ASSUME NEW c \in Configs, Parses(c)
    PROVE  /\ \A z \in DOMAIN Listed(c) : Listed(c)[z] \in Rects
           /\ DOMAIN Listed(c) = {Params(c)[i].id : i \in 1 .. Len(c)}
           /\ Len(c) = 3 =>
                /\ DOMAIN Listed(c) = {Ordered(c)[1], Ordered(c)[2], Ordered(c)[3]}
                /\ Listed(c)[Ordered(c)[1]].x <= Listed(c)[Ordered(c)[2]].x
                /\ Listed(c)[Ordered(c)[2]].x <= Listed(c)[Ordered(c)[3]].x
<1> DEFINE p == Params(c)
           zones == Listed(c)
<1>1. DOMAIN p = 1 .. Len(c) /\ Len(c) \in Nat
  BY ParamsLength
<1>2. DOMAIN zones = {p[i].id : i \in 1 .. Len(c)}
  BY <1>1 DEF Listed, ZoneMap
<1>3. \A z \in DOMAIN zones : zones[z] \in Rects
  BY MapEntries, ParamsOf DEF Listed
<1>4. ASSUME Len(c) = 3
      PROVE  LET o == Ordered(c) IN
             /\ DOMAIN zones = {o[1], o[2], o[3]}
             /\ zones[o[1]].x <= zones[o[2]].x /\ zones[o[2]].x <= zones[o[3]].x
  <2>0. Ordered(c) = ByX(p, zones)
    BY DEF Ordered
  <2> HIDE DEF p, zones
  <2>1. \A i \in 1 .. 3 : zones[p[i].id].x \in Int
    BY <1>2, <1>3, <1>4, RectFields
  <2>2. DOMAIN zones = {p[1].id, p[2].id, p[3].id}
    <3>1. \A i : i \in 1 .. 3 <=> i \in {1, 2, 3}
      OBVIOUS
    <3> QED
      BY <1>2, <1>4, <3>1
  <2> QED
    BY <2>0, <2>1, <2>2, SortedByX
<1> QED
  BY <1>2, <1>3, <1>4

\* What removing zones does to the others.
LEMMA WithoutOthers ==
    ASSUME NEW zones, NEW ids
    PROVE  \A z : /\ z \in DOMAIN Without(zones, ids) <=> z \in DOMAIN zones /\ z \notin ids
                  /\ z \in DOMAIN zones /\ z \notin ids => Without(zones, ids)[z] = zones[z]
BY DEF Without

\* A zone of the map is kept as it is, unless it lies around the only other one
\* or inside one of two others.
LEMMA KeptUnlessNested ==
    ASSUME NEW c \in Configs, Parses(c), NEW z \in DOMAIN Listed(c)
    PROVE  \/ z \in DOMAIN Zones(c) /\ Zones(c)[z] = Listed(c)[z]
           \/ Len(c) = 2 /\ \E w \in DOMAIN Listed(c) : Inside(Listed(c)[z], Listed(c)[w])
           \/ Len(c) = 3 /\ \E w \in DOMAIN Listed(c) : InsideFrom(Listed(c)[w], Listed(c)[z])
<1>1. CASE Len(c) = 2
  <2> DEFINE p == Params(c)
             zones == Listed(c)
             outer == {j \in 1 .. 2 : Inside(zones[p[j].id], zones[p[3 - j].id])}
             ids == {p[i].id : i \in outer}
  <2>1. DOMAIN zones = {p[i].id : i \in 1 .. 2}
    BY <1>1, ListedZones
  <2>2. Zones(c) = Without(zones, ids)
    BY <1>1, UnnestedCases DEF Unnest2, Listed
  <2>3. CASE z \in ids
    <3>1. PICK j \in 1 .. 2 : z = p[j].id /\ Inside(zones[p[j].id], zones[p[3 - j].id])
      BY <2>3
    <3>2. 3 - j \in 1 .. 2
      OBVIOUS
    <3> QED
      BY <1>1, <2>1, <3>1, <3>2
  <2>4. CASE z \notin ids
    <3> HIDE DEF ids
    <3> QED
      BY <2>2, <2>4, WithoutOthers
  <2> QED
    BY <2>3, <2>4
<1>2. CASE Len(c) = 3
  <2>1. DOMAIN Listed(c) = {Ordered(c)[1], Ordered(c)[2], Ordered(c)[3]}
    BY <1>2, ListedZones
  <2>2. \/ z \in DOMAIN Zones(c) /\ Zones(c)[z] = Listed(c)[z]
        \/ \E w \in DOMAIN Listed(c) : InsideFrom(Listed(c)[w], Listed(c)[z])
    <3> DEFINE o == Ordered(c)
               inFirst == {o[k] : k \in {m \in 2 .. 3 : InFirst(c, m)}}
    <3>1. o[1] \in DOMAIN Listed(c) /\ o[2] \in DOMAIN Listed(c) /\ o[3] \in DOMAIN Listed(c)
      BY <2>1
    <3>2. \A y \in inFirst : InsideFrom(Listed(c)[o[1]], Listed(c)[y])
      BY DEF InFirst
    <3>3. CASE Zones(c) = [Listed(c) EXCEPT ![o[2]] = Zero] /\ InFirst(c, 2)
      <4>1. CASE z = o[2]
        BY <3>1, <3>3, <4>1 DEF InFirst
      <4>2. CASE z # o[2]
        BY <3>3, <4>2
      <4> QED
        BY <4>1, <4>2
    <3>4. CASE Zones(c) = Without(Listed(c), inFirst)
      <4> HIDE DEF inFirst
      <4>1. CASE z \in inFirst
        BY <3>1, <3>2, <4>1
      <4>2. CASE z \notin inFirst
        BY <3>4, <4>2, WithoutOthers
      <4> QED
        BY <4>1, <4>2
    <3>5. CASE Zones(c) = Without(Listed(c), {o[3]}) /\ LastInSecond(c)
      <4>1. CASE z = o[3]
        BY <3>1, <3>5, <4>1 DEF LastInSecond
      <4>2. CASE z # o[3]
        BY <3>5, <4>2, WithoutOthers
      <4> QED
        BY <4>1, <4>2
    <3>6. CASE Zones(c) = Listed(c)
      BY <3>6
    <3> QED
      BY <1>2, <3>3, <3>4, <3>5, <3>6, ThreeZones
  <2> QED
    BY <1>2, <2>2
<1>3. CASE Len(c) \notin {2, 3}
  BY <1>3, UnnestedCases DEF Listed
<1> QED
  BY <1>1, <1>2, <1>3

\* What is left of the map has its rectangles from there, or none.
LEMMA LeftAsItWas ==
    ASSUME NEW c \in Configs, Parses(c), NEW z \in DOMAIN Zones(c)
    PROVE  z \in DOMAIN Listed(c) /\ Zones(c)[z] \in {Listed(c)[z], Zero}
<1>1. z \in DOMAIN Listed(c)
  BY UnnestedIsSmaller DEF Zones, Listed
<1>2. CASE Len(c) = 2
  <2>1. \E ids : Zones(c) = Without(Listed(c), ids)
    BY <1>2, UnnestedCases DEF Unnest2, Listed
  <2> QED
    BY <1>1, <2>1, WithoutOthers
<1>3. CASE Len(c) = 3
  <2>1. \/ Zones(c) = [Listed(c) EXCEPT ![Ordered(c)[2]] = Zero]
        \/ \E ids : Zones(c) = Without(Listed(c), ids)
        \/ Zones(c) = Listed(c)
    BY <1>3, ThreeZones, Zenon
  <2>2. CASE Zones(c) = [Listed(c) EXCEPT ![Ordered(c)[2]] = Zero]
    BY <1>1, <2>2
  <2>3. CASE \E ids : Zones(c) = Without(Listed(c), ids)
    BY <1>1, <2>3, WithoutOthers
  <2> QED
    BY <1>1, <2>1, <2>2, <2>3
<1>4. CASE Len(c) \notin {2, 3}
  BY <1>1, <1>4, UnnestedCases DEF Listed
<1> QED
  BY <1>2, <1>3, <1>4

\* A zone with an area that does not begin at the far edges can be watched.
LEMMA WatchableRects ==
    /\ ~IsWatchable(Zero)
    /\ \A r \in Rects :
        r.width # 0 /\ r.height # 0 /\ r.x # 100 /\ r.y # 100 => IsWatchable(r)
<1>1. ~IsWatchable(Zero)
  BY RectFields DEF IsWatchable
<1>2. ASSUME NEW r \in Rects, r.width # 0, r.height # 0, r.x # 100, r.y # 100
      PROVE  IsWatchable(r)
  <2> DEFINE w == IF r.x + r.width > 100 THEN 100 - r.x ELSE r.width
             h == IF r.y + r.height > 100 THEN 100 - r.y ELSE r.height
  <2>1. r.x \in Nat /\ r.y \in Nat /\ r.width \in Nat /\ r.height \in Nat
    BY RectFields
  <2>2. w \in Int /\ h \in Int /\ w # 0 /\ h # 0
    BY <1>2, <2>1
  <2>3. Clipped(r).width = w /\ Clipped(r).height = h
    BY DEF Clipped, Rects
  <2> HIDE DEF w, h
  <2>4. Roi(r).width > 0 /\ Roi(r).height > 0
    BY <2>2, <2>3 DEF Roi, Whole
  <2> QED
    BY <1>2, <2>1, <2>4 DEF IsWatchable
<1> QED
  BY <1>1, <1>2

\* Of two zones that are watched none lies inside the other.
LEMMA NoneNested ==
    ASSUME NEW c \in Configs, Parses(c), NEW y \in Watched(c), NEW z \in Watched(c)
    PROVE  ~Inside(Zones(c)[y], Zones(c)[z])
<1> SUFFICES ASSUME Inside(Zones(c)[y], Zones(c)[z]) PROVE FALSE
  OBVIOUS
<1>1. /\ y \in DOMAIN Zones(c) /\ z \in DOMAIN Zones(c)
      /\ y \in DOMAIN Listed(c) /\ z \in DOMAIN Listed(c)
      /\ Zones(c)[y] = Listed(c)[y] /\ Zones(c)[z] = Listed(c)[z]
      /\ Zones(c)[z] # Zero
      /\ Listed(c)[y] \in Rects /\ Listed(c)[z] \in Rects
  BY LeftAsItWas, WatchableRects, ListedZones DEF Watched
<1>2. /\ InsideFrom(Listed(c)[y], Listed(c)[z])
      /\ Listed(c)[y].x < Listed(c)[z].x
      /\ y # z
  BY <1>1, InsideIsStrict DEF Inside
<1>3. /\ DOMAIN Listed(c) = {Params(c)[i].id : i \in 1 .. Len(c)}
      /\ Len(c) \in Nat /\ Len(c) <= 3
  BY ListedZones, ParamsLength DEF Parses
<1>4. CASE Len(c) < 2
  <2>1. \A i, j \in 1 .. Len(c) : i = j
    BY <1>3, <1>4
  <2> QED
    BY <1>1, <1>2, <1>3, <2>1
<1>5. CASE Len(c) = 2
  <2> DEFINE p == Params(c)
             outer == {j \in 1 .. 2 : Inside(Listed(c)[p[j].id], Listed(c)[p[3 - j].id])}
             ids == {p[i].id : i \in outer}
  <2>1. Zones(c) = Without(Listed(c), ids)
    BY <1>5, UnnestedCases DEF Unnest2, Listed
  <2>2. PICK j \in 1 .. 2 : y = p[j].id /\ z = p[3 - j].id
    <3>1. \A i, j \in 1 .. 2 : i = j \/ i = 3 - j
      OBVIOUS
    <3> QED
      BY <1>1, <1>2, <1>3, <1>5, <3>1
  <2>3. y \in ids
    BY <1>1, <2>2
  <2> HIDE DEF ids
  <2> QED
    BY <1>1, <2>1, <2>3, WithoutOthers
<1>6. CASE Len(c) = 3
  <2> DEFINE o == Ordered(c)
             inFirst == {o[k] : k \in {m \in 2 .. 3 : InFirst(c, m)}}
  <2>1. /\ DOMAIN Listed(c) = {o[1], o[2], o[3]}
        /\ Listed(c)[o[1]].x <= Listed(c)[o[2]].x /\ Listed(c)[o[2]].x <= Listed(c)[o[3]].x
    BY <1>6, ListedZones
  <2>2. /\ Listed(c)[o[1]].x \in Nat /\ Listed(c)[o[2]].x \in Nat /\ Listed(c)[o[3]].x \in Nat
    BY <2>1, ListedZones, RectFields
  <2>3. \/ y = o[1] /\ z \in {o[2], o[3]}
        \/ y = o[2] /\ z = o[3]
    BY <1>1, <1>2, <2>1, <2>2
  <2>4. /\ o[2] \in inFirst <=> InFirst(c, 2) \/ (o[2] = o[3] /\ InFirst(c, 3))
        /\ o[3] \in inFirst <=> InFirst(c, 3) \/ (o[2] = o[3] /\ InFirst(c, 2))
    <3>1. \A k : k \in 2 .. 3 <=> k \in {2, 3}
      OBVIOUS
    <3> QED
      BY <3>1
  <2>5. CASE o[2] = o[3] /\ InFirst(c, 2) /\ Zones(c) = [Listed(c) EXCEPT ![o[2]] = Zero]
    BY <1>1, <1>2, <2>3, <2>5
  <2>6. CASE /\ o[2] # o[3] /\ (InFirst(c, 2) \/ InFirst(c, 3))
             /\ Zones(c) = Without(Listed(c), inFirst)
    <3> HIDE DEF inFirst
    <3>1. y \notin inFirst /\ z \notin inFirst
      BY <1>1, <2>6, WithoutOthers
    <3>2. CASE y = o[1]
      <4>1. z = o[2] => InFirst(c, 2)
        BY <1>2, <3>2 DEF InFirst
      <4>2. z = o[3] => InFirst(c, 3)
        BY <1>2, <3>2 DEF InFirst
      <4> QED
        BY <1>2, <2>3, <2>4, <3>1, <3>2, <4>1, <4>2
    <3>3. CASE y = o[2] /\ z = o[3]
      BY <2>4, <2>6, <3>1, <3>3
    <3> QED
      BY <2>3, <3>2, <3>3
  <2>7. CASE ~InFirst(c, 2) /\ ~InFirst(c, 3)
    <3>1. y = o[2] /\ z = o[3]
      BY <1>2, <2>3, <2>7 DEF InFirst
    <3>2. LastInSecond(c)
      BY <1>2, <3>1 DEF LastInSecond
    <3>3. Zones(c) = Without(Listed(c), {o[3]})
      BY <1>6, <2>7, <3>2, ThreeZones
    <3> QED
      BY <1>1, <3>1, <3>3, WithoutOthers
  <2> QED
    BY <1>6, <2>5, <2>6, <2>7, ThreeZones
<1>7. Len(c) < 2 \/ Len(c) = 2 \/ Len(c) = 3
  <2> DEFINE n == Len(c)
  <2>1. n \in Nat /\ n <= 3
    BY <1>3
  <2> HIDE DEF n
  <2>2. n < 2 \/ n = 2 \/ n = 3
    BY <2>1
  <2> QED
    BY <2>2 DEF n
<1> QED
  BY <1>4, <1>5, <1>6, <1>7

\* A zone without any of the named reasons is in the map with its rectangle,
\* unless nothing is watched at all.
LEMMA ListedUnless ==
    ASSUME NEW c \in Configs, Parses(c), NEW i \in 1 .. Len(c), Watched(c) # {},
           \A j \in i + 1 .. Len(c) : c[j].id # c[i].id,
           \A j \in 1 .. i : c[j].pos # NULL
    PROVE  c[i].id \in DOMAIN Listed(c) /\ Listed(c)[c[i].id] = c[i].pos
<1> DEFINE p == Params(c)
           n == Len(c)
<1>1. n \in Nat /\ n <= 3 /\ i \in 1 .. n
  BY ParamsLength DEF Parses
<1>2. p[i] = c[i]
  BY ParamsOf
<1>3. ASSUME NEW j \in 1 .. n, i < j, p[j].id = p[i].id PROVE FALSE
  <2>1. \E k \in 1 .. j - 1 : c[k].pos = NULL
    <3>1. c[j].id # c[i].id
      BY <1>1, <1>3
    <3> QED
      BY <1>2, <1>3, <3>1, ParamsOf
  <2>2. PICK k \in 1 .. j - 1 : c[k].pos = NULL
    BY <2>1
  <2>3. i < k
    BY <1>1, <2>2
  <2>4. i = 1 /\ k = 2 /\ j = 3 /\ n = 3
    <3>1. i \in Nat /\ j \in Nat /\ k \in Nat /\ 1 <= i /\ i < k /\ k < j /\ j <= n
      BY <1>1, <1>3, <2>2, <2>3
    <3> HIDE DEF n
    <3> QED
      BY <1>1, <3>1
  <2>5. p[2].pos = Zero /\ p[3].pos = Zero
    BY <2>2, <2>4, ParamsOf
  <2>6. ASSUME NEW w \in DOMAIN Listed(c) PROVE Listed(c)[w] = Zero
    <3>1. CASE w = p[3].id
      <4>1. Listed(c)[p[3].id] = p[3].pos
        <5>1. Params(c)[3].id \in DOMAIN ZoneMap(Params(c))
              /\ ZoneMap(Params(c))[Params(c)[3].id] = Params(c)[3].pos
          <6>1. 3 \in 1 .. Len(c) /\ \A l \in 1 .. Len(c) : l <= 3
            BY <2>4
          <6> QED
            BY <6>1, MapOf
        <5> QED
          BY <5>1 DEF Listed
      <4> QED
        BY <2>5, <3>1, <4>1
    <3>2. CASE w # p[3].id
      <4>1. PICK l \in 1 .. 3 : p[l].id = w /\ Listed(c)[w] = p[l].pos
        <5>1. w \in DOMAIN ZoneMap(Params(c))
          BY DEF Listed
        <5>2. \E l \in 1 .. Len(c) :
                /\ Params(c)[l].id = w
                /\ ZoneMap(Params(c))[w] = Params(c)[l].pos
          BY <5>1, MapEntries
        <5> QED
          BY <2>4, <5>2 DEF Listed
      <4>2. l = 2
        BY <1>3, <2>4, <3>2, <4>1
      <4> QED
        BY <2>5, <4>1, <4>2
    <3> QED
      BY <3>1, <3>2
  <2> QED
    BY <2>6, LeftAsItWas, WatchableRects DEF Watched
<1>4. \A j \in 1 .. n : p[j].id = p[i].id => j <= i
  BY <1>1, <1>3
<1> QED
  BY <1>2, <1>4, MapOf DEF Listed

\* Such a zone is watched, unless it is nested.
LEMMA WatchedUnless ==
    ASSUME NEW c \in Configs, Parses(c), NEW i \in 1 .. Len(c), Watched(c) # {},
           \A j \in i + 1 .. Len(c) : c[j].id # c[i].id,
           \A j \in 1 .. i : c[j].pos # NULL,
           c[i].pos.width # 0, c[i].pos.height # 0, c[i].pos.x # 100, c[i].pos.y # 100
    PROVE  LET others == {j \in (1 .. Len(c)) \ {i} : c[j].pos # NULL} IN
           \/ c[i].id \in Watched(c) /\ Zones(c)[c[i].id] = c[i].pos
           \/ Len(c) = 2 /\ \E j \in others : Inside(c[i].pos, c[j].pos)
           \/ Len(c) = 3 /\ \E j \in others : InsideFrom(c[j].pos, c[i].pos)
<1> DEFINE others == {j \in (1 .. Len(c)) \ {i} : c[j].pos # NULL}
<1>1. c[i].id \in DOMAIN Listed(c) /\ Listed(c)[c[i].id] = c[i].pos
  BY ListedUnless
<1>2. c[i].pos \in Rects /\ IsWatchable(c[i].pos)
  <2>1. Len(c) \in Nat /\ i \in DOMAIN c /\ i \in 1 .. i
    BY ConfigZones
  <2>2. c[i].pos \in Rects
    BY <2>1, ConfigZones
  <2> QED
    BY <2>2, WatchableRects
<1>3. ASSUME NEW w \in DOMAIN Listed(c),
             \/ InsideFrom(Listed(c)[w], c[i].pos)
             \/ InsideFrom(c[i].pos, Listed(c)[w])
      PROVE  \E j \in others : c[j].pos = Listed(c)[w]
  <2>1. PICK j \in 1 .. Len(c) : Listed(c)[w] = Params(c)[j].pos
    BY MapEntries DEF Listed
  <2>2. Listed(c)[w] # Zero /\ Listed(c)[w] # c[i].pos
    BY <1>2, <1>3, InsideIsStrict
  <2>3. \A k \in 1 .. j : c[k].pos # NULL
    BY <2>1, <2>2, ParamsOf
  <2>4. Params(c)[j] = c[j]
    BY <2>3, ParamsOf
  <2>5. j # i /\ j \in 1 .. j
    BY <2>1, <2>2, <2>4
  <2> QED
    BY <2>1, <2>3, <2>4, <2>5
<1> HIDE DEF others
<1>4. CASE c[i].id \in DOMAIN Zones(c) /\ Zones(c)[c[i].id] = Listed(c)[c[i].id]
  BY <1>1, <1>2, <1>4 DEF Watched
<1>5. CASE Len(c) = 2 /\ \E w \in DOMAIN Listed(c) : Inside(c[i].pos, Listed(c)[w])
  BY <1>3, <1>5 DEF Inside, others
<1>6. CASE Len(c) = 3 /\ \E w \in DOMAIN Listed(c) : InsideFrom(Listed(c)[w], c[i].pos)
  BY <1>3, <1>6 DEF others
<1> QED
  BY <1>1, <1>4, <1>5, <1>6, KeptUnlessNested

-----------------------------------------------------------------------------
\* No zone is left to build a model for without zones, or with too many.
LEMMA NothingWatched == Watched(<<>>) = {}
<1> DEFINE p == Params(<<>>)
<1>1. DOMAIN p = {}
  BY DEF Params
<1> HIDE DEF p
<1>2. DOMAIN ZoneMap(p) = {}
  BY <1>1 DEF ZoneMap
<1>3. DOMAIN Unnested(p) = {}
  BY <1>2, UnnestedIsSmaller
<1> QED
  BY <1>3 DEF Watched, Zones, p

LEMMA InitMotion == Init => MotionInv
<1> SUFFICES ASSUME Init PROVE MotionInv
  OBVIOUS
<1>1. TypeOK
  BY DEF Init, TypeOK
<1>2. FrameInPlace /\ BuildsAreFlagged /\ FlagsNeedModels
  BY DEF Init, FrameInPlace, BuildsAreFlagged, FlagsNeedModels
<1>3. ModelsInPlace
  <2> SUFFICES ASSUME Parses(config), NEW z \in Watched(config)
               PROVE  LET k == Place(Zones(config), z) IN model[k] = NULL /\ bg_frame[k] = NULL
    BY DEF Init, ModelsInPlace, IsBuilt
  <2>1. Place(Zones(config), z) \in 0 .. 2
    BY PlacesDiffer DEF Watched, Init
  <2> QED
    BY <2>1 DEF Init
<1> QED
  BY <1>1, <1>2, <1>3 DEF MotionInv

LEMMA ReopenKeeps ==
    ASSUME NEW c \in Configs, Reopen(c)
    PROVE  MotionInv'
<1>1. TypeOK'
  BY DEF Reopen, NewInstance, TypeOK
<1>2. FrameInPlace' /\ BuildsAreFlagged' /\ FlagsNeedModels'
  BY DEF Reopen, NewInstance, FrameInPlace, BuildsAreFlagged, FlagsNeedModels
<1>3. ModelsInPlace'
  <2> SUFFICES ASSUME Parses(c), NEW z \in Watched(c)
               PROVE  LET k == Place(Zones(c), z) IN model'[k] = NULL /\ bg_frame'[k] = NULL
    BY DEF Reopen, NewInstance, ModelsInPlace, IsBuilt
  <2>1. Place(Zones(c), z) \in 0 .. 2
    BY PlacesDiffer DEF Watched
  <2> QED
    BY <2>1 DEF Reopen, NewInstance
<1> QED
  BY <1>1, <1>2, <1>3 DEF MotionInv

LEMMA FeedBeginsKeeps == MotionInv /\ FeedBegins => MotionInv'
<1> SUFFICES ASSUME MotionInv, FeedBegins PROVE MotionInv'
  OBVIOUS
<1> USE DEF MotionInv, FeedBegins, modelVars
<1>1. TypeOK'
  <2>1. \A z \in DOMAIN detect_results' : detect_results'[z] \in Nat
    OBVIOUS
  <2>2. /\ bg_update' \in BOOLEAN /\ todo' \subseteq DOMAIN motion_zones'
        /\ UNCHANGED <<config, isModelUpdate, model, bg_frame>>
    OBVIOUS
  <2> QED
    BY <2>1, <2>2 DEF TypeOK
<1>2. FrameInPlace'
  BY DEF FrameInPlace
<1>3. Watched(config) \subseteq todo'
  BY DEF Watched
<1>4. ModelsInPlace'
  BY <1>3 DEF ModelsInPlace, IsBuilt
<1>5. BuildsAreFlagged'
  BY <1>3 DEF BuildsAreFlagged
<1>6. FlagsNeedModels'
  BY DEF FlagsNeedModels
<1> QED
  BY <1>1, <1>2, <1>4, <1>5, <1>6

\* The zones left are no marker of an idle instance.
LEMMA WorkGoesOn ==
    ASSUME TypeOK, FrameInPlace, NEW z, IsNext(z), todo' = todo \ {z}
    PROVE  /\ todo' # NULL
           /\ z \in todo /\ z \in DOMAIN Zones(config)
           /\ motion_zones = Zones(config) /\ Parses(config)
BY NullIsNoWork DEF TypeOK, FrameInPlace, IsNext

LEMMA SkipZoneKeeps ==
    ASSUME MotionInv, NEW z, SkipZone(z)
    PROVE  MotionInv'
<1> USE DEF MotionInv, SkipZone, modelVars
<1>1. /\ todo' # NULL /\ z \in todo
      /\ motion_zones = Zones(config) /\ Parses(config)
  BY WorkGoesOn
<1>2. z \notin Watched(config)
  BY <1>1 DEF Watched
<1>3. TypeOK' /\ FrameInPlace'
  <2>1. /\ UNCHANGED <<config, isModelUpdate, model, bg_frame, motion_zones, bg_update>>
        /\ UNCHANGED detect_results
        /\ todo # NULL /\ todo' = todo \ {z}
    BY DEF IsNext
  <2>2. TypeOK'
    BY <1>1, <2>1 DEF TypeOK
  <2> QED
    BY <1>1, <2>1, <2>2 DEF FrameInPlace
<1>4. \A y \in Watched(config) : IsBuilt(y)' <=> IsBuilt(y)
  BY <1>1, <1>2 DEF IsBuilt, IsNext
<1>5. ModelsInPlace'
  BY <1>4 DEF ModelsInPlace
<1>6. BuildsAreFlagged' /\ FlagsNeedModels'
  BY <1>1, <1>2 DEF BuildsAreFlagged, FlagsNeedModels, IsNext
<1> QED
  BY <1>3, <1>5, <1>6

LEMMA BuildModelKeeps ==
    ASSUME MotionInv, NEW z, BuildModel(z)
    PROVE  MotionInv'
<1> DEFINE place(y) == Place(Zones(config), y)
           roi == Roi(Zones(config)[z])
<1>1. /\ todo' # NULL /\ z \in todo /\ z \in DOMAIN Zones(config)
      /\ motion_zones = Zones(config) /\ Parses(config)
  BY WorkGoesOn DEF BuildModel, MotionInv
<1>2. /\ config \in Configs
      /\ DOMAIN model = 0 .. 2 /\ DOMAIN bg_frame = 0 .. 2
      /\ todo # NULL /\ todo' = todo \ {z}
      /\ UNCHANGED <<config, isModelUpdate, motion_zones, detect_results>>
      /\ isModelUpdate /\ bg_update'
      /\ model' = [model EXCEPT ![place(z)] = roi]
      /\ bg_frame' = [bg_frame EXCEPT ![place(z)] = roi]
  BY <1>1 DEF BuildModel, IsNext, MotionInv, TypeOK
<1>3. TypeOK'
  BY <1>2 DEF MotionInv, TypeOK
<1>4. FrameInPlace'
  BY <1>1, <1>2 DEF MotionInv, FrameInPlace
<1>5. BuildsAreFlagged' /\ FlagsNeedModels'
  <2>1. z \in Watched(config)
    BY <1>1 DEF BuildModel, Watched
  <2> QED
    BY <1>2, <2>1 DEF BuildsAreFlagged, FlagsNeedModels
<1>6. ASSUME NEW y \in Watched(config)
      PROVE  /\ model'[place(y)] = IF IsBuilt(y)' THEN Roi(Zones(config)[y]) ELSE NULL
             /\ bg_frame'[place(y)] = model'[place(y)]
  <2>1. y \in DOMAIN Zones(config)
    BY <1>6 DEF Watched
  <2>2. place(y) \in 0 .. 2 /\ place(z) \in 0 .. 2 /\ (y # z => place(y) # place(z))
    BY <1>1, <1>2, <2>1, PlacesDiffer
  <2>3. /\ model[place(y)] = IF IsBuilt(y) THEN Roi(Zones(config)[y]) ELSE NULL
        /\ bg_frame[place(y)] = model[place(y)]
    BY <1>1, <1>6 DEF MotionInv, ModelsInPlace
  <2>4. IsBuilt(y)' <=> (IsBuilt(y) \/ y = z)
    BY <1>1, <1>2 DEF IsBuilt
  <2> HIDE DEF place, roi
  <2>5. CASE y = z
    BY <1>2, <2>2, <2>4, <2>5 DEF roi
  <2>6. CASE y # z
    BY <1>2, <2>2, <2>3, <2>4, <2>6
  <2> QED
    BY <2>5, <2>6
<1>7. ModelsInPlace'
  BY <1>2, <1>6 DEF ModelsInPlace
<1> QED
  BY <1>3, <1>4, <1>5, <1>7 DEF MotionInv

LEMMA AnalyseZoneKeeps ==
    ASSUME MotionInv, NEW z, NEW area \in Areas, AnalyseZone(z, area)
    PROVE  MotionInv'
<1> DEFINE place(y) == Place(Zones(config), y)
           roi == Roi(Zones(config)[z])
<1>1. /\ todo' # NULL /\ z \in todo /\ z \in DOMAIN Zones(config)
      /\ motion_zones = Zones(config) /\ Parses(config)
  BY WorkGoesOn DEF AnalyseZone, MotionInv
<1>2. /\ config \in Configs
      /\ DOMAIN model = 0 .. 2 /\ DOMAIN bg_frame = 0 .. 2
      /\ todo # NULL /\ todo' = todo \ {z}
      /\ UNCHANGED <<config, isModelUpdate, model, motion_zones, bg_update>>
      /\ ~isModelUpdate
      /\ bg_frame' = bg_frame \/ bg_frame' = [bg_frame EXCEPT ![place(z)] = roi]
  BY <1>1 DEF AnalyseZone, IsNext, MotionInv, TypeOK
<1>3. TypeOK'
  <2>1. area \in Nat
    BY AreasAreNat
  <2>2. \A y \in DOMAIN detect_results' : detect_results'[y] \in Nat
    BY <2>1 DEF AnalyseZone, MotionInv, TypeOK
  <2>3. DOMAIN bg_frame' = 0 .. 2
    BY <1>2
  <2> QED
    BY <1>2, <2>2, <2>3 DEF MotionInv, TypeOK
<1>4. FrameInPlace'
  BY <1>1, <1>2 DEF MotionInv, FrameInPlace
<1>5. BuildsAreFlagged' /\ FlagsNeedModels'
  BY <1>2 DEF BuildsAreFlagged, MotionInv, FlagsNeedModels
<1>6. ASSUME NEW y \in Watched(config)
      PROVE  model[place(y)] = Roi(Zones(config)[y]) /\ bg_frame'[place(y)] = model[place(y)]
  <2>1. y \in DOMAIN Zones(config) /\ z \in DOMAIN Zones(config)
    BY <1>1, <1>6 DEF Watched
  <2>2. place(y) \in 0 .. 2 /\ place(z) \in 0 .. 2 /\ (y # z => place(y) # place(z))
    BY <1>1, <1>2, <2>1, PlacesDiffer
  <2>3. /\ model[place(y)] = Roi(Zones(config)[y])
        /\ bg_frame[place(y)] = model[place(y)]
    BY <1>1, <1>2, <1>6 DEF MotionInv, ModelsInPlace, IsBuilt
  <2> HIDE DEF place, roi
  <2>4. CASE y = z
    BY <1>2, <2>2, <2>3, <2>4 DEF roi
  <2>5. CASE y # z
    BY <1>2, <2>2, <2>3, <2>5
  <2> QED
    BY <2>4, <2>5
<1>7. ModelsInPlace'
  BY <1>2, <1>6 DEF ModelsInPlace, IsBuilt
<1> QED
  BY <1>3, <1>4, <1>5, <1>7 DEF MotionInv

LEMMA FeedEndsKeeps == MotionInv /\ FeedEnds => MotionInv'
<1> SUFFICES ASSUME MotionInv, FeedEnds PROVE MotionInv'
  OBVIOUS
<1>1. /\ todo = {} /\ todo' = NULL
      /\ UNCHANGED <<config, model, bg_frame, motion_zones, bg_update, detect_results>>
      /\ isModelUpdate' = (isModelUpdate /\ ~bg_update)
  BY DEF FeedEnds
<1>2. todo # NULL
  BY <1>1, NullIsNoWork DEF MotionInv, TypeOK
<1>3. TypeOK'
  BY <1>1 DEF MotionInv, TypeOK
<1>4. FrameInPlace' /\ BuildsAreFlagged' /\ FlagsNeedModels'
  BY <1>1, <1>2 DEF MotionInv, FrameInPlace, BuildsAreFlagged, FlagsNeedModels
<1>5. ASSUME isModelUpdate' PROVE ModelsInPlace'
  <2>1. Watched(config) = {}
    BY <1>1, <1>2, <1>5 DEF MotionInv, BuildsAreFlagged
  <2> QED
    BY <1>1, <2>1 DEF ModelsInPlace
<1>6. ASSUME ~isModelUpdate' PROVE ModelsInPlace'
  BY <1>1, <1>2, <1>6 DEF MotionInv, ModelsInPlace, IsBuilt
<1> QED
  BY <1>3, <1>4, <1>5, <1>6 DEF MotionInv

LEMMA FeedWithoutZonesKeeps ==
    ASSUME MotionInv, NEW area, FeedWithoutZones(area)
    PROVE  MotionInv'
<1>1. /\ todo = NULL /\ config = <<>>
      /\ UNCHANGED <<config, todo, motion_zones, bg_update, detect_results>>
  BY DEF FeedWithoutZones, frameVars
<1>2. TypeOK'
  <2>1. DOMAIN model' = 0 .. 2 /\ DOMAIN bg_frame' = 0 .. 2 /\ isModelUpdate' \in BOOLEAN
    BY DEF FeedWithoutZones, MotionInv, TypeOK
  <2> QED
    BY <1>1, <2>1 DEF MotionInv, TypeOK
<1>3. FrameInPlace' /\ BuildsAreFlagged' /\ FlagsNeedModels'
  BY <1>1 DEF FrameInPlace, BuildsAreFlagged, FlagsNeedModels
<1>4. ModelsInPlace'
  BY <1>1, NothingWatched DEF ModelsInPlace
<1> QED
  BY <1>2, <1>3, <1>4 DEF MotionInv

LEMMA NextKeepsMotion == MotionInv /\ [Next]_vars => MotionInv'
<1> SUFFICES ASSUME MotionInv, [Next]_vars PROVE MotionInv'
  OBVIOUS
<1>1. ASSUME NEW c \in Configs, Reopen(c) PROVE MotionInv'
  BY <1>1, ReopenKeeps
<1>2. CASE FeedRejected \/ UNCHANGED vars
  <2>1. /\ config' = config /\ isModelUpdate' = isModelUpdate
        /\ model' = model /\ bg_frame' = bg_frame
        /\ motion_zones' = motion_zones /\ todo' = todo
        /\ bg_update' = bg_update /\ detect_results' = detect_results
    BY <1>2 DEF FeedRejected, vars, modelVars, frameVars
  <2>2. TypeOK'
    BY <2>1 DEF MotionInv, TypeOK
  <2>3. FrameInPlace' /\ BuildsAreFlagged' /\ FlagsNeedModels'
    BY <2>1 DEF MotionInv, FrameInPlace, BuildsAreFlagged, FlagsNeedModels
  <2>4. ModelsInPlace'
    BY <2>1 DEF MotionInv, ModelsInPlace, IsBuilt
  <2> QED
    BY <2>2, <2>3, <2>4 DEF MotionInv
<1>3. CASE FeedBegins
  BY <1>3, FeedBeginsKeeps
<1>4. ASSUME NEW z, SkipZone(z) PROVE MotionInv'
  BY <1>4, SkipZoneKeeps
<1>5. ASSUME NEW z, BuildModel(z) PROVE MotionInv'
  BY <1>5, BuildModelKeeps
<1>6. ASSUME NEW z, NEW area \in Areas, AnalyseZone(z, area) PROVE MotionInv'
  BY <1>6, AnalyseZoneKeeps
<1>7. CASE FeedEnds
  BY <1>7, FeedEndsKeeps
<1>8. ASSUME NEW area \in Areas, FeedWithoutZones(area) PROVE MotionInv'
  BY <1>8, FeedWithoutZonesKeeps
<1> QED
  BY <1>1, <1>2, <1>3, <1>4, <1>5, <1>6, <1>7, <1>8 DEF Next

-----------------------------------------------------------------------------
\* While an instance is opened, fed and replaced, each watched zone has its
\* model and background exactly once the loop came by.
THEOREM MotionInvariant == Spec => []MotionInv
BY InitMotion, NextKeepsMotion, PTL DEF Spec

\* A zone is never analysed with the model of another one, whatever zones are
\* configured, and none is left without (mMotionAction).
THEOREM ModelsFit == Spec => []ModelsFitZones
<1>1. MotionInv => ModelsFitZones
  BY DEF MotionInv, ModelsInPlace, IsBuilt, ModelsFitZones
<1> QED
  BY <1>1, MotionInvariant, PTL

\* No model is replaced before the instance is (getForegroundMask).
THEOREM BuiltOnce == Spec => []ModelsBuiltOnce
<1>1. MotionInv => ModelsBuiltOnce
  <2> SUFFICES ASSUME MotionInv, todo # NULL, isModelUpdate,
                      NEW z \in todo, IsWatchable(motion_zones[z])
               PROVE  model[Place(motion_zones, z)] = NULL
    BY DEF ModelsBuiltOnce
  <2>1. z \in Watched(config) /\ motion_zones = Zones(config) /\ Parses(config)
    BY DEF MotionInv, FrameInPlace, Watched
  <2> QED
    BY <2>1 DEF MotionInv, ModelsInPlace, IsBuilt
<1> QED
  BY <1>1, MotionInvariant, PTL

\* No configured zone goes unwatched but for a reason that can be read off the
\* configuration, and what is watched is not nested (CopyAlgorithmParams,
\* mMotionAction).
THEOREM UnwatchedForAReason == Spec => []ZonesUnwatchedForAReason
<1>1. MotionInv => ZonesUnwatchedForAReason
  <2> SUFFICES ASSUME MotionInv, Parses(config), ~isModelUpdate
               PROVE  ZonesUnwatchedForAReason
    BY DEF ZonesUnwatchedForAReason
  <2> DEFINE c == config
             n == Len(c)
             others(i) == {j \in (1 .. n) \ {i} : c[j].pos # NULL}
  <2>1. c \in Configs
    BY DEF MotionInv, TypeOK
  <2>2. c = <<>> \/ Watched(c) # {}
    BY DEF MotionInv, FlagsNeedModels
  <2>3. ASSUME NEW i \in 1 .. n,
               \A j \in i + 1 .. n : c[j].id # c[i].id,
               \A j \in 1 .. i : c[j].pos # NULL,
               c[i].pos.width # 0, c[i].pos.height # 0, c[i].pos.x # 100, c[i].pos.y # 100,
               ~(n = 2 /\ \E j \in others(i) : Inside(c[i].pos, c[j].pos)),
               ~(n = 3 /\ \E j \in others(i) : InsideFrom(c[j].pos, c[i].pos))
        PROVE  /\ c[i].id \in Watched(c) /\ Zones(c)[c[i].id] = c[i].pos
               /\ model[Place(Zones(c), c[i].id)] = Roi(c[i].pos)
    <3>1. Watched(c) # {}
      BY <2>2, <2>3
    <3>2. c[i].id \in Watched(c) /\ Zones(c)[c[i].id] = c[i].pos
      BY <2>1, <2>3, <3>1, WatchedUnless
    <3>3. model[Place(Zones(c), c[i].id)] = Roi(Zones(c)[c[i].id])
      BY <3>2 DEF MotionInv, ModelsInPlace, IsBuilt
    <3> QED
      BY <3>2, <3>3
  <2>4. \A y, z \in Watched(c) : ~Inside(Zones(c)[y], Zones(c)[z])
    BY <2>1, NoneNested
  <2> QED
    BY <2>3, <2>4 DEF ZonesUnwatchedForAReason
<1> QED
  BY <1>1, MotionInvariant, PTL
=============================================================================
