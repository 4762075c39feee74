-------------------------- MODULE NativePoolProofs --------------------------
(***************************************************************************)
(* Proofs about NativePool, for any number of threads, pools, structures   *)
(* and addresses.                                                          *)
(***************************************************************************)
EXTENDS NativePool, TLAPS

USE KindsKnown, MaxActiveIsPositive, BoundsAreNat, NullIsNothing
USE DEF poolVars

\* held = 0 says that a thread has no structure.
LEMMA ZeroIsNoStructure == 0 \notin Structures
BY DEF Structures

\* The contents of a structure that points nowhere.
LEMMA NowhereIsPointers ==
    \A k \in Kinds : Nowhere(k) \in [Slots(k) -> Addresses \cup {NULL}] /\ Nowhere(k) \in Pointers
BY DEF Nowhere, Pointers

\* What the types say of the structure that a thread holds.
LEMMA HeldPointers ==
    ASSUME TypeOK, StructuresAreExclusive,
           NEW s \in Threads, pc[s] \in {"borrowed", "called", "destroyed"}
    PROVE  /\ kind[s] \in Kinds
           /\ held[s] \in Structures
           /\ fields[kind[s]][held[s]] \in [Slots(kind[s]) -> Addresses \cup {NULL}]
           /\ fields[kind[s]][held[s]] \in Pointers
<1>1. kind[s] \in Kinds /\ held[s] \in Structures
  BY DEF TypeOK, StructuresAreExclusive
<1>2. fields[kind[s]][held[s]] \in [Slots(kind[s]) -> Addresses \cup {NULL}]
  BY <1>1 DEF TypeOK
<1>3. fields[kind[s]] \in [Structures -> Pointers]
  BY <1>1 DEF TypeOK
<1> QED BY <1>1, <1>2, <1>3

\* The invariant holds when all structures are in their pools.
LEMMA PoolInit == Init => PoolInv
<1> SUFFICES ASSUME Init PROVE PoolInv
  OBVIOUS
<1>1. TypeOK
  BY NowhereIsPointers DEF Init, TypeOK
<1>2. StructuresAreExclusive
  BY DEF Init, StructuresAreExclusive
<1>3. PointsToOwn /\ OnlySurplusLeaks
  BY DEF Init, PointsToOwn, OnlySurplusLeaks
<1> QED BY <1>1, <1>2, <1>3 DEF PoolInv

\* Every step of a pool or of a thread keeps the invariant.
LEMMA PoolStep == PoolInv /\ [Next]_vars => PoolInv'
<1> SUFFICES ASSUME TypeOK, StructuresAreExclusive, PointsToOwn, OnlySurplusLeaks,
                    [Next]_vars
             PROVE  PoolInv'
  BY DEF PoolInv
<1> USE ZeroIsNoStructure DEF Goto
<1>1. ASSUME NEW t \in Threads, NEW k \in Kinds, Borrow(t, k) PROVE PoolInv'
  <2>1. TypeOK'
    <3>1. waiting' \in [Kinds -> Seq(Threads)]
      BY <1>1 DEF Borrow, TypeOK
    <3>2. pc' \in [Threads -> {"idle", "waiting", "borrowed", "called", "destroyed"}]
      BY <1>1 DEF Borrow, TypeOK
    <3>3. kind' \in [Threads -> Kinds]
      BY <1>1 DEF Borrow, TypeOK
    <3> QED BY <1>1, <3>1, <3>2, <3>3 DEF Borrow, TypeOK
  <2>2. StructuresAreExclusive'
    BY <1>1 DEF Borrow, TypeOK, StructuresAreExclusive
  <2>3. PointsToOwn'
    BY <1>1 DEF Borrow, TypeOK, PointsToOwn
  <2>4. OnlySurplusLeaks'
    <3> SUFFICES ASSUME NEW a \in Addresses \ surplus, owner[a] # NULL
                 PROVE  /\ pc'[owner[a]] = "called"
                        /\ \E m \in Slots(kind'[owner[a]]) :
                            fields[kind'[owner[a]]][held[owner[a]]][m] = a
      BY <1>1 DEF OnlySurplusLeaks, Borrow
    <3>1. owner[a] # t /\ owner[a] \in Threads
      BY <1>1 DEF OnlySurplusLeaks, Borrow, TypeOK
    <3> QED BY <1>1, <3>1 DEF OnlySurplusLeaks, Borrow, TypeOK
  <2> QED BY <2>1, <2>2, <2>3, <2>4 DEF PoolInv
<1>2. ASSUME NEW k \in Kinds, NEW x \in Structures, Allocate(k, x) PROVE PoolInv'
  <2>1. Head(waiting[k]) \in Threads /\ Tail(waiting[k]) \in Seq(Threads)
    BY <1>2 DEF Allocate, TypeOK
  <2>2. TypeOK'
    <3>1. waiting' \in [Kinds -> Seq(Threads)]
      BY <1>2, <2>1 DEF Allocate, TypeOK
    <3>2. pc' \in [Threads -> {"idle", "waiting", "borrowed", "called", "destroyed"}]
      BY <1>2, <2>1 DEF Allocate, TypeOK
    <3>3. idle' \in [Kinds -> SUBSET Structures]
      BY <1>2, <2>1 DEF Allocate, TypeOK
    <3>4. held' \in [Threads -> Structures \cup {0}]
      BY <1>2, <2>1 DEF Allocate, TypeOK
    <3> QED BY <1>2, <3>1, <3>2, <3>3, <3>4 DEF Allocate, TypeOK
  <2>3. StructuresAreExclusive'
    BY <1>2, <2>1 DEF Allocate, TypeOK, StructuresAreExclusive
  <2>4. PointsToOwn'
    BY <1>2, <2>1 DEF Allocate, TypeOK, PointsToOwn, StructuresAreExclusive
  <2>5. OnlySurplusLeaks'
    <3> SUFFICES ASSUME NEW a \in Addresses \ surplus, owner[a] # NULL
                 PROVE  /\ pc'[owner[a]] = "called"
                        /\ \E m \in Slots(kind[owner[a]]) :
                            fields[kind[owner[a]]][held'[owner[a]]][m] = a
      BY <1>2 DEF OnlySurplusLeaks, Allocate
    <3>1. owner[a] # Head(waiting[k]) /\ owner[a] \in Threads
      BY <1>2, <2>1 DEF OnlySurplusLeaks, Allocate, TypeOK, StructuresAreExclusive
    <3> QED BY <1>2, <2>1, <3>1 DEF OnlySurplusLeaks, Allocate, TypeOK
  <2> QED BY <2>2, <2>3, <2>4, <2>5 DEF PoolInv
<1>3. ASSUME NEW t \in Threads, NativeCall(t) PROVE PoolInv'
  <2> DEFINE k == kind[t]
             x == held[t]
  <2>1. k \in Kinds /\ x \in Structures
    BY <1>3 DEF NativeCall, TypeOK, StructuresAreExclusive
  <2> DEFINE old == fields[k][x]
  <2>2. old \in [Slots(k) -> Addresses \cup {NULL}]
    BY <2>1 DEF TypeOK
  <2>3. PICK n \in Allocations(k) :
          \E buffer \in [1 .. n -> {a \in Addresses : owner[a] = NULL}] :
          LET left == Left(k, old, buffer) IN
            /\ \A i, j \in 1 .. n : i # j => buffer[i] # buffer[j]
            /\ memory' = [memory EXCEPT ![k][x] = left]
            /\ fields' = [fields EXCEPT ![k][x] = left]
            /\ owner' = [a \in Addresses |->
                    IF \E i \in 1 .. n : buffer[i] = a THEN t ELSE owner[a]]
            /\ surplus' = surplus \cup Astray(k, buffer)
    BY <1>3 DEF NativeCall
  <2>4. PICK buffer \in [1 .. n -> {a \in Addresses : owner[a] = NULL}] :
          LET left == Left(k, old, buffer) IN
            /\ \A i, j \in 1 .. n : i # j => buffer[i] # buffer[j]
            /\ memory' = [memory EXCEPT ![k][x] = left]
            /\ fields' = [fields EXCEPT ![k][x] = left]
            /\ owner' = [a \in Addresses |->
                    IF \E i \in 1 .. n : buffer[i] = a THEN t ELSE owner[a]]
            /\ surplus' = surplus \cup Astray(k, buffer)
    BY <2>3
  <2> DEFINE left == Left(k, old, buffer)
             astray == Astray(k, buffer)
  <2>5. /\ left \in [Slots(k) -> Addresses \cup {NULL}]
        /\ left \in Pointers
        /\ \A m \in Slots(k) : left[m] # NULL => m \in 1 .. n /\ left[m] = buffer[m]
        /\ \A i \in 1 .. n : (i \in Slots(k) /\ left[i] = buffer[i]) \/ buffer[i] \in astray
        /\ \A a \in astray : \E i \in 1 .. n : i \notin Slots(k) /\ buffer[i] = a
    <3>1. DOMAIN buffer = 1 .. n /\ \A i \in DOMAIN buffer : buffer[i] \in Addresses
      OBVIOUS
    <3>2. k = "feed" => 1 \in DOMAIN buffer
      BY <3>1 DEF Allocations
    <3> HIDE DEF old, k
    <3>3. \A m \in Slots(k) : left[m] # NULL => m \in 1 .. n /\ left[m] = buffer[m]
      \* feed2 does not wipe its structure, but fills its only slot.
      <4>1. ASSUME NEW m \in Slots(k), m \notin DOMAIN buffer PROVE left[m] = NULL
        <5>1. k # "feed"
          BY <3>2, <4>1 DEF Slots
        <5> QED BY <4>1, <5>1 DEF Left, Wiped, Nowhere
      <4>2. \A m \in Slots(k) : m \in DOMAIN buffer => left[m] = buffer[m]
        BY DEF Left
      <4> QED BY <3>1, <4>1, <4>2
    <3>4. left \in [Slots(k) -> Addresses \cup {NULL}]
      <4>1. \A m \in Slots(k) : left[m] \in Addresses \cup {NULL}
        BY <3>1, <3>3
      <4> QED BY <4>1 DEF Left
    <3>5. left \in Pointers
      BY <2>1, <3>4 DEF Pointers
    <3>6. \A i \in 1 .. n :
            (i \in Slots(k) /\ left[i] = buffer[i]) \/ buffer[i] \in astray
      BY <3>1 DEF Left, Astray
    <3>7. \A a \in astray : \E i \in 1 .. n : i \notin Slots(k) /\ buffer[i] = a
      BY <3>1 DEF Astray
    <3> QED BY <3>3, <3>4, <3>5, <3>6, <3>7
  <2>6. /\ memory' = [memory EXCEPT ![k][x] = left]
        /\ fields' = [fields EXCEPT ![k][x] = left]
        /\ surplus' = surplus \cup astray
    BY <2>4
  <2>7. \A s \in Threads : pc'[s] = "called" => s = t \/ pc[s] = "called"
    BY <1>3 DEF NativeCall, TypeOK
  <2>8. UNCHANGED <<kind, held, poolVars>> /\ pc[t] = "borrowed" /\ pc' = [pc EXCEPT ![t] = "called"]
    BY <1>3 DEF NativeCall
  <2> HIDE DEF left, astray, k, x, old
  <2>9. fields'[k][x] = left
    BY <2>1, <2>6 DEF TypeOK
  <2>10. TypeOK'
    <3>1. fields' \in [Kinds -> [Structures -> Pointers]]
      BY <2>1, <2>5, <2>6 DEF TypeOK
    <3>2. memory' \in [Kinds -> [Structures -> Pointers]]
      BY <2>1, <2>5, <2>6 DEF TypeOK
    <3>3. owner' \in [Addresses -> Threads \cup {NULL}]
      BY <2>4 DEF TypeOK
    <3>4. \A l \in Kinds, y \in Structures :
            /\ fields'[l][y] \in [Slots(l) -> Addresses \cup {NULL}]
            /\ memory'[l][y] \in [Slots(l) -> Addresses \cup {NULL}]
      BY <2>1, <2>5, <2>6 DEF TypeOK
    <3>5. surplus' \subseteq Addresses
      BY <2>4, <2>5, <2>6 DEF TypeOK
    <3> QED BY <2>8, <3>1, <3>2, <3>3, <3>4, <3>5 DEF TypeOK
  <2>11. StructuresAreExclusive'
    BY <2>8 DEF TypeOK, StructuresAreExclusive
  <2>12. PointsToOwn'
    <3> SUFFICES ASSUME NEW s \in Threads, pc'[s] = "called",
                        NEW m \in Slots(kind'[s]), NEW j \in Slots(kind'[s]),
                        fields'[kind'[s]][held'[s]][m] # NULL
                 PROVE  /\ owner'[fields'[kind'[s]][held'[s]][m]] = s
                        /\ fields'[kind'[s]][held'[s]][m] \notin surplus'
                        /\ fields'[kind'[s]][held'[s]][m] = fields'[kind'[s]][held'[s]][j] => m = j
      BY DEF PointsToOwn
    <3>1. CASE s = t
      <4>1. /\ kind'[s] = k /\ held'[s] = x
            /\ m \in 1 .. n /\ left[m] = buffer[m] /\ left[m] # NULL
        BY <2>5, <2>8, <2>9, <3>1 DEF k, x
      <4>2. owner[left[m]] = NULL /\ left[m] \in Addresses
        BY <4>1
      <4>3. left[m] \notin surplus
        BY <4>2 DEF OnlySurplusLeaks
      <4>4. left[m] \notin astray
        BY <2>4, <2>5, <3>1, <4>1
      <4>5. left[m] = left[j] => m = j
        BY <2>4, <2>5, <2>8, <3>1, <4>1 DEF k
      <4>6. owner'[left[m]] = t
        BY <2>4, <4>1, <4>2
      <4> QED BY <2>6, <2>9, <3>1, <4>1, <4>3, <4>4, <4>5, <4>6
    <3>2. CASE s # t
      <4>1. pc[s] = "called" /\ kind'[s] = kind[s] /\ held'[s] = held[s]
        BY <2>7, <2>8, <3>2
      <4>2. /\ held[s] \in Structures /\ kind[s] \in Kinds
            /\ fields[kind[s]][held[s]] \in [Slots(kind[s]) -> Addresses \cup {NULL}]
        BY <4>1, HeldPointers
      <4>3. ~ (kind[s] = k /\ held[s] = x)
        BY <2>1, <3>2 DEF StructuresAreExclusive, k, x
      <4>4. fields'[kind[s]][held[s]] = fields[kind[s]][held[s]]
        BY <2>1, <2>6, <4>2, <4>3 DEF TypeOK
      <4>5. /\ m \in Slots(kind[s]) /\ j \in Slots(kind[s])
            /\ fields[kind[s]][held[s]][m] # NULL
        BY <4>1, <4>4
      <4>6. fields[kind[s]][held[s]][m] \in Addresses
        BY <4>2, <4>5
      <4>7. /\ owner[fields[kind[s]][held[s]][m]] = s
            /\ fields[kind[s]][held[s]][m] \notin surplus
            /\ fields[kind[s]][held[s]][m] = fields[kind[s]][held[s]][j] => m = j
        BY <4>1, <4>5 DEF PointsToOwn
      <4>8. owner'[fields[kind[s]][held[s]][m]] = s
        BY <2>4, <4>6, <4>7
      <4>9. fields[kind[s]][held[s]][m] \notin astray
        BY <2>5, <4>7
      <4> QED BY <2>6, <4>1, <4>4, <4>7, <4>8, <4>9
    <3> QED BY <3>1, <3>2
  <2>13. OnlySurplusLeaks'
    <3>1. ASSUME NEW a \in surplus' PROVE owner'[a] # NULL
      <4>1. CASE a \in surplus
        BY <2>4, <4>1 DEF OnlySurplusLeaks, TypeOK
      <4>2. CASE a \in astray
        BY <2>4, <2>5, <4>2
      <4> QED BY <2>6, <3>1, <4>1, <4>2
    <3>2. ASSUME NEW a \in Addresses, a \notin surplus', owner'[a] # NULL
          PROVE  /\ pc'[owner'[a]] = "called"
                 /\ \E m \in Slots(kind'[owner'[a]]) :
                     fields'[kind'[owner'[a]]][held'[owner'[a]]][m] = a
      <4>1. CASE \E i \in 1 .. n : buffer[i] = a
        <5>1. PICK i \in 1 .. n : buffer[i] = a
          BY <4>1
        <5>2. owner'[a] = t /\ i \in Slots(k) /\ left[i] = a
          BY <2>4, <2>5, <2>6, <3>2, <5>1
        <5>3. pc'[t] = "called" /\ kind'[t] = k /\ held'[t] = x
          BY <2>8 DEF TypeOK, k, x
        <5> QED BY <2>9, <5>2, <5>3
      <4>2. CASE ~ \E i \in 1 .. n : buffer[i] = a
        <5> DEFINE s == owner[a]
        <5>1. owner'[a] = s /\ s # NULL /\ a \notin surplus
          BY <2>4, <2>6, <3>2, <4>2
        <5>2. s \in Threads /\ pc[s] = "called" /\ s # t
          BY <2>8, <5>1 DEF OnlySurplusLeaks, TypeOK
        <5>3. /\ held[s] \in Structures /\ kind[s] \in Kinds
              /\ fields[kind[s]][held[s]] \in [Slots(kind[s]) -> Addresses \cup {NULL}]
          BY <5>2, HeldPointers
        <5>4. ~ (kind[s] = k /\ held[s] = x)
          BY <2>1, <5>2 DEF StructuresAreExclusive, k, x
        <5>5. fields'[kind[s]][held[s]] = fields[kind[s]][held[s]]
          BY <2>1, <2>6, <5>3, <5>4 DEF TypeOK
        <5>6. pc'[s] = "called" /\ kind'[s] = kind[s] /\ held'[s] = held[s]
          BY <2>8, <5>2 DEF TypeOK
        <5> QED BY <3>2, <5>1, <5>5, <5>6 DEF OnlySurplusLeaks
      <4> QED BY <4>1, <4>2
    <3> QED BY <3>1, <3>2 DEF OnlySurplusLeaks
  <2> QED BY <2>10, <2>11, <2>12, <2>13 DEF PoolInv
<1>4. ASSUME NEW t \in Threads, Destroy(t) PROVE PoolInv'
  <2>1. kind[t] \in Kinds /\ held[t] \in Structures
    BY <1>4, HeldPointers DEF Destroy
  <2>2. fields[kind[t]][held[t]] \in Pointers
    BY <1>4, HeldPointers DEF Destroy
  <2>3. TypeOK'
    <3>1. memory' \in [Kinds -> [Structures -> Pointers]]
      BY <1>4, <2>1, <2>2 DEF Destroy, TypeOK
    <3>2. owner' \in [Addresses -> Threads \cup {NULL}]
      BY <1>4 DEF Destroy, TypeOK
    <3>3. \A l \in Kinds, y \in Structures :
            memory'[l][y] \in [Slots(l) -> Addresses \cup {NULL}]
      BY <1>4, <2>1 DEF Destroy, TypeOK
    <3> QED BY <1>4, <3>1, <3>2, <3>3 DEF Destroy, TypeOK
  <2>4. StructuresAreExclusive'
    BY <1>4 DEF Destroy, TypeOK, StructuresAreExclusive
  <2>5. PointsToOwn'
    <3> SUFFICES ASSUME NEW s \in Threads, pc'[s] = "called",
                        NEW m \in Slots(kind[s]), NEW j \in Slots(kind[s]),
                        fields[kind[s]][held[s]][m] # NULL
                 PROVE  /\ owner'[fields[kind[s]][held[s]][m]] = s
                        /\ fields[kind[s]][held[s]][m] \notin surplus
                        /\ fields[kind[s]][held[s]][m] = fields[kind[s]][held[s]][j] => m = j
      <4>1. UNCHANGED <<kind, held, fields, surplus>>
        BY <1>4 DEF Destroy
      <4> QED BY <4>1 DEF PointsToOwn
    <3>1. pc[s] = "called" /\ s # t
      BY <1>4 DEF Destroy, TypeOK
    <3>2. fields[kind[s]][held[s]] \in [Slots(kind[s]) -> Addresses \cup {NULL}]
      BY <3>1, HeldPointers
    <3>3. fields[kind[s]][held[s]][m] \in Addresses
      BY <3>2
    <3>4. owner[fields[kind[s]][held[s]][m]] = s
      BY <3>1 DEF PointsToOwn
    <3>5. fields[kind[s]][held[s]][m] \notin Freed(kind[t], fields[kind[t]][held[t]])
      <4> SUFFICES ASSUME NEW l \in Slots(kind[t]),
                          fields[kind[t]][held[t]][l] = fields[kind[s]][held[s]][m]
                   PROVE  FALSE
        BY DEF Freed
      <4>1. owner[fields[kind[t]][held[t]][l]] = t
        BY <1>4 DEF PointsToOwn, Destroy
      <4> QED BY <3>1, <3>4, <4>1
    <3> QED BY <1>4, <3>1, <3>3, <3>4, <3>5 DEF PointsToOwn, Destroy
  <2>6. OnlySurplusLeaks'
    <3>0. \A a \in surplus : owner'[a] # NULL
      <4>1. \A a \in surplus : a \notin Freed(kind[t], fields[kind[t]][held[t]])
        <5> SUFFICES ASSUME NEW l \in Slots(kind[t]),
                            fields[kind[t]][held[t]][l] # NULL
                     PROVE  fields[kind[t]][held[t]][l] \notin surplus
          BY DEF Freed
        <5> QED BY <1>4 DEF PointsToOwn, Destroy
      <4> QED BY <1>4, <4>1 DEF OnlySurplusLeaks, Destroy, TypeOK
    <3> SUFFICES ASSUME NEW a \in Addresses \ surplus, owner'[a] # NULL
                 PROVE  /\ pc'[owner'[a]] = "called"
                        /\ \E m \in Slots(kind[owner'[a]]) :
                            fields[kind[owner'[a]]][held[owner'[a]]][m] = a
      <4>1. UNCHANGED <<kind, held, fields, surplus>>
        BY <1>4 DEF Destroy
      <4> QED BY <3>0, <4>1 DEF OnlySurplusLeaks
    <3>1. owner'[a] = owner[a] /\ a \notin Freed(kind[t], fields[kind[t]][held[t]])
      BY <1>4 DEF Destroy
    <3>2. owner[a] # t
      BY <1>4, <3>1 DEF Freed, OnlySurplusLeaks
    <3>3. owner[a] \in Threads
      BY <3>1 DEF TypeOK
    <3> QED BY <1>4, <3>1, <3>2, <3>3 DEF OnlySurplusLeaks, Destroy, TypeOK
  <2> QED BY <2>3, <2>4, <2>5, <2>6 DEF PoolInv
<1>5. ASSUME NEW t \in Threads, Return(t) PROVE PoolInv'
  <2>1. kind[t] \in Kinds /\ held[t] \in Structures
    BY <1>5 DEF Return, TypeOK, StructuresAreExclusive
  <2>2. TypeOK'
    <3>1. memory' \in [Kinds -> [Structures -> Pointers]]
      BY <1>5, <2>1, NowhereIsPointers DEF Return, TypeOK
    <3>2. idle' \in [Kinds -> SUBSET Structures]
      BY <1>5, <2>1 DEF Return, TypeOK
    <3>3. \A l \in Kinds, y \in Structures :
            memory'[l][y] \in [Slots(l) -> Addresses \cup {NULL}]
      BY <1>5, <2>1, NowhereIsPointers DEF Return, TypeOK
    <3> QED BY <1>5, <3>1, <3>2, <3>3 DEF Return, TypeOK
  <2>3. StructuresAreExclusive'
    BY <1>5, <2>1 DEF Return, TypeOK, StructuresAreExclusive
  <2>4. PointsToOwn'
    BY <1>5 DEF Return, TypeOK, PointsToOwn
  <2>5. OnlySurplusLeaks'
    <3> SUFFICES ASSUME NEW a \in Addresses \ surplus, owner[a] # NULL
                 PROVE  /\ pc'[owner[a]] = "called"
                        /\ \E m \in Slots(kind[owner[a]]) :
                            fields[kind[owner[a]]][held'[owner[a]]][m] = a
      BY <1>5 DEF OnlySurplusLeaks, Return
    <3>1. owner[a] # t /\ owner[a] \in Threads
      BY <1>5 DEF OnlySurplusLeaks, Return, TypeOK
    <3> QED BY <1>5, <3>1 DEF OnlySurplusLeaks, Return, TypeOK
  <2> QED BY <2>2, <2>3, <2>4, <2>5 DEF PoolInv
<1>6. CASE ProcessDies
  <2>1. TypeOK'
    BY <1>6, NowhereIsPointers DEF ProcessDies, TypeOK
  <2>2. StructuresAreExclusive'
    BY <1>6 DEF ProcessDies, StructuresAreExclusive
  <2>3. PointsToOwn' /\ OnlySurplusLeaks'
    BY <1>6 DEF ProcessDies, PointsToOwn, OnlySurplusLeaks
  <2> QED BY <2>1, <2>2, <2>3 DEF PoolInv
<1>7. CASE UNCHANGED vars
  BY <1>7 DEF vars, PoolInv, TypeOK, StructuresAreExclusive, PointsToOwn, OnlySurplusLeaks
<1> QED
  BY <1>1, <1>2, <1>3, <1>4, <1>5, <1>6, <1>7 DEF Next, CallStep

\* The inductive invariant of the pools.
THEOREM PoolInvariant == Spec => []PoolInv
BY PoolInit, PoolStep, PTL DEF Spec

\* Destroy frees the buffers of its thread that are in a slot of the structure and
\* nothing else; what it leaves behind are third and later pictures.
THEOREM OwnBuffersFreed == Spec => []FreesOwnButSurplus
<1>1. ASSUME PoolInv PROVE FreesOwnButSurplus
  <2> SUFFICES ASSUME NEW t \in Threads, pc[t] = "called"
               PROVE  Freed(kind[t], fields[kind[t]][held[t]])
                        = {a \in Addresses : owner[a] = t} \ surplus
    BY DEF FreesOwnButSurplus
  <2>1. kind[t] \in Kinds /\ held[t] \in Structures
    BY <1>1, ZeroIsNoStructure DEF PoolInv, TypeOK, StructuresAreExclusive
  <2>2. fields[kind[t]][held[t]] \in [Slots(kind[t]) -> Addresses \cup {NULL}]
    BY <1>1, <2>1 DEF PoolInv, TypeOK
  <2>3. ASSUME NEW a \in Freed(kind[t], fields[kind[t]][held[t]])
        PROVE  a \in Addresses \ surplus /\ owner[a] = t
    BY <1>1, <2>2 DEF PoolInv, PointsToOwn, Freed
  <2>4. ASSUME NEW a \in Addresses \ surplus, owner[a] = t
        PROVE  a \in Freed(kind[t], fields[kind[t]][held[t]])
    BY <1>1, <2>4 DEF PoolInv, OnlySurplusLeaks, Freed
  <2> QED BY <2>3, <2>4
<1> QED BY <1>1, PoolInvariant, PTL
=============================================================================
