----------------------------- MODULE NativePool -----------------------------
(***************************************************************************)
(* The native buffers behind one call of decode, encode or feed.           *)
(*                                                                         *)
(* A pool thread borrows a JNA structure from the object pool of the call, *)
(* lets the native function allocate buffers and put their addresses into  *)
(* it, copies the buffers, has the native side free them and gives the     *)
(* structure back.  JNA copies the Java fields of a structure into its     *)
(* native memory before a call and back after it.  clear() zeroes the      *)
(* native memory only: the Java fields of a structure in the pool go on    *)
(* pointing to freed buffers, and the next call writes them back.          *)
(*                                                                         *)
(* A YUVFrame2 has room for two pictures, but DecodeNal stores all it      *)
(* decodes, up to DECODER_NUM.  The third pointer falls on the two sizes,  *)
(* everything later beyond the structure: these buffers are lost for       *)
(* Destroy, and what the stray writes do is undefined.                     *)
(*                                                                         *)
(* The pools are commons-pool GenericObjectPools with the library's own    *)
(* limit, because the Config of AbsObjectPool is never passed on: who      *)
(* comes when all structures are out waits, without a time limit, in       *)
(* order of arrival.                                                       *)
(***************************************************************************)
EXTENDS Naturals, Sequences, FiniteSets

CONSTANTS
    Threads,    \* pool threads of ProcessorManagerImpl and ObjectRecognitionImpl
    Kinds,      \* the pools: "decode", "encode", "feed"
    MaxActive,  \* GenericObjectPool.DEFAULT_MAX_ACTIVE, 8
    Addresses,  \* of buffers; a freed one may be used again
    MaxPictures, \* DECODER_NUM, 50: the most pictures DecodeNal stores
    MaxLeaked,  \* how many buffers may have been lost; bounds the run
    NULL

ASSUME KindsKnown == Kinds \subseteq {"decode", "encode", "feed"}
ASSUME MaxActiveIsPositive == MaxActive \in Nat \ {0}
ASSUME BoundsAreNat == MaxPictures \in Nat /\ MaxLeaked \in Nat
ASSUME NullIsNothing == NULL \notin Addresses \cup Threads

VARIABLES
    pc,       \* where each thread is
    kind,     \* which of the three calls it makes
    held,     \* number of the structure it has borrowed, 0 if none
    waiting,  \* threads waiting at each pool, in order of arrival
    idle,     \* structures in each pool, those not made yet included
    fields,   \* the pointers in the Java fields of each structure
    memory,   \* the pointers in its native memory
    owner,    \* the thread a buffer was allocated for; NULL: not allocated
    surplus   \* history: the buffers of third and later pictures

poolVars == <<waiting, idle>>
vars == <<pc, kind, held, poolVars, fields, memory, owner, surplus>>

\* YUVFrame2.data, JPGFrame.data and algorithm_base_result2.result.
Slots(k) == IF k = "decode" THEN {1, 2} ELSE {1}
Structures == 1 .. MaxActive
Nowhere(k) == [n \in Slots(k) |-> NULL]
Pointers == UNION {[Slots(k) -> Addresses \cup {NULL}] : k \in Kinds}

TypeOK ==
    /\ pc \in [Threads -> {"idle", "waiting", "borrowed", "called", "destroyed"}]
    /\ kind \in [Threads -> Kinds]
    /\ held \in [Threads -> Structures \cup {0}]
    /\ waiting \in [Kinds -> Seq(Threads)]
    /\ idle \in [Kinds -> SUBSET Structures]
    /\ fields \in [Kinds -> [Structures -> Pointers]]
    /\ memory \in [Kinds -> [Structures -> Pointers]]
    /\ \A k \in Kinds, x \in Structures :
        /\ fields[k][x] \in [Slots(k) -> Addresses \cup {NULL}]
        /\ memory[k][x] \in [Slots(k) -> Addresses \cup {NULL}]
    /\ owner \in [Addresses -> Threads \cup {NULL}]
    /\ surplus \subseteq Addresses

Init ==
    /\ pc = [t \in Threads |-> "idle"]
    /\ kind \in [Threads -> Kinds]
    /\ held = [t \in Threads |-> 0]
    /\ waiting = [k \in Kinds |-> <<>>]
    /\ idle = [k \in Kinds |-> Structures]
    /\ fields = [k \in Kinds |-> [x \in Structures |-> Nowhere(k)]]
    /\ memory = [k \in Kinds |-> [x \in Structures |-> Nowhere(k)]]
    /\ owner = [a \in Addresses |-> NULL]
    /\ surplus = {}

-----------------------------------------------------------------------------
(* commons-pool.                                                           *)

Goto(t, label) == pc' = [pc EXCEPT ![t] = label]

\* borrowObject queues up at the pool.
Borrow(t, k) ==
    /\ pc[t] = "idle"
    /\ kind' = [kind EXCEPT ![t] = k]
    /\ waiting' = [waiting EXCEPT ![k] = Append(@, t)]
    /\ Goto(t, "waiting")
    /\ UNCHANGED <<held, idle, fields, memory, owner, surplus>>

\* Mutant: who came last is served first.
Allocate_Latest(k, x) ==
    LET n == Len(waiting[k]) IN
    /\ waiting[k] # <<>>
    /\ x \in idle[k]
    /\ held' = [held EXCEPT ![waiting[k][n]] = x]
    /\ waiting' = [waiting EXCEPT ![k] = SubSeq(@, 1, n - 1)]
    /\ idle' = [idle EXCEPT ![k] = @ \ {x}]
    /\ Goto(waiting[k][n], "borrowed")
    /\ UNCHANGED <<kind, fields, memory, owner, surplus>>

\* The pool gives a structure to the thread that has waited longest.
Allocate(k, x) ==
    /\ waiting[k] # <<>>
    /\ x \in idle[k]
    /\ held' = [held EXCEPT ![Head(waiting[k])] = x]
    /\ waiting' = [waiting EXCEPT ![k] = Tail(@)]
    /\ idle' = [idle EXCEPT ![k] = @ \ {x}]
    /\ Goto(Head(waiting[k]), "borrowed")
    /\ UNCHANGED <<kind, fields, memory, owner, surplus>>

-----------------------------------------------------------------------------
(* The native calls.                                                       *)

\* Mutant: DecodeNal and EncodeJPG do not begin with memset.
Wiped_Not(k, pointers) == pointers

\* What the native function has made of the structure before it allocates:
\* DecodeNal and EncodeJPG wipe it, feed2 does not but always sets its pointer.
Wiped(k, pointers) == IF k = "feed" THEN pointers ELSE Nowhere(k)

\* How many buffers it may allocate: DecodeNal one per decoded picture, whatever
\* the room in the structure, or none when it fails; EncodeJPG one or none, feed2
\* always one.
Allocations(k) ==
    CASE k = "decode" -> 0 .. MaxPictures
      [] k = "encode" -> {0, 1}
      [] k = "feed" -> {1}

\* What it leaves in the structure: the first buffers it has allocated.
Left(k, pointers, buffer) ==
    [m \in Slots(k) |-> IF m \in DOMAIN buffer THEN buffer[m] ELSE Wiped(k, pointers)[m]]

\* The buffers whose addresses it writes elsewhere.
Astray(k, buffer) == {buffer[i] : i \in DOMAIN buffer \ Slots(k)}

\* The call: JNA writes the fields, the function wipes and allocates, JNA reads.
NativeCall(t) ==
    LET k == kind[t]
        x == held[t] IN
    /\ pc[t] = "borrowed"
    /\ Goto(t, "called")
    /\ UNCHANGED <<kind, held, poolVars>>
    /\ \E n \in Allocations(k) :
        \E buffer \in [1 .. n -> {a \in Addresses : owner[a] = NULL}] :
            LET left == Left(k, fields[k][x], buffer) IN
            /\ \A i, j \in 1 .. n : i # j => buffer[i] # buffer[j]
            /\ memory' = [memory EXCEPT ![k][x] = left]
            /\ fields' = [fields EXCEPT ![k][x] = left]
            /\ owner' = [a \in Addresses |->
                    IF \E i \in 1 .. n : buffer[i] = a THEN t ELSE owner[a]]
            /\ surplus' = surplus \cup Astray(k, buffer)
    /\ Cardinality(surplus') <= MaxLeaked

\* Mutant: the loop of Destroy stops after the first slot.
Freed_FirstOnly(k, pointers) == {pointers[1]} \ {NULL}

\* The buffers that Destroy or destroy_result frees.
Freed(k, pointers) == {pointers[m] : m \in Slots(k)} \ {NULL}

\* The buffers are copied into Java arrays if the call succeeded, as many bytes as
\* the sizes say, on which a third picture has left its address; in any case
\* Destroy follows (finally), which gets the fields written to memory again.
Destroy(t) ==
    LET k == kind[t]
        x == held[t] IN
    /\ pc[t] = "called"
    /\ memory' = [memory EXCEPT ![k][x] = fields[k][x]]
    /\ owner' = [a \in Addresses |->
            IF a \in Freed(k, fields[k][x]) THEN NULL ELSE owner[a]]
    /\ Goto(t, "destroyed")
    /\ UNCHANGED <<kind, held, poolVars, fields, surplus>>

\* clear and returnObject.
Return(t) ==
    LET k == kind[t]
        x == held[t] IN
    /\ pc[t] = "destroyed"
    /\ memory' = [memory EXCEPT ![k][x] = Nowhere(k)]
    /\ idle' = [idle EXCEPT ![k] = @ \cup {x}]
    /\ held' = [held EXCEPT ![t] = 0]
    /\ Goto(t, "idle")
    /\ UNCHANGED <<kind, waiting, fields, owner, surplus>>

-----------------------------------------------------------------------------
\* A write beyond a structure, or a copy of as many bytes as an address is large,
\* kills the process, at once or later; its successor starts with nothing.  When
\* it does not, the pictures go on being decoded as before.
ProcessDies ==
    /\ surplus # {}
    /\ pc' = [t \in Threads |-> "idle"]
    /\ held' = [t \in Threads |-> 0]
    /\ waiting' = [k \in Kinds |-> <<>>]
    /\ idle' = [k \in Kinds |-> Structures]
    /\ fields' = [k \in Kinds |-> [x \in Structures |-> Nowhere(k)]]
    /\ memory' = [k \in Kinds |-> [x \in Structures |-> Nowhere(k)]]
    /\ owner' = [a \in Addresses |-> NULL]
    /\ surplus' = {}
    /\ UNCHANGED kind

-----------------------------------------------------------------------------
CallStep(t) == NativeCall(t) \/ Destroy(t) \/ Return(t)

Next ==
    \/ \E t \in Threads : CallStep(t) \/ \E k \in Kinds : Borrow(t, k)
    \/ \E k \in Kinds, x \in Structures : Allocate(k, x)
    \/ ProcessDies

Spec == Init /\ [][Next]_vars

\* The pool serves whoever it can, and a native call returns: it works on one
\* image or one key frame's data and waits for nothing.
FairSpec ==
    /\ Spec
    /\ \A t \in Threads : WF_vars(CallStep(t))
    /\ \A k \in Kinds : WF_vars(\E x \in Structures : Allocate(k, x))

-----------------------------------------------------------------------------
(* Properties.                                                             *)

\* A structure is in its pool or with one thread; a thread that waits stands in
\* one queue, once.
StructuresAreExclusive ==
    /\ \A t \in Threads :
        /\ held[t] # 0 <=> pc[t] \in {"borrowed", "called", "destroyed"}
        /\ held[t] # 0 => held[t] \notin idle[kind[t]]
    /\ \A t, s \in Threads :
        kind[t] = kind[s] /\ held[t] = held[s] /\ held[t] # 0 => t = s
    /\ \A k \in Kinds : \A i \in DOMAIN waiting[k] :
        /\ kind[waiting[k][i]] = k /\ pc[waiting[k][i]] = "waiting"
        /\ \A j \in DOMAIN waiting[k] : waiting[k][i] = waiting[k][j] => i = j

\* Between the native call and Destroy the structure points to buffers that
\* are allocated for this thread, each from one slot: what it copies and what
\* it frees is its own, although the structure came out of the pool with
\* pointers to buffers that are freed or belong to others by now.
PointsToOwn ==
    \A t \in Threads : pc[t] = "called" =>
        LET p == fields[kind[t]][held[t]] IN
        \A m, n \in Slots(kind[t]) : p[m] # NULL =>
            /\ owner[p[m]] = t
            /\ p[m] \notin surplus
            /\ p[m] = p[n] => m = n

\* And every buffer that is allocated will be freed, because its thread has it in
\* its structure and is still before Destroy, unless it holds a third or later
\* picture: nothing points to such a buffer, and it stays allocated.
OnlySurplusLeaks ==
    /\ \A a \in surplus : owner[a] # NULL
    /\ \A a \in Addresses \ surplus : owner[a] # NULL =>
        /\ pc[owner[a]] = "called"
        /\ \E m \in Slots(kind[owner[a]]) :
            fields[kind[owner[a]]][held[owner[a]]][m] = a

\* The inductive invariant of the proofs.
PoolInv == TypeOK /\ StructuresAreExclusive /\ PointsToOwn /\ OnlySurplusLeaks

\* What Destroy is about to free is what is allocated for the thread, but for the
\* third and later pictures of this and of earlier calls: these it leaves behind.
FreesOwnButSurplus ==
    \A t \in Threads : pc[t] = "called" =>
        Freed(kind[t], fields[kind[t]][held[t]])
            = {a \in Addresses : owner[a] = t} \ surplus

\* No thread waits for ever at a pool, however small its limit is: nobody
\* waits at one pool while holding a structure of another, and every way out of
\* a call gives the structure back.  (A process that dies lets go of them all.)
BorrowersServed == \A t \in Threads : pc[t] = "waiting" ~> pc[t] # "waiting"
=============================================================================
