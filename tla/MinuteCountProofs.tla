------------------------- MODULE MinuteCountProofs -------------------------
(***************************************************************************)
(* Proofs about MinuteCount, for any threads, marks and minutes.           *)
(***************************************************************************)
EXTENDS MinuteCount, TLAPS

USE MaxMinutesIsNat, NullIsNothing
USE DEF counters, locals, history

\* The invariant holds for a new counter.
LEMMA CountInit == Init => CountInv
BY DEF Init, CountInv, TypeOK, TickIsExclusive, MarksUnderWay,
       ResetDropsNothing, MarksCountedOnce, MinuteClosedOnce

\* Every step of a thread or of the clock keeps the invariant.
LEMMA CountStep == CountInv /\ [Next]_vars => CountInv'
<1> SUFFICES ASSUME CountInv, [Next]_vars PROVE CountInv'
  OBVIOUS
<1> USE DEF CountInv, TypeOK, TickIsExclusive, MarksUnderWay, ResetDropsNothing,
            MarksCountedOnce, MinuteClosedOnce, Goto, AfterTick
<1>1. CASE Tick
  BY <1>1 DEF Tick
<1>2. ASSUME NEW t \in Threads, NEW k \in Marks, MarkCount(t, k) PROVE CountInv'
  BY <1>2 DEF MarkCount
<1>3. ASSUME NEW t \in Threads, GetPreMinuteCount(t) PROVE CountInv'
  BY <1>3 DEF GetPreMinuteCount
<1>4. ASSUME NEW t \in Threads, EnterTick(t) PROVE CountInv'
  BY <1>4 DEF EnterTick
<1>5. ASSUME NEW t \in Threads, TickSet(t) PROVE CountInv'
  BY <1>5 DEF TickSet
<1>6. ASSUME NEW t \in Threads, TickReset(t) PROVE CountInv'
  BY <1>6 DEF TickReset
<1>7. ASSUME NEW t \in Threads, Add(t) PROVE CountInv'
  BY <1>7 DEF Add
<1>8. ASSUME NEW t \in Threads, Read(t) PROVE CountInv'
  BY <1>8 DEF Read
<1>9. CASE UNCHANGED vars
  BY <1>9 DEF vars
<1> QED
  BY <1>1, <1>2, <1>3, <1>4, <1>5, <1>6, <1>7, <1>8, <1>9 DEF Next

\* The inductive invariant of the counter.
THEOREM CountInvariant == Spec => []CountInv
BY CountInit, CountStep, PTL DEF Spec

\* A mark is in the count of at most one minute, and one that is in none was
\* added between the two steps of a tick or before a minute without any.
THEOREM CountedOnce == Spec => []MarksCountedOnce
<1>1. CountInv => MarksCountedOnce
  BY DEF CountInv
<1> QED BY <1>1, CountInvariant, PTL
=============================================================================
