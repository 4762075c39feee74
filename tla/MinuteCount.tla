---------------------------- MODULE MinuteCount ----------------------------
(***************************************************************************)
(* One LastMinuteCount of ServicesMetrics: events are added to the count   *)
(* of the present minute, and the first thread that finds the clock in a   *)
(* later minute makes it the count of the last minute (tick).              *)
(*                                                                         *)
(* tick is synchronized, but markCount adds outside of it, and a tick      *)
(* reads the count and sets it to zero in two steps.  A count is the set   *)
(* of the marks in it, so that a mark can be followed.                     *)
(***************************************************************************)
EXTENDS Naturals

CONSTANTS
    Threads,
    Marks,       \* calls of markCount: bounds the run
    MaxMinutes,  \* of the clock: bounds the run
    NULL

ASSUME MaxMinutesIsNat == MaxMinutes \in Nat
ASSUME NullIsNothing == NULL \notin Threads \cup Marks

VARIABLES
    clock,             \* System.currentTimeMillis in minutes
    lastMinuteCount,
    currentCount,
    recordMinutes,
    lock,              \* the thread inside tick, or NULL
    pc,
    mark,              \* what a thread marks; NULL: it reads the last minute
    currentMinutes,    \* local in tick
    marked,            \* history: marks that were added
    counted,           \* history: marks that were in a last minute's count
    excused            \* history: marks lost for a reason named in Add or TickSet

counters == <<lastMinuteCount, currentCount, recordMinutes>>
locals == <<pc, mark, currentMinutes>>
history == <<marked, counted, excused>>
vars == <<clock, counters, lock, locals, history>>

TypeOK ==
    /\ clock \in 0 .. MaxMinutes
    /\ lastMinuteCount \subseteq Marks
    /\ currentCount \subseteq Marks
    /\ recordMinutes \in 0 .. MaxMinutes
    /\ lock \in Threads \cup {NULL}
    /\ pc \in [Threads -> {"idle", "tick", "set", "reset", "add", "read"}]
    /\ mark \in [Threads -> Marks \cup {NULL}]
    /\ currentMinutes \in [Threads -> 0 .. MaxMinutes]
    /\ marked \subseteq Marks
    /\ counted \subseteq Marks
    /\ excused \subseteq Marks

Init ==
    /\ clock = 0
    /\ lastMinuteCount = {}
    /\ currentCount = {}
    /\ recordMinutes = 0
    /\ lock = NULL
    /\ pc = [t \in Threads |-> "idle"]
    /\ mark = [t \in Threads |-> NULL]
    /\ currentMinutes = [t \in Threads |-> 0]
    /\ marked = {}
    /\ counted = {}
    /\ excused = {}

-----------------------------------------------------------------------------
Goto(t, label) == pc' = [pc EXCEPT ![t] = label]

Tick ==
    /\ clock < MaxMinutes
    /\ clock' = clock + 1
    /\ UNCHANGED <<counters, lock, locals, history>>

MarkCount(t, k) ==
    /\ pc[t] = "idle"
    /\ k \notin marked
    /\ \A s \in Threads : mark[s] # k
    /\ mark' = [mark EXCEPT ![t] = k]
    /\ Goto(t, "tick")
    /\ UNCHANGED <<clock, counters, lock, currentMinutes, history>>

\* getPreMinuteCount looks at recordMinutes without the lock.  It is a plain
\* long: the thread may see an older value, and then it ticks in vain.
GetPreMinuteCount(t) ==
    /\ pc[t] = "idle"
    /\ mark' = [mark EXCEPT ![t] = NULL]
    /\ \/ Goto(t, "tick")
       \/ clock <= recordMinutes /\ Goto(t, "read")
    /\ UNCHANGED <<clock, counters, lock, currentMinutes, history>>

AfterTick(t) == IF mark[t] = NULL THEN "read" ELSE "add"

\* Mutant: tick is not synchronized.
EnterTick_Unlocked(t) ==
    /\ pc[t] = "tick"
    /\ currentMinutes' = [currentMinutes EXCEPT ![t] = clock]
    /\ IF clock > recordMinutes
       THEN Goto(t, "set")
       ELSE Goto(t, AfterTick(t))
    /\ UNCHANGED <<clock, counters, lock, mark, history>>

\* The monitor is entered, and left at once if the minute is not over.
EnterTick(t) ==
    /\ pc[t] = "tick"
    /\ lock = NULL
    /\ currentMinutes' = [currentMinutes EXCEPT ![t] = clock]
    /\ IF clock > recordMinutes
       THEN Goto(t, "set") /\ lock' = t
       ELSE Goto(t, AfterTick(t)) /\ UNCHANGED lock
    /\ UNCHANGED <<clock, counters, mark, history>>

\* lastMinuteCount is set from the present count, or to zero when at least
\* one whole minute went by without a tick: the present count is lost then.
TickSet(t) ==
    /\ pc[t] = "set"
    /\ IF currentMinutes[t] > recordMinutes + 1
       THEN /\ lastMinuteCount' = {}
            /\ excused' = excused \cup currentCount
            /\ UNCHANGED counted
       ELSE /\ lastMinuteCount' = currentCount
            /\ counted' = counted \cup currentCount
            /\ UNCHANGED excused
    /\ Goto(t, "reset")
    /\ UNCHANGED <<clock, currentCount, recordMinutes, lock, mark, currentMinutes, marked>>

TickReset(t) ==
    /\ pc[t] = "reset"
    /\ currentCount' = {}
    /\ recordMinutes' = currentMinutes[t]
    /\ lock' = NULL
    /\ Goto(t, AfterTick(t))
    /\ UNCHANGED <<clock, lastMinuteCount, mark, currentMinutes, history>>

\* addAndGet, with or without another thread between its TickSet and TickReset;
\* what is added there is lost.
Add(t) ==
    /\ pc[t] = "add"
    /\ currentCount' = currentCount \cup {mark[t]}
    /\ marked' = marked \cup {mark[t]}
    /\ excused' = IF \E s \in Threads : pc[s] = "reset"
                  THEN excused \cup {mark[t]} ELSE excused
    /\ mark' = [mark EXCEPT ![t] = NULL]
    /\ Goto(t, "idle")
    /\ UNCHANGED <<clock, lastMinuteCount, recordMinutes, lock, currentMinutes, counted>>

Read(t) ==
    /\ pc[t] = "read"
    /\ Goto(t, "idle")
    /\ UNCHANGED <<clock, counters, lock, mark, currentMinutes, history>>

-----------------------------------------------------------------------------
Next ==
    \/ Tick
    \/ \E t \in Threads :
        \/ \E k \in Marks : MarkCount(t, k)
        \/ GetPreMinuteCount(t)
        \/ EnterTick(t) \/ TickSet(t) \/ TickReset(t)
        \/ Add(t) \/ Read(t)

Spec == Init /\ [][Next]_vars

-----------------------------------------------------------------------------
(* Properties.                                                             *)

\* The thread inside tick holds the lock.
TickIsExclusive ==
    \A t \in Threads : pc[t] \in {"set", "reset"} <=> lock = t

\* Nobody closes a minute that is closed already: the count of the last minute
\* would be overwritten with the beginning of the present one.
MinuteClosedOnce ==
    \A t \in Threads : pc[t] \in {"set", "reset"} => currentMinutes[t] > recordMinutes

\* A mark is in the count of at most one minute, though it is added outside the
\* lock: while no tick is between its two steps, nothing in the present count
\* has been counted.  A mark that is in no count was added between the two
\* steps of a tick, or a whole minute went by after it without any tick.
MarksCountedOnce ==
    /\ MinuteClosedOnce
    /\ (\A t \in Threads : pc[t] # "reset") => currentCount \cap counted = {}
    /\ marked \subseteq currentCount \cup counted \cup excused

\* A mark on its way to Add is not in any count yet, and no other thread has it.
MarksUnderWay ==
    /\ \A t \in Threads : mark[t] # NULL => mark[t] \notin marked
    /\ \A t \in Threads : pc[t] = "add" => mark[t] # NULL
    /\ \A t \in Threads : pc[t] \in {"idle", "read"} => mark[t] = NULL
    /\ \A t, s \in Threads : mark[t] = mark[s] /\ mark[t] # NULL => t = s
    /\ currentCount \subseteq marked
    /\ counted \subseteq marked

\* What TickReset is about to drop is counted or excused.
ResetDropsNothing ==
    (\E t \in Threads : pc[t] = "reset") => currentCount \subseteq counted \cup excused

\* The inductive invariant of the proofs.
CountInv ==
    /\ TypeOK
    /\ TickIsExclusive
    /\ MarksUnderWay
    /\ ResetDropsNothing
    /\ MarksCountedOnce
=============================================================================
