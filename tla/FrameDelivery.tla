---------------------------- MODULE FrameDelivery ----------------------------
(***************************************************************************)
(* What the consumer of a shard promises to those who handle frames,       *)
(* without threads, batches or records that are on their way.              *)
(*                                                                         *)
(* Frames are numbered.  A frame is handed over only when no frame of its  *)
(* token is waited for, and behind all frames of its token.  It is handled *)
(* once, after those of its token that are waited for; to give it up means *)
(* not to wait for it any longer, it is still handled some time.  Whoever  *)
(* has stopped hands nothing over any more.  When it all starts anew, what *)
(* was handed over is forgotten, but nothing the checkpoint covers comes   *)
(* again, as long as checkpoints are kept.                                 *)
(***************************************************************************)
EXTENDS Naturals

CONSTANTS Frames, Tokens, Durable  \* Durable: are checkpoints kept?

VARIABLES
    tokenOf,  \* the token of each frame
    open,     \* not stopped
    pending,  \* frames handed over and waited for
    late,     \* frames handed over and given up
    handled,  \* frames handled
    covered   \* the checkpoint

vars == <<tokenOf, open, pending, late, handled, covered>>

Init ==
    /\ open = TRUE
    /\ pending = {}
    /\ late = {}
    /\ handled = {}
    /\ covered = 0

OfToken(F, t) == {i \in F : tokenOf[i] = t}

HandOver(F) ==
    /\ open
    /\ \A i \in F :
        LET own == tokenOf[i] IN
        /\ own \in Tokens
        /\ covered < i
        /\ OfToken(pending, own) = {}
        /\ \A j \in OfToken(late \cup handled, own) : j < i
    /\ pending' = pending \cup F
    /\ UNCHANGED <<tokenOf, open, late, handled, covered>>

Handle(i) ==
    /\ i \in pending \cup late
    /\ \A j \in OfToken(pending, tokenOf[i]) : i <= j
    /\ pending' = pending \ {i}
    /\ late' = late \ {i}
    /\ handled' = handled \cup {i}
    /\ UNCHANGED <<tokenOf, open, covered>>

GiveUp(t) ==
    /\ pending' = pending \ OfToken(pending, t)
    /\ late' = late \cup OfToken(pending, t)
    /\ UNCHANGED <<tokenOf, open, handled, covered>>

CoverMore == covered' \in {p \in Frames \cup {covered} : covered <= p}

Checkpoint ==
    /\ CoverMore
    /\ UNCHANGED <<tokenOf, open, pending, late, handled>>

Stop ==
    /\ open' = FALSE
    /\ pending' \in {pending, {}}
    /\ CoverMore
    /\ UNCHANGED <<tokenOf, late, handled>>

StartAnew ==
    /\ open' = TRUE
    /\ pending' = {}
    /\ late' = {}
    /\ handled' = {}
    /\ covered' = IF Durable THEN covered ELSE 0
    /\ UNCHANGED tokenOf

Next ==
    \/ \E F \in SUBSET Frames : HandOver(F)
    \/ \E i \in Frames : Handle(i)
    \/ \E t \in Tokens : GiveUp(t)
    \/ Checkpoint
    \/ Stop
    \/ StartAnew

Spec == Init /\ [][Next]_vars
=============================================================================
