--------------------------- MODULE ModelLifecycle ---------------------------
(***************************************************************************)
(* What the contexts promise, without threads or locks: the life of a      *)
(* native motion-detection instance and its registration under a token.    *)
(*                                                                         *)
(*   none -> created -> open -> closing -> closed                          *)
(*                                                                         *)
(* An instance becomes visible to frames when it is registered under a     *)
(* token that has no instance; it is withdrawn before it is disposed of;   *)
(* it is disposed of at most once and never comes back.  A registration    *)
(* may end at any time, before or after the instance is withdrawn.         *)
(***************************************************************************)
CONSTANTS Tokens, Models, NULL

VARIABLES state, registry

vars == <<state, registry>>

Init ==
    /\ state = [m \in Models |-> "none"]
    /\ registry = [t \in Tokens |-> NULL]

Advance(m, from, to) ==
    /\ state[m] = from
    /\ state' = [state EXCEPT ![m] = to]

Create(m) == Advance(m, "none", "created") /\ UNCHANGED registry

Register(t, m) ==
    /\ Advance(m, "created", "open")
    /\ registry[t] = NULL
    /\ registry' = [registry EXCEPT ![t] = m]

Withdraw(m) == Advance(m, "open", "closing") /\ UNCHANGED registry

Dispose(m) == Advance(m, "closing", "closed") /\ UNCHANGED registry

Unregister(t) ==
    /\ registry' = [registry EXCEPT ![t] = NULL]
    /\ UNCHANGED state

Next ==
    \/ \E m \in Models : Create(m) \/ Withdraw(m) \/ Dispose(m)
    \/ \E t \in Tokens : Unregister(t) \/ \E m \in Models : Register(t, m)

Spec == Init /\ [][Next]_vars
=============================================================================
