---------------------- MODULE StreamingContextsProofs ----------------------
(***************************************************************************)
(* Proofs about StreamingContexts, for any sets of tokens, workers and     *)
(* models and any interleaving of the workers with the cleaner.            *)
(***************************************************************************)
EXTENDS StreamingContexts, TLAPS

USE CleanerIsNoWorker, NullIsNoValue, MaxImagesIsNat, OverlapIsBoolean
USE DEF Actors

\* What a step does is one of these: the cases of every invariance proof.
StepCases ==
    \/ \E w \in Workers, f \in Frames : Receive(w, f)
    \/ \E w \in Workers : EnterLock(w)
    \/ \E a \in Actors : RemovePointer(a)
    \/ \E a \in Actors : DeleteInstance(a)
    \/ \E a \in Actors : DeleteInstanceFails(a)
    \/ \E a \in Actors : Unmap(a)
    \/ \E w \in Workers : Configure(w)
    \/ \E w \in Workers : NewContextFails(w)
    \/ \E w \in Workers, m \in Models : CreateInstance(w, m)
    \/ \E w \in Workers : Publish(w)
    \/ \E w \in Workers : LeaveLock(w)
    \/ \E w \in Workers : UseStep(w)
    \/ CleanerStart
    \/ \E t \in Tokens : CleanerFetch(t)
    \/ CleanerCheck
    \/ CleanerEnd
    \/ \E m \in Models : ContextExpires(m)
    \/ UNCHANGED vars

\* Every step is one of StepCases.
LEMMA NextCases == [Next]_vars => StepCases
BY DEF Next, StepCases, LockedStep, CleanerStep, Close

\* The context a lookup finds decides which label the lock holder goes to.
LEMMA AfterLookupCases ==
    ASSUME NEW action, NEW m
    PROVE  /\ AfterLookup(action, m) \in {"close", "configure", "leave"}
           /\ AfterLookup(action, m) = "close" => m # NULL
           /\ AfterLookup(action, m) = "configure" => m = NULL
BY DEF AfterLookup

\* A frame belongs to a token: all that the proofs need to know of Frames.
LEMMA FrameToken == \A f \in Frames : f.tokenMask \in Tokens
BY DEF Frames

-----------------------------------------------------------------------------
(* The inductive invariant.                                                *)

\* The invariant holds before the first frame arrives.
LEMMA LifeInit == Init => LifeInv
BY DEF Init, LifeInv, TypeOK, ThreadsConsistent, MapConsistent, PointersAreLive,
       DeleteOnce, ClosersConsistent, LockHolderUnmapsOwn, CreatorAlone,
       WorkerPCs, CleanerPCs, Locked, Closing, Using

\* Every statement of a worker or of the cleaner keeps the invariant.
LEMMA LifeStep == LifeInv /\ [Next]_vars => LifeInv'
<1> SUFFICES ASSUME LifeInv, StepCases PROVE LifeInv'
  BY NextCases
<1> USE FrameToken
<1> USE DEF LifeInv, TypeOK, ThreadsConsistent, MapConsistent, PointersAreLive,
            DeleteOnce, ClosersConsistent, LockHolderUnmapsOwn, CreatorAlone,
            WorkerPCs, CleanerPCs, Locked, Closing, Using, Goto, Return,
            mapVars, nativeVars, frameVars, timeVars, SetUtcDateTime
<1>1. ASSUME NEW w \in Workers, NEW f \in Frames, Receive(w, f) PROVE LifeInv'
  BY <1>1 DEF Receive
<1>2. ASSUME NEW w \in Workers, EnterLock(w) PROVE LifeInv'
  BY <1>2, AfterLookupCases DEF EnterLock
<1>3. ASSUME NEW a \in Actors, RemovePointer(a) PROVE LifeInv'
  BY <1>3 DEF RemovePointer
<1>4. ASSUME NEW a \in Actors, DeleteInstance(a) PROVE LifeInv'
  BY <1>4 DEF DeleteInstance
<1>5. ASSUME NEW a \in Actors, Unmap(a) PROVE LifeInv'
  BY <1>5 DEF Unmap
<1>6. ASSUME NEW w \in Workers, Configure(w) PROVE LifeInv'
  BY <1>6 DEF Configure
<1>7. ASSUME NEW w \in Workers, NewContextFails(w) PROVE LifeInv'
  BY <1>7 DEF NewContextFails
<1>8. ASSUME NEW w \in Workers, NEW m \in Models, CreateInstance(w, m) PROVE LifeInv'
  BY <1>8 DEF CreateInstance
<1>9. ASSUME NEW w \in Workers, Publish(w) PROVE LifeInv'
  BY <1>9 DEF Publish
<1>10. ASSUME NEW w \in Workers, LeaveLock(w) PROVE LifeInv'
  BY <1>10 DEF LeaveLock
<1>11. ASSUME NEW w \in Workers, UseStep(w) PROVE LifeInv'
  <2>1. CASE Touch(w)
    BY <2>1 DEF Touch
  <2>2. CASE CheckExpire(w)
    BY <2>2 DEF CheckExpire
  <2>3. CASE Decode(w)
    BY <2>3 DEF Decode
  <2>4. CASE FeedLookup(w)
    BY <2>4 DEF FeedLookup
  <2>5. CASE FeedReturns(w)
    BY <2>5 DEF FeedReturns
  <2>6. CASE Finish(w)
    BY <2>6 DEF Finish
  <2> QED BY <1>11, <2>1, <2>2, <2>3, <2>4, <2>5, <2>6 DEF UseStep
<1>12. CASE CleanerStart
  BY <1>12 DEF CleanerStart
<1>13. ASSUME NEW t \in Tokens, CleanerFetch(t) PROVE LifeInv'
  BY <1>13 DEF CleanerFetch
<1>14. CASE CleanerCheck
  BY <1>14 DEF CleanerCheck
<1>15. CASE CleanerEnd
  BY <1>15 DEF CleanerEnd
<1>16. ASSUME NEW m \in Models, ContextExpires(m) PROVE LifeInv'
  BY <1>16 DEF ContextExpires
<1>17. CASE UNCHANGED vars
  BY <1>17 DEF vars
<1>18. ASSUME NEW a \in Actors, DeleteInstanceFails(a) PROVE LifeInv'
  BY <1>18 DEF DeleteInstanceFails
<1> QED
  BY <1>1, <1>2, <1>3, <1>4, <1>5, <1>6, <1>7, <1>8, <1>9, <1>10, <1>11,
     <1>12, <1>13, <1>14, <1>15, <1>16, <1>17, <1>18 DEF StepCases

-----------------------------------------------------------------------------
\* close takes the pointer away before it unmaps, but never loses its way to unmap.
LEMMA MappedIsUsableStep == LifeInv /\ MappedIsUsable /\ [Next]_vars => MappedIsUsable'
<1> SUFFICES ASSUME LifeInv, MappedIsUsable, StepCases PROVE MappedIsUsable'
  BY NextCases
<1> USE DEF LifeInv, TypeOK, ThreadsConsistent, MapConsistent, CreatorAlone,
            WorkerPCs, CleanerPCs, Locked, Closing, Using, Goto, Return,
            mapVars, nativeVars, frameVars, timeVars, SetUtcDateTime,
            MappedIsUsable
<1>1. ASSUME NEW w \in Workers, NEW f \in Frames, Receive(w, f) PROVE MappedIsUsable'
  BY <1>1 DEF Receive
<1>2. ASSUME NEW w \in Workers, EnterLock(w) PROVE MappedIsUsable'
  BY <1>2, AfterLookupCases DEF EnterLock
<1>3. ASSUME NEW a \in Actors, RemovePointer(a) PROVE MappedIsUsable'
  BY <1>3 DEF RemovePointer
<1>4. ASSUME NEW a \in Actors, DeleteInstance(a) PROVE MappedIsUsable'
  BY <1>4 DEF DeleteInstance
<1>5. ASSUME NEW a \in Actors, Unmap(a) PROVE MappedIsUsable'
  BY <1>5 DEF Unmap
<1>6. ASSUME NEW w \in Workers, Configure(w) PROVE MappedIsUsable'
  BY <1>6 DEF Configure
<1>7. ASSUME NEW w \in Workers, NewContextFails(w) PROVE MappedIsUsable'
  BY <1>7 DEF NewContextFails
<1>8. ASSUME NEW w \in Workers, NEW m \in Models, CreateInstance(w, m) PROVE MappedIsUsable'
  BY <1>8 DEF CreateInstance
<1>9. ASSUME NEW w \in Workers, Publish(w) PROVE MappedIsUsable'
  BY <1>9 DEF Publish
<1>10. ASSUME NEW w \in Workers, LeaveLock(w) PROVE MappedIsUsable'
  BY <1>10 DEF LeaveLock
<1>11. ASSUME NEW w \in Workers, UseStep(w) PROVE MappedIsUsable'
  <2>1. CASE Touch(w)
    BY <2>1 DEF Touch
  <2>2. CASE CheckExpire(w)
    BY <2>2 DEF CheckExpire
  <2>3. CASE Decode(w)
    BY <2>3 DEF Decode
  <2>4. CASE FeedLookup(w)
    BY <2>4 DEF FeedLookup
  <2>5. CASE FeedReturns(w)
    BY <2>5 DEF FeedReturns
  <2>6. CASE Finish(w)
    BY <2>6 DEF Finish
  <2> QED BY <1>11, <2>1, <2>2, <2>3, <2>4, <2>5, <2>6 DEF UseStep
<1>12. CASE CleanerStart
  BY <1>12 DEF CleanerStart
<1>13. ASSUME NEW t \in Tokens, CleanerFetch(t) PROVE MappedIsUsable'
  BY <1>13 DEF CleanerFetch
<1>14. CASE CleanerCheck
  BY <1>14 DEF CleanerCheck
<1>15. CASE CleanerEnd
  BY <1>15 DEF CleanerEnd
<1>16. ASSUME NEW m \in Models, ContextExpires(m) PROVE MappedIsUsable'
  BY <1>16 DEF ContextExpires
<1>17. CASE UNCHANGED vars
  BY <1>17 DEF vars
<1>18. ASSUME NEW a \in Actors, DeleteInstanceFails(a) PROVE MappedIsUsable'
  BY <1>18 DEF DeleteInstanceFails
<1> QED
  BY <1>1, <1>2, <1>3, <1>4, <1>5, <1>6, <1>7, <1>8, <1>9, <1>10, <1>11,
     <1>12, <1>13, <1>14, <1>15, <1>16, <1>17, <1>18 DEF StepCases

-----------------------------------------------------------------------------
\* Only the put of newAlgorithmContext and the remove of close change what is
\* mapped, and no put of a lock holder overwrites another context.
LEMMA LeaksHaveAReasonStep == LifeInv /\ LeaksHaveAReason /\ [Next]_vars => LeaksHaveAReason'
<1> SUFFICES ASSUME LifeInv, LeaksHaveAReason, StepCases PROVE LeaksHaveAReason'
  BY NextCases
<1> USE DEF LifeInv, TypeOK, ThreadsConsistent, MapConsistent, ClosersConsistent, CreatorAlone,
            WorkerPCs, CleanerPCs, Locked, Closing, Using, Goto, Return,
            mapVars, nativeVars, frameVars, timeVars, SetUtcDateTime,
            LeaksHaveAReason
<1>1. ASSUME NEW w \in Workers, NEW f \in Frames, Receive(w, f) PROVE LeaksHaveAReason'
  BY <1>1 DEF Receive
<1>2. ASSUME NEW w \in Workers, EnterLock(w) PROVE LeaksHaveAReason'
  BY <1>2, AfterLookupCases DEF EnterLock
<1>3. ASSUME NEW a \in Actors, RemovePointer(a) PROVE LeaksHaveAReason'
  BY <1>3 DEF RemovePointer
<1>4. ASSUME NEW a \in Actors, DeleteInstance(a) PROVE LeaksHaveAReason'
  BY <1>4 DEF DeleteInstance
<1>5. ASSUME NEW a \in Actors, Unmap(a) PROVE LeaksHaveAReason'
  BY <1>5 DEF Unmap
<1>6. ASSUME NEW w \in Workers, Configure(w) PROVE LeaksHaveAReason'
  BY <1>6 DEF Configure
<1>7. ASSUME NEW w \in Workers, NewContextFails(w) PROVE LeaksHaveAReason'
  BY <1>7 DEF NewContextFails
<1>8. ASSUME NEW w \in Workers, NEW m \in Models, CreateInstance(w, m) PROVE LeaksHaveAReason'
  BY <1>8 DEF CreateInstance
<1>9. ASSUME NEW w \in Workers, Publish(w) PROVE LeaksHaveAReason'
  BY <1>9 DEF Publish
<1>10. ASSUME NEW w \in Workers, LeaveLock(w) PROVE LeaksHaveAReason'
  BY <1>10 DEF LeaveLock
<1>11. ASSUME NEW w \in Workers, UseStep(w) PROVE LeaksHaveAReason'
  <2>1. CASE Touch(w)
    BY <2>1 DEF Touch
  <2>2. CASE CheckExpire(w)
    BY <2>2 DEF CheckExpire
  <2>3. CASE Decode(w)
    BY <2>3 DEF Decode
  <2>4. CASE FeedLookup(w)
    BY <2>4 DEF FeedLookup
  <2>5. CASE FeedReturns(w)
    BY <2>5 DEF FeedReturns
  <2>6. CASE Finish(w)
    BY <2>6 DEF Finish
  <2> QED BY <1>11, <2>1, <2>2, <2>3, <2>4, <2>5, <2>6 DEF UseStep
<1>12. CASE CleanerStart
  BY <1>12 DEF CleanerStart
<1>13. ASSUME NEW t \in Tokens, CleanerFetch(t) PROVE LeaksHaveAReason'
  BY <1>13 DEF CleanerFetch
<1>14. CASE CleanerCheck
  BY <1>14 DEF CleanerCheck
<1>15. CASE CleanerEnd
  BY <1>15 DEF CleanerEnd
<1>16. ASSUME NEW m \in Models, ContextExpires(m) PROVE LeaksHaveAReason'
  BY <1>16 DEF ContextExpires
<1>17. CASE UNCHANGED vars
  BY <1>17 DEF vars
<1>18. ASSUME NEW a \in Actors, DeleteInstanceFails(a) PROVE LeaksHaveAReason'
  BY <1>18 DEF DeleteInstanceFails
<1> QED
  BY <1>1, <1>2, <1>3, <1>4, <1>5, <1>6, <1>7, <1>8, <1>9, <1>10, <1>11,
     <1>12, <1>13, <1>14, <1>15, <1>16, <1>17, <1>18 DEF StepCases

-----------------------------------------------------------------------------
\* With one task per token, a context is closed by the cleaner or by the worker
\* of its own token, and its time is written by that worker only.
LEMMA SerialInvStep == LifeInv /\ SerialInv /\ [Next]_vars => SerialInv'
<1> SUFFICES ASSUME LifeInv, SerialInv, StepCases, ~Overlap PROVE SerialInv'
  BY NextCases DEF SerialInv
<1> USE DEF LifeInv, TypeOK, ThreadsConsistent, MapConsistent, CreatorAlone,
            WorkerPCs, CleanerPCs, Locked, Closing, Using, Goto, Return,
            mapVars, nativeVars, frameVars, timeVars, SetUtcDateTime,
            SerialInv, TokensApart, MappedOrSwept, UsedOrSwept, OwnTime
<1>1. ASSUME NEW w \in Workers, NEW f \in Frames, Receive(w, f) PROVE SerialInv'
  <2> USE <1>1 DEF Receive
  <2>1. TokensApart'
    OBVIOUS
  <2>2. MappedOrSwept'
    OBVIOUS
  <2>3. UsedOrSwept' /\ OwnTime'
    OBVIOUS
  <2> QED BY <2>1, <2>2, <2>3
<1>2. ASSUME NEW w \in Workers, EnterLock(w) PROVE SerialInv'
  <2> DEFINE found == streamingContextMap[frame[w].tokenMask]
  <2>1. found # NULL => found \in pointerMap \cup swept \cup failed
    \* Nobody else is inside the lock, and w is not closing anything.
    <3>1. frame[w].tokenMask \in Tokens
      BY <1>2, FrameToken DEF EnterLock
    <3>2. \A v \in Workers : pc[v] \notin {"delete", "unmap"}
      BY <1>2 DEF EnterLock
    <3> QED BY <3>1, <3>2
  <2>2. pc' = [pc EXCEPT ![w] = AfterLookup(frame[w].action, found)]
    BY <1>2 DEF EnterLock
  <2>3. AfterLookup(frame[w].action, found) \in {"close", "configure", "leave"}
    BY AfterLookupCases
  <2>4. pc[w] = "enter" /\ ctx' = [ctx EXCEPT ![w] = found]
    BY <1>2 DEF EnterLock
  <2>5. UNCHANGED <<streamingContextMap, pointerMap, swept, failed, frame, utcLate>>
    BY <1>2 DEF EnterLock
  <2> HIDE DEF found
  <2>6. TokensApart'
    BY <2>2, <2>3, <2>4, <2>5
  <2>7. MappedOrSwept'
    BY <2>2, <2>3, <2>4, <2>5
  <2>8. UsedOrSwept'
    BY <2>1, <2>2, <2>3, <2>4, <2>5
  <2>9. OwnTime'
    BY <2>2, <2>3, <2>4, <2>5
  <2> QED BY <2>6, <2>7, <2>8, <2>9
<1>3. ASSUME NEW a \in Actors, RemovePointer(a) PROVE SerialInv'
  BY <1>3 DEF RemovePointer
<1>4. ASSUME NEW a \in Actors, DeleteInstance(a) PROVE SerialInv'
  BY <1>4 DEF DeleteInstance
<1>5. ASSUME NEW a \in Actors, Unmap(a) PROVE SerialInv'
  BY <1>5 DEF Unmap
<1>6. ASSUME NEW w \in Workers, Configure(w) PROVE SerialInv'
  BY <1>6 DEF Configure
<1>7. ASSUME NEW w \in Workers, NewContextFails(w) PROVE SerialInv'
  BY <1>7 DEF NewContextFails
<1>8. ASSUME NEW w \in Workers, NEW m \in Models, CreateInstance(w, m) PROVE SerialInv'
  BY <1>8 DEF CreateInstance
<1>9. ASSUME NEW w \in Workers, Publish(w) PROVE SerialInv'
  BY <1>9 DEF Publish
<1>10. ASSUME NEW w \in Workers, LeaveLock(w) PROVE SerialInv'
  BY <1>10 DEF LeaveLock
<1>11. ASSUME NEW w \in Workers, UseStep(w) PROVE SerialInv'
  <2>1. CASE Touch(w)
    BY <2>1 DEF Touch
  <2>2. CASE CheckExpire(w)
    BY <2>2 DEF CheckExpire
  <2>3. CASE Decode(w)
    BY <2>3 DEF Decode
  <2>4. CASE FeedLookup(w)
    BY <2>4 DEF FeedLookup
  <2>5. CASE FeedReturns(w)
    BY <2>5 DEF FeedReturns
  <2>6. CASE Finish(w)
    BY <2>6 DEF Finish
  <2> QED BY <1>11, <2>1, <2>2, <2>3, <2>4, <2>5, <2>6 DEF UseStep
<1>12. CASE CleanerStart
  BY <1>12 DEF CleanerStart
<1>13. ASSUME NEW t \in Tokens, CleanerFetch(t) PROVE SerialInv'
  BY <1>13 DEF CleanerFetch
<1>14. CASE CleanerCheck
  BY <1>14 DEF CleanerCheck
<1>15. CASE CleanerEnd
  BY <1>15 DEF CleanerEnd
<1>16. ASSUME NEW m \in Models, ContextExpires(m) PROVE SerialInv'
  BY <1>16 DEF ContextExpires
<1>17. CASE UNCHANGED vars
  BY <1>17 DEF vars
<1>18. ASSUME NEW a \in Actors, DeleteInstanceFails(a) PROVE SerialInv'
  BY <1>18 DEF DeleteInstanceFails
<1> QED
  BY <1>1, <1>2, <1>3, <1>4, <1>5, <1>6, <1>7, <1>8, <1>9, <1>10, <1>11,
     <1>12, <1>13, <1>14, <1>15, <1>16, <1>17, <1>18 DEF StepCases

-----------------------------------------------------------------------------
(* Refinement of ModelLifecycle.                                           *)

\* No instance exists and no token is registered.
LEMMA LifecycleInit == Init => Lifecycle!Init
BY DEF Init, Lifecycle!Init, lifecycle

\* create, put, remove and delete of the code are the steps of the lifecycle;
\* everything else is a stutter.
LEMMA LifecycleStep ==
    LifeInv /\ [Next]_vars => [Lifecycle!Next]_(Lifecycle!vars)
<1> SUFFICES ASSUME LifeInv, StepCases PROVE [Lifecycle!Next]_(Lifecycle!vars)
  BY NextCases
<1> USE DEF LifeInv, TypeOK, ThreadsConsistent, MapConsistent, PointersAreLive,
            DeleteOnce, ClosersConsistent, LockHolderUnmapsOwn, CreatorAlone,
            WorkerPCs, CleanerPCs, Locked, Closing, Using, Goto, Return,
            mapVars, nativeVars, frameVars, timeVars
<1> DEFINE Same == UNCHANGED <<lifecycle, streamingContextMap>>
<1>1. ASSUME NEW w \in Workers, NEW f \in Frames, Receive(w, f) PROVE Same
  BY <1>1 DEF Receive, lifecycle
<1>2. ASSUME NEW w \in Workers, EnterLock(w) PROVE Same
  BY <1>2, AfterLookupCases DEF EnterLock, lifecycle
<1>3. ASSUME NEW a \in Actors, RemovePointer(a) PROVE Same \/ Lifecycle!Next
  <2>1. CASE ctx[a] \notin pointerMap
    BY <1>3, <2>1 DEF RemovePointer, lifecycle
  <2>2. CASE ctx[a] \in pointerMap
    <3>1. Lifecycle!Withdraw(ctx[a])
      BY <1>3, <2>2 DEF RemovePointer, lifecycle, Lifecycle!Withdraw, Lifecycle!Advance
    <3> QED BY <2>2, <3>1 DEF Lifecycle!Next
  <2> QED BY <2>1, <2>2
<1>4. ASSUME NEW a \in Actors, DeleteInstance(a) PROVE Lifecycle!Next
  <2>1. ctx[a] \in Models
    BY <1>4 DEF DeleteInstance
  <2>2. Lifecycle!Dispose(ctx[a])
    BY <1>4 DEF DeleteInstance, lifecycle, Lifecycle!Dispose, Lifecycle!Advance
  <2> QED BY <2>1, <2>2 DEF Lifecycle!Next
<1>5. ASSUME NEW a \in Actors, Unmap(a) PROVE Lifecycle!Next
  <2>1. tokenMask[ctx[a]] \in Tokens
    BY <1>5 DEF Unmap
  <2>2. Lifecycle!Unregister(tokenMask[ctx[a]])
    BY <1>5 DEF Unmap, lifecycle, Lifecycle!Unregister
  <2> QED BY <2>1, <2>2 DEF Lifecycle!Next
<1>6. ASSUME NEW w \in Workers, Configure(w) PROVE Same
  BY <1>6 DEF Configure, lifecycle
<1>7. ASSUME NEW w \in Workers, NewContextFails(w) PROVE Same
  BY <1>7 DEF NewContextFails, lifecycle
<1>8. ASSUME NEW w \in Workers, NEW m \in Models, CreateInstance(w, m) PROVE Lifecycle!Next
  <2>1. lifecycle[m] = "none" /\ lifecycle'[m] = "created"
    BY <1>8 DEF CreateInstance, lifecycle
  <2>2. ASSUME NEW n \in Models \ {m} PROVE lifecycle'[n] = lifecycle[n]
    BY <1>8 DEF CreateInstance, lifecycle
  <2>3. lifecycle' = [lifecycle EXCEPT ![m] = "created"]
    <3>1. /\ lifecycle = [n \in Models |-> lifecycle[n]]
          /\ lifecycle' = [n \in Models |-> lifecycle'[n]]
      BY DEF lifecycle
    <3> QED BY <2>1, <2>2, <3>1
  <2>4. Lifecycle!Create(m)
    BY <1>8, <2>1, <2>3 DEF CreateInstance, Lifecycle!Create, Lifecycle!Advance
  <2> QED BY <2>4 DEF Lifecycle!Next
<1>9. ASSUME NEW w \in Workers, Publish(w) PROVE Lifecycle!Next
  <2>1. ctx[w] \in Models /\ frame[w].tokenMask \in Tokens
    BY <1>9 DEF Publish
  <2>2. Lifecycle!Register(frame[w].tokenMask, ctx[w])
    BY <1>9 DEF Publish, lifecycle, Lifecycle!Register, Lifecycle!Advance
  <2> QED BY <2>1, <2>2 DEF Lifecycle!Next
<1>10. ASSUME NEW w \in Workers, LeaveLock(w) PROVE Same
  BY <1>10 DEF LeaveLock, lifecycle
<1>11. ASSUME NEW w \in Workers, UseStep(w) PROVE Same
  <2>1. CASE Touch(w)
    BY <2>1 DEF Touch, lifecycle
  <2>2. CASE CheckExpire(w)
    BY <2>2 DEF CheckExpire, lifecycle
  <2>3. CASE Decode(w)
    BY <2>3 DEF Decode, lifecycle
  <2>4. CASE FeedLookup(w)
    BY <2>4 DEF FeedLookup, lifecycle
  <2>5. CASE FeedReturns(w)
    BY <2>5 DEF FeedReturns, lifecycle
  <2>6. CASE Finish(w)
    BY <2>6 DEF Finish, lifecycle
  <2> QED BY <1>11, <2>1, <2>2, <2>3, <2>4, <2>5, <2>6 DEF UseStep
<1>12. ASSUME CleanerStart PROVE Same
  BY <1>12 DEF CleanerStart, lifecycle
<1>13. ASSUME NEW t \in Tokens, CleanerFetch(t) PROVE Same
  BY <1>13 DEF CleanerFetch, lifecycle
<1>14. ASSUME CleanerCheck PROVE Same
  BY <1>14 DEF CleanerCheck, lifecycle
<1>15. ASSUME CleanerEnd PROVE Same
  BY <1>15 DEF CleanerEnd, lifecycle
<1>16. ASSUME NEW m \in Models, ContextExpires(m) PROVE Same
  BY <1>16 DEF ContextExpires, lifecycle
<1>17. ASSUME UNCHANGED vars PROVE Same
  BY <1>17 DEF vars, lifecycle
<1>18. ASSUME NEW a \in Actors, DeleteInstanceFails(a) PROVE Same \/ Lifecycle!Next
  <2>1. ctx[a] \in Models
    BY <1>18 DEF DeleteInstanceFails
  <2>2. CASE native' = native
    BY <1>18, <2>2 DEF DeleteInstanceFails, lifecycle
  <2>3. CASE native' = [native EXCEPT ![ctx[a]] = "deleted"]
    <3>1. Lifecycle!Dispose(ctx[a])
      BY <1>18, <2>3 DEF DeleteInstanceFails, lifecycle, Lifecycle!Dispose, Lifecycle!Advance
    <3> QED BY <2>1, <3>1 DEF Lifecycle!Next
  <2> QED BY <1>18, <2>2, <2>3 DEF DeleteInstanceFails
<1> QED
  BY <1>1, <1>2, <1>3, <1>4, <1>5, <1>6, <1>7, <1>8, <1>9, <1>10, <1>11,
     <1>12, <1>13, <1>14, <1>15, <1>16, <1>17, <1>18
     DEF StepCases, Lifecycle!vars

-----------------------------------------------------------------------------
(* The theorems.                                                           *)

\* Whatever the interleaving, LifeInv holds: in particular the types, and the
\* three safety properties that do not depend on how tasks overlap.
THEOREM LifeInvariant == Spec => []LifeInv
BY LifeInit, LifeStep, PTL DEF Spec

\* Every variable has its type, in particular the local variables of the threads.
THEOREM TypesCorrect == Spec => []TypeOK
BY LifeInvariant, PTL DEF LifeInv

\* feed never finds the pointer of a deleted instance (JnaInterface.close).
THEOREM PointersLive == Spec => []PointersAreLive
BY LifeInvariant, PTL DEF LifeInv

\* Two closes of one context never run the native destructor twice.
THEOREM DeletedOnce == Spec => []DeleteOnce
BY LifeInvariant, PTL DEF LifeInv

\* Under lockObject a worker unmaps the context it closed, or nothing.
THEOREM LockHolderSafe == Spec => []LockHolderUnmapsOwn
BY LifeInvariant, PTL DEF LifeInv

\* A token finds a context without native instance only if delete_instance has
\* failed for it, or while a thread is on its way to unmap it.
THEOREM MappedUsable == Spec => []MappedIsUsable
<1>1. Init => MappedIsUsable
  BY DEF Init, MappedIsUsable
<1> QED BY <1>1, LifeInvariant, MappedIsUsableStep, PTL DEF Spec

\* Native instances leak only through a close that unmaps a newer context, or
\* because their own delete_instance failed.
THEOREM NoOtherLeak == Spec => []LeaksHaveAReason
<1>1. Init => LeaksHaveAReason
  BY DEF Init, LeaksHaveAReason
<1> QED BY <1>1, LifeInvariant, LeaksHaveAReasonStep, PTL DEF Spec

\* Tasks of one token do not disturb each other as long as they do not overlap.
LEMMA SerialInvariant == Spec => []SerialInv
<1>1. Init => SerialInv
  BY DEF Init, SerialInv, TokensApart, MappedOrSwept, UsedOrSwept, OwnTime, Using
<1> QED BY <1>1, LifeInvariant, SerialInvStep, PTL DEF Spec

\* One task per token: only the cleaner can pull an instance from under a feed,
\* apart from an earlier close of it that failed.
THEOREM OnlyCleanerInterferes == Spec => []OnlyCleanerTakesInstance
<1>1. LifeInv /\ SerialInv => OnlyCleanerTakesInstance
  BY DEF LifeInv, ThreadsConsistent, SerialInv, UsedOrSwept, OnlyCleanerTakesInstance
<1> QED BY <1>1, LifeInvariant, SerialInvariant, PTL

\* One task per token: an expired frame is dropped before it is decoded.
THEOREM LateDropped == Spec => []LateFramesAreDropped
<1>1. SerialInv => LateFramesAreDropped
  BY DEF SerialInv, OwnTime, LateFramesAreDropped
<1> QED BY <1>1, SerialInvariant, PTL

\* The contexts implement the lifecycle their users rely on.
THEOREM Refinement == Spec => ImplementsLifecycle
<1>1. Spec => []LifeInv
  BY LifeInvariant
<1> QED
  BY <1>1, LifecycleInit, LifecycleStep, PTL
     DEF Spec, ImplementsLifecycle, Lifecycle!Spec
=============================================================================
