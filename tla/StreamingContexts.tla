------------------------- MODULE StreamingContexts -------------------------
(***************************************************************************)
(* The algorithm contexts of the camera streams.                           *)
(*                                                                         *)
(* StreamingContextManager keeps one StreamingContext per token (camera    *)
(* stream); a context owns one native motion-detection instance, reached   *)
(* through the pointerMap of JnaInterface.  The pool threads ("workers")   *)
(* find or create the context of a frame while they hold lockObject and    *)
(* feed the native instance after they have released it.  The scheduled    *)
(* cleaner closes contexts that got no data for ten minutes and takes no   *)
(* lock at all.                                                            *)
(*                                                                         *)
(* A context and its native instance are created together and point to     *)
(* each other for life (StreamingContext.algorithm is never reassigned),   *)
(* so a member of Models stands for both.                                  *)
(***************************************************************************)
EXTENDS Naturals, FiniteSets

CONSTANTS
    Tokens,      \* tokenMasks, the partition keys of the Kinesis stream
    Workers,     \* threads of ProcessorManagerImpl.threadPool
    Cleaner,     \* the thread that runs cleanExpiredContext
    Models,      \* model ids (random UUIDs): a fresh one per context; bounds the run
    MaxImages,   \* the most images JnaInterface.decode returns for one frame
    Overlap,     \* may two tasks of one token run at the same time?
    Lateness,    \* BOOLEAN, or {FALSE} where no frame is delayed
    NULL

ASSUME CleanerIsNoWorker == Cleaner \notin Workers
ASSUME NullIsNoValue == NULL \notin Models /\ NULL \notin Workers
ASSUME MaxImagesIsNat == MaxImages \in Nat
ASSUME OverlapIsBoolean == Overlap \in BOOLEAN
ASSUME LatenessIsBoolean == Lateness \subseteq BOOLEAN

VARIABLES
    streamingContextMap,  \* tokenMask -> its context, or NULL
    tokenMask,            \* the field tokenMask of each context
    pointerMap,           \* models whose native pointer JnaInterface holds
    native,               \* life of each native instance
    lockObject,           \* the worker inside synchronized (lockObject), or NULL
    pc,                   \* where each thread is
    frame,                \* the frame each worker handles, or NULL
    ctx,                  \* each thread's local variable "context"
    images,               \* images each worker still has to feed
    fresh,                \* contexts whose contextUpdateTimestamp is recent
    utcLate,              \* contexts whose utcDateTime is older than max.delayed.time
    unvisited,            \* tokens the cleaner's iterator has not reached
    swept,                \* history: models whose pointer the cleaner removed
    failed,               \* history: models whose delete_instance failed
    orphaned              \* history: contexts unmapped by the close of another one

mapVars == <<streamingContextMap, tokenMask, orphaned>>
nativeVars == <<pointerMap, native, swept, failed>>
frameVars == <<frame, images>>
timeVars == <<fresh, utcLate>>
vars == <<mapVars, nativeVars, lockObject, pc, frameVars, ctx, timeVars, unvisited>>

Actors == Workers \cup {Cleaner}
Actions == {"open", "exec", "close", "other"}
Frames == [tokenMask : Tokens, action : Actions, late : Lateness]

Locked == {"close", "delete", "unmap", "configure", "create", "publish", "leave"}
Closing == {"close", "delete", "unmap"}
Using == {"touch", "expiry", "decode", "images", "feeding"}
WorkerPCs == {"idle", "enter"} \cup Locked \cup Using
CleanerPCs == {"sleep", "scan", "check"} \cup Closing

TypeOK ==
    /\ streamingContextMap \in [Tokens -> Models \cup {NULL}]
    /\ tokenMask \in [Models -> Tokens \cup {NULL}]
    /\ pointerMap \subseteq Models
    /\ native \in [Models -> {"none", "live", "deleted"}]
    /\ lockObject \in Workers \cup {NULL}
    /\ pc \in [Actors -> WorkerPCs \cup CleanerPCs]
    /\ \A w \in Workers : pc[w] \in WorkerPCs
    /\ pc[Cleaner] \in CleanerPCs
    /\ frame \in [Workers -> Frames \cup {NULL}]
    /\ ctx \in [Actors -> Models \cup {NULL}]
    /\ images \in [Workers -> 0 .. MaxImages]
    /\ fresh \subseteq Models
    /\ utcLate \subseteq Models
    /\ unvisited \subseteq Tokens
    /\ swept \subseteq Models
    /\ failed \subseteq Models
    /\ orphaned \subseteq Models

Init ==
    /\ streamingContextMap = [t \in Tokens |-> NULL]
    /\ tokenMask = [m \in Models |-> NULL]
    /\ pointerMap = {}
    /\ native = [m \in Models |-> "none"]
    /\ lockObject = NULL
    /\ pc = [a \in Actors |-> IF a = Cleaner THEN "sleep" ELSE "idle"]
    /\ frame = [w \in Workers |-> NULL]
    /\ ctx = [a \in Actors |-> NULL]
    /\ images = [w \in Workers |-> 0]
    /\ fresh = {}
    /\ utcLate = {}
    /\ unvisited = {}
    /\ swept = {}
    /\ failed = {}
    /\ orphaned = {}

-----------------------------------------------------------------------------
Goto(a, label) == pc' = [pc EXCEPT ![a] = label]

\* actionHandle returns: the thread is ready for the next frame.
Return(w) ==
    /\ Goto(w, "idle")
    /\ ctx' = [ctx EXCEPT ![w] = NULL]
    /\ frame' = [frame EXCEPT ![w] = NULL]
    /\ images' = [images EXCEPT ![w] = 0]

\* context.setUtcDateTime(frame's utcDateTime)
SetUtcDateTime(m, f) ==
    utcLate' = IF f.late THEN utcLate \cup {m} ELSE utcLate \ {m}

\* Mutant: a batch is handed out without waiting for the previous one.
Receive_NoWait(w, f) ==
    /\ pc[w] = "idle"
    /\ frame' = [frame EXCEPT ![w] = f]
    /\ Goto(w, "enter")
    /\ UNCHANGED <<mapVars, nativeVars, lockObject, ctx, images, timeVars, unvisited>>

\* A pool thread takes a frame of some token's task.  RecordProcessor waits
\* for a token's previous task, so tasks of one token overlap only when that
\* wait timed out (Overlap).
Receive(w, f) ==
    /\ pc[w] = "idle"
    /\ Overlap \/ \A v \in Workers : pc[v] # "idle" => frame[v].tokenMask # f.tokenMask
    /\ frame' = [frame EXCEPT ![w] = f]
    /\ Goto(w, "enter")
    /\ UNCHANGED <<mapVars, nativeVars, lockObject, ctx, images, timeVars, unvisited>>

\* Mutant: "open" does not close the context it replaces.
AfterLookup_OpenKeepsOld(action, m) ==
    CASE action = "open"  -> "configure"
      [] action = "exec"  -> IF m = NULL THEN "configure" ELSE "leave"
      [] action = "close" -> IF m = NULL THEN "leave" ELSE "close"
      [] OTHER            -> "leave"

\* Where the action of the frame leads, given the context found in the map.
AfterLookup(action, m) ==
    CASE action = "open"  -> IF m = NULL THEN "configure" ELSE "close"
      [] action = "exec"  -> IF m = NULL THEN "configure" ELSE "leave"
      [] action = "close" -> IF m = NULL THEN "leave" ELSE "close"
      [] OTHER            -> "leave"

\* Mutant: no synchronized block.
EnterLock_NoMutex(w) ==
    LET found == streamingContextMap[frame[w].tokenMask] IN
    /\ pc[w] = "enter"
    /\ lockObject' = w
    /\ ctx' = [ctx EXCEPT ![w] = found]
    /\ Goto(w, AfterLookup(frame[w].action, found))
    /\ UNCHANGED <<mapVars, nativeVars, frameVars, timeVars, unvisited>>

EnterLock(w) ==
    LET found == streamingContextMap[frame[w].tokenMask] IN
    /\ pc[w] = "enter"
    /\ lockObject = NULL
    /\ lockObject' = w
    /\ ctx' = [ctx EXCEPT ![w] = found]
    /\ Goto(w, AfterLookup(frame[w].action, found))
    /\ UNCHANGED <<mapVars, nativeVars, frameVars, timeVars, unvisited>>

-----------------------------------------------------------------------------
(* close(context), run by the lock holder or by the cleaner.               *)

\* Mutant: pointerMap.get where the code has remove.
RemovePointer_Get(a) ==
    /\ pc[a] = "close"
    /\ Goto(a, IF ctx[a] \in pointerMap THEN "delete" ELSE "unmap")
    /\ UNCHANGED <<mapVars, nativeVars, lockObject, frameVars, ctx, timeVars, unvisited>>

\* JnaInterface.close: pointerMap.remove hands the pointer to one caller only.
RemovePointer(a) ==
    /\ pc[a] = "close"
    /\ Goto(a, IF ctx[a] \in pointerMap THEN "delete" ELSE "unmap")
    /\ pointerMap' = pointerMap \ {ctx[a]}
    /\ swept' = IF a = Cleaner /\ ctx[a] \in pointerMap THEN swept \cup {ctx[a]} ELSE swept
    /\ UNCHANGED <<mapVars, native, failed, lockObject, frameVars, ctx, timeVars, unvisited>>

\* Mutant: "open" does not unmap the old context, as put will overwrite it.
DeleteInstance_OpenOverwrites(a) ==
    LET opens == a # Cleaner /\ frame[a].action = "open" IN
    /\ pc[a] = "delete"
    /\ native' = [native EXCEPT ![ctx[a]] = "deleted"]
    /\ Goto(a, IF opens THEN "configure" ELSE "unmap")
    /\ ctx' = [ctx EXCEPT ![a] = IF opens THEN NULL ELSE @]
    /\ UNCHANGED <<mapVars, pointerMap, swept, failed, lockObject, frameVars, timeVars, unvisited>>

\* algorithmLibrary.delete_instance(pointer)
DeleteInstance(a) ==
    /\ pc[a] = "delete"
    /\ native' = [native EXCEPT ![ctx[a]] = "deleted"]
    /\ Goto(a, "unmap")
    /\ UNCHANGED <<mapVars, pointerMap, swept, failed, lockObject, frameVars, ctx, timeVars, unvisited>>

\* The call of delete_instance throws, with the instance deleted or not.  The
\* pointer is gone, but the context stays mapped: the exception leaves the
\* synchronized block and drops the frame, and the cleaner goes on scanning.
DeleteInstanceFails(a) ==
    /\ pc[a] = "delete"
    /\ failed' = failed \cup {ctx[a]}
    /\ native' \in {native, [native EXCEPT ![ctx[a]] = "deleted"]}
    /\ \/ /\ a = Cleaner
          /\ Goto(a, "scan")
          /\ ctx' = [ctx EXCEPT ![a] = NULL]
          /\ UNCHANGED <<lockObject, frameVars>>
       \/ /\ a # Cleaner
          /\ lockObject' = NULL
          /\ Return(a)
    /\ UNCHANGED <<mapVars, pointerMap, swept, timeVars, unvisited>>

\* streamingContextMap.remove(context.getTokenMask()): by key, whatever the value.
Unmap(a) ==
    LET t == tokenMask[ctx[a]] IN
    /\ pc[a] = "unmap"
    /\ streamingContextMap' = [streamingContextMap EXCEPT ![t] = NULL]
    /\ orphaned' = orphaned \cup ({streamingContextMap[t]} \ {ctx[a], NULL})
    /\ ctx' = [ctx EXCEPT ![a] = NULL]
    /\ Goto(a, IF a = Cleaner THEN "scan"
               ELSE IF frame[a].action = "open" THEN "configure" ELSE "leave")
    /\ UNCHANGED <<tokenMask, nativeVars, lockObject, frameVars, timeVars, unvisited>>

-----------------------------------------------------------------------------
(* newAlgorithmContext, run by the lock holder.                            *)

\* getAlgorithmConfig answers with a usable base configuration.
Configure(w) ==
    /\ pc[w] = "configure"
    /\ Goto(w, "create")
    /\ UNCHANGED <<mapVars, nativeVars, lockObject, frameVars, ctx, timeVars, unvisited>>

\* The remote query fails, the base configuration is missing, or no native
\* instance can be created: the exception leaves the synchronized block and
\* actionHandle drops the frame.
NewContextFails(w) ==
    /\ pc[w] \in {"configure", "create"}
    /\ lockObject' = NULL
    /\ Return(w)
    /\ UNCHANGED <<mapVars, nativeVars, timeVars, unvisited>>

\* create_instance, pointerMap.put and the constructor of StreamingContext.
CreateInstance(w, m) ==
    /\ pc[w] = "create"
    /\ native[m] = "none"
    /\ native' = [native EXCEPT ![m] = "live"]
    /\ pointerMap' = pointerMap \cup {m}
    /\ tokenMask' = [tokenMask EXCEPT ![m] = frame[w].tokenMask]
    /\ fresh' = fresh \cup {m}
    /\ SetUtcDateTime(m, frame[w])
    /\ ctx' = [ctx EXCEPT ![w] = m]
    /\ Goto(w, "publish")
    /\ UNCHANGED <<streamingContextMap, orphaned, swept, failed, lockObject, frameVars, unvisited>>

\* streamingContextMap.put(tokenMask, context)
Publish(w) ==
    /\ pc[w] = "publish"
    /\ streamingContextMap' = [streamingContextMap EXCEPT ![frame[w].tokenMask] = ctx[w]]
    /\ Goto(w, "leave")
    /\ UNCHANGED <<tokenMask, orphaned, nativeVars, lockObject, frameVars, ctx, timeVars, unvisited>>

-----------------------------------------------------------------------------
(* Outside the lock: the context is touched, then fed.                     *)

LeaveLock(w) ==
    /\ pc[w] = "leave"
    /\ lockObject' = NULL
    /\ IF ctx[w] = NULL
       THEN Return(w)
       ELSE Goto(w, "touch") /\ UNCHANGED <<ctx, frameVars>>
    /\ UNCHANGED <<mapVars, nativeVars, timeVars, unvisited>>

\* Mutant: the context keeps the time of the frame that created it.
Touch_NoTime(w) ==
    /\ pc[w] = "touch"
    /\ fresh' = fresh \cup {ctx[w]}
    /\ Goto(w, "expiry")
    /\ UNCHANGED <<mapVars, nativeVars, lockObject, frameVars, ctx, utcLate, unvisited>>

\* setUtcDateTime and setContextUpdateTimestamp
Touch(w) ==
    /\ pc[w] = "touch"
    /\ fresh' = fresh \cup {ctx[w]}
    /\ SetUtcDateTime(ctx[w], frame[w])
    /\ Goto(w, "expiry")
    /\ UNCHANGED <<mapVars, nativeVars, lockObject, frameVars, ctx, unvisited>>

\* isDataExpire reads the time back from the shared context.
CheckExpire(w) ==
    /\ pc[w] = "expiry"
    /\ IF ctx[w] \in utcLate
       THEN Return(w)
       ELSE Goto(w, "decode") /\ UNCHANGED <<ctx, frameVars>>
    /\ UNCHANGED <<mapVars, nativeVars, lockObject, timeVars, unvisited>>

\* A frame that cannot be decoded gives no image.
Decode(w) ==
    /\ pc[w] = "decode"
    /\ \E n \in 0 .. MaxImages : images' = [images EXCEPT ![w] = n]
    /\ Goto(w, "images")
    /\ UNCHANGED <<mapVars, nativeVars, lockObject, frame, ctx, timeVars, unvisited>>

\* JnaInterface.feed looks the pointer up; a missing one aborts the frame.
FeedLookup(w) ==
    /\ pc[w] = "images"
    /\ images[w] > 0
    /\ IF ctx[w] \in pointerMap
       THEN Goto(w, "feeding") /\ UNCHANGED <<ctx, frameVars>>
       ELSE Return(w)
    /\ UNCHANGED <<mapVars, nativeVars, lockObject, timeVars, unvisited>>

\* The native feed2 call on that pointer comes back; a result that cannot be
\* parsed aborts the frame.
FeedReturns(w) ==
    /\ pc[w] = "feeding"
    /\ \/ /\ images' = [images EXCEPT ![w] = @ - 1]
          /\ Goto(w, "images")
          /\ UNCHANGED <<frame, ctx>>
       \/ Return(w)
    /\ UNCHANGED <<mapVars, nativeVars, lockObject, timeVars, unvisited>>

\* No image is left: the listeners have been called and actionHandle returns.
Finish(w) ==
    /\ pc[w] = "images"
    /\ images[w] = 0
    /\ Return(w)
    /\ UNCHANGED <<mapVars, nativeVars, lockObject, timeVars, unvisited>>

-----------------------------------------------------------------------------
(* cleanExpiredContext, every ten minutes, without lockObject.             *)

CleanerStart ==
    /\ pc[Cleaner] = "sleep"
    /\ unvisited' = Tokens
    /\ Goto(Cleaner, "scan")
    /\ UNCHANGED <<mapVars, nativeVars, lockObject, frameVars, ctx, timeVars>>

\* The weakly consistent iterator reads the value of an entry ...
CleanerFetch(t) ==
    LET found == streamingContextMap[t] IN
    /\ pc[Cleaner] = "scan"
    /\ t \in unvisited
    /\ unvisited' = unvisited \ {t}
    /\ ctx' = [ctx EXCEPT ![Cleaner] = found]
    /\ Goto(Cleaner, IF found = NULL THEN "scan" ELSE "check")
    /\ UNCHANGED <<mapVars, nativeVars, lockObject, frameVars, timeVars>>

\* Mutant: the comparison of the two times is the wrong way round.
CleanerCheck_Inverted ==
    LET expired == ctx[Cleaner] \in fresh IN
    /\ pc[Cleaner] = "check"
    /\ Goto(Cleaner, IF expired THEN "close" ELSE "scan")
    /\ ctx' = [ctx EXCEPT ![Cleaner] = IF expired THEN @ ELSE NULL]
    /\ UNCHANGED <<mapVars, nativeVars, lockObject, frameVars, timeVars, unvisited>>

\* ... and contextUpdateTimestamp is tested later, when the entry may be stale.
CleanerCheck ==
    LET expired == ctx[Cleaner] \notin fresh IN
    /\ pc[Cleaner] = "check"
    /\ Goto(Cleaner, IF expired THEN "close" ELSE "scan")
    /\ ctx' = [ctx EXCEPT ![Cleaner] = IF expired THEN @ ELSE NULL]
    /\ UNCHANGED <<mapVars, nativeVars, lockObject, frameVars, timeVars, unvisited>>

CleanerEnd ==
    /\ pc[Cleaner] = "scan"
    /\ unvisited = {}
    /\ Goto(Cleaner, "sleep")
    /\ UNCHANGED <<mapVars, nativeVars, lockObject, frameVars, ctx, timeVars, unvisited>>

\* Ten minutes go by without data for a context.
ContextExpires(m) ==
    /\ m \in fresh
    /\ fresh' = fresh \ {m}
    /\ UNCHANGED <<mapVars, nativeVars, lockObject, pc, frameVars, ctx, utcLate, unvisited>>

-----------------------------------------------------------------------------
Close(a) == RemovePointer(a) \/ DeleteInstance(a) \/ DeleteInstanceFails(a) \/ Unmap(a)

\* The steps of a worker inside findOrCreateStreamingContext's lock.
LockedStep(w) ==
    \/ Close(w)
    \/ Configure(w)
    \/ NewContextFails(w)
    \/ \E m \in Models : CreateInstance(w, m)
    \/ Publish(w)
    \/ LeaveLock(w)

UseStep(w) ==
    \/ Touch(w)
    \/ CheckExpire(w)
    \/ Decode(w)
    \/ FeedLookup(w)
    \/ FeedReturns(w)
    \/ Finish(w)

CleanerStep ==
    \/ CleanerStart
    \/ \E t \in Tokens : CleanerFetch(t)
    \/ CleanerCheck
    \/ Close(Cleaner)
    \/ CleanerEnd

Next ==
    \/ \E w \in Workers :
        \/ \E f \in Frames : Receive(w, f)
        \/ EnterLock(w)
        \/ LockedStep(w)
        \/ UseStep(w)
    \/ CleanerStep
    \/ \E m \in Models : ContextExpires(m)

Spec == Init /\ [][Next]_vars

\* The scheduler's thread is not stopped for ever between two statements.
\* Nothing is assumed of the workers: the remote query inside the lock may never
\* return, and who waits for lockObject may never get it.
FairSpec == Spec /\ WF_vars(CleanerStep)

-----------------------------------------------------------------------------
(* Properties.                                                             *)

\* A pointer that feed can still find in pointerMap is never one that has
\* been deleted: close removes it before it deletes, on every path.
PointersAreLive == \A m \in pointerMap : native[m] = "live"

\* Of all threads that close one context at the same time (the lock holder and
\* the cleaner), only one reaches delete_instance, and only once: the native
\* destructor is never run twice on one instance.
DeleteOnce ==
    \A a \in Actors : pc[a] = "delete" =>
        /\ native[ctx[a]] = "live"
        /\ \A b \in Actors \ {a} : pc[b] = "delete" => ctx[b] # ctx[a]

\* A context that can be found in the map can be fed, or some thread is on its
\* way to unmap it, or a close of it has failed at delete_instance.  Every later
\* "exec" frame that finds a context without pointer keeps it alive and fails with
\* "Not found algorithmModelPointer".
MappedIsUsable ==
    \A t \in Tokens :
        LET m == streamingContextMap[t] IN
        m # NULL =>
            \/ m \in pointerMap \cup failed
            \/ \E a \in Actors : ctx[a] = m /\ pc[a] \in {"delete", "unmap"}

\* The remove-by-key of a lock holder hits its own context or nothing: only
\* the cleaner, which holds no lock, can unmap a context it did not close.
LockHolderUnmapsOwn ==
    \A w \in Workers : pc[w] \in Closing =>
        streamingContextMap[tokenMask[ctx[w]]] \in {ctx[w], NULL}

\* A native instance is leaked for two reasons only: a close of an older context
\* of its token has unmapped its context (orphaned), or its own delete_instance
\* has failed.  Any other live instance is mapped, about to be published, or
\* about to be deleted.
LeaksHaveAReason ==
    \A m \in Models : native[m] = "live" =>
        \/ \E t \in Tokens : streamingContextMap[t] = m
        \/ \E a \in Actors : ctx[a] = m /\ pc[a] \in {"publish", "delete"}
        \/ m \in orphaned \cup failed

\* As long as one token has one task at a time, the native instance a worker
\* uses can be missing only because the cleaner took it, before or during the
\* use, or because an earlier close failed half-way.
OnlyCleanerTakesInstance ==
    ~Overlap => \A w \in Workers : pc[w] \in Using =>
        ctx[w] \in pointerMap \cup swept \cup failed

\* As long as one token has one task at a time, a frame older than
\* max.delayed.time.msce is never decoded or fed, although its time is read
\* back from the context that all frames of the token share.
LateFramesAreDropped ==
    ~Overlap => \A w \in Workers :
        pc[w] \in {"decode", "images", "feeding"} => ~frame[w].late

\* A context that stays without data is unmapped by the cleaner, although
\* entries come and go under its iterator, a delete_instance may fail on the way
\* and a worker may hold lockObject for ever.
ExpiredIsUnmapped ==
    \A t \in Tokens, m \in Models :
        (streamingContextMap[t] = m /\ m \notin fresh)
            ~> (streamingContextMap[t] # m \/ m \in fresh)

-----------------------------------------------------------------------------
(* Why the safety properties hold: an inductive invariant.                 *)

\* What each thread's local variables are worth at each point.
ThreadsConsistent ==
    /\ \A w \in Workers :
        /\ pc[w] # "idle" => frame[w] \in Frames
        /\ pc[w] = "feeding" => images[w] > 0
        /\ pc[w] \in Locked <=> lockObject = w
        /\ ctx[w] # NULL => pc[w] # "idle" /\ tokenMask[ctx[w]] = frame[w].tokenMask
        /\ pc[w] \in {"configure", "create"} => ctx[w] = NULL
    /\ \A a \in Actors :
        /\ pc[a] \in Closing \cup Using \cup {"check", "publish"} => ctx[a] # NULL
        /\ ctx[a] # NULL => native[ctx[a]] # "none" /\ tokenMask[ctx[a]] \in Tokens

\* A context is only ever mapped under its own token.
MapConsistent ==
    \A t \in Tokens : streamingContextMap[t] # NULL =>
        /\ native[streamingContextMap[t]] # "none"
        /\ tokenMask[streamingContextMap[t]] = t

\* An instance whose pointer was removed is gone for feed, and the thread that
\* removed the pointer still has to delete it or has failed to.
ClosersConsistent ==
    /\ \A a \in Actors : pc[a] \in {"delete", "unmap"} => ctx[a] \notin pointerMap
    /\ \A m \in Models : native[m] = "live" /\ m \notin pointerMap =>
            \/ \E a \in Actors : pc[a] = "delete" /\ ctx[a] = m
            \/ m \in failed

\* Until it is published, a new context is known to its creator only, and the
\* creator has made sure that the token has no other.
CreatorAlone ==
    \A w \in Workers :
        /\ pc[w] \in {"configure", "create", "publish"} =>
            streamingContextMap[frame[w].tokenMask] = NULL
        /\ pc[w] = "publish" =>
            /\ ctx[w] \in pointerMap
            /\ \A t \in Tokens : streamingContextMap[t] # ctx[w]
            /\ \A a \in Actors \ {w} : ctx[a] # ctx[w]

LifeInv ==
    /\ TypeOK
    /\ ThreadsConsistent
    /\ MapConsistent
    /\ PointersAreLive
    /\ DeleteOnce
    /\ ClosersConsistent
    /\ LockHolderUnmapsOwn
    /\ CreatorAlone

\* With one task per token at a time (no Overlap): two busy workers are on
\* different tokens, ...
TokensApart ==
    \A w, v \in Workers :
        w # v /\ pc[w] # "idle" /\ pc[v] # "idle" =>
            frame[w].tokenMask # frame[v].tokenMask

\* ... a mapped context can lose its pointer to the cleaner or to the worker of
\* its token only, unless a close of it has failed, ...
MappedOrSwept ==
    \A t \in Tokens :
        LET m == streamingContextMap[t] IN
        m # NULL => \/ m \in pointerMap \cup swept \cup failed
                    \/ \E w \in Workers : ctx[w] = m /\ pc[w] \in {"delete", "unmap"}

UsedOrSwept ==
    \A w \in Workers :
        pc[w] \in Using \cup {"leave"} /\ ctx[w] # NULL =>
            ctx[w] \in pointerMap \cup swept \cup failed

\* ... and nobody but the worker of the frame changes the time it is about to
\* read back.
OwnTime ==
    \A w \in Workers :
        /\ pc[w] = "expiry" => (ctx[w] \in utcLate <=> frame[w].late)
        /\ pc[w] \in {"decode", "images", "feeding"} => ~frame[w].late

SerialInv == ~Overlap => TokensApart /\ MappedOrSwept /\ UsedOrSwept /\ OwnTime

-----------------------------------------------------------------------------
(* The life of a context as its users see it: ModelLifecycle.              *)

lifecycle == [m \in Models |->
    IF native[m] = "none" THEN "none"
    ELSE IF native[m] = "deleted" THEN "closed"
    ELSE IF m \notin pointerMap THEN "closing"
    ELSE IF \E w \in Workers : pc[w] = "publish" /\ ctx[w] = m THEN "created"
    ELSE "open"]

Lifecycle == INSTANCE ModelLifecycle WITH state <- lifecycle, registry <- streamingContextMap

\* The locking of StreamingContextManager and JnaInterface implements the
\* lifecycle: a context is registered once, under a token that has none, and
\* its instance is withdrawn from the callers before it is deleted, once.
ImplementsLifecycle == Lifecycle!Spec
=============================================================================
