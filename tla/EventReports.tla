---------------------------- MODULE EventReports ----------------------------
(***************************************************************************)
(* From a motion result to the motion and object events of a stream.       *)
(*                                                                         *)
(* The pool thread that handles a stream's frames calls the two feed       *)
(* listeners one after the other.  The first posts a motion event, the     *)
(* second hands an object request to the single-threaded executor that     *)
(* the hash of the stream selects; that thread asks the object service     *)
(* and posts an object event.  After either event the token is marked in   *)
(* a cache whose entries live for sixty seconds, and as long as the mark   *)
(* is there no further event of that kind is started.                      *)
(*                                                                         *)
(* Only frames for which the algorithm reported motion are modelled; the   *)
(* k-th such frame of a stream stands for its time, too.                   *)
(***************************************************************************)
EXTENDS Naturals, Sequences, FiniteSets

CONSTANTS
    Streams,    \* tokenMasks; each has one task at a time (see ShardConsumer)
    Tokens,
    TokenOf,    \* tokenMask.split(",")[0]
    Threads,    \* the single-threaded executors of ObjectRecognitionImpl
    ThreadOf,   \* Math.abs(tokenMask.hashCode()) % threadNum
    QueueSize,  \* capacity of each executor's ArrayBlockingQueue
    MaxFrames,  \* frames of each stream: bounds the run
    NULL

ASSUME TokenOfType == TokenOf \in [Streams -> Tokens]
ASSUME ThreadOfType == ThreadOf \in [Streams -> Threads]
ASSUME QueueSizeIsPositive == QueueSize \in Nat \ {0}
ASSUME MaxFramesAreNat == MaxFrames \in [Streams -> Nat]

VARIABLES
    pc,                  \* where each stream's task is
    utcDate,             \* the frame each stream is at
    tokenMotion60sFlag,  \* tokens marked in each of the two caches
    tokenObject60sFlag,
    queue,               \* requests waiting for each object thread
    running,             \* the request each object thread works on, or NULL
    threadPc,            \* where each object thread is
    objectContextTime,   \* ObjectContext.utcDateTime of each stream
    motionRecent,        \* history: tokens with a motion event in the last interval
    objectBurst,         \* history: object events of a token since it was last free
    lastObject           \* history: frame of a stream's last object event

flagVars == <<tokenMotion60sFlag, tokenObject60sFlag>>
taskVars == <<pc, utcDate>>
threadVars == <<queue, running, threadPc, objectContextTime>>
historyVars == <<motionRecent, objectBurst, lastObject>>
vars == <<taskVars, flagVars, threadVars, historyVars>>

Times == Nat
Requests == [stream : Streams, utcDate : Times]

ASSUME NullIsNoRequest == NULL \notin Requests

TypeOK ==
    /\ pc \in [Streams -> {"idle", "motion", "motionPost", "motionMark", "object", "submit"}]
    /\ utcDate \in [Streams -> Times]
    /\ tokenMotion60sFlag \subseteq Tokens
    /\ tokenObject60sFlag \subseteq Tokens
    /\ queue \in [Threads -> Seq(Requests)]
    /\ \A x \in Threads : Len(queue[x]) <= QueueSize
    /\ running \in [Threads -> Requests \cup {NULL}]
    /\ threadPc \in [Threads -> {"idle", "request", "post", "mark"}]
    /\ \A x \in Threads : running[x] = NULL <=> threadPc[x] = "idle"
    /\ objectContextTime \in [Streams -> Times]
    /\ motionRecent \subseteq Tokens
    /\ objectBurst \in [Tokens -> Nat]
    /\ lastObject \in [Streams -> Times]

Init ==
    /\ pc = [s \in Streams |-> "idle"]
    /\ utcDate = [s \in Streams |-> 0]
    /\ tokenMotion60sFlag = {}
    /\ tokenObject60sFlag = {}
    /\ queue = [x \in Threads |-> <<>>]
    /\ running = [x \in Threads |-> NULL]
    /\ threadPc = [x \in Threads |-> "idle"]
    /\ objectContextTime = [s \in Streams |-> 0]
    /\ motionRecent = {}
    /\ objectBurst = [t \in Tokens |-> 0]
    /\ lastObject = [s \in Streams |-> 0]

-----------------------------------------------------------------------------
(* The task of a stream: ExecAction calls the two listeners.               *)

Goto(s, label) == pc' = [pc EXCEPT ![s] = label]

\* The algorithm has reported motion in the next frame of the stream.
FeedResult(s) ==
    /\ pc[s] = "idle"
    /\ utcDate[s] < MaxFrames[s]
    /\ utcDate' = [utcDate EXCEPT ![s] = @ + 1]
    /\ Goto(s, "motion")
    /\ UNCHANGED <<flagVars, threadVars, historyVars>>

\* The stream has no motion configuration, or its token is marked, or the
\* event may be reported.
MotionCheck(s) ==
    /\ pc[s] = "motion"
    /\ \/ Goto(s, "object")
       \/ TokenOf[s] \notin tokenMotion60sFlag /\ Goto(s, "motionPost")
    /\ UNCHANGED <<utcDate, flagVars, threadVars, historyVars>>

\* The image is encoded, if that does not fail, and the event posted.
PostMotion(s) ==
    /\ pc[s] = "motionPost"
    /\ \/ /\ Goto(s, "motionMark")
          /\ motionRecent' = motionRecent \cup {TokenOf[s]}
       \/ Goto(s, "object") /\ UNCHANGED motionRecent
    /\ UNCHANGED <<utcDate, flagVars, threadVars, objectBurst, lastObject>>

\* Mutant: the mark is forgotten.
MarkMotion_Forgets(s) ==
    /\ pc[s] = "motionMark"
    /\ Goto(s, "object")
    /\ UNCHANGED <<utcDate, flagVars, threadVars, historyVars>>

MarkMotion(s) ==
    /\ pc[s] = "motionMark"
    /\ tokenMotion60sFlag' = tokenMotion60sFlag \cup {TokenOf[s]}
    /\ Goto(s, "object")
    /\ UNCHANGED <<utcDate, tokenObject60sFlag, threadVars, historyVars>>

\* The stream has no object configuration, or its token is marked, or the
\* frame is late by now; or a request is submitted.
ObjectCheck(s) ==
    /\ pc[s] = "object"
    /\ \/ Goto(s, "idle")
       \/ TokenOf[s] \notin tokenObject60sFlag /\ Goto(s, "submit")
    /\ UNCHANGED <<utcDate, flagVars, threadVars, historyVars>>

\* Mutant: a request that does not fit waits for room.
Submit_Waits(s) ==
    LET x == ThreadOf[s]
        request == [stream |-> s, utcDate |-> utcDate[s]] IN
    /\ pc[s] = "submit"
    /\ Len(queue[x]) < QueueSize
    /\ queue' = [queue EXCEPT ![x] = Append(@, request)]
    /\ Goto(s, "idle")
    /\ UNCHANGED <<utcDate, flagVars, running, threadPc, objectContextTime, historyVars>>

\* Mutant: requests go to any thread.
Submit_AnyThread(s) ==
    LET request == [stream |-> s, utcDate |-> utcDate[s]] IN
    /\ pc[s] = "submit"
    /\ \E x \in Threads :
        queue' = [queue EXCEPT ![x] = IF Len(@) < QueueSize THEN Append(@, request) ELSE @]
    /\ Goto(s, "idle")
    /\ UNCHANGED <<utcDate, flagVars, running, threadPc, objectContextTime, historyVars>>

\* Mutant: the queue has no limit.
Submit_Unbounded(s) ==
    LET x == ThreadOf[s]
        request == [stream |-> s, utcDate |-> utcDate[s]] IN
    /\ pc[s] = "submit"
    /\ queue' = [queue EXCEPT ![x] = Append(@, request)]
    /\ Goto(s, "idle")
    /\ UNCHANGED <<utcDate, flagVars, running, threadPc, objectContextTime, historyVars>>

\* AbortPolicy: a request that does not fit into the queue is dropped.
Submit(s) ==
    LET x == ThreadOf[s]
        request == [stream |-> s, utcDate |-> utcDate[s]] IN
    /\ pc[s] = "submit"
    /\ queue' = [queue EXCEPT ![x] = IF Len(@) < QueueSize THEN Append(@, request) ELSE @]
    /\ Goto(s, "idle")
    /\ UNCHANGED <<utcDate, flagVars, running, threadPc, objectContextTime, historyVars>>

-----------------------------------------------------------------------------
(* The object threads: handle2.                                            *)

Stream(x) == running[x].stream

\* The thread takes a request and writes its time into the object context.
\* (The cleaner of ObjectContextManager only makes findOrCreate create it anew.)
Take(x) ==
    /\ threadPc[x] = "idle"
    /\ queue[x] # <<>>
    /\ running' = [running EXCEPT ![x] = Head(queue[x])]
    /\ queue' = [queue EXCEPT ![x] = Tail(@)]
    /\ objectContextTime' =
        [objectContextTime EXCEPT ![Head(queue[x]).stream] = Head(queue[x]).utcDate]
    /\ threadPc' = [threadPc EXCEPT ![x] = "request"]
    /\ UNCHANGED <<taskVars, flagVars, historyVars>>

\* The object service answers, and something matches; or it fails or nothing does.
Answer(x) ==
    /\ threadPc[x] = "request"
    /\ \/ threadPc' = [threadPc EXCEPT ![x] = "post"] /\ UNCHANGED running
       \/ /\ threadPc' = [threadPc EXCEPT ![x] = "idle"]
          /\ running' = [running EXCEPT ![x] = NULL]
    /\ UNCHANGED <<taskVars, flagVars, queue, objectContextTime, historyVars>>

\* The event carries the time that is in the object context now.
PostObject(x) ==
    /\ threadPc[x] = "post"
    /\ threadPc' = [threadPc EXCEPT ![x] = "mark"]
    /\ objectBurst' = [objectBurst EXCEPT ![TokenOf[Stream(x)]] = @ + 1]
    /\ lastObject' = [lastObject EXCEPT ![Stream(x)] = objectContextTime[Stream(x)]]
    /\ UNCHANGED <<taskVars, flagVars, queue, running, objectContextTime, motionRecent>>

MarkObject(x) ==
    /\ threadPc[x] = "mark"
    /\ tokenObject60sFlag' = tokenObject60sFlag \cup {TokenOf[Stream(x)]}
    /\ threadPc' = [threadPc EXCEPT ![x] = "idle"]
    /\ running' = [running EXCEPT ![x] = NULL]
    /\ UNCHANGED <<taskVars, tokenMotion60sFlag, queue, objectContextTime, historyVars>>

-----------------------------------------------------------------------------
(* Sixty seconds after the last mark of the token.                         *)

MotionFlagExpires(t) ==
    /\ t \in tokenMotion60sFlag
    /\ tokenMotion60sFlag' = tokenMotion60sFlag \ {t}
    /\ motionRecent' = motionRecent \ {t}
    /\ UNCHANGED <<taskVars, tokenObject60sFlag, threadVars, objectBurst, lastObject>>

ObjectFlagExpires(t) ==
    /\ t \in tokenObject60sFlag
    /\ tokenObject60sFlag' = tokenObject60sFlag \ {t}
    /\ objectBurst' = [objectBurst EXCEPT ![t] = 0]
    /\ UNCHANGED <<taskVars, tokenMotion60sFlag, threadVars, motionRecent, lastObject>>

-----------------------------------------------------------------------------
ListenerStep(s) ==
    \/ MotionCheck(s)
    \/ PostMotion(s)
    \/ MarkMotion(s)
    \/ ObjectCheck(s)
    \/ Submit(s)

ThreadStep(x) == Take(x) \/ Answer(x) \/ PostObject(x) \/ MarkObject(x)

Next ==
    \/ \E s \in Streams : FeedResult(s) \/ ListenerStep(s)
    \/ \E x \in Threads : ThreadStep(x)
    \/ \E t \in Tokens : MotionFlagExpires(t) \/ ObjectFlagExpires(t)

Spec == Init /\ [][Next]_vars

\* The pool threads run; nothing is assumed about the object service.
FairSpec == Spec /\ \A s \in Streams : WF_vars(ListenerStep(s))

-----------------------------------------------------------------------------
(* Properties.                                                             *)

OneStreamPerToken == \A s, r \in Streams : TokenOf[s] = TokenOf[r] => s = r

\* Check and mark of a motion event are two steps, but the frames of a stream
\* are handled one after the other: between two motion events of a token its
\* mark expires, as long as the token has one stream only.
MotionOncePerInterval ==
    [][\A s \in Streams :
        OneStreamPerToken /\ pc[s] = "motionPost" /\ pc'[s] = "motionMark" =>
            TokenOf[s] \notin motionRecent]_vars

\* Requests submitted before the first object event of a token is marked all
\* may become events; the queue limits them to one that runs, one that is about
\* to be submitted, and the queue.
ObjectBurstBounded ==
    OneStreamPerToken => \A t \in Tokens : objectBurst[t] <= QueueSize + 2

\* The object context is shared by all requests of a stream and written before
\* the service is asked; the event is stamped from it after the answer, and
\* still gets the time of its own request.
EventHasOwnTime ==
    \A x \in Threads : threadPc[x] = "post" =>
        objectContextTime[Stream(x)] = running[x].utcDate

\* All that is known of a stream is of frames it has had; a frame whose request
\* is not submitted yet is newer than all that.
NewerThan(s, time) == time <= utcDate[s] /\ (pc[s] # "idle" => time < utcDate[s])

\* A request on its way is in the queue of its stream's thread, newer than the
\* stream's last event, and followed by newer ones only.
QueuesInOrder ==
    /\ \A s \in Streams : NewerThan(s, lastObject[s])
    /\ \A x \in Threads : \A i \in DOMAIN queue[x] :
        LET r == queue[x][i] IN
        /\ ThreadOf[r.stream] = x
        /\ NewerThan(r.stream, r.utcDate)
        /\ lastObject[r.stream] < r.utcDate
        /\ \A j \in DOMAIN queue[x] :
            i < j /\ queue[x][j].stream = r.stream => r.utcDate < queue[x][j].utcDate

\* So is the request that a thread works on, and the object context has its time.
RunningInOrder ==
    \A x \in Threads : running[x] # NULL =>
        LET r == running[x] IN
        /\ ThreadOf[r.stream] = x
        /\ NewerThan(r.stream, r.utcDate)
        /\ objectContextTime[r.stream] = r.utcDate
        /\ threadPc[x] # "mark" => lastObject[r.stream] < r.utcDate
        /\ \A i \in DOMAIN queue[x] :
            queue[x][i].stream = r.stream => r.utcDate < queue[x][i].utcDate

\* A token with a recent motion event is marked or about to be; whoever is about
\* to post has no recent event.
RecentIsMarked ==
    /\ \A t \in motionRecent :
        \/ t \in tokenMotion60sFlag
        \/ \E s \in Streams : TokenOf[s] = t /\ pc[s] = "motionMark"
    /\ OneStreamPerToken =>
        \A s \in Streams : pc[s] = "motionPost" => TokenOf[s] \notin motionRecent

\* The inductive invariant of the proofs.
RepInv == TypeOK /\ QueuesInOrder /\ RunningInOrder /\ RecentIsMarked

\* Requests of a stream in a queue.
Waiting(q, s) == Cardinality({i \in DOMAIN q : q[i].stream = s})

One(condition) == IF condition THEN 1 ELSE 0

InHand(s) ==
    LET x == ThreadOf[s] IN threadPc[x] \in {"request", "post"} /\ Stream(x) = s

\* While its token is marked, a stream submits nothing new: the events of the
\* burst and all that may still become one stay together within the limit.
\* While it is not marked, the only event is the one about to be marked.
BurstCounted ==
    OneStreamPerToken =>
        /\ \A s \in Streams :
            LET t == TokenOf[s]
                x == ThreadOf[s] IN
            /\ t \in tokenObject60sFlag =>
                objectBurst[t] + Waiting(queue[x], s) + One(InHand(s)) + One(pc[s] = "submit")
                    <= QueueSize + 2
            /\ t \notin tokenObject60sFlag =>
                objectBurst[t] <= One(threadPc[x] = "mark" /\ Stream(x) = s)
        /\ \A t \in Tokens : (\A s \in Streams : TokenOf[s] # t) => objectBurst[t] = 0

\* The object events of a stream come in the order of its frames.
ObjectEventsInOrder ==
    [][\A s \in Streams : lastObject'[s] # lastObject[s] =>
        lastObject'[s] > lastObject[s]]_vars

\* Neither a full queue nor an object service that never answers keeps a
\* stream's task from going on to the next frame.
StreamsDoNotWait == \A s \in Streams : pc[s] # "idle" ~> pc[s] = "idle"

\* OBJECT_REPORT_INTERVAL_SECOND = 60, "having triggered an object event once,
\* keep it for 60 seconds" (MotionAndObjectReportManager:9, :17): one object
\* event of a token per interval.
ObjectOncePerInterval ==
    [][\A x \in Threads : threadPc[x] = "post" /\ threadPc'[x] = "mark" =>
        TokenOf[Stream(x)] \notin tokenObject60sFlag]_vars
=============================================================================
