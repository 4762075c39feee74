------------------------- MODULE EventReportsProofs -------------------------
(***************************************************************************)
(* Proofs about EventReports, for any streams, tokens and threads, queues  *)
(* of any size and streams of any length.                                  *)
(***************************************************************************)
EXTENDS EventReports, FiniteSetTheorems, TLAPS

USE TokenOfType, ThreadOfType, QueueSizeIsPositive, NullIsNoRequest
USE DEF flagVars, taskVars, threadVars, historyVars

\* What the prover needs to know of requests.
LEMMA RequestFields ==
    /\ \A s \in Streams, time \in Times : [stream |-> s, utcDate |-> time] \in Requests
    /\ \A r \in Requests : r.stream \in Streams /\ r.utcDate \in Times
BY DEF Requests

\* Times are numbers.
LEMMA TimesAreNat == \A time \in Times : time \in Nat
BY DEF Times

\* Requests in the queues and at the threads are requests.
LEMMA OnTheirWay ==
    ASSUME TypeOK
    PROVE  /\ \A x \in Threads : \A i \in DOMAIN queue[x] :
                /\ queue[x][i] \in Requests
                /\ queue[x][i].stream \in Streams /\ queue[x][i].utcDate \in Times
           /\ \A x \in Threads : running[x] # NULL =>
                /\ running[x] \in Requests
                /\ running[x].stream \in Streams /\ running[x].utcDate \in Times
<1>1. \A x \in Threads : \A i \in DOMAIN queue[x] : queue[x][i] \in Requests
  BY DEF TypeOK
<1>2. \A x \in Threads : running[x] # NULL => running[x] \in Requests
  BY DEF TypeOK
<1> QED BY <1>1, <1>2, RequestFields

\* The invariant holds before the first frame.
LEMMA RepInit == Init => RepInv
<1> SUFFICES ASSUME Init PROVE RepInv
  OBVIOUS
<1>0. 0 \in Times
  BY DEF Times
<1>1. TypeOK
  BY <1>0 DEF Init, TypeOK
<1>2. QueuesInOrder /\ RunningInOrder /\ RecentIsMarked
  BY DEF Init, QueuesInOrder, RunningInOrder, RecentIsMarked, NewerThan
<1> QED BY <1>1, <1>2 DEF RepInv

-----------------------------------------------------------------------------
(* The steps of a stream's task.                                           *)

\* A step that only moves a task between the checks keeps the order.
LEMMA MovesKeepOrder ==
    ASSUME RepInv, NEW s \in Streams, pc[s] # "idle",
           UNCHANGED <<utcDate, queue, running, threadPc, objectContextTime, lastObject>>,
           NEW label, pc' = [pc EXCEPT ![s] = label]
    PROVE  QueuesInOrder' /\ RunningInOrder'
<1>1. \A r \in Streams : \A time : NewerThan(r, time) => NewerThan(r, time)'
  BY DEF RepInv, TypeOK, NewerThan
<1>2. QueuesInOrder'
  BY <1>1, OnTheirWay DEF RepInv, QueuesInOrder
<1>3. RunningInOrder'
  BY <1>1, OnTheirWay DEF RepInv, RunningInOrder
<1> QED BY <1>2, <1>3

\* Reporting motion in the next frame.
LEMMA FeedResultStep ==
    ASSUME RepInv, NEW s \in Streams, FeedResult(s) PROVE RepInv'
<1> USE RequestFields, TimesAreNat
<1>1. TypeOK'
  <2>1. utcDate' \in [Streams -> Times]
    BY DEF RepInv, TypeOK, FeedResult, Times
  <2> QED BY <2>1 DEF RepInv, TypeOK, FeedResult, Goto
<1>2. \A r \in Streams : \A time \in Times : NewerThan(r, time) => NewerThan(r, time)'
  BY DEF RepInv, TypeOK, NewerThan, FeedResult, Goto
<1>3. QueuesInOrder'
  BY <1>2 DEF RepInv, TypeOK, QueuesInOrder, FeedResult
<1>4. RunningInOrder'
  BY <1>2 DEF RepInv, TypeOK, RunningInOrder, FeedResult
<1>5. RecentIsMarked'
  BY DEF RepInv, TypeOK, RecentIsMarked, OneStreamPerToken, FeedResult, Goto
<1> QED BY <1>1, <1>3, <1>4, <1>5 DEF RepInv

\* The checks, the motion event, its mark.
LEMMA ListenerMoves ==
    ASSUME RepInv, NEW s \in Streams,
           MotionCheck(s) \/ PostMotion(s) \/ MarkMotion(s) \/ ObjectCheck(s)
    PROVE  RepInv'
<1>1. TypeOK'
  <2>1. pc' \in [Streams -> {"idle", "motion", "motionPost", "motionMark", "object", "submit"}]
    BY DEF RepInv, TypeOK, MotionCheck, PostMotion, MarkMotion, ObjectCheck, Goto
  <2>2. motionRecent' \subseteq Tokens /\ tokenMotion60sFlag' \subseteq Tokens
    BY DEF RepInv, TypeOK, MotionCheck, PostMotion, MarkMotion, ObjectCheck
  <2>3. UNCHANGED <<utcDate, tokenObject60sFlag, threadVars, objectBurst, lastObject>>
    BY DEF MotionCheck, PostMotion, MarkMotion, ObjectCheck
  <2> QED BY <2>1, <2>2, <2>3 DEF RepInv, TypeOK
<1>2. QueuesInOrder' /\ RunningInOrder'
  BY MovesKeepOrder DEF MotionCheck, PostMotion, MarkMotion, ObjectCheck, Goto
<1>3. RecentIsMarked'
  <2> USE DEF RepInv, TypeOK, RecentIsMarked, OneStreamPerToken, Goto
  <2>1. CASE MotionCheck(s)
    BY <2>1 DEF MotionCheck
  <2>2. CASE PostMotion(s)
    <3>1. ASSUME NEW t \in motionRecent'
          PROVE  \/ t \in tokenMotion60sFlag'
                 \/ \E r \in Streams : TokenOf[r] = t /\ pc'[r] = "motionMark"
      BY <2>2, <3>1 DEF PostMotion
    <3>2. ASSUME OneStreamPerToken, NEW r \in Streams, pc'[r] = "motionPost"
          PROVE  TokenOf[r] \notin motionRecent'
      <4>1. r # s /\ pc[r] = "motionPost"
        BY <2>2, <3>2 DEF PostMotion
      <4> QED BY <2>2, <3>2, <4>1 DEF PostMotion
    <3> QED BY <3>1, <3>2
  <2>3. CASE MarkMotion(s)
    BY <2>3 DEF MarkMotion
  <2>4. CASE ObjectCheck(s)
    BY <2>4 DEF ObjectCheck
  <2> QED BY <2>1, <2>2, <2>3, <2>4
<1> QED BY <1>1, <1>2, <1>3 DEF RepInv

\* Handing over a request, or dropping it.
LEMMA SubmitStep ==
    ASSUME RepInv, NEW s \in Streams, Submit(s) PROVE RepInv'
<1> USE RequestFields, TimesAreNat
<1> DEFINE x == ThreadOf[s]
           request == [stream |-> s, utcDate |-> utcDate[s]]
<1>1. request \in Requests /\ request.stream = s /\ request.utcDate = utcDate[s]
  BY DEF RepInv, TypeOK
<1>2. \A r \in Streams : \A time \in Times : NewerThan(r, time) => NewerThan(r, time)'
  BY DEF RepInv, TypeOK, NewerThan, Submit, Goto
<1>3. NewerThan(s, utcDate[s])'
  BY DEF RepInv, TypeOK, NewerThan, Submit, Goto
<1>4. RecentIsMarked'
  BY DEF RepInv, TypeOK, RecentIsMarked, OneStreamPerToken, Submit, Goto
<1>5. CASE queue' = queue
  <2>1. TypeOK'
    BY <1>5 DEF RepInv, TypeOK, Submit, Goto
  <2>2. QueuesInOrder'
    BY <1>2, <1>5 DEF RepInv, TypeOK, QueuesInOrder, Submit
  <2>3. RunningInOrder'
    BY <1>2, <1>5 DEF RepInv, TypeOK, RunningInOrder, Submit
  <2> QED BY <1>4, <2>1, <2>2, <2>3 DEF RepInv
<1>6. CASE Len(queue[x]) < QueueSize /\ queue' = [queue EXCEPT ![x] = Append(@, request)]
  <2> HIDE DEF request
  <2>1. TypeOK'
    <3>1. queue' \in [Threads -> Seq(Requests)]
      BY <1>1, <1>6 DEF RepInv, TypeOK
    <3>2. \A y \in Threads : Len(queue'[y]) <= QueueSize
      BY <1>1, <1>6 DEF RepInv, TypeOK
    <3> QED BY <3>1, <3>2 DEF RepInv, TypeOK, Submit, Goto
  <2>2. QueuesInOrder'
    <3>1. \A r \in Streams : NewerThan(r, lastObject[r])'
      BY <1>2 DEF RepInv, TypeOK, QueuesInOrder, Submit
    <3>2. ASSUME NEW y \in Threads, NEW i \in DOMAIN queue'[y]
          PROVE  /\ ThreadOf[queue'[y][i].stream] = y
                 /\ NewerThan(queue[y][i].stream, queue[y][i].utcDate)'
                 /\ lastObject[queue'[y][i].stream] < queue'[y][i].utcDate
      <4>1. CASE i \in DOMAIN queue[y] /\ queue'[y][i] = queue[y][i]
        BY <1>2, <4>1, OnTheirWay DEF RepInv, QueuesInOrder
      <4>2. CASE y = x /\ queue'[y][i] = request
        BY <1>1, <1>3, <4>2 DEF RepInv, TypeOK, QueuesInOrder, NewerThan, Submit
      <4> QED BY <1>1, <1>6, <4>1, <4>2 DEF RepInv, TypeOK
    <3>3. ASSUME NEW y \in Threads, NEW i \in DOMAIN queue'[y], NEW j \in DOMAIN queue'[y],
                 i < j, queue'[y][j].stream = queue'[y][i].stream
          PROVE  queue'[y][i].utcDate < queue'[y][j].utcDate
      <4>1. i \in DOMAIN queue[y] /\ queue'[y][i] = queue[y][i]
        BY <1>1, <1>6, <3>3 DEF RepInv, TypeOK
      <4>2. CASE j \in DOMAIN queue[y] /\ queue'[y][j] = queue[y][j]
        BY <3>3, <4>1, <4>2 DEF RepInv, QueuesInOrder
      <4>3. CASE y = x /\ queue'[y][j] = request
        BY <1>1, <3>3, <4>1, <4>3 DEF RepInv, QueuesInOrder, NewerThan, Submit
      <4> QED BY <1>1, <1>6, <4>2, <4>3 DEF RepInv, TypeOK
    <3>4. lastObject' = lastObject
      BY DEF Submit
    <3> QED BY <3>1, <3>2, <3>3, <3>4 DEF QueuesInOrder
  <2>3. RunningInOrder'
    <3> SUFFICES ASSUME NEW y \in Threads, running[y] # NULL
                 PROVE  /\ ThreadOf[running[y].stream] = y
                        /\ NewerThan(running[y].stream, running[y].utcDate)'
                        /\ objectContextTime[running[y].stream] = running[y].utcDate
                        /\ threadPc[y] # "mark" => lastObject[running[y].stream] < running[y].utcDate
                        /\ \A i \in DOMAIN queue'[y] :
                            queue'[y][i].stream = running[y].stream =>
                                running[y].utcDate < queue'[y][i].utcDate
      BY DEF RunningInOrder, Submit
    <3>1. NewerThan(running[y].stream, running[y].utcDate)'
      <4>1. UNCHANGED running
        BY DEF Submit
      <4> QED BY <1>2, <4>1, OnTheirWay DEF RepInv, RunningInOrder
    <3>2. ASSUME NEW i \in DOMAIN queue'[y], queue'[y][i].stream = running[y].stream
          PROVE  running[y].utcDate < queue'[y][i].utcDate
      <4>1. CASE i \in DOMAIN queue[y] /\ queue'[y][i] = queue[y][i]
        BY <3>2, <4>1 DEF RepInv, RunningInOrder
      <4>2. CASE y = x /\ queue'[y][i] = request
        BY <1>1, <3>2, <4>2 DEF RepInv, RunningInOrder, NewerThan, Submit
      <4> QED BY <1>1, <1>6, <4>1, <4>2 DEF RepInv, TypeOK
    <3> QED BY <3>1, <3>2 DEF RepInv, RunningInOrder
  <2> QED BY <1>4, <2>1, <2>2, <2>3 DEF RepInv
<1> QED BY <1>5, <1>6 DEF Submit, RepInv, TypeOK

-----------------------------------------------------------------------------
(* The steps of an object thread.                                          *)

\* Taking the oldest request.
LEMMA TakeStep ==
    ASSUME RepInv, NEW x \in Threads, Take(x) PROVE RepInv'
<1> USE RequestFields, TimesAreNat
<1>1. /\ Head(queue[x]) \in Requests /\ Tail(queue[x]) \in Seq(Requests)
      /\ Len(Tail(queue[x])) = Len(queue[x]) - 1
      /\ \A i \in DOMAIN Tail(queue[x]) :
            Tail(queue[x])[i] = queue[x][i + 1] /\ i + 1 \in DOMAIN queue[x]
      /\ Head(queue[x]) = queue[x][1] /\ 1 \in DOMAIN queue[x]
  BY DEF RepInv, TypeOK, Take
<1>2. TypeOK'
  <2>1. running' \in [Threads -> Requests \cup {NULL}]
    BY <1>1 DEF RepInv, TypeOK, Take
  <2>2. queue' \in [Threads -> Seq(Requests)]
    BY <1>1 DEF RepInv, TypeOK, Take
  <2>3. \A y \in Threads : Len(queue'[y]) <= QueueSize
    BY <1>1 DEF RepInv, TypeOK, Take
  <2>4. objectContextTime' \in [Streams -> Times]
    BY <1>1 DEF RepInv, TypeOK, Take
  <2>5. \A y \in Threads : running'[y] = NULL <=> threadPc'[y] = "idle"
    BY <1>1 DEF RepInv, TypeOK, Take
  <2> QED BY <2>1, <2>2, <2>3, <2>4, <2>5 DEF RepInv, TypeOK, Take
<1>3. \A r \in Streams : \A time : NewerThan(r, time) => NewerThan(r, time)'
  BY DEF NewerThan, Take
<1>4. QueuesInOrder'
  <2>1. \A y \in Threads : \A i \in DOMAIN queue'[y] :
            \/ y # x /\ i \in DOMAIN queue[y] /\ queue'[y][i] = queue[y][i]
            \/ y = x /\ i + 1 \in DOMAIN queue[y] /\ queue'[y][i] = queue[y][i + 1] /\ i \in Nat
    BY <1>1 DEF RepInv, TypeOK, Take
  <2>2. lastObject' = lastObject
    BY DEF Take
  <2>3. \A y \in Threads : \A i \in DOMAIN queue'[y] :
            /\ ThreadOf[queue'[y][i].stream] = y
            /\ NewerThan(queue[y][i].stream, queue[y][i].utcDate)'
            /\ lastObject[queue'[y][i].stream] < queue'[y][i].utcDate
    BY <1>3, <2>1, OnTheirWay DEF RepInv, QueuesInOrder
  <2>4. ASSUME NEW y \in Threads, NEW i \in DOMAIN queue'[y], NEW j \in DOMAIN queue'[y],
               i < j, queue'[y][j].stream = queue'[y][i].stream
        PROVE  queue'[y][i].utcDate < queue'[y][j].utcDate
    <3>1. CASE y # x
      BY <2>1, <2>4, <3>1 DEF RepInv, QueuesInOrder
    <3>2. CASE y = x
      <4>1. i + 1 \in DOMAIN queue[x] /\ j + 1 \in DOMAIN queue[x] /\ i + 1 < j + 1
        BY <2>1, <2>4, <3>2
      <4> QED BY <2>1, <2>4, <3>2, <4>1 DEF RepInv, QueuesInOrder
    <3> QED BY <3>1, <3>2
  <2> QED BY <1>3, <2>2, <2>3, <2>4 DEF RepInv, QueuesInOrder
<1>5. RunningInOrder'
  <2> SUFFICES ASSUME NEW y \in Threads, running'[y] # NULL
               PROVE  LET r == running'[y] IN
                      /\ ThreadOf[r.stream] = y
                      /\ r.utcDate <= utcDate[r.stream]
                      /\ pc[r.stream] # "idle" => r.utcDate < utcDate[r.stream]
                      /\ objectContextTime'[r.stream] = r.utcDate
                      /\ threadPc'[y] # "mark" => lastObject[r.stream] < r.utcDate
                      /\ \A i \in DOMAIN queue'[y] :
                          queue'[y][i].stream = r.stream => r.utcDate < queue'[y][i].utcDate
    BY DEF RunningInOrder, NewerThan, Take
  <2>1. CASE y = x
    <3>1. running'[y] = queue[x][1] /\ queue[x][1] \in Requests
      BY <1>1, <2>1 DEF RepInv, TypeOK, Take
    <3>2. objectContextTime'[queue[x][1].stream] = queue[x][1].utcDate
      BY <1>1, <3>1 DEF RepInv, TypeOK, Take
    <3>3. \A i \in DOMAIN queue'[x] : i + 1 \in DOMAIN queue[x] /\ 1 < i + 1
                                     /\ queue'[x][i] = queue[x][i + 1]
      BY <1>1 DEF RepInv, TypeOK, Take
    <3> QED BY <1>1, <2>1, <3>1, <3>2, <3>3 DEF RepInv, QueuesInOrder, NewerThan
  <2>2. CASE y # x
    <3>1. running'[y] = running[y] /\ queue'[y] = queue[y] /\ threadPc'[y] = threadPc[y]
      BY <2>2 DEF RepInv, TypeOK, Take
    <3>2. running[y].stream # queue[x][1].stream /\ running[y].stream \in Streams
      BY <1>1, <2>2, <3>1, OnTheirWay DEF RepInv, QueuesInOrder, RunningInOrder
    <3>3. objectContextTime'[running[y].stream] = objectContextTime[running[y].stream]
      BY <1>1, <3>2 DEF RepInv, TypeOK, Take
    <3> QED BY <3>1, <3>3 DEF RepInv, RunningInOrder, NewerThan
  <2> QED BY <2>1, <2>2
<1>6. RecentIsMarked'
  BY DEF RepInv, RecentIsMarked, Take
<1> QED BY <1>2, <1>4, <1>5, <1>6 DEF RepInv

\* The answer of the object service.
LEMMA AnswerStep ==
    ASSUME RepInv, NEW x \in Threads, Answer(x) PROVE RepInv'
<1> USE RequestFields, TimesAreNat
<1>1. TypeOK'
  BY DEF RepInv, TypeOK, Answer
<1>2. QueuesInOrder'
  BY DEF RepInv, QueuesInOrder, NewerThan, Answer
<1>3. RunningInOrder'
  <2>1. \A y \in Threads : running'[y] # NULL =>
            /\ running'[y] = running[y]
            /\ threadPc'[y] # "mark" => threadPc[y] # "mark"
    BY DEF RepInv, TypeOK, Answer
  <2>2. UNCHANGED <<utcDate, pc, queue, objectContextTime, lastObject>>
    BY DEF Answer
  <2> QED BY <2>1, <2>2 DEF RepInv, RunningInOrder, NewerThan
<1>4. RecentIsMarked'
  BY DEF RepInv, RecentIsMarked, Answer
<1> QED BY <1>1, <1>2, <1>3, <1>4 DEF RepInv

\* The object event.
LEMMA PostObjectStep ==
    ASSUME RepInv, NEW x \in Threads, PostObject(x) PROVE RepInv'
<1> USE RequestFields, TimesAreNat
<1>1. /\ running[x] \in Requests /\ running[x] # NULL
      /\ objectContextTime[Stream(x)] = running[x].utcDate
  BY DEF RepInv, TypeOK, RunningInOrder, PostObject, Stream
<1>0. /\ Stream(x) \in Streams
      /\ lastObject' = [lastObject EXCEPT ![Stream(x)] = running[x].utcDate]
      /\ lastObject'[Stream(x)] = running[x].utcDate
      /\ \A s \in Streams : s # Stream(x) => lastObject'[s] = lastObject[s]
  BY <1>1 DEF RepInv, TypeOK, PostObject, Stream
<1>2. TypeOK'
  BY <1>1 DEF RepInv, TypeOK, PostObject, Stream
<1>3. QueuesInOrder'
  <2>1. ASSUME NEW s \in Streams PROVE NewerThan(s, lastObject[s])'
    <3>1. UNCHANGED <<pc, utcDate>>
      BY DEF PostObject
    <3>2. CASE s = Stream(x)
      BY <1>0, <1>1, <3>1, <3>2 DEF RepInv, RunningInOrder, NewerThan, Stream
    <3>3. CASE s # Stream(x)
      BY <1>0, <3>1, <3>3 DEF RepInv, QueuesInOrder, NewerThan
    <3> QED BY <3>2, <3>3
  <2>2. ASSUME NEW y \in Threads, NEW i \in DOMAIN queue[y]
        PROVE  lastObject'[queue[y][i].stream] < queue[y][i].utcDate
    <3>1. CASE queue[y][i].stream = Stream(x)
      <4>1. y = x
        BY <1>1, <3>1 DEF RepInv, QueuesInOrder, RunningInOrder, Stream
      <4> QED BY <1>0, <1>1, <3>1, <4>1 DEF RepInv, RunningInOrder, Stream
    <3>2. CASE queue[y][i].stream # Stream(x)
      BY <1>0, <3>2, OnTheirWay DEF RepInv, QueuesInOrder
    <3> QED BY <3>1, <3>2
  <2>3. UNCHANGED <<pc, utcDate, queue>>
    BY DEF PostObject
  <2> QED BY <2>1, <2>2, <2>3 DEF RepInv, QueuesInOrder, NewerThan
<1>4. RunningInOrder'
  <2>1. ASSUME NEW y \in Threads, running[y] # NULL, threadPc'[y] # "mark"
        PROVE  lastObject'[running[y].stream] < running[y].utcDate
    <3>1. y # x /\ threadPc[y] # "mark"
      BY <2>1 DEF RepInv, TypeOK, PostObject
    <3>2. running[y].stream # Stream(x)
      BY <1>1, <2>1, <3>1 DEF RepInv, RunningInOrder, Stream
    <3> QED BY <1>0, <2>1, <3>1, <3>2, OnTheirWay DEF RepInv, RunningInOrder
  <2>2. UNCHANGED <<pc, utcDate, queue, running, objectContextTime>>
    BY DEF PostObject
  <2> QED BY <2>1, <2>2 DEF RepInv, RunningInOrder, NewerThan
<1>5. RecentIsMarked'
  BY DEF RepInv, RecentIsMarked, PostObject
<1> QED BY <1>2, <1>3, <1>4, <1>5 DEF RepInv

\* Its mark.
LEMMA MarkObjectStep ==
    ASSUME RepInv, NEW x \in Threads, MarkObject(x) PROVE RepInv'
<1> USE RequestFields, TimesAreNat
<1>1. running[x] \in Requests
  BY DEF RepInv, TypeOK, MarkObject
<1>2. TypeOK'
  BY <1>1 DEF RepInv, TypeOK, MarkObject, Stream
<1>3. QueuesInOrder'
  BY DEF RepInv, QueuesInOrder, NewerThan, MarkObject
<1>4. RunningInOrder'
  BY DEF RepInv, TypeOK, RunningInOrder, NewerThan, MarkObject
<1>5. RecentIsMarked'
  BY DEF RepInv, RecentIsMarked, MarkObject
<1> QED BY <1>2, <1>3, <1>4, <1>5 DEF RepInv

\* The end of an interval.
LEMMA ExpireStep ==
    ASSUME RepInv, NEW t \in Tokens, MotionFlagExpires(t) \/ ObjectFlagExpires(t)
    PROVE  RepInv'
<1>1. TypeOK'
  BY DEF RepInv, TypeOK, MotionFlagExpires, ObjectFlagExpires
<1>2. QueuesInOrder'
  BY DEF RepInv, QueuesInOrder, NewerThan, MotionFlagExpires, ObjectFlagExpires
<1>3. RunningInOrder'
  BY DEF RepInv, RunningInOrder, NewerThan, MotionFlagExpires, ObjectFlagExpires
<1>4. RecentIsMarked'
  BY DEF RepInv, RecentIsMarked, MotionFlagExpires, ObjectFlagExpires
<1> QED BY <1>1, <1>2, <1>3, <1>4 DEF RepInv

-----------------------------------------------------------------------------
\* Every step keeps the invariant.
LEMMA RepStep == RepInv /\ [Next]_vars => RepInv'
<1> SUFFICES ASSUME RepInv, [Next]_vars PROVE RepInv'
  OBVIOUS
<1>1. ASSUME UNCHANGED vars PROVE RepInv'
  BY <1>1 DEF vars, RepInv, TypeOK, QueuesInOrder, RunningInOrder, RecentIsMarked, NewerThan
<1> QED
  BY <1>1, FeedResultStep, ListenerMoves, SubmitStep, TakeStep, AnswerStep,
     PostObjectStep, MarkObjectStep, ExpireStep
  DEF Next, ListenerStep, ThreadStep

\* The inductive invariant of the reports.
THEOREM RepInvariant == Spec => []RepInv
BY RepInit, RepStep, PTL DEF Spec

\* An object event carries the time of its own request.
THEOREM OwnTime == Spec => []EventHasOwnTime
<1>1. RepInv => EventHasOwnTime
  BY DEF RepInv, TypeOK, RunningInOrder, EventHasOwnTime, Stream
<1> QED BY <1>1, RepInvariant, PTL

\* The object events of a stream come in the order of its frames.
THEOREM ObjectOrder == Spec => ObjectEventsInOrder
<1>1. RepInv /\ [Next]_vars =>
        [\A s \in Streams : lastObject'[s] # lastObject[s] => lastObject'[s] > lastObject[s]]_vars
  <2> SUFFICES ASSUME RepInv, [Next]_vars, NEW s \in Streams,
                      lastObject'[s] # lastObject[s]
               PROVE  lastObject'[s] > lastObject[s]
    OBVIOUS
  <2>1. PICK x \in Threads : PostObject(x)
    BY DEF Next, vars, ListenerStep, ThreadStep, FeedResult, MotionCheck, PostMotion,
           MarkMotion, ObjectCheck, Submit, Take, Answer, MarkObject,
           MotionFlagExpires, ObjectFlagExpires
  <2>2. /\ s = Stream(x) /\ lastObject'[s] = running[x].utcDate
        /\ lastObject[s] < running[x].utcDate
    BY <2>1, RequestFields DEF PostObject, RepInv, TypeOK, RunningInOrder, Stream
  <2>3. lastObject[s] \in Nat /\ running[x].utcDate \in Nat
    BY <2>1, RequestFields, TimesAreNat DEF RepInv, TypeOK, PostObject
  <2> QED BY <2>2, <2>3
<1> QED BY <1>1, RepInvariant, PTL DEF Spec, ObjectEventsInOrder

\* With one stream per token, its mark expires between two motion events.
THEOREM MotionInterval == Spec => MotionOncePerInterval
<1>1. RepInv /\ [Next]_vars =>
        [\A s \in Streams :
            OneStreamPerToken /\ pc[s] = "motionPost" /\ pc'[s] = "motionMark" =>
                TokenOf[s] \notin motionRecent]_vars
  BY DEF RepInv, RecentIsMarked
<1> QED BY <1>1, RepInvariant, PTL DEF Spec, MotionOncePerInterval

-----------------------------------------------------------------------------
(* The burst: how many requests of a stream wait.                          *)

\* There are no more of them than requests in the queue.
LEMMA WaitingAtMostAll ==
    ASSUME NEW q \in Seq(Requests), NEW s
    PROVE  /\ IsFiniteSet({i \in DOMAIN q : q[i].stream = s})
           /\ Waiting(q, s) \in Nat
           /\ Waiting(q, s) <= Len(q)
<1> DEFINE W == {i \in DOMAIN q : q[i].stream = s}
<1>1. Len(q) \in Nat /\ DOMAIN q = 1 .. Len(q)
  OBVIOUS
<1>2. IsFiniteSet(1 .. Len(q)) /\ Cardinality(1 .. Len(q)) = Len(q)
  <2>1. /\ IsFiniteSet(1 .. Len(q))
        /\ Cardinality(1 .. Len(q)) = IF 1 > Len(q) THEN 0 ELSE Len(q) - 1 + 1
    BY <1>1, FS_Interval
  <2> QED BY <1>1, <2>1
<1>3. W \subseteq 1 .. Len(q)
  BY <1>1
<1>4. IsFiniteSet(W) /\ Cardinality(W) <= Len(q)
  BY <1>2, <1>3, FS_Subset
<1>5. Cardinality(W) \in Nat
  BY <1>4, FS_CardinalityType
<1> QED BY <1>4, <1>5 DEF Waiting

\* A new request counts for its stream only.
LEMMA WaitingAppend ==
    ASSUME NEW q \in Seq(Requests), NEW r \in Requests, NEW s
    PROVE  Waiting(Append(q, r), s) = Waiting(q, s) + One(r.stream = s)
<1> DEFINE W == {i \in DOMAIN q : q[i].stream = s}
           V == {i \in DOMAIN Append(q, r) : Append(q, r)[i].stream = s}
<1>1. /\ DOMAIN q = 1 .. Len(q) /\ DOMAIN Append(q, r) = 1 .. Len(q) + 1
      /\ Len(q) \in Nat
      /\ Append(q, r)[Len(q) + 1] = r
      /\ \A i \in 1 .. Len(q) : Append(q, r)[i] = q[i]
  OBVIOUS
<1>2. IsFiniteSet(W) /\ Cardinality(W) \in Nat
  BY WaitingAtMostAll DEF Waiting
<1>3. CASE r.stream = s
  <2>1. V = W \cup {Len(q) + 1} /\ Len(q) + 1 \notin W
    BY <1>1, <1>3
  <2>2. Cardinality(V) = Cardinality(W) + 1
    BY <1>2, <2>1, FS_AddElement
  <2> QED BY <1>3, <2>2 DEF Waiting, One
<1>4. CASE r.stream # s
  <2>1. V = W
    BY <1>1, <1>4
  <2>2. One(r.stream = s) = 0
    BY <1>4 DEF One
  <2>3. Waiting(q, s) = Cardinality(W) /\ Waiting(Append(q, r), s) = Cardinality(V)
    BY DEF Waiting
  <2> HIDE DEF W, V
  <2> QED BY <1>2, <2>1, <2>2, <2>3
<1> QED BY <1>3, <1>4

\* The request taken from the queue no longer counts.
LEMMA WaitingTail ==
    ASSUME NEW q \in Seq(Requests), q # <<>>, NEW s
    PROVE  Waiting(Tail(q), s) + One(Head(q).stream = s) <= Waiting(q, s)
<1> DEFINE W == {i \in DOMAIN q : q[i].stream = s}
           V == {i \in DOMAIN Tail(q) : Tail(q)[i].stream = s}
           next == [i \in V |-> i + 1]
<1>1. /\ DOMAIN q = 1 .. Len(q) /\ DOMAIN Tail(q) = 1 .. Len(q) - 1
      /\ Len(q) \in Nat \ {0}
      /\ Head(q) = q[1]
      /\ \A i \in 1 .. Len(q) - 1 : Tail(q)[i] = q[i + 1]
      /\ Tail(q) \in Seq(Requests)
  OBVIOUS
<1>2. /\ IsFiniteSet(W) /\ Cardinality(W) \in Nat
      /\ IsFiniteSet(V) /\ Cardinality(V) \in Nat
  BY <1>1, WaitingAtMostAll DEF Waiting
<1>3. IsFiniteSet(W \ {1})
      /\ Cardinality(W \ {1}) = Cardinality(W) - One(1 \in W)
  <2>1. CASE 1 \in W
    BY <1>2, <2>1, FS_RemoveElement DEF One
  <2>2. CASE 1 \notin W
    <3>1. W \ {1} = W
      BY <2>2
    <3>2. One(1 \in W) = 0
      BY <2>2 DEF One
    <3>3. IsFiniteSet(W \ {1}) /\ Cardinality(W \ {1}) = Cardinality(W)
      BY <1>2, <3>1, Zenon
    <3> HIDE DEF W
    <3> QED BY <1>2, <3>2, <3>3
  <2> QED BY <2>1, <2>2
<1>4. next \in [V -> W \ {1}]
  <2> SUFFICES ASSUME NEW i \in V PROVE i + 1 \in W \ {1}
    OBVIOUS
  <2> QED BY <1>1
<1>5. IsInjective(next)
  BY <1>1 DEF IsInjective
<1>6. Cardinality(V) <= Cardinality(W \ {1})
  <2>1. next \in Injection(V, W \ {1})
    BY <1>4, <1>5 DEF Injection
  <2> QED BY <1>3, <2>1, FS_Injection DEF ExistsInjection
<1>7. One(1 \in W) = One(Head(q).stream = s)
  BY <1>1 DEF One
<1>8. One(1 \in W) \in {0, 1}
  BY DEF One
<1> HIDE DEF W, V
<1>9. Cardinality(V) + One(1 \in W) <= Cardinality(W)
  BY <1>2, <1>3, <1>6, <1>8
<1> QED BY <1>7, <1>9 DEF Waiting, W, V

\* The events of a stream's burst, and all that may still become one of it.
Load(s) ==
    LET x == ThreadOf[s] IN
    objectBurst[TokenOf[s]] + Waiting(queue[x], s) + One(InHand(s)) + One(pc[s] = "submit")

\* The stream's object event is posted and not marked yet.
ToBeMarked(s) == threadPc[ThreadOf[s]] = "mark" /\ Stream(ThreadOf[s]) = s

\* A token that no stream has.
Unused(t) == \A s \in Streams : TokenOf[s] # t

\* BurstCounted in these terms.
LEMMA BurstTerms ==
    BurstCounted <=>
        (OneStreamPerToken =>
            /\ \A s \in Streams :
                /\ TokenOf[s] \in tokenObject60sFlag => Load(s) <= QueueSize + 2
                /\ TokenOf[s] \notin tokenObject60sFlag =>
                    objectBurst[TokenOf[s]] <= One(ToBeMarked(s))
            /\ \A t \in Tokens : Unused(t) => objectBurst[t] = 0)
BY DEF BurstCounted, Load, ToBeMarked, Unused

\* A condition counts for at most one.
LEMMA OneIsSmall ==
    /\ \A condition : One(condition) \in {0, 1}
    /\ One(TRUE) = 1 /\ One(FALSE) = 0
BY DEF One

\* The terms are numbers, and no more requests of a stream wait than fit.
LEMMA LoadTerms ==
    ASSUME TypeOK, NEW s \in Streams
    PROVE  /\ TokenOf[s] \in Tokens /\ ThreadOf[s] \in Threads
           /\ objectBurst[TokenOf[s]] \in Nat
           /\ Waiting(queue[ThreadOf[s]], s) \in Nat
           /\ Waiting(queue[ThreadOf[s]], s) <= QueueSize
<1>1. TokenOf[s] \in Tokens /\ ThreadOf[s] \in Threads
  OBVIOUS
<1>2. objectBurst[TokenOf[s]] \in Nat
  BY <1>1 DEF TypeOK
<1>3. queue[ThreadOf[s]] \in Seq(Requests) /\ Len(queue[ThreadOf[s]]) <= QueueSize
  BY <1>1 DEF TypeOK
<1>4. /\ Waiting(queue[ThreadOf[s]], s) \in Nat
      /\ Waiting(queue[ThreadOf[s]], s) <= Len(queue[ThreadOf[s]])
  BY <1>3, WaitingAtMostAll
<1> QED BY <1>1, <1>2, <1>3, <1>4

\* A step without a new event adds to a load only what it adds to one of the
\* other terms and does not take from another.
LEMMA LoadKept ==
    ASSUME RepInv, TypeOK', UNCHANGED objectBurst, NEW r \in Streams, NEW moved \in Int,
           Waiting(queue'[ThreadOf[r]], r) <= Waiting(queue[ThreadOf[r]], r) + moved,
           One(InHand(r))' + One(pc'[r] = "submit") + moved
                <= One(InHand(r)) + One(pc[r] = "submit")
    PROVE  Load(r)' <= Load(r)
<1> DEFINE burst == objectBurst[TokenOf[r]]
           w == Waiting(queue[ThreadOf[r]], r)
           ww == Waiting(queue'[ThreadOf[r]], r)
           h == One(InHand(r))
           hh == One(InHand(r))'
           u == One(pc[r] = "submit")
           uu == One(pc'[r] = "submit")
<1>1. burst \in Int /\ w \in Int
  BY LoadTerms DEF RepInv
<1>2. ww \in Nat
  BY WaitingAtMostAll DEF TypeOK
<1>3. h \in Int /\ hh \in Int /\ u \in Int /\ uu \in Int
  BY DEF One
<1>4. Load(r) = burst + w + h + u /\ Load(r)' = burst + ww + hh + uu
  BY DEF Load
<1>5. ww <= w + moved /\ hh + uu + moved <= h + u
  OBVIOUS
<1> HIDE DEF burst, w, ww, h, hh, u, uu
<1>6. burst + ww + hh + uu <= burst + w + h + u
  BY <1>1, <1>2, <1>3, <1>5
<1> QED BY <1>4, <1>6

\* A step that neither posts nor marks nor ends an interval keeps the limits
\* if it adds to no marked token's load.
LEMMA BurstKept ==
    ASSUME RepInv, BurstCounted,
           UNCHANGED <<objectBurst, tokenObject60sFlag>>,
           \A s \in Streams :
                TokenOf[s] \in tokenObject60sFlag => Load(s)' <= Load(s),
           \A s \in Streams : ToBeMarked(s) => ToBeMarked(s)',
           TypeOK'
    PROVE  BurstCounted'
<1> SUFFICES ASSUME OneStreamPerToken
             PROVE  /\ \A s \in Streams :
                        /\ TokenOf[s] \in tokenObject60sFlag => Load(s)' <= QueueSize + 2
                        /\ TokenOf[s] \notin tokenObject60sFlag =>
                            objectBurst[TokenOf[s]] <= One(ToBeMarked(s)')
                    /\ \A t \in Tokens : Unused(t) => objectBurst[t] = 0
  BY DEF BurstCounted, Load, ToBeMarked, Unused, OneStreamPerToken
<1>1. /\ \A s \in Streams :
            /\ TokenOf[s] \in tokenObject60sFlag => Load(s) <= QueueSize + 2
            /\ TokenOf[s] \notin tokenObject60sFlag =>
                objectBurst[TokenOf[s]] <= One(ToBeMarked(s))
      /\ \A t \in Tokens : Unused(t) => objectBurst[t] = 0
  BY BurstTerms
<1>2. ASSUME NEW s \in Streams, TokenOf[s] \in tokenObject60sFlag
      PROVE  Load(s)' <= QueueSize + 2
  <2>1. Load(s) \in Nat
    BY LoadTerms, OneIsSmall DEF RepInv, Load
  <2>2. Load(s)' \in Nat
    <3>1. /\ (objectBurst[TokenOf[s]] \in Nat)'
          /\ (Waiting(queue[ThreadOf[s]], s) \in Nat)'
      BY LoadTerms, PTL
    <3> QED BY <3>1, OneIsSmall DEF Load
  <2>3. Load(s)' <= Load(s) /\ Load(s) <= QueueSize + 2
    BY <1>1, <1>2
  <2> QED BY <2>1, <2>2, <2>3
<1>3. ASSUME NEW s \in Streams, TokenOf[s] \notin tokenObject60sFlag
      PROVE  objectBurst[TokenOf[s]] <= One(ToBeMarked(s)')
  <2>1. objectBurst[TokenOf[s]] \in Nat /\ objectBurst[TokenOf[s]] <= One(ToBeMarked(s))
    BY <1>1, <1>3, LoadTerms DEF RepInv
  <2>2. CASE ToBeMarked(s)
    BY <2>1, <2>2 DEF One
  <2>3. CASE ~ToBeMarked(s)
    BY <2>1, <2>3 DEF One
  <2> QED BY <2>2, <2>3
<1> QED BY <1>1, <1>2, <1>3

\* No burst before the first frame.
LEMMA BurstInit == Init => BurstCounted
<1> SUFFICES ASSUME Init PROVE BurstCounted
  OBVIOUS
<1>1. /\ tokenObject60sFlag = {}
      /\ \A t \in Tokens : objectBurst[t] = 0
  BY DEF Init
<1>2. ASSUME NEW s \in Streams PROVE objectBurst[TokenOf[s]] <= One(ToBeMarked(s))
  <2>1. objectBurst[TokenOf[s]] = 0
    BY <1>1
  <2> QED BY <2>1, OneIsSmall
<1> QED BY <1>1, <1>2, BurstTerms

\* The checks, the motion event and its mark: a request is only prepared for a
\* token without mark.
LEMMA ListenerBurst ==
    ASSUME RepInv, BurstCounted, TypeOK', NEW s \in Streams,
           FeedResult(s) \/ MotionCheck(s) \/ PostMotion(s) \/ MarkMotion(s) \/ ObjectCheck(s)
    PROVE  BurstCounted'
<1> USE DEF FeedResult, MotionCheck, PostMotion, MarkMotion, ObjectCheck, Goto
<1>1. UNCHANGED <<objectBurst, tokenObject60sFlag, queue, running, threadPc>>
  OBVIOUS
<1>2. ASSUME NEW r \in Streams, TokenOf[r] \in tokenObject60sFlag
      PROVE  Load(r)' <= Load(r)
  <2>1. pc'[r] = "submit" => pc[r] = "submit"
    BY <1>2 DEF RepInv, TypeOK
  <2>2. One(pc'[r] = "submit") <= One(pc[r] = "submit")
    BY <2>1 DEF One
  <2>3. One(InHand(r))' = One(InHand(r))
    BY <1>1 DEF InHand, Stream
  <2>4. Waiting(queue'[ThreadOf[r]], r) <= Waiting(queue[ThreadOf[r]], r) + 0
    BY <1>1, LoadTerms DEF RepInv
  <2>5. One(InHand(r))' + One(pc'[r] = "submit") + 0 <= One(InHand(r)) + One(pc[r] = "submit")
    BY <2>2, <2>3 DEF One
  <2> QED BY <1>1, <2>4, <2>5, LoadKept
<1>3. \A r \in Streams : ToBeMarked(r) => ToBeMarked(r)'
  BY <1>1 DEF ToBeMarked, Stream
<1> QED BY <1>1, <1>2, <1>3, BurstKept

\* A request that is handed over waits, or is dropped.
LEMMA SubmitBurst ==
    ASSUME RepInv, BurstCounted, TypeOK', NEW s \in Streams, Submit(s)
    PROVE  BurstCounted'
<1> DEFINE x == ThreadOf[s]
           request == [stream |-> s, utcDate |-> utcDate[s]]
<1>1. /\ UNCHANGED <<objectBurst, tokenObject60sFlag, running, threadPc>>
      /\ pc[s] = "submit" /\ pc' = [pc EXCEPT ![s] = "idle"]
      /\ \/ queue' = queue
         \/ queue' = [queue EXCEPT ![x] = Append(@, request)]
  BY DEF Submit, Goto, RepInv, TypeOK
<1>2. request \in Requests /\ request.stream = s
  BY RequestFields DEF RepInv, TypeOK
<1> HIDE DEF request
<1>3. ASSUME NEW r \in Streams, TokenOf[r] \in tokenObject60sFlag
      PROVE  Load(r)' <= Load(r)
  <2>1. One(pc'[r] = "submit") + One(r = s) = One(pc[r] = "submit")
    <3>1. CASE r = s
      BY <1>1, <3>1 DEF One, RepInv, TypeOK
    <3>2. CASE r # s
      <4>1. pc'[r] = pc[r] /\ One(r = s) = 0
        BY <1>1, <3>2 DEF One, RepInv, TypeOK
      <4> QED BY <4>1, OneIsSmall
    <3> QED BY <3>1, <3>2
  <2>2. Waiting(queue'[ThreadOf[r]], r) <= Waiting(queue[ThreadOf[r]], r) + One(r = s)
    <3>1. CASE queue'[ThreadOf[r]] = queue[ThreadOf[r]]
      BY <3>1, LoadTerms, OneIsSmall DEF RepInv
    <3>2. CASE queue'[ThreadOf[r]] = Append(queue[ThreadOf[r]], request)
      <4>1. queue[ThreadOf[r]] \in Seq(Requests)
        BY DEF RepInv, TypeOK
      <4>2. Waiting(Append(queue[ThreadOf[r]], request), r)
                = Waiting(queue[ThreadOf[r]], r) + One(request.stream = r)
        BY <1>2, <4>1, WaitingAppend
      <4>3. One(request.stream = r) = One(r = s)
        BY <1>2 DEF One
      <4> QED BY <3>2, <4>2, <4>3, LoadTerms, OneIsSmall DEF RepInv
    <3> QED BY <1>1, <3>1, <3>2 DEF RepInv, TypeOK
  <2>3. One(InHand(r))' = One(InHand(r))
    BY <1>1 DEF InHand, Stream
  <2>4. One(r = s) \in Int
    BY DEF One
  <2>5. One(InHand(r))' + One(pc'[r] = "submit") + One(r = s)
            <= One(InHand(r)) + One(pc[r] = "submit")
    BY <2>1, <2>3 DEF One
  <2> QED BY <1>1, <2>2, <2>4, <2>5, LoadKept
<1>4. \A r \in Streams : ToBeMarked(r) => ToBeMarked(r)'
  BY <1>1 DEF ToBeMarked, Stream
<1> QED BY <1>1, <1>3, <1>4, BurstKept

\* A request that waited is worked on.
LEMMA TakeBurst ==
    ASSUME RepInv, BurstCounted, TypeOK', NEW x \in Threads, Take(x)
    PROVE  BurstCounted'
<1>1. /\ UNCHANGED <<objectBurst, tokenObject60sFlag, pc>>
      /\ threadPc[x] = "idle" /\ queue[x] # <<>>
      /\ threadPc' = [threadPc EXCEPT ![x] = "request"]
      /\ running' = [running EXCEPT ![x] = Head(queue[x])]
      /\ queue' = [queue EXCEPT ![x] = Tail(@)]
  BY DEF Take
<1>2. ASSUME NEW r \in Streams PROVE Load(r)' <= Load(r)
  <2> DEFINE y == ThreadOf[r]
  <2>1. CASE y # x
    <3>1. One(InHand(r))' = One(InHand(r))
      BY <1>1, <2>1 DEF InHand, Stream, RepInv, TypeOK
    <3>2. queue'[y] = queue[y]
      BY <1>1, <2>1 DEF RepInv, TypeOK
    <3>3. Waiting(queue'[y], r) <= Waiting(queue[y], r) + 0
      BY <3>2, LoadTerms DEF RepInv
    <3>4. One(InHand(r))' + One(pc'[r] = "submit") + 0 <= One(InHand(r)) + One(pc[r] = "submit")
      BY <1>1, <3>1 DEF One
    <3> QED BY <1>1, <3>3, <3>4, LoadKept
  <2>2. CASE y = x
    <3>1. One(InHand(r)) = 0
      BY <1>1, <2>2 DEF InHand, One
    <3>2. One(InHand(r))' = One(Head(queue[x]).stream = r)
      BY <1>1, <2>2 DEF InHand, Stream, One, RepInv, TypeOK
    <3>3. queue'[x] = Tail(queue[x]) /\ queue[x] \in Seq(Requests)
      BY <1>1 DEF RepInv, TypeOK
    <3>4. Waiting(queue'[x], r) + One(Head(queue[x]).stream = r) <= Waiting(queue[x], r)
      BY <1>1, <3>3, WaitingTail
    <3>5. Waiting(queue'[x], r) \in Nat
      BY WaitingAtMostAll DEF TypeOK
    <3> DEFINE taken == One(Head(queue[x]).stream = r)
    <3>6. taken \in {0, 1} /\ -taken \in Int
      BY DEF One
    <3>7. Waiting(queue[x], r) \in Nat
      BY <2>2, LoadTerms DEF RepInv
    <3>8. Waiting(queue'[y], r) <= Waiting(queue[y], r) + -taken
      <4> HIDE DEF taken
      <4>1. Waiting(queue'[x], r) + taken <= Waiting(queue[x], r)
        BY <3>4 DEF taken
      <4>2. Waiting(queue'[x], r) <= Waiting(queue[x], r) + -taken
        BY <3>5, <3>6, <3>7, <4>1
      <4> QED BY <2>2, <4>2
    <3>9. One(InHand(r))' + One(pc'[r] = "submit") + -taken
              <= One(InHand(r)) + One(pc[r] = "submit")
      BY <1>1, <3>1, <3>2 DEF One
    <3> QED BY <1>1, <3>6, <3>8, <3>9, LoadKept
  <2> QED BY <2>1, <2>2
<1>3. \A r \in Streams : ToBeMarked(r) => ToBeMarked(r)'
  BY <1>1 DEF ToBeMarked, Stream, RepInv, TypeOK
<1> QED BY <1>1, <1>2, <1>3, BurstKept

\* The object service's answer is followed up, or ends the request.
LEMMA AnswerBurst ==
    ASSUME RepInv, BurstCounted, TypeOK', NEW x \in Threads, Answer(x)
    PROVE  BurstCounted'
<1>1. /\ UNCHANGED <<objectBurst, tokenObject60sFlag, pc, queue>>
      /\ threadPc[x] = "request"
      /\ \A y \in Threads : threadPc'[y] \in {"request", "post"} =>
            threadPc[y] \in {"request", "post"} /\ running'[y] = running[y]
      /\ \A y \in Threads : threadPc[y] = "mark" =>
            threadPc'[y] = "mark" /\ running'[y] = running[y]
  BY DEF Answer, RepInv, TypeOK
<1>2. ASSUME NEW r \in Streams PROVE Load(r)' <= Load(r)
  <2>1. InHand(r)' => InHand(r)
    BY <1>1 DEF InHand, Stream
  <2>2. One(InHand(r))' <= One(InHand(r))
    BY <2>1 DEF One
  <2>3. Waiting(queue'[ThreadOf[r]], r) <= Waiting(queue[ThreadOf[r]], r) + 0
    BY <1>1, LoadTerms DEF RepInv
  <2>4. One(InHand(r))' + One(pc'[r] = "submit") + 0 <= One(InHand(r)) + One(pc[r] = "submit")
    BY <1>1, <2>2 DEF One
  <2> QED BY <1>1, <2>3, <2>4, LoadKept
<1>3. \A r \in Streams : ToBeMarked(r) => ToBeMarked(r)'
  BY <1>1 DEF ToBeMarked, Stream
<1> QED BY <1>1, <1>2, <1>3, BurstKept

\* An event: it is in the burst now, and no longer on its way.
LEMMA PostObjectBurst ==
    ASSUME RepInv, BurstCounted, TypeOK', NEW x \in Threads, PostObject(x)
    PROVE  BurstCounted'
<1>1. /\ UNCHANGED <<tokenObject60sFlag, pc, queue, running>>
      /\ threadPc[x] = "post" /\ threadPc' = [threadPc EXCEPT ![x] = "mark"]
      /\ objectBurst' = [objectBurst EXCEPT ![TokenOf[Stream(x)]] = @ + 1]
  BY DEF PostObject
<1>2. PICK own \in Streams : own = Stream(x) /\ ThreadOf[own] = x /\ TokenOf[own] \in Tokens
  BY <1>1, OnTheirWay DEF RepInv, TypeOK, RunningInOrder, Stream
<1> SUFFICES ASSUME OneStreamPerToken
             PROVE  /\ \A s \in Streams :
                        /\ TokenOf[s] \in tokenObject60sFlag => Load(s)' <= QueueSize + 2
                        /\ TokenOf[s] \notin tokenObject60sFlag =>
                            objectBurst'[TokenOf[s]] <= One(ToBeMarked(s)')
                    /\ \A t \in Tokens : Unused(t) => objectBurst'[t] = 0
  BY <1>1 DEF BurstCounted, Load, ToBeMarked, Unused, OneStreamPerToken
<1>3. /\ \A s \in Streams :
            /\ TokenOf[s] \in tokenObject60sFlag => Load(s) <= QueueSize + 2
            /\ TokenOf[s] \notin tokenObject60sFlag =>
                objectBurst[TokenOf[s]] <= One(ToBeMarked(s))
      /\ \A t \in Tokens : Unused(t) => objectBurst[t] = 0
  BY BurstTerms
<1>4. /\ objectBurst'[TokenOf[own]] = objectBurst[TokenOf[own]] + 1
      /\ \A t \in Tokens : t # TokenOf[own] => objectBurst'[t] = objectBurst[t]
  BY <1>1, <1>2 DEF RepInv, TypeOK
<1>5. /\ Stream(x)' = own /\ threadPc'[x] = "mark"
      /\ \A y \in Threads : y # x => Stream(y)' = Stream(y) /\ threadPc'[y] = threadPc[y]
  BY <1>1, <1>2 DEF Stream, RepInv, TypeOK
<1>6. /\ InHand(own) /\ ~InHand(own)'
      /\ ~ToBeMarked(own) /\ ToBeMarked(own)'
  BY <1>1, <1>2, <1>5 DEF InHand, ToBeMarked
<1>7. ASSUME NEW s \in Streams, s # own
      PROVE  /\ InHand(s)' <=> InHand(s)
             /\ ToBeMarked(s)' <=> ToBeMarked(s)
             /\ objectBurst'[TokenOf[s]] = objectBurst[TokenOf[s]]
  <2>1. TokenOf[s] # TokenOf[own]
    BY <1>2, <1>7 DEF OneStreamPerToken
  <2>2. CASE ThreadOf[s] = x
    BY <1>2, <1>4, <1>5, <1>7, <2>1, <2>2 DEF InHand, ToBeMarked
  <2>3. CASE ThreadOf[s] # x
    BY <1>4, <1>5, <2>1, <2>3 DEF InHand, ToBeMarked
  <2> QED BY <2>2, <2>3
<1>8. ASSUME NEW s \in Streams, TokenOf[s] \in tokenObject60sFlag
      PROVE  Load(s)' <= QueueSize + 2
  <2>1. Load(s)' = Load(s)
    <3>1. CASE s = own
      <4>1. One(InHand(s)) = 1 /\ One(InHand(s))' = 0
        BY <1>6, <3>1 DEF One
      <4> QED BY <1>1, <1>4, <3>1, <4>1, LoadTerms, OneIsSmall DEF RepInv, Load
    <3>2. CASE s # own
      <4>1. One(InHand(s))' = One(InHand(s))
        BY <1>7, <3>2 DEF One
      <4> QED BY <1>1, <1>7, <3>2, <4>1 DEF Load
    <3> QED BY <3>1, <3>2
  <2> QED BY <1>3, <1>8, <2>1
<1>9. ASSUME NEW s \in Streams, TokenOf[s] \notin tokenObject60sFlag
      PROVE  objectBurst'[TokenOf[s]] <= One(ToBeMarked(s)')
  <2>0. objectBurst[TokenOf[s]] \in Nat /\ objectBurst[TokenOf[s]] <= One(ToBeMarked(s))
    BY <1>3, <1>9, LoadTerms DEF RepInv
  <2>1. CASE s = own
    <3>1. One(ToBeMarked(s)) = 0 /\ One(ToBeMarked(s)') = 1
      BY <1>6, <2>1 DEF One
    <3> QED BY <1>4, <2>0, <2>1, <3>1
  <2>2. CASE s # own
    <3>1. One(ToBeMarked(s)') = One(ToBeMarked(s))
      BY <1>7, <2>2 DEF One
    <3> QED BY <1>7, <2>0, <2>2, <3>1
  <2> QED BY <2>1, <2>2
<1>10. \A t \in Tokens : Unused(t) => objectBurst'[t] = 0
  BY <1>2, <1>3, <1>4 DEF Unused
<1> QED BY <1>8, <1>9, <1>10

\* The mark: now all that may join the burst is limited by the queue.
LEMMA MarkObjectBurst ==
    ASSUME RepInv, BurstCounted, TypeOK', NEW x \in Threads, MarkObject(x)
    PROVE  BurstCounted'
<1> DEFINE own == Stream(x)
<1>1. /\ UNCHANGED <<objectBurst, pc, queue>>
      /\ threadPc[x] = "mark"
      /\ threadPc' = [threadPc EXCEPT ![x] = "idle"]
      /\ running' = [running EXCEPT ![x] = NULL]
      /\ tokenObject60sFlag' = tokenObject60sFlag \cup {TokenOf[own]}
  BY DEF MarkObject
<1>2. own \in Streams /\ ThreadOf[own] = x
  BY <1>1, OnTheirWay DEF RepInv, TypeOK, RunningInOrder, Stream
<1> SUFFICES ASSUME OneStreamPerToken
             PROVE  /\ \A s \in Streams :
                        /\ TokenOf[s] \in tokenObject60sFlag' => Load(s)' <= QueueSize + 2
                        /\ TokenOf[s] \notin tokenObject60sFlag' =>
                            objectBurst[TokenOf[s]] <= One(ToBeMarked(s)')
                    /\ \A t \in Tokens : Unused(t) => objectBurst[t] = 0
  BY <1>1 DEF BurstCounted, Load, ToBeMarked, Unused, OneStreamPerToken
<1>3. /\ \A s \in Streams :
            /\ TokenOf[s] \in tokenObject60sFlag => Load(s) <= QueueSize + 2
            /\ TokenOf[s] \notin tokenObject60sFlag =>
                objectBurst[TokenOf[s]] <= One(ToBeMarked(s))
      /\ \A t \in Tokens : Unused(t) => objectBurst[t] = 0
  BY BurstTerms
<1>4. ASSUME NEW s \in Streams, TokenOf[s] \in tokenObject60sFlag'
      PROVE  Load(s)' <= QueueSize + 2
  <2>1. InHand(s)' => InHand(s)
    BY <1>1 DEF InHand, Stream, RepInv, TypeOK
  <2>2. One(InHand(s))' <= One(InHand(s))
    BY <2>1 DEF One
  <2>3. CASE TokenOf[s] \in tokenObject60sFlag
    <3>1. Load(s) <= QueueSize + 2
      BY <1>3, <2>3
    <3>2. Load(s) \in Int
      BY LoadTerms, OneIsSmall DEF RepInv, Load
    <3>3. Waiting(queue'[ThreadOf[s]], s) <= Waiting(queue[ThreadOf[s]], s) + 0
      BY <1>1, LoadTerms DEF RepInv
    <3>4. One(InHand(s))' + One(pc'[s] = "submit") + 0 <= One(InHand(s)) + One(pc[s] = "submit")
      BY <1>1, <2>2 DEF One
    <3>5. Load(s)' <= Load(s)
      BY <1>1, <3>3, <3>4, LoadKept
    <3>6. Load(s)' \in Int
      <4>1. Waiting(queue'[ThreadOf[s]], s) \in Nat
        BY WaitingAtMostAll DEF TypeOK
      <4>2. objectBurst'[TokenOf[s]] \in Int
        BY DEF TypeOK
      <4>3. One(InHand(s))' \in Int /\ One(pc'[s] = "submit") \in Int
        BY DEF One
      <4> QED BY <4>1, <4>2, <4>3 DEF Load
    <3> QED BY <3>1, <3>2, <3>5, <3>6
  <2>4. CASE TokenOf[s] \notin tokenObject60sFlag
    <3>1. s = own
      BY <1>1, <1>2, <1>4, <2>4 DEF OneStreamPerToken
    <3>2. One(InHand(s))' = 0
      BY <1>1, <1>2, <3>1 DEF InHand, One, RepInv, TypeOK
    <3>3. objectBurst[TokenOf[s]] <= One(ToBeMarked(s))
      BY <1>3, <2>4
    <3>4. objectBurst[TokenOf[s]] <= 1
      BY <3>3, LoadTerms, OneIsSmall DEF RepInv
    <3> QED BY <1>1, <3>2, <3>4, LoadTerms, OneIsSmall DEF RepInv, Load
  <2> QED BY <2>3, <2>4
<1>5. ASSUME NEW s \in Streams, TokenOf[s] \notin tokenObject60sFlag'
      PROVE  objectBurst[TokenOf[s]] <= One(ToBeMarked(s)')
  <2>1. s # own /\ TokenOf[s] \notin tokenObject60sFlag
    BY <1>1, <1>5
  <2>2. ToBeMarked(s)' <=> ToBeMarked(s)
    BY <1>1, <1>2, <2>1 DEF ToBeMarked, Stream, RepInv, TypeOK
  <2>3. One(ToBeMarked(s)') = One(ToBeMarked(s))
    BY <2>2 DEF One
  <2> QED BY <1>3, <2>1, <2>3
<1> QED BY <1>3, <1>4, <1>5

\* The end of an interval begins a new burst.
LEMMA ExpireBurst ==
    ASSUME RepInv, BurstCounted, TypeOK', NEW t \in Tokens,
           MotionFlagExpires(t) \/ ObjectFlagExpires(t)
    PROVE  BurstCounted'
<1>1. UNCHANGED <<pc, queue, running, threadPc>>
  BY DEF MotionFlagExpires, ObjectFlagExpires
<1>2. \A s \in Streams : ToBeMarked(s)' <=> ToBeMarked(s)
  BY <1>1 DEF ToBeMarked, Stream
<1>3. CASE MotionFlagExpires(t)
  <2>1. UNCHANGED <<objectBurst, tokenObject60sFlag>>
    BY <1>3 DEF MotionFlagExpires
  <2>2. ASSUME NEW s \in Streams PROVE Load(s)' <= Load(s)
    <3>1. Load(s)' = Load(s)
      BY <1>1, <2>1 DEF Load, InHand, Stream
    <3>2. Load(s) \in Nat
      BY LoadTerms, OneIsSmall DEF RepInv, Load
    <3> QED BY <3>1, <3>2
  <2> QED BY <1>2, <2>1, <2>2, BurstKept
<1>4. CASE ObjectFlagExpires(t)
  <2>1. /\ tokenObject60sFlag' = tokenObject60sFlag \ {t}
        /\ objectBurst'[t] = 0
        /\ \A u \in Tokens : u # t => objectBurst'[u] = objectBurst[u]
    BY <1>4 DEF ObjectFlagExpires, RepInv, TypeOK
  <2> SUFFICES ASSUME OneStreamPerToken
               PROVE  /\ \A s \in Streams :
                          /\ TokenOf[s] \in tokenObject60sFlag' => Load(s)' <= QueueSize + 2
                          /\ TokenOf[s] \notin tokenObject60sFlag' =>
                              objectBurst'[TokenOf[s]] <= One(ToBeMarked(s)')
                      /\ \A u \in Tokens : Unused(u) => objectBurst'[u] = 0
    BY DEF BurstCounted, Load, ToBeMarked, Unused, OneStreamPerToken
  <2>2. /\ \A s \in Streams :
              /\ TokenOf[s] \in tokenObject60sFlag => Load(s) <= QueueSize + 2
              /\ TokenOf[s] \notin tokenObject60sFlag =>
                  objectBurst[TokenOf[s]] <= One(ToBeMarked(s))
        /\ \A u \in Tokens : Unused(u) => objectBurst[u] = 0
    BY BurstTerms
  <2>3. ASSUME NEW s \in Streams, TokenOf[s] \in tokenObject60sFlag'
        PROVE  Load(s)' <= QueueSize + 2
    <3>1. TokenOf[s] # t /\ TokenOf[s] \in tokenObject60sFlag
      BY <2>1, <2>3
    <3>2. objectBurst'[TokenOf[s]] = objectBurst[TokenOf[s]]
      BY <2>1, <3>1
    <3>3. Load(s)' = Load(s)
      BY <1>1, <3>2 DEF Load, InHand, Stream
    <3> QED BY <2>2, <3>1, <3>3
  <2>4. ASSUME NEW s \in Streams, TokenOf[s] \notin tokenObject60sFlag'
        PROVE  objectBurst'[TokenOf[s]] <= One(ToBeMarked(s)')
    <3>1. CASE TokenOf[s] = t
      <4>1. objectBurst'[TokenOf[s]] = 0
        BY <2>1, <3>1
      <4> QED BY <4>1, OneIsSmall
    <3>2. CASE TokenOf[s] # t
      <4>1. /\ objectBurst'[TokenOf[s]] = objectBurst[TokenOf[s]]
            /\ TokenOf[s] \notin tokenObject60sFlag
        BY <2>1, <2>4, <3>2
      <4>2. One(ToBeMarked(s)') = One(ToBeMarked(s))
        BY <1>2 DEF One
      <4> QED BY <2>2, <4>1, <4>2
    <3> QED BY <3>1, <3>2
  <2>5. \A u \in Tokens : Unused(u) => objectBurst'[u] = 0
    BY <2>1, <2>2
  <2> QED BY <2>3, <2>4, <2>5
<1> QED BY <1>3, <1>4

\* Every step keeps the burst within its limit.
LEMMA BurstStep == RepInv /\ BurstCounted /\ [Next]_vars => BurstCounted'
<1> SUFFICES ASSUME RepInv, BurstCounted, [Next]_vars PROVE BurstCounted'
  OBVIOUS
<1>0. TypeOK'
  BY RepStep DEF RepInv
<1>1. ASSUME UNCHANGED vars PROVE BurstCounted'
  BY <1>1 DEF vars, BurstCounted, InHand, Stream
<1> QED
  BY <1>0, <1>1, ListenerBurst, SubmitBurst, TakeBurst, AnswerBurst,
     PostObjectBurst, MarkObjectBurst, ExpireBurst
  DEF Next, ListenerStep, ThreadStep

\* A token with one stream has at most as many object events in an interval as
\* requests fit into the queue, one that runs, and one about to be submitted.
THEOREM BurstBounded == Spec => []ObjectBurstBounded
<1>1. RepInv /\ BurstCounted => ObjectBurstBounded
  <2> SUFFICES ASSUME RepInv, BurstCounted, OneStreamPerToken, NEW t \in Tokens
               PROVE  objectBurst[t] <= QueueSize + 2
    BY DEF ObjectBurstBounded
  <2>1. CASE Unused(t)
    <3>1. objectBurst[t] = 0
      BY <2>1, BurstTerms
    <3> QED BY <3>1
  <2>2. CASE ~Unused(t)
    <3>1. PICK s \in Streams : TokenOf[s] = t
      BY <2>2 DEF Unused
    <3>2. CASE t \in tokenObject60sFlag
      <4>1. Load(s) <= QueueSize + 2
        BY <3>1, <3>2, BurstTerms
      <4> QED BY <3>1, <4>1, LoadTerms, OneIsSmall DEF RepInv, Load
    <3>3. CASE t \notin tokenObject60sFlag
      <4>1. objectBurst[t] <= One(ToBeMarked(s))
        BY <3>1, <3>3, BurstTerms
      <4> QED BY <3>1, <4>1, LoadTerms, OneIsSmall DEF RepInv
    <3> QED BY <3>2, <3>3
  <2> QED BY <2>1, <2>2
<1>2. Spec => []BurstCounted
  BY BurstInit, BurstStep, RepInvariant, PTL DEF Spec
<1> QED BY <1>1, <1>2, RepInvariant, PTL
=============================================================================
