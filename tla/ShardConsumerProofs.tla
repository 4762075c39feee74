------------------------ MODULE ShardConsumerProofs ------------------------
(***************************************************************************)
(* Proofs about ShardConsumer, for shards of any length, any batch size,   *)
(* any number of restarts and any set of tokens.                           *)
(***************************************************************************)
EXTENDS ShardConsumer, TLAPS

USE BoundsAreNat, BadIsNoToken, KeepCheckpointIsBoolean
USE DEF Records, Positions, recordVars, poolVars, batchVars

\* What a step does is one of these: the cases of every invariance proof.
StepCases ==
    \/ \E n \in 1 .. MaxBatch, behind \in BOOLEAN : ProcessRecords(n, behind)
    \/ SubmitBatch
    \/ MaybeCheckpoint
    \/ \E reason \in {"TERMINATE", "ZOMBIE"} : Shutdown(reason)
    \/ StartTasks
    \/ \E t \in Tokens : TaskReturns(t)
    \/ \E t \in Tokens : GiveUpTask(t)
    \/ BatchDone
    \/ \E i \in Records : Handle(i)
    \/ Write
    \/ TimerDue
    \/ Restart
    \/ UNCHANGED vars

\* Every step is one of StepCases.
LEMMA NextCases == [Next]_vars => StepCases
BY DEF Next, StepCases, KCLStep, BatchStep, PoolStep

-----------------------------------------------------------------------------
(* The inductive invariant.                                                *)

\* The invariant holds when the first process starts.
LEMMA ShardInit == Init => ShardInv
<1> SUFFICES ASSUME Init PROVE ShardInv
  OBVIOUS
<1>1. TypeOK
  <2>1. tokenOf \in [Records -> Tokens \cup {Bad}] /\ batchOf \in [Records -> Nat]
    BY DEF Init
  <2>2. 0 \in Positions /\ 0 \in 0 .. MaxRestarts
    OBVIOUS
  <2> HIDE DEF Records, Positions
  <2> QED BY <2>1, <2>2 DEF Init, TypeOK
<1>2. done \subseteq seen /\ CheckpointIsBehind /\ RecordsInTheirPlace
  BY DEF Init, CheckpointIsBehind, RecordsInTheirPlace
<1>3. BatchesInOrder
  BY DEF Init, BatchesInOrder
<1>4. EarlierIsSettled /\ TasksStarted /\ EveryRecordAccounted
  BY DEF Init, EarlierIsSettled, TasksStarted, EveryRecordAccounted, Batch
<1> QED BY <1>1, <1>2, <1>3, <1>4 DEF ShardInv

\* No step has a frame handled or given up while its batch is in the queue.
LEMMA TasksStartedStep == ShardInv /\ StepCases => TasksStarted'
<1> SUFFICES ASSUME ShardInv, StepCases PROVE TasksStarted'
  OBVIOUS
<1> USE DEF ShardInv, TypeOK, TasksStarted
<1>1. ASSUME NEW n \in 1 .. MaxBatch, NEW behind \in BOOLEAN, ProcessRecords(n, behind)
      PROVE  TasksStarted'
  BY <1>1 DEF ProcessRecords
<1>2. CASE SubmitBatch
  <2>1. \A i \in done \cup abandoned : i \notin call /\ batchOf[i] <= batchNo
    BY DEF RecordsInTheirPlace, BatchesInOrder
  <2>2. \A i \in done \cup abandoned : batchOf'[i] = batchOf[i]
    BY <1>2, <2>1 DEF SubmitBatch
  <2> QED BY <1>2, <2>1, <2>2 DEF SubmitBatch
<1>3. CASE MaybeCheckpoint
  BY <1>3 DEF MaybeCheckpoint
<1>4. ASSUME NEW reason \in {"TERMINATE", "ZOMBIE"}, Shutdown(reason) PROVE TasksStarted'
  <2>1. CASE UNCHANGED <<future, batchOf>>
    BY <1>4, <2>1 DEF Shutdown
  <2>2. CASE future = "queued" /\ future' = "done"
             /\ batchOf' = [i \in Records |-> IF i \in Batch THEN 0 ELSE batchOf[i]]
    BY <1>4, <2>2 DEF Shutdown, Batch
  <2> QED BY <1>4, <2>1, <2>2 DEF Shutdown
<1>5. CASE StartTasks
  BY <1>5 DEF StartTasks
<1>6. ASSUME NEW t \in Tokens, TaskReturns(t) PROVE TasksStarted'
  BY <1>6 DEF TaskReturns
<1>7. ASSUME NEW t \in Tokens, GiveUpTask(t) PROVE TasksStarted'
  BY <1>7 DEF GiveUpTask, Task, Batch
<1>8. CASE BatchDone
  BY <1>8 DEF BatchDone
<1>9. ASSUME NEW i \in Records, Handle(i) PROVE TasksStarted'
  BY <1>9 DEF Handle
<1>10. CASE Write \/ TimerDue
  BY <1>10 DEF Write, TimerDue
<1>11. CASE Restart
  BY <1>11 DEF Restart, NewProcessor
<1>12. CASE UNCHANGED vars
  BY <1>12 DEF vars
<1> QED
  BY <1>1, <1>2, <1>3, <1>4, <1>5, <1>6, <1>7, <1>8, <1>9, <1>10, <1>11, <1>12
  DEF StepCases

\* Every step of KCL, the batch thread, the pool and the environment keeps it.
LEMMA ShardStep == ShardInv /\ [Next]_vars => ShardInv'
<1> SUFFICES ASSUME ShardInv, StepCases PROVE ShardInv'
  BY NextCases
<1>0. TasksStarted'
  BY TasksStartedStep
<1> USE <1>0 DEF ShardInv, TypeOK, CheckpointIsBehind, RecordsInTheirPlace,
            BatchesInOrder, EarlierIsSettled, EveryRecordAccounted, Batch, Task
<1>1. ASSUME NEW n \in 1 .. MaxBatch, NEW behind \in BOOLEAN, ProcessRecords(n, behind)
      PROVE  ShardInv'
  <2>1. TypeOK'
    <3>1. batchOf' \in [Records -> Nat] /\ batchNo' \in Nat
      BY <1>1 DEF ProcessRecords
    <3>2. position' \in Positions /\ checkpoint' \in Positions
      BY <1>1 DEF ProcessRecords
    <3>3. call' \subseteq Records /\ discarded' \subseteq Records
      <4>1. position + 1 .. position + n \subseteq Records
        BY <1>1 DEF ProcessRecords
      <4> HIDE DEF Records
      <4> QED BY <1>1, <4>1 DEF ProcessRecords
    <3> HIDE DEF Records, Positions
    <3> QED BY <1>1, <3>1, <3>2, <3>3 DEF ProcessRecords
  <2>2. (done \subseteq seen)'
    BY <1>1 DEF ProcessRecords
  <2>3. CheckpointIsBehind'
    BY <1>1 DEF ProcessRecords
  <2>4. RecordsInTheirPlace'
    BY <1>1 DEF ProcessRecords
  <2>5. BatchesInOrder'
    BY <1>1 DEF ProcessRecords
  <2>6. EarlierIsSettled'
    BY <1>1 DEF ProcessRecords
  <2>7. EveryRecordAccounted'
    BY <1>1 DEF ProcessRecords
  <2> QED BY <2>1, <2>2, <2>3, <2>4, <2>5, <2>6, <2>7
<1>2. CASE SubmitBatch
  <2>1. TypeOK'
    <3>1. batchOf' \in [Records -> Nat] /\ batchNo' \in Nat
      BY <1>2 DEF SubmitBatch
    <3>2. position' \in Positions /\ checkpoint' \in Positions
      BY <1>2 DEF SubmitBatch
    <3>3. call' \subseteq Records /\ discarded' \subseteq Records
      BY <1>2 DEF SubmitBatch
    <3> HIDE DEF Records, Positions
    <3> QED BY <1>2, <3>1, <3>2, <3>3 DEF SubmitBatch
  <2>2. (done \subseteq seen)'
    BY <1>2 DEF SubmitBatch
  <2>3. CheckpointIsBehind'
    BY <1>2 DEF SubmitBatch
  <2>4. RecordsInTheirPlace'
    BY <1>2 DEF SubmitBatch
  <2>5. BatchesInOrder'
    BY <1>2 DEF SubmitBatch
  <2>6. EarlierIsSettled'
    BY <1>2 DEF SubmitBatch
  <2>7. EveryRecordAccounted'
    <3> SUFFICES ASSUME NEW i \in 1 .. position'
                 PROVE  (i \in seen \cup excused \cup call \cup Batch \cup abandoned \cup discarded)'
      OBVIOUS
    <3>1. i \in Records /\ i \in 1 .. position
      BY <1>2 DEF SubmitBatch
    <3>2. CASE i \in call
      BY <1>2, <3>1, <3>2 DEF SubmitBatch
    <3>3. CASE i \in Batch
      BY <1>2, <3>1, <3>3 DEF SubmitBatch
    <3> QED BY <1>2, <3>1, <3>2, <3>3 DEF SubmitBatch
  <2> QED BY <2>1, <2>2, <2>3, <2>4, <2>5, <2>6, <2>7
<1>3. CASE MaybeCheckpoint
  <2>1. TypeOK'
    BY <1>3 DEF MaybeCheckpoint, TryCheckpoint
  <2>2. (done \subseteq seen)'
    BY <1>3 DEF MaybeCheckpoint, TryCheckpoint
  <2>3. CheckpointIsBehind'
    BY <1>3 DEF MaybeCheckpoint, TryCheckpoint
  <2>4. RecordsInTheirPlace'
    BY <1>3 DEF MaybeCheckpoint, TryCheckpoint
  <2>5. BatchesInOrder'
    BY <1>3 DEF MaybeCheckpoint, TryCheckpoint
  <2>6. EarlierIsSettled'
    BY <1>3 DEF MaybeCheckpoint, TryCheckpoint
  <2>7. EveryRecordAccounted'
    BY <1>3 DEF MaybeCheckpoint, TryCheckpoint
  <2> QED BY <2>1, <2>2, <2>3, <2>4, <2>5, <2>6, <2>7
<1>4. ASSUME NEW reason \in {"TERMINATE", "ZOMBIE"}, Shutdown(reason)
      PROVE  ShardInv'
  <2>1. TypeOK'
    <3>1. batchOf' \in [Records -> Nat] /\ batchNo' \in Nat
      BY <1>4 DEF Shutdown, TryCheckpoint
    <3>2. position' \in Positions /\ checkpoint' \in Positions
      BY <1>4 DEF Shutdown, TryCheckpoint
    <3>3. call' \subseteq Records /\ discarded' \subseteq Records
      BY <1>4 DEF Shutdown, TryCheckpoint
    <3> HIDE DEF Records, Positions
    <3> QED BY <1>4, <3>1, <3>2, <3>3 DEF Shutdown, TryCheckpoint
  <2>2. (done \subseteq seen)'
    BY <1>4 DEF Shutdown, TryCheckpoint
  <2>3. CheckpointIsBehind'
    BY <1>4 DEF Shutdown, TryCheckpoint
  <2>4. RecordsInTheirPlace'
    BY <1>4 DEF Shutdown, TryCheckpoint
  <2>5. BatchesInOrder'
    <3>1. batchNo' = batchNo
      BY <1>4 DEF Shutdown
    <3>2. CASE batchOf' = batchOf
      BY <3>1, <3>2
    <3>3. CASE batchOf' = [i \in Records |-> IF i \in Batch THEN 0 ELSE batchOf[i]]
      BY <3>1, <3>3
    <3> QED BY <1>4, <3>2, <3>3 DEF Shutdown
  <2>6. EarlierIsSettled'
    BY <1>4 DEF Shutdown, TryCheckpoint
  <2>7. EveryRecordAccounted'
    BY <1>4 DEF Shutdown, TryCheckpoint
  <2> QED BY <2>1, <2>2, <2>3, <2>4, <2>5, <2>6, <2>7
<1>5. CASE StartTasks
  BY <1>5 DEF StartTasks
<1>6. ASSUME NEW t \in Tokens, TaskReturns(t) PROVE ShardInv'
  BY <1>6 DEF TaskReturns
<1>7. ASSUME NEW t \in Tokens, GiveUpTask(t) PROVE ShardInv'
  BY <1>7 DEF GiveUpTask
<1>8. CASE BatchDone
  BY <1>8 DEF BatchDone
<1>9. ASSUME NEW i \in Records, Handle(i) PROVE ShardInv'
  BY <1>9 DEF Handle
<1>10. CASE Write
  BY <1>10 DEF Write
<1>11. CASE TimerDue
  BY <1>11 DEF TimerDue
<1>12. CASE Restart
  <2>1. TypeOK'
    <3>1. batchOf' \in [Records -> Nat] /\ batchNo' \in Nat
      BY <1>12 DEF Restart, NewProcessor, StartPosition
    <3>2. position' \in Positions /\ checkpoint' \in Positions
      BY <1>12 DEF Restart, NewProcessor, StartPosition
    <3>3. call' \subseteq Records /\ discarded' \subseteq Records
      BY <1>12 DEF Restart, NewProcessor, StartPosition
    <3>4. restarts' \in 0 .. MaxRestarts
      BY <1>12 DEF Restart
    <3>5. excused' \subseteq Records
      <4>1. 1 .. written \subseteq Records /\ 1 .. checkpoint \subseteq Records
        OBVIOUS
      <4> HIDE DEF Records
      <4> QED BY <1>12, <4>1 DEF Restart
    <3> HIDE DEF Records, Positions
    <3> QED BY <1>12, <3>1, <3>2, <3>3, <3>4, <3>5 DEF Restart, NewProcessor, StartPosition
  <2>2. (done \subseteq seen)'
    BY <1>12 DEF Restart, NewProcessor, StartPosition
  <2>3. CheckpointIsBehind'
    BY <1>12 DEF Restart, NewProcessor, StartPosition
  <2>4. RecordsInTheirPlace'
    BY <1>12 DEF Restart, NewProcessor, StartPosition
  <2>5. BatchesInOrder'
    BY <1>12 DEF Restart, NewProcessor, StartPosition
  <2>6. EarlierIsSettled'
    BY <1>12 DEF Restart, NewProcessor, StartPosition
  <2>7. EveryRecordAccounted'
    BY <1>12 DEF Restart, NewProcessor, StartPosition
  <2> QED BY <2>1, <2>2, <2>3, <2>4, <2>5, <2>6, <2>7
<1>13. CASE UNCHANGED vars
  BY <1>13 DEF vars
<1> QED
  BY <1>1, <1>2, <1>3, <1>4, <1>5, <1>6, <1>7, <1>8, <1>9, <1>10, <1>11, <1>12,
     <1>13 DEF StepCases

-----------------------------------------------------------------------------
(* Refinement of FrameDelivery.                                            *)

waitedFor == submitted \ (done \cup abandoned)
Open == pc \notin {"stopped", "ended"}

\* Nothing has been handed over.
LEMMA DeliveryInit == Init => Delivery!Init
BY DEF Init, Delivery!Init, submitted

\* Only frames of the last batch are waited for, none when the batch is done.
LEMMA WaitedForInBatch ==
    ASSUME ShardInv
    PROVE  /\ waitedFor \subseteq Batch
           /\ Batch \subseteq submitted
           /\ future \in {"null", "done"} => waitedFor = {}
<1> USE DEF ShardInv, TypeOK, BatchesInOrder, EarlierIsSettled, submitted, Batch, waitedFor
<1>1. ASSUME NEW i \in waitedFor PROVE i \in Batch
  OBVIOUS
<1>2. Batch \subseteq submitted
  OBVIOUS
<1>3. ASSUME future \in {"null", "done"}, NEW i \in waitedFor PROVE FALSE
  BY <1>1, <1>3
<1> QED BY <1>1, <1>2, <1>3

\* The checkpoint may only be moved to what was delivered.
LEMMA CoversMore ==
    ASSUME ShardInv, checkpoint' \in {checkpoint, position}
    PROVE  Delivery!CoverMore
BY DEF ShardInv, TypeOK, CheckpointIsBehind, Delivery!CoverMore

\* Submitting a batch, giving a task up, handling a frame, checkpoint, shutdown
\* and restart are steps of the delivery; everything else is a stutter.
LEMMA DeliveryStep ==
    ShardInv /\ [Next]_vars => [Delivery!Next]_(Delivery!vars)
<1> SUFFICES ASSUME ShardInv, StepCases PROVE [Delivery!Next]_(Delivery!vars)
  BY NextCases
<1> DEFINE Same == UNCHANGED <<tokenOf, Open, batchOf, done, abandoned, checkpoint>>
<1> USE DEF ShardInv, TypeOK
<1>0. ASSUME Same PROVE UNCHANGED Delivery!vars
  BY <1>0 DEF Delivery!vars, submitted, Open
<1>1. ASSUME NEW n \in 1 .. MaxBatch, NEW behind \in BOOLEAN, ProcessRecords(n, behind)
      PROVE  Same
  BY <1>1 DEF ProcessRecords, Open
<1>2. CASE SubmitBatch
  <2> DEFINE good == {i \in call : tokenOf[i] # Bad}
  <2>1. /\ waitedFor = {} /\ pc = "waiting" /\ pc' = "submitted"
        /\ UNCHANGED <<tokenOf, done, abandoned, checkpoint>>
        /\ batchOf' = [i \in Records |-> IF i \in good THEN batchNo + 1 ELSE batchOf[i]]
    BY <1>2, WaitedForInBatch DEF SubmitBatch
  <2>2. \A i \in good : tokenOf[i] \in Tokens /\ checkpoint < i /\ batchOf[i] = 0
    <3> SUFFICES ASSUME NEW i \in good
                 PROVE  tokenOf[i] \in Tokens /\ checkpoint < i /\ batchOf[i] = 0
      OBVIOUS
    <3>1. i \in call /\ i \in Records /\ tokenOf[i] # Bad
      OBVIOUS
    <3> QED BY <3>1 DEF CheckpointIsBehind, RecordsInTheirPlace
  <2>3. \A i \in good, j \in done \cup abandoned : j < i
    <3>1. \A j \in done \cup abandoned : j \in Records /\ batchOf[j] > 0
      BY DEF TasksStarted
    <3>2. \A i \in good : i \in call
      OBVIOUS
    <3> QED BY <3>1, <3>2 DEF RecordsInTheirPlace
  <2>4. good \in SUBSET Records
    OBVIOUS
  <2> HIDE DEF good
  <2>5. submitted' = submitted \cup good
    <3>1. \A i \in Records : batchOf'[i] > 0 <=> batchOf[i] > 0 \/ i \in good
      BY <2>1
    <3> HIDE DEF Records
    <3> QED BY <2>4, <3>1 DEF submitted
  <2>6. good \cap (done \cup abandoned) = {}
    <3> SUFFICES ASSUME NEW i \in good, i \in done \cup abandoned PROVE FALSE
      OBVIOUS
    <3>1. batchOf[i] > 0
      BY DEF TasksStarted
    <3> QED BY <2>2, <3>1
  <2>7. Delivery!HandOver(good)
    <3>1. (submitted \ (done \cup abandoned))' = (submitted \ (done \cup abandoned)) \cup good
      BY <2>1, <2>5, <2>6
    <3>2. \A i \in good :
            /\ tokenOf[i] \in Tokens /\ checkpoint < i
            /\ Delivery!OfToken(submitted \ (done \cup abandoned), tokenOf[i]) = {}
            /\ \A j \in Delivery!OfToken((abandoned \ done) \cup done, tokenOf[i]) : j < i
      BY <2>1, <2>2, <2>3 DEF waitedFor, Delivery!OfToken
    <3> QED BY <2>1, <3>1, <3>2 DEF Delivery!HandOver
  <2> QED BY <2>4, <2>7 DEF Delivery!Next
<1>3. CASE MaybeCheckpoint
  <2>1. /\ UNCHANGED <<tokenOf, batchOf, done, abandoned>>
        /\ pc = "submitted" /\ pc' = "idle"
        /\ checkpoint' \in {checkpoint, position}
    BY <1>3 DEF MaybeCheckpoint, TryCheckpoint
  <2>2. Delivery!Checkpoint
    BY <2>1, CoversMore DEF Delivery!Checkpoint, submitted
  <2> QED BY <2>2 DEF Delivery!Next
<1>4. ASSUME NEW reason \in {"TERMINATE", "ZOMBIE"}, Shutdown(reason)
      PROVE  Delivery!Next
  <2>1. /\ UNCHANGED <<tokenOf, done, abandoned>>
        /\ pc' \in {"stopped", "ended"}
        /\ checkpoint' \in {checkpoint, position}
        /\ \/ batchOf' = batchOf
           \/ batchOf' = [i \in Records |-> IF i \in Batch THEN 0 ELSE batchOf[i]]
    BY <1>4 DEF Shutdown, TryCheckpoint
  <2>2. (submitted \ (done \cup abandoned))' \in {submitted \ (done \cup abandoned), {}}
    <3>1. CASE batchOf' = batchOf
      BY <2>1, <3>1 DEF submitted
    <3>2. CASE batchOf' = [i \in Records |-> IF i \in Batch THEN 0 ELSE batchOf[i]]
      <4>1. submitted' = submitted \ Batch
        BY <3>2 DEF submitted
      <4> QED BY <2>1, <4>1, WaitedForInBatch DEF waitedFor
    <3> QED BY <2>1, <3>1, <3>2
  <2>3. Delivery!Stop
    BY <2>1, <2>2, CoversMore DEF Delivery!Stop
  <2> QED BY <2>3 DEF Delivery!Next
<1>5. CASE StartTasks
  BY <1>0, <1>5 DEF StartTasks, Open
<1>6. ASSUME NEW t \in Tokens, TaskReturns(t) PROVE Same
  BY <1>6 DEF TaskReturns, Open
<1>7. ASSUME NEW t \in Tokens, GiveUpTask(t) PROVE Delivery!Next
  <2>1. /\ UNCHANGED <<tokenOf, pc, batchOf, done, checkpoint>>
        /\ abandoned' = abandoned \cup Task(t)
    BY <1>7 DEF GiveUpTask
  <2>2. submitted' = submitted
    BY <2>1 DEF submitted
  <2>3. Task(t) \subseteq submitted /\ Task(t) = {i \in Batch : tokenOf[i] = t}
        /\ waitedFor \subseteq Batch
    BY WaitedForInBatch DEF Task
  <2>4. Delivery!OfToken(waitedFor, t) = Task(t) \ (done \cup abandoned)
    BY <2>3 DEF Delivery!OfToken, waitedFor
  <2>5. Delivery!GiveUp(t)
    <3>1. (submitted \ (done \cup abandoned))' = waitedFor \ Delivery!OfToken(waitedFor, t)
      BY <2>1, <2>2, <2>4 DEF waitedFor
    <3>2. (abandoned \ done)' = (abandoned \ done) \cup Delivery!OfToken(waitedFor, t)
      BY <2>1, <2>4
    <3> QED BY <2>1, <3>1, <3>2 DEF Delivery!GiveUp, waitedFor
  <2> QED BY <2>5 DEF Delivery!Next
<1>8. CASE BatchDone
  BY <1>0, <1>8 DEF BatchDone, Open
<1>9. ASSUME NEW i \in Records, Handle(i) PROVE Delivery!Next
  <2>1. /\ UNCHANGED <<tokenOf, pc, batchOf, abandoned, checkpoint>>
        /\ done' = done \cup {i} /\ i \notin done /\ i \in submitted
    BY <1>9 DEF Handle, submitted
  <2>2. submitted' = submitted
    BY <2>1 DEF submitted
  <2>3. ASSUME NEW j \in waitedFor, tokenOf[j] = tokenOf[i] PROVE i <= j
    <3>1. j \in Batch /\ j \in Records /\ j \notin done
      BY WaitedForInBatch DEF waitedFor, submitted
    <3>2. CASE j < i
      <4>1. batchOf[j] <= batchOf[i] /\ batchOf[i] <= batchNo /\ batchOf[j] = batchNo
        BY <2>1, <3>1, <3>2 DEF BatchesInOrder, Batch, submitted
      <4>2. batchOf[i] = batchOf[j]
        BY <4>1
      <4> QED BY <1>9, <2>3, <3>1, <3>2, <4>2 DEF Handle
    <3> QED BY <3>1, <3>2
  <2>4. Delivery!Handle(i)
    <3>1. i \in (submitted \ (done \cup abandoned)) \cup (abandoned \ done)
      BY <2>1
    <3>2. \A j \in Delivery!OfToken(submitted \ (done \cup abandoned), tokenOf[i]) : i <= j
      BY <2>3 DEF Delivery!OfToken, waitedFor
    <3>3. /\ (submitted \ (done \cup abandoned))' = (submitted \ (done \cup abandoned)) \ {i}
          /\ (abandoned \ done)' = (abandoned \ done) \ {i}
      BY <2>1, <2>2
    <3> QED BY <2>1, <3>1, <3>2, <3>3 DEF Delivery!Handle
  <2> QED BY <2>4 DEF Delivery!Next
<1>10. CASE Write
  BY <1>0, <1>10 DEF Write, Open
<1>11. CASE TimerDue
  BY <1>0, <1>11 DEF TimerDue, Open
<1>12. CASE Restart
  <2>1. /\ tokenOf' = tokenOf /\ pc' = "idle" /\ done' = {} /\ abandoned' = {}
        /\ batchOf' = [i \in Records |-> 0]
        /\ checkpoint' = IF KeepCheckpoint THEN checkpoint ELSE 0
    BY <1>12 DEF Restart, NewProcessor
  <2>2. submitted' = {}
    BY <2>1 DEF submitted
  <2>3. Delivery!StartAnew
    BY <2>1, <2>2 DEF Delivery!StartAnew
  <2> QED BY <2>3 DEF Delivery!Next
<1>13. CASE UNCHANGED vars
  BY <1>0, <1>13 DEF vars, Open
<1> QED
  BY <1>0, <1>1, <1>2, <1>3, <1>4, <1>5, <1>6, <1>7, <1>8, <1>9, <1>10, <1>11,
     <1>12, <1>13 DEF StepCases

-----------------------------------------------------------------------------
(* The theorems.                                                           *)

\* The inductive invariant holds in every run of the consumer.
THEOREM ShardInvariant == Spec => []ShardInv
<1> QED BY ShardInit, ShardStep, PTL DEF Spec

\* Type correctness: positions, batches and the sets of records stay in bounds.
THEOREM ShardTypes == Spec => []TypeOK
<1>1. ShardInv => TypeOK
  BY DEF ShardInv
<1> QED BY <1>1, ShardInvariant, PTL

\* No record the process has received is lost without one of the reasons named
\* in Restart, however often the process dies.
THEOREM RecordsAccounted == Spec => []EveryRecordAccounted
<1>1. ShardInv => EveryRecordAccounted
  BY DEF ShardInv
<1> QED BY <1>1, ShardInvariant, PTL

\* Two tasks of a token run at the same time only after a time-out or an interrupt.
THEOREM TasksSerial == Spec => []TokenTasksSerial
<1>1. ShardInv => TokenTasksSerial
  <2> SUFFICES ASSUME ShardInv, NEW i \in Records, NEW j \in Records,
                      batchOf[i] > 0, batchOf[i] < batchOf[j]
               PROVE  i \in done \cup abandoned
    BY DEF TokenTasksSerial
  <2>1. batchOf[i] \in Nat /\ batchOf[j] \in Nat /\ batchNo \in Nat /\ batchOf[j] <= batchNo
    BY DEF ShardInv, TypeOK, BatchesInOrder
  <2>2. batchOf[i] < batchNo
    BY <2>1
  <2> QED BY <2>2 DEF ShardInv, EarlierIsSettled
<1> QED BY <1>1, ShardInvariant, PTL

\* Records that were not handled in order, only given up, are the only ones a
\* later frame of the token can overtake.
THEOREM HandledInOrder == Spec => FramesInOrder
<1> DEFINE Ordered ==
      \A i, j \in Records :
        /\ i < j /\ tokenOf[i] = tokenOf[j]
        /\ j \in done' \ done
        /\ batchOf[i] > 0
        => i \in done \cup abandoned
<1>1. ShardInv /\ [Next]_vars => [Ordered]_vars
  <2> SUFFICES ASSUME ShardInv, StepCases, NEW i \in Records, NEW j \in Records,
                      i < j, tokenOf[i] = tokenOf[j], j \in done' \ done, batchOf[i] > 0
               PROVE  i \in done \cup abandoned
    BY NextCases
  <2>1. Handle(j)
    BY DEF StepCases, ProcessRecords, SubmitBatch, MaybeCheckpoint, Shutdown, StartTasks,
           TaskReturns, GiveUpTask, BatchDone, Handle, Write, TimerDue, Restart,
           NewProcessor, vars
  <2>2. /\ batchOf[i] \in Nat /\ batchOf[j] \in Nat /\ batchNo \in Nat
        /\ batchOf[j] > 0 /\ batchOf[j] <= batchNo /\ batchOf[i] <= batchOf[j]
    BY <2>1 DEF ShardInv, TypeOK, BatchesInOrder, Handle
  <2>3. CASE batchOf[i] = batchOf[j]
    BY <2>1, <2>3 DEF Handle
  <2>4. CASE batchOf[i] < batchOf[j]
    BY <2>2, <2>4 DEF ShardInv, EarlierIsSettled
  <2> QED BY <2>2, <2>3, <2>4
<1> QED BY <1>1, ShardInvariant, PTL DEF Spec, FramesInOrder

\* As long as the checkpoint table is not deleted, the durable checkpoint only
\* moves forward and never beyond what KCL has delivered.
THEOREM CheckpointForward == KeepCheckpoint => (Spec => CheckpointAdvances)
<1> SUFFICES ASSUME KeepCheckpoint PROVE Spec => CheckpointAdvances
  OBVIOUS
<1> DEFINE Forward ==
      checkpoint' # checkpoint => checkpoint < checkpoint' /\ checkpoint' <= position
<1>1. ShardInv /\ [Next]_vars => [Forward]_vars
  <2> SUFFICES ASSUME ShardInv, StepCases PROVE Forward
    BY NextCases
  <2>1. checkpoint' \in {checkpoint, position}
    BY DEF StepCases, ProcessRecords, SubmitBatch, MaybeCheckpoint, TryCheckpoint,
           Shutdown, StartTasks, TaskReturns, GiveUpTask, BatchDone, Handle, Write,
           TimerDue, Restart, vars
  <2> QED BY <2>1 DEF ShardInv, TypeOK, CheckpointIsBehind
<1> QED BY <1>1, ShardInvariant, PTL DEF Spec, CheckpointAdvances

\* The consumer implements the delivery of each token's frames, with or without
\* kept checkpoints.
THEOREM DeliveryImplemented == Spec => ImplementsDelivery
BY DeliveryInit, DeliveryStep, ShardInvariant, PTL
   DEF Spec, ImplementsDelivery, Delivery!Spec
=============================================================================
