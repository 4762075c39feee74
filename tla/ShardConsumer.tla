--------------------------- MODULE ShardConsumer ---------------------------
(***************************************************************************)
(* One shard of the Kinesis stream and the RecordProcessor that consumes   *)
(* it.                                                                     *)
(*                                                                         *)
(* The Kinesis client library (KCL) calls initialize, processRecords and   *)
(* shutdown of one RecordProcessor one after the other.  processRecords    *)
(* waits until the previous batch is finished, hands the next one to a     *)
(* single-threaded executor and now and then checkpoints.  The batch       *)
(* thread gives each token's frames to the pool of ProcessorManagerImpl    *)
(* as one task and waits at most sixty seconds for each.  A process can    *)
(* die at any time; the next one starts from the checkpoint, or at the tip *)
(* of the stream when there is none (InitialPositionInStream.LATEST).      *)
(*                                                                         *)
(* Records are numbered in shard order; 0 is "no record".                  *)
(***************************************************************************)
EXTENDS Naturals, FiniteSets

CONSTANTS
    MaxRecords,    \* length of the shard: bounds the run
    MaxBatch,      \* most records of one processRecords call
    MaxRestarts,   \* process deaths and lease losses: bounds the run
    Tokens,        \* partition keys
    Bad,           \* mark of a record that cannot be unpacked
    KeepCheckpoint \* FALSE: the checkpoint table is deleted when a process starts

ASSUME BoundsAreNat ==
    MaxRecords \in Nat /\ MaxBatch \in Nat \ {0} /\ MaxRestarts \in Nat
ASSUME BadIsNoToken == Bad \notin Tokens
ASSUME KeepCheckpointIsBoolean == KeepCheckpoint \in BOOLEAN

VARIABLES
    tokenOf,      \* partition key of each record, or Bad
    written,      \* records the producers have put into the shard so far
    checkpoint,   \* the durable checkpoint of the shard in DynamoDB
    restarts,
    \* of the present process
    position,     \* last record handed to processRecords
    pc,           \* where the KCL thread is
    call,         \* records of the present processRecords call, not submitted yet
    batchOf,      \* number of the batch each record was submitted in, or 0
    batchNo,      \* batches submitted so far
    future,       \* the batch task: "null", "queued", "running" or "done"
    awaiting,     \* tokens of the batch whose task has not been waited for
    interrupted,  \* interrupt of the batch thread still pending
    due,          \* is the current time past nextCheckpointTimeInMillis?
    done,         \* records the pool has handled
    discarded,    \* records dropped without being handled
    abandoned,    \* records of tasks whose result was not waited for to the end
    \* history, over all processes
    seen,         \* records ever handled
    excused       \* records lost for one of the reasons named in Restart

recordVars == <<tokenOf, written>>
poolVars == <<done, seen>>
batchVars == <<batchOf, batchNo, future, awaiting, interrupted, abandoned>>
vars == <<recordVars, checkpoint, restarts, position, pc, call, batchVars, due,
          poolVars, discarded, excused>>

Records == 1 .. MaxRecords
Positions == 0 .. MaxRecords

TypeOK ==
    /\ tokenOf \in [Records -> Tokens \cup {Bad}]
    /\ written \in Positions
    /\ checkpoint \in Positions
    /\ restarts \in 0 .. MaxRestarts
    /\ position \in Positions
    /\ pc \in {"idle", "waiting", "submitted", "stopped", "ended"}
    /\ call \subseteq Records
    /\ batchOf \in [Records -> Nat]
    /\ batchNo \in Nat
    /\ future \in {"null", "queued", "running", "done"}
    /\ awaiting \subseteq Tokens
    /\ interrupted \in BOOLEAN
    /\ due \in BOOLEAN
    /\ done \subseteq Records
    /\ discarded \subseteq Records
    /\ abandoned \subseteq Records
    /\ seen \subseteq Records
    /\ excused \subseteq Records

\* A new RecordProcessor whose shard iterator stands behind record p.
NewProcessor(p) ==
    /\ position' = p
    /\ pc' = "idle"
    /\ call' = {}
    /\ batchOf' = [i \in Records |-> 0]
    /\ batchNo' = 0
    /\ future' = "null"
    /\ awaiting' = {}
    /\ interrupted' = FALSE
    /\ due' = FALSE
    /\ done' = {}
    /\ discarded' = {}
    /\ abandoned' = {}

Init ==
    /\ tokenOf \in [Records -> Tokens \cup {Bad}]
    /\ written = 0
    /\ checkpoint = 0
    /\ restarts = 0
    /\ position = 0
    /\ pc = "idle"
    /\ call = {}
    /\ batchOf = [i \in Records |-> 0]
    /\ batchNo = 0
    /\ future = "null"
    /\ awaiting = {}
    /\ interrupted = FALSE
    /\ due = FALSE
    /\ done = {}
    /\ discarded = {}
    /\ abandoned = {}
    /\ seen = {}
    /\ excused = {}

-----------------------------------------------------------------------------
(* The KCL thread.                                                         *)

\* The records of the batch that was submitted last, and of one token's task.
Batch == {i \in Records : batchOf[i] = batchNo /\ batchNo > 0}
Task(t) == {i \in Batch : tokenOf[i] = t}

\* KCL calls processRecords with the next n records of the shard.  A batch
\* that is more than five minutes behind is skipped at once.
ProcessRecords(n, behind) ==
    /\ pc = "idle"
    /\ position + n <= written
    /\ position' = position + n
    /\ IF behind
       THEN /\ discarded' = discarded \cup (position + 1 .. position + n)
            /\ UNCHANGED <<pc, call>>
       ELSE /\ call' = position + 1 .. position + n
            /\ pc' = "waiting"
            /\ UNCHANGED discarded
    /\ UNCHANGED <<recordVars, checkpoint, restarts, batchVars, due, poolVars, excused>>

\* Mutant: the next batch does not wait for the previous one.
SubmitBatch_NoWait ==
    LET good == {i \in call : tokenOf[i] # Bad} IN
    /\ pc = "waiting"
    /\ batchNo' = batchNo + 1
    /\ batchOf' = [i \in Records |-> IF i \in good THEN batchNo + 1 ELSE batchOf[i]]
    /\ discarded' = discarded \cup (call \ good)
    /\ call' = {}
    /\ future' = "queued"
    /\ pc' = "submitted"
    /\ UNCHANGED <<recordVars, checkpoint, restarts, position, awaiting, interrupted,
                   abandoned, due, poolVars, excused>>

\* The loop of processRecords finds the previous batch finished: the records
\* that can be unpacked become the next batch.
SubmitBatch ==
    LET good == {i \in call : tokenOf[i] # Bad} IN
    /\ pc = "waiting"
    /\ future \in {"null", "done"}
    /\ batchNo' = batchNo + 1
    /\ batchOf' = [i \in Records |-> IF i \in good THEN batchNo + 1 ELSE batchOf[i]]
    /\ discarded' = discarded \cup (call \ good)
    /\ call' = {}
    /\ future' = "queued"
    /\ pc' = "submitted"
    /\ UNCHANGED <<recordVars, checkpoint, restarts, position, awaiting, interrupted,
                   abandoned, due, poolVars, excused>>

\* Mutant: the checkpoint is one record too far.
TryCheckpoint_OffByOne == checkpoint' \in {checkpoint, position + 1}

\* Mutant: the checkpoint marks what was written, not what was delivered.
TryCheckpoint_ToTip == checkpoint' \in {checkpoint, written}

\* checkpointer.checkpoint() marks everything delivered; its exceptions are
\* logged and ignored.
TryCheckpoint == checkpoint' \in {checkpoint, position}

\* The end of processRecords; the timer is reset even if the checkpoint failed.
MaybeCheckpoint ==
    /\ pc = "submitted"
    /\ IF due THEN TryCheckpoint ELSE UNCHANGED checkpoint
    /\ due' = FALSE
    /\ pc' = "idle"
    /\ UNCHANGED <<recordVars, restarts, position, call, batchVars, poolVars, discarded, excused>>

\* shutdown: the batch thread is interrupted; a batch task that it has not
\* taken from the queue yet may be thrown away by shutdownNow.
Shutdown(reason) ==
    /\ pc = "idle"
    /\ IF reason = "TERMINATE"
       THEN position = MaxRecords /\ TryCheckpoint /\ pc' = "ended"
       ELSE UNCHANGED checkpoint /\ pc' = "stopped"
    /\ interrupted' = (future \in {"queued", "running"})
    /\ \/ UNCHANGED <<future, batchOf, discarded>>
       \/ /\ future = "queued"
          /\ future' = "done"
          /\ discarded' = discarded \cup Batch
          /\ batchOf' = [i \in Records |-> IF i \in Batch THEN 0 ELSE batchOf[i]]
    /\ UNCHANGED <<recordVars, restarts, position, call, batchNo, awaiting, abandoned,
                   due, poolVars, excused>>

-----------------------------------------------------------------------------
(* The batch thread (submitTask) and the pool.                             *)

\* One pool task per token of the batch.
StartTasks ==
    /\ future = "queued"
    /\ future' = "running"
    /\ awaiting' = {t \in Tokens : Task(t) # {}}
    /\ UNCHANGED <<recordVars, checkpoint, restarts, position, pc, call, batchOf, batchNo,
                   interrupted, abandoned, due, poolVars, discarded, excused>>

\* task.get(60 s) returns ...
TaskReturns(t) ==
    /\ future = "running"
    /\ t \in awaiting
    /\ Task(t) \subseteq done
    /\ awaiting' = awaiting \ {t}
    /\ UNCHANGED <<recordVars, checkpoint, restarts, position, pc, call, batchOf, batchNo,
                   future, interrupted, abandoned, due, poolVars, discarded, excused>>

\* Mutant: task.get() without a time limit.
GiveUpTask_NoTimeout(t) ==
    /\ future = "running"
    /\ t \in awaiting
    /\ awaiting' = awaiting \ {t}
    /\ abandoned' = abandoned \cup Task(t)
    /\ interrupted /\ interrupted' = FALSE
    /\ UNCHANGED <<recordVars, checkpoint, restarts, position, pc, call, batchOf, batchNo,
                   future, due, poolVars, discarded, excused>>

\* ... or throws: the time is over or the thread was interrupted.  The
\* exception is logged, the pool task goes on.  (A task never ends with an
\* exception of its own: handleDatas catches what a frame throws.)
GiveUpTask(t) ==
    /\ future = "running"
    /\ t \in awaiting
    /\ awaiting' = awaiting \ {t}
    /\ abandoned' = abandoned \cup Task(t)
    /\ \/ ~(Task(t) \subseteq done) /\ UNCHANGED interrupted
       \/ interrupted /\ interrupted' = FALSE
    /\ UNCHANGED <<recordVars, checkpoint, restarts, position, pc, call, batchOf, batchNo,
                   future, due, poolVars, discarded, excused>>

BatchDone ==
    /\ future = "running"
    /\ awaiting = {}
    /\ future' = "done"
    /\ UNCHANGED <<recordVars, checkpoint, restarts, position, pc, call, batchOf, batchNo,
                   awaiting, interrupted, abandoned, due, poolVars, discarded, excused>>

\* Mutant: the frames of a task are handled in any order.
Handle_AnyOrder(i) ==
    /\ batchOf[i] > 0
    /\ batchOf[i] = batchNo => future # "queued"
    /\ i \notin done
    /\ done' = done \cup {i}
    /\ seen' = seen \cup {i}
    /\ UNCHANGED <<recordVars, checkpoint, restarts, position, pc, call, batchVars, due,
                   discarded, excused>>

\* Mutant: a task that was given up is cancelled.
Handle_Cancelled(i) ==
    /\ i \notin abandoned
    /\ Handle_AnyOrder(i)

\* A pool thread handles the next frame of a token's task: handleDatas goes
\* through the frames in order.
Handle(i) ==
    /\ batchOf[i] > 0
    /\ batchOf[i] = batchNo => future # "queued"
    /\ i \notin done
    /\ \A j \in Records :
        j < i /\ batchOf[j] = batchOf[i] /\ tokenOf[j] = tokenOf[i] => j \in done
    /\ done' = done \cup {i}
    /\ seen' = seen \cup {i}
    /\ UNCHANGED <<recordVars, checkpoint, restarts, position, pc, call, batchVars, due,
                   discarded, excused>>

-----------------------------------------------------------------------------
(* The environment.                                                        *)

Write ==
    /\ written < MaxRecords
    /\ written' = written + 1
    /\ UNCHANGED <<tokenOf, checkpoint, restarts, position, pc, call, batchVars, due,
                   poolVars, discarded, excused>>

\* CHECKPOINT_INTERVAL_MILLIS have passed since the timer was set.
TimerDue ==
    /\ ~due
    /\ due' = TRUE
    /\ UNCHANGED <<recordVars, checkpoint, restarts, position, pc, call, batchVars,
                   poolVars, discarded, excused>>

\* Mutant: every process starts at the tip of the stream.
StartPosition_Tip(c) == written

\* Where a new process starts, given the checkpoint it finds.
StartPosition(c) == IF c = 0 THEN written ELSE c

\* The process dies or has lost the lease; its pool tasks are gone, and a new
\* process takes the shard over.  Lost for good are: what the checkpoint
\* covers and the pool had not handled of the last batch, of tasks given up
\* and of records discarded; and, without a checkpoint, whatever the tip of
\* the stream has passed.
Restart ==
    LET found == IF KeepCheckpoint THEN checkpoint ELSE 0 IN
    /\ restarts < MaxRestarts
    /\ pc # "ended"
    /\ restarts' = restarts + 1
    /\ checkpoint' = found
    /\ excused' = excused \cup
        ((IF found = 0 THEN 1 .. written
          ELSE (1 .. found) \cap (Batch \cup abandoned \cup discarded)) \ seen)
    /\ NewProcessor(StartPosition(found))
    /\ UNCHANGED <<recordVars, seen>>

-----------------------------------------------------------------------------
KCLStep ==
    \/ SubmitBatch
    \/ MaybeCheckpoint

BatchStep ==
    \/ StartTasks
    \/ \E t \in Tokens : TaskReturns(t) \/ GiveUpTask(t)
    \/ BatchDone

PoolStep == \E i \in Records : Handle(i)

Next ==
    \/ \E n \in 1 .. MaxBatch, behind \in BOOLEAN : ProcessRecords(n, behind)
    \/ KCLStep
    \/ \E reason \in {"TERMINATE", "ZOMBIE"} : Shutdown(reason)
    \/ BatchStep
    \/ PoolStep
    \/ Write
    \/ TimerDue
    \/ Restart

Spec == Init /\ [][Next]_vars

\* The thread that runs processRecords and the batch thread are scheduled,
\* and every timed wait ends.  Nothing is assumed about the pool.
FairSpec == Spec /\ WF_vars(KCLStep) /\ WF_vars(BatchStep)

\* The pool tasks run, too: no frame blocks its thread for ever.
PoolFairness == \A i \in Records : WF_vars(Handle(i))

-----------------------------------------------------------------------------
(* Properties.                                                             *)

\* The checkpoint stays behind what was delivered and what the present call holds.
CheckpointIsBehind ==
    /\ checkpoint <= position /\ position <= written
    /\ \A i \in call : checkpoint < i

\* What lies beyond the position is untouched, and the records of the present
\* call lie behind all that was submitted.
RecordsInTheirPlace ==
    /\ call # {} => pc = "waiting"
    /\ \A i \in call : i <= position /\ batchOf[i] = 0
    /\ \A i \in call, j \in Records : batchOf[j] > 0 => j < i
    /\ \A i \in Records : batchOf[i] > 0 => i <= position /\ tokenOf[i] \in Tokens

\* Batches are numbered in shard order.
BatchesInOrder ==
    /\ \A i \in Records : batchOf[i] <= batchNo
    /\ \A i, j \in Records :
        i < j /\ batchOf[i] > 0 /\ batchOf[j] > 0 => batchOf[i] <= batchOf[j]

\* What the batch thread has left behind is handled or given up.
EarlierIsSettled ==
    /\ future = "null" => batchNo = 0
    /\ \A i \in Records : 0 < batchOf[i] /\ batchOf[i] < batchNo => i \in done \cup abandoned
    /\ future = "running" => \A i \in Batch : tokenOf[i] \in awaiting \/ i \in done \cup abandoned
    /\ future = "done" => Batch \subseteq done \cup abandoned

\* A frame is handled or given up only after its batch left the executor's queue.
TasksStarted ==
    \A i \in done \cup abandoned :
        batchOf[i] > 0 /\ (future = "queued" => batchOf[i] # batchNo)

\* Every record the process has received is handled, or still in the hands of
\* the call or of the last batch, or was dropped, given up or lost at a restart
\* for a reason the code decides on: the checkpoint, which is taken before the
\* batch is handled, never runs more than that one batch ahead of the pool.
EveryRecordAccounted ==
    \A i \in 1 .. position :
        i \in seen \cup excused \cup call \cup Batch \cup abandoned \cup discarded

\* The inductive invariant of the proofs.
ShardInv ==
    /\ TypeOK
    /\ done \subseteq seen
    /\ CheckpointIsBehind
    /\ RecordsInTheirPlace
    /\ BatchesInOrder
    /\ EarlierIsSettled
    /\ TasksStarted
    /\ EveryRecordAccounted

\* A token's task is not started while an earlier task of the token is
\* unfinished, unless the wait for the earlier one was given up.
TokenTasksSerial ==
    \A i, j \in Records :
        /\ batchOf[i] > 0 /\ batchOf[i] < batchOf[j]
        /\ tokenOf[i] = tokenOf[j]
        => i \in done \cup abandoned

\* The frames of a token are handled in shard order, with the same exception.
FramesInOrder ==
    [][\A i, j \in Records :
        /\ i < j /\ tokenOf[i] = tokenOf[j]
        /\ j \in done' \ done
        /\ batchOf[i] > 0
        => i \in done \cup abandoned]_vars

\* The checkpoint never covers a record KCL has not delivered, and without the
\* deletion of the checkpoint table it never goes back.
CheckpointAdvances ==
    [][checkpoint' # checkpoint => checkpoint < checkpoint' /\ checkpoint' <= position]_vars

submitted == {i \in Records : batchOf[i] > 0}

Delivery == INSTANCE FrameDelivery WITH
    Frames <- Records,
    Durable <- KeepCheckpoint,
    open <- pc \notin {"stopped", "ended"},
    pending <- submitted \ (done \cup abandoned),
    late <- abandoned \ done,
    handled <- done,
    covered <- checkpoint

\* Between KCL, batch thread and pool, the frames of a token are delivered one
\* task after the other, in order and once, and never below the checkpoint.
ImplementsDelivery == Delivery!Spec

\* processRecords returns, even if the pool never finishes a task: all waits
\* of the batch thread are bounded.
CallReturns == pc = "waiting" ~> pc # "waiting"

\* What was submitted is handled, if only late, unless the process stops or a
\* frame blocks its pool thread for ever: giving a task up does not end it.
SubmittedIsHandled ==
    PoolFairness =>
        \A i \in Records : batchOf[i] > 0 ~> i \in done \/ batchOf[i] = 0

\* "Submit a batch of data, and wait for the results to return": when the
\* batch thread is done, so are the tasks of the batch (RecordProcessor:137).
BatchWaitsForResults == future = "done" => Batch \subseteq done
=============================================================================
