# Formal model of media-algorithm

media-algorithm consumes the video frames of security cameras from a Kinesis
stream, runs native motion detection on them, asks a remote service what moved,
and uploads pictures and event messages.  This directory holds TLA+ models of
its own control logic, the TLC runs that check them on small instances, and
proofs, checked by TLAPS, of what must hold for every instance.

Paths below are relative to `src/src/java/algorithm-bootstrap/src/main/java/com/sengled/mediaworker/`
unless they start with `src/`.

## 1. Inventory

### The flow of a frame

```
Kinesis shard --KCL thread--> RecordProcessor.processRecords
   unpack, group by tokenMask; wait for the previous batch; submit the batch
   checkpoint once a minute
 --batch thread (one per shard)--> submitTask
   one pool task per token; wait <= 60 s for each
 --pool thread--> ProcessorManagerImpl.handleDatas / actionHandle
   StreamingContextManager: find, create or close the token's context (one lock)
   drop late frames
   ExecAction: decode -> for each image JnaInterface.feed -> native feed2
   listeners, if there was motion:
     MotionFeedListenerImpl: mark, encode, event bus -> MotionEventHandler -> PutManager
     ObjectFeedListenerImpl: mark, object thread -> HTTP -> match -> event bus
                                                   -> ObjectEventHandler -> PutManager
 --timer thread, every 5 s--> PutManager.mergeAndUpload: images -> files
 --upload pool--> S3 putObject, then one SQS message per image
 --scheduler, every 10 min--> StreamingContextManager.cleanExpiredContext (no lock)
```

### Components

| component | state | operations | hard behaviour | what makes it correct |
|---|---|---|---|---|
| `algorithm/context/StreamingContextManager`, `StreamingContext` | `streamingContextMap`, `lockObject`, per context: update time, frame time | find/create/close under the lock, clean without it | the cleaner races with the lock holders; close is three steps, of which the second may fail; a remote query inside the lock; frame time shared by the frames of a token | no double or early deletion, no dead context in the map and no leaked instance but for the known reasons, an expired context unmapped whatever the lock holder does |
| `ProcessorManagerImpl`, `ExecAction`, `JnaInterface`, `sengled_algorithm_base.c` | work-stealing pool, `pointerMap`, native instances | handle a frame, feed, create, delete | use of a context after the lock is released | an instance is fed only while it lives, unless the cleaner interferes |
| `RecordProcessor` and the KCL wiring | `future`, checkpoint timer, `isShutdown` | processRecords, submitTask, checkpoint, shutdown | time-outs that do not cancel, checkpoint ahead of the work, crash, start at the tip, interrupt | every record accounted for, token order, bounded waits |
| `PutManager`, the event handlers, `StorageProperties` | four sets, merge buffer | put, mergeAndUpload, submit | sets filled while iterated; partial failure; reset of several variables | each image published once with the right range and tag |
| `MotionFeedListenerImpl`, `ObjectFeedListenerImpl`, `ObjectRecognitionImpl`, `MotionAndObjectReportManager`, `ObjectContextManager` | two caches of marks, bounded queues, object contexts | check, post, mark, recognise | check-then-act over an asynchronous call; full queues; shared context | one motion event per interval, bounded object bursts, own time, frame order |
| `KinesisFrameDecoder`, `AlgorithmConfigWarpper`, `ImageUtils`, object matching | none | pure conversions | frame numbers of two sources matched by index | not modelled, but for bad records and zones without a position |
| `metrics/custom/LastMinuteCount`, `ServicesMetrics`, `RecordCounter` | counters | mark, tick | unsynchronised add between the two steps of a tick | a mark is counted once or lost for a named reason |
| `AbsObjectPool` (`src/src/java/algorithm-jna`) | borrowed JNA structures, their Java fields and native memory | borrow, native call, `Destroy`, clear, return | limit not taken from its configuration; stale pointers in pooled structures; failed calls | each call frees its own buffers and no other; nobody waits for ever |
| native motion analysis (`src/src/c/motion`) | zone list, background model per zone, `isModelUpdate` | parse, remove nested zones, build or use models, merge boxes, report | models found by position; flag reset behind the loop; in-place merge with an unsigned index | a zone has its own model, built once; merging ends with the hulls |
| native decoder and encoder (`src/src/c/decoder`, `src/src/c/encoder`) | per call | decode, encode | failure before anything is allocated; more pictures than the structure has room for | buffers: with the object pools; the choice of frames is not modelled |
| Spring wiring, Consul, DynamoDB, HTTP, media base clients | none | - | - | not modelled: no state of their own |
| FFmpeg, OpenCV, cJSON, ViBe, Python helpers | - | - | - | not modelled: third party, or not run by the service |

The hazards of the code, each at its line and with the properties that cover
it, are listed in `PROJECT.json`.

## 2. Modules

| module | models | composed with |
|---|---|---|
| `StreamingContexts` | contexts, lock, cleaner, native instances, frames in the pool | refines `ModelLifecycle` |
| `ModelLifecycle` | abstract: the life of an instance and its registration | - |
| `ShardConsumer` | one shard: KCL thread, batch thread, pool tasks, checkpoint, crash | refines `FrameDelivery`; its `abandoned` tasks are what `Overlap` of `StreamingContexts` stands for |
| `FrameDelivery` | abstract: delivery of each token's frames, with give-ups and restarts | - |
| `PutManager` | image sets, merge timer, upload pool | - |
| `EventReports` | listeners, marks, object threads | assumes one task per stream at a time (see `ShardConsumer`) |
| `NativePool` | object pools and the native buffers of decode, encode, feed | one call of the `Decode` and `Feed...` steps of `StreamingContexts` |
| `MotionInstance` | zones, background models and result of one native instance | the instance that `StreamingContexts` creates, feeds and deletes |
| `BoxMerge` | sorting and merging of the boxes of one zone | what `AnalyseZone` of `MotionInstance` calls an area |
| `MinuteCount` | the last-minute counter of the metrics | - |
| `...Proofs` | proofs about the module of that name | extends it and `TLAPS` |
| `MC...` | symmetry sets and constant values for TLC | - |

Operators named `X_Y` right before an operator `X` are deliberately wrong
variants of it ("Mutant: ..."); nothing uses them.  They document which mistake
each property notices: with `X_Y` in the place of `X`, TLC finds the property
violated.

### StreamingContexts

A member of `Models` is a context together with its native instance: they are
created together (`newAlgorithmContext`) and never re-paired.

| code | model |
|---|---|
| `streamingContextMap`, `StreamingContext.tokenMask` | `streamingContextMap`, `tokenMask` |
| `JnaInterface.pointerMap`, the C++ object behind the pointer | `pointerMap`, `native` |
| `synchronized (lockObject)` | `lockObject`, `EnterLock`, `LeaveLock` |
| `contextUpdateTimestamp` younger than ten minutes | `fresh`; `ContextExpires` lets time pass |
| `utcDateTime` older than `max.delayed.time.msce` | `utcLate` |
| the weakly consistent iterator of `cleanExpiredContext` | `unvisited`; an entry's value is read in one step (`CleanerFetch`), tested in the next (`CleanerCheck`), closed in later ones |
| `close`: `pointerMap.remove`, `delete_instance`, `streamingContextMap.remove(key)` | `RemovePointer`, `DeleteInstance` or `DeleteInstanceFails`, `Unmap`, run by lock holder and cleaner alike |
| the remote configuration query, `create_instance`, `put` | `Configure`, `CreateInstance`, `Publish`; any failure is `NewContextFails` |
| decode, and one `feed` per image | `Decode`, `FeedLookup`, `FeedReturns`, `Finish` |

Each step between two accesses to shared state is an action of its own, so the
cleaner can come in between any two of them.  `Overlap = TRUE` lets two threads
handle frames of one token at once, which happens after a sixty-second time-out
of `RecordProcessor`; `Overlap = FALSE` is the normal schedule.

`DeleteInstanceFails` is the `catch` of `JnaInterface.close` (264-267): the
pointer has been removed, the exception skips `streamingContextMap.remove`
(`StreamingContextManager.java:131-132`), a worker leaves the lock and drops its
frame (`ProcessorManagerImpl.java:94-100`), the cleaner logs it and goes on
(72-76).  Whether the instance was deleted is left open.  The context stays
mapped without a pointer; `failed` remembers it, and the properties name it as a
reason.  Every `exec` frame that finds such a context keeps it fresh and fails in
`feed`; the next `open` or `close` frame, or the cleaner after ten silent
minutes, finds no pointer, skips `delete_instance` and unmaps it
(`ExpiredIsUnmapped` holds with such failures).

### ShardConsumer

Records are numbered in shard order.  `ProcessRecords`, `SubmitBatch` and
`MaybeCheckpoint` are the three parts of `processRecords`; `StartTasks`,
`TaskReturns`, `GiveUpTask` and `BatchDone` those of `submitTask`; `Handle` is
one round of `handleDatas`.  KCL calls the processor serially, so `Shutdown` is
enabled between two calls only.  `Restart` is the death of the process or the
loss of the lease followed by a new processor at the checkpoint, or at the tip
without one (`LATEST`); `KeepCheckpoint = FALSE` is the start with
`kinesis.checkpoint.delete=yes`.  `excused` names what a restart may lose: the
last batch, given-up tasks and discarded records below the checkpoint, and
everything behind the tip when there is no checkpoint.

`FrameDelivery` is the same seen by those who handle frames: frames `pending`
(handed over and waited for), `late` (given up, still to be handled) and
`handled`.  It knows no batches: `HandOver` asks only that nothing of the same
token is pending, that the new frames come behind all earlier ones of their
token, and that the checkpoint does not cover them; `Handle` keeps the order
among what is pending.  `GiveUp` takes a whole task, `Stop` may withdraw what is
pending (the batch that `shutdownNow` threw out of the queue), `StartAnew`
forgets everything but the checkpoint.

### PutManager

`Put` is the end of either event handler; `size = 0` stands for null or empty
JPEG data, which `JnaInterface.encode` can return and nothing filters on the
way.  The timer thread is `TimerRun`, `MergeNext` per image and `MergeEnds`.
The iterator of the concurrent set is modelled as weakly consistent: it owes
every element that was there when it was made, may or may not return later
ones, and it has already fixed its next element when an image is removed -
which is why `hasNext` after `remove` is the choice of `n` in `MergeNext`.  A
byte of the buffer is the image it belongs to.

### EventReports

`MotionCheck`/`PostMotion`/`MarkMotion` and `ObjectCheck`/`Submit` are the two
listeners in the order in which `ExecAction` calls them; `Take`, `Answer`,
`PostObject`, `MarkObject` are `handle2` on the object thread.  A mark lives
until `MotionFlagExpires`/`ObjectFlagExpires`.  Only frames with motion are
modelled, numbered per stream.

### NativePool

One structure of a pool is `fields` (what the Java object holds) and `memory`
(what the native side sees); JNA copies the one to the other before a call and
back after it.  `NativeCall` is `DecodeNal`, `EncodeJPG` or `feed2`: `Wiped` is
the `memset` at their beginning (which `feed2` does not have), `Allocations`
says how many buffers they allocate, none when they fail, and `Left` which
pointers the structure has afterwards.  `Destroy` is the `finally` of
`JnaInterface`, `Return` is `clear` and `returnObject`.  `clear` reaches the
memory only, so `fields` keeps pointers to freed buffers, and an address may be
used again by another thread.  The Config of `AbsObjectPool` is not passed to
the pool; `MaxActive` is the default of commons-pool, and a borrower waits in
order of arrival.

`DecodeNal` stores a pointer and a size for every picture it decodes, up to
`DECODER_NUM` = 50 (`nal_decoder.c:396-443`), but `YUVFrame2` has `data[2]` and
`size[2]` (`common/yuv.h:12-18`), and `Destroy` frees two (`462-470`).  The third
pointer falls on the two sizes, everything later beyond the structure; the first
two pointers stay as they are.  `Astray` are the buffers whose addresses are
written there; `surplus` collects them: nothing points to them, nothing frees
them.  What the stray writes do is undefined.  The model has two outcomes: the
calls go on as before, or the process dies sooner or later (`ProcessDies`) and
its successor starts with nothing.  What they do to other data of a process that
lives on, or to the pixels that are copied by a wrong size, is not modelled.

### MotionInstance

The pure part follows a configuration to the regions of interest: `Parses` and
`Params` (`CopyAlgorithmParams`), `ZoneMap`, `Unnest2`, `ByX`, `Unnest3` (the
switch of `mMotionAction`), `Clipped`, `Roi`, `IsWatchable`.  Rectangles are in
percent.  `FeedBegins`, one of `SkipZone`, `BuildModel`, `AnalyseZone` per zone
in the order of the ids, and `FeedEnds` are one feed; `FeedWithoutZones` is the
branch without zones.  A model is represented by the region it was built for.
The instance and the configuration are replaced together by `Reopen`.

Two facts of the code that the properties state as they are: of two zones the
*outer* one is removed when they are nested, of three the inner ones; and of
three zones the left edges are not compared, only their order, so a zone that
begins at the same left edge counts as nested.

### BoxMerge

The loops of `getValidContours` step by step.  Indices are one more than in the
code, so that `i = 0` is the largest unsigned number, to which `i--` takes the
index of the first box before `i++` brings it back.

### MinuteCount

A count is the set of the marks in it, so that a mark can be followed.  `tick`
is `EnterTick`, `TickSet` and `TickReset` under `lock`; `Add` is outside of it.
`excused` is what is lost: marks added between `TickSet` and `TickReset`, and
the present count when a whole minute went by without a tick.

## 3. What the runs check

| run | instance | question and result |
|---|---|---|
| `contexts_overlap` | 1 token, 2 workers, 2 models, cleaner, `Overlap` | `LifeInv` (the inductive invariant of the proofs), `DeleteOnce`, `MappedIsUsable`, `LockHolderUnmapsOwn`, `LeaksHaveAReason`, and the refinement `ImplementsLifecycle` hold |
| `contexts_serial` | 1 token, 2 workers, 2 models, no overlap, `FairSpec` | `OnlyCleanerTakesInstance`, `LateFramesAreDropped` hold; `ExpiredIsUnmapped` holds although a worker may stay inside the lock for ever and `delete_instance` may fail |
| `shard` | 3 records, batches of 1-2, 2 tokens or undecodable, 1 restart, `FairSpec` | `ShardInv`, `EveryRecordAccounted`, `FramesInOrder`, `CheckpointAdvances` and the refinement `ImplementsDelivery` hold; `CallReturns` holds without any fairness of the pool, `SubmittedIsHandled` if the pool is fair (`PoolFairness`) |
| `shard_wait` | 1 record | `BatchWaitsForResults` is violated (finding 1) |
| `upload` | 3 images of 0 or 2 bytes, files of at most 2, expiry 1 or 14 days, `FairSpec` | `PutInv`, `RangesCutOutImages`, `MergeLimit`, `PublishedOnce`, `TagFitsAll`, `LostOnlyAtBadTail`, `ImagesGetOut` hold |
| `upload_tail` | 2 images of 0-1 bytes | `CollectedIsUploaded` is violated (finding 2) |
| `reports` | 2 streams on one object thread, queue of 1, 4 and 2 frames, `FairSpec` | `RepInv`, `MotionOncePerInterval`, `ObjectBurstBounded`, `EventHasOwnTime`, `ObjectEventsInOrder` hold; `StreamsDoNotWait` holds although the object service need not answer |
| `reports_interval` | 1 stream, 4 frames | `ObjectOncePerInterval` is violated (finding 3) |
| `pool` | 2 threads, pools "decode" and "feed" with one structure each, up to 3 pictures, 4 addresses, 1 lost buffer, `FairSpec` | `PoolInv`, `FreesOwnButSurplus`, `BorrowersServed` hold |
| `motion` | 0 to 4 zones of 7 kinds of rectangles or none, equal ids, 3 areas | `ModelsFitZones`, `ModelsBuiltOnce`, `ZonesUnwatchedForAReason` hold |
| `boxes` | any 0 to 2 boxes of a small grid, 3 boxes of two widths, 4 boxes in a line, `FairSpec` | `BoxesAreHulls`, `TestIsExact`, `MergingEnds` hold |
| `minute_count` | 3 threads, 3 marks, 3 minutes | `MarksCountedOnce` holds |

### Findings

1. *The batch does not wait for its results.*  `submitTask` says "submit a batch
   of data, and wait for the results to return" (`RecordProcessor.java:137`);
   `task.get(60 s)` swallows the time-out and leaves the task running, so the
   next batch can run beside it.  This is the origin of `Overlap`.
2. *Images are dropped at the end of a set.*  `mergeAndUpload` removes every
   image from its set first; if the last one has no data, `continue` skips the
   only statement that submits the buffer (`PutManager.java:92-95, 110`).
   `LostOnlyAtBadTail` shows that this is the only loss.
3. *More than one object event per minute.*  The mark is set after the
   recognition (`ObjectRecognitionImpl.java:223`), the check is before it
   (`ObjectFeedListenerImpl.java:52`).  `ObjectBurstBounded` shows how far it
   can go: the queue plus two.

### Bounds

- *Contexts.*  Every property is about one context against at most two other
  threads; two workers and the cleaner are the three kinds of closers.  Two
  models are what it takes for a token to have an old and a new context, the
  case of `orphaned`.  `MaxImages = 1`: an image is fed like the one before it.
  `contexts_overlap` has no late frames (`Lateness = {FALSE}`): none of its
  properties mentions a delay.  One token is enough because contexts of
  different tokens share the lock only, and two workers compete for that with
  one token as well; that tokens do not mix is part of `LifeInv`, which is
  proved for any number of them, as are all safety properties.
- *Shard.*  With three records and batches of up to two there are two
  consecutive batches with frames of one token (order, overlap) and a third
  record of another; one restart is enough, because a restart forgets
  everything but the checkpoint, `seen` and `excused`.  Tokens are
  interchangeable, so `MCFairSpec` gives the first record that has a token always
  the same one.  The run keeps its checkpoints (`KeepCheckpoint = TRUE`); the
  start that deletes them is covered by the proofs of the safety properties.
- *Upload.*  Three images and files of two give a full file, a rest, and a bad
  image at any place; a size of two tells an offset from an image count.
- *Reports.*  A queue of one (ten in the code) is enough for full, empty and
  overtaking; the bound of the burst is stated in terms of `QueueSize`, and one
  stream has a frame more than the bound.
- *Pool.*  One structure per pool makes every second caller wait and every call
  use a structure with stale pointers.  Two threads are enough for one to decode
  while the other feeds, for freed buffers to belong to somebody else, and for a
  pool that serves the latest first to starve one of them (the mutant).  Three
  pictures are one more than the structure holds; a fourth would be lost like the
  third, and the proofs are for any number.  After one buffer is lost
  (`MaxLeaked`) the packets of the run hold at most two pictures; the four
  addresses leave enough for both threads then, so that no call is held up by the
  bound.  Two pools are what a wait in a circle would need.
- *Motion.*  The rectangles are one of each kind that the code treats
  differently: around another one, inside, crossing, clipped, outside, at the
  far edge, empty, missing.  All pairs of them are configured, and triples with
  one of them fixed; four zones are rejected.  Where a position is missing, the
  zones before it have other ids or the id 0 of the zeroed zones behind it.
- *Boxes.*  With three and four boxes a merge can make a box touch one it did not touch
  before, at an index before or behind it, and the first box can be merged
  twice (`i` below zero twice).
- *Minutes.*  Three minutes are one between two ticks, one skipped, and one in
  which a late `Add` is counted.
- `MaxRecords`, `MaxRestarts`, `MaxFrames`, `MaxMinutes`, `Marks` and the finite
  sets `Models` and `Images` end the runs.  The cfgs of `ShardConsumer` and
  `EventReports` say `CHECK_DEADLOCK FALSE` because the model stops when they are
  used up, that of `BoxMerge` because the function returns.

### Fairness

- `StreamingContexts!FairSpec`: only the cleaner's steps are weakly fair: the
  scheduler's thread is not stopped for ever.  Nothing is assumed of the workers.
  The configuration query inside the lock may never return, because `src/` shows
  no time-out for its client, and then the lock is never given back and the frames
  of all streams stop.  What holds nevertheless is that expired contexts are
  unmapped (`ExpiredIsUnmapped`) and that the shard consumer goes on
  (`CallReturns`, which assumes nothing of the pool).
- `ShardConsumer!FairSpec`: the KCL thread and the batch thread run and their
  timed waits end.  That a pool task goes on is a hypothesis of
  `SubmittedIsHandled` only.
- `PutManager!FairSpec`: the timer fires every five seconds and its thread runs
  on; S3 and SQS calls return or throw (the AWS client's default time-outs), and the thirty
  threads of the pool get to every task.
- `EventReports!FairSpec`: only the pool threads that run the listeners are fair;
  the object threads are not, since the remote service may never answer.
- `NativePool!FairSpec`: a native call returns (it works on one image or one key
  frame's data and waits for nothing), and the pool serves whoever is first in
  the queue when it can (`GenericObjectPool.allocate` runs at every borrow and
  return).
- `BoxMerge!FairSpec`: one function of one thread; it is not stopped for ever.

## 4. What is proved

All theorems hold for arbitrary constants, also infinite sets where the
assumptions allow it.  The assumptions are the named `ASSUME`s of each module.
Most only say what kind of value a constant is, and that `NULL` is none of the
values it must be told from.  Two say more: `ExpiredIsConfigured` of
`PutManager`, that the property `storage.expired` names no other days than 1, 2,
7 and 30 (only `TagsRight` needs it: another day would give two images of the
30-day set different tags), and `KindsKnown` of `NativePool`, that there are no
pools but the three of `JnaInterface`.

| module | theorem | statement |
|---|---|---|
| `StreamingContextsProofs` | `LifeInvariant`, `TypesCorrect`, `PointersLive`, `DeletedOnce`, `LockHolderSafe` | `LifeInv` and conjuncts of it |
| | `MappedUsable`, `NoOtherLeak` | `MappedIsUsable`, `LeaksHaveAReason` |
| | `OnlyCleanerInterferes`, `LateDropped` | the properties of the serial schedule, from `SerialInv` |
| | `Refinement` | `Spec => ImplementsLifecycle` |
| `ShardConsumerProofs` | `ShardInvariant`, `ShardTypes`, `RecordsAccounted` | `ShardInv` and conjuncts of it |
| | `TasksSerial`, `HandledInOrder` | `TokenTasksSerial`, `FramesInOrder` |
| | `CheckpointForward` | `CheckpointAdvances`, if `KeepCheckpoint` |
| | `DeliveryImplemented` | `Spec => ImplementsDelivery` |
| `PutManagerProofs` | `PutInvariant`, `LossExplained` | `PutInv` and its conjunct `LostOnlyAtBadTail` |
| | `RangesRight`, `LimitKept`, `OncePublished`, `TagsRight` | `RangesCutOutImages`, `MergeLimit`, `PublishedOnce`, `TagFitsAll` |
| `EventReportsProofs` | `RepInvariant`, `OwnTime` | `RepInv`, `EventHasOwnTime` |
| | `ObjectOrder`, `MotionInterval` | `ObjectEventsInOrder`, `MotionOncePerInterval` |
| | `BurstBounded` | `ObjectBurstBounded`, from `BurstCounted` |
| `NativePoolProofs` | `PoolInvariant`, `OwnBuffersFreed` | `PoolInv`, `FreesOwnButSurplus` |
| `MotionInstanceProofs` | `MotionInvariant`, `ModelsFit`, `BuiltOnce` | `MotionInv`, `ModelsFitZones`, `ModelsBuiltOnce` |
| | `UnwatchedForAReason` | `ZonesUnwatchedForAReason` |
| `BoxMergeProofs` | `BoxInvariant`, `Hulls`, `ExactTest` | `BoxInv`, `BoxesAreHulls`, `TestIsExact` |
| `MinuteCountProofs` | `CountInvariant`, `CountedOnce` | `CountInv` and its conjunct `MarksCountedOnce` |

### The arguments

*Contexts.*  None of the safety properties is inductive alone.  That an
instance is deleted once needs that a thread at `delete` owns the removed pointer
exclusively; that needs that whoever removed a pointer still holds the context
in its local variable or has failed to delete it (`ClosersConsistent`), that every thread's locals are
consistent with its place (`ThreadsConsistent`: in particular exactly the lock
holder is inside the block), and that the map never holds a context under a
foreign token (`MapConsistent`).  That the lock holder's remove-by-key hits its
own context needs that nobody publishes a second context for a token, which is
`CreatorAlone`: until it is published, a context is known to its creator only,
and the creator has seen to it that the map has none.  `LifeInv` is the
conjunction; `MappedIsUsable`, `LeaksHaveAReason` and `SerialInv` are inductive
relative to it.  `SerialInv` says that workers carry different tokens
(`TokensApart`), that only the cleaner or a failed close takes a context's
instance away (`MappedOrSwept`, `UsedOrSwept`) and that the time stored in a context is its
frame's own (`OwnTime`).  The refinement maps `Publish` to `Register`,
`RemovePointer` to `Withdraw`, `DeleteInstance` (and `DeleteInstanceFails`, if
the instance was deleted) to `Dispose`, `Unmap` to
`Unregister` and everything else to a stutter.

*Shard.*  Records are numbered, and everything hangs on where they stand
relative to three numbers.  Below the present batch all is finished or given up
(`EarlierIsSettled`), because a batch is submitted only when the previous future
is done, and that is so only when each of its tokens has returned or was given
up.  The records of the present call come behind all batches, and nothing beyond
`position` has been touched (`RecordsInTheirPlace`); batches are in shard order
(`BatchesInOrder`).  `TokenTasksSerial` and the order of frames across batches
follow; within a batch the order is the guard of `Handle`.  A checkpoint is
`position` at a moment at which the call is empty, so what it covers is at most
one batch ahead of the pool (`CheckpointIsBehind`, `EveryRecordAccounted`).
The refinement maps `SubmitBatch` to `HandOver`, `GiveUpTask` to `GiveUp`,
`Handle`, `MaybeCheckpoint`, `Shutdown` and `Restart` to the actions of like
meaning and everything else to a stutter.  What is pending is always part of the
last batch, and nothing when its future is done (`WaitedForInBatch`, from
`EarlierIsSettled`); that new frames come behind what is late or handled needs
that a frame was handled or given up only after its batch had left the queue, so
that it still belongs to a batch (`TasksStarted`).

*Upload.*  `WellCut` says that results cut data into their images: range `k` is
exactly where the data has the image of result `k`, and no image occurs twice.
It holds of the buffer, because `offset` is its length (`BufferInPlace`) and an
appended image was in a set (`SetsInPlace`) and hence in no buffer or file; it
holds of the files, because they are the buffer at some moment
(`FilesInPlace`).  Messages are about results of stored files
(`QueueInPlace`).  The count is not reset, so the invariant for the limit is
`Len(arList) <= count`, and `count` below the limit as long as anything is in
the buffer.

*Reports.*  A request on its way is in the queue of its stream's thread or runs
on it, newer than all that was reported and older than what comes behind it
(`QueuesInOrder`, `RunningInOrder`); while it runs, the object context has its
time, for the next request of the stream is behind it in the same queue.  For the
motion events, `RecentIsMarked` says that between post and mark the token is
covered by the place of the only thread that could post again.  The bound of the
burst is not inductive, because it does not say what may still join it.
`BurstCounted` adds that up: while a token is marked nothing new of it is
submitted, so its events, its requests in the queue, the one the object thread
has in hand and the one about to be submitted stay together within the limit;
each step passes one of them on to the next or drops it.  While it is not
marked, its only event is the one that is about to be marked.  The lemmas on
`Waiting` say how appending and taking a request change the number of a stream's
requests in a queue.

*Pool.*  `PointsToOwn` and `OnlySurplusLeaks` say that between call and `Destroy`
what is allocated for a thread and where its structure points are the same thing,
the buffers in `surplus` apart.  They
hold whatever the structure pointed to before: `DecodeNal` and `EncodeJPG` wipe
it, `feed2` sets its only pointer.  `StructuresAreExclusive` keeps other threads
away from it.

*Motion.*  Zones are sorted by id, and their places are different numbers from 0
to 2: `PlacesDiffer` compares the sets of smaller ids, and `ZoneIds` says that
removing zones never adds an id.  With that, `MotionInv` says which zones have a
model (those the loop came by, or all when the flag is reset), and that
`bg_update` remembers that one was built.  `FlagsNeedModels` says that the flag
is reset only when a model was built.  `ZonesUnwatchedForAReason` needs that,
because a zone with the id 0 can be overwritten by a zeroed zone behind one
without a position; then the list has no zone that can be watched, no model is
ever built and the flag stays.  The rest of that theorem is a case analysis: one
or two zones (`UnnestedCases`, `NoneNested`), and three zones sorted by their
left edges (`ThreeZones`, `SortedByX`), of which a removed one lies strictly
inside another (`InsideIsStrict`, `KeptUnlessNested`).

*Boxes.*  The sort puts one more box in its final place in each round, and the
inner loop carries the leftmost box of the rest forward (`SortedSoFar`).  From
then on the boxes stay sorted (`SortedForGood`): the box around two begins at the
left edge of the first of them, and erasing the other one leaves the rest in
order.  So the one-sided test of the code is exact.  That every box is a hull
needs no history of the merges: each side of the box around two boxes is a side
of one of them, and what lies in either lies in it (`BoxesAreHulls` is inductive
next to the order).

*Minutes.*  Only the thread in `tick` resets the count (`TickIsExclusive`), what
it resets is counted or excused (`ResetDropsNothing`), and a mark on its way is
in no count yet (`MarksUnderWay`).

### Only model-checked

- All liveness properties: `ExpiredIsUnmapped`, `CallReturns`,
  `SubmittedIsHandled`, `ImagesGetOut`, `StreamsDoNotWait`, `BorrowersServed`,
  `MergingEnds`.  Leads-to under fairness is outside the prover's reach.

Every invariant and action property that a passing run checks, and both
refinements, are proved.

## 5. What is not modelled

- Wording, logging, debug drawing, metrics values other than the last-minute
  count.
- The bytes of a frame, the text of a configuration, the pixels: they are
  members of small sets (`Bad`, `late`, `size`, `Areas`).
- The matching of objects with motion boxes (`match`, `step1Filter`,
  `step2Filter`, `ImageUtils`): stateless arithmetic on the answer of the object
  service.  Its hazard is that `frameIndex` of `ExecAction` counts images with
  motion only; how the service numbers its images is not in the repository.
- Which frames of the NAL data `DecodeNal` decodes: the syntax of the bit stream,
  in FFmpeg's terms.
- What the stray writes of a packet with three or more pictures do to the memory
  of a process that lives on (see *NativePool*).
- Errors of the configuration text other than too many zones, which reject the
  frame in the same way, and pool tasks that end with a Java `Error`.
- `frameConfig` of a context (it decides about expiry days only) and
  `lastTimeContextUpdateTimestamp` (never read by the control).
- A process that regains a lease while old pool tasks still run: `Restart`
  starts from an empty pool.
- Two feeds of one native instance at once, which a given-up task makes
  possible: `rvResource` has no lock, and what comes of the race is up to OpenCV
  and ViBe working on torn data.  `MotionInstance` feeds one frame at a time.
- Images that wait in memory when the process stops are lost by design; the
  model of the upload has no crash.
- Two streams of one token (`token,random`) share the report marks;
  `MotionOncePerInterval` and `ObjectBurstBounded` are stated for one stream per
  token.
- Spring wiring, Consul, DynamoDB, HTTP and media base clients have no state of
  their own; FFmpeg, OpenCV, cJSON and ViBe, which are most of the repository's
  lines, are third-party.

## 6. What could come next

1. The composition of `ShardConsumer` with `StreamingContexts`: `Overlap` as a
   consequence instead of a constant.
2. An abstract specification of the upload: every image is published once, or
   lost for a named reason, which `PutManager` implements.
