----------------------------- MODULE PutManager -----------------------------
(***************************************************************************)
(* The upload of event images.                                             *)
(*                                                                         *)
(* Event threads put images into one concurrent set per retention time.    *)
(* A timer thread walks over the sets one after the other, takes the       *)
(* images out, concatenates up to ten of them into one file and hands the  *)
(* file with its results to a pool.  A pool thread stores the file in S3   *)
(* and, only then, publishes one message per image to SQS; each message    *)
(* names the file and the byte range of its image.                         *)
(*                                                                         *)
(* A byte of an image is modelled by the image it belongs to, so that a    *)
(* file is a sequence of images, each repeated as often as it has bytes.   *)
(***************************************************************************)
EXTENDS Naturals, Sequences, FiniteSets

CONSTANTS
    Images,              \* ImageS3Info objects: bounds the run
    Days,                \* fileExpiresDays of the events
    Expired,             \* keys of the property storage.expired
    Sizes,               \* of jpgData in bytes; 0 stands for null or empty
    MAX_MERGE_FILE_NUM,
    NULL

ASSUME NoImageIsNull == NULL \notin Images
ASSUME DaysAreNat == Days \subseteq Nat /\ Expired \subseteq Nat
ASSUME SizesAreNat == Sizes \subseteq Nat /\ MAX_MERGE_FILE_NUM \in Nat \ {0}
ASSUME NullIsNoInfo == NULL \notin [days : Nat, size : Nat]
ASSUME ExpiredIsConfigured == Expired \subseteq {1, 2, 7, 30}

VARIABLES
    info,         \* what is known of each image once it is put, or NULL
    imageS3Infos, \* the four sets imageS3InfoSet<n>day, by n
    \* of the timer thread
    turn,       \* index of the set it works on, 0 between two runs
    next,       \* element its iterator will return, NULL: none
    pass,       \* elements the iterator still owes: there when it was made
    count,
    offset,
    buf,
    arList,
    \* of the pool
    files,      \* submitted files, in order of submission
    queue,      \* messages in SQS
    cutOff      \* history: images in arList when mergeAndUpload returned

timerVars == <<turn, next, pass, count, offset, buf, arList, cutOff>>
poolVars == <<files, queue>>
vars == <<info, imageS3Infos, timerVars, poolVars>>

Sets == <<1, 2, 7, 30>>
Lifetimes == {1, 2, 7, 30}
Result == [image : Images, from : Nat, to : Nat]
File == [results : Seq(Result), data : Seq(Images), tag : Expired \cup {30},
         state : {"queued", "stored", "failed"}, sent : Nat]

TypeOK ==
    /\ info \in [Images -> [days : Days, size : Sizes] \cup {NULL}]
    /\ imageS3Infos \in [Lifetimes -> SUBSET Images]
    /\ turn \in 0 .. Len(Sets)
    /\ next \in Images \cup {NULL}
    /\ pass \subseteq Images
    /\ count \in Nat
    /\ offset \in Nat
    /\ buf \in Seq(Images)
    /\ arList \in Seq(Result)
    /\ files \in Seq(File)
    /\ \A f \in DOMAIN files : files[f].sent <= Len(files[f].results)
    /\ queue \subseteq [file : DOMAIN files, result : Result]
    /\ cutOff \subseteq Images

Init ==
    /\ info = [i \in Images |-> NULL]
    /\ imageS3Infos = [d \in Lifetimes |-> {}]
    /\ turn = 0
    /\ next = NULL
    /\ pass = {}
    /\ count = 0
    /\ offset = 0
    /\ buf = <<>>
    /\ arList = <<>>
    /\ files = <<>>
    /\ queue = {}
    /\ cutOff = {}

-----------------------------------------------------------------------------
(* The event threads.                                                      *)

\* Mutant: the default case uses the set of the shortest time.
SetFor_Default1(days) == IF days \in {1, 2, 7} THEN days ELSE 1

\* The switch of MotionEventHandler and ObjectEventHandler.
SetFor(days) == IF days \in {1, 2, 7} THEN days ELSE 30

\* Mutant: a tag for which the bucket has no rule.
Tag_Raw(days) == days

\* StorageProperties.getTag
Tag(days) == IF days \in Expired THEN days ELSE 30

\* encode may have returned null: nothing on the way here checks jpgData.
Put(i, days, size) ==
    /\ info[i] = NULL
    /\ info' = [info EXCEPT ![i] = [days |-> days, size |-> size]]
    /\ imageS3Infos' = [imageS3Infos EXCEPT ![SetFor(days)] = @ \cup {i}]
    /\ UNCHANGED <<timerVars, poolVars>>

-----------------------------------------------------------------------------
(* The timer thread: run and mergeAndUpload.                               *)

\* What a weakly consistent iterator over set s may return next: it owes all
\* elements of "owed", and may or may not see those added since.
MayFollow(s, owed) == s \cup IF owed = {} THEN {NULL} ELSE {}

\* mergeAndUpload is called with the set of index n.
Begin(n) ==
    LET s == imageS3Infos[Sets[n]] IN
    /\ turn' = n
    /\ pass' = s
    /\ next' \in MayFollow(s, s)
    /\ count' = 0
    /\ offset' = 0
    /\ buf' = <<>>
    /\ arList' = <<>>
    /\ UNCHANGED <<info, imageS3Infos, poolVars>>

TimerRun == turn = 0 /\ Begin(1) /\ UNCHANGED cutOff

\* Mutant: the timer never comes to the last set.
MergeEnds_SkipsLast ==
    /\ turn > 0
    /\ next = NULL
    /\ cutOff' = cutOff \cup {arList[k].image : k \in DOMAIN arList}
    /\ IF turn + 1 < Len(Sets)
       THEN Begin(turn + 1)
       ELSE /\ turn' = 0
            /\ UNCHANGED <<info, imageS3Infos, next, pass, count, offset, buf, arList, poolVars>>

\* mergeAndUpload returns; the timer goes on with the next set.
MergeEnds ==
    /\ turn > 0
    /\ next = NULL
    /\ cutOff' = cutOff \cup {arList[k].image : k \in DOMAIN arList}
    /\ IF turn < Len(Sets)
       THEN Begin(turn + 1)
       ELSE /\ turn' = 0
            /\ UNCHANGED <<info, imageS3Infos, next, pass, count, offset, buf, arList, poolVars>>

\* Mutant: the image stays in the set.
Remove_Keeps(i) == UNCHANGED imageS3Infos

\* imageIterator.remove()
Remove(i) == imageS3Infos' = [imageS3Infos EXCEPT ![Sets[turn]] = @ \ {i}]

\* Mutant: one image too many.
IsFull_OffByOne(n, last) == n > MAX_MERGE_FILE_NUM \/ last

\* Mutant: the rest of a set is left in the buffer.
IsFull_NoTail(n, last) == n >= MAX_MERGE_FILE_NUM

\* When a file is complete.
IsFull(n, last) == n >= MAX_MERGE_FILE_NUM \/ last

\* Mutant: offset runs on from file to file.
Reset_KeepsOffset(end) == buf' = <<>> /\ arList' = <<>> /\ offset' = end

\* The next file starts empty; count is not reset.
Reset(end) == buf' = <<>> /\ arList' = <<>> /\ offset' = 0

\* submit: the file and its results go to the pool.
SubmitFile(results, data, tag) ==
    files' = Append(files, [results |-> results, data |-> data, tag |-> tag,
                            state |-> "queued", sent |-> 0])

\* jpgData
Bytes(i, size) == [k \in 1 .. size |-> i]

\* One round of the loop in mergeAndUpload; n is what the iterator has in store.
MergeNext(n) ==
    LET size == info[next].size
        end == offset + size
        data == buf \o Bytes(next, size)
        results == Append(arList, [image |-> next, from |-> offset, to |-> end])
    IN
    /\ next # NULL
    /\ n \in MayFollow(imageS3Infos[Sets[turn]] \ {next}, pass \ {next})
    /\ next' = n
    /\ pass' = pass \ {next}
    /\ Remove(next)
    /\ IF size = 0
       THEN UNCHANGED <<count, offset, buf, arList, files>>
       ELSE /\ count' = count + 1
            /\ IF IsFull(count + 1, n = NULL)
               THEN SubmitFile(results, data, Tag(info[next].days)) /\ Reset(end)
               ELSE /\ buf' = data
                    /\ arList' = results
                    /\ offset' = end
                    /\ UNCHANGED files
    /\ UNCHANGED <<info, turn, queue, cutOff>>

-----------------------------------------------------------------------------
(* The pool: putObject, then publish for every result.                     *)

\* If S3 fails, the task ends without a message: sent is set behind the last message.
PutObject(f) ==
    /\ files[f].state = "queued"
    /\ \/ files' = [files EXCEPT ![f].state = "stored"]
       \/ files' = [files EXCEPT ![f].state = "failed", ![f].sent = Len(files[f].results)]
    /\ UNCHANGED <<info, imageS3Infos, timerVars, queue>>

\* A message that SQS does not take is counted and given up.
Publish(f) ==
    LET m == [file |-> f, result |-> files[f].results[files[f].sent + 1]] IN
    /\ files[f].state = "stored"
    /\ files[f].sent < Len(files[f].results)
    /\ files' = [files EXCEPT ![f].sent = @ + 1]
    /\ queue' \in {queue, queue \cup {m}}
    /\ UNCHANGED <<info, imageS3Infos, timerVars>>

-----------------------------------------------------------------------------
TimerStep ==
    \/ TimerRun
    \/ \E n \in Images \cup {NULL} : MergeNext(n)
    \/ MergeEnds

PoolStep(f) == PutObject(f) \/ Publish(f)

Next ==
    \/ \E i \in Images, d \in Days, size \in Sizes : Put(i, d, size)
    \/ TimerStep
    \/ \E f \in DOMAIN files : PoolStep(f)

Spec == Init /\ [][Next]_vars

\* The timer fires every five seconds and its thread runs on; the calls of the
\* AWS clients return or throw (they have timeouts), so every task of the pool
\* gets its thread.  At most one file per image is ever submitted.
FairSpec ==
    /\ Spec
    /\ WF_vars(TimerStep)
    /\ \A f \in 1 .. Cardinality(Images) : WF_vars(f \in DOMAIN files /\ PoolStep(f))

-----------------------------------------------------------------------------
(* Properties.                                                             *)

Waiting == UNION {imageS3Infos[d] : d \in Lifetimes}
InFile(i) == \E f \in DOMAIN files : \E k \in DOMAIN files[f].results :
                files[f].results[k].image = i

\* The range of a message cuts exactly its image out of the stored file, though
\* the buffer, the offset and the result list are reset separately.
RangesCutOutImages ==
    \A m \in queue :
        /\ files[m.file].state = "stored"
        /\ m.result.from + 1 .. m.result.to
            = {b \in DOMAIN files[m.file].data : files[m.file].data[b] = m.result.image}
        /\ m.result.to - m.result.from = info[m.result.image].size

\* A file never holds more than MAX_MERGE_FILE_NUM images, and every byte of it
\* belongs to one of its results.
MergeLimit ==
    \A f \in DOMAIN files :
        /\ Len(files[f].results) \in 1 .. MAX_MERGE_FILE_NUM
        /\ {files[f].data[b] : b \in DOMAIN files[f].data}
            = {files[f].results[k].image : k \in DOMAIN files[f].results}

\* An image is published at most once, in one file only, although the sets are
\* filled while the timer thread iterates over them.
PublishedOnce ==
    /\ \A m1, m2 \in queue : m1.result.image = m2.result.image => m1 = m2
    /\ \A i \in Waiting : ~InFile(i)

\* A file takes the S3 tag of its last image only; it is the right one for all
\* of them, because a set never mixes images with different tags.
TagFitsAll ==
    \A f \in DOMAIN files : \A k \in DOMAIN files[f].results :
        Tag(info[files[f].results[k].image].days) = files[f].tag

\* An image with data that was taken from its set is in the buffer of the
\* present run or in a file; the one exception are images that were in the
\* buffer when the last element of the set turned out to have no data.
LostOnlyAtBadTail ==
    /\ \A i \in Images : info[i] # NULL /\ info[i].size > 0 =>
        \/ i \in Waiting \cup cutOff
        \/ \E k \in DOMAIN arList : arList[k].image = i
        \/ InFile(i)
    /\ \A i \in cutOff : \E j \in Images :
        /\ info[j] # NULL /\ info[j].size = 0
        /\ SetFor(info[j].days) = SetFor(info[i].days)

\* The results cut the data into their images, each of which occurs once; known
\* has their sizes.
WellCut(known, results, data) ==
    /\ \A k \in DOMAIN results :
        LET r == results[k] IN
        /\ known[r.image] # NULL
        /\ known[r.image].size > 0
        /\ r.to = r.from + known[r.image].size
        /\ \A b \in DOMAIN data : data[b] = r.image <=> r.from < b /\ b <= r.to
        /\ r.to <= Len(data)
        /\ \A j \in DOMAIN results : results[j].image = r.image => j = k
    /\ \A b \in DOMAIN data : \E k \in DOMAIN results : results[k].image = data[b]

\* An image that waits was put and is in the set of its retention time; the
\* iterator is at one of the set's elements.
SetsInPlace ==
    /\ \A d \in Lifetimes : \A i \in imageS3Infos[d] :
        info[i] # NULL /\ SetFor(info[i].days) = d
    /\ next # NULL => turn > 0 /\ next \in imageS3Infos[Sets[turn]]
    /\ turn > 0 => pass \subseteq imageS3Infos[Sets[turn]]

\* The buffer is well cut and below the limit; its images come from the set
\* that is being merged and are nowhere else.
BufferInPlace ==
    /\ WellCut(info, arList, buf)
    /\ offset = Len(buf)
    /\ Len(arList) <= count
    /\ arList # <<>> => count < MAX_MERGE_FILE_NUM
    /\ \A k \in DOMAIN arList :
        LET i == arList[k].image IN
        /\ i \notin Waiting
        /\ ~InFile(i)
        /\ turn > 0 => SetFor(info[i].days) = Sets[turn]
        /\ turn = 0 => i \in cutOff
    /\ \A i \in cutOff : info[i] # NULL
    /\ turn > 0 /\ next = NULL /\ arList # <<>> =>
        \E j \in Images :
            info[j] # NULL /\ info[j].size = 0 /\ SetFor(info[j].days) = Sets[turn]

\* Files are well cut and not larger than the limit; their images are nowhere
\* else, and have the file's tag.
FilesInPlace ==
    \A f \in DOMAIN files :
        /\ WellCut(info, files[f].results, files[f].data)
        /\ Len(files[f].results) \in 1 .. MAX_MERGE_FILE_NUM
        /\ \A k \in DOMAIN files[f].results :
            LET i == files[f].results[k].image IN
            /\ i \notin Waiting
            /\ Tag(info[i].days) = files[f].tag
            /\ \A g \in DOMAIN files : \A l \in DOMAIN files[g].results :
                files[g].results[l].image = i => g = f

\* Messages are about results of files that are stored.
QueueInPlace ==
    \A m \in queue :
        /\ files[m.file].state = "stored"
        /\ \E k \in DOMAIN files[m.file].results : m.result = files[m.file].results[k]

\* The inductive invariant of the proofs.
PutInv ==
    /\ TypeOK
    /\ SetsInPlace
    /\ BufferInPlace
    /\ FilesInPlace
    /\ QueueInPlace
    /\ LostOnlyAtBadTail

\* Every image that is put leaves the sets, and every file that is submitted is
\* stored and all its messages are tried, or it is given up.
ImagesGetOut ==
    /\ \A i \in Images : i \in Waiting ~> i \notin Waiting
    /\ \A f \in 1 .. Cardinality(Images) :
        f \in DOMAIN files ~>
            /\ f \in DOMAIN files
            /\ files[f].state # "queued"
            /\ files[f].sent = Len(files[f].results)

\* "Merge and upload to S3 and SQS periodically" (PutManager:58): when the timer
\* has gone over the sets, every image with data it took is in a file.
CollectedIsUploaded ==
    turn = 0 => \A i \in Images : info[i] # NULL /\ info[i].size > 0 =>
        i \in Waiting \/ InFile(i)
=============================================================================
