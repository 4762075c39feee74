-------------------------- MODULE PutManagerProofs --------------------------
(***************************************************************************)
(* Proofs about PutManager, for any images of any size, any retention      *)
(* times of the events and any limit of images per file.                   *)
(***************************************************************************)
EXTENDS PutManager, TLAPS

USE NoImageIsNull, DaysAreNat, SizesAreNat, NullIsNoInfo
USE DEF timerVars, poolVars

-----------------------------------------------------------------------------
(* The pure operators.                                                     *)

\* The switches name sets that exist, and the timer visits such sets only.
LEMMA SetsAreLifetimes ==
    /\ \A days \in Nat : SetFor(days) \in Lifetimes
    /\ Len(Sets) = 4
    /\ \A n \in 1 .. 4 : Sets[n] \in Lifetimes
BY DEF SetFor, Sets, Lifetimes

\* Images of one set have one tag.
LEMMA TagOfSet ==
    \A a, b \in Nat : SetFor(a) = SetFor(b) => Tag(a) = Tag(b)
BY ExpiredIsConfigured DEF SetFor, Tag

\* What it means to wait.
LEMMA WaitingMeans ==
    \A i : i \in Waiting <=> \E d \in Lifetimes : i \in imageS3Infos[d]
BY DEF Waiting

\* Cutting depends on what is known of the images in the results only.
LEMMA WellCutStable ==
    ASSUME NEW known, NEW known2, NEW results, NEW data, WellCut(known, results, data),
           \A k \in DOMAIN results : known2[results[k].image] = known[results[k].image]
    PROVE  WellCut(known2, results, data)
BY DEF WellCut

\* An empty buffer is well cut.
LEMMA NothingIsWellCut ==
    ASSUME NEW known PROVE WellCut(known, <<>>, <<>>)
BY DEF WellCut

\* The buffer after one more image.
LEMMA MoreData ==
    ASSUME NEW data \in Seq(Images), NEW i \in Images, NEW size \in Nat
    PROVE  LET more == data \o Bytes(i, size) IN
           /\ more \in Seq(Images)
           /\ Len(more) = Len(data) + size
           /\ \A b \in 1 .. Len(data) : more[b] = data[b]
           /\ \A b \in 1 .. Len(data) + size : b > Len(data) => more[b] = i
<1>1. /\ Bytes(i, size) \in Seq(Images) /\ Len(Bytes(i, size)) = size
      /\ \A k \in 1 .. size : Bytes(i, size)[k] = i
  BY DEF Bytes
<1> QED BY <1>1

\* Adding an image that is not in the buffer keeps the results right.
LEMMA WellCutGrows ==
    ASSUME NEW known \in [Images -> [days : Days, size : Sizes] \cup {NULL}],
           NEW results \in Seq(Result), NEW data \in Seq(Images),
           WellCut(known, results, data),
           NEW i \in Images, known[i] # NULL, known[i].size > 0,
           \A k \in DOMAIN results : results[k].image # i
    PROVE  LET r == [image |-> i, from |-> Len(data), to |-> Len(data) + known[i].size]
               more == data \o Bytes(i, known[i].size) IN
           /\ Append(results, r) \in Seq(Result)
           /\ WellCut(known, Append(results, r), more)
<1> DEFINE size == known[i].size
           r == [image |-> i, from |-> Len(data), to |-> Len(data) + size]
           more == data \o Bytes(i, size)
           longer == Append(results, r)
<1>1. size \in Nat
  OBVIOUS
<1>2. r \in Result /\ r.image = i /\ r.from = Len(data) /\ r.to = Len(data) + size
  BY <1>1 DEF Result
<1>3. /\ more \in Seq(Images)
      /\ Len(more) = Len(data) + size
      /\ \A b \in 1 .. Len(data) : more[b] = data[b]
      /\ \A b \in 1 .. Len(data) + size : b > Len(data) => more[b] = i
  BY <1>1, MoreData
<1> HIDE DEF size, r, more
<1>4. /\ longer \in Seq(Result)
      /\ DOMAIN longer = 1 .. Len(results) + 1
      /\ \A k \in DOMAIN results : longer[k] = results[k]
      /\ longer[Len(results) + 1] = r
  BY <1>2
<1> HIDE DEF longer
<1>5. WellCut(known, longer, more)
  <2>1. ASSUME NEW b \in DOMAIN data PROVE data[b] # i
    <3>1. \E k \in DOMAIN results : results[k].image = data[b]
      BY DEF WellCut
    <3> QED BY <3>1
  <2>2. ASSUME NEW k \in DOMAIN longer
        PROVE  LET q == longer[k] IN
               /\ known[q.image] # NULL
               /\ known[q.image].size > 0
               /\ q.to = q.from + known[q.image].size
               /\ \A b \in DOMAIN more : more[b] = q.image <=> q.from < b /\ b <= q.to
               /\ q.to <= Len(more)
               /\ \A j \in DOMAIN longer : longer[j].image = q.image => j = k
    <3>1. CASE k \in DOMAIN results
      <4>0. results[k] \in Result
        BY <3>1
      <4>1. results[k].from \in Nat /\ results[k].to \in Nat
        BY <4>0 DEF Result
      <4>2. longer[k] = results[k] /\ results[k].image # i
        BY <1>4, <3>1
      <4>3. results[k].to <= Len(data)
        BY <3>1 DEF WellCut
      <4>4. ASSUME NEW b \in DOMAIN more
            PROVE  more[b] = results[k].image <=> results[k].from < b /\ b <= results[k].to
        <5>1. CASE b <= Len(data)
          BY <1>1, <1>3, <3>1, <5>1 DEF WellCut
        <5>2. CASE b > Len(data)
          BY <1>1, <1>3, <4>1, <4>2, <4>3, <5>2
        <5> QED BY <1>1, <1>3, <5>1, <5>2
      <4>5. ASSUME NEW j \in DOMAIN longer, longer[j].image = results[k].image
            PROVE  j = k
        <5>1. CASE j \in DOMAIN results
          BY <1>4, <3>1, <4>5, <5>1 DEF WellCut
        <5>2. CASE j = Len(results) + 1
          BY <1>2, <1>4, <4>2, <4>5, <5>2
        <5> QED BY <1>4, <5>1, <5>2
      <4>6. results[k].to <= Len(more)
        BY <1>1, <1>3, <4>1, <4>3
      <4> QED BY <3>1, <4>2, <4>4, <4>5, <4>6 DEF WellCut
    <3>2. CASE k = Len(results) + 1
      <4>1. longer[k] = r
        BY <1>4, <3>2
      <4>2. ASSUME NEW b \in DOMAIN more
            PROVE  more[b] = i <=> Len(data) < b /\ b <= Len(data) + size
        <5>1. CASE b <= Len(data)
          BY <1>1, <1>3, <2>1, <5>1
        <5>2. CASE b > Len(data)
          BY <1>1, <1>3, <5>2
        <5> QED BY <1>1, <1>3, <5>1, <5>2
      <4>3. ASSUME NEW j \in DOMAIN longer, longer[j].image = i
            PROVE  j = k
        BY <1>4, <3>2, <4>3
      <4> QED BY <1>1, <1>2, <1>3, <4>1, <4>2, <4>3 DEF size
    <3> QED BY <1>4, <3>1, <3>2
  <2>3. ASSUME NEW b \in DOMAIN more
        PROVE  \E k \in DOMAIN longer : longer[k].image = more[b]
    <3>1. CASE b <= Len(data)
      <4>1. PICK k \in DOMAIN results : results[k].image = data[b]
        BY <1>1, <1>3, <3>1 DEF WellCut
      <4> QED BY <1>1, <1>3, <1>4, <3>1, <4>1
    <3>2. CASE b > Len(data)
      <4>1. more[b] = i
        BY <1>1, <1>3, <3>2
      <4>2. Len(results) + 1 \in DOMAIN longer /\ longer[Len(results) + 1].image = i
        BY <1>2, <1>4
      <4> QED BY <4>1, <4>2
    <3> QED BY <1>1, <1>3, <3>1, <3>2
  <2> QED BY <2>2, <2>3 DEF WellCut
<1> QED BY <1>4, <1>5 DEF longer, r, more, size

-----------------------------------------------------------------------------
(* The invariant holds at the start.                                       *)

LEMMA PutInit == Init => PutInv
<1> SUFFICES ASSUME Init PROVE PutInv
  OBVIOUS
<1> USE SetsAreLifetimes
<1>1. TypeOK
  BY DEF Init, TypeOK
<1>2. SetsInPlace /\ FilesInPlace /\ QueueInPlace
  BY DEF Init, SetsInPlace, FilesInPlace, QueueInPlace
<1>3. BufferInPlace
  BY NothingIsWellCut DEF Init, BufferInPlace
<1>4. LostOnlyAtBadTail
  BY DEF Init, LostOnlyAtBadTail
<1> QED BY <1>1, <1>2, <1>3, <1>4 DEF PutInv

-----------------------------------------------------------------------------
(* The event threads.                                                      *)

\* Images in the buffer, in files and among the lost ones have been put.
LEMMA KnownImages ==
    ASSUME PutInv
    PROVE  /\ \A k \in DOMAIN arList :
                /\ arList[k] \in Result /\ arList[k].image \in Images
                /\ info[arList[k].image] # NULL
           /\ \A f \in DOMAIN files : \A k \in DOMAIN files[f].results :
                /\ files[f].results[k] \in Result /\ files[f].results[k].image \in Images
                /\ info[files[f].results[k].image] # NULL
           /\ \A f \in DOMAIN files : files[f] \in File
<1>1. \A k \in DOMAIN arList : arList[k] \in Result
  BY DEF PutInv, TypeOK
<1>2. \A f \in DOMAIN files : files[f] \in File
  BY DEF PutInv, TypeOK
<1>3. \A f \in DOMAIN files : files[f].results \in Seq(Result)
  BY <1>2 DEF File
<1>4. \A f \in DOMAIN files : \A k \in DOMAIN files[f].results : files[f].results[k] \in Result
  BY <1>3
<1>5. \A r \in Result : r.image \in Images
  BY DEF Result
<1>6. \A k \in DOMAIN arList : info[arList[k].image] # NULL
  BY DEF PutInv, BufferInPlace, WellCut
<1>7. \A f \in DOMAIN files : \A k \in DOMAIN files[f].results :
            info[files[f].results[k].image] # NULL
  BY DEF PutInv, FilesInPlace, WellCut
<1> QED BY <1>1, <1>2, <1>4, <1>5, <1>6, <1>7

\* Putting an image disturbs none that was put before.
LEMMA PutStep ==
    ASSUME PutInv, NEW i \in Images, NEW days \in Days, NEW size \in Sizes, Put(i, days, size)
    PROVE  PutInv'
<1> USE SetsAreLifetimes
<1>1. /\ SetFor(days) \in Lifetimes
      /\ info[i] = NULL
      /\ info' = [info EXCEPT ![i] = [days |-> days, size |-> size]]
      /\ imageS3Infos' = [imageS3Infos EXCEPT ![SetFor(days)] = @ \cup {i}]
      /\ UNCHANGED <<turn, next, pass, count, offset, buf, arList, cutOff, files, queue>>
  BY DEF Put
<1>2. /\ \A j \in Images : info[j] # NULL => info'[j] = info[j]
      /\ info'[i] = [days |-> days, size |-> size] /\ info'[i] # NULL
  BY <1>1 DEF PutInv, TypeOK
<1>3. \A d \in Lifetimes : \A j : j \in imageS3Infos'[d] <=>
            j \in imageS3Infos[d] \/ (d = SetFor(days) /\ j = i)
  BY <1>1 DEF PutInv, TypeOK
<1>4. \A j : j \in Waiting' <=> j \in Waiting \/ j = i
  BY <1>1, <1>3, WaitingMeans DEF Waiting
<1>5. TypeOK'
  <2>1. info' \in [Images -> [days : Days, size : Sizes] \cup {NULL}]
    BY <1>1 DEF PutInv, TypeOK
  <2>2. imageS3Infos' \in [Lifetimes -> SUBSET Images]
    BY <1>1 DEF PutInv, TypeOK
  <2> QED BY <1>1, <2>1, <2>2 DEF PutInv, TypeOK
<1>6. SetsInPlace'
  <2>1. ASSUME NEW d \in Lifetimes, NEW j \in imageS3Infos'[d]
        PROVE  info'[j] # NULL /\ SetFor(info'[j].days) = d
    <3>1. CASE j \in imageS3Infos[d]
      <4>1. j \in Images /\ info[j] # NULL /\ SetFor(info[j].days) = d
        BY <3>1 DEF PutInv, TypeOK, SetsInPlace
      <4> QED BY <1>2, <4>1
    <3>2. CASE d = SetFor(days) /\ j = i
      BY <1>2, <3>2
    <3> QED BY <1>3, <2>1, <3>1, <3>2
  <2>2. next # NULL => turn > 0 /\ next \in imageS3Infos'[Sets[turn]]
    BY <1>3 DEF PutInv, TypeOK, SetsInPlace
  <2>3. turn > 0 => pass \subseteq imageS3Infos'[Sets[turn]]
    BY <1>3 DEF PutInv, TypeOK, SetsInPlace
  <2> QED BY <1>1, <2>1, <2>2, <2>3 DEF SetsInPlace
<1>7. \A f \in DOMAIN files : \A k \in DOMAIN files[f].results :
            /\ info'[files[f].results[k].image] = info[files[f].results[k].image]
            /\ files[f].results[k].image # i
  BY <1>1, <1>2, KnownImages
<1>8. \A k \in DOMAIN arList :
            info'[arList[k].image] = info[arList[k].image] /\ arList[k].image # i
  BY <1>1, <1>2, KnownImages
<1>9. \A j : InFile(j)' <=> InFile(j)
  BY <1>1 DEF InFile
<1>10. BufferInPlace'
  <2>1. WellCut(info', arList, buf)
    BY <1>8, WellCutStable DEF PutInv, BufferInPlace
  <2>2. \A k \in DOMAIN arList :
            /\ arList[k].image \notin Waiting'
            /\ ~InFile(arList[k].image)'
            /\ turn > 0 => SetFor(info'[arList[k].image].days) = Sets[turn]
            /\ turn = 0 => arList[k].image \in cutOff
    BY <1>1, <1>4, <1>8, <1>9 DEF PutInv, BufferInPlace
  <2>3. turn > 0 /\ next = NULL /\ arList # <<>> =>
            \E j \in Images :
                info'[j] # NULL /\ info'[j].size = 0 /\ SetFor(info'[j].days) = Sets[turn]
    BY <1>2 DEF PutInv, BufferInPlace
  <2>4. \A c \in cutOff : info'[c] # NULL
    BY <1>2 DEF PutInv, TypeOK, BufferInPlace
  <2> QED BY <1>1, <2>1, <2>2, <2>3, <2>4 DEF PutInv, BufferInPlace
<1>11. FilesInPlace'
  <2>1. ASSUME NEW f \in DOMAIN files
        PROVE  /\ WellCut(info', files[f].results, files[f].data)
               /\ \A k \in DOMAIN files[f].results :
                    /\ files[f].results[k].image \notin Waiting'
                    /\ Tag(info'[files[f].results[k].image].days) = files[f].tag
    <3>1. WellCut(info', files[f].results, files[f].data)
      BY <1>7, WellCutStable DEF PutInv, FilesInPlace
    <3>2. ASSUME NEW k \in DOMAIN files[f].results
          PROVE  /\ files[f].results[k].image \notin Waiting'
                 /\ Tag(info'[files[f].results[k].image].days) = files[f].tag
      BY <1>4, <1>7 DEF PutInv, FilesInPlace
    <3> QED BY <3>1, <3>2
  <2>2. \A f \in DOMAIN files :
            /\ Len(files[f].results) \in 1 .. MAX_MERGE_FILE_NUM
            /\ \A k \in DOMAIN files[f].results : \A g \in DOMAIN files :
                \A l \in DOMAIN files[g].results :
                    files[g].results[l].image = files[f].results[k].image => g = f
    BY DEF PutInv, FilesInPlace
  <2>3. files' = files
    BY <1>1
  <2> QED BY <2>1, <2>2, <2>3 DEF FilesInPlace
<1>12. QueueInPlace'
  BY <1>1 DEF PutInv, QueueInPlace
<1>13. LostOnlyAtBadTail'
  <2>1. ASSUME NEW j \in Images, info'[j] # NULL, info'[j].size > 0
        PROVE  \/ j \in Waiting' \/ j \in cutOff
               \/ \E k \in DOMAIN arList : arList[k].image = j
               \/ InFile(j)'
    <3>1. CASE j = i
      BY <1>4, <3>1
    <3>2. CASE j # i
      <4>1. info'[j] = info[j]
        BY <1>1, <3>2 DEF PutInv, TypeOK
      <4> QED BY <1>4, <1>9, <2>1, <4>1 DEF PutInv, LostOnlyAtBadTail
    <3> QED BY <3>1, <3>2
  <2>2. ASSUME NEW c \in cutOff
        PROVE  \E j \in Images :
                 /\ info'[j] # NULL /\ info'[j].size = 0
                 /\ SetFor(info'[j].days) = SetFor(info'[c].days)
    <3>1. CASE c = i
      BY <1>1, <3>1 DEF PutInv, BufferInPlace
    <3>2. CASE c # i
      <4>1. c \in Images /\ info'[c] = info[c]
        BY <1>1, <3>2 DEF PutInv, TypeOK
      <4>2. PICK j \in Images : /\ info[j] # NULL /\ info[j].size = 0
                               /\ SetFor(info[j].days) = SetFor(info[c].days)
        BY DEF PutInv, LostOnlyAtBadTail
      <4> QED BY <1>2, <4>1, <4>2
    <3> QED BY <3>1, <3>2
  <2> QED BY <1>1, <2>1, <2>2 DEF LostOnlyAtBadTail
<1> QED BY <1>5, <1>6, <1>10, <1>11, <1>12, <1>13 DEF PutInv

-----------------------------------------------------------------------------
(* The timer thread.                                                       *)

\* Going over to a set: what is in the buffer is noted in cutOff by then.
LEMMA BeginStep ==
    ASSUME PutInv, NEW n \in 1 .. 4, Begin(n), cutOff \subseteq cutOff',
           \A c \in cutOff' : c \in cutOff \/ \E k \in DOMAIN arList : c = arList[k].image,
           \A k \in DOMAIN arList : arList[k].image \in cutOff',
           turn > 0 => next = NULL,
           turn = 0 => cutOff' = cutOff
    PROVE  PutInv'
<1> USE SetsAreLifetimes
<1>1. /\ turn' = n
      /\ pass' = imageS3Infos[Sets[n]]
      /\ next' \in imageS3Infos[Sets[n]] \cup {NULL}
      /\ count' = 0 /\ offset' = 0 /\ buf' = <<>> /\ arList' = <<>>
      /\ UNCHANGED <<info, imageS3Infos, files, queue>>
  BY DEF Begin, MayFollow
<1>2. /\ \A i : i \in Waiting' <=> i \in Waiting
      /\ \A i : InFile(i)' <=> InFile(i)
  BY <1>1 DEF Waiting, InFile
<1>3. cutOff' \subseteq Images
  BY KnownImages DEF PutInv, TypeOK
<1>4. TypeOK'
  <2>1. Sets[n] \in Lifetimes /\ imageS3Infos[Sets[n]] \subseteq Images
    BY DEF PutInv, TypeOK
  <2>2. buf' \in Seq(Images) /\ arList' \in Seq(Result)
    BY <1>1
  <2> QED BY <1>1, <1>3, <2>1, <2>2 DEF PutInv, TypeOK
<1>5. SetsInPlace'
  BY <1>1 DEF PutInv, SetsInPlace
<1>6. BufferInPlace'
  <2>1. WellCut(info', arList', buf') /\ Len(arList') = 0 /\ Len(buf') = 0 /\ DOMAIN arList' = {}
    BY <1>1, NothingIsWellCut
  <2>2. \A c \in cutOff' : info'[c] # NULL
    BY <1>1, KnownImages DEF PutInv, BufferInPlace
  <2> QED BY <1>1, <2>1, <2>2 DEF BufferInPlace
<1>7. FilesInPlace'
  BY <1>1, <1>2 DEF PutInv, FilesInPlace
<1>8. QueueInPlace'
  BY <1>1 DEF PutInv, QueueInPlace
<1>9. LostOnlyAtBadTail'
  <2>1. ASSUME NEW i \in Images, info[i] # NULL, info[i].size > 0
        PROVE  i \in Waiting' \/ i \in cutOff' \/ InFile(i)'
    BY <1>2, <2>1 DEF PutInv, LostOnlyAtBadTail
  <2>2. ASSUME NEW c \in cutOff'
        PROVE  \E j \in Images :
                 info[j] # NULL /\ info[j].size = 0 /\ SetFor(info[j].days) = SetFor(info[c].days)
    <3>1. CASE c \in cutOff
      BY <3>1 DEF PutInv, LostOnlyAtBadTail
    <3>2. CASE c \notin cutOff
      <4>1. turn > 0 /\ next = NULL
        BY <3>2 DEF PutInv, TypeOK
      <4>2. PICK k \in DOMAIN arList : c = arList[k].image
        BY <3>2
      <4>3. SetFor(info[c].days) = Sets[turn]
        BY <4>1, <4>2 DEF PutInv, BufferInPlace
      <4>4. arList # <<>>
        BY <4>2
      <4>5. PICK j \in Images :
                info[j] # NULL /\ info[j].size = 0 /\ SetFor(info[j].days) = Sets[turn]
        BY <4>1, <4>4 DEF PutInv, BufferInPlace
      <4> QED BY <4>3, <4>5
    <3> QED BY <3>1, <3>2
  <2> QED BY <1>1, <2>1, <2>2 DEF LostOnlyAtBadTail
<1> QED BY <1>4, <1>5, <1>6, <1>7, <1>8, <1>9 DEF PutInv

\* The timer fires.
LEMMA TimerRunStep == ASSUME PutInv, TimerRun PROVE PutInv'
<1>1. \A k \in DOMAIN arList : arList[k].image \in cutOff
  BY DEF TimerRun, PutInv, BufferInPlace
<1>2. Begin(1) /\ cutOff' = cutOff /\ turn = 0 /\ 1 \in 1 .. 4
  BY DEF TimerRun
<1> QED BY <1>1, <1>2, BeginStep

\* A set is done.
LEMMA MergeEndsStep == ASSUME PutInv, MergeEnds PROVE PutInv'
<1>1. /\ turn > 0 /\ next = NULL
      /\ cutOff' = cutOff \cup {arList[k].image : k \in DOMAIN arList}
  BY DEF MergeEnds
<1>2. CASE turn < Len(Sets)
  <2>1. Begin(turn + 1) /\ turn + 1 \in 1 .. 4
    BY <1>2, SetsAreLifetimes DEF MergeEnds, PutInv, TypeOK
  <2>2. /\ cutOff \subseteq cutOff'
        /\ \A c \in cutOff' : c \in cutOff \/ \E k \in DOMAIN arList : c = arList[k].image
        /\ \A k \in DOMAIN arList : arList[k].image \in cutOff'
    BY <1>1
  <2>3. turn # 0
    BY <1>1 DEF PutInv, TypeOK
  <2> QED BY <1>1, <2>1, <2>2, <2>3, BeginStep
<1>3. CASE ~(turn < Len(Sets))
  <2>1. /\ turn' = 0
        /\ UNCHANGED <<info, imageS3Infos, next, pass, count, offset, buf, arList, files, queue>>
    BY <1>3 DEF MergeEnds
  <2>2. TypeOK'
    <3>1. cutOff' \subseteq Images
      BY <1>1, KnownImages DEF PutInv, TypeOK
    <3>2. 0 \in 0 .. Len(Sets)
      BY SetsAreLifetimes
    <3> QED BY <2>1, <3>1, <3>2 DEF PutInv, TypeOK
  <2>3. SetsInPlace'
    BY <1>1, <2>1 DEF PutInv, SetsInPlace
  <2>4. /\ \A i : i \in Waiting' <=> i \in Waiting
        /\ \A i : InFile(i)' <=> InFile(i)
    BY <2>1 DEF Waiting, InFile
  <2>5. BufferInPlace'
    <3>1. \A c \in cutOff' : info[c] # NULL
      BY <1>1, KnownImages DEF PutInv, BufferInPlace
    <3> QED BY <1>1, <2>1, <2>4, <3>1 DEF PutInv, BufferInPlace
  <2>6. FilesInPlace'
    BY <2>1, <2>4 DEF PutInv, FilesInPlace
  <2>7. QueueInPlace'
    BY <2>1 DEF PutInv, QueueInPlace
  <2>8. LostOnlyAtBadTail'
    <3>1. ASSUME NEW i \in Images, info[i] # NULL, info[i].size > 0
          PROVE  i \in Waiting' \/ i \in cutOff' \/ InFile(i)'
      BY <1>1, <2>4, <3>1 DEF PutInv, LostOnlyAtBadTail
    <3>2. ASSUME NEW c \in cutOff'
          PROVE  \E j \in Images :
                   info[j] # NULL /\ info[j].size = 0 /\ SetFor(info[j].days) = SetFor(info[c].days)
      <4>1. CASE c \in cutOff
        BY <4>1 DEF PutInv, LostOnlyAtBadTail
      <4>2. CASE c \notin cutOff
        <5>1. PICK k \in DOMAIN arList : c = arList[k].image
          BY <1>1, <4>2
        <5>2. SetFor(info[c].days) = Sets[turn]
          BY <1>1, <5>1 DEF PutInv, BufferInPlace
        <5>3. arList # <<>>
          BY <5>1
        <5>4. PICK j \in Images :
                  info[j] # NULL /\ info[j].size = 0 /\ SetFor(info[j].days) = Sets[turn]
          BY <1>1, <5>3 DEF PutInv, BufferInPlace
        <5> QED BY <5>2, <5>4
      <4> QED BY <4>1, <4>2
    <3> QED BY <2>1, <3>1, <3>2 DEF LostOnlyAtBadTail
  <2> QED BY <2>2, <2>3, <2>5, <2>6, <2>7, <2>8 DEF PutInv
<1> QED BY <1>2, <1>3
\* What every round of the loop does with the sets.
LEMMA MergeNextSets ==
    ASSUME PutInv, NEW n \in Images \cup {NULL}, MergeNext(n)
    PROVE  /\ next \in Images /\ turn \in 1 .. 4 /\ turn > 0
           /\ next \in Waiting
           /\ info[next] \in [days : Days, size : Sizes] /\ info[next] # NULL
           /\ SetFor(info[next].days) = Sets[turn]
           /\ UNCHANGED <<info, turn, queue, cutOff>> /\ next' = n
           /\ \A j : j \in Waiting' <=> j \in Waiting /\ j # next
           /\ imageS3Infos' \in [Lifetimes -> SUBSET Images]
           /\ pass' \subseteq Images
           /\ SetsInPlace'
<1> DEFINE d == Sets[turn]
<1>1. /\ next # NULL /\ turn > 0 /\ next \in Images /\ turn \in 1 .. 4 /\ d \in Lifetimes
      /\ next \in imageS3Infos[d] /\ info[next] # NULL /\ SetFor(info[next].days) = d
      /\ info[next] \in [days : Days, size : Sizes]
  BY SetsAreLifetimes DEF MergeNext, PutInv, TypeOK, SetsInPlace
<1>2. /\ UNCHANGED <<info, turn, queue, cutOff>>
      /\ next' = n /\ n \in (imageS3Infos[d] \ {next}) \cup {NULL}
      /\ pass' = pass \ {next}
      /\ imageS3Infos' = [imageS3Infos EXCEPT ![d] = @ \ {next}]
  BY DEF MergeNext, Remove, MayFollow
<1> HIDE DEF d
<1>3. imageS3Infos' \in [Lifetimes -> SUBSET Images] /\ pass' \subseteq Images
  BY <1>1, <1>2 DEF PutInv, TypeOK
<1>4. \A e \in Lifetimes : \A j : j \in imageS3Infos'[e] <=>
            j \in imageS3Infos[e] /\ ~(e = d /\ j = next)
  BY <1>1, <1>2 DEF PutInv, TypeOK
<1>5. \A e \in Lifetimes : next \in imageS3Infos[e] => e = d
  BY <1>1 DEF PutInv, SetsInPlace
<1>6. \A j : j \in Waiting' <=> j \in Waiting /\ j # next
  BY <1>4, <1>5 DEF Waiting
<1>7. SetsInPlace'
  <2>1. \A e \in Lifetimes : \A j \in imageS3Infos'[e] : info[j] # NULL /\ SetFor(info[j].days) = e
    BY <1>4 DEF PutInv, SetsInPlace
  <2>2. n # NULL => n \in imageS3Infos'[d]
    BY <1>1, <1>2, <1>4
  <2>3. pass' \subseteq imageS3Infos'[d]
    BY <1>1, <1>2, <1>4 DEF PutInv, SetsInPlace, d
  <2> QED BY <1>1, <1>2, <2>1, <2>2, <2>3 DEF SetsInPlace, d
<1> QED BY <1>1, <1>2, <1>3, <1>6, <1>7, WaitingMeans DEF d

\* An image without data is thrown away.
LEMMA SkipStep ==
    ASSUME PutInv, NEW n \in Images \cup {NULL}, MergeNext(n), info[next].size = 0
    PROVE  PutInv'
<1>1. UNCHANGED <<count, offset, buf, arList, files>>
  BY DEF MergeNext
<1>2. TypeOK'
  BY <1>1, MergeNextSets DEF PutInv, TypeOK
<1>3. \A i : InFile(i)' <=> InFile(i)
  BY <1>1 DEF InFile
<1>4. BufferInPlace'
  <2>1. turn > 0 /\ next' = NULL /\ arList # <<>> =>
            \E j \in Images :
                info[j] # NULL /\ info[j].size = 0 /\ SetFor(info[j].days) = Sets[turn]
    BY MergeNextSets
  <2> QED BY <1>1, <1>3, <2>1, MergeNextSets DEF PutInv, BufferInPlace
<1>5. FilesInPlace'
  BY <1>1, MergeNextSets DEF PutInv, FilesInPlace
<1>6. QueueInPlace'
  BY <1>1, MergeNextSets DEF PutInv, QueueInPlace
<1>7. LostOnlyAtBadTail'
  BY <1>1, <1>3, MergeNextSets DEF PutInv, LostOnlyAtBadTail
<1> QED BY <1>2, <1>4, <1>5, <1>6, <1>7, MergeNextSets DEF PutInv

\* An image with data goes into the buffer, which may be a file then.
LEMMA CollectStep ==
    ASSUME PutInv, NEW n \in Images \cup {NULL}, MergeNext(n), info[next].size # 0
    PROVE  PutInv'
<1> DEFINE size == info[next].size
           r == [image |-> next, from |-> offset, to |-> offset + size]
           results == Append(arList, r)
           data == buf \o Bytes(next, size)
           tag == Tag(info[next].days)
           file == [results |-> results, data |-> data, tag |-> tag,
                    state |-> "queued", sent |-> 0]
<1>1. /\ next \in Images /\ size \in Nat /\ size > 0 /\ info[next].days \in Nat
      /\ arList \in Seq(Result) /\ buf \in Seq(Images)
  <2>1. next \in Images /\ info[next].size \in Sizes /\ info[next].days \in Days
    BY MergeNextSets
  <2>2. info[next].size \in Nat /\ info[next].days \in Nat
    BY <2>1
  <2> QED BY <2>1, <2>2 DEF PutInv, TypeOK
<1>2. /\ count' = count + 1
      /\ \/ /\ IsFull(count + 1, n = NULL)
            /\ files' = Append(files, file)
            /\ buf' = <<>> /\ arList' = <<>> /\ offset' = 0
         \/ /\ ~IsFull(count + 1, n = NULL)
            /\ buf' = data /\ arList' = results /\ offset' = offset + size
            /\ UNCHANGED files
  BY DEF MergeNext, SubmitFile, Reset
<1>3. /\ \A k \in DOMAIN arList : arList[k].image # next
      /\ ~InFile(next)
      /\ \A f \in DOMAIN files : \A k \in DOMAIN files[f].results :
            files[f].results[k].image # next
  BY MergeNextSets DEF PutInv, BufferInPlace, FilesInPlace, InFile
<1>4. results \in Seq(Result) /\ WellCut(info, results, data)
  <2>1. offset = Len(buf) /\ WellCut(info, arList, buf)
    BY DEF PutInv, BufferInPlace
  <2>2. info \in [Images -> [days : Days, size : Sizes] \cup {NULL}] /\ info[next] # NULL
    BY MergeNextSets DEF PutInv, TypeOK
  <2>3. LET q == [image |-> next, from |-> Len(buf), to |-> Len(buf) + info[next].size]
            more == buf \o Bytes(next, info[next].size) IN
        Append(arList, q) \in Seq(Result) /\ WellCut(info, Append(arList, q), more)
    BY <1>1, <1>3, <2>1, <2>2, WellCutGrows
  <2> QED BY <2>1, <2>3
<1>5. data \in Seq(Images) /\ Len(data) = offset + size
  BY <1>1, MoreData DEF PutInv, BufferInPlace
<1>6. r.image = next /\ r \in Result
  BY <1>1 DEF PutInv, TypeOK, Result
<1> HIDE DEF data, r
<1>7. /\ DOMAIN results = 1 .. Len(arList) + 1 /\ Len(results) = Len(arList) + 1
      /\ \A k \in DOMAIN arList : k \in DOMAIN results /\ results[k] = arList[k]
      /\ Len(arList) + 1 \in DOMAIN results
      /\ results[Len(arList) + 1] = r
      /\ \A k \in DOMAIN results : k \in DOMAIN arList \/ k = Len(arList) + 1
  BY <1>1, <1>6
<1>8. tag \in Expired \cup {30}
  BY DEF Tag
<1> HIDE DEF results, tag, size
<1>9. \A k \in DOMAIN results :
            /\ results[k].image \notin Waiting'
            /\ ~InFile(results[k].image)
            /\ SetFor(info[results[k].image].days) = Sets[turn]
            /\ results[k].image \in Images
  BY <1>3, <1>6, <1>7, MergeNextSets, KnownImages DEF PutInv, BufferInPlace
<1>10. count \in Nat /\ Len(arList) \in Nat /\ Len(arList) <= count
       /\ (arList # <<>> => count < MAX_MERGE_FILE_NUM)
  BY <1>1 DEF PutInv, TypeOK, BufferInPlace
<1>11. CASE ~IsFull(count + 1, n = NULL)
  <2>1. /\ count' = count + 1 /\ buf' = data /\ arList' = results
        /\ offset' = offset + size /\ files' = files
        /\ count + 1 < MAX_MERGE_FILE_NUM /\ n # NULL
    BY <1>2, <1>10, <1>11 DEF IsFull
  <2>2. TypeOK'
    <3>1. offset' \in Nat /\ count' \in Nat
      BY <1>1, <1>10, <2>1 DEF PutInv, TypeOK, size
    <3> QED BY <1>4, <1>5, <2>1, <3>1, MergeNextSets DEF PutInv, TypeOK
  <2>3. \A i : InFile(i)' <=> InFile(i)
    BY <2>1 DEF InFile
  <2>4. BufferInPlace'
    BY <1>4, <1>5, <1>7, <1>9, <1>10, <2>1, <2>3, MergeNextSets DEF PutInv, BufferInPlace
  <2>5. FilesInPlace'
    BY <2>1, MergeNextSets DEF PutInv, FilesInPlace
  <2>6. QueueInPlace'
    BY <2>1, MergeNextSets DEF PutInv, QueueInPlace
  <2>7. LostOnlyAtBadTail'
    <3>1. ASSUME NEW i \in Images, info[i] # NULL, info[i].size > 0
          PROVE  \/ i \in Waiting' \/ i \in cutOff'
                 \/ \E k \in DOMAIN results : results[k].image = i
                 \/ InFile(i)'
      <4>1. CASE i = next
        BY <1>6, <1>7, <4>1
      <4>2. CASE i # next
        <5>1. CASE \E k \in DOMAIN arList : arList[k].image = i
          BY <1>7, <5>1
        <5>2. CASE ~ \E k \in DOMAIN arList : arList[k].image = i
          BY <2>3, <3>1, <4>2, <5>2, MergeNextSets DEF PutInv, LostOnlyAtBadTail
        <5> QED BY <5>1, <5>2
      <4> QED BY <4>1, <4>2
    <3> QED BY <2>1, <3>1, MergeNextSets DEF PutInv, LostOnlyAtBadTail
  <2> QED BY <2>2, <2>4, <2>5, <2>6, <2>7, MergeNextSets DEF PutInv
<1>12. CASE IsFull(count + 1, n = NULL)
  <2>1. /\ count' = count + 1 /\ buf' = <<>> /\ arList' = <<>>
        /\ offset' = 0 /\ files' = Append(files, file)
    BY <1>2, <1>12
  <2>2. /\ file \in File /\ file.results = results /\ file.data = data
        /\ file.tag = tag /\ file.sent = 0
    BY <1>4, <1>5, <1>8 DEF File
  <2> HIDE DEF file
  <2>3. /\ files' \in Seq(File)
        /\ DOMAIN files' = 1 .. Len(files) + 1
        /\ \A f \in DOMAIN files : f \in DOMAIN files' /\ files'[f] = files[f]
        /\ files'[Len(files) + 1] = file
        /\ \A f \in DOMAIN files' : f \in DOMAIN files \/ f = Len(files) + 1
    BY <2>1, <2>2 DEF PutInv, TypeOK
  <2>4. TypeOK'
    <3>1. \A f \in DOMAIN files' : files'[f].sent <= Len(files'[f].results)
      BY <1>7, <1>10, <2>2, <2>3 DEF PutInv, TypeOK
    <3>2. queue' \subseteq [file : DOMAIN files', result : Result]
      BY <2>3, MergeNextSets DEF PutInv, TypeOK
    <3>3. count' \in Nat /\ offset' \in Nat /\ buf' \in Seq(Images) /\ arList' \in Seq(Result)
      BY <1>10, <2>1
    <3> QED BY <2>3, <3>1, <3>2, <3>3, MergeNextSets DEF PutInv, TypeOK
  <2>5. \A i : InFile(i)' <=> InFile(i) \/ \E k \in DOMAIN results : results[k].image = i
    BY <2>2, <2>3 DEF InFile
  <2>6. BufferInPlace'
    <3>1. WellCut(info', arList', buf') /\ Len(arList') = 0 /\ Len(buf') = 0 /\ DOMAIN arList' = {}
      BY <2>1, NothingIsWellCut
    <3> QED BY <1>10, <2>1, <3>1, MergeNextSets DEF PutInv, BufferInPlace
  <2>7. FilesInPlace'
    <3>1. ASSUME NEW f \in DOMAIN files'
          PROVE  /\ WellCut(info, files'[f].results, files'[f].data)
                 /\ Len(files'[f].results) \in 1 .. MAX_MERGE_FILE_NUM
                 /\ \A k \in DOMAIN files'[f].results :
                    /\ files'[f].results[k].image \notin Waiting'
                    /\ Tag(info[files'[f].results[k].image].days) = files'[f].tag
      <4>1. CASE f \in DOMAIN files
        BY <2>3, <4>1, MergeNextSets DEF PutInv, FilesInPlace
      <4>2. CASE f = Len(files) + 1
        <5>1. Len(results) \in 1 .. MAX_MERGE_FILE_NUM
          BY <1>7, <1>10
        <5>2. ASSUME NEW k \in DOMAIN results
              PROVE  Tag(info[results[k].image].days) = tag
          <6>1. info[results[k].image].days \in Nat
            <7>1. results[k].image \in Images /\ info[results[k].image] # NULL
              BY <1>6, <1>7, <1>9, KnownImages, MergeNextSets
            <7>2. info[results[k].image] \in [days : Days, size : Sizes]
              BY <7>1 DEF PutInv, TypeOK
            <7> QED BY <7>2
          <6>2. SetFor(info[results[k].image].days) = SetFor(info[next].days)
            BY <1>9, MergeNextSets
          <6> QED BY <1>1, <6>1, <6>2, TagOfSet DEF tag
        <5> QED BY <1>4, <1>9, <2>2, <2>3, <4>2, <5>1, <5>2
      <4> QED BY <2>3, <4>1, <4>2
    <3>2. ASSUME NEW f \in DOMAIN files', NEW k \in DOMAIN files'[f].results,
                 NEW g \in DOMAIN files', NEW l \in DOMAIN files'[g].results,
                 files'[g].results[l].image = files'[f].results[k].image
          PROVE  g = f
      <4>1. CASE f \in DOMAIN files /\ g \in DOMAIN files
        BY <2>3, <3>2, <4>1 DEF PutInv, FilesInPlace
      <4>2. CASE f \in DOMAIN files /\ g = Len(files) + 1
        BY <1>9, <2>2, <2>3, <3>2, <4>2 DEF InFile
      <4>3. CASE f = Len(files) + 1 /\ g \in DOMAIN files
        BY <1>9, <2>2, <2>3, <3>2, <4>3 DEF InFile
      <4> QED BY <2>3, <4>1, <4>2, <4>3
    <3> QED BY <3>1, <3>2, MergeNextSets DEF FilesInPlace
  <2>8. QueueInPlace'
    BY <2>3, MergeNextSets DEF PutInv, TypeOK, QueueInPlace
  <2>9. LostOnlyAtBadTail'
    <3>1. ASSUME NEW i \in Images, info[i] # NULL, info[i].size > 0
          PROVE  i \in Waiting' \/ i \in cutOff' \/ InFile(i)'
      <4>1. CASE i = next
        BY <1>6, <1>7, <2>5, <4>1
      <4>2. CASE i # next
        <5>1. CASE \E k \in DOMAIN arList : arList[k].image = i
          BY <1>7, <2>5, <5>1
        <5>2. CASE ~ \E k \in DOMAIN arList : arList[k].image = i
          BY <2>5, <3>1, <4>2, <5>2, MergeNextSets DEF PutInv, LostOnlyAtBadTail
        <5> QED BY <5>1, <5>2
      <4> QED BY <4>1, <4>2
    <3> QED BY <3>1, MergeNextSets DEF PutInv, LostOnlyAtBadTail
  <2> QED BY <2>4, <2>6, <2>7, <2>8, <2>9, MergeNextSets DEF PutInv
<1> QED BY <1>11, <1>12

-----------------------------------------------------------------------------
(* The pool.                                                               *)

\* Steps of the pool leave all but state and sent of one file alone.
LEMMA PoolTouches ==
    ASSUME PutInv, UNCHANGED <<info, imageS3Infos, timerVars>>,
           files' \in Seq(File), Len(files') = Len(files),
           \A f \in DOMAIN files :
                /\ files'[f].results = files[f].results
                /\ files'[f].data = files[f].data
                /\ files'[f].tag = files[f].tag
    PROVE  SetsInPlace' /\ BufferInPlace' /\ FilesInPlace' /\ LostOnlyAtBadTail'
<1>1. DOMAIN files' = DOMAIN files
  BY DEF PutInv, TypeOK
<1>2. /\ \A i : i \in Waiting' <=> i \in Waiting
      /\ \A i : InFile(i)' <=> InFile(i)
  BY <1>1 DEF Waiting, InFile
<1>3. SetsInPlace'
  BY DEF PutInv, SetsInPlace
<1>4. BufferInPlace'
  BY <1>2 DEF PutInv, BufferInPlace
<1>5. FilesInPlace'
  <2>1. ASSUME NEW f \in DOMAIN files
        PROVE  /\ WellCut(info, files'[f].results, files'[f].data)
               /\ Len(files'[f].results) \in 1 .. MAX_MERGE_FILE_NUM
    BY DEF PutInv, FilesInPlace
  <2>2. ASSUME NEW f \in DOMAIN files, NEW k \in DOMAIN files'[f].results
        PROVE  /\ files'[f].results[k].image \notin Waiting'
               /\ Tag(info[files'[f].results[k].image].days) = files'[f].tag
    BY <1>2 DEF PutInv, FilesInPlace
  <2>3. ASSUME NEW f \in DOMAIN files, NEW k \in DOMAIN files'[f].results,
               NEW g \in DOMAIN files, NEW l \in DOMAIN files'[g].results,
               files'[g].results[l].image = files'[f].results[k].image
        PROVE  g = f
    BY <2>3 DEF PutInv, FilesInPlace
  <2>4. info' = info
    OBVIOUS
  <2> QED BY <1>1, <2>1, <2>2, <2>3, <2>4 DEF FilesInPlace
<1>6. LostOnlyAtBadTail'
  BY <1>2 DEF PutInv, LostOnlyAtBadTail
<1> QED BY <1>3, <1>4, <1>5, <1>6

\* A file is stored or given up.
LEMMA PutObjectStep ==
    ASSUME PutInv, NEW f \in DOMAIN files, PutObject(f) PROVE PutInv'
<1>1. files[f] \in File /\ Len(files[f].results) \in Nat
  BY KnownImages DEF File
<1>2. PICK state \in {"stored", "failed"}, sent \in {files[f].sent, Len(files[f].results)} :
        files' = [files EXCEPT ![f].state = state, ![f].sent = sent]
  <2>1. CASE files' = [files EXCEPT ![f].state = "stored"]
    <3>1. [files EXCEPT ![f].state = "stored"]
            = [files EXCEPT ![f].state = "stored", ![f].sent = files[f].sent]
      BY <1>1 DEF File, PutInv, TypeOK
    <3> QED BY <2>1, <3>1
  <2>2. CASE files' = [files EXCEPT ![f].state = "failed", ![f].sent = Len(files[f].results)]
    BY <2>2
  <2> QED BY <2>1, <2>2 DEF PutObject
<1>3. /\ DOMAIN files' = DOMAIN files /\ Len(files') = Len(files)
      /\ files'[f] = [files[f] EXCEPT !.state = state, !.sent = sent]
      /\ \A g \in DOMAIN files : g # f => files'[g] = files[g]
  BY <1>2 DEF PutInv, TypeOK
<1>4. /\ files'[f] \in File /\ files'[f].sent <= Len(files'[f].results)
      /\ files'[f].results = files[f].results
      /\ files'[f].data = files[f].data
      /\ files'[f].tag = files[f].tag
  <2>1. sent \in Nat /\ sent <= Len(files[f].results)
    BY <1>1 DEF File, PutInv, TypeOK
  <2> QED BY <1>1, <1>3, <2>1 DEF File
<1>5. files' \in Seq(File)
  <2>1. files' \in [1 .. Len(files) -> File] /\ Len(files) \in Nat
    <3>1. files \in [1 .. Len(files) -> File] /\ Len(files) \in Nat
      BY DEF PutInv, TypeOK
    <3> HIDE DEF File
    <3> QED BY <1>2, <1>3, <1>4, <3>1
  <2> QED BY <2>1
<1>6. /\ UNCHANGED <<info, imageS3Infos, timerVars, queue>>
      /\ files[f].state = "queued"
  BY DEF PutObject
<1>7. TypeOK'
  BY <1>3, <1>4, <1>5, <1>6 DEF PutInv, TypeOK
<1>8. QueueInPlace'
  <2>1. \A m \in queue : m.file \in DOMAIN files /\ m.file # f
    BY <1>6 DEF PutInv, TypeOK, QueueInPlace
  <2> QED BY <1>3, <1>6, <2>1 DEF PutInv, QueueInPlace
<1>9. \A g \in DOMAIN files :
            /\ files'[g].results = files[g].results
            /\ files'[g].data = files[g].data
            /\ files'[g].tag = files[g].tag
  BY <1>3, <1>4
<1> QED BY <1>3, <1>5, <1>6, <1>7, <1>8, <1>9, PoolTouches DEF PutInv

\* A message is sent or given up.
LEMMA PublishStep ==
    ASSUME PutInv, NEW f \in DOMAIN files, Publish(f) PROVE PutInv'
<1> DEFINE n == files[f].sent + 1
           m == [file |-> f, result |-> files[f].results[n]]
<1>1. /\ files[f] \in File /\ files[f].sent \in Nat
      /\ files[f].results \in Seq(Result)
  BY KnownImages DEF File
<1>2. n \in DOMAIN files[f].results /\ n \in Nat /\ n <= Len(files[f].results)
  BY <1>1 DEF Publish
<1>3. /\ files' = [files EXCEPT ![f].sent = n]
      /\ files[f].state = "stored"
      /\ queue' \subseteq queue \cup {m}
      /\ UNCHANGED <<info, imageS3Infos, timerVars>>
  <2>1. files' = [files EXCEPT ![f].sent = files[f].sent + 1]
    BY DEF Publish
  <2> QED BY <2>1 DEF Publish
<1> HIDE DEF n
<1>4. /\ DOMAIN files' = DOMAIN files /\ Len(files') = Len(files)
      /\ files'[f] = [files[f] EXCEPT !.sent = n]
      /\ \A g \in DOMAIN files : g # f => files'[g] = files[g]
  BY <1>3 DEF PutInv, TypeOK
<1>5. /\ files'[f] \in File /\ files'[f].sent <= Len(files'[f].results)
      /\ files'[f].results = files[f].results
      /\ files'[f].data = files[f].data
      /\ files'[f].tag = files[f].tag
      /\ files'[f].state = files[f].state
  BY <1>1, <1>2, <1>4 DEF File
<1>6. files' \in Seq(File)
  BY <1>3, <1>4, <1>5, KnownImages DEF PutInv, TypeOK
<1>7. files[f].results[n] \in Result
  BY <1>1, <1>2
<1>8. TypeOK'
  <2>1. queue' \subseteq [file : DOMAIN files', result : Result]
    BY <1>3, <1>4, <1>7 DEF PutInv, TypeOK
  <2>2. \A g \in DOMAIN files' : files'[g].sent <= Len(files'[g].results)
    BY <1>4, <1>5 DEF PutInv, TypeOK
  <2> QED BY <1>3, <1>6, <2>1, <2>2 DEF PutInv, TypeOK
<1>9. \A g \in DOMAIN files :
            /\ files'[g].results = files[g].results
            /\ files'[g].data = files[g].data
            /\ files'[g].tag = files[g].tag
            /\ files'[g].state = files[g].state
  BY <1>4, <1>5
<1>10. QueueInPlace'
  <2>1. ASSUME NEW q \in queue'
        PROVE  /\ files'[q.file].state = "stored"
               /\ \E k \in DOMAIN files'[q.file].results : q.result = files'[q.file].results[k]
    <3>1. CASE q \in queue
      BY <1>9, <3>1 DEF PutInv, TypeOK, QueueInPlace
    <3>2. CASE q = m
      BY <1>2, <1>3, <1>9, <3>2
    <3> QED BY <1>3, <3>1, <3>2
  <2> QED BY <2>1 DEF QueueInPlace
<1> QED BY <1>3, <1>4, <1>6, <1>8, <1>9, <1>10, PoolTouches DEF PutInv

-----------------------------------------------------------------------------
\* Every step keeps the invariant.
LEMMA PutNext == PutInv /\ [Next]_vars => PutInv'
<1> SUFFICES ASSUME PutInv, [Next]_vars PROVE PutInv'
  OBVIOUS
<1>1. ASSUME NEW n \in Images \cup {NULL}, MergeNext(n) PROVE PutInv'
  BY <1>1, SkipStep, CollectStep
<1>2. ASSUME UNCHANGED vars PROVE PutInv'
  <2>1. TypeOK' /\ QueueInPlace'
    BY <1>2 DEF vars, PutInv, TypeOK, QueueInPlace
  <2>2. files' \in Seq(File) /\ UNCHANGED <<info, imageS3Infos, timerVars, files>>
    BY <1>2 DEF vars, PutInv, TypeOK
  <2> QED BY <2>1, <2>2, PoolTouches DEF PutInv
<1> QED
  BY <1>1, <1>2, PutStep, TimerRunStep, MergeEndsStep, PutObjectStep, PublishStep
  DEF Next, TimerStep, PoolStep

\* The inductive invariant of the upload.
THEOREM PutInvariant == Spec => []PutInv
BY PutInit, PutNext, PTL DEF Spec

\* Every message names the bytes of its image in a stored file.
THEOREM RangesRight == Spec => []RangesCutOutImages
<1>1. ASSUME PutInv PROVE RangesCutOutImages
  <2> SUFFICES ASSUME NEW m \in queue
               PROVE  /\ files[m.file].state = "stored"
                      /\ m.result.from + 1 .. m.result.to
                          = {b \in DOMAIN files[m.file].data :
                                files[m.file].data[b] = m.result.image}
                      /\ m.result.to - m.result.from = info[m.result.image].size
    BY DEF RangesCutOutImages
  <2>1. m.file \in DOMAIN files /\ m.result \in Result /\ files[m.file].state = "stored"
    BY <1>1 DEF PutInv, TypeOK, QueueInPlace
  <2>2. PICK k \in DOMAIN files[m.file].results : m.result = files[m.file].results[k]
    BY <1>1 DEF PutInv, QueueInPlace
  <2> DEFINE r == m.result
             data == files[m.file].data
  <2>3. /\ info[r.image] # NULL
        /\ r.to = r.from + info[r.image].size
        /\ \A b \in DOMAIN data : data[b] = r.image <=> r.from < b /\ b <= r.to
        /\ r.to <= Len(data)
    BY <1>1, <2>1, <2>2 DEF PutInv, FilesInPlace, WellCut
  <2>4. r.image \in Images /\ r.from \in Nat /\ r.to \in Nat
    BY <2>1 DEF Result
  <2>5. info[r.image].size \in Nat
    BY <1>1, <2>3, <2>4 DEF PutInv, TypeOK
  <2>6. data \in Seq(Images)
    BY <1>1, <2>1, KnownImages DEF File
  <2> HIDE DEF r, data
  <2>7. r.from + 1 .. r.to = {b \in DOMAIN data : data[b] = r.image}
    BY <2>3, <2>4, <2>6
  <2> QED BY <2>1, <2>3, <2>4, <2>5, <2>7 DEF r, data
<1> QED BY <1>1, PutInvariant, PTL

\* Files hold one to MAX_MERGE_FILE_NUM images and no bytes of others.
THEOREM LimitKept == Spec => []MergeLimit
<1>1. ASSUME PutInv PROVE MergeLimit
  <2> SUFFICES ASSUME NEW f \in DOMAIN files
               PROVE  /\ Len(files[f].results) \in 1 .. MAX_MERGE_FILE_NUM
                      /\ {files[f].data[b] : b \in DOMAIN files[f].data}
                          = {files[f].results[k].image : k \in DOMAIN files[f].results}
    BY DEF MergeLimit
  <2>1. Len(files[f].results) \in 1 .. MAX_MERGE_FILE_NUM
    BY <1>1 DEF PutInv, FilesInPlace
  <2>2. \A b \in DOMAIN files[f].data :
            \E k \in DOMAIN files[f].results : files[f].results[k].image = files[f].data[b]
    BY <1>1 DEF PutInv, FilesInPlace, WellCut
  <2>3. ASSUME NEW k \in DOMAIN files[f].results
        PROVE  \E b \in DOMAIN files[f].data : files[f].results[k].image = files[f].data[b]
    <3> DEFINE r == files[f].results[k]
               data == files[f].data
    <3>1. /\ info[r.image] # NULL /\ info[r.image].size > 0
          /\ r.to = r.from + info[r.image].size
          /\ \A b \in DOMAIN data : data[b] = r.image <=> r.from < b /\ b <= r.to
          /\ r.to <= Len(data)
      BY <1>1 DEF PutInv, FilesInPlace, WellCut
    <3>2. r.image \in Images /\ r.from \in Nat /\ r.to \in Nat
      BY <1>1, KnownImages DEF Result
    <3>3. info[r.image].size \in Nat
      BY <1>1, <3>1, <3>2 DEF PutInv, TypeOK
    <3>4. data \in Seq(Images)
      BY <1>1, KnownImages DEF File
    <3> HIDE DEF r, data
    <3>5. r.to \in DOMAIN data /\ data[r.to] = r.image
      BY <3>1, <3>2, <3>3, <3>4
    <3> QED BY <3>5 DEF r, data
  <2> QED BY <2>1, <2>2, <2>3
<1> QED BY <1>1, PutInvariant, PTL

\* No image is published twice, or waits and is in a file.
THEOREM OncePublished == Spec => []PublishedOnce
<1>1. ASSUME PutInv PROVE PublishedOnce
  <2>1. ASSUME NEW m1 \in queue, NEW m2 \in queue, m1.result.image = m2.result.image
        PROVE  m1 = m2
    <3>1. /\ m1 \in [file : DOMAIN files, result : Result]
          /\ m2 \in [file : DOMAIN files, result : Result]
      BY <1>1 DEF PutInv, TypeOK
    <3>2. PICK k \in DOMAIN files[m1.file].results : m1.result = files[m1.file].results[k]
      BY <1>1 DEF PutInv, QueueInPlace
    <3>3. PICK l \in DOMAIN files[m2.file].results : m2.result = files[m2.file].results[l]
      BY <1>1 DEF PutInv, QueueInPlace
    <3>4. m1.file \in DOMAIN files /\ m2.file \in DOMAIN files
      BY <3>1
    <3>5. m1.file = m2.file
      BY <1>1, <2>1, <3>2, <3>3, <3>4 DEF PutInv, FilesInPlace
    <3>6. k = l
      BY <1>1, <2>1, <3>2, <3>3, <3>4, <3>5 DEF PutInv, FilesInPlace, WellCut
    <3> QED BY <3>1, <3>2, <3>3, <3>5, <3>6
  <2>2. \A i \in Waiting : ~InFile(i)
    BY <1>1 DEF PutInv, FilesInPlace, InFile
  <2> QED BY <2>1, <2>2 DEF PublishedOnce
<1> QED BY <1>1, PutInvariant, PTL

\* The tag of a file is the tag of each of its images.
THEOREM TagsRight == Spec => []TagFitsAll
<1>1. PutInv => TagFitsAll
  BY DEF PutInv, FilesInPlace, TagFitsAll
<1> QED BY <1>1, PutInvariant, PTL

\* Only an image without data at the end of a set makes others disappear.
THEOREM LossExplained == Spec => []LostOnlyAtBadTail
<1>1. PutInv => LostOnlyAtBadTail
  BY DEF PutInv
<1> QED BY <1>1, PutInvariant, PTL
=============================================================================
