---------------------------- MODULE DownloaderProofs ---------------------------
(***************************************************************************)
(* The segment queue, for every Limit, throttled or not, and the stream    *)
(* downloader, with any server, window and distance.  It uses its segment  *)
(* queue as SegmentQueue says, so that what is shown of the queue holds of *)
(* the composition; it plays what the server has published, in order, or   *)
(* says truly why it does not; and it dates the parts as they start.       *)
(*                                                                         *)
(* Facts is what MuxerStreamProofs shows of the stream of the server.      *)
(***************************************************************************)
EXTENDS Downloader, FoldProofs

Facts == INSTANCE MuxerStreamProofs WITH Variant <- variant

--------------------------------------------------------------------------------
(***************************************************************************)
(* The segment queue.                                                      *)
(***************************************************************************)

\* The queue is the interval of the segments that have been pushed and not
\* been pulled.
IsInterval ==
    /\ Len(queue) = pushed - last
    /\ \A i \in 1..Len(queue) : queue[i] = last + i

\* What makes the announcements work: nobody holds a channel of the future.
QueueInv ==
    /\ TypeOK
    /\ IsInterval
    /\ downloader # "left" => pushed <= MaxPushes
    /\ downloader = "start" => queue = << >>
    /\ pushCopy <= didPush /\ pullCopy <= didPull
    /\ NoMissedAnnouncement
    /\ DownloadsThrottled

LEMMA InitQueueInv == Init => QueueInv
<1> SUFFICES ASSUME Init
             PROVE  QueueInv
  OBVIOUS
<1>1. queue \in Seq(Nat) /\ Len(queue) = 0
  BY DEF Init
<1>6. pushed \in 0..MaxPushes + 1
  BY QueueAssumption DEF Init
<1>2. TypeOK
  BY <1>1, <1>6 DEF Init, TypeOK, DownloaderStates, ProcessorStates
<1>3. IsInterval
  BY <1>1 DEF Init, IsInterval
<1>4. NoMissedAnnouncement /\ DownloadsThrottled
  BY <1>1, QueueAssumption DEF Init, NoMissedAnnouncement, DownloadsThrottled
<1>5. pushCopy <= didPush /\ pullCopy <= didPull /\ pushed <= MaxPushes /\ queue = << >>
  BY QueueAssumption DEF Init
<1> QED
  BY <1>2, <1>3, <1>4, <1>5 DEF QueueInv

\* A push keeps the interval, and wakes the processor when it sleeps.
LEMMA PushKeeps ==
    ASSUME QueueInv, push, processor' = processor, pushCopy' = pushCopy, last' = last
    PROVE  /\ queue' \in Seq(Nat) /\ pushed' = pushed + 1 /\ didPush' \in Nat
           /\ Len(queue') = Len(queue) + 1
           /\ IsInterval'
           /\ pushCopy' <= didPush'
           /\ ~(processor' = "asleep" /\ pushCopy' = didPush')
<1>1. queue \in Seq(Nat) /\ pushed \in Nat /\ last \in Nat /\ didPush \in Nat /\ pushCopy \in Nat
  BY QueueAssumption DEF QueueInv, TypeOK
<1>2. queue' = Append(queue, pushed + 1) /\ pushed' = pushed + 1
  BY DEF push
<1>3. queue' \in Seq(Nat) /\ Len(queue') = Len(queue) + 1
  BY <1>1, <1>2
<1>4. IsInterval'
  <2>1. Len(queue) = pushed - last /\ \A i \in 1..Len(queue) : queue[i] = last + i
    BY DEF QueueInv, IsInterval
  <2>2. \A i \in 1..Len(queue') : queue'[i] = last' + i
    BY <1>1, <1>2, <2>1
  <2> QED
    BY <1>1, <1>2, <1>3, <2>1, <2>2 DEF IsInterval
<1>5. CASE queue = << >>
  BY <1>1, <1>2, <1>3, <1>4, <1>5 DEF push, QueueInv
<1>6. CASE queue # << >>
  BY <1>1, <1>2, <1>3, <1>4, <1>6 DEF push, QueueInv, NoMissedAnnouncement
<1> QED
  BY <1>5, <1>6

LEMMA NextQueueInv ==
    ASSUME QueueInv, [Next]_vars
    PROVE  QueueInv'
<1> USE QueueAssumption
<1>1. CASE PushSegment
  <2>1. push /\ processor' = processor /\ pushCopy' = pushCopy /\ last' = last
    BY <1>1 DEF PushSegment
  <2>2. /\ queue' \in Seq(Nat) /\ pushed' = pushed + 1 /\ didPush' \in Nat
        /\ Len(queue') = Len(queue) + 1 /\ IsInterval' /\ pushCopy' <= didPush'
        /\ ~(processor' = "asleep" /\ pushCopy' = didPush')
    BY <2>1, PushKeeps
  <2>3. downloader' = IF throttled THEN "check" ELSE "push"
    BY <1>1 DEF PushSegment
  <2>4. queue \in Seq(Nat)
    BY DEF QueueInv, TypeOK
  <2> QED
    BY <1>1, <2>2, <2>3, <2>4 DEF PushSegment, QueueInv, TypeOK, NoMissedAnnouncement,
       DownloadsThrottled, DownloaderStates
<1>2. CASE PushError
  <2>1. push /\ processor' = processor /\ pushCopy' = pushCopy /\ last' = last
    BY <1>2 DEF PushError
  <2>2. /\ queue' \in Seq(Nat) /\ pushed' = pushed + 1 /\ didPush' \in Nat
        /\ Len(queue') = Len(queue) + 1 /\ IsInterval' /\ pushCopy' <= didPush'
        /\ ~(processor' = "asleep" /\ pushCopy' = didPush')
    BY <2>1, PushKeeps
  <2>3. queue \in Seq(Nat)
    BY DEF QueueInv, TypeOK
  <2> QED
    BY <1>2, <2>2, <2>3 DEF PushError, QueueInv, TypeOK, NoMissedAnnouncement,
       DownloadsThrottled, DownloaderStates
<1>3. CASE waitUntilSizeIsBelow
  BY <1>3 DEF waitUntilSizeIsBelow, QueueInv, TypeOK, IsInterval, NoMissedAnnouncement,
     DownloadsThrottled, DownloaderStates
<1>4. CASE DownloaderWakes
  BY <1>4 DEF DownloaderWakes, QueueInv, TypeOK, IsInterval, NoMissedAnnouncement,
     DownloadsThrottled, DownloaderStates
<1>5. CASE pull /\ queue = << >>
  BY <1>5 DEF pull, QueueInv, TypeOK, IsInterval, NoMissedAnnouncement,
     DownloadsThrottled, ProcessorStates
<1>6. CASE pull /\ queue # << >>
  <2>1. queue \in Seq(Nat) /\ Len(queue) > 0 /\ last \in Nat /\ pushed \in Nat
    BY <1>6 DEF QueueInv, TypeOK
  <2>2. queue' = Tail(queue) /\ last' = Head(queue) /\ pushed' = pushed
    BY <1>6 DEF pull
  <2>3. Head(queue) = last + 1
    BY <2>1 DEF QueueInv, IsInterval
  <2>4. queue' \in Seq(Nat) /\ Len(queue') = Len(queue) - 1 /\ last' \in Nat
    BY <2>1, <2>2, <2>3
  <2>5. IsInterval'
    <3>1. \A i \in 1..Len(queue') : queue'[i] = queue[i + 1] /\ i + 1 \in 1..Len(queue)
      BY <2>1, <2>2, <2>4
    <3>2. \A i \in 1..Len(queue) : queue[i] = last + i
      BY DEF QueueInv, IsInterval
    <3>3. \A i \in 1..Len(queue') : queue'[i] = last' + i
      BY <2>1, <2>2, <2>3, <2>4, <3>1, <3>2
    <3>4. Len(queue') = pushed' - last'
      BY <2>1, <2>2, <2>3, <2>4 DEF QueueInv, IsInterval
    <3> QED
      BY <3>3, <3>4 DEF IsInterval
  <2> QED
    BY <1>6, <2>1, <2>2, <2>4, <2>5 DEF pull, QueueInv, TypeOK, NoMissedAnnouncement,
       DownloadsThrottled, ProcessorStates
<1>7. CASE ProcessorWakes
  BY <1>7 DEF ProcessorWakes, QueueInv, TypeOK, IsInterval, NoMissedAnnouncement,
     DownloadsThrottled, ProcessorStates
<1>8. CASE ProcessorFails
  BY <1>8 DEF ProcessorFails, QueueInv, TypeOK, IsInterval, NoMissedAnnouncement,
     DownloadsThrottled, ProcessorStates
<1>9. CASE Cancel
  BY <1>9 DEF Cancel, QueueInv, TypeOK, IsInterval, NoMissedAnnouncement, DownloadsThrottled
<1>10. CASE UNCHANGED vars
  BY <1>10 DEF vars, QueueInv, TypeOK, IsInterval, NoMissedAnnouncement, DownloadsThrottled
<1>11. CASE StartDownloads
  BY <1>11 DEF StartDownloads, QueueInv, TypeOK, IsInterval, NoMissedAnnouncement,
     DownloadsThrottled, DownloaderStates
<1>12. CASE StartFails
  BY <1>12 DEF StartFails, QueueInv, TypeOK, IsInterval, NoMissedAnnouncement,
     DownloadsThrottled, DownloaderStates
<1> QED
  BY <1>1, <1>2, <1>3, <1>4, <1>5, <1>6, <1>7, <1>8, <1>9, <1>10, <1>11, <1>12
     DEF Next, DownloaderNext, ProcessorNext

\* The invariant of the queue, with the types, holds in every reachable state.
THEOREM QueueCorrect == Spec => []QueueInv
<1>1. Init => QueueInv
  BY InitQueueInv
<1>2. QueueInv /\ [Next]_vars => QueueInv'
  BY NextQueueInv
<1> QED
  BY <1>1, <1>2, PTL DEF Spec

\* waitUntilSizeIsBelow and pull of src/client_segment_queue.go, which test
\* under the mutex and wait without it, never miss a push or a pull.
THEOREM AnnouncementsArrive == Spec => []NoMissedAnnouncement
<1>1. QueueInv => NoMissedAnnouncement
  BY DEF QueueInv
<1> QED
  BY <1>1, QueueCorrect, PTL

\* waitUntilSizeIsBelow keeps the downloader from running ahead.
THEOREM ThrottlingWorks == Spec => []DownloadsThrottled
<1>1. QueueInv => DownloadsThrottled
  BY DEF QueueInv
<1> QED
  BY <1>1, QueueCorrect, PTL

\* The queue implements the pipe: segments arrive in order, each one once.
THEOREM QueueIsPipe == Spec => IsPipe
<1> USE QueueAssumption
<1>1. Init => Pipeline!Init
  BY DEF Init, Pipeline!Init
<1>2. ASSUME QueueInv, QueueInv', [Next]_vars
      PROVE  [Pipeline!Next]_(Pipeline!vars)
  <2>1. pushed \in Nat /\ last \in Nat /\ queue \in Seq(Nat) /\ Len(queue) = pushed - last
    BY <1>2 DEF QueueInv, TypeOK, IsInterval
  <2>2. /\ Len(queue') = pushed' - last'
        /\ Len(queue') <= IF throttled' THEN Limit + 2 ELSE MaxPushes + 1
    <3>1. Len(queue') = pushed' - last' /\ last' \in Int /\ last' >= 0
          /\ pushed' \in Int /\ pushed' <= MaxPushes + 1
      BY <1>2 DEF QueueInv, TypeOK, IsInterval
    <3>2. throttled' => Len(queue') <= Limit + 2
      BY <1>2 DEF QueueInv, DownloadsThrottled
    <3>3. pushed' - last' <= MaxPushes + 1
      <4>1. MaxPushes + 1 \in Int
        BY QueueAssumption
      <4> HIDE QueueAssumption
      <4> QED
        BY <3>1, <4>1
    <3> QED
      BY <3>1, <3>2, <3>3
  <2>3. CASE PushSegment \/ PushError
    <3>1. pushed' = pushed + 1 /\ last' = last /\ throttled' = throttled
      BY <2>3 DEF PushSegment, PushError, push
    <3>2. Pipeline!Send
      BY <2>1, <2>2, <3>1 DEF Pipeline!Send
    <3> QED
      BY <3>2 DEF Pipeline!Next
  <2>4. CASE pull /\ queue # << >>
    <3>1. last' = Head(queue) /\ pushed' = pushed
      BY <2>4 DEF pull
    <3>2. Len(queue) > 0 /\ Head(queue) = last + 1
      BY <1>2, <2>1, <2>4 DEF QueueInv, IsInterval
    <3>3. Pipeline!Receive
      BY <2>1, <3>1, <3>2 DEF Pipeline!Receive
    <3> QED
      BY <3>3 DEF Pipeline!Next
  <2>5. CASE UNCHANGED << pushed, last >>
    BY <2>5 DEF Pipeline!vars
  <2>6. (pull /\ queue = << >>) => UNCHANGED << pushed, last >>
    BY DEF pull
  <2>7. (StartDownloads \/ StartFails \/ waitUntilSizeIsBelow \/ DownloaderWakes \/ ProcessorWakes \/ ProcessorFails
            \/ Cancel \/ UNCHANGED vars) => UNCHANGED << pushed, last >>
    BY DEF StartDownloads, StartFails, waitUntilSizeIsBelow, DownloaderWakes, ProcessorWakes,
       ProcessorFails, Cancel, vars
  <2> QED
    BY <1>2, <2>3, <2>4, <2>5, <2>6, <2>7 DEF Next, DownloaderNext, ProcessorNext
<1> QED
  BY <1>1, <1>2, QueueCorrect, PTL DEF Spec, IsPipe, Pipeline!Spec

--------------------------------------------------------------------------------
(***************************************************************************)
(* The downloader and its queue.                                           *)
(***************************************************************************)

\* Every step of the composition is a step of the queue or leaves it alone.
LEMMA StreamStepUsesQueue ==
    ASSUME [StreamNext]_streamVars
    PROVE  [Next]_vars
<1>1. CASE ServerNext
  BY <1>1 DEF ServerNext, ServerBegins, ServerRotatesParts, ServerRotatesSegments, ServerEnds
<1>2. CASE ReadFirstPlaylist
  BY <1>2 DEF ReadFirstPlaylist, Next, DownloaderNext
<1>3. CASE FirstPlaylistFails
  BY <1>3 DEF FirstPlaylistFails, Next, DownloaderNext
<1>4. CASE Downloads
  BY <1>4 DEF Downloads, ReadPlaylist, DownloadSegment, DownloadHint, DownloadRefused,
     Next, DownloaderNext
<1>5. CASE DownloadBreaks
  BY <1>5 DEF DownloadBreaks, Next, DownloaderNext
<1>6. CASE QueueStep
  BY <1>6 DEF QueueStep, Next, DownloaderNext
<1>7. CASE UNCHANGED streamVars
  BY <1>7 DEF streamVars
<1> QED
  BY <1>1, <1>2, <1>3, <1>4, <1>5, <1>6, <1>7 DEF StreamNext

\* clientStreamDownloader.run and what it calls only push, and wait, as
\* clientSegmentQueue expects.
THEOREM DownloaderUsesQueue == StreamSpec => Spec
<1>1. StreamInit => Init
  BY DEF StreamInit
<1>2. [StreamNext]_streamVars => [Next]_vars
  BY StreamStepUsesQueue
<1> QED
  BY <1>1, <1>2, PTL DEF StreamSpec, Spec

\* Neither the downloader nor the processor of a stream sleeps past a change it
\* waits for.
THEOREM DownloaderMissesNothing == StreamSpec => []NoMissedAnnouncement
  BY DownloaderUsesQueue, AnnouncementsArrive, PTL

\* The payloads that wait in memory for a traditional stream are bounded.
THEOREM DownloaderThrottled == StreamSpec => []DownloadsThrottled
  BY DownloaderUsesQueue, ThrottlingWorks, PTL

\* What the downloader pushes reaches the processor in order, each one once.
THEOREM DownloaderFeedsPipe == StreamSpec => IsPipe
  BY DownloaderUsesQueue, QueueIsPipe, PTL

--------------------------------------------------------------------------------
(***************************************************************************)
(* The server.                                                             *)
(***************************************************************************)

\* The stream of the server is the one that MuxerStreamProofs is about.
LEMMA SameServer ==
    /\ Server!NoSegment = Facts!NoSegment
    /\ Server!InitialStream = Facts!InitialStream
    /\ \A st : Server!CreateFirstSegment(st, "done") = Facts!CreateFirstSegment(st, "done")
    /\ \A st : Server!RotateParts(st, TRUE, "done") = Facts!RotateParts(st, TRUE, "done")
    /\ \A st, exit : Server!RotateSegments(st, exit) = Facts!RotateSegments(st, exit)
<1>1. Server!NoSegment = Facts!NoSegment
  BY DEF Server!NoSegment, Facts!NoSegment
<1>2. \A st, createNew, exit : Server!RotateParts(st, createNew, exit) = Facts!RotateParts(st, createNew, exit)
  BY DEF Server!RotateParts, Facts!RotateParts, Server!LowLatency, Facts!LowLatency,
     Server!PartFails, Facts!PartFails, Server!PublishPart, Facts!PublishPart,
     Server!EndPart, Facts!EndPart, Server!NoPart, Facts!NoPart
<1>3. \A st : Server!CreateSegment(st) = Facts!CreateSegment(st)
  BY DEF Server!CreateSegment, Facts!CreateSegment, Server!NewSegment, Facts!NewSegment,
     Server!NoPart, Facts!NoPart
<1>4. \A st, segment : Server!AppendSegment(st, segment) = Facts!AppendSegment(st, segment)
  BY DEF Server!AppendSegment, Facts!AppendSegment, Server!LowLatency, Facts!LowLatency,
     Server!Gap, Facts!Gap
<1>5. \A st : Server!DeleteOldest(st) = Facts!DeleteOldest(st)
  BY DEF Server!DeleteOldest, Facts!DeleteOldest, Server!PartsOf, Facts!PartsOf
<1>6. \A st, exit : Server!RotateSegments(st, exit) = Facts!RotateSegments(st, exit)
  <2> TAKE st, exit
  <2> DEFINE finished == IF variant = "MPEGTS" THEN st ELSE Facts!RotateParts(st, FALSE, exit)
             taken == [finished EXCEPT !.nextSegmentID = @ + 1, !.nextSegment = Facts!NoSegment]
             shifted == Facts!DeleteOldest(Facts!AppendSegment(taken, finished.nextSegment))
             ready == [shifted EXCEPT !.initFilePresent = variant # "MPEGTS"]
  <2>1. Facts!RotateSegments(st, exit) =
            CASE Facts!PartFails(exit) -> finished
              [] exit = "segFinalize" -> taken
              [] exit = "initFile" -> shifted
              [] exit = "newFile" -> ready
              [] OTHER -> Facts!CreateSegment(ready)
    BY Zenon DEF Facts!RotateSegments
  <2> DEFINE f == IF variant = "MPEGTS" THEN st ELSE Server!RotateParts(st, FALSE, exit)
             t == [f EXCEPT !.nextSegmentID = @ + 1, !.nextSegment = Server!NoSegment]
             s == Server!DeleteOldest(Server!AppendSegment(t, f.nextSegment))
             r == [s EXCEPT !.initFilePresent = variant # "MPEGTS"]
  <2>2. Server!RotateSegments(st, exit) =
            CASE Server!PartFails(exit) -> f
              [] exit = "segFinalize" -> t
              [] exit = "initFile" -> s
              [] exit = "newFile" -> r
              [] OTHER -> Server!CreateSegment(r)
    BY Zenon DEF Server!RotateSegments
  <2>3. f = finished
    BY <1>2
  <2>4. t = taken
    BY <1>1, <2>3
  <2>5. s = shifted
    BY <1>4, <1>5, <2>3, <2>4, Zenon
  <2>6. r = ready /\ Server!CreateSegment(r) = Facts!CreateSegment(ready)
    BY <1>3, <2>5
  <2>7. Server!PartFails(exit) = Facts!PartFails(exit)
    BY DEF Server!PartFails, Facts!PartFails
  <2> HIDE DEF f, t, s, r, finished, taken, shifted, ready
  <2> QED
    BY <2>1, <2>2, <2>3, <2>4, <2>5, <2>6, <2>7
<1>7. \A st : Server!CreateFirstSegment(st, "done") = Facts!CreateFirstSegment(st, "done")
  BY <1>3 DEF Server!CreateFirstSegment, Facts!CreateFirstSegment
<1>8. Server!InitialStream = Facts!InitialStream
  BY <1>1 DEF Server!InitialStream, Facts!InitialStream, Server!LowLatency, Facts!LowLatency,
     Server!NoPart, Facts!NoPart
<1> QED
  BY <1>1, <1>2, <1>6, <1>7, <1>8

\* The last segments of a history are those of a window, ...
IsHistory(entries, history) ==
    /\ history \in Seq(Int)
    /\ Len(entries) <= Len(history)
    /\ history # << >> => entries # << >>
    /\ \A i \in 1..Len(entries) :
        history[Len(history) - Len(entries) + i] = IDOf(entries[i])

\* ... and the identifiers that it holds have been used.
Below(history, id) == \A j \in 1..Len(history) : history[j] < id

ServerInv ==
    /\ variant \in Variants /\ ended \in BOOLEAN
    /\ stream \in Facts!Stream /\ Facts!Followed(stream)
    /\ IsHistory(stream.segments, published)
    /\ Below(published, stream.nextSegmentID)

\* The segment of the history at j has number j - 1 + Offset in a playlist.
Offset == stream.segmentDeleteCount - (Len(published) - Len(stream.segments))

\* What a step of the server does to what has been read before it.
HistoryGrows ==
    /\ variant' = variant
    /\ Len(published) <= Len(published')
    /\ \A j \in 1..Len(published) : published'[j] = published[j]
    /\ published # << >> => Offset' = Offset /\ published' # << >>
    /\ Facts!Grows(stream, stream')
    /\ ended => ended' /\ published' = published

LEMMA HistoryBegins ==
    ASSUME NEW S, NEW entries \in Seq(S), entries # << >>,
           \A i \in 1..Len(entries) : IDOf(entries[i]) \in Int
    PROVE  LET history == [i \in 1..Len(entries) |-> IDOf(entries[i])]
           IN  IsHistory(entries, history) /\ Len(history) = Len(entries)
<1> DEFINE n == Len(entries)
           history == [i \in 1..n |-> IDOf(entries[i])]
<1>1. n \in Nat \ {0}
  BY EmptySeq
<1> HIDE DEF n
<1>2. history \in Seq(Int) /\ Len(history) = n /\ \A i \in 1..n : history[i] = IDOf(entries[i])
  BY <1>1 DEF n
<1> HIDE DEF history
<1>3. \A i \in 1..n : history[Len(history) - n + i] = IDOf(entries[i])
  BY <1>1, <1>2
<1>4. Len(entries) <= Len(history) /\ Len(history) = Len(entries)
  BY <1>1, <1>2 DEF n
<1>5. \A i \in 1..Len(entries) : history[Len(history) - Len(entries) + i] = IDOf(entries[i])
  BY <1>3 DEF n
<1>6. IsHistory(entries, history)
  BY <1>2, <1>4, <1>5 DEF IsHistory
<1> QED
  BY <1>4, <1>6 DEF history, n

LEMMA HistoryAppends ==
    ASSUME NEW S, NEW entries \in Seq(S), NEW added \in S, IDOf(added) \in Int,
           NEW history, IsHistory(entries, history)
    PROVE  LET longer == Append(history, IDOf(added))
           IN  /\ IsHistory(Append(entries, added), longer)
               /\ Len(longer) = Len(history) + 1
               /\ \A j \in 1..Len(history) : longer[j] = history[j]
               /\ longer[Len(history) + 1] = IDOf(added)
<1> DEFINE longer == Append(history, IDOf(added))
           window == Append(entries, added)
           W == Len(entries)
           P == Len(history)
<1>1. /\ history \in Seq(Int) /\ W <= P
      /\ \A i \in 1..W : history[P - W + i] = IDOf(entries[i])
  BY DEF IsHistory
<1>2. W \in Nat /\ P \in Nat
  BY <1>1
<1>3. /\ longer \in Seq(Int) /\ Len(longer) = P + 1
      /\ \A j \in 1..P : longer[j] = history[j]
      /\ longer[P + 1] = IDOf(added)
  BY <1>1
<1>4. /\ window \in Seq(S) /\ Len(window) = W + 1
      /\ \A i \in 1..W : window[i] = entries[i]
      /\ window[W + 1] = added
  OBVIOUS
<1> HIDE DEF longer, window, W, P
<1>5. \A i \in 1..Len(window) : longer[Len(longer) - Len(window) + i] = IDOf(window[i])
  <2> SUFFICES ASSUME NEW i \in 1..W + 1
               PROVE  longer[P - W + i] = IDOf(window[i])
    <3>1. Len(longer) - Len(window) = P - W /\ 1..Len(window) = 1..W + 1
      BY <1>2, <1>3, <1>4
    <3> QED
      BY <3>1
  <2>1. CASE i = W + 1
    <3>1. P - W + i = P + 1
      BY <1>2, <2>1
    <3> QED
      BY <1>3, <1>4, <2>1, <3>1
  <2>2. CASE i # W + 1
    <3>1. i \in 1..W /\ P - W + i \in 1..P
      BY <1>1, <1>2, <2>2
    <3> QED
      BY <1>1, <1>3, <1>4, <3>1
  <2> QED
    BY <2>1, <2>2
<1>6. Len(window) <= Len(longer) /\ window # << >>
  BY <1>1, <1>2, <1>3, <1>4
<1>7. IsHistory(window, longer)
  BY <1>3, <1>5, <1>6 DEF IsHistory
<1> QED
  BY <1>3, <1>7 DEF longer, window, P

LEMMA HistoryDrops ==
    ASSUME NEW S, NEW entries \in Seq(S), Len(entries) > 1,
           NEW history, IsHistory(entries, history)
    PROVE  IsHistory(Tail(entries), history) /\ Len(Tail(entries)) = Len(entries) - 1
<1> DEFINE window == Tail(entries)
           W == Len(entries)
           P == Len(history)
<1>1. /\ history \in Seq(Int) /\ W <= P
      /\ \A i \in 1..W : history[P - W + i] = IDOf(entries[i])
  BY DEF IsHistory
<1>2. W \in Nat /\ P \in Nat /\ W > 1 /\ entries # << >>
  BY <1>1
<1>3. /\ window \in Seq(S) /\ Len(window) = W - 1
      /\ \A i \in 1..W - 1 : window[i] = entries[i + 1]
  BY <1>2
<1> HIDE DEF window, W, P
<1>4. \A i \in 1..Len(window) : history[P - Len(window) + i] = IDOf(window[i])
  <2> SUFFICES ASSUME NEW i \in 1..W - 1
               PROVE  history[P - (W - 1) + i] = IDOf(window[i])
    BY <1>3
  <2>1. i + 1 \in 1..W /\ P - (W - 1) + i = P - W + (i + 1)
    BY <1>2
  <2> QED
    BY <1>1, <1>3, <2>1
<1>5. Len(window) <= P /\ window # << >>
  BY <1>1, <1>2, <1>3
<1>6. IsHistory(window, history)
  BY <1>1, <1>4, <1>5 DEF IsHistory, P
<1> QED
  BY <1>3, <1>6 DEF window, W

\* The assumptions of MuxerStreamProofs.
LEMMA ServerAssumed ==
    ASSUME variant \in Variants
    PROVE  /\ variant \in {"LL", "FMP4", "MPEGTS"}
           /\ GapCount \in Nat \ {0} /\ SegmentCount \in Nat
           /\ SegmentCount >= IF variant = "LL" THEN GapCount ELSE 3
  BY DownloaderAssumption

LEMMA InitServerInv == StreamInit => ServerInv
<1> SUFFICES ASSUME StreamInit PROVE ServerInv
  OBVIOUS
<1>1. published = << >> /\ ended = FALSE /\ variant \in Variants
  BY DEF StreamInit
<1>2. /\ variant \in {"LL", "FMP4", "MPEGTS"}
      /\ GapCount \in Nat \ {0} /\ SegmentCount \in Nat
      /\ SegmentCount >= IF variant = "LL" THEN GapCount ELSE 3
  BY <1>1, ServerAssumed
<1>3. stream \in Facts!Stream /\ Facts!Followed(stream)
  BY <1>2, SameServer, Facts!InitialFollowed DEF StreamInit
<1>4. stream.segments = << >>
  BY SameServer DEF StreamInit, Facts!InitialStream
<1>5. IsHistory(stream.segments, published) /\ Below(published, stream.nextSegmentID)
  BY <1>1, <1>4 DEF IsHistory, Below
<1> QED
  BY <1>1, <1>3, <1>5 DEF ServerInv

\* A segment enters the window as it enters the history.
LEMMA MovesKeepHistory ==
    ASSUME ServerInv, NEW new \in Facts!Stream, Facts!WindowMoves(stream, new)
    PROVE  LET history == IF published = << >> THEN Listed(new)
                          ELSE Append(published, stream.nextSegment.id)
           IN  /\ IsHistory(new.segments, history)
               /\ Below(history, new.nextSegmentID)
               /\ Len(published) <= Len(history)
               /\ \A j \in 1..Len(published) : history[j] = published[j]
               /\ published # << >> =>
                    new.segmentDeleteCount - (Len(history) - Len(new.segments)) = Offset
               /\ history # << >>
<1> DEFINE history == IF published = << >> THEN Listed(new)
                      ELSE Append(published, stream.nextSegment.id)
           S == Facts!Segment
<1>1. /\ stream.segments \in Seq(S) /\ stream.segmentDeleteCount \in Nat
      /\ stream.nextSegmentID \in Nat
      /\ new.segments \in Seq(S) /\ new.segmentDeleteCount \in Nat
  BY DEF ServerInv, Facts!Stream
<1>2. /\ GapCount \in Nat \ {0} /\ SegmentCount \in Nat
      /\ SegmentCount >= IF variant = "LL" THEN GapCount ELSE 3
  BY ServerAssumed DEF ServerInv
<1>3. PICK added \in S :
        /\ added.kind = "segment" /\ added.id = stream.nextSegmentID
        /\ stream.nextSegment.id = stream.nextSegmentID
        /\ new.nextSegmentID = stream.nextSegmentID + 1
        /\ LET longer == Append(Facts!Shown(stream), added)
           IN  \/ /\ new.segments = longer
                  /\ new.segmentDeleteCount = stream.segmentDeleteCount
               \/ /\ new.segments = Tail(longer) /\ Len(longer) > SegmentCount
                  /\ new.segmentDeleteCount = stream.segmentDeleteCount + 1
  BY DEF Facts!WindowMoves
<1> DEFINE shown == Facts!Shown(stream)
           longer == Append(shown, added)
<1>4. shown = IF variant = "LL" /\ stream.segments = << >>
              THEN [i \in 1..GapCount |-> Facts!Gap] ELSE stream.segments
  BY DEF Facts!Shown, Facts!LowLatency, Facts!Gaps
<1>5. shown \in Seq(S)
  <2>1. Facts!Gap \in S
    <3>1. << >> \in Seq(Nat)
      OBVIOUS
    <3> QED
      BY <3>1 DEF Facts!Gap, Facts!Segment
  <2> HIDE DEF S
  <2>2. [i \in 1..GapCount |-> Facts!Gap] \in Seq(S)
    BY <1>2, <2>1
  <2> QED
    BY <1>1, <1>4, <2>2
<1>6. IDOf(added) = stream.nextSegmentID /\ IDOf(Facts!Gap) = -1
  BY <1>3 DEF IDOf, NoID, Facts!Gap
<1> HIDE DEF S, shown
<1>7. /\ longer \in Seq(S) /\ Len(longer) = Len(shown) + 1 /\ Len(shown) \in Nat
      /\ \A i \in 1..Len(shown) : longer[i] = shown[i]
      /\ longer[Len(shown) + 1] = added
  BY <1>3, <1>5
<1> HIDE DEF longer
<1>8. \/ /\ new.segments = longer
         /\ new.segmentDeleteCount = stream.segmentDeleteCount
      \/ /\ new.segments = Tail(longer) /\ Len(longer) > 1
         /\ new.segmentDeleteCount = stream.segmentDeleteCount + 1
  <2>1. SegmentCount >= 1
    BY <1>2
  <2> QED
    BY <1>2, <1>3, <1>7, <2>1 DEF longer, shown
<1>9. /\ published \in Seq(Int) /\ IsHistory(stream.segments, published)
      /\ Len(stream.segments) <= Len(published)
      /\ published # << >> => stream.segments # << >>
      /\ \A j \in 1..Len(published) : published[j] < stream.nextSegmentID
  BY DEF ServerInv, IsHistory, Below
<1>10. CASE published = << >>
  <2>1. stream.segments = << >>
    BY <1>1, <1>9, <1>10
  <2>2. \A i \in 1..Len(longer) : IDOf(longer[i]) \in Int /\ IDOf(longer[i]) < new.nextSegmentID
    <3> SUFFICES ASSUME NEW i \in 1..Len(longer)
                 PROVE  IDOf(longer[i]) \in Int /\ IDOf(longer[i]) < new.nextSegmentID
      OBVIOUS
    <3>1. CASE i = Len(shown) + 1
      BY <1>1, <1>3, <1>6, <1>7, <3>1
    <3>2. CASE i # Len(shown) + 1
      <4>1. i \in 1..Len(shown) /\ longer[i] = shown[i]
        BY <1>7, <3>2
      <4>2. shown[i] = Facts!Gap
        BY <1>2, <1>4, <2>1, <4>1
      <4> QED
        BY <1>1, <1>3, <1>6, <4>1, <4>2
    <3> QED
      BY <3>1, <3>2
  <2>3. /\ new.segments # << >>
        /\ \A i \in 1..Len(new.segments) :
             IDOf(new.segments[i]) \in Int /\ IDOf(new.segments[i]) < new.nextSegmentID
    <3>1. CASE new.segments = longer
      BY <1>7, <2>2, <3>1
    <3>2. CASE new.segments = Tail(longer) /\ Len(longer) > 1
      <4>1. /\ Len(Tail(longer)) = Len(longer) - 1
            /\ \A i \in 1..Len(longer) - 1 : Tail(longer)[i] = longer[i + 1]
        BY <1>7, <3>2
      <4>2. \A i \in 1..Len(longer) - 1 : i + 1 \in 1..Len(longer)
        BY <1>7
      <4>3. Tail(longer) # << >>
        BY <1>7, <3>2, <4>1
      <4> QED
        BY <2>2, <3>2, <4>1, <4>2, <4>3
    <3> QED
      BY <1>8, <3>1, <3>2
  <2>4. history = [i \in 1..Len(new.segments) |-> IDOf(new.segments[i])]
    BY <1>10 DEF Listed
  <2> HIDE DEF history
  <2>5. IsHistory(new.segments, history) /\ Len(history) = Len(new.segments)
    BY <1>1, <2>3, <2>4, HistoryBegins
  <2>6. Below(history, new.nextSegmentID)
    BY <2>3, <2>4, <2>5 DEF Below
  <2>7. history # << >> /\ Len(published) <= Len(history)
    BY <1>1, <1>9, <1>10, <2>3, <2>5 DEF IsHistory
  <2> QED
    BY <1>10, <2>5, <2>6, <2>7 DEF history
<1>11. CASE published # << >>
  <2>1. shown = stream.segments
    BY <1>4, <1>9, <1>11
  <2>2. history = Append(published, IDOf(added))
    BY <1>3, <1>6, <1>11
  <2> HIDE DEF history
  <2>3. /\ IsHistory(longer, history)
        /\ Len(history) = Len(published) + 1
        /\ \A j \in 1..Len(published) : history[j] = published[j]
        /\ history[Len(published) + 1] = IDOf(added)
    BY <1>1, <1>3, <1>6, <1>9, <2>1, <2>2, HistoryAppends DEF longer
  <2>4. IsHistory(new.segments, history)
    BY <1>7, <1>8, <2>3, HistoryDrops
  <2>5. Len(published) \in Nat /\ Len(stream.segments) \in Nat
        /\ \A j \in 1..Len(published) : published[j] \in Int
    BY <1>1, <1>9
  <2>6. Below(history, new.nextSegmentID)
    <3> SUFFICES ASSUME NEW j \in 1..Len(published) + 1 PROVE history[j] < new.nextSegmentID
      BY <2>3 DEF Below
    <3>1. CASE j = Len(published) + 1
      BY <1>1, <1>3, <1>6, <2>3, <3>1
    <3>2. CASE j # Len(published) + 1
      <4>1. j \in 1..Len(published)
        BY <2>5, <3>2
      <4>2. /\ history[j] = published[j] /\ published[j] \in Int
            /\ published[j] < stream.nextSegmentID
        BY <1>9, <2>3, <2>5, <4>1
      <4>3. new.nextSegmentID = stream.nextSegmentID + 1 /\ stream.nextSegmentID \in Nat
        BY <1>1, <1>3
      <4> QED
        BY <4>2, <4>3
    <3> QED
      BY <3>1, <3>2
  <2>7. new.segmentDeleteCount - (Len(history) - Len(new.segments)) = Offset
    <3>1. CASE new.segments = longer /\ new.segmentDeleteCount = stream.segmentDeleteCount
      BY <1>1, <1>7, <2>1, <2>3, <2>5, <3>1 DEF Offset
    <3>2. CASE /\ new.segments = Tail(longer) /\ Len(longer) > 1
               /\ new.segmentDeleteCount = stream.segmentDeleteCount + 1
      <4>1. Len(Tail(longer)) = Len(longer) - 1
        BY <1>7, <3>2
      <4> QED
        BY <1>1, <1>7, <2>1, <2>3, <2>5, <3>2, <4>1, SMTT(30) DEF Offset
    <3> QED
      BY <1>8, <3>1, <3>2
  <2>8. history # << >> /\ Len(published) <= Len(history)
    BY <2>3, <2>4, <2>5 DEF IsHistory
  <2> QED
    BY <2>3, <2>4, <2>6, <2>7, <2>8 DEF history
<1> QED
  BY <1>10, <1>11

\* What Followed says does not change with the variant, which does not change.
LEMMA StillFollowed ==
    ASSUME variant' = variant, stream' \in Facts!Stream, Facts!Followed(stream')
    PROVE  (stream \in Facts!Stream /\ Facts!Followed(stream))'
  BY DEF Facts!Stream, Facts!Segment, Facts!Followed, Facts!PathsInv, Facts!FreshSegments,
     Facts!FreshParts, Facts!LowLatency, Facts!NoSegment, Facts!NoPart,
     Facts!PartsIn, Facts!SegmentsIn, Facts!PartsOf,
     Facts!DistinctSegments, Facts!DisjointParts

\* Nothing is listed.
LEMMA StaysKeepHistory ==
    ASSUME ServerInv, variant' = variant, ended' \in BOOLEAN, ended => ended', published' = published,
           stream' \in Facts!Stream, Facts!Followed(stream'), Facts!Grows(stream, stream'),
           Facts!WindowStays(stream, stream')
    PROVE  ServerInv' /\ HistoryGrows
<1>1. /\ stream'.segments = stream.segments
      /\ stream'.segmentDeleteCount = stream.segmentDeleteCount
      /\ stream'.nextSegmentID \in Nat /\ stream.nextSegmentID \in Nat
      /\ stream'.nextSegmentID >= stream.nextSegmentID
  BY DEF Facts!WindowStays, Facts!Grows, ServerInv, Facts!Stream
<1>2. published \in Seq(Int) /\ \A j \in 1..Len(published) : published[j] \in Int
  BY ElementOfSeq DEF ServerInv, IsHistory
<1>3. Below(published, stream'.nextSegmentID)
  BY <1>1, <1>2 DEF ServerInv, Below
<1>4. Len(published) \in Nat
  BY <1>2
<1>5. (stream \in Facts!Stream /\ Facts!Followed(stream))'
  BY StillFollowed
<1>6. IsHistory(stream'.segments, published') /\ Below(published', stream'.nextSegmentID)
  BY <1>1, <1>3 DEF ServerInv
<1>7. Offset' = Offset
  BY <1>1 DEF Offset
<1>8. ServerInv'
  BY <1>5, <1>6 DEF ServerInv
<1>9. HistoryGrows
  BY <1>4, <1>7 DEF HistoryGrows
<1> QED
  BY <1>8, <1>9

LEMMA NextServerInv ==
    ASSUME ServerInv, ServerNext
    PROVE  ServerInv' /\ HistoryGrows
<1>1. /\ variant \in {"LL", "FMP4", "MPEGTS"}
      /\ GapCount \in Nat \ {0} /\ SegmentCount \in Nat
      /\ SegmentCount >= IF variant = "LL" THEN GapCount ELSE 3
  BY ServerAssumed DEF ServerInv
<1>2. stream \in Facts!Stream /\ Facts!Followed(stream) /\ ended \in BOOLEAN
  BY DEF ServerInv
<1>3. CASE ServerBegins
  <2>1. /\ stream' = Facts!CreateFirstSegment(stream, "done")
        /\ stream.nextSegment = Facts!NoSegment
        /\ UNCHANGED << variant, published, ended >>
    BY <1>3, SameServer DEF ServerBegins
  <2>2. /\ stream' \in Facts!Stream /\ Facts!Followed(stream') /\ Facts!Grows(stream, stream')
        /\ Facts!WindowStays(stream, stream')
    BY <1>1, <1>2, <2>1, Facts!CreateSegmentFollowed
  <2> QED
    BY <1>2, <2>1, <2>2, StaysKeepHistory
<1>4. CASE ServerRotatesParts
  <2>1. /\ stream' = Facts!RotateParts(stream, TRUE, "done")
        /\ stream.nextSegment # Facts!NoSegment /\ variant # "MPEGTS"
        /\ UNCHANGED << variant, published, ended >>
    BY <1>4, SameServer DEF ServerRotatesParts
  <2>2. /\ stream' \in Facts!Stream /\ Facts!Followed(stream') /\ Facts!Grows(stream, stream')
        /\ Facts!WindowStays(stream, stream')
    BY <1>1, <1>2, <2>1, Facts!RotatePartsFollowed
  <2> QED
    BY <1>2, <2>1, <2>2, StaysKeepHistory
<1>5. CASE ServerRotatesSegments
  <2>1. PICK exit \in Server!SegmentExits(stream, IF variant = "LL" THEN {} ELSE Faults) :
        /\ stream' = Server!RotateSegments(stream, exit)
        /\ published' = IF exit = "segFinalize" THEN published
                        ELSE IF published = << >> THEN Listed(stream')
                        ELSE Append(published, stream.nextSegment.id)
    BY <1>5 DEF ServerRotatesSegments
  <2>2. /\ stream.nextSegment # Facts!NoSegment /\ ~ended
        /\ UNCHANGED << variant, ended >>
    BY <1>5, SameServer DEF ServerRotatesSegments, Publishing
  <2>3. stream' = Facts!RotateSegments(stream, exit)
    BY <2>1, SameServer
  <2>4. exit = "done" \/ (exit = "segFinalize" /\ variant = "MPEGTS")
    <3>1. Faults \subseteq {"segFinalize"}
      BY DownloaderAssumption
    <3>2. variant # "MPEGTS" => stream.nextPart # Server!NoPart
      BY <1>2, <2>2 DEF Facts!Followed, Facts!NoPart, Server!NoPart
    <3> QED
      BY <2>1, <3>1, <3>2 DEF Server!SegmentExits
  <2>5. CASE exit = "done"
    <3>1. /\ stream' \in Facts!Stream /\ Facts!Followed(stream') /\ Facts!Grows(stream, stream')
          /\ Facts!WindowMoves(stream, stream')
      BY <1>1, <1>2, <2>2, <2>3, <2>5, Facts!RotateSegmentsFollowed
    <3>2. published' = IF published = << >> THEN Listed(stream')
                       ELSE Append(published, stream.nextSegment.id)
      BY <2>1, <2>5
    <3>3. /\ IsHistory(stream'.segments, published')
          /\ Below(published', stream'.nextSegmentID)
          /\ Len(published) <= Len(published')
          /\ \A j \in 1..Len(published) : published'[j] = published[j]
          /\ published # << >> =>
               stream'.segmentDeleteCount - (Len(published') - Len(stream'.segments)) = Offset
          /\ published' # << >>
      BY <3>1, <3>2, MovesKeepHistory
    <3>4. (stream \in Facts!Stream /\ Facts!Followed(stream))'
      BY <2>2, <3>1, StillFollowed
    <3>5. ServerInv'
      BY <1>2, <2>2, <3>3, <3>4 DEF ServerInv
    <3>6. published # << >> => Offset' = Offset
      BY <3>3 DEF Offset
    <3>7. HistoryGrows
      BY <2>2, <3>1, <3>3, <3>6 DEF HistoryGrows
    <3> QED
      BY <3>5, <3>7
  <2>6. CASE exit = "segFinalize" /\ variant = "MPEGTS"
    <3>1. /\ stream' \in Facts!Stream /\ Facts!Followed(stream') /\ Facts!Grows(stream, stream')
          /\ Facts!WindowStays(stream, stream')
      BY <1>1, <1>2, <2>2, <2>3, <2>6, Facts!FailedRotationFollowed
    <3> QED
      BY <1>2, <2>1, <2>2, <2>6, <3>1, StaysKeepHistory
  <2> QED
    BY <2>4, <2>5, <2>6
<1>6. CASE ServerEnds
  <2>1. ended' = TRUE /\ UNCHANGED << variant, stream, published >>
    BY <1>6 DEF ServerEnds
  <2>2. /\ stream.nextSegmentID \in Nat /\ stream.nextPartID \in Nat
    BY <1>2 DEF Facts!Stream
  <2>3. Facts!Grows(stream, stream) /\ Facts!WindowStays(stream, stream)
    BY <2>2 DEF Facts!Grows, Facts!WindowStays
  <2> QED
    BY <1>2, <2>1, <2>3, StaysKeepHistory
<1> QED
  BY <1>3, <1>4, <1>5, <1>6 DEF ServerNext

--------------------------------------------------------------------------------
(***************************************************************************)
(* The downloader.                                                         *)
(***************************************************************************)

IsSeq(s) == s \in Seq({s[i] : i \in 1..Len(s)})

\* A playlist that has been read is an interval of the history, with the
\* numbers of its segments; its hint is at most the part to come.
PlaylistInv ==
    playlist # NoPlaylist =>
        LET n == Len(playlist.segments)
        IN  /\ published # << >>
            /\ playlist.count \in 1..Len(published) /\ n \in 1..playlist.count
            /\ \A i \in 1..n : playlist.segments[i].id = published[playlist.count - n + i]
            /\ playlist.mediaSequence \in Nat
            /\ playlist.mediaSequence = playlist.count - n + Offset
            /\ playlist.endlist \in BOOLEAN
            /\ playlist.endlist => ended /\ playlist.count = Len(published)
            /\ playlist.hint # NoID => variant = "LL" /\ playlist.hint \in 0..stream.nextPartID

\* The place in the history of the last segment that has been downloaded.
Position == (curSegmentID + 1) - Offset

\* It is the end of an interval of the history, which the playlist that has
\* been read since reaches.
TraditionalInv ==
    throttled =>
        IF curSegmentID = NoID
        THEN downloads = << >>
        ELSE /\ published # << >>
             /\ Position - Len(downloads) \in Nat
             /\ Follows(Position - Len(downloads))
             /\ playlist # NoPlaylist => Position <= playlist.count

LowLatencyInv ==
    ~throttled =>
        /\ \A i \in 1..Len(downloads) - 1 : downloads[i].asked < downloads[i + 1].asked
        /\ playlist # NoPlaylist /\ playlist.hint # NoID =>
            \A i \in 1..Len(downloads) : downloads[i].asked < playlist.hint

\* What has been asked for has been published, and will not be so again.
AskedInv ==
    \A i \in 1..Len(downloads) :
        /\ downloads[i].asked \in Int
        /\ downloads[i].asked < IF throttled THEN stream.nextSegmentID ELSE stream.nextPartID
        /\ Came(downloads[i])

StageInv ==
    /\ downloader = "start" => playlist = NoPlaylist /\ downloads = << >> /\ curSegmentID = NoID
    /\ downloader \notin {"start", "left"} => published # << >>
    /\ downloader # "left" => failure = "none" /\ pushed = Len(downloads)

DownloadInv ==
    /\ QueueInv /\ ServerInv
    /\ IsSeq(downloads) /\ curSegmentID \in Nat \union {NoID}
    /\ PlaylistInv /\ TraditionalInv /\ LowLatencyInv /\ AskedInv /\ StageInv
    /\ FailureIsTrue

LEMMA AppendAny ==
    ASSUME NEW s, IsSeq(s), NEW e
    PROVE  /\ IsSeq(Append(s, e))
           /\ Len(s) \in Nat /\ Len(Append(s, e)) = Len(s) + 1
           /\ \A i \in 1..Len(s) : Append(s, e)[i] = s[i]
           /\ Append(s, e)[Len(s) + 1] = e
<1> DEFINE S == {s[i] : i \in 1..Len(s)}
           T == S \union {e}
           t == Append(s, e)
<1>1. s \in Seq(S)
  BY DEF IsSeq
<1> HIDE DEF S
<1>2. s \in Seq(T)
  BY <1>1, SeqMonotonic
<1>3. e \in T
  OBVIOUS
<1> HIDE DEF T
<1>4. /\ t \in Seq(T) /\ Len(s) \in Nat /\ Len(t) = Len(s) + 1
      /\ \A i \in 1..Len(s) : t[i] = s[i]
      /\ t[Len(s) + 1] = e
  BY <1>2, <1>3
<1> HIDE DEF t
<1>5. t \in Seq({t[i] : i \in 1..Len(t)})
  <2>1. Len(t) \in Nat /\ t \in [1..Len(t) -> T]
    BY <1>4, LenProperties
  <2>2. t \in [1..Len(t) -> {t[i] : i \in 1..Len(t)}]
    BY <2>1
  <2> QED
    BY <2>1, <2>2, SeqDef
<1> QED
  BY <1>4, <1>5 DEF t, IsSeq

LEMMA InitDownloadInv == StreamInit => DownloadInv
<1> SUFFICES ASSUME StreamInit PROVE DownloadInv
  OBVIOUS
<1>1. /\ playlist = NoPlaylist /\ downloads = << >> /\ curSegmentID = NoID
      /\ failure = "none" /\ pushed = 0 /\ downloader = "start" /\ Init
  BY DEF StreamInit, Init
<1>2. Len(downloads) = 0
  BY <1>1
<1>3. IsSeq(downloads)
  <2>1. << >> \in Seq({downloads[i] : i \in 1..Len(downloads)})
    BY EmptySeq
  <2> QED
    BY <1>1, <2>1 DEF IsSeq
<1>4. PlaylistInv /\ TraditionalInv /\ LowLatencyInv /\ AskedInv
  BY <1>1, <1>2 DEF PlaylistInv, TraditionalInv, LowLatencyInv, AskedInv
<1>5. StageInv /\ FailureIsTrue
  BY <1>1, <1>2 DEF StageInv, FailureIsTrue
<1>6. QueueInv /\ ServerInv
  BY <1>1, InitQueueInv, InitServerInv
<1> QED
  BY <1>1, <1>3, <1>4, <1>5, <1>6 DEF DownloadInv

\* What has come stays true of a server that goes on.
LEMMA CameForGood ==
    ASSUME ServerInv, ServerInv', Facts!Grows(stream, stream'), throttled' = throttled,
           downloads' = downloads, AskedInv
    PROVE  AskedInv'
<1>1. /\ stream.nextSegmentID \in Nat /\ stream.nextPartID \in Nat
      /\ stream'.nextSegmentID \in Nat /\ stream'.nextPartID \in Nat
      /\ stream'.nextSegmentID >= stream.nextSegmentID /\ stream'.nextPartID >= stream.nextPartID
      /\ \A id \in stream'.segPaths : id \in stream.segPaths \/ id >= stream.nextSegmentID
      /\ \A id \in stream'.partPaths : id \in stream.partPaths \/ id >= stream.nextPartID
  BY DEF ServerInv, Facts!Stream, Facts!Grows
<1> SUFFICES ASSUME NEW i \in 1..Len(downloads)
             PROVE  /\ downloads[i].asked < IF throttled THEN stream'.nextSegmentID
                                                         ELSE stream'.nextPartID
                    /\ Came(downloads[i])'
  BY DEF AskedInv
<1> DEFINE d == downloads[i]
<1>2. /\ d.asked \in Int
      /\ d.asked < IF throttled THEN stream.nextSegmentID ELSE stream.nextPartID
      /\ Came(d)
  BY DEF AskedInv
<1>3. d' = d
  OBVIOUS
<1> HIDE DEF d
<1>4. /\ throttled => d.asked < stream'.nextSegmentID /\ ~(d.asked >= stream.nextSegmentID)
      /\ ~throttled => d.asked < stream'.nextPartID /\ ~(d.asked >= stream.nextPartID)
  BY <1>1, <1>2
<1>5. Came(d)'
  BY <1>1, <1>2, <1>3, <1>4 DEF Came
<1> QED
  BY <1>4, <1>5 DEF d

\* A server that goes on takes nothing back of what has been read.
LEMMA ServerKeepsDownloads ==
    ASSUME DownloadInv, ServerInv', HistoryGrows, downloader # "left",
           UNCHANGED << vars, clientVars >>
    PROVE  DownloadInv'
<1>1. /\ UNCHANGED << queue, didPush, didPull, downloader, throttled, pullCopy, processor,
                      pushCopy, pushed, last, cancelled >>
      /\ UNCHANGED << playlist, vod, curSegmentID, downloads, failure >>
  BY DEF vars, clientVars
<1>2. /\ variant' = variant
      /\ published \in Seq(Int) /\ published' \in Seq(Int)
      /\ Len(published) <= Len(published')
      /\ \A j \in 1..Len(published) : published'[j] = published[j]
      /\ published # << >> => Offset' = Offset /\ published' # << >>
      /\ ended => ended' /\ published' = published
      /\ stream.nextPartID \in Nat /\ stream'.nextPartID \in Nat
      /\ stream'.nextPartID >= stream.nextPartID
  BY DEF HistoryGrows, DownloadInv, ServerInv, IsHistory, Facts!Grows, Facts!Stream
<1>3. Len(published) \in Nat /\ Len(published') \in Nat
  BY <1>2
<1>4. PlaylistInv'
  <2> SUFFICES ASSUME playlist # NoPlaylist PROVE PlaylistInv'
    BY <1>1 DEF PlaylistInv
  <2> DEFINE n == Len(playlist.segments)
  <2>1. /\ published # << >>
        /\ playlist.count \in 1..Len(published) /\ n \in 1..playlist.count
        /\ \A i \in 1..n : playlist.segments[i].id = published[playlist.count - n + i]
        /\ playlist.mediaSequence \in Nat
        /\ playlist.mediaSequence = playlist.count - n + Offset
        /\ playlist.endlist \in BOOLEAN
        /\ playlist.endlist => ended /\ playlist.count = Len(published)
        /\ playlist.hint # NoID => variant = "LL" /\ playlist.hint \in 0..stream.nextPartID
    BY DEF DownloadInv, PlaylistInv
  <2>2. playlist.count \in 1..Len(published')
    BY <1>2, <1>3, <2>1
  <2>3. \A i \in 1..n : playlist.segments[i].id = published'[playlist.count - n + i]
    <3> SUFFICES ASSUME NEW i \in 1..n
                 PROVE  playlist.segments[i].id = published'[playlist.count - n + i]
      OBVIOUS
    <3> HIDE DEF n
    <3>1. playlist.count - n + i \in 1..Len(published)
      BY <1>3, <2>1
    <3> QED
      BY <1>2, <2>1, <3>1
  <2>4. playlist.endlist => ended' /\ playlist.count = Len(published')
    BY <1>2, <2>1
  <2>5. playlist.hint # NoID => variant' = "LL" /\ playlist.hint \in 0..stream'.nextPartID
    BY <1>2, <2>1, SMTT(30)
  <2> QED
    BY <1>1, <1>2, <2>1, <2>2, <2>3, <2>4, <2>5 DEF PlaylistInv
<1>5. \A k \in Nat : Follows(k) => Follows(k)'
  <2> SUFFICES ASSUME NEW k \in Nat, Follows(k) PROVE Follows(k)'
    OBVIOUS
  <2>1. Len(downloads) \in Nat
    BY DEF DownloadInv, IsSeq
  <2>2. /\ k + Len(downloads) <= Len(published)
        /\ \A i \in 1..Len(downloads) : published[k + i] = downloads[i].asked
    BY DEF Follows
  <2>3. \A i \in 1..Len(downloads) : k + i \in 1..Len(published)
    BY <1>3, <2>1, <2>2
  <2>4. \A i \in 1..Len(downloads) : published'[k + i] = downloads[i].asked
    BY <1>2, <2>2, <2>3
  <2>5. k + Len(downloads) <= Len(published')
    BY <1>2, <1>3, <2>1, <2>2
  <2> QED
    BY <1>1, <2>4, <2>5 DEF Follows
<1>6. TraditionalInv'
  <2> SUFFICES ASSUME throttled, curSegmentID # NoID PROVE TraditionalInv'
    BY <1>1 DEF DownloadInv, TraditionalInv
  <2>1. /\ published # << >>
        /\ Position - Len(downloads) \in Nat
        /\ Follows(Position - Len(downloads))
        /\ playlist # NoPlaylist => Position <= playlist.count
    BY DEF DownloadInv, TraditionalInv
  <2>2. Position' = Position
    BY <1>1, <1>2, <2>1 DEF Position
  <2>3. (Position - Len(downloads))' = Position - Len(downloads)
    BY <1>1, <2>2
  <2>4. Follows(Position - Len(downloads))'
    <3> DEFINE k == Position - Len(downloads)
    <3>1. k \in Nat /\ Follows(k) /\ k' = k
      BY <2>1, <2>3
    <3> HIDE DEF k
    <3>2. Follows(k)'
      BY <1>5, <3>1 DEF Follows
    <3> QED
      BY <3>2 DEF k
  <2> QED
    BY <1>1, <1>2, <2>1, <2>2, <2>3, <2>4 DEF TraditionalInv
<1>7. LowLatencyInv'
  BY <1>1 DEF DownloadInv, LowLatencyInv
<1>8. AskedInv'
  BY <1>1, CameForGood DEF DownloadInv, HistoryGrows
<1>9. StageInv'
  BY <1>1, <1>2 DEF DownloadInv, StageInv
<1>10. QueueInv'
  BY NextQueueInv DEF DownloadInv
<1>11. FailureIsTrue'
  BY <1>1 DEF DownloadInv, StageInv, FailureIsTrue
<1> QED
  BY <1>1, <1>4, <1>6, <1>7, <1>8, <1>9, <1>10, <1>11 DEF DownloadInv, IsSeq

\* A step of the client leaves the server alone, ...
LEMMA ServerUnchanged ==
    ASSUME DownloadInv, UNCHANGED serverVars
    PROVE  /\ ServerInv' /\ Offset' = Offset
           /\ variant' = variant /\ stream' = stream /\ published' = published /\ ended' = ended
           /\ published \in Seq(Int) /\ Len(published) \in Nat
<1>1. UNCHANGED << variant, stream, published, ended >>
  BY DEF serverVars
<1>2. (stream \in Facts!Stream /\ Facts!Followed(stream))'
  BY <1>1, StillFollowed DEF DownloadInv, ServerInv
<1>3. ServerInv'
  BY <1>1, <1>2 DEF DownloadInv, ServerInv
<1>4. Offset' = Offset
  BY <1>1 DEF Offset
<1>5. published \in Seq(Int) /\ Len(published) \in Nat
  BY DEF DownloadInv, ServerInv, IsHistory
<1> QED
  BY <1>1, <1>3, <1>4, <1>5

\* ... and most of them what has been downloaded.
LEMMA SameDownloads ==
    ASSUME DownloadInv, UNCHANGED serverVars, downloads' = downloads, curSegmentID' = curSegmentID,
           throttled' = throttled, playlist' \in {playlist, NoPlaylist}
    PROVE  /\ IsSeq(downloads') /\ curSegmentID' \in Nat \union {NoID}
           /\ PlaylistInv' /\ TraditionalInv' /\ LowLatencyInv' /\ AskedInv'
           /\ \A k \in Nat : Follows(k)' <=> Follows(k)
<1>1. /\ Offset' = Offset
      /\ variant' = variant /\ stream' = stream /\ published' = published /\ ended' = ended
  BY ServerUnchanged
<1>2. PlaylistInv'
  <2>1. CASE playlist' = NoPlaylist
    BY <2>1 DEF PlaylistInv
  <2>2. CASE playlist' = playlist
    BY <1>1, <2>2 DEF DownloadInv, PlaylistInv
  <2> QED
    BY <2>1, <2>2
<1>4. Position' = Position
  BY <1>1 DEF Position
<1>5. TraditionalInv'
  BY <1>1, <1>4 DEF DownloadInv, TraditionalInv, Follows
<1>6. LowLatencyInv'
  BY DEF DownloadInv, LowLatencyInv
<1>7. AskedInv'
  BY <1>1 DEF DownloadInv, AskedInv, Came
<1>8. \A k \in Nat : Follows(k)' <=> Follows(k)
  BY <1>1 DEF Follows
<1> QED
  BY <1>2, <1>5, <1>6, <1>7, <1>8 DEF DownloadInv, IsSeq

\* generateMediaPlaylist shows the window.
LEMMA Reads ==
    ASSUME DownloadInv, published # << >>, UNCHANGED serverVars, playlist' = GeneratePlaylist
    PROVE  PlaylistInv' /\ playlist'.count = Len(published) /\ playlist'.hint = GeneratePlaylist.hint
<1> DEFINE W == Len(stream.segments)
<1>1. /\ Offset' = Offset
      /\ variant' = variant /\ stream' = stream /\ published' = published /\ ended' = ended
      /\ Len(published) \in Nat
  BY ServerUnchanged
<1>2. /\ W \in Nat \ {0} /\ W <= Len(published)
      /\ \A i \in 1..W : published[Len(published) - W + i] = IDOf(stream.segments[i])
      /\ stream.segmentDeleteCount \in Nat /\ stream.nextPartID \in Nat
      /\ ended \in BOOLEAN
  BY DEF DownloadInv, ServerInv, IsHistory, Facts!Stream
<1> DEFINE entries == [i \in 1..W |-> Entry(stream.segments[i])]
<1>3. /\ playlist'.mediaSequence = stream.segmentDeleteCount
      /\ playlist'.segments = entries
      /\ playlist'.hint = IF variant = "LL" /\ ~ended THEN stream.nextPartID ELSE NoID
      /\ playlist'.endlist = ended
      /\ playlist'.count = Len(published)
  BY DEF GeneratePlaylist
<1> HIDE DEF W
<1>4. Len(entries) = W /\ \A i \in 1..W : entries[i].id = IDOf(stream.segments[i])
  <2>1. \A i \in 1..W : entries[i] = Entry(stream.segments[i])
    OBVIOUS
  <2>2. Len(entries) = W
    BY <1>2
  <2> HIDE DEF entries
  <2> QED
    BY <2>1, <2>2 DEF Entry
<1> HIDE DEF entries
<1>5. stream.segmentDeleteCount = Len(published) - W + Offset
  BY <1>1, <1>2 DEF Offset, W
<1>6. Len(published) \in 1..Len(published) /\ W \in 1..Len(published)
  BY <1>1, <1>2
<1>7. PlaylistInv'
  BY <1>1, <1>2, <1>3, <1>4, <1>5, <1>6, SMTT(30) DEF PlaylistInv
<1> QED
  BY <1>3, <1>7

LEMMA ReadFirstKeeps ==
    ASSUME DownloadInv, ReadFirstPlaylist
    PROVE  DownloadInv'
<1>1. /\ StartDownloads /\ Server!hasContent(stream) /\ playlist' = GeneratePlaylist
      /\ UNCHANGED serverVars /\ UNCHANGED << curSegmentID, downloads, failure >>
      /\ downloader = "start" /\ downloader' = "push" /\ pushed' = pushed
  BY DEF ReadFirstPlaylist, StartDownloads
<1>2. downloads = << >> /\ curSegmentID = NoID /\ failure = "none" /\ pushed = Len(downloads)
  BY <1>1 DEF DownloadInv, StageInv
<1>3. published # << >> /\ published' = published
  <2>1. Len(stream.segments) >= 1
    BY <1>1 DEF Server!hasContent, DownloadInv, ServerInv, Facts!Stream
  <2>2. Len(published) # 0
    BY <1>1, <2>1 DEF DownloadInv, ServerInv, IsHistory, Facts!Stream
  <2> QED
    BY <1>1, <2>2, ServerUnchanged
<1>4. ServerInv'
  BY <1>1, ServerUnchanged
<1>5. PlaylistInv'
  BY <1>1, <1>3, Reads
<1>6. Len(downloads') = 0
  BY <1>1, <1>2
<1>7. TraditionalInv' /\ LowLatencyInv' /\ AskedInv'
  BY <1>1, <1>2, <1>6 DEF TraditionalInv, LowLatencyInv, AskedInv
<1>8. StageInv' /\ FailureIsTrue'
  BY <1>1, <1>2, <1>3 DEF StageInv, FailureIsTrue
<1>9. QueueInv'
  BY StreamStepUsesQueue, NextQueueInv DEF DownloadInv, StreamNext
<1> QED
  BY <1>1, <1>4, <1>5, <1>7, <1>8, <1>9 DEF DownloadInv, IsSeq

LEMMA ReadKeeps ==
    ASSUME DownloadInv, ReadPlaylist
    PROVE  DownloadInv'
<1>1. /\ downloader = "push" /\ playlist = NoPlaylist /\ playlist' = GeneratePlaylist
      /\ UNCHANGED serverVars /\ UNCHANGED << curSegmentID, downloads, failure >>
      /\ downloader' = downloader /\ pushed' = pushed /\ throttled' = throttled
  BY DEF ReadPlaylist, vars
<1>2. published # << >> /\ failure = "none" /\ pushed = Len(downloads)
  BY <1>1 DEF DownloadInv, StageInv
<1>3. /\ ServerInv' /\ Offset' = Offset /\ stream' = stream /\ published' = published
      /\ Len(published) \in Nat
  BY <1>1, ServerUnchanged
<1>4. PlaylistInv' /\ playlist'.count = Len(published)
      /\ playlist'.hint \in {NoID, stream.nextPartID}
  <2>1. GeneratePlaylist.hint \in {NoID, stream.nextPartID}
    BY DEF GeneratePlaylist
  <2> QED
    BY <1>1, <1>2, <2>1, Reads
<1>5. TraditionalInv'
  <2> SUFFICES ASSUME throttled, curSegmentID # NoID PROVE TraditionalInv'
    BY <1>1 DEF DownloadInv, TraditionalInv
  <2>1. Position - Len(downloads) \in Nat /\ Follows(Position - Len(downloads))
    BY DEF DownloadInv, TraditionalInv
  <2>2. Position' = Position
    BY <1>1, <1>3 DEF Position
  <2>3. Position <= Len(published)
    <3>1. Len(downloads) \in Nat /\ Position \in Int
      BY DEF DownloadInv, IsSeq, Position, Offset, ServerInv, IsHistory, Facts!Stream, NoID
    <3> QED
      BY <1>3, <2>1, <3>1 DEF Follows
  <2>4. Follows(Position - Len(downloads))'
    BY <1>1, <1>3, <2>1, <2>2 DEF Follows
  <2> QED
    BY <1>1, <1>2, <1>3, <1>4, <2>1, <2>2, <2>3, <2>4 DEF TraditionalInv
<1>6. LowLatencyInv'
  BY <1>1, <1>4 DEF DownloadInv, LowLatencyInv, AskedInv
<1>7. AskedInv'
  BY <1>1, <1>3 DEF DownloadInv, AskedInv, Came
<1>8. StageInv' /\ FailureIsTrue'
  BY <1>1, <1>2, <1>3 DEF StageInv, FailureIsTrue
<1>9. QueueInv'
  BY StreamStepUsesQueue, NextQueueInv DEF DownloadInv, StreamNext, Downloads
<1> QED
  BY <1>1, <1>3, <1>4, <1>5, <1>6, <1>7, <1>8, <1>9 DEF DownloadInv, IsSeq

LEMMA SegmentWithID ==
    ASSUME NEW id
    PROVE  findSegmentWithID(id) = IF id - playlist.mediaSequence \in 0..Len(playlist.segments) - 1
                                   THEN id - playlist.mediaSequence + 1 ELSE 0
  BY DEF findSegmentWithID

\* downloadNextSegment looks for its segment in the playlist, by its number when
\* there is one before it.
LEMMA NextPlace ==
    ASSUME DownloadInv, playlist # NoPlaylist
    PROVE  LET n == Len(playlist.segments)
               place == playlist.count - n + NextPosition
           IN  /\ n \in Nat \ {0} /\ playlist.count \in Nat /\ Offset \in Int
               /\ playlist.mediaSequence \in Nat
               /\ playlist.mediaSequence = playlist.count - n + Offset
               /\ NextPosition \in 0..n
               /\ NextPosition # 0 =>
                    /\ place \in 1..playlist.count
                    /\ playlist.segments[NextPosition].id = published[place]
                    /\ curSegmentID # NoID => place = Position + 1
               /\ NextPosition = 0 /\ curSegmentID # NoID =>
                    Position + 1 <= playlist.count - n \/ Position >= playlist.count
<1> DEFINE n == Len(playlist.segments)
           place == playlist.count - n + NextPosition
<1>1. /\ playlist.count \in 1..Len(published) /\ n \in 1..playlist.count
      /\ \A i \in 1..n : playlist.segments[i].id = published[playlist.count - n + i]
      /\ playlist.mediaSequence \in Nat
      /\ playlist.mediaSequence = playlist.count - n + Offset
  BY DEF DownloadInv, PlaylistInv
<1>2. Offset \in Int /\ Len(published) \in Nat
  BY DEF Offset, DownloadInv, ServerInv, IsHistory, Facts!Stream
<1>3. playlist.count \in Nat /\ n \in Nat \ {0} /\ n <= playlist.count
  BY <1>1, <1>2
<1>4. StartDistance \in Nat \ {0} /\ curSegmentID \in Nat \union {NoID} /\ NoID = -1
  BY DownloaderAssumption DEF DownloadInv, NoID
<1> DEFINE at == (curSegmentID + 1) - playlist.mediaSequence
<1>5. /\ curSegmentID = NoID => NextPosition \in 0..n
      /\ curSegmentID # NoID =>
            NextPosition = IF at \in 0..n - 1 THEN at + 1 ELSE 0
  <2>1. CASE curSegmentID # NoID
    <3>1. NextPosition = findSegmentWithID(curSegmentID + 1)
      BY <2>1 DEF NextPosition
    <3>2. findSegmentWithID(curSegmentID + 1) = IF at \in 0..n - 1 THEN at + 1 ELSE 0
      BY SegmentWithID
    <3> QED
      BY <2>1, <3>1, <3>2
  <2>2. CASE curSegmentID = NoID /\ vod
    BY <1>3, <2>2 DEF NextPosition
  <2>3. CASE curSegmentID = NoID /\ ~vod
    <3>1. NextPosition = IF n < StartDistance THEN 0 ELSE n - StartDistance + 1
      BY <2>3 DEF NextPosition, findSegmentWithInvPosition
    <3> QED
      BY <1>3, <1>4, <2>3, <3>1
  <2> QED
    BY <2>1, <2>2, <2>3
<1>6. curSegmentID # NoID =>
        /\ Position = (curSegmentID + 1) - Offset
        /\ at = Position - (playlist.count - n)
        /\ Position \in Int /\ at \in Int
  <2> SUFFICES ASSUME curSegmentID # NoID
               PROVE  /\ Position = (curSegmentID + 1) - Offset
                      /\ at = Position - (playlist.count - n)
                      /\ Position \in Int /\ at \in Int
    OBVIOUS
  <2>1. curSegmentID \in Nat /\ Position = (curSegmentID + 1) - Offset
    BY <1>4 DEF Position
  <2>2. at = (curSegmentID + 1) - (playlist.count - n + Offset)
    BY <1>1
  <2> HIDE DEF at, n
  <2> QED
    BY <1>2, <1>3, <2>1, <2>2
<1> HIDE DEF n, at
<1>7. NextPosition \in 0..n
  BY <1>3, <1>5, <1>6
<1>8. ASSUME NextPosition # 0
      PROVE  /\ place \in 1..playlist.count
             /\ playlist.segments[NextPosition].id = published[place]
             /\ curSegmentID # NoID => place = Position + 1
  <2>1. NextPosition \in 1..n
    BY <1>3, <1>7, <1>8
  <2>2. place \in 1..playlist.count
    BY <1>3, <2>1
  <2>3. curSegmentID # NoID => place = Position + 1
    BY <1>3, <1>5, <1>6, <1>8
  <2> QED
    BY <1>1, <2>1, <2>2, <2>3
<1>9. ASSUME NextPosition = 0, curSegmentID # NoID
      PROVE  Position + 1 <= playlist.count - n \/ Position >= playlist.count
  <2>1. at \notin 0..n - 1
    BY <1>3, <1>5, <1>6, <1>9
  <2> QED
    BY <1>3, <1>6, <1>9, <2>1
<1> QED
  BY <1>1, <1>2, <1>3, <1>7, <1>8, <1>9 DEF n

\* What has come is what was asked for, or it is not among the paths any more.
CameFrom(download, paths) ==
    download.got = download.asked \/ (download.got = NoID /\ download.asked \notin paths)

LEMMA DownloadSegmentKeeps ==
    ASSUME DownloadInv, DownloadSegment
    PROVE  DownloadInv'
<1> DEFINE n == Len(playlist.segments)
           place == playlist.count - n + NextPosition
           entry == playlist.segments[NextPosition]
           new == [asked |-> entry.id, got |-> SegmentPayload(entry.id), date |-> entry.date]
<1>1. /\ downloader = "push" /\ playlist # NoPlaylist /\ throttled /\ NextPosition # 0
      /\ PushSegment
      /\ downloads' = Append(downloads, new)
      /\ curSegmentID' = playlist.mediaSequence + NextPosition - 1
      /\ playlist' = NoPlaylist
      /\ UNCHANGED serverVars /\ failure' = failure
  BY DEF DownloadSegment, Downloading
<1>2. throttled' = throttled /\ pushed' = pushed + 1 /\ downloader' = "check"
  BY <1>1 DEF PushSegment, push
<1>3. /\ ServerInv' /\ Offset' = Offset /\ stream' = stream /\ published' = published
      /\ published \in Seq(Int) /\ Len(published) \in Nat
  BY <1>1, ServerUnchanged
<1>4. /\ n \in Nat \ {0} /\ playlist.count \in Nat /\ Offset \in Int
      /\ playlist.mediaSequence \in Nat
      /\ playlist.mediaSequence = playlist.count - n + Offset
      /\ NextPosition \in 1..n
      /\ place \in 1..playlist.count
      /\ entry.id = published[place]
      /\ curSegmentID # NoID => place = Position + 1
  BY <1>1, NextPlace
<1>5. published # << >> /\ playlist.count <= Len(published)
  BY <1>1 DEF DownloadInv, PlaylistInv
<1>6. /\ new.asked = published[place] /\ new.asked \in Int
      /\ new.asked < stream.nextSegmentID
      /\ CameFrom(new, stream.segPaths)
  <2>1. place \in 1..Len(published)
    BY <1>3, <1>4, <1>5
  <2>2. published[place] \in Int /\ published[place] < stream.nextSegmentID
    BY <1>3, <2>1 DEF DownloadInv, ServerInv, Below
  <2>3. CameFrom(new, stream.segPaths)
    BY DEF CameFrom, SegmentPayload
  <2> QED
    BY <1>4, <2>2, <2>3
<1>7. /\ IsSeq(downloads') /\ Len(downloads) \in Nat /\ Len(downloads') = Len(downloads) + 1
      /\ \A i \in 1..Len(downloads) : downloads'[i] = downloads[i]
      /\ downloads'[Len(downloads) + 1] = new
  BY <1>1, AppendAny DEF DownloadInv
<1> HIDE DEF new, entry, place, n
<1>9. AskedInv'
  <2> SUFFICES ASSUME NEW i \in 1..Len(downloads) + 1
               PROVE  /\ downloads'[i].asked \in Int
                      /\ downloads'[i].asked < stream.nextSegmentID
                      /\ CameFrom(downloads'[i], stream.segPaths)
    BY <1>1, <1>2, <1>3, <1>7 DEF AskedInv, Came, CameFrom
  <2>1. CASE i = Len(downloads) + 1
    BY <1>6, <1>7, <2>1
  <2>2. CASE i # Len(downloads) + 1
    <3>1. i \in 1..Len(downloads) /\ downloads'[i] = downloads[i]
      BY <1>7, <2>2
    <3> QED
      BY <1>1, <3>1 DEF DownloadInv, AskedInv, Came, CameFrom
  <2> QED
    BY <2>1, <2>2
<1>10. curSegmentID' \in Nat /\ curSegmentID' # NoID /\ Position' = place
  <2>1. curSegmentID' = playlist.count - n + Offset + NextPosition - 1
    BY <1>1, <1>4
  <2>2. curSegmentID' \in Nat
    BY <1>1, <1>4
  <2>3. Position' = (curSegmentID' + 1) - Offset
    BY <1>3 DEF Position
  <2> QED
    BY <1>4, <2>1, <2>2, <2>3 DEF place, NoID
<1> DEFINE k == place - (Len(downloads) + 1)
<1>11. k \in Nat /\ \A i \in 1..Len(downloads) : published[k + i] = downloads[i].asked
  <2>1. CASE curSegmentID = NoID
    <3>1. Len(downloads) = 0
      BY <1>1, <2>1 DEF DownloadInv, TraditionalInv
    <3> QED
      BY <1>4, <3>1
  <2>2. CASE curSegmentID # NoID
    <3>1. Position - Len(downloads) \in Nat /\ Follows(Position - Len(downloads))
      BY <1>1, <2>2 DEF DownloadInv, TraditionalInv
    <3>2. Position \in Int
      BY <1>4, <2>2 DEF DownloadInv, Position
    <3>3. k = Position - Len(downloads)
      BY <1>4, <1>7, <2>2, <3>2
    <3> HIDE DEF k
    <3> QED
      BY <3>1, <3>3 DEF Follows
  <2> QED
    BY <2>1, <2>2
<1>12. (Position - Len(downloads))' = k
  BY <1>7, <1>10
<1>13. /\ k + (Len(downloads) + 1) = place /\ place <= Len(published)
       /\ k + (Len(downloads) + 1) <= Len(published)
  BY <1>3, <1>4, <1>5, <1>7, SMTT(30)
<1> HIDE DEF k
<1>14. \A i \in 1..Len(downloads) + 1 : published[k + i] = downloads'[i].asked
  <2> SUFFICES ASSUME NEW i \in 1..Len(downloads) + 1
               PROVE  published[k + i] = downloads'[i].asked
    OBVIOUS
  <2>1. CASE i = Len(downloads) + 1
    BY <1>6, <1>7, <1>13, <2>1
  <2>2. CASE i # Len(downloads) + 1
    <3>1. i \in 1..Len(downloads)
      BY <1>7, <2>2
    <3> QED
      BY <1>7, <1>11, <3>1
  <2> QED
    BY <2>1, <2>2
<1>15. Follows(Position - Len(downloads))'
  BY <1>3, <1>7, <1>12, <1>13, <1>14 DEF Follows
<1>16. TraditionalInv' /\ LowLatencyInv' /\ PlaylistInv'
  BY <1>1, <1>2, <1>3, <1>5, <1>10, <1>11, <1>12, <1>15
     DEF TraditionalInv, LowLatencyInv, PlaylistInv
<1>17. StageInv' /\ FailureIsTrue'
  BY <1>1, <1>2, <1>3, <1>5, <1>7 DEF DownloadInv, StageInv, FailureIsTrue
<1>18. QueueInv'
  BY StreamStepUsesQueue, NextQueueInv DEF DownloadInv, StreamNext, Downloads
<1> QED
  BY <1>3, <1>7, <1>9, <1>10, <1>16, <1>17, <1>18 DEF DownloadInv

LEMMA DownloadHintKeeps ==
    ASSUME DownloadInv, DownloadHint
    PROVE  DownloadInv'
<1> DEFINE hint == playlist.hint
           new == [asked |-> hint, got |-> PartPayload(hint), date |-> dateTimeOfPreloadHint]
<1>1. /\ downloader = "push" /\ playlist # NoPlaylist /\ ~throttled /\ hint # NoID
      /\ hint \notin stream.hintPaths
      /\ PushSegment
      /\ downloads' = Append(downloads, new)
      /\ curSegmentID' = curSegmentID /\ playlist' = NoPlaylist
      /\ UNCHANGED serverVars /\ failure' = failure
  BY DEF DownloadHint, Downloading, HintAnswered
<1>2. throttled' = throttled /\ pushed' = pushed + 1 /\ downloader' = "push"
  BY <1>1 DEF PushSegment, push
<1>3. /\ ServerInv' /\ stream' = stream /\ published' = published
      /\ Len(published) \in Nat
  BY <1>1, ServerUnchanged
<1>4. /\ published # << >> /\ variant = "LL" /\ hint \in 0..stream.nextPartID
      /\ \A i \in 1..Len(downloads) : downloads[i].asked < hint
  BY <1>1 DEF DownloadInv, PlaylistInv, LowLatencyInv
<1>5. stream.nextPartID \in Nat /\ hint \in Nat /\ hint < stream.nextPartID
  <2>1. stream \in Facts!Stream /\ Facts!Followed(stream) /\ stream.segments # << >>
    BY <1>4 DEF DownloadInv, ServerInv, IsHistory
  <2>2. stream.hintPaths = {stream.nextPartID}
    BY <1>4, <2>1 DEF Facts!Followed, Facts!PathsInv, Facts!LowLatency
  <2>3. stream.nextPartID \in Nat
    BY <2>1 DEF Facts!Stream
  <2> QED
    BY <1>1, <1>4, <2>2, <2>3
<1>6. CameFrom(new, stream.partPaths) /\ new.asked = hint
  BY DEF CameFrom, PartPayload
<1>7. /\ IsSeq(downloads') /\ Len(downloads) \in Nat /\ Len(downloads') = Len(downloads) + 1
      /\ \A i \in 1..Len(downloads) : downloads'[i] = downloads[i]
      /\ downloads'[Len(downloads) + 1] = new
  BY <1>1, AppendAny DEF DownloadInv
<1> HIDE DEF new, hint
<1>8. AskedInv'
  <2> SUFFICES ASSUME NEW i \in 1..Len(downloads) + 1
               PROVE  /\ downloads'[i].asked \in Int
                      /\ downloads'[i].asked < stream.nextPartID
                      /\ CameFrom(downloads'[i], stream.partPaths)
    BY <1>1, <1>2, <1>3, <1>7 DEF AskedInv, Came, CameFrom
  <2>1. CASE i = Len(downloads) + 1
    BY <1>5, <1>6, <1>7, <2>1
  <2>2. CASE i # Len(downloads) + 1
    <3>1. i \in 1..Len(downloads) /\ downloads'[i] = downloads[i]
      BY <1>7, <2>2
    <3> QED
      BY <1>1, <3>1 DEF DownloadInv, AskedInv, Came, CameFrom
  <2> QED
    BY <2>1, <2>2
<1>9. LowLatencyInv'
  <2> SUFFICES ASSUME NEW i \in 1..Len(downloads)
               PROVE  downloads'[i].asked < downloads'[i + 1].asked
    BY <1>1, <1>7 DEF LowLatencyInv
  <2>1. CASE i = Len(downloads)
    BY <1>4, <1>6, <1>7, <2>1
  <2>2. CASE i # Len(downloads)
    <3>1. /\ i \in 1..Len(downloads) - 1 /\ i + 1 \in 1..Len(downloads)
          /\ downloads'[i] = downloads[i] /\ downloads'[i + 1] = downloads[i + 1]
      BY <1>7, <2>2
    <3> QED
      BY <1>1, <3>1 DEF DownloadInv, LowLatencyInv
  <2> QED
    BY <2>1, <2>2
<1>10. TraditionalInv' /\ PlaylistInv'
  BY <1>1, <1>2 DEF TraditionalInv, PlaylistInv
<1>11. StageInv' /\ FailureIsTrue'
  BY <1>1, <1>2, <1>3, <1>4, <1>7 DEF DownloadInv, StageInv, FailureIsTrue
<1>12. QueueInv'
  BY StreamStepUsesQueue, NextQueueInv DEF DownloadInv, StreamNext, Downloads
<1> QED
  BY <1>1, <1>3, <1>7, <1>8, <1>9, <1>10, <1>11, <1>12 DEF DownloadInv

\* The error of a refused playlist tells how the next segment stands.
LEMMA VerdictIsTrue ==
    ASSUME DownloadInv, Downloading, throttled, NEW verdict \in {"EOS", "notReady", "tooLate"},
           Verdict = verdict
    PROVE  \E k \in 0..Len(published) : Follows(k) /\
             LET next == k + Len(downloads) + 1
                 lost == next <= playlist.count - Len(playlist.segments)
             IN  CASE verdict = "EOS" -> ended /\ (next > Len(published) \/ lost)
                   [] verdict = "notReady" ->
                         /\ ~playlist.endlist
                         /\ lost \/ (next = playlist.count + 1 /\ last >= Len(downloads) - Limit)
                   [] verdict = "tooLate" ->
                         ~lost /\ playlist.count - next + 1 > MaxDistance
<1> DEFINE n == Len(playlist.segments)
           k == Position - Len(downloads)
           place == playlist.count - n + NextPosition
<1>1. downloader = "push" /\ playlist # NoPlaylist
  BY DEF Downloading
<1>2. /\ curSegmentID # NoID
      /\ \/ /\ NextPosition = 0
            /\ verdict = IF playlist.endlist THEN "EOS" ELSE "notReady"
         \/ /\ NextPosition # 0 /\ verdict = "tooLate"
            /\ n - NextPosition + 1 > MaxDistance
  BY DEF Verdict, TooLate
<1>3. /\ k \in Nat /\ Follows(k) /\ Position <= playlist.count
  BY <1>1, <1>2 DEF DownloadInv, TraditionalInv
<1>4. /\ n \in Nat \ {0} /\ playlist.count \in Nat /\ NextPosition \in 0..n
      /\ Offset \in Int
      /\ NextPosition # 0 => place \in 1..playlist.count /\ place = Position + 1
      /\ NextPosition = 0 => Position + 1 <= playlist.count - n \/ Position >= playlist.count
  BY <1>1, <1>2, NextPlace
<1>5. Position \in Int /\ Len(downloads) \in Nat /\ Len(published) \in Nat
  BY <1>2, <1>4 DEF DownloadInv, Position, IsSeq, ServerInv, IsHistory
<1>6. k + Len(downloads) = Position
  BY <1>3, <1>5
<1>7. k \in 0..Len(published)
  BY <1>3, <1>5 DEF Follows
<1>8. /\ playlist.endlist \in BOOLEAN
      /\ playlist.endlist => ended /\ playlist.count = Len(published)
  BY <1>1 DEF DownloadInv, PlaylistInv
<1>9. last >= Len(downloads) - Limit
  <2>1. Len(queue) <= Limit /\ Len(queue) = pushed - last /\ pushed = Len(downloads)
    BY <1>1 DEF DownloadInv, StageInv, QueueInv, DownloadsThrottled, IsInterval
  <2>2. last \in Nat /\ Limit \in Nat /\ Len(queue) \in Nat
    BY QueueAssumption DEF DownloadInv, QueueInv, TypeOK
  <2> QED
    BY <1>5, <2>1, <2>2
<1>10. MaxDistance \in Nat
  BY DownloaderAssumption
<1> HIDE DEF n, k
<1> DEFINE next == k + Len(downloads) + 1
           lost == next <= playlist.count - n
<1>11. next = Position + 1 /\ next \in Int
  BY <1>5, <1>6, <1>7
<1> HIDE DEF next
<1>12. CASE NextPosition = 0 /\ playlist.endlist
  <2>1. ended /\ (next > Len(published) \/ lost)
    BY <1>4, <1>5, <1>8, <1>11, <1>12
  <2> QED
    BY <1>2, <1>3, <1>7, <1>12, <2>1 DEF next, n
<1>13. CASE NextPosition = 0 /\ ~playlist.endlist
  <2>1. lost \/ next = playlist.count + 1
    BY <1>3, <1>4, <1>5, <1>11, <1>13
  <2> QED
    BY <1>2, <1>3, <1>7, <1>9, <1>13, <2>1 DEF next, n
<1>14. CASE NextPosition # 0
  <2>1. ~lost /\ playlist.count - next + 1 > MaxDistance
    BY <1>2, <1>4, <1>5, <1>10, <1>11, <1>14 DEF place
  <2> QED
    BY <1>2, <1>3, <1>7, <1>14, <2>1 DEF next, n
<1> QED
  BY <1>12, <1>13, <1>14

LEMMA DownloadRefusedKeeps ==
    ASSUME DownloadInv, DownloadRefused
    PROVE  DownloadInv'
<1>1. /\ Downloading /\ PushError /\ failure' = Verdict
      /\ UNCHANGED serverVars /\ playlist' = playlist
      /\ UNCHANGED << curSegmentID, downloads >>
      /\ downloader' = "left" /\ throttled' = throttled /\ last' = last
  BY DEF DownloadRefused, PushError
<1>2. /\ ServerInv' /\ published' = published /\ ended' = ended /\ Len(published) \in Nat
  BY <1>1, ServerUnchanged
<1>3. /\ IsSeq(downloads') /\ curSegmentID' \in Nat \union {NoID}
      /\ PlaylistInv' /\ TraditionalInv' /\ LowLatencyInv' /\ AskedInv'
      /\ \A k \in Nat : Follows(k)' <=> Follows(k)
  BY <1>1, SameDownloads
<1>4. FailureIsTrue'
  <2> SUFFICES ASSUME Verdict \in {"EOS", "notReady", "tooLate"} PROVE FailureIsTrue'
    BY <1>1 DEF FailureIsTrue
  <2>1. throttled
    BY DEF Verdict
  <2> DEFINE verdict == Verdict
  <2>2. verdict \in {"EOS", "notReady", "tooLate"} /\ Verdict = verdict /\ failure' = verdict
    BY <1>1
  <2> HIDE DEF verdict
  <2>3. PICK k \in 0..Len(published) : Follows(k) /\
             LET next == k + Len(downloads) + 1
                 lost == next <= playlist.count - Len(playlist.segments)
             IN  CASE verdict = "EOS" -> ended /\ (next > Len(published) \/ lost)
                   [] verdict = "notReady" ->
                         /\ ~playlist.endlist
                         /\ lost \/ (next = playlist.count + 1 /\ last >= Len(downloads) - Limit)
                   [] verdict = "tooLate" ->
                         ~lost /\ playlist.count - next + 1 > MaxDistance
    BY <1>1, <2>1, <2>2, VerdictIsTrue
  <2>4. k \in Nat /\ Follows(k)'
    BY <1>2, <1>3, <2>3
  <2> QED
    BY <1>1, <1>2, <2>2, <2>3, <2>4 DEF FailureIsTrue
<1>5. StageInv'
  BY <1>1 DEF StageInv
<1>6. QueueInv'
  BY StreamStepUsesQueue, NextQueueInv DEF DownloadInv, StreamNext, Downloads
<1> QED
  BY <1>2, <1>3, <1>4, <1>5, <1>6 DEF DownloadInv

LEMMA DownloadBreaksKeeps ==
    ASSUME DownloadInv, DownloadBreaks
    PROVE  DownloadInv'
<1>1. /\ PushError /\ failure' = "http"
      /\ UNCHANGED serverVars /\ playlist' = playlist
      /\ UNCHANGED << curSegmentID, downloads >>
      /\ downloader' = "left" /\ throttled' = throttled
  BY DEF DownloadBreaks, PushError
<1>2. /\ ServerInv'
      /\ IsSeq(downloads') /\ curSegmentID' \in Nat \union {NoID}
      /\ PlaylistInv' /\ TraditionalInv' /\ LowLatencyInv' /\ AskedInv'
  BY <1>1, ServerUnchanged, SameDownloads
<1>3. StageInv' /\ FailureIsTrue'
  BY <1>1 DEF StageInv, FailureIsTrue
<1>4. QueueInv'
  BY StreamStepUsesQueue, NextQueueInv DEF DownloadInv, StreamNext
<1> QED
  BY <1>2, <1>3, <1>4 DEF DownloadInv

\* The steps of the queue that push nothing: they leave the downloads alone, and
\* the processor goes forward.
LEMMA QueueKeepsDownloads ==
    ASSUME DownloadInv, QueueInv', UNCHANGED serverVars, UNCHANGED clientVars,
           throttled' = throttled, pushed' = pushed, last' >= last,
           \/ downloader' = downloader
           \/ downloader' = "left" /\ downloader = "start"
           \/ downloader' \notin {"start", "left"} /\ downloader \notin {"start", "left"}
    PROVE  DownloadInv'
<1>1. UNCHANGED << playlist, curSegmentID, downloads, failure >>
  BY DEF clientVars
<1>2. /\ ServerInv' /\ published' = published /\ ended' = ended /\ Len(published) \in Nat
  BY ServerUnchanged
<1>3. /\ IsSeq(downloads') /\ curSegmentID' \in Nat \union {NoID}
      /\ PlaylistInv' /\ TraditionalInv' /\ LowLatencyInv' /\ AskedInv'
      /\ \A k \in Nat : Follows(k)' <=> Follows(k)
  BY <1>1, SameDownloads
<1>4. StageInv'
  BY <1>1, <1>2 DEF DownloadInv, StageInv
<1>5. Len(downloads) \in Nat /\ Limit \in Nat /\ last \in Nat /\ last' \in Nat
  BY QueueAssumption DEF DownloadInv, IsSeq, QueueInv, TypeOK
<1>6. FailureIsTrue'
  <2> SUFFICES ASSUME failure \in {"EOS", "notReady", "tooLate"} PROVE FailureIsTrue'
    BY <1>1 DEF FailureIsTrue
  <2>1. PICK k \in 0..Len(published) : Follows(k) /\
            LET next == k + Len(downloads) + 1
                lost == next <= playlist.count - Len(playlist.segments)
            IN  CASE failure = "EOS" -> ended /\ (next > Len(published) \/ lost)
                  [] failure = "notReady" ->
                        /\ ~playlist.endlist
                        /\ lost \/ (next = playlist.count + 1 /\ last >= Len(downloads) - Limit)
                  [] failure = "tooLate" ->
                        ~lost /\ playlist.count - next + 1 > MaxDistance
    BY DEF DownloadInv, FailureIsTrue
  <2>2. k \in Nat /\ Follows(k)'
    BY <1>2, <1>3, <2>1
  <2>3. last >= Len(downloads) - Limit => last' >= Len(downloads) - Limit
    BY <1>5
  <2> QED
    BY <1>1, <1>2, <2>1, <2>2, <2>3 DEF FailureIsTrue
<1> QED
  BY <1>2, <1>3, <1>4, <1>6 DEF DownloadInv

LEMMA NextDownloadInv ==
    ASSUME DownloadInv, [StreamNext]_streamVars
    PROVE  DownloadInv'
<1>1. QueueInv' /\ [Next]_vars
  BY StreamStepUsesQueue, NextQueueInv DEF DownloadInv
<1>2. last \in Nat
  BY DEF DownloadInv, QueueInv, TypeOK
<1>3. CASE ServerNext
  <2>1. ServerInv' /\ HistoryGrows
    BY <1>3, NextServerInv DEF DownloadInv
  <2>2. downloader # "left" /\ UNCHANGED << vars, clientVars >>
    BY <1>3 DEF ServerNext, ServerBegins, ServerRotatesParts, ServerRotatesSegments, ServerEnds,
       Publishing
  <2> QED
    BY <2>1, <2>2, ServerKeepsDownloads
<1>4. CASE ReadFirstPlaylist
  BY <1>4, ReadFirstKeeps
<1>5. CASE FirstPlaylistFails
  <2>1. /\ downloader = "start" /\ downloader' = "left" /\ UNCHANGED serverVars /\ UNCHANGED clientVars
        /\ throttled' = throttled /\ pushed' = pushed /\ last' = last
    BY <1>5 DEF FirstPlaylistFails, StartFails
  <2> QED
    BY <1>1, <1>2, <2>1, QueueKeepsDownloads
<1>6. CASE Downloads
  BY <1>6, ReadKeeps, DownloadSegmentKeeps, DownloadHintKeeps, DownloadRefusedKeeps DEF Downloads
<1>7. CASE DownloadBreaks
  BY <1>7, DownloadBreaksKeeps
<1>8. CASE QueueStep
  <2>1. UNCHANGED serverVars /\ UNCHANGED clientVars
    BY <1>8 DEF QueueStep
  <2>2. throttled' = throttled /\ pushed' = pushed
    BY <1>8 DEF QueueStep, waitUntilSizeIsBelow, DownloaderWakes, ProcessorNext, pull,
       ProcessorWakes, ProcessorFails, Cancel
  <2>3. \/ downloader' = downloader
        \/ downloader' \notin {"start", "left"} /\ downloader \notin {"start", "left"}
    BY <1>8 DEF QueueStep, waitUntilSizeIsBelow, DownloaderWakes, ProcessorNext, pull,
       ProcessorWakes, ProcessorFails, Cancel
  <2>4. last' >= last
    <3>1. CASE pull /\ queue # << >>
      <4>1. queue \in Seq(Nat) /\ Len(queue) # 0
        BY <3>1, EmptySeq DEF DownloadInv, QueueInv, TypeOK
      <4>2. Head(queue) = queue[1] /\ 1 \in 1..Len(queue)
        BY <3>1, <4>1
      <4>3. last' = last + 1
        BY <3>1, <4>1, <4>2 DEF pull, DownloadInv, QueueInv, IsInterval
      <4> QED
        BY <1>2, <4>3
    <3>2. CASE ~(pull /\ queue # << >>)
      <4>1. last' = last
        BY <1>8, <3>2 DEF QueueStep, waitUntilSizeIsBelow, DownloaderWakes, ProcessorNext, pull,
           ProcessorWakes, ProcessorFails, Cancel
      <4> QED
        BY <1>2, <4>1
    <3> QED
      BY <3>1, <3>2
  <2> QED
    BY <1>1, <2>1, <2>2, <2>3, <2>4, QueueKeepsDownloads
<1>9. CASE UNCHANGED streamVars
  <2>1. /\ UNCHANGED serverVars /\ UNCHANGED clientVars
        /\ downloader' = downloader /\ throttled' = throttled /\ pushed' = pushed /\ last' = last
    BY <1>9 DEF streamVars, vars
  <2> QED
    BY <1>1, <1>2, <2>1, QueueKeepsDownloads
<1> QED
  BY <1>3, <1>4, <1>5, <1>6, <1>7, <1>8, <1>9 DEF StreamNext

\* What has been downloaded is an interval of what the server has published, or
\* comes in its order.
LEMMA DownloadInvInOrder == DownloadInv => DownloadsInOrder
<1> SUFFICES ASSUME DownloadInv PROVE DownloadsInOrder
  OBVIOUS
<1>1. \A i \in 1..Len(downloads) : Came(downloads[i])
  BY DEF DownloadInv, AskedInv
<1>2. Len(published) \in Nat /\ Len(downloads) \in Nat
  BY DEF DownloadInv, ServerInv, IsHistory, IsSeq
<1>3. ASSUME throttled, curSegmentID = NoID
      PROVE  \E k \in 0..Len(published) : Follows(k)
  <2>1. Len(downloads) = 0
    BY <1>3 DEF DownloadInv, TraditionalInv
  <2>2. Follows(0) /\ 0 \in 0..Len(published)
    BY <1>2, <2>1 DEF Follows
  <2> QED
    BY <2>2
<1>4. ASSUME throttled, curSegmentID # NoID
      PROVE  \E k \in 0..Len(published) : Follows(k)
  <2> DEFINE k == Position - Len(downloads)
  <2>1. k \in Nat /\ Follows(k)
    BY <1>4 DEF DownloadInv, TraditionalInv
  <2> HIDE DEF k
  <2>2. k \in 0..Len(published)
    BY <1>2, <2>1 DEF Follows
  <2> QED
    BY <2>1, <2>2
<1> QED
  BY <1>1, <1>3, <1>4 DEF DownloadsInOrder, DownloadInv, LowLatencyInv

\* clientStreamDownloader: a traditional stream is downloaded segment after
\* segment and a Low-Latency one part after part, whatever the server publishes,
\* fails to publish and drops in the meantime.
THEOREM DownloadsArriveInOrder == StreamSpec => []DownloadsInOrder
<1>1. StreamInit => DownloadInv
  BY InitDownloadInv
<1>2. DownloadInv /\ [StreamNext]_streamVars => DownloadInv'
  BY NextDownloadInv
<1>3. DownloadInv => DownloadsInOrder
  BY DownloadInvInOrder
<1> QED
  BY <1>1, <1>2, <1>3, PTL DEF StreamSpec

\* clientStreamDownloader.downloadNextSegment: the error of a refused playlist
\* tells truly how the next segment stands on the server.
THEOREM FailuresAreTrue == StreamSpec => []FailureIsTrue
<1>1. StreamInit => DownloadInv
  BY InitDownloadInv
<1>2. DownloadInv /\ [StreamNext]_streamVars => DownloadInv'
  BY NextDownloadInv
<1>3. DownloadInv => FailureIsTrue
  BY DEF DownloadInv
<1> QED
  BY <1>1, <1>2, <1>3, PTL DEF StreamSpec

--------------------------------------------------------------------------------
(***************************************************************************)
(* Dates.                                                                  *)
(***************************************************************************)

\* Parts that follow each other, up to the one before end.
Run(parts, end) ==
    /\ Len(parts) <= end
    /\ \A i \in 1..Len(parts) : parts[i] = end - Len(parts) + i - 1

\* A part ends when the next one starts.
LEMMA PartLasts ==
    ASSUME NEW part \in Nat
    PROVE  /\ StartOf(part) \in Nat /\ PartDuration(part) \in Nat
           /\ StartOf(part + 1) = StartOf(part) + PartDuration(part)
<1>1. PICK q \in Nat : part = 2 * q \/ part = 2 * q + 1
  <2>1. part \div 2 \in Nat /\ (part = 2 * (part \div 2) \/ part = 2 * (part \div 2) + 1)
    OBVIOUS
  <2> QED
    BY <2>1
<1>2. CASE part = 2 * q
  <2>1. part \div 2 = q /\ (part + 1) \div 2 = q /\ part % 2 = 0
    BY <1>1, <1>2
  <2> QED
    BY <2>1 DEF StartOf, PartDuration
<1>3. CASE part = 2 * q + 1
  <2>1. part \div 2 = q /\ (part + 1) \div 2 = q + 1 /\ part % 2 = 1
    BY <1>1, <1>3
  <2> QED
    BY <2>1 DEF StartOf, PartDuration
<1> QED
  BY <1>1, <1>2, <1>3

\* The duration that a list of parts adds up to is a fold.
LEMMA DurationIsSum ==
    ASSUME NEW parts \in Seq(Nat)
    PROVE  IsSum(DurationOf(parts), [i \in 1..Len(parts) |-> PartDuration(parts[i])], Len(parts))
<1> DEFINE n == Len(parts)
           d == [i \in 1..n |-> PartDuration(parts[i])]
<1>1. n \in Nat /\ DOMAIN parts = 1..n /\ \A k \in 1..n : d[k] \in Int /\ d[k] = PartDuration(parts[k])
  BY DEF PartDuration
<1> HIDE DEF n, d
<1>2. PICK f : IsFold(f, d, n)
  BY <1>1, FoldExists
<1> DEFINE step(g) == [s \in SUBSET (1..n) |->
                          IF s = {} THEN 0 ELSE g[s \ {Max(s)}] + PartDuration(parts[Max(s)])]
           fold == CHOOSE g : g = step(g)
<1>3. \A g : step(g) = [s \in SUBSET (1..n) |-> IF s = {} THEN 0 ELSE g[s \ {Max(s)}] + d[Max(s)]]
  <2> TAKE g
  <2> SUFFICES ASSUME NEW s \in SUBSET (1..n), s # {} PROVE PartDuration(parts[Max(s)]) = d[Max(s)]
    OBVIOUS
  <2>1. Max(s) \in s
    BY <1>1, MaxOfPlaces
  <2> QED
    BY <1>1, <2>1
<1>4. f = step(f)
  BY <1>2, <1>3 DEF IsFold
<1>5. fold = step(fold)
  <2> HIDE DEF step
  <2> QED
    BY <1>4
<1>6. IsFold(fold, d, n)
  BY <1>3, <1>5 DEF IsFold
<1>7. DurationOf(parts) = fold[1..n]
  BY <1>1 DEF DurationOf, FoldLeft, MapThenFoldSet
<1> HIDE DEF fold
<1>8. IsSum(DurationOf(parts), d, n)
  BY <1>1, <1>6, <1>7, FoldIsSum
<1> QED
  BY <1>8 DEF d, n

\* Parts that follow each other last from the start of the first one to that of
\* the one behind them.
LEMMA RunLasts ==
    ASSUME NEW parts \in Seq(Nat), NEW end \in Nat, Run(parts, end)
    PROVE  DurationOf(parts) = StartOf(end) - StartOf(end - Len(parts))
<1> DEFINE n == Len(parts)
           b == end - n
           d == [i \in 1..n |-> PartDuration(parts[i])]
           p == [k \in 0..n |-> StartOf(b + k) - StartOf(b)]
<1>1. n \in Nat /\ b \in Nat /\ \A i \in 1..n : parts[i] = b + i - 1
  BY DEF Run
<1>2. IsSum(DurationOf(parts), d, n)
  BY DurationIsSum
<1>3. \A k \in 0..n : StartOf(b + k) \in Nat /\ p[k] = StartOf(b + k) - StartOf(b)
  <2> HIDE DEF b, n
  <2> TAKE k \in 0..n
  <2>1. b + k \in Nat
    BY <1>1
  <2>2. StartOf(b + k) \in Nat
    BY <2>1, PartLasts
  <2> QED
    BY <2>2
<1>4. \A k \in 1..n : d[k] = PartDuration(b + k - 1)
  <2> HIDE DEF b, n
  <2> QED
    BY <1>1
<1> HIDE DEF d
<1>5. p \in [0..n -> Int]
  <2> HIDE DEF b, n
  <2>1. StartOf(b) \in Nat
    BY <1>1, PartLasts
  <2>2. \A k \in 0..n : StartOf(b + k) - StartOf(b) \in Int
    BY <1>3, <2>1
  <2> QED
    BY <2>2
<1> HIDE DEF p, b, n
<1>6. p[0] = 0
  <2>1. 0 \in 0..n /\ b + 0 = b
    BY <1>1
  <2>2. StartOf(b) \in Nat
    BY <1>1, PartLasts
  <2>3. p[0] = StartOf(b) - StartOf(b)
    BY <1>3, <2>1
  <2> QED
    BY <2>2, <2>3
<1>7. \A k \in 1..n : p[k] = p[k - 1] + d[k]
  <2> TAKE k \in 1..n
  <2>1. k \in 0..n /\ k - 1 \in 0..n /\ b + (k - 1) \in Nat /\ b + (k - 1) + 1 = b + k
        /\ b + k - 1 = b + (k - 1)
    BY <1>1
  <2>2. StartOf(b + k) = StartOf(b + (k - 1)) + PartDuration(b + (k - 1))
    BY <2>1, PartLasts
  <2>3. StartOf(b) \in Nat /\ StartOf(b + (k - 1)) \in Nat /\ PartDuration(b + (k - 1)) \in Nat
    BY <1>1, <2>1, PartLasts
  <2> QED
    BY <1>3, <1>4, <2>1, <2>2, <2>3
<1>8. p[n] = StartOf(end) - StartOf(b)
  <2>1. n \in 0..n /\ b + n = end
    BY <1>1 DEF b
  <2> QED
    BY <1>3, <2>1
<1>9. IsSum(StartOf(end) - StartOf(b), d, n)
  <2>1. Adds(p, d, n)
    BY <1>6, <1>7 DEF Adds
  <2> QED
    BY <1>5, <1>8, <2>1 DEF IsSum
<1>10. DurationOf(parts) = StartOf(end) - StartOf(b)
  <2> DEFINE v == DurationOf(parts)
             w == StartOf(end) - StartOf(b)
  <2>1. IsSum(v, d, n) /\ IsSum(w, d, n) /\ \A k \in 1..n : d[k] = d[k]
    BY <1>2, <1>9 DEF n
  <2> HIDE DEF v, w
  <2>2. v = w
    BY <1>1, <2>1, SameSum
  <2> QED
    BY <2>2 DEF v, w
<1> QED
  BY <1>10 DEF b, n

\* One part more.
LEMMA RunGrows ==
    ASSUME NEW parts \in Seq(Nat), NEW end \in Nat, Run(parts, end)
    PROVE  LET longer == Append(parts, end)
           IN  /\ longer # << >> /\ Run(longer, end + 1)
               /\ (end + 1) - Len(longer) = end - Len(parts)
<1> DEFINE n == Len(parts)
           longer == Append(parts, end)
<1>1. n \in Nat /\ n <= end /\ \A i \in 1..n : parts[i] = end - n + i - 1
  BY DEF Run
<1>2. /\ longer \in Seq(Nat) /\ Len(longer) = n + 1 /\ longer # << >>
      /\ \A i \in 1..n : longer[i] = parts[i]
      /\ longer[n + 1] = end
  OBVIOUS
<1> HIDE DEF n, longer
<1>3. \A i \in 1..n + 1 : longer[i] = (end + 1) - (n + 1) + i - 1
  <2> TAKE i \in 1..n + 1
  <2>1. CASE i = n + 1
    BY <1>1, <1>2, <2>1
  <2>2. CASE i # n + 1
    <3>1. i \in 1..n
      BY <1>1, <2>2
    <3>2. longer[i] = end - n + i - 1
      BY <1>1, <1>2, <3>1
    <3> QED
      BY <1>1, <3>1, <3>2
  <2> QED
    BY <2>1, <2>2
<1>4. n + 1 <= end + 1 /\ (end + 1) - (n + 1) = end - n
  BY <1>1
<1> QED
  BY <1>2, <1>3, <1>4 DEF Run, n, longer

\* The parts of a Low-Latency stream are numbered without a hole: up to the part
\* being written in its segment, and in the one before up to the first of those.
TimedInv ==
    variant = "LL" =>
        LET open == stream.nextSegment.parts
            newest == stream.segments[Len(stream.segments)].parts
        IN  /\ Run(open, stream.nextPartID)
            /\ stream.segments # << >> =>
                 newest # << >> /\ Run(newest, stream.nextPartID - Len(open))

\* The hint of a playlist starts when what is listed ends.
HintDated ==
    playlist # NoPlaylist /\ playlist.hint # NoID =>
        dateTimeOfPreloadHint = StartOf(playlist.hint)

DatedInv == TimedInv /\ HintDated /\ PartsDated

\* No part at all.
LEMMA NothingRuns ==
    ASSUME NEW end \in Nat
    PROVE  Run(<< >>, end) /\ end - Len(<< >>) = end
  BY DEF Run

\* What the window holds before a segment enters.
LEMMA ShownType ==
    ASSUME ServerInv
    PROVE  Facts!Shown(stream) \in Seq(Facts!Segment)
<1>1. /\ GapCount \in Nat \ {0} /\ SegmentCount \in Nat
      /\ SegmentCount >= IF variant = "LL" THEN GapCount ELSE 3
      /\ variant \in {"LL", "FMP4", "MPEGTS"}
  BY ServerAssumed DEF ServerInv
<1>2. Facts!Gaps \in Seq(Facts!Segment)
  BY <1>1, Facts!GapsType
<1>3. stream.segments \in Seq(Facts!Segment)
  BY DEF ServerInv, Facts!Stream
<1> QED
  BY <1>2, <1>3 DEF Facts!Shown

\* Rotations number the parts on, also across segments.
LEMMA ServerKeepsTime ==
    ASSUME ServerInv, TimedInv, ServerNext
    PROVE  TimedInv'
<1>1. variant' = variant
  BY DEF ServerNext, ServerBegins, ServerRotatesParts, ServerRotatesSegments, ServerEnds
<1> SUFFICES ASSUME variant = "LL" PROVE TimedInv'
  BY <1>1 DEF TimedInv
<1> DEFINE open == stream.nextSegment.parts
           id == stream.nextPartID
           part == stream.nextPart
           finished == Append(open, part)
<1>2. /\ GapCount \in Nat \ {0} /\ SegmentCount \in Nat
      /\ SegmentCount >= IF variant = "LL" THEN GapCount ELSE 3
      /\ variant \in {"LL", "FMP4", "MPEGTS"}
  BY ServerAssumed DEF ServerInv
<1>3. /\ stream \in Facts!Stream /\ open \in Seq(Nat) /\ id \in Nat
      /\ stream.nextSegment \in Facts!Segment
      /\ Run(open, id)
      /\ stream.segments # << >> =>
           LET newest == stream.segments[Len(stream.segments)].parts
           IN  newest # << >> /\ Run(newest, id - Len(open))
  BY DEF TimedInv, ServerInv, Facts!Stream, Facts!Segment
<1>4. CASE ServerBegins
  <2>1. stream' = Facts!CreateFirstSegment(stream, "done") /\ stream.nextSegment = Facts!NoSegment
    BY <1>4, SameServer DEF ServerBegins
  <2>2. stream' = Facts!CreateSegment(stream)
    BY <2>1 DEF Facts!CreateFirstSegment
  <2>3. /\ stream'.segments = stream.segments
        /\ stream'.nextSegment = Facts!NewSegment(stream.nextSegmentID)
        /\ stream'.nextPartID = id
    BY <1>2, <1>3, <2>2, Facts!CreateSegmentFields
  <2>4. open = << >> /\ stream'.nextSegment.parts = << >>
    BY <2>1, <2>3 DEF Facts!NoSegment, Facts!NewSegment
  <2> QED
    BY <1>1, <1>3, <2>3, <2>4 DEF TimedInv
<1>5. ASSUME stream.nextSegment # Facts!NoSegment
      PROVE  /\ part # Facts!NoPart /\ part = id
             /\ finished # << >> /\ Run(finished, id + 1)
             /\ (id + 1) - Len(finished) = id - Len(open)
             /\ Facts!Ended(stream).parts = finished
  <2>1. part # Facts!NoPart /\ part = id
    BY <1>5 DEF ServerInv, Facts!Followed, Facts!PathsInv, Facts!FreshParts
  <2>2. Facts!Ended(stream).parts = finished
    BY <1>3, <2>1 DEF Facts!Ended, Facts!LowLatency, Facts!Segment
  <2> QED
    BY <1>3, <2>1, <2>2, RunGrows
<1> HIDE DEF finished, open, id, part
<1>6. CASE ServerRotatesParts
  <2>1. /\ stream' = Facts!RotateParts(stream, TRUE, "done")
        /\ stream.nextSegment # Facts!NoSegment
    BY <1>6, SameServer DEF ServerRotatesParts
  <2>2. /\ stream'.segments = stream.segments
        /\ stream'.nextSegment = Facts!Ended(stream)
        /\ stream'.nextPartID = id + 1
    <3>1. ~Facts!PartFails("done") /\ stream.nextPart # Facts!NoPart
      BY <1>5, <2>1 DEF Facts!PartFails, part
    <3> QED
      BY <1>2, <1>3, <2>1, <3>1, Facts!RotatePartsFields, Zenon DEF id
  <2> QED
    BY <1>1, <1>3, <1>5, <2>1, <2>2 DEF TimedInv
<1>7. CASE ServerRotatesSegments
  <2>1. /\ stream.nextSegment # Facts!NoSegment
        /\ stream' = Facts!RotateSegments(stream, "done")
    <3>1. PICK exit \in Server!SegmentExits(stream, {}) : stream' = Server!RotateSegments(stream, exit)
      BY <1>7 DEF ServerRotatesSegments
    <3>2. stream.nextSegment # Facts!NoSegment
      BY <1>7, SameServer DEF ServerRotatesSegments
    <3>3. stream.nextPart # Server!NoPart
      BY <1>5, <3>2 DEF Facts!NoPart, Server!NoPart, part
    <3>4. exit = "done"
      BY <3>1, <3>3 DEF Server!SegmentExits
    <3> QED
      BY <3>1, <3>2, <3>4, SameServer
  <2> DEFINE rotated == Facts!RotateParts(stream, FALSE, "done")
             longer == Append(Facts!Shown(stream), rotated.nextSegment)
  <2>2. ~Facts!PartFails("done") /\ stream.nextPart # Facts!NoPart
    BY <1>5, <2>1 DEF Facts!PartFails, part
  <2>3. rotated.nextSegment = Facts!Ended(stream) /\ rotated.nextPartID = id + 1
    BY <1>2, <1>3, <2>2, Facts!RotatePartsFields, Zenon DEF id
  <2>4. /\ stream' \in Facts!Stream
        /\ stream'.segments = IF Len(longer) > SegmentCount THEN Tail(longer) ELSE longer
        /\ stream'.nextSegment = Facts!NewSegment(stream.nextSegmentID + 1)
        /\ stream'.nextPartID = rotated.nextPartID
    <3>1. variant # "MPEGTS" /\ "done" # "segFinalize" /\ "done" \notin {"initFile", "newFile"}
      OBVIOUS
    <3> QED
      BY ONLY Zenon, <1>2, <1>3, <2>1, <2>2, <3>1, Facts!RotateSegmentsFields
  <2>5. stream'.segments # << >> => stream'.segments[Len(stream'.segments)] = Facts!Ended(stream)
    <3> DEFINE S == Facts!Segment
               shown == Facts!Shown(stream)
               added == rotated.nextSegment
    <3>1. shown \in Seq(S) /\ added \in S
      BY <2>3, ShownType, Facts!RotatePartsFields, <1>2, <1>3, <2>2 DEF Facts!Stream
    <3>2. longer = Append(shown, added)
      OBVIOUS
    <3> HIDE DEF S, shown, added, longer
    <3>3. /\ longer \in Seq(S) /\ Len(longer) \in Nat \ {0}
          /\ longer[Len(longer)] = added
      <4> DEFINE n == Len(shown)
      <4>1. n \in Nat /\ Append(shown, added) \in Seq(S) /\ Len(Append(shown, added)) = n + 1
            /\ Append(shown, added)[n + 1] = added
        BY <3>1
      <4> HIDE DEF n
      <4> QED
        BY <3>2, <4>1
    <3>4. CASE Len(longer) > SegmentCount
      <4>1. Len(longer) > 1
        BY <1>2, <3>3, <3>4
      <4>2. /\ Len(Tail(longer)) = Len(longer) - 1
            /\ \A i \in 1..Len(longer) - 1 : Tail(longer)[i] = longer[i + 1]
        BY <3>3, <4>1
      <4>3. Len(longer) - 1 \in 1..Len(longer) - 1 /\ (Len(longer) - 1) + 1 = Len(longer)
        BY <3>3, <4>1
      <4> QED
        BY <2>3, <2>4, <3>3, <3>4, <4>2, <4>3 DEF longer, added
    <3>5. CASE ~(Len(longer) > SegmentCount)
      BY <2>3, <2>4, <3>3, <3>5 DEF longer, added
    <3> QED
      BY <3>4, <3>5
  <2>6. stream'.nextSegment.parts = << >> /\ Run(<< >>, id + 1) /\ id + 1 \in Nat
    BY <1>3, <2>4, NothingRuns DEF Facts!NewSegment
  <2> QED
    BY <1>1, <1>5, <2>1, <2>3, <2>4, <2>5, <2>6, NothingRuns DEF TimedInv
<1>8. CASE ServerEnds
  BY <1>1, <1>3, <1>8 DEF ServerEnds, TimedInv, open, id
<1> QED
  BY <1>4, <1>6, <1>7, <1>8 DEF ServerNext

\* generateMediaPlaylist: the hint is the part behind all that is listed.
LEMMA ReadsDated ==
    ASSUME DownloadInv, TimedInv, published # << >>, UNCHANGED serverVars,
           playlist' = GeneratePlaylist
    PROVE  HintDated'
<1> SUFFICES ASSUME playlist'.hint # NoID
             PROVE  dateTimeOfPreloadHint' = StartOf(playlist'.hint)
  BY DEF HintDated
<1> DEFINE W == Len(stream.segments)
           open == stream.nextSegment.parts
           newest == stream.segments[W].parts
           id == stream.nextPartID
           begin == id - Len(open)
<1>1. variant = "LL" /\ playlist'.hint = id
  BY DEF GeneratePlaylist
<1>2. /\ stream.segments \in Seq(Facts!Segment) /\ stream.segments # << >>
      /\ open \in Seq(Nat) /\ id \in Nat /\ W \in Nat
  BY DEF DownloadInv, ServerInv, IsHistory, Facts!Stream, Facts!Segment
<1>3. W \in 1..W /\ newest \in Seq(Nat)
  <2>1. W # 0
    BY <1>2
  <2>2. W \in 1..W
    BY <1>2, <2>1
  <2> HIDE DEF W
  <2>3. stream.segments[W] \in Facts!Segment
    BY <1>2, <2>2 DEF W
  <2> QED
    BY <2>2, <2>3 DEF Facts!Segment
<1>4. Run(open, id) /\ newest # << >> /\ Run(newest, begin)
  BY <1>1, <1>2 DEF TimedInv
<1>5. begin \in Nat /\ DurationOf(open) = StartOf(id) - StartOf(begin)
  <2>1. begin \in Nat
    BY <1>2, <1>4 DEF Run
  <2> QED
    BY <1>2, <1>4, <2>1, RunLasts
<1> DEFINE first == begin - Len(newest)
<1>6. first \in Nat /\ Head(newest) = first
  <2> HIDE DEF newest, begin
  <2>1. Len(newest) \in Nat \ {0} /\ Head(newest) = newest[1] /\ 1 \in 1..Len(newest)
    BY <1>3, <1>4
  <2>2. Len(newest) <= begin /\ newest[1] = begin - Len(newest) + 1 - 1
    BY <1>4, <2>1 DEF Run
  <2> QED
    BY <1>5, <2>1, <2>2
<1>7. DurationOf(newest) = StartOf(begin) - StartOf(first)
  BY <1>3, <1>4, <1>5, RunLasts
<1>8. StartOf(id) \in Nat /\ StartOf(begin) \in Nat /\ StartOf(first) \in Nat
  BY <1>2, <1>5, <1>6, PartLasts
<1>9. /\ playlist'.segments = [i \in 1..W |-> Entry(stream.segments[i])]
      /\ playlist'.parts = open
  BY DEF GeneratePlaylist
<1>10. /\ Len(playlist'.segments) = W
       /\ playlist'.segments[W].date = StartOf(first)
       /\ playlist'.segments[W].duration = StartOf(begin) - StartOf(first)
  <2>1. Entry(stream.segments[W]).date = StartOf(first)
    BY <1>4, <1>6 DEF Entry
  <2>2. Entry(stream.segments[W]).duration = StartOf(begin) - StartOf(first)
    BY <1>7 DEF Entry
  <2> HIDE DEF W
  <2>3. Len(playlist'.segments) = W /\ playlist'.segments[W] = Entry(stream.segments[W])
    BY <1>2, <1>3, <1>9
  <2> QED
    BY <2>1, <2>2, <2>3
<1>11. dateTimeOfPreloadHint'
        = StartOf(first) + (StartOf(begin) - StartOf(first)) + (StartOf(id) - StartOf(begin))
  <2> HIDE DEF W, open, newest, id, begin, first
  <2> QED
    BY <1>5, <1>9, <1>10 DEF dateTimeOfPreloadHint
<1> HIDE DEF id, begin, first
<1> QED
  BY <1>1, <1>8, <1>11

LEMMA InitDatedInv == StreamInit => DatedInv
<1> SUFFICES ASSUME StreamInit PROVE DatedInv
  OBVIOUS
<1>1. /\ playlist = NoPlaylist /\ downloads = << >>
      /\ stream = Facts!InitialStream
  BY SameServer DEF StreamInit
<1>2. /\ stream.nextSegment.parts = << >> /\ stream.nextPartID = 0 /\ stream.segments = << >>
  BY <1>1 DEF Facts!InitialStream, Facts!NoSegment
<1>3. TimedInv
  BY <1>2, NothingRuns DEF TimedInv
<1>4. HintDated /\ PartsDated
  BY <1>1 DEF HintDated, PartsDated
<1> QED
  BY <1>3, <1>4 DEF DatedInv

\* The downloader copies the date with the hint, and keeps both.
LEMMA NextDatedInv ==
    ASSUME DownloadInv, DatedInv, [StreamNext]_streamVars
    PROVE  DatedInv'
<1>1. UNCHANGED serverVars => TimedInv'
  BY DEF DatedInv, TimedInv, serverVars
<1>2. playlist' = playlist => HintDated'
  BY DEF DatedInv, HintDated, dateTimeOfPreloadHint
<1>3. downloads' = downloads /\ throttled' = throttled => PartsDated'
  BY DEF DatedInv, PartsDated
<1>4. CASE ServerNext
  <2>1. UNCHANGED << vars, clientVars >>
    BY <1>4 DEF ServerNext, ServerBegins, ServerRotatesParts, ServerRotatesSegments, ServerEnds
  <2>2. playlist' = playlist /\ downloads' = downloads /\ throttled' = throttled
    BY <2>1 DEF vars, clientVars
  <2>3. TimedInv'
    BY <1>4, ServerKeepsTime DEF DownloadInv, DatedInv
  <2> QED
    BY <1>2, <1>3, <2>2, <2>3 DEF DatedInv
<1>5. CASE ReadFirstPlaylist
  <2>1. /\ downloader = "start" /\ Server!hasContent(stream) /\ playlist' = GeneratePlaylist
        /\ UNCHANGED serverVars /\ downloads' = downloads
    BY <1>5 DEF ReadFirstPlaylist, StartDownloads
  <2>2. Len(downloads') = 0
    BY <2>1 DEF DownloadInv, StageInv
  <2>3. published # << >>
    <3>1. Len(stream.segments) >= 1
      BY <2>1 DEF Server!hasContent, DownloadInv, ServerInv, Facts!Stream
    <3>2. Len(published) # 0
      BY <3>1 DEF DownloadInv, ServerInv, IsHistory, Facts!Stream
    <3> QED
      BY <3>2
  <2>4. PartsDated'
    BY <2>2 DEF PartsDated
  <2>5. HintDated'
    BY <2>1, <2>3, ReadsDated DEF DatedInv
  <2> QED
    BY <1>1, <2>1, <2>4, <2>5 DEF DatedInv
<1>6. CASE ReadPlaylist
  <2>1. /\ playlist' = GeneratePlaylist /\ UNCHANGED serverVars /\ downloads' = downloads
        /\ throttled' = throttled /\ downloader = "push"
    BY <1>6 DEF ReadPlaylist, vars
  <2>2. published # << >>
    BY <2>1 DEF DownloadInv, StageInv
  <2> QED
    BY <1>1, <1>3, <2>1, <2>2, ReadsDated DEF DatedInv
<1>7. CASE DownloadSegment
  <2>1. throttled' /\ playlist' = NoPlaylist /\ UNCHANGED serverVars
    BY <1>7 DEF DownloadSegment, PushSegment
  <2> QED
    BY <1>1, <2>1 DEF DatedInv, HintDated, PartsDated
<1>8. CASE DownloadHint
  <2> DEFINE new == [asked |-> playlist.hint, got |-> PartPayload(playlist.hint),
                     date |-> dateTimeOfPreloadHint]
  <2>1. /\ playlist # NoPlaylist /\ playlist.hint # NoID /\ ~throttled
        /\ downloads' = Append(downloads, new) /\ playlist' = NoPlaylist /\ UNCHANGED serverVars
    BY <1>8 DEF DownloadHint, Downloading
  <2>2. new.date = StartOf(new.asked)
    BY <2>1 DEF DatedInv, HintDated
  <2>3. /\ Len(downloads) \in Nat /\ Len(downloads') = Len(downloads) + 1
        /\ \A i \in 1..Len(downloads) : downloads'[i] = downloads[i]
        /\ downloads'[Len(downloads) + 1] = new
    BY <2>1, AppendAny DEF DownloadInv
  <2> HIDE DEF new
  <2>4. PartsDated'
    <3> SUFFICES ASSUME NEW i \in 1..Len(downloads) + 1
                 PROVE  downloads'[i].date = StartOf(downloads'[i].asked)
      BY <2>3 DEF PartsDated
    <3>1. CASE i = Len(downloads) + 1
      BY <2>2, <2>3, <3>1
    <3>2. CASE i # Len(downloads) + 1
      <4>1. i \in 1..Len(downloads) /\ downloads'[i] = downloads[i]
        BY <2>3, <3>2
      <4> QED
        BY <2>1, <4>1 DEF DatedInv, PartsDated
    <3> QED
      BY <3>1, <3>2
  <2> QED
    BY <1>1, <2>1, <2>4 DEF DatedInv, HintDated
<1>9. CASE FirstPlaylistFails \/ DownloadRefused \/ DownloadBreaks
  <2>1. UNCHANGED serverVars /\ playlist' = playlist /\ downloads' = downloads /\ throttled' = throttled
    BY <1>9 DEF FirstPlaylistFails, StartFails, DownloadRefused, DownloadBreaks, PushError, clientVars
  <2> QED
    BY <1>1, <1>2, <1>3, <2>1 DEF DatedInv
<1>10. CASE QueueStep
  <2>1. UNCHANGED serverVars /\ UNCHANGED clientVars /\ throttled' = throttled
    BY <1>10 DEF QueueStep, waitUntilSizeIsBelow, DownloaderWakes, ProcessorNext, pull,
       ProcessorWakes, ProcessorFails, Cancel
  <2> QED
    BY <1>1, <1>2, <1>3, <2>1 DEF DatedInv, clientVars
<1>11. CASE UNCHANGED streamVars
  <2>1. UNCHANGED serverVars /\ UNCHANGED clientVars /\ throttled' = throttled
    BY <1>11 DEF streamVars, vars
  <2> QED
    BY <1>1, <1>2, <1>3, <2>1 DEF DatedInv, clientVars
<1> QED
  BY <1>4, <1>5, <1>6, <1>7, <1>8, <1>9, <1>10, <1>11 DEF StreamNext, Downloads

\* clientStreamDownloader.runLowLatency: dateTimeOfPreloadHint adds up what the
\* playlist lists, and finds when the part of its hint starts, whatever parts and
\* segments the client has missed.
THEOREM PartsTrulyDated == StreamSpec => []PartsDated
<1>1. StreamInit => DownloadInv /\ DatedInv
  BY InitDownloadInv, InitDatedInv
<1>2. DownloadInv /\ DatedInv /\ [StreamNext]_streamVars => DownloadInv' /\ DatedInv'
  BY NextDownloadInv, NextDatedInv
<1>3. DownloadInv /\ DatedInv => PartsDated
  BY DEF DatedInv
<1> QED
  BY <1>1, <1>2, <1>3, PTL DEF StreamSpec

================================================================================
