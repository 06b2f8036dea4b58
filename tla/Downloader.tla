------------------------------- MODULE Downloader ------------------------------
(***************************************************************************)
(* The stream downloader of a client (src/client_stream_downloader.go)     *)
(* between the server that publishes a stream and the segment queue.  The  *)
(* server is a muxerStream; it may also be one that is not of this library *)
(* and ends its stream.                                                    *)
(*                                                                         *)
(* A playlist is read in one step and what it lists is downloaded in a     *)
(* later one: in between the window of the server moves on.                *)
(***************************************************************************)
EXTENDS SegmentQueue, SequencesExt

CONSTANTS
    Variants,       \* what the stream may be
    SegmentCount,   \* of the muxer
    GapCount,
    Faults,         \* how a rotation may fail
    StartDistance,  \* clientLiveInitialDistance (3 in the code)
    MaxDistance,    \* clientLiveMaxDistanceFromEnd (5 in the code)
    MaxSegmentID,   \* bounds on the length of a run
    MaxPartID

ASSUME DownloaderAssumption ==
    /\ Variants \subseteq {"LL", "FMP4", "MPEGTS"}
    /\ GapCount \in Nat \ {0} /\ SegmentCount \in Nat
    /\ \A v \in Variants : SegmentCount >= IF v = "LL" THEN GapCount ELSE 3
    /\ Faults \subseteq {"segFinalize"}    \* Muxer has the others
    /\ StartDistance \in Nat \ {0} /\ MaxDistance \in Nat

VARIABLES
    variant,        \* the server: its variant,
    stream,         \* its stream,
    published,      \* the segments it has listed, in order (a history),
    ended,          \* and whether it has ended
    playlist,       \* the playlist that the downloader holds
    vod,            \* the first one was complete
    curSegmentID,
    downloads,      \* what has been pushed (a history)
    failure         \* the error that has been pushed

Server == INSTANCE MuxerStream WITH Variant <- variant

serverVars == << variant, stream, published, ended >>
clientVars == << playlist, vod, curSegmentID, downloads, failure >>
streamVars == << vars, serverVars, clientVars >>

NoPlaylist == [segments |-> << >>]  \* the next one has to be read
NoID == -1                          \* of a gap; no segment; no payload

StreamInit ==
    /\ Init
    /\ variant \in Variants /\ stream = Server!InitialStream
    /\ published = << >> /\ ended = FALSE
    /\ playlist = NoPlaylist /\ vod = FALSE /\ curSegmentID = NoID
    /\ downloads = << >> /\ failure = "none"

--------------------------------------------------------------------------------
(***************************************************************************)
(* The server.                                                             *)
(***************************************************************************)

\* Parts last one tick or two, in turn; this is when a part starts.
PartDuration(part) == 1 + (part % 2)
StartOf(part) == part + (part \div 2)
DurationOf(parts) == FoldLeft(LAMBDA total, part : total + PartDuration(part), 0, parts)

\* The server is followed as long as somebody reads, within the bounds.
Publishing ==
    /\ ~ended /\ downloader # "left"
    /\ stream.nextSegmentID < MaxSegmentID /\ stream.nextPartID < MaxPartID

\* The writer of the stream begins a segment, the first one or the one after a
\* rotation that failed.
ServerBegins ==
    /\ Publishing /\ stream.nextSegment = Server!NoSegment
    /\ stream' = Server!CreateFirstSegment(stream, "done")
    /\ UNCHANGED << vars, clientVars, variant, published, ended >>

ServerRotatesParts ==
    /\ Publishing /\ variant = "LL" /\ stream.nextSegment # Server!NoSegment
    /\ stream' = Server!RotateParts(stream, TRUE, "done")
    /\ UNCHANGED << vars, clientVars, variant, published, ended >>

IDOf(segment) == IF segment.kind = "gap" THEN NoID ELSE segment.id

\* The history of the window: the segments listed now that were not before.
Listed(st) == [i \in 1..Len(st.segments) |-> IDOf(st.segments[i])]

ServerRotatesSegments ==
    /\ Publishing /\ stream.nextSegment # Server!NoSegment
    /\ \E exit \in Server!SegmentExits(stream, IF variant = "LL" THEN {} ELSE Faults) :
        /\ stream' = Server!RotateSegments(stream, exit)
        /\ published' = IF exit = "segFinalize" THEN published
                        ELSE IF published = << >> THEN Listed(stream')
                        ELSE Append(published, stream.nextSegment.id)
    /\ UNCHANGED << vars, clientVars, variant, ended >>

\* The last segment has been listed.  (A muxer of this library never says so.)
ServerEnds ==
    /\ ~ended /\ downloader # "left"
    /\ Server!hasContent(stream) /\ stream.nextSegment.parts = << >>
    /\ ended' = TRUE
    /\ UNCHANGED << vars, clientVars, variant, stream, published >>

ServerNext == ServerBegins \/ ServerRotatesParts \/ ServerRotatesSegments \/ ServerEnds

\* A segment of a playlist; those of a Low-Latency stream start with their
\* first part.
Entry(segment) ==
    [id |-> IDOf(segment),
     date |-> IF segment.parts = << >> THEN 0 ELSE StartOf(Head(segment.parts)),
     duration |-> DurationOf(segment.parts)]

\* generateMediaPlaylist, as far as the client reads it.  The number of the
\* segments listed so far is not part of a playlist but of what is said of it.
GeneratePlaylist ==
    [mediaSequence |-> stream.segmentDeleteCount,
     segments |-> [i \in 1..Len(stream.segments) |-> Entry(stream.segments[i])],
     parts |-> stream.nextSegment.parts,
     hint |-> IF variant = "LL" /\ ~ended THEN stream.nextPartID ELSE NoID,
     endlist |-> ended,
     count |-> Len(published)]

\* The payload behind a path; a server of this library answers an unknown path
\* with an empty body.
SegmentPayload(id) == IF id \in stream.segPaths THEN id ELSE NoID
PartPayload(id) == IF id \in stream.partPaths THEN id ELSE NoID

--------------------------------------------------------------------------------
(***************************************************************************)
(* The downloader.                                                         *)
(***************************************************************************)

\* clientStreamDownloader.run: a Low-Latency stream shows a hint.
ReadFirstPlaylist ==
    /\ StartDownloads
    /\ Server!hasContent(stream)
    /\ playlist' = GeneratePlaylist
    /\ throttled' = (GeneratePlaylist.hint = NoID)
    /\ vod' = ended
    /\ UNCHANGED << serverVars, curSegmentID, downloads, failure >>

FirstPlaylistFails == StartFails /\ UNCHANGED << serverVars, clientVars >>

Downloading == downloader = "push" /\ playlist # NoPlaylist

\* downloadPlaylist.  (The delta updates that a Low-Latency client asks for
\* end with the segments that it looks at.)
ReadPlaylist ==
    /\ downloader = "push" /\ playlist = NoPlaylist
    /\ playlist' = GeneratePlaylist
    /\ UNCHANGED << vars, serverVars, vod, curSegmentID, downloads, failure >>

\* findSegmentWithInvPosition and findSegmentWithID, 0 when there is none.
findSegmentWithInvPosition(invPos) ==
    IF Len(playlist.segments) < invPos THEN 0 ELSE Len(playlist.segments) - invPos + 1

findSegmentWithID(id) ==
    LET index == id - playlist.mediaSequence
    IN  IF index \in 0..Len(playlist.segments) - 1 THEN index + 1 ELSE 0

\* Where downloadNextSegment finds its segment.
NextPosition ==
    IF curSegmentID # NoID THEN findSegmentWithID(curSegmentID + 1)
    ELSE IF vod THEN 1
    ELSE findSegmentWithInvPosition(StartDistance)

TooLate(position) ==
    /\ curSegmentID # NoID /\ ~playlist.endlist
    /\ Len(playlist.segments) - position + 1 > MaxDistance

\* runTraditional: a segment is downloaded and pushed.
DownloadSegment ==
    /\ Downloading /\ throttled
    /\ NextPosition # 0 /\ ~TooLate(NextPosition)
    /\ PushSegment
    /\ LET entry == playlist.segments[NextPosition]
       IN  downloads' = Append(downloads,
               [asked |-> entry.id, got |-> SegmentPayload(entry.id), date |-> entry.date])
    /\ curSegmentID' = playlist.mediaSequence + NextPosition - 1
    /\ playlist' = NoPlaylist
    /\ UNCHANGED << serverVars, vod, failure >>

\* Mutant: the parts behind the last segment are not counted.
dateTimeOfPreloadHintEarly ==
    LET entry == playlist.segments[Len(playlist.segments)] IN entry.date + entry.duration

\* The last segment of a muxer always has a date.
dateTimeOfPreloadHint ==
    LET entry == playlist.segments[Len(playlist.segments)]
    IN  entry.date + entry.duration + DurationOf(playlist.parts)

\* The handler of the hint answers when the part has been published.
HintAnswered == playlist.hint \notin stream.hintPaths

\* runLowLatency: the part of the preload hint is downloaded and pushed.
DownloadHint ==
    /\ Downloading /\ ~throttled
    /\ playlist.hint # NoID /\ HintAnswered
    /\ PushSegment
    /\ downloads' = Append(downloads,
           [asked |-> playlist.hint, got |-> PartPayload(playlist.hint), date |-> dateTimeOfPreloadHint])
    /\ playlist' = NoPlaylist
    /\ UNCHANGED << serverVars, vod, curSegmentID, failure >>

\* Mutant: the end of the list is not tested.
VerdictNoEnd ==
    IF ~throttled THEN IF playlist.hint = NoID THEN "noHint" ELSE "none"
    ELSE IF NextPosition = 0 THEN "notReady"
    ELSE IF TooLate(NextPosition) THEN "tooLate"
    ELSE "none"

\* The errors of runLowLatency, with that of a server that has ended before the
\* part of its hint, and of downloadNextSegment.
Verdict ==
    IF ~throttled
    THEN IF playlist.hint = NoID THEN "noHint"
         ELSE IF ended /\ ~HintAnswered THEN "http"
         ELSE "none"
    ELSE IF NextPosition = 0
    THEN IF curSegmentID = NoID THEN "tooFew"
         ELSE IF playlist.endlist THEN "EOS"
         ELSE "notReady"
    ELSE IF TooLate(NextPosition) THEN "tooLate"
    ELSE "none"

DownloadRefused ==
    /\ Downloading /\ Verdict # "none"
    /\ PushError /\ failure' = Verdict
    /\ UNCHANGED << serverVars, playlist, vod, curSegmentID, downloads >>

\* A request fails, or is cancelled; the wait for the queue is cancelled.
DownloadBreaks ==
    /\ PushError /\ failure' = "http"
    /\ UNCHANGED << serverVars, playlist, vod, curSegmentID, downloads >>

\* The steps of the queue that are not the downloader's own.
QueueStep ==
    /\ waitUntilSizeIsBelow \/ DownloaderWakes \/ ProcessorNext \/ ProcessorFails \/ Cancel
    /\ UNCHANGED << serverVars, clientVars >>

Downloads == ReadPlaylist \/ DownloadSegment \/ DownloadHint \/ DownloadRefused

StreamNext ==
    ServerNext \/ ReadFirstPlaylist \/ FirstPlaylistFails \/ Downloads \/ DownloadBreaks \/ QueueStep

\* Goroutines run and requests are answered, the client cancels its context when
\* one of its goroutines has failed; the server may stop at any time.
StreamFairness ==
    /\ WF_streamVars(ReadFirstPlaylist) /\ WF_streamVars(Downloads)
    /\ WF_streamVars(FirstPlaylistFails /\ cancelled)
    /\ WF_streamVars(DownloadBreaks /\ (cancelled \/ downloader = "failed"))
    /\ WF_streamVars(QueueStep /\ (waitUntilSizeIsBelow \/ DownloaderWakes))
    /\ WF_streamVars(QueueStep /\ ProcessorNext)
    /\ WF_streamVars(QueueStep /\ Cancel /\ (processor = "left" \/ (downloader = "left" /\ pushed = 0)))

StreamSpec == StreamInit /\ [][StreamNext]_streamVars /\ StreamFairness

--------------------------------------------------------------------------------
(***************************************************************************)
(* Properties.                                                             *)
(***************************************************************************)

\* The downloads of a traditional stream follow the history from behind k on.
Follows(k) ==
    k + Len(downloads) <= Len(published)
        /\ \A i \in 1..Len(downloads) : published[k + i] = downloads[i].asked

\* What has come is what was asked for, unless it has left the server for good.
Came(download) ==
    LET paths == IF throttled THEN stream.segPaths ELSE stream.partPaths
    IN  download.got = download.asked \/ (download.got = NoID /\ download.asked \notin paths)

\* A traditional stream is played segment after segment: none is skipped and none
\* repeated, although each is looked for by number in a window that moves, loses
\* identifiers when rotations fail and starts with gaps.  The parts of a
\* Low-Latency stream come in order, each one once.  A payload is empty only when
\* the client has been slower than the window.
DownloadsInOrder ==
    /\ \A i \in 1..Len(downloads) : Came(downloads[i])
    /\ IF throttled
       THEN \E k \in 0..Len(published) : Follows(k)
       ELSE \A i \in 1..Len(downloads) - 1 : downloads[i].asked < downloads[i + 1].asked

\* How the next segment stands in the playlist that was refused, in terms of what
\* the server has published: not there, or further from the end than allowed.
\* A stream that ends tells its end, or has lost the segment; one that does not
\* is not ready only for a processor that has been given all but Limit of the
\* segments that there are.
FailureIsTrue ==
    failure \in {"EOS", "notReady", "tooLate"} =>
        \E k \in 0..Len(published) : Follows(k) /\
            LET next == k + Len(downloads) + 1
                lost == next <= playlist.count - Len(playlist.segments)
            IN  CASE failure = "EOS" -> ended /\ (next > Len(published) \/ lost)
                  [] failure = "notReady" ->
                        /\ ~playlist.endlist
                        /\ lost \/ (next = playlist.count + 1 /\ last >= Len(downloads) - Limit)
                  [] failure = "tooLate" ->
                        ~lost /\ playlist.count - next + 1 > MaxDistance

\* The date given to a part is when it starts, even when the client has missed
\* the part before it.
PartsDated ==
    ~throttled => \A i \in 1..Len(downloads) : downloads[i].date = StartOf(downloads[i].asked)

\* A client of a stream that ends ends, with both its goroutines.
EndReached == ended ~> downloader = "left" /\ processor = "left"
================================================================================
