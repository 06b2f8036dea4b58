--------------------------------- MODULE Client --------------------------------
(***************************************************************************)
(* The goroutines of the client (src/client*.go).  Client.run starts a     *)
(* pool of goroutines and waits for the first error of one of them, or for *)
(* Close; then it cancels the context of the pool and waits for all of     *)
(* them.  The pool holds the primary downloader; for each stream a         *)
(* downloader and a processor, with a segment queue between them; for each *)
(* track a track processor, which calls the application.                   *)
(*                                                                         *)
(* Stream 1 is the leading stream, the others are its audio renditions.    *)
(* Track 1 of a stream is its leading track.  A channel without a buffer   *)
(* is a step of two goroutines.  The segment queue is what SegmentQueue    *)
(* implements, a pipe.                                                     *)
(***************************************************************************)
EXTENDS Integers, Sequences, FiniteSets

CONSTANTS
    NStreams,       \* the streams are 1..NStreams
    NTracks,        \* how many tracks each stream has
    Formats,        \* what the streams may be
    QueueSize,      \* clientMPEGTSSampleQueueSize (100)
    MaxHeld,        \* clientMaxMPEGTSQueuedSamples (1000)
    MaxSegments,    \* bounds: segments of a stream, samples of a segment
    MaxSamples

Streams == 1..NStreams
Tracks(s) == 1..NTracks[s]

Format == [container : {"FMP4", "MPEGTS"}, lowLatency : BOOLEAN]

ASSUME ClientAssumption ==
    /\ NStreams \in Nat \ {0}
    /\ NTracks \in [Streams -> Nat \ {0}]
    /\ Formats \subseteq [Streams -> Format]
    /\ QueueSize \in Nat \ {0}
    /\ MaxHeld \in Nat /\ MaxSegments \in Nat /\ MaxSamples \in Nat

\* The goroutines of the pool.
Primary == << "primary" >>
Downloader(s) == << "downloader", s >>
Processor(s) == << "processor", s >>
TrackProc(s, k) == << "track", s, k >>
TrackProcs(s) == {TrackProc(s, k) : k \in Tracks(s)}

Goroutines ==
    {Primary} \union UNION {{Downloader(s), Processor(s)} \union TrackProcs(s) : s \in Streams}

VARIABLES
    main,       \* Client.run: "running", "stopping", "joining", "done"
    asked,      \* whether Close has been called
    cancelled,  \* the context of the pool
    closeError, \* what Wait2 returns
    pc,         \* where each goroutine is, "off" before it starts
    at,         \* the stream that the primary downloader deals with
    lastErr,    \* err of the primary downloader
    format,     \* the format of each stream
    fetched,    \* segments each stream has downloaded
    queue,      \* its segment queue: "segment", "error", "eos"
    work,       \* the fields of its processor
    tq,         \* the sample queues of its MPEG-TS track processors
    timeConv,   \* Client.timeConv: "none", or the container it is made for
    ntpReceived \* whether chLeadingNTPReceived is closed

life == << main, asked, cancelled, closeError >>
lead == << at, lastErr, format >>
down == << fetched, queue >>
conv == << timeConv, ntpReceived >>
vars == << life, pc, lead, down, work, tq, conv >>

\* The fields of a processor: the tracks of the samples to come and of those
\* held back, whether the leading track was found in the segment, whether the
\* stream has its time conversion and its track processors, how many entries
\* are open (FMP4: segmentWaitGroup, MPEG-TS: chTrackProcessorDone), and the
\* error it has been given.
Work == [todo : Seq(Nat), held : Seq(Nat), found : BOOLEAN, conv : BOOLEAN,
         started : BOOLEAN, open : Nat, err : {"none", "error", "eos"}]

NoWork == [todo |-> << >>, held |-> << >>, found |-> FALSE, conv |-> FALSE,
           started |-> FALSE, open |-> 0, err |-> "none"]

\* "failing": run has returned an error, which the pool tries to pass on.
PrimaryStates == {"playlist", "collect", "onTracks", "start", "errors"}
DownloaderStates == {"off", "playlist", "init", "segment", "full", "parked"}
ProcessorStates ==
    {"off", "init", "offer", "await", "pull", "conv", "stamp", "feed", "read", "join", "wait",
     "report", "parked"}
TrackStates == {"off", "idle", "busy"}
Ends == {"failing", "exited"}

\* One type of all variables.
TypeOK ==
    /\ main \in {"running", "stopping", "joining", "done"}
    /\ asked \in BOOLEAN /\ cancelled \in BOOLEAN
    /\ closeError \in {"none", "terminated", "error", "eos"}
    /\ DOMAIN pc = Goroutines
    /\ pc[Primary] \in PrimaryStates \union Ends
    /\ \A s \in Streams :
        /\ pc[Downloader(s)] \in DownloaderStates \union Ends
        /\ pc[Processor(s)] \in ProcessorStates \union Ends
        /\ \A k \in Tracks(s) : pc[TrackProc(s, k)] \in TrackStates \union Ends
        /\ tq[s] \in [Tracks(s) -> Seq({"sample", "nil"})]
    /\ at \in Streams
    /\ lastErr \in {"error", "eos"}
    /\ format \in [Streams -> Format]
    /\ fetched \in [Streams -> Nat]
    /\ queue \in [Streams -> Seq({"segment", "error", "eos"})]
    /\ work \in [Streams -> Work]
    /\ DOMAIN tq = Streams
    /\ timeConv \in {"none", "FMP4", "MPEGTS"}
    /\ ntpReceived \in BOOLEAN

Init ==
    /\ main = "running"
    /\ asked = FALSE /\ cancelled = FALSE
    /\ closeError = "none"
    /\ pc = [g \in Goroutines |-> IF g = Primary THEN "playlist" ELSE "off"]
    /\ at = 1 /\ lastErr = "error"
    /\ format \in Formats
    /\ fetched = [s \in Streams |-> 0]
    /\ queue = [s \in Streams |-> << >>]
    /\ work = [s \in Streams |-> NoWork]
    /\ tq = [s \in Streams |-> [k \in Tracks(s) |-> << >>]]
    /\ timeConv = "none"
    /\ ntpReceived = FALSE

Goto(g, label) == pc' = [pc EXCEPT ![g] = label]

--------------------------------------------------------------------------------
(***************************************************************************)
(* Client.run and the pool.                                                *)
(***************************************************************************)

\* Called later it changes nothing.
Close ==
    /\ main = "running"
    /\ asked' = TRUE
    /\ UNCHANGED << main, cancelled, closeError, pc, lead, down, work, tq, conv >>

\* The select of runInner: the context of the client ...
SelectDone ==
    /\ main = "running" /\ asked
    /\ main' = "stopping"
    /\ closeError' = "terminated"
    /\ UNCHANGED << asked, cancelled, pc, lead, down, work, tq, conv >>

\* ... or the first error of the pool.
SelectError(g) ==
    /\ main = "running" /\ pc[g] = "failing"
    /\ main' = "stopping"
    /\ closeError' = IF g = Primary THEN lastErr ELSE "error"
    /\ Goto(g, "exited")
    /\ UNCHANGED << asked, cancelled, lead, down, work, tq, conv >>

\* Mutant: the goroutines are waited for but not told to stop.
PoolCancelForgets ==
    /\ main = "stopping"
    /\ main' = "joining"
    /\ UNCHANGED << asked, cancelled, closeError, pc, lead, down, work, tq, conv >>

\* clientRoutinePool.close.
PoolCancel ==
    /\ main = "stopping"
    /\ cancelled' = TRUE
    /\ main' = "joining"
    /\ UNCHANGED << asked, closeError, pc, lead, down, work, tq, conv >>

PoolWait ==
    /\ main = "joining"
    /\ \A g \in Goroutines : pc[g] \in {"off", "exited"}
    /\ main' = "done"
    /\ UNCHANGED << asked, cancelled, closeError, pc, lead, down, work, tq, conv >>

\* The other errors are dropped.
DropError(g) ==
    /\ pc[g] = "failing" /\ cancelled
    /\ Goto(g, "exited")
    /\ UNCHANGED << life, lead, down, work, tq, conv >>

\* Places where run waits for the context among other things, and fails; the
\* pool does not listen any more.
Released(g, labels) ==
    /\ pc[g] \in labels /\ cancelled
    /\ Goto(g, "exited")
    /\ UNCHANGED << life, lead, down, work, tq, conv >>

--------------------------------------------------------------------------------
(***************************************************************************)
(* The primary downloader.                                                 *)
(***************************************************************************)

\* The streams 1..n start, then run goes on or fails.  A media playlist is the
\* first playlist of its only stream.
PrimaryDownload ==
    /\ pc[Primary] = "playlist"
    /\ \E n \in 0..NStreams, ok \in BOOLEAN, first \in {"playlist", "init"} :
        /\ ok => n = NStreams
        /\ first = "init" => n = 1 /\ NStreams = 1
        /\ pc' = [g \in Goroutines |->
                    CASE g = Primary -> IF ok THEN "collect" ELSE "failing"
                      [] \E s \in 1..n : g = Downloader(s) -> first
                      [] OTHER -> pc[g]]
    /\ UNCHANGED << life, lead, down, work, tq, conv >>

\* Mutant: the tracks of the first stream are enough.
CollectTracksOnce ==
    /\ pc[Primary] = "collect" /\ pc[Processor(at)] = "offer"
    /\ pc' = [pc EXCEPT ![Primary] = "onTracks", ![Processor(at)] = "await"]
    /\ UNCHANGED << life, lead, down, work, tq, conv >>

\* A stream hands its tracks over on chTracks.
CollectTracks ==
    /\ pc[Primary] = "collect" /\ pc[Processor(at)] = "offer"
    /\ pc' = [pc EXCEPT ![Primary] = IF at = NStreams THEN "onTracks" ELSE @,
                        ![Processor(at)] = "await"]
    /\ at' = IF at = NStreams THEN 1 ELSE at + 1
    /\ UNCHANGED << life, lastErr, format, down, work, tq, conv >>

\* Client.setTracks: OnTracks may return an error.
SetTracks ==
    /\ pc[Primary] = "onTracks"
    /\ \E label \in {"start", "failing"} : Goto(Primary, label)
    /\ UNCHANGED << life, lead, down, work, tq, conv >>

\* A stream is given the tracks on chStartStreaming.  An MPEG-TS stream starts
\* its track processors and goes on with its first segment.
StartStreaming ==
    /\ pc[Primary] = "start" /\ pc[Processor(at)] = "await"
    /\ LET ts == format[at].container = "MPEGTS"
       IN  /\ pc' = [g \in Goroutines |->
                        CASE g = Primary -> IF at = NStreams THEN "errors" ELSE "start"
                          [] g = Processor(at) -> IF ts THEN "read" ELSE "pull"
                          [] ts /\ g \in TrackProcs(at) -> "idle"
                          [] OTHER -> pc[g]]
           /\ work' = [work EXCEPT ![at].started = ts]
    /\ at' = IF at = NStreams THEN 1 ELSE at + 1
    /\ UNCHANGED << life, lastErr, format, down, tq, conv >>

\* The errors are waited for stream by stream, and the last one is returned.
CollectError ==
    /\ pc[Primary] = "errors" /\ pc[Processor(at)] = "report"
    /\ pc' = [pc EXCEPT ![Primary] = IF at = NStreams THEN "failing" ELSE @,
                        ![Processor(at)] = "parked"]
    /\ at' = IF at = NStreams THEN 1 ELSE at + 1
    /\ lastErr' = work[at].err
    /\ UNCHANGED << life, format, down, work, tq, conv >>

PrimaryNext == PrimaryDownload \/ CollectTracks \/ SetTracks \/ StartStreaming \/ CollectError

--------------------------------------------------------------------------------
(***************************************************************************)
(* The downloader of a stream.                                             *)
(***************************************************************************)

PushSegment(s, item) == queue' = [queue EXCEPT ![s] = Append(@, item)]

DownloadPlaylist(s) ==
    /\ pc[Downloader(s)] = "playlist"
    /\ \E label \in {"init", "failing"} : Goto(Downloader(s), label)
    /\ UNCHANGED << life, lead, down, work, tq, conv >>

\* The init file of an FMP4 stream, and the processor.
StartProcessor(s) ==
    /\ pc[Downloader(s)] = "init"
    /\ \/ /\ pc' = [pc EXCEPT ![Downloader(s)] = "segment",
                              ![Processor(s)] = IF format[s].container = "FMP4" THEN "init" ELSE "pull"]
       \/ format[s].container = "FMP4" /\ Goto(Downloader(s), "failing")
    /\ UNCHANGED << life, lead, down, work, tq, conv >>

\* A segment, or a preload hint, and the playlist that lists it when it is not
\* the first one.
DownloadSegment(s) ==
    /\ pc[Downloader(s)] = "segment" /\ fetched[s] < MaxSegments
    /\ fetched' = [fetched EXCEPT ![s] = @ + 1]
    /\ PushSegment(s, "segment")
    /\ Goto(Downloader(s), IF format[s].lowLatency THEN "segment" ELSE "full")
    /\ UNCHANGED << life, lead, work, tq, conv >>

\* A download fails, or a playlist that has ended has no segment left.
DownloadEnds(s) ==
    /\ pc[Downloader(s)] = "segment"
    /\ \/ PushSegment(s, "error")
       \/ fetched[s] > 0 /\ ~format[s].lowLatency /\ PushSegment(s, "eos")
    /\ Goto(Downloader(s), "parked")
    /\ UNCHANGED << life, lead, fetched, work, tq, conv >>

\* waitUntilSizeIsBelow.
Throttle(s) ==
    /\ pc[Downloader(s)] = "full"
    /\ \/ Len(queue[s]) <= 1 /\ Goto(Downloader(s), "segment") /\ UNCHANGED queue
       \/ cancelled /\ Goto(Downloader(s), "parked") /\ PushSegment(s, "error")
    /\ UNCHANGED << life, lead, fetched, work, tq, conv >>

DownloaderNext(s) ==
    DownloadPlaylist(s) \/ StartProcessor(s) \/ DownloadSegment(s) \/ DownloadEnds(s)
        \/ Throttle(s)

--------------------------------------------------------------------------------
(***************************************************************************)
(* The processor of a stream.                                              *)
(***************************************************************************)

Samples(s) == UNION {[1..n -> Tracks(s)] : n \in 0..MaxSamples}
LeadingFound(samples) == \E i \in DOMAIN samples : samples[i] = 1

\* The init file of an FMP4 stream is read, and may be refused.
ParseInit(s) ==
    /\ pc[Processor(s)] = "init"
    /\ \E label \in {"offer", "failing"} : Goto(Processor(s), label)
    /\ UNCHANGED << life, lead, down, work, tq, conv >>

PullError(s) ==
    /\ pc[Processor(s)] = "pull" /\ queue[s] # << >> /\ Head(queue[s]) # "segment"
    /\ queue' = [queue EXCEPT ![s] = Tail(@)]
    /\ work' = [work EXCEPT ![s].err = Head(queue[s])]
    /\ Goto(Processor(s), "report")
    /\ UNCHANGED << life, lead, fetched, tq, conv >>

\* A segment is read.  Without data of the leading track an FMP4 segment is
\* refused at once, an MPEG-TS segment at its end.  The first segment starts
\* the track processors of an FMP4 stream, or the reader of an MPEG-TS stream.
PullSegment(s) ==
    /\ pc[Processor(s)] = "pull" /\ queue[s] # << >> /\ Head(queue[s]) = "segment"
    /\ queue' = [queue EXCEPT ![s] = Tail(@)]
    /\ LET ts == format[s].container = "MPEGTS"
       IN  \/ /\ ts => ~work[s].started
              /\ Goto(Processor(s), "failing")
              /\ UNCHANGED work
           \/ \E samples \in Samples(s) :
                /\ ts \/ LeadingFound(samples)
                /\ work' = [work EXCEPT ![s].todo = samples,
                                        ![s].found = LeadingFound(samples),
                                        ![s].started = @ \/ ~ts]
                /\ pc' = [g \in Goroutines |->
                            CASE g = Processor(s) ->
                                    IF work[s].started THEN IF ts THEN "read" ELSE "stamp"
                                                       ELSE IF ts THEN "offer" ELSE "conv"
                              [] ~ts /\ ~work[s].started /\ g \in TrackProcs(s) -> "idle"
                              [] OTHER -> pc[g]]
    /\ UNCHANGED << life, lead, fetched, tq, conv >>

\* initializeTimeConv: the leading stream makes the time conversion, the
\* others wait for it and fail when it is of the other kind.
TimeConvReady(s) == s = 1 \/ timeConv # "none"
TimeConvFits(s) == s = 1 \/ timeConv = format[s].container

SetTimeConv(s) == timeConv' = IF s = 1 THEN format[s].container ELSE timeConv

InitTimeConvFMP4(s) ==
    /\ pc[Processor(s)] = "conv" /\ TimeConvReady(s)
    /\ SetTimeConv(s)
    /\ work' = [work EXCEPT ![s].conv = TimeConvFits(s)]
    /\ Goto(Processor(s), IF TimeConvFits(s) THEN "stamp" ELSE "failing")
    /\ UNCHANGED << life, lead, down, tq, ntpReceived >>

\* setLeadingNTPReceived.
Stamp(s) ==
    /\ pc[Processor(s)] = "stamp"
    /\ ntpReceived' = (ntpReceived \/ s = 1)
    /\ Goto(Processor(s), "feed")
    /\ UNCHANGED << life, lead, down, work, tq, timeConv >>

\* A part track goes to its processor; getNTP waits for the leading stream.
Feed(s) ==
    LET k == Head(work[s].todo)
    IN  /\ pc[Processor(s)] = "feed"
        /\ ntpReceived \/ cancelled
        /\ pc[TrackProc(s, k)] = "idle"
        /\ pc' = [pc EXCEPT ![TrackProc(s, k)] = "busy",
                            ![Processor(s)] = IF Len(work[s].todo) = 1 THEN "join" ELSE "feed"]
        /\ work' = [work EXCEPT ![s].todo = Tail(@), ![s].open = @ + 1]
        /\ UNCHANGED << life, lead, down, tq, conv >>

\* Mutant: the wait group is not waited for.
JoinFMP4Early(s) ==
    /\ pc[Processor(s)] = "join" /\ format[s].container = "FMP4"
    /\ Goto(Processor(s), "pull")
    /\ UNCHANGED << life, lead, down, work, tq, conv >>

\* segmentWaitGroup.Wait, which nothing interrupts.
JoinFMP4(s) ==
    /\ pc[Processor(s)] = "join" /\ format[s].container = "FMP4"
    /\ work[s].open = 0
    /\ Goto(Processor(s), "pull")
    /\ UNCHANGED << life, lead, down, work, tq, conv >>

\* A sample of another track that comes before the first one of the leading
\* track is held back.
HoldSample(s) ==
    LET k == Head(work[s].todo)
    IN  /\ pc[Processor(s)] = "read" /\ work[s].todo # << >> /\ ~work[s].conv /\ k # 1
        /\ IF Len(work[s].held) < MaxHeld
           THEN work' = [work EXCEPT ![s].todo = Tail(@), ![s].held = Append(@, k)] /\ UNCHANGED pc
           ELSE Goto(Processor(s), "failing") /\ UNCHANGED work
        /\ UNCHANGED << life, lead, down, tq, conv >>

\* The first sample of the leading track; those held back come after it.
InitTimeConvMPEGTS(s) ==
    /\ pc[Processor(s)] = "read" /\ work[s].todo # << >> /\ ~work[s].conv
    /\ Head(work[s].todo) = 1 /\ TimeConvReady(s)
    /\ SetTimeConv(s)
    /\ IF TimeConvFits(s)
       THEN /\ work' = [work EXCEPT ![s].conv = TRUE, ![s].held = << >>,
                                    ![s].todo = << 1 >> \o work[s].held \o Tail(@)]
            /\ UNCHANGED pc
       ELSE Goto(Processor(s), "failing") /\ UNCHANGED work
    /\ UNCHANGED << life, lead, down, tq, ntpReceived >>

PushToTrack(s, k, entry) ==
    /\ Len(tq[s][k]) < QueueSize
    /\ tq' = [tq EXCEPT ![s][k] = Append(@, entry)]
    /\ work' = [work EXCEPT ![s].todo = Tail(@)]

\* processSample2: a leading sample of the leading stream announces the NTP.
PushSample(s) ==
    LET k == Head(work[s].todo)
    IN  /\ pc[Processor(s)] = "read" /\ work[s].todo # << >> /\ work[s].conv
        /\ ntpReceived' = (ntpReceived \/ (s = 1 /\ k = 1))
        /\ ntpReceived' \/ cancelled
        /\ PushToTrack(s, k, "sample")
        /\ UNCHANGED << life, pc, lead, down, timeConv >>

\* The end of the segment, or data that cannot be read.
SegmentEnds(s) ==
    /\ pc[Processor(s)] = "read" /\ work[s].todo = << >>
    /\ \/ /\ work[s].found
          /\ \E order \in [Tracks(s) -> Tracks(s)] :
                /\ \A j, k \in Tracks(s) : order[j] = order[k] => j = k
                /\ work' = [work EXCEPT ![s].todo = order]
          /\ Goto(Processor(s), "join")
       \/ Goto(Processor(s), "failing") /\ UNCHANGED work
    /\ UNCHANGED << life, lead, down, tq, conv >>

\* joinTrackProcessors: a nil to each track processor, in the order of a map,
\* and an answer from each.
JoinMPEGTS(s) ==
    /\ pc[Processor(s)] = "join" /\ format[s].container = "MPEGTS"
    /\ PushToTrack(s, Head(work[s].todo), "nil")
    /\ Goto(Processor(s), IF Len(work[s].todo) = 1 THEN "wait" ELSE "join")
    /\ UNCHANGED << life, lead, down, conv >>

WaitMPEGTS(s) ==
    /\ pc[Processor(s)] = "wait"
    /\ \/ work[s].open = NTracks[s] /\ work' = [work EXCEPT ![s].open = 0]
       \/ cancelled /\ UNCHANGED work
    /\ Goto(Processor(s), "pull")
    /\ UNCHANGED << life, lead, down, tq, conv >>

\* Mutants: the context does not end the wait for the other streams' tracks, or
\* for the time conversion.
ProcessorKeptInOffer(s) ==
    /\ pc[Processor(s)] = "pull" => queue[s] = << >>
    /\ pc[Processor(s)] \in {"read", "join"} => work[s].todo # << >>
    /\ pc[Processor(s)] = "read" => work[s].conv \/ Head(work[s].todo) = 1
    /\ Released(Processor(s), {"await", "pull", "conv", "feed", "read", "join", "report", "parked"})

ProcessorKeptInConv(s) ==
    /\ pc[Processor(s)] = "pull" => queue[s] = << >>
    /\ pc[Processor(s)] \in {"read", "join"} => work[s].todo # << >>
    /\ pc[Processor(s)] = "read" => work[s].conv
    /\ Released(Processor(s), {"offer", "await", "pull", "feed", "read", "join", "report", "parked"})

\* The waits that the context ends: for the tracks, the queue, the time
\* conversion, a track processor.
ProcessorReleased(s) ==
    /\ pc[Processor(s)] = "pull" => queue[s] = << >>
    /\ pc[Processor(s)] \in {"read", "join"} => work[s].todo # << >>
    /\ pc[Processor(s)] = "read" => work[s].conv \/ Head(work[s].todo) = 1
    /\ Released(Processor(s), {"offer", "await", "pull", "conv", "feed", "read", "join", "report", "parked"})

ProcessorNext(s) ==
    \/ ParseInit(s) \/ PullError(s) \/ PullSegment(s)
    \/ InitTimeConvFMP4(s) \/ Stamp(s) \/ Feed(s) \/ JoinFMP4(s)
    \/ HoldSample(s) \/ InitTimeConvMPEGTS(s) \/ PushSample(s) \/ SegmentEnds(s)
    \/ JoinMPEGTS(s) \/ WaitMPEGTS(s)
    \/ ProcessorReleased(s)

--------------------------------------------------------------------------------
(***************************************************************************)
(* The track processors.                                                   *)
(***************************************************************************)

\* Mutant: the wait group is not told of a failure.
TrackEndsFMP4Silently(s, k) ==
    /\ pc[TrackProc(s, k)] = "busy" /\ format[s].container = "FMP4"
    /\ \/ work' = [work EXCEPT ![s].open = @ - 1] /\ Goto(TrackProc(s, k), "idle")
       \/ UNCHANGED work /\ Goto(TrackProc(s, k), "failing")
    /\ UNCHANGED << life, lead, down, tq, conv >>

\* A part track has been processed, or one of its samples was refused by
\* decodePayload or handleData, which calls the application.  Either way the
\* wait group is told.
TrackEndsFMP4(s, k) ==
    /\ pc[TrackProc(s, k)] = "busy" /\ format[s].container = "FMP4"
    /\ work' = [work EXCEPT ![s].open = @ - 1]
    /\ \E label \in {"idle", "failing"} : Goto(TrackProc(s, k), label)
    /\ UNCHANGED << life, lead, down, tq, conv >>

\* The next sample, or the nil that asks for an answer.
TrackTakes(s, k) ==
    /\ pc[TrackProc(s, k)] = "idle" /\ tq[s][k] # << >>
    /\ tq' = [tq EXCEPT ![s][k] = Tail(@)]
    /\ IF Head(tq[s][k]) = "nil"
       THEN work' = [work EXCEPT ![s].open = @ + 1] /\ UNCHANGED pc
       ELSE Goto(TrackProc(s, k), "busy") /\ UNCHANGED work
    /\ UNCHANGED << life, lead, down, conv >>

TrackEndsMPEGTS(s, k) ==
    /\ pc[TrackProc(s, k)] = "busy" /\ format[s].container = "MPEGTS"
    /\ \E label \in {"idle", "failing"} : Goto(TrackProc(s, k), label)
    /\ UNCHANGED << life, lead, down, work, tq, conv >>

\* The context ends run without an error.
TrackStops(s, k) ==
    /\ pc[TrackProc(s, k)] = "idle" /\ cancelled
    /\ Goto(TrackProc(s, k), "exited")
    /\ UNCHANGED << life, lead, down, work, tq, conv >>

TrackNext(s, k) ==
    TrackEndsFMP4(s, k) \/ TrackTakes(s, k) \/ TrackEndsMPEGTS(s, k) \/ TrackStops(s, k)

--------------------------------------------------------------------------------
MainNext == SelectDone \/ PoolCancel \/ PoolWait \/ \E g \in Goroutines : SelectError(g)

PrimaryReleased == Released(Primary, {"collect", "start", "errors"})
DownloaderReleased(s) == Released(Downloader(s), {"parked"})

Next ==
    \/ Close
    \/ MainNext
    \/ \E g \in Goroutines : DropError(g)
    \/ PrimaryNext \/ PrimaryReleased
    \/ \E s \in Streams :
        \/ DownloaderNext(s) \/ DownloaderReleased(s)
        \/ ProcessorNext(s)
        \/ \E k \in Tracks(s) : TrackNext(s, k)

\* The goroutines run, and the callbacks of the application return; an answer
\* to an HTTP request may never come, unless the request is cancelled.
PrimaryFair ==
    \/ DropError(Primary) \/ PrimaryReleased
    \/ PrimaryNext /\ (pc[Primary] = "playlist" => cancelled)
DownloaderFair(s) ==
    \/ DropError(Downloader(s)) \/ DownloaderReleased(s)
    \/ Throttle(s)
    \/ DownloaderNext(s) /\ cancelled

Fairness ==
    /\ WF_vars(MainNext)
    /\ WF_vars(PrimaryFair)
    /\ \A s \in Streams :
        /\ WF_vars(DownloaderFair(s))
        /\ WF_vars(ProcessorNext(s) \/ DropError(Processor(s)))
        /\ \A k \in Tracks(s) : WF_vars(TrackNext(s, k) \/ DropError(TrackProc(s, k)))

Spec == Init /\ [][Next]_vars /\ Fairness

--------------------------------------------------------------------------------
(***************************************************************************)
(* Safety.                                                                 *)
(***************************************************************************)

\* The application gets data only after OnTracks has returned, hence after all
\* of the streams have their tracks, and after the system clock of the time
\* conversion has been started.
DataAfterTracks ==
    \A s \in Streams : \A k \in Tracks(s) :
        pc[TrackProc(s, k)] = "busy" =>
            /\ timeConv = format[s].container
            /\ pc[Primary] \notin {"playlist", "collect", "onTracks"}
            /\ \A t \in Streams : pc[Processor(t)] \notin {"off", "init", "offer"}

\* Segments do not overlap: when a processor asks for the next one, the track
\* processors are done with the last one, unless the client ends.
SegmentsJoined ==
    \A s \in Streams :
        pc[Processor(s)] = "pull" /\ ~cancelled =>
            /\ work[s].open = 0
            /\ \A k \in Tracks(s) : tq[s][k] = << >> /\ pc[TrackProc(s, k)] # "busy"

\* While the client ends, no goroutine waits for the network or for another one that
\* waits: each of them can take a step of its own, unless it is in a callback of the
\* application (OnTracks, or the data callback of a track), or waits for the wait group
\* of its segment (segmentWaitGroup.Wait), and then a track processor is in its callback.
ClosingNeverBlocks ==
    LET alive(g) == pc[g] \notin {"off", "exited"}
        called(s, k) == pc[TrackProc(s, k)] = "busy"
    IN  cancelled =>
            /\ alive(Primary) /\ pc[Primary] # "onTracks" => ENABLED PrimaryFair
            /\ \A s \in Streams :
                /\ alive(Downloader(s)) => ENABLED DownloaderFair(s)
                /\ alive(Processor(s)) =>
                    \/ /\ pc[Processor(s)] = "join" /\ format[s].container = "FMP4"
                       /\ \E k \in Tracks(s) : called(s, k)
                    \/ ENABLED (ProcessorNext(s) \/ DropError(Processor(s)))
                /\ \A k \in Tracks(s) :
                    alive(TrackProc(s, k)) /\ ~called(s, k) =>
                        ENABLED (TrackNext(s, k) \/ DropError(TrackProc(s, k)))

(***************************************************************************)
(* Liveness.                                                               *)
(***************************************************************************)

\* Close ends the client, whatever its goroutines are doing.
CloseEndsClient == asked ~> main = "done"

\* An error of any goroutine ends the client.
FailureEndsClient == (\E g \in Goroutines : pc[g] = "failing") ~> main = "done"

\* The wait for the track processors of a segment ends.
JoinsEnd ==
    \A s \in Streams :
        pc[Processor(s)] \in {"join", "wait"} ~>
            pc[Processor(s)] \notin {"join", "wait"} \/ main = "done"

\* A stream that cannot go on ends the client.
StreamErrorEndsClient ==
    \A s \in Streams : pc[Downloader(s)] = "parked" ~> main = "done"
================================================================================
