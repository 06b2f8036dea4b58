------------------------------ MODULE ClientProofs -----------------------------
(***************************************************************************)
(* What the goroutines of a client never do, whatever the number of        *)
(* streams and tracks, the kinds of the streams and the sizes of the       *)
(* queues.                                                                 *)
(***************************************************************************)
EXTENDS Client, FiniteSetTheorems, TLAPS

--------------------------------------------------------------------------------
(***************************************************************************)
(* The invariant of a stream: its downloader, its processor, its track     *)
(* processors, and what they share.                                        *)
(***************************************************************************)

States == PrimaryStates \union DownloaderStates \union ProcessorStates \union TrackStates \union Ends

WorkOf(s) ==
    [todo : Seq(Tracks(s)), held : Seq(Tracks(s)), found : BOOLEAN, conv : BOOLEAN,
     started : BOOLEAN, open : Nat, err : {"none", "error", "eos"}]

GlobalTyped ==
    /\ main \in {"running", "stopping", "joining", "done"}
    /\ asked \in BOOLEAN /\ cancelled \in BOOLEAN
    /\ closeError \in {"none", "terminated", "error", "eos"}
    /\ pc \in [Goroutines -> States]
    /\ pc[Primary] \in PrimaryStates \union Ends
    /\ at \in Streams
    /\ lastErr \in {"error", "eos"}
    /\ format \in [Streams -> Format]
    /\ fetched \in [Streams -> Nat]
    /\ queue \in [Streams -> Seq({"segment", "error", "eos"})]
    /\ work = [s \in Streams |-> work[s]]
    /\ tq = [s \in Streams |-> tq[s]]
    /\ timeConv \in {"none", format[1].container}
    /\ ntpReceived \in BOOLEAN

LocalTyped(s) ==
    /\ pc[Downloader(s)] \in DownloaderStates \union Ends
    /\ pc[Processor(s)] \in ProcessorStates \union Ends
    /\ \A k \in Tracks(s) : pc[TrackProc(s, k)] \in TrackStates \union Ends
    /\ work[s] \in WorkOf(s)
    /\ tq[s] \in [Tracks(s) -> Seq({"sample", "nil"})]
    /\ pc[Processor(s)] = "report" => work[s].err # "none"

\* The primary downloader starts the downloader of a stream, and that one the
\* processor; as long as the tracks are not known, and until the first segment of
\* an FMP4 stream, no track processor runs.
Beginning(s) ==
    /\ pc[Primary] = "playlist" => pc[Downloader(s)] = "off"
    /\ pc[Downloader(s)] \in {"off", "playlist", "init"} => pc[Processor(s)] = "off"
    /\ pc[Processor(s)] \in {"off", "init", "offer", "await"} => ~work[s].started
    /\ ~work[s].started =>
        /\ work[s].open = 0
        /\ \A k \in Tracks(s) : pc[TrackProc(s, k)] = "off" /\ tq[s][k] = << >>
    /\ work[s].conv => timeConv = format[s].container

Busy(s) == {k \in Tracks(s) : pc[TrackProc(s, k)] = "busy"}

\* The wait group of an FMP4 stream counts the part tracks that are processed.
FMP4Inv(s) ==
    format[s].container = "FMP4" =>
        /\ pc[Processor(s)] \notin {"read", "wait"}
        /\ \A k \in Tracks(s) : tq[s][k] = << >>
        /\ work[s].open = Cardinality(Busy(s))
        /\ pc[Processor(s)] \in {"pull", "conv", "stamp"} => work[s].open = 0
        /\ pc[Processor(s)] \in {"conv", "stamp", "feed"} => work[s].todo # << >> /\ work[s].started
        /\ \/ pc[Processor(s)] \in {"stamp", "feed", "join"}
           \/ pc[Processor(s)] = "pull" /\ work[s].started
           \/ Busy(s) # {}
           => work[s].conv

Entries(q) == {q[i] : i \in 1..Len(q)}

\* The track processors that have not been sent their nil.
Unsent(s) == Entries(work[s].todo)

\* Those that have answered it.
Answered(s) == {k \in Tracks(s) \ Unsent(s) : tq[s][k] = << >>}

\* The nil is the last entry of the queue, or has been answered by a track
\* processor that has nothing left to do.
NilSent(s, k) ==
    LET q == tq[s][k]
    IN  IF q = << >> THEN pc[TrackProc(s, k)] # "busy"
        ELSE q[Len(q)] = "nil" /\ \A i \in 1..Len(q) - 1 : q[i] = "sample"

\* The answers are counted, as long as the client does not end.
Joining(s) ==
    /\ pc[Processor(s)] \in {"pull", "read"} =>
        work[s].open = 0 /\ \A k \in Tracks(s) : "nil" \notin Entries(tq[s][k])
    /\ pc[Processor(s)] = "pull" =>
        \A k \in Tracks(s) : tq[s][k] = << >> /\ pc[TrackProc(s, k)] # "busy"
    /\ pc[Processor(s)] = "wait" => work[s].todo = << >>
    /\ pc[Processor(s)] \in {"join", "wait"} =>
        /\ \A i, j \in 1..Len(work[s].todo) : work[s].todo[i] = work[s].todo[j] => i = j
        /\ \A k \in Unsent(s) : "nil" \notin Entries(tq[s][k])
        /\ \A k \in Tracks(s) \ Unsent(s) : NilSent(s, k)
        /\ work[s].open = Cardinality(Answered(s))

MPEGTSInv(s) ==
    format[s].container = "MPEGTS" =>
        /\ pc[Processor(s)] \notin {"init", "conv", "stamp", "feed"}
        /\ pc[Processor(s)] \in {"read", "join", "wait"} => work[s].started
        /\ pc[Processor(s)] = "join" => work[s].todo # << >>
        /\ \A k \in Tracks(s) :
            "sample" \in Entries(tq[s][k]) \/ pc[TrackProc(s, k)] = "busy" => work[s].conv
        /\ ~cancelled => Joining(s)

StreamInv(s) == LocalTyped(s) /\ Beginning(s) /\ FMP4Inv(s) /\ MPEGTSInv(s)

ClientInv == GlobalTyped /\ \A s \in Streams : StreamInv(s)

--------------------------------------------------------------------------------
(***************************************************************************)
(* The goroutines are different ones, and a step moves few of them.        *)
(***************************************************************************)

LEMMA Names ==
    /\ Primary \in Goroutines
    /\ \A s \in Streams :
        /\ Downloader(s) \in Goroutines /\ Processor(s) \in Goroutines
        /\ \A k \in Tracks(s) : TrackProc(s, k) \in TrackProcs(s) /\ TrackProc(s, k) \in Goroutines
  BY DEF Goroutines, TrackProcs

LEMMA Distinct ==
    ASSUME NEW s, NEW t
    PROVE  /\ Downloader(s) # Primary /\ Processor(s) # Primary /\ Downloader(s) # Processor(t)
           /\ Downloader(s) = Downloader(t) => s = t
           /\ Processor(s) = Processor(t) => s = t
           /\ \A k : /\ TrackProc(s, k) # Primary
                     /\ TrackProc(s, k) # Downloader(t) /\ TrackProc(s, k) # Processor(t)
           /\ \A j, k : TrackProc(s, k) = TrackProc(t, j) => s = t /\ k = j
           /\ \A g \in TrackProcs(s) : \E k \in Tracks(s) : g = TrackProc(s, k)
           /\ t # s => \A k : TrackProc(t, k) \notin TrackProcs(s)
           /\ Primary \notin TrackProcs(s) /\ Downloader(t) \notin TrackProcs(s)
           /\ Processor(t) \notin TrackProcs(s)
<1>1. /\ Downloader(s) # Primary /\ Processor(s) # Primary /\ Downloader(s) # Processor(t)
      /\ Downloader(s) = Downloader(t) => s = t
      /\ Processor(s) = Processor(t) => s = t
  BY DEF Downloader, Processor, Primary
<1>2. \A k : /\ TrackProc(s, k) # Primary
             /\ TrackProc(s, k) # Downloader(t) /\ TrackProc(s, k) # Processor(t)
  BY DEF Downloader, Processor, Primary, TrackProc
<1>3. \A j, k : TrackProc(s, k) = TrackProc(t, j) => s = t /\ k = j
  BY DEF TrackProc
<1>4. \A g \in TrackProcs(s) : \E k \in Tracks(s) : g = TrackProc(s, k)
  BY DEF TrackProcs
<1>5. t # s => \A k : TrackProc(t, k) \notin TrackProcs(s)
  BY <1>3, <1>4
<1>6. /\ Primary \notin TrackProcs(s) /\ Downloader(t) \notin TrackProcs(s)
      /\ Processor(t) \notin TrackProcs(s)
  BY <1>2, <1>4
<1> QED
  BY <1>1, <1>2, <1>3, <1>4, <1>5, <1>6

\* A goroutine goes to a label, and nobody else moves.
LEMMA Goes ==
    ASSUME pc \in [Goroutines -> States], NEW g \in Goroutines, NEW l \in States, Goto(g, l)
    PROVE  /\ pc' \in [Goroutines -> States] /\ pc'[g] = l
           /\ \A h \in Goroutines \ {g} : pc'[h] = pc[h]
  BY DEF Goto

\* What a step of a stream leaves alone: the goroutines of the other streams, and
\* the rest of their state.
LocalStep(s) ==
    /\ pc' \in [Goroutines -> States]
    /\ \A t \in Streams \ {s} :
        /\ pc'[Downloader(t)] = pc[Downloader(t)] /\ pc'[Processor(t)] = pc[Processor(t)]
        /\ \A k \in Tracks(t) : pc'[TrackProc(t, k)] = pc[TrackProc(t, k)]
        /\ work'[t] = work[t] /\ tq'[t] = tq[t]
    /\ work' = [t \in Streams |-> work'[t]] /\ tq' = [t \in Streams |-> tq'[t]]
    /\ format' = format /\ (cancelled => cancelled')
    /\ timeConv # "none" => timeConv' = timeConv
    /\ pc'[Primary] = "playlist" => pc[Primary] = "playlist"

\* A stream that a step leaves alone.
SameStream(s) ==
    /\ pc'[Downloader(s)] = pc[Downloader(s)] /\ pc'[Processor(s)] = pc[Processor(s)]
    /\ \A k \in Tracks(s) : pc'[TrackProc(s, k)] = pc[TrackProc(s, k)]
    /\ work'[s] = work[s] /\ tq'[s] = tq[s]
    /\ format' = format /\ (cancelled => cancelled')
    /\ timeConv # "none" => timeConv' = timeConv
    /\ pc'[Primary] = "playlist" => pc[Primary] = "playlist"

LEMMA FormatOf ==
    ASSUME GlobalTyped, NEW s \in Streams
    PROVE  format[s].container \in {"FMP4", "MPEGTS"} /\ format[s].lowLatency \in BOOLEAN
  BY DEF GlobalTyped, Format

LEMMA SameStreamKeeps ==
    ASSUME GlobalTyped, NEW s \in Streams, StreamInv(s), SameStream(s)
    PROVE  StreamInv(s)'
<1>1. LocalTyped(s)'
  BY DEF StreamInv, LocalTyped, SameStream, WorkOf, Tracks
<1>2. Beginning(s)'
  BY FormatOf DEF StreamInv, Beginning, SameStream, Tracks
<1>3. Busy(s)' = Busy(s) /\ Unsent(s)' = Unsent(s) /\ Answered(s)' = Answered(s)
  BY DEF Busy, Unsent, Answered, SameStream, Tracks
<1>4. FMP4Inv(s)'
  BY <1>3 DEF StreamInv, FMP4Inv, SameStream, Tracks
<1>5. \A k \in Tracks(s) : NilSent(s, k) => NilSent(s, k)'
  BY DEF NilSent, SameStream
<1>6. Joining(s) => Joining(s)'
  BY <1>3, <1>5 DEF Joining, SameStream, Tracks
<1>7. MPEGTSInv(s)'
  BY <1>6 DEF StreamInv, MPEGTSInv, SameStream, Tracks
<1> QED
  BY <1>1, <1>2, <1>4, <1>7 DEF StreamInv

\* The invariant of all streams follows from that of the stream that takes a step.
LEMMA LocalStepKeeps ==
    ASSUME ClientInv, NEW s \in Streams, LocalStep(s), StreamInv(s)', GlobalTyped'
    PROVE  ClientInv'
<1>1. ASSUME NEW t \in Streams PROVE StreamInv(t)'
  <2>1. CASE t = s
    BY <2>1
  <2>2. CASE t # s
    <3>1. SameStream(t)
      BY <2>2 DEF LocalStep, SameStream
    <3> QED
      BY <3>1, SameStreamKeeps DEF ClientInv
  <2> QED
    BY <2>1, <2>2
<1> QED
  BY <1>1 DEF ClientInv, Streams

\* The goroutines of the other streams stay where they are.
PcElsewhere(s) ==
    /\ pc' \in [Goroutines -> States]
    /\ \A t \in Streams \ {s} :
        /\ pc'[Downloader(t)] = pc[Downloader(t)] /\ pc'[Processor(t)] = pc[Processor(t)]
        /\ \A k \in Tracks(t) : pc'[TrackProc(t, k)] = pc[TrackProc(t, k)]

\* The track processors of a stream stay where they are.
TracksStay(s) == \A k \in Tracks(s) : pc'[TrackProc(s, k)] = pc[TrackProc(s, k)]

LEMMA Elsewhere ==
    ASSUME NEW s \in Streams, pc' \in [Goroutines -> States],
           \A h \in Goroutines :
            h \notin {Primary, Downloader(s), Processor(s)} \union TrackProcs(s) => pc'[h] = pc[h]
    PROVE  PcElsewhere(s)
<1>1. ASSUME NEW t \in Streams, t # s
      PROVE  /\ pc'[Downloader(t)] = pc[Downloader(t)] /\ pc'[Processor(t)] = pc[Processor(t)]
             /\ \A k \in Tracks(t) : pc'[TrackProc(t, k)] = pc[TrackProc(t, k)]
  <2>1. /\ Downloader(t) \in Goroutines /\ Processor(t) \in Goroutines
        /\ \A k \in Tracks(t) : TrackProc(t, k) \in Goroutines
    BY Names
  <2>2. Downloader(t) \notin {Primary, Downloader(s), Processor(s)} \union TrackProcs(s)
    BY <1>1, Distinct
  <2>3. Processor(t) \notin {Primary, Downloader(s), Processor(s)} \union TrackProcs(s)
    BY <1>1, Distinct
  <2>4. \A k \in Tracks(t) :
            TrackProc(t, k) \notin {Primary, Downloader(s), Processor(s)} \union TrackProcs(s)
    BY <1>1, Distinct
  <2> QED
    BY <2>1, <2>2, <2>3, <2>4
<1> QED
  BY <1>1 DEF PcElsewhere

LEMMA ProcessorGoes ==
    ASSUME GlobalTyped, NEW s \in Streams, NEW l \in States, Goto(Processor(s), l)
    PROVE  /\ PcElsewhere(s) /\ TracksStay(s)
           /\ pc'[Processor(s)] = l /\ pc'[Downloader(s)] = pc[Downloader(s)]
           /\ pc'[Primary] = pc[Primary]
<1>1. Processor(s) \in Goroutines /\ pc \in [Goroutines -> States]
  BY Names DEF GlobalTyped
<1>2. /\ pc' \in [Goroutines -> States] /\ pc'[Processor(s)] = l
      /\ \A h \in Goroutines \ {Processor(s)} : pc'[h] = pc[h]
  BY <1>1, Goes
<1>3. PcElsewhere(s)
  BY <1>2, Elsewhere
<1>4. TracksStay(s)
  BY <1>2, Names, Distinct DEF TracksStay
<1> QED
  BY <1>2, <1>3, <1>4, Names, Distinct

LEMMA DownloaderGoes ==
    ASSUME GlobalTyped, NEW s \in Streams, NEW l \in States, Goto(Downloader(s), l)
    PROVE  /\ PcElsewhere(s) /\ TracksStay(s)
           /\ pc'[Downloader(s)] = l /\ pc'[Processor(s)] = pc[Processor(s)]
           /\ pc'[Primary] = pc[Primary]
<1>1. Downloader(s) \in Goroutines /\ pc \in [Goroutines -> States]
  BY Names DEF GlobalTyped
<1>2. /\ pc' \in [Goroutines -> States] /\ pc'[Downloader(s)] = l
      /\ \A h \in Goroutines \ {Downloader(s)} : pc'[h] = pc[h]
  BY <1>1, Goes
<1>3. PcElsewhere(s)
  BY <1>2, Elsewhere
<1>4. TracksStay(s)
  BY <1>2, Names, Distinct DEF TracksStay
<1> QED
  BY <1>2, <1>3, <1>4, Names, Distinct

LEMMA TrackGoes ==
    ASSUME GlobalTyped, NEW s \in Streams, NEW k \in Tracks(s), NEW l \in States,
           Goto(TrackProc(s, k), l)
    PROVE  /\ PcElsewhere(s)
           /\ pc'[TrackProc(s, k)] = l
           /\ \A j \in Tracks(s) \ {k} : pc'[TrackProc(s, j)] = pc[TrackProc(s, j)]
           /\ pc'[Processor(s)] = pc[Processor(s)] /\ pc'[Downloader(s)] = pc[Downloader(s)]
           /\ pc'[Primary] = pc[Primary]
<1>1. TrackProc(s, k) \in Goroutines /\ pc \in [Goroutines -> States]
  BY Names DEF GlobalTyped
<1>2. /\ pc' \in [Goroutines -> States] /\ pc'[TrackProc(s, k)] = l
      /\ \A h \in Goroutines \ {TrackProc(s, k)} : pc'[h] = pc[h]
  BY <1>1, Goes
<1>3. PcElsewhere(s)
  BY <1>2, Names, Elsewhere
<1>4. \A j \in Tracks(s) \ {k} : pc'[TrackProc(s, j)] = pc[TrackProc(s, j)]
  BY <1>2, Names, Distinct
<1> QED
  BY <1>2, <1>3, <1>4, Names, Distinct

LEMMA PrimaryGoes ==
    ASSUME GlobalTyped, NEW l \in States, Goto(Primary, l)
    PROVE  /\ pc' \in [Goroutines -> States] /\ pc'[Primary] = l
           /\ \A s \in Streams :
                /\ pc'[Downloader(s)] = pc[Downloader(s)] /\ pc'[Processor(s)] = pc[Processor(s)]
                /\ TracksStay(s)
<1>1. Primary \in Goroutines /\ pc \in [Goroutines -> States]
  BY Names DEF GlobalTyped
<1>2. /\ pc' \in [Goroutines -> States] /\ pc'[Primary] = l
      /\ \A h \in Goroutines \ {Primary} : pc'[h] = pc[h]
  BY <1>1, Goes
<1> QED
  BY <1>2, Names, Distinct DEF TracksStay

\* A step that changes no stream.
LEMMA NoStreamKeeps ==
    ASSUME ClientInv, GlobalTyped', \A s \in Streams : SameStream(s)
    PROVE  ClientInv'
<1>1. ASSUME NEW s \in Streams PROVE StreamInv(s)'
  BY SameStreamKeeps DEF ClientInv
<1> QED
  BY <1>1 DEF ClientInv, Streams

LEMMA InitClientInv == Init => ClientInv
<1> SUFFICES ASSUME Init PROVE ClientInv
  OBVIOUS
<1>1. ASSUME NEW s \in Streams PROVE StreamInv(s)
  <2>1. /\ pc[Downloader(s)] = "off" /\ pc[Processor(s)] = "off"
        /\ \A k \in Tracks(s) : pc[TrackProc(s, k)] = "off"
    BY Names, Distinct DEF Init
  <2>2. work[s] = NoWork /\ tq[s] = [k \in Tracks(s) |-> << >>]
    BY DEF Init
  <2>3. /\ ~work[s].started /\ work[s].open = 0 /\ ~work[s].conv
        /\ \A k \in Tracks(s) : tq[s][k] = << >>
    BY <2>2 DEF NoWork
  <2>4. LocalTyped(s)
    <3>1. NoWork \in WorkOf(s)
      <4>1. << >> \in Seq(Tracks(s))
        OBVIOUS
      <4> QED
        BY <4>1 DEF NoWork, WorkOf
    <3> QED
      BY <2>1, <2>2, <3>1 DEF LocalTyped, DownloaderStates, ProcessorStates, TrackStates
  <2>5. Beginning(s)
    BY <2>1, <2>3 DEF Beginning
  <2>6. Busy(s) = {} /\ Cardinality({}) = 0
    BY <2>1, FS_EmptySet DEF Busy
  <2>7. FMP4Inv(s)
    BY <2>1, <2>3, <2>6 DEF FMP4Inv
  <2>8. MPEGTSInv(s)
    BY <2>1, <2>3 DEF MPEGTSInv, Joining, Entries
  <2> QED
    BY <2>4, <2>5, <2>7, <2>8 DEF StreamInv
<1>2. GlobalTyped
  <2>1. format \in [Streams -> Format] /\ 1 \in Streams
    BY ClientAssumption DEF Init, ClientAssumption, Streams
  <2>2. pc \in [Goroutines -> States] /\ pc[Primary] = "playlist"
    BY Names DEF Init, States, PrimaryStates, TrackStates
  <2>3. work = [s \in Streams |-> work[s]] /\ tq = [s \in Streams |-> tq[s]]
    BY DEF Init
  <2>4. /\ fetched \in [Streams -> Nat]
        /\ queue \in [Streams -> Seq({"segment", "error", "eos"})]
    BY DEF Init
  <2>5. /\ main = "running" /\ asked = FALSE /\ cancelled = FALSE /\ closeError = "none"
        /\ at = 1 /\ lastErr = "error" /\ timeConv = "none" /\ ntpReceived = FALSE
    BY DEF Init
  <2> QED
    BY <2>1, <2>2, <2>3, <2>4, <2>5 DEF GlobalTyped, PrimaryStates
<1> QED
  BY <1>1, <1>2 DEF ClientInv

--------------------------------------------------------------------------------
(***************************************************************************)
(* Client.run, the ends of goroutines, and the primary downloader.         *)
(***************************************************************************)

\* A step of Client.run alone.
LEMMA MainKeeps ==
    ASSUME ClientInv, Close \/ SelectDone \/ PoolCancel \/ PoolWait
    PROVE  ClientInv'
<1>1. UNCHANGED << pc, lead, down, work, tq, conv >> /\ (cancelled => cancelled')
  BY DEF Close, SelectDone, PoolCancel, PoolWait
<1>2. /\ main' \in {"running", "stopping", "joining", "done"}
      /\ asked' \in BOOLEAN /\ cancelled' \in BOOLEAN
      /\ closeError' \in {"none", "terminated", "error", "eos"}
  BY DEF Close, SelectDone, PoolCancel, PoolWait, ClientInv, GlobalTyped
<1>3. GlobalTyped'
  BY <1>1, <1>2 DEF ClientInv, GlobalTyped, lead, down, conv, Streams
<1>4. \A s \in Streams : SameStream(s)
  BY <1>1 DEF SameStream, lead, conv
<1> QED
  BY <1>3, <1>4, NoStreamKeeps

\* A goroutine exits: one that does not process data, and has been started.
LEMMA ExitKeeps ==
    ASSUME ClientInv, NEW g \in Goroutines, pc[g] \notin {"off", "busy"}, Goto(g, "exited"),
           UNCHANGED << asked, cancelled, lead, down, work, tq, conv >>,
           main' \in {"running", "stopping", "joining", "done"},
           closeError' \in {"none", "terminated", "error", "eos"}
    PROVE  ClientInv'
<1>1. "exited" \in States /\ GlobalTyped
  BY DEF States, Ends, ClientInv
<1>2. pc' \in [Goroutines -> States]
  BY <1>1, Goes DEF GlobalTyped
<1>3. ASSUME pc'[Primary] = pc[Primary] \/ pc'[Primary] = "exited" PROVE GlobalTyped'
  BY <1>1, <1>2, <1>3 DEF GlobalTyped, lead, down, conv, Streams, Ends
<1>4. CASE g = Primary
  <2>1. /\ pc'[Primary] = "exited"
        /\ \A s \in Streams :
            /\ pc'[Downloader(s)] = pc[Downloader(s)] /\ pc'[Processor(s)] = pc[Processor(s)]
            /\ TracksStay(s)
    BY <1>1, <1>4, PrimaryGoes
  <2>2. \A s \in Streams : SameStream(s)
    BY <2>1 DEF SameStream, TracksStay, lead, conv
  <2> QED
    BY <1>3, <2>1, <2>2, NoStreamKeeps
<1>5. ASSUME NEW s \in Streams, PcElsewhere(s), pc'[Primary] = pc[Primary] PROVE LocalStep(s)
  BY <1>1, <1>5 DEF LocalStep, PcElsewhere, GlobalTyped, lead, conv
<1>6. ASSUME NEW s \in Streams PROVE StreamInv(s)
  BY DEF ClientInv
<1>7. ASSUME NEW s \in Streams, g = Downloader(s) PROVE ClientInv'
  <2>1. /\ PcElsewhere(s) /\ TracksStay(s) /\ pc'[Downloader(s)] = "exited"
        /\ pc'[Processor(s)] = pc[Processor(s)] /\ pc'[Primary] = pc[Primary]
    BY <1>1, <1>7, DownloaderGoes
  <2>2. LocalTyped(s)'
    BY <1>6, <2>1 DEF StreamInv, LocalTyped, TracksStay, Ends, WorkOf, Tracks
  <2>3. Beginning(s)'
    BY <1>6, <1>7, <2>1 DEF StreamInv, Beginning, TracksStay, Tracks, lead, conv
  <2>4. Busy(s)' = Busy(s) /\ Unsent(s)' = Unsent(s) /\ Answered(s)' = Answered(s)
    BY <2>1 DEF Busy, Unsent, Answered, TracksStay, Tracks
  <2>5. FMP4Inv(s)'
    BY <1>6, <2>1, <2>4 DEF StreamInv, FMP4Inv, TracksStay, Tracks, lead
  <2>6. Joining(s) => Joining(s)'
    BY <2>1, <2>4 DEF Joining, NilSent, TracksStay, Tracks
  <2>7. MPEGTSInv(s)'
    BY <1>6, <2>1, <2>6 DEF StreamInv, MPEGTSInv, TracksStay, Tracks, lead
  <2> QED
    BY <1>3, <1>5, <2>1, <2>2, <2>3, <2>5, <2>7, LocalStepKeeps DEF StreamInv
<1>8. ASSUME NEW s \in Streams, g = Processor(s) PROVE ClientInv'
  <2>1. /\ PcElsewhere(s) /\ TracksStay(s) /\ pc'[Processor(s)] = "exited"
        /\ pc'[Downloader(s)] = pc[Downloader(s)] /\ pc'[Primary] = pc[Primary]
    BY <1>1, <1>8, ProcessorGoes
  <2>2. LocalTyped(s)'
    BY <1>6, <2>1 DEF StreamInv, LocalTyped, TracksStay, Ends, WorkOf, Tracks
  <2>3. Beginning(s)'
    BY <1>6, <1>8, <2>1 DEF StreamInv, Beginning, TracksStay, Tracks, lead, conv
  <2>4. Busy(s)' = Busy(s)
    BY <2>1 DEF Busy, TracksStay, Tracks
  <2>5. FMP4Inv(s)'
    BY <1>6, <2>1, <2>4 DEF StreamInv, FMP4Inv, TracksStay, Tracks, lead
  <2>6. MPEGTSInv(s)'
    BY <1>6, <2>1 DEF StreamInv, MPEGTSInv, Joining, TracksStay, Tracks, lead
  <2> QED
    BY <1>3, <1>5, <2>1, <2>2, <2>3, <2>5, <2>6, LocalStepKeeps DEF StreamInv
<1>9. ASSUME NEW s \in Streams, NEW k \in Tracks(s), g = TrackProc(s, k) PROVE ClientInv'
  <2>1. /\ PcElsewhere(s) /\ pc'[TrackProc(s, k)] = "exited"
        /\ \A j \in Tracks(s) \ {k} : pc'[TrackProc(s, j)] = pc[TrackProc(s, j)]
        /\ pc'[Processor(s)] = pc[Processor(s)] /\ pc'[Downloader(s)] = pc[Downloader(s)]
        /\ pc'[Primary] = pc[Primary]
    BY <1>1, <1>9, TrackGoes
  <2>2. LocalTyped(s)'
    BY ZenonT(60), <1>6, <2>1 DEF StreamInv, LocalTyped, Ends, WorkOf, Tracks
  <2>3. Beginning(s)'
    BY <1>6, <1>9, <2>1 DEF StreamInv, Beginning, Tracks, lead, conv
  <2>4. Busy(s)' = Busy(s) /\ Unsent(s)' = Unsent(s) /\ Answered(s)' = Answered(s)
    BY <1>9, <2>1 DEF Busy, Unsent, Answered, Tracks
  <2>5. FMP4Inv(s)'
    BY <1>6, <2>1, <2>4 DEF StreamInv, FMP4Inv, Tracks, lead
  <2>6. Joining(s) => Joining(s)'
    BY <2>1, <2>4 DEF Joining, NilSent, Tracks
  <2>7. MPEGTSInv(s)'
    BY <1>6, <2>1, <2>6 DEF StreamInv, MPEGTSInv, Tracks, lead
  <2> QED
    BY <1>3, <1>5, <2>1, <2>2, <2>3, <2>5, <2>7, LocalStepKeeps DEF StreamInv
<1>10. \/ g = Primary
       \/ \E s \in Streams : \/ g = Downloader(s) \/ g = Processor(s)
                             \/ \E k \in Tracks(s) : g = TrackProc(s, k)
  BY DEF Goroutines, TrackProcs
<1> QED
  BY <1>4, <1>7, <1>8, <1>9, <1>10

\* The primary downloader and the processor of the stream it deals with move.
LEMMA TwoGo ==
    ASSUME GlobalTyped, NEW s \in Streams, NEW l \in States, NEW m \in States,
           pc' = [pc EXCEPT ![Primary] = l, ![Processor(s)] = m]
    PROVE  /\ PcElsewhere(s) /\ TracksStay(s)
           /\ pc'[Processor(s)] = m /\ pc'[Primary] = l
           /\ pc'[Downloader(s)] = pc[Downloader(s)]
<1>1. Processor(s) \in Goroutines /\ Primary \in Goroutines /\ pc \in [Goroutines -> States]
  BY Names DEF GlobalTyped
<1>2. Processor(s) # Primary
  BY Distinct
<1>3. /\ pc' \in [Goroutines -> States] /\ pc'[Processor(s)] = m /\ pc'[Primary] = l
      /\ \A h \in Goroutines \ {Primary, Processor(s)} : pc'[h] = pc[h]
  BY <1>1, <1>2
<1>4. PcElsewhere(s)
  BY <1>3, Elsewhere
<1>5. TracksStay(s)
  BY <1>3, Names, Distinct DEF TracksStay
<1> QED
  BY <1>3, <1>4, <1>5, Names, Distinct

LEMMA PrimaryDownloadKeeps ==
    ASSUME ClientInv, PrimaryDownload
    PROVE  ClientInv'
<1>0. PICK n \in 0..NStreams, ok \in BOOLEAN, first \in {"playlist", "init"} :
        /\ ok => n = NStreams
        /\ first = "init" => n = 1 /\ NStreams = 1
        /\ pc' = [g \in Goroutines |->
                    CASE g = Primary -> IF ok THEN "collect" ELSE "failing"
                      [] \E s \in 1..n : g = Downloader(s) -> first
                      [] OTHER -> pc[g]]
  BY Zenon DEF PrimaryDownload
<1> DEFINE Label(g) == CASE g = Primary -> IF ok THEN "collect" ELSE "failing"
                         [] \E s \in 1..n : g = Downloader(s) -> first
                         [] OTHER -> pc[g]
<1>1. pc' = [g \in Goroutines |-> Label(g)]
  BY <1>0, Zenon
<1>2. pc[Primary] = "playlist" /\ UNCHANGED << life, lead, down, work, tq, conv >>
  BY DEF PrimaryDownload
<1>3. GlobalTyped /\ pc \in [Goroutines -> States]
  BY DEF ClientInv, GlobalTyped
<1>4. pc'[Primary] \in {"collect", "failing"}
  <2>1. Label(Primary) = IF ok THEN "collect" ELSE "failing"
    BY Distinct
  <2> QED
    BY <1>1, <2>1, Names
<1>5. pc' \in [Goroutines -> States]
  <2>1. {"collect", "failing", "playlist", "init"} \subseteq States
    BY DEF States, PrimaryStates, DownloaderStates, Ends
  <2>2. \A g : Label(g) \in {"collect", "failing", "playlist", "init", pc[g]}
    OBVIOUS
  <2>3. \A g \in Goroutines : Label(g) \in States
    BY <1>3, <2>1, <2>2
  <2> HIDE DEF Label
  <2> QED
    BY <1>1, <2>3
<1>6. GlobalTyped'
  BY <1>2, <1>3, <1>4, <1>5
     DEF GlobalTyped, PrimaryStates, Ends, life, lead, down, conv, Streams
<1>7. ASSUME NEW s \in Streams PROVE StreamInv(s)'
  <2>1. StreamInv(s)
    BY DEF ClientInv
  <2>2. /\ Downloader(s) \in Goroutines /\ Processor(s) \in Goroutines
        /\ \A k \in Tracks(s) : TrackProc(s, k) \in Goroutines
    BY Names
  <2>a. /\ Label(Downloader(s)) \in {"playlist", "init", pc[Downloader(s)]}
        /\ Label(Processor(s)) = pc[Processor(s)]
        /\ \A k \in Tracks(s) : Label(TrackProc(s, k)) = pc[TrackProc(s, k)]
    BY ZenonT(60), Distinct
  <2> HIDE DEF Label
  <2>3. pc'[Downloader(s)] \in {"playlist", "init", pc[Downloader(s)]}
    BY <1>1, <2>2, <2>a
  <2>4. pc'[Processor(s)] = pc[Processor(s)] /\ TracksStay(s)
    BY <1>1, <2>2, <2>a DEF TracksStay
  <2>5. LocalTyped(s)'
    BY <1>2, <2>1, <2>3, <2>4 DEF StreamInv, LocalTyped, TracksStay, DownloaderStates, WorkOf, Tracks
  <2>6. pc[Processor(s)] = "off"
    BY <1>2, <2>1 DEF StreamInv, Beginning
  <2>7. Beginning(s)'
    BY <1>2, <1>4, <2>1, <2>4, <2>6 DEF StreamInv, Beginning, TracksStay, Tracks, lead, conv
  <2>8. Busy(s)' = Busy(s)
    BY <2>4 DEF Busy, TracksStay, Tracks
  <2>9. FMP4Inv(s)'
    BY <1>2, <2>1, <2>4, <2>8 DEF StreamInv, FMP4Inv, TracksStay, Tracks, lead
  <2>10. MPEGTSInv(s)'
    BY <1>2, <2>1, <2>4, <2>6 DEF StreamInv, MPEGTSInv, Joining, TracksStay, Tracks, lead, life
  <2> QED
    BY <2>5, <2>7, <2>9, <2>10 DEF StreamInv
<1> QED
  BY <1>6, <1>7 DEF ClientInv, Streams

\* The primary downloader moves on to the next stream.
LEMMA NextStream ==
    ASSUME GlobalTyped, at' = IF at = NStreams THEN 1 ELSE at + 1
    PROVE  at' \in Streams
  BY ClientAssumption DEF GlobalTyped, ClientAssumption, Streams

LEMMA CollectTracksKeeps ==
    ASSUME ClientInv, CollectTracks
    PROVE  ClientInv'
<1>0. PICK s \in Streams : s = at
  BY DEF ClientInv, GlobalTyped
<1>1. GlobalTyped /\ s \in Streams /\ StreamInv(s)
  BY DEF ClientInv
<1>2. PICK l \in {"onTracks", "collect"} :
        pc' = [pc EXCEPT ![Primary] = l, ![Processor(s)] = "await"]
  BY <1>0 DEF CollectTracks
<1>3. l \in States /\ "await" \in States
  BY DEF States, PrimaryStates, ProcessorStates
<1>4. /\ PcElsewhere(s) /\ TracksStay(s) /\ pc'[Processor(s)] = "await" /\ pc'[Primary] = l
      /\ pc'[Downloader(s)] = pc[Downloader(s)]
  BY <1>1, <1>2, <1>3, TwoGo
<1>5. /\ UNCHANGED << life, lastErr, format, down, work, tq, conv >>
      /\ pc[Processor(s)] = "offer" /\ pc[Primary] = "collect"
  BY <1>0 DEF CollectTracks
<1>6. at' \in Streams
  BY <1>1, NextStream DEF CollectTracks
<1>7. GlobalTyped'
  BY <1>1, <1>4, <1>5, <1>6 DEF GlobalTyped, PcElsewhere, PrimaryStates, life, down, conv, Streams
<1>8. LocalStep(s)
  BY <1>1, <1>4, <1>5 DEF LocalStep, PcElsewhere, GlobalTyped, life, conv
<1>9. LocalTyped(s)'
  BY <1>1, <1>4, <1>5 DEF StreamInv, LocalTyped, TracksStay, ProcessorStates, WorkOf, Tracks
<1>10. Beginning(s)'
  BY <1>1, <1>4, <1>5 DEF StreamInv, Beginning, TracksStay, Tracks, conv
<1>11. Busy(s)' = Busy(s)
  BY <1>4 DEF Busy, TracksStay, Tracks
<1>12. FMP4Inv(s)'
  BY <1>1, <1>4, <1>5, <1>11 DEF StreamInv, FMP4Inv, TracksStay, Tracks
<1>13. MPEGTSInv(s)'
  BY <1>1, <1>4, <1>5 DEF StreamInv, MPEGTSInv, Joining, TracksStay, Tracks, life
<1> QED
  BY <1>1, <1>7, <1>8, <1>9, <1>10, <1>12, <1>13, LocalStepKeeps DEF StreamInv

LEMMA SetTracksKeeps ==
    ASSUME ClientInv, SetTracks
    PROVE  ClientInv'
<1>1. PICK l \in {"start", "failing"} : Goto(Primary, l)
  BY DEF SetTracks
<1>2. l \in States /\ GlobalTyped
  BY DEF States, PrimaryStates, Ends, ClientInv
<1>3. /\ pc' \in [Goroutines -> States] /\ pc'[Primary] = l
      /\ \A s \in Streams :
            /\ pc'[Downloader(s)] = pc[Downloader(s)] /\ pc'[Processor(s)] = pc[Processor(s)]
            /\ TracksStay(s)
  BY <1>1, <1>2, PrimaryGoes
<1>4. UNCHANGED << life, lead, down, work, tq, conv >>
  BY DEF SetTracks
<1>5. GlobalTyped'
  BY <1>2, <1>3, <1>4 DEF GlobalTyped, PrimaryStates, Ends, life, lead, down, conv, Streams
<1>6. \A s \in Streams : SameStream(s)
  BY <1>3, <1>4 DEF SameStream, TracksStay, life, lead, conv
<1> QED
  BY <1>5, <1>6, NoStreamKeeps

LEMMA StartStreamingKeeps ==
    ASSUME ClientInv, StartStreaming
    PROVE  ClientInv'
<1>0. PICK s \in Streams : s = at
  BY DEF ClientInv, GlobalTyped
<1> DEFINE ts == format[at].container = "MPEGTS"
           Label(g) == CASE g = Primary -> IF at = NStreams THEN "errors" ELSE "start"
                         [] g = Processor(at) -> IF ts THEN "read" ELSE "pull"
                         [] ts /\ g \in TrackProcs(at) -> "idle"
                         [] OTHER -> pc[g]
<1>1. GlobalTyped /\ s \in Streams /\ StreamInv(s)
  BY DEF ClientInv
<1>2. /\ pc[Primary] = "start" /\ pc[Processor(at)] = "await"
      /\ pc' = [g \in Goroutines |-> Label(g)]
      /\ work' = [work EXCEPT ![at].started = ts]
      /\ UNCHANGED << life, lastErr, format, down, tq, conv >>
  BY Zenon DEF StartStreaming
<1>3. at' \in Streams
  BY <1>1, NextStream DEF StartStreaming
<1>4. /\ Primary \in Goroutines /\ Processor(s) \in Goroutines /\ Downloader(s) \in Goroutines
      /\ pc \in [Goroutines -> States]
      /\ \A k \in Tracks(s) : TrackProc(s, k) \in Goroutines /\ TrackProc(s, k) \in TrackProcs(s)
  BY <1>1, Names DEF GlobalTyped
<1>5. pc'[Primary] \in {"errors", "start"}
  <2>1. Label(Primary) \in {"errors", "start"}
    BY Distinct
  <2> QED
    BY <1>2, <1>4, <2>1
<1>6. pc'[Processor(s)] = IF ts THEN "read" ELSE "pull"
  <2>1. Label(Processor(s)) = IF ts THEN "read" ELSE "pull"
    BY <1>0, Distinct
  <2> QED
    BY <1>2, <1>4, <2>1
<1>7. pc'[Downloader(s)] = pc[Downloader(s)]
  <2>1. Label(Downloader(s)) = pc[Downloader(s)]
    BY <1>0, Distinct
  <2> QED
    BY <1>2, <1>4, <2>1
<1>8. \A k \in Tracks(s) : pc'[TrackProc(s, k)] = IF ts THEN "idle" ELSE pc[TrackProc(s, k)]
  <2>1. ASSUME NEW k \in Tracks(s)
        PROVE  Label(TrackProc(s, k)) = IF ts THEN "idle" ELSE pc[TrackProc(s, k)]
    BY <1>0, <1>4, Distinct
  <2> QED
    BY <1>2, <1>4, <2>1
<1>9. pc' \in [Goroutines -> States]
  <2>1. {"errors", "start", "read", "pull", "idle"} \subseteq States
    BY DEF States, PrimaryStates, ProcessorStates, TrackStates
  <2>2. \A g : Label(g) \in {"errors", "start", "read", "pull", "idle", pc[g]}
    OBVIOUS
  <2>3. \A g \in Goroutines : Label(g) \in States
    BY <1>4, <2>1, <2>2
  <2> HIDE DEF Label
  <2> QED
    BY <1>2, <2>3
<1>10. PcElsewhere(s)
  <2>1. \A h : h \notin {Primary, Processor(s)} \union TrackProcs(s) => Label(h) = pc[h]
    BY <1>0
  <2> HIDE DEF Label
  <2>2. \A h \in Goroutines :
            h \notin {Primary, Downloader(s), Processor(s)} \union TrackProcs(s) => pc'[h] = pc[h]
    BY <1>2, <2>1
  <2> QED
    BY <1>1, <1>9, <2>2, Elsewhere
<1> HIDE DEF Label
<1>11. /\ work' = [t \in Streams |-> work'[t]] /\ work'[s] = [work[s] EXCEPT !.started = ts]
       /\ \A t \in Streams \ {s} : work'[t] = work[t]
  BY <1>0, <1>1, <1>2 DEF GlobalTyped
<1>12. /\ work[s] \in WorkOf(s) /\ ~work[s].started /\ work[s].open = 0 /\ ts \in BOOLEAN
       /\ \A k \in Tracks(s) : pc[TrackProc(s, k)] = "off" /\ tq[s][k] = << >>
  BY <1>0, <1>1, <1>2 DEF StreamInv, LocalTyped, Beginning
<1>13. /\ work'[s] \in WorkOf(s) /\ work'[s].started = ts /\ work'[s].open = 0
       /\ work'[s].conv = work[s].conv /\ work'[s].todo = work[s].todo
       /\ work'[s].err = work[s].err
  BY <1>11, <1>12 DEF WorkOf
<1> HIDE DEF ts
<1>14. /\ ts => format[s].container = "MPEGTS" /\ pc'[Processor(s)] = "read" /\ work'[s].started
                 /\ \A k \in Tracks(s) : pc'[TrackProc(s, k)] = "idle"
       /\ ~ts => format[s].container = "FMP4" /\ pc'[Processor(s)] = "pull" /\ ~work'[s].started
                  /\ \A k \in Tracks(s) : pc'[TrackProc(s, k)] = "off"
  BY ZenonT(60), <1>0, <1>1, <1>6, <1>8, <1>12, <1>13, FormatOf DEF ts
<1>15. GlobalTyped'
  BY <1>1, <1>2, <1>3, <1>5, <1>9, <1>11
     DEF GlobalTyped, PrimaryStates, life, down, conv, Streams
<1>16. LocalStep(s)
  BY <1>1, <1>2, <1>5, <1>10, <1>11 DEF LocalStep, PcElsewhere, GlobalTyped, life, conv
<1>17. LocalTyped(s)'
  <2>1. pc'[Downloader(s)] \in DownloaderStates \union Ends
    BY <1>1, <1>7 DEF StreamInv, LocalTyped
  <2>2. pc'[Processor(s)] \in {"read", "pull"}
    BY <1>6
  <2>3. \A k \in Tracks(s) : pc'[TrackProc(s, k)] \in {"idle", "off"}
    BY <1>8, <1>12
  <2>4. tq[s] \in [Tracks(s) -> Seq({"sample", "nil"})]
    BY <1>1 DEF StreamInv, LocalTyped
  <2> QED
    BY <1>2, <1>13, <2>1, <2>2, <2>3, <2>4
       DEF LocalTyped, ProcessorStates, TrackStates, WorkOf, Tracks
<1>18. Beginning(s)'
  BY <1>14, <1>0, <1>1, <1>2, <1>5, <1>7, <1>12, <1>13 DEF StreamInv, Beginning, Tracks, conv
<1>19. Busy(s)' = {} /\ Cardinality({}) = 0
  BY <1>14, FS_EmptySet DEF Busy, Tracks
<1>20. FMP4Inv(s)'
  BY <1>14, <1>2, <1>12, <1>13, <1>19 DEF FMP4Inv, Tracks
<1>21. MPEGTSInv(s)'
  <2>1. tq' = tq /\ format' = format /\ work'[s].open = 0
    BY <1>2, <1>13
  <2> QED
    BY <1>12, <1>14, <2>1 DEF MPEGTSInv, Joining, Tracks, Entries
<1> QED
  BY <1>1, <1>15, <1>16, <1>17, <1>18, <1>20, <1>21, LocalStepKeeps DEF StreamInv

LEMMA CollectErrorKeeps ==
    ASSUME ClientInv, CollectError
    PROVE  ClientInv'
<1>0. PICK s \in Streams : s = at
  BY DEF ClientInv, GlobalTyped
<1>1. GlobalTyped /\ s \in Streams /\ StreamInv(s)
  BY DEF ClientInv
<1>2. PICK l \in {"failing", "errors"} :
        pc' = [pc EXCEPT ![Primary] = l, ![Processor(s)] = "parked"]
  BY <1>0 DEF CollectError
<1>3. l \in States /\ "parked" \in States
  BY DEF States, PrimaryStates, ProcessorStates, Ends
<1>4. /\ PcElsewhere(s) /\ TracksStay(s) /\ pc'[Processor(s)] = "parked" /\ pc'[Primary] = l
      /\ pc'[Downloader(s)] = pc[Downloader(s)]
  BY <1>1, <1>2, <1>3, TwoGo
<1>5. /\ UNCHANGED << life, format, down, work, tq, conv >> /\ lastErr' = work[s].err
      /\ pc[Processor(s)] = "report" /\ pc[Primary] = "errors"
  BY <1>0 DEF CollectError
<1>6. at' \in Streams
  BY <1>1, NextStream DEF CollectError
<1>7. lastErr' \in {"error", "eos"}
  BY <1>1, <1>5 DEF StreamInv, LocalTyped, WorkOf
<1>8. GlobalTyped'
  BY <1>1, <1>4, <1>5, <1>6, <1>7
     DEF GlobalTyped, PcElsewhere, PrimaryStates, Ends, life, down, conv, Streams
<1>9. LocalStep(s)
  BY <1>1, <1>4, <1>5 DEF LocalStep, PcElsewhere, GlobalTyped, life, conv
<1>10. LocalTyped(s)'
  BY <1>1, <1>4, <1>5 DEF StreamInv, LocalTyped, TracksStay, ProcessorStates, WorkOf, Tracks
<1>11. Beginning(s)'
  BY <1>1, <1>4, <1>5 DEF StreamInv, Beginning, TracksStay, Tracks, conv
<1>12. Busy(s)' = Busy(s)
  BY <1>4 DEF Busy, TracksStay, Tracks
<1>13. FMP4Inv(s)'
  BY <1>1, <1>4, <1>5, <1>12 DEF StreamInv, FMP4Inv, TracksStay, Tracks
<1>14. MPEGTSInv(s)'
  BY <1>1, <1>4, <1>5 DEF StreamInv, MPEGTSInv, Joining, TracksStay, Tracks, life
<1> QED
  BY <1>1, <1>8, <1>9, <1>10, <1>11, <1>13, <1>14, LocalStepKeeps DEF StreamInv

--------------------------------------------------------------------------------
(***************************************************************************)
(* The downloader of a stream.                                             *)
(***************************************************************************)

\* What a step of one stream may change.
StreamStep(s) ==
    /\ PcElsewhere(s) /\ pc'[Primary] = pc[Primary]
    /\ UNCHANGED << life, lead >>
    /\ fetched' \in [Streams -> Nat] /\ queue' \in [Streams -> Seq({"segment", "error", "eos"})]
    /\ work' = [work EXCEPT ![s] = work'[s]] /\ tq' = [tq EXCEPT ![s] = tq'[s]]
    /\ timeConv' = timeConv \/ (timeConv = "none" /\ timeConv' = format[1].container)
    /\ ntpReceived' \in BOOLEAN

LEMMA StreamStepKeeps ==
    ASSUME ClientInv, NEW s \in Streams, StreamStep(s), StreamInv(s)'
    PROVE  ClientInv'
<1>1. /\ work = [t \in Streams |-> work[t]] /\ tq = [t \in Streams |-> tq[t]]
      /\ timeConv \in {"none", format[1].container} /\ pc'[Primary] = pc[Primary]
  BY DEF ClientInv, GlobalTyped, StreamStep
<1>2. /\ work' = [t \in Streams |-> work'[t]] /\ \A t \in Streams \ {s} : work'[t] = work[t]
  <2>1. work' = [work EXCEPT ![s] = work'[s]]
    BY DEF StreamStep
  <2> QED
    BY <1>1, <2>1
<1>3. /\ tq' = [t \in Streams |-> tq'[t]] /\ \A t \in Streams \ {s} : tq'[t] = tq[t]
  <2>1. tq' = [tq EXCEPT ![s] = tq'[s]]
    BY DEF StreamStep
  <2> QED
    BY <1>1, <2>1
<1>4. LocalStep(s)
  BY <1>1, <1>2, <1>3 DEF LocalStep, StreamStep, PcElsewhere, life, lead
<1>5. GlobalTyped'
  <2>1. UNCHANGED << main, asked, cancelled, closeError, at, lastErr, format >>
    BY DEF StreamStep, life, lead
  <2>2. /\ pc' \in [Goroutines -> States]
        /\ fetched' \in [Streams -> Nat] /\ queue' \in [Streams -> Seq({"segment", "error", "eos"})]
        /\ timeConv' \in {"none", format[1].container} /\ ntpReceived' \in BOOLEAN
    BY <1>1 DEF StreamStep, PcElsewhere
  <2> QED
    BY <1>1, <1>2, <1>3, <2>1, <2>2 DEF ClientInv, GlobalTyped, Streams
<1> QED
  BY <1>4, <1>5, LocalStepKeeps

\* The downloader moves, and nothing else of the stream but its queue changes.
LEMMA DownloaderKeeps ==
    ASSUME ClientInv, NEW s \in Streams, NEW l \in DownloaderStates \union Ends,
           Goto(Downloader(s), l), pc[Downloader(s)] # "off",
           l \in {"off", "playlist", "init"} => pc[Processor(s)] = "off",
           UNCHANGED << life, lead, work, tq, conv >>,
           fetched' \in [Streams -> Nat], queue' \in [Streams -> Seq({"segment", "error", "eos"})]
    PROVE  ClientInv'
<1>1. GlobalTyped /\ StreamInv(s) /\ l \in States
  BY DEF ClientInv, States
<1>2. /\ PcElsewhere(s) /\ TracksStay(s) /\ pc'[Downloader(s)] = l
      /\ pc'[Processor(s)] = pc[Processor(s)] /\ pc'[Primary] = pc[Primary]
  BY <1>1, DownloaderGoes
<1>3. StreamStep(s)
  BY <1>1, <1>2 DEF StreamStep, GlobalTyped, conv
<1>4. LocalTyped(s)'
  BY <1>1, <1>2 DEF StreamInv, LocalTyped, TracksStay, WorkOf, Tracks
<1>5. Beginning(s)'
  BY <1>1, <1>2 DEF StreamInv, Beginning, TracksStay, Tracks, lead, conv
<1>6. Busy(s)' = Busy(s) /\ Unsent(s)' = Unsent(s) /\ Answered(s)' = Answered(s)
  BY <1>2 DEF Busy, Unsent, Answered, TracksStay, Tracks
<1>7. FMP4Inv(s)'
  <2>1. FMP4Inv(s) /\ work' = work /\ tq' = tq /\ format' = format
    BY <1>1 DEF StreamInv, lead
  <2> QED
    BY ONLY <1>2, <1>6, <2>1 DEF FMP4Inv, Tracks
<1>8. Joining(s) => Joining(s)'
  <2>1. work' = work /\ tq' = tq
    OBVIOUS
  <2>2. \A k \in Tracks(s) : NilSent(s, k) => NilSent(s, k)'
    BY <1>2, <2>1 DEF NilSent, TracksStay
  <2> QED
    BY ONLY <1>2, <1>6, <2>1, <2>2 DEF Joining, TracksStay, Tracks
<1>9. MPEGTSInv(s)'
  BY <1>1, <1>2, <1>8 DEF StreamInv, MPEGTSInv, TracksStay, Tracks, lead, life
<1> QED
  BY <1>3, <1>4, <1>5, <1>7, <1>9, StreamStepKeeps DEF StreamInv

\* A queue gets an entry, or loses its first one.
LEMMA QueueTyped ==
    ASSUME GlobalTyped, NEW s \in Streams
    PROVE  /\ \A item \in {"segment", "error", "eos"} :
                PushSegment(s, item) => queue' \in [Streams -> Seq({"segment", "error", "eos"})]
           /\ queue[s] # << >> /\ queue' = [queue EXCEPT ![s] = Tail(@)] =>
                /\ queue' \in [Streams -> Seq({"segment", "error", "eos"})]
                /\ Head(queue[s]) \in {"segment", "error", "eos"}
<1>1. queue \in [Streams -> Seq({"segment", "error", "eos"})]
      /\ queue[s] \in Seq({"segment", "error", "eos"})
  BY DEF GlobalTyped
<1>2. \A item \in {"segment", "error", "eos"} :
        Append(queue[s], item) \in Seq({"segment", "error", "eos"})
  BY <1>1
<1>3. queue[s] # << >> => /\ Tail(queue[s]) \in Seq({"segment", "error", "eos"})
                          /\ Head(queue[s]) \in {"segment", "error", "eos"}
  BY <1>1
<1> QED
  BY <1>1, <1>2, <1>3 DEF PushSegment

LEMMA DownloaderNextKeeps ==
    ASSUME ClientInv, NEW s \in Streams, DownloaderNext(s)
    PROVE  ClientInv'
<1>1. /\ fetched \in [Streams -> Nat] /\ queue \in [Streams -> Seq({"segment", "error", "eos"})]
      /\ pc[Downloader(s)] \in {"off", "playlist", "init"} => pc[Processor(s)] = "off"
      /\ GlobalTyped /\ StreamInv(s)
  BY DEF ClientInv, GlobalTyped, StreamInv, Beginning
<1>2. {"init", "failing", "segment", "full", "parked"} \subseteq DownloaderStates \union Ends
  BY DEF DownloaderStates, Ends
<1>3. CASE DownloadPlaylist(s)
  <2>1. PICK l \in {"init", "failing"} : Goto(Downloader(s), l)
    BY <1>3 DEF DownloadPlaylist
  <2> QED
    BY <1>1, <1>2, <1>3, <2>1, DownloaderKeeps DEF DownloadPlaylist, down
<1>4. CASE StartProcessor(s)
  <2>1. CASE Goto(Downloader(s), "failing")
    BY <1>1, <1>2, <1>4, <2>1, DownloaderKeeps DEF StartProcessor, down
  <2>2. ASSUME NEW l \in {"init", "pull"}, l = "init" <=> format[s].container = "FMP4",
               pc' = [pc EXCEPT ![Downloader(s)] = "segment", ![Processor(s)] = l]
        PROVE  ClientInv'
    <3>1. /\ UNCHANGED << life, lead, down, work, tq, conv >> /\ pc[Downloader(s)] = "init"
          /\ pc[Processor(s)] = "off" /\ format[s].container \in {"FMP4", "MPEGTS"}
      BY <1>1, <1>4, FormatOf DEF StartProcessor
    <3>2. /\ Downloader(s) \in Goroutines /\ Processor(s) \in Goroutines
          /\ Downloader(s) # Processor(s) /\ pc \in [Goroutines -> States]
          /\ "segment" \in States /\ l \in States
      BY <1>1, Names, Distinct DEF GlobalTyped, States, DownloaderStates, ProcessorStates
    <3>3. /\ pc' \in [Goroutines -> States]
          /\ pc'[Downloader(s)] = "segment" /\ pc'[Processor(s)] = l
          /\ \A h \in Goroutines \ {Downloader(s), Processor(s)} : pc'[h] = pc[h]
      BY <2>2, <3>2
    <3>4. PcElsewhere(s)
      BY <3>3, Elsewhere
    <3>5. TracksStay(s) /\ pc'[Primary] = pc[Primary]
      BY <3>3, Names, Distinct DEF TracksStay
    <3>6. StreamStep(s)
      BY <1>1, <3>1, <3>4, <3>5 DEF StreamStep, GlobalTyped, conv, down
    <3>7. LocalTyped(s)'
      BY <1>1, <3>1, <3>3, <3>5
         DEF StreamInv, LocalTyped, TracksStay, WorkOf, Tracks, DownloaderStates, ProcessorStates
    <3>8. /\ ~work[s].started /\ work[s].open = 0
          /\ \A k \in Tracks(s) : pc[TrackProc(s, k)] = "off" /\ tq[s][k] = << >>
      BY <1>1, <3>1 DEF StreamInv, Beginning
    <3>9. Beginning(s)'
      BY <1>1, <3>1, <3>3, <3>5, <3>8 DEF StreamInv, Beginning, TracksStay, Tracks, lead, conv
    <3>10. Busy(s)' = {} /\ Cardinality({}) = 0
      BY <3>5, <3>8, FS_EmptySet DEF Busy, TracksStay, Tracks
    <3>11. FMP4Inv(s)'
      BY <2>2, <3>1, <3>3, <3>8, <3>10 DEF FMP4Inv, Tracks, lead
    <3>12. MPEGTSInv(s)'
      <4>1. l \in {"init", "pull"} /\ (l = "init" => format[s].container # "MPEGTS")
        BY <2>2
      <4>2. work' = work /\ tq' = tq /\ format' = format
        BY <3>1 DEF lead
      <4>3. \A k \in Tracks(s) : tq'[s][k] = << >> /\ pc'[TrackProc(s, k)] = "off"
        BY <3>5, <3>8, <4>2 DEF TracksStay
      <4> QED
        BY <3>3, <3>8, <4>1, <4>2, <4>3 DEF MPEGTSInv, Joining, Entries, Tracks
    <3> QED
      BY <3>6, <3>7, <3>9, <3>11, <3>12, StreamStepKeeps DEF StreamInv
  <2>3. \/ Goto(Downloader(s), "failing")
        \/ \E l \in {"init", "pull"} :
            /\ l = "init" <=> format[s].container = "FMP4"
            /\ pc' = [pc EXCEPT ![Downloader(s)] = "segment", ![Processor(s)] = l]
    <3>1. CASE format[s].container = "FMP4"
      BY <1>4, <3>1 DEF StartProcessor
    <3>2. CASE format[s].container # "FMP4"
      BY <1>4, <3>2 DEF StartProcessor
    <3> QED
      BY <3>1, <3>2
  <2> QED
    BY <2>1, <2>2, <2>3
<1>5. CASE DownloadSegment(s)
  <2>1. fetched' \in [Streams -> Nat] /\ PushSegment(s, "segment")
    BY <1>1, <1>5 DEF DownloadSegment
  <2>2. PICK l \in {"segment", "full"} : Goto(Downloader(s), l)
    BY <1>5 DEF DownloadSegment
  <2>3. queue' \in [Streams -> Seq({"segment", "error", "eos"})]
    BY <1>1, <2>1, QueueTyped
  <2> QED
    BY <1>2, <1>5, <2>1, <2>2, <2>3, DownloaderKeeps DEF DownloadSegment
<1>6. CASE DownloadEnds(s)
  <2>1. queue' \in [Streams -> Seq({"segment", "error", "eos"})]
    BY <1>1, <1>6, QueueTyped DEF DownloadEnds
  <2> QED
    BY <1>1, <1>2, <1>6, <2>1, DownloaderKeeps DEF DownloadEnds
<1>7. CASE Throttle(s)
  <2>1. queue' \in [Streams -> Seq({"segment", "error", "eos"})]
    BY <1>1, <1>7, QueueTyped DEF Throttle
  <2>2. PICK l \in {"segment", "parked"} : Goto(Downloader(s), l)
    BY <1>7 DEF Throttle
  <2> QED
    BY <1>1, <1>2, <1>7, <2>1, <2>2, DownloaderKeeps DEF Throttle
<1> QED
  BY <1>3, <1>4, <1>5, <1>6, <1>7 DEF DownloaderNext

--------------------------------------------------------------------------------
(***************************************************************************)
(* The processor of an FMP4 stream, and of any stream.                     *)
(***************************************************************************)

LEMMA BusyFinite ==
    ASSUME NEW s \in Streams
    PROVE  /\ IsFiniteSet(Tracks(s)) /\ Cardinality(Tracks(s)) = NTracks[s]
           /\ IsFiniteSet(Busy(s)) /\ Cardinality(Busy(s)) \in Nat
           /\ Cardinality(Busy(s)) = 0 <=> Busy(s) = {}
<1>1. NTracks[s] \in Nat \ {0}
  BY ClientAssumption DEF ClientAssumption
<1>2. IsFiniteSet(Tracks(s)) /\ Cardinality(Tracks(s)) = NTracks[s]
  <2>1. 1 \in Int /\ NTracks[s] \in Int /\ 1 <= NTracks[s]
    BY <1>1
  <2>2. IsFiniteSet(1..NTracks[s]) /\ Cardinality(1..NTracks[s]) = NTracks[s] - 1 + 1
    BY <2>1, FS_Interval
  <2> QED
    BY <2>1, <2>2 DEF Tracks
<1>3. Busy(s) \subseteq Tracks(s)
  BY DEF Busy
<1>4. IsFiniteSet(Busy(s))
  BY <1>2, <1>3, FS_Subset
<1> QED
  BY <1>2, <1>4, FS_CardinalityType, FS_EmptySet

\* The processor moves, and nothing else of the stream but its queue changes.
ProcessorOnly(s) ==
    /\ UNCHANGED << life, lead, work, tq >>
    /\ fetched' \in [Streams -> Nat] /\ queue' \in [Streams -> Seq({"segment", "error", "eos"})]
    /\ timeConv' = timeConv \/ (timeConv = "none" /\ timeConv' = format[1].container)
    /\ ntpReceived' \in BOOLEAN

LEMMA ProcessorOnlyKeeps ==
    ASSUME ClientInv, NEW s \in Streams, NEW l \in ProcessorStates \union Ends,
           Goto(Processor(s), l), ProcessorOnly(s),
           pc[Processor(s)] # "off", l # "report",
           l \in {"off", "init", "offer", "await"} => ~work[s].started,
           StreamInv(s) => FMP4Inv(s)' /\ MPEGTSInv(s)'
    PROVE  ClientInv'
<1>1. GlobalTyped /\ StreamInv(s) /\ l \in States
  BY DEF ClientInv, States
<1>2. /\ PcElsewhere(s) /\ TracksStay(s) /\ pc'[Downloader(s)] = pc[Downloader(s)]
      /\ pc'[Processor(s)] = l /\ pc'[Primary] = pc[Primary]
  BY <1>1, ProcessorGoes
<1>3. work' = work /\ tq' = tq /\ format' = format
  BY DEF ProcessorOnly, lead
<1>4. StreamStep(s)
  BY <1>1, <1>2 DEF StreamStep, ProcessorOnly, GlobalTyped
<1>5. LocalTyped(s)'
  BY <1>1, <1>2, <1>3 DEF StreamInv, LocalTyped, TracksStay, WorkOf, Tracks
<1>6. Beginning(s)'
  <2>1. timeConv # "none" => timeConv' = timeConv
    BY DEF ProcessorOnly
  <2>2. format[s].container \in {"FMP4", "MPEGTS"}
    BY <1>1, FormatOf
  <2> QED
    BY <1>1, <1>2, <1>3, <2>1, <2>2 DEF StreamInv, Beginning, TracksStay, Tracks
<1> QED
  BY <1>1, <1>4, <1>5, <1>6, StreamStepKeeps DEF StreamInv

\* A processor fails.
LEMMA ProcessorFails ==
    ASSUME ClientInv, NEW s \in Streams, Goto(Processor(s), "failing"), ProcessorOnly(s),
           pc[Processor(s)] # "off"
    PROVE  ClientInv'
<1>1. GlobalTyped /\ "failing" \in States /\ "failing" \in ProcessorStates \union Ends
  BY DEF ClientInv, States, Ends
<1>2. TracksStay(s) /\ pc'[Processor(s)] = "failing"
  BY <1>1, ProcessorGoes
<1>3. work' = work /\ tq' = tq /\ format' = format
  BY DEF ProcessorOnly, lead
<1>4. Busy(s)' = Busy(s)
  BY <1>2 DEF Busy, TracksStay, Tracks
<1>5. StreamInv(s) => FMP4Inv(s)'
  BY <1>2, <1>3, <1>4 DEF StreamInv, FMP4Inv, Tracks
<1>6. StreamInv(s) => MPEGTSInv(s)'
  BY <1>2, <1>3 DEF StreamInv, MPEGTSInv, Joining, TracksStay, Tracks
<1> QED
  BY <1>1, <1>5, <1>6, ProcessorOnlyKeeps

LEMMA ParseInitKeeps ==
    ASSUME ClientInv, NEW s \in Streams, ParseInit(s)
    PROVE  ClientInv'
<1>1. /\ GlobalTyped /\ StreamInv(s) /\ pc[Processor(s)] = "init" /\ ProcessorOnly(s)
      /\ Goto(Processor(s), "offer") \/ Goto(Processor(s), "failing")
  BY DEF ClientInv, GlobalTyped, ParseInit, ProcessorOnly, down, conv
<1>2. CASE Goto(Processor(s), "failing")
  BY <1>1, <1>2, ProcessorFails
<1>3. CASE Goto(Processor(s), "offer")
  <2>1. "offer" \in States /\ "offer" \in ProcessorStates \union Ends
    BY DEF States, ProcessorStates
  <2>2. TracksStay(s) /\ pc'[Processor(s)] = "offer"
    BY <1>1, <1>3, <2>1, ProcessorGoes
  <2>3. work' = work /\ tq' = tq /\ format' = format /\ ~work[s].started
    BY <1>1 DEF ProcessorOnly, lead, StreamInv, Beginning
  <2>4. Busy(s)' = Busy(s)
    BY <2>2 DEF Busy, TracksStay, Tracks
  <2>5. FMP4Inv(s)'
    BY <1>1, <2>2, <2>3, <2>4 DEF StreamInv, FMP4Inv, Tracks
  <2>6. MPEGTSInv(s)'
    BY <1>1, <2>2, <2>3 DEF StreamInv, MPEGTSInv, Tracks
  <2> QED
    BY <1>1, <1>3, <2>1, <2>3, <2>5, <2>6, ProcessorOnlyKeeps
<1> QED
  BY <1>1, <1>2, <1>3

LEMMA StampKeeps ==
    ASSUME ClientInv, NEW s \in Streams, Stamp(s)
    PROVE  ClientInv'
<1>1. /\ GlobalTyped /\ StreamInv(s) /\ pc[Processor(s)] = "stamp" /\ ProcessorOnly(s)
      /\ Goto(Processor(s), "feed")
  BY DEF ClientInv, GlobalTyped, Stamp, ProcessorOnly, down
<1>2. "feed" \in States /\ "feed" \in ProcessorStates \union Ends
  BY DEF States, ProcessorStates
<1>3. TracksStay(s) /\ pc'[Processor(s)] = "feed"
  BY <1>1, <1>2, ProcessorGoes
<1>4. work' = work /\ tq' = tq /\ format' = format
  BY <1>1 DEF ProcessorOnly, lead
<1>5. Busy(s)' = Busy(s)
  BY <1>3 DEF Busy, TracksStay, Tracks
<1>6. FMP4Inv(s)'
  BY <1>1, <1>3, <1>4, <1>5 DEF StreamInv, FMP4Inv, Tracks
<1>7. MPEGTSInv(s)'
  BY <1>1, <1>3, <1>4 DEF StreamInv, MPEGTSInv, Tracks
<1> QED
  BY <1>1, <1>2, <1>6, <1>7, ProcessorOnlyKeeps

LEMMA JoinFMP4Keeps ==
    ASSUME ClientInv, NEW s \in Streams, JoinFMP4(s)
    PROVE  ClientInv'
<1>1. /\ GlobalTyped /\ StreamInv(s) /\ pc[Processor(s)] = "join" /\ ProcessorOnly(s)
      /\ Goto(Processor(s), "pull") /\ format[s].container = "FMP4" /\ work[s].open = 0
  BY DEF ClientInv, GlobalTyped, JoinFMP4, ProcessorOnly, down, conv
<1>2. "pull" \in States /\ "pull" \in ProcessorStates \union Ends
  BY DEF States, ProcessorStates
<1>3. TracksStay(s) /\ pc'[Processor(s)] = "pull"
  BY <1>1, <1>2, ProcessorGoes
<1>4. work' = work /\ tq' = tq /\ format' = format
  BY <1>1 DEF ProcessorOnly, lead
<1>5. Busy(s)' = Busy(s)
  BY <1>3 DEF Busy, TracksStay, Tracks
<1>6. FMP4Inv(s)'
  BY <1>1, <1>3, <1>4, <1>5 DEF StreamInv, FMP4Inv, Tracks
<1>7. MPEGTSInv(s)'
  BY <1>1, <1>4 DEF MPEGTSInv
<1> QED
  BY <1>1, <1>2, <1>6, <1>7, ProcessorOnlyKeeps

\* The processor moves, and its fields change.
LEMMA ProcessorWorks ==
    ASSUME ClientInv, NEW s \in Streams, NEW l \in ProcessorStates \union Ends,
           Goto(Processor(s), l), pc[Processor(s)] # "off",
           NEW w \in WorkOf(s), work' = [work EXCEPT ![s] = w],
           UNCHANGED << life, lead, tq >>,
           fetched' \in [Streams -> Nat], queue' \in [Streams -> Seq({"segment", "error", "eos"})],
           timeConv' = timeConv \/ (timeConv = "none" /\ timeConv' = format[1].container),
           ntpReceived' \in BOOLEAN,
           l = "report" => w.err # "none",
           w.started = work[s].started,
           l \in {"off", "init", "offer", "await"} \/ ~w.started => ~w.started /\ w.open = 0,
           w.conv => timeConv' = format[s].container,
           StreamInv(s) /\ work'[s] = w => FMP4Inv(s)' /\ MPEGTSInv(s)'
    PROVE  ClientInv'
<1>1. GlobalTyped /\ StreamInv(s) /\ l \in States
  BY DEF ClientInv, States
<1>2. /\ PcElsewhere(s) /\ TracksStay(s) /\ pc'[Downloader(s)] = pc[Downloader(s)]
      /\ pc'[Processor(s)] = l /\ pc'[Primary] = pc[Primary]
  BY <1>1, ProcessorGoes
<1>3. work'[s] = w /\ work' = [work EXCEPT ![s] = work'[s]] /\ tq' = [tq EXCEPT ![s] = tq'[s]]
  BY <1>1 DEF GlobalTyped
<1>4. tq' = tq /\ format' = format
  BY DEF lead
<1>5. StreamStep(s)
  BY <1>1, <1>2, <1>3 DEF StreamStep
<1>6. LocalTyped(s)'
  BY <1>1, <1>2, <1>3, <1>4 DEF StreamInv, LocalTyped, TracksStay, WorkOf, Tracks
<1>7. Beginning(s)'
  BY <1>1, <1>2, <1>3, <1>4 DEF StreamInv, Beginning, TracksStay, Tracks
<1> QED
  BY <1>1, <1>3, <1>5, <1>6, <1>7, StreamStepKeeps DEF StreamInv

LEMMA PullErrorKeeps ==
    ASSUME ClientInv, NEW s \in Streams, PullError(s)
    PROVE  ClientInv'
<1> DEFINE w == [work[s] EXCEPT !.err = Head(queue[s])]
<1>1. /\ GlobalTyped /\ StreamInv(s) /\ pc[Processor(s)] = "pull"
      /\ queue[s] # << >> /\ Head(queue[s]) # "segment"
      /\ queue' = [queue EXCEPT ![s] = Tail(@)] /\ Goto(Processor(s), "report")
      /\ UNCHANGED << life, lead, fetched, tq, conv >>
  BY DEF ClientInv, PullError
<1>2. work' = [work EXCEPT ![s] = w]
  BY DEF PullError
<1>3. /\ queue' \in [Streams -> Seq({"segment", "error", "eos"})] /\ fetched' \in [Streams -> Nat]
      /\ Head(queue[s]) \in {"error", "eos"} /\ ntpReceived' \in BOOLEAN
  BY <1>1, QueueTyped DEF GlobalTyped, conv
<1>4. work[s] \in WorkOf(s)
  BY <1>1 DEF StreamInv, LocalTyped
<1>5. /\ w \in WorkOf(s) /\ w.err # "none" /\ w.started = work[s].started
      /\ w.open = work[s].open /\ w.conv = work[s].conv /\ w.todo = work[s].todo
  BY <1>3, <1>4 DEF WorkOf
<1>6. /\ "report" \in States /\ "report" \in ProcessorStates \union Ends
  BY DEF States, ProcessorStates
<1>7. TracksStay(s) /\ pc'[Processor(s)] = "report"
  BY <1>1, <1>6, ProcessorGoes
<1> HIDE DEF w
<1>8. Busy(s)' = Busy(s) /\ tq' = tq /\ format' = format
  BY <1>1, <1>7 DEF Busy, TracksStay, Tracks, lead
<1>9. ASSUME work'[s] = w PROVE FMP4Inv(s)'
  BY <1>1, <1>5, <1>7, <1>8, <1>9 DEF StreamInv, FMP4Inv, Tracks
<1>10. ASSUME work'[s] = w PROVE MPEGTSInv(s)'
  BY <1>1, <1>5, <1>7, <1>8, <1>10 DEF StreamInv, MPEGTSInv, Joining, TracksStay, Tracks
<1>11. (~w.started => w.open = 0) /\ (w.conv => timeConv' = format[s].container)
  BY <1>1, <1>5 DEF StreamInv, Beginning, conv
<1>12. UNCHANGED << life, lead, tq >> /\ timeConv' = timeConv
  BY <1>1 DEF conv
<1> QED
  BY <1>1, <1>2, <1>3, <1>5, <1>6, <1>9, <1>10, <1>11, <1>12, ProcessorWorks

\* The leading stream makes the time conversion once.
LEMMA TimeConvSet ==
    ASSUME GlobalTyped, NEW s \in Streams, TimeConvReady(s), SetTimeConv(s)
    PROVE  /\ timeConv' = timeConv \/ (timeConv = "none" /\ timeConv' = format[1].container)
           /\ TimeConvFits(s) => timeConv' = format[s].container
  BY DEF GlobalTyped, SetTimeConv, TimeConvFits

LEMMA InitTimeConvFMP4Keeps ==
    ASSUME ClientInv, NEW s \in Streams, InitTimeConvFMP4(s)
    PROVE  ClientInv'
<1> DEFINE w == [work[s] EXCEPT !.conv = TimeConvFits(s)]
<1>1. /\ GlobalTyped /\ StreamInv(s) /\ pc[Processor(s)] = "conv"
      /\ TimeConvReady(s) /\ SetTimeConv(s)
      /\ Goto(Processor(s), IF TimeConvFits(s) THEN "stamp" ELSE "failing")
      /\ UNCHANGED << life, lead, down, tq, ntpReceived >>
  BY DEF ClientInv, InitTimeConvFMP4
<1>2. work' = [work EXCEPT ![s] = w]
  BY DEF InitTimeConvFMP4
<1>3. /\ queue' \in [Streams -> Seq({"segment", "error", "eos"})] /\ fetched' \in [Streams -> Nat]
      /\ ntpReceived' \in BOOLEAN /\ UNCHANGED << life, lead, tq >>
  BY <1>1 DEF GlobalTyped, down
<1>4. work[s] \in WorkOf(s) /\ TimeConvFits(s) \in BOOLEAN
  BY <1>1 DEF StreamInv, LocalTyped, TimeConvFits
<1>5. /\ w \in WorkOf(s) /\ w.conv = TimeConvFits(s) /\ w.started = work[s].started
      /\ w.open = work[s].open /\ w.todo = work[s].todo
  BY <1>4 DEF WorkOf
<1> HIDE DEF w
<1>6. PICK l \in {"stamp", "failing"} : Goto(Processor(s), l) /\ (l = "stamp" <=> TimeConvFits(s))
  <2>1. CASE TimeConvFits(s)
    BY <1>1, <2>1
  <2>2. CASE ~TimeConvFits(s)
    BY <1>1, <2>2
  <2> QED
    BY <2>1, <2>2
<1>7. l \in States /\ l \in ProcessorStates \union Ends
  BY DEF States, ProcessorStates, Ends
<1>8. TracksStay(s) /\ pc'[Processor(s)] = l
  BY <1>1, <1>6, <1>7, ProcessorGoes
<1>9. Busy(s)' = Busy(s) /\ tq' = tq /\ format' = format
  BY <1>1, <1>8 DEF Busy, TracksStay, Tracks, lead
<1>10. work[s].started /\ work[s].open = 0 /\ Busy(s) = {} /\ work[s].todo # << >>
       /\ format[s].container = "FMP4"
  BY <1>1, BusyFinite, FormatOf DEF StreamInv, FMP4Inv, MPEGTSInv
<1>11. ASSUME work'[s] = w PROVE FMP4Inv(s)'
  BY <1>1, <1>5, <1>6, <1>8, <1>9, <1>10, <1>11 DEF StreamInv, FMP4Inv, Tracks
<1>12. MPEGTSInv(s)'
  BY <1>9, <1>10 DEF MPEGTSInv
<1>13. /\ timeConv' = timeConv \/ (timeConv = "none" /\ timeConv' = format[1].container)
       /\ w.conv => timeConv' = format[s].container
  BY <1>1, <1>5, TimeConvSet
<1>14. w.started
  BY <1>5, <1>10
<1> QED
  BY <1>1, <1>2, <1>3, <1>5, <1>6, <1>7, <1>11, <1>12, <1>13, <1>14, ProcessorWorks

LEMMA RestOf ==
    ASSUME NEW S, NEW q \in Seq(S), q # << >>
    PROVE  /\ Head(q) \in S /\ Tail(q) \in Seq(S) /\ Len(q) \in Nat \ {0}
           /\ Len(Tail(q)) = Len(q) - 1 /\ Head(q) = q[1]
           /\ \A i \in 1..Len(q) - 1 : Tail(q)[i] = q[i + 1]
           /\ Tail(q) = << >> <=> Len(q) = 1
<1>1. Len(q) \in Nat \ {0}
  OBVIOUS
<1>2. Head(q) \in S /\ Tail(q) \in Seq(S) /\ Len(Tail(q)) = Len(q) - 1 /\ Head(q) = q[1]
  BY <1>1
<1>3. \A i \in 1..Len(q) - 1 : Tail(q)[i] = q[i + 1]
  BY <1>1
<1>4. Tail(q) = << >> <=> Len(q) = 1
  <2>1. ASSUME NEW r \in Seq(S) PROVE r = << >> <=> Len(r) = 0
    OBVIOUS
  <2>2. Tail(q) = << >> <=> Len(Tail(q)) = 0
    BY <1>2, <2>1
  <2> QED
    BY <1>1, <1>2, <2>2
<1> QED
  BY <1>1, <1>2, <1>3, <1>4

LEMMA FeedKeeps ==
    ASSUME ClientInv, NEW s \in Streams, Feed(s)
    PROVE  ClientInv'
<1> DEFINE k == Head(work[s].todo)
           w == [work[s] EXCEPT !.todo = Tail(work[s].todo), !.open = work[s].open + 1]
<1>1. /\ GlobalTyped /\ StreamInv(s) /\ pc[Processor(s)] = "feed" /\ pc[TrackProc(s, k)] = "idle"
      /\ UNCHANGED << life, lead, down, tq, conv >>
  BY DEF ClientInv, Feed
<1>2. work' = [work EXCEPT ![s] = w]
  BY DEF Feed
<1>3. /\ format[s].container = "FMP4" /\ work[s].todo # << >> /\ work[s].started /\ work[s].conv
      /\ work[s] \in WorkOf(s)
  BY <1>1, FormatOf DEF StreamInv, LocalTyped, FMP4Inv, MPEGTSInv
<1>4. work[s].todo \in Seq(Tracks(s)) /\ work[s].open \in Nat
  BY <1>3 DEF WorkOf
<1>5. k \in Tracks(s) /\ Tail(work[s].todo) \in Seq(Tracks(s))
      /\ (Tail(work[s].todo) = << >> => Len(work[s].todo) = 1)
  BY <1>3, <1>4, RestOf
<1>6. /\ w \in WorkOf(s) /\ w.todo = Tail(work[s].todo) /\ w.open = work[s].open + 1
      /\ w.started /\ w.conv = work[s].conv /\ w.err = work[s].err
  <2>1. ASSUME NEW r \in Seq(Tracks(s)), NEW n \in Nat
        PROVE  LET v == [work[s] EXCEPT !.todo = r, !.open = n]
               IN  /\ v \in WorkOf(s) /\ v.todo = r /\ v.open = n /\ v.started = work[s].started
                   /\ v.conv = work[s].conv /\ v.err = work[s].err
    BY <1>3 DEF WorkOf
  <2>2. work[s].open + 1 \in Nat
    BY <1>4
  <2> QED
    BY ONLY <1>3, <1>5, <2>1, <2>2
<1>7. PICK l \in {"join", "feed"} :
        /\ pc' = [pc EXCEPT ![TrackProc(s, k)] = "busy", ![Processor(s)] = l]
        /\ l = "feed" => Len(work[s].todo) # 1
  BY DEF Feed
<1> HIDE DEF w, k
<1>8. /\ TrackProc(s, k) \in Goroutines /\ Processor(s) \in Goroutines
      /\ TrackProc(s, k) # Processor(s) /\ pc \in [Goroutines -> States]
      /\ l \in States /\ "busy" \in States
  BY <1>1, <1>5, Names, Distinct DEF GlobalTyped, States, ProcessorStates, TrackStates
<1>9. /\ pc' \in [Goroutines -> States] /\ pc'[TrackProc(s, k)] = "busy" /\ pc'[Processor(s)] = l
      /\ \A h \in Goroutines \ {TrackProc(s, k), Processor(s)} : pc'[h] = pc[h]
  BY <1>7, <1>8
<1>10. PcElsewhere(s)
  BY <1>5, <1>9, Names, Elsewhere
<1>11. /\ \A j \in Tracks(s) \ {k} : pc'[TrackProc(s, j)] = pc[TrackProc(s, j)]
       /\ pc'[Primary] = pc[Primary] /\ pc'[Downloader(s)] = pc[Downloader(s)]
  BY <1>9, Names, Distinct
<1>12. work'[s] = w /\ work' = [work EXCEPT ![s] = work'[s]] /\ tq' = [tq EXCEPT ![s] = tq'[s]]
  BY <1>1, <1>2 DEF GlobalTyped
<1>13. tq' = tq /\ format' = format /\ timeConv' = timeConv
  BY <1>1 DEF lead, conv
<1>14. StreamStep(s)
  BY <1>1, <1>10, <1>11, <1>12 DEF StreamStep, GlobalTyped, conv, down
<1>15. LocalTyped(s)'
  BY <1>1, <1>6, <1>9, <1>11, <1>12, <1>13
     DEF StreamInv, LocalTyped, ProcessorStates, TrackStates, WorkOf, Tracks
<1>16. Beginning(s)'
  BY <1>1, <1>6, <1>9, <1>11, <1>12, <1>13 DEF StreamInv, Beginning, Tracks
<1>17. Busy(s)' = Busy(s) \union {k} /\ k \notin Busy(s)
  BY <1>1, <1>5, <1>9, <1>11 DEF Busy, Tracks
<1>18. Cardinality(Busy(s)') = Cardinality(Busy(s)) + 1
  BY <1>17, BusyFinite, FS_AddElement
<1>19. FMP4Inv(s)'
  <2>1. w.open = Cardinality(Busy(s)')
    BY <1>1, <1>3, <1>6, <1>18 DEF StreamInv, FMP4Inv
  <2>2. l = "feed" => w.todo # << >>
    BY <1>5, <1>6, <1>7
  <2>3. \A j \in Tracks(s) : tq[s][j] = << >>
    BY <1>1, <1>3 DEF StreamInv, FMP4Inv
  <2> QED
    BY <1>3, <1>6, <1>9, <1>12, <1>13, <2>1, <2>2, <2>3 DEF FMP4Inv, Tracks
<1>20. MPEGTSInv(s)'
  BY <1>3, <1>13 DEF MPEGTSInv
<1> QED
  BY <1>14, <1>15, <1>16, <1>19, <1>20, StreamStepKeeps DEF StreamInv

LEMMA SamplesTyped ==
    ASSUME NEW s \in Streams, NEW samples \in Samples(s)
    PROVE  /\ samples \in Seq(Tracks(s)) /\ LeadingFound(samples) \in BOOLEAN
           /\ LeadingFound(samples) => samples # << >>
<1>1. PICK n \in 0..MaxSamples : samples \in [1..n -> Tracks(s)]
  BY DEF Samples
<1>2. n \in Nat
  BY <1>1, ClientAssumption DEF ClientAssumption
<1>3. samples \in Seq(Tracks(s))
  BY <1>1, <1>2
<1>4. samples = << >> => ~LeadingFound(samples)
  BY DEF LeadingFound
<1> QED
  BY <1>3, <1>4 DEF LeadingFound

LEMMA PullSegmentKeeps ==
    ASSUME ClientInv, NEW s \in Streams, PullSegment(s)
    PROVE  ClientInv'
<1> DEFINE ts == format[s].container = "MPEGTS"
<1>1. /\ GlobalTyped /\ StreamInv(s) /\ pc[Processor(s)] = "pull" /\ queue[s] # << >>
      /\ queue' = [queue EXCEPT ![s] = Tail(@)]
      /\ UNCHANGED << life, lead, fetched, tq, conv >>
      /\ work[s] \in WorkOf(s) /\ (~ts => format[s].container = "FMP4")
  BY FormatOf DEF ClientInv, PullSegment, StreamInv, LocalTyped
<1>2. /\ queue' \in [Streams -> Seq({"segment", "error", "eos"})] /\ fetched' \in [Streams -> Nat]
      /\ ntpReceived' \in BOOLEAN /\ timeConv' = timeConv /\ tq' = tq /\ format' = format
  BY <1>1, QueueTyped DEF GlobalTyped, conv, lead
<1>3. ASSUME Goto(Processor(s), "failing"), UNCHANGED work PROVE ClientInv'
  BY <1>1, <1>2, <1>3, ProcessorFails DEF ProcessorOnly
<1>4. ASSUME NEW samples \in Samples(s), ts \/ LeadingFound(samples),
             work' = [work EXCEPT ![s].todo = samples, ![s].found = LeadingFound(samples),
                                  ![s].started = @ \/ ~ts],
             pc' = [g \in Goroutines |->
                        CASE g = Processor(s) ->
                                IF work[s].started THEN IF ts THEN "read" ELSE "stamp"
                                                   ELSE IF ts THEN "offer" ELSE "conv"
                          [] ~ts /\ ~work[s].started /\ g \in TrackProcs(s) -> "idle"
                          [] OTHER -> pc[g]]
      PROVE  ClientInv'
  <2> DEFINE was == work[s].started
             label == IF was THEN IF ts THEN "read" ELSE "stamp" ELSE IF ts THEN "offer" ELSE "conv"
             Label(g) == CASE g = Processor(s) -> label
                           [] ~ts /\ ~was /\ g \in TrackProcs(s) -> "idle"
                           [] OTHER -> pc[g]
             w == [work[s] EXCEPT !.todo = samples, !.found = LeadingFound(samples),
                                  !.started = @ \/ ~ts]
  <2>1. pc' = [g \in Goroutines |-> Label(g)]
    BY <1>4, Zenon
  <2>2. work'[s] = w /\ work' = [work EXCEPT ![s] = work'[s]] /\ tq' = [tq EXCEPT ![s] = tq'[s]]
    BY <1>1, <1>2, <1>4 DEF GlobalTyped
  <2>3. samples \in Seq(Tracks(s)) /\ LeadingFound(samples) \in BOOLEAN
        /\ (~ts => samples # << >>)
    BY <1>4, SamplesTyped
  <2>4. /\ w \in WorkOf(s) /\ w.todo = samples /\ (w.started <=> was \/ ~ts)
        /\ w.open = work[s].open /\ w.conv = work[s].conv /\ w.err = work[s].err
    BY <1>1, <2>3 DEF WorkOf
  <2> HIDE DEF w
  <2>5. /\ Processor(s) \in Goroutines /\ Downloader(s) \in Goroutines /\ Primary \in Goroutines
        /\ pc \in [Goroutines -> States]
        /\ \A k \in Tracks(s) : TrackProc(s, k) \in Goroutines /\ TrackProc(s, k) \in TrackProcs(s)
    BY <1>1, Names DEF GlobalTyped
  <2>6. pc'[Processor(s)] = label
    <3>1. Label(Processor(s)) = label
      BY Distinct
    <3> HIDE DEF Label
    <3> QED
      BY <2>1, <2>5, <3>1
  <2>7. pc'[Downloader(s)] = pc[Downloader(s)] /\ pc'[Primary] = pc[Primary]
    <3>1. Label(Downloader(s)) = pc[Downloader(s)] /\ Label(Primary) = pc[Primary]
      BY Distinct
    <3> HIDE DEF Label
    <3> QED
      BY <2>1, <2>5, <3>1
  <2>8. \A k \in Tracks(s) :
            pc'[TrackProc(s, k)] = IF ~ts /\ ~was THEN "idle" ELSE pc[TrackProc(s, k)]
    <3>1. ASSUME NEW k \in Tracks(s)
          PROVE  Label(TrackProc(s, k)) = IF ~ts /\ ~was THEN "idle" ELSE pc[TrackProc(s, k)]
      BY <2>5, Distinct
    <3> HIDE DEF Label
    <3> QED
      BY <2>1, <2>5, <3>1
  <2>9. label \in {"read", "stamp", "offer", "conv"}
    OBVIOUS
  <2>10. pc' \in [Goroutines -> States]
    <3>1. {"read", "stamp", "offer", "conv", "idle"} \subseteq States
      BY DEF States, ProcessorStates, TrackStates
    <3> HIDE DEF label
    <3>2. \A g : Label(g) \in {label, "idle", pc[g]}
      OBVIOUS
    <3>3. \A g \in Goroutines : Label(g) \in States
      BY <2>5, <2>9, <3>1, <3>2
    <3> HIDE DEF Label
    <3> QED
      BY <2>1, <3>3
  <2>11. PcElsewhere(s)
    <3>1. \A h : h \notin {Processor(s)} \union TrackProcs(s) => Label(h) = pc[h]
      OBVIOUS
    <3> HIDE DEF Label
    <3>2. \A h \in Goroutines :
            h \notin {Primary, Downloader(s), Processor(s)} \union TrackProcs(s) => pc'[h] = pc[h]
      BY <2>1, <3>1
    <3> QED
      BY <2>10, <3>2, Elsewhere
  <2> HIDE DEF Label
  <2>12. StreamStep(s)
    BY <1>1, <1>2, <2>2, <2>7, <2>11 DEF StreamStep
  <2>13. LocalTyped(s)'
    <3>1. \A k \in Tracks(s) : pc'[TrackProc(s, k)] \in TrackStates \union Ends
      BY <1>1, <2>8 DEF StreamInv, LocalTyped, TrackStates
    <3>2. pc'[Processor(s)] \in ProcessorStates /\ pc'[Processor(s)] # "report"
      BY <2>6, <2>9 DEF ProcessorStates
    <3> QED
      BY <1>1, <1>2, <2>2, <2>4, <2>7, <3>1, <3>2 DEF StreamInv, LocalTyped, WorkOf, Tracks
  <2>14. /\ was => work[s].started
         /\ ~was => /\ work[s].open = 0 /\ \A k \in Tracks(s) : tq[s][k] = << >>
                    /\ \A k \in Tracks(s) : pc[TrackProc(s, k)] = "off"
         /\ pc[Downloader(s)] \notin {"off", "playlist", "init"}
         /\ work[s].conv => timeConv = format[s].container
         /\ pc[Primary] = "playlist" => pc[Downloader(s)] = "off"
    BY <1>1 DEF StreamInv, Beginning
  <2>15. pc'[Processor(s)] \in {"off", "init", "offer", "await"} => ~was /\ ts
    BY <2>6
  <2>16. Beginning(s)'
    BY <1>2, <2>2, <2>4, <2>7, <2>8, <2>14, <2>15 DEF Beginning, Tracks
  <2>17. FMP4Inv(s)'
    <3> SUFFICES ASSUME ~ts PROVE FMP4Inv(s)'
      BY <1>2 DEF FMP4Inv
    <3>1. /\ work[s].open = 0 /\ Busy(s) = {} /\ (was => work[s].conv)
          /\ \A k \in Tracks(s) : tq[s][k] = << >>
      BY <1>1, BusyFinite DEF StreamInv, FMP4Inv
    <3>2. Busy(s)' = {}
      BY <2>8, <3>1 DEF Busy, Tracks
    <3>3. Cardinality({}) = 0
      BY FS_EmptySet
    <3>4. pc'[Processor(s)] = IF was THEN "stamp" ELSE "conv"
      BY <2>6
    <3>5. w.started /\ w.todo # << >> /\ w.open = 0 /\ (was => w.conv)
      BY <2>3, <2>4, <3>1
    <3> HIDE DEF was, ts, label
    <3> QED
      BY <1>2, <2>2, <3>1, <3>2, <3>3, <3>4, <3>5 DEF FMP4Inv, Tracks
  <2>18. MPEGTSInv(s)'
    <3> SUFFICES ASSUME ts PROVE MPEGTSInv(s)'
      BY <1>2 DEF MPEGTSInv
    <3>1. pc'[Processor(s)] = IF was THEN "read" ELSE "offer"
      BY <2>6
    <3>2. \A k \in Tracks(s) : pc'[TrackProc(s, k)] = pc[TrackProc(s, k)]
      BY <2>8
    <3>3. MPEGTSInv(s) /\ format[s].container = "MPEGTS" /\ cancelled' = cancelled
      BY <1>1 DEF StreamInv, life
    <3>4. (w.started <=> was) /\ w.conv = work[s].conv /\ w.open = work[s].open
      BY <2>4
    <3> HIDE DEF was, ts, label
    <3>5. Joining(s) => Joining(s)'
      BY <1>1, <1>2, <2>2, <3>1, <3>4 DEF Joining, Tracks
    <3> QED
      BY <1>2, <2>2, <3>1, <3>2, <3>3, <3>4, <3>5 DEF MPEGTSInv, Tracks
  <2> QED
    BY <2>12, <2>13, <2>16, <2>17, <2>18, StreamStepKeeps DEF StreamInv
<1>5. \/ Goto(Processor(s), "failing") /\ UNCHANGED work
      \/ \E samples \in Samples(s) :
            /\ ts \/ LeadingFound(samples)
            /\ work' = [work EXCEPT ![s].todo = samples, ![s].found = LeadingFound(samples),
                                    ![s].started = @ \/ ~ts]
            /\ pc' = [g \in Goroutines |->
                        CASE g = Processor(s) ->
                                IF work[s].started THEN IF ts THEN "read" ELSE "stamp"
                                                   ELSE IF ts THEN "offer" ELSE "conv"
                          [] ~ts /\ ~work[s].started /\ g \in TrackProcs(s) -> "idle"
                          [] OTHER -> pc[g]]
  BY Zenon DEF PullSegment
<1> HIDE DEF ts
<1> QED
  BY <1>3, <1>4, <1>5, Zenon

--------------------------------------------------------------------------------
(***************************************************************************)
(* The processor of an MPEG-TS stream.                                     *)
(***************************************************************************)

\* A step that reads the segment on moves nobody.
LEMMA StaysAt ==
    ASSUME GlobalTyped, NEW s \in Streams, UNCHANGED pc, NEW l, pc[Processor(s)] = l
    PROVE  Goto(Processor(s), l)
  BY Names DEF Goto, GlobalTyped

LEMMA ReadsOn ==
    ASSUME NEW s \in Streams, MPEGTSInv(s), format[s].container = "MPEGTS",
           pc[Processor(s)] = "read", pc' = pc, tq' = tq, format' = format,
           cancelled' = cancelled, work'[s].open = work[s].open,
           work[s].started => work'[s].started, work[s].conv => work'[s].conv
    PROVE  MPEGTSInv(s)'
<1>1. Joining(s) => Joining(s)'
  BY DEF Joining, Tracks
<1> QED
  BY <1>1 DEF MPEGTSInv, Tracks

LEMMA HoldSampleKeeps ==
    ASSUME ClientInv, NEW s \in Streams, HoldSample(s)
    PROVE  ClientInv'
<1> DEFINE k == Head(work[s].todo)
           w == [work[s] EXCEPT !.todo = Tail(work[s].todo), !.held = Append(work[s].held, k)]
<1>1. /\ GlobalTyped /\ StreamInv(s) /\ pc[Processor(s)] = "read" /\ work[s].todo # << >>
      /\ UNCHANGED << life, lead, down, tq, conv >>
      /\ work[s] \in WorkOf(s)
  BY DEF ClientInv, HoldSample, StreamInv, LocalTyped
<1>2. /\ queue' \in [Streams -> Seq({"segment", "error", "eos"})] /\ fetched' \in [Streams -> Nat]
      /\ ntpReceived' \in BOOLEAN /\ timeConv' = timeConv /\ UNCHANGED << life, lead, tq >>
      /\ tq' = tq /\ format' = format
  BY <1>1 DEF GlobalTyped, down, conv, lead
<1>3. CASE Goto(Processor(s), "failing") /\ UNCHANGED work
  BY <1>1, <1>2, <1>3, ProcessorFails DEF ProcessorOnly
<1>4. CASE work' = [work EXCEPT ![s].todo = Tail(@), ![s].held = Append(@, k)] /\ UNCHANGED pc
  <2>1. work' = [work EXCEPT ![s] = w]
    BY <1>4
  <2>2. Tail(work[s].todo) \in Seq(Tracks(s)) /\ Append(work[s].held, k) \in Seq(Tracks(s))
    <3>1. work[s].todo \in Seq(Tracks(s)) /\ work[s].held \in Seq(Tracks(s))
      BY <1>1 DEF WorkOf
    <3>2. k \in Tracks(s) /\ Tail(work[s].todo) \in Seq(Tracks(s))
      BY <1>1, <3>1, RestOf
    <3> HIDE DEF k
    <3> QED
      BY <3>1, <3>2
  <2>3. /\ w \in WorkOf(s) /\ w.started = work[s].started /\ w.conv = work[s].conv
        /\ w.open = work[s].open
    <3>1. ASSUME NEW r \in Seq(Tracks(s)), NEW h \in Seq(Tracks(s))
          PROVE  LET v == [work[s] EXCEPT !.todo = r, !.held = h]
                 IN  /\ v \in WorkOf(s) /\ v.started = work[s].started /\ v.conv = work[s].conv
                     /\ v.open = work[s].open
      BY <1>1 DEF WorkOf
    <3> QED
      BY ONLY <2>2, <3>1
  <2> HIDE DEF w, k
  <2>4. Goto(Processor(s), "read") /\ "read" \in ProcessorStates \union Ends /\ pc' = pc
    BY <1>1, <1>4, StaysAt DEF ProcessorStates
  <2>5. work[s].started /\ format[s].container = "MPEGTS"
    BY <1>1, FormatOf DEF StreamInv, FMP4Inv, MPEGTSInv
  <2>6. FMP4Inv(s)'
    BY <1>2, <2>5 DEF FMP4Inv
  <2>7. ASSUME work'[s] = w PROVE MPEGTSInv(s)'
    BY <1>1, <1>2, <2>3, <2>4, <2>5, <2>7, ReadsOn DEF StreamInv, life
  <2>8. w.conv => timeConv' = format[s].container
    BY <1>1, <1>2, <2>3 DEF StreamInv, Beginning
  <2> QED
    BY <1>1, <1>2, <2>1, <2>3, <2>4, <2>5, <2>6, <2>7, <2>8, ProcessorWorks
<1> QED
  BY <1>3, <1>4 DEF HoldSample

LEMMA InitTimeConvMPEGTSKeeps ==
    ASSUME ClientInv, NEW s \in Streams, InitTimeConvMPEGTS(s)
    PROVE  ClientInv'
<1> DEFINE todo == << 1 >> \o work[s].held \o Tail(work[s].todo)
           w == [work[s] EXCEPT !.conv = TRUE, !.held = << >>, !.todo = todo]
<1>1. /\ GlobalTyped /\ StreamInv(s) /\ pc[Processor(s)] = "read" /\ work[s].todo # << >>
      /\ TimeConvReady(s) /\ SetTimeConv(s)
      /\ UNCHANGED << life, lead, down, tq, ntpReceived >>
      /\ work[s] \in WorkOf(s)
  BY DEF ClientInv, InitTimeConvMPEGTS, StreamInv, LocalTyped
<1>2. /\ queue' \in [Streams -> Seq({"segment", "error", "eos"})] /\ fetched' \in [Streams -> Nat]
      /\ ntpReceived' \in BOOLEAN /\ UNCHANGED << life, lead, tq >>
      /\ tq' = tq /\ format' = format
  BY <1>1 DEF GlobalTyped, down, lead
<1>3. /\ timeConv' = timeConv \/ (timeConv = "none" /\ timeConv' = format[1].container)
      /\ TimeConvFits(s) => timeConv' = format[s].container
  BY <1>1, TimeConvSet
<1>4. CASE Goto(Processor(s), "failing") /\ UNCHANGED work
  BY <1>1, <1>2, <1>3, <1>4, ProcessorFails DEF ProcessorOnly
<1>5. CASE /\ TimeConvFits(s) /\ UNCHANGED pc
           /\ work' = [work EXCEPT ![s].conv = TRUE, ![s].held = << >>,
                                   ![s].todo = << 1 >> \o work[s].held \o Tail(@)]
  <2>1. work' = [work EXCEPT ![s] = w]
    BY <1>5
  <2>2. todo \in Seq(Tracks(s))
    <3>1. work[s].todo \in Seq(Tracks(s)) /\ work[s].held \in Seq(Tracks(s))
      BY <1>1 DEF WorkOf
    <3>2. Tail(work[s].todo) \in Seq(Tracks(s))
      BY <1>1, <3>1, RestOf
    <3>3. << 1 >> \in Seq(Tracks(s))
      BY ClientAssumption DEF ClientAssumption, Tracks
    <3> QED
      BY <3>1, <3>2, <3>3
  <2>3. w \in WorkOf(s) /\ w.started = work[s].started /\ w.conv /\ w.open = work[s].open
    <3> HIDE DEF todo
    <3>1. << >> \in Seq(Tracks(s))
      OBVIOUS
    <3> QED
      BY <1>1, <2>2, <3>1 DEF WorkOf
  <2> HIDE DEF w, todo
  <2>4. Goto(Processor(s), "read") /\ "read" \in ProcessorStates \union Ends /\ pc' = pc
    BY <1>1, <1>5, StaysAt DEF ProcessorStates
  <2>5. work[s].started /\ format[s].container = "MPEGTS"
    BY <1>1, FormatOf DEF StreamInv, FMP4Inv, MPEGTSInv
  <2>6. FMP4Inv(s)'
    BY <1>2, <2>5 DEF FMP4Inv
  <2>7. ASSUME work'[s] = w PROVE MPEGTSInv(s)'
    BY <1>1, <1>2, <2>3, <2>4, <2>5, <2>7, ReadsOn DEF StreamInv, life
  <2> QED
    BY <1>1, <1>2, <1>3, <1>5, <2>1, <2>3, <2>4, <2>5, <2>6, <2>7, ProcessorWorks
<1> QED
  BY <1>4, <1>5 DEF InitTimeConvMPEGTS

\* An order of the tracks in which none comes twice has all of them.
LEMMA OrderCovers ==
    ASSUME NEW s \in Streams, NEW order \in [Tracks(s) -> Tracks(s)],
           \A j, k \in Tracks(s) : order[j] = order[k] => j = k
    PROVE  /\ order \in Seq(Tracks(s)) /\ Len(order) = NTracks[s] /\ order # << >>
           /\ Entries(order) = Tracks(s)
<1>1. NTracks[s] \in Nat \ {0}
  BY ClientAssumption DEF ClientAssumption
<1>2. order \in Seq(Tracks(s)) /\ Len(order) = NTracks[s]
  BY <1>1 DEF Tracks
<1>3. order # << >>
  BY <1>1, <1>2
<1>4. order \in Injection(Tracks(s), Tracks(s))
  BY DEF Injection, IsInjective
<1>5. order \in Surjection(Tracks(s), Tracks(s))
  BY <1>4, BusyFinite, FS_Injection
<1>6. Entries(order) = Tracks(s)
  <2>1. \A k \in Tracks(s) : \E i \in Tracks(s) : order[i] = k
    BY <1>5 DEF Surjection
  <2>2. 1..Len(order) = Tracks(s)
    BY <1>2 DEF Tracks
  <2> QED
    BY <2>1, <2>2 DEF Entries
<1> QED
  BY <1>2, <1>3, <1>6

LEMMA EntriesOf ==
    ASSUME NEW S, NEW q \in Seq(S), NEW e
    PROVE  /\ Entries(Append(q, e)) = Entries(q) \union {e}
           /\ q # << >> => Entries(q) = {Head(q)} \union Entries(Tail(q))
           /\ Entries(q) = {} <=> q = << >>
<1>1. Len(q) \in Nat
  OBVIOUS
<1>2. Entries(Append(q, e)) = Entries(q) \union {e}
  <2>1. Len(Append(q, e)) = Len(q) + 1 /\ Append(q, e)[Len(q) + 1] = e
        /\ \A i \in 1..Len(q) : Append(q, e)[i] = q[i]
    BY <1>1
  <2>2. 1..Len(q) + 1 = 1..Len(q) \union {Len(q) + 1}
    BY <1>1
  <2>3. ASSUME NEW x \in Entries(Append(q, e)) PROVE x \in Entries(q) \union {e}
    BY <2>1, <2>2 DEF Entries
  <2>4. ASSUME NEW x \in Entries(q) \union {e} PROVE x \in Entries(Append(q, e))
    BY <2>1, <2>2 DEF Entries
  <2> QED
    BY <2>3, <2>4
<1>3. q # << >> => Entries(q) = {Head(q)} \union Entries(Tail(q))
  <2> SUFFICES ASSUME q # << >> PROVE Entries(q) = {Head(q)} \union Entries(Tail(q))
    OBVIOUS
  <2>1. /\ Len(q) \in Nat \ {0} /\ Len(Tail(q)) = Len(q) - 1 /\ Head(q) = q[1]
        /\ \A i \in 1..Len(q) - 1 : Tail(q)[i] = q[i + 1]
    BY RestOf
  <2>2. ASSUME NEW x \in Entries(q) PROVE x \in {Head(q)} \union Entries(Tail(q))
    <3>1. PICK i \in 1..Len(q) : x = q[i]
      BY DEF Entries
    <3>2. CASE i = 1
      BY <2>1, <3>1, <3>2
    <3>3. CASE i # 1
      <4>1. i - 1 \in 1..Len(q) - 1 /\ (i - 1) + 1 = i
        BY <2>1, <3>1, <3>3
      <4>2. Tail(q)[i - 1] = x
        BY <2>1, <3>1, <4>1
      <4> QED
        BY <2>1, <4>1, <4>2 DEF Entries
    <3> QED
      BY <3>2, <3>3
  <2>3. ASSUME NEW x \in {Head(q)} \union Entries(Tail(q)) PROVE x \in Entries(q)
    <3>1. CASE x = Head(q)
      BY <2>1, <3>1 DEF Entries
    <3>2. CASE x \in Entries(Tail(q))
      <4>1. PICK i \in 1..Len(q) - 1 : x = Tail(q)[i]
        BY <2>1, <3>2 DEF Entries
      <4>2. i + 1 \in 1..Len(q) /\ x = q[i + 1]
        BY <2>1, <4>1
      <4> QED
        BY <4>2 DEF Entries
    <3> QED
      BY <3>1, <3>2
  <2> QED
    BY <2>2, <2>3
<1>4. Entries(q) = {} <=> q = << >>
  <2>1. q = << >> => Entries(q) = {}
    BY DEF Entries
  <2>2. q # << >> => q[1] \in Entries(q)
    BY <1>1 DEF Entries
  <2> QED
    BY <2>1, <2>2
<1> QED
  BY <1>2, <1>3, <1>4

\* A sample or a nil goes to the track processor that is the next one.
LEMMA PushFacts ==
    ASSUME GlobalTyped, NEW s \in Streams, StreamInv(s), work[s].todo # << >>,
           NEW entry \in {"sample", "nil"}, PushToTrack(s, Head(work[s].todo), entry)
    PROVE  LET k == Head(work[s].todo)
               w == [work[s] EXCEPT !.todo = Tail(work[s].todo)]
           IN  /\ k \in Tracks(s)
               /\ work' = [work EXCEPT ![s] = w] /\ work'[s] = w
               /\ w \in WorkOf(s) /\ w.todo = Tail(work[s].todo) /\ w.started = work[s].started
               /\ w.conv = work[s].conv /\ w.open = work[s].open /\ w.err = work[s].err
               /\ tq' = [tq EXCEPT ![s] = tq'[s]]
               /\ tq'[s] \in [Tracks(s) -> Seq({"sample", "nil"})]
               /\ tq'[s][k] = Append(tq[s][k], entry)
               /\ \A j \in Tracks(s) \ {k} : tq'[s][j] = tq[s][j]
<1> DEFINE k == Head(work[s].todo)
           w == [work[s] EXCEPT !.todo = Tail(work[s].todo)]
<1>1. /\ work[s] \in WorkOf(s) /\ tq[s] \in [Tracks(s) -> Seq({"sample", "nil"})]
      /\ work = [t \in Streams |-> work[t]] /\ tq = [t \in Streams |-> tq[t]]
  BY DEF GlobalTyped, StreamInv, LocalTyped
<1>2. work[s].todo \in Seq(Tracks(s))
  BY <1>1 DEF WorkOf
<1>3. k \in Tracks(s) /\ Tail(work[s].todo) \in Seq(Tracks(s))
  BY <1>2, RestOf
<1>4. work' = [work EXCEPT ![s] = w] /\ tq' = [tq EXCEPT ![s][k] = Append(@, entry)]
  BY DEF PushToTrack
<1>5. /\ w \in WorkOf(s) /\ w.todo = Tail(work[s].todo) /\ w.started = work[s].started
      /\ w.conv = work[s].conv /\ w.open = work[s].open /\ w.err = work[s].err
  <2>1. ASSUME NEW r \in Seq(Tracks(s))
        PROVE  LET v == [work[s] EXCEPT !.todo = r]
               IN  /\ v \in WorkOf(s) /\ v.todo = r /\ v.started = work[s].started
                   /\ v.conv = work[s].conv /\ v.open = work[s].open /\ v.err = work[s].err
    BY <1>1 DEF WorkOf
  <2> QED
    BY ONLY <1>3, <2>1
<1> HIDE DEF k, w
<1>6. work'[s] = w
  BY <1>1, <1>4
<1>7. Append(tq[s][k], entry) \in Seq({"sample", "nil"})
  BY <1>1, <1>3
<1>8. /\ tq' = [tq EXCEPT ![s] = tq'[s]] /\ tq'[s] = [tq[s] EXCEPT ![k] = Append(tq[s][k], entry)]
  BY <1>1, <1>4
<1>9. /\ tq'[s] \in [Tracks(s) -> Seq({"sample", "nil"})]
      /\ tq'[s][k] = Append(tq[s][k], entry)
      /\ \A j \in Tracks(s) \ {k} : tq'[s][j] = tq[s][j]
  BY <1>1, <1>3, <1>7, <1>8
<1> QED
  BY <1>3, <1>4, <1>5, <1>6, <1>8, <1>9 DEF k, w

LEMMA PushSampleKeeps ==
    ASSUME ClientInv, NEW s \in Streams, PushSample(s)
    PROVE  ClientInv'
<1> DEFINE k == Head(work[s].todo)
           w == [work[s] EXCEPT !.todo = Tail(work[s].todo)]
<1>1. /\ GlobalTyped /\ StreamInv(s) /\ pc[Processor(s)] = "read" /\ work[s].todo # << >>
      /\ work[s].conv /\ PushToTrack(s, k, "sample")
      /\ UNCHANGED << life, pc, lead, down, timeConv >>
      /\ ntpReceived' = (ntpReceived \/ (s = 1 /\ k = 1))
  BY DEF ClientInv, PushSample
<1>2. /\ k \in Tracks(s) /\ work'[s] = w /\ work' = [work EXCEPT ![s] = w]
      /\ w \in WorkOf(s) /\ w.started = work[s].started
      /\ w.conv = work[s].conv /\ w.open = work[s].open /\ w.err = work[s].err
      /\ tq' = [tq EXCEPT ![s] = tq'[s]]
      /\ tq'[s] \in [Tracks(s) -> Seq({"sample", "nil"})]
      /\ tq'[s][k] = Append(tq[s][k], "sample")
      /\ \A j \in Tracks(s) \ {k} : tq'[s][j] = tq[s][j]
  BY <1>1, PushFacts
<1> HIDE DEF k, w
<1>3. pc' = pc /\ format' = format /\ timeConv' = timeConv /\ cancelled' = cancelled
  BY <1>1 DEF lead, life
<1>4. /\ format[s].container = "MPEGTS" /\ work[s].started
      /\ tq[s] \in [Tracks(s) -> Seq({"sample", "nil"})]
  BY <1>1, FormatOf DEF StreamInv, FMP4Inv, MPEGTSInv, LocalTyped
<1>5. StreamStep(s)
  <2>1. PcElsewhere(s) /\ ntpReceived' \in BOOLEAN
    BY <1>1, <1>3 DEF PcElsewhere, GlobalTyped
  <2>2. work' = [work EXCEPT ![s] = work'[s]]
    BY <1>2
  <2> QED
    BY <1>1, <1>2, <1>3, <2>1, <2>2 DEF StreamStep, GlobalTyped, down
<1>6. LocalTyped(s)'
  BY <1>1, <1>2, <1>3 DEF StreamInv, LocalTyped, WorkOf, Tracks
<1>7. Beginning(s)'
  BY <1>1, <1>2, <1>3, <1>4 DEF StreamInv, Beginning, Tracks
<1>8. FMP4Inv(s)'
  BY <1>3, <1>4 DEF FMP4Inv
<1>9. \A j \in Tracks(s) : "nil" \in Entries(tq'[s][j]) => "nil" \in Entries(tq[s][j])
  <2>1. Entries(tq'[s][k]) = Entries(tq[s][k]) \union {"sample"}
    BY <1>2, <1>4, EntriesOf
  <2>2. "nil" \in Entries(tq'[s][k]) => "nil" \in Entries(tq[s][k])
    BY <2>1
  <2>3. \A j \in Tracks(s) \ {k} : tq'[s][j] = tq[s][j]
    BY <1>2
  <2> QED
    BY ONLY <2>2, <2>3
<1>10. Joining(s) => Joining(s)'
  BY <1>1, <1>2, <1>3, <1>9 DEF Joining, Tracks
<1>11. MPEGTSInv(s)'
  BY <1>1, <1>2, <1>3, <1>4, <1>10 DEF StreamInv, MPEGTSInv, Tracks
<1> QED
  BY <1>5, <1>6, <1>7, <1>8, <1>11, StreamStepKeeps DEF StreamInv

LEMMA SegmentEndsKeeps ==
    ASSUME ClientInv, NEW s \in Streams, SegmentEnds(s)
    PROVE  ClientInv'
<1>1. /\ GlobalTyped /\ StreamInv(s) /\ pc[Processor(s)] = "read"
      /\ UNCHANGED << life, lead, down, tq, conv >> /\ work[s] \in WorkOf(s)
  BY DEF ClientInv, SegmentEnds, StreamInv, LocalTyped
<1>2. /\ queue' \in [Streams -> Seq({"segment", "error", "eos"})] /\ fetched' \in [Streams -> Nat]
      /\ ntpReceived' \in BOOLEAN /\ timeConv' = timeConv /\ UNCHANGED << life, lead, tq >>
      /\ tq' = tq /\ format' = format /\ cancelled' = cancelled
  BY <1>1 DEF GlobalTyped, down, conv, lead, life
<1>3. CASE Goto(Processor(s), "failing") /\ UNCHANGED work
  BY <1>1, <1>2, <1>3, ProcessorFails DEF ProcessorOnly
<1>4. ASSUME NEW order \in [Tracks(s) -> Tracks(s)],
             \A j, k \in Tracks(s) : order[j] = order[k] => j = k,
             work' = [work EXCEPT ![s].todo = order], Goto(Processor(s), "join")
      PROVE  ClientInv'
  <2> DEFINE w == [work[s] EXCEPT !.todo = order]
  <2>1. work' = [work EXCEPT ![s] = w]
    BY <1>4
  <2>2. /\ order \in Seq(Tracks(s)) /\ Len(order) = NTracks[s] /\ order # << >>
        /\ Entries(order) = Tracks(s)
    BY <1>4, OrderCovers
  <2>3. /\ w \in WorkOf(s) /\ w.todo = order /\ w.started = work[s].started
        /\ w.conv = work[s].conv /\ w.open = work[s].open
    BY <1>1, <2>2 DEF WorkOf
  <2> HIDE DEF w
  <2>4. "join" \in States /\ "join" \in ProcessorStates \union Ends
    BY DEF States, ProcessorStates
  <2>5. TracksStay(s) /\ pc'[Processor(s)] = "join"
    BY <1>1, <1>4, <2>4, ProcessorGoes
  <2>6. work[s].started /\ format[s].container = "MPEGTS"
    BY <1>1, FormatOf DEF StreamInv, FMP4Inv, MPEGTSInv
  <2>7. FMP4Inv(s)'
    BY <1>2, <2>6 DEF FMP4Inv
  <2>8. ASSUME work'[s] = w PROVE MPEGTSInv(s)'
    <3>1. Unsent(s)' = Tracks(s) /\ Answered(s)' = {}
      BY <2>2, <2>3, <2>8 DEF Unsent, Answered, Tracks
    <3>2. Cardinality({}) = 0
      BY FS_EmptySet
    <3>3. \A i, j \in 1..Len(order) : order[i] = order[j] => i = j
      BY <1>4, <2>2 DEF Tracks
    <3>4. Joining(s) => Joining(s)'
      <4> SUFFICES ASSUME Joining(s) PROVE Joining(s)'
        OBVIOUS
      <4>1. work[s].open = 0 /\ \A k \in Tracks(s) : "nil" \notin Entries(tq[s][k])
        BY <1>1 DEF Joining
      <4>2. w.open = 0
        BY <2>3, <4>1
      <4> QED
        BY <1>2, <2>3, <2>5, <2>8, <3>1, <3>2, <3>3, <4>1, <4>2 DEF Joining, Tracks
    <3>5. MPEGTSInv(s) /\ (Joining(s) => Joining(s)')
      BY <1>1, <3>4 DEF StreamInv
    <3> QED
      BY <1>2, <2>2, <2>3, <2>5, <2>6, <2>8, <3>5 DEF MPEGTSInv, TracksStay, Tracks
  <2>9. w.conv => timeConv' = format[s].container
    BY <1>1, <1>2, <2>3 DEF StreamInv, Beginning
  <2> QED
    BY ZenonT(60), <1>1, <1>2, <1>4, <2>1, <2>3, <2>4, <2>6, <2>7, <2>8, <2>9, ProcessorWorks
<1> QED
  BY <1>3, <1>4 DEF SegmentEnds

LEMMA JoinMPEGTSKeeps ==
    ASSUME ClientInv, NEW s \in Streams, JoinMPEGTS(s)
    PROVE  ClientInv'
<1>0. PICK k : k = Head(work[s].todo)
  OBVIOUS
<1> DEFINE w == [work[s] EXCEPT !.todo = Tail(work[s].todo)]
<1>1. /\ GlobalTyped /\ StreamInv(s) /\ pc[Processor(s)] = "join"
      /\ format[s].container = "MPEGTS" /\ PushToTrack(s, k, "nil")
      /\ UNCHANGED << life, lead, down, conv >>
  BY <1>0 DEF ClientInv, JoinMPEGTS
<1>2. /\ work[s].todo # << >> /\ work[s].started /\ work[s] \in WorkOf(s)
      /\ tq[s] \in [Tracks(s) -> Seq({"sample", "nil"})]
  BY <1>1 DEF StreamInv, MPEGTSInv, LocalTyped
<1>3. /\ k \in Tracks(s) /\ work'[s] = w /\ work' = [work EXCEPT ![s] = w]
      /\ w \in WorkOf(s) /\ w.todo = Tail(work[s].todo) /\ w.started = work[s].started
      /\ w.conv = work[s].conv /\ w.open = work[s].open /\ w.err = work[s].err
      /\ tq' = [tq EXCEPT ![s] = tq'[s]]
      /\ tq'[s] \in [Tracks(s) -> Seq({"sample", "nil"})]
      /\ tq'[s][k] = Append(tq[s][k], "nil")
      /\ \A j \in Tracks(s) \ {k} : tq'[s][j] = tq[s][j]
  BY <1>0, <1>1, <1>2, PushFacts
<1>4. PICK l \in {"wait", "join"} :
        Goto(Processor(s), l) /\ (l = "wait" <=> Len(work[s].todo) = 1)
  <2>1. CASE Len(work[s].todo) = 1
    BY <2>1 DEF JoinMPEGTS
  <2>2. CASE Len(work[s].todo) # 1
    BY <2>2 DEF JoinMPEGTS
  <2> QED
    BY <2>1, <2>2
<1>5. l \in States /\ l \in ProcessorStates
  BY DEF States, ProcessorStates
<1>6. /\ PcElsewhere(s) /\ TracksStay(s) /\ pc'[Downloader(s)] = pc[Downloader(s)]
      /\ pc'[Processor(s)] = l /\ pc'[Primary] = pc[Primary]
  BY <1>1, <1>4, <1>5, ProcessorGoes
<1>7. format' = format /\ timeConv' = timeConv /\ cancelled' = cancelled
  BY <1>1 DEF lead, life, conv
<1> DEFINE todo == work[s].todo
           rest == Tail(work[s].todo)
<1>8. todo \in Seq(Tracks(s)) /\ todo # << >>
  BY <1>2 DEF WorkOf
<1>9. /\ Len(todo) \in Nat \ {0} /\ Len(rest) = Len(todo) - 1 /\ k = todo[1]
      /\ rest \in Seq(Tracks(s)) /\ \A i \in 1..Len(todo) - 1 : rest[i] = todo[i + 1]
      /\ rest = << >> <=> Len(todo) = 1
      /\ Entries(todo) = {k} \union Entries(rest)
  BY <1>0, <1>8, RestOf, EntriesOf
<1>10. Unsent(s) = Entries(todo) /\ Unsent(s)' = Entries(rest)
  BY <1>3 DEF Unsent
<1> HIDE DEF w, todo, rest
<1>11. StreamStep(s)
  <2>1. work' = [work EXCEPT ![s] = work'[s]]
    BY <1>3
  <2> QED
    BY <1>1, <1>3, <1>6, <2>1 DEF StreamStep, GlobalTyped, down, conv
<1>12. LocalTyped(s)'
  BY <1>1, <1>3, <1>4, <1>5, <1>6 DEF StreamInv, LocalTyped, TracksStay, WorkOf, Tracks
<1>13. Beginning(s)'
  BY <1>1, <1>2, <1>3, <1>4, <1>6, <1>7 DEF StreamInv, Beginning, Tracks
<1>14. FMP4Inv(s)'
  BY <1>1, <1>7 DEF FMP4Inv
<1>15. \A j \in Tracks(s) : "sample" \in Entries(tq'[s][j]) => "sample" \in Entries(tq[s][j])
  <2>1. Entries(tq'[s][k]) = Entries(tq[s][k]) \union {"nil"}
    BY <1>2, <1>3, EntriesOf
  <2>2. "sample" \in Entries(tq'[s][k]) => "sample" \in Entries(tq[s][k])
    BY <2>1
  <2>3. \A j \in Tracks(s) \ {k} : tq'[s][j] = tq[s][j]
    BY <1>3
  <2> QED
    BY ONLY <2>2, <2>3
<1>16. ASSUME Joining(s) PROVE Joining(s)'
  <2>1. /\ \A i, j \in 1..Len(todo) : todo[i] = todo[j] => i = j
        /\ \A j \in Unsent(s) : "nil" \notin Entries(tq[s][j])
        /\ \A j \in Tracks(s) \ Unsent(s) : NilSent(s, j)
        /\ work[s].open = Cardinality(Answered(s))
    BY <1>1, <1>16 DEF Joining, todo
  <2>2. \A i, j \in 1..Len(rest) : rest[i] = rest[j] => i = j
    <3> SUFFICES ASSUME NEW i \in 1..Len(rest), NEW j \in 1..Len(rest), rest[i] = rest[j]
                 PROVE  i = j
      OBVIOUS
    <3>1. /\ i \in 1..Len(todo) - 1 /\ j \in 1..Len(todo) - 1
          /\ i + 1 \in 1..Len(todo) /\ j + 1 \in 1..Len(todo)
      BY <1>9
    <3>2. todo[i + 1] = todo[j + 1]
      BY <1>9, <3>1
    <3>3. i + 1 = j + 1
      BY <2>1, <3>1, <3>2
    <3> QED
      BY <3>1, <3>3
  <2>3. k \notin Entries(rest)
    <3> SUFFICES ASSUME NEW i \in 1..Len(rest), rest[i] = k PROVE FALSE
      BY DEF Entries
    <3>1. i \in 1..Len(todo) - 1 /\ i + 1 \in 1..Len(todo) /\ 1 \in 1..Len(todo) /\ i + 1 # 1
      BY <1>9
    <3>2. todo[i + 1] = todo[1]
      BY <1>9, <3>1
    <3> QED
      BY <2>1, <3>1, <3>2
  <2>4. k \in Unsent(s) /\ Unsent(s)' = Unsent(s) \ {k}
    BY <1>9, <1>10, <2>3
  <2>5. \A j \in Unsent(s)' : "nil" \notin Entries(tq'[s][j])
    <3>1. Unsent(s)' \subseteq Tracks(s) \ {k}
      BY <1>9, <1>10, <2>3 DEF Entries
    <3> QED
      BY <1>3, <2>1, <2>4, <3>1
  <2>6. NilSent(s, k)'
    <3> DEFINE q == tq[s][k]
    <3>1. q \in Seq({"sample", "nil"}) /\ "nil" \notin Entries(q)
      BY <1>2, <1>3, <2>1, <2>4
    <3>2. Len(q) \in Nat /\ \A i \in 1..Len(q) : q[i] = "sample"
      BY <3>1 DEF Entries
    <3> DEFINE r == Append(q, "nil")
    <3>3. tq'[s][k] = r
      BY <1>3
    <3> HIDE DEF q
    <3>4. /\ r # << >> /\ Len(r) = Len(q) + 1 /\ r[Len(q) + 1] = "nil"
          /\ \A i \in 1..Len(q) : r[i] = "sample"
      BY <3>1, <3>2
    <3> HIDE DEF r
    <3>5. r[Len(r)] = "nil" /\ \A i \in 1..Len(r) - 1 : r[i] = "sample"
      BY <3>2, <3>4
    <3> QED
      BY ONLY <3>3, <3>4, <3>5 DEF NilSent
  <2>7. \A j \in Tracks(s) \ Unsent(s)' : NilSent(s, j)'
    <3>1. ASSUME NEW j \in Tracks(s), j \notin Unsent(s), j # k PROVE NilSent(s, j)'
      <4>1. NilSent(s, j) /\ tq'[s][j] = tq[s][j] /\ pc'[TrackProc(s, j)] = pc[TrackProc(s, j)]
        BY <1>3, <1>6, <2>1, <3>1 DEF TracksStay
      <4> QED
        BY <4>1 DEF NilSent
    <3>2. ASSUME NEW j \in Tracks(s), j \notin Unsent(s)' PROVE NilSent(s, j)'
      <4>1. CASE j = k
        BY <2>6, <4>1
      <4>2. CASE j # k
        BY <2>4, <3>1, <3>2, <4>2
      <4> QED
        BY <4>1, <4>2
    <3> QED
      BY <3>2 DEF Tracks
  <2>8. Answered(s)' = Answered(s)
    <3>1. tq'[s][k] # << >>
      BY SMTT(60), <1>2, <1>3
    <3> QED
      BY <1>3, <2>4, <3>1 DEF Answered, Tracks
  <2> QED
    BY <1>3, <1>4, <1>6, <1>9, <2>1, <2>2, <2>5, <2>7, <2>8 DEF Joining, Tracks, todo, rest
<1>17. MPEGTSInv(s)'
  <2>1. l = "join" => rest # << >>
    BY <1>4, <1>9 DEF todo
  <2>2. w.todo = rest
    BY <1>3 DEF rest
  <2>3. MPEGTSInv(s)
    BY <1>1 DEF StreamInv
  <2> QED
    BY <1>1, <1>2, <1>3, <1>4, <1>6, <1>7, <1>15, <1>16, <2>1, <2>2, <2>3
       DEF MPEGTSInv, TracksStay, Tracks
<1> QED
  BY <1>11, <1>12, <1>13, <1>14, <1>17, StreamStepKeeps DEF StreamInv

LEMMA WaitMPEGTSKeeps ==
    ASSUME ClientInv, NEW s \in Streams, WaitMPEGTS(s)
    PROVE  ClientInv'
<1>1. /\ GlobalTyped /\ StreamInv(s) /\ pc[Processor(s)] = "wait" /\ Goto(Processor(s), "pull")
      /\ UNCHANGED << life, lead, down, tq, conv >>
      /\ work[s] \in WorkOf(s) /\ work[s].started /\ format[s].container = "MPEGTS"
  BY FormatOf DEF ClientInv, WaitMPEGTS, StreamInv, LocalTyped, FMP4Inv, MPEGTSInv
<1>2. /\ queue' \in [Streams -> Seq({"segment", "error", "eos"})] /\ fetched' \in [Streams -> Nat]
      /\ ntpReceived' \in BOOLEAN /\ timeConv' = timeConv /\ UNCHANGED << life, lead, tq >>
      /\ tq' = tq /\ format' = format /\ cancelled' = cancelled
  BY <1>1 DEF GlobalTyped, down, conv, lead, life
<1>3. "pull" \in States /\ "pull" \in ProcessorStates \union Ends
  BY DEF States, ProcessorStates
<1>4. TracksStay(s) /\ pc'[Processor(s)] = "pull"
  BY <1>1, <1>3, ProcessorGoes
<1>5. FMP4Inv(s)'
  BY <1>1, <1>2 DEF FMP4Inv
<1>6. CASE cancelled /\ UNCHANGED work
  <2>1. MPEGTSInv(s)'
    BY <1>1, <1>2, <1>4, <1>6 DEF StreamInv, MPEGTSInv, TracksStay, Tracks
  <2> QED
    BY <1>1, <1>2, <1>3, <1>5, <1>6, <2>1, ProcessorOnlyKeeps DEF ProcessorOnly
<1>7. CASE work[s].open = NTracks[s] /\ work' = [work EXCEPT ![s].open = 0]
  <2> DEFINE w == [work[s] EXCEPT !.open = 0]
  <2>1. work' = [work EXCEPT ![s] = w]
    BY <1>7
  <2>2. /\ w \in WorkOf(s) /\ w.started = work[s].started /\ w.conv = work[s].conv
        /\ w.open = 0
    BY <1>1 DEF WorkOf
  <2> HIDE DEF w
  <2>3. ASSUME Joining(s)
        PROVE  \A k \in Tracks(s) : tq[s][k] = << >> /\ pc[TrackProc(s, k)] # "busy"
    <3>1. /\ work[s].todo = << >> /\ Cardinality(Answered(s)) = NTracks[s]
          /\ \A k \in Tracks(s) \ Unsent(s) : NilSent(s, k)
      BY <1>1, <1>7, <2>3 DEF Joining
    <3>2. Answered(s) \subseteq Tracks(s)
      BY DEF Answered
    <3>3. Answered(s) = Tracks(s)
      BY <3>1, <3>2, BusyFinite, FS_Subset
    <3> QED
      BY <3>1, <3>3 DEF Answered, NilSent
  <2>4. ASSUME work'[s] = w, Joining(s) PROVE Joining(s)'
    <3>1. \A k \in Tracks(s) :
            tq'[s][k] = << >> /\ pc'[TrackProc(s, k)] # "busy" /\ "nil" \notin Entries(tq'[s][k])
      BY SMTT(30), <1>2, <1>4, <2>3, <2>4 DEF TracksStay, Entries
    <3> QED
      BY <1>4, <2>2, <2>4, <3>1 DEF Joining, Tracks
  <2>5. ASSUME work'[s] = w PROVE MPEGTSInv(s)'
    <3>1. MPEGTSInv(s) /\ (Joining(s) => Joining(s)')
      BY <1>1, <2>4, <2>5 DEF StreamInv
    <3> QED
      BY <1>1, <1>2, <1>4, <2>2, <2>5, <3>1 DEF MPEGTSInv, TracksStay, Tracks
  <2>6. w.conv => timeConv' = format[s].container
    BY <1>1, <1>2, <2>2 DEF StreamInv, Beginning
  <2> QED
    BY <1>1, <1>2, <1>3, <1>5, <2>1, <2>2, <2>5, <2>6, ProcessorWorks
<1> QED
  BY <1>6, <1>7 DEF WaitMPEGTS

--------------------------------------------------------------------------------
(***************************************************************************)
(* The track processors.                                                   *)
(***************************************************************************)

LEMMA TrackEndsFMP4Keeps ==
    ASSUME ClientInv, NEW s \in Streams, NEW k \in Tracks(s), TrackEndsFMP4(s, k)
    PROVE  ClientInv'
<1> DEFINE w == [work[s] EXCEPT !.open = work[s].open - 1]
<1>1. /\ GlobalTyped /\ StreamInv(s) /\ pc[TrackProc(s, k)] = "busy"
      /\ format[s].container = "FMP4" /\ work' = [work EXCEPT ![s] = w]
      /\ UNCHANGED << life, lead, down, tq, conv >> /\ work[s] \in WorkOf(s)
  BY DEF ClientInv, TrackEndsFMP4, StreamInv, LocalTyped
<1>2. PICK l \in {"idle", "failing"} : Goto(TrackProc(s, k), l)
  BY DEF TrackEndsFMP4
<1>3. l \in States /\ l \in TrackStates \union Ends
  BY DEF States, TrackStates, Ends
<1>4. /\ PcElsewhere(s) /\ pc'[TrackProc(s, k)] = l
      /\ \A j \in Tracks(s) \ {k} : pc'[TrackProc(s, j)] = pc[TrackProc(s, j)]
      /\ pc'[Processor(s)] = pc[Processor(s)] /\ pc'[Downloader(s)] = pc[Downloader(s)]
      /\ pc'[Primary] = pc[Primary]
  BY <1>1, <1>2, <1>3, TrackGoes
<1>5. tq' = tq /\ format' = format /\ timeConv' = timeConv
  BY <1>1 DEF lead, conv
<1>6. /\ work[s].open = Cardinality(Busy(s)) /\ k \in Busy(s)
      /\ \A j \in Tracks(s) : tq[s][j] = << >>
  BY <1>1 DEF StreamInv, FMP4Inv, Busy
<1>7. Busy(s)' = Busy(s) \ {k}
  BY <1>1, <1>2, <1>4 DEF Busy, Tracks
<1>8. /\ Cardinality(Busy(s)') = Cardinality(Busy(s)) - 1
      /\ Cardinality(Busy(s)') \in Nat /\ Cardinality(Busy(s)) \in Nat \ {0}
  <2>1. IsFiniteSet(Busy(s)')
    BY <1>7, BusyFinite, FS_RemoveElement
  <2> QED
    BY <1>6, <1>7, <2>1, BusyFinite, FS_RemoveElement, FS_CardinalityType
<1>9. /\ w \in WorkOf(s) /\ w.open = Cardinality(Busy(s)') /\ w.started = work[s].started
      /\ w.conv = work[s].conv /\ w.todo = work[s].todo /\ w.err = work[s].err
  <2>1. work[s].open - 1 \in Nat
    BY <1>6, <1>8
  <2> QED
    BY <1>1, <1>6, <1>8, <2>1 DEF WorkOf
<1> HIDE DEF w
<1>10. work'[s] = w /\ work' = [work EXCEPT ![s] = work'[s]] /\ tq' = [tq EXCEPT ![s] = tq'[s]]
  BY <1>1, <1>5 DEF GlobalTyped
<1>11. StreamStep(s)
  BY <1>1, <1>4, <1>5, <1>10 DEF StreamStep, GlobalTyped, down, conv
<1>12. LocalTyped(s)'
  BY <1>1, <1>3, <1>4, <1>5, <1>9, <1>10 DEF StreamInv, LocalTyped, WorkOf, Tracks
<1>13. work[s].started /\ work[s].conv
  BY <1>1, <1>6 DEF StreamInv, Beginning, FMP4Inv
<1>14. Beginning(s)'
  BY <1>1, <1>4, <1>5, <1>9, <1>10, <1>13 DEF StreamInv, Beginning, Tracks
<1>15. FMP4Inv(s)'
  <2>1. FMP4Inv(s) /\ (pc[Processor(s)] \in {"pull", "conv", "stamp"} => FALSE)
    BY <1>1, <1>6, <1>8 DEF StreamInv, FMP4Inv
  <2> QED
    BY ZenonT(60), <1>1, <1>4, <1>5, <1>6, <1>9, <1>10, <1>13, <2>1 DEF FMP4Inv, Tracks
<1>16. MPEGTSInv(s)'
  BY <1>1, <1>5 DEF MPEGTSInv
<1> QED
  BY <1>11, <1>12, <1>14, <1>15, <1>16, StreamStepKeeps DEF StreamInv

LEMMA TrackEndsMPEGTSKeeps ==
    ASSUME ClientInv, NEW s \in Streams, NEW k \in Tracks(s), TrackEndsMPEGTS(s, k)
    PROVE  ClientInv'
<1>1. /\ GlobalTyped /\ StreamInv(s) /\ pc[TrackProc(s, k)] = "busy"
      /\ format[s].container = "MPEGTS"
      /\ UNCHANGED << life, lead, down, work, tq, conv >>
  BY DEF ClientInv, TrackEndsMPEGTS
<1>2. PICK l \in {"idle", "failing"} : Goto(TrackProc(s, k), l)
  BY DEF TrackEndsMPEGTS
<1>3. l \in States /\ l \in TrackStates \union Ends
  BY DEF States, TrackStates, Ends
<1>4. /\ PcElsewhere(s) /\ pc'[TrackProc(s, k)] = l
      /\ \A j \in Tracks(s) \ {k} : pc'[TrackProc(s, j)] = pc[TrackProc(s, j)]
      /\ pc'[Processor(s)] = pc[Processor(s)] /\ pc'[Downloader(s)] = pc[Downloader(s)]
      /\ pc'[Primary] = pc[Primary]
  BY <1>1, <1>2, <1>3, TrackGoes
<1>5. work' = work /\ tq' = tq /\ format' = format /\ timeConv' = timeConv
      /\ cancelled' = cancelled
  BY <1>1 DEF lead, conv, life
<1>6. StreamStep(s)
  BY <1>1, <1>4, <1>5 DEF StreamStep, GlobalTyped, down, conv
<1>7. LocalTyped(s)'
  BY <1>1, <1>3, <1>4, <1>5 DEF StreamInv, LocalTyped, WorkOf, Tracks
<1>8. work[s].started
  BY <1>1 DEF StreamInv, Beginning
<1>9. Beginning(s)'
  BY <1>1, <1>4, <1>5, <1>8 DEF StreamInv, Beginning, Tracks
<1>10. FMP4Inv(s)'
  BY <1>1, <1>5 DEF FMP4Inv
<1>11. \A j \in Tracks(s) : pc'[TrackProc(s, j)] = "busy" => pc[TrackProc(s, j)] = "busy"
  BY <1>2, <1>4
<1>12. Joining(s) => Joining(s)'
  <2>1. Unsent(s)' = Unsent(s) /\ Answered(s)' = Answered(s)
    BY <1>5 DEF Unsent, Answered, Tracks
  <2>2. \A j \in Tracks(s) : NilSent(s, j) => NilSent(s, j)'
    BY <1>5, <1>11 DEF NilSent
  <2> QED
    BY <1>4, <1>5, <1>11, <2>1, <2>2 DEF Joining, Tracks
<1>13. MPEGTSInv(s)'
  BY <1>1, <1>4, <1>5, <1>11, <1>12 DEF StreamInv, MPEGTSInv, Tracks
<1> QED
  BY <1>6, <1>7, <1>9, <1>10, <1>13, StreamStepKeeps DEF StreamInv

LEMMA TrackTakesKeeps ==
    ASSUME ClientInv, NEW s \in Streams, NEW k \in Tracks(s), TrackTakes(s, k)
    PROVE  ClientInv'
<1> DEFINE q == tq[s][k]
           r == Tail(tq[s][k])
<1>1. /\ GlobalTyped /\ StreamInv(s) /\ pc[TrackProc(s, k)] = "idle" /\ q # << >>
      /\ tq' = [tq EXCEPT ![s][k] = r]
      /\ UNCHANGED << life, lead, down, conv >> /\ work[s] \in WorkOf(s)
      /\ tq[s] \in [Tracks(s) -> Seq({"sample", "nil"})]
  BY DEF ClientInv, TrackTakes, StreamInv, LocalTyped
<1>2. /\ format[s].container = "MPEGTS" /\ work[s].started /\ work[s].open \in Nat
  BY <1>1, FormatOf DEF StreamInv, FMP4Inv, Beginning, WorkOf
<1>3. /\ q \in Seq({"sample", "nil"}) /\ r \in Seq({"sample", "nil"})
      /\ Head(q) \in {"sample", "nil"} /\ Len(q) \in Nat \ {0} /\ Len(r) = Len(q) - 1
      /\ Head(q) = q[1] /\ \A i \in 1..Len(q) - 1 : r[i] = q[i + 1]
      /\ r = << >> <=> Len(q) = 1
      /\ Entries(q) = {Head(q)} \union Entries(r)
  <2>1. q \in Seq({"sample", "nil"})
    BY <1>1
  <2> QED
    BY ZenonT(60), <1>1, <2>1, RestOf, EntriesOf
<1>4. PICK l \in {"idle", "busy"} : Goto(TrackProc(s, k), l) /\ (l = "idle" <=> Head(q) = "nil")
  <2>1. Head(q) = "nil" => Goto(TrackProc(s, k), "idle")
    BY <1>1, Names DEF TrackTakes, Goto, GlobalTyped
  <2>2. Head(q) # "nil" => Goto(TrackProc(s, k), "busy")
    BY DEF TrackTakes
  <2> QED
    BY <2>1, <2>2
<1> DEFINE n == IF l = "idle" THEN work[s].open + 1 ELSE work[s].open
<1>5. n \in Nat /\ work' = [work EXCEPT ![s].open = n]
  <2>1. CASE Head(q) = "nil"
    <3>1. work' = [work EXCEPT ![s].open = work[s].open + 1] /\ l = "idle"
      BY <1>4, <2>1 DEF TrackTakes
    <3> QED
      BY <1>2, <3>1
  <2>2. CASE Head(q) # "nil"
    <3>1. work' = work /\ l = "busy"
      BY <1>4, <2>2 DEF TrackTakes
    <3>2. work' = [work EXCEPT ![s].open = work[s].open]
      BY <1>1, <3>1 DEF GlobalTyped, WorkOf
    <3> QED
      BY <1>2, <3>1, <3>2
  <2> QED
    BY <2>1, <2>2
<1> HIDE DEF n
<1> DEFINE w == [work[s] EXCEPT !.open = n]
<1>6. /\ w \in WorkOf(s) /\ w.open = n /\ w.started = work[s].started /\ w.conv = work[s].conv
      /\ w.todo = work[s].todo /\ w.err = work[s].err
  BY <1>1, <1>5 DEF WorkOf
<1>7. work'[s] = w /\ work' = [work EXCEPT ![s] = work'[s]]
  BY <1>1, <1>5 DEF GlobalTyped
<1> HIDE DEF w, q, r
<1>8. /\ tq' = [tq EXCEPT ![s] = tq'[s]] /\ tq'[s] \in [Tracks(s) -> Seq({"sample", "nil"})]
      /\ tq'[s][k] = r /\ \A j \in Tracks(s) \ {k} : tq'[s][j] = tq[s][j]
  <2>1. tq'[s] = [tq[s] EXCEPT ![k] = r] /\ tq' = [tq EXCEPT ![s] = tq'[s]]
    BY <1>1 DEF GlobalTyped
  <2> QED
    BY <1>1, <1>3, <2>1
<1>9. l \in States /\ l \in TrackStates \union Ends
  BY DEF States, TrackStates
<1>10. /\ PcElsewhere(s) /\ pc'[TrackProc(s, k)] = l
       /\ \A j \in Tracks(s) \ {k} : pc'[TrackProc(s, j)] = pc[TrackProc(s, j)]
       /\ pc'[Processor(s)] = pc[Processor(s)] /\ pc'[Downloader(s)] = pc[Downloader(s)]
       /\ pc'[Primary] = pc[Primary]
  BY <1>1, <1>4, <1>9, TrackGoes
<1>11. format' = format /\ timeConv' = timeConv /\ cancelled' = cancelled
  BY <1>1 DEF lead, conv, life
<1>12. StreamStep(s)
  BY <1>1, <1>7, <1>8, <1>10, <1>11 DEF StreamStep, GlobalTyped, down, conv
<1>13. LocalTyped(s)'
  BY <1>1, <1>6, <1>7, <1>8, <1>9, <1>10 DEF StreamInv, LocalTyped, WorkOf, Tracks
<1>14. Beginning(s)'
  BY <1>1, <1>2, <1>6, <1>7, <1>10, <1>11 DEF StreamInv, Beginning, Tracks
<1>15. FMP4Inv(s)'
  BY <1>2, <1>11 DEF FMP4Inv
<1>16. ASSUME NEW j \in Tracks(s)
       PROVE  /\ Entries(tq'[s][j]) \subseteq Entries(tq[s][j])
              /\ tq[s][j] = << >> => tq'[s][j] = << >>
  <2>1. CASE j = k
    BY <1>1, <1>3, <1>8, <2>1 DEF q
  <2>2. CASE j # k
    BY <1>8, <2>2
  <2> QED
    BY <2>1, <2>2
<1>17. ASSUME Joining(s) PROVE Joining(s)'
  <2>1. CASE pc[Processor(s)] \in {"pull", "read"}
    <3>1. /\ work[s].open = 0 /\ \A j \in Tracks(s) : "nil" \notin Entries(tq[s][j])
          /\ pc[Processor(s)] = "pull" => FALSE
      BY <1>1, <1>17, <2>1 DEF Joining, q
    <3>2. Head(q) # "nil"
      BY <1>3, <3>1 DEF q
    <3>3. n = 0
      BY <1>4, <3>1, <3>2 DEF n
    <3> QED
      BY <1>6, <1>7, <1>10, <1>16, <2>1, <3>1, <3>3 DEF Joining, Tracks
  <2>2. CASE pc[Processor(s)] \in {"join", "wait"}
    <3>1. /\ \A i, j \in 1..Len(work[s].todo) : work[s].todo[i] = work[s].todo[j] => i = j
          /\ \A j \in Unsent(s) : "nil" \notin Entries(tq[s][j])
          /\ \A j \in Tracks(s) \ Unsent(s) : NilSent(s, j)
          /\ work[s].open = Cardinality(Answered(s))
          /\ pc[Processor(s)] = "wait" => work[s].todo = << >>
      BY <1>17, <2>2 DEF Joining
    <3>2. Unsent(s)' = Unsent(s)
      BY <1>6, <1>7 DEF Unsent
    <3>3. Unsent(s) \subseteq Tracks(s)
      <4>1. work[s].todo \in Seq(Tracks(s))
        BY <1>1 DEF WorkOf
      <4> QED
        BY <4>1 DEF Unsent, Entries
    <3>4. \A j \in Unsent(s)' : "nil" \notin Entries(tq'[s][j])
      BY <1>16, <3>1, <3>2, <3>3
    <3>5. k \notin Unsent(s) =>
            /\ q[Len(q)] = "nil" /\ \A i \in 1..Len(q) - 1 : q[i] = "sample"
            /\ l = "idle" <=> Len(q) = 1
      <4> SUFFICES ASSUME k \notin Unsent(s)
                   PROVE  /\ q[Len(q)] = "nil" /\ \A i \in 1..Len(q) - 1 : q[i] = "sample"
                          /\ l = "idle" <=> Len(q) = 1
        OBVIOUS
      <4>1. q[Len(q)] = "nil" /\ \A i \in 1..Len(q) - 1 : q[i] = "sample"
        BY <1>1, <3>1 DEF NilSent, q
      <4>2. Len(q) = 1 => Head(q) = "nil"
        BY <1>3, <4>1
      <4>3. Len(q) # 1 => Head(q) = "sample"
        BY <1>3, <4>1
      <4> QED
        BY <1>4, <4>1, <4>2, <4>3
    <3>6. k \in Unsent(s) => l = "busy"
      BY <1>3, <1>4, <3>1 DEF q
    <3>7. NilSent(s, k)' \/ k \in Unsent(s)
      <4> SUFFICES ASSUME k \notin Unsent(s) PROVE NilSent(s, k)'
        OBVIOUS
      <4>1. CASE l = "idle"
        BY <1>3, <1>8, <1>10, <3>5, <4>1 DEF NilSent
      <4>2. CASE l = "busy"
        <5>1. r # << >> /\ Len(r) = Len(q) - 1 /\ Len(q) - 1 \in Nat \ {0}
          BY <1>3, <3>5, <4>2
        <5>2. r[Len(r)] = "nil"
          <6>1. Len(q) - 1 \in 1..Len(q) - 1 /\ (Len(q) - 1) + 1 = Len(q)
            BY <1>3, <5>1
          <6> QED
            BY <1>3, <3>5, <5>1, <6>1
        <5>3. \A i \in 1..Len(r) - 1 : r[i] = "sample"
          <6> SUFFICES ASSUME NEW i \in 1..Len(r) - 1 PROVE r[i] = "sample"
            OBVIOUS
          <6>1. i \in 1..Len(q) - 1 /\ i + 1 \in 1..Len(q) - 1
            BY <1>3, <5>1
          <6> QED
            BY <1>3, <3>5, <6>1
        <5> QED
          BY ONLY <1>8, <5>1, <5>2, <5>3 DEF NilSent
      <4> QED
        BY <4>1, <4>2
    <3>8. ASSUME NEW j \in Tracks(s), j \notin Unsent(s)' PROVE NilSent(s, j)'
      <4>1. CASE j = k
        BY <3>2, <3>7, <3>8, <4>1
      <4>2. CASE j # k
        <5>1. NilSent(s, j) /\ tq'[s][j] = tq[s][j] /\ pc'[TrackProc(s, j)] = pc[TrackProc(s, j)]
          BY <1>8, <1>10, <3>1, <3>2, <3>8, <4>2
        <5> QED
          BY <5>1 DEF NilSent
      <4> QED
        BY <4>1, <4>2
    <3>9. n = Cardinality(Answered(s)')
      <4>1. k \notin Answered(s) /\ IsFiniteSet(Answered(s))
        <5>1. Answered(s) \subseteq Tracks(s)
          BY DEF Answered
        <5> QED
          BY <1>1, <5>1, BusyFinite, FS_Subset DEF Answered, q
      <4>2. k \notin Unsent(s) /\ r = << >> => Answered(s)' = Answered(s) \union {k}
        BY <1>8, <3>2 DEF Answered, Tracks
      <4>3. ~(k \notin Unsent(s) /\ r = << >>) => Answered(s)' = Answered(s)
        BY <1>8, <3>2, <4>1 DEF Answered, Tracks
      <4>4. l = "idle" <=> k \notin Unsent(s) /\ r = << >>
        BY <1>3, <3>5, <3>6
      <4>5. Cardinality(Answered(s) \union {k}) = Cardinality(Answered(s)) + 1
        BY <4>1, FS_AddElement
      <4> QED
        BY <3>1, <4>2, <4>3, <4>4, <4>5 DEF n
    <3>10. pc'[Processor(s)] = pc[Processor(s)] /\ work'[s].todo = work[s].todo /\ work'[s].open = n
      BY <1>6, <1>7, <1>10
    <3>11. \A j \in (Tracks(s) \ Unsent(s))' : NilSent(s, j)'
      BY <3>8 DEF Tracks
    <3> QED
      BY <2>2, <3>1, <3>4, <3>9, <3>10, <3>11 DEF Joining
  <2>3. CASE pc[Processor(s)] \notin {"pull", "read", "join", "wait"}
    BY <1>10, <2>3 DEF Joining
  <2> QED
    BY <2>1, <2>2, <2>3
<1>18. MPEGTSInv(s)'
  <2>1. MPEGTSInv(s)
    BY <1>1 DEF StreamInv
  <2>2. l = "busy" => work[s].conv
    <3>1. l = "busy" => "sample" \in Entries(q)
      BY <1>3, <1>4
    <3> QED
      BY <1>2, <2>1, <3>1 DEF MPEGTSInv, q
  <2>3. ASSUME NEW j \in Tracks(s), "sample" \in Entries(tq'[s][j]) \/ pc'[TrackProc(s, j)] = "busy"
        PROVE  work[s].conv
    <3>1. CASE "sample" \in Entries(tq'[s][j])
      BY <1>2, <1>16, <2>1, <3>1 DEF MPEGTSInv
    <3>2. CASE pc'[TrackProc(s, j)] = "busy"
      BY <1>2, <1>10, <2>1, <2>2, <2>3, <3>2 DEF MPEGTSInv
    <3> QED
      BY <2>3, <3>1, <3>2
  <2> QED
    BY <1>2, <1>6, <1>7, <1>10, <1>11, <1>17, <2>1, <2>3 DEF MPEGTSInv, Tracks
<1> QED
  BY <1>12, <1>13, <1>14, <1>15, <1>18, StreamStepKeeps DEF StreamInv

--------------------------------------------------------------------------------
(***************************************************************************)
(* Every step keeps the invariant.                                         *)
(***************************************************************************)

\* The ends of goroutines: the error is taken or dropped, or the context ends a
\* wait.
Exits(g) ==
    \/ SelectError(g) \/ DropError(g)
    \/ g = Primary /\ PrimaryReleased
    \/ \E s \in Streams :
        \/ g = Downloader(s) /\ DownloaderReleased(s)
        \/ g = Processor(s) /\ ProcessorReleased(s)
        \/ \E k \in Tracks(s) : g = TrackProc(s, k) /\ TrackStops(s, k)

LEMMA ExitsKeep ==
    ASSUME ClientInv, NEW g \in Goroutines, Exits(g)
    PROVE  ClientInv'
<1>1. /\ main \in {"running", "stopping", "joining", "done"}
      /\ closeError \in {"none", "terminated", "error", "eos"} /\ lastErr \in {"error", "eos"}
  BY DEF ClientInv, GlobalTyped
<1>2. pc[g] \notin {"off", "busy"} /\ Goto(g, "exited")
  BY DEF Exits, SelectError, DropError, Released, PrimaryReleased, DownloaderReleased,
         ProcessorReleased, TrackStops
<1>3. /\ UNCHANGED << asked, cancelled, lead, down, work, tq, conv >>
      /\ main' \in {"running", "stopping", "joining", "done"}
      /\ closeError' \in {"none", "terminated", "error", "eos"}
  <2>1. CASE SelectError(g)
    BY <1>1, <2>1 DEF SelectError
  <2>2. CASE ~SelectError(g)
    <3>1. UNCHANGED << life, lead, down, work, tq, conv >>
      BY <2>2 DEF Exits, DropError, Released, PrimaryReleased, DownloaderReleased,
                  ProcessorReleased, TrackStops
    <3> QED
      BY <1>1, <3>1 DEF life
  <2> QED
    BY <2>1, <2>2
<1> QED
  BY <1>2, <1>3, ExitKeeps

LEMMA ProcessorNextKeeps ==
    ASSUME ClientInv, NEW s \in Streams, ProcessorNext(s)
    PROVE  ClientInv'
<1>1. CASE ParseInit(s)
  BY <1>1, ParseInitKeeps
<1>2. CASE PullError(s)
  BY <1>2, PullErrorKeeps
<1>3. CASE PullSegment(s)
  BY <1>3, PullSegmentKeeps
<1>4. CASE InitTimeConvFMP4(s)
  BY <1>4, InitTimeConvFMP4Keeps
<1>5. CASE Stamp(s)
  BY <1>5, StampKeeps
<1>6. CASE Feed(s)
  BY <1>6, FeedKeeps
<1>7. CASE JoinFMP4(s)
  BY <1>7, JoinFMP4Keeps
<1>8. CASE HoldSample(s)
  BY <1>8, HoldSampleKeeps
<1>9. CASE InitTimeConvMPEGTS(s)
  BY <1>9, InitTimeConvMPEGTSKeeps
<1>10. CASE PushSample(s)
  BY <1>10, PushSampleKeeps
<1>11. CASE SegmentEnds(s)
  BY <1>11, SegmentEndsKeeps
<1>12. CASE JoinMPEGTS(s)
  BY <1>12, JoinMPEGTSKeeps
<1>13. CASE WaitMPEGTS(s)
  BY <1>13, WaitMPEGTSKeeps
<1>14. CASE ProcessorReleased(s)
  BY <1>14, ExitsKeep, Names DEF Exits
<1> QED
  BY <1>1, <1>2, <1>3, <1>4, <1>5, <1>6, <1>7, <1>8, <1>9, <1>10, <1>11, <1>12, <1>13, <1>14
     DEF ProcessorNext

LEMMA TrackNextKeeps ==
    ASSUME ClientInv, NEW s \in Streams, NEW k \in Tracks(s), TrackNext(s, k)
    PROVE  ClientInv'
<1>1. CASE TrackEndsFMP4(s, k)
  BY <1>1, TrackEndsFMP4Keeps
<1>2. CASE TrackTakes(s, k)
  BY <1>2, TrackTakesKeeps
<1>3. CASE TrackEndsMPEGTS(s, k)
  BY <1>3, TrackEndsMPEGTSKeeps
<1>4. CASE TrackStops(s, k)
  BY <1>4, ExitsKeep, Names DEF Exits
<1> QED
  BY <1>1, <1>2, <1>3, <1>4 DEF TrackNext

LEMMA NextClientInv == ClientInv /\ [Next]_vars => ClientInv'
<1> SUFFICES ASSUME ClientInv, [Next]_vars PROVE ClientInv'
  OBVIOUS
<1>1. CASE Close \/ SelectDone \/ PoolCancel \/ PoolWait
  BY <1>1, MainKeeps
<1>2. ASSUME NEW g \in Goroutines, SelectError(g) \/ DropError(g) PROVE ClientInv'
  BY <1>2, ExitsKeep DEF Exits
<1>3. CASE PrimaryNext
  BY <1>3, PrimaryDownloadKeeps, CollectTracksKeeps, SetTracksKeeps, StartStreamingKeeps,
     CollectErrorKeeps DEF PrimaryNext
<1>4. CASE PrimaryReleased
  BY <1>4, ExitsKeep, Names DEF Exits
<1>5. ASSUME NEW s \in Streams, DownloaderNext(s) PROVE ClientInv'
  BY <1>5, DownloaderNextKeeps
<1>6. ASSUME NEW s \in Streams, DownloaderReleased(s) PROVE ClientInv'
  BY <1>6, ExitsKeep, Names DEF Exits
<1>7. ASSUME NEW s \in Streams, ProcessorNext(s) PROVE ClientInv'
  BY <1>7, ProcessorNextKeeps
<1>8. ASSUME NEW s \in Streams, NEW k \in Tracks(s), TrackNext(s, k) PROVE ClientInv'
  BY <1>8, TrackNextKeeps
<1>9. CASE UNCHANGED vars
  <2>1. UNCHANGED << life, pc, lead, down, work, tq, conv >>
    BY <1>9 DEF vars
  <2>2. GlobalTyped'
    BY <2>1 DEF ClientInv, GlobalTyped, life, lead, down, conv, Streams
  <2>3. \A s \in Streams : SameStream(s)
    BY <2>1 DEF SameStream, life, lead, conv
  <2> QED
    BY <2>2, <2>3, NoStreamKeeps
<1> QED
  BY <1>1, <1>2, <1>3, <1>4, <1>5, <1>6, <1>7, <1>8, <1>9 DEF Next, MainNext

LEMMA ClientInvHolds == Spec => []ClientInv
  BY InitClientInv, NextClientInv, PTL DEF Spec

--------------------------------------------------------------------------------
(***************************************************************************)
(* The types, and the segments.                                            *)
(***************************************************************************)

\* Every variable has its type: no goroutine is anywhere but where it can be, and
\* no wait group goes below zero.
THEOREM ClientTyped == Spec => []TypeOK
<1>1. ClientInv => TypeOK
  <2> SUFFICES ASSUME ClientInv PROVE TypeOK
    OBVIOUS
  <2>1. GlobalTyped /\ \A s \in Streams : LocalTyped(s)
    BY DEF ClientInv, StreamInv
  <2>2. ASSUME NEW s \in Streams PROVE work[s] \in Work
    <3>1. Tracks(s) \subseteq Nat
      BY ClientAssumption DEF ClientAssumption, Tracks
    <3>2. work[s] \in WorkOf(s)
      BY <2>1 DEF LocalTyped
    <3>3. \A q \in Seq(Tracks(s)) : q \in Seq(Nat)
      BY <3>1
    <3> QED
      BY <3>2, <3>3 DEF WorkOf, Work
  <2>3. work \in [Streams -> Work] /\ DOMAIN tq = Streams /\ DOMAIN pc = Goroutines
    BY <2>1, <2>2 DEF GlobalTyped
  <2>4. timeConv \in {"none", "FMP4", "MPEGTS"}
    <3>1. 1 \in Streams
      BY ClientAssumption DEF ClientAssumption, Streams
    <3> QED
      BY <2>1, <3>1, FormatOf DEF GlobalTyped
  <2> QED
    BY <2>1, <2>3, <2>4 DEF GlobalTyped, LocalTyped, TypeOK
<1> QED
  BY <1>1, ClientInvHolds, PTL

\* A processor asks for the next segment when the wait group of the last one is
\* empty, its queues are, and no track processor is busy, unless the client ends:
\* the samples of two segments are never processed at a time.
THEOREM SegmentsNeverOverlap == Spec => []SegmentsJoined
<1>1. ClientInv => SegmentsJoined
  <2> SUFFICES ASSUME ClientInv, NEW s \in Streams, pc[Processor(s)] = "pull", ~cancelled
               PROVE  /\ work[s].open = 0
                      /\ \A k \in Tracks(s) : tq[s][k] = << >> /\ pc[TrackProc(s, k)] # "busy"
    BY DEF SegmentsJoined
  <2>1. StreamInv(s) /\ GlobalTyped
    BY DEF ClientInv
  <2>2. CASE format[s].container = "FMP4"
    <3>1. /\ work[s].open = 0 /\ work[s].open = Cardinality(Busy(s))
          /\ \A k \in Tracks(s) : tq[s][k] = << >>
      BY <2>1, <2>2 DEF StreamInv, FMP4Inv
    <3>2. Busy(s) = {}
      BY <3>1, BusyFinite
    <3> QED
      BY <3>1, <3>2 DEF Busy
  <2>3. CASE format[s].container = "MPEGTS"
    BY <2>1, <2>3 DEF StreamInv, MPEGTSInv, Joining
  <2> QED
    BY <2>1, <2>2, <2>3, FormatOf
<1> QED
  BY <1>1, ClientInvHolds, PTL

--------------------------------------------------------------------------------
(***************************************************************************)
(* The order of the start: the tracks of all streams, OnTracks, the data.  *)
(***************************************************************************)

\* The stream has handed its tracks over, and does not ask for them again.
Past(s) ==
    /\ pc[Processor(s)] \notin {"off", "init", "offer"}
    /\ format[s].container = "MPEGTS" /\ pc[Processor(s)] = "pull" => work[s].started

\* The stream has been told to go on.
Going(s) ==
    \/ work[s].started
    \/ format[s].container = "FMP4" /\ pc[Processor(s)] \in {"pull", "conv", "stamp", "feed", "join"}

\* The primary downloader takes the tracks of the streams one by one, then starts
\* the streams one by one.
OrderInv ==
    /\ pc[Primary] \in {"playlist", "onTracks"} => at = 1
    /\ pc[Primary] = "collect" => \A s \in 1..at - 1 : Past(s)
    /\ pc[Primary] \in {"onTracks", "start", "errors"} => \A s \in Streams : Past(s)
    /\ \A s \in Streams : Going(s) =>
        /\ pc[Primary] \notin {"playlist", "collect", "onTracks"}
        /\ \A t \in Streams : Past(t)

LEMMA InitOrderInv == Init => OrderInv
<1> SUFFICES ASSUME Init PROVE OrderInv
  OBVIOUS
<1>1. pc[Primary] = "playlist" /\ at = 1
  BY Names DEF Init
<1>2. ASSUME NEW s \in Streams PROVE ~Going(s)
  <2>1. work[s] = NoWork /\ pc[Processor(s)] = "off"
    BY Names, Distinct DEF Init
  <2> QED
    BY <2>1 DEF Going, NoWork
<1> QED
  BY <1>1, <1>2 DEF OrderInv

\* What a step does to the start of a stream: nothing, or it goes on.
Forward(s) == (Past(s) => Past(s)') /\ (Going(s)' => Going(s))

\* A step that leaves the primary downloader where it is, or ends it.
LEMMA OrderKept ==
    ASSUME OrderInv, \A s \in Streams : Forward(s), at' = at,
           at \in Streams, pc'[Primary] = pc[Primary] \/ pc'[Primary] \in Ends
    PROVE  OrderInv'
<1>1. ASSUME NEW s \in Streams, Going(s)'
      PROVE  /\ pc'[Primary] \notin {"playlist", "collect", "onTracks"}
             /\ \A t \in Streams : Past(t)'
  BY <1>1 DEF OrderInv, Forward, Ends
<1>2. pc'[Primary] \in {"playlist", "onTracks"} => at' = 1
  BY DEF OrderInv, Ends
<1>3. pc'[Primary] = "collect" => \A s \in 1..at' - 1 : Past(s)'
  <2>1. \A s \in 1..at - 1 : s \in Streams
    BY ClientAssumption DEF Streams, ClientAssumption
  <2> QED
    BY <2>1 DEF OrderInv, Forward, Ends
<1>4. pc'[Primary] \in {"onTracks", "start", "errors"} => \A s \in Streams : Past(s)'
  BY DEF OrderInv, Forward, Ends
<1> QED
  BY <1>1, <1>2, <1>3, <1>4 DEF OrderInv, Streams

\* The fields of the processor of a stream that a step may change.
LEMMA StartedStays ==
    ASSUME ClientInv, NEW s \in Streams, NEW w, w.started = work[s].started,
           work' = [work EXCEPT ![s] = w]
    PROVE  \A t \in Streams : work'[t].started = work[t].started
  BY DEF ClientInv, GlobalTyped

\* A step in which the processor of one stream moves.
LEMMA ProcessorOrder ==
    ASSUME ClientInv, OrderInv, NEW s \in Streams, NEW l \in States,
           Goto(Processor(s), l), UNCHANGED lead,
           \A t \in Streams : work'[t].started = work[t].started,
           l \in {"off", "init", "offer"} => pc[Processor(s)] \in {"off", "init"},
           l = "pull" => work[s].started \/ format[s].container = "FMP4",
           Going(s)' => Going(s)
    PROVE  OrderInv'
<1>1. GlobalTyped /\ at \in Streams
  BY DEF ClientInv, GlobalTyped
<1>2. /\ PcElsewhere(s) /\ pc'[Processor(s)] = l /\ pc'[Primary] = pc[Primary]
  BY <1>1, ProcessorGoes
<1>3. at' = at /\ format' = format
  BY DEF lead
<1>4. ASSUME NEW t \in Streams, t # s PROVE Forward(t)
  BY <1>2, <1>3, <1>4 DEF Forward, Past, Going, PcElsewhere
<1>5. Forward(s)
  BY <1>2, <1>3 DEF Forward, Past
<1> QED
  BY <1>1, <1>2, <1>3, <1>4, <1>5, OrderKept

\* A step in which no processor moves.
LEMMA OthersOrder ==
    ASSUME ClientInv, OrderInv, UNCHANGED lead,
           \A t \in Streams : /\ work'[t].started = work[t].started
                              /\ pc'[Processor(t)] = pc[Processor(t)],
           pc'[Primary] = pc[Primary] \/ pc'[Primary] \in Ends
    PROVE  OrderInv'
<1>1. at' = at /\ format' = format /\ at \in Streams
  BY DEF lead, ClientInv, GlobalTyped
<1>2. ASSUME NEW t \in Streams PROVE Forward(t)
  BY <1>1 DEF Forward, Past, Going
<1> QED
  BY <1>1, <1>2, OrderKept

LEMMA PrimaryOrder ==
    ASSUME ClientInv, OrderInv, PrimaryNext
    PROVE  OrderInv'
<1>1. GlobalTyped /\ at \in Streams /\ NStreams \in Nat \ {0}
  BY ClientAssumption DEF ClientInv, GlobalTyped, ClientAssumption
<1>2. PICK s \in Streams : s = at
  BY <1>1
<1>3. StreamInv(s) /\ \A t \in Streams : StreamInv(t)
  BY DEF ClientInv
<1>4. CASE PrimaryDownload
  <2>1. /\ pc[Primary] = "playlist" /\ at = 1 /\ at' = at /\ work' = work /\ format' = format
    BY <1>4 DEF PrimaryDownload, OrderInv, lead
  <2>2. pc'[Primary] \in {"collect", "failing"} /\ \A t \in Streams : pc'[Processor(t)] = pc[Processor(t)]
    <3>1. PICK n \in 0..NStreams, ok \in BOOLEAN, first \in {"playlist", "init"} :
            /\ ok => n = NStreams
            /\ first = "init" => n = 1 /\ NStreams = 1
            /\ pc' = [g \in Goroutines |->
                        CASE g = Primary -> IF ok THEN "collect" ELSE "failing"
                          [] \E t \in 1..n : g = Downloader(t) -> first
                          [] OTHER -> pc[g]]
      BY <1>4, Zenon DEF PrimaryDownload
    <3> DEFINE Label(g) == CASE g = Primary -> IF ok THEN "collect" ELSE "failing"
                             [] \E t \in 1..n : g = Downloader(t) -> first
                             [] OTHER -> pc[g]
    <3>2. pc' = [g \in Goroutines |-> Label(g)]
      BY <3>1, Zenon
    <3>3. Label(Primary) = IF ok THEN "collect" ELSE "failing"
      BY Distinct
    <3>4. \A t \in Streams : Label(Processor(t)) = pc[Processor(t)]
      BY Distinct
    <3>5. Label(Primary) \in {"collect", "failing"}
      BY <3>3
    <3> HIDE DEF Label
    <3> QED
      BY <3>2, <3>4, <3>5, Names
  <2>3. \A t \in Streams : ~Going(t)
    BY <2>1 DEF OrderInv
  <2>4. \A t \in Streams : ~Going(t)'
    BY <2>1, <2>2, <2>3 DEF Going
  <2>5. 1..at' - 1 = {}
    BY <2>1
  <2> QED
    BY <2>2, <2>4, <2>5 DEF OrderInv, Streams
<1>5. CASE CollectTracks
  <2>1. /\ pc[Primary] = "collect" /\ pc[Processor(s)] = "offer"
        /\ work' = work /\ format' = format
        /\ at' = IF s = NStreams THEN 1 ELSE s + 1
        /\ pc' = [pc EXCEPT ![Primary] = IF s = NStreams THEN "onTracks" ELSE @,
                            ![Processor(s)] = "await"]
    BY <1>2, <1>5 DEF CollectTracks
  <2>2. PICK l \in {"onTracks", "collect"} :
            /\ pc' = [pc EXCEPT ![Primary] = l, ![Processor(s)] = "await"]
            /\ l = "onTracks" <=> s = NStreams
    BY <2>1
  <2>3. l \in States /\ "await" \in States
    BY DEF States, PrimaryStates, ProcessorStates
  <2>4. PcElsewhere(s) /\ pc'[Processor(s)] = "await" /\ pc'[Primary] = l
    BY <1>1, <2>2, <2>3, TwoGo
  <2>5. \A t \in Streams : ~Going(t)
    BY <2>1 DEF OrderInv
  <2>6. ASSUME NEW t \in Streams PROVE ~Going(t)'
    <3>1. CASE t = s
      BY <2>1, <2>4, <2>5, <3>1 DEF Going
    <3>2. CASE t # s
      BY <2>1, <2>4, <2>5, <3>2 DEF Going, PcElsewhere
    <3> QED
      BY <3>1, <3>2
  <2>7. ASSUME NEW t \in 1..s PROVE Past(t)'
    <3>1. t \in Streams /\ (t # s => t \in 1..s - 1)
      BY <1>1 DEF Streams
    <3>2. CASE t = s
      BY <2>4, <3>2 DEF Past
    <3>3. CASE t # s
      <4>1. Past(t)
        BY <1>2, <2>1, <3>1, <3>3 DEF OrderInv
      <4> QED
        BY <2>1, <2>4, <3>1, <3>3, <4>1 DEF Past, PcElsewhere
    <3> QED
      BY <3>2, <3>3
  <2>8. CASE s = NStreams
    <3>1. pc'[Primary] = "onTracks" /\ at' = 1 /\ \A t \in Streams : Past(t)'
      BY <2>1, <2>2, <2>4, <2>7, <2>8 DEF Streams
    <3> QED
      BY <2>6, <3>1 DEF OrderInv, Streams
  <2>9. CASE s # NStreams
    <3>1. pc'[Primary] = "collect" /\ at' - 1 = s
      BY <1>1, <1>2, <2>1, <2>2, <2>4, <2>9 DEF Streams
    <3> QED
      BY <2>6, <2>7, <3>1 DEF OrderInv, Streams
  <2> QED
    BY <2>8, <2>9
<1>6. CASE SetTracks
  <2>1. PICK l \in {"start", "failing"} : Goto(Primary, l)
    BY <1>6 DEF SetTracks
  <2>2. l \in States
    BY DEF States, PrimaryStates, Ends
  <2>3. pc'[Primary] = l /\ \A t \in Streams : pc'[Processor(t)] = pc[Processor(t)]
    BY <1>1, <2>1, <2>2, PrimaryGoes
  <2>4. pc[Primary] = "onTracks" /\ work' = work /\ format' = format
    BY <1>6 DEF SetTracks, lead
  <2>5. \A t \in Streams : Past(t) /\ ~Going(t)
    BY <2>4 DEF OrderInv
  <2>6. \A t \in Streams : Past(t)' /\ ~Going(t)'
    BY <2>3, <2>4, <2>5 DEF Past, Going
  <2> QED
    BY <2>3, <2>6 DEF OrderInv, Streams
<1>7. CASE StartStreaming
  <2> DEFINE ts == format[at].container = "MPEGTS"
             Label(g) == CASE g = Primary -> IF at = NStreams THEN "errors" ELSE "start"
                           [] g = Processor(at) -> IF ts THEN "read" ELSE "pull"
                           [] ts /\ g \in TrackProcs(at) -> "idle"
                           [] OTHER -> pc[g]
  <2>1. /\ pc[Primary] = "start" /\ pc' = [g \in Goroutines |-> Label(g)]
        /\ work' = [work EXCEPT ![at].started = ts]
        /\ UNCHANGED << life, lastErr, format, down, tq, conv >>
    BY <1>7, Zenon DEF StartStreaming
  <2>2. Label(Primary) \in {"errors", "start"}
    BY Distinct
  <2>3. Label(Processor(s)) = IF ts THEN "read" ELSE "pull"
    BY <1>2, Distinct
  <2>4. \A t \in Streams \ {s} : Label(Processor(t)) = pc[Processor(t)]
    BY <1>2, Distinct
  <2> HIDE DEF Label
  <2>5. /\ pc'[Primary] \in {"errors", "start"}
        /\ pc'[Processor(s)] = IF ts THEN "read" ELSE "pull"
        /\ \A t \in Streams \ {s} : pc'[Processor(t)] = pc[Processor(t)]
    BY <2>1, <2>2, <2>3, <2>4, Names
  <2>6. \A t \in Streams \ {s} : work'[t] = work[t]
    BY <1>1, <1>2, <2>1 DEF GlobalTyped
  <2>7. format' = format /\ \A t \in Streams : Past(t)
    BY <2>1 DEF OrderInv
  <2>8. ASSUME NEW t \in Streams PROVE Past(t)'
    <3>1. CASE t = s
      <4>1. CASE ts
        BY <2>5, <3>1, <4>1 DEF Past
      <4>2. CASE ~ts
        BY <1>2, <2>5, <2>7, <3>1, <4>2 DEF Past
      <4> QED
        BY <4>1, <4>2
    <3>2. CASE t # s
      BY <2>5, <2>6, <2>7, <3>2 DEF Past
    <3> QED
      BY <3>1, <3>2
  <2> QED
    BY <2>5, <2>8 DEF OrderInv, Streams
<1>8. CASE CollectError
  <2>1. PICK l \in {"failing", "errors"} :
            pc' = [pc EXCEPT ![Primary] = l, ![Processor(s)] = "parked"]
    BY <1>2, <1>8 DEF CollectError
  <2>2. l \in States /\ "parked" \in States
    BY DEF States, PrimaryStates, ProcessorStates, Ends
  <2>3. PcElsewhere(s) /\ pc'[Processor(s)] = "parked" /\ pc'[Primary] = l
    BY <1>1, <2>1, <2>2, TwoGo
  <2>4. pc[Primary] = "errors" /\ work' = work /\ format' = format
    BY <1>8 DEF CollectError
  <2>5. \A t \in Streams : Past(t)
    BY <2>4 DEF OrderInv
  <2>6. \A t \in Streams : Past(t)'
    BY <2>3, <2>4, <2>5 DEF Past, PcElsewhere
  <2> QED
    BY <2>3, <2>6 DEF OrderInv, Streams
<1> QED
  BY <1>4, <1>5, <1>6, <1>7, <1>8 DEF PrimaryNext

LEMMA ExitsOrder ==
    ASSUME ClientInv, OrderInv, NEW g \in Goroutines, Exits(g)
    PROVE  OrderInv'
<1>1. pc[g] # "off" /\ Goto(g, "exited")
  BY DEF Exits, SelectError, DropError, Released, PrimaryReleased, DownloaderReleased,
         ProcessorReleased, TrackStops
<1>2. UNCHANGED lead /\ work' = work
  <2>1. CASE SelectError(g)
    BY <2>1 DEF SelectError
  <2>2. CASE ~SelectError(g)
    BY <2>2 DEF Exits, DropError, Released, PrimaryReleased, DownloaderReleased,
                ProcessorReleased, TrackStops
  <2> QED
    BY <2>1, <2>2
<1>3. "exited" \in States /\ "exited" \in Ends /\ GlobalTyped /\ pc \in [Goroutines -> States]
  BY DEF States, Ends, ClientInv, GlobalTyped
<1>4. CASE \E s \in Streams : g = Processor(s)
  <2>1. PICK s \in Streams : g = Processor(s)
    BY <1>4
  <2>2. pc'[Processor(s)] = "exited" /\ format' = format
    BY <1>1, <1>2, <1>3, <2>1, ProcessorGoes DEF lead
  <2>3. Going(s)' => Going(s)
    BY <1>2, <2>2 DEF Going
  <2> QED
    BY <1>1, <1>2, <1>3, <2>1, <2>3, ProcessorOrder
<1>5. CASE \A s \in Streams : g # Processor(s)
  <2>1. \A h \in Goroutines \ {g} : pc'[h] = pc[h]
    BY <1>1, <1>3, Goes
  <2>2. pc'[g] = "exited"
    BY <1>1, <1>3, Goes
  <2>3. \A t \in Streams : pc'[Processor(t)] = pc[Processor(t)]
    BY <1>5, <2>1, Names
  <2>4. pc'[Primary] = pc[Primary] \/ pc'[Primary] \in Ends
    BY <1>3, <2>1, <2>2, Names
  <2> QED
    BY <1>2, <2>3, <2>4, OthersOrder
<1> QED
  BY <1>4, <1>5

LEMMA DownloaderOrder ==
    ASSUME ClientInv, OrderInv, NEW s \in Streams, DownloaderNext(s)
    PROVE  OrderInv'
<1>1. GlobalTyped /\ StreamInv(s) /\ pc \in [Goroutines -> States]
  BY DEF ClientInv, GlobalTyped
<1>2. UNCHANGED lead /\ work' = work
  BY DEF DownloaderNext, DownloadPlaylist, StartProcessor, DownloadSegment, DownloadEnds, Throttle
<1>3. ASSUME NEW l \in DownloaderStates \union Ends, Goto(Downloader(s), l) PROVE OrderInv'
  <2>1. l \in States
    BY DEF States
  <2>2. pc'[Primary] = pc[Primary] /\ PcElsewhere(s) /\ pc'[Processor(s)] = pc[Processor(s)]
    BY <1>1, <1>3, <2>1, DownloaderGoes
  <2>3. \A t \in Streams : pc'[Processor(t)] = pc[Processor(t)]
    BY <2>2 DEF PcElsewhere
  <2> QED
    BY <1>2, <2>2, <2>3, OthersOrder
<1>4. {"init", "failing", "segment", "full", "parked"} \subseteq DownloaderStates \union Ends
  BY DEF DownloaderStates, Ends
<1>5. CASE ~StartProcessor(s)
  <2>1. \E l \in {"init", "failing", "segment", "full", "parked"} : Goto(Downloader(s), l)
    <3>1. CASE DownloadPlaylist(s)
      BY <3>1 DEF DownloadPlaylist
    <3>2. CASE DownloadSegment(s)
      BY <3>2 DEF DownloadSegment
    <3>3. CASE DownloadEnds(s)
      BY <3>3 DEF DownloadEnds
    <3>4. CASE Throttle(s)
      BY <3>4 DEF Throttle
    <3> QED
      BY <1>5, <3>1, <3>2, <3>3, <3>4 DEF DownloaderNext
  <2> QED
    BY <1>3, <1>4, <2>1
<1>6. CASE StartProcessor(s)
  <2>1. CASE Goto(Downloader(s), "failing")
    BY <1>3, <1>4, <2>1
  <2>2. ASSUME NEW l \in {"init", "pull"}, l = "init" <=> format[s].container = "FMP4",
               pc' = [pc EXCEPT ![Downloader(s)] = "segment", ![Processor(s)] = l]
        PROVE  OrderInv'
    <3>1. pc[Processor(s)] = "off" /\ ~work[s].started
      BY <1>1, <1>6 DEF StartProcessor, StreamInv, Beginning
    <3>2. /\ Downloader(s) \in Goroutines /\ Processor(s) \in Goroutines
          /\ Downloader(s) # Processor(s)
      BY Names, Distinct
    <3>3. /\ pc'[Processor(s)] = l
          /\ \A h \in Goroutines \ {Downloader(s), Processor(s)} : pc'[h] = pc[h]
      BY <1>1, <2>2, <3>2
    <3>4. /\ pc'[Primary] = pc[Primary]
          /\ \A t \in Streams \ {s} : pc'[Processor(t)] = pc[Processor(t)]
      BY <3>3, Names, Distinct
    <3>5. format' = format /\ at' = at /\ at \in Streams
      BY <1>1, <1>2 DEF lead, GlobalTyped
    <3>6. Forward(s)
      BY <1>2, <2>2, <3>1, <3>3, <3>5 DEF Forward, Past, Going
    <3>7. ASSUME NEW t \in Streams, t # s PROVE Forward(t)
      BY <1>2, <3>4, <3>5, <3>7 DEF Forward, Past, Going
    <3> QED
      BY <3>4, <3>5, <3>6, <3>7, OrderKept
  <2>3. \/ Goto(Downloader(s), "failing")
        \/ \E l \in {"init", "pull"} :
            /\ l = "init" <=> format[s].container = "FMP4"
            /\ pc' = [pc EXCEPT ![Downloader(s)] = "segment", ![Processor(s)] = l]
    <3>1. CASE format[s].container = "FMP4"
      BY <1>6, <3>1 DEF StartProcessor
    <3>2. CASE format[s].container # "FMP4"
      BY <1>6, <3>2 DEF StartProcessor
    <3> QED
      BY <3>1, <3>2
  <2> QED
    BY <2>1, <2>2, <2>3
<1> QED
  BY <1>5, <1>6

LEMMA TrackOrder ==
    ASSUME ClientInv, OrderInv, NEW s \in Streams, NEW k \in Tracks(s), TrackNext(s, k)
    PROVE  OrderInv'
<1>1. GlobalTyped /\ work[s] \in WorkOf(s) /\ pc \in [Goroutines -> States]
  BY DEF ClientInv, GlobalTyped, StreamInv, LocalTyped
<1>2. UNCHANGED lead
  BY DEF TrackNext, TrackEndsFMP4, TrackTakes, TrackEndsMPEGTS, TrackStops
<1>3. \A t \in Streams : work'[t].started = work[t].started
  <2> DEFINE v == [work[s] EXCEPT !.open = work[s].open - 1]
             w == [work[s] EXCEPT !.open = work[s].open + 1]
  <2>1. work' \in {work, [work EXCEPT ![s] = v], [work EXCEPT ![s] = w]}
    BY DEF TrackNext, TrackEndsFMP4, TrackTakes, TrackEndsMPEGTS, TrackStops
  <2>2. v.started = work[s].started /\ w.started = work[s].started
    BY <1>1 DEF WorkOf
  <2> HIDE DEF v, w
  <2> QED
    BY <2>1, <2>2, StartedStays
<1>4. \/ pc' = pc
      \/ \E l \in {"idle", "busy", "failing", "exited"} : Goto(TrackProc(s, k), l)
  BY DEF TrackNext, TrackEndsFMP4, TrackTakes, TrackEndsMPEGTS, TrackStops
<1>5. {"idle", "busy", "failing", "exited"} \subseteq States
  BY DEF States, TrackStates, Ends
<1>6. pc'[Primary] = pc[Primary] /\ \A t \in Streams : pc'[Processor(t)] = pc[Processor(t)]
  BY <1>1, <1>4, <1>5, TrackGoes DEF PcElsewhere
<1> QED
  BY <1>2, <1>3, <1>6, OthersOrder

LEMMA PullSegmentOrder ==
    ASSUME ClientInv, OrderInv, NEW s \in Streams, PullSegment(s)
    PROVE  OrderInv'
<1> DEFINE ts == format[s].container = "MPEGTS"
<1>1. /\ GlobalTyped /\ at \in Streams /\ work[s] \in WorkOf(s) /\ pc[Processor(s)] = "pull"
      /\ UNCHANGED lead /\ at' = at /\ format' = format /\ (~ts => format[s].container = "FMP4")
  BY FormatOf DEF ClientInv, GlobalTyped, StreamInv, LocalTyped, PullSegment, lead
<1>2. CASE Goto(Processor(s), "failing") /\ UNCHANGED work
  <2>1. "failing" \in States
    BY DEF States, Ends
  <2>2. pc'[Processor(s)] = "failing"
    BY <1>1, <1>2, <2>1, ProcessorGoes
  <2>3. Going(s)' => Going(s)
    BY <1>1, <1>2, <2>2 DEF Going
  <2> QED
    BY <1>1, <1>2, <2>1, <2>3, ProcessorOrder
<1>3. ASSUME NEW samples \in Samples(s),
             work' = [work EXCEPT ![s].todo = samples, ![s].found = LeadingFound(samples),
                                  ![s].started = @ \/ ~ts],
             pc' = [g \in Goroutines |->
                        CASE g = Processor(s) ->
                                IF work[s].started THEN IF ts THEN "read" ELSE "stamp"
                                                   ELSE IF ts THEN "offer" ELSE "conv"
                          [] ~ts /\ ~work[s].started /\ g \in TrackProcs(s) -> "idle"
                          [] OTHER -> pc[g]]
      PROVE  OrderInv'
  <2> DEFINE was == work[s].started
             label == IF was THEN IF ts THEN "read" ELSE "stamp" ELSE IF ts THEN "offer" ELSE "conv"
             Label(g) == CASE g = Processor(s) -> label
                           [] ~ts /\ ~was /\ g \in TrackProcs(s) -> "idle"
                           [] OTHER -> pc[g]
  <2>1. pc' = [g \in Goroutines |-> Label(g)]
    BY <1>3, Zenon
  <2>2. Label(Processor(s)) = label /\ Label(Primary) = pc[Primary]
    BY Distinct
  <2>3. \A t \in Streams \ {s} : Label(Processor(t)) = pc[Processor(t)]
    BY Distinct
  <2> HIDE DEF Label
  <2>4. /\ pc'[Processor(s)] = label /\ pc'[Primary] = pc[Primary]
        /\ \A t \in Streams \ {s} : pc'[Processor(t)] = pc[Processor(t)]
    BY <2>1, <2>2, <2>3, Names
  <2>5. /\ work'[s].started <=> was \/ ~ts
        /\ \A t \in Streams \ {s} : work'[t] = work[t]
    BY <1>1, <1>3 DEF GlobalTyped, WorkOf
  <2>6. ASSUME NEW t \in Streams, t # s PROVE Forward(t)
    BY <1>1, <2>4, <2>5, <2>6 DEF Forward, Past, Going
  <2>7. Forward(s)
    <3>1. Past(s) => Past(s)'
      BY <1>1, <2>4 DEF Past
    <3>2. Going(s)' => Going(s)
      BY <1>1, <2>4, <2>5 DEF Going
    <3> QED
      BY <3>1, <3>2 DEF Forward
  <2> QED
    BY <1>1, <2>4, <2>6, <2>7, OrderKept
<1>4. \/ Goto(Processor(s), "failing") /\ UNCHANGED work
      \/ \E samples \in Samples(s) :
            /\ work' = [work EXCEPT ![s].todo = samples, ![s].found = LeadingFound(samples),
                                    ![s].started = @ \/ ~ts]
            /\ pc' = [g \in Goroutines |->
                        CASE g = Processor(s) ->
                                IF work[s].started THEN IF ts THEN "read" ELSE "stamp"
                                                   ELSE IF ts THEN "offer" ELSE "conv"
                          [] ~ts /\ ~work[s].started /\ g \in TrackProcs(s) -> "idle"
                          [] OTHER -> pc[g]]
  BY Zenon DEF PullSegment
<1> HIDE DEF ts
<1> QED
  BY <1>2, <1>3, <1>4, Zenon

LEMMA ProcessorNextOrder ==
    ASSUME ClientInv, OrderInv, NEW s \in Streams, ProcessorNext(s)
    PROVE  OrderInv'
<1>1. /\ GlobalTyped /\ StreamInv(s) /\ work[s] \in WorkOf(s) /\ pc \in [Goroutines -> States]
      /\ format[s].container \in {"FMP4", "MPEGTS"}
  BY FormatOf DEF ClientInv, GlobalTyped, StreamInv, LocalTyped
<1>2. UNCHANGED lead
  BY DEF ProcessorNext, ParseInit, PullError, PullSegment, InitTimeConvFMP4, Stamp, Feed, JoinFMP4,
         HoldSample, InitTimeConvMPEGTS, PushSample, SegmentEnds, JoinMPEGTS, WaitMPEGTS,
         ProcessorReleased, Released
<1>3. format' = format /\ at' = at /\ at \in Streams
  BY <1>1, <1>2 DEF lead, GlobalTyped
<1>4. CASE PullSegment(s)
  BY <1>4, PullSegmentOrder
<1>5. CASE ProcessorReleased(s)
  BY <1>5, ExitsOrder, Names DEF Exits
<1>6. CASE ~PullSegment(s) /\ ~ProcessorReleased(s)
  <2>1. \A t \in Streams : work'[t].started = work[t].started
    <3>1. ASSUME NEW x PROVE [work[s] EXCEPT !.err = x].started = work[s].started
      BY <1>1 DEF WorkOf
    <3>2. ASSUME NEW x PROVE [work[s] EXCEPT !.conv = x].started = work[s].started
      BY <1>1 DEF WorkOf
    <3>3. ASSUME NEW x, NEW y PROVE [work[s] EXCEPT !.todo = x, !.open = y].started = work[s].started
      BY <1>1 DEF WorkOf
    <3>4. ASSUME NEW x, NEW y PROVE [work[s] EXCEPT !.todo = x, !.held = y].started = work[s].started
      BY <1>1 DEF WorkOf
    <3>5. ASSUME NEW x, NEW y, NEW z
          PROVE  [work[s] EXCEPT !.conv = x, !.held = y, !.todo = z].started = work[s].started
      BY <1>1 DEF WorkOf
    <3>6. ASSUME NEW x PROVE [work[s] EXCEPT !.todo = x].started = work[s].started
      BY <1>1 DEF WorkOf
    <3>7. ASSUME NEW x PROVE [work[s] EXCEPT !.open = x].started = work[s].started
      BY <1>1 DEF WorkOf
    <3>8. CASE work' = work
      BY <3>8
    <3>9. CASE PullError(s)
      <4>1. work' = [work EXCEPT ![s] = [work[s] EXCEPT !.err = Head(queue[s])]]
        BY <3>9 DEF PullError
      <4> QED
        BY <3>1, <4>1, StartedStays
    <3>10. CASE InitTimeConvFMP4(s)
      <4>1. work' = [work EXCEPT ![s] = [work[s] EXCEPT !.conv = TimeConvFits(s)]]
        BY <3>10 DEF InitTimeConvFMP4
      <4> QED
        BY <3>2, <4>1, StartedStays
    <3>11. CASE Feed(s)
      <4>1. work' = [work EXCEPT ![s] = [work[s] EXCEPT !.todo = Tail(work[s].todo),
                                                        !.open = work[s].open + 1]]
        BY <3>11 DEF Feed
      <4> QED
        BY <3>3, <4>1, StartedStays
    <3>12. CASE HoldSample(s) /\ work' # work
      <4>1. work' = [work EXCEPT ![s] = [work[s] EXCEPT !.todo = Tail(work[s].todo),
                                            !.held = Append(work[s].held, Head(work[s].todo))]]
        BY <3>12 DEF HoldSample
      <4> QED
        BY <3>4, <4>1, StartedStays
    <3>13. CASE InitTimeConvMPEGTS(s) /\ work' # work
      <4>1. work' = [work EXCEPT ![s] = [work[s] EXCEPT !.conv = TRUE, !.held = << >>,
                                !.todo = << 1 >> \o work[s].held \o Tail(work[s].todo)]]
        BY <3>13 DEF InitTimeConvMPEGTS
      <4> QED
        BY <3>5, <4>1, StartedStays
    <3>14. CASE PushSample(s) \/ JoinMPEGTS(s)
      <4>1. work' = [work EXCEPT ![s] = [work[s] EXCEPT !.todo = Tail(work[s].todo)]]
        BY <3>14 DEF PushSample, JoinMPEGTS, PushToTrack
      <4> QED
        BY <3>6, <4>1, StartedStays
    <3>15. CASE SegmentEnds(s) /\ work' # work
      <4>1. PICK order : work' = [work EXCEPT ![s] = [work[s] EXCEPT !.todo = order]]
        BY <3>15 DEF SegmentEnds
      <4> QED
        BY <3>6, <4>1, StartedStays
    <3>16. CASE WaitMPEGTS(s) /\ work' # work
      <4>1. work' = [work EXCEPT ![s] = [work[s] EXCEPT !.open = 0]]
        BY <3>16 DEF WaitMPEGTS
      <4> QED
        BY <3>7, <4>1, StartedStays
    <3>17. ParseInit(s) \/ Stamp(s) \/ JoinFMP4(s) => work' = work
      BY DEF ParseInit, Stamp, JoinFMP4
    <3> QED
      BY <1>6, <3>8, <3>9, <3>10, <3>11, <3>12, <3>13, <3>14, <3>15, <3>16, <3>17
         DEF ProcessorNext
  <2>2. CASE pc' = pc
    BY <1>2, <2>1, <2>2, OthersOrder
  <2>3. ASSUME NEW l \in States, Goto(Processor(s), l),
               l \in {"off", "init", "offer"} => pc[Processor(s)] = "init",
               l = "pull" => work[s].started \/ format[s].container = "FMP4",
               format[s].container = "FMP4" /\ l \in {"pull", "conv", "stamp", "feed", "join"} =>
                    pc[Processor(s)] \in {"pull", "conv", "stamp", "feed", "join"}
        PROVE  OrderInv'
    <3>1. pc'[Processor(s)] = l
      BY <1>1, <2>3, ProcessorGoes
    <3>2. Going(s)' => Going(s)
      BY <1>3, <2>1, <2>3, <3>1 DEF Going
    <3> QED
      BY <1>1, <1>2, <2>1, <2>3, <3>2, ProcessorOrder
  <2>4. {"offer", "failing", "report", "stamp", "feed", "pull", "join", "wait"} \subseteq States
    BY DEF States, ProcessorStates, Ends
  <2>5. CASE ParseInit(s) \/ PullError(s) \/ Stamp(s) \/ JoinFMP4(s) \/ SegmentEnds(s)
    <3>1. CASE ParseInit(s)
      <4>1. PICK l \in {"offer", "failing"} : Goto(Processor(s), l) /\ pc[Processor(s)] = "init"
        BY <3>1 DEF ParseInit
      <4> QED
        BY <2>3, <2>4, <4>1
    <3>2. CASE PullError(s)
      BY <2>3, <2>4, <3>2 DEF PullError
    <3>3. CASE Stamp(s)
      BY <2>3, <2>4, <3>3 DEF Stamp
    <3>4. CASE JoinFMP4(s)
      BY <2>3, <2>4, <3>4 DEF JoinFMP4
    <3>5. CASE SegmentEnds(s)
      <4>1. format[s].container = "MPEGTS"
        BY <1>1, <3>5 DEF StreamInv, FMP4Inv, SegmentEnds
      <4>2. PICK l \in {"join", "failing"} : Goto(Processor(s), l)
        BY <3>5 DEF SegmentEnds
      <4> QED
        BY <2>3, <2>4, <4>1, <4>2
    <3> QED
      BY <2>5, <3>1, <3>2, <3>3, <3>4, <3>5
  <2>6. CASE InitTimeConvFMP4(s)
    <3>1. PICK l \in {"stamp", "failing"} : Goto(Processor(s), l) /\ pc[Processor(s)] = "conv"
      <4>1. CASE TimeConvFits(s)
        BY <2>6, <4>1 DEF InitTimeConvFMP4
      <4>2. CASE ~TimeConvFits(s)
        BY <2>6, <4>2 DEF InitTimeConvFMP4
      <4> QED
        BY <4>1, <4>2
    <3> QED
      BY <2>3, <2>4, <3>1
  <2>7. CASE Feed(s)
    <3> DEFINE k == Head(work[s].todo)
    <3>1. PICK l \in {"join", "feed"} :
            pc' = [pc EXCEPT ![TrackProc(s, k)] = "busy", ![Processor(s)] = l]
      BY <2>7 DEF Feed
    <3>2. pc[Processor(s)] = "feed" /\ format[s].container = "FMP4"
      BY <1>1, <2>7 DEF Feed, StreamInv, MPEGTSInv
    <3>3. /\ pc'[Processor(s)] = l /\ pc'[Primary] = pc[Primary]
          /\ \A t \in Streams \ {s} : pc'[Processor(t)] = pc[Processor(t)]
      BY <1>1, <3>1, Names, Distinct
    <3>4. Forward(s)
      BY <1>3, <2>1, <3>2, <3>3 DEF Forward, Past, Going
    <3>5. ASSUME NEW t \in Streams, t # s PROVE Forward(t)
      BY <1>3, <2>1, <3>3, <3>5 DEF Forward, Past, Going
    <3> QED
      BY <1>3, <3>3, <3>4, <3>5, OrderKept
  <2>8. CASE HoldSample(s) \/ InitTimeConvMPEGTS(s) \/ PushSample(s)
    <3>1. pc' = pc \/ Goto(Processor(s), "failing")
      BY <2>8 DEF HoldSample, InitTimeConvMPEGTS, PushSample
    <3> QED
      BY <2>2, <2>3, <2>4, <3>1
  <2>9. CASE JoinMPEGTS(s) \/ WaitMPEGTS(s)
    <3>1. format[s].container = "MPEGTS" /\ work[s].started
      BY <1>1, <2>9 DEF JoinMPEGTS, WaitMPEGTS, StreamInv, FMP4Inv, MPEGTSInv
    <3>2. \E l \in {"wait", "join", "pull"} : Goto(Processor(s), l)
      <4>1. CASE JoinMPEGTS(s)
        BY <4>1 DEF JoinMPEGTS
      <4>2. CASE WaitMPEGTS(s)
        BY <4>2 DEF WaitMPEGTS
      <4> QED
        BY <2>9, <4>1, <4>2
    <3> QED
      BY <2>3, <2>4, <3>1, <3>2
  <2> QED
    BY <1>6, <2>5, <2>6, <2>7, <2>8, <2>9 DEF ProcessorNext
<1> QED
  BY <1>4, <1>5, <1>6

LEMMA NextOrderInv == ClientInv /\ OrderInv /\ [Next]_vars => OrderInv'
<1> SUFFICES ASSUME ClientInv, OrderInv, [Next]_vars PROVE OrderInv'
  OBVIOUS
<1>1. CASE Close \/ SelectDone \/ PoolCancel \/ PoolWait \/ UNCHANGED vars
  <2>1. pc' = pc /\ UNCHANGED lead /\ work' = work
    BY <1>1 DEF Close, SelectDone, PoolCancel, PoolWait, vars
  <2> QED
    BY <2>1, OthersOrder
<1>2. ASSUME NEW g \in Goroutines, SelectError(g) \/ DropError(g) PROVE OrderInv'
  BY <1>2, ExitsOrder DEF Exits
<1>3. CASE PrimaryNext
  BY <1>3, PrimaryOrder
<1>4. CASE PrimaryReleased
  BY <1>4, ExitsOrder, Names DEF Exits
<1>5. ASSUME NEW s \in Streams, DownloaderNext(s) PROVE OrderInv'
  BY <1>5, DownloaderOrder
<1>6. ASSUME NEW s \in Streams, DownloaderReleased(s) PROVE OrderInv'
  BY <1>6, ExitsOrder, Names DEF Exits
<1>7. ASSUME NEW s \in Streams, ProcessorNext(s) PROVE OrderInv'
  BY <1>7, ProcessorNextOrder
<1>8. ASSUME NEW s \in Streams, NEW k \in Tracks(s), TrackNext(s, k) PROVE OrderInv'
  BY <1>8, TrackOrder
<1> QED
  BY <1>1, <1>2, <1>3, <1>4, <1>5, <1>6, <1>7, <1>8 DEF Next, MainNext

\* No track processor hands data to the application before OnTracks has returned,
\* hence before the tracks of every stream are known, nor before the time
\* conversion has been made, of the kind of its stream.
THEOREM NoDataBeforeTracks == Spec => []DataAfterTracks
<1>1. ClientInv /\ OrderInv => DataAfterTracks
  <2> SUFFICES ASSUME ClientInv, OrderInv, NEW s \in Streams, NEW k \in Tracks(s),
                      pc[TrackProc(s, k)] = "busy"
               PROVE  /\ timeConv = format[s].container
                      /\ pc[Primary] \notin {"playlist", "collect", "onTracks"}
                      /\ \A t \in Streams : pc[Processor(t)] \notin {"off", "init", "offer"}
    BY DEF DataAfterTracks
  <2>1. StreamInv(s) /\ format[s].container \in {"FMP4", "MPEGTS"}
    BY FormatOf DEF ClientInv
  <2>2. work[s].started
    BY <2>1 DEF StreamInv, Beginning
  <2>3. work[s].conv
    <3>1. k \in Busy(s)
      BY DEF Busy
    <3> QED
      BY <2>1, <3>1 DEF StreamInv, FMP4Inv, MPEGTSInv
  <2>4. timeConv = format[s].container
    BY <2>1, <2>3 DEF StreamInv, Beginning
  <2>5. /\ pc[Primary] \notin {"playlist", "collect", "onTracks"}
        /\ \A t \in Streams : Past(t)
    BY <2>2 DEF OrderInv, Going
  <2> QED
    BY <2>4, <2>5 DEF Past
<1> QED
  BY <1>1, ClientInvHolds, InitOrderInv, NextOrderInv, PTL DEF Spec

================================================================================
