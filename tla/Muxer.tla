--------------------------------- MODULE Muxer ---------------------------------
(***************************************************************************)
(* The muxer: one goroutine, the owner, that writes samples and closes,    *)
(* and any number of HTTP handler goroutines that read what it publishes   *)
(* (src/muxer.go, src/muxer_stream.go, src/muxer_server.go).               *)
(*                                                                         *)
(* A write either changes nothing here or creates the first segment,       *)
(* rotates the parts or rotates the segments of every stream; which one    *)
(* depends on timestamps and is left open.  The rotations and the bodies   *)
(* of the handlers are critical sections of Muxer.mutex and are atomic;    *)
(* the Broadcast on Muxer.cond that follows a rotation is a step of its    *)
(* own, taken without the mutex, and so is the lookup of a handler.        *)
(***************************************************************************)
EXTENDS MuxerStream

CONSTANTS
    NStreams,       \* the streams are 1..NStreams, in the order of m.streams
    Leading,        \* the leading stream
    Disk,           \* whether Muxer.Directory is set
    Faults,         \* the failures that the environment may cause
    Requests,       \* HTTP handler goroutines
    Targets,        \* what requests may ask for
    MaxSegmentID,   \* bounds on the length of a run
    MaxPartID

Streams == 1..NStreams

FaultKinds == {"partFinalize", "segFinalize", "initFile", "newFile", "savePlaylists"}

\* What is asked for: the multivariant playlist; the media playlist of a
\* stream, plain or with _HLS_msn and _HLS_part; a segment; a part.
Target == [kind : {"index", "playlist", "reload", "segment", "part"},
           stream : Streams, id : Nat, part : Nat]

ASSUME StreamsAssumption ==
    /\ NStreams \in Nat \ {0}
    /\ Leading \in Streams
    /\ Variant = "MPEGTS" => NStreams = 1
ASSUME EnvironmentAssumption ==
    /\ Disk \in BOOLEAN
    /\ Faults \subseteq FaultKinds
    /\ Targets \subseteq Target
    /\ MaxSegmentID \in Nat /\ MaxPartID \in Nat

VARIABLES
    stream,     \* the streams
    closed,     \* Muxer.closed and the closed of every stream, set together
    owner,      \* where the owner is
    req         \* the requests

vars == << stream, closed, owner, req >>

Handlers == {"none", "index", "playlist", "reload", "segment", "part", "hint"}

\* "rotated" and "closing" are the places right before a Broadcast.
\* "panicked" is a panic in a write, "stuck" one that holds the mutex.
OwnerStates == {"writing", "rotated", "closing", "closed", "panicked", "stuck"}

\* "ready": the handler runs, or wants the mutex; "waiting": in cond.Wait;
\* "reading": it has seen the part in memory and is about to read it.
RequestStates == {"idle", "ready", "waiting", "reading", "done"}
Statuses == {"none", "200", "400", "500", "empty", "panic", "overflow", "raced"}

Request == [pc : RequestStates, target : Target, handler : Handlers, status : Statuses]

TypeOK ==
    /\ stream \in [Streams -> Stream]
    /\ closed \in BOOLEAN
    /\ owner \in OwnerStates
    /\ req \in [Requests -> Request]

Idle ==
    [pc |-> "idle", handler |-> "none", status |-> "none",
     target |-> [kind |-> "index", stream |-> 1, id |-> 0, part |-> 0]]

Init ==
    /\ stream = [s \in Streams |-> InitialStream]
    /\ closed = FALSE
    /\ owner = "writing"
    /\ req = [r \in Requests |-> Idle]

--------------------------------------------------------------------------------
(***************************************************************************)
(* The owner.                                                              *)
(***************************************************************************)

\* Streams are handled one after the other: one of them first, then the rest
\* in the order of m.streams.
Before(first, a, b) == a # b /\ (a = first \/ (b # first /\ a < b))

\* Mutant: only the leading stream is handled.
OutcomesLeadingOnly(first, exits) ==
    {out \in [Streams -> (UNION {exits[s] : s \in Streams}) \union {"untouched"}] :
        \A s \in Streams : IF s = Leading THEN out[s] \in exits[s] ELSE out[s] = "untouched"}

\* How far each stream gets: all of them to the end, or the first one that
\* stops leaves the later ones untouched.
Outcomes(first, exits) ==
    {out \in [Streams -> (UNION {exits[s] : s \in Streams}) \union {"done", "untouched"}] :
        \/ \A s \in Streams : out[s] = "done" /\ "done" \in exits[s]
        \/ \E f \in Streams :
            /\ out[f] \in exits[f] \ {"done"}
            /\ \A s \in Streams \ {f} : IF Before(first, s, f)
                                        THEN out[s] = "done" /\ "done" \in exits[s]
                                        ELSE out[s] = "untouched"}

Completed(out) == \A s \in Streams : out[s] = "done"
Panicked(out) == \E s \in Streams : out[s] = "panic"

\* The writes reach a stream that has no segment yet ...
Unstarted == stream[Leading].nextSegment = NoSegment

\* ... or write a sample into its part, which must be there.
CanWrite(s) == Variant = "MPEGTS" \/ stream[s].nextPart # NoPart

WithinBounds ==
    \A s \in Streams : stream[s].nextSegmentID < MaxSegmentID /\ stream[s].nextPartID < MaxPartID

\* createFirstSegment does not take the mutex and wakes nobody up.  It also
\* runs when a rotation has failed and has left the leading stream without a
\* segment, and then replaces the segments of the other streams.
WriteFirst ==
    /\ owner = "writing"
    /\ Unstarted
    /\ \E out \in Outcomes(1, [s \in Streams |-> {"done"} \union (Faults \intersect {"newFile"})]) :
        stream' = [s \in Streams |->
                    IF out[s] = "untouched" THEN stream[s]
                                            ELSE CreateFirstSegment(stream[s], out[s])]
    /\ UNCHANGED << closed, owner, req >>

\* Mutant: no Broadcast after a rotation.
AfterRotationSilent(out, fault) == owner' = IF Panicked(out) THEN "stuck" ELSE "writing"

\* The owner after a rotation: on the way to the Broadcast, or back in the
\* caller with an error, with no Broadcast.  A panic never releases the mutex.
AfterRotation(out, fault) ==
    owner' = CASE Panicked(out) -> "stuck"
               [] Completed(out) /\ ~fault -> "rotated"
               [] OTHER -> "writing"

WriteRotatesParts ==
    /\ owner = "writing"
    /\ LowLatency /\ ~Unstarted /\ CanWrite(Leading)
    /\ WithinBounds
    /\ \E out \in Outcomes(Leading, [s \in Streams |-> PartExits(stream[s], Faults)]) :
        /\ stream' = [s \in Streams |->
                        IF out[s] = "untouched" THEN stream[s]
                                                ELSE RotateParts(stream[s], TRUE, out[s])]
        /\ AfterRotation(out, FALSE)
    /\ UNCHANGED << closed, req >>

\* Outside of Low-Latency, the playlists are saved to the directory at last.
WriteRotatesSegments ==
    /\ owner = "writing"
    /\ ~Unstarted /\ CanWrite(Leading)
    /\ WithinBounds
    /\ \E out \in Outcomes(Leading, [s \in Streams |-> SegmentExits(stream[s], Faults)]), fault \in BOOLEAN :
        /\ fault => Disk /\ ~LowLatency /\ "savePlaylists" \in Faults
        /\ stream' = [s \in Streams |->
                        IF out[s] = "untouched" THEN stream[s]
                                                ELSE RotateSegments(stream[s], out[s])]
        /\ AfterRotation(out, fault)
    /\ UNCHANGED << closed, req >>

\* writeSample on a nil part, outside of the mutex.
WritePanics ==
    /\ owner = "writing"
    /\ \E s \in Streams : stream[s].nextSegment # NoSegment /\ ~CanWrite(s)
    /\ owner' = "panicked"
    /\ UNCHANGED << stream, closed, req >>

\* Mutant: no Broadcast after closing.
CloseSilent ==
    /\ owner = "writing"
    /\ closed' = TRUE
    /\ owner' = "closed"
    /\ UNCHANGED << stream, req >>

Close ==
    /\ owner = "writing"
    /\ closed' = TRUE
    /\ owner' = "closing"
    /\ UNCHANGED << stream, req >>

\* Mutant: Signal instead of Broadcast.
BroadcastSignal ==
    /\ owner \in {"rotated", "closing"}
    /\ owner' = IF owner = "closing" THEN "closed" ELSE "writing"
    /\ \/ \E r \in Requests : req[r].pc = "waiting" /\ req' = [req EXCEPT ![r].pc = "ready"]
       \/ (\A r \in Requests : req[r].pc # "waiting") /\ UNCHANGED req
    /\ UNCHANGED << stream, closed >>

Broadcast ==
    /\ owner \in {"rotated", "closing"}
    /\ owner' = IF owner = "closing" THEN "closed" ELSE "writing"
    /\ req' = [r \in Requests |->
                IF req[r].pc = "waiting" THEN [req[r] EXCEPT !.pc = "ready"] ELSE req[r]]
    /\ UNCHANGED << stream, closed >>

--------------------------------------------------------------------------------
(***************************************************************************)
(* The requests.                                                           *)
(***************************************************************************)

\* muxerServer.getPathHandler, "none" for an unknown path.
HandlerAt(t) ==
    LET st == stream[t.stream]
    IN  CASE t.kind \in {"index", "playlist", "reload"} -> t.kind
          [] t.kind = "segment" /\ t.id \in st.segPaths -> "segment"
          [] t.kind = "part" /\ t.id \in st.partPaths -> "part"
          [] t.kind = "part" /\ t.id \in st.hintPaths -> "hint"
          [] OTHER -> "none"

Done(r, status) == req' = [req EXCEPT ![r].pc = "done", ![r].status = status]

\* muxerServer.handle: nothing is written for an unknown path, which makes an
\* empty answer.
Receive(r, t) ==
    /\ req[r].pc \in {"idle", "done"}
    /\ req' = [req EXCEPT ![r] =
                IF HandlerAt(t) = "none"
                THEN [target |-> t, handler |-> "none", pc |-> "done", status |-> "empty"]
                ELSE [target |-> t, handler |-> HandlerAt(t), pc |-> "ready", status |-> "none"]]
    /\ UNCHANGED << stream, closed, owner >>

\* generateMediaPlaylistFMP4 dereferences nextSegment for a Low-Latency stream.
Generated(st) == IF LowLatency /\ st.nextSegment = NoSegment THEN "panic" ELSE "200"

PlaylistAnswer(st) ==
    IF closed THEN "500"
    ELSE IF hasContent(st) THEN Generated(st)
    ELSE "wait"

\* hasPart dereferences nextSegment too.
ReloadAnswer(st, msn, part) ==
    IF closed THEN "500"
    ELSE IF MsnRefused(st, msn) THEN "400"
    ELSE IF ~hasContent(st) THEN "wait"
    ELSE IF msn = st.nextSegmentID /\ st.nextSegment = NoSegment THEN "panic"
    ELSE IF hasPart(st, msn, part) THEN Generated(st)
    ELSE "wait"

IndexAnswer ==
    IF closed THEN "500"
    ELSE IF hasContent(stream[1]) THEN "200"
    ELSE "wait"

\* A woken hint handler looks the path up again and calls what it finds.
HintAnswer(t) ==
    IF closed THEN "500"
    ELSE IF stream[t.stream].nextPartID > t.id THEN HandlerAt(t)
    ELSE "wait"

Answer(r) ==
    LET t == req[r].target
    IN  CASE req[r].handler = "index" -> IndexAnswer
          [] req[r].handler = "playlist" -> PlaylistAnswer(stream[t.stream])
          [] req[r].handler = "reload" ->
                IF LowLatency THEN ReloadAnswer(stream[t.stream], t.id, t.part)
                              ELSE PlaylistAnswer(stream[t.stream])
          [] OTHER -> HintAnswer(t)

NeedsMutex(r) == req[r].handler \notin {"segment", "part"}

\* One pass of the loop of a blocking handler, under the mutex.
Serve(r) ==
    /\ req[r].pc = "ready" /\ NeedsMutex(r)
    /\ owner # "stuck"
    /\ CASE Answer(r) = "wait" -> req' = [req EXCEPT ![r].pc = "waiting"]
         [] Answer(r) = "part" -> req' = [req EXCEPT ![r].handler = "part"]
         [] Answer(r) = "hint" -> Done(r, "overflow")   \* calls itself for ever
         [] Answer(r) = "none" -> Done(r, "empty")
         [] OTHER -> Done(r, Answer(r))
    /\ UNCHANGED << stream, closed, owner >>

\* A file on disk may have been removed since.
Gone(t) ==
    Disk /\ (closed \/ t.id \notin IF t.kind = "part" THEN LiveParts(stream[t.stream])
                                                      ELSE LiveSegments(stream[t.stream]))

\* A part on disk has a copy in memory until its segment is finalized, by a
\* rotation or by Close.  (After a failed rotation the parts of a replaced
\* segment keep theirs; here they count as files.)
Buffered(t) ==
    Disk /\ ~closed /\ t.kind = "part" /\ t.id \in PartsOf(stream[t.stream].nextSegment)

\* The handlers of segments and parts open the storage without the mutex.
OpenFile(r) ==
    /\ req[r].pc = "ready" /\ ~NeedsMutex(r)
    /\ ~Buffered(req[r].target)
    /\ \E status \in {"200"} \union (IF Gone(req[r].target) THEN {"500"} ELSE {}) : Done(r, status)
    /\ UNCHANGED << stream, closed, owner >>

\* partDisk.Reader reads the field buffer twice, to test it and to use it,
\* while fileDisk.Finalize, in a rotation or in Close, sets it to nil.
TestBuffer(r) ==
    /\ req[r].pc = "ready" /\ ~NeedsMutex(r)
    /\ Buffered(req[r].target)
    /\ req' = [req EXCEPT ![r].pc = "reading"]
    /\ UNCHANGED << stream, closed, owner >>

\* A compiler may merge the two reads, and does not have to: then the handler
\* panics.
UseBuffer(r) ==
    /\ req[r].pc = "reading"
    /\ \E status \in {"200"} \union (IF Buffered(req[r].target) THEN {} ELSE {"raced"}) : Done(r, status)
    /\ UNCHANGED << stream, closed, owner >>

ServeFile(r) == OpenFile(r) \/ TestBuffer(r) \/ UseBuffer(r)

--------------------------------------------------------------------------------
Write == WriteFirst \/ WriteRotatesParts \/ WriteRotatesSegments \/ WritePanics

Next ==
    \/ Write
    \/ Close
    \/ Broadcast
    \/ \E r \in Requests : Serve(r) \/ ServeFile(r) \/ \E t \in Targets : Receive(r, t)

\* The owner and the handlers that have started keep running; nothing makes
\* the application write, close, or send requests.
Fairness == WF_vars(Broadcast) /\ \A r \in Requests : WF_vars(Serve(r) \/ ServeFile(r))

Spec == Init /\ [][Next]_vars /\ Fairness

--------------------------------------------------------------------------------
(***************************************************************************)
(* Safety.                                                                 *)
(***************************************************************************)

\* No wakeup is lost: unless a Broadcast is on its way, the condition that a
\* sleeping handler waits for is still false.
NoLostWakeup ==
    owner \notin {"rotated", "closing"} =>
        \A r \in Requests : req[r].pc = "waiting" => Answer(r) = "wait"

\* The media sequence numbers that players count from EXT-X-MEDIA-SEQUENCE
\* are the identifiers that blocking requests are compared with: the window
\* holds consecutive segments, after at most GapCount gaps, and ends right
\* before the segment being written.
MediaSequenceNumbering == \A s \in Streams : Numbered(stream[s])

\* The table of paths is exactly what the playlists list: every listed segment
\* and part has its handler, the hint has the hint handler, and nothing is
\* left behind by what has been deleted.
PathsMatchWindow ==
    \A s \in Streams :
        LET st == stream[s]
        IN  /\ st.segPaths = LiveSegments(st)
            /\ st.partPaths = LiveParts(st)
            /\ st.hintPaths = IF LowLatency /\ st.nextPartID > 0 THEN {st.nextPartID} ELSE {}

\* Players switch between streams by media sequence number: whenever the mutex
\* is free the playlists of all streams are at the same segment and part.
StreamsAligned ==
    \A s, t \in Streams :
        /\ stream[s].nextSegmentID = stream[t].nextSegmentID
        /\ stream[s].segmentDeleteCount = stream[t].segmentDeleteCount
        /\ Len(stream[s].nextSegment.parts) = Len(stream[t].nextSegment.parts)

\* Position of a media sequence number in the playlist, and whether the
\* playlist shows a part of it, counted from EXT-X-MEDIA-SEQUENCE.
Shows(st, msn, part) ==
    LET i == msn - st.segmentDeleteCount + 1
    IN  \/ i \in 1..Len(st.segments) /\ part < Len(st.segments[i].parts)
        \/ i = Len(st.segments) + 1 /\ part < Len(st.nextSegment.parts)

\* A blocking request that sleeps, and a part behind the end of the last segment.
SleepsInReload(r) == req[r].pc = "waiting" /\ req[r].handler = "reload" /\ LowLatency

PastEnd(st, msn, part) ==
    LET last == Len(st.segments)
    IN  /\ last > 0 /\ msn - st.segmentDeleteCount + 1 = last
        /\ st.segments[last].kind # "gap" /\ part >= Len(st.segments[last].parts)

\* A blocking request sleeps for a part that no playlist holds yet, of the segment
\* being written or of one after it, or for a gap, which no playlist will ever hold.
\* One more case is what the code does, not what it should do: a request behind the
\* end of the last segment sleeps until the segment being written ends, although
\* part 0 of that one may be listed already.  PastEndIsNextPart says that it does not.
BlockedOnFuture ==
    owner \in {"writing", "closed"} =>
        \A r \in Requests :
            LET st == stream[req[r].target.stream]
                msn == req[r].target.id
                part == req[r].target.part
                i == msn - st.segmentDeleteCount + 1
            IN  SleepsInReload(r) =>
                    \/ msn >= st.nextSegmentID /\ ~Shows(st, msn, part)
                    \/ i \in 1..Len(st.segments) /\ st.segments[i].kind = "gap"
                    \/ PastEnd(st, msn, part)

\* muxer_stream.go:287-289: "If the Client requests a Part Index greater than that of
\* the final Partial Segment of the Parent Segment, the Server MUST treat the request
\* as one for Part Index 0 of the following Parent Segment."  Hence a request behind
\* the end of the last segment sleeps only while that part is not listed.  hasPart
\* does not do so: see the run muxer_late_reload.
PastEndIsNextPart ==
    owner = "writing" =>
        \A r \in Requests :
            LET st == stream[req[r].target.stream]
                msn == req[r].target.id
            IN  SleepsInReload(r) /\ PastEnd(st, msn, req[r].target.part) => ~Shows(st, msn + 1, 0)

\* Handle can be called in parallel with Write*() and Close(): no request
\* panics on the state of a stream or calls itself for ever.
HandleIsSafe == \A r \in Requests : req[r].status \notin {"panic", "overflow"}

\* A sample always finds a part to go to, and a rotation a part to close: no
\* write panics, least of all with the mutex.
WriteIsSafe == owner \notin {"panicked", "stuck"}

(***************************************************************************)
(* What a step may do.                                                     *)
(***************************************************************************)

Answered(r, status) == req[r].pc # "done" /\ req'[r].pc = "done" /\ req'[r].status = status

\* A blocking request is answered with a playlist only when the playlist holds
\* the part asked for or, when that is past the end of its segment, the first
\* part of the segment that follows.
ReloadHoldsPart ==
    [][\A r \in Requests :
        LET t == req[r].target
            st == stream[t.stream]
        IN  Answered(r, "200") /\ req[r].handler = "reload" /\ LowLatency =>
                \/ Shows(st, t.id, t.part)
                \/ t.id < st.nextSegmentID /\ Shows(st, t.id + 1, 0)]_vars

\* The address of a part, asked for when it was no more than a hint, answers
\* with that part, finished; an empty answer means that it has come and gone.
HintKeepsPromise ==
    [][\A r \in Requests :
        LET t == req[r].target
            st == stream[t.stream]
        IN  /\ Answered(r, "200") /\ t.kind = "part" => st.nextPartID > t.id
            /\ Answered(r, "empty") /\ req[r].handler = "hint" =>
                st.nextPartID > t.id /\ t.id \notin LiveParts(st)
            /\ req[r].pc = "ready" /\ req[r].handler = "hint" /\ req'[r].handler = "part" =>
                t.id \in LiveParts(st)]_vars

\* Each stream is a live window, with the gaps as fillers.
Window(s) == INSTANCE LiveWindow WITH
    Capacity <- SegmentCount,
    Fillers <- IF LowLatency THEN [i \in 1..GapCount |-> Gap] ELSE << >>,
    first <- stream[s].segmentDeleteCount,
    window <- stream[s].segments,
    parts <- stream[s].nextSegment.parts

LiveWindows ==
    /\ \A s \in Streams : Window(s)!Init
    /\ [][\A s \in Streams : [Window(s)!Next]_(Window(s)!vars)]_vars

(***************************************************************************)
(* Liveness.                                                               *)
(***************************************************************************)

\* A sleeping request is answered once its answer is there, and in any case
\* once the muxer is closed.
SleepersAnswered ==
    \A r \in Requests :
        req[r].pc = "waiting" /\ Answer(r) # "wait" ~> req[r].pc = "done"

\* Close releases every request.
CloseReleases ==
    \A r \in Requests : closed /\ req[r].pc = "waiting" ~> req[r].pc = "done"
================================================================================
