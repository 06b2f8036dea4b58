------------------------------ MODULE MuxerProofs ------------------------------
(***************************************************************************)
(* Theorems about the muxer, for every number of streams, length of the    *)
(* window, set of requests and kind of failure: the mutex, Close, requests *)
(* that meet nil, then what the streams show to players, the paths, the    *)
(* windows and the answers to blocking requests.                           *)
(***************************************************************************)
EXTENDS Muxer, MuxerStreamProofs

LEMMA OutcomeOfStream ==
    ASSUME NEW first, NEW exits, NEW out \in Outcomes(first, exits), NEW s \in Streams
    PROVE  out[s] = "untouched" \/ out[s] \in exits[s]
  BY DEF Outcomes

LEMMA IdleType == Idle \in Request
<1>1. 1 \in Streams
  BY StreamsAssumption DEF Streams
<1> QED
  BY <1>1 DEF Idle, Request, Target, RequestStates, Handlers, Statuses

LEMMA HandlerType ==
    ASSUME NEW t \in Target
    PROVE  HandlerAt(t) \in Handlers
  BY DEF HandlerAt, Handlers, Target

\* The handler that a request runs fits what it has asked for.
HandlerOK(q) ==
    /\ q.pc \in {"ready", "waiting"} => q.handler # "none"
    /\ q.handler \in {"hint", "part"} => q.target.kind = "part"
    /\ q.pc = "reading" => Disk

RequestInv == TypeOK /\ \A r \in Requests : HandlerOK(req[r])

\* A handler that takes the mutex waits, ends with a status, or looks another
\* handler up.
LEMMA AnswerType ==
    ASSUME NEW r \in Requests, RequestInv, req[r].pc = "ready", NeedsMutex(r)
    PROVE  /\ Answer(r) \in {"200", "400", "500", "panic", "wait", "none", "part", "hint"}
           /\ Answer(r) = "part" => req[r].handler = "hint"
<1>1. req[r].target \in Target /\ req[r].handler \in Handlers
  BY DEF RequestInv, TypeOK, Request
<1>2. \A st : PlaylistAnswer(st) \in {"200", "500", "panic", "wait"}
  BY DEF PlaylistAnswer, Generated
<1>3. \A st, msn, part : ReloadAnswer(st, msn, part) \in {"200", "400", "500", "panic", "wait"}
  BY DEF ReloadAnswer, Generated
<1>4. IndexAnswer \in {"200", "500", "wait"}
  BY DEF IndexAnswer
<1>5. CASE req[r].handler \in {"index", "playlist", "reload"}
  BY <1>2, <1>3, <1>4, <1>5 DEF Answer
<1>6. CASE req[r].handler \notin {"index", "playlist", "reload"}
  <2>1. req[r].handler = "hint"
    BY <1>1, <1>6 DEF RequestInv, HandlerOK, NeedsMutex, Handlers
  <2>2. req[r].target.kind = "part"
    BY <2>1 DEF RequestInv, HandlerOK
  <2>3. HandlerAt(req[r].target) \in {"part", "hint", "none"}
    BY <2>2 DEF HandlerAt
  <2>4. Answer(r) = HintAnswer(req[r].target)
    BY <1>6 DEF Answer
  <2> QED
    BY <2>1, <2>3, <2>4 DEF HintAnswer
<1> QED
  BY <1>5, <1>6

--------------------------------------------------------------------------------
(***************************************************************************)
(* Type correctness.                                                       *)
(***************************************************************************)

\* What the writes do to the types of the streams.
LEMMA WriteType ==
    ASSUME RequestInv, Write
    PROVE  stream' \in [Streams -> Stream] /\ owner' \in OwnerStates /\ UNCHANGED << closed, req >>
<1> USE DEF RequestInv, TypeOK
<1>1. CASE WriteFirst
  <2>1. PICK out \in Outcomes(1, [s \in Streams |-> {"done"} \union (Faults \intersect {"newFile"})]) :
            stream' = [s \in Streams |->
                        IF out[s] = "untouched" THEN stream[s]
                                                ELSE CreateFirstSegment(stream[s], out[s])]
    BY <1>1 DEF WriteFirst
  <2>2. \A s \in Streams : CreateFirstSegment(stream[s], out[s]) \in Stream
    BY CreateSegmentFields DEF CreateFirstSegment
  <2> QED
    BY <1>1, <2>1, <2>2 DEF WriteFirst
<1>2. CASE WriteRotatesParts
  <2> DEFINE exits == [s \in Streams |-> PartExits(stream[s], Faults)]
  <2>1. PICK out \in Outcomes(Leading, exits) :
            /\ stream' = [s \in Streams |->
                            IF out[s] = "untouched" THEN stream[s]
                                                    ELSE RotateParts(stream[s], TRUE, out[s])]
            /\ AfterRotation(out, FALSE)
    BY <1>2 DEF WriteRotatesParts
  <2>2. ASSUME NEW s \in Streams, out[s] # "untouched"
        PROVE  RotateParts(stream[s], TRUE, out[s]) \in Stream
    <3>1. out[s] \in PartExits(stream[s], Faults)
      BY <2>2, OutcomeOfStream
    <3>2. ~PartFails(out[s]) => stream[s].nextPart # NoPart
      BY <3>1 DEF PartExits, PartFails
    <3> QED
      BY <3>2, RotatePartsType
  <2>3. owner' \in OwnerStates
    BY <2>1 DEF AfterRotation, OwnerStates
  <2> QED
    BY <1>2, <2>1, <2>2, <2>3 DEF WriteRotatesParts
<1>3. CASE WriteRotatesSegments
  <2> DEFINE exits == [s \in Streams |-> SegmentExits(stream[s], Faults)]
  <2>1. PICK out \in Outcomes(Leading, exits), fault \in BOOLEAN :
            /\ stream' = [s \in Streams |->
                            IF out[s] = "untouched" THEN stream[s]
                                                    ELSE RotateSegments(stream[s], out[s])]
            /\ AfterRotation(out, fault)
    BY <1>3 DEF WriteRotatesSegments
  <2>2. ASSUME NEW s \in Streams, out[s] # "untouched"
        PROVE  RotateSegments(stream[s], out[s]) \in Stream
    <3>1. out[s] \in SegmentExits(stream[s], Faults)
      BY <2>2, OutcomeOfStream
    <3> QED
      BY <3>1, RotateSegmentsType
  <2>3. owner' \in OwnerStates
    BY <2>1 DEF AfterRotation, OwnerStates
  <2> QED
    BY <1>3, <2>1, <2>2, <2>3 DEF WriteRotatesSegments
<1>4. CASE WritePanics
  BY <1>4 DEF WritePanics, OwnerStates
<1> QED
  BY <1>1, <1>2, <1>3, <1>4 DEF Write

LEMMA InitRequestInv == Init => RequestInv
<1> SUFFICES ASSUME Init
             PROVE  RequestInv
  OBVIOUS
<1>1. stream \in [Streams -> Stream]
  BY InitialStreamInv DEF Init
<1>2. req \in [Requests -> Request] /\ \A r \in Requests : req[r] = Idle
  BY IdleType DEF Init
<1>3. HandlerOK(Idle)
  BY DEF HandlerOK, Idle
<1>4. closed \in BOOLEAN /\ owner \in OwnerStates
  BY DEF Init, OwnerStates
<1> QED
  BY <1>1, <1>2, <1>3, <1>4 DEF RequestInv, TypeOK

LEMMA NextRequestInv == RequestInv /\ [Next]_vars => RequestInv'
<1> SUFFICES ASSUME RequestInv, [Next]_vars
             PROVE  RequestInv'
  OBVIOUS
<1> USE DEF RequestInv, TypeOK
<1>1. CASE Write
  BY <1>1, WriteType
<1>2. CASE Close
  BY <1>2 DEF Close, OwnerStates
<1>3. CASE Broadcast
  <2>1. owner' \in OwnerStates
    BY <1>3 DEF Broadcast, OwnerStates
  <2>2. ASSUME NEW r \in Requests
        PROVE  req'[r] \in Request /\ HandlerOK(req'[r])
    BY <1>3 DEF Broadcast, Request, RequestStates, HandlerOK
  <2> QED
    BY <1>3, <2>1, <2>2 DEF Broadcast
<1>4. ASSUME NEW r \in Requests, Serve(r)
      PROVE  RequestInv'
  <2>1. req[r] \in Request /\ HandlerOK(req[r])
    OBVIOUS
  <2>2. PICK q : /\ req' = [req EXCEPT ![r] = q] 
                 /\ q \in Request /\ HandlerOK(q)
    <3>1. Answer(r) \in {"200", "400", "500", "panic", "wait", "none", "part", "hint"}
      BY <1>4, AnswerType DEF Serve
    <3>2. CASE Answer(r) = "wait"
      <4>1. req' = [req EXCEPT ![r] = [req[r] EXCEPT !.pc = "waiting"]]
        BY <1>4, <3>2 DEF Serve
      <4>2. [req[r] EXCEPT !.pc = "waiting"] \in Request
        BY <2>1 DEF Request, RequestStates
      <4>3. HandlerOK([req[r] EXCEPT !.pc = "waiting"])
        BY <1>4, <2>1 DEF Request, HandlerOK, Serve
      <4> QED
        BY <4>1, <4>2, <4>3
    <3>3. CASE Answer(r) = "part"
      <4>1. req' = [req EXCEPT ![r] = [req[r] EXCEPT !.handler = "part"]]
        BY <1>4, <3>3 DEF Serve
      <4>2. req[r].target.kind = "part"
        BY <1>4, <2>1, <3>3, AnswerType DEF Serve, HandlerOK
      <4>3. [req[r] EXCEPT !.handler = "part"] \in Request
        BY <2>1 DEF Request, Handlers
      <4>4. HandlerOK([req[r] EXCEPT !.handler = "part"])
        BY <2>1, <4>2 DEF Request, HandlerOK
      <4> QED
        BY <4>1, <4>3, <4>4
    <3>4. CASE Answer(r) \in {"200", "400", "500", "panic", "none", "hint"}
      <4>1. PICK status \in Statuses : Done(r, status)
        BY <1>4, <3>4 DEF Serve, Statuses
      <4>2. req' = [req EXCEPT ![r] = [req[r] EXCEPT !.pc = "done", !.status = status]]
        BY <2>1, <4>1 DEF Done, Request
      <4>3. [req[r] EXCEPT !.pc = "done", !.status = status] \in Request
        BY <2>1 DEF Request, RequestStates
      <4>4. HandlerOK([req[r] EXCEPT !.pc = "done", !.status = status])
        BY <2>1 DEF Request, HandlerOK
      <4> QED
        BY <4>2, <4>3, <4>4
    <3> QED
      BY <3>1, <3>2, <3>3, <3>4
  <2> QED
    BY <1>4, <2>2 DEF Serve
<1>5. ASSUME NEW r \in Requests, ServeFile(r)
      PROVE  RequestInv'
  <2>1. req[r] \in Request /\ HandlerOK(req[r])
    OBVIOUS
  <2>2. UNCHANGED << stream, closed, owner >>
    BY <1>5 DEF ServeFile, OpenFile, TestBuffer, UseBuffer
  <2>3. CASE TestBuffer(r)
    <3>1. req' = [req EXCEPT ![r] = [req[r] EXCEPT !.pc = "reading"]]
      BY <2>3 DEF TestBuffer
    <3>2. [req[r] EXCEPT !.pc = "reading"] \in Request
      BY <2>1 DEF Request, RequestStates
    <3>3. HandlerOK([req[r] EXCEPT !.pc = "reading"])
      BY <2>1, <2>3 DEF Request, HandlerOK, TestBuffer, Buffered
    <3> QED
      BY <2>2, <3>1, <3>2, <3>3
  <2>4. CASE OpenFile(r) \/ UseBuffer(r)
    <3>1. PICK status \in Statuses : Done(r, status)
      BY <2>4 DEF OpenFile, UseBuffer, Statuses
    <3>2. req' = [req EXCEPT ![r] = [req[r] EXCEPT !.pc = "done", !.status = status]]
      BY <2>1, <3>1 DEF Done, Request
    <3>3. [req[r] EXCEPT !.pc = "done", !.status = status] \in Request
      BY <2>1 DEF Request, RequestStates
    <3>4. HandlerOK([req[r] EXCEPT !.pc = "done", !.status = status])
      BY <2>1 DEF Request, HandlerOK
    <3> QED
      BY <2>2, <3>2, <3>3, <3>4
  <2> QED
    BY <1>5, <2>3, <2>4 DEF ServeFile
<1>6. ASSUME NEW r \in Requests, NEW t \in Targets, Receive(r, t)
      PROVE  RequestInv'
  <2>1. t \in Target
    BY EnvironmentAssumption
  <2>2. HandlerAt(t) \in Handlers /\ (HandlerAt(t) \in {"hint", "part"} => t.kind = "part")
    BY <2>1, HandlerType DEF HandlerAt, Target
  <2> DEFINE q == IF HandlerAt(t) = "none"
                  THEN [target |-> t, handler |-> "none", pc |-> "done", status |-> "empty"]
                  ELSE [target |-> t, handler |-> HandlerAt(t), pc |-> "ready", status |-> "none"]
  <2>3. req' = [req EXCEPT ![r] = q]
    BY <1>6 DEF Receive
  <2>4. q \in Request /\ HandlerOK(q)
    BY <2>1, <2>2 DEF Request, RequestStates, Handlers, Statuses, HandlerOK
  <2> QED
    BY <1>6, <2>3, <2>4 DEF Receive
<1>7. CASE UNCHANGED vars
  BY <1>7 DEF vars
<1> QED
  BY <1>1, <1>2, <1>3, <1>4, <1>5, <1>6, <1>7 DEF Next

\* The types are correct whatever fails.
THEOREM TypeCorrect == Spec => []TypeOK
<1>1. RequestInv => TypeOK
  BY DEF RequestInv
<1> QED
  BY <1>1, InitRequestInv, NextRequestInv, PTL DEF Spec

--------------------------------------------------------------------------------
(***************************************************************************)
(* The numbering of the windows.                                           *)
(***************************************************************************)

WindowInv == RequestInv /\ \A s \in Streams : StreamInv(stream[s])

LEMMA InitWindowInv == Init => WindowInv
  BY InitRequestInv, InitialStreamInv DEF Init, WindowInv

\* An MPEG-TS segment that cannot be flushed takes its identifier with it.
IdentifiersKept == Variant = "MPEGTS" => "segFinalize" \notin Faults

\* The streams of a muxer change only in the writes, by their methods.
LEMMA NextWindowInv ==
    ASSUME IdentifiersKept, WindowInv, [Next]_vars
    PROVE  WindowInv'
<1>1. RequestInv'
  BY NextRequestInv DEF WindowInv
<1>2. stream \in [Streams -> Stream] /\ \A s \in Streams : StreamInv(stream[s])
  BY DEF WindowInv, RequestInv, TypeOK
<1>3. CASE WriteFirst
  <2>1. PICK out \in Outcomes(1, [s \in Streams |-> {"done"} \union (Faults \intersect {"newFile"})]) :
            stream' = [s \in Streams |->
                        IF out[s] = "untouched" THEN stream[s]
                                                ELSE CreateFirstSegment(stream[s], out[s])]
    BY <1>3 DEF WriteFirst
  <2>2. \A s \in Streams : StreamInv(CreateFirstSegment(stream[s], out[s]))
    BY <1>2, CreateSegmentInv DEF CreateFirstSegment
  <2>3. \A s \in Streams : StreamInv(stream'[s])
    BY <1>2, <2>1, <2>2
  <2> QED
    BY <1>1, <2>3 DEF WindowInv
<1>4. CASE WriteRotatesParts
  <2> DEFINE exits == [s \in Streams |-> PartExits(stream[s], Faults)]
  <2>1. PICK out \in Outcomes(Leading, exits) :
            stream' = [s \in Streams |->
                        IF out[s] = "untouched" THEN stream[s]
                                                ELSE RotateParts(stream[s], TRUE, out[s])]
    BY <1>4 DEF WriteRotatesParts
  <2>2. ASSUME NEW s \in Streams, out[s] # "untouched"
        PROVE  StreamInv(RotateParts(stream[s], TRUE, out[s]))
    <3>1. out[s] \in PartExits(stream[s], Faults)
      BY <2>2, OutcomeOfStream
    <3> QED
      BY <1>2, <3>1, RotatePartsInv
  <2>3. \A s \in Streams : StreamInv(stream'[s])
    BY <1>2, <2>1, <2>2
  <2> QED
    BY <1>1, <2>3 DEF WindowInv
<1>5. CASE WriteRotatesSegments
  <2> DEFINE exits == [s \in Streams |-> SegmentExits(stream[s], Faults)]
  <2>1. PICK out \in Outcomes(Leading, exits) :
            stream' = [s \in Streams |->
                        IF out[s] = "untouched" THEN stream[s]
                                                ELSE RotateSegments(stream[s], out[s])]
    BY <1>5 DEF WriteRotatesSegments
  <2>2. ASSUME NEW s \in Streams, out[s] # "untouched"
        PROVE  StreamInv(RotateSegments(stream[s], out[s]))
    <3>1. out[s] \in SegmentExits(stream[s], Faults)
      BY <2>2, OutcomeOfStream
    <3>2. out[s] # "segFinalize"
      BY <3>1 DEF SegmentExits, IdentifiersKept
    <3>3. Variant = "MPEGTS" => stream[s].nextSegment # NoSegment
      BY <1>5, StreamsAssumption DEF WriteRotatesSegments, Unstarted, Streams
    <3> QED
      BY <1>2, <3>1, <3>2, <3>3, RotateSegmentsInv
  <2>3. \A s \in Streams : StreamInv(stream'[s])
    BY <1>2, <2>1, <2>2
  <2> QED
    BY <1>1, <2>3 DEF WindowInv
<1>6. CASE UNCHANGED stream
  BY <1>1, <1>6 DEF WindowInv
<1> QED
  BY <1>3, <1>4, <1>5, <1>6
     DEF Next, vars, Write, WritePanics, Close, Broadcast, Serve, ServeFile, OpenFile, TestBuffer, UseBuffer, Receive

\* Whatever fails, except the finalize() of an MPEG-TS segment, the media
\* sequence numbers of every stream are the identifiers of its segments.
THEOREM NumberingCorrect ==
    ASSUME IdentifiersKept
    PROVE  Spec => []MediaSequenceNumbering
<1>1. WindowInv => MediaSequenceNumbering
  BY DEF WindowInv, StreamInv, MediaSequenceNumbering
<1>2. WindowInv /\ [Next]_vars => WindowInv'
  BY NextWindowInv
<1> QED
  BY <1>1, <1>2, InitWindowInv, PTL DEF Spec

--------------------------------------------------------------------------------
(***************************************************************************)
(* A muxer whose writes do not fail.                                       *)
(***************************************************************************)

\* The streams start together, and from then on each of them can be written.
SteadyInv ==
    /\ WindowInv
    /\ WriteIsSafe
    /\ \/ \A s \in Streams : stream[s].nextSegment = NoSegment /\ stream[s].segments = << >>
       \/ \A s \in Streams : Writable(stream[s])

LEMMA NoFaultOutcome ==
    ASSUME NEW first, NEW exits, \A s \in Streams : exits[s] = {"done"},
           NEW out \in Outcomes(first, exits)
    PROVE  \A s \in Streams : out[s] = "done"
  BY DEF Outcomes

LEMMA NoFaultExits ==
    ASSUME Faults = {}, NEW st, Variant = "MPEGTS" \/ st.nextPart # NoPart
    PROVE  SegmentExits(st, Faults) = {"done"}
  BY DEF SegmentExits

LEMMA InitSteadyInv == Init => SteadyInv
<1> SUFFICES ASSUME Init
             PROVE  SteadyInv
  OBVIOUS
<1>1. \A s \in Streams : stream[s].nextSegment = NoSegment /\ stream[s].segments = << >>
  BY DEF Init, InitialStream
<1>2. WriteIsSafe
  BY DEF Init, WriteIsSafe
<1> QED
  BY <1>1, <1>2, InitWindowInv DEF SteadyInv

\* Without failures a write that starts, or rotates, does so in all streams.
LEMMA SteadyWrites ==
    ASSUME Faults = {}, SteadyInv
    PROVE  /\ WriteFirst => stream' = [s \in Streams |-> CreateSegment(stream[s])]
           /\ WriteRotatesParts =>
                /\ stream' = [s \in Streams |-> RotateParts(stream[s], TRUE, "done")]
                /\ owner' = "rotated"
           /\ WriteRotatesSegments =>
                /\ stream' = [s \in Streams |-> RotateSegments(stream[s], "done")]
                /\ owner' = "rotated"
           /\ ~WritePanics
           /\ ~Unstarted => \A s \in Streams : Writable(stream[s])
<1>1. Leading \in Streams
  BY StreamsAssumption
<1>2. ~Unstarted => \A s \in Streams : Writable(stream[s])
  BY <1>1 DEF SteadyInv, Unstarted
<1>3. ASSUME WriteFirst
      PROVE  stream' = [s \in Streams |-> CreateSegment(stream[s])]
  <2> DEFINE exits == [s \in Streams |-> {"done"} \union (Faults \intersect {"newFile"})]
  <2>1. PICK out \in Outcomes(1, exits) :
            stream' = [s \in Streams |->
                        IF out[s] = "untouched" THEN stream[s]
                                                ELSE CreateFirstSegment(stream[s], out[s])]
    BY <1>3 DEF WriteFirst
  <2>2. \A s \in Streams : exits[s] = {"done"}
    OBVIOUS
  <2> HIDE DEF exits
  <2>3. \A s \in Streams : out[s] = "done"
    BY <2>2, NoFaultOutcome
  <2> QED
    BY <2>1, <2>3 DEF CreateFirstSegment
<1>4. ASSUME WriteRotatesParts
      PROVE  /\ stream' = [s \in Streams |-> RotateParts(stream[s], TRUE, "done")]
             /\ owner' = "rotated"
  <2> DEFINE exits == [s \in Streams |-> PartExits(stream[s], Faults)]
  <2>1. PICK out \in Outcomes(Leading, exits) :
            /\ stream' = [s \in Streams |->
                            IF out[s] = "untouched" THEN stream[s]
                                                    ELSE RotateParts(stream[s], TRUE, out[s])]
            /\ AfterRotation(out, FALSE)
    BY <1>4 DEF WriteRotatesParts
  <2>2. \A s \in Streams : exits[s] = {"done"}
    BY <1>2, <1>4 DEF PartExits, WriteRotatesParts, Writable, LowLatency
  <2> HIDE DEF exits
  <2>3. \A s \in Streams : out[s] = "done"
    BY <2>2, NoFaultOutcome
  <2> QED
    BY <2>1, <2>3 DEF AfterRotation, Panicked, Completed
<1>5. ASSUME WriteRotatesSegments
      PROVE  /\ stream' = [s \in Streams |-> RotateSegments(stream[s], "done")]
             /\ owner' = "rotated"
  <2> DEFINE exits == [s \in Streams |-> SegmentExits(stream[s], Faults)]
  <2>1. PICK out \in Outcomes(Leading, exits), fault \in BOOLEAN :
            /\ fault => "savePlaylists" \in Faults
            /\ stream' = [s \in Streams |->
                            IF out[s] = "untouched" THEN stream[s]
                                                    ELSE RotateSegments(stream[s], out[s])]
            /\ AfterRotation(out, fault)
    BY <1>5 DEF WriteRotatesSegments
  <2>2. \A s \in Streams : exits[s] = {"done"}
    <3>1. ASSUME NEW s \in Streams
          PROVE  SegmentExits(stream[s], Faults) = {"done"}
      <4>1. Variant = "MPEGTS" \/ stream[s].nextPart # NoPart
        BY <1>2, <1>5 DEF WriteRotatesSegments, Writable
      <4> QED
        BY <4>1, NoFaultExits
    <3> QED
      BY <3>1
  <2> HIDE DEF exits
  <2>3. \A s \in Streams : out[s] = "done"
    BY <2>2, NoFaultOutcome
  <2> QED
    BY <2>1, <2>3 DEF AfterRotation, Panicked, Completed
<1>6. ~WritePanics
  BY DEF WritePanics, SteadyInv, CanWrite, Writable
<1> QED
  BY <1>2, <1>3, <1>4, <1>5, <1>6

LEMMA NextSteadyInv ==
    ASSUME Faults = {}, SteadyInv, [Next]_vars
    PROVE  SteadyInv'
<1>1. WindowInv'
  BY NextWindowInv DEF SteadyInv, IdentifiersKept
<1>2. \A s \in Streams : stream[s] \in Stream /\ StreamInv(stream[s])
  BY DEF SteadyInv, WindowInv, RequestInv, TypeOK
<1>3. CASE WriteFirst
  <2>1. \A s \in Streams : Writable(stream'[s])
    BY <1>2, <1>3, SteadyWrites, CreateSegmentWritable
  <2>2. WriteIsSafe'
    BY <1>3 DEF WriteFirst, SteadyInv, WriteIsSafe
  <2> QED
    BY <1>1, <2>1, <2>2 DEF SteadyInv
<1>4. CASE WriteRotatesParts
  <2>1. \A s \in Streams : stream[s].nextPart # NoPart
    BY <1>4, SteadyWrites DEF WriteRotatesParts, Writable, LowLatency
  <2>2. \A s \in Streams : Writable(stream'[s])
    BY <1>2, <1>4, <2>1, SteadyWrites, RotatePartsWritable
  <2>3. WriteIsSafe'
    BY <1>4, SteadyWrites DEF WriteIsSafe
  <2> QED
    BY <1>1, <2>2, <2>3 DEF SteadyInv
<1>5. CASE WriteRotatesSegments
  <2>1. \A s \in Streams : Variant # "MPEGTS" => stream[s].nextPart # NoPart
    BY <1>5, SteadyWrites DEF WriteRotatesSegments, Writable
  <2>2. \A s \in Streams : Writable(stream'[s])
    BY <1>2, <1>5, <2>1, SteadyWrites, RotateSegmentsWritable
  <2>3. WriteIsSafe'
    BY <1>5, SteadyWrites DEF WriteIsSafe
  <2> QED
    BY <1>1, <2>2, <2>3 DEF SteadyInv
<1>6. CASE UNCHANGED stream /\ owner' \notin {"panicked", "stuck"}
  BY <1>1, <1>6 DEF SteadyInv, WriteIsSafe
<1>7. Close \/ Broadcast => UNCHANGED stream /\ owner' \notin {"panicked", "stuck"}
  BY DEF Close, Broadcast
<1>8. ASSUME NEW r \in Requests
      PROVE  Serve(r) \/ ServeFile(r) \/ (\E t \in Targets : Receive(r, t))
                => UNCHANGED << stream, owner >>
  BY DEF Serve, ServeFile, OpenFile, TestBuffer, UseBuffer, Receive
<1>9. UNCHANGED vars => UNCHANGED << stream, owner >>
  BY DEF vars
<1> QED
  BY <1>3, <1>4, <1>5, <1>6, <1>7, <1>8, <1>9, SteadyWrites
     DEF Next, Write, SteadyInv, WriteIsSafe

\* If nothing fails, no write panics.
THEOREM WritesAreSafe ==
    ASSUME Faults = {}
    PROVE  Spec => []WriteIsSafe
<1>1. SteadyInv /\ [Next]_vars => SteadyInv'
  BY NextSteadyInv
<1>2. SteadyInv => WriteIsSafe
  BY DEF SteadyInv
<1> QED
  BY <1>1, <1>2, InitSteadyInv, PTL DEF Spec

--------------------------------------------------------------------------------
(***************************************************************************)
(* No wakeup is lost.                                                      *)
(***************************************************************************)

\* What a handler gets depends on the streams, on whether the muxer is closed,
\* and on the request.
LEMMA AnswerUnchanged ==
    ASSUME NEW r \in Requests, UNCHANGED << stream, closed >>,
           req'[r].target = req[r].target, req'[r].handler = req[r].handler
    PROVE  Answer(r)' = Answer(r)
  BY DEF Answer, IndexAnswer, PlaylistAnswer, ReloadAnswer, HintAnswer, HandlerAt, Generated

\* createFirstSegment does not wake anybody up, and has no reason to: before
\* the first segment is finished no playlist has any content, and the part
\* that begins is not there yet.
LEMMA FirstSegmentWakesNobody ==
    ASSUME NEW r \in Requests, Answer(r) = "wait",
           \A s \in Streams : stream[s].segments = << >> /\ stream[s] \in Stream,
           req[r] \in Request, HandlerOK(req[r]), req[r].pc = "waiting", NeedsMutex(r),
           stream' = [s \in Streams |-> CreateSegment(stream[s])],
           UNCHANGED << closed, req >>
    PROVE  Answer(r)' = "wait"
<1> DEFINE t == req[r].target
<1>1. t \in Target /\ t.stream \in Streams /\ 1 \in Streams
  BY StreamsAssumption DEF Request, Target, Streams
<1>2. \A s \in Streams : /\ stream'[s].segments = << >>
                          /\ stream'[s].nextPartID = stream[s].nextPartID
                          /\ stream'[s].nextSegmentID = stream[s].nextSegmentID
  BY CreateSegmentFields
<1>3. \A s \in Streams : ~hasContent(stream[s]) /\ ~hasContent(stream'[s])
  BY <1>2 DEF hasContent
<1>4. \A s \in Streams : \A msn : MsnRefused(stream'[s], msn) = MsnRefused(stream[s], msn)
  BY <1>2 DEF MsnRefused
<1>5. req'[r] = req[r] /\ closed' = closed
  OBVIOUS
<1>6. CASE req[r].handler = "index"
  BY <1>1, <1>3, <1>5, <1>6 DEF Answer, IndexAnswer
<1>7. CASE req[r].handler = "playlist"
  BY <1>1, <1>3, <1>5, <1>7 DEF Answer, PlaylistAnswer
<1>8. CASE req[r].handler = "reload"
  <2>1. CASE LowLatency
    BY SMTT(30), <1>1, <1>3, <1>4, <1>5, <1>8, <2>1 DEF Answer, ReloadAnswer
  <2>2. CASE ~LowLatency
    BY <1>1, <1>3, <1>5, <1>8, <2>2 DEF Answer, PlaylistAnswer
  <2> QED
    BY <2>1, <2>2
<1>9. CASE req[r].handler \notin {"index", "playlist", "reload"}
  <2>1. Answer(r) = HintAnswer(t) /\ Answer(r)' = HintAnswer(t)'
    BY <1>5, <1>9 DEF Answer
  <2>2. HandlerAt(t) # "wait"
    BY <1>1 DEF HandlerAt, Target
  <2>3. ~closed /\ ~(stream[t.stream].nextPartID > t.id)
    BY <2>1, <2>2 DEF HintAnswer
  <2> QED
    BY <1>1, <1>2, <1>5, <2>1, <2>3 DEF HintAnswer
<1> QED
  BY <1>6, <1>7, <1>8, <1>9

\* Only the handlers that take the mutex sleep.
WakeupInv ==
    /\ SteadyInv
    /\ NoLostWakeup
    /\ \A r \in Requests : req[r].pc = "waiting" => NeedsMutex(r)

LEMMA InitWakeupInv == Init => WakeupInv
<1> SUFFICES ASSUME Init
             PROVE  WakeupInv
  OBVIOUS
<1>1. \A r \in Requests : req[r].pc # "waiting"
  BY DEF Init, Idle
<1> QED
  BY <1>1, InitSteadyInv DEF WakeupInv, NoLostWakeup

LEMMA NextWakeupInv ==
    ASSUME Faults = {}, WakeupInv, [Next]_vars
    PROVE  WakeupInv'
<1>1. SteadyInv'
  BY NextSteadyInv DEF WakeupInv
<1>2. /\ \A s \in Streams : stream[s] \in Stream
      /\ \A r \in Requests : req[r] \in Request /\ HandlerOK(req[r])
      /\ req \in [Requests -> Request]
  BY DEF WakeupInv, SteadyInv, WindowInv, RequestInv, TypeOK
<1> DEFINE Sleeps(r) == req[r].pc = "waiting"
           Announced == owner \in {"rotated", "closing"}
           Preserved == \A r \in Requests :
                            Sleeps(r)' => NeedsMutex(r)' /\ (~Announced' => Answer(r)' = "wait")
<1> SUFFICES Preserved
  BY <1>1 DEF WakeupInv, NoLostWakeup
<1>3. \A r \in Requests : Sleeps(r) => NeedsMutex(r) /\ (~Announced => Answer(r) = "wait")
  BY DEF WakeupInv, NoLostWakeup
<1>4. CASE WriteFirst
  <2>1. owner = "writing" /\ ~Announced /\ UNCHANGED << closed, req >>
    BY <1>4 DEF WriteFirst
  <2>2. stream' = [s \in Streams |-> CreateSegment(stream[s])]
    BY <1>4, SteadyWrites DEF WakeupInv
  <2>3. \A s \in Streams : stream[s].segments = << >>
    BY <1>4, StreamsAssumption DEF WriteFirst, Unstarted, WakeupInv, SteadyInv, Writable
  <2> QED
    BY <1>2, <1>3, <2>1, <2>2, <2>3, FirstSegmentWakesNobody DEF NeedsMutex
<1>5. CASE WriteRotatesParts \/ WriteRotatesSegments
  <2>1. owner' = "rotated" /\ UNCHANGED req
    BY <1>5, SteadyWrites DEF WakeupInv, WriteRotatesParts, WriteRotatesSegments
  <2> QED
    BY <1>3, <2>1 DEF NeedsMutex
<1>6. CASE Close
  BY <1>3, <1>6 DEF Close, NeedsMutex
<1>7. CASE Broadcast
  <2>1. \A r \in Requests : ~Sleeps(r)'
    BY <1>2, <1>7 DEF Broadcast, Request
  <2> QED
    BY <2>1
<1>8. ASSUME NEW q \in Requests, Serve(q) \/ ServeFile(q) \/ \E t \in Targets : Receive(q, t)
      PROVE  Preserved
  <2>1. UNCHANGED << stream, closed, owner >>
    BY <1>8 DEF Serve, ServeFile, OpenFile, TestBuffer, UseBuffer, Receive
  <2>2. \A r \in Requests \ {q} : req'[r] = req[r]
    BY <1>2, <1>8 DEF Serve, ServeFile, OpenFile, TestBuffer, UseBuffer, Receive, Done
  <2>3. ASSUME NEW r \in Requests \ {q}, Sleeps(r)'
        PROVE  NeedsMutex(r)' /\ (~Announced' => Answer(r)' = "wait")
    <3>1. Answer(r)' = Answer(r)
      BY <2>1, <2>2, AnswerUnchanged
    <3> QED
      BY <1>3, <2>1, <2>2, <2>3, <3>1 DEF NeedsMutex
  <2>4. ASSUME Sleeps(q)'
        PROVE  NeedsMutex(q)' /\ (~Announced' => Answer(q)' = "wait")
    <3>1. /\ Serve(q) /\ Answer(q) = "wait"
          /\ req' = [req EXCEPT ![q].pc = "waiting"]
      BY <1>2, <1>8, <2>4 DEF Serve, ServeFile, OpenFile, TestBuffer, UseBuffer, Receive, Done, Request, RequestStates
    <3>2. req'[q].target = req[q].target /\ req'[q].handler = req[q].handler
      BY <1>2, <3>1 DEF Request
    <3>3. Answer(q)' = Answer(q)
      BY <2>1, <3>2, AnswerUnchanged
    <3> QED
      BY <3>1, <3>2, <3>3 DEF Serve, NeedsMutex
  <2> QED
    BY <2>3, <2>4
<1>9. CASE UNCHANGED vars
  <2>1. \A r \in Requests : Answer(r)' = Answer(r)
    BY <1>9, AnswerUnchanged DEF vars
  <2> QED
    BY <1>3, <1>9, <2>1 DEF vars, NeedsMutex
<1>10. ~WritePanics
  BY SteadyWrites DEF WakeupInv
<1> QED
  BY <1>4, <1>5, <1>6, <1>7, <1>8, <1>9, <1>10 DEF Next, Write

\* If no write fails, no sleeping handler misses the change it waits for,
\* however rotations, Close and requests interleave.
THEOREM NoWakeupIsLost ==
    ASSUME Faults = {}
    PROVE  Spec => []NoLostWakeup
<1>1. WakeupInv /\ [Next]_vars => WakeupInv'
  BY NextWakeupInv
<1>2. WakeupInv => NoLostWakeup
  BY DEF WakeupInv
<1> QED
  BY <1>1, <1>2, InitWakeupInv, PTL DEF Spec

--------------------------------------------------------------------------------
(***************************************************************************)
(* Handle can be called in parallel with the writes.                       *)
(***************************************************************************)

SafeInv ==
    /\ SteadyInv
    /\ HandleIsSafe
    /\ \A s \in Streams : HintInv(stream[s])

LEMMA InitSafeInv == Init => SafeInv
<1> SUFFICES ASSUME Init
             PROVE  SafeInv
  OBVIOUS
<1>1. HandleIsSafe
  BY DEF Init, Idle, HandleIsSafe
<1>2. HintInv(InitialStream)
  BY DEF HintInv, InitialStream
<1> QED
  BY <1>1, <1>2, InitSteadyInv DEF SafeInv, Init

\* A playlist with content has a segment that is being written, and a part
\* that is there is not bound to the hint handler any more.
LEMMA SafeAnswer ==
    ASSUME NEW r \in Requests, SafeInv, req[r].pc = "ready", NeedsMutex(r)
    PROVE  Answer(r) \notin {"panic", "hint"}
<1> DEFINE t == req[r].target
           st == stream[t.stream]
<1>1. /\ t \in Target /\ t.stream \in Streams
      /\ req[r].handler \in Handlers
      /\ HandlerOK(req[r])
      /\ st \in Stream
  BY DEF SafeInv, SteadyInv, WindowInv, RequestInv, TypeOK, Request, Target
<1>2. hasContent(st) => st.nextSegment # NoSegment
  BY <1>1 DEF SafeInv, SteadyInv, hasContent, Writable
<1>3. PlaylistAnswer(st) \notin {"panic", "hint"}
  BY <1>2 DEF PlaylistAnswer, Generated
<1>4. ReloadAnswer(st, t.id, t.part) \notin {"panic", "hint"}
  BY <1>2 DEF ReloadAnswer, Generated
<1>5. IndexAnswer \notin {"panic", "hint"}
  BY DEF IndexAnswer
<1>6. CASE req[r].handler \in {"index", "playlist", "reload"}
  BY <1>3, <1>4, <1>5, <1>6 DEF Answer
<1>7. CASE req[r].handler \notin {"index", "playlist", "reload"}
  <2>1. t.kind = "part"
    BY <1>1, <1>7 DEF NeedsMutex, HandlerOK, Handlers
  <2>2. t.id \in Nat /\ st.nextPartID \in Nat /\ st.hintPaths \subseteq {st.nextPartID}
    BY <1>1 DEF SafeInv, HintInv, Target, Stream
  <2>3. st.nextPartID > t.id => t.id \notin st.hintPaths
    BY <2>2
  <2>4. HandlerAt(t) \in {"part", "hint", "none"} /\ (HandlerAt(t) = "hint" => t.id \in st.hintPaths)
    BY <2>1 DEF HandlerAt
  <2>5. HintAnswer(t) \notin {"panic", "hint"}
    BY <2>3, <2>4 DEF HintAnswer
  <2> QED
    BY <1>7, <2>5 DEF Answer
<1> QED
  BY <1>6, <1>7

LEMMA NextSafeInv ==
    ASSUME Faults = {}, SafeInv, [Next]_vars
    PROVE  SafeInv'
<1>1. SteadyInv'
  BY NextSteadyInv DEF SafeInv
<1>2. /\ \A s \in Streams : stream[s] \in Stream /\ StreamInv(stream[s]) /\ HintInv(stream[s])
      /\ req \in [Requests -> Request]
  BY DEF SafeInv, SteadyInv, WindowInv, RequestInv, TypeOK
<1>3. \A s \in Streams : HintInv(stream'[s])
  <2>1. CASE WriteFirst
    BY <1>2, <2>1, SteadyWrites, CreateSegmentHint DEF SafeInv
  <2>2. CASE WriteRotatesParts
    <3>1. \A s \in Streams : stream[s].nextPart # NoPart
      BY <2>2, SteadyWrites DEF SafeInv, WriteRotatesParts, Writable, LowLatency
    <3> QED
      BY <1>2, <2>2, <3>1, SteadyWrites, RotatePartsHint DEF SafeInv
  <2>3. CASE WriteRotatesSegments
    <3>1. \A s \in Streams : Variant # "MPEGTS" => stream[s].nextPart # NoPart
      BY <2>3, SteadyWrites DEF SafeInv, WriteRotatesSegments, Writable
    <3> QED
      BY <1>2, <2>3, <3>1, SteadyWrites, RotateSegmentsHint DEF SafeInv
  <2>4. CASE UNCHANGED stream
    BY <1>2, <2>4
  <2> QED
    BY <2>1, <2>2, <2>3, <2>4
       DEF Next, vars, Write, WritePanics, Close, Broadcast, Serve, ServeFile, OpenFile, TestBuffer, UseBuffer, Receive
<1>4. HandleIsSafe'
  <2>1. ASSUME NEW r \in Requests, Serve(r)
        PROVE  HandleIsSafe'
    <3>1. Answer(r) \notin {"panic", "hint"}
      BY <2>1, SafeAnswer DEF SafeInv, Serve
    <3>2. Answer(r) \in {"200", "400", "500", "panic", "wait", "none", "part", "hint"}
      BY <2>1, AnswerType DEF Serve, SafeInv, SteadyInv, WindowInv
    <3>3. \A q \in Requests : req'[q].status \in {req[q].status, "200", "400", "500", "empty"}
      BY <1>2, <2>1, <3>1, <3>2 DEF Serve, Done, Request
    <3> QED
      BY <3>3 DEF SafeInv, HandleIsSafe
  <2>2. ASSUME NEW r \in Requests, ServeFile(r) \/ \E t \in Targets : Receive(r, t)
        PROVE  HandleIsSafe'
    <3>1. \A q \in Requests : req'[q].status \in {req[q].status, "none", "200", "500", "empty", "raced"}
      BY <1>2, <2>2
         DEF ServeFile, OpenFile, TestBuffer, UseBuffer, Receive, Done, Request
    <3> QED
      BY <3>1 DEF SafeInv, HandleIsSafe
  <2>3. CASE Broadcast
    BY <1>2, <2>3 DEF Broadcast, SafeInv, HandleIsSafe, Request
  <2>4. CASE UNCHANGED req
    BY <2>4 DEF SafeInv, HandleIsSafe
  <2> QED
    BY <2>1, <2>2, <2>3, <2>4
       DEF Next, vars, Write, WritePanics, Close, WriteFirst, WriteRotatesParts, WriteRotatesSegments
<1> QED
  BY <1>1, <1>3, <1>4 DEF SafeInv

\* The promise of the comment on Handle, which holds as long as no write fails,
\* up to the race in the storage: no request, at whatever moment it arrives,
\* finds nil in a stream or recurses for ever.
THEOREM HandlersAreSafe ==
    ASSUME Faults = {}
    PROVE  Spec => []HandleIsSafe
<1>1. SafeInv /\ [Next]_vars => SafeInv'
  BY NextSafeInv
<1>2. SafeInv => HandleIsSafe
  BY DEF SafeInv
<1> QED
  BY <1>1, <1>2, InitSafeInv, PTL DEF Spec

--------------------------------------------------------------------------------
(***************************************************************************)
(* The paths that a muxer serves.                                          *)
(***************************************************************************)

\* A failure must leave a Low-Latency stream alone: a part that cannot be
\* finalized keeps the path of the hint, and the segments that the next write
\* replaces leave their parts in the table.
Undisturbed == ~LowLatency \/ Faults = {}

TableInv ==
    /\ RequestInv
    /\ LowLatency => SteadyInv
    /\ \A s \in Streams : PathsInv(stream[s])

LEMMA InitTableInv == Init => TableInv
  BY InitRequestInv, InitSteadyInv, InitialPaths DEF Init, TableInv

LEMMA NextTableInv ==
    ASSUME Undisturbed, TableInv, [Next]_vars
    PROVE  TableInv'
<1>1. RequestInv'
  BY NextRequestInv DEF TableInv
<1>2. (LowLatency => SteadyInv)'
  BY NextSteadyInv DEF TableInv, Undisturbed
<1>3. \A s \in Streams : stream[s] \in Stream /\ PathsInv(stream[s])
  BY DEF TableInv, RequestInv, TypeOK
<1> SUFFICES \A s \in Streams : PathsInv(stream'[s])
  BY <1>1, <1>2 DEF TableInv
<1>4. CASE WriteFirst
  <2>1. PICK out \in Outcomes(1, [s \in Streams |-> {"done"} \union (Faults \intersect {"newFile"})]) :
            stream' = [s \in Streams |->
                        IF out[s] = "untouched" THEN stream[s]
                                                ELSE CreateFirstSegment(stream[s], out[s])]
    BY <1>4 DEF WriteFirst
  <2>2. \A s \in Streams : stream[s].nextSegment.parts = << >>
    <3>1. CASE LowLatency
      <4>1. Leading \in Streams /\ ~Writable(stream[Leading])
        BY <1>4, StreamsAssumption DEF WriteFirst, Unstarted, Writable
      <4>2. \A s \in Streams : stream[s].nextSegment = NoSegment
        BY <3>1, <4>1 DEF TableInv, SteadyInv
      <4> QED
        BY <4>2 DEF NoSegment
    <3>2. CASE ~LowLatency
      BY <1>3, <3>2 DEF PathsInv, FreshParts
    <3> QED
      BY <3>1, <3>2
  <2>3. \A s \in Streams : PathsInv(CreateFirstSegment(stream[s], out[s]))
    BY <1>3, <2>2, CreateSegmentPaths DEF CreateFirstSegment
  <2> QED
    BY <1>3, <2>1, <2>3
<1>5. CASE WriteRotatesParts
  <2>1. LowLatency
    BY <1>5 DEF WriteRotatesParts
  <2>2. stream' = [s \in Streams |-> RotateParts(stream[s], TRUE, "done")]
        /\ \A s \in Streams : stream[s].nextPart # NoPart
    BY <1>5, <2>1, SteadyWrites
       DEF TableInv, Undisturbed, WriteRotatesParts, Writable, LowLatency
  <2> QED
    BY <1>3, <2>2, RotatePartsPaths DEF PartFails
<1>6. CASE WriteRotatesSegments
  <2> DEFINE exits == [s \in Streams |-> SegmentExits(stream[s], Faults)]
  <2>1. PICK out \in Outcomes(Leading, exits) :
            stream' = [s \in Streams |->
                        IF out[s] = "untouched" THEN stream[s]
                                                ELSE RotateSegments(stream[s], out[s])]
    BY <1>6 DEF WriteRotatesSegments
  <2>2. ASSUME NEW s \in Streams, out[s] # "untouched"
        PROVE  PathsInv(RotateSegments(stream[s], out[s]))
    <3>1. out[s] \in SegmentExits(stream[s], Faults)
      BY <2>2, OutcomeOfStream
    <3>2. ASSUME LowLatency PROVE ~PartFails(out[s])
      <4>1. stream[s].nextPart # NoPart
        BY <1>6, <3>2, SteadyWrites
           DEF TableInv, Undisturbed, WriteRotatesSegments, Writable, LowLatency
      <4>2. out[s] = "done"
        BY <3>1, <3>2, <4>1, NoFaultExits DEF Undisturbed
      <4> QED
        BY <4>2 DEF PartFails
    <3>3. Variant = "MPEGTS" => stream[s].nextSegment # NoSegment
      BY <1>6, StreamsAssumption DEF WriteRotatesSegments, Unstarted, Streams
    <3> QED
      BY <1>3, <3>1, <3>2, <3>3, RotateSegmentsPaths
  <2> QED
    BY <1>3, <2>1, <2>2
<1>7. CASE UNCHANGED stream
  BY <1>3, <1>7
<1> QED
  BY <1>4, <1>5, <1>6, <1>7
     DEF Next, vars, Write, WritePanics, Close, Broadcast, Serve, ServeFile, OpenFile, TestBuffer, UseBuffer, Receive

\* What can be read, in terms of the window.
LEMMA LiveAre ==
    ASSUME NEW st
    PROVE  /\ LiveSegments(st) = SegmentsIn(st.segments)
           /\ LiveParts(st) = PartsIn(st.segments) \union PartsOf(st.nextSegment)
  BY Zenon DEF LiveSegments, SegmentsIn, LiveParts, PartsIn

\* The paths that answer are those of the segments and parts that the playlists
\* list, plus the hint: always in MPEG-TS and fMP4, whatever fails, and in
\* Low-Latency as long as no write fails.
THEOREM PathsCorrect ==
    ASSUME Undisturbed
    PROVE  Spec => []PathsMatchWindow
<1>1. TableInv => PathsMatchWindow
  BY LiveAre DEF TableInv, PathsInv, PathsMatchWindow
<1>2. TableInv /\ [Next]_vars => TableInv'
  BY NextTableInv
<1> QED
  BY <1>1, <1>2, InitTableInv, PTL DEF Spec

--------------------------------------------------------------------------------
(***************************************************************************)
(* Each stream is a live window.                                           *)
(***************************************************************************)

\* What players see of a stream does not change, gains a part, or gains a
\* segment: the steps of a LiveWindow, on the streams before and after.
SameWindow(old, new) ==
    /\ new.segmentDeleteCount = old.segmentDeleteCount
    /\ new.segments = old.segments
    /\ new.nextSegment.parts = old.nextSegment.parts

OneMore(longer, parts) ==
    Len(longer) = Len(parts) + 1 /\ \A i \in 1..Len(parts) : longer[i] = parts[i]

PartAdded(old, new) ==
    /\ new.segmentDeleteCount = old.segmentDeleteCount
    /\ new.segments = old.segments
    /\ OneMore(new.nextSegment.parts, old.nextSegment.parts)

SegmentAdded(old, new) ==
    LET shown == Shown(old)
        n == Len(new.segments)
        number == old.segmentDeleteCount + Len(shown)
        added == new.segments[n]
    IN  /\ new.segmentDeleteCount \in {old.segmentDeleteCount, old.segmentDeleteCount + 1}
        /\ n = number + 1 - new.segmentDeleteCount
        /\ n <= SegmentCount
        /\ \A i \in 1..n - 1 :
            new.segments[i] = shown[i + new.segmentDeleteCount - old.segmentDeleteCount]
        /\ added.id = number
        /\ IF LowLatency THEN OneMore(added.parts, old.nextSegment.parts)
                         ELSE added.parts = old.nextSegment.parts
        /\ new.nextSegment.parts = << >>

LEMMA EndedParts ==
    ASSUME NEW st \in Stream, st.nextPart \in Nat
    PROVE  /\ Ended(st) \in Segment
           /\ Ended(st).id = st.nextSegment.id
           /\ IF LowLatency THEN OneMore(Ended(st).parts, st.nextSegment.parts)
                            ELSE Ended(st) = st.nextSegment
<1>1. st.nextSegment \in Segment /\ st.nextSegment.parts \in Seq(Nat)
  BY DEF Stream, Segment
<1>2. CASE LowLatency
  <2> DEFINE longer == Append(st.nextSegment.parts, st.nextPart)
  <2>1. OneMore(longer, st.nextSegment.parts)
    BY <1>1 DEF OneMore
  <2>2. /\ Ended(st) \in Segment
        /\ Ended(st).parts = longer
        /\ Ended(st).id = st.nextSegment.id
    <3>1. Ended(st) = [st.nextSegment EXCEPT !.parts = longer]
      BY <1>1, <1>2 DEF Ended
    <3>2. longer \in Seq(Nat)
      BY <1>1
    <3> HIDE DEF longer
    <3> QED
      BY <1>1, <3>1, <3>2 DEF Segment
  <2> QED
    BY <1>2, <2>1, <2>2
<1>3. CASE ~LowLatency
  BY <1>1, <1>3 DEF Ended
<1> QED
  BY <1>2, <1>3

\* rotateParts adds a part to a Low-Latency playlist, nothing to the others.
LEMMA RotatePartsShows ==
    ASSUME NEW st \in Stream, st.nextPart # NoPart, LowLatency
    PROVE  PartAdded(st, RotateParts(st, TRUE, "done"))
<1>1. st.nextPart \in Nat /\ ~PartFails("done")
  BY DEF Stream, PartFails
<1> QED
  BY ZenonT(60), <1>1, RotatePartsFields, EndedParts DEF PartAdded

LEMMA ShownNumbered ==
    ASSUME NEW st \in Stream, StreamInv(st)
    PROVE  /\ Shown(st) \in Seq(Segment)
           /\ st.segmentDeleteCount + Len(Shown(st)) = st.nextSegmentID
           /\ Len(Shown(st)) <= SegmentCount
<1>1. CASE LowLatency /\ st.segments = << >>
  BY <1>1, GapsType, CountAssumption DEF Shown, StreamInv, FirstID, LowLatency, Stream
<1>2. CASE ~(LowLatency /\ st.segments = << >>)
  BY <1>2, CountAssumption DEF Shown, StreamInv, Numbered, FirstID, Stream
<1> QED
  BY <1>1, <1>2

\* rotateSegments adds the segment that was being written, under the number
\* that players expect it to have, and removes the oldest one at most.
LEMMA RotateSegmentsShows ==
    ASSUME NEW st \in Stream, StreamInv(st), NEW exit, exit # "segFinalize", ~PartFails(exit),
           Variant # "MPEGTS" => st.nextPart # NoPart,
           Variant = "MPEGTS" => st.nextSegment # NoSegment
    PROVE  SegmentAdded(st, RotateSegments(st, exit))
<1> DEFINE finished == IF Variant = "MPEGTS" THEN st ELSE RotateParts(st, FALSE, exit)
           new == RotateSegments(st, exit)
           shown == Shown(st)
           longer == Append(shown, finished.nextSegment)
           full == Len(longer) > SegmentCount
<1>1. /\ new \in Stream
      /\ new.segments = IF full THEN Tail(longer) ELSE longer
      /\ new.segmentDeleteCount = IF full THEN st.segmentDeleteCount + 1 ELSE st.segmentDeleteCount
      /\ new.nextSegment \in {NoSegment, NewSegment(st.nextSegmentID + 1)}
  BY ZenonT(60), RotateSegmentsFields
<1>2. /\ finished.nextSegment \in Segment
      /\ finished.nextSegment.id = st.nextSegmentID
      /\ IF LowLatency THEN OneMore(finished.nextSegment.parts, st.nextSegment.parts)
                       ELSE finished.nextSegment.parts = st.nextSegment.parts
  <2>1. CASE Variant = "MPEGTS"
    BY <2>1 DEF StreamInv, Numbered, Stream, LowLatency
  <2>2. CASE Variant # "MPEGTS"
    <3>1. finished.nextSegment = Ended(st) /\ st.nextPart \in Nat
      BY <2>2, RotatePartsFields DEF Stream
    <3>2. st.nextSegment.id = st.nextSegmentID
      BY <2>2 DEF StreamInv, Numbered
    <3> HIDE DEF finished
    <3> QED
      BY <3>1, <3>2, EndedParts
  <2> QED
    BY <2>1, <2>2
<1> HIDE DEF finished, new
<1>3. /\ shown \in Seq(Segment) /\ st.segmentDeleteCount \in Nat
      /\ st.segmentDeleteCount + Len(shown) = st.nextSegmentID
      /\ Len(shown) <= SegmentCount
  BY ShownNumbered DEF Stream
<1> HIDE DEF shown
<1>4. /\ longer \in Seq(Segment) /\ Len(shown) \in Nat /\ Len(longer) = Len(shown) + 1
      /\ \A i \in 1..Len(shown) : longer[i] = shown[i]
      /\ longer[Len(shown) + 1] = finished.nextSegment
  BY <1>2, <1>3
<1> HIDE DEF longer
<1>5. new.nextSegment.parts = << >>
  BY <1>1 DEF NoSegment, NewSegment
<1>6. CASE full
  <2>1. /\ Len(new.segments) = Len(shown)
        /\ \A i \in 1..Len(shown) : new.segments[i] = longer[i + 1]
    BY <1>1, <1>4, <1>6
  <2>2. Len(shown) > 0
    BY <1>3, <1>4, <1>6, CountAssumption
  <2>3. new.segments[Len(shown)] = finished.nextSegment
    BY <1>4, <2>1, <2>2
  <2>4. new.segmentDeleteCount = st.segmentDeleteCount + 1
    BY <1>1, <1>6
  <2>5. Len(shown) = st.segmentDeleteCount + Len(shown) + 1 - new.segmentDeleteCount
    BY <1>3, <1>4, <2>4
  <2>6. ASSUME NEW i \in 1..Len(shown) - 1
        PROVE  new.segments[i] = shown[i + new.segmentDeleteCount - st.segmentDeleteCount]
    <3>1. i \in 1..Len(shown) /\ i + 1 \in 1..Len(shown)
      BY <1>4
    <3>2. i + new.segmentDeleteCount - st.segmentDeleteCount = i + 1
      BY <1>3, <2>4
    <3> QED
      BY <1>4, <2>1, <3>1, <3>2
  <2> QED
    BY <1>1, <1>2, <1>3, <1>5, <2>1, <2>3, <2>4, <2>5, <2>6 DEF SegmentAdded, shown, new
<1>7. CASE ~full
  <2>1. new.segments = longer /\ new.segmentDeleteCount = st.segmentDeleteCount
    BY <1>1, <1>7
  <2>2. Len(longer) <= SegmentCount
    BY <1>4, <1>7, CountAssumption
  <2>3. Len(longer) = st.segmentDeleteCount + Len(shown) + 1 - new.segmentDeleteCount
    BY <1>3, <1>4, <2>1
  <2>4. ASSUME NEW i \in 1..Len(longer) - 1
        PROVE  longer[i] = shown[i + new.segmentDeleteCount - st.segmentDeleteCount]
    <3>1. i \in 1..Len(shown) /\ i + new.segmentDeleteCount - st.segmentDeleteCount = i
      BY <1>3, <1>4, <2>1
    <3> QED
      BY <1>4, <3>1
  <2>5. longer[Len(longer)] = finished.nextSegment
    BY <1>4
  <2> QED
    BY <1>1, <1>2, <1>3, <1>5, <2>1, <2>2, <2>3, <2>4, <2>5 DEF SegmentAdded, shown, new
<1> QED
  BY <1>6, <1>7

\* Whatever a step of the muxer does to a stream is a step of a live window,
\* or none.
LEMMA NextShows ==
    ASSUME IdentifiersKept, Undisturbed, WindowInv, TableInv, [Next]_vars, NEW s \in Streams
    PROVE  \/ SameWindow(stream[s], stream'[s])
           \/ PartAdded(stream[s], stream'[s])
           \/ SegmentAdded(stream[s], stream'[s])
<1>1. stream[s] \in Stream /\ StreamInv(stream[s]) /\ PathsInv(stream[s])
      /\ stream \in [Streams -> Stream]
  BY DEF WindowInv, TableInv, RequestInv, TypeOK
<1>2. CASE WriteFirst
  <2>1. stream'[s] \in {stream[s], CreateSegment(stream[s])}
    BY <1>2 DEF WriteFirst, CreateFirstSegment
  <2>2. stream[s].nextSegment.parts = << >>
    <3>1. CASE LowLatency
      <4>1. Leading \in Streams /\ ~Writable(stream[Leading])
        BY <1>2, StreamsAssumption DEF WriteFirst, Unstarted, Writable
      <4>2. stream[s].nextSegment = NoSegment
        BY <3>1, <4>1 DEF TableInv, SteadyInv
      <4> QED
        BY <4>2 DEF NoSegment
    <3>2. CASE ~LowLatency
      BY <1>1, <3>2 DEF PathsInv, FreshParts
    <3> QED
      BY <3>1, <3>2
  <2>3. SameWindow(stream[s], CreateSegment(stream[s]))
    <3> DEFINE new == CreateSegment(stream[s])
    <3>1. /\ new.segments = stream[s].segments
          /\ new.segmentDeleteCount = stream[s].segmentDeleteCount
          /\ new.nextSegment = NewSegment(stream[s].nextSegmentID)
      BY <1>1, CreateSegmentFields
    <3> HIDE DEF new
    <3>2. new.nextSegment.parts = << >>
      BY <3>1 DEF NewSegment
    <3> QED
      BY <2>2, <3>1, <3>2 DEF SameWindow, new
  <2> QED
    BY <2>1, <2>3 DEF SameWindow
<1>3. CASE WriteRotatesParts
  <2>1. LowLatency
    BY <1>3 DEF WriteRotatesParts
  <2>2. stream'[s] = RotateParts(stream[s], TRUE, "done") /\ stream[s].nextPart # NoPart
    BY <1>3, <2>1, SteadyWrites
       DEF TableInv, Undisturbed, WriteRotatesParts, Writable, LowLatency
  <2> QED
    BY <1>1, <2>1, <2>2, RotatePartsShows
<1>4. CASE WriteRotatesSegments
  <2> DEFINE exits == [t \in Streams |-> SegmentExits(stream[t], Faults)]
  <2>1. PICK out \in Outcomes(Leading, exits) :
            stream' = [t \in Streams |->
                        IF out[t] = "untouched" THEN stream[t]
                                                ELSE RotateSegments(stream[t], out[t])]
    BY <1>4 DEF WriteRotatesSegments
  <2>2. CASE out[s] = "untouched"
    BY <2>1, <2>2 DEF SameWindow
  <2>3. CASE out[s] # "untouched"
    <3> DEFINE exit == out[s]
    <3>1. exit \in SegmentExits(stream[s], Faults)
      BY <2>3, OutcomeOfStream
    <3>2. stream'[s] = RotateSegments(stream[s], exit)
      BY <2>1, <2>3
    <3> HIDE DEF exit
    <3>3. exit # "segFinalize"
      BY <3>1 DEF SegmentExits, IdentifiersKept
    <3>4. Variant = "MPEGTS" => stream[s].nextSegment # NoSegment
      BY <1>4, StreamsAssumption DEF WriteRotatesSegments, Unstarted, Streams
    <3>5. CASE ~PartFails(exit)
      <4>1. Variant # "MPEGTS" => stream[s].nextPart # NoPart
        BY <3>1, <3>5 DEF SegmentExits, PartFails
      <4> QED
        BY <1>1, <3>2, <3>3, <3>4, <3>5, <4>1, RotateSegmentsShows
    <3>6. CASE PartFails(exit)
      <4>1. exit \notin {"segFinalize", "initFile", "newFile"} /\ Variant # "MPEGTS"
        BY <3>1, <3>6 DEF SegmentExits, PartFails
      <4>2. stream'[s] = RotateParts(stream[s], FALSE, exit)
        BY <3>2, <3>6, <4>1, Zenon DEF RotateSegments
      <4>3. stream'[s] = EndPart(stream[s])
        BY <3>6, <4>2 DEF RotateParts
      <4> QED
        BY <1>1, <4>3, EndPartFields DEF SameWindow
    <3> QED
      BY <3>5, <3>6
  <2> QED
    BY <2>2, <2>3
<1>5. CASE UNCHANGED stream
  BY <1>5 DEF SameWindow
<1> QED
  BY <1>2, <1>3, <1>4, <1>5
     DEF Next, vars, Write, WritePanics, Close, Broadcast, Serve, ServeFile, OpenFile, TestBuffer, UseBuffer, Receive

\* The three kinds of steps, through the refinement mapping.
LEMMA InitMaps ==
    ASSUME NEW s \in Streams, stream[s] = InitialStream
    PROVE  Window(s)!Init
  BY DEF Window!Init, InitialStream, NoSegment

LEMMA SameWindowMaps ==
    ASSUME NEW s \in Streams, SameWindow(stream[s], stream'[s])
    PROVE  UNCHANGED Window(s)!vars
  BY DEF SameWindow, Window!vars

LEMMA PartAddedMaps ==
    ASSUME NEW s \in Streams, PartAdded(stream[s], stream'[s])
    PROVE  Window(s)!AddPart
  BY DEF PartAdded, OneMore, Window!AddPart, Window!Extends

LEMMA SegmentAddedMaps ==
    ASSUME NEW s \in Streams, SegmentAdded(stream[s], stream'[s]),
           stream[s] \in Stream, stream'[s] \in Stream
    PROVE  Window(s)!AddSegment
<1> DEFINE old == stream[s]
           new == stream'[s]
           shown == IF old.segments = << >>
                    THEN IF LowLatency THEN [i \in 1..GapCount |-> Gap] ELSE << >>
                    ELSE old.segments
           n == Len(new.segments)
           added == new.segments[n]
<1>1. Shown(old) = shown
  BY DEF Shown, Gaps
<1>2. \E k \in {0, 1} : /\ Len(added.parts) = Len(old.nextSegment.parts) + k
                        /\ \A i \in 1..Len(old.nextSegment.parts) :
                            added.parts[i] = old.nextSegment.parts[i]
  <2>1. Len(old.nextSegment.parts) \in Nat
    BY DEF Stream, Segment
  <2>2. CASE ~LowLatency
    <3>1. added.parts = old.nextSegment.parts
      BY <2>2 DEF SegmentAdded
    <3> QED
      BY <2>1, <3>1
  <2>3. CASE LowLatency
    BY <2>3 DEF SegmentAdded, OneMore
  <2> QED
    BY <2>2, <2>3
<1> QED
  BY <1>1, <1>2 DEF SegmentAdded, Window!AddSegment, Window!Extends

\* Each stream implements a live window: unless an MPEG-TS segment cannot be
\* flushed or a write fails in Low-Latency, players never see an entry change,
\* a number reused, or a listed part disappear.
THEOREM StreamsAreWindows ==
    ASSUME IdentifiersKept, Undisturbed
    PROVE  Spec => LiveWindows
<1>1. Init => \A s \in Streams : Window(s)!Init
  BY InitMaps DEF Init
<1>2. WindowInv /\ TableInv /\ [Next]_vars => (WindowInv /\ TableInv)'
  BY NextWindowInv, NextTableInv
<1>3. ASSUME WindowInv, TableInv, [Next]_vars
      PROVE  \A s \in Streams : [Window(s)!Next]_(Window(s)!vars)
  <2> SUFFICES ASSUME NEW s \in Streams
               PROVE  [Window(s)!Next]_(Window(s)!vars)
    OBVIOUS
  <2>1. stream[s] \in Stream /\ stream'[s] \in Stream
    BY <1>3, NextRequestInv DEF WindowInv, RequestInv, TypeOK
  <2>2. CASE SameWindow(stream[s], stream'[s])
    BY <2>2, SameWindowMaps
  <2>3. CASE PartAdded(stream[s], stream'[s])
    BY <2>3, PartAddedMaps DEF Window!Next
  <2>4. CASE SegmentAdded(stream[s], stream'[s])
    BY <2>1, <2>4, SegmentAddedMaps DEF Window!Next
  <2> QED
    BY <1>3, <2>2, <2>3, <2>4, NextShows
<1> QED
  BY <1>1, <1>2, <1>3, InitWindowInv, InitTableInv, PTL DEF Spec, LiveWindows

--------------------------------------------------------------------------------
(***************************************************************************)
(* The streams move together.                                              *)
(***************************************************************************)

Aligned(a, b) ==
    /\ a.nextSegmentID = b.nextSegmentID
    /\ a.segmentDeleteCount = b.segmentDeleteCount
    /\ Len(a.segments) = Len(b.segments)
    /\ Len(a.nextSegment.parts) = Len(b.nextSegment.parts)

LEMMA CreateSegmentAligned ==
    ASSUME NEW a \in Stream, NEW b \in Stream, Aligned(a, b)
    PROVE  Aligned(CreateSegment(a), CreateSegment(b))
<1> DEFINE c == CreateSegment(a)
           d == CreateSegment(b)
<1>1. /\ c.segments = a.segments /\ c.nextSegment = NewSegment(a.nextSegmentID)
      /\ c.nextSegmentID = a.nextSegmentID /\ c.segmentDeleteCount = a.segmentDeleteCount
  BY CreateSegmentFields
<1>2. /\ d.segments = b.segments /\ d.nextSegment = NewSegment(b.nextSegmentID)
      /\ d.nextSegmentID = b.nextSegmentID /\ d.segmentDeleteCount = b.segmentDeleteCount
  BY CreateSegmentFields
<1> HIDE DEF c, d
<1> QED
  BY <1>1, <1>2 DEF Aligned, NewSegment, c, d

LEMMA RotatePartsAligned ==
    ASSUME NEW a \in Stream, NEW b \in Stream, Aligned(a, b), LowLatency,
           a.nextPart # NoPart, b.nextPart # NoPart
    PROVE  Aligned(RotateParts(a, TRUE, "done"), RotateParts(b, TRUE, "done"))
<1> DEFINE c == RotateParts(a, TRUE, "done")
           d == RotateParts(b, TRUE, "done")
<1>1. ~PartFails("done")
  BY DEF PartFails
<1>2. c.nextSegmentID = a.nextSegmentID /\ PartAdded(a, c)
  BY <1>1, RotatePartsFields, RotatePartsShows
<1>3. d.nextSegmentID = b.nextSegmentID /\ PartAdded(b, d)
  BY <1>1, RotatePartsFields, RotatePartsShows
<1> HIDE DEF c, d
<1> QED
  BY <1>2, <1>3 DEF Aligned, PartAdded, OneMore, c, d

LEMMA RotateSegmentsLengths ==
    ASSUME NEW st \in Stream, Variant # "MPEGTS" => st.nextPart # NoPart
    PROVE  LET new == RotateSegments(st, "done")
               n == IF LowLatency /\ Len(st.segments) = 0 THEN GapCount ELSE Len(st.segments)
           IN  /\ new.nextSegmentID = st.nextSegmentID + 1
               /\ new.segmentDeleteCount =
                    IF n + 1 > SegmentCount THEN st.segmentDeleteCount + 1 ELSE st.segmentDeleteCount
               /\ Len(new.segments) = IF n + 1 > SegmentCount THEN n ELSE n + 1
               /\ new.nextSegment.parts = << >>
<1> DEFINE finished == IF Variant = "MPEGTS" THEN st ELSE RotateParts(st, FALSE, "done")
           longer == Append(Shown(st), finished.nextSegment)
           new == RotateSegments(st, "done")
           n == IF LowLatency /\ Len(st.segments) = 0 THEN GapCount ELSE Len(st.segments)
<1>1. ~PartFails("done")
  BY DEF PartFails
<1>2. /\ new.segments = IF Len(longer) > SegmentCount THEN Tail(longer) ELSE longer
      /\ new.segmentDeleteCount =
            IF Len(longer) > SegmentCount THEN st.segmentDeleteCount + 1 ELSE st.segmentDeleteCount
      /\ new.nextSegmentID = st.nextSegmentID + 1
      /\ new.nextSegment = NewSegment(st.nextSegmentID + 1)
  BY ZenonT(60), <1>1, RotateSegmentsFields
<1>3. finished.nextSegment \in Segment
  <2>1. finished \in Stream
    BY <1>1, RotatePartsFields
  <2> QED
    BY <2>1 DEF Stream
<1> HIDE DEF finished, new
<1>4. Shown(st) \in Seq(Segment) /\ Len(Shown(st)) = n /\ n \in Nat
  BY GapsType, CountAssumption DEF Shown, Stream
<1> HIDE DEF n
<1>5. longer \in Seq(Segment) /\ Len(longer) = n + 1 /\ Len(Tail(longer)) = n
  BY <1>3, <1>4
<1> HIDE DEF longer
<1>6. new.nextSegment.parts = << >>
  BY <1>2 DEF NewSegment
<1> QED
  BY <1>2, <1>5, <1>6 DEF n, new

LEMMA RotateSegmentsAligned ==
    ASSUME NEW a \in Stream, NEW b \in Stream, Aligned(a, b),
           Variant # "MPEGTS" => a.nextPart # NoPart /\ b.nextPart # NoPart
    PROVE  Aligned(RotateSegments(a, "done"), RotateSegments(b, "done"))
<1> DEFINE c == RotateSegments(a, "done")
           d == RotateSegments(b, "done")
           n == IF LowLatency /\ Len(a.segments) = 0 THEN GapCount ELSE Len(a.segments)
<1>1. /\ c.nextSegmentID = a.nextSegmentID + 1
      /\ c.segmentDeleteCount =
            IF n + 1 > SegmentCount THEN a.segmentDeleteCount + 1 ELSE a.segmentDeleteCount
      /\ Len(c.segments) = IF n + 1 > SegmentCount THEN n ELSE n + 1
      /\ c.nextSegment.parts = << >>
  BY RotateSegmentsLengths
<1>2. /\ d.nextSegmentID = b.nextSegmentID + 1
      /\ d.segmentDeleteCount =
            IF n + 1 > SegmentCount THEN b.segmentDeleteCount + 1 ELSE b.segmentDeleteCount
      /\ Len(d.segments) = IF n + 1 > SegmentCount THEN n ELSE n + 1
      /\ d.nextSegment.parts = << >>
  BY RotateSegmentsLengths DEF Aligned
<1> HIDE DEF c, d, n
<1> QED
  BY <1>1, <1>2 DEF Aligned, c, d

AlignedInv == SteadyInv /\ \A s, t \in Streams : Aligned(stream[s], stream[t])

LEMMA NextAlignedInv ==
    ASSUME Faults = {}, AlignedInv, [Next]_vars
    PROVE  AlignedInv'
<1>1. SteadyInv'
  BY NextSteadyInv DEF AlignedInv
<1>2. \A s \in Streams : stream[s] \in Stream
  BY DEF AlignedInv, SteadyInv, WindowInv, RequestInv, TypeOK
<1> SUFFICES ASSUME NEW s \in Streams, NEW t \in Streams
             PROVE  Aligned(stream'[s], stream'[t])
  BY <1>1 DEF AlignedInv
<1>3. Aligned(stream[s], stream[t])
  BY DEF AlignedInv
<1>4. CASE WriteFirst
  BY <1>2, <1>3, <1>4, SteadyWrites, CreateSegmentAligned DEF AlignedInv
<1>5. CASE WriteRotatesParts
  <2>1. LowLatency /\ stream[s].nextPart # NoPart /\ stream[t].nextPart # NoPart
    BY <1>5, SteadyWrites DEF AlignedInv, WriteRotatesParts, Writable, LowLatency
  <2> QED
    BY <1>2, <1>3, <1>5, <2>1, SteadyWrites, RotatePartsAligned DEF AlignedInv
<1>6. CASE WriteRotatesSegments
  <2>1. Variant # "MPEGTS" => stream[s].nextPart # NoPart /\ stream[t].nextPart # NoPart
    BY <1>6, SteadyWrites DEF AlignedInv, WriteRotatesSegments, Writable
  <2> QED
    BY <1>2, <1>3, <1>6, <2>1, SteadyWrites, RotateSegmentsAligned DEF AlignedInv
<1>7. CASE UNCHANGED stream
  BY <1>3, <1>7
<1> QED
  BY <1>4, <1>5, <1>6, <1>7
     DEF Next, vars, Write, WritePanics, Close, Broadcast, Serve, ServeFile, OpenFile, TestBuffer, UseBuffer, Receive

\* As long as no write fails, the playlists of all streams are at the same
\* segment and part whenever the mutex is free.
THEOREM StreamsStayAligned ==
    ASSUME Faults = {}
    PROVE  Spec => []StreamsAligned
<1>1. Init => AlignedInv
  BY InitSteadyInv DEF Init, AlignedInv, Aligned
<1>2. AlignedInv /\ [Next]_vars => AlignedInv'
  BY NextAlignedInv
<1>3. AlignedInv => StreamsAligned
  BY DEF AlignedInv, Aligned, StreamsAligned
<1> QED
  BY <1>1, <1>2, <1>3, PTL DEF Spec

--------------------------------------------------------------------------------
(***************************************************************************)
(* Blocking requests.                                                      *)
(***************************************************************************)

\* Every segment of a window comes after the gaps, and those of a Low-Latency
\* stream have parts.
Filled(st) ==
    \A i \in 1..Len(st.segments) :
        st.segments[i].kind = "segment" =>
            st.segments[i].id >= FirstID /\ (LowLatency => st.segments[i].parts # << >>)

FilledInv(st) == st.nextSegmentID >= FirstID /\ Filled(st)

LEMMA RotateSegmentsFilled ==
    ASSUME NEW st \in Stream, StreamInv(st), FilledInv(st),
           Variant # "MPEGTS" => st.nextPart # NoPart,
           Variant = "MPEGTS" => st.nextSegment # NoSegment
    PROVE  FilledInv(RotateSegments(st, "done"))
<1> DEFINE new == RotateSegments(st, "done")
           shown == Shown(st)
           n == Len(new.segments)
           d == new.segmentDeleteCount - st.segmentDeleteCount
<1>1. ~PartFails("done") /\ FirstID \in Nat
  BY CountAssumption DEF PartFails, FirstID
<1>2. new.nextSegmentID = st.nextSegmentID + 1 /\ new \in Stream
  BY <1>1, RotateSegmentsFields
<1>3. SegmentAdded(st, new)
  BY <1>1, RotateSegmentsShows
<1>4. /\ shown \in Seq(Segment) /\ Len(shown) \in Nat
      /\ st.segmentDeleteCount + Len(shown) = st.nextSegmentID
      /\ st.segmentDeleteCount \in Nat /\ st.nextSegmentID \in Nat
      /\ st.nextSegmentID >= FirstID
  BY ShownNumbered DEF Stream, FilledInv
<1>5. \A j \in 1..Len(shown) :
        shown[j].kind = "segment" =>
            shown[j].id >= FirstID /\ (LowLatency => shown[j].parts # << >>)
  <2>1. CASE LowLatency /\ st.segments = << >>
    BY <2>1, GapsType, CountAssumption DEF Shown, Gaps, Gap
  <2>2. CASE ~(LowLatency /\ st.segments = << >>)
    BY <2>2 DEF Shown, FilledInv, Filled
  <2> QED
    BY <2>1, <2>2
<1> HIDE DEF new, shown
<1>6. /\ d \in {0, 1} /\ n = Len(shown) + 1 - d
      /\ \A i \in 1..n - 1 : new.segments[i] = shown[i + d]
      /\ new.segments[n].id = st.nextSegmentID
      /\ LowLatency => OneMore(new.segments[n].parts, st.nextSegment.parts)
  <2>1. /\ new.segmentDeleteCount \in {st.segmentDeleteCount, st.segmentDeleteCount + 1}
        /\ n = st.segmentDeleteCount + Len(shown) + 1 - new.segmentDeleteCount
        /\ \A i \in 1..n - 1 :
              new.segments[i] = shown[i + new.segmentDeleteCount - st.segmentDeleteCount]
        /\ new.segments[n].id = st.nextSegmentID
        /\ LowLatency => OneMore(new.segments[n].parts, st.nextSegment.parts)
    BY <1>3, <1>4 DEF SegmentAdded, shown
  <2>2. d \in {0, 1} /\ n = Len(shown) + 1 - d
    BY <1>4, <2>1
  <2>3. \A i \in 1..n - 1 : i + new.segmentDeleteCount - st.segmentDeleteCount = i + d
    BY <1>4, <2>1
  <2> QED
    BY <2>1, <2>2, <2>3
<1> HIDE DEF d
<1>7. ASSUME NEW i \in 1..n, new.segments[i].kind = "segment"
      PROVE  new.segments[i].id >= FirstID /\ (LowLatency => new.segments[i].parts # << >>)
  <2>1. CASE i = n
    <3>1. ASSUME LowLatency PROVE new.segments[n].parts # << >>
      <4>1. Len(st.nextSegment.parts) \in Nat
        BY DEF Stream, Segment
      <4>2. Len(new.segments[n].parts) > 0
        BY <1>6, <3>1, <4>1 DEF OneMore
      <4> QED
        BY <4>2
    <3> QED
      BY <1>4, <1>6, <2>1, <3>1
  <2>2. CASE i # n
    <3>1. i \in 1..n - 1 /\ i + d \in 1..Len(shown)
      BY <1>4, <1>6, <2>2
    <3> QED
      BY <1>5, <1>6, <1>7, <3>1
  <2> QED
    BY <2>1, <2>2
<1>8. new.nextSegmentID >= FirstID
  BY <1>1, <1>2, <1>4
<1> QED
  BY <1>7, <1>8 DEF FilledInv, Filled, new

BlockingInv == WakeupInv /\ \A s \in Streams : FilledInv(stream[s])

LEMMA NextBlockingInv ==
    ASSUME Faults = {}, BlockingInv, [Next]_vars
    PROVE  BlockingInv'
<1>1. WakeupInv' /\ SteadyInv
  BY NextWakeupInv DEF BlockingInv, WakeupInv
<1>2. \A s \in Streams : stream[s] \in Stream /\ StreamInv(stream[s]) /\ FilledInv(stream[s])
  BY <1>1 DEF BlockingInv, SteadyInv, WindowInv, RequestInv, TypeOK
<1> SUFFICES ASSUME NEW s \in Streams
             PROVE  FilledInv(stream'[s])
  BY <1>1 DEF BlockingInv
<1>3. CASE WriteFirst
  BY <1>1, <1>2, <1>3, SteadyWrites, CreateSegmentFields DEF FilledInv, Filled
<1>4. CASE WriteRotatesParts
  <2>1. stream[s].nextPart # NoPart /\ ~PartFails("done")
    BY <1>1, <1>4, SteadyWrites DEF WriteRotatesParts, Writable, LowLatency, PartFails
  <2>2. stream'[s] = RotateParts(stream[s], TRUE, "done")
    BY <1>1, <1>4, SteadyWrites
  <2>3. /\ stream'[s].segments = stream[s].segments
        /\ stream'[s].nextSegmentID = stream[s].nextSegmentID
    <3> DEFINE new == RotateParts(stream[s], TRUE, "done")
    <3>1. new.segments = stream[s].segments /\ new.nextSegmentID = stream[s].nextSegmentID
      BY <1>2, <2>1, RotatePartsFields
    <3> HIDE DEF new
    <3> QED
      BY <2>2, <3>1 DEF new
  <2> QED
    BY <1>2, <2>3 DEF FilledInv, Filled
<1>5. CASE WriteRotatesSegments
  <2>1. Writable(stream[s])
    BY <1>1, <1>5, SteadyWrites DEF WriteRotatesSegments
  <2> QED
    BY <1>1, <1>2, <1>5, <2>1, SteadyWrites, RotateSegmentsFilled DEF Writable
<1>6. CASE UNCHANGED stream
  BY <1>2, <1>6
<1> QED
  BY <1>3, <1>4, <1>5, <1>6
     DEF Next, vars, Write, WritePanics, Close, Broadcast, Serve, ServeFile, OpenFile, TestBuffer, UseBuffer, Receive

\* A request that hasPart and the bounds let wait asks for what is to come, for a gap,
\* or for a part behind the end of the last segment.
LEMMA WaitsForFuture ==
    ASSUME NEW st \in Stream, StreamInv(st), FilledInv(st), LowLatency,
           NEW msn \in Nat, NEW part \in Nat,
           ReloadAnswer(st, msn, part) = "wait"
    PROVE  LET i == msn - st.segmentDeleteCount + 1
           IN  \/ msn >= st.nextSegmentID /\ ~Shows(st, msn, part)
               \/ i \in 1..Len(st.segments) /\ st.segments[i].kind = "gap"
               \/ PastEnd(st, msn, part)
<1> DEFINE i == msn - st.segmentDeleteCount + 1
           n == Len(st.segments)
<1>1. /\ ~MsnRefused(st, msn)
      /\ hasContent(st) => ~hasPart(st, msn, part)
  BY DEF ReloadAnswer, Generated
<1>2. /\ n \in Nat /\ st.segmentDeleteCount \in Nat /\ st.nextSegmentID \in Nat
      /\ st.segments \in Seq(Segment) /\ Len(st.nextSegment.parts) \in Nat
  BY DEF Stream, Segment
<1>3. msn <= st.nextSegmentID + 1 /\ msn >= st.nextSegmentID - (n - 1)
  BY <1>1, <1>2 DEF MsnRefused
<1>4. CASE ~hasContent(st)
  <2>1. n = 0
    BY <1>2, <1>4 DEF hasContent, LowLatency
  <2>2. st.segmentDeleteCount = 0 /\ st.nextSegmentID = GapCount
    BY <2>1, <1>2 DEF StreamInv, FirstID
  <2>3. msn = GapCount + 1
    BY <1>3, <2>1, <2>2, CountAssumption
  <2>4. ~Shows(st, msn, part)
    BY <2>1, <2>2, <2>3, CountAssumption DEF Shows
  <2> QED
    BY <2>2, <2>3, <2>4, CountAssumption
<1>5. CASE hasContent(st) /\ msn >= st.nextSegmentID
  <2>1. n > 0 /\ st.nextSegmentID = st.segmentDeleteCount + n
    BY <1>2, <1>5 DEF hasContent, LowLatency, StreamInv, Numbered
  <2>2. i \notin 1..n /\ (i = n + 1 => msn = st.nextSegmentID)
    BY <1>2, <1>5, <2>1
  <2>3. i = n + 1 => ~(part < Len(st.nextSegment.parts))
    BY <1>1, <1>5, <2>2 DEF hasPart
  <2> QED
    BY <1>5, <2>2, <2>3 DEF Shows
<1>6. CASE hasContent(st) /\ msn < st.nextSegmentID
  <2>1. n > 0 /\ st.nextSegmentID = st.segmentDeleteCount + n
    BY <1>2, <1>6 DEF hasContent, LowLatency, StreamInv, Numbered
  <2>2. /\ i \in 1..n /\ st.segmentDeleteCount + i - 1 = msn
        /\ i # n => i + 1 \in 1..n /\ st.segmentDeleteCount + (i + 1) - 1 = msn + 1
    <3>1. ASSUME NEW dc \in Nat, NEW k \in Nat, msn >= dc + k - (k - 1), msn < dc + k
          PROVE  LET j == msn - dc + 1
                 IN  /\ j \in 1..k /\ dc + j - 1 = msn
                     /\ j # k => j + 1 \in 1..k /\ dc + (j + 1) - 1 = msn + 1
      BY <3>1
    <3>2. msn >= st.segmentDeleteCount + n - (n - 1) /\ msn < st.segmentDeleteCount + n
      BY <1>2, <1>3, <1>6, <2>1
    <3> QED
      BY <1>2, <3>1, <3>2
  <2> HIDE DEF i
  <2>3. \A j \in 1..n : /\ st.segments[j] \in Segment
                         /\ st.segments[j].kind \in {"segment", "gap"}
                         /\ Len(st.segments[j].parts) \in Nat
    <3> SUFFICES ASSUME NEW j \in 1..n
                 PROVE  /\ st.segments[j] \in Segment
                        /\ st.segments[j].kind \in {"segment", "gap"}
                        /\ Len(st.segments[j].parts) \in Nat
      OBVIOUS
    <3>1. st.segments[j] \in Segment
      BY <1>2
    <3>2. st.segments[j].kind # "none"
      BY DEF StreamInv, Numbered
    <3> QED
      BY <3>1, <3>2 DEF Segment
  <2>4. CASE st.segments[i].kind = "gap"
    BY <2>2, <2>4 DEF i
  <2>5. CASE st.segments[i].kind = "segment"
    <3>1. IsSegment(st, i, msn) /\ msn >= FirstID
      BY <2>2, <2>5 DEF StreamInv, Numbered, IsSegment, FilledInv, Filled
    <3>2. /\ ~(part < Len(st.segments[i].parts))
          /\ ~(IsSegment(st, i + 1, msn + 1) /\ st.segments[i + 1].parts # << >>)
      BY <1>1, <1>2, <1>6, <2>2, <3>1 DEF hasPart
    <3>3. CASE i = n
      <4>1. Len(st.segments[i].parts) \in Nat
        BY <2>2, <2>3
      <4>2. part >= Len(st.segments[i].parts)
        BY <3>2, <4>1
      <4> QED
        BY <2>1, <2>5, <3>3, <4>2 DEF i, PastEnd
    <3>4. CASE i # n
      <4>1. i + 1 \in 1..n /\ st.segmentDeleteCount + (i + 1) - 1 = msn + 1
        BY <2>2, <3>4
      <4>2. st.segments[i + 1].kind \in {"segment", "gap"}
        BY <2>3, <4>1
      <4>3. st.segments[i + 1].kind # "gap"
        <5>1. FirstID = GapCount /\ GapCount \in Nat
          BY CountAssumption DEF FirstID
        <5>2. ~(st.segmentDeleteCount + (i + 1) <= GapCount)
          BY <1>2, <3>1, <4>1, <5>1
        <5> QED
          BY <4>1, <5>2 DEF StreamInv, Numbered
      <4>4. st.segments[i + 1].id = msn + 1 /\ st.segments[i + 1].parts # << >>
        BY <4>1, <4>2, <4>3 DEF StreamInv, Numbered, FilledInv, Filled
      <4> QED
        BY <3>2, <4>1, <4>2, <4>3, <4>4 DEF IsSegment
    <3> QED
      BY <3>3, <3>4
  <2> QED
    BY <2>2, <2>3, <2>4, <2>5 DEF i
<1> QED
  BY <1>2, <1>4, <1>5, <1>6

\* As long as no write fails, a blocking request sleeps only for a part that is not
\* listed yet, for a gap, or behind the end of the last segment, where hasPart lets it
\* sleep for longer than it should (PastEndIsNextPart in Muxer).
THEOREM BlockedRequestsWait ==
    ASSUME Faults = {}
    PROVE  Spec => []BlockedOnFuture
<1>1. Init => BlockingInv
  <2>1. FilledInv(InitialStream)
    BY CountAssumption DEF FilledInv, Filled, InitialStream, FirstID
  <2> QED
    BY <2>1, InitWakeupInv DEF Init, BlockingInv
<1>2. BlockingInv /\ [Next]_vars => BlockingInv'
  BY NextBlockingInv
<1>3. BlockingInv => BlockedOnFuture
  <2> SUFFICES ASSUME BlockingInv, owner \in {"writing", "closed"}, NEW r \in Requests,
                      req[r].pc = "waiting", req[r].handler = "reload", LowLatency
               PROVE  LET st == stream[req[r].target.stream]
                          msn == req[r].target.id
                          part == req[r].target.part
                          i == msn - st.segmentDeleteCount + 1
                      IN  \/ msn >= st.nextSegmentID /\ ~Shows(st, msn, part)
                          \/ i \in 1..Len(st.segments) /\ st.segments[i].kind = "gap"
                          \/ PastEnd(st, msn, part)
    BY Zenon DEF BlockedOnFuture, SleepsInReload
  <2>1. req[r].target \in Target
    BY DEF BlockingInv, WakeupInv, SteadyInv, WindowInv, RequestInv, TypeOK, Request
  <2> DEFINE t == req[r].target
             st == stream[t.stream]
  <2>2. t.id \in Nat /\ t.part \in Nat /\ t.stream \in Streams
    BY <2>1 DEF Target
  <2>3. st \in Stream /\ StreamInv(st) /\ FilledInv(st)
    BY <2>2 DEF BlockingInv, WakeupInv, SteadyInv, WindowInv, RequestInv, TypeOK
  <2>4. ReloadAnswer(st, t.id, t.part) = "wait"
    BY DEF BlockingInv, WakeupInv, NoLostWakeup, Answer
  <2> QED
    BY <2>2, <2>3, <2>4, WaitsForFuture
<1> QED
  BY <1>1, <1>2, <1>3, PTL DEF Spec

LEMMA ShowsAt ==
    ASSUME NEW st, NEW msn, NEW part, NEW i \in 1..Len(st.segments),
           msn - st.segmentDeleteCount + 1 = i, part < Len(st.segments[i].parts)
    PROVE  Shows(st, msn, part)
  BY DEF Shows

\* A part that hasPart finds is where players count it to be.
LEMMA AnsweredIsShown ==
    ASSUME NEW st \in Stream, StreamInv(st), LowLatency,
           NEW msn \in Nat, NEW part \in Nat,
           ReloadAnswer(st, msn, part) = "200"
    PROVE  \/ Shows(st, msn, part)
           \/ msn < st.nextSegmentID /\ Shows(st, msn + 1, 0)
<1> DEFINE n == Len(st.segments)
<1>1. hasContent(st) /\ hasPart(st, msn, part)
  BY DEF ReloadAnswer
<1>2. /\ n \in Nat /\ st.segmentDeleteCount \in Nat /\ st.segments \in Seq(Segment)
      /\ n > 0 /\ st.nextSegmentID = st.segmentDeleteCount + n
  BY <1>1 DEF Stream, hasContent, LowLatency, StreamInv, Numbered
<1>3. CASE msn = st.nextSegmentID
  <2>1. msn - st.segmentDeleteCount + 1 = n + 1
    BY <1>2, <1>3
  <2> QED
    BY <1>1, <1>3, <2>1 DEF hasPart, Shows
<1>4. CASE msn # st.nextSegmentID
  <2>1. PICK i \in 1..n :
            /\ IsSegment(st, i, msn)
            /\ \/ part < Len(st.segments[i].parts)
               \/ IsSegment(st, i + 1, msn + 1) /\ st.segments[i + 1].parts # << >>
    BY <1>1, <1>4 DEF hasPart
  <2>2. /\ msn - st.segmentDeleteCount + 1 = i
        /\ msn < st.nextSegmentID
    <3>1. msn = st.segmentDeleteCount + i - 1
      BY <2>1 DEF IsSegment, StreamInv, Numbered
    <3> QED
      BY <1>2, <3>1
  <2>3. CASE part < Len(st.segments[i].parts)
    BY <2>2, <2>3 DEF Shows
  <2>4. CASE IsSegment(st, i + 1, msn + 1) /\ st.segments[i + 1].parts # << >>
    <3>1. i + 1 \in 1..n
      BY <2>4 DEF IsSegment
    <3>2. st.segments[i + 1] \in Segment
      BY <1>2, <3>1
    <3>3. 0 < Len(st.segments[i + 1].parts)
      BY <2>4, <3>2 DEF Segment
    <3>4. Shows(st, msn + 1, 0)
      <4> DEFINE next == msn + 1
                 k == i + 1
                 first == 0
      <4>1. next - st.segmentDeleteCount + 1 = k
        BY <1>2, <2>2
      <4>2. k \in 1..Len(st.segments) /\ first < Len(st.segments[k].parts)
        BY <3>1, <3>3
      <4> HIDE DEF next, k, first
      <4>3. Shows(st, next, first)
        BY <4>1, <4>2, ShowsAt
      <4> QED
        BY <4>3 DEF next, first
    <3> QED
      BY <2>2, <3>4
  <2> QED
    BY <2>1, <2>3, <2>4
<1> QED
  BY <1>3, <1>4

\* What a request is between two of its steps.
PromiseOK(q) ==
    /\ q.pc = "idle" => q.handler = "none"
    /\ q.pc = "reading" => q.handler \in {"segment", "part"}
    /\ q.target.kind = "part" => q.handler \in {"none", "part", "hint"}

PromiseInv == RequestInv /\ \A r \in Requests : PromiseOK(req[r])

LEMMA InitPromiseInv == Init => PromiseInv
  BY InitRequestInv DEF Init, PromiseInv, PromiseOK, Idle

LEMMA NextPromiseInv == PromiseInv /\ [Next]_vars => PromiseInv'
<1> SUFFICES ASSUME PromiseInv, [Next]_vars
             PROVE  PromiseInv'
  OBVIOUS
<1>1. RequestInv'
  BY NextRequestInv DEF PromiseInv
<1>2. \A r \in Requests : req[r] \in Request /\ HandlerOK(req[r]) /\ PromiseOK(req[r])
  BY DEF PromiseInv, RequestInv, TypeOK
<1>3. req \in [Requests -> Request]
  BY DEF PromiseInv, RequestInv, TypeOK
<1> SUFFICES ASSUME NEW r \in Requests
             PROVE  PromiseOK(req'[r])
  BY <1>1 DEF PromiseInv
<1>4. ASSUME NEW q \in Requests, Serve(q)
      PROVE  PromiseOK(req'[r])
  <2>1. CASE Answer(q) = "part"
    <3>1. req' = [req EXCEPT ![q].handler = "part"] /\ req[q].pc = "ready"
      BY <1>4, <2>1 DEF Serve
    <3> QED
      BY <1>2, <1>3, <3>1 DEF PromiseOK, Request
  <2>2. CASE Answer(q) # "part"
    <3>1. \/ req' = [req EXCEPT ![q].pc = "waiting"]
          \/ \E status : req' = [req EXCEPT ![q].pc = "done", ![q].status = status]
      BY <1>4, <2>2 DEF Serve, Done
    <3> QED
      BY <1>2, <1>3, <3>1 DEF PromiseOK, Request
  <2> QED
    BY <2>1, <2>2
<1>5. ASSUME NEW q \in Requests, ServeFile(q)
      PROVE  PromiseOK(req'[r])
  <2>1. CASE TestBuffer(q)
    <3>1. req[q].handler \in {"segment", "part"} /\ req' = [req EXCEPT ![q].pc = "reading"]
      BY <2>1 DEF TestBuffer, NeedsMutex
    <3> QED
      BY <1>2, <1>3, <3>1 DEF PromiseOK, Request
  <2>2. CASE OpenFile(q) \/ UseBuffer(q)
    <3>1. \E status : req' = [req EXCEPT ![q].pc = "done", ![q].status = status]
      BY <2>2 DEF OpenFile, UseBuffer, Done
    <3> QED
      BY <1>2, <1>3, <3>1 DEF PromiseOK, Request
  <2> QED
    BY <1>5, <2>1, <2>2 DEF ServeFile
<1>6. ASSUME NEW q \in Requests, NEW t \in Targets, Receive(q, t)
      PROVE  PromiseOK(req'[r])
  <2>1. t.kind = "part" => HandlerAt(t) \in {"none", "part", "hint"}
    BY DEF HandlerAt
  <2> QED
    BY <1>2, <1>3, <1>6, <2>1 DEF Receive, PromiseOK, Request
<1>7. CASE Broadcast
  BY <1>2, <1>3, <1>7 DEF Broadcast, PromiseOK, Request
<1>8. CASE UNCHANGED req
  BY <1>2, <1>8
<1> QED
  BY <1>4, <1>5, <1>6, <1>7, <1>8
     DEF Next, vars, Write, WritePanics, Close, WriteFirst, WriteRotatesParts, WriteRotatesSegments

\* A step answers with a playlist only in the loop of a blocking handler.
LEMMA AnsweredByServe ==
    ASSUME PromiseInv, [Next]_vars, NEW r \in Requests, NEW status, Answered(r, status)
    PROVE  \/ Serve(r)
           \/ ServeFile(r) /\ req[r].handler \in {"segment", "part"}
           \/ status = "empty" /\ req[r].handler = "none"
<1>1. req \in [Requests -> Request] /\ PromiseOK(req[r])
  BY DEF PromiseInv, RequestInv, TypeOK
<1>2. req[r].pc # "done" /\ req'[r].pc = "done" /\ req'[r].status = status
  BY DEF Answered
<1>3. ASSUME NEW q \in Requests, Serve(q) \/ ServeFile(q) \/ \E t \in Targets : Receive(q, t)
      PROVE  q = r
  <2>1. \A p \in Requests \ {q} : req'[p] = req[p]
    BY <1>1, <1>3 DEF Serve, ServeFile, OpenFile, TestBuffer, UseBuffer, Receive, Done
  <2> QED
    BY <1>2, <2>1
<1>4. ~Broadcast
  BY <1>1, <1>2 DEF Broadcast, Request
<1>5. ~UNCHANGED req
  BY <1>2
<1>6. ServeFile(r) => req[r].handler \in {"segment", "part"}
  BY <1>1 DEF ServeFile, OpenFile, TestBuffer, UseBuffer, NeedsMutex, PromiseOK
<1>7. ASSUME NEW t \in Targets, Receive(r, t)
      PROVE  status = "empty" /\ req[r].handler = "none"
  <2>1. req[r].pc = "idle"
    BY <1>2, <1>7 DEF Receive
  <2> QED
    BY <1>1, <1>2, <1>7, <2>1 DEF Receive, PromiseOK
<1> QED
  BY <1>3, <1>4, <1>5, <1>6, <1>7
     DEF Next, vars, Write, WritePanics, Close, WriteFirst, WriteRotatesParts, WriteRotatesSegments

\* Whatever fails, a blocking request that is answered with a playlist finds
\* the part it has asked for in it.
THEOREM ReloadsHoldTheirPart == Spec => ReloadHoldsPart
<1> DEFINE Inv == PromiseInv /\ (LowLatency => WindowInv)
           Found == \A r \in Requests :
                      LET t == req[r].target
                          st == stream[t.stream]
                      IN  Answered(r, "200") /\ req[r].handler = "reload" /\ LowLatency =>
                              \/ Shows(st, t.id, t.part)
                              \/ t.id < st.nextSegmentID /\ Shows(st, t.id + 1, 0)
<1>1. Init => Inv
  BY InitPromiseInv, InitWindowInv
<1>2. Inv /\ [Next]_vars => Inv'
  BY NextPromiseInv, NextWindowInv DEF IdentifiersKept, LowLatency
<1>3. ASSUME Inv, [Next]_vars
      PROVE  Found
  <2> SUFFICES ASSUME NEW r \in Requests, Answered(r, "200"), req[r].handler = "reload", LowLatency
               PROVE  LET t == req[r].target
                          st == stream[t.stream]
                      IN  \/ Shows(st, t.id, t.part)
                          \/ t.id < st.nextSegmentID /\ Shows(st, t.id + 1, 0)
    BY Zenon
  <2> DEFINE t == req[r].target
             st == stream[t.stream]
  <2>1. req \in [Requests -> Request] /\ t.id \in Nat /\ t.part \in Nat /\ t.stream \in Streams
    BY <1>3 DEF PromiseInv, RequestInv, TypeOK, Request, Target
  <2>2. st \in Stream /\ StreamInv(st)
    BY <1>3, <2>1 DEF WindowInv, RequestInv, TypeOK
  <2>3. Serve(r)
    BY <1>3, AnsweredByServe
  <2>4. Answer(r) = ReloadAnswer(st, t.id, t.part)
    BY DEF Answer
  <2>5. ReloadAnswer(st, t.id, t.part) \in {"200", "400", "500", "panic", "wait"}
    BY DEF ReloadAnswer, Generated
  <2>6. ReloadAnswer(st, t.id, t.part) = "200"
    BY ZenonT(60), <2>1, <2>3, <2>4, <2>5 DEF Serve, Answered, Done, Request
  <2> QED
    BY <2>1, <2>2, <2>6, AnsweredIsShown
<1> QED
  BY <1>1, <1>2, <1>3, PTL DEF Spec, ReloadHoldsPart

--------------------------------------------------------------------------------
(***************************************************************************)
(* The preload hint.                                                       *)
(***************************************************************************)

\* The identifiers of parts only grow, wherever a rotation stops.
LEMMA RotatePartsGrows ==
    ASSUME NEW st \in Stream, NEW createNew \in BOOLEAN, NEW exit,
           ~PartFails(exit) => st.nextPart # NoPart
    PROVE  RotateParts(st, createNew, exit).nextPartID >= st.nextPartID
<1>1. st.nextPartID \in Nat
  BY DEF Stream
<1>2. CASE PartFails(exit)
  <2>1. RotateParts(st, createNew, exit) = EndPart(st)
    BY <1>2 DEF RotateParts
  <2>2. EndPart(st).nextPartID = st.nextPartID + 1
    BY EndPartFields
  <2> QED
    BY <1>1, <2>1, <2>2
<1>3. CASE ~PartFails(exit)
  <2>1. RotateParts(st, createNew, exit).nextPartID = st.nextPartID + 1
    BY <1>3, RotatePartsFields
  <2> QED
    BY <1>1, <2>1
<1> QED
  BY <1>2, <1>3

LEMMA RotateSegmentsGrows ==
    ASSUME NEW st \in Stream, NEW faults, NEW exit \in SegmentExits(st, faults)
    PROVE  RotateSegments(st, exit).nextPartID >= st.nextPartID
<1> DEFINE finished == IF Variant = "MPEGTS" THEN st ELSE RotateParts(st, FALSE, exit)
           new == RotateSegments(st, exit)
<1>1. Variant # "MPEGTS" /\ ~PartFails(exit) => st.nextPart # NoPart
  BY DEF SegmentExits, PartFails
<1>2. finished \in Stream /\ finished.nextPartID >= st.nextPartID
  <2>1. CASE Variant = "MPEGTS"
    BY <2>1 DEF Stream
  <2>2. CASE Variant # "MPEGTS"
    BY <1>1, <2>2, RotatePartsGrows, RotatePartsType
  <2> QED
    BY <2>1, <2>2
<1>3. new.nextPartID = finished.nextPartID
  <2>1. CASE PartFails(exit)
    <3>1. exit \notin {"segFinalize", "initFile", "newFile"}
      BY <2>1 DEF PartFails
    <3> QED
      BY <2>1, <3>1, Zenon DEF RotateSegments
  <2>2. CASE exit = "segFinalize"
    <3>1. ~PartFails(exit) /\ Variant = "MPEGTS"
      BY <2>2 DEF PartFails, SegmentExits
    <3>2. new = [st EXCEPT !.nextSegmentID = @ + 1, !.nextSegment = NoSegment]
      BY <2>2, <3>1, Zenon DEF RotateSegments
    <3> HIDE DEF new
    <3>3. new.nextPartID = st.nextPartID
      BY <3>2 DEF Stream
    <3> QED
      BY <3>1, <3>3
  <2>3. CASE ~PartFails(exit) /\ exit # "segFinalize"
    BY <1>1, <2>3, RotateSegmentsFields
  <2> QED
    BY <2>1, <2>2, <2>3
<1> QED
  BY <1>2, <1>3

LEMMA PartIDsGrow ==
    ASSUME RequestInv, [Next]_vars, NEW s \in Streams
    PROVE  stream'[s].nextPartID >= stream[s].nextPartID
<1>1. stream[s] \in Stream /\ stream \in [Streams -> Stream] /\ stream[s].nextPartID \in Nat
  BY DEF RequestInv, TypeOK, Stream
<1>2. CASE WriteFirst
  <2>1. stream'[s] \in {stream[s], CreateSegment(stream[s])}
    BY <1>2 DEF WriteFirst, CreateFirstSegment
  <2>2. CreateSegment(stream[s]).nextPartID = stream[s].nextPartID
    BY <1>1, CreateSegmentFields
  <2> QED
    BY <1>1, <2>1, <2>2
<1>3. CASE WriteRotatesParts
  <2> DEFINE exits == [t \in Streams |-> PartExits(stream[t], Faults)]
  <2>1. PICK out \in Outcomes(Leading, exits) :
            stream' = [t \in Streams |->
                        IF out[t] = "untouched" THEN stream[t]
                                                ELSE RotateParts(stream[t], TRUE, out[t])]
    BY <1>3 DEF WriteRotatesParts
  <2>2. ASSUME out[s] # "untouched"
        PROVE  RotateParts(stream[s], TRUE, out[s]).nextPartID >= stream[s].nextPartID
    <3>1. out[s] \in PartExits(stream[s], Faults)
      BY <2>2, OutcomeOfStream
    <3>2. ~PartFails(out[s]) => stream[s].nextPart # NoPart
      BY <3>1 DEF PartExits, PartFails
    <3> QED
      BY <1>1, <3>2, RotatePartsGrows
  <2>3. stream'[s] = IF out[s] = "untouched" THEN stream[s]
                                             ELSE RotateParts(stream[s], TRUE, out[s])
    BY <2>1
  <2>4. CASE out[s] = "untouched"
    BY <1>1, <2>3, <2>4
  <2>5. CASE out[s] # "untouched"
    BY <2>2, <2>3, <2>5
  <2> QED
    BY <2>4, <2>5
<1>4. CASE WriteRotatesSegments
  <2> DEFINE exits == [t \in Streams |-> SegmentExits(stream[t], Faults)]
  <2>1. PICK out \in Outcomes(Leading, exits) :
            stream' = [t \in Streams |->
                        IF out[t] = "untouched" THEN stream[t]
                                                ELSE RotateSegments(stream[t], out[t])]
    BY <1>4 DEF WriteRotatesSegments
  <2>2. ASSUME out[s] # "untouched"
        PROVE  RotateSegments(stream[s], out[s]).nextPartID >= stream[s].nextPartID
    <3>1. out[s] \in SegmentExits(stream[s], Faults)
      BY <2>2, OutcomeOfStream
    <3> QED
      BY <1>1, <3>1, RotateSegmentsGrows
  <2> QED
    BY <1>1, <2>1, <2>2
<1>5. CASE UNCHANGED stream
  BY <1>1, <1>5
<1> QED
  BY <1>2, <1>3, <1>4, <1>5
     DEF Next, vars, Write, WritePanics, Close, Broadcast, Serve, ServeFile, OpenFile, TestBuffer, UseBuffer, Receive

\* A handler that has found a part has found one that is finished.
FoundFinished(q) ==
    q.pc \in {"ready", "waiting", "reading"} /\ q.handler = "part" =>
        q.target.id < stream[q.target.stream].nextPartID

HintedInv == PromiseInv /\ TableInv /\ \A r \in Requests : FoundFinished(req[r])

\* The part that a path is bound to, in terms of the window.
LEMMA PartFound ==
    ASSUME TableInv, NEW t \in Target, t.kind = "part"
    PROVE  LET st == stream[t.stream]
           IN  /\ HandlerAt(t) \in {"part", "hint", "none"}
               /\ HandlerAt(t) = "part" => t.id \in LiveParts(st) /\ t.id < st.nextPartID
               /\ HandlerAt(t) = "none" => t.id \notin LiveParts(st)
<1> DEFINE st == stream[t.stream]
<1>1. PathsInv(st)
  BY DEF TableInv, Target
<1>2. st.partPaths = LiveParts(st)
  BY <1>1, LiveAre DEF PathsInv
<1>3. \A p \in st.partPaths : p < st.nextPartID
  BY <1>1 DEF PathsInv, FreshParts
<1>4. /\ HandlerAt(t) \in {"part", "hint", "none"}
      /\ HandlerAt(t) = "part" => t.id \in st.partPaths
      /\ HandlerAt(t) = "none" => t.id \notin st.partPaths
  BY DEF HandlerAt
<1> QED
  BY <1>2, <1>3, <1>4

LEMMA NextHintedInv ==
    ASSUME Undisturbed, HintedInv, [Next]_vars
    PROVE  HintedInv'
<1>1. PromiseInv' /\ TableInv'
  BY NextPromiseInv, NextTableInv DEF HintedInv
<1>2. /\ req \in [Requests -> Request] /\ RequestInv
      /\ \A r \in Requests : req[r].target.stream \in Streams /\ req[r].target.id \in Nat
      /\ \A s \in Streams : stream[s].nextPartID \in Nat /\ stream'[s].nextPartID \in Nat
      /\ \A r \in Requests : HandlerOK(req[r])
  BY <1>1 DEF HintedInv, PromiseInv, RequestInv, TypeOK, Request, Target, Stream
<1> SUFFICES ASSUME NEW r \in Requests
             PROVE  FoundFinished(req[r])'
  BY <1>1 DEF HintedInv
<1>3. \A s \in Streams : stream'[s].nextPartID >= stream[s].nextPartID
  BY <1>2, PartIDsGrow
<1>4. FoundFinished(req[r])
  BY DEF HintedInv
<1>5. CASE req'[r].target = req[r].target /\ req'[r].handler = req[r].handler
           /\ (req'[r].pc \in {"ready", "waiting", "reading"} =>
                req[r].pc \in {"ready", "waiting", "reading"})
  BY <1>2, <1>3, <1>4, <1>5 DEF FoundFinished
<1>6. CASE req'[r].pc = "done"
  BY <1>6 DEF FoundFinished
<1>7. ASSUME NEW q \in Requests, Serve(q)
      PROVE  FoundFinished(req[r])'
  <2>1. CASE q = r /\ Answer(r) = "part"
    <3>1. /\ req' = [req EXCEPT ![r].handler = "part"] /\ UNCHANGED stream
          /\ req[r].pc = "ready" /\ NeedsMutex(r)
      BY <1>7, <2>1 DEF Serve
    <3>2. req[r].handler = "hint" /\ req[r].target.kind = "part" /\ req[r].target \in Target
      BY <1>2, <2>1, <3>1, AnswerType DEF HandlerOK, Request
    <3>3. HandlerAt(req[r].target) = "part"
      BY <2>1, <3>2 DEF Answer, HintAnswer
    <3>4. req[r].target.id < stream[req[r].target.stream].nextPartID
      BY <3>2, <3>3, PartFound DEF HintedInv
    <3>5. req'[r].target = req[r].target
      BY <1>2, <3>1 DEF Request
    <3> QED
      BY <3>1, <3>4, <3>5 DEF FoundFinished
  <2>2. CASE q = r /\ Answer(r) # "part"
    <3>1. \/ req' = [req EXCEPT ![r].pc = "waiting"] /\ req[r].pc = "ready"
          \/ \E status : req' = [req EXCEPT ![r].pc = "done", ![r].status = status]
      BY <1>7, <2>2 DEF Serve, Done
    <3> QED
      BY <1>2, <1>5, <1>6, <3>1 DEF Request
  <2>3. CASE q # r
    <3>1. req'[r] = req[r]
      BY <1>2, <1>7, <2>3 DEF Serve, Done
    <3> QED
      BY <1>5, <3>1
  <2> QED
    BY <2>1, <2>2, <2>3
<1>8. ASSUME NEW q \in Requests, ServeFile(q)
      PROVE  FoundFinished(req[r])'
  <2>1. \/ req' = [req EXCEPT ![q].pc = "reading"] /\ req[q].pc = "ready"
        \/ \E status : req' = [req EXCEPT ![q].pc = "done", ![q].status = status]
    BY <1>8 DEF ServeFile, OpenFile, TestBuffer, UseBuffer, Done
  <2> QED
    BY <1>2, <1>5, <1>6, <2>1 DEF Request
<1>9. ASSUME NEW q \in Requests, NEW t \in Targets, Receive(q, t)
      PROVE  FoundFinished(req[r])'
  <2>1. t \in Target /\ UNCHANGED stream
    BY <1>9, EnvironmentAssumption DEF Receive
  <2>2. CASE q = r
    <3>1. req'[r].target = t /\ req'[r].handler = HandlerAt(t)
      BY <1>2, <1>9, <2>2 DEF Receive
    <3>2. HandlerAt(t) = "part" => t.kind = "part"
      BY DEF HandlerAt
    <3>3. HandlerAt(t) = "part" => t.id < stream[t.stream].nextPartID
      BY <2>1, <3>2, PartFound DEF HintedInv
    <3> QED
      BY <2>1, <3>1, <3>3 DEF FoundFinished
  <2>3. CASE q # r
    <3>1. req'[r] = req[r]
      BY <1>2, <1>9, <2>3 DEF Receive
    <3> QED
      BY <1>5, <3>1
  <2> QED
    BY <2>2, <2>3
<1>10. CASE Broadcast
  BY <1>2, <1>5, <1>10 DEF Broadcast, Request
<1>11. CASE UNCHANGED req
  BY <1>5, <1>11
<1> QED
  BY <1>7, <1>8, <1>9, <1>10, <1>11
     DEF Next, vars, Write, WritePanics, Close, WriteFirst, WriteRotatesParts, WriteRotatesSegments

\* The address of a part that was a hint answers with that part, finished, or
\* with nothing once it has gone: whatever fails outside of Low-Latency, where
\* there are no hints, and as long as no write fails in Low-Latency.
THEOREM HintsKeepTheirPromise ==
    ASSUME Undisturbed
    PROVE  Spec => HintKeepsPromise
<1> DEFINE Kept == \A r \in Requests :
                      LET t == req[r].target
                          st == stream[t.stream]
                      IN  /\ Answered(r, "200") /\ t.kind = "part" => st.nextPartID > t.id
                          /\ Answered(r, "empty") /\ req[r].handler = "hint" =>
                              st.nextPartID > t.id /\ t.id \notin LiveParts(st)
                          /\ req[r].pc = "ready" /\ req[r].handler = "hint" /\ req'[r].handler = "part" =>
                              t.id \in LiveParts(st)
<1>1. Init => HintedInv
  BY InitPromiseInv, InitTableInv DEF Init, HintedInv, FoundFinished, Idle
<1>2. HintedInv /\ [Next]_vars => HintedInv'
  BY NextHintedInv
<1>3. ASSUME HintedInv, [Next]_vars
      PROVE  Kept
  <2> SUFFICES ASSUME NEW r \in Requests
               PROVE  LET t == req[r].target
                          st == stream[t.stream]
                      IN  /\ Answered(r, "200") /\ t.kind = "part" => st.nextPartID > t.id
                          /\ Answered(r, "empty") /\ req[r].handler = "hint" =>
                              st.nextPartID > t.id /\ t.id \notin LiveParts(st)
                          /\ req[r].pc = "ready" /\ req[r].handler = "hint" /\ req'[r].handler = "part" =>
                              t.id \in LiveParts(st)
    BY Zenon
  <2> DEFINE t == req[r].target
             st == stream[t.stream]
  <2>1. /\ req \in [Requests -> Request] /\ t \in Target /\ t.id \in Nat /\ t.stream \in Streams
        /\ st.nextPartID \in Nat /\ HandlerOK(req[r]) /\ PromiseOK(req[r]) /\ RequestInv
    BY <1>3 DEF HintedInv, PromiseInv, RequestInv, TypeOK, Request, Target, Stream
  \* The hint handler finds nothing, a part, or closes: nothing else ends it.
  <2>2. ASSUME Serve(r), req[r].target.kind = "part"
        PROVE  /\ req[r].handler = "hint"
               /\ Answer(r) = HintAnswer(t)
               /\ HintAnswer(t) \in {"500", "wait", "part", "hint", "none"}
               /\ HintAnswer(t) \in {"part", "none"} =>
                    st.nextPartID > t.id /\ HandlerAt(t) = HintAnswer(t)
    <3>1. req[r].handler = "hint"
      BY <2>1, <2>2 DEF Serve, NeedsMutex, HandlerOK, PromiseOK
    <3>2. HandlerAt(t) \in {"part", "hint", "none"}
      BY <1>3, <2>1, <2>2, PartFound DEF HintedInv
    <3> QED
      BY <3>1, <3>2 DEF Answer, HintAnswer
  <2>3. ASSUME Answered(r, "200"), t.kind = "part"
        PROVE  st.nextPartID > t.id
    <3>1. CASE Serve(r)
      <4>1. Answer(r) \in {"500", "wait", "part", "hint", "none"}
        BY <2>2, <2>3, <3>1
      <4>2. req'[r].status # "200" \/ req'[r].pc # "done"
        BY <2>1, <3>1, <4>1 DEF Serve, Done, Request
      <4> QED
        BY <2>3, <4>2 DEF Answered
    <3>2. CASE ServeFile(r)
      <4>1. req[r].handler = "part" /\ req[r].pc \in {"ready", "reading"}
        BY <1>3, <2>1, <2>3, <3>2, AnsweredByServe
           DEF HintedInv, PromiseOK, ServeFile, OpenFile, TestBuffer, UseBuffer, NeedsMutex
      <4> QED
        BY <1>3, <2>1, <4>1 DEF HintedInv, FoundFinished
    <3> QED
      BY <1>3, <2>3, <3>1, <3>2, AnsweredByServe DEF HintedInv
  <2>4. ASSUME Answered(r, "empty"), req[r].handler = "hint"
        PROVE  st.nextPartID > t.id /\ t.id \notin LiveParts(st)
    <3>1. Serve(r) /\ t.kind = "part"
      BY <1>3, <2>1, <2>4, AnsweredByServe DEF HintedInv, HandlerOK
    <3>2. Answer(r) = "none"
      BY <2>1, <2>2, <2>4, <3>1 DEF Serve, Answered, Done, Request
    <3> QED
      BY <1>3, <2>1, <2>2, <3>1, <3>2, PartFound DEF HintedInv
  <2>5. ASSUME req[r].pc = "ready", req[r].handler = "hint", req'[r].handler = "part"
        PROVE  t.id \in LiveParts(st)
    <3>1. t.kind = "part"
      BY <2>1, <2>5 DEF HandlerOK
    <3>2. ASSUME NEW q \in Requests, Serve(q)
          PROVE  q = r /\ Answer(r) = "part"
      BY <2>1, <2>5, <3>2 DEF Serve, Done, Request
    <3>3. ASSUME NEW q \in Requests
          PROVE  ~ServeFile(q) /\ \A u \in Targets : ~Receive(q, u)
      BY <2>1, <2>5 DEF ServeFile, OpenFile, TestBuffer, UseBuffer, Receive, Done, Request
    <3>4. ~Broadcast /\ ~UNCHANGED req
      BY <2>1, <2>5 DEF Broadcast, Request
    <3>5. Serve(r) /\ Answer(r) = "part"
      BY <1>3, <3>2, <3>3, <3>4
         DEF Next, vars, Write, WritePanics, Close, WriteFirst, WriteRotatesParts, WriteRotatesSegments
    <3> QED
      BY <1>3, <2>1, <2>2, <3>1, <3>5, PartFound DEF HintedInv
  <2> QED
    BY <2>3, <2>4, <2>5
<1> QED
  BY <1>1, <1>2, <1>3, PTL DEF Spec, HintKeepsPromise
================================================================================
