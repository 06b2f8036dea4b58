------------------------------ MODULE MuxerStream ------------------------------
(***************************************************************************)
(* The state of one muxerStream (src/muxer_stream.go) and its methods, as  *)
(* operators from a stream to a stream.  A stream publishes one media      *)
(* playlist: a sliding window of finished segments, the segment being      *)
(* written, the part being written, and the paths it has registered in     *)
(* the HTTP path table of the muxer (src/muxer_server.go).                 *)
(*                                                                         *)
(* Samples, durations and bytes are left out: a segment is its identifier  *)
(* and the identifiers of its parts.  A path of the table embeds the       *)
(* stream identifier, hence the slice of the table that belongs to a       *)
(* stream is kept with the stream.                                         *)
(***************************************************************************)
EXTENDS Integers, Sequences

CONSTANTS
    Variant,        \* MuxerVariant of the muxer
    SegmentCount,   \* Muxer.SegmentCount, the length of the window
    GapCount        \* gaps put before the first segment (7 in the code)

ASSUME VariantAssumption == Variant \in {"LL", "FMP4", "MPEGTS"}

\* Muxer.Start refuses a Low-Latency muxer with fewer segments than gaps,
\* and any muxer with fewer than three segments.
ASSUME CountAssumption ==
    /\ GapCount \in Nat \ {0}
    /\ SegmentCount \in Nat
    /\ SegmentCount >= IF Variant = "LL" THEN GapCount ELSE 3

LowLatency == Variant = "LL"

(***************************************************************************)
(* Segments and streams.                                                   *)
(***************************************************************************)

Segment == [kind : {"segment", "gap", "none"}, id : Nat, parts : Seq(Nat)]

NewSegment(id) == [kind |-> "segment", id |-> id, parts |-> << >>]
Gap == [kind |-> "gap", id |-> 0, parts |-> << >>]
NoSegment == [kind |-> "none", id |-> 0, parts |-> << >>]    \* a nil nextSegment
NoPart == -1                                                 \* a nil nextPart

PartsOf(segment) == {segment.parts[i] : i \in 1..Len(segment.parts)}

Stream == [
    segments : Seq(Segment),            \* the finished segments and gaps
    nextSegment : Segment,              \* the segment being written
    nextPart : Nat \union {NoPart},     \* the part being written
    nextSegmentID : Nat,
    nextPartID : Nat,
    segmentDeleteCount : Nat,
    initFilePresent : BOOLEAN,
    segPaths : SUBSET Nat,              \* registered segment paths
    partPaths : SUBSET Nat,             \* part paths bound to the part itself
    hintPaths : SUBSET Nat]             \* part paths bound to the hint handler

\* The stream that Start builds.  The identifiers of a Low-Latency stream
\* leave room for the gaps.
InitialStream ==
    [segments |-> << >>,
     nextSegment |-> NoSegment,
     nextPart |-> NoPart,
     nextSegmentID |-> IF LowLatency THEN GapCount ELSE 0,
     nextPartID |-> 0,
     segmentDeleteCount |-> 0,
     initFilePresent |-> FALSE,
     segPaths |-> {},
     partPaths |-> {},
     hintPaths |-> {}]

(***************************************************************************)
(* Writing.  An operator that can stop half-way takes the point where it   *)
(* stops, "done" when it does not.                                         *)
(***************************************************************************)

\* Mutant: the new segment has no part.
CreateSegmentNoPart(st) == [st EXCEPT !.nextSegment = NewSegment(st.nextSegmentID)]

\* The tail of rotateSegments and the whole of createFirstSegment: a new
\* segment and, unless the variant is MPEG-TS, its first part.
CreateSegment(st) ==
    [st EXCEPT !.nextSegment = NewSegment(st.nextSegmentID),
               !.nextPart = IF Variant = "MPEGTS" THEN NoPart ELSE st.nextPartID]

CreateFirstSegment(st, exit) == IF exit = "done" THEN CreateSegment(st) ELSE st

\* Mutant: the identifier captured for the hint is read before its increment.
PublishPartStaleHint(st) ==
    [st EXCEPT !.nextSegment.parts = Append(@, st.nextPart),
               !.nextPartID = @ + 1,
               !.nextPart = NoPart,
               !.hintPaths = @ \union {st.nextPart}]

\* Mutant: the part is registered under the identifier of the next one.
PublishPartAhead(st) ==
    [st EXCEPT !.nextSegment.parts = Append(@, st.nextPart),
               !.nextPartID = @ + 1,
               !.nextPart = NoPart,
               !.partPaths = @ \union {st.nextPartID + 1}]

\* The finished part joins its segment and takes its path over from the
\* preload-hint handler, which moves to the path of the part to come.
PublishPart(st) ==
    [st EXCEPT !.nextSegment.parts = Append(@, st.nextPart),
               !.nextPartID = @ + 1,
               !.nextPart = NoPart,
               !.partPaths = (@ \union {st.nextPart}) \ {st.nextPartID + 1},
               !.hintPaths = (@ \ {st.nextPart}) \union {st.nextPartID + 1}]

\* The part ends without being published: the variant has no parts of its
\* own, or finalize() failed, or there was no part (a nil dereference).
EndPart(st) == [st EXCEPT !.nextPartID = @ + 1, !.nextPart = NoPart]

PartFails(exit) == exit \in {"partFinalize", "panic"}

RotateParts(st, createNew, exit) ==
    LET ended == IF LowLatency /\ ~PartFails(exit) THEN PublishPart(st) ELSE EndPart(st)
    IN  IF createNew /\ ~PartFails(exit)
        THEN [ended EXCEPT !.nextPart = ended.nextPartID]
        ELSE ended

\* The window takes the finished segment, behind the gaps when it is the
\* first of a Low-Latency stream.
AppendSegment(st, segment) ==
    [st EXCEPT !.segments = Append(IF LowLatency /\ @ = << >>
                                   THEN [i \in 1..GapCount |-> Gap]
                                   ELSE @, segment),
               !.segPaths = @ \union {segment.id}]

\* Mutants: the count goes the wrong way, or stays; the paths of the parts, or
\* of the segment, stay; two segments leave.
DeleteOldestCountsDown(st) ==
    IF Len(st.segments) <= SegmentCount
    THEN st
    ELSE [st EXCEPT !.segments = Tail(@), !.segmentDeleteCount = @ - 1]

DeleteOldestUncounted(st) ==
    IF Len(st.segments) <= SegmentCount THEN st ELSE [st EXCEPT !.segments = Tail(@)]

DeleteOldestKeepsParts(st) ==
    IF Len(st.segments) <= SegmentCount
    THEN st
    ELSE [st EXCEPT !.segments = Tail(@),
                    !.segmentDeleteCount = @ + 1,
                    !.segPaths = @ \ {Head(st.segments).id}]

DeleteOldestKeepsSegment(st) ==
    IF Len(st.segments) <= SegmentCount
    THEN st
    ELSE [st EXCEPT !.segments = Tail(@), !.segmentDeleteCount = @ + 1]

DeleteOldestTwo(st) ==
    IF Len(st.segments) <= SegmentCount
    THEN st
    ELSE [st EXCEPT !.segments = Tail(Tail(@)), !.segmentDeleteCount = @ + 2]

\* One segment at most leaves the window, with its path and its parts'.
DeleteOldest(st) ==
    LET oldest == Head(st.segments)
    IN  IF Len(st.segments) <= SegmentCount
        THEN st
        ELSE [st EXCEPT !.segments = Tail(@),
                        !.segmentDeleteCount = @ + 1,
                        !.segPaths = IF oldest.kind = "gap" THEN @ ELSE @ \ {oldest.id},
                        !.partPaths = @ \ PartsOf(oldest),
                        !.hintPaths = @ \ PartsOf(oldest)]

\* Mutant: the identifier is only counted when the rotation succeeds.
RotateSegmentsLateCount(st, exit) ==
    LET finished == IF Variant = "MPEGTS" THEN st ELSE RotateParts(st, FALSE, exit)
        taken == [finished EXCEPT !.nextSegment = NoSegment]
        shifted == DeleteOldest(AppendSegment(taken, finished.nextSegment))
    IN  CASE PartFails(exit) -> finished
          [] exit = "segFinalize" -> taken
          [] exit \in {"initFile", "newFile"} -> shifted
          [] OTHER -> CreateSegment([shifted EXCEPT !.nextSegmentID = @ + 1,
                                                    !.initFilePresent = TRUE])

\* rotateSegments, up to the point where it stops: in the finalize() of the
\* part or of the segment, while generating the init file, or while
\* creating the storage of the next segment.
RotateSegments(st, exit) ==
    LET finished == IF Variant = "MPEGTS" THEN st ELSE RotateParts(st, FALSE, exit)
        taken == [finished EXCEPT !.nextSegmentID = @ + 1, !.nextSegment = NoSegment]
        shifted == DeleteOldest(AppendSegment(taken, finished.nextSegment))
        ready == [shifted EXCEPT !.initFilePresent = Variant # "MPEGTS"]
    IN  CASE PartFails(exit) -> finished
          [] exit = "segFinalize" -> taken
          [] exit = "initFile" -> shifted
          [] exit = "newFile" -> ready
          [] OTHER -> CreateSegment(ready)

\* The points where a rotation of a stream may stop, given the failures the
\* environment can cause.  A nil nextPart is a nil dereference.
PartExits(st, faults) ==
    IF st.nextPart = NoPart
    THEN {"panic"}
    ELSE {"done"} \union (faults \intersect {"partFinalize"})

SegmentExits(st, faults) ==
    IF Variant = "MPEGTS"
    THEN {"done"} \union (faults \intersect {"segFinalize", "newFile"})
    ELSE IF st.nextPart = NoPart
    THEN {"panic"}
    ELSE {"done"} \union (faults \intersect {"partFinalize", "newFile"})
         \union (IF st.initFilePresent THEN {} ELSE faults \intersect {"initFile"})

(***************************************************************************)
(* Reading.                                                                *)
(***************************************************************************)

hasContent(st) == Len(st.segments) >= IF Variant = "FMP4" THEN 2 ELSE 1

\* A finished segment of the window.  Gaps carry no identifier.
IsSegment(st, i, msn) ==
    i \in 1..Len(st.segments) /\ st.segments[i].kind = "segment" /\ st.segments[i].id = msn

\* Mutants: a part past the end is never there; the count is taken for an index.
hasPartNoCarry(st, msn, part) ==
    IF msn = st.nextSegmentID
    THEN part < Len(st.nextSegment.parts)
    ELSE \E i \in 1..Len(st.segments) :
            IsSegment(st, i, msn) /\ part < Len(st.segments[i].parts)

hasPartOffByOne(st, msn, part) ==
    IF msn = st.nextSegmentID
    THEN part <= Len(st.nextSegment.parts)
    ELSE \E i \in 1..Len(st.segments) : IsSegment(st, i, msn)

\* The scan of hasPart: a part past the end of its segment becomes part 0 of
\* the next one, which is looked for further down the window only.  A
\* finished segment has parts, so that the scan moves on at most once.
hasPart(st, msn, part) ==
    IF msn = st.nextSegmentID
    THEN part < Len(st.nextSegment.parts)
    ELSE \E i \in 1..Len(st.segments) :
            /\ IsSegment(st, i, msn)
            /\ \/ part < Len(st.segments[i].parts)
               \/ IsSegment(st, i + 1, msn + 1) /\ st.segments[i + 1].parts # << >>

\* The bounds outside which a blocking request is refused.  The code computes
\* the lower one modulo 2^64, which is this one for the empty window too.
MsnRefused(st, msn) ==
    \/ msn > st.nextSegmentID + 1
    \/ msn < st.nextSegmentID - (Len(st.segments) - 1)

\* The parts that can be read: those of the window and of the segment being
\* written.
LiveParts(st) ==
    (UNION {PartsOf(st.segments[i]) : i \in 1..Len(st.segments)}) \union PartsOf(st.nextSegment)
LiveSegments(st) ==
    {st.segments[i].id : i \in {j \in 1..Len(st.segments) : st.segments[j].kind = "segment"}}

\* The window holds segments with consecutive identifiers, the place of each
\* in the window given by its identifier, behind what is left of the gaps.
Numbered(st) ==
    /\ st.segments # << >> =>
        st.nextSegmentID = st.segmentDeleteCount + Len(st.segments)
    /\ \A i \in 1..Len(st.segments) :
        /\ st.segments[i].kind # "none"
        /\ st.segments[i].kind = "segment" =>
            st.segments[i].id = st.segmentDeleteCount + i - 1
        /\ st.segments[i].kind = "gap" =>
            LowLatency /\ st.segmentDeleteCount + i <= GapCount
    /\ Len(st.segments) <= SegmentCount
    /\ st.nextSegment # NoSegment => st.nextSegment.id = st.nextSegmentID
================================================================================
