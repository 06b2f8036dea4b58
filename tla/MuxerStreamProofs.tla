--------------------------- MODULE MuxerStreamProofs ---------------------------
(***************************************************************************)
(* What the methods of a stream preserve: its type, the numbering of its   *)
(* window, its paths, and what a reader who follows it relies on.          *)
(***************************************************************************)
EXTENDS MuxerStream, TLAPS

Gaps == [i \in 1..GapCount |-> Gap]

\* The identifier of the first segment.
FirstID == IF LowLatency THEN GapCount ELSE 0

\* Numbering is inductive together with what holds before the first segment
\* and with the fact that a part being written has a segment and an identifier.
StreamInv(st) ==
    /\ Numbered(st)
    /\ st.segments = << >> => st.segmentDeleteCount = 0 /\ st.nextSegmentID = FirstID
    /\ st.nextSegment # NoSegment => st.nextSegment.kind = "segment"
    /\ st.nextPart # NoPart => st.nextPart = st.nextPartID /\ st.nextSegment # NoSegment
    /\ Variant = "MPEGTS" => st.nextPart = NoPart

--------------------------------------------------------------------------------
(***************************************************************************)
(* Each step of a rotation, field by field.                                *)
(***************************************************************************)

LEMMA GapsType == Gaps \in Seq(Segment) /\ Len(Gaps) = GapCount
<1>1. Gap \in Segment
  <2>1. << >> \in Seq(Nat)
    OBVIOUS
  <2> QED
    BY <2>1 DEF Gap, Segment
<1>2. GapCount \in Nat
  BY CountAssumption
<1> QED
  BY <1>1, <1>2 DEF Gaps

LEMMA SegmentTypes ==
    /\ NoSegment \in Segment
    /\ \A id \in Nat : NewSegment(id) \in Segment /\ NewSegment(id) # NoSegment
<1>1. << >> \in Seq(Nat)
  OBVIOUS
<1> QED
  BY <1>1 DEF NoSegment, NewSegment, Segment

LEMMA AppendPartType ==
    ASSUME NEW seg \in Segment, NEW p \in Nat
    PROVE  [seg EXCEPT !.parts = Append(@, p)] \in Segment
<1>1. Append(seg.parts, p) \in Seq(Nat)
  BY DEF Segment
<1> QED
  BY <1>1 DEF Segment

LEMMA PublishPartFields ==
    ASSUME NEW st \in Stream, st.nextPart \in Nat
    PROVE  LET new == PublishPart(st)
           IN  /\ new \in Stream
               /\ new.segments = st.segments
               /\ new.nextSegment = [st.nextSegment EXCEPT !.parts = Append(@, st.nextPart)]
               /\ new.nextPart = NoPart
               /\ new.nextSegmentID = st.nextSegmentID
               /\ new.nextPartID = st.nextPartID + 1
               /\ new.segmentDeleteCount = st.segmentDeleteCount
               /\ new.segPaths = st.segPaths
               /\ new.partPaths = (st.partPaths \union {st.nextPart}) \ {st.nextPartID + 1}
               /\ new.hintPaths = (st.hintPaths \ {st.nextPart}) \union {st.nextPartID + 1}
<1> DEFINE segment == [st.nextSegment EXCEPT !.parts = Append(@, st.nextPart)]
           id == st.nextPartID + 1
           parts == (st.partPaths \union {st.nextPart}) \ {st.nextPartID + 1}
           hints == (st.hintPaths \ {st.nextPart}) \union {st.nextPartID + 1}
           new == [st EXCEPT !.nextSegment = segment, !.nextPartID = id, !.nextPart = NoPart,
                             !.partPaths = parts, !.hintPaths = hints]
<1>1. segment \in Segment
  BY AppendPartType DEF Stream
<1>2. id \in Nat /\ parts \in SUBSET Nat /\ hints \in SUBSET Nat
  BY DEF Stream
<1>3. PublishPart(st) = new
  BY DEF PublishPart, Stream
<1> HIDE DEF segment, id, parts, hints
<1>4. new \in Stream
  BY <1>1, <1>2 DEF Stream
<1>5. /\ new.segments = st.segments
      /\ new.nextSegment = segment
      /\ new.nextPart = NoPart
      /\ new.nextSegmentID = st.nextSegmentID
      /\ new.nextPartID = id
      /\ new.segmentDeleteCount = st.segmentDeleteCount
      /\ new.segPaths = st.segPaths
      /\ new.partPaths = parts
      /\ new.hintPaths = hints
  BY DEF Stream
<1> QED
  BY <1>3, <1>4, <1>5 DEF segment, id, parts, hints

LEMMA EndPartFields ==
    ASSUME NEW st \in Stream
    PROVE  LET new == EndPart(st)
           IN  /\ new \in Stream
               /\ new.segments = st.segments
               /\ new.nextSegment = st.nextSegment
               /\ new.nextPart = NoPart
               /\ new.nextSegmentID = st.nextSegmentID
               /\ new.nextPartID = st.nextPartID + 1
               /\ new.segmentDeleteCount = st.segmentDeleteCount
               /\ new.segPaths = st.segPaths
               /\ new.partPaths = st.partPaths
               /\ new.hintPaths = st.hintPaths
<1> DEFINE id == st.nextPartID + 1
           new == [st EXCEPT !.nextPartID = id, !.nextPart = NoPart]
<1>1. id \in Nat
  BY DEF Stream
<1>2. EndPart(st) = new
  BY DEF EndPart
<1> HIDE DEF id
<1>3. new \in Stream
  BY <1>1 DEF Stream
<1>4. /\ new.segments = st.segments
      /\ new.nextSegment = st.nextSegment
      /\ new.nextPart = NoPart
      /\ new.nextSegmentID = st.nextSegmentID
      /\ new.nextPartID = id
      /\ new.segmentDeleteCount = st.segmentDeleteCount
      /\ new.segPaths = st.segPaths
      /\ new.partPaths = st.partPaths
      /\ new.hintPaths = st.hintPaths
  BY DEF Stream
<1> QED
  BY <1>2, <1>3, <1>4 DEF id

LEMMA CreateSegmentFields ==
    ASSUME NEW st \in Stream
    PROVE  LET new == CreateSegment(st)
           IN  /\ new \in Stream
               /\ new.segments = st.segments
               /\ new.nextSegment = NewSegment(st.nextSegmentID)
               /\ new.nextPart = IF Variant = "MPEGTS" THEN NoPart ELSE st.nextPartID
               /\ new.nextSegmentID = st.nextSegmentID
               /\ new.nextPartID = st.nextPartID
               /\ new.segmentDeleteCount = st.segmentDeleteCount
               /\ new.segPaths = st.segPaths
               /\ new.partPaths = st.partPaths
               /\ new.hintPaths = st.hintPaths
<1> DEFINE segment == NewSegment(st.nextSegmentID)
           part == IF Variant = "MPEGTS" THEN NoPart ELSE st.nextPartID
           new == [st EXCEPT !.nextSegment = segment, !.nextPart = part]
<1>1. segment \in Segment
  BY SegmentTypes DEF Stream
<1>2. part \in Nat \union {NoPart}
  BY DEF Stream
<1>3. CreateSegment(st) = new
  BY DEF CreateSegment
<1> HIDE DEF segment, part
<1>4. new \in Stream
  BY <1>1, <1>2 DEF Stream
<1>5. /\ new.segments = st.segments
      /\ new.nextSegment = segment
      /\ new.nextPart = part
      /\ new.nextSegmentID = st.nextSegmentID
      /\ new.nextPartID = st.nextPartID
      /\ new.segmentDeleteCount = st.segmentDeleteCount
      /\ new.segPaths = st.segPaths
      /\ new.partPaths = st.partPaths
      /\ new.hintPaths = st.hintPaths
  BY DEF Stream
<1> QED
  BY <1>3, <1>4, <1>5 DEF segment, part

LEMMA AppendSegmentFields ==
    ASSUME NEW st \in Stream, NEW segment \in Segment
    PROVE  LET new == AppendSegment(st, segment)
               shown == IF LowLatency /\ st.segments = << >> THEN Gaps ELSE st.segments
           IN  /\ new \in Stream
               /\ shown \in Seq(Segment)
               /\ new.segments = Append(shown, segment)
               /\ new.nextSegment = st.nextSegment
               /\ new.nextPart = st.nextPart
               /\ new.nextSegmentID = st.nextSegmentID
               /\ new.nextPartID = st.nextPartID
               /\ new.segmentDeleteCount = st.segmentDeleteCount
               /\ new.segPaths = st.segPaths \union {segment.id}
               /\ new.partPaths = st.partPaths
               /\ new.hintPaths = st.hintPaths
<1> DEFINE shown == IF LowLatency /\ st.segments = << >> THEN Gaps ELSE st.segments
           segments == Append(shown, segment)
           paths == st.segPaths \union {segment.id}
           new == [st EXCEPT !.segments = segments, !.segPaths = paths]
<1>1. shown \in Seq(Segment)
  BY GapsType DEF Stream
<1>2. segments \in Seq(Segment)
  BY <1>1
<1>3. paths \in SUBSET Nat
  BY DEF Stream, Segment
<1>4. AppendSegment(st, segment) = new
  BY DEF AppendSegment, Gaps
<1> HIDE DEF segments, paths
<1>5. new \in Stream
  BY <1>2, <1>3 DEF Stream
<1>6. /\ new.segments = segments
      /\ new.nextSegment = st.nextSegment
      /\ new.nextPart = st.nextPart
      /\ new.nextSegmentID = st.nextSegmentID
      /\ new.nextPartID = st.nextPartID
      /\ new.segmentDeleteCount = st.segmentDeleteCount
      /\ new.segPaths = paths
      /\ new.partPaths = st.partPaths
      /\ new.hintPaths = st.hintPaths
  BY DEF Stream
<1> QED
  BY <1>1, <1>4, <1>5, <1>6 DEF segments, paths

\* The window loses its head or nothing.
LEMMA DeleteOldestFields ==
    ASSUME NEW st \in Stream
    PROVE  LET new == DeleteOldest(st)
               full == Len(st.segments) > SegmentCount
           IN  /\ new \in Stream
               /\ new.segments = IF full THEN Tail(st.segments) ELSE st.segments
               /\ new.segmentDeleteCount =
                    IF full THEN st.segmentDeleteCount + 1 ELSE st.segmentDeleteCount
               /\ new.nextSegment = st.nextSegment
               /\ new.nextPart = st.nextPart
               /\ new.nextSegmentID = st.nextSegmentID
               /\ new.nextPartID = st.nextPartID
               /\ ~full => /\ new.segPaths = st.segPaths
                           /\ new.partPaths = st.partPaths
                           /\ new.hintPaths = st.hintPaths
               /\ full => LET oldest == Head(st.segments)
                          IN  /\ new.segPaths = IF oldest.kind = "gap" THEN st.segPaths
                                                ELSE st.segPaths \ {oldest.id}
                              /\ new.partPaths = st.partPaths \ PartsOf(oldest)
                              /\ new.hintPaths = st.hintPaths \ PartsOf(oldest)
<1>1. CASE Len(st.segments) <= SegmentCount
  <2>1. DeleteOldest(st) = st
    BY <1>1 DEF DeleteOldest
  <2>2. ~(Len(st.segments) > SegmentCount)
    BY <1>1, CountAssumption DEF Stream
  <2> QED
    BY <2>1, <2>2
<1>2. CASE Len(st.segments) > SegmentCount
  <2> DEFINE oldest == Head(st.segments)
             segments == Tail(st.segments)
             count == st.segmentDeleteCount + 1
             paths == IF oldest.kind = "gap" THEN st.segPaths ELSE st.segPaths \ {oldest.id}
             parts == st.partPaths \ PartsOf(oldest)
             hints == st.hintPaths \ PartsOf(oldest)
             new == [st EXCEPT !.segments = segments, !.segmentDeleteCount = count,
                               !.segPaths = paths, !.partPaths = parts, !.hintPaths = hints]
  <2>1. segments \in Seq(Segment)
    BY <1>2, CountAssumption DEF Stream
  <2>2. /\ count \in Nat
        /\ paths \in SUBSET Nat
        /\ parts \in SUBSET Nat
        /\ hints \in SUBSET Nat
    BY DEF Stream
  <2>3. DeleteOldest(st) = new
    <3>1. ~(Len(st.segments) <= SegmentCount)
      BY <1>2, CountAssumption DEF Stream
    <3> QED
      BY <3>1 DEF DeleteOldest
  <2> HIDE DEF segments, count, paths, parts, hints
  <2>4. new \in Stream
    BY <2>1, <2>2 DEF Stream
  <2>5. /\ new.segments = segments
        /\ new.segmentDeleteCount = count
        /\ new.nextSegment = st.nextSegment
        /\ new.nextPart = st.nextPart
        /\ new.nextSegmentID = st.nextSegmentID
        /\ new.nextPartID = st.nextPartID
        /\ new.segPaths = paths
        /\ new.partPaths = parts
        /\ new.hintPaths = hints
    BY DEF Stream
  <2> QED
    BY <1>2, <2>3, <2>4, <2>5 DEF segments, count, paths, parts, hints
<1> QED
  BY <1>1, <1>2, CountAssumption DEF Stream

--------------------------------------------------------------------------------
(***************************************************************************)
(* The methods.                                                            *)
(***************************************************************************)

\* Start builds a stream that is numbered.
LEMMA InitialStreamInv == InitialStream \in Stream /\ StreamInv(InitialStream)
<1>1. InitialStream \in Stream
  <2>1. << >> \in Seq(Segment) /\ FirstID \in Nat
    BY CountAssumption DEF FirstID
  <2> QED
    BY <2>1, SegmentTypes DEF InitialStream, Stream, FirstID
<1>2. StreamInv(InitialStream)
  BY CountAssumption DEF InitialStream, StreamInv, Numbered, FirstID
<1> QED
  BY <1>1, <1>2

\* createFirstSegment preserves the numbering.
LEMMA CreateSegmentInv ==
    ASSUME NEW st \in Stream, StreamInv(st)
    PROVE  CreateSegment(st) \in Stream /\ StreamInv(CreateSegment(st))
<1> DEFINE new == CreateSegment(st)
<1>1. /\ new \in Stream
      /\ new.segments = st.segments
      /\ new.nextSegment = NewSegment(st.nextSegmentID)
      /\ new.nextPart = IF Variant = "MPEGTS" THEN NoPart ELSE st.nextPartID
      /\ new.nextSegmentID = st.nextSegmentID
      /\ new.nextPartID = st.nextPartID
      /\ new.segmentDeleteCount = st.segmentDeleteCount
  BY CreateSegmentFields
<1>2. st.nextSegmentID \in Nat
  BY DEF Stream
<1>3. new.nextSegment.id = st.nextSegmentID /\ new.nextSegment.kind = "segment"
      /\ new.nextSegment # NoSegment
  BY <1>1, <1>2, SegmentTypes DEF NewSegment
<1> HIDE DEF new
<1>4. StreamInv(new)
  BY <1>1, <1>3 DEF StreamInv, Numbered
<1> QED
  BY <1>1, <1>4 DEF new

\* rotateParts without the new part: the part that ends is published or not,
\* and the segment it belongs to is still the one being written.
LEMMA EndedPartInv ==
    ASSUME NEW st \in Stream, StreamInv(st), NEW exit,
           ~PartFails(exit) => st.nextPart # NoPart
    PROVE  LET new == RotateParts(st, FALSE, exit)
           IN  /\ new \in Stream /\ StreamInv(new)
               /\ new.segments = st.segments
               /\ new.segmentDeleteCount = st.segmentDeleteCount
               /\ new.nextSegmentID = st.nextSegmentID
               /\ new.nextPart = NoPart
               /\ st.nextSegment # NoSegment => new.nextSegment # NoSegment
<1> DEFINE new == RotateParts(st, FALSE, exit)
<1>1. CASE LowLatency /\ ~PartFails(exit)
  <2>1. st.nextPart \in Nat /\ st.nextSegment # NoSegment /\ st.nextSegment \in Segment
    BY <1>1 DEF Stream, StreamInv
  <2>2. new = PublishPart(st)
    BY <1>1 DEF RotateParts
  <2>3. /\ new \in Stream
        /\ new.segments = st.segments
        /\ new.nextSegment = [st.nextSegment EXCEPT !.parts = Append(@, st.nextPart)]
        /\ new.nextPart = NoPart
        /\ new.nextSegmentID = st.nextSegmentID
        /\ new.segmentDeleteCount = st.segmentDeleteCount
    BY <2>1, <2>2, PublishPartFields
  <2> HIDE DEF new
  <2>4. new.nextSegment.id = st.nextSegment.id /\ new.nextSegment.kind = st.nextSegment.kind
    BY <2>1, <2>3 DEF Segment
  <2>5. st.nextSegment.kind = "segment" /\ st.nextSegment.id = st.nextSegmentID
    BY <2>1 DEF StreamInv, Numbered
  <2>6. new.nextSegment # NoSegment
    BY <2>4, <2>5 DEF NoSegment
  <2>7. StreamInv(new)
    BY <2>3, <2>4, <2>5 DEF StreamInv, Numbered
  <2> QED
    BY <2>3, <2>6, <2>7 DEF new
<1>2. CASE ~(LowLatency /\ ~PartFails(exit))
  <2>1. new = EndPart(st)
    BY <1>2 DEF RotateParts
  <2>2. /\ new \in Stream
        /\ new.segments = st.segments
        /\ new.nextSegment = st.nextSegment
        /\ new.nextPart = NoPart
        /\ new.nextSegmentID = st.nextSegmentID
        /\ new.segmentDeleteCount = st.segmentDeleteCount
    BY ZenonT(60), <2>1, EndPartFields
  <2> HIDE DEF new
  <2>3. StreamInv(new)
    BY <2>2 DEF StreamInv, Numbered
  <2> QED
    BY <2>2, <2>3 DEF new
<1> QED
  BY <1>1, <1>2

\* rotateParts preserves the numbering.
LEMMA RotatePartsInv ==
    ASSUME NEW st \in Stream, StreamInv(st), NEW faults, NEW exit \in PartExits(st, faults)
    PROVE  RotateParts(st, TRUE, exit) \in Stream /\ StreamInv(RotateParts(st, TRUE, exit))
<1> DEFINE ended == RotateParts(st, FALSE, exit)
           new == RotateParts(st, TRUE, exit)
<1>1. ~PartFails(exit) => st.nextPart # NoPart
  BY DEF PartExits, PartFails
<1>2. /\ ended \in Stream /\ StreamInv(ended)
      /\ st.nextSegment # NoSegment => ended.nextSegment # NoSegment
  BY <1>1, EndedPartInv
<1>3. CASE PartFails(exit)
  <2>1. new = ended
    BY <1>3 DEF RotateParts
  <2> QED
    BY <1>2, <2>1
<1>4. CASE ~PartFails(exit)
  <2>1. ended.nextSegment # NoSegment
    BY <1>1, <1>2, <1>4 DEF StreamInv
  <2>2. new = [ended EXCEPT !.nextPart = ended.nextPartID]
    BY <1>4 DEF RotateParts
  <2> HIDE DEF ended, new
  <2>3. /\ new \in Stream
        /\ new.segments = ended.segments
        /\ new.nextSegment = ended.nextSegment
        /\ new.nextPart = new.nextPartID
        /\ new.nextSegmentID = ended.nextSegmentID
        /\ new.segmentDeleteCount = ended.segmentDeleteCount
    BY <1>2, <2>2 DEF Stream
  <2>4. StreamInv(new)
    BY <1>1, <1>2, <1>4, <2>1, <2>3 DEF StreamInv, Numbered
  <2> QED
    BY <2>3, <2>4 DEF new
<1> QED
  BY <1>3, <1>4

\* What follows the entries that stay moves up by one, as their number does.
LEMMA Successor ==
    ASSUME NEW a \in Nat, NEW b, b = a + 1, NEW i \in Nat
    PROVE  a + (i + 1) = b + i /\ a + (i + 1) - 1 = b + i - 1
  OBVIOUS

\* A window that gets the segment that was being written, and loses its
\* oldest entry if it is too long, is numbered.
LEMMA ShiftInv ==
    ASSUME NEW old \in Stream, StreamInv(old), old.nextSegment # NoSegment,
           NEW st \in Stream,
           st.segments = old.segments,
           st.segmentDeleteCount = old.segmentDeleteCount,
           st.nextSegmentID = old.nextSegmentID + 1,
           st.nextSegment = NoSegment,
           st.nextPart = NoPart
    PROVE  LET new == DeleteOldest(AppendSegment(st, old.nextSegment))
           IN  new \in Stream /\ StreamInv(new)
<1> DEFINE shown == IF LowLatency /\ st.segments = << >> THEN Gaps ELSE st.segments
           longer == AppendSegment(st, old.nextSegment)
           new == DeleteOldest(longer)
           full == Len(longer.segments) > SegmentCount
           number == old.segmentDeleteCount + Len(shown)
<1>1. old.nextSegment \in Segment /\ old.segments \in Seq(Segment)
      /\ old.segmentDeleteCount \in Nat /\ old.nextSegmentID \in Nat
  BY DEF Stream
<1>2. /\ longer \in Stream
      /\ shown \in Seq(Segment)
      /\ longer.segments = Append(shown, old.nextSegment)
      /\ longer.nextSegment = NoSegment
      /\ longer.nextPart = NoPart
      /\ longer.nextSegmentID = old.nextSegmentID + 1
      /\ longer.segmentDeleteCount = old.segmentDeleteCount
  BY <1>1, AppendSegmentFields
<1>3. /\ new \in Stream
      /\ new.segments = IF full THEN Tail(longer.segments) ELSE longer.segments
      /\ new.segmentDeleteCount =
            IF full THEN old.segmentDeleteCount + 1 ELSE old.segmentDeleteCount
      /\ new.nextSegment = NoSegment
      /\ new.nextPart = NoPart
      /\ new.nextSegmentID = old.nextSegmentID + 1
  BY <1>2, DeleteOldestFields
<1>4. number = old.nextSegmentID /\ Len(shown) <= SegmentCount /\ number \in Nat
  <2>1. CASE LowLatency /\ st.segments = << >>
    BY <2>1, <1>1, GapsType, CountAssumption DEF StreamInv, FirstID, LowLatency
  <2>2. CASE ~(LowLatency /\ st.segments = << >>)
    BY <2>2, <1>1, CountAssumption DEF StreamInv, FirstID, Numbered
  <2> QED
    BY <2>1, <2>2
<1>5. \A i \in 1..Len(shown) :
        /\ shown[i].kind # "none"
        /\ shown[i].kind = "segment" => shown[i].id = old.segmentDeleteCount + i - 1
        /\ shown[i].kind = "gap" => LowLatency /\ old.segmentDeleteCount + i <= GapCount
  <2>1. CASE LowLatency /\ st.segments = << >>
    <3>1. \A i \in 1..Len(shown) : shown[i].kind = "gap" /\ i <= GapCount
      BY <2>1, GapsType, CountAssumption DEF Gaps, Gap
    <3>2. old.segmentDeleteCount = 0
      BY <2>1 DEF StreamInv
    <3> QED
      BY <2>1, <3>1, <3>2, GapsType, CountAssumption
  <2>2. CASE ~(LowLatency /\ st.segments = << >>)
    BY <2>2 DEF StreamInv, Numbered
  <2> QED
    BY <2>1, <2>2
<1>6. old.nextSegment.kind = "segment" /\ old.nextSegment.id = old.nextSegmentID
  BY DEF StreamInv, Numbered
<1>7. /\ Len(longer.segments) = Len(shown) + 1
      /\ \A i \in 1..Len(shown) : longer.segments[i] = shown[i]
      /\ longer.segments[Len(shown) + 1] = old.nextSegment
  BY <1>1, <1>2
<1> HIDE DEF shown, longer, new
<1>8. \A i \in 1..Len(longer.segments) :
        /\ longer.segments[i].kind # "none"
        /\ longer.segments[i].kind = "segment" =>
            longer.segments[i].id = old.segmentDeleteCount + i - 1
        /\ longer.segments[i].kind = "gap" =>
            LowLatency /\ old.segmentDeleteCount + i <= GapCount
  <2> SUFFICES ASSUME NEW i \in 1..Len(longer.segments)
               PROVE  /\ longer.segments[i].kind # "none"
                      /\ longer.segments[i].kind = "segment" =>
                            longer.segments[i].id = old.segmentDeleteCount + i - 1
                      /\ longer.segments[i].kind = "gap" =>
                            LowLatency /\ old.segmentDeleteCount + i <= GapCount
    OBVIOUS
  <2>0. Len(shown) \in Nat
    BY <1>2
  <2>1. CASE i \in 1..Len(shown)
    BY <2>1, <1>5, <1>7
  <2>2. CASE i = Len(shown) + 1
    <3>1. old.nextSegmentID = old.segmentDeleteCount + i - 1
      BY <2>0, <2>2, <1>1, <1>4
    <3> QED
      BY <2>2, <3>1, <1>6, <1>7
  <2> QED
    BY <2>0, <2>1, <2>2, <1>7
<1>9. ASSUME full PROVE StreamInv(new)
  <2>1. longer.segments \in Seq(Segment) /\ longer.segments # << >>
    BY <1>2, <1>7 DEF Stream
  <2>2. /\ Len(new.segments) = Len(shown)
        /\ \A i \in 1..Len(new.segments) : new.segments[i] = longer.segments[i + 1]
    <3>1. new.segments = Tail(longer.segments)
      BY <1>3, <1>9
    <3>2. /\ Len(Tail(longer.segments)) = Len(longer.segments) - 1
          /\ \A i \in 1..Len(longer.segments) - 1 :
                Tail(longer.segments)[i] = longer.segments[i + 1]
      BY <2>1
    <3>3. Len(longer.segments) - 1 = Len(shown)
      BY <1>2, <1>7
    <3> QED
      BY <3>1, <3>2, <3>3
  <2>3. Len(shown) = SegmentCount /\ SegmentCount > 0
    <3>1. Len(shown) \in Nat /\ SegmentCount \in Nat /\ SegmentCount > 0
      BY <1>2, CountAssumption
    <3>2. Len(shown) + 1 > SegmentCount
      BY <1>7, <1>9
    <3> QED
      BY <1>4, <3>1, <3>2
  <2>4. new.segments # << >>
    BY <2>2, <2>3
  <2>5. new.segmentDeleteCount = old.segmentDeleteCount + 1
    BY <1>3, <1>9
  <2>6. new.nextSegmentID = new.segmentDeleteCount + Len(new.segments)
    BY SMTT(60), <1>1, <1>2, <1>3, <1>4, <2>2, <2>5
  <2>7. \A i \in 1..Len(new.segments) :
            /\ new.segments[i].kind # "none"
            /\ new.segments[i].kind = "segment" =>
                new.segments[i].id = new.segmentDeleteCount + i - 1
            /\ new.segments[i].kind = "gap" =>
                LowLatency /\ new.segmentDeleteCount + i <= GapCount
    <3> SUFFICES ASSUME NEW i \in 1..Len(new.segments)
                 PROVE  /\ new.segments[i].kind # "none"
                        /\ new.segments[i].kind = "segment" =>
                            new.segments[i].id = new.segmentDeleteCount + i - 1
                        /\ new.segments[i].kind = "gap" =>
                            LowLatency /\ new.segmentDeleteCount + i <= GapCount
      OBVIOUS
    <3>1. i + 1 \in 1..Len(longer.segments) /\ i \in Nat
      BY <1>2, <1>7, <2>2
    <3>2. /\ longer.segments[i + 1].kind # "none"
          /\ longer.segments[i + 1].kind = "segment" =>
                longer.segments[i + 1].id = old.segmentDeleteCount + (i + 1) - 1
          /\ longer.segments[i + 1].kind = "gap" =>
                LowLatency /\ old.segmentDeleteCount + (i + 1) <= GapCount
      BY <3>1, <1>8
    <3>3. /\ old.segmentDeleteCount + (i + 1) = new.segmentDeleteCount + i
          /\ old.segmentDeleteCount + (i + 1) - 1 = new.segmentDeleteCount + i - 1
      <4>1. old.segmentDeleteCount \in Nat
        BY <1>1
      <4> QED
        BY ONLY ZenonT(60), <3>1, <2>5, <4>1, Successor
    <3> QED
      BY <2>2, <3>2, <3>3
  <2>8. Len(new.segments) <= SegmentCount
    BY <2>2, <2>3, CountAssumption
  <2> QED
    BY <1>3, <2>4, <2>6, <2>7, <2>8 DEF StreamInv, Numbered
<1>10. ASSUME ~full PROVE StreamInv(new)
  <2>1. new.segments = longer.segments /\ new.segmentDeleteCount = old.segmentDeleteCount
    BY <1>3, <1>10
  <2>2. Len(new.segments) <= SegmentCount /\ new.segments # << >>
    BY <1>2, <1>7, <1>10, <2>1, CountAssumption
  <2>3. new.nextSegmentID = new.segmentDeleteCount + Len(new.segments)
    <3>1. Len(shown) \in Nat /\ Len(new.segments) = Len(shown) + 1
      BY <1>2, <1>7, <2>1
    <3>2. new.nextSegmentID = old.nextSegmentID + 1
      BY <1>3
    <3>3. old.segmentDeleteCount + Len(shown) = old.nextSegmentID
      BY <1>4
    <3> QED
      BY <1>1, <2>1, <3>1, <3>2, <3>3
  <2> QED
    BY <1>3, <1>8, <2>1, <2>2, <2>3 DEF StreamInv, Numbered
<1> QED
  BY <1>3, <1>9, <1>10 DEF new, longer

\* rotateSegments preserves the numbering, wherever it stops except in the
\* finalize() of an MPEG-TS segment, whose identifier is lost.
LEMMA RotateSegmentsInv ==
    ASSUME NEW st \in Stream, StreamInv(st), NEW faults, NEW exit \in SegmentExits(st, faults),
           exit # "segFinalize",
           Variant = "MPEGTS" => st.nextSegment # NoSegment
    PROVE  RotateSegments(st, exit) \in Stream /\ StreamInv(RotateSegments(st, exit))
<1> DEFINE finished == IF Variant = "MPEGTS" THEN st ELSE RotateParts(st, FALSE, exit)
           taken == [finished EXCEPT !.nextSegmentID = @ + 1, !.nextSegment = NoSegment]
           shifted == DeleteOldest(AppendSegment(taken, finished.nextSegment))
           ready == [shifted EXCEPT !.initFilePresent = Variant # "MPEGTS"]
<1>1. Variant # "MPEGTS" /\ ~PartFails(exit) => st.nextPart # NoPart
  BY DEF SegmentExits, PartFails
<1>2. /\ finished \in Stream /\ StreamInv(finished)
      /\ finished.nextPart = NoPart
      /\ ~PartFails(exit) => finished.nextSegment # NoSegment
  <2>1. CASE Variant = "MPEGTS"
    BY <2>1 DEF StreamInv
  <2>2. CASE Variant # "MPEGTS"
    <3>1. ~PartFails(exit) => st.nextSegment # NoSegment
      BY <1>1, <2>2 DEF StreamInv
    <3> QED
      BY <1>1, <2>2, <3>1, EndedPartInv
  <2> QED
    BY <2>1, <2>2
<1>3. CASE PartFails(exit)
  <2>1. RotateSegments(st, exit) = finished
    <3>1. exit # "segFinalize" /\ exit # "initFile" /\ exit # "newFile"
      BY <1>3 DEF PartFails
    <3> QED
      BY <1>3, <3>1, Zenon DEF RotateSegments
  <2> QED
    BY <1>2, <2>1
<1>4. CASE ~PartFails(exit)
  <2> HIDE DEF finished
  <2>1. /\ taken \in Stream
        /\ taken.segments = finished.segments
        /\ taken.segmentDeleteCount = finished.segmentDeleteCount
        /\ taken.nextSegmentID = finished.nextSegmentID + 1
        /\ taken.nextSegment = NoSegment
        /\ taken.nextPart = NoPart
    <3> DEFINE id == finished.nextSegmentID + 1
    <3>1. id \in Nat
      BY <1>2 DEF Stream
    <3> HIDE DEF id
    <3>2. taken = [finished EXCEPT !.nextSegmentID = id, !.nextSegment = NoSegment]
      BY DEF id
    <3>3. /\ taken \in Stream
          /\ taken.segments = finished.segments
          /\ taken.segmentDeleteCount = finished.segmentDeleteCount
          /\ taken.nextSegmentID = id
          /\ taken.nextSegment = NoSegment
          /\ taken.nextPart = finished.nextPart
      BY <1>2, <3>1, <3>2, SegmentTypes DEF Stream
    <3> QED
      BY <1>2, <3>3 DEF id
  <2> HIDE DEF taken
  <2>2. shifted \in Stream /\ StreamInv(shifted)
    BY <1>2, <1>4, <2>1, ShiftInv
  <2> HIDE DEF shifted
  <2>3. ready \in Stream /\ StreamInv(ready)
    <3>1. /\ ready \in Stream
          /\ ready.segments = shifted.segments
          /\ ready.segmentDeleteCount = shifted.segmentDeleteCount
          /\ ready.nextSegmentID = shifted.nextSegmentID
          /\ ready.nextSegment = shifted.nextSegment
          /\ ready.nextPart = shifted.nextPart
          /\ ready.nextPartID = shifted.nextPartID
      BY <2>2 DEF Stream
    <3> HIDE DEF ready
    <3> QED
      BY <2>2, <3>1 DEF StreamInv, Numbered
  <2>4. CreateSegment(ready) \in Stream /\ StreamInv(CreateSegment(ready))
    BY <2>3, CreateSegmentInv
  <2>5. RotateSegments(st, exit) \in {shifted, ready, CreateSegment(ready)}
    <3>1. exit # "segFinalize" /\ ~PartFails(exit)
      BY <1>4
    <3>2. RotateSegments(st, exit) = CASE exit = "initFile" -> shifted
                                       [] exit = "newFile" -> ready
                                       [] OTHER -> CreateSegment(ready)
      BY <3>1, Zenon DEF RotateSegments, finished, taken, shifted
    <3> QED
      BY <3>2
  <2> QED
    BY <2>2, <2>3, <2>4, <2>5
<1> QED
  BY <1>3, <1>4

\* The types alone, wherever the methods stop.
LEMMA RotatePartsType ==
    ASSUME NEW st \in Stream, NEW createNew \in BOOLEAN, NEW exit,
           ~PartFails(exit) => st.nextPart # NoPart
    PROVE  RotateParts(st, createNew, exit) \in Stream
<1> DEFINE ended == IF LowLatency /\ ~PartFails(exit) THEN PublishPart(st) ELSE EndPart(st)
<1>1. ended \in Stream
  <2>1. ~PartFails(exit) => st.nextPart \in Nat
    BY DEF Stream
  <2> QED
    BY <2>1, PublishPartFields, EndPartFields
<1>2. RotateParts(st, createNew, exit) \in {ended, [ended EXCEPT !.nextPart = ended.nextPartID]}
  BY DEF RotateParts
<1> HIDE DEF ended
<1>3. [ended EXCEPT !.nextPart = ended.nextPartID] \in Stream
  BY <1>1 DEF Stream
<1> QED
  BY <1>1, <1>2, <1>3

LEMMA RotateSegmentsType ==
    ASSUME NEW st \in Stream, NEW faults, NEW exit \in SegmentExits(st, faults)
    PROVE  RotateSegments(st, exit) \in Stream
<1> DEFINE finished == IF Variant = "MPEGTS" THEN st ELSE RotateParts(st, FALSE, exit)
           taken == [finished EXCEPT !.nextSegmentID = @ + 1, !.nextSegment = NoSegment]
           shifted == DeleteOldest(AppendSegment(taken, finished.nextSegment))
           ready == [shifted EXCEPT !.initFilePresent = Variant # "MPEGTS"]
<1>1. finished \in Stream
  <2>1. Variant # "MPEGTS" /\ ~PartFails(exit) => st.nextPart # NoPart
    BY DEF SegmentExits, PartFails
  <2> QED
    BY <2>1, RotatePartsType
<1> HIDE DEF finished
<1>2. taken \in Stream
  <2> DEFINE id == finished.nextSegmentID + 1
  <2>1. id \in Nat
    BY <1>1 DEF Stream
  <2> HIDE DEF id
  <2>2. [finished EXCEPT !.nextSegmentID = id, !.nextSegment = NoSegment] \in Stream
    BY <1>1, <2>1, SegmentTypes DEF Stream
  <2> QED
    BY <2>2 DEF id
<1> HIDE DEF taken
<1>3. shifted \in Stream
  <2>1. finished.nextSegment \in Segment
    BY <1>1 DEF Stream
  <2>2. AppendSegment(taken, finished.nextSegment) \in Stream
    BY <1>2, <2>1, AppendSegmentFields
  <2> QED
    BY <2>2, DeleteOldestFields
<1> HIDE DEF shifted
<1>4. ready \in Stream
  BY <1>3 DEF Stream
<1>5. CreateSegment(ready) \in Stream
  BY <1>4, CreateSegmentFields
<1>6. RotateSegments(st, exit) \in {finished, taken, shifted, ready, CreateSegment(ready)}
  BY Zenon DEF RotateSegments, finished, taken, shifted
<1> QED
  BY <1>1, <1>2, <1>3, <1>4, <1>5, <1>6

\* A rotation that runs to its end leaves a segment, and a part of it, to
\* write to.
Writable(st) == st.nextSegment # NoSegment /\ (Variant = "MPEGTS" \/ st.nextPart # NoPart)

LEMMA CreateSegmentWritable ==
    ASSUME NEW st \in Stream
    PROVE  Writable(CreateSegment(st))
<1>1. st.nextSegmentID \in Nat /\ st.nextPartID \in Nat /\ -1 \notin Nat
  BY DEF Stream
<1> QED
  BY <1>1, CreateSegmentFields, SegmentTypes DEF Writable, NoPart

LEMMA RotatePartsWritable ==
    ASSUME NEW st \in Stream, StreamInv(st), st.nextPart # NoPart
    PROVE  Writable(RotateParts(st, TRUE, "done"))
<1> DEFINE ended == RotateParts(st, FALSE, "done")
           new == RotateParts(st, TRUE, "done")
<1>1. ~PartFails("done")
  BY DEF PartFails
<1>2. ended \in Stream /\ ended.nextSegment # NoSegment
  BY <1>1, EndedPartInv DEF StreamInv
<1>3. new = [ended EXCEPT !.nextPart = ended.nextPartID]
  BY <1>1 DEF RotateParts
<1> HIDE DEF ended, new
<1>4. new.nextSegment # NoSegment /\ new.nextPart \in Nat
  BY <1>2, <1>3 DEF Stream
<1>5. new.nextPart # NoPart
  BY <1>4 DEF NoPart
<1>6. Writable(new)
  BY <1>4, <1>5 DEF Writable
<1> QED
  BY <1>6 DEF new

LEMMA RotateSegmentsWritable ==
    ASSUME NEW st \in Stream, Variant # "MPEGTS" => st.nextPart # NoPart
    PROVE  Writable(RotateSegments(st, "done"))
<1> DEFINE finished == IF Variant = "MPEGTS" THEN st ELSE RotateParts(st, FALSE, "done")
           taken == [finished EXCEPT !.nextSegmentID = @ + 1, !.nextSegment = NoSegment]
           shifted == DeleteOldest(AppendSegment(taken, finished.nextSegment))
           ready == [shifted EXCEPT !.initFilePresent = Variant # "MPEGTS"]
<1>1. finished \in Stream
  BY RotatePartsType
<1> HIDE DEF finished
<1>2. taken \in Stream
  <2> DEFINE id == finished.nextSegmentID + 1
  <2>1. id \in Nat
    BY <1>1 DEF Stream
  <2> HIDE DEF id
  <2>2. [finished EXCEPT !.nextSegmentID = id, !.nextSegment = NoSegment] \in Stream
    BY <1>1, <2>1, SegmentTypes DEF Stream
  <2> QED
    BY <2>2 DEF id
<1> HIDE DEF taken
<1>3. shifted \in Stream
  <2>1. finished.nextSegment \in Segment
    BY <1>1 DEF Stream
  <2>2. AppendSegment(taken, finished.nextSegment) \in Stream
    BY <1>2, <2>1, AppendSegmentFields
  <2> QED
    BY <2>2, DeleteOldestFields
<1> HIDE DEF shifted
<1>4. ready \in Stream
  BY <1>3 DEF Stream
<1>5. RotateSegments(st, "done") = CreateSegment(ready)
  <2>1. ~PartFails("done")
    BY DEF PartFails
  <2> QED
    BY <2>1, Zenon DEF RotateSegments, finished, taken, shifted
<1> QED
  BY <1>4, <1>5, CreateSegmentWritable

--------------------------------------------------------------------------------
(***************************************************************************)
(* The hint handlers.                                                      *)
(***************************************************************************)

\* The preload-hint handler is bound to the part to come, and to no other.
HintInv(st) == st.hintPaths \subseteq IF LowLatency THEN {st.nextPartID} ELSE {}

LEMMA CreateSegmentHint ==
    ASSUME NEW st \in Stream, HintInv(st)
    PROVE  HintInv(CreateSegment(st))
  BY DEF CreateSegment, HintInv, Stream

LEMMA RotatePartsHint ==
    ASSUME NEW st \in Stream, StreamInv(st), HintInv(st), st.nextPart # NoPart,
           NEW createNew \in BOOLEAN
    PROVE  HintInv(RotateParts(st, createNew, "done"))
<1> DEFINE ended == IF LowLatency THEN PublishPart(st) ELSE EndPart(st)
           new == RotateParts(st, createNew, "done")
<1>1. ~PartFails("done")
  BY DEF PartFails
<1>2. st.nextPart = st.nextPartID /\ st.nextPartID \in Nat
  BY DEF StreamInv, Stream
<1>3. ended \in Stream
  BY <1>2, PublishPartFields, EndPartFields
<1>4. HintInv(ended)
  <2>1. CASE LowLatency
    <3> DEFINE id == st.nextPartID + 1
               pub == PublishPart(st)
    <3>1. pub.hintPaths = (st.hintPaths \ {st.nextPart}) \union {id}
      BY DEF PublishPart, Stream
    <3>2. pub.nextPartID = id
      BY DEF PublishPart, Stream
    <3> HIDE DEF id, pub
    <3>3. HintInv(pub)
      BY <1>2, <2>1, <3>1, <3>2 DEF HintInv
    <3> QED
      BY <2>1, <3>3 DEF pub
  <2>2. CASE ~LowLatency
    <3>1. EndPart(st).hintPaths = st.hintPaths
      BY DEF EndPart, Stream
    <3> QED
      BY <2>2, <3>1 DEF HintInv
  <2> QED
    BY <2>1, <2>2
<1>5. new \in {ended, [ended EXCEPT !.nextPart = ended.nextPartID]}
  BY <1>1 DEF RotateParts
<1> HIDE DEF ended, new
<1>6. HintInv([ended EXCEPT !.nextPart = ended.nextPartID])
  BY <1>3, <1>4 DEF HintInv, Stream
<1> QED
  BY <1>4, <1>5, <1>6 DEF new

LEMMA RotateSegmentsHint ==
    ASSUME NEW st \in Stream, StreamInv(st), HintInv(st),
           Variant # "MPEGTS" => st.nextPart # NoPart
    PROVE  HintInv(RotateSegments(st, "done"))
<1> DEFINE finished == IF Variant = "MPEGTS" THEN st ELSE RotateParts(st, FALSE, "done")
           taken == [finished EXCEPT !.nextSegmentID = @ + 1, !.nextSegment = NoSegment]
           longer == AppendSegment(taken, finished.nextSegment)
           shifted == DeleteOldest(longer)
           ready == [shifted EXCEPT !.initFilePresent = Variant # "MPEGTS"]
<1>1. finished \in Stream /\ HintInv(finished)
  BY RotatePartsType, RotatePartsHint
<1> HIDE DEF finished
<1>2. taken \in Stream /\ HintInv(taken)
  <2> DEFINE id == finished.nextSegmentID + 1
  <2>1. id \in Nat
    BY <1>1 DEF Stream
  <2> HIDE DEF id
  <2>2. [finished EXCEPT !.nextSegmentID = id, !.nextSegment = NoSegment] \in Stream
    BY <1>1, <2>1, SegmentTypes DEF Stream
  <2>3. HintInv([finished EXCEPT !.nextSegmentID = id, !.nextSegment = NoSegment])
    BY <1>1 DEF HintInv, Stream
  <2> QED
    BY <2>2, <2>3 DEF id
<1> HIDE DEF taken
<1>3. longer \in Stream /\ HintInv(longer)
  <2>1. finished.nextSegment \in Segment
    BY <1>1 DEF Stream
  <2>2. longer \in Stream /\ longer.nextPartID = taken.nextPartID
    BY <1>2, <2>1, AppendSegmentFields
  <2>3. longer.hintPaths = taken.hintPaths
    BY <1>2 DEF AppendSegment, Stream
  <2> QED
    BY <1>2, <2>2, <2>3 DEF HintInv
<1> HIDE DEF longer
<1>4. shifted \in Stream /\ HintInv(shifted)
  <2>1. shifted \in Stream /\ shifted.nextPartID = longer.nextPartID
    BY <1>3, DeleteOldestFields
  <2>2. shifted.hintPaths \subseteq longer.hintPaths
    BY <1>3 DEF DeleteOldest, Stream
  <2> QED
    BY <1>3, <2>1, <2>2 DEF HintInv
<1> HIDE DEF shifted
<1>5. ready \in Stream /\ HintInv(ready)
  BY <1>4 DEF Stream, HintInv
<1>6. RotateSegments(st, "done") = CreateSegment(ready)
  <2>1. ~PartFails("done")
    BY DEF PartFails
  <2> QED
    BY <2>1, Zenon DEF RotateSegments, finished, taken, longer, shifted
<1> QED
  BY <1>5, <1>6, CreateSegmentHint

--------------------------------------------------------------------------------
(***************************************************************************)
(* The rotations, field by field.                                          *)
(***************************************************************************)

\* The segment being written when the part that was being written has ended.
Ended(st) ==
    IF LowLatency THEN [st.nextSegment EXCEPT !.parts = Append(@, st.nextPart)]
                  ELSE st.nextSegment

\* What the window holds before a segment is added to it.
Shown(st) == IF LowLatency /\ st.segments = << >> THEN Gaps ELSE st.segments

LEMMA RotatePartsFields ==
    ASSUME NEW st \in Stream, NEW createNew \in BOOLEAN, NEW exit,
           ~PartFails(exit), st.nextPart # NoPart
    PROVE  LET new == RotateParts(st, createNew, exit)
               id == st.nextPartID + 1
           IN  /\ new \in Stream
               /\ new.segments = st.segments
               /\ new.nextSegment = Ended(st)
               /\ new.nextPart = IF createNew THEN id ELSE NoPart
               /\ new.nextSegmentID = st.nextSegmentID
               /\ new.nextPartID = id
               /\ new.segmentDeleteCount = st.segmentDeleteCount
               /\ new.segPaths = st.segPaths
               /\ new.partPaths = IF LowLatency THEN (st.partPaths \union {st.nextPart}) \ {id}
                                                ELSE st.partPaths
               /\ new.hintPaths = IF LowLatency THEN (st.hintPaths \ {st.nextPart}) \union {id}
                                                ELSE st.hintPaths
<1> DEFINE ended == IF LowLatency THEN PublishPart(st) ELSE EndPart(st)
           new == RotateParts(st, createNew, exit)
           id == st.nextPartID + 1
<1>1. /\ ended \in Stream
      /\ ended.segments = st.segments
      /\ ended.nextSegment = Ended(st)
      /\ ended.nextPart = NoPart
      /\ ended.nextSegmentID = st.nextSegmentID
      /\ ended.nextPartID = id
      /\ ended.segmentDeleteCount = st.segmentDeleteCount
      /\ ended.segPaths = st.segPaths
      /\ ended.partPaths = IF LowLatency THEN (st.partPaths \union {st.nextPart}) \ {id}
                                         ELSE st.partPaths
      /\ ended.hintPaths = IF LowLatency THEN (st.hintPaths \ {st.nextPart}) \union {id}
                                         ELSE st.hintPaths
  <2>1. st.nextPart \in Nat
    BY DEF Stream
  <2>2. CASE LowLatency
    BY <2>1, <2>2, PublishPartFields DEF Ended
  <2>3. CASE ~LowLatency
    BY <2>3, EndPartFields DEF Ended
  <2> QED
    BY <2>2, <2>3
<1>2. new = IF createNew THEN [ended EXCEPT !.nextPart = id] ELSE ended
  BY <1>1 DEF RotateParts
<1> HIDE DEF ended, new
<1>3. id \in Nat
  BY DEF Stream
<1>4. CASE createNew
  <2> HIDE DEF id
  <2>1. new = [ended EXCEPT !.nextPart = id]
    BY <1>2, <1>4
  <2>2. /\ new \in Stream
        /\ new.nextPart = id
        /\ new.segments = ended.segments
        /\ new.nextSegment = ended.nextSegment
        /\ new.nextSegmentID = ended.nextSegmentID
        /\ new.nextPartID = ended.nextPartID
        /\ new.segmentDeleteCount = ended.segmentDeleteCount
        /\ new.segPaths = ended.segPaths
        /\ new.partPaths = ended.partPaths
        /\ new.hintPaths = ended.hintPaths
    BY <1>1, <1>3, <2>1 DEF Stream
  <2> QED
    BY <1>1, <1>4, <2>2 DEF id, new
<1>5. CASE ~createNew
  BY <1>1, <1>2, <1>5 DEF new
<1> QED
  BY <1>4, <1>5

\* A rotation that gets past the part and the finalize() of the segment.
LEMMA RotateSegmentsFields ==
    ASSUME NEW st \in Stream, NEW exit, exit # "segFinalize", ~PartFails(exit),
           Variant # "MPEGTS" => st.nextPart # NoPart
    PROVE  LET new == RotateSegments(st, exit)
               id == st.nextSegmentID + 1
               finished == IF Variant = "MPEGTS" THEN st ELSE RotateParts(st, FALSE, exit)
               longer == Append(Shown(st), finished.nextSegment)
               full == Len(longer) > SegmentCount
               oldest == Head(longer)
               segPaths == st.segPaths \union {finished.nextSegment.id}
           IN  /\ new \in Stream
               /\ new.segments = IF full THEN Tail(longer) ELSE longer
               /\ new.segmentDeleteCount =
                    IF full THEN st.segmentDeleteCount + 1 ELSE st.segmentDeleteCount
               /\ new.nextSegment = IF exit \in {"initFile", "newFile"} THEN NoSegment
                                                                        ELSE NewSegment(id)
               /\ new.nextSegmentID = id
               /\ new.nextPartID = finished.nextPartID
               /\ new.nextPart = IF exit \in {"initFile", "newFile"} THEN finished.nextPart
                                 ELSE IF Variant = "MPEGTS" THEN NoPart ELSE finished.nextPartID
               /\ new.segPaths = IF full /\ oldest.kind # "gap" THEN segPaths \ {oldest.id}
                                                                ELSE segPaths
               /\ new.partPaths = IF full THEN finished.partPaths \ PartsOf(oldest)
                                          ELSE finished.partPaths
               /\ new.hintPaths = IF full THEN finished.hintPaths \ PartsOf(oldest)
                                          ELSE finished.hintPaths
<1> DEFINE finished == IF Variant = "MPEGTS" THEN st ELSE RotateParts(st, FALSE, exit)
           taken == [finished EXCEPT !.nextSegmentID = @ + 1, !.nextSegment = NoSegment]
           added == AppendSegment(taken, finished.nextSegment)
           shifted == DeleteOldest(added)
           ready == [shifted EXCEPT !.initFilePresent = Variant # "MPEGTS"]
           new == RotateSegments(st, exit)
           id == st.nextSegmentID + 1
           longer == Append(Shown(st), finished.nextSegment)
           full == Len(longer) > SegmentCount
           oldest == Head(longer)
           segPaths == st.segPaths \union {finished.nextSegment.id}
<1>1. /\ finished \in Stream
      /\ finished.segments = st.segments
      /\ finished.nextSegmentID = st.nextSegmentID
      /\ finished.segmentDeleteCount = st.segmentDeleteCount
      /\ finished.segPaths = st.segPaths
  BY RotatePartsFields
<1> HIDE DEF finished
<1>2. id \in Nat /\ finished.nextSegment \in Segment
  BY <1>1 DEF Stream
<1>3. /\ taken \in Stream
      /\ taken.segments = st.segments
      /\ taken.segmentDeleteCount = st.segmentDeleteCount
      /\ taken.nextSegmentID = id
      /\ taken.nextSegment = NoSegment
      /\ taken.nextPart = finished.nextPart
      /\ taken.nextPartID = finished.nextPartID
      /\ taken.segPaths = st.segPaths
      /\ taken.partPaths = finished.partPaths
      /\ taken.hintPaths = finished.hintPaths
  <2>1. taken = [finished EXCEPT !.nextSegmentID = id, !.nextSegment = NoSegment]
    BY <1>1
  <2> HIDE DEF id, taken
  <2> QED
    BY <1>1, <1>2, <2>1, SegmentTypes DEF Stream
<1> HIDE DEF taken, id
<1>4. /\ added \in Stream
      /\ added.segments = longer
      /\ added.nextSegment = NoSegment
      /\ added.nextPart = finished.nextPart
      /\ added.nextSegmentID = id
      /\ added.nextPartID = finished.nextPartID
      /\ added.segmentDeleteCount = st.segmentDeleteCount
      /\ added.segPaths = segPaths
      /\ added.partPaths = finished.partPaths
      /\ added.hintPaths = finished.hintPaths
  BY ZenonT(60), <1>2, <1>3, AppendSegmentFields DEF Shown
<1> HIDE DEF added, longer, segPaths
<1>5. /\ shifted \in Stream
      /\ shifted.segments = IF full THEN Tail(longer) ELSE longer
      /\ shifted.segmentDeleteCount =
            IF full THEN st.segmentDeleteCount + 1 ELSE st.segmentDeleteCount
      /\ shifted.nextSegment = NoSegment
      /\ shifted.nextPart = finished.nextPart
      /\ shifted.nextSegmentID = id
      /\ shifted.nextPartID = finished.nextPartID
      /\ shifted.segPaths = IF full /\ oldest.kind # "gap" THEN segPaths \ {oldest.id}
                                                           ELSE segPaths
      /\ shifted.partPaths = IF full THEN finished.partPaths \ PartsOf(oldest)
                                     ELSE finished.partPaths
      /\ shifted.hintPaths = IF full THEN finished.hintPaths \ PartsOf(oldest)
                                     ELSE finished.hintPaths
  BY <1>4, DeleteOldestFields
<1> HIDE DEF shifted, full, oldest
<1>6. /\ ready \in Stream
      /\ ready.segments = shifted.segments
      /\ ready.segmentDeleteCount = shifted.segmentDeleteCount
      /\ ready.nextSegment = NoSegment
      /\ ready.nextPart = finished.nextPart
      /\ ready.nextSegmentID = id
      /\ ready.nextPartID = finished.nextPartID
      /\ ready.segPaths = shifted.segPaths
      /\ ready.partPaths = shifted.partPaths
      /\ ready.hintPaths = shifted.hintPaths
  BY <1>5 DEF Stream
<1> HIDE DEF ready
<1>7. new = CASE exit = "initFile" -> shifted
              [] exit = "newFile" -> ready
              [] OTHER -> CreateSegment(ready)
  BY Zenon DEF RotateSegments, finished, taken, added, shifted, ready
<1> HIDE DEF new
<1>8. CASE exit = "initFile"
  BY <1>5, <1>7, <1>8 DEF new, id, finished, longer, full, oldest, segPaths
<1>9. CASE exit = "newFile"
  BY <1>5, <1>6, <1>7, <1>9 DEF new, id, finished, longer, full, oldest, segPaths
<1>10. CASE exit \notin {"initFile", "newFile"}
  <2>1. new = CreateSegment(ready)
    BY <1>7, <1>10
  <2>2. /\ new \in Stream
        /\ new.segments = ready.segments
        /\ new.segmentDeleteCount = ready.segmentDeleteCount
        /\ new.nextSegment = NewSegment(id)
        /\ new.nextPart = IF Variant = "MPEGTS" THEN NoPart ELSE finished.nextPartID
        /\ new.nextSegmentID = id
        /\ new.nextPartID = finished.nextPartID
        /\ new.segPaths = ready.segPaths
        /\ new.partPaths = ready.partPaths
        /\ new.hintPaths = ready.hintPaths
    BY <1>6, <2>1, CreateSegmentFields
  <2> QED
    BY <1>5, <1>6, <1>10, <2>2 DEF new, id, finished, longer, full, oldest, segPaths
<1> QED
  BY <1>8, <1>9, <1>10

--------------------------------------------------------------------------------
(***************************************************************************)
(* What the entries of a window contain.                                   *)
(***************************************************************************)

SegmentsIn(entries) ==
    {entries[i].id : i \in {j \in 1..Len(entries) : entries[j].kind = "segment"}}
PartsIn(entries) == UNION {PartsOf(entries[i]) : i \in 1..Len(entries)}

\* No two segments have the same identifier, no two entries a part in common.
DistinctSegments(entries) ==
    \A i, j \in 1..Len(entries) :
        entries[i].kind = "segment" /\ entries[j].kind = "segment" /\ i # j =>
            entries[i].id # entries[j].id
DisjointParts(entries) ==
    \A i, j \in 1..Len(entries) :
        i # j => PartsOf(entries[i]) \intersect PartsOf(entries[j]) = {}

LEMMA GapsContain ==
    /\ SegmentsIn(Gaps) = {} /\ PartsIn(Gaps) = {}
    /\ DistinctSegments(Gaps) /\ DisjointParts(Gaps)
<1>1. \A i \in 1..Len(Gaps) : Gaps[i].kind = "gap" /\ PartsOf(Gaps[i]) = {}
  BY GapsType, CountAssumption DEF Gaps, Gap, PartsOf
<1> QED
  BY <1>1 DEF SegmentsIn, PartsIn, DistinctSegments, DisjointParts

LEMMA EmptyContains ==
    /\ SegmentsIn(<< >>) = {} /\ PartsIn(<< >>) = {}
    /\ DistinctSegments(<< >>) /\ DisjointParts(<< >>)
  BY DEF SegmentsIn, PartsIn, DistinctSegments, DisjointParts

LEMMA AppendContains ==
    ASSUME NEW entries \in Seq(Segment), NEW segment \in Segment
    PROVE  LET longer == Append(entries, segment)
           IN  /\ SegmentsIn(longer) =
                    SegmentsIn(entries) \union IF segment.kind = "segment" THEN {segment.id} ELSE {}
               /\ PartsIn(longer) = PartsIn(entries) \union PartsOf(segment)
               /\ DistinctSegments(entries) /\ segment.id \notin SegmentsIn(entries) =>
                    DistinctSegments(longer)
               /\ DisjointParts(entries) /\ PartsIn(entries) \intersect PartsOf(segment) = {} =>
                    DisjointParts(longer)
<1> DEFINE longer == Append(entries, segment)
           n == Len(entries)
<1>1. /\ n \in Nat /\ Len(longer) = n + 1
      /\ \A i \in 1..n : longer[i] = entries[i]
      /\ longer[n + 1] = segment
      /\ \A i \in 1..n + 1 : i \in 1..n \/ i = n + 1
      /\ 1..n \subseteq 1..n + 1 /\ n + 1 \in 1..n + 1 /\ n + 1 \notin 1..n
  OBVIOUS
<1> HIDE DEF longer
<1>2. SegmentsIn(longer) =
        SegmentsIn(entries) \union IF segment.kind = "segment" THEN {segment.id} ELSE {}
  BY <1>1 DEF SegmentsIn
<1>3. PartsIn(longer) = PartsIn(entries) \union PartsOf(segment)
  BY <1>1 DEF PartsIn
<1>4. ASSUME DistinctSegments(entries), segment.id \notin SegmentsIn(entries)
      PROVE  DistinctSegments(longer)
  BY <1>1, <1>4 DEF DistinctSegments, SegmentsIn
<1>5. ASSUME DisjointParts(entries), PartsIn(entries) \intersect PartsOf(segment) = {}
      PROVE  DisjointParts(longer)
  <2>1. \A i \in 1..n : PartsOf(entries[i]) \intersect PartsOf(segment) = {}
    BY <1>5 DEF PartsIn
  <2> QED
    BY <1>1, <1>5, <2>1 DEF DisjointParts
<1> QED
  BY <1>2, <1>3, <1>4, <1>5 DEF longer

LEMMA TailContains ==
    ASSUME NEW entries \in Seq(Segment), entries # << >>,
           DistinctSegments(entries), DisjointParts(entries)
    PROVE  LET oldest == Head(entries)
           IN  /\ SegmentsIn(Tail(entries)) =
                    SegmentsIn(entries) \ IF oldest.kind = "segment" THEN {oldest.id} ELSE {}
               /\ PartsIn(Tail(entries)) = PartsIn(entries) \ PartsOf(oldest)
               /\ PartsOf(oldest) \subseteq PartsIn(entries)
               /\ DistinctSegments(Tail(entries)) /\ DisjointParts(Tail(entries))
<1> DEFINE rest == Tail(entries)
           n == Len(entries)
<1>1. /\ n \in Nat /\ n > 0 /\ Len(rest) = n - 1
      /\ \A i \in 1..n - 1 : rest[i] = entries[i + 1]
      /\ Head(entries) = entries[1]
  OBVIOUS
<1>2. /\ \A i \in 1..n : i # 1 => i - 1 \in 1..n - 1 /\ entries[i] = rest[i - 1]
      /\ \A i \in 1..n - 1 : i + 1 \in 1..n /\ i + 1 # 1 /\ rest[i] = entries[i + 1]
      /\ \A i, j \in 1..n - 1 : i # j => i + 1 # j + 1
      /\ 1 \in 1..n
  BY <1>1
<1> HIDE DEF rest
<1>3. SegmentsIn(rest) = SegmentsIn(entries) \ IF entries[1].kind = "segment" THEN {entries[1].id} ELSE {}
  <2>1. \A id \in SegmentsIn(rest) : id \in SegmentsIn(entries) /\ (entries[1].kind = "segment" => id # entries[1].id)
    BY <1>1, <1>2 DEF SegmentsIn, DistinctSegments
  <2>2. \A id \in SegmentsIn(entries) : id \in SegmentsIn(rest) \/ (entries[1].kind = "segment" /\ id = entries[1].id)
    BY <1>1, <1>2 DEF SegmentsIn
  <2> QED
    BY <2>1, <2>2
<1>4. PartsIn(rest) = PartsIn(entries) \ PartsOf(entries[1])
  <2>1. ASSUME NEW p \in PartsIn(rest)
        PROVE  p \in PartsIn(entries) /\ p \notin PartsOf(entries[1])
    <3>1. PICK i \in 1..n - 1 : p \in PartsOf(rest[i])
      BY <1>1 DEF PartsIn
    <3>2. i + 1 \in 1..n /\ i + 1 # 1 /\ p \in PartsOf(entries[i + 1])
      BY <1>2, <3>1
    <3>3. PartsOf(entries[i + 1]) \intersect PartsOf(entries[1]) = {}
      BY <1>2, <3>2 DEF DisjointParts
    <3> QED
      BY <3>2, <3>3 DEF PartsIn
  <2>2. \A p \in PartsIn(entries) : p \in PartsIn(rest) \/ p \in PartsOf(entries[1])
    BY <1>1, <1>2 DEF PartsIn
  <2> QED
    BY <2>1, <2>2
<1>5. PartsOf(entries[1]) \subseteq PartsIn(entries)
  BY <1>2 DEF PartsIn
<1>6. DistinctSegments(rest)
  <2> SUFFICES ASSUME NEW i \in 1..n - 1, NEW j \in 1..n - 1, i # j,
                      rest[i].kind = "segment", rest[j].kind = "segment"
               PROVE  rest[i].id # rest[j].id
    BY <1>1 DEF DistinctSegments
  <2>1. i + 1 \in 1..n /\ j + 1 \in 1..n /\ i + 1 # j + 1
    BY <1>2
  <2> QED
    BY <1>2, <2>1 DEF DistinctSegments
<1>7. DisjointParts(rest)
  <2> SUFFICES ASSUME NEW i \in 1..n - 1, NEW j \in 1..n - 1, i # j
               PROVE  PartsOf(rest[i]) \intersect PartsOf(rest[j]) = {}
    BY <1>1 DEF DisjointParts
  <2>1. i + 1 \in 1..n /\ j + 1 \in 1..n /\ i + 1 # j + 1
    BY <1>2
  <2> QED
    BY <1>2, <2>1 DEF DisjointParts
<1> QED
  BY <1>1, <1>3, <1>4, <1>5, <1>6, <1>7 DEF rest

--------------------------------------------------------------------------------
(***************************************************************************)
(* The paths of a stream.                                                  *)
(***************************************************************************)

\* Segments and parts are told apart by identifiers that have been used once,
\* and the next ones have not been used yet.
FreshSegments(st) ==
    /\ DistinctSegments(st.segments)
    /\ \A id \in SegmentsIn(st.segments) : id < st.nextSegmentID
    /\ \A i \in 1..Len(st.segments) : st.segments[i].kind # "none"
    /\ st.nextSegment # NoSegment =>
        st.nextSegment.kind = "segment" /\ st.nextSegment.id = st.nextSegmentID

FreshParts(st) ==
    /\ DisjointParts(st.segments)
    /\ PartsIn(st.segments) \intersect PartsOf(st.nextSegment) = {}
    /\ \A p \in PartsIn(st.segments) \union PartsOf(st.nextSegment) : p < st.nextPartID
    /\ st.nextPart # NoPart => st.nextPart = st.nextPartID /\ st.nextSegment # NoSegment
    /\ Variant = "MPEGTS" => st.nextPart = NoPart
    /\ ~LowLatency => st.nextSegment.parts = << >>

\* The table of paths is inductive with the freshness of the identifiers: a
\* path that is removed with its segment must not be the path of another one.
PathsInv(st) ==
    /\ FreshSegments(st) /\ FreshParts(st)
    /\ st.segPaths = SegmentsIn(st.segments)
    /\ st.partPaths = PartsIn(st.segments) \union PartsOf(st.nextSegment)
    /\ st.hintPaths = IF LowLatency /\ st.nextPartID > 0 THEN {st.nextPartID} ELSE {}

LEMMA PartsOfTypes ==
    /\ PartsOf(NoSegment) = {}
    /\ \A id : PartsOf(NewSegment(id)) = {}
    /\ \A segment \in Segment : PartsOf(segment) \subseteq Nat
    /\ \A segment \in Segment : segment.parts = << >> => PartsOf(segment) = {}
  BY DEF PartsOf, NoSegment, NewSegment, Segment

LEMMA AppendPartContains ==
    ASSUME NEW segment \in Segment, NEW p \in Nat
    PROVE  PartsOf([segment EXCEPT !.parts = Append(@, p)]) = PartsOf(segment) \union {p}
<1> DEFINE longer == Append(segment.parts, p)
           n == Len(segment.parts)
<1>1. segment.parts \in Seq(Nat)
  BY DEF Segment
<1>2. /\ n \in Nat /\ Len(longer) = n + 1
      /\ \A i \in 1..n : longer[i] = segment.parts[i]
      /\ longer[n + 1] = p
      /\ \A i \in 1..n + 1 : i \in 1..n \/ i = n + 1
      /\ 1..n \subseteq 1..n + 1 /\ n + 1 \in 1..n + 1
  BY <1>1
<1>3. [segment EXCEPT !.parts = Append(@, p)].parts = longer
  BY DEF Segment
<1> HIDE DEF longer
<1> QED
  BY <1>2, <1>3 DEF PartsOf

\* The streams of a new muxer have no paths.
LEMMA InitialPaths == PathsInv(InitialStream)
<1> DEFINE st == InitialStream
<1>1. /\ st.segments = << >> /\ st.nextSegment = NoSegment /\ st.nextPart = NoPart
      /\ st.nextPartID = 0 /\ st.segPaths = {} /\ st.partPaths = {} /\ st.hintPaths = {}
  BY DEF InitialStream
<1> HIDE DEF st
<1>2. FreshSegments(st) /\ FreshParts(st)
  BY <1>1, EmptyContains, PartsOfTypes DEF FreshSegments, FreshParts, NoSegment
<1> QED
  BY <1>1, <1>2, EmptyContains, PartsOfTypes DEF PathsInv, st

\* createFirstSegment changes no path, unless the segment that it replaces
\* has parts.
LEMMA CreateSegmentPaths ==
    ASSUME NEW st \in Stream, PathsInv(st), st.nextSegment.parts = << >>
    PROVE  PathsInv(CreateSegment(st))
<1> DEFINE new == CreateSegment(st)
<1>1. /\ new.segments = st.segments
      /\ new.nextSegment = NewSegment(st.nextSegmentID)
      /\ new.nextPart = IF Variant = "MPEGTS" THEN NoPart ELSE st.nextPartID
      /\ new.nextSegmentID = st.nextSegmentID
      /\ new.nextPartID = st.nextPartID
      /\ new.segPaths = st.segPaths
      /\ new.partPaths = st.partPaths
      /\ new.hintPaths = st.hintPaths
  BY CreateSegmentFields
<1> HIDE DEF new
<1>2. PartsOf(new.nextSegment) = {} /\ PartsOf(st.nextSegment) = {}
  BY <1>1, PartsOfTypes DEF Stream
<1>3. new.nextSegment.kind = "segment" /\ new.nextSegment.id = st.nextSegmentID
      /\ new.nextSegment.parts = << >> /\ new.nextSegment # NoSegment
  BY <1>1, SegmentTypes DEF NewSegment, Stream
<1>4. FreshSegments(new)
  BY <1>1, <1>3 DEF PathsInv, FreshSegments
<1>5. FreshParts(new)
  BY <1>1, <1>2, <1>3 DEF PathsInv, FreshParts
<1> QED
  BY <1>1, <1>2, <1>4, <1>5 DEF PathsInv, new

\* A part that ends without being published had no path to give up.
LEMMA EndPartPaths ==
    ASSUME NEW st \in Stream, PathsInv(st), ~LowLatency
    PROVE  PathsInv(EndPart(st))
<1> DEFINE new == EndPart(st)
<1>1. /\ new.segments = st.segments
      /\ new.nextSegment = st.nextSegment
      /\ new.nextPart = NoPart
      /\ new.nextSegmentID = st.nextSegmentID
      /\ new.nextPartID = st.nextPartID + 1
      /\ new.segPaths = st.segPaths
      /\ new.partPaths = st.partPaths
      /\ new.hintPaths = st.hintPaths
  BY EndPartFields
<1> HIDE DEF new
<1>2. \A p \in PartsIn(st.segments) \union PartsOf(st.nextSegment) : p < st.nextPartID + 1
  <2>1. st.nextPartID \in Nat /\ st.partPaths \subseteq Nat
    BY DEF Stream
  <2> QED
    BY <2>1 DEF PathsInv, FreshParts
<1>3. FreshSegments(new) /\ FreshParts(new)
  BY <1>1, <1>2 DEF PathsInv, FreshSegments, FreshParts
<1> QED
  BY <1>1, <1>3 DEF PathsInv, new

\* rotateParts binds the path of the part that has ended to it and the hint
\* to the path of the next one.
LEMMA RotatePartsPaths ==
    ASSUME NEW st \in Stream, PathsInv(st), NEW createNew \in BOOLEAN, NEW exit,
           ~PartFails(exit), st.nextPart # NoPart
    PROVE  PathsInv(RotateParts(st, createNew, exit))
<1> DEFINE new == RotateParts(st, createNew, exit)
           id == st.nextPartID + 1
<1>1. /\ new \in Stream
      /\ new.segments = st.segments
      /\ new.nextSegment = Ended(st)
      /\ new.nextPart = IF createNew THEN id ELSE NoPart
      /\ new.nextSegmentID = st.nextSegmentID
      /\ new.nextPartID = id
      /\ new.segPaths = st.segPaths
      /\ new.partPaths = IF LowLatency THEN (st.partPaths \union {st.nextPart}) \ {id}
                                       ELSE st.partPaths
      /\ new.hintPaths = IF LowLatency THEN (st.hintPaths \ {st.nextPart}) \union {id}
                                       ELSE st.hintPaths
  BY ZenonT(60), RotatePartsFields
<1> HIDE DEF new
<1>2. /\ st.nextPart = st.nextPartID /\ st.nextSegment # NoSegment
      /\ st.nextPartID \in Nat /\ st.nextSegment \in Segment
      /\ st.nextSegment.kind = "segment" /\ st.nextSegment.id = st.nextSegmentID
      /\ Variant # "MPEGTS"
  BY DEF PathsInv, FreshSegments, FreshParts, Stream
<1>3. /\ PartsOf(Ended(st)) = PartsOf(st.nextSegment) \union IF LowLatency THEN {st.nextPart} ELSE {}
      /\ Ended(st).kind = "segment" /\ Ended(st).id = st.nextSegmentID
      /\ ~LowLatency => Ended(st).parts = << >>
  <2>1. CASE LowLatency
    BY <1>2, <2>1, AppendPartContains DEF Ended, Segment
  <2>2. CASE ~LowLatency
    BY <1>2, <2>2 DEF Ended, PathsInv, FreshParts
  <2> QED
    BY <2>1, <2>2
<1>4. Ended(st) # NoSegment
  BY <1>3 DEF NoSegment
<1>5. /\ PartsIn(st.segments) \union PartsOf(st.nextSegment) \subseteq Nat
      /\ \A p \in PartsIn(st.segments) \union PartsOf(st.nextSegment) :
            p < st.nextPartID /\ p < id /\ p # id
      /\ st.nextPartID < id /\ st.nextPartID # id /\ id > 0
  <2>1. PartsIn(st.segments) \union PartsOf(st.nextSegment) \subseteq Nat
    BY DEF PathsInv, Stream
  <2>2. \A p \in PartsIn(st.segments) \union PartsOf(st.nextSegment) : p < st.nextPartID
    BY DEF PathsInv, FreshParts
  <2> QED
    BY <1>2, <2>1, <2>2
<1> HIDE DEF id
<1>6. FreshSegments(new)
  BY <1>1, <1>3 DEF PathsInv, FreshSegments
<1>7. FreshParts(new)
  <2>1. PartsIn(st.segments) \intersect PartsOf(Ended(st)) = {}
    BY <1>2, <1>3, <1>5 DEF PathsInv, FreshParts
  <2>2. \A p \in PartsIn(st.segments) \union PartsOf(Ended(st)) : p < id
    BY <1>2, <1>3, <1>5
  <2> QED
    BY <1>1, <1>2, <1>3, <1>4, <2>1, <2>2 DEF PathsInv, FreshParts
<1>8. new.partPaths = PartsIn(st.segments) \union PartsOf(Ended(st))
  BY <1>1, <1>2, <1>3, <1>5 DEF PathsInv
<1>9. new.hintPaths = IF LowLatency /\ id > 0 THEN {id} ELSE {}
  BY <1>1, <1>2, <1>5 DEF PathsInv
<1> QED
  BY <1>1, <1>6, <1>7, <1>8, <1>9 DEF PathsInv, new

\* The gaps have no paths.
LEMMA ShownContains ==
    ASSUME NEW st \in Stream
    PROVE  /\ Shown(st) \in Seq(Segment)
           /\ SegmentsIn(Shown(st)) = SegmentsIn(st.segments)
           /\ PartsIn(Shown(st)) = PartsIn(st.segments)
           /\ FreshSegments(st) => /\ DistinctSegments(Shown(st))
                                   /\ \A i \in 1..Len(Shown(st)) : Shown(st)[i].kind # "none"
           /\ DisjointParts(st.segments) => DisjointParts(Shown(st))
<1>1. CASE LowLatency /\ st.segments = << >>
  <2>1. \A i \in 1..Len(Gaps) : Gaps[i].kind # "none"
    BY GapsType, CountAssumption DEF Gaps, Gap
  <2> QED
    BY <1>1, <2>1, GapsType, GapsContain, EmptyContains DEF Shown
<1>2. CASE ~(LowLatency /\ st.segments = << >>)
  BY <1>2 DEF Shown, Stream, FreshSegments
<1> QED
  BY <1>1, <1>2

\* The window takes the segment that was being written, with its paths, and
\* the segment that leaves takes its own away and no others.
LEMMA ShiftPaths ==
    ASSUME NEW old \in Stream, PathsInv(old), old.nextSegment # NoSegment,
           NEW new \in Stream,
           new.nextSegmentID = old.nextSegmentID + 1,
           new.nextPartID = old.nextPartID,
           new.nextSegment \in {NoSegment, NewSegment(new.nextSegmentID)},
           new.nextPart # NoPart => new.nextPart = new.nextPartID /\ new.nextSegment # NoSegment,
           Variant = "MPEGTS" => new.nextPart = NoPart,
           LET longer == Append(Shown(old), old.nextSegment)
               full == Len(longer) > SegmentCount
               oldest == Head(longer)
               segPaths == old.segPaths \union {old.nextSegment.id}
           IN  /\ new.segments = IF full THEN Tail(longer) ELSE longer
               /\ new.segPaths = IF full /\ oldest.kind # "gap" THEN segPaths \ {oldest.id}
                                                                ELSE segPaths
               /\ new.partPaths = IF full THEN old.partPaths \ PartsOf(oldest) ELSE old.partPaths
               /\ new.hintPaths = IF full THEN old.hintPaths \ PartsOf(oldest) ELSE old.hintPaths
    PROVE  PathsInv(new)
<1> DEFINE longer == Append(Shown(old), old.nextSegment)
           full == Len(longer) > SegmentCount
           oldest == Head(longer)
           segPaths == old.segPaths \union {old.nextSegment.id}
<1>1. /\ old.nextSegment \in Segment /\ old.nextSegment.kind = "segment"
      /\ old.nextSegment.id = old.nextSegmentID
      /\ old.nextSegmentID \in Nat /\ old.nextPartID \in Nat
      /\ old.segPaths \subseteq Nat /\ old.partPaths \subseteq Nat
  BY DEF PathsInv, FreshSegments, Stream
<1>2. /\ Shown(old) \in Seq(Segment)
      /\ SegmentsIn(Shown(old)) = old.segPaths
      /\ PartsIn(Shown(old)) = PartsIn(old.segments)
      /\ DistinctSegments(Shown(old)) /\ DisjointParts(Shown(old))
      /\ \A i \in 1..Len(Shown(old)) : Shown(old)[i].kind # "none"
  BY ShownContains DEF PathsInv, FreshParts
<1>3. /\ old.nextSegmentID \notin old.segPaths
      /\ \A id \in old.segPaths : id < old.nextSegmentID
  BY <1>1 DEF PathsInv, FreshSegments
<1>4. /\ longer \in Seq(Segment) /\ longer # << >>
      /\ SegmentsIn(longer) = segPaths
      /\ PartsIn(longer) = old.partPaths
      /\ DistinctSegments(longer) /\ DisjointParts(longer)
  <2>1. longer \in Seq(Segment) /\ longer # << >>
    BY <1>1, <1>2
  <2>2. PartsIn(Shown(old)) \intersect PartsOf(old.nextSegment) = {}
    BY <1>2 DEF PathsInv, FreshParts
  <2> QED
    BY <1>1, <1>2, <1>3, <2>1, <2>2, AppendContains DEF PathsInv
<1>5. \A i \in 1..Len(longer) : longer[i].kind # "none"
  BY <1>1, <1>2
<1> HIDE DEF longer
<1>6. /\ new.segments \in Seq(Segment)
      /\ DistinctSegments(new.segments) /\ DisjointParts(new.segments)
      /\ \A i \in 1..Len(new.segments) : new.segments[i].kind # "none"
      /\ new.segPaths = SegmentsIn(new.segments)
      /\ new.partPaths = PartsIn(new.segments)
      /\ new.segPaths \subseteq segPaths /\ new.partPaths \subseteq old.partPaths
      /\ new.hintPaths = old.hintPaths
  <2>1. CASE full
    <3>1. new.segments = Tail(longer) /\ new.segments \in Seq(Segment)
      BY <1>4, <2>1 DEF longer
    <3>2. \A i \in 1..Len(new.segments) : new.segments[i].kind # "none"
      <4>1. /\ Len(longer) \in Nat
            /\ Len(Tail(longer)) = Len(longer) - 1
            /\ \A i \in 1..Len(longer) - 1 : Tail(longer)[i] = longer[i + 1]
        BY <1>4
      <4>2. \A i \in 1..Len(longer) - 1 : i + 1 \in 1..Len(longer)
        BY <4>1
      <4>3. ASSUME NEW i \in 1..Len(new.segments)
            PROVE  new.segments[i].kind # "none"
        <5>1. i \in 1..Len(longer) - 1 /\ new.segments[i] = longer[i + 1]
          BY ONLY <3>1, <4>1
        <5> QED
          BY ONLY <1>5, <4>2, <5>1
      <4> QED
        BY <4>3
    <3>3. oldest.kind \in {"segment", "gap"}
      <4>1. oldest = longer[1] /\ 1 \in 1..Len(longer)
        BY <1>4
      <4>2. longer[1] \in Segment /\ longer[1].kind # "none"
        BY <1>4, <1>5, <4>1
      <4> QED
        BY <4>1, <4>2 DEF Segment
    <3>4. /\ SegmentsIn(new.segments) =
                segPaths \ IF oldest.kind = "segment" THEN {oldest.id} ELSE {}
          /\ PartsIn(new.segments) = old.partPaths \ PartsOf(oldest)
          /\ PartsOf(oldest) \subseteq old.partPaths
          /\ DistinctSegments(new.segments) /\ DisjointParts(new.segments)
      BY ZenonT(60), <1>4, <3>1, TailContains
    <3>5. \A p \in PartsOf(oldest) : p \in Nat /\ p < old.nextPartID /\ p # old.nextPartID
      BY <1>1, <3>4 DEF PathsInv, FreshParts
    <3>6. old.hintPaths \ PartsOf(oldest) = old.hintPaths
      BY <3>5 DEF PathsInv
    <3>7. /\ new.segPaths = SegmentsIn(new.segments)
          /\ new.partPaths = PartsIn(new.segments)
          /\ new.hintPaths = old.hintPaths
      BY <2>1, <3>3, <3>4, <3>6 DEF longer
    <3> QED
      BY <3>1, <3>2, <3>4, <3>7
  <2>2. CASE ~full
    BY <1>4, <1>5, <2>2 DEF longer
  <2> QED
    BY <2>1, <2>2
<1>7. PartsOf(new.nextSegment) = {} /\ new.nextSegment.parts = << >>
  BY PartsOfTypes DEF NoSegment, NewSegment
<1>8. FreshSegments(new)
  <2>1. \A id \in SegmentsIn(new.segments) : id < new.nextSegmentID
    <3>1. \A id \in segPaths : id < old.nextSegmentID + 1
      BY <1>1, <1>3
    <3> QED
      BY <1>6, <3>1
  <2>2. new.nextSegment # NoSegment =>
            new.nextSegment.kind = "segment" /\ new.nextSegment.id = new.nextSegmentID
    BY DEF NewSegment
  <2> QED
    BY <1>6, <2>1, <2>2 DEF FreshSegments
<1>9. FreshParts(new)
  <2>1. \A p \in old.partPaths : p < old.nextPartID
    BY DEF PathsInv, FreshParts
  <2> QED
    BY <1>6, <1>7, <2>1 DEF FreshParts
<1> QED
  BY <1>6, <1>7, <1>8, <1>9 DEF PathsInv

\* rotateSegments keeps the table and the window together wherever it stops,
\* in an MPEG-TS or fMP4 stream; a Low-Latency stream must not fail.
LEMMA RotateSegmentsPaths ==
    ASSUME NEW st \in Stream, PathsInv(st), NEW faults, NEW exit \in SegmentExits(st, faults),
           LowLatency => ~PartFails(exit),
           Variant = "MPEGTS" => st.nextSegment # NoSegment
    PROVE  PathsInv(RotateSegments(st, exit))
<1> DEFINE finished == IF Variant = "MPEGTS" THEN st ELSE RotateParts(st, FALSE, exit)
           new == RotateSegments(st, exit)
<1>1. CASE PartFails(exit)
  <2>1. exit \notin {"segFinalize", "initFile", "newFile"}
    BY <1>1 DEF PartFails
  <2>2. Variant # "MPEGTS"
    BY <1>1 DEF SegmentExits, PartFails
  <2>3. new = RotateParts(st, FALSE, exit)
    BY <1>1, <2>1, <2>2, Zenon DEF RotateSegments
  <2>4. new = EndPart(st)
    BY <1>1, <2>3 DEF RotateParts
  <2> QED
    BY <1>1, <2>4, EndPartPaths
<1>2. CASE exit = "segFinalize"
  <2> DEFINE id == st.nextSegmentID + 1
  <2>1. ~PartFails(exit) /\ Variant = "MPEGTS"
    BY <1>2 DEF PartFails, SegmentExits
  <2>2. new = [st EXCEPT !.nextSegmentID = @ + 1, !.nextSegment = NoSegment]
    BY <1>2, <2>1, Zenon DEF RotateSegments
  <2>3. id \in Nat
    BY DEF Stream
  <2>4. new = [st EXCEPT !.nextSegmentID = id, !.nextSegment = NoSegment]
    BY <2>2
  <2> HIDE DEF id, new
  <2>5. /\ new.segments = st.segments
        /\ new.nextSegment = NoSegment
        /\ new.nextPart = st.nextPart
        /\ new.nextSegmentID = id
        /\ new.nextPartID = st.nextPartID
        /\ new.segPaths = st.segPaths
        /\ new.partPaths = st.partPaths
        /\ new.hintPaths = st.hintPaths
    BY <2>4 DEF Stream
  <2>6. ~LowLatency /\ PartsOf(st.nextSegment) = {}
    BY <2>1, PartsOfTypes DEF LowLatency, PathsInv, FreshParts, Stream
  <2>7. FreshSegments(new)
    <3>1. \A segment \in SegmentsIn(st.segments) : segment < id
      <4>1. SegmentsIn(st.segments) \subseteq Nat /\ st.nextSegmentID \in Nat
        BY DEF PathsInv, Stream
      <4> QED
        BY <4>1 DEF PathsInv, FreshSegments, id
    <3> QED
      BY <2>5, <3>1 DEF PathsInv, FreshSegments
  <2>8. FreshParts(new)
    BY <2>1, <2>5, <2>6, PartsOfTypes DEF PathsInv, FreshParts, NoSegment
  <2> QED
    BY <2>5, <2>6, <2>7, <2>8, PartsOfTypes DEF PathsInv, new
<1>3. CASE exit # "segFinalize" /\ ~PartFails(exit)
  <2>1. Variant # "MPEGTS" => st.nextPart # NoPart
    BY <1>3 DEF SegmentExits, PartFails
  <2>2. finished \in Stream /\ PathsInv(finished) /\ finished.nextPart = NoPart
        /\ finished.segments = st.segments /\ finished.segPaths = st.segPaths
        /\ finished.nextSegmentID = st.nextSegmentID
    <3>1. CASE Variant = "MPEGTS"
      BY <3>1 DEF PathsInv, FreshParts
    <3>2. CASE Variant # "MPEGTS"
      BY <1>3, <2>1, <3>2, RotatePartsPaths, RotatePartsFields
    <3> QED
      BY <3>1, <3>2
  <2>3. finished.nextSegment # NoSegment
    <3>1. CASE Variant = "MPEGTS"
      BY <3>1
    <3>2. CASE Variant # "MPEGTS"
      <4>1. finished.nextSegment = Ended(st) /\ st.nextSegment.kind = "segment"
            /\ st.nextSegment \in Segment
        BY <1>3, <2>1, <3>2, RotatePartsFields DEF PathsInv, FreshParts, FreshSegments, Stream
      <4>2. Ended(st).kind = "segment"
        BY <4>1 DEF Ended, Segment
      <4>3. Ended(st) # NoSegment
        BY <4>2 DEF NoSegment
      <4> QED
        BY <4>1, <4>3
    <3> QED
      BY <3>1, <3>2
  <2>4. Shown(finished) = Shown(st)
    BY <2>2 DEF Shown
  <2> DEFINE longer == Append(Shown(st), finished.nextSegment)
             full == Len(longer) > SegmentCount
             oldest == Head(longer)
             segPaths == st.segPaths \union {finished.nextSegment.id}
  <2>5. /\ new \in Stream
        /\ new.segments = IF full THEN Tail(longer) ELSE longer
        /\ new.nextSegment = IF exit \in {"initFile", "newFile"} THEN NoSegment
                                                 ELSE NewSegment(st.nextSegmentID + 1)
        /\ new.nextSegmentID = st.nextSegmentID + 1
        /\ new.nextPartID = finished.nextPartID
        /\ new.nextPart = IF exit \in {"initFile", "newFile"} THEN finished.nextPart
                          ELSE IF Variant = "MPEGTS" THEN NoPart ELSE finished.nextPartID
        /\ new.segPaths = IF full /\ oldest.kind # "gap" THEN segPaths \ {oldest.id}
                                                         ELSE segPaths
        /\ new.partPaths = IF full THEN finished.partPaths \ PartsOf(oldest)
                                   ELSE finished.partPaths
        /\ new.hintPaths = IF full THEN finished.hintPaths \ PartsOf(oldest)
                                   ELSE finished.hintPaths
    BY ZenonT(60), <1>3, <2>1, RotateSegmentsFields
  <2> HIDE DEF finished, new
  <2>6. new.nextSegmentID \in Nat
    BY <2>5 DEF Stream
  <2>7. /\ new.nextSegment \in {NoSegment, NewSegment(new.nextSegmentID)}
        /\ new.nextPart # NoPart => new.nextPart = new.nextPartID /\ new.nextSegment # NoSegment
        /\ Variant = "MPEGTS" => new.nextPart = NoPart
    BY <2>2, <2>5, <2>6, SegmentTypes
  <2> QED
    BY <2>2, <2>3, <2>4, <2>5, <2>7, ShiftPaths DEF new
<1> QED
  BY <1>1, <1>2, <1>3

--------------------------------------------------------------------------------
(***************************************************************************)
(* What a reader who follows the playlists of a stream relies on.          *)
(***************************************************************************)

\* A stream that nothing but the finalize() of a segment interrupts.
Followed(st) ==
    /\ PathsInv(st)
    /\ Variant # "MPEGTS" /\ st.nextSegment # NoSegment => st.nextPart # NoPart
    /\ LowLatency /\ st.segments # << >> => st.nextPartID > 0

\* Identifiers only grow, and a path that appears carries a new one.
Grows(old, new) ==
    /\ new.nextSegmentID >= old.nextSegmentID /\ new.nextPartID >= old.nextPartID
    /\ \A id \in new.segPaths : id \in old.segPaths \/ id >= old.nextSegmentID
    /\ \A id \in new.partPaths : id \in old.partPaths \/ id >= old.nextPartID

\* The window stays, ...
WindowStays(old, new) ==
    /\ new.segments = old.segments
    /\ new.segmentDeleteCount = old.segmentDeleteCount
    /\ new.nextSegmentID \in Nat

\* ... or takes the segment that was being written and drops one at most.
WindowMoves(old, new) ==
    \E added \in Segment :
        /\ added.kind = "segment" /\ added.id = old.nextSegmentID
        /\ old.nextSegment.id = old.nextSegmentID
        /\ new.nextSegmentID = old.nextSegmentID + 1
        /\ LET longer == Append(Shown(old), added)
           IN  \/ /\ new.segments = longer
                  /\ new.segmentDeleteCount = old.segmentDeleteCount
               \/ /\ new.segments = Tail(longer) /\ Len(longer) > SegmentCount
                  /\ new.segmentDeleteCount = old.segmentDeleteCount + 1

LEMMA InitialFollowed == InitialStream \in Stream /\ Followed(InitialStream)
<1>1. InitialStream.segments = << >> /\ InitialStream.nextSegment = NoSegment
  BY DEF InitialStream
<1> QED
  BY <1>1, InitialStreamInv, InitialPaths DEF Followed

LEMMA CreateSegmentFollowed ==
    ASSUME NEW st \in Stream, Followed(st), st.nextSegment = NoSegment
    PROVE  LET new == CreateFirstSegment(st, "done")
           IN  new \in Stream /\ Followed(new) /\ Grows(st, new) /\ WindowStays(st, new)
<1> DEFINE new == CreateSegment(st)
<1>1. CreateFirstSegment(st, "done") = new
  BY DEF CreateFirstSegment
<1>2. /\ new \in Stream
      /\ new.segments = st.segments
      /\ new.nextPart = IF Variant = "MPEGTS" THEN NoPart ELSE st.nextPartID
      /\ new.nextSegmentID = st.nextSegmentID
      /\ new.nextPartID = st.nextPartID
      /\ new.segmentDeleteCount = st.segmentDeleteCount
      /\ new.segPaths = st.segPaths
      /\ new.partPaths = st.partPaths
  BY CreateSegmentFields
<1>3. PathsInv(new)
  <2>1. st.nextSegment.parts = << >>
    BY DEF NoSegment
  <2> QED
    BY <2>1, CreateSegmentPaths DEF Followed
<1> HIDE DEF new
<1>4. st.nextPartID \in Nat /\ st.nextSegmentID \in Nat
  BY DEF Stream
<1>5. Followed(new)
  BY <1>2, <1>3, <1>4 DEF Followed, NoPart
<1> QED
  BY <1>1, <1>2, <1>4, <1>5 DEF Grows, WindowStays

LEMMA RotatePartsFollowed ==
    ASSUME NEW st \in Stream, Followed(st), Variant # "MPEGTS", st.nextSegment # NoSegment
    PROVE  LET new == RotateParts(st, TRUE, "done")
           IN  new \in Stream /\ Followed(new) /\ Grows(st, new) /\ WindowStays(st, new)
<1> DEFINE new == RotateParts(st, TRUE, "done")
<1>1. ~PartFails("done") /\ st.nextPart # NoPart
  BY DEF PartFails, Followed
<1>2. /\ new \in Stream
      /\ new.segments = st.segments
      /\ new.nextPart = st.nextPartID + 1
      /\ new.nextSegmentID = st.nextSegmentID
      /\ new.nextPartID = st.nextPartID + 1
      /\ new.segmentDeleteCount = st.segmentDeleteCount
      /\ new.segPaths = st.segPaths
      /\ new.partPaths \subseteq st.partPaths \union {st.nextPart}
  BY <1>1, RotatePartsFields, Zenon
<1>3. PathsInv(new)
  BY <1>1, RotatePartsPaths DEF Followed
<1> HIDE DEF new
<1>4. st.nextPartID \in Nat /\ st.nextSegmentID \in Nat /\ st.nextPart = st.nextPartID
  BY <1>1 DEF Stream, Followed, PathsInv, FreshParts
<1>5. Followed(new)
  BY <1>2, <1>3, <1>4 DEF Followed, NoPart
<1>6. Grows(st, new)
  <2>1. \A id \in new.partPaths : id \in st.partPaths \/ id = st.nextPartID
    BY <1>2, <1>4
  <2> QED
    BY <1>2, <1>4, <2>1 DEF Grows
<1>7. WindowStays(st, new)
  BY <1>2, <1>4 DEF WindowStays
<1> QED
  BY <1>2, <1>5, <1>6, <1>7 DEF new

\* The identifier of a segment that cannot be finalized is lost.
LEMMA FailedRotationFollowed ==
    ASSUME NEW st \in Stream, Followed(st), Variant = "MPEGTS", st.nextSegment # NoSegment
    PROVE  LET new == RotateSegments(st, "segFinalize")
           IN  new \in Stream /\ Followed(new) /\ Grows(st, new) /\ WindowStays(st, new)
<1> DEFINE new == RotateSegments(st, "segFinalize")
           id == st.nextSegmentID + 1
<1>1. "segFinalize" \in SegmentExits(st, {"segFinalize"}) /\ ~LowLatency
  BY DEF SegmentExits, LowLatency
<1>2. PathsInv(new)
  BY <1>1, RotateSegmentsPaths DEF Followed
<1>3. new = [st EXCEPT !.nextSegmentID = id, !.nextSegment = NoSegment]
  <2>1. ~PartFails("segFinalize")
    BY DEF PartFails
  <2> QED
    BY <2>1, Zenon DEF RotateSegments
<1>4. id \in Nat /\ id >= st.nextSegmentID
  BY DEF Stream
<1> HIDE DEF new, id
<1>5. /\ new \in Stream
      /\ new.segments = st.segments
      /\ new.nextSegmentID = id
      /\ new.nextPartID = st.nextPartID
      /\ new.segmentDeleteCount = st.segmentDeleteCount
      /\ new.segPaths = st.segPaths
      /\ new.partPaths = st.partPaths
  BY <1>3, <1>4, SegmentTypes DEF Stream
<1>6. Followed(new)
  BY <1>1, <1>2 DEF Followed, LowLatency
<1>7. st.nextPartID \in Nat
  BY DEF Stream
<1> QED
  BY <1>4, <1>5, <1>6, <1>7 DEF Grows, WindowStays, new

LEMMA RotateSegmentsFollowed ==
    ASSUME NEW st \in Stream, Followed(st), st.nextSegment # NoSegment
    PROVE  LET new == RotateSegments(st, "done")
           IN  new \in Stream /\ Followed(new) /\ Grows(st, new) /\ WindowMoves(st, new)
<1> DEFINE finished == IF Variant = "MPEGTS" THEN st ELSE RotateParts(st, FALSE, "done")
           new == RotateSegments(st, "done")
           longer == Append(Shown(st), finished.nextSegment)
           id == st.nextSegmentID
<1>1. ~PartFails("done") /\ (Variant # "MPEGTS" => st.nextPart # NoPart)
  BY DEF PartFails, Followed
<1>2. /\ id \in Nat /\ st.nextPartID \in Nat
      /\ st.nextSegment.kind = "segment" /\ st.nextSegment.id = id /\ st.nextSegment \in Segment
      /\ st.nextPart # NoPart => st.nextPart = st.nextPartID
  BY DEF Stream, Followed, PathsInv, FreshSegments, FreshParts
<1>3. /\ finished.nextSegment \in Segment
      /\ finished.nextSegment.kind = "segment" /\ finished.nextSegment.id = id
      /\ finished.nextPartID \in Nat /\ finished.nextPartID >= st.nextPartID
      /\ LowLatency => finished.nextPartID > 0
      /\ finished.partPaths \subseteq st.partPaths \union {st.nextPartID}
  <2>1. CASE Variant = "MPEGTS"
    BY <1>2, <2>1 DEF LowLatency
  <2>2. CASE Variant # "MPEGTS"
    <3>1. /\ finished \in Stream
          /\ finished.nextSegment = Ended(st)
          /\ finished.nextPartID = st.nextPartID + 1
          /\ finished.partPaths \subseteq st.partPaths \union {st.nextPart}
      BY <1>1, <2>2, RotatePartsFields, Zenon
    <3>2. Ended(st).kind = st.nextSegment.kind /\ Ended(st).id = st.nextSegment.id
      BY <1>2 DEF Ended, Segment
    <3> HIDE DEF finished
    <3> QED
      BY <1>1, <1>2, <2>2, <3>1, <3>2 DEF Stream
  <2> QED
    BY <2>1, <2>2
<1>4. /\ new \in Stream
      /\ new.segments = IF Len(longer) > SegmentCount THEN Tail(longer) ELSE longer
      /\ new.segmentDeleteCount =
            IF Len(longer) > SegmentCount THEN st.segmentDeleteCount + 1 ELSE st.segmentDeleteCount
      /\ new.nextSegment = NewSegment(id + 1)
      /\ new.nextSegmentID = id + 1
      /\ new.nextPartID = finished.nextPartID
      /\ new.nextPart = IF Variant = "MPEGTS" THEN NoPart ELSE finished.nextPartID
      /\ new.segPaths \subseteq st.segPaths \union {id}
      /\ new.partPaths \subseteq finished.partPaths
  <2> DEFINE full == Len(longer) > SegmentCount
             oldest == Head(longer)
             segPaths == st.segPaths \union {finished.nextSegment.id}
  <2>1. /\ new \in Stream
        /\ new.segments = IF full THEN Tail(longer) ELSE longer
        /\ new.segmentDeleteCount =
              IF full THEN st.segmentDeleteCount + 1 ELSE st.segmentDeleteCount
        /\ new.nextSegment = IF "done" \in {"initFile", "newFile"} THEN NoSegment
                                                                  ELSE NewSegment(id + 1)
        /\ new.nextSegmentID = id + 1
        /\ new.nextPartID = finished.nextPartID
        /\ new.nextPart = IF "done" \in {"initFile", "newFile"} THEN finished.nextPart
                          ELSE IF Variant = "MPEGTS" THEN NoPart ELSE finished.nextPartID
        /\ new.segPaths = IF full /\ oldest.kind # "gap" THEN segPaths \ {oldest.id}
                                                         ELSE segPaths
        /\ new.partPaths = IF full THEN finished.partPaths \ PartsOf(oldest)
                                   ELSE finished.partPaths
    BY ZenonT(60), <1>1, RotateSegmentsFields, "done" # "segFinalize"
  <2> HIDE DEF new, finished, longer, full, oldest
  <2>2. new.segPaths \subseteq segPaths /\ new.partPaths \subseteq finished.partPaths
    BY <2>1
  <2> QED
    BY <1>3, <2>1, <2>2 DEF full
<1>5. PathsInv(new)
  <2>1. "done" \in SegmentExits(st, {})
    BY <1>1 DEF SegmentExits
  <2> QED
    BY <1>1, <2>1, RotateSegmentsPaths DEF Followed
<1> HIDE DEF new, finished, longer
<1>6. Followed(new)
  BY <1>3, <1>4, <1>5 DEF Followed, NoPart
<1>7. Grows(st, new)
  BY <1>2, <1>3, <1>4 DEF Grows
<1>8. WindowMoves(st, new)
  BY <1>2, <1>3, <1>4 DEF WindowMoves, longer
<1> QED
  BY <1>4, <1>6, <1>7, <1>8 DEF new
================================================================================
