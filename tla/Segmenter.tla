------------------------------- MODULE Segmenter -------------------------------
(***************************************************************************)
(* muxerSegmenter (src/muxer_segmenter.go) with the durations of what it   *)
(* cuts: it turns the samples of the tracks into parts and segments, and   *)
(* the leading stream announces how long they last at most                 *)
(* (src/muxer_stream.go).  Track 1 is the leading track.  An fMP4 stream   *)
(* has one track; all of them are cut where the leading one is.            *)
(*                                                                         *)
(* A duration is in the unit of Second, a timestamp in the unit of         *)
(* ClockRate.  The storage does not fail here; Muxer has rotations that do.*)
(***************************************************************************)
EXTENDS Integers, Sequences, FiniteSetsExt, SequencesExt

CONSTANTS
    Second, Millisecond,
    ClockRate,
    fmp4StartDTS,       \* what is added to timestamps (10 s)
    SegmentMin,         \* SegmentMinDuration
    PartMin,            \* PartMinDuration
    Step, Ceiling,      \* of the search for a part duration (5 ms, 5 s)
    SegmentCount,
    GapCount,           \* 7 in the code
    SkipTargets,        \* target durations that a delta update goes back (6 in the code)
    DurationRange,      \* 2^32: the duration of a sample is an uint32
    Muxers,             \* variant and codec of the leading track
    Deltas,             \* bounds: from a timestamp to the next, per track,
    MaxSamples          \* and the samples of each track

Tracks == 1..2

ASSUME SegmenterAssumption ==
    /\ {Second, Millisecond, ClockRate, SegmentMin, PartMin, Step, SegmentCount, SkipTargets,
        DurationRange} \subseteq Nat \ {0}
    /\ {fmp4StartDTS, Ceiling, GapCount} \subseteq Nat
    /\ Muxers \subseteq ({"LL", "FMP4"} \X {"H26x", "VP9", "AV1", "audio"})
                          \union ({"MPEGTS"} \X {"H26x", "audio"})
    /\ Deltas \in [Tracks -> SUBSET Int] /\ MaxSamples \in [Tracks -> Nat]

VARIABLES
    variant, codec,
    given,      \* per track, the last timestamp that the application has given
    written,    \* per track, how many samples
    found,      \* firstRandomAccessReceived of the leading track
    next,       \* per track, fmp4NextSample: a set of at most one sample
    end,        \* per track, where the last sample written ends: at most one time
    known,      \* fmp4SampleDurations
    adjusted,   \* fmp4AdjustedPartDuration
    frozen,     \* fmp4FreezeAdjustedPartDuration
    segment,    \* nextSegment of the leading stream: a set of at most one
    part,       \* nextPart of the leading stream
    segments,   \* the window of the leading stream
    target,     \* targetDuration and partTargetDuration
    partTarget,
    failed      \* whether a write has returned an error

input == << variant, codec, given, written >>
adjust == << known, adjusted, frozen >>
stream == << segment, part, segments, target, partTarget >>
vars == << input, found, next, end, adjust, stream, failed >>

Sample == [dts : Nat, random : BOOLEAN]

\* A part: how long it lasts, the durations of its leading samples, and the
\* part duration in force when it ended.  A segment: how its leading track
\* begins, nothing before it has a sample.
NewPart(t) == [start |-> t, lengths |-> {}]
NewSegment(t) == [start |-> t, parts |-> << >>, opening |-> "nothing"]
Gap(d) == [duration |-> d, parts |-> << >>, opening |-> "gap"]

PartType == [duration : Int, lengths : SUBSET Nat, allowed : Nat]
Openings == {"nothing", "random", "other"}

\* One type of all variables.
TypeOK ==
    /\ << variant, codec >> \in Muxers
    /\ given \in [Tracks -> Int] /\ written \in [Tracks -> Nat]
    /\ \A t \in Tracks :
        /\ next[t] \subseteq Sample /\ Cardinality(next[t]) <= 1
        /\ end[t] \subseteq Nat /\ Cardinality(end[t]) <= 1
    /\ known \subseteq Nat \ {0} /\ adjusted \in Nat
    /\ found \in BOOLEAN /\ frozen \in BOOLEAN /\ failed \in BOOLEAN
    /\ Cardinality(segment) <= 1
    /\ segment \subseteq [start : Int, parts : Seq(PartType), opening : Openings]
    /\ part \in [start : Int, lengths : SUBSET Nat]
    /\ segments \in Seq([duration : Nat \ {0}, parts : Seq(PartType), opening : Openings \union {"gap"}])
    /\ target \in Nat /\ partTarget \in Nat

Init ==
    /\ \E muxer \in Muxers : variant = muxer[1] /\ codec = muxer[2]
    /\ given = [t \in Tracks |-> 0] /\ written = [t \in Tracks |-> 0]
    /\ found = FALSE
    /\ next = [t \in Tracks |-> {}] /\ end = [t \in Tracks |-> {}]
    /\ known = {} /\ adjusted = 0 /\ frozen = FALSE
    /\ segment = {} /\ part = NewPart(0) /\ segments = << >>
    /\ target = 0 /\ partTarget = 0
    /\ failed = FALSE

--------------------------------------------------------------------------------
(***************************************************************************)
(* Conversions and the part duration.                                      *)
(***************************************************************************)

\* Rounds towards zero, as Go does.
Quotient(a, b) == IF a >= 0 THEN a \div b ELSE -((-a) \div b)

\* Avoids the overflow of v * m.
multiplyAndDivide(v, m, d) ==
    LET secs == Quotient(v, d)
    IN  secs * m + Quotient((v - secs * d) * m, d)

durationToTimestamp(d) == multiplyAndDivide(d, ClockRate, Second)
timestampToDuration(v) == multiplyAndDivide(v, Second, ClockRate)

RoundUp(v, unit) == ((v + unit - 1) \div unit) * unit

\* Mutant: the last sample of the part is forgotten.
partDurationIsCompatibleDown(partDuration, sampleDuration) ==
    /\ sampleDuration <= partDuration
    /\ partDuration > ((partDuration \div sampleDuration) * sampleDuration * 85) \div 100

\* A part of such samples ends with the first one that makes it long enough.
partDurationIsCompatible(partDuration, sampleDuration) ==
    /\ sampleDuration <= partDuration
    /\ partDuration > (RoundUp(partDuration, sampleDuration) * 85) \div 100

partDurationIsCompatibleWithAll(partDuration, sampleDurations) ==
    \A d \in sampleDurations : partDurationIsCompatible(partDuration, d)

findCompatiblePartDuration(sampleDurations) ==
    LET tried == {PartMin + k * Step : k \in 0..((Ceiling - PartMin) \div Step)}
        fit == {d \in tried : d < Ceiling /\ partDurationIsCompatibleWithAll(d, sampleDurations)}
    IN  IF fit # {} THEN Min(fit)
                    ELSE PartMin + Max({0, RoundUp(Ceiling - PartMin, Step)})

fmp4AdjustPartDuration(sampleDuration) ==
    IF variant # "LL" \/ frozen \/ sampleDuration \in known \union {0}
    THEN UNCHANGED << known, adjusted >>
    ELSE /\ known' = known \union {sampleDuration}
         /\ adjusted' = findCompatiblePartDuration(known')

--------------------------------------------------------------------------------
(***************************************************************************)
(* The leading stream.                                                     *)
(***************************************************************************)

\* Rounded to seconds, and to milliseconds from above.
targetDuration(window) ==
    Max({0} \union {(2 * seg.duration + Second) \div (2 * Second) : seg \in ToSet(window)})

partTargetDuration(window, parts) ==
    LET listed == (UNION {ToSet(seg.parts) : seg \in ToSet(window)}) \union ToSet(parts)
    IN  RoundUp(Max({0} \union {p.duration : p \in listed}), Millisecond)

Published(parts, p, t) ==
    IF variant = "LL"
    THEN Append(parts, [duration |-> t - p.start, lengths |-> p.lengths, allowed |-> adjusted'])
    ELSE parts

\* Mutant: the next part starts where the last one should have ended.
rotatePartsNominal(seg, p, t) ==
    LET parts == Published(seg.parts, p, t)
    IN  /\ segment' = {[seg EXCEPT !.parts = parts]}
        /\ part' = NewPart(p.start + adjusted')
        /\ partTarget' = partTargetDuration(segments, parts)
        /\ UNCHANGED << segments, target >>

rotateParts(seg, p, t) ==
    LET parts == Published(seg.parts, p, t)
    IN  /\ segment' = {[seg EXCEPT !.parts = parts]}
        /\ part' = NewPart(t)
        /\ partTarget' = partTargetDuration(segments, parts)
        /\ UNCHANGED << segments, target >>

\* Mutant: the target of the first segments is kept.
RaisedTargetOnce(window) == IF target = 0 THEN targetDuration(window) ELSE target

\* The target duration may only grow.
RaisedTarget(window) == Max({target, targetDuration(window)})

\* The last part ends, the segment enters the window, with the gaps when it is
\* the first one, and one entry leaves it.  "begins" is how the next one does.
rotateSegments(seg, p, t, begins) ==
    LET parts == IF variant = "MPEGTS" THEN << >> ELSE Published(seg.parts, p, t)
        done == [duration |-> t - seg.start, parts |-> parts, opening |-> seg.opening]
        gaps == IF variant = "LL" /\ segments = << >>
                THEN [i \in 1..GapCount |-> Gap(done.duration)] ELSE << >>
        window == segments \o gaps \o << done >>
    IN  /\ segments' = IF Len(window) > SegmentCount THEN Tail(window) ELSE window
        /\ segment' = {[NewSegment(t) EXCEPT !.opening = begins]}
        /\ part' = NewPart(t)
        /\ target' = RaisedTarget(segments')
        /\ partTarget' = IF variant = "MPEGTS" THEN 0 ELSE partTargetDuration(segments, parts)

\* Mutant: the boundary is made from the duration that was asked for.
skipBoundaryAsked == SkipTargets * SegmentMin

\* generateMediaPlaylistFMP4: a delta update shows as many segments as there are from
\* the oldest one to the skip boundary, and skips the others, the oldest.
skipBoundary == SkipTargets * target * Second

shown ==
    LET upTo(k) == FoldLeft(LAMBDA sum, seg : sum + seg.duration, 0, SubSeq(segments, 1, k))
    IN  Cardinality({k \in 1..Len(segments) : upTo(k) < skipBoundary})

skipped == Len(segments) - shown

--------------------------------------------------------------------------------
(***************************************************************************)
(* The samples.                                                            *)
(***************************************************************************)

\* Samples are skipped up to the first random access one, but for AV1; the
\* extractor of H26x timestamps refuses those that go back.
AcceptsVP9(random) == random \/ found
AcceptsH26x(dts, random) == (random \/ found) /\ (found => dts >= given[1])

\* The application gives a sample, later than the last one or not.  The other
\* track is an audio track.
Give(t, dts, random) ==
    /\ written[t] < MaxSamples[t]
    /\ t = 1 /\ codec = "VP9" => AcceptsVP9(random)
    /\ t = 1 /\ codec = "H26x" => AcceptsH26x(dts, random)
    /\ t = 2 \/ codec = "audio" => random
    /\ given' = [given EXCEPT ![t] = dts]
    /\ written' = [written EXCEPT ![t] = @ + 1]
    /\ found' = (found \/ t = 1)
    /\ UNCHANGED << variant, codec >>

Opened(seg, random) ==
    [seg EXCEPT !.opening = IF @ # "nothing" THEN @ ELSE IF random THEN "random" ELSE "other"]

\* fmp4WriteSample: a timestamp that is still negative is refused ...
WriteNegative(t, dts, random) ==
    /\ variant # "MPEGTS" /\ dts + durationToTimestamp(fmp4StartDTS) < 0
    /\ Give(t, dts, random)
    /\ failed' = TRUE
    /\ UNCHANGED << next, end, adjust, stream >>

\* ... the first sample waits for the next one ...
WriteFirst(t, dts, random) ==
    LET start == dts + durationToTimestamp(fmp4StartDTS)
    IN  /\ variant # "MPEGTS" /\ start >= 0 /\ next[t] = {}
        /\ Give(t, dts, random)
        /\ next' = [next EXCEPT ![t] = {[dts |-> start, random |-> random]}]
        /\ UNCHANGED << end, adjust, stream, failed >>

\* Mutant: the timestamp is not corrected, the duration is.
TakeUncorrected(t, sample, dts, random) ==
    LET start == dts + durationToTimestamp(fmp4StartDTS)
    IN  next' = [next EXCEPT ![t] = {[dts |-> start, random |-> random]}]

\* The new sample takes the place of the one that waits; a timestamp that goes
\* back is replaced.
Take(t, sample, dts, random) ==
    LET start == dts + durationToTimestamp(fmp4StartDTS)
    IN  next' = [next EXCEPT ![t] = {[dts |-> Max({start, sample.dts}), random |-> random]}]

Length(t, sample) == Max({0} \union {n.dts - sample.dts : n \in next'[t]}) % DurationRange

\* The sample goes into the part, unless the segment has no room for it.
WriteSample(t, sample, fits) ==
    /\ failed' = (failed \/ ~fits)
    /\ end' = IF fits THEN [end EXCEPT ![t] = {sample.dts + Length(t, sample)}] ELSE end

\* Mutants: it is enough that the segment is long enough, or that the sample is
\* a random access one.
SwitchAnywhere(random, t, seg) == t - seg.start >= SegmentMin
SwitchAtOnce(random, t, seg) == random /\ t - seg.start >= 0

\* The sample that waits would start a segment that can be played alone.
SwitchSegment(random, t, seg) == random /\ t - seg.start >= SegmentMin

\* ... and the leading one is written, starts the first segment, and cuts the
\* part or the segment where the next sample begins.
WriteLeading(dts, random) ==
    \E sample \in next[1], fits \in BOOLEAN :
        LET start == timestampToDuration(sample.dts)
            length == timestampToDuration(Length(1, sample))
            seg == IF segment = {} THEN NewSegment(start) ELSE CHOOSE s \in segment : TRUE
            p == IF segment = {} THEN NewPart(start) ELSE part
            fullSeg == Opened(seg, sample.random)
            fullPart == [p EXCEPT !.lengths = @ \union {length}]
        IN  /\ variant # "MPEGTS" /\ dts + durationToTimestamp(fmp4StartDTS) >= 0
            /\ Give(1, dts, random)
            /\ Take(1, sample, dts, random)
            /\ fmp4AdjustPartDuration(length)
            /\ WriteSample(1, sample, fits)
            /\ \E cut \in {timestampToDuration(n.dts) : n \in next'[1]} :
                \/ /\ ~fits
                   /\ segment' = {seg} /\ part' = p
                   /\ UNCHANGED << frozen, segments, target, partTarget >>
                \/ /\ fits /\ SwitchSegment(random, cut, seg)
                   /\ rotateSegments(fullSeg, fullPart, cut, "nothing")
                   /\ frozen' = TRUE
                \/ /\ fits /\ ~SwitchSegment(random, cut, seg)
                   /\ UNCHANGED frozen
                   /\ IF variant = "LL" /\ cut - p.start >= adjusted'
                      THEN rotateParts(fullSeg, fullPart, cut)
                      ELSE /\ segment' = {fullSeg} /\ part' = fullPart
                           /\ UNCHANGED << segments, target, partTarget >>

\* A sample of another track is dropped as long as there is no segment.
WriteOther(dts) ==
    \E sample \in next[2], fits \in BOOLEAN :
        /\ variant # "MPEGTS" /\ dts + durationToTimestamp(fmp4StartDTS) >= 0
        /\ Give(2, dts, TRUE)
        /\ Take(2, sample, dts, TRUE)
        /\ IF segment = {} THEN fits /\ UNCHANGED << end, failed >>
                           ELSE WriteSample(2, sample, fits)
        /\ UNCHANGED << adjust, stream >>

\* An MPEG-TS muxer writes samples as they come and rotates before it does.
WriteMPEGTS(dts, random) ==
    /\ variant = "MPEGTS"
    /\ Give(1, dts, random)
    /\ \E t \in {timestampToDuration(dts)}, fits \in BOOLEAN :
        LET seg == IF segment = {} THEN NewSegment(t) ELSE CHOOSE s \in segment : TRUE
        IN  /\ failed' = (failed \/ ~fits)
            /\ \/ /\ SwitchSegment(random, t, seg)
                  /\ rotateSegments(seg, part, t, IF fits THEN "random" ELSE "nothing")
               \/ /\ ~SwitchSegment(random, t, seg)
                  /\ segment' = {IF fits THEN Opened(seg, random) ELSE seg}
                  /\ UNCHANGED << part, segments, target, partTarget >>
    /\ UNCHANGED << next, end, adjust >>

Next ==
    \E t \in Tracks, d \in UNION {Deltas[u] : u \in Tracks}, random \in BOOLEAN :
        LET dts == given[t] + d
        IN  /\ d \in Deltas[t]
            /\ \/ WriteNegative(t, dts, random)
               \/ WriteFirst(t, dts, random)
               \/ t = 1 /\ WriteLeading(dts, random)
               \/ t = 2 /\ random /\ WriteOther(dts)
               \/ t = 1 /\ WriteMPEGTS(dts, random)

Spec == Init /\ [][Next]_vars

--------------------------------------------------------------------------------
(***************************************************************************)
(* Properties.                                                             *)
(***************************************************************************)

\* Until a write fails, a track has no hole and no overlap, although timestamps
\* may go back and may stand still: the sample that waits starts where the last
\* one that was written ends.
Continuous ==
    ~failed => \A t \in Tracks : \A n \in next[t], e \in end[t] : n.dts = e

\* The parts of a Low-Latency segment last as long as the segment.
PartsFillSegment ==
    variant = "LL" => \A seg \in ToSet(segments) :
        seg.opening # "gap" =>
            FoldLeft(LAMBDA sum, p : sum + p.duration, 0, seg.parts) = seg.duration

\* Until a write fails, every segment can be played alone, as the multivariant
\* playlist says (EXT-X-INDEPENDENT-SEGMENTS).  AV1 is left out: its samples are
\* not skipped up to the first random access one.
SegmentsIndependent ==
    ~failed /\ codec # "AV1" =>
        \A seg \in ToSet(segments) : seg.opening \in {"random", "gap"}

\* What the playlist lists is never longer than the targets it announces, while
\* segments come, go, and change their duration.
TargetsCover ==
    \A seg \in ToSet(segments) \union segment :
        /\ seg \notin segment => 2 * seg.duration < (2 * target + 1) * Second
        /\ \A p \in ToSet(seg.parts) : p.duration <= partTarget

\* A delta update shows the end of the stream, however longer segments become with
\* time; but nothing is shown, and TARGETDURATION is 0, which the client refuses, as
\* long as every segment has lasted less than half a second.
DeltaShowsEnd ==
    segments # << >> /\ (target > 0 \/ \E seg \in ToSet(segments) : 2 * seg.duration >= Second) =>
        skipped < Len(segments)

\* The parts that are not the last one of their segment.
FullParts ==
    (UNION {ToSet(seg.parts) : seg \in segment}) \union
    (UNION {ToSet(Front(seg.parts)) : seg \in {s \in ToSet(segments) : s.parts # << >>}})

\* What rounding adds to a part of such samples: one unit for each of them at most,
\* and none when a tick of the clock is a whole number of units.
Rounding(duration, d) == IF Second % ClockRate = 0 THEN 0 ELSE duration \div d

\* A full part whose samples all last d, a duration known before the part duration was
\* frozen, that ended when a part duration was in force which suits what was known.
Even(p, d) == d \in known /\ p.lengths = {d} /\ p.allowed < Ceiling

\* Such a part reaches the part duration in force, and that is more than 85% of it.
Similar(p) ==
    \A d \in known : Even(p, d) =>
        /\ p.allowed <= p.duration
        /\ 85 * (p.duration - Rounding(p.duration, d)) < 100 * p.allowed

\* Until a write fails, an even part q lasts more than 85% of an even part p, but for
\* rounding and whatever the frame rates, when the part duration in force at the end of q
\* was not below that at the end of p.
PartsAlike ==
    ~failed =>
        /\ \A p \in FullParts : Similar(p)
        /\ \A p, q \in FullParts : \A d, e \in known :
            Even(p, d) /\ Even(q, e) /\ p.allowed <= q.allowed =>
                85 * (p.duration - Rounding(p.duration, d)) < 100 * q.duration

\* muxer_segmenter.go:498: "iPhone iOS fails if part durations are less than 85% of
\* maximum part duration."  Even parts are alike, and the part duration never falls: a part
\* is thus more than 85% of every earlier one, and of a later one as long as the part
\* duration has not risen in between.  Where it has risen, an earlier part may last less
\* than 85% of a later one: samples of 803, 803, 1200 and 1200 ms make parts of 1.606 and
\* 2.4 s, and the code reports that the part duration has changed (muxer_stream.go:778).
\* It is said of every step, since a muxer starts without parts.
PartsSimilar == [][PartsAlike' /\ adjusted' >= adjusted]_vars
================================================================================
