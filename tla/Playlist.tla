-------------------------------- MODULE Playlist -------------------------------
(***************************************************************************)
(* The decoder and the encoder of playlists (src/pkg/playlist), by which   *)
(* the muxer and the client talk to each other.  A text is read line after *)
(* line: some tags belong to the playlist, some to the segment whose URI   *)
(* comes next, and a key stays in force until another one replaces it.     *)
(*                                                                         *)
(* A line is a tag with its attributes, and an attribute a number: a time, *)
(* YES or NO, 0 for an empty text or a zero, Text for any other text, Bad  *)
(* for what its parser refuses.  A tag without attributes but one value    *)
(* has it as VALUE.  What the program keeps of a tag is again a function   *)
(* on attributes, without those that have the zero value of their field.   *)
(*                                                                         *)
(* A time counts thirds of the last digit that is printed.                 *)
(***************************************************************************)
EXTENDS Integers, Sequences, FiniteSets, SequencesExt

CONSTANTS
    Lines,          \* the lines that a text may have,
    MaxSegments,    \* bounds: segments or variants read from it,
    MaxDetails      \* and tags, parts, reports and renditions around them

ASSUME PlaylistAssumption == MaxSegments \in Nat /\ MaxDetails \in Nat

VARIABLES
    scan,       \* what Unmarshal has got so far
    playlist    \* what it has returned, if anything

vars == << scan, playlist >>

NO == 0
YES == 1
Text == 1
Bad == -1

\* Values of METHOD, and of the TYPE of a rendition.
NONE == 1
AES128 == 2
AUDIO == 1
SUBTITLES == 2
CLOSED_CAPTIONS == 3

None == << >>
Some(x) == << x >>

\* What f says and, where it says nothing, what g says.
Over(f, g) == [x \in DOMAIN f \union DOMAIN g |-> IF x \in DOMAIN f THEN f[x] ELSE g[x]]

--------------------------------------------------------------------------------
(***************************************************************************)
(* The tags.                                                               *)
(***************************************************************************)

\* The attributes of a tag: those of which the zero value says nothing, those that
\* are kept whatever they say, and which of them are times or required.
Tag(plain, kept, times, required) ==
    [plain |-> plain, kept |-> kept, times |-> times, required |-> required]

Value == Tag({"VALUE"}, {}, {}, {})
Pointer == Tag({}, {"VALUE"}, {}, {"VALUE"})
Flag == Tag({}, {}, {}, {})

ServerControl == Tag({"CAN_BLOCK_RELOAD"}, {"PART_HOLD_BACK", "CAN_SKIP_UNTIL"},
                     {"PART_HOLD_BACK", "CAN_SKIP_UNTIL"}, {})
PartInf == Tag({"PART_TARGET"}, {}, {"PART_TARGET"}, {"PART_TARGET"})
Map == Tag({"URI"}, {"BYTERANGE"}, {}, {"URI"})
Start == Tag({"TIME_OFFSET"}, {}, {"TIME_OFFSET"}, {"TIME_OFFSET"})
Skip == Tag({}, {"SKIPPED_SEGMENTS"}, {}, {"SKIPPED_SEGMENTS"})
PreloadHint == Tag({"TYPE", "URI", "BYTERANGE_START"}, {"BYTERANGE_LENGTH"}, {}, {"TYPE", "URI"})
Part == Tag({"DURATION", "URI", "INDEPENDENT"}, {"BYTERANGE", "GAP"}, {"DURATION"}, {"DURATION", "URI"})
Key == Tag({"METHOD", "URI", "IV", "KEYFORMAT", "KEYFORMATVERSIONS"}, {}, {}, {})
RenditionReport == Tag({"URI"}, {"LAST_MSN", "LAST_PART"}, {}, {"URI", "LAST_MSN"})
Variant == Tag({"BANDWIDTH", "RESOLUTION", "VIDEO", "AUDIO", "SUBTITLES", "CLOSED_CAPTIONS", "URI"},
               {"AVERAGE_BANDWIDTH", "CODECS", "FRAME_RATE"}, {"FRAME_RATE"}, {"URI"})
Rendition == Tag({"TYPE", "GROUP_ID", "NAME", "LANGUAGE", "AUTOSELECT", "DEFAULT", "FORCED"},
                 {"CHANNELS", "URI", "INSTREAM_ID"}, {}, {"TYPE", "GROUP_ID"})

\* The tags of a media playlist, those of a segment, and those of a multivariant one.
MediaHeader ==
    [VERSION |-> Value, INDEPENDENT_SEGMENTS |-> Flag, ALLOW_CACHE |-> Pointer, TARGETDURATION |-> Value,
     SERVER_CONTROL |-> ServerControl, PART_INF |-> PartInf, MEDIA_SEQUENCE |-> Value,
     DISCONTINUITY_SEQUENCE |-> Pointer, PLAYLIST_TYPE |-> Pointer, MAP |-> Map, START |-> Start,
     SKIP |-> Skip, PRELOAD_HINT |-> PreloadHint, ENDLIST |-> Flag]

SegmentTags ==
    [DISCONTINUITY |-> Flag, GAP |-> Flag, PROGRAM_DATE_TIME |-> Tag({}, {"VALUE"}, {"VALUE"}, {"VALUE"}),
     BITRATE |-> Pointer, BYTERANGE |-> Pointer,
     EXTINF |-> Tag({"DURATION"}, {}, {"DURATION"}, {})]

MultivariantHeader == [VERSION |-> Value, INDEPENDENT_SEGMENTS |-> Flag, START |-> Start]

\* The URI of a segment is a line of its own, that of a variant part of its tag.
Tags ==
    Over([KEY |-> Key, PART |-> Part, RENDITION_REPORT |-> RenditionReport, URI |-> Flag,
          STREAM_INF |-> Variant, MEDIA |-> Rendition],
         Over(MediaHeader, SegmentTags))

\* A line has a tag that the decoder knows, and its attributes are numbers.
ASSUME LinesAssumption ==
    \A line \in Lines :
        line.tag \in DOMAIN Tags /\ \A a \in DOMAIN line.attrs : line.attrs[a] \in Nat \union {Bad}

Has(value, attribute) == attribute \in DOMAIN value

\* What the types of a rendition require and forbid.
RenditionValid(value) ==
    /\ value["TYPE"] = CLOSED_CAPTIONS => ~Has(value, "URI")
    /\ value["TYPE"] = SUBTITLES => Has(value, "URI")
    /\ Has(value, "INSTREAM_ID") <=> value["TYPE"] = CLOSED_CAPTIONS
    /\ Has(value, "CHANNELS") => value["TYPE"] = AUDIO

\* An encrypted segment needs the place of its key.
KeyValid(value) == Has(value, "METHOD") /\ value["METHOD"] # NONE => Has(value, "URI")

\* The attributes of a line that mean something; a part with a GAP has one, YES or NO.
Known(line) ==
    [a \in DOMAIN line.attrs \intersect (Tags[line.tag].plain \union Tags[line.tag].kept) |->
        IF line.tag = "PART" /\ a = "GAP" THEN YES ELSE line.attrs[a]]

unmarshal(line) ==
    [a \in {b \in DOMAIN Known(line) : b \in Tags[line.tag].kept \/ Known(line)[b] # 0} |-> Known(line)[a]]

\* The line has no error.
Valid(line) ==
    /\ \A a \in DOMAIN Known(line) : Known(line)[a] # Bad
    /\ Tags[line.tag].required \subseteq DOMAIN unmarshal(line)
    /\ line.tag = "MEDIA" => RenditionValid(unmarshal(line))
    /\ line.tag = "KEY" => KeyValid(unmarshal(line))

\* A time is printed with five digits, and a date with three.
Printed(time) == ((time + 1) \div 3) * 3
Truncated(time) == (time \div 3) * 3

Rounded(tag, value) ==
    [a \in DOMAIN value |->
        IF a \notin Tags[tag].times THEN value[a]
        ELSE IF tag = "PROGRAM_DATE_TIME" THEN Truncated(value[a])
        ELSE Printed(value[a])]

\* An attribute with a comma before it is no longer the one it was, but one of which
\* nobody knows.
Spoiled(value, attribute) ==
    Over([a \in DOMAIN value \ {attribute} |-> value[a]], [UNKNOWN |-> value[attribute]])

\* The first attribute of SERVER-CONTROL, printed with a comma although nothing is
\* before it when there is no CAN-BLOCK-RELOAD.
marshalServerControl(value) ==
    IF Has(value, "CAN_BLOCK_RELOAD") THEN value
    ELSE IF Has(value, "PART_HOLD_BACK") THEN Spoiled(value, "PART_HOLD_BACK")
    ELSE IF Has(value, "CAN_SKIP_UNTIL") THEN Spoiled(value, "CAN_SKIP_UNTIL")
    ELSE value

\* The method is printed always, an empty one too, and is alone when it is NONE.
marshalKey(value) ==
    IF ~Has(value, "METHOD") THEN Over(value, [METHOD |-> Bad])
    ELSE IF value["METHOD"] = NONE THEN [METHOD |-> NONE]
    ELSE value

marshal(tag, value) ==
    [tag |-> tag,
     attrs |-> CASE tag = "SERVER_CONTROL" -> marshalServerControl(Rounded(tag, value))
                 [] tag = "KEY" -> marshalKey(value)
                 [] tag = "STREAM_INF" -> Over(Rounded(tag, value), [CODECS |-> 0])   \* printed always
                 [] OTHER -> Rounded(tag, value)]

--------------------------------------------------------------------------------
(***************************************************************************)
(* Unmarshal.                                                              *)
(***************************************************************************)

Nothing == [a \in {} |-> 0]
NewSegment == [fields |-> Nothing, key |-> None, parts |-> << >>]

\* The numbers that have no "not set" are in every playlist.
EmptyHeader(kind) ==
    [tag \in IF kind = "media" THEN {"VERSION", "TARGETDURATION", "MEDIA_SEQUENCE"} ELSE {"VERSION"} |-> Nothing]

NewScan(kind, refused) ==
    [kind |-> kind, refused |-> refused, header |-> EmptyHeader(kind), segments |-> << >>,
     reports |-> << >>, variants |-> << >>, renditions |-> << >>,
     curSegment |-> NewSegment, curKey |-> None]

Begin(kind) == NewScan(kind, FALSE)
Refuse(s) == NewScan(s.kind, TRUE)

\* The tag replaces the one that was read before.
Replace(function, line) == Over([tag \in {line.tag} |-> unmarshal(line)], function)

HasDuration(segment) == Has(segment.fields, "EXTINF") /\ Has(segment.fields["EXTINF"], "DURATION")

\* What a line adds: a tag of the playlist or of the segment, an entry of a list, a part
\* of the segment, a key.
AddTag(s, line) == [s EXCEPT !.header = Replace(@, line)]
AddField(s, line) == [s EXCEPT !.curSegment.fields = Replace(@, line)]
AddTo(s, list, line) == [s EXCEPT ![list] = Append(@, unmarshal(line))]
AddPart(s, line) == [s EXCEPT !.curSegment.parts = Append(@, unmarshal(line))]
AddKey(s, line) == [s EXCEPT !.curKey = Some(unmarshal(line))]

\* EXTINF gives the segment the key in force.
ReadInf(s, line) == [AddField(s, line) EXCEPT !.curSegment.key = s.curKey]

\* The URI ends the segment, if it has a duration.
ReadURI(s) ==
    IF HasDuration(s.curSegment)
    THEN [s EXCEPT !.segments = Append(@, s.curSegment), !.curSegment = NewSegment]
    ELSE Refuse(s)

ReadLine(s, line) ==
    IF ~Valid(line) THEN Refuse(s)
    ELSE CASE line.tag = "KEY" -> AddKey(s, line)
           [] line.tag = "EXTINF" -> ReadInf(s, line)
           [] line.tag = "PART" -> AddPart(s, line)
           [] line.tag = "URI" -> ReadURI(s)
           [] line.tag = "RENDITION_REPORT" -> AddTo(s, "reports", line)
           [] line.tag = "STREAM_INF" -> AddTo(s, "variants", line)
           [] line.tag = "MEDIA" -> AddTo(s, "renditions", line)
           [] line.tag \in DOMAIN MediaHeader -> AddTag(s, line)
           [] OTHER -> AddField(s, line)

\* A playlist has a target duration and a segment, or a variant.
Complete(s) ==
    IF s.kind = "media" THEN Has(s.header["TARGETDURATION"], "VALUE") /\ s.segments # << >>
    ELSE s.variants # << >>

\* The parts that are left are those of the segment being written; the rest of it,
\* and the key, are forgotten.
Result(s) ==
    IF s.refused \/ ~Complete(s) THEN None
    ELSE Some([kind |-> s.kind, header |-> s.header, segments |-> s.segments, parts |-> s.curSegment.parts,
               reports |-> s.reports, variants |-> s.variants, renditions |-> s.renditions])

Unmarshal(kind, lines) == Result(FoldLeft(ReadLine, Begin(kind), lines))

--------------------------------------------------------------------------------
(***************************************************************************)
(* Marshal.                                                                *)
(***************************************************************************)

marshalTags(function, tags) ==
    FlattenSeq([i \in 1..Len(tags) |->
        IF Has(function, tags[i]) THEN << marshal(tags[i], function[tags[i]]) >> ELSE << >>])

marshalAll(tag, values) == [i \in 1..Len(values) |-> marshal(tag, values[i])]

\* MediaSegment.marshal.
marshalSegment(segment) ==
    marshalTags(segment.fields, << "DISCONTINUITY", "GAP", "PROGRAM_DATE_TIME", "BITRATE" >>)
        \o marshalAll("PART", segment.parts)
        \o marshalTags(segment.fields, << "EXTINF", "BYTERANGE" >>)
        \o << marshal("URI", Nothing) >>

\* The key printed last, before a segment.
prevKey(segments, i) ==
    LET keyed == {j \in 1..i - 1 : segments[j].key # None}
    IN  IF keyed = {} THEN None ELSE segments[Max(keyed)].key

\* Mutant: a key is printed when there has been none.
keyOnce(segments, i) ==
    IF segments[i].key # None /\ prevKey(segments, i) = None
    THEN marshalAll("KEY", segments[i].key) ELSE << >>

\* A key is printed where it differs from the one that is in force.
keyLines(segments, i) ==
    IF segments[i].key # None /\ segments[i].key # prevKey(segments, i)
    THEN marshalAll("KEY", segments[i].key) ELSE << >>

\* The two playlists, each in the order in which it is printed.
MediaLines(p) ==
    marshalTags(p.header, << "VERSION", "INDEPENDENT_SEGMENTS", "ALLOW_CACHE", "TARGETDURATION", "SERVER_CONTROL",
        "PART_INF", "MEDIA_SEQUENCE", "DISCONTINUITY_SEQUENCE", "PLAYLIST_TYPE", "MAP", "START", "SKIP" >>)
        \o FlattenSeq([i \in 1..Len(p.segments) |-> keyLines(p.segments, i) \o marshalSegment(p.segments[i])])
        \o marshalAll("PART", p.parts)
        \o marshalTags(p.header, << "PRELOAD_HINT" >>)
        \o marshalAll("RENDITION_REPORT", p.reports)
        \o marshalTags(p.header, << "ENDLIST" >>)

MultivariantLines(p) ==
    marshalTags(p.header, << "VERSION", "INDEPENDENT_SEGMENTS", "START" >>)
        \o marshalAll("MEDIA", p.renditions)
        \o marshalAll("STREAM_INF", p.variants)

Marshal(p) == IF p.kind = "media" THEN MediaLines(p) ELSE MultivariantLines(p)

--------------------------------------------------------------------------------
(***************************************************************************)
(* The behaviour: a text is read, one line at a time.                      *)
(***************************************************************************)

Init ==
    /\ \E kind \in {"media", "multivariant"} : scan = Begin(kind)
    /\ playlist = None

\* What surrounds the segments and variants; it is bounded, as they are.  A tag of the
\* playlist counts for two: it has nothing to do with the details of the segments.
Weight(segment) == Cardinality(DOMAIN segment.fields \ {"EXTINF"}) + Len(segment.parts)

Details(s) ==
    2 * Cardinality(DOMAIN s.header \ DOMAIN EmptyHeader(s.kind))
        + FoldLeft(LAMBDA sum, segment : sum + Weight(segment), Weight(s.curSegment), s.segments)
        + Len(s.reports) + Len(s.renditions)

Bounded(s) == Details(s) <= MaxDetails /\ Len(s.segments) + Len(s.variants) <= MaxSegments

\* One pass of the loop of Unmarshal.
Read(kind, tags) ==
    /\ playlist = None /\ ~scan.refused /\ scan.kind = kind
    /\ \E line \in Lines :
        /\ line.tag \in tags
        /\ LET next == ReadLine(scan, line) IN Bounded(next) /\ scan' = next
    /\ UNCHANGED playlist

ReadHeaderTag == Read("media", DOMAIN MediaHeader)
ReadSegmentTag == Read("media", DOMAIN SegmentTags)
ReadKey == Read("media", {"KEY"})
ReadPart == Read("media", {"PART"})
ReadSegment == Read("media", {"URI"})
ReadReport == Read("media", {"RENDITION_REPORT"})
ReadMultivariantTag == Read("multivariant", DOMAIN MultivariantHeader)
ReadVariant == Read("multivariant", {"STREAM_INF"})
ReadRendition == Read("multivariant", {"MEDIA"})

\* The text ends, and what is known of it is returned, or an error.
Return ==
    /\ playlist = None /\ ~scan.refused
    /\ playlist' = Result(scan)
    /\ scan' = Begin(scan.kind)

\* The application may change what it has read, or build a playlist of its own: here
\* a segment loses its key.
ClearKey ==
    /\ playlist # None
    /\ \E i \in 1..Len(playlist[1].segments) :
        /\ playlist[1].segments[i].key # None
        /\ playlist' = Some([playlist[1] EXCEPT !.segments[i].key = None])
    /\ UNCHANGED scan

Next ==
    ReadHeaderTag \/ ReadSegmentTag \/ ReadKey \/ ReadPart \/ ReadSegment \/ ReadReport
        \/ ReadMultivariantTag \/ ReadVariant \/ ReadRendition \/ Return \/ ClearKey

Spec == Init /\ [][Next]_vars

--------------------------------------------------------------------------------
(***************************************************************************)
(* Properties.                                                             *)
(***************************************************************************)

\* A time that is required is too short to be printed, or a key has no method.
Vanishes(tag, value) ==
    \/ \E a \in DOMAIN value : a \in Tags[tag].times \intersect Tags[tag].plain /\ Printed(value[a]) = 0
    \/ tag = "KEY" /\ ~Has(value, "METHOD")

SegmentUnreadable(segment) ==
    \/ \E tag \in DOMAIN segment.fields : Vanishes(tag, segment.fields[tag])
    \/ \E part \in Range(segment.parts) : Vanishes("PART", part)
    \/ segment.key # None /\ Vanishes("KEY", segment.key[1])

Unreadable(p) ==
    \/ \E tag \in DOMAIN p.header : Vanishes(tag, p.header[tag])
    \/ \E segment \in Range(p.segments) : SegmentUnreadable(segment)
    \/ \E part \in Range(p.parts) : Vanishes("PART", part)

\* What must be left of a tag: all but what a NONE makes meaningless, and what is known
\* to be lost, a hold-back, or else a skip boundary, without CAN-BLOCK-RELOAD.
Remains(tag, value) ==
    LET lost == CASE tag = "KEY" /\ value["METHOD"] = NONE -> DOMAIN value \ {"METHOD"}
                  [] tag = "SERVER_CONTROL" /\ ~Has(value, "CAN_BLOCK_RELOAD") ->
                        IF Has(value, "PART_HOLD_BACK") THEN {"PART_HOLD_BACK"} ELSE {"CAN_SKIP_UNTIL"}
                  [] OTHER -> {}
    IN  [a \in DOMAIN value \ lost |-> Rounded(tag, value)[a]]

\* A variant without codecs gets an empty one.
VariantRemains(value) == Over(Remains("STREAM_INF", value), [CODECS |-> 0])

AllRemain(tag, values) == [i \in 1..Len(values) |-> Remains(tag, values[i])]
FieldsRemain(fields) == [tag \in DOMAIN fields |-> Remains(tag, fields[tag])]

\* The key in force at a segment.
KeyInForce(segments, i) ==
    LET keyed == {j \in 1..i : segments[j].key # None}
    IN  IF keyed = {} THEN None ELSE AllRemain("KEY", segments[Max(keyed)].key)

\* A playlist that is printed and read again is the same, tag by tag, and segment by
\* segment with its parts and its key: times are rounded, a segment without a key is
\* encrypted with the one before it, a SERVER-CONTROL without CAN-BLOCK-RELOAD loses
\* an attribute.  Nobody reads it when a time that is required rounds to zero or a key
\* has no method, although it has been read once.
ReadBack ==
    playlist # None =>
        LET p == playlist[1]
            expected == [p EXCEPT
                !.header = FieldsRemain(@),
                !.segments = [i \in 1..Len(@) |-> [fields |-> FieldsRemain(@[i].fields),
                                                  key |-> KeyInForce(@, i),
                                                  parts |-> AllRemain("PART", @[i].parts)]],
                !.parts = AllRemain("PART", @),
                !.reports = AllRemain("RENDITION_REPORT", @),
                !.variants = [i \in 1..Len(@) |-> VariantRemains(@[i])],
                !.renditions = AllRemain("MEDIA", @)]
        IN  Unmarshal(p.kind, Marshal(p)) = IF Unreadable(p) THEN None ELSE Some(expected)
================================================================================
