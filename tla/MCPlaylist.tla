------------------------------ MODULE MCPlaylist -------------------------------
(***************************************************************************)
(* An instance of Playlist and Index: a few lines for each kind of tag,    *)
(* among them those with an attribute missing, forbidden or wrong; muxers  *)
(* with up to three tracks.                                                *)
(***************************************************************************)
EXTENDS Index

Line(tag, attrs) == [tag |-> tag, attrs |-> attrs]

HeaderLines ==
    {Line("TARGETDURATION", "VALUE" :> Text), Line("TARGETDURATION", "VALUE" :> 0),
     Line("VERSION", "VALUE" :> Bad), Line("ENDLIST", Nothing), Line("DISCONTINUITY_SEQUENCE", "VALUE" :> 0),
     Line("SERVER_CONTROL", Nothing),
     Line("SERVER_CONTROL", ("CAN_BLOCK_RELOAD" :> YES) @@ ("PART_HOLD_BACK" :> 1)),
     Line("SERVER_CONTROL", ("CAN_BLOCK_RELOAD" :> NO) @@ ("PART_HOLD_BACK" :> 2) @@ ("CAN_SKIP_UNTIL" :> 3)),
     Line("SERVER_CONTROL", "CAN_SKIP_UNTIL" :> 3),
     Line("PART_INF", "PART_TARGET" :> 2), Line("PART_INF", Nothing),
     Line("MAP", "URI" :> Text), Line("MAP", "BYTERANGE" :> Text),
     Line("START", "TIME_OFFSET" :> 1), Line("START", "TIME_OFFSET" :> 3),
     Line("SKIP", "SKIPPED_SEGMENTS" :> 0),
     Line("PRELOAD_HINT", ("TYPE" :> Text) @@ ("URI" :> Text) @@ ("BYTERANGE_START" :> 0))}

SegmentLines ==
    {Line("PROGRAM_DATE_TIME", "VALUE" :> 2),
     Line("EXTINF", "DURATION" :> 1), Line("EXTINF", "DURATION" :> 2),
     Line("URI", Nothing),
     Line("PART", "DURATION" :> 2), Line("PART", ("DURATION" :> 1) @@ ("URI" :> Text)),
     Line("PART", ("DURATION" :> 3) @@ ("URI" :> Text) @@ ("GAP" :> NO) @@ ("INDEPENDENT" :> NO)),
     Line("KEY", ("METHOD" :> NONE) @@ ("URI" :> Text)), Line("KEY", "METHOD" :> AES128), Line("KEY", "URI" :> Text),
     Line("KEY", ("METHOD" :> AES128) @@ ("URI" :> Text)),
     Line("RENDITION_REPORT", ("URI" :> Text) @@ ("LAST_MSN" :> 0))}

VariantLines ==
    {Line("STREAM_INF", "URI" :> 0), Line("STREAM_INF", ("URI" :> Text) @@ ("CODECS" :> Text)),
     Line("STREAM_INF", ("URI" :> Text) @@ ("FRAME_RATE" :> 1))}

Grouped(type) == ("TYPE" :> type) @@ ("GROUP_ID" :> Text)

RenditionLines ==
    {Line("MEDIA", Grouped(type) @@ more) :
        type \in {AUDIO, SUBTITLES, CLOSED_CAPTIONS},
        more \in {Nothing, "URI" :> Text, "INSTREAM_ID" :> Text, "CHANNELS" :> Text, "DEFAULT" :> NO}}

TextLines == HeaderLines \union SegmentLines \union VariantLines \union RenditionLines

NewTrack(codec, name, language, default) ==
    [codec |-> codec, standard |-> TRUE, name |-> name, language |-> language, isDefault |-> default]

GivenText == 5     \* a name, and a language, that the application has given

SomeTracks ==
    {NewTrack(codec, 0, 0, NO) : codec \in {"H264", "AV1", "FLAC", "KLV"}}
        \union {NewTrack("MPEG4Audio", name, 0, default) : name \in {0, GivenText}, default \in {NO, YES}}
        \union {NewTrack("Opus", 0, GivenText, NO), [NewTrack("Opus", 0, 0, NO) EXCEPT !.standard = FALSE]}

Muxers ==
    {[variant |-> variant, segmentCount |-> count, tracks |-> tracks] :
        variant \in {"LL", "FMP4", "MPEGTS"}, count \in {3, 7},
        tracks \in UNION {[1..n -> SomeTracks] : n \in 0..3}}

================================================================================
