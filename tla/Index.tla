---------------------------------- MODULE Index ---------------------------------
(***************************************************************************)
(* The index of a muxer: which tracks Muxer.Start accepts and how it       *)
(* divides them into streams, the multivariant playlist that announces     *)
(* these, and what the primary downloader of a client makes of it.  What   *)
(* goes between them is a text, printed and read as Playlist says.         *)
(*                                                                         *)
(* A stream is known by its number, which stands for its URI.  Codec       *)
(* parameters are known as soon as the index is answered.                  *)
(***************************************************************************)
EXTENDS Playlist

Codecs == {"AV1", "VP9", "H265", "H264", "Opus", "MPEG4Audio", "FLAC", "KLV"}

\* A track has a codec, a clock rate that is standard or not, a name and a language, 0
\* when they are not given, and a mark as default.
Track == [codec : Codecs, standard : BOOLEAN, name : Nat, language : Nat, isDefault : {NO, YES}]

CONSTANTS
    Configurations, \* the muxers: variant, segmentCount and tracks
    MaxTracks       \* clientMaxTracksPerStream (10 in the code)

ASSUME IndexAssumption ==
    /\ MaxTracks \in Nat \ {0}
    /\ \A m \in Configurations :
        m.variant \in {"LL", "FMP4", "MPEGTS"} /\ m.segmentCount \in Nat /\ m.tracks \in Seq(Track)

VARIABLES
    muxer,      \* the configuration, if a muxer is there
    streams,    \* what Start has made of it, if anything
    received    \* the tracks that the client has found, if anything

indexVars == << muxer, streams, received >>

--------------------------------------------------------------------------------
(***************************************************************************)
(* The muxer.                                                              *)
(***************************************************************************)

IsVideo(codec) == codec \in {"AV1", "VP9", "H265", "H264"}

Videos(tracks) == {i \in 1..Len(tracks) : IsVideo(tracks[i].codec)}
Data(tracks) == {i \in 1..Len(tracks) : tracks[i].codec = "KLV"}
Audios(tracks) == (1..Len(tracks)) \ (Videos(tracks) \union Data(tracks))

\* What the variants can carry.
Carried(variant, tracks) ==
    /\ Cardinality(Videos(tracks)) <= 1
    /\ IF variant = "MPEGTS"
       THEN /\ Cardinality(Audios(tracks)) <= 1
            /\ Videos(tracks) \union Audios(tracks) # {}
            /\ \A i \in Videos(tracks) : tracks[i].codec = "H264"
            /\ \A i \in Audios(tracks) : tracks[i].codec = "MPEG4Audio"
       ELSE Data(tracks) = {}

DefaultAudios(tracks) == {i \in (1..Len(tracks)) \ Videos(tracks) : tracks[i].isDefault = YES}

Accepted(m) ==
    /\ m.tracks # << >>
    /\ \A i \in 1..Len(m.tracks) : m.tracks[i].standard
    /\ Carried(m.variant, m.tracks)
    /\ Cardinality(DefaultAudios(m.tracks)) <= 1
    /\ m.segmentCount >= IF m.variant = "LL" THEN 7 ELSE 3

\* Video leads, or else the first track that is not data.
leadingTrackIndex(tracks) ==
    IF Videos(tracks) # {} THEN Min(Videos(tracks)) ELSE Min(Audios(tracks))

isRendition(tracks, i) ==
    i # leadingTrackIndex(tracks) \/ (~IsVideo(tracks[i].codec) /\ Len(tracks) > 1)

\* The one that is marked, or else the first rendition.
isDefault(tracks, i) ==
    /\ isRendition(tracks, i)
    /\ IF DefaultAudios(tracks) # {} THEN i \in DefaultAudios(tracks)
       ELSE \A j \in 1..i - 1 : ~isRendition(tracks, j)

DefaultName(i) == 10 + i

NewStream(tracks, i) ==
    [tracks |-> << i >>,
     isLeading |-> i = leadingTrackIndex(tracks),
     isRendition |-> isRendition(tracks, i),
     name |-> IF ~isRendition(tracks, i) THEN 0 ELSE IF tracks[i].name # 0 THEN tracks[i].name ELSE DefaultName(i),
     language |-> tracks[i].language,
     isDefault |-> IF isDefault(tracks, i) THEN YES ELSE NO]

\* One stream with all tracks, or one for each.
NewStreams(m) ==
    LET all == [i \in 1..Len(m.tracks) |-> i]
    IN  IF m.variant = "MPEGTS"
        THEN << [tracks |-> all, isLeading |-> TRUE, isRendition |-> FALSE, name |-> 0, language |-> 0, isDefault |-> NO] >>
        ELSE [i \in DOMAIN all |-> NewStream(m.tracks, i)]

\* Muxer.Start.
StartMuxer ==
    /\ muxer # None /\ streams = None /\ Accepted(muxer[1])
    /\ streams' = Some(NewStreams(muxer[1]))
    /\ UNCHANGED << scan, playlist, muxer, received >>

--------------------------------------------------------------------------------
(***************************************************************************)
(* The index.  Of the codecs it is known whether the client supports them  *)
(* all; data has no codec.                                                 *)
(***************************************************************************)

Supported == 1
Unsupported == 2

checkSupport(codec) == codec \in {"H264", "H265", "MPEG4Audio", "Opus"}

CodecsOf(tracks) ==
    LET codecs == {tracks[i].codec : i \in Videos(tracks) \union Audios(tracks)}
    IN  IF codecs = {} THEN 0 ELSE IF \A c \in codecs : checkSupport(c) THEN Supported ELSE Unsupported

\* The attributes that are not zero, which are those that are kept.
Given(value) == [a \in {b \in DOMAIN value : value[b] # 0} |-> value[a]]

\* Mutant: the stream of the variant is given again.
renditionOfAgain(i, stream) ==
    Given([TYPE |-> AUDIO, GROUP_ID |-> Text, NAME |-> stream.name, LANGUAGE |-> stream.language,
           AUTOSELECT |-> YES, DEFAULT |-> stream.isDefault, URI |-> i])

\* The rendition in the stream of the variant has no URI.
renditionOf(i, stream) ==
    Given([TYPE |-> AUDIO, GROUP_ID |-> Text, NAME |-> stream.name, LANGUAGE |-> stream.language,
           AUTOSELECT |-> YES, DEFAULT |-> stream.isDefault, URI |-> IF stream.isLeading THEN 0 ELSE i])

Renditions(all) == {i \in 1..Len(all) : all[i].isRendition}
Leading(all) == CHOOSE i \in 1..Len(all) : all[i].isLeading

\* populateMultivariantPlaylist, stream by stream.
variantOf(tracks, all) ==
    Given([BANDWIDTH |-> Text, AVERAGE_BANDWIDTH |-> Text, CODECS |-> CodecsOf(tracks),
           RESOLUTION |-> IF Videos(tracks) = {} THEN 0 ELSE Text,
           FRAME_RATE |-> IF \E i \in Videos(tracks) : tracks[i].codec \in {"H264", "H265"} THEN Text ELSE 0,
           AUDIO |-> IF Renditions(all) = {} THEN 0 ELSE Text,
           URI |-> Leading(all)])

generateMultivariantPlaylist(m, all) ==
    LET listed(i) == IF all[i].isRendition THEN << renditionOf(i, all[i]) >> ELSE << >>
    IN  [kind |-> "multivariant",
         header |-> [VERSION |-> [VALUE |-> IF m.variant = "MPEGTS" THEN 3 ELSE 10], INDEPENDENT_SEGMENTS |-> Nothing],
         segments |-> << >>, parts |-> << >>, reports |-> << >>,
         variants |-> << variantOf(m.tracks, all) >>,
         renditions |-> FlattenSeq([i \in 1..Len(all) |-> listed(i)])]

\* handleMultivariantPlaylist, when the streams have content.
AnswerIndex ==
    /\ streams # None /\ playlist = None
    /\ playlist' = Some(generateMultivariantPlaylist(muxer[1], streams[1]))
    /\ UNCHANGED << scan, muxer, streams, received >>

--------------------------------------------------------------------------------
(***************************************************************************)
(* The client.                                                             *)
(***************************************************************************)

\* The first one of the variants with the greatest bandwidth that are supported; 0 when
\* none is.
pickLeadingPlaylist(variants) ==
    LET candidates == {i \in 1..Len(variants) : ~Has(variants[i], "CODECS") \/ variants[i]["CODECS"] = Supported}
        best == {i \in candidates : \A j \in candidates : variants[i]["BANDWIDTH"] >= variants[j]["BANDWIDTH"]}
    IN  IF best = {} THEN 0 ELSE Min(best)

\* The elements that pass a test, in their order.
Kept(seq, Test(_)) ==
    FlattenSeq([k \in 1..Len(seq) |-> IF Test(seq[k]) THEN << seq[k] >> ELSE << >>])

getRenditionsByGroup(renditions, group) ==
    Kept(renditions, LAMBDA rendition : rendition["GROUP_ID"] = group)

Attribute(value, a) == IF Has(value, a) THEN value[a] ELSE 0

\* What can be written into a container, and is found in it again; MPEG-TS has the
\* parameters of H264 with the samples only.
toContainer(variant) ==
    IF variant = "MPEGTS" THEN {"H264", "MPEG4Audio", "KLV"}
    ELSE {"AV1", "VP9", "H265", "H264", "Opus", "MPEG4Audio", "FLAC"}

fromContainer(variant, codec) == [codec |-> codec, known |-> ~(variant = "MPEGTS" /\ codec = "H264")]

\* The tracks that a processor finds in a stream; those of a rendition have what is said
\* of it.
TracksOf(stream, rendition) ==
    LET m == muxer[1]
        found == Kept(stream.tracks, LAMBDA i : m.tracks[i].codec \in toContainer(m.variant))
    IN  [k \in 1..Len(found) |->
            [track |-> found[k],
             codec |-> fromContainer(m.variant, m.tracks[found[k]].codec),
             name |-> Attribute(rendition, "NAME"),
             language |-> Attribute(rendition, "LANGUAGE"),
             isDefault |-> Attribute(rendition, "DEFAULT")]]

\* The streams of the index, the leading one first: where they are, and what is said of them.
IndexStreams(p) ==
    LET variant == p.variants[pickLeadingPlaylist(p.variants)]
        group == IF Has(variant, "AUDIO") THEN getRenditionsByGroup(p.renditions, variant["AUDIO"]) ELSE << >>
        others == Kept(group, LAMBDA rendition : Has(rendition, "URI"))
    IN  << [at |-> variant["URI"], rendition |-> Nothing] >>
            \o [k \in 1..Len(others) |-> [at |-> others[k]["URI"], rendition |-> others[k]]]

Refused == << >>

\* The group of the variant is not there.
Ungrouped(p, variant) ==
    Has(variant, "AUDIO") /\ getRenditionsByGroup(p.renditions, variant["AUDIO"]) = << >>

\* What the primary downloader finds in an index: tracks, or an error.
FindTracks(p) ==
    LET leading == pickLeadingPlaylist(p.variants)
    IN  IF leading = 0 \/ Ungrouped(p, p.variants[leading]) THEN Refused
        ELSE LET found == IndexStreams(p)
                 all == [k \in 1..Len(found) |-> TracksOf(streams[1][found[k].at], found[k].rendition)]
             IN  IF \E k \in 1..Len(all) : Len(all[k]) > MaxTracks THEN Refused ELSE FlattenSeq(all)

\* clientPrimaryDownloader.run, up to OnTracks.
DownloadIndex ==
    /\ streams # None /\ playlist # None /\ received = None
    /\ LET answer == Unmarshal("multivariant", Marshal(playlist[1]))
       IN  received' = Some(IF answer = None THEN Refused ELSE FindTracks(answer[1]))
    /\ UNCHANGED << scan, playlist, muxer, streams >>

--------------------------------------------------------------------------------
\* Without a muxer, playlists come from elsewhere.
IndexInit ==
    /\ Init
    /\ muxer \in {None} \union {Some(m) : m \in Configurations}
    /\ muxer # None => scan = Begin("multivariant")
    /\ streams = None /\ received = None

ReadElsewhere == muxer = None /\ Next /\ UNCHANGED indexVars

IndexNext == ReadElsewhere \/ StartMuxer \/ AnswerIndex \/ DownloadIndex

IndexSpec == IndexInit /\ [][IndexNext]_<< vars, indexVars >>

--------------------------------------------------------------------------------
(***************************************************************************)
(* Properties.                                                             *)
(***************************************************************************)

\* What the client is told of a track: nothing of the one that leads its stream, which is
\* that of the variant, or of those that share a stream.
Described(m, i) ==
    LET track == m.tracks[i]
        alone == m.variant # "MPEGTS" /\ i # leadingTrackIndex(m.tracks)
    IN  [track |-> i,
         codec |-> [codec |-> track.codec, known |-> m.variant # "MPEGTS" \/ track.codec # "H264"],
         name |-> IF ~alone THEN 0 ELSE IF track.name # 0 THEN track.name ELSE DefaultName(i),
         language |-> IF alone THEN track.language ELSE 0,
         isDefault |-> IF alone /\ (DefaultAudios(m.tracks) = {i}
                                    \/ (DefaultAudios(m.tracks) = {} /\ i = Min((1..Len(m.tracks)) \ Videos(m.tracks))
                                        /\ Videos(m.tracks) # {}))
                       THEN YES ELSE NO]

Shared(m) == IF m.variant = "MPEGTS" THEN Len(m.tracks) ELSE 1

\* A client that reads the index of a muxer gets each of its tracks once, with its name,
\* language and default mark, and players are offered one default; unless it has too many
\* tracks in a stream, or codecs that the client does not support, and then gets nothing.
TracksArrive ==
    received # None =>
        LET m == muxer[1]
            marked == {i \in Renditions(streams[1]) : streams[1][i].isDefault = YES}
        IN  /\ Renditions(streams[1]) # {} => Cardinality(marked) = 1
            /\ IF CodecsOf(m.tracks) = Unsupported \/ Shared(m) > MaxTracks
               THEN received[1] = Refused
               ELSE /\ ToSet(received[1]) = {Described(m, i) : i \in 1..Len(m.tracks)}
                    /\ Len(received[1]) = Len(m.tracks)
================================================================================
