# A TLA+ model of gohlslib

gohlslib is a Go library with two halves. The *muxer* turns samples into the
segments, parts and playlists of an HLS stream and serves them over HTTP. The
*client* downloads such a stream and hands its samples to callbacks. The modules
of this directory model both, and what goes between them: how a muxer cuts samples,
its streams, its storage and the requests they serve; the playlists; what a client
downloads from a server that moves on; and the goroutines of a client.

## The system

| part | state | operations | how it interacts |
|---|---|---|---|
| muxer (`muxer.go`) | streams, `closed`, one mutex, one condition variable | `Start`, `Write*`, `rotateParts`, `rotateSegments`, `createFirstSegment`, `Close`, multivariant playlist handler | calls every stream under the mutex, then `Broadcast` without it |
| stream (`muxer_stream.go`) | window of segments, segment and part being written, identifiers, deletion count | `rotateParts`, `rotateSegments`, `createFirstSegment`, `hasContent`, `hasPart`, media playlist handler, preload-hint handler | registers and removes paths in the server; its handlers sleep on the condition variable |
| HTTP table (`muxer_server.go`) | path -> handler, behind a lock of its own | register, unregister, lookup, handle | a handler is looked up under the lock and runs after it |
| segmenter (`muxer_segmenter.go`) | look-ahead sample per track, adjusted part duration | one write function per codec | decides when the muxer rotates |
| storage (`pkg/storage`) | files and parts, in memory or on disk | new file, new part, finalize, remove, readers | written by the rotation, read by handlers without a lock |
| client goroutines (`client*.go`) | channels between the primary downloader, a downloader and a processor per stream, a processor per track; a routine pool | download, parse, wait for tracks, start streaming, report errors, close | channels, a shared context, a shared time conversion |
| stream downloader (`client_stream_downloader.go`) | the playlist that is held, the last segment | read a playlist, choose and download a segment or the part of a preload hint | requests to the server, pushes to the segment queue |
| segment queue (`client_segment_queue.go`) | queue, two channels that are closed and replaced | push, pull, wait until short | between a downloader and its processor |
| playlists (`pkg/playlist`) | while reading: the segment and the key that are pending | text to structures and back | written by the muxer, read by the client |
| codec tables (`from_to_*.go`, `pkg/codecparams`) | none | codecs of containers to codecs of tracks and back, and to names | decide which tracks a muxer can carry and a client can play |

What is hard to test in it: requests that sleep while rotations happen; paths
that change hands from the hint to the part; a window whose sequence numbers are
counted in one place and compared in another; rotations that fail half-way
through the streams; the unlocked storage; a client that looks for its next segment
in a window that has moved since; two programs that must agree on what a text means;
and goroutines of the client that wait for one another while one of them has already
failed. `PROJECT.json` lists
each hazard at its line with the properties that watch it.

What makes each part correct:

* *muxer and streams*: players see a live window (entries keep their number,
  enter at the end, leave at the front); numbers in playlists and in blocking
  requests agree; the streams stay aligned; a request sleeps only for what is
  still to come, is woken when it comes, and gets what it asked for; no write
  and no request panics.
* *HTTP table*: exactly what the playlists list is served, by the right handler.
* *segmenter*: rotations at random access points, parts of compatible durations,
  timestamps that do not go back, delta updates that show the end.
* *storage*: a reader gets the bytes of its part, whatever is finalized or
  removed meanwhile.
* *client*: any error ends the client, nothing hangs; one time line for all
  streams; no data before the tracks are known, no segment before the last one is done.
* *stream downloader*: segments are played in order, none twice and none skipped; it
  gives up only for a reason; a stream that ends is played to its end.
* *playlists*: what is printed reads as what it was; the index of a muxer gives a
  client every track, once.
* *segment queue*: no announcement is missed; segments arrive in order, each one
  once, and never ahead of the allowance.

## Modules

| module | models |
|---|---|
| `MuxerStream` | the record of one stream and its methods, as operators from a stream to a stream |
| `Muxer` | the state machine: the goroutine that writes and closes, and the request goroutines; the properties |
| `LiveWindow` | the abstract specification: what a live media playlist promises to a player |
| `MCMuxer` | what requests ask for in the runs |
| `MuxerStreamProofs` | lemmas about the methods of a stream: types, numbers, paths, and what a reader who follows it relies on |
| `MuxerProofs` | theorems about the muxer: types, numbers, requests that wake up, handlers and writes that are safe; then what it shows: paths, windows, streams, answers |
| `Segmenter` | how the segmenter cuts samples into parts and segments, the durations that are announced, and what a delta update skips |
| `MCSegmenter` | the muxers and the timestamps of its run |
| `SegmenterProofs` | lemmas about its arithmetic, theorems about the segmenter |
| `Storage` | the file and the parts of one segment, in memory or on disk, and a reader |
| `StorageProofs` | theorems about what is written and what is served |
| `FoldProofs` | lemmas about the folds of the community modules: sums, sequences joined one behind the other, and lists made by leaving elements out |
| `SegmentQueue` | the queue between a downloader and a processor, critical section by critical section |
| `Pipe` | its abstract specification: a bounded FIFO |
| `Downloader` | composition: a stream of a muxer (`MuxerStream`) that is published, the stream downloader, and its queue (`SegmentQueue`) |
| `DownloaderProofs` | theorems about the queue, and about the composition: it implements the queue; what is downloaded, and why the downloads end |
| `Playlist` | the decoder and the encoder of both kinds of playlist |
| `Index` | composition: `Muxer.Start`, the multivariant playlist, its text (`Playlist`), and the primary downloader that reads it |
| `MCPlaylist` | the lines and the muxers of their runs |
| `PlaylistProofs` | theorems about both: what is printed is read again, and all tracks arrive |
| `Client` | the goroutines of a client, their channels, context and errors; the queue is a sequence, as `Pipe` allows |
| `MCClient` | the streams and containers of the runs |
| `ClientProofs` | theorems about the goroutines of a client |

### The muxer: state

`stream[s]` is a record with the fields of `muxerStream`. A segment is its
identifier and the identifiers of its parts; bytes, durations and dates are left
out, and nothing that is checked of `Muxer` depends on them. The path of a segment or part
contains the identifier of its stream, so that the one table of the muxer can be
kept as three sets per stream: `segPaths`, `partPaths` (bound to the part) and
`hintPaths` (bound to the preload-hint handler). `closed` stands for
`Muxer.closed` and for the flag of each stream, which `Close` sets together.

`owner` is the goroutine that calls `Write*` and `Close`: it writes; is about to
`Broadcast` after a rotation (`rotated`) or after `Close` (`closing`); has
closed; or has panicked, outside of the mutex or holding it (`stuck`). `req[r]`
is an HTTP request: what it asks for, its handler, where it is, how it ended.

### The muxer: actions

| action | code |
|---|---|
| `WriteFirst` | `Muxer.createFirstSegment`: no mutex, no `Broadcast` |
| `WriteRotatesParts`, `WriteRotatesSegments` | `Muxer.rotateParts`, `Muxer.rotateSegments` up to `Unlock`, with the playlists saved to the directory |
| `WritePanics` | a sample written to a part that is nil |
| `Close` | `Muxer.Close` up to `Unlock` |
| `Broadcast` | the `Broadcast` after each of them |
| `Receive` | `muxerServer.handle`: the lookup |
| `Serve` | one pass through the loop of a handler that takes the mutex: answer, or sleep |
| `OpenFile`, `TestBuffer`, `UseBuffer` | the handlers of segments and parts, which do not take the mutex |

Which write does what depends on timestamps and is left open: any sequence of
rotations that the segmenter can ask for is among the runs, and more. A write
that only adds a sample changes nothing here.

A rotation is one step although it changes the table of paths several times
without locking out the lookups. That loses nothing: a rotation changes each
path at most once, except for the hand-over of a hint, which replaces one
handler by another in one call; hence a lookup in the middle of a rotation finds
what it would find right before or right after it. A handler that sleeps or
that takes the mutex only sees whole rotations.

A rotation can stop half-way. `Faults` names the places: the `finalize()` of a
part or of an MPEG-TS segment, the init file, the storage of the next segment,
the saved playlists. `Outcomes` says how far each stream gets: the leading
stream goes first, the others follow in order, and the first that stops leaves
the later ones untouched. A `nil` part stops a rotation with a panic. There is
no `Broadcast` after an error, and no unlock after a panic, because the code has
neither.

Undefined behaviour: `partDisk.Reader` reads its field `buffer` twice while
another goroutine clears it. The model takes the two reads apart
(`TestBuffer`, `UseBuffer`) and lets the second one see either value, as the Go
memory model does; a compiler that merges the reads avoids the panic. In `Muxer` such a
request ends as `raced` and no property is about it; `Storage` says what it may get.

### The segmenter

`Muxer` leaves open which write rotates and has no time; `Segmenter` has time,
and leaves out requests, paths and failures of the storage. A state is what a
muxer keeps between two writes: per track the sample that waits for its duration
(`next`), the durations seen and the part duration made for them (`known`,
`adjusted`, `frozen`), and of the leading stream the segment and the part being
written, the window, and the targets. A part keeps the set of the durations of its
leading samples and the part duration in force when it ended, a segment whether
its leading track begins with a random access sample; the code keeps neither,
the properties do. Track 1 leads; track 2 is an audio track that is cut along.

| action | code |
|---|---|
| `WriteNegative`, `WriteFirst` | `fmp4WriteSample` up to its first two returns |
| `WriteLeading` | the rest of it for the leading track: first segment, part duration, `writeSample`, `rotateSegments` or `rotateParts` |
| `WriteOther` | the rest of it for another track |
| `WriteMPEGTS` | `writeH264` and `writeMPEG4Audio` of an MPEG-TS muxer, which rotate before they write |

Codecs differ in what they skip and in whether timestamps may go back
(`AcceptsH26x`, `AcceptsVP9`; AV1 skips nothing; audio samples are all random
access). Any write may find that the segment has no room for its sample. `skipped`
is how many entries the delta update for the current window leaves out.

### The storage

`Storage` is the life of one segment: the writer fills a part, lists it in Low-Latency,
allocates the next one behind it, finalizes the file, lists the segment, and removes it.
A part is written from its first byte to its last, and its first byte once more: that is
what the writer of a part does when it knows its size. On disk every byte goes to the file
and to a copy in memory, which `Finalize` drops; a write may fail in between.

| action | code |
|---|---|
| `Write`, `SeekAndWrite`, `WriteFails` | `doubleWriter`, and the writers of parts behind it |
| `ListPart`, `ListSegment`, `UnlistParts`, `UnlistSegment` | the paths, in `rotateParts` and `rotateSegments` |
| `NewPart`, `Finalize`, `DropBuffers`, `RemoveFile` | `fileDisk` and `fileRAM` |
| `Lookup`, `OpenSegment`, `TestBuffer`, `UseBuffer`, `OpenPart`, `ReadDisk`, `ReadRAM` | a handler: `Reader` of files and parts, `diskPartReader.Read`, `ramFileReader.Read` |

The reader has no lock; the only order between the two is that of the table of paths,
under whose mutex the handler was found. So a handler found before the path of the segment
was registered is *early*: `Finalize` may come between its two looks at the buffer. If the
part behind it had no path either, it is *unsized*: the size of the part, which the
writer stores without a lock, may be read as zero although the buffer is read as nil.

### The segment queue

A step is a critical section of the mutex, or a `select` that has become ready.
The channels `didPush` and `didPull`, closed and replaced, are counters: the copy
a goroutine waits for is closed when it differs from the current one. So the copy
that is made in one section and waited for after the unlock is in the model, and
with it the announcements that could be missed. Segments are numbered by their
push. The downloader pushes, waits until the queue is short (not in Low-Latency
mode), pushes the error that ends it, and leaves; the processor pulls, or fails.

### The stream downloader

`Downloader` puts three things side by side. The *server* is a stream of `MuxerStream`,
with gaps, a window, and rotations that lose an identifier when they fail; `ServerEnds`
stands for a server of another make, as a muxer of this library never ends its stream.
The *downloader* reads a playlist in one step and downloads what it lists in a later one,
so that the window moves in between. The *queue* is the module `SegmentQueue`, whose steps
the downloader takes as its own.

| action | code |
|---|---|
| `ReadFirstPlaylist`, `FirstPlaylistFails`, `ReadPlaylist` | `run`, `downloadPlaylist` |
| `DownloadSegment` | `downloadNextSegment` of `runTraditional`: by position the first time, by number later |
| `DownloadHint` | `runLowLatency`: the part of the preload hint |
| `DownloadRefused`, `DownloadBreaks` | their errors (`Verdict`), and those of requests |
| `QueueStep` | the rest of the queue: the wait until it is short, and the processor |

A payload is the identifier of what was asked for, or nothing: the server answers a path
that it does not know with status 200 and an empty body. A part has a duration and a
place in time, from which the date of a hint is computed. `published` and `downloads` are
histories, for the properties only.

### The playlists

A text is a sequence of lines, a line a tag with attributes, an attribute a number: a time,
YES or NO, text or no text, or something that its parser refuses. `Tags` says of every tag
which attributes it has, which of them are required, and for which the zero value means
"not there". `ReadLine` is one pass of the loop of `Unmarshal`; the actions apply it to
every line that the run offers, with `Return` at the end of the text, so that TLC builds
every text of a few lines. `Marshal` prints what has been read, comma for comma where the
code puts one too many, with times rounded to the digits that are printed. `ClearKey` is
a change that the application may make before it prints.

`Index` is what the two programs do with the multivariant playlist:

| action | code |
|---|---|
| `StartMuxer` | `Muxer.Start`: which tracks are accepted (`Accepted`), which one leads, which streams and renditions they become (`NewStreams`) |
| `AnswerIndex` | `handleMultivariantPlaylist`, `generateMultivariantPlaylist`, `populateMultivariantPlaylist` |
| `DownloadIndex` | `clientPrimaryDownloader.run`: the text is read, a variant is chosen (`pickLeadingPlaylist`), its renditions become streams, the processors find the tracks in them |
| `ReadElsewhere` | the texts of `Playlist`, when there is no muxer |

A codec is its name; the parameters of a codec are taken to be known when the index is
asked for. Of a list of codecs, only whether the client supports all of it is kept.

### The client

`pc` says where each goroutine of the pool is: `off` before `rp.add`, `failing`
when `run` has returned an error and the pool tries to pass it on, `exited` when
`wg.Done` has been called. `main` is `Client.run`.

| goroutine | actions | code |
|---|---|---|
| `Client.run` | `SelectDone`, `SelectError`, `PoolCancel`, `PoolWait` | `runInner`, `clientRoutinePool.close` |
| pool | `DropError`, `Released` | the `select` of `clientRoutinePool.add` |
| primary downloader | `PrimaryDownload`, `CollectTracks`, `SetTracks`, `StartStreaming`, `CollectError` | the loops of `clientPrimaryDownloader.run` |
| downloader | `DownloadPlaylist`, `StartProcessor`, `DownloadSegment`, `DownloadEnds`, `Throttle` | `clientStreamDownloader.run`, `runTraditional`, `runLowLatency` |
| fMP4 processor | `ParseInit`, `PullSegment`, `InitTimeConvFMP4`, `Stamp`, `Feed`, `JoinFMP4`, `PullError` | `clientStreamProcessorFMP4` |
| MPEG-TS processor | `PullSegment`, `HoldSample`, `InitTimeConvMPEGTS`, `PushSample`, `SegmentEnds`, `JoinMPEGTS`, `WaitMPEGTS`, `PullError` | `clientStreamProcessorMPEGTS` |
| track processor | `TrackEndsFMP4`; `TrackTakes`, `TrackEndsMPEGTS`; `TrackStops` | `clientTrackProcessorFMP4`, `...MPEGTS`, `clientTrack.handleData` |

A channel without a buffer is a step of its two goroutines. A `select` with the
context is an action and a release: where `run` waits for the context among other
things and fails, `Released` takes the goroutine to `exited`, because the pool
that has cancelled the context does not listen any more. `JoinFMP4` has no
release: `sync.WaitGroup.Wait` looks at nothing else.

What a segment holds is the order of the tracks of its samples (MPEG-TS) or part
tracks (fMP4); track 1 is the leading one. A download succeeds, fails, or finds
the end of the stream, at any time: which segment a playlist offers is in `Downloader`,
and here a playlist reload is one step with the download that follows it.
Decoding may fail at any sample. `handleData` sleeps until the time of the sample:
it takes as long as it likes, and fails when the difference is too big.

## Properties

### Muxer

| property | what it says |
|---|---|
| `TypeOK` | types |
| `NoLostWakeup` | unless a `Broadcast` is on its way, what a sleeping request waits for has not happened |
| `MediaSequenceNumbering` | the number of an entry counted from `EXT-X-MEDIA-SEQUENCE` is the identifier of its segment |
| `PathsMatchWindow` | the table of paths is exactly what the playlists list |
| `StreamsAligned` | the playlists of all streams are at the same segment and part |
| `BlockedOnFuture` | a blocking request sleeps only for a part that no playlist holds yet, or for a gap; but for one behind the end of the last segment, which sleeps until the segment being written ends (finding 2) |
| `PastEndIsNextPart` | what the comment in `hasPart` demands of that request; refuted |
| `HandleIsSafe`, `WriteIsSafe` | no request, no write panics on a nil segment or part, no request calls itself for ever |
| `ReloadHoldsPart` | a blocking request gets a playlist that shows the part it asked for |
| `HintKeepsPromise` | the address given as preload hint answers with that part, finished |
| `LiveWindows` | each stream implements `LiveWindow` |
| `SleepersAnswered`, `CloseReleases` | sleeping requests are answered, all of them after `Close` |

`LiveWindow` is the abstract specification. Its refinement mapping takes
`segmentDeleteCount` for `EXT-X-MEDIA-SEQUENCE`, `segments` for the entries and
the parts of `nextSegment` for the parts; every rotation, complete or not, must
be one of its steps or a stutter, and this for each stream.

### Segmenter

| property | what it says |
|---|---|
| `Continuous` | until a write fails, the tracks have no hole and no overlap, although timestamps go back or stand still |
| `PartsFillSegment` | the parts of a segment last as long as the segment |
| `SegmentsIndependent` | until a write fails, every segment starts with a random access sample (not claimed for AV1) |
| `TargetsCover` | no segment, rounded, and no part in the playlist is longer than the target that is announced |
| `DeltaShowsEnd` | a delta update never skips the whole window, however durations change |
| `PartsSimilar` | even parts, full parts of samples of one duration that was known before the freeze, are at least as long as the part duration in force at their end and less than 1/0.85 times as long, if that is below the ceiling of the search; each lasts more than 85 % of every even part that ended under no longer part duration, whatever the frame rates; and the part duration never falls. Where a tick of the clock is not a whole number of units, up to one unit for each sample is left out of account |

`TypeOK` of `Segmenter` also says that a finished segment lasts, which
`bandwidth()` divides by.

What does not hold and is not claimed: a part of samples of mixed durations, or
of a duration that was learned late or after the freeze, may last less than 85 %
of the part target, and so may an even part that ended before the part duration rose:
samples of 803, 803, 1200 and 1200 ms make even parts of 1.606 s and 2.4 s, the first
under a part duration of 1.375 s and the second under one of 2.05 s. `rotateParts` then
reports that the part duration has changed (`src/muxer_stream.go:778`).
A first sample of duration zero makes a part of duration zero, because the part
duration is still zero. The first segment of an AV1 muxer may start anywhere
although the multivariant playlist calls all segments independent. When every segment
has lasted less than half a second, `EXT-X-TARGETDURATION` is 0, which the decoder of this
library refuses, and a delta update shows nothing; `DeltaShowsEnd` leaves this out by
name. That a delta update only skips what is further away than its boundary does not
hold when durations differ: it counts from the oldest segment and skips the oldest.

### Storage

| property | what it says |
|---|---|
| `BytesServed` | a request gets the bytes that were written, of its part or of the whole, although the file is finalized and removed meanwhile, and fails only when the file is gone; but for a request for a part on disk that races with `Finalize`, which may panic or get nothing, never other bytes (finding 3) |
| `ReadsSafely` | without that exception: `Handle` can be called in parallel with `Write*()` and `Close()`; refuted |
| `CopiesAgree` | until a write fails, the copy in memory and the place in the file are the same, and a finalized file is its parts, one behind the other |

The race is `partDisk.Reader` (`src/pkg/storage/part_disk.go:36-37`), which tests the field
`buffer` and then uses it without a lock, while `fileDisk.Finalize`, in the goroutine that
writes, sets it to nil (`src/pkg/storage/file_disk.go:40-42`).

### Stream downloader

| property | what it says |
|---|---|
| `DownloadsInOrder` | the segments of a traditional stream are downloaded without a hole or a repetition, the parts of a Low-Latency stream in order; a payload is empty only if its path has left the server for good |
| `FailureIsTrue` | "end of stream", "not ready" and "too late" are said only when they are the case |
| `PartsDated` | the date of a part is when it starts, also behind a part that was missed |
| `EndReached` | when the server ends, downloader and processor end |
| `NoMissedAnnouncement`, `DownloadsThrottled`, `IsPipe`, `CancelReleases` | those of the queue, in the composition |

Known and not claimed otherwise: a Low-Latency client that reads every second playlist
misses every second part. A Low-Latency stream that ends gives "preload hint disappeared"
and not `ErrClientEOS`. A client that is behind the window of a stream that has ended gets
`ErrClientEOS` although there were segments it has not seen. A client that is slower
than the window gets an empty body with status 200.

### Playlists

| property | what it says |
|---|---|
| `ReadBack` | a playlist that is printed and read is the same, tag by tag, segment by segment, with keys and parts |
| `TracksArrive` | a client that reads the index of a muxer finds each of its tracks once, with name, language and default mark, and one rendition is the default; or there is a codec that the client refuses, or more tracks in a stream than it takes, and it gets none |

`ReadBack` names what is not the same, because the code does it: a hold-back, or a skip
boundary, is lost without CAN-BLOCK-RELOAD, as it is printed with a comma in front; a
METHOD of NONE drops the other attributes of a key, and a key without METHOD is read
but what is printed of it is refused; a segment whose key has been taken away reads as
encrypted with the key before it; a part with GAP=NO reads as a gap; a variant without
codecs is printed with `CODECS=""`, which reads as one empty codec, which the client
does not support; a required time that rounds to zero makes the text unreadable.
`TracksArrive` names that the leading track of a muxer without video loses its name,
language and default mark on the way, because its rendition has no URI and the stream of
the variant is not a rendition.

### Segment queue and client

| property | what it says |
|---|---|
| `NoMissedAnnouncement` | who sleeps on a channel that is open has nothing to wake up for |
| `DownloadsThrottled` | a traditional downloader starts a download with at most one segment waiting |
| `IsPipe` | the queue implements `Pipe` |
| `CancelReleases` | the context frees both sides |
| `DataAfterTracks` | the application gets data only when all streams have given their tracks, `OnTracks` has returned and the time conversion fits the container |
| `SegmentsJoined` | a processor asks for a segment only when its track processors are done with the last one |
| `ClosingNeverBlocks` | while the client ends, every goroutine can take a step of its own, so that none waits for the network or for another one that waits; but for those that are in a callback of the application, and for a processor whose wait group counts a track processor that is in its callback |
| `CloseEndsClient`, `FailureEndsClient` | `Close`, or the failure of any goroutine, ends all of them |
| `JoinsEnd` | the wait for the track processors ends |
| `StreamErrorEndsClient` | what finding 4 refutes |

The properties of the queue are checked in the run of `Downloader`.

## Runs

| run | instance | shows |
|---|---|---|
| `muxer_ll` | Low-Latency on disk, two streams, the second one leading, window 3, 2 gaps, no failures, one request, identifiers of segments up to 7 and of parts up to 8 | every property of a muxer that works, with its liveness |
| `muxer_fmp4_faults` | fMP4, two streams, window 3, on disk, all failures, two requests | paths, live windows and release by `Close` in spite of failures |
| `muxer_failed_rotation` | as `muxer_ll`, the file of the next segment may fail | finding 1 |
| `muxer_late_reload` | as `muxer_ll`, identifiers up to 5 and 6 | finding 2 |
| `segmenter` | Low-Latency VP9, fMP4 AV1, MPEG-TS H264 and AAC; up to 5 leading samples that last 0, 0.8 or 1.2 s or go back, and 2 others; window 3, 3 gaps, skip boundary of 2 targets | every property of the segmenter |
| `storage_race` | up to 2 parts of up to 2 bytes | finding 3 |
| `storage` | up to 3 parts of up to 3 bytes, calls of `Read` for 2, in memory and on disk, one reader | every property of the storage |
| `downloader` | all three variants, window 3, 2 gaps, failing rotations, identifiers up to 5, queue limit 1, start 2 and at most 2 from the end | every property of the downloader and of the queue |
| `playlist` | texts of the lines of `MCPlaylist`, with up to 2 segments or variants and 2 other lines around them; muxers with up to 3 tracks of 10 kinds, 2 tracks per stream at most for the client | every property of the playlists and of the index |
| `client_stream` | one stream of two tracks: fMP4, Low-Latency fMP4, or MPEG-TS; 2 segments of up to 2 samples, sample queues of 1, 1 sample held back | one stream from start to end, with its liveness |
| `client_renditions` | a leading stream and a rendition, fMP4, MPEG-TS or one of each; 1 segment of up to 1 sample | goroutines that wait for those of another stream |
| `client_hang` | one MPEG-TS stream | finding 4 |

**Bounds.** `MaxSegmentID` and `MaxPartID` stop the rotations; they are the only
bounds on a run of the muxer. With a window of 3 and identifiers up to 5 or 7 the gaps and the first
segments have left, which is when numbers, paths and deletions could start to
disagree; a window of 2 would be too short, as it refuses every request for a
segment before the last one, so that a part past the end never moves on. `GapCount` is 7 in the
code and 2 in the runs: gaps only ever occur in a row at the start, so that two
show one gap that leaves alone and one that leaves beside segments. Two streams
tell the leading stream, handled first, from the others, handled in order; the
leading one is the second so that this order is not the order of the streams.
Requests share no state but the condition variable, so that one shows every
interleaving with the owner; `muxer_fmp4_faults` has two because waking one of
many is the mistake that one request cannot show. What requests ask for covers
segments before, in and after the window and parts before and past the end.

In the segmenter, five samples of two durations, with segments of 1.2 s and parts of
1 s or more, make up to four segments, or parts of two samples before the end of a
segment; the window drops an entry, and the targets grow, in the second segment. 0.8 s
does not divide the part duration, which is what the search is about. A delta update
goes back 6 target durations in the code and 2 in the run, so that a window of 3 has
something to skip. The clock
is exact there, so that `PartsSimilar` has no margin in the run (`Rounding` is 0); with a
clock that is not, such as 90 kHz in nanoseconds, a part of n samples can be n units longer than n times
what each of them lasts, and the limit of 85 % can be missed by as much. The theorem
covers both. Gaps in a track of 2^32 ticks, which wrap, are left out.

In the storage, 3 parts have a first, a middle and a last one; parts of 0 to 3 bytes read
in twos end before, at and behind the end of a call.

In the downloader, a window of 3 and 5 identifiers let the window move past a client that
waits, by gaps, by segments and by identifiers that are lost. The client starts 3 from the
end in the code and fails more than 5 from it; 2 and 2 bring "too few", "too late" and
"not ready" into a window of 3. `MaxPushes` is more than the downloads that can be made.

In the playlists, two segments show what goes from one to the next (a key, a date, the
parts in front of a URI), two lines show one after another that replaces it or joins it.
The lines have, for each kind of tag, attributes that are there, missing, forbidden,
rounded to zero and wrong. In the index, three tracks show a leading track in front of,
between and behind renditions, marked and not; the limit of tracks in a stream is 10 in
the code and 2 in the run, so that it is reached.

In the client, `MaxSegments` and `MaxSamples` are bounds; `QueueSize` (100 in the code) and
`MaxHeld` (1000) are constants of it, 1 in the runs so that they are reached.
Two segments show one segment after another; two samples of two tracks show
every order of the tracks, a sample held back and a sample queue that is full;
one segment per stream is enough for the waits between two streams, which all
happen in the first one. The full liveness of two streams is beyond TLC (1.2
million states already with one sample each); `ClosingNeverBlocks` is the part of
it that an invariant can say: nobody is stuck while the client ends.

**Deadlock** is checked except where failures may leave the owner panicked, with
or without the mutex, and nothing else enabled, and in the runs of what
ends: samples, a segment, a text, a downloader, a client.

**Fairness.** `Broadcast` directly follows the unlock of a rotation or of
`Close`, in a goroutine that does not block, and a request that is ready runs as
long as its goroutine is scheduled: both get weak fairness. The mutex is only
held in single steps, so that weak fairness stands for acquiring it too.
Nothing makes the application write, close or send requests: those actions get
none, and the liveness properties do not depend on them.

The goroutines of a client get weak fairness one by one: they are runnable when
their action is enabled. A download gets it only once the context is cancelled:
the requests carry the context, but nothing bounds the time of an answer. The
callbacks of the application and the sleep of `handleData`, which is limited to
`clientMaxDTSSystemDiff`, are assumed to end; a callback that calls `Close` never
does. Nothing makes the application call `Close`.

In `Downloader`, the goroutines of the downloader and of the processor, and requests that
can be answered, get weak fairness, unlike in `Client`: `EndReached` is about a server
that answers. The context is cancelled when the processor has left or when the downloader
has left without a push, as the pool of the client does for a goroutine that fails. The
server gets none: it may stop publishing at any time, and need not end its stream.

## Findings

1. A rotation that cannot create the file of the next segment (`Muxer.Directory` is
   set: in memory it cannot fail) leaves `nextSegment` nil. `Handle`, which may be
   called in parallel, then panics in the handlers of the playlist
   (`src/muxer_stream.go:281`, `:557`). In the same
   family, seen in the model and documented by the hazards: after a part that
   cannot be finalized the hint handler finds itself under its own path and
   recurses for ever, and the next rotation panics with the mutex locked.
2. `hasPart` treats a part behind the end of a segment as part 0 of the next one, as the
   comment above it demands (`src/muxer_stream.go:287-289`), but looks for it in the
   finished segments only (`:290-294`): the segment being written was compared before
   (`:281-284`). Behind the last finished segment the request thus sleeps until the
   segment being written ends, although part 0 of that one is listed. It is
   answered in the end, and then finds that part (`ReloadHoldsPart`, `SleepersAnswered`).
3. `partDisk.Reader` tests `buffer` and then uses it (`src/pkg/storage/part_disk.go:36-37`),
   and `Finalize` sets it to nil in between (`src/pkg/storage/file_disk.go:40-42`): a
   request for a part on disk panics, although `Handle` may be called in parallel with
   writes and `Close` (`src/muxer.go:588`). In the same race a size that is read before it
   is set gives an empty answer with status 200.
4. An MPEG-TS stream has tracks when its first segment has been read. When that
   segment cannot be downloaded, the processor waits for the primary downloader to
   take its error (`src/client_stream_processor_mpegts.go:81`), which waits for
   its tracks (`src/client_primary_downloader.go:255`): the client does nothing
   until `Close`. An error of a rendition waits in the same way while the leading
   stream goes on; that is by design of the loop and not claimed otherwise.

Two more were seen in the models and have no run of their own:

* The client reads AV1, VP9 and FLAC, says the README of the library (`src/README.md:20`)
  and say its processors, but the primary downloader refuses an index that names them
  (`src/client_primary_downloader.go:14-25`): such a stream of a muxer of this library
  can only be played through the address of its media playlist. `TracksArrive` names this
  case (`Unsupported`).
* The primary downloader keeps the last of the errors of the streams
  (`src/client_primary_downloader.go:280-288`, `CollectError`). When the leading stream
  fails and the rendition then reaches its end, `Wait2` returns `ErrClientEOS`, of which
  `src/client.go:29` says that it is returned "when the stream has ended".

What is listed under Segmenter, Storage, Stream downloader and Playlists among the
properties as not claimed is good to know, too.

## Proofs

### Muxer

TLAPS proves, for every number of streams, window, set of requests and targets,
and without the bounds of the runs (they only restrict rotations):

| theorem | assumes | states |
|---|---|---|
| `TypeCorrect` | nothing | `Spec => []TypeOK` |
| `NumberingCorrect` | `IdentifiersKept` | `Spec => []MediaSequenceNumbering` |
| `WritesAreSafe` | no failures | `Spec => []WriteIsSafe` |
| `NoWakeupIsLost` | no failures | `Spec => []NoLostWakeup` |
| `HandlersAreSafe` | no failures | `Spec => []HandleIsSafe` |
| `PathsCorrect` | `Undisturbed` | `Spec => []PathsMatchWindow` |
| `StreamsAreWindows` | `IdentifiersKept`, `Undisturbed` | `Spec => LiveWindows` |
| `StreamsStayAligned` | no failures | `Spec => []StreamsAligned` |
| `BlockedRequestsWait` | no failures | `Spec => []BlockedOnFuture` |
| `ReloadsHoldTheirPart` | nothing | `Spec => ReloadHoldsPart` |
| `HintsKeepTheirPromise` | `Undisturbed` | `Spec => HintKeepsPromise` |

The assumptions on failures are those under which the code keeps the promise.
`IdentifiersKept` excludes the failing `finalize()` of an MPEG-TS segment, which
loses an identifier; `Undisturbed` excludes failures in Low-Latency (and nothing
in the other variants), where a part that cannot be finalized keeps the path of
the hint, and a segment that is replaced leaves its parts in the table. The constants are as constrained by `VariantAssumption`, `CountAssumption`,
`StreamsAssumption` and `EnvironmentAssumption`, which restate the checks of
`Muxer.Start`.

* *Numbering* is inductive as `StreamInv`: the window is numbered (`Numbered`),
  an empty window has lost nothing and starts at the first identifier, and a
  part being written has a segment and the current part identifier. The first
  extra fact is needed when the gaps enter together with the first segment; the
  second when a part is published into its segment. `MuxerStreamProofs` shows
  that each method keeps it, wherever the method stops; `MuxerProofs` lifts this
  to the streams of a muxer. The assumption is there because the code takes the
  next identifier before an MPEG-TS segment is flushed.
* *Writes are safe* by `SteadyInv`: either no stream has started, or all of them
  have a segment and a part to write to.
* *No wakeup is lost*: a rotation or `Close` puts the owner right before a
  `Broadcast`, after which nobody sleeps; a handler goes to sleep only if its
  answer is not there; and `createFirstSegment`, the one change without a
  `Broadcast`, happens only while every window is empty, when it turns no answer
  from "wait" into anything else (`FirstSegmentWakesNobody`).
* *Handlers are safe* because a playlist with content has a segment being
  written, and because the only path bound to the hint handler is the one of the
  part to come (`HintInv`), so that a woken handler never finds itself.
* *Paths*: `PathsInv` says what the three sets of paths are, and that identifiers
  are fresh: no two segments of the window, nor the one being written, share an
  identifier or a part, and all are below the next ones. Without this the removal
  of the oldest segment could take the path of another one with it.
* *Windows*: `NextShows` says what a step does to one stream, in its own terms: the
  window stays, a part is added to the segment being written, or that segment enters
  the window and at most one entry leaves it. Each is a step of `LiveWindow` under the
  refinement mapping (`SameWindowMaps`, `PartAddedMaps`, `SegmentAddedMaps`).
  That mapping needs the numbers (`WindowInv`) and the paths' freshness.
* *Streams stay aligned* because a rotation that fails nowhere does the same to all
  (`AlignedInv`); between the first segments and the first rotation this rests on
  `SteadyInv`.
* *Blocking requests*: what `hasPart` finds is where players count it to be
  (`AnsweredIsShown`), whatever fails, because the numbers of a Low-Latency stream are
  always right; what it does not find is not listed, is a gap, or is behind the end of the
  last segment (`WaitsForFuture`), if every segment of the window has parts (`FilledInv`).
  The last case is stated as it is: it is finding 2.
* *Hints*: identifiers of parts only grow (`PartIDsGrow`), and a handler that was found
  for a part was found when the part had ended (`HintedInv`).

### Segment queue

| theorem | states |
|---|---|
| `QueueCorrect` | `Spec => []QueueInv`, with the types |
| `AnnouncementsArrive` | `Spec => []NoMissedAnnouncement` |
| `ThrottlingWorks` | `Spec => []DownloadsThrottled` |
| `QueueIsPipe` | `Spec => IsPipe` |

For every limit, every number of segments, throttled or not. `QueueInv` adds to
what is claimed that the queue is the interval from the last segment pulled to
the last one pushed, which makes the refinement a matter of arithmetic, and that
nobody holds a channel of the future, so that an announcement always makes the
copy of a sleeper differ. `PushKeeps` is the one lemma: a push that finds a
segment in the queue needs no announcement because nobody can be asleep.

These are in `DownloaderProofs`, in front of what follows from them.

### Stream downloader

| theorem | states |
|---|---|
| `DownloaderUsesQueue` | `StreamSpec => Spec`, with `Spec` that of `SegmentQueue` |
| `DownloaderMissesNothing` | `StreamSpec => []NoMissedAnnouncement` |
| `DownloaderThrottled` | `StreamSpec => []DownloadsThrottled` |
| `DownloaderFeedsPipe` | `StreamSpec => IsPipe` |
| `DownloadsArriveInOrder` | `StreamSpec => []DownloadsInOrder` |
| `FailuresAreTrue` | `StreamSpec => []FailureIsTrue` |
| `PartsTrulyDated` | `StreamSpec => []PartsDated` |

For every variant, window, distance and limit, and with the failures of rotations that
`DownloaderAssumption` admits; the server may end at any time. `StreamStepUsesQueue` shows
that each step of the composition is a step of the queue or leaves the queue alone, so
that the composition implements the queue and inherits its theorems. This rests on no
invariant: the queue is the only thing that the downloader shares with the processor.

The other theorems have the invariant `DownloadInv`, the last one with `DatedInv` on top:

* *The server* (`ServerInv`): its window is the end of `published`, the segments it has
  ever listed, and what enters both is new. `Facts` instantiates `MuxerStreamProofs` with
  the variant, which is a variable here, and gives what the methods of a stream do to
  its window (`WindowStays`, `WindowMoves`) and to its paths (`Followed`, `Grows`). The
  number that a playlist gives to a segment is its place in this history up to a constant
  (`Offset`), although rotations that fail take identifiers away (`HistoryGrows`).
* *The playlist* that the downloader holds is an interval of the history, with those
  numbers, however far the window has moved on (`PlaylistInv`).
* *The downloads* of a traditional stream are an interval of the history that ends at the
  number of the current segment (`TraditionalInv`), so that the segment with the next
  number, if the playlist has it, is the next one of the history (`NextPlace`). In
  Low-Latency, hints only grow (`LowLatencyInv`). What came empty has left the
  server, whose identifiers are never used twice (`AskedInv`, `CameForGood`).
* *The errors* are about the playlist that was refused (`VerdictIsTrue`); "not ready" uses
  that at most `Limit` segments wait when the downloader goes on, that is, the throttling
  of the queue.
* *The dates*: rotations number parts without a hole, across segments too (`TimedInv`), so
  that the durations between the date of the last segment and the hint add up to the
  start of the hint (`RunLasts`); a playlist that is old keeps a date that is right
  (`HintDated`).

### Segmenter

| theorem | assumes | states |
|---|---|---|
| `SegmenterTyped` | nothing | `Spec => []TypeOK` |
| `TargetsAreTrue` | nothing | `Spec => []TargetsCover` |
| `TracksContinuous` | `DurationsFit` | `Spec => []Continuous` |
| `SegmentsPlayAlone` | nothing | `Spec => []SegmentsIndependent` |
| `PartsMakeSegments` | nothing | `Spec => []PartsFillSegment` |
| `DeltaUpdatesShow` | `SkipsBack` | `Spec => []DeltaShowsEnd` |
| `PartsAlwaysSimilar` | `DurationsFit` | `Spec => PartsSimilar` |

For every list of timestamps, clock rate, minimum and limit, in all variants and with
all codecs, whether the durations of the samples are exact or rounded. `SegmenterInv` is
the types with the targets (`StreamInv`): the two must go together, since a part is only
covered by the part duration if that is a number. The lemmas on the
rounding of divisions (`ConversionType`, `Quotients`) and on the smallest and the largest of a
set are proved first, by well-founded induction where a set has to have a minimum.
`Continuous` needs two more facts to last (`ContinuousInv`): a sample that waits is not
before the last timestamp given, and nothing has been written while there is no
segment. `DurationsFit` says that the time between two samples can be written as the
duration of a sample, which is a field of 32 bits; a longer gap wraps, in the code too.
`SegmentsIndependent` needs that a segment without a sample yet has one waiting, and
that this one is a random access sample (`IndependentInv`).

`PartsFillSegment` is about a sum over the parts of a segment, which grow with the
segment (`FilledInv`): what is listed has parts that make up its duration, and the
parts of the segment being written make up the time until the part being written
begins, so that cutting both at the same timestamp closes the sum. `Lasting` is that sum
and `LastingGrows` what one more part does to it. `DeltaShowsEnd` follows from
`TargetsCover`: the first segment of the window is never longer than the target
duration and half a second, hence always shorter than the skip boundary, if that is at
least two targets away (`SkipsBack`; the code takes 6); the loop that counts segments from the oldest one
stops before the window is used up.

`PartsSimilar` needs that the part duration is the one that suits all durations that are
known, that a part of samples of one duration has had that duration taken into account,
unless it came after the freeze (`Settled`), and that the part being written, as long as
it is not full, has not reached the part duration and is made of k such samples
(`EvenPart`, `SimilarInv`). Then the sample that makes it full is one of the number that
the search has rounded up to: k of them are less than the part duration, so that k + 1 are not more than
the multiple that `partDurationIsCompatible` compares with (`CompatibleCovers`). A
part that uses a duration that is not known yet makes it known in the same step,
which changes the part duration; `PartGrows` shows that this never happens between two
samples of the same duration. Two even parts compare
through their part durations: a part is less than 1/0.85 times the one in force at its
end, which is not longer than the one the other part has reached. That the part duration
never falls (`PartDurationGrows`) is because what is known only grows, and what suits more
durations also suits fewer (`MoreTakesLonger`). What a clock that is not exact adds is bounded by
`DurationsAdd`: the duration between two timestamps is the sum of the durations in
between, and less than one unit more for each.

### Storage

| theorem | states |
|---|---|
| `WriterSafe` | `Spec => []WriterInv`, with the types |
| `CopiesAlwaysAgree` | `Spec => []CopiesAgree` |
| `BytesAlwaysServed` | `Spec => []BytesServed` |

For every number of parts, any content of them and every size of the buffer that a read fills, in memory
and on disk, with paths for the parts or without. The bounds `MaxParts` and `MaxCells`
are arbitrary.

* *The writer* keeps `WriterInv`: a part that has its copy in memory has all that was
  given to it (`PartsInv`); on disk the parts lie one behind the other, each place holds
  what was written there, and nothing is behind the last one unless a write has failed
  (`LayoutInv`); what has a path is complete, and the segment gets its path only
  when no copy is left (`StageInv`). A write that is continued after a seek is the reason for the
  places: the bytes are given twice, and the second pass must cover the first.
  `FileIsAll` concludes that a file without failure is the parts joined together.
* *The reader* has got the beginning of what it reads (`DiskInv`, `MemoryInv`), and how far
  it is agrees with how much it believes to be left. Nothing of this is under the mutex,
  so the invariant must survive every step of the writer: `CompleteStays` shows that what is
  complete neither changes nor moves, whatever the writer appends, drops or removes. A handler that
  was found before the copies were dropped falls back to the file (`FoundInv`,
  `BufferedInv`).

### Folds

The sum of the parts and the concatenation of their bytes are folds of the community
modules. They are recursive functions, that is, some function that satisfies an
equation; to say anything about their values, one must show that there is such a
function and that any two agree. `FoldProofs` does so once, by induction over a set of
naturals (`Induction`, from the well-foundedness of `<`, without an operator as a parameter): `FoldIsSum`, `SumOfMore` and `SameSum` for sums;
`Flattened`, `JoinedOneByOne`, `JoinedLength` and `LaidOut` for sequences. A list that is
made by leaving elements out is one of at most one element for each place, joined;
`MadeOfListed` says what is in it, and that it is as long as the set of places that are kept
is large.

### Playlists

| theorem | states |
|---|---|
| `ReadBackOfTexts` | `Spec => []ReadBack`, with `Spec` that of `Playlist` |
| `PlaylistsReadBack` | `IndexSpec => []ReadBack` |
| `AllTracksArrive` | `IndexSpec => []TracksArrive` |

For all texts, however long, of any lines that have a known tag and attributes that are
numbers (`LinesAssumption`), for all muxers with any number of tracks
(`IndexAssumption`), and any bounds. The invariant is `WellFormed`: what the decoder
has got so far, and what it returns, are made of values that their parsers accept, in the
lists of their kind. A line keeps it (`ReadIsGood`). With the index, `IndexWellFormed` adds
that the streams are those of the muxer and that the index is the one that they give. TLC
finds no violation of it in the state space of the run `playlist`.

*Reading back.* The decoder is a fold over the lines, so that it reads a text in pieces:
what it has got after two pieces is what the second one makes of what the first one has left
(`ScannedLineByLine`, `BlocksRead`). For each section that the encoder prints there is one
lemma that says what the decoder, in whatever state, has got behind it: the tags of the
headers (`HeaderTagLists`), of a segment (`FieldsScanned`), the parts and other lists
(`PrintedAll`), a key (`KeyPrinted`), a segment, all segments (`SegmentsScanned`). They rest
on one about a single tag, `LineReadsBack`: printed and read again it is what `Remains` says,
for every tag and any attributes. A text with one line that is refused is refused as a
whole, whatever stands around it (`RefusesAround`); hence `Unreadable` is exactly when
nobody can read what has been printed.

*The tracks.* The index is well formed, so that the client has read what the muxer has
given, up to `Remains`. Then it is a matter of counting. Each stream that is a rendition is
listed once (`RenditionsListed`); the client takes the variant and the renditions of its
group that have a URI, which leaves out just the stream of the variant, so that each stream
is downloaded once (`StreamsListed`); and the streams share the tracks out among them.

### Client

| theorem | states |
|---|---|
| `ClientTyped` | `Spec => []TypeOK` |
| `SegmentsNeverOverlap` | `Spec => []SegmentsJoined` |
| `NoDataBeforeTracks` | `Spec => []DataAfterTracks` |

For every number of streams and tracks, every mixture of containers, and every size of
the queues, with errors and cancellation anywhere. `ClientInv` is inductive stream by
stream:

* `Beginning`: who starts whom, so that no track processor runs before its stream has
  started.
* `FMP4Inv`: the counter of the wait group is the number of track processors that are at
  work (`Busy`), and it is zero while the processor pulls.
* `MPEGTSInv`: in `Joining`, each track is sent a `nil` behind its samples, the counter is
  the number of those that have been answered, and a track whose `nil` was answered has
  nothing left (`NilSent`). Once the context is cancelled this is not kept, as
  the code gives up in the middle; the wait is given up too.

Most steps concern one stream: `SameStream` and `StreamStep` say what the others see of
it (nothing), and one lemma per goroutine does the rest. The order of the start
(`OrderInv`) goes on top: a stream that is `Going` implies that all are `Past` the
point where they hand their tracks over, since the primary downloader takes the
tracks of all before it starts the first.

### Only model-checked

* Liveness (`SleepersAnswered`, `CloseReleases`, `CancelReleases`, `EndReached`, `CloseEndsClient`,
  `FailureEndsClient`, `JoinsEnd`): TLAPS does not handle fairness.
* `ClosingNeverBlocks`: it says that an action is enabled, and the prover has no `ENABLED`.

## Not modelled

* The text of lines: how attributes, byte ranges and durations are parsed and printed, and
  how the decoder tells the two kinds of playlist apart. `Playlist` begins behind this.
* What is inside a sample, an init file or a segment: samples are timestamps, a payload is
  an identifier or, in `Storage`, its bytes. Durations and the maximum size of a
  segment are in `Segmenter`, not in `Muxer`: `HandleIsSafe` is about nil pointers
  and recursion only.
* KLV tracks in the segmenter and the tracks of MPEG-TS beside the leading one, which rotate
  nothing. Which tracks are accepted and listed is in `Index`.
* Malformed queries, which are refused before the mutex is taken.
* The parameters of codecs, which are written without the mutex while the index is printed,
  and the text that names a codec.
* A second `Close`, and writes after or in parallel with `Close`: the library
  promises nothing about them.
* The arithmetic of the client's time stamps, a few additions and multiplications,
  `AbsoluteTime` (a field that is read without a lock), and the limits on the size of what
  is downloaded.
* A descriptor that stays open when an MPEG-TS segment cannot be flushed
  (`src/muxer_segment_mpegts.go:69`): nothing that the models keep depends on it.
* The examples: programs that show how to use the library.

## Plan

All parts of the library that keep state are modelled, and what the runs check is proved
for every instance, but for what is listed under "Only model-checked". What could be
modelled further is listed under "Not modelled": the text of lines and attributes, the
parameters of codecs, and the arithmetic of the client's time stamps.
