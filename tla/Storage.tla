-------------------------------- MODULE Storage --------------------------------
(***************************************************************************)
(* The storage of one segment (src/pkg/storage), in memory or on disk: the *)
(* goroutine that writes the muxer writes it part after part, finalizes it *)
(* and removes it at last, while the handler of a request reads a part, or *)
(* the whole.  Nothing of this is under a mutex but the table of paths,    *)
(* where the handler finds what it may read.                               *)
(*                                                                         *)
(* A byte is a cell that tells where and how it has been written.  A part  *)
(* on disk has a copy in memory until the segment is finalized.            *)
(***************************************************************************)
EXTENDS Integers, Sequences, SequencesExt

CONSTANTS
    MaxParts,   \* bounds: parts of the segment,
    MaxCells,   \* cells of a part,
    Chunk       \* and cells taken by one Read

ASSUME StorageAssumption == MaxParts \in Nat \ {0} /\ MaxCells \in Nat /\ Chunk \in Nat \ {0}

VARIABLES
    disk,       \* fileDisk and partDisk, or fileRAM and partRAM
    lowLatency, \* the parts have paths of their own
    broken,     \* a write has failed
    parts,      \* the parts of the file
    file,       \* the content of the file on disk
    finalSize,
    stage,      \* where the writer is
    listed,     \* what has a path: parts by number, and Whole
    written,    \* the content given to each part (a history)
    reader      \* a request that reads

vars == << disk, lowLatency, broken, parts, file, finalSize, stage, listed, written, reader >>
writerVars == << disk, lowLatency, broken, parts, file, finalSize, stage, listed, written >>

Whole == 0
Cell(part, place, pass) == << part, place, pass >>

Zero == Cell(0, 0, 0)             \* what a hole of a file reads as
NoBuffer == << Cell(0, 0, 1) >>   \* the nil that replaces the copy in memory

\* "open": the last part is being filled; "full": it is complete; "broken": it could
\* not be written; "sized", "final": in Finalize and behind it; "listed": the segment
\* has its path; "leaving", "removed", "gone": on its way out.
Stages == {"open", "full", "broken", "sized", "final", "listed", "leaving", "removed", "gone"}

Idle == [pc |-> "idle", target |-> Whole, got |-> << >>, at |-> 0, left |-> 0,
         part |-> 1, early |-> FALSE, unsized |-> FALSE, status |-> "none"]

NewPartAt(offset) == [offset |-> offset, size |-> 0, buffer |-> << >>]

Init ==
    /\ disk \in BOOLEAN /\ lowLatency \in BOOLEAN
    /\ parts = << NewPartAt(0) >> /\ file = << >> /\ finalSize = 0
    /\ broken = FALSE /\ stage = "open" /\ listed = {}
    /\ written = << << >> >>
    /\ reader = Idle

Newest == Len(parts)

--------------------------------------------------------------------------------
(***************************************************************************)
(* The writer.                                                             *)
(***************************************************************************)

\* One cell is written at a place, from 0, behind a hole when it is past the end.
WriteAt(content, place, cell) ==
    [i \in 1..IF Len(content) > place THEN Len(content) ELSE place + 1 |->
        IF i = place + 1 THEN cell ELSE IF i <= Len(content) THEN content[i] ELSE Zero]

\* doubleWriter: the disk behind the offset of the part, then the memory.
doubleWrite(place, cell) ==
    /\ parts' = [parts EXCEPT ![Newest].buffer = WriteAt(@, place, cell)]
    /\ file' = IF disk THEN WriteAt(file, parts[Newest].offset + place, cell) ELSE file

\* The content of a part is written from the first cell to the last ...
Write ==
    /\ stage = "open" /\ Len(parts[Newest].buffer) < MaxCells
    /\ LET place == Len(parts[Newest].buffer)
           cell == Cell(Newest, place, 1)
       IN  /\ doubleWrite(place, cell)
           /\ written' = [written EXCEPT ![Newest] = Append(@, cell)]
    /\ UNCHANGED << disk, lowLatency, broken, finalSize, stage, listed, reader >>

\* ... and the first one again, after a Seek, when the sizes are known.
SeekAndWrite ==
    /\ stage = "open" /\ parts[Newest].buffer # << >>
    /\ doubleWrite(0, Cell(Newest, 0, 2))
    /\ written' = [written EXCEPT ![Newest] = [@ EXCEPT ![1] = Cell(Newest, 0, 2)]]
    /\ stage' = "full"
    /\ UNCHANGED << disk, lowLatency, broken, finalSize, listed, reader >>

\* The disk takes a cell, the write fails, the memory gets none.
WriteFails ==
    /\ disk /\ stage = "open"
    /\ file' = WriteAt(file, parts[Newest].offset + Len(parts[Newest].buffer), Zero)
    /\ stage' = "broken" /\ broken' = TRUE
    /\ UNCHANGED << disk, lowLatency, parts, finalSize, listed, written, reader >>

\* rotateParts gives the part its path, in Low-Latency ...
ListPart ==
    /\ stage = "full" /\ lowLatency /\ Newest \notin listed
    /\ listed' = listed \union {Newest}
    /\ UNCHANGED << disk, lowLatency, broken, parts, file, finalSize, stage, written, reader >>

Sized(all) == [all EXCEPT ![Len(all)].size = Len(all[Len(all)].buffer)]

\* Mutant: the offset of the last part is left out.
NewPartFlat ==
    /\ stage = "full" /\ (lowLatency => Newest \in listed) /\ Len(parts) < MaxParts
    /\ LET sized == Sized(parts)
       IN  parts' = Append(sized, NewPartAt(IF disk THEN sized[Newest].size ELSE 0))
    /\ written' = Append(written, << >>)
    /\ stage' = "open"
    /\ UNCHANGED << disk, lowLatency, broken, file, finalSize, listed, reader >>

\* ... and allocates the next one, behind the last.
NewPart ==
    /\ stage = "full" /\ (lowLatency => Newest \in listed) /\ Len(parts) < MaxParts
    /\ LET sized == Sized(parts)
       IN  parts' = Append(sized, NewPartAt(IF disk THEN sized[Newest].offset + sized[Newest].size ELSE 0))
    /\ written' = Append(written, << >>)
    /\ stage' = "open"
    /\ UNCHANGED << disk, lowLatency, broken, file, finalSize, listed, reader >>

Total(all) == FoldLeft(LAMBDA sum, part : sum + Len(part.buffer), 0, all)

\* fileDisk.Finalize measures the last part, ...  fileRAM.Finalize adds all up.
Finalize ==
    /\ stage \in {"full", "broken"}
    /\ parts' = IF disk THEN Sized(parts) ELSE parts
    /\ finalSize' = IF disk THEN parts'[Newest].offset + parts'[Newest].size ELSE Total(parts)
    /\ stage' = IF disk THEN "sized" ELSE "final"
    /\ UNCHANGED << disk, lowLatency, broken, file, listed, written, reader >>

\* ... and drops the copies in memory.
DropBuffers ==
    /\ stage = "sized"
    /\ parts' = [i \in 1..Len(parts) |-> [parts[i] EXCEPT !.buffer = NoBuffer]]
    /\ stage' = "final"
    /\ UNCHANGED << disk, lowLatency, broken, file, finalSize, listed, written, reader >>

\* rotateSegments: the segment joins the window, leaves it later, is removed.
ListSegment ==
    /\ stage = "final" /\ ~broken
    /\ listed' = listed \union {Whole} /\ stage' = "listed"
    /\ UNCHANGED << disk, lowLatency, broken, parts, file, finalSize, written, reader >>

UnlistParts ==
    /\ stage = "listed"
    /\ listed' = {Whole} /\ stage' = "leaving"
    /\ UNCHANGED << disk, lowLatency, broken, parts, file, finalSize, written, reader >>

\* muxerStream.close too removes the segments, listed or being written, and rotateSegments
\* the one of MPEG-TS that could not be flushed, without Finalize.
RemoveFile ==
    /\ stage \in {"final", "listed", "leaving"} \/ (stage = "broken" /\ ~lowLatency)
    /\ stage' = "removed"
    /\ UNCHANGED << disk, lowLatency, broken, parts, file, finalSize, listed, written, reader >>

UnlistSegment ==
    /\ stage = "removed"
    /\ listed' = {} /\ stage' = "gone"
    /\ UNCHANGED << disk, lowLatency, broken, parts, file, finalSize, written, reader >>

WriterNext ==
    Write \/ SeekAndWrite \/ WriteFails \/ ListPart \/ NewPart \/ Finalize \/ DropBuffers
        \/ ListSegment \/ UnlistParts \/ RemoveFile \/ UnlistSegment

--------------------------------------------------------------------------------
(***************************************************************************)
(* The reader.                                                             *)
(***************************************************************************)

OnDisk == stage \notin {"removed", "gone"}
Finalized == stage \notin {"open", "full", "broken", "sized"}

Target == parts[reader.target]

Becomes(r) == reader' = r /\ UNCHANGED writerVars

\* The handler is found, under the mutex of the paths: what the writer did before it
\* registered a path is known, and nothing more.  A part is early when its segment
\* has no path yet, and unsized when the part behind it has none either.
Lookup ==
    /\ reader.pc = "idle"
    /\ \E target \in listed :
        Becomes([reader EXCEPT !.pc = "found", !.target = target,
                               !.early = Whole \notin listed,
                               !.unsized = listed \intersect {Whole, target + 1} = {}])

Answer(status) == [reader EXCEPT !.pc = "done", !.status = status]

\* fileDisk.Reader and fileRAM.Reader.
OpenSegment ==
    /\ reader.pc = "found" /\ reader.target = Whole
    /\ Becomes(IF ~Finalized THEN Answer("refused")
               ELSE IF ~disk THEN [reader EXCEPT !.pc = "ram", !.left = Chunk]
               ELSE IF OnDisk THEN [reader EXCEPT !.pc = "disk", !.left = Len(file)]
               ELSE Answer("500"))

\* partRAM.Reader; partDisk.Reader, which finds the buffer, or else takes offset
\* and size.  No lock orders its reads with the writes of Finalize: the size that
\* an unsized reader takes may be the one before.
TestBuffer ==
    /\ reader.pc = "found" /\ reader.target # Whole
    /\ IF ~disk
       THEN Becomes([Answer("200") EXCEPT !.got = Target.buffer])
       ELSE IF Target.buffer # NoBuffer
       THEN Becomes([reader EXCEPT !.pc = "buffered"])
       ELSE \E size \in {Target.size} \union (IF reader.unsized THEN {0} ELSE {}) :
                Becomes([reader EXCEPT !.pc = "opening", !.at = Target.offset, !.left = size])

\* The buffer is read a second time, and may be nil.
UseBuffer ==
    /\ reader.pc = "buffered"
    /\ Becomes(IF Target.buffer = NoBuffer THEN Answer("panic")
               ELSE [Answer("200") EXCEPT !.got = Target.buffer])

\* newDiskPartReader.
OpenPart ==
    /\ reader.pc = "opening"
    /\ Becomes(IF OnDisk THEN [reader EXCEPT !.pc = "disk"] ELSE Answer("500"))

Least(a, b) == IF a < b THEN a ELSE b

\* diskPartReader.Read, or that of the file: a file that has been removed can be
\* read to its end.
ReadDisk ==
    /\ reader.pc = "disk"
    /\ LET count == Least(Chunk, Least(reader.left, Len(file) - reader.at))
       IN  IF count = 0
           THEN Becomes(Answer("200"))
           ELSE Becomes([reader EXCEPT !.got = @ \o SubSeq(file, reader.at + 1, reader.at + count),
                                       !.at = @ + count, !.left = @ - count])

\* Mutant: the place in the part is kept for the next one.
ReadRAMKeepsPlace ==
    /\ reader.pc = "ram"
    /\ IF reader.part > Len(parts)
       THEN Becomes(Answer("200"))
       ELSE LET buffer == parts[reader.part].buffer
                copied == Least(reader.left, Len(buffer) - reader.at)
                ended == reader.at + copied = Len(buffer)
            IN  Becomes([reader EXCEPT
                    !.got = @ \o SubSeq(buffer, reader.at + 1, reader.at + copied),
                    !.part = IF ended THEN @ + 1 ELSE @,
                    !.at = @ + copied,
                    !.left = IF @ = copied THEN Chunk ELSE @ - copied])

\* One pass of the loop of ramFileReader.Read; when the chunk is full, the next
\* Read begins.
ReadRAM ==
    /\ reader.pc = "ram"
    /\ IF reader.part > Len(parts)
       THEN Becomes(Answer("200"))
       ELSE LET buffer == parts[reader.part].buffer
                copied == Least(reader.left, Len(buffer) - reader.at)
                ended == reader.at + copied = Len(buffer)
            IN  Becomes([reader EXCEPT
                    !.got = @ \o SubSeq(buffer, reader.at + 1, reader.at + copied),
                    !.part = IF ended THEN @ + 1 ELSE @,
                    !.at = IF ended THEN 0 ELSE @ + copied,
                    !.left = IF @ = copied THEN Chunk ELSE @ - copied])

ReaderNext == Lookup \/ OpenSegment \/ TestBuffer \/ UseBuffer \/ OpenPart \/ ReadDisk \/ ReadRAM

Next == WriterNext \/ ReaderNext

Spec == Init /\ [][Next]_vars

--------------------------------------------------------------------------------
(***************************************************************************)
(* Properties.                                                             *)
(***************************************************************************)

AllWritten == FlattenSeq(written)
Content(target) == IF target = Whole THEN AllWritten ELSE written[target]

\* The bytes that were written, from memory, from disk, or from a file that is removed
\* meanwhile, however the parts and the calls of Read divide them; only a removed file
\* fails, and a listed segment is never refused.
Served ==
    \/ reader.status = "200" /\ reader.got = Content(reader.target)
    \/ reader.status = "500" /\ disk /\ ~OnDisk

\* What becomes of a request on disk that was on its way to a part while Finalize ran:
\* the copy is nil when it is used, or the size is read before it is set.
RacesWithFinalize ==
    /\ disk /\ Finalized /\ reader.target # Whole
    /\ \/ reader.early /\ reader.status = "panic"
       \/ reader.unsized /\ reader.status = "200" /\ reader.got = << >>

\* Every request is served, but for those that race with Finalize, and these never get
\* other bytes: they panic or get nothing, and only once the segment is finalized.
BytesServed == reader.pc = "done" => Served \/ RacesWithFinalize

\* muxer.go:588 says of Handle: "This can be safely called in parallel with Write*() and
\* Close() methods."  Then there is no such race: every request is served.
ReadsSafely == reader.pc = "done" => Served

\* The two copies of a part on disk are the same, the file holds the parts one behind
\* the other, and the size, from which the bandwidth of the stream is computed, is
\* that of all.
CopiesAgree ==
    ~broken =>
        /\ disk => \A i \in 1..Len(parts) : parts[i].buffer # NoBuffer =>
                SubSeq(file, parts[i].offset + 1, parts[i].offset + Len(parts[i].buffer)) = parts[i].buffer
        /\ Finalized => /\ disk => file = AllWritten
                        /\ finalSize = Len(AllWritten)
================================================================================
