----------------------------- MODULE StorageProofs -----------------------------
(***************************************************************************)
(* What the handlers of a segment and of its parts serve, whatever the     *)
(* number of parts, their content and the size of the buffers that read    *)
(* them, and wherever the writer is meanwhile.                             *)
(*                                                                         *)
(* The file is described place by place: the parts are one behind the      *)
(* other, and each of them holds what was given to it.  A reader has got   *)
(* the beginning of what it reads, and what it has found cannot change     *)
(* anymore, although the writer goes on, drops the copies in memory and    *)
(* removes the file.                                                       *)
(***************************************************************************)
EXTENDS Storage, FoldProofs

--------------------------------------------------------------------------------
(***************************************************************************)
(* Types.                                                                  *)
(***************************************************************************)

AnyCell == Nat \X Nat \X Nat
Given == (Nat \ {0}) \X Nat \X Nat      \* what the writer writes
PartRecord == [offset : Nat, size : Nat, buffer : Seq(AnyCell)]

WriterTyped ==
    /\ disk \in BOOLEAN /\ lowLatency \in BOOLEAN /\ broken \in BOOLEAN
    /\ stage \in Stages /\ listed \subseteq Nat
    /\ parts \in Seq(PartRecord) /\ Newest \in Nat \ {0}
    /\ written \in Seq(Seq(Given)) /\ Len(written) = Newest
    /\ file \in Seq(AnyCell)

ReaderType ==
    [pc : {"idle", "found", "buffered", "opening", "disk", "ram", "done"},
     target : Nat, got : Seq(AnyCell), at : Nat, left : Nat, part : Nat,
     early : BOOLEAN, unsized : BOOLEAN,
     status : {"none", "200", "500", "panic", "refused"}]

LEMMA GivenType ==
    /\ Given \subseteq AnyCell /\ Seq(Given) \subseteq Seq(AnyCell)
    /\ << >> \in Seq(Given) /\ Zero \in AnyCell /\ NoBuffer \in Seq(AnyCell) /\ Len(NoBuffer) = 1
    /\ \A b \in Seq(Given) : b # NoBuffer
<1>1. Given \subseteq AnyCell /\ Zero \in AnyCell /\ Cell(0, 0, 1) \in AnyCell \ Given
  BY DEF Given, AnyCell, Zero, Cell
<1> DEFINE none == Cell(0, 0, 1)
<1> HIDE DEF none
<1>2. NoBuffer = << none >> /\ none \in AnyCell /\ none \notin Given
  BY <1>1 DEF NoBuffer, none
<1>3. NoBuffer \in Seq(AnyCell) /\ Len(NoBuffer) = 1 /\ NoBuffer[1] = none
  BY <1>2
<1>4. ASSUME NEW b \in Seq(Given), b = NoBuffer PROVE FALSE
  <2>1. Len(b) = 1 /\ b[1] = none
    BY <1>3, <1>4
  <2>2. b[1] \in Given
    BY <2>1, 1 \in 1..Len(b)
  <2> QED
    BY <1>2, <2>1, <2>2
<1> QED
  BY <1>1, <1>3, <1>4

\* A part and what was given to it.
LEMMA EachPart ==
    ASSUME WriterTyped, NEW i \in 1..Newest
    PROVE  /\ parts[i] \in PartRecord /\ parts[i].offset \in Nat /\ parts[i].size \in Nat
           /\ parts[i].buffer \in Seq(AnyCell)
           /\ written[i] \in Seq(Given) /\ written[i] \in Seq(AnyCell)
           /\ Len(written[i]) \in Nat /\ written[i] # NoBuffer
           /\ \A j \in 1..Len(written[i]) : written[i][j] \in AnyCell
<1>1. parts[i] \in PartRecord
  BY DEF WriterTyped, Newest
<1>2. written[i] \in Seq(Given)
  BY DEF WriterTyped
<1>3. written[i] \in Seq(AnyCell) /\ written[i] # NoBuffer
  BY <1>2, GivenType
<1> QED
  BY <1>1, <1>2, <1>3 DEF PartRecord

LEMMA NewestIsPart == WriterTyped => Newest \in 1..Newest
  BY DEF WriterTyped

\* Writing behind the end, and inside.
LEMMA WriteAtEnd ==
    ASSUME NEW S, NEW content \in Seq(S), NEW cell \in S
    PROVE  WriteAt(content, Len(content), cell) = Append(content, cell)
<1> DEFINE new == WriteAt(content, Len(content), cell)
<1>1. new = [i \in 1..Len(content) + 1 |->
                IF i = Len(content) + 1 THEN cell
                ELSE IF i <= Len(content) THEN content[i] ELSE Zero]
  BY DEF WriteAt
<1> HIDE DEF new
<1>2. \A i \in 1..Len(content) + 1 : i = Len(content) + 1 \/ i \in 1..Len(content)
  OBVIOUS
<1>3. new \in Seq(S) /\ Len(new) = Len(content) + 1
  BY <1>1, <1>2
<1>4. \A i \in 1..Len(new) : new[i] = Append(content, cell)[i]
  BY <1>1, <1>2, <1>3
<1>5. Append(content, cell) \in Seq(S) /\ Len(Append(content, cell)) = Len(content) + 1
  OBVIOUS
<1> QED
  BY <1>3, <1>4, <1>5, SeqEqual DEF new

LEMMA WriteAtInside ==
    ASSUME NEW S, NEW content \in Seq(S), NEW cell \in S, NEW place \in 0..Len(content) - 1
    PROVE  WriteAt(content, place, cell) = [content EXCEPT ![place + 1] = cell]
<1> DEFINE new == WriteAt(content, place, cell)
           other == [content EXCEPT ![place + 1] = cell]
<1>1. new = [i \in 1..Len(content) |->
                IF i = place + 1 THEN cell ELSE IF i <= Len(content) THEN content[i] ELSE Zero]
  BY DEF WriteAt
<1> HIDE DEF new
<1>2. new \in Seq(S) /\ Len(new) = Len(content)
  BY <1>1
<1>3. other \in Seq(S) /\ Len(other) = Len(content)
      /\ \A i \in 1..Len(content) : other[i] = IF i = place + 1 THEN cell ELSE content[i]
  BY place + 1 \in 1..Len(content)
<1>4. \A i \in 1..Len(new) : new[i] = other[i]
  BY <1>1, <1>2, <1>3
<1> HIDE DEF other
<1> QED
  BY <1>2, <1>3, <1>4, SeqEqual DEF new, other

--------------------------------------------------------------------------------
(***************************************************************************)
(* The invariant of the writer.                                            *)
(***************************************************************************)

InBuffer(i) == parts[i].buffer # NoBuffer
Writing == stage \in {"open", "full", "broken"}

\* The copy in memory is what was given to the part; when it is dropped, the size of
\* the part is known.
PartsInv ==
    \A i \in 1..Newest :
        /\ InBuffer(i) => parts[i].buffer = written[i]
        /\ ~InBuffer(i) => disk /\ Finalized /\ parts[i].size = Len(written[i])
        /\ disk /\ (i < Newest \/ stage = "sized") => parts[i].size = Len(written[i])

\* On disk a part starts where the last one ends, and holds what was given to it;
\* nothing is behind them, unless a write has failed.
LayoutInv ==
    disk =>
        /\ parts[1].offset = 0
        /\ \A i \in 1..Newest - 1 :
            /\ parts[i + 1].offset = parts[i].offset + Len(written[i])
            /\ parts[i].offset + Len(written[i]) <= parts[Newest].offset
        /\ \A i \in 1..Newest : \A j \in 1..Len(written[i]) :
            file[parts[i].offset + j] = written[i][j]
        /\ parts[Newest].offset + Len(written[Newest]) <= Len(file)
        /\ ~broken => Len(file) = parts[Newest].offset + Len(written[Newest])

NoCopies == disk => \A i \in 1..Newest : ~InBuffer(i)

\* What has a path is complete, and the segment has one only when no copy is left.
StageInv ==
    /\ broken => stage \notin {"open", "full"}
    /\ stage = "broken" => broken
    /\ ~broken /\ ~Writing => finalSize = Len(AllWritten)
    /\ \A i \in listed \ {Whole} : i \in 1..Newest /\ (i = Newest => stage # "open")
    /\ stage = "sized" => disk
    /\ stage = "final" => NoCopies
    /\ stage = "listed" => Whole \in listed
    /\ Whole \in listed =>
        ~broken /\ stage \in {"listed", "leaving", "removed"} /\ NoCopies

WriterInv == WriterTyped /\ PartsInv /\ LayoutInv /\ StageInv

LEMMA InitWriterInv == Init => WriterInv
<1> SUFFICES ASSUME Init PROVE WriterInv
  OBVIOUS
<1>1. /\ parts = << NewPartAt(0) >> /\ written = << << >> >> /\ file = << >> /\ listed = {}
      /\ stage = "open" /\ broken = FALSE /\ disk \in BOOLEAN /\ lowLatency \in BOOLEAN
  BY DEF Init
<1>2. << >> \in Seq(Given) /\ << >> \in Seq(AnyCell) /\ << >> # NoBuffer
  BY GivenType
<1> DEFINE first == NewPartAt(0)
<1>3. first \in PartRecord /\ first.offset = 0 /\ first.size = 0 /\ first.buffer = << >>
  BY <1>2 DEF NewPartAt, PartRecord
<1> HIDE DEF first
<1>4. parts \in Seq(PartRecord) /\ Len(parts) = 1 /\ parts[1] = first
  BY <1>1, <1>3 DEF first
<1>5. written \in Seq(Seq(Given)) /\ Len(written) = 1 /\ written[1] = << >>
  BY <1>1, <1>2
<1>6. \A i \in 1..1 : i = 1
  OBVIOUS
<1>7. WriterTyped
  <2>1. stage \in Stages
    BY <1>1 DEF Stages
  <2>2. Newest = 1
    BY <1>4 DEF Newest
  <2>3. /\ parts \in Seq(PartRecord) /\ written \in Seq(Seq(Given)) /\ Len(written) = 1
        /\ file \in Seq(AnyCell)
    BY <1>1, <1>2, <1>4, <1>5
  <2>4. /\ disk \in BOOLEAN /\ lowLatency \in BOOLEAN /\ broken \in BOOLEAN
        /\ listed \subseteq Nat
    BY <1>1
  <2> QED
    BY ONLY <2>1, <2>2, <2>3, <2>4 DEF WriterTyped
<1>8. PartsInv
  BY <1>1, <1>2, <1>3, <1>4, <1>5, <1>6 DEF PartsInv, InBuffer, Newest
<1>9. LayoutInv
  BY <1>1, <1>3, <1>4, <1>5, <1>6 DEF LayoutInv, Newest
<1>10. StageInv
  BY <1>1 DEF StageInv, Writing
<1> QED
  BY <1>7, <1>8, <1>9, <1>10 DEF WriterInv

\* While a part is written, its copy is in memory.
LEMMA WritingInBuffer ==
    ASSUME WriterInv, stage \notin {"final", "listed", "leaving", "removed", "gone"}
    PROVE  \A i \in 1..Newest : InBuffer(i) /\ parts[i].buffer = written[i]
<1>1. ~Finalized
  BY DEF WriterInv, WriterTyped, Stages, Finalized
<1> QED
  BY <1>1 DEF WriterInv, PartsInv

\* The file is what was given to the parts, unless a write has failed, ...
LEMMA FileIsAll ==
    ASSUME WriterInv, disk, ~broken
    PROVE  file = AllWritten
<1> DEFINE n == Newest
           o == [i \in 1..n |-> parts[i].offset]
<1>1. WriterTyped /\ LayoutInv /\ n \in 1..n /\ n \in Nat \ {0}
  BY NewestIsPart DEF WriterInv, WriterTyped
<1>2. /\ written \in Seq(Seq(AnyCell)) /\ Len(written) = n /\ file \in Seq(AnyCell)
      /\ o \in [1..n -> Nat]
  <2>1. \A i \in 1..n : written[i] \in Seq(AnyCell) /\ parts[i].offset \in Nat
    BY <1>1, EachPart
  <2>2. written \in Seq(Seq(Given)) /\ Len(written) = n /\ file \in Seq(AnyCell)
    BY <1>1 DEF WriterTyped
  <2>3. written \in Seq(Seq(AnyCell))
    BY <2>1, <2>2
  <2> QED
    BY <2>1, <2>2, <2>3
<1>3. \A i \in 1..n : o[i] = parts[i].offset
  OBVIOUS
<1> HIDE DEF n, o
<1>4. Lies(file, o, written)
  <2>1. \A i \in 1..n - 1 : i \in 1..n /\ i + 1 \in 1..n
    BY <1>1
  <2>2. 1 \in 1..n
    BY <1>1
  <2>3. /\ parts[1].offset = 0
        /\ \A i \in 1..n - 1 : parts[i + 1].offset = parts[i].offset + Len(written[i])
        /\ \A i \in 1..n : \A j \in 1..Len(written[i]) : file[parts[i].offset + j] = written[i][j]
        /\ Len(file) = parts[n].offset + Len(written[n])
    BY <1>1 DEF LayoutInv, n
  <2>4. ASSUME NEW i \in 1..n, NEW j \in 1..Len(written[i]) PROVE file[o[i] + j] = written[i][j]
    BY <1>3, <2>3, Zenon
  <2>5. o[1] = 0 /\ \A i \in 1..n - 1 : o[i + 1] = o[i] + Len(written[i])
    BY <1>3, <2>1, <2>2, <2>3
  <2>6. Len(file) = o[n] + Len(written[n])
    BY <1>1, <1>3, <2>3
  <2> QED
    BY <1>2, <2>4, <2>5, <2>6 DEF Lies
<1>5. file = FlattenSeq(written)
  BY <1>1, <1>2, <1>4, LaidOut
<1> QED
  BY <1>5 DEF AllWritten

\* ... and the size of a file in memory is the sum over its parts.
LEMMA TotalIsAll ==
    ASSUME WriterTyped, \A i \in 1..Newest : parts[i].buffer = written[i]
    PROVE  Total(parts) = Len(AllWritten)
<1> DEFINE n == Newest
           d == [i \in 1..n |-> Len(parts[i].buffer)]
<1>1. /\ n \in Nat /\ parts \in Seq(PartRecord) /\ DOMAIN parts = 1..n /\ Len(parts) = n
      /\ written \in Seq(Seq(Given)) /\ Len(written) = n
      /\ \A k \in 1..n : d[k] \in Int /\ d[k] = Len(parts[k].buffer) /\ d[k] = Len(written[k])
  <2>1. \A k \in 1..n : Len(written[k]) \in Nat
    BY EachPart
  <2> QED
    BY <2>1 DEF WriterTyped, Newest
<1> HIDE DEF n, d
<1>2. PICK f : IsFold(f, d, n)
  BY <1>1, FoldExists
<1> DEFINE step(g) == [p \in SUBSET (1..n) |->
                          IF p = {} THEN 0 ELSE g[p \ {Max(p)}] + Len(parts[Max(p)].buffer)]
           fold == CHOOSE g : g = step(g)
<1>3. \A g : step(g) = [p \in SUBSET (1..n) |-> IF p = {} THEN 0 ELSE g[p \ {Max(p)}] + d[Max(p)]]
  <2> TAKE g
  <2> SUFFICES ASSUME NEW p \in SUBSET (1..n), p # {} PROVE Len(parts[Max(p)].buffer) = d[Max(p)]
    OBVIOUS
  <2>1. Max(p) \in p
    BY <1>1, MaxOfPlaces
  <2> QED
    BY <1>1, <2>1
<1>4. f = step(f)
  BY <1>2, <1>3 DEF IsFold
<1>5. fold = step(fold)
  <2> HIDE DEF step
  <2> QED
    BY <1>4
<1>6. IsFold(fold, d, n)
  BY <1>3, <1>5 DEF IsFold
<1>7. Total(parts) = fold[1..n]
  BY <1>1 DEF Total, FoldLeft, MapThenFoldSet
<1> HIDE DEF fold
<1>8. IsSum(Total(parts), d, n)
  BY ONLY <1>1, <1>6, <1>7, FoldIsSum
<1>9. IsSum(Len(AllWritten), d, n)
  BY <1>1, JoinedLength DEF AllWritten
<1> QED
  BY <1>1, <1>8, <1>9, SameSum

\* The part that is written gets another content, at its place in the file.
LEMMA NewestWritten ==
    ASSUME WriterInv, stage = "open", NEW buffer \in Seq(Given),
           parts' = [parts EXCEPT ![Newest].buffer = buffer],
           written' = [written EXCEPT ![Newest] = buffer],
           file' \in Seq(AnyCell),
           disk => /\ Len(file') = parts[Newest].offset + Len(buffer)
                   /\ \A k \in 1..parts[Newest].offset : file'[k] = file[k]
                   /\ \A j \in 1..Len(buffer) : file'[parts[Newest].offset + j] = buffer[j],
           stage' \in {"open", "full"},
           UNCHANGED << disk, lowLatency, broken, listed >>
    PROVE  WriterInv'
<1> DEFINE n == Newest
<1>1. /\ WriterTyped /\ PartsInv /\ LayoutInv /\ StageInv /\ n \in 1..n /\ n \in Nat \ {0}
      /\ ~broken /\ Whole \notin listed
  BY NewestIsPart DEF WriterInv, StageInv, WriterTyped
<1>2. /\ \A i \in 1..n : parts[i] \in PartRecord /\ parts[i].offset \in Nat /\ Len(written[i]) \in Nat
      /\ \A i \in 1..n : InBuffer(i) /\ parts[i].buffer = written[i] /\ written[i] # NoBuffer
  BY <1>1, EachPart, WritingInBuffer
<1>3. buffer \in Seq(AnyCell) /\ buffer # NoBuffer
  BY GivenType
<1>4. /\ parts' \in Seq(PartRecord) /\ Len(parts') = n
      /\ \A i \in 1..n : /\ parts'[i].offset = parts[i].offset /\ parts'[i].size = parts[i].size
                         /\ parts'[i].buffer = IF i = n THEN buffer ELSE parts[i].buffer
  <2> DEFINE new == [parts[n] EXCEPT !.buffer = buffer]
  <2>1. /\ new \in PartRecord /\ new.offset = parts[n].offset /\ new.size = parts[n].size
        /\ new.buffer = buffer
    BY <1>1, <1>2, <1>3 DEF PartRecord
  <2>2. parts' = [parts EXCEPT ![n] = new] /\ parts \in Seq(PartRecord) /\ n = Len(parts)
    BY <1>1 DEF WriterTyped, Newest
  <2> HIDE DEF new
  <2>3. /\ parts' \in Seq(PartRecord) /\ Len(parts') = n
        /\ \A i \in 1..n : parts'[i] = IF i = n THEN new ELSE parts[i]
    <3> HIDE DEF n
    <3> QED
      BY ONLY <1>1, <2>1, <2>2, ExceptSeq
  <2> QED
    BY <2>1, <2>3
<1>5. /\ written' \in Seq(Seq(Given)) /\ Len(written') = n
      /\ \A i \in 1..n : written'[i] = IF i = n THEN buffer ELSE written[i]
  BY <1>1 DEF WriterTyped
<1>6. n' = n
  BY <1>4 DEF Newest
<1> HIDE DEF n
<1>7. WriterTyped'
  BY <1>1, <1>4, <1>5, <1>6 DEF WriterTyped, Stages, n
<1>8. PartsInv'
  <2>1. \A i \in 1..n : InBuffer(i)' /\ parts'[i].buffer = written'[i]
    BY <1>2, <1>3, <1>4, <1>5 DEF InBuffer
  <2>2. \A i \in 1..n : disk /\ i < n => parts'[i].size = Len(written'[i])
    BY <1>1, <1>4, <1>5 DEF PartsInv, n
  <2> QED
    BY <1>6, <2>1, <2>2 DEF PartsInv, n
<1>9. LayoutInv'
  <2> SUFFICES ASSUME disk PROVE LayoutInv'
    BY DEF LayoutInv
  <2>1. /\ parts[1].offset = 0
        /\ \A i \in 1..n - 1 : /\ parts[i + 1].offset = parts[i].offset + Len(written[i])
                               /\ parts[i].offset + Len(written[i]) <= parts[n].offset
        /\ \A i \in 1..n : \A j \in 1..Len(written[i]) : file[parts[i].offset + j] = written[i][j]
    BY <1>1 DEF LayoutInv, n
  <2>2. /\ parts'[1].offset = 0
        /\ \A i \in 1..n - 1 : /\ parts'[i + 1].offset = parts'[i].offset + Len(written'[i])
                               /\ parts'[i].offset + Len(written'[i]) <= parts'[n].offset
    BY <1>1, <1>4, <1>5, <2>1, SMTT(30)
  <2>3. ASSUME NEW i \in 1..n, NEW j \in 1..Len(written'[i])
        PROVE  file'[parts'[i].offset + j] = written'[i][j]
    <3>1. CASE i = n
      BY <1>4, <1>5, <3>1 DEF n
    <3>2. CASE i # n
      <4>1. i \in 1..n - 1 /\ written'[i] = written[i] /\ parts'[i].offset = parts[i].offset
        BY <1>1, <1>4, <1>5, <3>2
      <4>2. parts[i].offset + j \in 1..parts[n].offset
        BY <1>1, <1>2, <2>1, <4>1, SMTT(30)
      <4>3. file'[parts[i].offset + j] = file[parts[i].offset + j]
        BY <4>2 DEF n
      <4> QED
        BY <2>1, <4>1, <4>3
    <3> QED
      BY <3>1, <3>2
  <2>4. Len(file') = parts'[n].offset + Len(written'[n]) /\ Len(file') \in Nat
    BY <1>1, <1>4, <1>5 DEF n
  <2> QED
    BY <1>6, <2>2, <2>3, <2>4 DEF LayoutInv, n
<1>10. StageInv'
  BY <1>1, <1>6 DEF StageInv, Writing, n
<1> QED
  BY <1>7, <1>8, <1>9, <1>10 DEF WriterInv

LEMMA WriteKeeps == ASSUME WriterInv, Write PROVE WriterInv'
<1> DEFINE n == Newest
           was == written[n]
           at == parts[n].offset
           cell == Cell(n, Len(was), 1)
<1>1. /\ WriterTyped /\ n \in 1..n /\ stage = "open" /\ n \in Nat \ {0}
      /\ disk => Len(file) = at + Len(was)
  BY NewestIsPart DEF WriterInv, Write, StageInv, LayoutInv, WriterTyped
<1>2. /\ was \in Seq(Given) /\ parts[n].buffer = was /\ at \in Nat /\ Len(was) \in Nat
      /\ file \in Seq(AnyCell)
  BY <1>1, EachPart, WritingInBuffer DEF WriterTyped
<1>3. cell \in Given /\ cell \in AnyCell
  BY <1>1, <1>2 DEF Cell, Given, AnyCell
<1>4. /\ parts' = [parts EXCEPT ![n].buffer = WriteAt(parts[n].buffer, Len(was), cell)]
      /\ file' = IF disk THEN WriteAt(file, at + Len(was), cell) ELSE file
      /\ written' = [written EXCEPT ![n] = Append(was, cell)]
      /\ UNCHANGED << disk, lowLatency, broken, listed, stage >>
  BY <1>1, <1>2 DEF Write, doubleWrite, WriterTyped
<1>5. WriteAt(was, Len(was), cell) = Append(was, cell)
  BY <1>2, <1>3, WriteAtEnd
<1>6. disk => file' = Append(file, cell)
  BY <1>1, <1>2, <1>3, <1>4, WriteAtEnd
<1> HIDE DEF cell
<1>7. /\ Append(was, cell) \in Seq(Given) /\ file' \in Seq(AnyCell)
      /\ Len(Append(was, cell)) = Len(was) + 1
      /\ \A j \in 1..Len(was) + 1 : Append(was, cell)[j] = IF j = Len(was) + 1 THEN cell ELSE was[j]
  BY <1>2, <1>3, <1>4, <1>6, SMTT(30)
<1>8. ASSUME disk
      PROVE  /\ Len(file') = at + Len(Append(was, cell))
             /\ \A k \in 1..at : file'[k] = file[k]
             /\ \A j \in 1..Len(was) + 1 : file'[at + j] = Append(was, cell)[j]
  <2>1. /\ file' = Append(file, cell) /\ Len(file) = at + Len(was)
        /\ \A j \in 1..Len(was) : file[at + j] = was[j]
    BY <1>1, <1>6, <1>8 DEF WriterInv, LayoutInv
  <2> HIDE DEF n, at, was
  <2>2. /\ Len(file') = at + Len(was) + 1
        /\ \A k \in 1..at + Len(was) : file'[k] = file[k]
        /\ file'[at + Len(was) + 1] = cell
    BY <1>2, <1>3, <2>1
  <2>3. ASSUME NEW j \in 1..Len(was) + 1 PROVE file'[at + j] = IF j = Len(was) + 1 THEN cell ELSE was[j]
    <3>1. CASE j = Len(was) + 1
      BY <1>2, <2>2, <3>1
    <3>2. CASE j # Len(was) + 1
      BY <1>2, <2>1, <2>2, <3>2
    <3> QED
      BY <3>1, <3>2
  <2> QED
    BY <1>2, <1>7, <2>2, <2>3
<1> QED
  BY <1>1, <1>2, <1>4, <1>5, <1>7, <1>8, NewestWritten

LEMMA SeekAndWriteKeeps == ASSUME WriterInv, SeekAndWrite PROVE WriterInv'
<1> DEFINE n == Newest
           was == written[n]
           at == parts[n].offset
           cell == Cell(n, 0, 2)
           new == [was EXCEPT ![1] = cell]
<1>1. /\ WriterTyped /\ n \in 1..n /\ stage = "open" /\ n \in Nat \ {0}
      /\ disk => Len(file) = at + Len(was)
  BY NewestIsPart DEF WriterInv, SeekAndWrite, StageInv, LayoutInv, WriterTyped
<1>2. /\ was \in Seq(Given) /\ parts[n].buffer = was /\ at \in Nat /\ Len(was) \in Nat
      /\ file \in Seq(AnyCell)
  BY <1>1, EachPart, WritingInBuffer DEF WriterTyped
<1>3. cell \in Given /\ cell \in AnyCell
  BY <1>1, <1>2 DEF Cell, Given, AnyCell
<1>4. /\ parts' = [parts EXCEPT ![n].buffer = WriteAt(parts[n].buffer, 0, cell)]
      /\ file' = IF disk THEN WriteAt(file, at, cell) ELSE file
      /\ written' = [written EXCEPT ![n] = new]
      /\ stage' = "full" /\ was # << >>
      /\ UNCHANGED << disk, lowLatency, broken, listed >>
  BY <1>1, <1>2 DEF SeekAndWrite, doubleWrite, WriterTyped
<1>5. 0 \in 0..Len(was) - 1 /\ 1 \in 1..Len(was)
  BY <1>2, <1>4
<1>6. WriteAt(was, 0, cell) = new
  <2>1. WriteAt(was, 0, cell) = [was EXCEPT ![0 + 1] = cell]
    <3> HIDE DEF was, cell
    <3> QED
      BY ONLY <1>2, <1>3, <1>5, WriteAtInside
  <2> QED
    BY <2>1, 0 + 1 = 1, Zenon
<1>7. ASSUME disk PROVE file' = [file EXCEPT ![at + 1] = cell]
  <2>1. file' = WriteAt(file, at, cell) /\ Len(file) = at + Len(was)
    BY <1>1, <1>4, <1>7
  <2> HIDE DEF at, was, cell
  <2>2. at \in 0..Len(file) - 1
    BY <1>2, <1>5, <2>1
  <2> QED
    BY ONLY <1>2, <1>3, <2>1, <2>2, WriteAtInside
<1> HIDE DEF cell
<1>8. /\ new \in Seq(Given) /\ file' \in Seq(AnyCell) /\ Len(new) = Len(was)
      /\ \A j \in 1..Len(was) : new[j] = IF j = 1 THEN cell ELSE was[j]
  BY <1>2, <1>3, <1>4, <1>5, <1>7
<1>9. ASSUME disk
      PROVE  /\ Len(file') = at + Len(new)
             /\ \A k \in 1..at : file'[k] = file[k]
             /\ \A j \in 1..Len(new) : file'[at + j] = new[j]
  <2>1. /\ file' = [file EXCEPT ![at + 1] = cell] /\ Len(file) = at + Len(was)
        /\ \A j \in 1..Len(was) : file[at + j] = was[j]
    BY <1>1, <1>7, <1>9 DEF WriterInv, LayoutInv
  <2> HIDE DEF n, at, was, new
  <2>2. /\ Len(file') = at + Len(was)
        /\ \A k \in 1..at + Len(was) : file'[k] = IF k = at + 1 THEN cell ELSE file[k]
    BY <1>2, <1>3, <2>1
  <2>3. \A j \in 1..Len(was) : at + j \in 1..at + Len(was) /\ (at + j = at + 1 <=> j = 1)
    BY <1>2
  <2>4. \A k \in 1..at : k \in 1..at + Len(was) /\ k # at + 1
    BY <1>2
  <2> QED
    BY <1>8, <2>1, <2>2, <2>3, <2>4
<1> QED
  BY <1>1, <1>2, <1>4, <1>6, <1>8, <1>9, NewestWritten

\* A write that fails leaves a cell behind the part.
LEMMA WriteFailsKeeps == ASSUME WriterInv, WriteFails PROVE WriterInv'
<1> DEFINE n == Newest
           was == written[n]
           at == parts[n].offset
<1>1. /\ WriterTyped /\ PartsInv /\ LayoutInv /\ StageInv /\ n \in 1..n
      /\ disk /\ stage = "open" /\ ~broken /\ stage' = "broken" /\ broken'
      /\ UNCHANGED << disk, lowLatency, parts, finalSize, listed, written >>
  BY NewestIsPart DEF WriterInv, WriteFails, StageInv
<1>2. parts[n].buffer = was /\ at \in Nat /\ Len(was) \in Nat /\ file \in Seq(AnyCell)
  BY <1>1, EachPart, WritingInBuffer DEF WriterTyped
<1>3. Len(file) = at + Len(was) /\ Zero \in AnyCell
  BY <1>1, GivenType DEF LayoutInv
<1>4. file' = Append(file, Zero)
  <2>1. file' = WriteAt(file, at + Len(was), Zero)
    BY <1>2 DEF WriteFails
  <2> QED
    BY <1>2, <1>3, <2>1, WriteAtEnd
<1>5. /\ file' \in Seq(AnyCell) /\ Len(file') = Len(file) + 1
      /\ \A k \in 1..Len(file) : file'[k] = file[k]
  BY <1>2, <1>3, <1>4
<1>6. WriterTyped'
  BY <1>1, <1>5 DEF WriterTyped, Stages, Newest
<1>7. PartsInv'
  BY <1>1 DEF PartsInv, InBuffer, Newest, Finalized
<1>8. LayoutInv'
  <2>1. ASSUME NEW i \in 1..n, NEW j \in 1..Len(written[i]) PROVE parts[i].offset + j \in 1..Len(file)
    <3>1. parts[i].offset \in Nat /\ Len(written[i]) \in Nat
      BY <1>1, EachPart
    <3>2. parts[i].offset + Len(written[i]) <= Len(file)
      <4>1. CASE i = n
        BY <1>3, <4>1
      <4>2. CASE i # n
        <5>1. i \in 1..n - 1
          BY <1>1, <4>2 DEF WriterTyped
        <5>2. parts[i].offset + Len(written[i]) <= at
          BY <1>1, <5>1 DEF LayoutInv
        <5> HIDE DEF at, was
        <5> QED
          BY <1>2, <1>3, <3>1, <5>2
      <4> QED
        BY <4>1, <4>2
    <3> QED
      BY <1>2, <3>1, <3>2
  <2>2. \A i \in 1..n : \A j \in 1..Len(written[i]) : file'[parts[i].offset + j] = written[i][j]
    BY <1>1, <1>5, <2>1 DEF LayoutInv
  <2>3. at + Len(was) <= Len(file')
    <3> HIDE DEF at, was
    <3> QED
      BY <1>2, <1>3, <1>5
  <2> QED
    BY <1>1, <2>2, <2>3 DEF LayoutInv, Newest
<1>9. StageInv'
  BY <1>1 DEF StageInv, Writing, Newest
<1> QED
  BY <1>6, <1>7, <1>8, <1>9 DEF WriterInv

\* Nothing is written anymore, or only paths change.
LEMMA PathsChange ==
    ASSUME WriterInv, UNCHANGED << disk, lowLatency, broken, parts, file, finalSize, written >>,
           StageInv', stage' \in Stages, listed' \subseteq Nat,
           Finalized => Finalized', stage' # "sized" \/ stage = "sized"
    PROVE  WriterInv'
<1>1. WriterTyped'
  BY DEF WriterInv, WriterTyped, Newest
<1>2. PartsInv'
  BY DEF WriterInv, PartsInv, InBuffer, Newest
<1>3. LayoutInv'
  BY DEF WriterInv, LayoutInv, Newest
<1> QED
  BY <1>1, <1>2, <1>3 DEF WriterInv

LEMMA ListPartKeeps == ASSUME WriterInv, ListPart PROVE WriterInv'
<1>1. /\ UNCHANGED << disk, lowLatency, broken, parts, file, finalSize, stage, written >>
      /\ stage = "full" /\ listed' = listed \union {Newest} /\ WriterTyped /\ StageInv
      /\ Newest \in 1..Newest /\ Newest \in Nat \ {0} /\ stage \in Stages /\ listed \subseteq Nat
  BY NewestIsPart DEF ListPart, WriterInv, WriterTyped
<1>2. StageInv'
  BY <1>1 DEF StageInv, Writing, Newest, Whole
<1> QED
  BY <1>1, <1>2, PathsChange DEF Finalized

LEMMA ListSegmentKeeps == ASSUME WriterInv, ListSegment PROVE WriterInv'
<1>1. /\ UNCHANGED << disk, lowLatency, broken, parts, file, finalSize, written >>
      /\ stage = "final" /\ ~broken /\ listed' = listed \union {Whole} /\ stage' = "listed"
      /\ WriterTyped /\ StageInv /\ listed \subseteq Nat
  BY DEF ListSegment, WriterInv, WriterTyped
<1>2. NoCopies'
  BY <1>1 DEF StageInv, NoCopies, Newest, InBuffer
<1>3. StageInv'
  BY <1>1, <1>2 DEF StageInv, Writing, Newest, Whole, AllWritten
<1>4. stage' \in Stages /\ listed' \subseteq Nat /\ Finalized'
  BY <1>1 DEF Stages, Whole, Finalized
<1> QED
  BY <1>1, <1>3, <1>4, PathsChange

\* The segment goes.
LEMMA LeavesKeeps ==
    ASSUME WriterInv, UnlistParts \/ RemoveFile \/ UnlistSegment PROVE WriterInv'
<1>1. /\ UNCHANGED << disk, lowLatency, broken, parts, file, finalSize, written >>
      /\ WriterTyped /\ StageInv /\ listed \subseteq Nat
      /\ stage' \in {"leaving", "removed", "gone"} /\ listed' \subseteq listed
      /\ stage \notin {"open", "full", "sized"} /\ (stage = "broken" => broken)
      /\ stage' = "gone" => listed' = {}
  <2>1. /\ WriterTyped /\ StageInv /\ listed \subseteq Nat
        /\ stage = "listed" => Whole \in listed
        /\ stage = "broken" => broken
    BY DEF WriterInv, WriterTyped, StageInv
  <2>2. CASE UnlistParts
    BY <2>1, <2>2 DEF UnlistParts
  <2>3. CASE RemoveFile
    BY <2>1, <2>3 DEF RemoveFile
  <2>4. CASE UnlistSegment
    BY <2>1, <2>4 DEF UnlistSegment
  <2> QED
    BY <2>2, <2>3, <2>4
<1>2. NoCopies => NoCopies'
  BY <1>1 DEF NoCopies, Newest, InBuffer
<1>3. StageInv'
  BY <1>1, <1>2 DEF StageInv, Writing, Newest, WriterTyped, Stages, AllWritten
<1>4. stage' \in Stages /\ listed' \subseteq Nat /\ Finalized'
  BY <1>1 DEF Stages, Finalized
<1> QED
  BY <1>1, <1>3, <1>4, PathsChange

\* Measuring the last part.
LEMMA SizedType ==
    ASSUME WriterTyped
    PROVE  /\ Sized(parts) \in Seq(PartRecord) /\ Len(Sized(parts)) = Newest
           /\ \A i \in 1..Newest :
                /\ Sized(parts)[i].offset = parts[i].offset
                /\ Sized(parts)[i].buffer = parts[i].buffer
                /\ Sized(parts)[i].size = IF i = Newest THEN Len(parts[Newest].buffer) ELSE parts[i].size
<1> DEFINE n == Newest
           last == parts[n]
           new == [last EXCEPT !.size = Len(last.buffer)]
<1>1. /\ n \in 1..n /\ n \in Nat \ {0} /\ n = Len(parts) /\ parts \in Seq(PartRecord)
      /\ last \in PartRecord
  BY NewestIsPart, EachPart DEF WriterTyped, Newest
<1>2. Sized(parts) = [parts EXCEPT ![n] = new]
  BY <1>1 DEF Sized
<1> HIDE DEF last
<1>5. Len(last.buffer) \in Nat
  BY <1>1 DEF PartRecord
<1>3. /\ new \in PartRecord /\ new.offset = last.offset /\ new.buffer = last.buffer
      /\ new.size = Len(last.buffer)
  BY <1>1, <1>5 DEF PartRecord
<1> HIDE DEF n, new
<1>4. /\ Sized(parts) \in Seq(PartRecord) /\ Len(Sized(parts)) = n
      /\ \A i \in 1..n : Sized(parts)[i] = IF i = n THEN new ELSE parts[i]
  BY ONLY <1>1, <1>2, <1>3, ExceptSeq
<1> QED
  BY <1>3, <1>4 DEF n, last

\* The next part starts empty, behind the last one.
LEMMA NewPartKeeps == ASSUME WriterInv, NewPart PROVE WriterInv'
<1> DEFINE n == Newest
           sized == Sized(parts)
           was == written[n]
           at == parts[n].offset
           new == NewPartAt(IF disk THEN at + Len(was) ELSE 0)
<1>1. /\ WriterTyped /\ PartsInv /\ LayoutInv /\ StageInv /\ n \in 1..n /\ n \in Nat \ {0}
      /\ stage = "full" /\ stage' = "open" /\ ~broken /\ Whole \notin listed
      /\ UNCHANGED << disk, lowLatency, broken, file, listed >>
  BY NewestIsPart DEF WriterInv, NewPart, StageInv, WriterTyped
<1>2. /\ \A i \in 1..n : /\ InBuffer(i) /\ parts[i].buffer = written[i] /\ written[i] # NoBuffer
                         /\ parts[i].offset \in Nat /\ Len(written[i]) \in Nat
  BY <1>1, EachPart, WritingInBuffer
<1>3. /\ sized \in Seq(PartRecord) /\ Len(sized) = n
      /\ \A i \in 1..n :
            /\ sized[i].offset = parts[i].offset /\ sized[i].buffer = written[i]
            /\ sized[i].size = IF i = n THEN Len(was) ELSE parts[i].size
  BY <1>1, <1>2, SizedType
<1>4. parts' = Append(sized, new) /\ written' = Append(written, << >>)
  BY <1>1, <1>3 DEF NewPart
<1>5. << >> \in Seq(Given) /\ << >> \in Seq(AnyCell) /\ << >> # NoBuffer
  BY GivenType
<1>6. at \in Nat /\ Len(was) \in Nat
  BY <1>1, <1>2
<1> HIDE DEF n, sized, was, at
<1>7. /\ new \in PartRecord /\ new.size = 0 /\ new.buffer = << >>
      /\ new.offset = IF disk THEN at + Len(was) ELSE 0
  BY <1>1, <1>5, <1>6 DEF NewPartAt, PartRecord, WriterTyped
<1> HIDE DEF new
<1>8. /\ parts' \in Seq(PartRecord) /\ Len(parts') = n + 1 /\ parts'[n + 1] = new
      /\ \A i \in 1..n : parts'[i] = sized[i]
  BY <1>3, <1>4, <1>7
<1>9. /\ written' \in Seq(Seq(Given)) /\ Len(written') = n + 1 /\ written'[n + 1] = << >>
      /\ \A i \in 1..n : written'[i] = written[i]
  BY <1>1, <1>4, <1>5 DEF WriterTyped, n
<1>10. Newest' = n + 1 /\ \A i \in 1..n + 1 : i \in 1..n \/ i = n + 1
  BY <1>1, <1>8 DEF Newest
<1>11. WriterTyped'
  BY <1>1, <1>8, <1>9, <1>10 DEF WriterTyped, Stages
<1>12. PartsInv'
  <2>1. ASSUME NEW i \in 1..n + 1 PROVE InBuffer(i)' /\ parts'[i].buffer = written'[i]
    <3>1. CASE i = n + 1
      BY <1>5, <1>7, <1>8, <1>9, <3>1 DEF InBuffer
    <3>2. CASE i \in 1..n
      <4>1. parts'[i].buffer = written[i] /\ written'[i] = written[i]
        BY <1>3, <1>8, <1>9, <3>2
      <4>2. written[i] # NoBuffer
        BY <1>2, <3>2 DEF n
      <4> QED
        BY <4>1, <4>2 DEF InBuffer
    <3> QED
      BY <1>10, <3>1, <3>2
  <2>2. ASSUME NEW i \in 1..n, disk PROVE parts'[i].size = Len(written'[i])
    <3>1. parts'[i].size = (IF i = n THEN Len(was) ELSE parts[i].size) /\ written'[i] = written[i]
      BY <1>3, <1>8, <1>9
    <3>2. i # n => parts[i].size = Len(written[i])
      BY <1>1, <2>2 DEF PartsInv, n
    <3> QED
      BY <3>1, <3>2 DEF was
  <2>3. \A i \in 1..n + 1 : i < n + 1 => i \in 1..n
    BY <1>1
  <2> QED
    BY <1>1, <1>10, <2>1, <2>2, <2>3 DEF PartsInv
<1>13. LayoutInv'
  <2> SUFFICES ASSUME disk PROVE LayoutInv'
    BY <1>1 DEF LayoutInv
  <2>1. /\ parts[1].offset = 0
        /\ \A i \in 1..n - 1 : /\ parts[i + 1].offset = parts[i].offset + Len(written[i])
                               /\ parts[i].offset + Len(written[i]) <= at
        /\ \A i \in 1..n : \A j \in 1..Len(written[i]) : file[parts[i].offset + j] = written[i][j]
        /\ Len(file) = at + Len(was)
    BY <1>1 DEF LayoutInv, n, at, was
  <2>2. \A i \in 1..n : parts'[i].offset = parts[i].offset /\ written'[i] = written[i]
    BY <1>3, <1>8, <1>9
  <2>3. parts'[n + 1].offset = at + Len(was) /\ Len(written'[n + 1]) = 0
    BY <1>7, <1>8, <1>9
  <2>4. parts'[1].offset = 0
    BY <1>1, <2>1, <2>2
  <2>5. ASSUME NEW i \in 1..n
        PROVE  /\ parts'[i + 1].offset = parts'[i].offset + Len(written'[i])
               /\ parts'[i].offset + Len(written'[i]) <= parts'[n + 1].offset
    <3>1. CASE i = n
      BY <1>1, <1>6, <2>2, <2>3, <3>1 DEF at, was
    <3>2. CASE i # n
      <4>1. i \in 1..n - 1 /\ i + 1 \in 1..n
        BY <1>1, <3>2
      <4>2. parts[i].offset + Len(written[i]) <= at /\ parts[i].offset \in Nat /\ Len(written[i]) \in Nat
        BY <1>2, <2>1, <4>1 DEF n
      <4> QED
        BY <1>6, <2>1, <2>2, <2>3, <4>1, <4>2
    <3> QED
      BY <3>1, <3>2
  <2>6. \A i \in 1..n + 1 : \A j \in 1..Len(written'[i]) : file[parts'[i].offset + j] = written'[i][j]
    <3>1. \A j \in 1..Len(written'[n + 1]) : FALSE
      BY <2>3
    <3>2. ASSUME NEW i \in 1..n
          PROVE  \A j \in 1..Len(written'[i]) : file[parts'[i].offset + j] = written'[i][j]
      BY <2>1, <2>2, SMTT(30)
    <3> QED
      BY <1>10, <3>1, <3>2
  <2> QED
    BY <1>1, <1>6, <1>10, <2>1, <2>3, <2>4, <2>5, <2>6, (n + 1) - 1 = n DEF LayoutInv
<1>14. StageInv'
  <2>1. ASSUME NEW i \in listed \ {Whole} PROVE i \in 1..n + 1 /\ i # n + 1
    BY <1>1, <2>1 DEF StageInv, n
  <2> QED
    BY <1>1, <1>10, <2>1 DEF StageInv, Writing
<1> QED
  BY <1>11, <1>12, <1>13, <1>14 DEF WriterInv

\* fileDisk.Finalize and fileRAM.Finalize.
LEMMA FinalizeKeeps == ASSUME WriterInv, Finalize PROVE WriterInv'
<1> DEFINE n == Newest
           was == written[n]
           at == parts[n].offset
<1>1. /\ WriterTyped /\ PartsInv /\ LayoutInv /\ StageInv /\ n \in 1..n /\ n \in Nat \ {0}
      /\ stage \in {"full", "broken"} /\ stage' = IF disk THEN "sized" ELSE "final"
      /\ Whole \notin listed
      /\ UNCHANGED << disk, lowLatency, broken, file, listed, written >>
      /\ parts' = IF disk THEN Sized(parts) ELSE parts
      /\ finalSize' = IF disk THEN parts'[n].offset + parts'[n].size ELSE Total(parts)
  BY NewestIsPart DEF WriterInv, Finalize, StageInv, WriterTyped
<1>2. \A i \in 1..n : /\ InBuffer(i) /\ parts[i].buffer = written[i] /\ written[i] # NoBuffer
                      /\ parts[i].offset \in Nat /\ Len(written[i]) \in Nat
  BY <1>1, EachPart, WritingInBuffer
<1>3. /\ parts' \in Seq(PartRecord) /\ Len(parts') = n
      /\ \A i \in 1..n :
            /\ parts'[i].offset = parts[i].offset /\ parts'[i].buffer = written[i]
            /\ disk => parts'[i].size = IF i = n THEN Len(was) ELSE parts[i].size
  <2>1. CASE disk
    BY <1>1, <1>2, <2>1, SizedType
  <2>2. CASE ~disk
    BY <1>1, <1>2, <2>2 DEF WriterTyped, Newest
  <2> QED
    BY <2>1, <2>2
<1>4. at \in Nat /\ Len(was) \in Nat
  BY <1>1, <1>2
<1>5. Newest' = n
  BY <1>3 DEF Newest
<1> HIDE DEF n, was, at
<1>6. WriterTyped'
  BY <1>1, <1>3, <1>5 DEF WriterTyped, Stages, n
<1>7. PartsInv'
  <2>1. \A i \in 1..n : InBuffer(i)' /\ parts'[i].buffer = written'[i]
    BY <1>1, <1>2, <1>3 DEF InBuffer, n
  <2>2. ASSUME NEW i \in 1..n, disk PROVE parts'[i].size = Len(written'[i])
    <3>1. parts'[i].size = (IF i = n THEN Len(was) ELSE parts[i].size) /\ written' = written
      BY <1>1, <1>3, <2>2
    <3>2. i # n => parts[i].size = Len(written[i])
      BY <1>1, <2>2 DEF PartsInv, n
    <3> QED
      BY <3>1, <3>2 DEF was
  <2> QED
    BY <1>1, <1>5, <2>1, <2>2 DEF PartsInv
<1>8. LayoutInv'
  <2> SUFFICES ASSUME disk PROVE LayoutInv'
    BY <1>1 DEF LayoutInv
  <2>1. \A i \in 1..n : parts'[i].offset = parts[i].offset
    BY <1>3
  <2>2. \A i \in 1..n - 1 : i \in 1..n /\ i + 1 \in 1..n
    BY <1>1
  <2> QED
    BY <1>1, <1>5, <2>1, <2>2 DEF LayoutInv, n
<1>9. ~broken => finalSize' = Len(AllWritten)
  <2>1. CASE disk
    <3>1. finalSize' = at + Len(was)
      BY <1>1, <1>3, <2>1 DEF at, was
    <3>2. ASSUME ~broken PROVE file = AllWritten /\ Len(file) = at + Len(was)
      BY <1>1, <2>1, <3>2, FileIsAll DEF WriterInv, LayoutInv, at, was, n
    <3> QED
      BY <3>1, <3>2
  <2>2. CASE ~disk
    <3>1. finalSize' = Total(parts) /\ \A i \in 1..Newest : parts[i].buffer = written[i]
      BY <1>1, <1>2, <2>2 DEF n
    <3> QED
      BY <1>1, <3>1, TotalIsAll
  <2> QED
    BY <2>1, <2>2
<1>10. StageInv'
  <2>1. AllWritten' = AllWritten
    BY <1>1 DEF AllWritten
  <2>2. ~disk => NoCopies'
    BY <1>1 DEF NoCopies
  <2>3. \A i \in listed \ {Whole} : i \in 1..n
    BY <1>1 DEF StageInv, n
  <2> QED
    BY <1>1, <1>5, <1>9, <2>1, <2>2, <2>3 DEF StageInv, Writing
<1> QED
  BY <1>6, <1>7, <1>8, <1>10 DEF WriterInv

LEMMA DropBuffersKeeps == ASSUME WriterInv, DropBuffers PROVE WriterInv'
<1> DEFINE n == Newest
<1>1. /\ WriterTyped /\ PartsInv /\ LayoutInv /\ StageInv /\ n \in 1..n /\ n \in Nat \ {0}
      /\ n = Len(parts) /\ stage = "sized" /\ stage' = "final" /\ Whole \notin listed
      /\ UNCHANGED << disk, lowLatency, broken, file, finalSize, listed, written >>
      /\ parts' = [i \in 1..n |-> [parts[i] EXCEPT !.buffer = NoBuffer]]
  BY NewestIsPart DEF WriterInv, DropBuffers, StageInv, WriterTyped, Newest
<1>2. ASSUME NEW i \in 1..n
      PROVE  /\ parts'[i] \in PartRecord /\ parts'[i].offset = parts[i].offset
             /\ parts'[i].size = parts[i].size /\ parts'[i].buffer = NoBuffer
  <2>1. parts[i] \in PartRecord /\ NoBuffer \in Seq(AnyCell)
    BY <1>1, EachPart, GivenType
  <2> QED
    BY <1>1, <2>1 DEF PartRecord
<1>3. parts' \in Seq(PartRecord) /\ Len(parts') = n
  BY <1>1, <1>2
<1>4. Newest' = n
  BY <1>3 DEF Newest
<1> HIDE DEF n
<1>5. WriterTyped'
  BY <1>1, <1>3, <1>4 DEF WriterTyped, Stages, n
<1>6. disk
  BY <1>1 DEF StageInv
<1>7. PartsInv'
  BY <1>1, <1>2, <1>4, <1>6 DEF PartsInv, InBuffer, Finalized, n
<1>8. LayoutInv'
  <2>1. \A i \in 1..n : parts'[i].offset = parts[i].offset
    BY <1>2
  <2>2. \A i \in 1..n - 1 : i \in 1..n /\ i + 1 \in 1..n
    BY <1>1
  <2> QED
    BY <1>1, <1>4, <2>1, <2>2 DEF LayoutInv, n
<1>9. StageInv'
  <2>1. AllWritten' = AllWritten
    BY <1>1 DEF AllWritten
  <2>2. NoCopies'
    BY <1>2, <1>4 DEF NoCopies, InBuffer
  <2> QED
    BY <1>1, <1>4, <2>1, <2>2 DEF StageInv, Writing, n
<1> QED
  BY <1>5, <1>7, <1>8, <1>9 DEF WriterInv

LEMMA WriterInvNext == ASSUME WriterInv, [Next]_vars PROVE WriterInv'
<1>1. CASE UNCHANGED writerVars
  BY <1>1 DEF writerVars, WriterInv, WriterTyped, PartsInv, LayoutInv, StageInv, NoCopies, InBuffer,
              Newest, Finalized, Writing, AllWritten
<1>2. CASE WriterNext
  BY <1>2, WriteKeeps, SeekAndWriteKeeps, WriteFailsKeeps, ListPartKeeps, NewPartKeeps,
     FinalizeKeeps, DropBuffersKeeps, ListSegmentKeeps, LeavesKeeps DEF WriterNext
<1>3. ReaderNext \/ UNCHANGED vars => UNCHANGED writerVars
  BY DEF ReaderNext, Lookup, OpenSegment, TestBuffer, UseBuffer, OpenPart, ReadDisk, ReadRAM,
         Becomes, vars, writerVars
<1> QED
  BY <1>1, <1>2, <1>3 DEF Next

\* What the writer keeps true, wherever it is and wherever the reader is.
THEOREM WriterSafe == Spec => []WriterInv
BY InitWriterInv, WriterInvNext, PTL DEF Spec

--------------------------------------------------------------------------------
(***************************************************************************)
(* The copies.                                                             *)
(***************************************************************************)

\* A piece of what lies in all at the place o.
LEMMA SameSlice ==
    ASSUME NEW S, NEW all \in Seq(S), NEW part \in Seq(S), NEW o \in Nat,
           o + Len(part) <= Len(all), \A j \in 1..Len(part) : all[o + j] = part[j],
           NEW a \in Nat, NEW b \in Nat, a <= b, b <= Len(part)
    PROVE  /\ SubSeq(all, (o + a) + 1, o + b) = SubSeq(part, a + 1, b)
           /\ SubSeq(part, a + 1, b) \in Seq(S)
<1> DEFINE from == (o + a) + 1
           to == o + b
           left == SubSeq(all, from, to)
           right == SubSeq(part, a + 1, b)
<1>1. from \in Int /\ to \in Int /\ a + 1 \in Int /\ b \in Int
  OBVIOUS
<1>2. (\A i \in from..to : all[i] \in S) /\ (\A i \in a + 1..b : part[i] \in S)
  OBVIOUS
<1>3. /\ left \in Seq(S) /\ Len(left) = IF from <= to THEN (to - from) + 1 ELSE 0
      /\ \A i \in 1..(to - from) + 1 : left[i] = all[(from + i) - 1]
  <2> HIDE DEF from, to
  <2> QED
    BY <1>1, <1>2, SubSeqProperties
<1>4. /\ right \in Seq(S) /\ Len(right) = IF a + 1 <= b THEN (b - (a + 1)) + 1 ELSE 0
      /\ \A i \in 1..(b - (a + 1)) + 1 : right[i] = part[((a + 1) + i) - 1]
  BY <1>1, <1>2, SubSeqProperties
<1> HIDE DEF left, right
<1>5. Len(left) = b - a /\ Len(right) = b - a
  BY <1>3, <1>4
<1>6. ASSUME NEW i \in 1..b - a PROVE left[i] = right[i]
  <2>1. i \in 1..(to - from) + 1 /\ i \in 1..(b - (a + 1)) + 1 /\ a + i \in 1..Len(part)
    OBVIOUS
  <2>2. (from + i) - 1 = o + (a + i) /\ ((a + 1) + i) - 1 = a + i
    OBVIOUS
  <2>3. all[o + (a + i)] = part[a + i]
    BY <2>1
  <2> HIDE DEF from, to
  <2>4. left[i] = all[(from + i) - 1] /\ right[i] = part[((a + 1) + i) - 1]
    BY <1>3, <1>4, <2>1
  <2> QED
    BY ONLY <2>2, <2>3, <2>4
<1>7. left = right
  BY <1>3, <1>4, <1>5, <1>6, SeqEqual
<1> QED
  BY <1>4, <1>7 DEF left, right

\* A part in the file.
LEMMA PartInFile ==
    ASSUME WriterInv, disk, NEW i \in 1..Newest
    PROVE  /\ parts[i].offset \in Nat /\ Len(written[i]) \in Nat
           /\ parts[i].offset + Len(written[i]) <= Len(file)
           /\ \A j \in 1..Len(written[i]) : file[parts[i].offset + j] = written[i][j]
<1> DEFINE n == Newest
           at == parts[n].offset
           was == written[n]
<1>1. WriterTyped /\ LayoutInv /\ n \in 1..n /\ n \in Nat \ {0} /\ file \in Seq(AnyCell)
  BY NewestIsPart DEF WriterInv, WriterTyped
<1>2. at \in Nat /\ Len(was) \in Nat /\ parts[i].offset \in Nat /\ Len(written[i]) \in Nat
  BY <1>1, EachPart
<1>3. /\ at + Len(was) <= Len(file)
      /\ i \in 1..n - 1 => parts[i].offset + Len(written[i]) <= at
      /\ \A j \in 1..Len(written[i]) : file[parts[i].offset + j] = written[i][j]
  BY <1>1 DEF LayoutInv
<1>4. i = n \/ i \in 1..n - 1
  BY <1>1
<1>5. i = n => parts[i].offset = at /\ Len(written[i]) = Len(was)
  OBVIOUS
<1>6. Len(file) \in Nat
  BY <1>1
<1> HIDE DEF n, at, was
<1> QED
  BY <1>2, <1>3, <1>4, <1>5, <1>6, SMTT(30)

LEMMA InvCopiesAgree == WriterInv => CopiesAgree
<1> SUFFICES ASSUME WriterInv, ~broken PROVE CopiesAgree
  BY DEF CopiesAgree
<1>1. WriterTyped /\ PartsInv /\ StageInv
  BY DEF WriterInv
<1>2. ASSUME disk, NEW i \in 1..Newest, InBuffer(i)
      PROVE  SubSeq(file, parts[i].offset + 1, parts[i].offset + Len(parts[i].buffer)) = parts[i].buffer
  <2> DEFINE part == written[i]
             o == parts[i].offset
  <2>1. /\ part \in Seq(AnyCell) /\ file \in Seq(AnyCell) /\ o \in Nat /\ Len(part) \in Nat
        /\ o + Len(part) <= Len(file) /\ \A j \in 1..Len(part) : file[o + j] = part[j]
    BY <1>1, <1>2, EachPart, PartInFile DEF WriterTyped
  <2>2. parts[i].buffer = part
    BY <1>1, <1>2 DEF PartsInv
  <2> HIDE DEF part, o
  <2>3. SubSeq(file, (o + 0) + 1, o + Len(part)) = SubSeq(part, 0 + 1, Len(part))
    BY <2>1, SameSlice, 0 \in Nat, 0 <= Len(part)
  <2>4. (o + 0) + 1 = o + 1 /\ 0 + 1 = 1
    BY <2>1
  <2>5. SubSeq(part, 1, Len(part)) = part
    BY <2>1, SubSeqFull
  <2>6. SubSeq(file, o + 1, o + Len(part)) = part
    BY ONLY <2>3, <2>4, <2>5, Zenon
  <2> QED
    BY ONLY <2>2, <2>6, Zenon DEF o
<1>3. Finalized => ~Writing
  BY DEF Finalized, Writing
<1>4. Finalized => finalSize = Len(AllWritten) /\ (disk => file = AllWritten)
  BY <1>1, <1>3, FileIsAll DEF StageInv
<1> QED
  BY <1>2, <1>4 DEF CopiesAgree, InBuffer, Newest

\* The two copies of a part agree, the file holds the parts one behind the other, and the
\* size computed by Finalize is that of all that was written, unless a write has failed.
THEOREM CopiesAlwaysAgree == Spec => []CopiesAgree
BY WriterSafe, InvCopiesAgree, PTL

--------------------------------------------------------------------------------
(***************************************************************************)
(* The invariant of the reader.                                            *)
(***************************************************************************)

\* What is read is complete.
Complete(target) ==
    IF target = Whole
    THEN ~broken /\ Finalized
    ELSE target \in 1..Newest /\ (target = Newest => stage # "open")

Base(target) == IF target = Whole THEN 0 ELSE parts[target].offset

Untouched == reader.got = << >> /\ reader.at = 0 /\ reader.part = 1

\* A handler that has been found at the time of a finalized segment finds no copy.
FoundInv ==
    reader.pc = "found" =>
        /\ Untouched /\ Complete(reader.target)
        /\ reader.target # Whole /\ disk /\ ~reader.early => ~InBuffer(reader.target)

BufferedInv ==
    reader.pc = "buffered" =>
        Complete(reader.target) /\ reader.target # Whole /\ disk /\ reader.early

\* A reader of the disk has got the beginning, and knows how much is left, ...
DiskInv ==
    reader.pc \in {"opening", "disk"} =>
        /\ disk /\ Complete(reader.target) /\ Finalized
        /\ \E read \in Nat :
            /\ reader.at = Base(reader.target) + read
            /\ \/ read + reader.left = Len(Content(reader.target))
               \/ reader.target # Whole /\ reader.unsized /\ reader.left = 0 /\ read = 0
            /\ reader.got = SubSeq(Content(reader.target), 1, read)

\* ... one of the memory has got some parts and the beginning of the next.
MemoryInv ==
    reader.pc = "ram" =>
        /\ ~disk /\ reader.target = Whole /\ Complete(Whole)
        /\ reader.part \in 1..Newest + 1
        /\ IF reader.part = Newest + 1
           THEN reader.got = AllWritten
           ELSE /\ reader.at \in 0..Len(written[reader.part])
                /\ reader.got = Joined(written, reader.part - 1)
                                    \o SubSeq(written[reader.part], 1, reader.at)

DoneInv ==
    /\ BytesServed
    /\ reader.pc = "done" /\ reader.status = "200" => Complete(reader.target)

ReaderInv ==
    /\ reader \in ReaderType
    /\ reader.pc = "idle" => Untouched
    /\ FoundInv /\ BufferedInv /\ DiskInv /\ MemoryInv /\ DoneInv

Inv == WriterInv /\ ReaderInv

\* What is complete stays as it is, whatever the writer does.
LEMMA CompleteStays ==
    ASSUME WriterInv, WriterNext, NEW target \in Nat, Complete(target)
    PROVE  /\ Complete(target)' /\ Content(target)' = Content(target)
           /\ Base(target)' = Base(target) /\ disk' = disk
           /\ (~OnDisk => ~OnDisk')
           /\ target # Whole /\ ~InBuffer(target) => ~InBuffer(target)'
           /\ target = Whole => UNCHANGED << written, parts >>
<1>1. WriterTyped /\ PartsInv /\ StageInv /\ Newest \in Nat \ {0} /\ Newest = Len(parts)
  BY DEF WriterInv, WriterTyped, Newest
<1>2. CASE target = Whole
  <2>1. ~broken /\ Finalized /\ stage \in Stages
    BY <1>1, <1>2 DEF Complete, WriterTyped
  <2>2. /\ UNCHANGED << disk, broken, parts, written >>
        /\ stage' \in {"listed", "leaving", "removed", "gone"}
        /\ stage \in {"removed", "gone"} => stage' \in {"removed", "gone"}
    BY <2>1 DEF WriterNext, Write, SeekAndWrite, WriteFails, ListPart, NewPart, Finalize,
                DropBuffers, ListSegment, UnlistParts, RemoveFile, UnlistSegment, Finalized, Stages
  <2> QED
    BY <1>2, <2>1, <2>2 DEF Complete, Finalized, Content, AllWritten, Base, OnDisk
<1>3. CASE target # Whole
  <2>1. target \in 1..Newest /\ (target = Newest => stage # "open")
    BY <1>3 DEF Complete
  <2>2. ASSUME parts' = parts, written' = written, disk' = disk,
               stage = "open" \/ stage' # "open", ~OnDisk => ~OnDisk'
        PROVE  /\ Complete(target)' /\ Content(target)' = Content(target)
               /\ Base(target)' = Base(target) /\ disk' = disk
               /\ (~OnDisk => ~OnDisk')
               /\ ~InBuffer(target) => ~InBuffer(target)'
    BY <1>3, <2>1, <2>2 DEF Complete, Content, Base, InBuffer, Newest
  <2>3. ASSUME Newest' \in Nat, Newest <= Newest', target = Newest' => stage' # "open",
               written'[target] = written[target],
               parts'[target].offset = parts[target].offset,
               ~InBuffer(target) => ~InBuffer(target)',
               disk' = disk, OnDisk
        PROVE  /\ Complete(target)' /\ Content(target)' = Content(target)
               /\ Base(target)' = Base(target) /\ disk' = disk
               /\ (~OnDisk => ~OnDisk')
               /\ ~InBuffer(target) => ~InBuffer(target)'
    BY <1>1, <1>3, <2>1, <2>3 DEF Complete, Content, Base
  <2>4. CASE Write \/ SeekAndWrite
    <3>1. stage = "open" /\ target # Newest /\ disk' = disk
      BY <2>1, <2>4 DEF Write, SeekAndWrite
    <3>2. PICK buffer : parts' = [parts EXCEPT ![Newest].buffer = buffer]
      BY <2>4, Zenon DEF Write, SeekAndWrite, doubleWrite
    <3>3. PICK content : written' = [written EXCEPT ![Newest] = content]
      BY <2>4 DEF Write, SeekAndWrite
    <3>4. parts'[target] = parts[target] /\ written'[target] = written[target] /\ Newest' = Newest
      BY <1>1, <2>1, <3>1, <3>2, <3>3 DEF WriterTyped, Newest
    <3> QED
      BY <1>1, <2>3, <3>1, <3>4, <1>3 DEF InBuffer, OnDisk
  <2>5. CASE WriteFails \/ ListPart \/ ListSegment \/ UnlistParts \/ RemoveFile \/ UnlistSegment
    <3>1. /\ parts' = parts /\ written' = written /\ disk' = disk
          /\ stage = "open" \/ stage' # "open"
          /\ ~OnDisk => ~OnDisk'
      BY <2>5 DEF WriteFails, ListPart, ListSegment, UnlistParts, RemoveFile, UnlistSegment, OnDisk
    <3> QED
      BY <1>3, <2>2, <3>1
  <2>6. CASE NewPart
    <3>1. PICK last : parts' = Append(Sized(parts), last) /\ written' = Append(written, << >>)
                      /\ stage = "full" /\ disk' = disk
      BY <2>6 DEF NewPart
    <3>2. /\ Sized(parts) \in Seq(PartRecord) /\ Len(Sized(parts)) = Newest
          /\ Sized(parts)[target].offset = parts[target].offset
          /\ Sized(parts)[target].buffer = parts[target].buffer
          /\ written \in Seq(Seq(Given)) /\ Len(written) = Newest
      BY <1>1, <2>1, SizedType DEF WriterTyped
    <3>3. /\ parts'[target] = Sized(parts)[target] /\ written'[target] = written[target]
          /\ Newest' = Newest + 1
      <4> DEFINE sized == Sized(parts)
      <4>1. sized \in Seq(PartRecord \union {last}) /\ last \in PartRecord \union {last}
        BY <3>2
      <4>2. target \in 1..Len(sized) /\ Len(sized) = Newest
        BY <2>1, <3>2
      <4> HIDE DEF sized
      <4>3. /\ Len(Append(sized, last)) = Len(sized) + 1
            /\ \A i \in 1..Len(sized) : Append(sized, last)[i] = sized[i]
        BY ONLY <4>1, AppendProperties
      <4>4. parts'[target] = sized[target] /\ Len(parts') = Newest + 1
        BY <3>1, <4>2, <4>3 DEF sized
      <4>5. written'[target] = written[target]
        BY <1>1, <2>1, <3>1, <3>2, << >> \in Seq(Given)
      <4> QED
        BY <4>4, <4>5 DEF sized, Newest
    <3>4. target # Newest' /\ Newest' \in Nat /\ Newest <= Newest'
      BY <1>1, <2>1, <3>3
    <3>5. OnDisk
      BY <3>1 DEF OnDisk
    <3>6. InBuffer(target)' = InBuffer(target) /\ parts'[target].offset = parts[target].offset
      BY <3>2, <3>3 DEF InBuffer
    <3> QED
      BY <1>1, <1>3, <2>3, <3>1, <3>3, <3>4, <3>5, <3>6
  <2>7. CASE Finalize \/ DropBuffers
    <3>1. /\ stage \in {"full", "broken", "sized"} /\ stage' # "open" /\ disk' = disk
          /\ written' = written
      BY <2>7 DEF Finalize, DropBuffers
    <3>2. /\ Newest' = Newest /\ parts'[target].offset = parts[target].offset
          /\ ~InBuffer(target) => ~InBuffer(target)'
      <4>1. CASE Finalize
        <5>1. parts' = Sized(parts) \/ parts' = parts
          BY <4>1 DEF Finalize
        <5> QED
          BY <1>1, <2>1, <5>1, SizedType DEF InBuffer, Newest
      <4>2. CASE DropBuffers
        <5>1. parts' = [i \in 1..Newest |-> [parts[i] EXCEPT !.buffer = NoBuffer]]
          BY <4>2 DEF DropBuffers, Newest
        <5>2. parts[target] \in PartRecord
          BY <1>1, <2>1, EachPart
        <5> QED
          BY <1>1, <2>1, <5>1, <5>2 DEF InBuffer, Newest, PartRecord
      <4> QED
        BY <2>7, <4>1, <4>2
    <3>3. OnDisk
      BY <3>1 DEF OnDisk
    <3> QED
      BY <1>1, <1>3, <2>3, <3>1, <3>2, <3>3
  <2> QED
    BY <1>3, <2>4, <2>5, <2>6, <2>7 DEF WriterNext
<1> QED
  BY <1>2, <1>3

LEMMA InitReaderInv == Init => ReaderInv
<1> SUFFICES ASSUME Init PROVE ReaderInv
  OBVIOUS
<1>1. reader = Idle
  BY DEF Init
<1>2. reader \in ReaderType
  BY <1>1 DEF Idle, ReaderType, Whole
<1>3. reader.pc = "idle" /\ Untouched
  BY <1>1 DEF Idle, Untouched
<1> QED
  BY <1>2, <1>3 DEF ReaderInv, FoundInv, BufferedInv, DiskInv, MemoryInv, DoneInv, BytesServed, Served, RacesWithFinalize

LEMMA WriterKeepsReader == ASSUME Inv, WriterNext PROVE ReaderInv'
<1> PICK target \in Nat : target = reader.target
  BY DEF Inv, ReaderInv, ReaderType
<1>1. WriterInv /\ ReaderInv
  BY DEF Inv
<1>2. reader' = reader
  BY DEF WriterNext, Write, SeekAndWrite, WriteFails, ListPart, NewPart, Finalize, DropBuffers,
         ListSegment, UnlistParts, RemoveFile, UnlistSegment
<1>3. ASSUME Complete(target)
      PROVE  /\ Complete(target)' /\ Content(target)' = Content(target)
             /\ Base(target)' = Base(target) /\ disk' = disk
             /\ (~OnDisk => ~OnDisk')
             /\ target # Whole /\ ~InBuffer(target) => ~InBuffer(target)'
             /\ target = Whole => UNCHANGED << written, parts >>
  BY <1>1, <1>3, CompleteStays
<1>4. disk' = disk /\ (Finalized => Finalized')
  BY DEF WriterNext, Write, SeekAndWrite, WriteFails, ListPart, NewPart, Finalize, DropBuffers,
         ListSegment, UnlistParts, RemoveFile, UnlistSegment, Finalized
<1>5. Untouched' <=> Untouched
  BY <1>2 DEF Untouched
<1>6. FoundInv'
  BY <1>1, <1>2, <1>3, <1>5 DEF ReaderInv, FoundInv
<1>7. BufferedInv'
  BY <1>1, <1>2, <1>3 DEF ReaderInv, BufferedInv
<1>8. DiskInv'
  BY <1>1, <1>2, <1>3, <1>4 DEF ReaderInv, DiskInv
<1>9. MemoryInv'
  <2> SUFFICES ASSUME reader.pc = "ram" PROVE MemoryInv'
    BY <1>2 DEF MemoryInv
  <2>1. MemoryInv /\ target = Whole /\ Complete(target)
    BY <1>1 DEF ReaderInv, MemoryInv
  <2>2. UNCHANGED << written, parts, disk >> /\ Complete(Whole)'
    BY <1>3, <2>1
  <2> QED
    BY <1>2, <2>1, <2>2 DEF MemoryInv, AllWritten, Newest
<1>10. DoneInv'
  <2> SUFFICES ASSUME reader.pc = "done" PROVE DoneInv'
    BY <1>2 DEF DoneInv, BytesServed, Served, RacesWithFinalize
  <2>1. /\ Served \/ RacesWithFinalize
        /\ reader.status = "200" => Complete(target)
    BY <1>1 DEF ReaderInv, DoneInv, BytesServed
  <2>2. ~OnDisk => ~OnDisk'
    BY DEF WriterNext, Write, SeekAndWrite, WriteFails, ListPart, NewPart, Finalize, DropBuffers,
           ListSegment, UnlistParts, RemoveFile, UnlistSegment, OnDisk
  <2>3. reader.status = "200" => Complete(target)' /\ Content(target)' = Content(target)
    BY <1>3, <2>1
  <2> QED
    BY <1>2, <1>4, <2>1, <2>2, <2>3 DEF DoneInv, BytesServed, Served, RacesWithFinalize
<1> QED
  BY <1>1, <1>2, <1>5, <1>6, <1>7, <1>8, <1>9, <1>10 DEF ReaderInv

\* What an answer has to be.
LEMMA Answers ==
    ASSUME ReaderInv, UNCHANGED writerVars, reader' \in ReaderType, reader'.pc = "done",
           reader'.target = reader.target, reader'.early = reader.early,
           reader'.unsized = reader.unsized,
           reader'.status \in {"200", "500", "panic"},
           reader'.status = "200" =>
                /\ Complete(reader.target)
                /\ \/ reader'.got = Content(reader.target)
                   \/ /\ disk /\ Finalized /\ reader.target # Whole
                      /\ reader.unsized /\ reader'.got = << >>,
           reader'.status = "500" => disk /\ ~OnDisk,
           reader'.status = "panic" => disk /\ Finalized /\ reader.target # Whole /\ reader.early
    PROVE  ReaderInv'
<1>1. /\ reader'.status = "200" => Complete(reader.target)' /\ Content(reader.target)' = Content(reader.target)
      /\ disk' = disk /\ OnDisk' = OnDisk /\ Finalized' = Finalized
  BY DEF writerVars, Complete, Content, AllWritten, OnDisk, Finalized, Newest
<1>2. DoneInv'
  BY <1>1 DEF DoneInv, BytesServed, Served, RacesWithFinalize, Complete, Content
<1> QED
  BY <1>2 DEF ReaderInv, FoundInv, BufferedInv, DiskInv, MemoryInv

LEMMA LookupKeeps == ASSUME Inv, Lookup PROVE ReaderInv'
<1>1. PICK target \in listed :
        /\ reader' = [reader EXCEPT !.pc = "found", !.target = target,
                                    !.early = Whole \notin listed,
                                    !.unsized = listed \intersect {Whole, target + 1} = {}]
        /\ UNCHANGED writerVars
  BY DEF Lookup, Becomes
<1>2. /\ WriterTyped /\ StageInv /\ reader \in ReaderType /\ Untouched /\ target \in Nat
  BY DEF Inv, WriterInv, WriterTyped, ReaderInv, Lookup
<1>3. /\ reader' \in ReaderType /\ reader'.pc = "found" /\ reader'.target = target
      /\ reader'.early = (Whole \notin listed) /\ Untouched'
  BY <1>1, <1>2 DEF ReaderType, Untouched
<1>4. Complete(target)
  BY <1>2 DEF Complete, StageInv, Finalized, Whole
<1>5. target # Whole /\ disk /\ Whole \in listed => ~InBuffer(target)
  BY <1>2, <1>4 DEF StageInv, NoCopies, Complete
<1>6. /\ Complete(target)' /\ disk' = disk
      /\ ~InBuffer(target) => ~InBuffer(target)'
  BY <1>1, <1>4 DEF writerVars, Complete, Finalized, Newest, InBuffer
<1>7. FoundInv'
  BY <1>3, <1>5, <1>6 DEF FoundInv
<1> QED
  BY <1>3, <1>7 DEF ReaderInv, BufferedInv, DiskInv, MemoryInv, DoneInv, BytesServed, Served, RacesWithFinalize

\* Where a reader finds its bytes on disk.
LEMMA FileHolds ==
    ASSUME WriterInv, disk, NEW target \in Nat, Complete(target)
    PROVE  /\ Content(target) \in Seq(AnyCell) /\ file \in Seq(AnyCell) /\ Base(target) \in Nat
           /\ Base(target) + Len(Content(target)) <= Len(file)
           /\ \A j \in 1..Len(Content(target)) : file[Base(target) + j] = Content(target)[j]
           /\ target = Whole => Len(file) = Len(Content(target))
<1>1. WriterTyped /\ file \in Seq(AnyCell)
  BY DEF WriterInv, WriterTyped
<1>2. CASE target = Whole
  <2>1. file = AllWritten
    BY <1>2, FileIsAll DEF Complete
  <2>2. Content(target) = file /\ Base(target) = 0
    BY <1>2, <2>1 DEF Content, Base
  <2>3. Len(file) \in Nat /\ \A j \in 1..Len(file) : 0 + j = j
    BY <1>1
  <2> QED
    BY <1>1, <2>2, <2>3
<1>3. CASE target # Whole
  <2>1. target \in 1..Newest
    BY <1>3 DEF Complete
  <2>2. Content(target) = written[target] /\ Base(target) = parts[target].offset
    BY <1>3 DEF Content, Base
  <2> QED
    BY <1>1, <1>3, <2>1, <2>2, EachPart, PartInFile
<1> QED
  BY <1>2, <1>3

LEMMA NothingRead ==
    ASSUME NEW s
    PROVE  SubSeq(s, 1, 0) = << >>
BY SubSeqEmpty, 0 < 1, 0 \in Int, 1 \in Int

LEMMA OpenSegmentKeeps == ASSUME Inv, OpenSegment PROVE ReaderInv'
<1>1. /\ WriterInv /\ ReaderInv /\ WriterTyped /\ reader \in ReaderType /\ UNCHANGED writerVars
      /\ reader.target = Whole /\ Complete(Whole) /\ Untouched /\ Finalized
  BY DEF Inv, WriterInv, ReaderInv, FoundInv, OpenSegment, Becomes, Complete
<1>2. CASE ~disk
  <2>1. reader' = [reader EXCEPT !.pc = "ram", !.left = Chunk]
    BY <1>1, <1>2 DEF OpenSegment, Becomes
  <2>2. /\ reader' \in ReaderType /\ reader'.pc = "ram" /\ reader'.target = Whole
        /\ reader'.got = << >> /\ reader'.at = 0 /\ reader'.part = 1
    BY <1>1, <2>1, StorageAssumption DEF ReaderType, Untouched
  <2>3. Newest \in Nat \ {0} /\ written[1] \in Seq(AnyCell) /\ Len(written[1]) \in Nat
    <3>1. Newest \in Nat \ {0} /\ 1 \in 1..Newest
      BY <1>1 DEF WriterTyped
    <3> QED
      BY <1>1, <3>1, EachPart
  <2>4. << >> = Joined(written, 1 - 1) \o SubSeq(written[1], 1, 0)
    <3>1. Joined(written, 0) = << >>
      <4>1. written \in Seq(Seq(Given))
        BY <1>1 DEF WriterTyped
      <4> QED
        BY <4>1, JoinedOneByOne
    <3> QED
      BY <3>1, NothingRead
  <2>5. MemoryInv'
    <3>1. /\ UNCHANGED << disk, parts, written >> /\ Complete(Whole)'
      BY <1>1 DEF writerVars, Complete, Finalized
    <3> QED
      BY <1>2, <2>2, <2>3, <2>4, <3>1 DEF MemoryInv, Newest
  <2> QED
    BY <2>2, <2>5 DEF ReaderInv, FoundInv, BufferedInv, DiskInv, DoneInv, BytesServed, Served, RacesWithFinalize
<1>3. CASE disk /\ OnDisk
  <2>1. reader' = [reader EXCEPT !.pc = "disk", !.left = Len(file)]
    BY <1>1, <1>3 DEF OpenSegment, Becomes
  <2>2. Len(file) \in Nat /\ Len(file) = Len(Content(Whole))
    <3>1. Whole \in Nat
      BY DEF Whole
    <3> QED
      BY <1>1, <1>3, <3>1, FileHolds
  <2>3. /\ reader' \in ReaderType /\ reader'.pc = "disk" /\ reader'.target = Whole
        /\ reader'.got = << >> /\ reader'.at = 0 /\ reader'.left = Len(Content(Whole))
    BY <1>1, <2>1, <2>2 DEF ReaderType, Untouched
  <2>4. DiskInv'
    <3>1. /\ Complete(Whole)' /\ Content(Whole)' = Content(Whole) /\ Base(Whole)' = 0 /\ disk'
          /\ Finalized'
      BY <1>1, <1>3 DEF writerVars, Complete, Finalized, Content, AllWritten, Base
    <3>2. 0 \in Nat /\ 0 = 0 + 0 /\ 0 + Len(Content(Whole)) = Len(Content(Whole))
      BY <2>2
    <3> QED
      BY <2>3, <3>1, <3>2, NothingRead DEF DiskInv
  <2> QED
    BY <2>3, <2>4 DEF ReaderInv, FoundInv, BufferedInv, MemoryInv, DoneInv, BytesServed, Served, RacesWithFinalize
<1>4. CASE disk /\ ~OnDisk
  <2>1. reader' = Answer("500")
    BY <1>1, <1>4 DEF OpenSegment, Becomes
  <2>2. /\ reader' \in ReaderType /\ reader'.pc = "done" /\ reader'.status = "500"
        /\ reader'.target = reader.target /\ reader'.early = reader.early
        /\ reader'.unsized = reader.unsized
    BY <1>1, <2>1 DEF Answer, ReaderType
  <2> QED
    BY <1>1, <1>4, <2>2, Answers
<1> QED
  BY <1>2, <1>3, <1>4

LEMMA TestBufferKeeps == ASSUME Inv, TestBuffer PROVE ReaderInv'
<1> PICK t \in Nat : t = reader.target
  BY DEF Inv, ReaderInv, ReaderType
<1>1. /\ WriterInv /\ ReaderInv /\ WriterTyped /\ PartsInv /\ reader \in ReaderType
      /\ reader.pc = "found" /\ t # Whole /\ t \in 1..Newest /\ Complete(t) /\ Untouched
      /\ disk /\ ~reader.early => ~InBuffer(t)
  BY DEF Inv, WriterInv, ReaderInv, FoundInv, TestBuffer, Complete
<1>2. UNCHANGED writerVars
  BY DEF TestBuffer, Becomes
<1>3. /\ parts[t] \in PartRecord /\ parts[t].buffer \in Seq(AnyCell) /\ parts[t].offset \in Nat
      /\ written[t] \in Seq(AnyCell) /\ Len(written[t]) \in Nat
      /\ InBuffer(t) => parts[t].buffer = written[t]
      /\ ~InBuffer(t) => disk /\ Finalized /\ parts[t].size = Len(written[t])
  BY <1>1, EachPart DEF PartsInv
<1>4. /\ Complete(t)' = Complete(t) /\ Content(t) = written[t] /\ Content(t)' = Content(t)
      /\ Base(t) = parts[t].offset /\ Base(t)' = Base(t) /\ disk' = disk
      /\ Finalized' = Finalized
  BY <1>1, <1>2 DEF writerVars, Complete, Finalized, Newest, Content, Base
<1>5. CASE ~disk
  <2>1. reader' = [Answer("200") EXCEPT !.got = parts[t].buffer]
    BY <1>5 DEF TestBuffer, Becomes, Target
  <2>2. /\ reader' \in ReaderType /\ reader'.pc = "done" /\ reader'.status = "200"
        /\ reader'.target = reader.target /\ reader'.early = reader.early
        /\ reader'.unsized = reader.unsized /\ reader'.got = parts[t].buffer
    BY <1>1, <1>3, <2>1 DEF Answer, ReaderType
  <2>3. parts[t].buffer = Content(t)
    BY <1>3, <1>4, <1>5
  <2> QED
    BY <1>1, <1>2, <2>2, <2>3, Answers
<1>6. CASE disk /\ InBuffer(t)
  <2>1. reader' = [reader EXCEPT !.pc = "buffered"]
    BY <1>6 DEF TestBuffer, Becomes, Target, InBuffer
  <2>2. /\ reader' \in ReaderType /\ reader'.pc = "buffered"
        /\ reader'.target = reader.target /\ reader'.early = reader.early
    BY <1>1, <2>1 DEF ReaderType
  <2>3. BufferedInv'
    BY <1>1, <1>4, <1>6, <2>2 DEF BufferedInv, Complete
  <2> QED
    BY <2>2, <2>3 DEF ReaderInv, FoundInv, DiskInv, MemoryInv, DoneInv, BytesServed, Served, RacesWithFinalize
<1>7. CASE disk /\ ~InBuffer(t)
  <2>1. PICK size : /\ size = parts[t].size \/ (reader.unsized /\ size = 0)
                    /\ reader' = [reader EXCEPT !.pc = "opening", !.at = parts[t].offset, !.left = size]
    <3>1. \E size \in {parts[t].size} \union (IF reader.unsized THEN {0} ELSE {}) :
            reader' = [reader EXCEPT !.pc = "opening", !.at = parts[t].offset, !.left = size]
      BY <1>7 DEF TestBuffer, Becomes, Target, InBuffer
    <3>2. \A size \in {parts[t].size} \union (IF reader.unsized THEN {0} ELSE {}) :
            size = parts[t].size \/ (reader.unsized /\ size = 0)
      OBVIOUS
    <3> QED
      BY <3>1, <3>2
  <2>2. size \in Nat /\ (size = Len(written[t]) \/ (reader.unsized /\ size = 0))
    BY <1>3, <1>7, <2>1
  <2>3. /\ reader' \in ReaderType /\ reader'.pc = "opening" /\ reader'.target = reader.target
        /\ reader'.at = parts[t].offset /\ reader'.left = size /\ reader'.got = << >>
        /\ reader'.unsized = reader.unsized
    BY <1>1, <1>3, <2>1, <2>2 DEF ReaderType, Untouched
  <2>4. DiskInv'
    <3>1. /\ 0 \in Nat /\ parts[t].offset = Base(t) + 0
          /\ 0 + size = Len(Content(t)) \/ (reader.unsized /\ size = 0 /\ 0 = 0)
      BY <1>3, <1>4, <2>2
    <3>2. << >> = SubSeq(Content(t), 1, 0)
      BY NothingRead
    <3>3. Complete(t)' /\ Content(t)' = Content(t) /\ Base(t)' = Base(t) /\ disk'
          /\ Finalized'
      BY <1>1, <1>3, <1>4, <1>7
    <3> QED
      BY <1>1, <2>3, <3>1, <3>2, <3>3 DEF DiskInv, Complete, Content, Base
  <2> QED
    BY <2>3, <2>4 DEF ReaderInv, FoundInv, BufferedInv, MemoryInv, DoneInv, BytesServed, Served, RacesWithFinalize
<1> QED
  BY <1>5, <1>6, <1>7

LEMMA UseBufferKeeps == ASSUME Inv, UseBuffer PROVE ReaderInv'
<1> DEFINE t == reader.target
<1>1. /\ WriterTyped /\ PartsInv /\ ReaderInv /\ reader \in ReaderType
      /\ t # Whole /\ t \in 1..Newest /\ Complete(t) /\ disk /\ reader.early
      /\ UNCHANGED writerVars
  BY DEF Inv, WriterInv, ReaderInv, BufferedInv, UseBuffer, Complete, Becomes
<1>2. /\ parts[t].buffer \in Seq(AnyCell)
      /\ InBuffer(t) => parts[t].buffer = Content(t)
      /\ ~InBuffer(t) => Finalized
  BY <1>1, EachPart DEF PartsInv, Content
<1>3. CASE ~InBuffer(t)
  <2>1. reader' = Answer("panic")
    BY <1>3 DEF UseBuffer, Becomes, Target, InBuffer
  <2>2. /\ reader' \in ReaderType /\ reader'.pc = "done" /\ reader'.status = "panic"
        /\ reader'.target = reader.target /\ reader'.early = reader.early
        /\ reader'.unsized = reader.unsized
    BY <1>1, <2>1 DEF Answer, ReaderType
  <2> QED
    BY <1>1, <1>2, <1>3, <2>2, Answers
<1>4. CASE InBuffer(t)
  <2>1. reader' = [Answer("200") EXCEPT !.got = parts[t].buffer]
    BY <1>4 DEF UseBuffer, Becomes, Target, InBuffer
  <2>2. /\ reader' \in ReaderType /\ reader'.pc = "done" /\ reader'.status = "200"
        /\ reader'.target = reader.target /\ reader'.early = reader.early
        /\ reader'.unsized = reader.unsized /\ reader'.got = parts[t].buffer
    BY <1>1, <1>2, <2>1 DEF Answer, ReaderType
  <2> QED
    BY <1>1, <1>2, <1>4, <2>2, Answers
<1> QED
  BY <1>3, <1>4

LEMMA OpenPartKeeps == ASSUME Inv, OpenPart PROVE ReaderInv'
<1> DEFINE t == reader.target
<1>1. /\ ReaderInv /\ DiskInv /\ reader \in ReaderType /\ reader.pc = "opening" /\ disk /\ Finalized
      /\ UNCHANGED writerVars
  BY DEF Inv, ReaderInv, DiskInv, OpenPart, Becomes
<1>2. CASE OnDisk
  <2>1. reader' = [reader EXCEPT !.pc = "disk"]
    BY <1>2 DEF OpenPart, Becomes
  <2>2. /\ reader' \in ReaderType /\ reader'.pc = "disk" /\ reader'.target = t
        /\ reader'.at = reader.at /\ reader'.left = reader.left /\ reader'.got = reader.got
        /\ reader'.unsized = reader.unsized
    BY <1>1, <2>1 DEF ReaderType
  <2>3. DiskInv'
    <3>1. disk' = disk /\ Complete(t)' = Complete(t) /\ Content(t)' = Content(t) /\ Base(t)' = Base(t)
          /\ Finalized'
      BY <1>1, <2>2 DEF writerVars, Complete, Finalized, Newest, Content, AllWritten, Base
    <3> QED
      BY <1>1, <2>2, <3>1 DEF DiskInv
  <2> QED
    BY <2>2, <2>3 DEF ReaderInv, FoundInv, BufferedInv, MemoryInv, DoneInv, BytesServed, Served, RacesWithFinalize
<1>3. CASE ~OnDisk
  <2>1. reader' = Answer("500")
    BY <1>3 DEF OpenPart, Becomes
  <2>2. /\ reader' \in ReaderType /\ reader'.pc = "done" /\ reader'.status = "500"
        /\ reader'.target = reader.target /\ reader'.early = reader.early
        /\ reader'.unsized = reader.unsized
    BY <1>1, <2>1 DEF Answer, ReaderType
  <2> QED
    BY <1>1, <1>3, <2>2, Answers
<1> QED
  BY <1>2, <1>3

\* What has been read, and the next bytes.
LEMMA ReadOn ==
    ASSUME NEW S, NEW s \in Seq(S), NEW a \in Nat, NEW b \in Nat, a <= b, b <= Len(s)
    PROVE  /\ SubSeq(s, 1, a) \o SubSeq(s, a + 1, b) = SubSeq(s, 1, b)
           /\ SubSeq(s, 1, a) \in Seq(S) /\ SubSeq(s, a + 1, b) \in Seq(S)
           /\ SubSeq(s, 1, b) \in Seq(S)
<1>1. 1 \in 1..Len(s) + 1 /\ a \in (1 - 1)..Len(s) /\ b \in a..Len(s)
  OBVIOUS
<1>2. SubSeq(s, 1, a) \o SubSeq(s, a + 1, b) = SubSeq(s, 1, b)
  BY <1>1, ConcatAdjacentSubSeq
<1>3. /\ \A i \in 1..a : s[i] \in S
      /\ \A i \in a + 1..b : s[i] \in S
      /\ \A i \in 1..b : s[i] \in S
  OBVIOUS
<1>4. 1 \in Int /\ a \in Int /\ b \in Int /\ a + 1 \in Int
  OBVIOUS
<1> QED
  BY <1>2, <1>3, <1>4, SubSeqProperties

LEMMA ReadDiskKeeps == ASSUME Inv, ReadDisk PROVE ReaderInv'
<1> PICK t \in Nat : t = reader.target
  BY DEF Inv, ReaderInv, ReaderType
<1> DEFINE count == Least(Chunk, Least(reader.left, Len(file) - reader.at))
           c == Content(t)
           base == Base(t)
<1>1. /\ WriterInv /\ ReaderInv /\ reader \in ReaderType /\ disk /\ Complete(t) /\ Finalized
      /\ reader.left \in Nat /\ reader.got \in Seq(AnyCell) /\ Chunk \in Nat \ {0}
  BY StorageAssumption DEF Inv, ReaderInv, DiskInv, ReadDisk, ReaderType
<1>2. PICK read \in Nat :
        /\ reader.at = base + read
        /\ read + reader.left = Len(c) \/ (t # Whole /\ reader.unsized /\ reader.left = 0 /\ read = 0)
        /\ reader.got = SubSeq(c, 1, read)
  <2>1. DiskInv /\ reader.pc = "disk"
    BY DEF Inv, ReaderInv, ReadDisk
  <2> QED
    BY <2>1 DEF DiskInv
<1>3. /\ c \in Seq(AnyCell) /\ file \in Seq(AnyCell) /\ base \in Nat
      /\ base + Len(c) <= Len(file)
      /\ \A j \in 1..Len(c) : file[base + j] = c[j]
  BY <1>1, FileHolds
<1>4. Len(c) \in Nat /\ Len(file) \in Nat
  BY <1>3
<1>5. /\ UNCHANGED writerVars
      /\ reader' = IF count = 0 THEN Answer("200")
                   ELSE [reader EXCEPT !.got = @ \o SubSeq(file, reader.at + 1, reader.at + count),
                                       !.at = @ + count, !.left = @ - count]
  BY DEF ReadDisk, Becomes
<1> HIDE DEF c, base
<1>6. read <= Len(c) /\ reader.left <= Len(c) - read
  BY <1>1, <1>2, <1>4
<1>7. /\ count \in Nat /\ count <= reader.left /\ (count = 0 => reader.left = 0)
  BY <1>1, <1>2, <1>3, <1>4, <1>6 DEF Least
<1> HIDE DEF count
<1>8. CASE count = 0
  <2>1. /\ reader' \in ReaderType /\ reader'.pc = "done" /\ reader'.status = "200"
        /\ reader'.target = reader.target /\ reader'.early = reader.early
        /\ reader'.unsized = reader.unsized /\ reader'.got = reader.got
    BY <1>1, <1>5, <1>8 DEF Answer, ReaderType
  <2>2. reader.got = Content(t) \/ (t # Whole /\ reader.unsized /\ reader.got = << >>)
    <3>1. read = Len(c) \/ (t # Whole /\ reader.unsized /\ read = 0)
      BY <1>2, <1>4, <1>7, <1>8
    <3> QED
      BY <1>2, <1>3, <3>1, SubSeqFull, NothingRead DEF c
  <2> QED
    BY <1>1, <1>5, <2>1, <2>2, Answers
<1>9. CASE count # 0
  <2> DEFINE next == read + count
  <2>1. next \in Nat /\ read <= next /\ next <= Len(c) /\ next + (reader.left - count) = Len(c)
    <3>1. reader.left # 0 /\ reader.left \in Nat
      BY <1>1, <1>7, <1>9
    <3>2. read + reader.left = Len(c)
      BY <1>2, <3>1
    <3> QED
      BY <1>4, <1>7, <3>1, <3>2
  <2>2. /\ (base + read) + 1 = reader.at + 1 /\ base + next = reader.at + count
        /\ reader.at \in Nat
    BY <1>2, <1>3, <1>7
  <2> HIDE DEF next
  <2>3. SubSeq(file, (base + read) + 1, base + next) = SubSeq(c, read + 1, next)
    BY ONLY <1>3, <2>1, read \in Nat, SameSlice, SMTT(30)
  <2>4. /\ SubSeq(c, 1, read) \o SubSeq(c, read + 1, next) = SubSeq(c, 1, next)
        /\ SubSeq(c, 1, next) \in Seq(AnyCell)
    BY ONLY <1>3, <2>1, read \in Nat, ReadOn, Zenon
  <2>5. reader.got \o SubSeq(file, reader.at + 1, reader.at + count) = SubSeq(c, 1, next)
    BY ONLY <1>2, <2>2, <2>3, <2>4, Zenon
  <2>6. reader' = [reader EXCEPT !.got = SubSeq(c, 1, next),
                                 !.at = reader.at + count, !.left = reader.left - count]
    BY <1>5, <1>9, <2>5
  <2>7. /\ reader' \in ReaderType /\ reader'.pc = "disk" /\ reader'.target = t
        /\ reader'.at = base + next /\ reader'.left = reader.left - count
        /\ reader'.got = SubSeq(c, 1, next)
    <3>1. reader.pc = "disk" /\ reader.left - count \in Nat /\ reader.at + count \in Nat
      BY <1>1, <1>7, <2>2, SMTT(30) DEF ReadDisk
    <3> HIDE DEF next
    <3> QED
      BY <1>1, <2>2, <2>4, <2>6, <3>1 DEF ReaderType
  <2>8. DiskInv'
    <3>1. disk' /\ Complete(t)' /\ Content(t)' = c /\ Base(t)' = base /\ Finalized'
      BY <1>1, <1>5 DEF writerVars, Complete, Finalized, Newest, Content, AllWritten, Base, c, base
    <3> HIDE DEF next
    <3> QED
      BY <2>1, <2>7, <3>1 DEF DiskInv
  <2> QED
    BY <2>7, <2>8 DEF ReaderInv, FoundInv, BufferedInv, MemoryInv, DoneInv, BytesServed, Served, RacesWithFinalize
<1> QED
  BY <1>8, <1>9

\* One pass of the loop of ramFileReader.Read.
LEMMA ReadRAMKeeps == ASSUME Inv, ReadRAM PROVE ReaderInv'
<1> DEFINE n == Newest
           part == reader.part
           b == written[part]
           copied == Least(reader.left, Len(b) - reader.at)
<1>1. /\ WriterInv /\ WriterTyped /\ PartsInv /\ ReaderInv /\ MemoryInv /\ reader \in ReaderType
      /\ reader.pc = "ram" /\ ~disk /\ reader.target = Whole /\ Complete(Whole)
      /\ part \in 1..n + 1 /\ n \in Nat \ {0} /\ n = Len(parts) /\ UNCHANGED writerVars
      /\ reader.left \in Nat /\ Chunk \in Nat \ {0}
  BY StorageAssumption
     DEF Inv, WriterInv, ReaderInv, ReaderType, MemoryInv, ReadRAM, Becomes, WriterTyped, Newest
<1>2. /\ UNCHANGED << disk, parts, written >> /\ Complete(Whole)' /\ n' = n
  BY <1>1 DEF writerVars, Complete, Finalized, Newest
<1>3. CASE part = n + 1
  <2>1. reader' = Answer("200")
    BY <1>1, <1>3 DEF ReadRAM, Becomes
  <2>2. /\ reader' \in ReaderType /\ reader'.pc = "done" /\ reader'.status = "200"
        /\ reader'.target = reader.target /\ reader'.early = reader.early
        /\ reader'.unsized = reader.unsized /\ reader'.got = reader.got
    BY <1>1, <2>1 DEF Answer, ReaderType
  <2>3. reader.got = Content(reader.target)
    BY <1>1, <1>3 DEF MemoryInv, Content
  <2> QED
    BY <1>1, <2>2, <2>3, Answers
<1>4. CASE part # n + 1
  <2>1. part \in 1..n /\ part - 1 \in Nat /\ part - 1 \in 0..n - 1 /\ part \in 0..n
        /\ (part - 1) + 1 = part /\ ~(part > n)
    BY <1>1, <1>4
  <2>2. b \in Seq(AnyCell) /\ Len(b) \in Nat /\ parts[part].buffer = b
    BY <1>1, <2>1, EachPart DEF PartsInv
  <2>3. /\ reader.at \in 0..Len(b)
        /\ reader.got = Joined(written, part - 1) \o SubSeq(b, 1, reader.at)
    BY <1>1, <1>4 DEF MemoryInv
  <2>4. /\ written \in Seq(Seq(AnyCell)) /\ Len(written) = n
    <3>1. \A i \in 1..n : written[i] \in Seq(AnyCell)
      BY <1>1, EachPart
    <3>2. written \in Seq(Seq(Given)) /\ Len(written) = n
      BY <1>1 DEF WriterTyped
    <3> QED
      BY <3>1, <3>2
  <2>5. /\ Joined(written, part - 1) \in Seq(AnyCell) /\ Joined(written, part) \in Seq(AnyCell)
        /\ Joined(written, part) = Joined(written, part - 1) \o b
        /\ Joined(written, n) = AllWritten
    <3>1. /\ Joined(written, part - 1) \in Seq(AnyCell) /\ Joined(written, part) \in Seq(AnyCell)
          /\ Joined(written, (part - 1) + 1) = Joined(written, part - 1) \o written[(part - 1) + 1]
          /\ Joined(written, n) = FlattenSeq(written)
      <4>1. /\ \A k \in 0..n : Joined(written, k) \in Seq(AnyCell)
            /\ \A k \in 0..n - 1 : Joined(written, k + 1) = Joined(written, k) \o written[k + 1]
            /\ Joined(written, n) = FlattenSeq(written)
        <5>1. /\ \A k \in 0..Len(written) : Joined(written, k) \in Seq(AnyCell)
              /\ \A k \in 0..Len(written) - 1 : Joined(written, k + 1) = Joined(written, k) \o written[k + 1]
              /\ Joined(written, Len(written)) = FlattenSeq(written)
          BY <2>4, JoinedOneByOne
        <5> QED
          BY ONLY <2>4, <5>1
      <4>2. part - 1 \in 0..n
        BY <1>1, <2>1
      <4> QED
        BY <2>1, <4>1, <4>2
    <3> QED
      BY <2>1, <3>1 DEF AllWritten
  <2> DEFINE was == Joined(written, part - 1)
             next == reader.at + copied
             got == was \o SubSeq(b, 1, next)
             ended == next = Len(b)
  <2>6. /\ UNCHANGED writerVars
        /\ reader' = [reader EXCEPT
                        !.got = reader.got \o SubSeq(b, reader.at + 1, next),
                        !.part = IF ended THEN part + 1 ELSE part,
                        !.at = IF ended THEN 0 ELSE next,
                        !.left = IF reader.left = copied THEN Chunk ELSE reader.left - copied]
    BY <1>1, <2>1, <2>2 DEF ReadRAM, Becomes
  <2>7. copied \in Nat /\ copied <= reader.left /\ next \in Nat /\ next <= Len(b)
        /\ reader.at <= next /\ reader.at \in Nat
    <3> DEFINE room == Len(b) - reader.at
    <3>1. room \in Nat /\ reader.left \in Nat /\ reader.at \in Nat /\ reader.at + room = Len(b)
      BY <1>1, <2>2, <2>3
    <3> HIDE DEF room
    <3>2. copied \in Nat /\ copied <= reader.left /\ copied <= room
      <4>1. copied = Least(reader.left, room)
        BY DEF room
      <4> QED
        BY ONLY <3>1, <4>1 DEF Least
    <3> HIDE DEF copied
    <3> QED
      BY <2>2, <3>1, <3>2
  <2> HIDE DEF copied
  <2>8. /\ SubSeq(b, 1, reader.at) \o SubSeq(b, reader.at + 1, next) = SubSeq(b, 1, next)
        /\ SubSeq(b, 1, reader.at) \in Seq(AnyCell)
        /\ SubSeq(b, reader.at + 1, next) \in Seq(AnyCell)
        /\ SubSeq(b, 1, next) \in Seq(AnyCell)
    BY <2>2, <2>7, ReadOn
  <2> HIDE DEF next, was
  <2>9. reader.got \o SubSeq(b, reader.at + 1, next) = got /\ got \in Seq(AnyCell)
    <3>1. was \in Seq(AnyCell) /\ reader.got = was \o SubSeq(b, 1, reader.at)
      BY <2>3, <2>5 DEF was
    <3>2. (was \o SubSeq(b, 1, reader.at)) \o SubSeq(b, reader.at + 1, next)
            = was \o (SubSeq(b, 1, reader.at) \o SubSeq(b, reader.at + 1, next))
      <4> DEFINE x == SubSeq(b, 1, reader.at)
                 y == SubSeq(b, reader.at + 1, next)
      <4>1. x \in Seq(AnyCell) /\ y \in Seq(AnyCell) /\ was \in Seq(AnyCell)
        BY <2>8, <3>1
      <4> HIDE DEF x, y
      <4>2. (was \o x) \o y = was \o (x \o y)
        BY ONLY <4>1, ConcatAssociative
      <4> QED
        BY <4>2 DEF x, y
    <3>3. was \o SubSeq(b, 1, next) \in Seq(AnyCell)
      BY <2>8, <3>1, ConcatProperties
    <3> QED
      BY ONLY <2>8, <3>1, <3>2, <3>3, Zenon
  <2> HIDE DEF got
  <2>10. /\ reader' \in ReaderType /\ reader'.pc = "ram" /\ reader'.target = Whole
         /\ reader'.got = got
         /\ reader'.part = (IF ended THEN part + 1 ELSE part)
         /\ reader'.at = (IF ended THEN 0 ELSE next)
    <3> DEFINE left == IF reader.left = copied THEN Chunk ELSE reader.left - copied
               at == IF ended THEN 0 ELSE next
               place == IF ended THEN part + 1 ELSE part
    <3>1. left \in Nat /\ at \in Nat /\ place \in Nat
      BY <1>1, <2>1, <2>7, SMTT(30)
    <3>2. reader' = [reader EXCEPT !.got = got, !.part = place, !.at = at, !.left = left]
      BY <2>6, <2>9
    <3> HIDE DEF left, at, place, n, ended
    <3>3. /\ reader' \in ReaderType /\ reader'.pc = reader.pc /\ reader'.target = reader.target
          /\ reader'.got = got /\ reader'.part = place /\ reader'.at = at
      BY ONLY <1>1, <2>9, <3>1, <3>2 DEF ReaderType
    <3> QED
      BY <1>1, <3>3 DEF place, at
  <2>11. MemoryInv'
    <3>1. CASE ~ended
      <4>1. reader'.part = part /\ reader'.at = next /\ next \in 0..Len(b)
        BY <2>2, <2>7, <2>10, <3>1
      <4>2. reader'.got = Joined(written, part - 1) \o SubSeq(written[part], 1, next)
        BY <2>10 DEF got, was
      <4> QED
        BY <1>1, <1>2, <1>4, <2>1, <2>10, <4>1, <4>2 DEF MemoryInv
    <3>2. CASE ended
      <4>1. got = Joined(written, part)
        BY <2>2, <2>5, <3>2, SubSeqFull DEF got, was
      <4>2. reader'.part = part + 1 /\ reader'.at = 0 /\ reader'.got = Joined(written, part)
        BY <2>10, <3>2, <4>1
      <4>3. CASE part = n
        <5>1. reader'.got = AllWritten /\ reader'.part = n + 1
          BY <2>5, <4>2, <4>3
        <5>2. AllWritten' = AllWritten
          BY <1>2 DEF AllWritten
        <5> QED
          BY <1>1, <1>2, <2>10, <5>1, <5>2, SMTT(30) DEF MemoryInv
      <4>4. CASE part # n
        <5>1. part + 1 \in 1..n /\ part + 1 # n + 1 /\ part + 1 \in 1..n + 1 /\ (part + 1) - 1 = part
          BY <1>1, <2>1, <4>4
        <5>2. Len(written[part + 1]) \in Nat
          BY <1>1, <5>1, EachPart
        <5>3. Joined(written, part) = Joined(written, (part + 1) - 1) \o SubSeq(written[part + 1], 1, 0)
          BY <2>5, <5>1, NothingRead, ConcatEmptySeq
        <5>4. 0 \in 0..Len(written[part + 1])
          BY <5>2
        <5> QED
          BY <1>1, <1>2, <2>10, <4>2, <5>1, <5>3, <5>4 DEF MemoryInv
      <4> QED
        BY <4>3, <4>4
    <3> QED
      BY <3>1, <3>2
  <2> QED
    BY <2>10, <2>11 DEF ReaderInv, FoundInv, BufferedInv, DiskInv, DoneInv, BytesServed, Served, RacesWithFinalize
<1> QED
  BY <1>3, <1>4

LEMMA InvNext == ASSUME Inv, [Next]_vars PROVE Inv'
<1>1. WriterInv'
  BY WriterInvNext DEF Inv
<1>2. ReaderInv'
  <2>1. CASE UNCHANGED vars
    BY <2>1 DEF vars, Inv, ReaderInv, FoundInv, BufferedInv, DiskInv, MemoryInv, DoneInv, BytesServed, Served, RacesWithFinalize,
                Complete, Finalized, Newest, Content, AllWritten, Base, InBuffer, Untouched, OnDisk
  <2>2. CASE WriterNext
    BY <2>2, WriterKeepsReader
  <2>3. CASE ReaderNext
    BY <2>3, LookupKeeps, OpenSegmentKeeps, TestBufferKeeps, UseBufferKeeps, OpenPartKeeps,
       ReadDiskKeeps, ReadRAMKeeps DEF ReaderNext
  <2> QED
    BY <2>1, <2>2, <2>3 DEF Next
<1> QED
  BY <1>1, <1>2 DEF Inv

\* A request is answered with the bytes that were written, however they are divided into
\* parts and calls of Read, or with an error once the file is removed; but for a request
\* for a part on disk that races with Finalize, which may panic or get nothing (the run
\* storage_race).  In memory, and for a whole segment, there is no exception.
THEOREM BytesAlwaysServed == Spec => []BytesServed
<1>1. Init => Inv
  BY InitWriterInv, InitReaderInv DEF Inv
<1>2. Inv /\ [Next]_vars => Inv'
  BY InvNext
<1>3. Inv => BytesServed
  BY DEF Inv, ReaderInv, DoneInv
<1> QED
  BY <1>1, <1>2, <1>3, PTL DEF Spec
================================================================================
