----------------------------- MODULE PlaylistProofs ----------------------------
(***************************************************************************)
(* Proofs about Playlist and Index, for any lines, muxers and bounds.      *)
(*                                                                         *)
(* A text is read by a fold over its lines.  It is printed section by      *)
(* section: tags, segments, parts, reports.  What the decoder has got      *)
(* after a section follows from what it had before, and one lemma says so  *)
(* of each.                                                                *)
(***************************************************************************)
EXTENDS Index, FoldProofs

--------------------------------------------------------------------------------
(***************************************************************************)
(* The decoder, a fold over the lines of a text.                           *)
(***************************************************************************)

\* What the decoder has got after some lines, if it had s before.
Scanned(s, lines) == FoldLeft(ReadLine, s, lines)

IsScan(f, s, lines, n) ==
    f = [p \in SUBSET (1..n) |-> IF p = {} THEN s ELSE ReadLine(f[p \ {Max(p)}], lines[Max(p)])]

\* There is a function that folds ReadLine over the first n lines.
LEMMA ScanExists ==
    ASSUME NEW s, NEW lines, NEW n \in Nat
    PROVE  \E f : IsScan(f, s, lines, n)
<1> DEFINE T == {k \in Nat : \E f : IsScan(f, s, lines, k)}
<1>1. 0 \in T
  <2> DEFINE f == [p \in SUBSET (1..0) |-> s]
  <2>1. \A p \in SUBSET (1..0) : p = {}
    OBVIOUS
  <2>2. f = [p \in SUBSET (1..0) |-> IF p = {} THEN s ELSE ReadLine(f[p \ {Max(p)}], lines[Max(p)])]
    BY <2>1
  <2> QED
    BY <2>2 DEF IsScan
<1>2. ASSUME NEW k \in Nat, k \in T PROVE k + 1 \in T
  <2>1. PICK f : IsScan(f, s, lines, k)
    BY <1>2
  <2> DEFINE g == [p \in SUBSET (1..k + 1) |->
                      IF k + 1 \in p THEN ReadLine(f[p \ {k + 1}], lines[k + 1]) ELSE f[p]]
             step(p) == IF p = {} THEN s ELSE ReadLine(g[p \ {Max(p)}], lines[Max(p)])
  <2>2. ASSUME NEW p \in SUBSET (1..k) PROVE g[p] = f[p]
    BY <2>2
  <2>3. ASSUME NEW p \in SUBSET (1..k + 1) PROVE g[p] = step(p)
    <3>1. CASE k + 1 \in p
      <4>1. Max(p) = k + 1
        <5>1. Max(p) \in p /\ \A x \in p : x <= Max(p)
          BY ONLY <3>1, k + 1 \in Nat, p \in SUBSET (1..k + 1), MaxOfPlaces
        <5>2. k + 1 <= Max(p) /\ Max(p) \in 1..k + 1
          BY <3>1, <5>1
        <5> QED
          BY <5>2
      <4>2. p \ {k + 1} \in SUBSET (1..k)
        OBVIOUS
      <4>3. g[p \ {k + 1}] = f[p \ {k + 1}]
        BY <2>2, <4>2
      <4> QED
        BY <3>1, <4>1, <4>3
    <3>2. CASE k + 1 \notin p
      <4>1. p \in SUBSET (1..k)
        BY <3>2
      <4>2. f[p] = IF p = {} THEN s ELSE ReadLine(f[p \ {Max(p)}], lines[Max(p)])
        BY <2>1, <4>1 DEF IsScan
      <4>3. g[p \ {Max(p)}] = f[p \ {Max(p)}]
        BY <2>2, <4>1
      <4> QED
        BY <3>2, <4>2, <4>3
    <3> QED
      BY <3>1, <3>2
  <2>4. g = [p \in SUBSET (1..k + 1) |-> step(p)]
    BY <2>3
  <2> HIDE DEF g
  <2> QED
    BY <2>4 DEF IsScan
<1> HIDE DEF T
<1>3. n \in T
  BY <1>1, <1>2, Induction
<1> QED
  BY <1>3 DEF T

\* p holds what the decoder has got after each line.
Scans(p, s, lines) == p[0] = s /\ \A k \in 1..Len(lines) : p[k] = ReadLine(p[k - 1], lines[k])

\* The fold of the decoder goes through a text from its first line to its last.
LEMMA ScannedLineByLine ==
    ASSUME NEW S, NEW lines \in Seq(S), NEW s
    PROVE  \E p : Scans(p, s, lines) /\ Scanned(s, lines) = p[Len(lines)]
<1> DEFINE n == Len(lines)
           step(g) == [p \in SUBSET (1..n) |-> IF p = {} THEN s ELSE ReadLine(g[p \ {Max(p)}], lines[Max(p)])]
           fold == CHOOSE g : g = step(g)
<1>1. n \in Nat /\ DOMAIN lines = 1..n
  OBVIOUS
<1>2. PICK f : f = step(f)
  <2>1. PICK f : IsScan(f, s, lines, n)
    BY <1>1, ScanExists
  <2> QED
    BY <2>1, Zenon DEF IsScan
<1>3. fold = step(fold)
  <2> HIDE DEF step
  <2> QED
    BY <1>2
<1>4. Scanned(s, lines) = fold[1..n]
  BY <1>1 DEF Scanned, FoldLeft, MapThenFoldSet
<1> HIDE DEF fold, n
<1> DEFINE p == [k \in 0..n |-> fold[1..k]]
<1>5. p[0] = s
  <2>1. 1..0 = {} /\ {} \in SUBSET (1..n) /\ 0 \in 0..n
    BY <1>1
  <2> QED
    BY <1>3, <2>1
<1>6. ASSUME NEW k \in 1..n PROVE p[k] = ReadLine(p[k - 1], lines[k])
  <2> DEFINE q == 1..k
  <2>1. q \in SUBSET (1..n) /\ q # {} /\ k \in q /\ k \in 0..n /\ k - 1 \in 0..n
    BY <1>1
  <2>2. Max(q) = k
    <3>1. Max(q) \in q /\ \A x \in q : x <= Max(q)
      BY <1>1, <2>1, MaxOfPlaces
    <3> QED
      BY <1>1, <2>1, <3>1
  <2>3. q \ {k} = 1..k - 1
    BY <1>1
  <2> HIDE DEF q
  <2>4. fold[q] = ReadLine(fold[q \ {Max(q)}], lines[Max(q)])
    BY <1>3, <2>1
  <2> QED
    BY <2>1, <2>2, <2>3, <2>4 DEF q
<1>7. p[n] = fold[1..n]
  BY <1>1
<1> QED
  BY <1>4, <1>5, <1>6, <1>7 DEF Scans, n

\* There is one such p.
LEMMA ScannedBy ==
    ASSUME NEW S, NEW lines \in Seq(S), NEW s, NEW p, Scans(p, s, lines)
    PROVE  Scanned(s, lines) = p[Len(lines)]
<1>1. PICK q : Scans(q, s, lines) /\ Scanned(s, lines) = q[Len(lines)]
  BY ScannedLineByLine
<1> DEFINE T == {k \in Nat : k <= Len(lines) => p[k] = q[k]}
<1>2. 0 \in T
  BY <1>1 DEF Scans
<1>3. ASSUME NEW k \in Nat, k \in T PROVE k + 1 \in T
  <2> SUFFICES ASSUME k + 1 <= Len(lines) PROVE p[k + 1] = q[k + 1]
    OBVIOUS
  <2>1. k + 1 \in 1..Len(lines) /\ (k + 1) - 1 = k /\ p[k] = q[k]
    BY <1>3
  <2> QED
    BY <1>1, <2>1 DEF Scans
<1> HIDE DEF T
<1>4. Len(lines) \in T
  BY <1>2, <1>3, Induction
<1> QED
  BY <1>1, <1>4 DEF T

\* Nothing leaves it as it was; a line is read by ReadLine.
LEMMA ScannedFew ==
    ASSUME NEW s
    PROVE  Scanned(s, << >>) = s /\ \A line : Scanned(s, << line >>) = ReadLine(s, line)
<1>1. Scanned(s, << >>) = s
  <2> DEFINE p == [k \in 0..0 |-> s]
  <2>1. Scans(p, s, << >>) /\ p[Len(<< >>)] = s
    BY DEF Scans
  <2>2. << >> \in Seq({0})
    OBVIOUS
  <2> HIDE DEF p
  <2> QED
    BY <2>1, <2>2, ScannedBy
<1>2. ASSUME NEW line PROVE Scanned(s, << line >>) = ReadLine(s, line)
  <2> DEFINE p == [k \in 0..1 |-> IF k = 0 THEN s ELSE ReadLine(s, line)]
  <2>1. Scans(p, s, << line >>) /\ p[Len(<< line >>)] = ReadLine(s, line)
    BY DEF Scans
  <2>2. << line >> \in Seq({line})
    OBVIOUS
  <2> HIDE DEF p
  <2> QED
    BY <2>1, <2>2, ScannedBy
<1> QED
  BY <1>1, <1>2

\* What follows is read with what has been got before.
LEMMA ScannedMore ==
    ASSUME NEW S, NEW lines \in Seq(S), NEW more \in Seq(S), NEW s
    PROVE  Scanned(s, lines \o more) = Scanned(Scanned(s, lines), more)
<1>1. PICK p : Scans(p, s, lines) /\ Scanned(s, lines) = p[Len(lines)]
  BY ScannedLineByLine
<1>2. PICK q : Scans(q, p[Len(lines)], more) /\ Scanned(p[Len(lines)], more) = q[Len(more)]
  BY ScannedLineByLine
<1> DEFINE n == Len(lines)
           m == Len(more)
           all == lines \o more
           r == [k \in 0..n + m |-> IF k <= n THEN p[k] ELSE q[k - n]]
<1>3. /\ n \in Nat /\ m \in Nat /\ all \in Seq(S) /\ Len(all) = n + m
      /\ \A k \in 1..n : all[k] = lines[k]
      /\ \A k \in 1..m : all[n + k] = more[k]
  OBVIOUS
<1>4. p[0] = s /\ q[0] = p[n] /\ \A k \in 1..n : p[k] = ReadLine(p[k - 1], lines[k])
  BY <1>1, <1>2 DEF Scans
<1>5. \A k \in 1..m : q[k] = ReadLine(q[k - 1], more[k])
  BY <1>2 DEF Scans
<1> HIDE DEF n, m, all
<1>6. r[0] = s
  BY <1>3, <1>4
<1>7. ASSUME NEW k \in 1..n + m PROVE r[k] = ReadLine(r[k - 1], all[k])
  <2>1. CASE k <= n
    <3>1. k \in 1..n /\ k - 1 \in 0..n + m /\ k - 1 <= n /\ k \in 0..n + m
      BY <1>3, <2>1
    <3> QED
      BY <1>3, <1>4, <3>1
  <2>2. CASE k > n
    <3> DEFINE j == k - n
    <3>1. j \in 1..m /\ n + j = k /\ k - 1 \in 0..n + m /\ k \in 0..n + m /\ ~(k <= n) /\ (k - 1) - n = j - 1
      BY <1>3, <2>2
    <3>2. r[k] = q[j]
      BY <3>1
    <3>3. r[k - 1] = q[j - 1]
      <4>1. CASE k - 1 <= n
        <5>1. k - 1 = n /\ j - 1 = 0
          BY <1>3, <2>2, <4>1
        <5> QED
          BY <1>4, <3>1, <5>1
      <4>2. CASE ~(k - 1 <= n)
        BY <3>1, <4>2
      <4> QED
        BY <4>1, <4>2
    <3>4. all[k] = more[j] /\ q[j] = ReadLine(q[j - 1], more[j])
      BY <1>3, <1>5, <3>1
    <3> QED
      BY <3>2, <3>3, <3>4
  <2> QED
    BY <1>3, <2>1, <2>2
<1>8. r[n + m] = q[m]
  <2>1. CASE m = 0
    <3>1. n + m = n /\ n \in 0..n + m
      BY <1>3, <2>1
    <3> QED
      BY <1>4, <2>1, <3>1
  <2>2. CASE m # 0
    <3>1. ~(n + m <= n) /\ n + m \in 0..n + m /\ (n + m) - n = m
      BY <1>3, <2>2
    <3> QED
      BY <3>1
  <2> QED
    BY <2>1, <2>2
<1> HIDE DEF r
<1>9. Scans(r, s, all)
  BY <1>3, <1>6, <1>7 DEF Scans
<1>10. Scanned(s, all) = r[n + m]
  BY <1>3, <1>9, ScannedBy
<1> QED
  BY <1>1, <1>2, <1>8, <1>10 DEF n, m, all

\* Some blocks of lines, with g for what has been got after each.
LEMMA ScannedBlocks ==
    ASSUME NEW S, NEW s \in Seq(Seq(S)), NEW g, \A k \in 1..Len(s) : Scanned(g[k - 1], s[k]) = g[k]
    PROVE  FlattenSeq(s) \in Seq(S) /\ Scanned(g[0], FlattenSeq(s)) = g[Len(s)]
<1> DEFINE T == {k \in Nat : k <= Len(s) => Scanned(g[0], Joined(s, k)) = g[k]}
<1>1. 0 \in T
  BY JoinedOneByOne, ScannedFew
<1>2. ASSUME NEW k \in Nat, k \in T PROVE k + 1 \in T
  <2> SUFFICES ASSUME k + 1 <= Len(s) PROVE Scanned(g[0], Joined(s, k + 1)) = g[k + 1]
    OBVIOUS
  <2>1. k \in 0..Len(s) /\ k \in 0..Len(s) - 1 /\ k + 1 \in 1..Len(s) /\ (k + 1) - 1 = k
    OBVIOUS
  <2>2. /\ Joined(s, k) \in Seq(S) /\ s[k + 1] \in Seq(S)
        /\ Joined(s, k + 1) = Joined(s, k) \o s[k + 1]
    BY <2>1, JoinedOneByOne
  <2>3. Scanned(g[0], Joined(s, k + 1)) = Scanned(Scanned(g[0], Joined(s, k)), s[k + 1])
    <3> DEFINE before == Joined(s, k)
               next == s[k + 1]
    <3>1. before \in Seq(S) /\ next \in Seq(S) /\ Joined(s, k + 1) = before \o next
      BY <2>2
    <3> HIDE DEF before, next
    <3>2. Scanned(g[0], before \o next) = Scanned(Scanned(g[0], before), next)
      BY ONLY <3>1, ScannedMore
    <3> QED
      BY ONLY <3>1, <3>2 DEF before, next
  <2>4. Scanned(g[0], Joined(s, k)) = g[k]
    BY <1>2, <2>1
  <2> QED
    BY <2>1, <2>3, <2>4
<1> HIDE DEF T
<1>3. Len(s) \in T
  <2>1. Len(s) \in Nat
    OBVIOUS
  <2> QED
    BY ONLY <1>1, <1>2, <2>1, Induction
<1> QED
  BY <1>3, JoinedOneByOne, Flattened DEF T

--------------------------------------------------------------------------------
(***************************************************************************)
(* What refuses a text.                                                    *)
(***************************************************************************)

\* The fields that a segment has, and the decoder.
IsSegment(c) == c = [fields |-> c.fields, key |-> c.key, parts |-> c.parts]

IsState(s) ==
    /\ s = [kind |-> s.kind, refused |-> s.refused, header |-> s.header, segments |-> s.segments,
            reports |-> s.reports, variants |-> s.variants, renditions |-> s.renditions,
            curSegment |-> s.curSegment, curKey |-> s.curKey]
    /\ IsSegment(s.curSegment)

\* The decoder begins with all its fields.
LEMMA NewScanIsState ==
    ASSUME NEW kind, NEW refused
    PROVE  IsState(NewScan(kind, refused))
<1>1. IsSegment(NewSegment)
  BY DEF IsSegment, NewSegment
<1> QED
  BY <1>1 DEF NewScan, IsState

\* Any field may change.
LEMMA StateKept ==
    ASSUME NEW s, IsState(s), NEW x
    PROVE  /\ IsState([s EXCEPT !.curKey = x]) /\ IsState([s EXCEPT !.header = x])
           /\ IsState([s EXCEPT !.segments = x]) /\ IsState([s EXCEPT !.reports = x])
           /\ IsState([s EXCEPT !.variants = x]) /\ IsState([s EXCEPT !.renditions = x])
           /\ IsSegment(x) => IsState([s EXCEPT !.curSegment = x])
  BY DEF IsState

\* Any field of the segment being read may change.
LEMMA SegmentKept ==
    ASSUME NEW c, IsSegment(c), NEW x
    PROVE  IsSegment([c EXCEPT !.fields = x]) /\ IsSegment([c EXCEPT !.parts = x]) /\ IsSegment([c EXCEPT !.key = x])
  BY DEF IsSegment

\* What is read of a line, field by field.
LEMMA Reads ==
    ASSUME NEW s, IsState(s), NEW line
    PROVE  /\ AddField(s, line) = [s EXCEPT !.curSegment = [s.curSegment EXCEPT !.fields = Replace(s.curSegment.fields, line)]]
           /\ AddPart(s, line) = [s EXCEPT !.curSegment = [s.curSegment EXCEPT !.parts = Append(s.curSegment.parts, unmarshal(line))]]
           /\ ReadInf(s, line) = [AddField(s, line) EXCEPT !.curSegment = [AddField(s, line).curSegment EXCEPT !.key = s.curKey]]
           /\ ReadURI(s) = IF HasDuration(s.curSegment)
                           THEN [[s EXCEPT !.segments = Append(s.segments, s.curSegment)] EXCEPT !.curSegment = NewSegment]
                           ELSE Refuse(s)
<1>1. /\ AddField(s, line) = [s EXCEPT !.curSegment = [s.curSegment EXCEPT !.fields = Replace(s.curSegment.fields, line)]]
      /\ AddPart(s, line) = [s EXCEPT !.curSegment = [s.curSegment EXCEPT !.parts = Append(s.curSegment.parts, unmarshal(line))]]
  BY DEF AddField, AddPart, IsState
<1>2. ReadInf(s, line) = [AddField(s, line) EXCEPT !.curSegment = [AddField(s, line).curSegment EXCEPT !.key = s.curKey]]
  BY DEF ReadInf
<1>3. ReadURI(s) = IF HasDuration(s.curSegment)
                   THEN [[s EXCEPT !.segments = Append(s.segments, s.curSegment)] EXCEPT !.curSegment = NewSegment]
                   ELSE Refuse(s)
  BY DEF ReadURI
<1> QED
  BY <1>1, <1>2, <1>3

\* Which line is read how.
LEMMA ReadLineCases ==
    ASSUME NEW s, NEW line
    PROVE  \/ ReadLine(s, line) = Refuse(s)
           \/ ReadLine(s, line) = AddKey(s, line)
           \/ ReadLine(s, line) = ReadInf(s, line)
           \/ ReadLine(s, line) = AddPart(s, line)
           \/ ReadLine(s, line) = ReadURI(s)
           \/ ReadLine(s, line) = AddTag(s, line)
           \/ ReadLine(s, line) = AddField(s, line)
           \/ ReadLine(s, line) = AddTo(s, "reports", line)
           \/ ReadLine(s, line) = AddTo(s, "variants", line)
           \/ ReadLine(s, line) = AddTo(s, "renditions", line)
<1>1. CASE ~Valid(line)
  BY <1>1 DEF ReadLine
<1>2. CASE Valid(line) /\ line.tag \in {"KEY", "EXTINF", "PART", "URI"}
  BY <1>2 DEF ReadLine
<1>3. CASE Valid(line) /\ line.tag \in {"RENDITION_REPORT", "STREAM_INF", "MEDIA"}
  BY <1>3 DEF ReadLine
<1>4. CASE /\ Valid(line)
           /\ line.tag \notin {"KEY", "EXTINF", "PART", "URI", "RENDITION_REPORT", "STREAM_INF", "MEDIA"}
  BY <1>4 DEF ReadLine
<1> QED
  BY <1>1, <1>2, <1>3, <1>4

\* What is refused stays refused.
LEMMA RefusedStays ==
    ASSUME NEW s, IsState(s), NEW line
    PROVE  /\ IsState(ReadLine(s, line))
           /\ s.refused => ReadLine(s, line).refused
           /\ ~Valid(line) => ReadLine(s, line).refused
<1> DEFINE Good(t) == IsState(t) /\ (s.refused => t.refused)
<1>1. IsState(Refuse(s)) /\ Refuse(s).refused
  <2>1. Refuse(s).refused
    BY DEF Refuse, NewScan
  <2> QED
    BY <2>1, NewScanIsState DEF Refuse
<1>2. Good(AddKey(s, line)) /\ Good(AddTag(s, line))
  <2>1. IsState(AddKey(s, line)) /\ IsState(AddTag(s, line))
    BY StateKept DEF AddKey, AddTag
  <2>2. s.refused => AddKey(s, line).refused /\ AddTag(s, line).refused
    BY DEF IsState, AddKey, AddTag
  <2> QED
    BY <2>1, <2>2
<1>3. Good(AddTo(s, "reports", line)) /\ Good(AddTo(s, "variants", line)) /\ Good(AddTo(s, "renditions", line))
  <2>1. /\ IsState(AddTo(s, "reports", line)) /\ IsState(AddTo(s, "variants", line))
        /\ IsState(AddTo(s, "renditions", line))
    BY StateKept DEF AddTo
  <2>2. s.refused => /\ AddTo(s, "reports", line).refused /\ AddTo(s, "variants", line).refused
                     /\ AddTo(s, "renditions", line).refused
    BY DEF IsState, AddTo
  <2> QED
    BY <2>1, <2>2
<1>4. ASSUME NEW t, Good(t), NEW c, IsSegment(c)
      PROVE  Good([t EXCEPT !.curSegment = c])
  <2>1. IsState([t EXCEPT !.curSegment = c])
    BY <1>4, StateKept
  <2>2. t.refused => [t EXCEPT !.curSegment = c].refused
    BY <1>4 DEF IsState
  <2> QED
    BY <1>4, <2>1, <2>2
<1>5. Good(AddField(s, line)) /\ Good(AddPart(s, line))
  <2>1. /\ IsSegment([s.curSegment EXCEPT !.fields = Replace(s.curSegment.fields, line)])
        /\ IsSegment([s.curSegment EXCEPT !.parts = Append(s.curSegment.parts, unmarshal(line))])
    BY SegmentKept DEF IsState
  <2> HIDE DEF Good
  <2>2. Good(s)
    BY DEF Good
  <2>3. /\ Good([s EXCEPT !.curSegment = [s.curSegment EXCEPT !.fields = Replace(s.curSegment.fields, line)]])
        /\ Good([s EXCEPT !.curSegment = [s.curSegment EXCEPT !.parts = Append(s.curSegment.parts, unmarshal(line))]])
    BY <1>4, <2>1, <2>2
  <2> QED
    BY <2>3, Reads
<1>6. Good(ReadInf(s, line))
  <2>1. Good(AddField(s, line)) /\ IsState(AddField(s, line))
    BY <1>5
  <2>2. IsSegment([AddField(s, line).curSegment EXCEPT !.key = s.curKey])
    BY <2>1, SegmentKept DEF IsState
  <2> HIDE DEF Good
  <2>3. Good([AddField(s, line) EXCEPT !.curSegment = [AddField(s, line).curSegment EXCEPT !.key = s.curKey]])
    BY <1>4, <2>1, <2>2
  <2> QED
    BY <2>3, Reads
<1>7. Good(ReadURI(s))
  <2> DEFINE t == [s EXCEPT !.segments = Append(s.segments, s.curSegment)]
  <2>1. IsState(t) /\ (s.refused => t.refused)
    <3>1. IsState(t)
      BY StateKept
    <3>2. s.refused => t.refused
      BY DEF IsState
    <3> QED
      BY <3>1, <3>2
  <2>2. IsSegment(NewSegment)
    BY DEF IsSegment, NewSegment
  <2>3. Good([t EXCEPT !.curSegment = NewSegment])
    <3> HIDE DEF t
    <3> QED
      BY <1>4, <2>1, <2>2
  <2> QED
    BY <1>1, <2>3, Reads
<1> HIDE DEF Good
<1>8. Good(Refuse(s))
  BY <1>1 DEF Good
<1>9. Good(ReadLine(s, line))
  BY <1>2, <1>3, <1>5, <1>6, <1>7, <1>8, ReadLineCases
<1>10. ~Valid(line) => ReadLine(s, line) = Refuse(s)
  BY DEF ReadLine
<1> QED
  BY <1>1, <1>9, <1>10 DEF Good

\* A text that has been refused stays refused, whatever follows.
LEMMA ScannedRefused ==
    ASSUME NEW S, NEW lines \in Seq(S), NEW s, IsState(s)
    PROVE  /\ IsState(Scanned(s, lines))
           /\ s.refused => Scanned(s, lines).refused
<1>1. PICK p : Scans(p, s, lines) /\ Scanned(s, lines) = p[Len(lines)]
  BY ScannedLineByLine
<1> DEFINE T == {k \in Nat : k <= Len(lines) => IsState(p[k]) /\ (s.refused => p[k].refused)}
<1>2. 0 \in T
  BY <1>1 DEF Scans
<1>3. ASSUME NEW k \in Nat, k \in T PROVE k + 1 \in T
  <2> SUFFICES ASSUME k + 1 <= Len(lines)
               PROVE  IsState(p[k + 1]) /\ (s.refused => p[k + 1].refused)
    OBVIOUS
  <2>1. k + 1 \in 1..Len(lines) /\ (k + 1) - 1 = k /\ IsState(p[k]) /\ (s.refused => p[k].refused)
    BY <1>3
  <2>2. p[k + 1] = ReadLine(p[k], lines[k + 1])
    BY <1>1, <2>1 DEF Scans
  <2> QED
    BY <2>1, <2>2, RefusedStays
<1> HIDE DEF T
<1>4. Len(lines) \in T
  BY <1>2, <1>3, Induction
<1> QED
  BY <1>1, <1>4 DEF T

\* These lines refuse the text, whatever has been read before.
Refuses(lines) == \A s : IsState(s) => Scanned(s, lines).refused

\* Lines that are refused are refused among others.
LEMMA RefusesAround ==
    ASSUME NEW S, NEW lines \in Seq(S), NEW more \in Seq(S), Refuses(lines) \/ Refuses(more)
    PROVE  Refuses(lines \o more)
<1> SUFFICES ASSUME NEW s, IsState(s) PROVE Scanned(s, lines \o more).refused
  BY DEF Refuses
<1>1. Scanned(s, lines \o more) = Scanned(Scanned(s, lines), more)
  BY ScannedMore
<1>2. IsState(Scanned(s, lines))
  BY ScannedRefused
<1>3. Refuses(lines) => Scanned(s, lines).refused
  BY DEF Refuses
<1>4. Scanned(s, lines).refused => Scanned(Scanned(s, lines), more).refused
  BY <1>2, ScannedRefused
<1>5. Refuses(more) => Scanned(Scanned(s, lines), more).refused
  BY <1>2 DEF Refuses
<1> QED
  BY <1>1, <1>3, <1>4, <1>5

\* A text is refused when one of its blocks is.
LEMMA RefusesBlocks ==
    ASSUME NEW S, NEW s \in Seq(Seq(S)), NEW k \in 1..Len(s), Refuses(s[k])
    PROVE  Refuses(FlattenSeq(s))
<1> DEFINE T == {n \in Nat : n \in k..Len(s) => Refuses(Joined(s, n))}
<1>1. k >= 1 /\ k <= Len(s) /\ k \in Nat /\ Len(s) \in Nat
  OBVIOUS
<1>2. 0 \in T
  BY <1>1
<1>3. ASSUME NEW n \in Nat, n \in T PROVE n + 1 \in T
  <2> SUFFICES ASSUME n + 1 \in k..Len(s) PROVE Refuses(Joined(s, n + 1))
    OBVIOUS
  <2>1. n \in 0..Len(s) /\ n \in 0..Len(s) - 1 /\ n + 1 \in 1..Len(s)
    BY <1>1
  <2> DEFINE before == Joined(s, n)
             next == s[n + 1]
  <2>2. before \in Seq(S) /\ next \in Seq(S) /\ Joined(s, n + 1) = before \o next
    BY <2>1, JoinedOneByOne
  <2>3. Refuses(before) \/ Refuses(next)
    <3>1. CASE n + 1 = k
      BY <3>1
    <3>2. CASE n + 1 # k
      <4>1. n \in k..Len(s)
        BY <1>1, <2>1, <3>2
      <4> QED
        BY <1>3, <4>1
    <3> QED
      BY <3>1, <3>2
  <2> HIDE DEF before, next
  <2> QED
    BY ONLY <2>2, <2>3, RefusesAround
<1> HIDE DEF T
<1>4. Len(s) \in T
  BY ONLY <1>1, <1>2, <1>3, Induction
<1>5. Len(s) \in k..Len(s)
  BY <1>1
<1> QED
  BY <1>4, <1>5, JoinedOneByOne DEF T

\* A text with an invalid line is refused.
LEMMA RefusesInvalid ==
    ASSUME NEW S, NEW lines \in Seq(S), NEW k \in 1..Len(lines), ~Valid(lines[k])
    PROVE  Refuses(lines)
<1> SUFFICES ASSUME NEW s, IsState(s) PROVE Scanned(s, lines).refused
  BY DEF Refuses
<1>1. PICK p : Scans(p, s, lines) /\ Scanned(s, lines) = p[Len(lines)]
  BY ScannedLineByLine
<1> DEFINE T == {n \in Nat : n <= Len(lines) => IsState(p[n]) /\ (n >= k => p[n].refused)}
<1>2. 0 \in T
  BY <1>1 DEF Scans
<1>3. ASSUME NEW n \in Nat, n \in T PROVE n + 1 \in T
  <2> SUFFICES ASSUME n + 1 <= Len(lines)
               PROVE  IsState(p[n + 1]) /\ (n + 1 >= k => p[n + 1].refused)
    OBVIOUS
  <2>1. n + 1 \in 1..Len(lines) /\ (n + 1) - 1 = n /\ IsState(p[n]) /\ (n >= k => p[n].refused)
    BY <1>3
  <2>2. p[n + 1] = ReadLine(p[n], lines[n + 1])
    BY <1>1, <2>1 DEF Scans
  <2>3. n + 1 >= k => n >= k \/ n + 1 = k
    OBVIOUS
  <2> QED
    BY <2>1, <2>2, <2>3, RefusedStays
<1> HIDE DEF T
<1>4. Len(lines) \in T
  BY <1>2, <1>3, Induction
<1> QED
  BY <1>1, <1>4 DEF T

--------------------------------------------------------------------------------
(***************************************************************************)
(* One tag, printed and read again.                                        *)
(***************************************************************************)

\* What the program may keep of a tag: what its parser lets through.
IsValue(tag, value) ==
    /\ value = [a \in DOMAIN value |-> value[a]]
    /\ DOMAIN value \subseteq Tags[tag].plain \union Tags[tag].kept
    /\ \A a \in DOMAIN value : value[a] \in Nat /\ (a \in Tags[tag].plain => value[a] # 0)
    /\ Tags[tag].required \subseteq DOMAIN value
    /\ tag = "MEDIA" => RenditionValid(value)
    /\ tag = "KEY" => KeyValid(value)
    /\ tag = "PART" /\ Has(value, "GAP") => value["GAP"] = YES

\* The table of the tags, one by one.
LEMMA TagTable ==
    /\ DOMAIN Tags = DOMAIN MediaHeader \union DOMAIN SegmentTags
                        \union {"KEY", "PART", "RENDITION_REPORT", "URI", "STREAM_INF", "MEDIA"}
    /\ \A tag \in DOMAIN MediaHeader : Tags[tag] = MediaHeader[tag]
    /\ \A tag \in DOMAIN SegmentTags : Tags[tag] = SegmentTags[tag]
    /\ Tags["KEY"] = Key /\ Tags["PART"] = Part /\ Tags["RENDITION_REPORT"] = RenditionReport
    /\ Tags["URI"] = Flag /\ Tags["STREAM_INF"] = Variant /\ Tags["MEDIA"] = Rendition
<1> DEFINE more == [KEY |-> Key, PART |-> Part, RENDITION_REPORT |-> RenditionReport, URI |-> Flag,
                    STREAM_INF |-> Variant, MEDIA |-> Rendition]
<1>1. Tags = Over(more, Over(MediaHeader, SegmentTags))
  BY DEF Tags
<1>2. DOMAIN MediaHeader = {"VERSION", "INDEPENDENT_SEGMENTS", "ALLOW_CACHE", "TARGETDURATION", "SERVER_CONTROL",
                            "PART_INF", "MEDIA_SEQUENCE", "DISCONTINUITY_SEQUENCE", "PLAYLIST_TYPE", "MAP",
                            "START", "SKIP", "PRELOAD_HINT", "ENDLIST"}
  BY DEF MediaHeader
<1>3. DOMAIN SegmentTags = {"DISCONTINUITY", "GAP", "PROGRAM_DATE_TIME", "BITRATE", "BYTERANGE", "EXTINF"}
  BY DEF SegmentTags
<1>4. /\ DOMAIN more = {"KEY", "PART", "RENDITION_REPORT", "URI", "STREAM_INF", "MEDIA"}
      /\ more["KEY"] = Key /\ more["PART"] = Part /\ more["RENDITION_REPORT"] = RenditionReport
      /\ more["URI"] = Flag /\ more["STREAM_INF"] = Variant /\ more["MEDIA"] = Rendition
  OBVIOUS
<1> HIDE DEF more
<1>5. \A tag \in DOMAIN MediaHeader : tag \notin DOMAIN more /\ tag \notin DOMAIN SegmentTags
  BY <1>2, <1>3, <1>4
<1>6. \A tag \in DOMAIN SegmentTags : tag \notin DOMAIN more /\ tag \notin DOMAIN MediaHeader
  BY <1>2, <1>3, <1>4
<1> QED
  BY <1>1, <1>4, <1>5, <1>6 DEF Over

\* The two ways in which attributes are kept, and those that are times.
LEMMA TagFacts ==
    ASSUME NEW tag \in DOMAIN Tags
    PROVE  /\ Tags[tag].plain \intersect Tags[tag].kept = {}
           /\ Tags[tag].required \subseteq Tags[tag].plain \union Tags[tag].kept
           /\ "UNKNOWN" \notin Tags[tag].plain \union Tags[tag].kept
           /\ tag # "EXTINF" => Tags[tag].times \intersect Tags[tag].plain \subseteq Tags[tag].required
           /\ tag = "PROGRAM_DATE_TIME" => Tags[tag].plain = {}
<1>1. CASE tag \in DOMAIN MediaHeader
  BY <1>1, TagTable DEF MediaHeader, Tag, Value, Pointer, Flag, ServerControl, PartInf, Map, Start, Skip, PreloadHint
<1>2. CASE tag \in DOMAIN SegmentTags
  BY <1>2, TagTable DEF SegmentTags, Tag, Pointer, Flag
<1>3. CASE tag \in {"KEY", "PART", "RENDITION_REPORT", "URI", "STREAM_INF", "MEDIA"}
  BY <1>3, TagTable DEF Tag, Flag, Key, Part, RenditionReport, Variant, Rendition
<1> QED
  BY <1>1, <1>2, <1>3, TagTable

\* What is read of a tag may be kept.
LEMMA ReadIsValue ==
    ASSUME NEW line, line.tag \in DOMAIN Tags, \A a \in DOMAIN line.attrs : line.attrs[a] \in Nat \union {Bad},
           Valid(line)
    PROVE  IsValue(line.tag, unmarshal(line))
<1> DEFINE value == unmarshal(line)
           tag == line.tag
<1>1. /\ value = [a \in DOMAIN value |-> value[a]]
      /\ DOMAIN value \subseteq DOMAIN line.attrs \intersect (Tags[tag].plain \union Tags[tag].kept)
      /\ \A a \in DOMAIN value : value[a] = (IF tag = "PART" /\ a = "GAP" THEN YES ELSE line.attrs[a])
                                 /\ (a \in Tags[tag].kept \/ value[a] # 0)
  BY DEF unmarshal, Known
<1>2. \A a \in DOMAIN value : value[a] # Bad
  BY DEF Valid, unmarshal
<1>3. \A a \in DOMAIN value : value[a] \in Nat /\ (a \in Tags[tag].plain => value[a] # 0)
  <2> TAKE a \in DOMAIN value
  <2>1. value[a] \in Nat
    BY <1>1, <1>2 DEF YES
  <2>2. a \in Tags[tag].plain => a \notin Tags[tag].kept
    BY TagFacts
  <2> QED
    BY <1>1, <2>1, <2>2
<1>4. tag = "PART" /\ Has(value, "GAP") => value["GAP"] = YES
  BY <1>1 DEF Has
<1>5. Tags[tag].required \subseteq DOMAIN value /\ (tag = "MEDIA" => RenditionValid(value))
        /\ (tag = "KEY" => KeyValid(value))
  BY DEF Valid
<1> QED
  BY <1>1, <1>3, <1>4, <1>5 DEF IsValue

\* A printed time is a time.
LEMMA PrintedIsNatural ==
    ASSUME NEW time \in Nat
    PROVE  Printed(time) \in Nat /\ Truncated(time) \in Nat
  BY DEF Printed, Truncated

\* Only times change when they are printed.
LEMMA RoundedValue ==
    ASSUME NEW tag \in DOMAIN Tags, NEW value, IsValue(tag, value)
    PROVE  /\ DOMAIN Rounded(tag, value) = DOMAIN value
           /\ Rounded(tag, value) = [a \in DOMAIN value |-> Rounded(tag, value)[a]]
           /\ \A a \in DOMAIN value :
                /\ Rounded(tag, value)[a] \in Nat
                /\ a \notin Tags[tag].times => Rounded(tag, value)[a] = value[a]
                /\ a \in Tags[tag].times \intersect Tags[tag].plain =>
                        Rounded(tag, value)[a] = Printed(value[a])
           /\ Tags[tag].times = {} => Rounded(tag, value) = value
<1>1. \A a \in DOMAIN value : value[a] \in Nat
  BY DEF IsValue
<1>2. \A a \in DOMAIN value : Rounded(tag, value)[a] =
        IF a \notin Tags[tag].times THEN value[a]
        ELSE IF tag = "PROGRAM_DATE_TIME" THEN Truncated(value[a]) ELSE Printed(value[a])
  BY DEF Rounded
<1>3. tag = "PROGRAM_DATE_TIME" => Tags[tag].plain = {}
  BY TagFacts
<1>4. Tags[tag].times = {} => Rounded(tag, value) = value
  <2>1. value = [a \in DOMAIN value |-> value[a]]
    BY DEF IsValue
  <2>2. Tags[tag].times = {} => Rounded(tag, value) = [a \in DOMAIN value |-> value[a]]
    BY DEF Rounded
  <2> QED
    BY <2>1, <2>2
<1>5. DOMAIN Rounded(tag, value) = DOMAIN value /\ Rounded(tag, value) = [a \in DOMAIN value |-> Rounded(tag, value)[a]]
  BY DEF Rounded
<1> QED
  BY <1>1, <1>2, <1>3, <1>4, <1>5, PrintedIsNatural

\* The tags that are printed as they are.
LEMMA OthersReadBack ==
    ASSUME NEW tag \in DOMAIN Tags, tag \notin {"SERVER_CONTROL", "KEY", "STREAM_INF"},
           NEW value, IsValue(tag, value)
    PROVE  LET line == marshal(tag, value)
           IN  /\ line.tag = tag
               /\ ~Vanishes(tag, value) => Valid(line) /\ unmarshal(line) = Remains(tag, value)
               /\ Vanishes(tag, value) /\ tag # "EXTINF" => ~Valid(line)
               /\ Vanishes(tag, value) /\ tag = "EXTINF" => Valid(line) /\ ~Has(unmarshal(line), "DURATION")
<1> DEFINE line == marshal(tag, value)
           rounded == Rounded(tag, value)
           plain == Tags[tag].plain
           kept == Tags[tag].kept
           times == Tags[tag].times
           short == {a \in DOMAIN value : a \in times \intersect plain /\ Printed(value[a]) = 0}
<1>1. line = [tag |-> tag, attrs |-> rounded]
  BY DEF marshal
<1>2. line.tag = tag /\ line.attrs = rounded
  BY <1>1
<1>3. Known(line) = rounded
  <2>1. DOMAIN rounded \intersect (plain \union kept) = DOMAIN value
    <3>1. DOMAIN rounded = DOMAIN value
      BY RoundedValue
    <3>2. DOMAIN value \subseteq plain \union kept
      BY DEF IsValue
    <3> QED
      BY ONLY <3>1, <3>2
  <2>2. ASSUME tag = "PART", "GAP" \in DOMAIN value PROVE rounded["GAP"] = YES
    <3>1. "GAP" \notin times
      BY <2>2, TagTable DEF Part, Tag
    <3> QED
      BY <2>2, <3>1, RoundedValue DEF IsValue, Has
  <2>3. Known(line) = [a \in DOMAIN value |-> rounded[a]]
    BY <1>2, <2>1, <2>2 DEF Known
  <2> QED
    BY <2>3, RoundedValue
<1>4. \A a \in DOMAIN value : a \in plain /\ rounded[a] = 0 <=> a \in short
  BY RoundedValue DEF IsValue
<1>5. unmarshal(line) = [a \in DOMAIN value \ short |-> rounded[a]]
  <2>1. {b \in DOMAIN rounded : b \in kept \/ rounded[b] # 0} = DOMAIN value \ short
    <3>1. \A b \in DOMAIN value : (b \in kept \/ b \in plain) /\ ~(b \in kept /\ b \in plain)
      BY TagFacts DEF IsValue
    <3> QED
      BY <1>4, <3>1, RoundedValue
  <2> QED
    BY <1>2, <1>3, <2>1 DEF unmarshal
<1>6. Remains(tag, value) = [a \in DOMAIN value |-> rounded[a]]
  BY DEF Remains
<1>7. Vanishes(tag, value) <=> short # {}
  BY DEF Vanishes
<1>8. \A a \in DOMAIN Known(line) : Known(line)[a] # Bad
  BY <1>3, RoundedValue DEF Bad
<1>9. tag = "MEDIA" => rounded = value
  BY RoundedValue, TagTable DEF Rendition, Tag
<1> HIDE DEF line, rounded
<1>10. ASSUME short = {} PROVE Valid(line) /\ unmarshal(line) = Remains(tag, value)
  <2>1. unmarshal(line) = Remains(tag, value) /\ unmarshal(line) = rounded
    <3>1. rounded = [a \in DOMAIN value |-> rounded[a]]
      BY RoundedValue DEF rounded
    <3> QED
      BY <1>5, <1>6, <1>10, <3>1
  <2>2. Tags[tag].required \subseteq DOMAIN rounded
    BY RoundedValue DEF IsValue, rounded
  <2>3. tag = "MEDIA" => RenditionValid(rounded)
    BY <1>9 DEF IsValue
  <2> QED
    BY <1>2, <1>8, <2>1, <2>2, <2>3 DEF Valid
<1>11. ASSUME short # {}, tag # "EXTINF" PROVE ~Valid(line)
  <2>1. PICK a \in short : TRUE
    BY <1>11
  <2>2. a \in Tags[tag].required /\ a \notin DOMAIN unmarshal(line)
    BY <1>5, <1>11, TagFacts
  <2> QED
    BY <1>2, <2>2 DEF Valid
<1>12. ASSUME short # {}, tag = "EXTINF" PROVE Valid(line) /\ ~Has(unmarshal(line), "DURATION")
  <2>1. Tags[tag].required = {} /\ plain = {"DURATION"} /\ kept = {}
    BY <1>12, TagTable DEF SegmentTags, Tag
  <2>2. "DURATION" \in short
    BY <1>12, <2>1
  <2>3. "DURATION" \notin DOMAIN unmarshal(line)
    BY <1>5, <2>2
  <2>4. Valid(line)
    BY <1>2, <1>8, <1>12, <2>1 DEF Valid
  <2> QED
    BY <2>3, <2>4 DEF Has
<1> QED
  BY <1>2, <1>7, <1>10, <1>11, <1>12 DEF line

\* A SERVER-CONTROL loses what is printed behind a comma.
LEMMA ServerControlReadsBack ==
    ASSUME NEW value, IsValue("SERVER_CONTROL", value)
    PROVE  LET line == marshal("SERVER_CONTROL", value)
           IN  /\ line.tag = "SERVER_CONTROL"
               /\ ~Vanishes("SERVER_CONTROL", value)
               /\ Valid(line) /\ unmarshal(line) = Remains("SERVER_CONTROL", value)
<1> DEFINE tag == "SERVER_CONTROL"
           line == marshal(tag, value)
           rounded == Rounded(tag, value)
           lost == IF Has(value, "CAN_BLOCK_RELOAD") THEN {}
                   ELSE IF Has(value, "PART_HOLD_BACK") THEN {"PART_HOLD_BACK"} ELSE {"CAN_SKIP_UNTIL"}
           left == DOMAIN value \ lost
<1>1. tag \in DOMAIN Tags /\ Tags[tag] = ServerControl
  BY TagTable DEF MediaHeader
<1>2. /\ Tags[tag].plain = {"CAN_BLOCK_RELOAD"} /\ Tags[tag].kept = {"PART_HOLD_BACK", "CAN_SKIP_UNTIL"}
      /\ Tags[tag].times = {"PART_HOLD_BACK", "CAN_SKIP_UNTIL"} /\ Tags[tag].required = {}
  BY <1>1 DEF ServerControl, Tag
<1>3. /\ DOMAIN value \subseteq {"CAN_BLOCK_RELOAD", "PART_HOLD_BACK", "CAN_SKIP_UNTIL"}
      /\ DOMAIN rounded = DOMAIN value /\ rounded = [a \in DOMAIN value |-> rounded[a]]
      /\ \A a \in DOMAIN value : rounded[a] \in Nat
      /\ Has(value, "CAN_BLOCK_RELOAD") => rounded["CAN_BLOCK_RELOAD"] # 0
  BY <1>1, <1>2, RoundedValue DEF IsValue, Has
<1>4. line.tag = tag /\ line.attrs = marshalServerControl(rounded)
  BY DEF marshal
<1> DEFINE attrs == marshalServerControl(rounded)
<1> HIDE DEF line, rounded
<1>5. DOMAIN attrs \intersect (Tags[tag].plain \union Tags[tag].kept) = left /\ \A a \in left : attrs[a] = rounded[a]
  <2>1. CASE Has(value, "CAN_BLOCK_RELOAD")
    BY <1>2, <1>3, <2>1 DEF marshalServerControl, Has
  <2>2. CASE ~Has(value, "CAN_BLOCK_RELOAD") /\ Has(value, "PART_HOLD_BACK")
    <3>1. attrs = Spoiled(rounded, "PART_HOLD_BACK")
      BY <1>3, <2>2 DEF marshalServerControl, Has
    <3> QED
      BY <1>2, <1>3, <2>2, <3>1 DEF Spoiled, Over, Has
  <2>3. CASE ~Has(value, "CAN_BLOCK_RELOAD") /\ ~Has(value, "PART_HOLD_BACK") /\ Has(value, "CAN_SKIP_UNTIL")
    <3>1. attrs = Spoiled(rounded, "CAN_SKIP_UNTIL")
      BY <1>3, <2>3 DEF marshalServerControl, Has
    <3> QED
      BY <1>2, <1>3, <2>3, <3>1 DEF Spoiled, Over, Has
  <2>4. CASE DOMAIN value = {}
    BY <1>2, <1>3, <2>4 DEF marshalServerControl, Has
  <2> QED
    BY <1>3, <2>1, <2>2, <2>3, <2>4 DEF Has
<1>6. Known(line) = [a \in left |-> rounded[a]]
  <2> HIDE DEF attrs, left
  <2>1. Known(line) = [a \in left |-> attrs[a]]
    BY <1>4, <1>5 DEF Known, attrs
  <2> QED
    BY <1>5, <2>1
<1>7. unmarshal(line) = [a \in left |-> rounded[a]]
  <2>1. \A a \in left : a \in Tags[tag].kept \/ rounded[a] # 0
    BY <1>2, <1>3 DEF Has
  <2> HIDE DEF left
  <2> QED
    BY <1>4, <1>6, <2>1 DEF unmarshal
<1>8. Remains(tag, value) = [a \in left |-> rounded[a]]
  <2>1. CASE Has(value, "CAN_BLOCK_RELOAD")
    BY <2>1 DEF Remains, rounded
  <2>2. CASE ~Has(value, "CAN_BLOCK_RELOAD")
    BY <2>2 DEF Remains, rounded
  <2> QED
    BY <2>1, <2>2
<1>9. Valid(line)
  <2>1. \A a \in left : rounded[a] # Bad
    BY <1>3 DEF Bad
  <2> HIDE DEF left
  <2> QED
    BY <1>2, <1>4, <1>6, <1>7, <2>1 DEF Valid
<1>10. ~Vanishes(tag, value)
  BY <1>2 DEF Vanishes
<1> QED
  BY <1>4, <1>7, <1>8, <1>9, <1>10 DEF line

\* A key needs a method; the other attributes are gone if that is NONE.
LEMMA KeyReadsBack ==
    ASSUME NEW value, IsValue("KEY", value)
    PROVE  LET line == marshal("KEY", value)
           IN  /\ line.tag = "KEY"
               /\ ~Vanishes("KEY", value) => Valid(line) /\ unmarshal(line) = Remains("KEY", value)
               /\ Vanishes("KEY", value) => ~Valid(line)
<1> DEFINE tag == "KEY"
           line == marshal(tag, value)
<1>1. tag \in DOMAIN Tags /\ Tags[tag] = Key
  BY TagTable
<1>2. /\ "METHOD" \in Tags[tag].plain /\ Tags[tag].kept = {}
      /\ Tags[tag].times = {} /\ Tags[tag].required = {}
  BY <1>1 DEF Key, Tag
<1>3. /\ DOMAIN value \subseteq Tags[tag].plain /\ value = [a \in DOMAIN value |-> value[a]]
      /\ \A a \in DOMAIN value : value[a] \in Nat /\ value[a] # 0
      /\ KeyValid(value) /\ Rounded(tag, value) = value
  BY <1>1, <1>2, RoundedValue DEF IsValue
<1>4. line.tag = tag /\ line.attrs = marshalKey(value)
  BY DEF marshal
<1>5. Vanishes(tag, value) <=> ~Has(value, "METHOD")
  BY <1>2 DEF Vanishes
<1> HIDE DEF line
<1>6. ASSUME ~Has(value, "METHOD") PROVE ~Valid(line)
  <2>1. line.attrs = Over(value, [METHOD |-> Bad])
    BY <1>4, <1>6 DEF marshalKey
  <2>2. "METHOD" \in DOMAIN line.attrs /\ line.attrs["METHOD"] = Bad
    BY <1>6, <2>1 DEF Over, Has
  <2>3. "METHOD" \in DOMAIN Known(line) /\ Known(line)["METHOD"] = Bad
    BY <1>2, <1>4, <2>2 DEF Known
  <2> QED
    BY <2>3 DEF Valid
<1>7. ASSUME Has(value, "METHOD"), value["METHOD"] = NONE
      PROVE  Valid(line) /\ unmarshal(line) = Remains(tag, value)
  <2>1. line.attrs = [METHOD |-> NONE]
    BY <1>4, <1>7 DEF marshalKey
  <2>2. Known(line) = [a \in {"METHOD"} |-> NONE]
    BY <1>2, <1>4, <2>1 DEF Known
  <2>3. unmarshal(line) = [a \in {"METHOD"} |-> NONE]
    BY <1>2, <1>4, <2>2 DEF unmarshal, NONE
  <2>4. Remains(tag, value) = [a \in {"METHOD"} |-> NONE]
    BY <1>3, <1>7 DEF Remains, Has
  <2>5. Valid(line)
    BY <1>2, <1>4, <2>2, <2>3 DEF Valid, KeyValid, NONE, Bad
  <2> QED
    BY <2>3, <2>4, <2>5
<1>8. ASSUME Has(value, "METHOD"), value["METHOD"] # NONE
      PROVE  Valid(line) /\ unmarshal(line) = Remains(tag, value)
  <2>1. line.attrs = value
    BY <1>4, <1>8 DEF marshalKey
  <2>2. DOMAIN value \intersect (Tags[tag].plain \union Tags[tag].kept) = DOMAIN value
    BY <1>2, <1>3
  <2>3. Known(line) = value
    BY <1>3, <1>4, <2>1, <2>2 DEF Known
  <2>4. unmarshal(line) = value
    BY <1>3, <1>4, <2>3 DEF unmarshal
  <2>5. Remains(tag, value) = value
    BY <1>3, <1>8 DEF Remains
  <2>6. Valid(line)
    BY <1>2, <1>3, <1>4, <2>3, <2>4 DEF Valid, Bad
  <2> QED
    BY <2>4, <2>5, <2>6
<1> QED
  BY <1>4, <1>5, <1>6, <1>7, <1>8 DEF line

\* A variant has codecs when it has been printed.
LEMMA VariantReadsBack ==
    ASSUME NEW value, IsValue("STREAM_INF", value)
    PROVE  LET line == marshal("STREAM_INF", value)
           IN  /\ line.tag = "STREAM_INF"
               /\ ~Vanishes("STREAM_INF", value)
               /\ Valid(line) /\ unmarshal(line) = VariantRemains(value)
<1> DEFINE tag == "STREAM_INF"
           line == marshal(tag, value)
           rounded == Rounded(tag, value)
           attrs == Over(rounded, [CODECS |-> 0])
<1>1. tag \in DOMAIN Tags /\ Tags[tag] = Variant
  BY TagTable
<1>2. /\ "CODECS" \in Tags[tag].kept /\ Tags[tag].times \intersect Tags[tag].plain = {}
      /\ Tags[tag].required = {"URI"} /\ Tags[tag].plain \intersect Tags[tag].kept = {}
  BY <1>1 DEF Variant, Tag
<1>3. /\ DOMAIN value \subseteq Tags[tag].plain \union Tags[tag].kept
      /\ DOMAIN rounded = DOMAIN value /\ rounded = [a \in DOMAIN value |-> rounded[a]]
      /\ \A a \in DOMAIN value : rounded[a] \in Nat /\ (a \in Tags[tag].plain => rounded[a] # 0)
      /\ "URI" \in DOMAIN value
  BY <1>1, <1>2, RoundedValue DEF IsValue
<1>4. line.tag = tag /\ line.attrs = attrs
  BY DEF marshal
<1> HIDE DEF line, rounded
<1>5. /\ DOMAIN attrs = DOMAIN value \union {"CODECS"}
      /\ \A a \in DOMAIN value : attrs[a] = rounded[a]
      /\ \A a \in DOMAIN attrs : attrs[a] \in Nat /\ (a \in Tags[tag].plain => attrs[a] # 0)
      /\ attrs = [a \in DOMAIN attrs |-> attrs[a]]
  BY <1>2, <1>3 DEF Over
<1> HIDE DEF attrs
<1>6. Known(line) = attrs
  <2>1. DOMAIN attrs \intersect (Tags[tag].plain \union Tags[tag].kept) = DOMAIN attrs
    BY <1>2, <1>3, <1>5
  <2>2. Known(line) = [a \in DOMAIN attrs |-> attrs[a]]
    BY <1>4, <2>1 DEF Known
  <2> QED
    BY <1>5, <2>2
<1>7. unmarshal(line) = attrs
  <2>1. {b \in DOMAIN attrs : b \in Tags[tag].kept \/ attrs[b] # 0} = DOMAIN attrs
    BY <1>2, <1>3, <1>5
  <2> QED
    BY <1>4, <1>5, <1>6, <2>1 DEF unmarshal
<1>8. VariantRemains(value) = attrs
  <2>1. Remains(tag, value) = rounded
    BY <1>3 DEF Remains, rounded
  <2> QED
    BY <2>1 DEF VariantRemains, attrs
<1>9. Valid(line)
  BY <1>2, <1>3, <1>4, <1>5, <1>6, <1>7 DEF Valid, Bad
<1>10. ~Vanishes(tag, value)
  BY <1>2 DEF Vanishes
<1> QED
  BY <1>4, <1>7, <1>8, <1>9, <1>10 DEF line

\* What is left of any tag.
Left(tag, value) == IF tag = "STREAM_INF" THEN VariantRemains(value) ELSE Remains(tag, value)

\* A printed tag is read as what is left of it; one that vanishes is refused, or is an
\* EXTINF without a duration.
LEMMA LineReadsBack ==
    ASSUME NEW tag \in DOMAIN Tags, NEW value, IsValue(tag, value)
    PROVE  LET line == marshal(tag, value)
           IN  /\ line.tag = tag
               /\ ~Vanishes(tag, value) => Valid(line) /\ unmarshal(line) = Left(tag, value)
               /\ Vanishes(tag, value) /\ tag # "EXTINF" => ~Valid(line)
               /\ Vanishes(tag, value) /\ tag = "EXTINF" => Valid(line) /\ ~Has(unmarshal(line), "DURATION")
<1> DEFINE line == marshal(tag, value)
           Fine(t) == /\ line.tag = t
                      /\ ~Vanishes(t, value) => Valid(line) /\ unmarshal(line) = Left(t, value)
                      /\ Vanishes(t, value) /\ t # "EXTINF" => ~Valid(line)
                      /\ Vanishes(t, value) /\ t = "EXTINF" => Valid(line) /\ ~Has(unmarshal(line), "DURATION")
<1>1. CASE tag = "SERVER_CONTROL"
  <2>1. Fine("SERVER_CONTROL")
    BY <1>1, ServerControlReadsBack DEF Left
  <2> QED
    BY <1>1, <2>1
<1>2. CASE tag = "KEY"
  <2>1. Fine("KEY")
    BY <1>2, KeyReadsBack DEF Left
  <2> QED
    BY <1>2, <2>1
<1>3. CASE tag = "STREAM_INF"
  <2>1. Fine("STREAM_INF")
    BY <1>3, VariantReadsBack DEF Left
  <2> QED
    BY <1>3, <2>1
<1>4. CASE tag \notin {"SERVER_CONTROL", "KEY", "STREAM_INF"}
  BY <1>4, OthersReadBack DEF Left
<1> QED
  BY <1>1, <1>2, <1>3, <1>4

--------------------------------------------------------------------------------
(***************************************************************************)
(* Texts and states, put together.                                         *)
(***************************************************************************)

\* Blocks of lines are sequences over one set of lines.
LEMMA BlocksTogether ==
    ASSUME NEW n \in Nat, NEW s, s = [i \in 1..n |-> s[i]], \A i \in 1..n : IsList(s[i])
    PROVE  \E S : s \in Seq(Seq(S))
<1> DEFINE S == UNION {{s[i][k] : k \in 1..Len(s[i])} : i \in 1..n}
<1>1. ASSUME NEW i \in 1..n PROVE s[i] \in Seq(S)
  <2> DEFINE lines == s[i]
  <2>1. \A k \in 1..Len(lines) : lines[k] \in S
    OBVIOUS
  <2>2. IsList(lines)
    OBVIOUS
  <2> HIDE DEF S, lines
  <2>3. lines \in [1..Len(lines) -> S]
    BY <2>1, <2>2 DEF IsList
  <2>4. lines \in Seq(S)
    BY <2>2, <2>3, SeqDef DEF IsList
  <2> QED
    BY <2>4 DEF lines
<1> HIDE DEF S
<1>2. s \in [1..n -> Seq(S)]
  BY <1>1
<1>3. s \in Seq(Seq(S))
  BY <1>2, SeqDef
<1> QED
  BY <1>3

\* The lemmas about what is read, for texts.
LEMMA TextRead ==
    ASSUME NEW lines, IsList(lines), NEW more, IsList(more)
    PROVE  /\ IsList(lines \o more)
           /\ \A s : Scanned(s, lines \o more) = Scanned(Scanned(s, lines), more)
           /\ \A s : IsState(s) => IsState(Scanned(s, lines)) /\ (s.refused => Scanned(s, lines).refused)
           /\ Refuses(lines) \/ Refuses(more) => Refuses(lines \o more)
           /\ \A k \in 1..Len(lines) : ~Valid(lines[k]) => Refuses(lines)
<1>1. PICK S : lines \in Seq(S) /\ more \in Seq(S)
  BY ListsTogether
<1>2. IsList(lines \o more)
  BY <1>1, SequenceIsList, lines \o more \in Seq(S)
<1> QED
  BY <1>1, <1>2, ScannedMore, ScannedRefused, RefusesAround, RefusesInvalid

\* Blocks of lines are read one after the other, and refused when one of them is.
LEMMA BlocksRead ==
    ASSUME NEW n \in Nat, NEW s, s = [i \in 1..n |-> s[i]], \A i \in 1..n : IsList(s[i])
    PROVE  /\ IsList(FlattenSeq(s))
           /\ \A g : (\A k \in 1..n : Scanned(g[k - 1], s[k]) = g[k]) => Scanned(g[0], FlattenSeq(s)) = g[n]
           /\ \A k \in 1..n : Refuses(s[k]) => Refuses(FlattenSeq(s))
<1>1. PICK S : s \in Seq(Seq(S))
  BY BlocksTogether
<1>2. Len(s) = n
  BY <1>1
<1>3. IsList(FlattenSeq(s))
  BY <1>1, Flattened, SequenceIsList
<1> QED
  BY <1>1, <1>2, <1>3, ScannedBlocks, RefusesBlocks

Fields == {"kind", "refused", "header", "segments", "reports", "variants", "renditions", "curSegment", "curKey"}

With(s, field, x) == [s EXCEPT ![field] = x]

\* A field that is replaced has the new value, and the others have theirs.
LEMMA WithField ==
    ASSUME NEW s, IsState(s), NEW field \in Fields, NEW x
    PROVE  /\ With(s, field, x)[field] = x
           /\ \A f \in Fields : f # field => With(s, field, x)[f] = s[f]
           /\ field # "curSegment" \/ IsSegment(x) => IsState(With(s, field, x))
<1>1. s = [f \in Fields |-> s[f]]
  BY DEF IsState, Fields
<1>2. With(s, field, x) = [f \in Fields |-> IF f = field THEN x ELSE s[f]]
  BY <1>1 DEF With
<1>3. field # "curSegment" \/ IsSegment(x) => IsSegment(With(s, field, x).curSegment)
  BY <1>2 DEF Fields, IsState
<1>4. field # "curSegment" \/ IsSegment(x) => IsState(With(s, field, x))
  BY <1>2, <1>3 DEF Fields, IsState
<1> QED
  BY <1>2, <1>4

\* States with the same fields are the same.
LEMMA SameState ==
    ASSUME NEW s, IsState(s), NEW t, IsState(t), \A f \in Fields : s[f] = t[f]
    PROVE  s = t
<1>1. s = [f \in Fields |-> s[f]]
  BY DEF IsState, Fields
<1>2. t = [f \in Fields |-> t[f]]
  BY DEF IsState, Fields
<1> QED
  BY <1>1, <1>2

--------------------------------------------------------------------------------
(***************************************************************************)
(* The tags of the playlist.                                               *)
(***************************************************************************)

IsMap(f) == f = [x \in DOMAIN f |-> f[x]]

\* What is left of the tags in D.
LeftOf(function, D) == [tag \in DOMAIN function \intersect D |-> Left(tag, function[tag])]

Among(tags, k) == {tags[j] : j \in 1..k}

\* One more tag of which something is left.
LEMMA OverLeft ==
    ASSUME NEW function, NEW D, NEW E, NEW h, IsMap(h)
    PROVE  /\ Over(LeftOf(function, {}), h) = h
           /\ IsMap(Over(LeftOf(function, D), h))
           /\ Over(LeftOf(function, D), Over(LeftOf(function, E), h)) = Over(LeftOf(function, D \union E), h)
           /\ \A t \in DOMAIN function :
                [x \in {t} |-> Left(t, function[t])] = LeftOf(function, {t})
           /\ \A t : t \notin DOMAIN function => LeftOf(function, D \union {t}) = LeftOf(function, D)
<1>1. Over(LeftOf(function, {}), h) = h
  BY DEF Over, LeftOf, IsMap
<1>2. IsMap(Over(LeftOf(function, D), h))
  BY DEF Over, IsMap
<1>3. Over(LeftOf(function, D), Over(LeftOf(function, E), h)) = Over(LeftOf(function, D \union E), h)
  <2> DEFINE all == (DOMAIN function \intersect (D \union E)) \union DOMAIN h
             value(x) == IF x \in DOMAIN function \intersect (D \union E) THEN Left(x, function[x]) ELSE h[x]
  <2>1. Over(LeftOf(function, D \union E), h) = [x \in all |-> value(x)]
    BY DEF Over, LeftOf
  <2>2. Over(LeftOf(function, D), Over(LeftOf(function, E), h)) = [x \in all |-> value(x)]
    BY DEF Over, LeftOf
  <2> QED
    BY <2>1, <2>2
<1>4. \A t \in DOMAIN function : [x \in {t} |-> Left(t, function[t])] = LeftOf(function, {t})
  BY DEF LeftOf
<1>5. ASSUME NEW t, t \notin DOMAIN function PROVE LeftOf(function, D \union {t}) = LeftOf(function, D)
  <2>1. DOMAIN function \intersect (D \union {t}) = DOMAIN function \intersect D
    BY <1>5
  <2> QED
    BY <2>1 DEF LeftOf
<1> QED
  BY <1>1, <1>2, <1>3, <1>4, <1>5

\* These tags may be kept, and are read again.
Kind(function) == \A tag \in DOMAIN function : tag \in DOMAIN Tags /\ IsValue(tag, function[tag])
Readable(function) == \A tag \in DOMAIN function : ~Vanishes(tag, function[tag])

\* Tags are printed as blocks of at most one line.
LEMMA TagsAreText ==
    ASSUME NEW S, NEW tags \in Seq(S), NEW function
    PROVE  LET block(i) == IF Has(function, tags[i]) THEN << marshal(tags[i], function[tags[i]]) >> ELSE << >>
           IN  /\ marshalTags(function, tags) = FlattenSeq([i \in 1..Len(tags) |-> block(i)])
               /\ \A i \in 1..Len(tags) : IsList(block(i))
               /\ IsList(marshalTags(function, tags))
<1> DEFINE block(i) == IF Has(function, tags[i]) THEN << marshal(tags[i], function[tags[i]]) >> ELSE << >>
           s == [i \in 1..Len(tags) |-> block(i)]
<1>1. marshalTags(function, tags) = FlattenSeq(s)
  BY DEF marshalTags
<1>2. \A i \in 1..Len(tags) : IsList(block(i))
  BY DEF IsList
<1>3. \A i \in 1..Len(tags) : s[i] = block(i)
  OBVIOUS
<1>4. s = [i \in 1..Len(tags) |-> s[i]] /\ Len(tags) \in Nat
  OBVIOUS
<1> HIDE DEF block
<1>5. \A i \in 1..Len(tags) : IsList(s[i])
  BY <1>2, <1>3
<1> HIDE DEF s
<1>6. IsList(FlattenSeq(s))
  BY <1>4, <1>5, BlocksRead
<1> QED
  BY <1>1, <1>2, <1>6 DEF block, s

\* A tag that vanishes refuses the text.
LEMMA TagsRefuse ==
    ASSUME NEW S, NEW tags \in Seq(S), NEW function, Kind(function),
           NEW i \in 1..Len(tags), tags[i] \in DOMAIN function, tags[i] # "EXTINF",
           Vanishes(tags[i], function[tags[i]])
    PROVE  Refuses(marshalTags(function, tags))
<1> DEFINE block(j) == IF Has(function, tags[j]) THEN << marshal(tags[j], function[tags[j]]) >> ELSE << >>
           s == [j \in 1..Len(tags) |-> block(j)]
           line == marshal(tags[i], function[tags[i]])
<1>1. /\ marshalTags(function, tags) = FlattenSeq(s)
      /\ \A j \in 1..Len(tags) : IsList(block(j))
  BY TagsAreText
<1>2. ~Valid(line)
  BY LineReadsBack DEF Kind
<1>3. block(i) = << line >>
  BY DEF Has
<1>4. Refuses(<< line >>)
  <2> DEFINE one == << line >>
  <2>1. one \in Seq({line}) /\ 1 \in 1..Len(one) /\ one[1] = line
    OBVIOUS
  <2> HIDE DEF line, one
  <2>2. Refuses(one)
    BY <1>2, <2>1, RefusesInvalid
  <2> QED
    BY <2>2 DEF one
<1>5. s = [j \in 1..Len(tags) |-> s[j]] /\ Len(tags) \in Nat /\ \A j \in 1..Len(tags) : s[j] = block(j)
  OBVIOUS
<1> HIDE DEF block, line
<1>6. (\A j \in 1..Len(tags) : IsList(s[j])) /\ Refuses(s[i])
  BY <1>1, <1>3, <1>4, <1>5
<1> HIDE DEF s
<1>7. Refuses(FlattenSeq(s))
  BY <1>5, <1>6, BlocksRead
<1> QED
  BY <1>1, <1>7 DEF s, block

\* The tags of a playlist are read into its header, in any order.
LEMMA HeaderScanned ==
    ASSUME NEW tags \in Seq(DOMAIN MediaHeader), NEW function, Kind(function), Readable(function),
           NEW s, IsState(s), IsMap(s.header)
    PROVE  Scanned(s, marshalTags(function, tags))
                = With(s, "header", Over(LeftOf(function, Among(tags, Len(tags))), s.header))
<1> DEFINE block(i) == IF Has(function, tags[i]) THEN << marshal(tags[i], function[tags[i]]) >> ELSE << >>
           b == [i \in 1..Len(tags) |-> block(i)]
           header(k) == Over(LeftOf(function, Among(tags, k)), s.header)
           g == [k \in 0..Len(tags) |-> With(s, "header", header(k))]
<1>1. marshalTags(function, tags) = FlattenSeq(b) /\ \A i \in 1..Len(tags) : IsList(block(i))
  BY TagsAreText
<1>2. g[0] = s
  <2>1. Among(tags, 0) = {}
    BY DEF Among
  <2>2. header(0) = s.header
    BY <2>1, OverLeft
  <2> HIDE DEF header
  <2>3. IsState(With(s, "header", header(0))) /\ \A f \in Fields : With(s, "header", header(0))[f] = s[f]
    BY <2>2, WithField DEF Fields
  <2>4. With(s, "header", header(0)) = s
    BY <2>3, SameState
  <2> QED
    BY <2>4
<1>3. ASSUME NEW k \in 1..Len(tags) PROVE Scanned(g[k - 1], b[k]) = g[k]
  <2> DEFINE t == tags[k]
             before == With(s, "header", header(k - 1))
             after == With(s, "header", header(k))
  <2>1. g[k - 1] = before /\ g[k] = after /\ b[k] = block(k) /\ t \in DOMAIN MediaHeader
    OBVIOUS
  <2>2. Among(tags, k) = Among(tags, k - 1) \union {t}
    <3>1. 1..k = (1..k - 1) \union {k}
      OBVIOUS
    <3> QED
      BY <3>1 DEF Among
  <2>3. CASE t \notin DOMAIN function
    <3>1. block(k) = << >>
      BY <2>3 DEF Has
    <3>2. header(k) = header(k - 1)
      BY <2>2, <2>3, OverLeft
    <3> HIDE DEF header, block, g, b
    <3> QED
      BY <2>1, <3>1, <3>2, ScannedFew
  <2>4. CASE t \in DOMAIN function
    <3> DEFINE line == marshal(t, function[t])
    <3>1. block(k) = << line >>
      BY <2>4 DEF Has
    <3>2. line.tag = t /\ Valid(line) /\ unmarshal(line) = Left(t, function[t])
      BY <2>4, LineReadsBack DEF Kind, Readable
    <3>3. header(k) = Over([x \in {t} |-> Left(t, function[t])], header(k - 1))
      <4>1. [x \in {t} |-> Left(t, function[t])] = LeftOf(function, {t})
        BY <2>4, OverLeft
      <4>2. Over(LeftOf(function, {t}), Over(LeftOf(function, Among(tags, k - 1)), s.header))
                = Over(LeftOf(function, {t} \union Among(tags, k - 1)), s.header)
        BY OverLeft
      <4>3. {t} \union Among(tags, k - 1) = Among(tags, k)
        BY <2>2
      <4> QED
        BY <4>1, <4>2, <4>3
    <3> HIDE DEF header, block, g, b, line, t
    <3>4. ReadLine(before, line) = AddTag(before, line)
      BY <2>1, <3>2 DEF ReadLine, MediaHeader
    <3>5. IsState(before) /\ IsState(after) /\ before.header = header(k - 1) /\ after.header = header(k)
      BY WithField DEF Fields
    <3>6. AddTag(before, line) = With(before, "header", header(k))
      BY <3>2, <3>3, <3>5 DEF AddTag, Replace, With
    <3>7. With(before, "header", header(k)) = after
      <4>1. IsState(With(before, "header", header(k)))
        BY <3>5, WithField DEF Fields
      <4>2. \A f \in Fields : With(before, "header", header(k))[f] = after[f]
        <5>1. \A f \in Fields : f # "header" => /\ With(before, "header", header(k))[f] = before[f]
                                                /\ before[f] = s[f] /\ after[f] = s[f]
          BY <3>5, WithField DEF Fields
        <5>2. With(before, "header", header(k))["header"] = header(k) /\ after["header"] = header(k)
          BY <3>5, WithField DEF Fields
        <5> QED
          BY <5>1, <5>2
      <4> HIDE DEF before, after
      <4> QED
        BY <3>5, <4>1, <4>2, SameState
    <3>8. Scanned(before, << line >>) = ReadLine(before, line)
      BY ScannedFew, Zenon
    <3> HIDE DEF before, after
    <3> QED
      BY ONLY <2>1, <3>1, <3>4, <3>6, <3>7, <3>8
  <2> QED
    BY <2>3, <2>4
<1>4. b = [i \in 1..Len(tags) |-> b[i]] /\ Len(tags) \in Nat /\ \A i \in 1..Len(tags) : b[i] = block(i)
  OBVIOUS
<1>5. g[Len(tags)] = With(s, "header", header(Len(tags)))
  OBVIOUS
<1> HIDE DEF block, b, g, header
<1>6. \A i \in 1..Len(tags) : IsList(b[i])
  BY <1>1, <1>4
<1>7. Scanned(g[0], FlattenSeq(b)) = g[Len(tags)]
  BY <1>3, <1>4, <1>6, BlocksRead
<1> QED
  BY <1>1, <1>2, <1>5, <1>7 DEF header, b, block

--------------------------------------------------------------------------------
(***************************************************************************)
(* The tags of a segment.                                                  *)
(***************************************************************************)

\* A field that changes twice, and one that does not change.
LEMMA WithTwice ==
    ASSUME NEW s, IsState(s), NEW field \in Fields, NEW x, NEW y,
           field # "curSegment" \/ (IsSegment(x) /\ IsSegment(y))
    PROVE  /\ With(With(s, field, x), field, y) = With(s, field, y)
           /\ With(s, field, s[field]) = s
<1>1. /\ With(s, field, x)[field] = x
      /\ \A f \in Fields : f # field => With(s, field, x)[f] = s[f]
      /\ IsState(With(s, field, x)) /\ IsState(With(s, field, y))
  BY WithField
<1>2. IsState(With(With(s, field, x), field, y))
  BY <1>1, WithField
<1>3. ASSUME NEW f \in Fields PROVE With(With(s, field, x), field, y)[f] = With(s, field, y)[f]
  <2>1. CASE f = field
    BY <1>1, <2>1, WithField
  <2>2. CASE f # field
    <3>1. With(With(s, field, x), field, y)[f] = With(s, field, x)[f]
      BY <1>1, <2>2, WithField
    <3>2. With(s, field, x)[f] = s[f] /\ With(s, field, y)[f] = s[f]
      BY <2>2, WithField
    <3> QED
      BY <3>1, <3>2
  <2> QED
    BY <2>1, <2>2
<1>4. With(With(s, field, x), field, y) = With(s, field, y)
  BY <1>1, <1>2, <1>3, SameState
<1>5. With(s, field, s[field]) = s
  <2>1. field = "curSegment" => IsSegment(s[field])
    BY DEF IsState
  <2>2. IsState(With(s, field, s[field])) /\ \A f \in Fields : With(s, field, s[field])[f] = s[f]
    BY <2>1, WithField
  <2> QED
    BY <2>2, SameState
<1> QED
  BY <1>4, <1>5

\* What is done with a line, tag by tag.
LEMMA ReadLineIs ==
    ASSUME NEW s, NEW line, Valid(line)
    PROVE  /\ line.tag = "KEY" => ReadLine(s, line) = AddKey(s, line)
           /\ line.tag = "EXTINF" => ReadLine(s, line) = ReadInf(s, line)
           /\ line.tag = "PART" => ReadLine(s, line) = AddPart(s, line)
           /\ line.tag = "URI" => ReadLine(s, line) = ReadURI(s)
           /\ line.tag = "RENDITION_REPORT" => ReadLine(s, line) = AddTo(s, "reports", line)
           /\ line.tag = "STREAM_INF" => ReadLine(s, line) = AddTo(s, "variants", line)
           /\ line.tag = "MEDIA" => ReadLine(s, line) = AddTo(s, "renditions", line)
  BY DEF ReadLine, MediaHeader

\* One of its lines.
LEMMA FieldRead ==
    ASSUME NEW s, IsState(s), NEW line, Valid(line), line.tag \in DOMAIN SegmentTags
    PROVE  ReadLine(s, line)
                = With(s, "curSegment",
                       [fields |-> Over([t \in {line.tag} |-> unmarshal(line)], s.curSegment.fields),
                        key |-> IF line.tag = "EXTINF" THEN s.curKey ELSE s.curSegment.key,
                        parts |-> s.curSegment.parts])
<1> DEFINE c == s.curSegment
           fields == Over([t \in {line.tag} |-> unmarshal(line)], c.fields)
           next == [fields |-> fields, key |-> c.key, parts |-> c.parts]
           inf == [fields |-> fields, key |-> s.curKey, parts |-> c.parts]
<1>1. IsSegment(c) /\ IsSegment(next) /\ IsSegment(inf)
  BY DEF IsState, IsSegment
<1>2. fields = Replace(c.fields, line)
  BY DEF Replace
<1>3. [c EXCEPT !.fields = Replace(c.fields, line)] = next /\ [next EXCEPT !.key = s.curKey] = inf
  BY <1>1, <1>2 DEF IsSegment
<1> HIDE DEF next, inf, fields, c
<1>4. AddField(s, line) = With(s, "curSegment", next)
  BY <1>3, Reads DEF With, c
<1>5. ReadInf(s, line) = With(s, "curSegment", inf)
  <2>1. IsState(AddField(s, line)) /\ AddField(s, line).curSegment = next
    BY <1>1, <1>4, WithField DEF Fields
  <2>2. ReadInf(s, line) = With(AddField(s, line), "curSegment", inf)
    <3>1. ReadInf(s, line) = With(AddField(s, line), "curSegment", [AddField(s, line).curSegment EXCEPT !.key = s.curKey])
      BY Reads DEF With
    <3> QED
      BY ONLY <1>3, <2>1, <3>1
  <2>3. With(AddField(s, line), "curSegment", inf) = With(s, "curSegment", inf)
    BY <1>1, <1>4, WithTwice DEF Fields
  <2> QED
    BY <2>2, <2>3
<1>6. CASE line.tag = "EXTINF"
  <2>1. ReadLine(s, line) = ReadInf(s, line)
    BY <1>6, ReadLineIs
  <2> QED
    BY <1>5, <1>6, <2>1 DEF inf, fields, c
<1>7. CASE line.tag # "EXTINF"
  <2>1. ReadLine(s, line) = AddField(s, line)
    BY <1>7 DEF ReadLine, SegmentTags, MediaHeader
  <2> QED
    BY <1>4, <1>7, <2>1 DEF next, fields, c
<1> QED
  BY <1>6, <1>7

\* The segment with more tags.
Tagged(c, key, function, D) ==
    [fields |-> Over(LeftOf(function, D), c.fields),
     key |-> IF "EXTINF" \in DOMAIN function \intersect D THEN key ELSE c.key,
     parts |-> c.parts]

\* The tags of a segment, read again, are in the segment that is being read.
LEMMA FieldsScanned ==
    ASSUME NEW tags \in Seq(DOMAIN SegmentTags), NEW function, Kind(function), Readable(function),
           NEW s, IsState(s), IsMap(s.curSegment.fields)
    PROVE  Scanned(s, marshalTags(function, tags))
                = With(s, "curSegment", Tagged(s.curSegment, s.curKey, function, Among(tags, Len(tags))))
<1> DEFINE block(i) == IF Has(function, tags[i]) THEN << marshal(tags[i], function[tags[i]]) >> ELSE << >>
           b == [i \in 1..Len(tags) |-> block(i)]
           c == s.curSegment
           segment(k) == Tagged(c, s.curKey, function, Among(tags, k))
           g == [k \in 0..Len(tags) |-> With(s, "curSegment", segment(k))]
<1>1. marshalTags(function, tags) = FlattenSeq(b) /\ \A i \in 1..Len(tags) : IsList(block(i))
  BY TagsAreText
<1>2. g[0] = s
  <2>1. Among(tags, 0) = {}
    BY DEF Among
  <2>2. Over(LeftOf(function, Among(tags, 0)), c.fields) = c.fields
    BY <2>1, OverLeft
  <2>3. segment(0) = c
    BY <2>1, <2>2 DEF Tagged, IsState, IsSegment
  <2> HIDE DEF segment
  <2>4. With(s, "curSegment", segment(0)) = s
    BY <2>3, WithTwice DEF Fields, IsState
  <2> QED
    BY <2>4
<1>3. ASSUME NEW k \in 1..Len(tags) PROVE Scanned(g[k - 1], b[k]) = g[k]
  <2> DEFINE t == tags[k]
             before == With(s, "curSegment", segment(k - 1))
             after == With(s, "curSegment", segment(k))
  <2>1. g[k - 1] = before /\ g[k] = after /\ b[k] = block(k) /\ t \in DOMAIN SegmentTags
    OBVIOUS
  <2>2. Among(tags, k) = Among(tags, k - 1) \union {t}
    <3>1. 1..k = (1..k - 1) \union {k}
      OBVIOUS
    <3> QED
      BY <3>1 DEF Among
  <2>3. CASE t \notin DOMAIN function
    <3>1. block(k) = << >>
      BY <2>3 DEF Has
    <3>2. LeftOf(function, Among(tags, k)) = LeftOf(function, Among(tags, k - 1))
      <4>1. LeftOf(function, Among(tags, k - 1) \union {t}) = LeftOf(function, Among(tags, k - 1))
        BY <2>3, OverLeft, IsMap(c.fields)
      <4> QED
        BY <2>2, <4>1
    <3>3. "EXTINF" \in DOMAIN function \intersect Among(tags, k)
            <=> "EXTINF" \in DOMAIN function \intersect Among(tags, k - 1)
      BY <2>2, <2>3
    <3>4. segment(k) = segment(k - 1)
      BY <3>2, <3>3 DEF Tagged
    <3> HIDE DEF segment, block, g, b
    <3> QED
      BY <2>1, <3>1, <3>4, ScannedFew
  <2>4. CASE t \in DOMAIN function
    <3> DEFINE line == marshal(t, function[t])
               was == segment(k - 1)
               fields == Over([x \in {t} |-> Left(t, function[t])], was.fields)
    <3>1. block(k) = << line >>
      BY <2>4 DEF Has
    <3>2. line.tag = t /\ Valid(line) /\ unmarshal(line) = Left(t, function[t])
      BY <2>4, LineReadsBack DEF Kind, Readable
    <3>3. was.fields = Over(LeftOf(function, Among(tags, k - 1)), c.fields) /\ was.parts = c.parts
      BY DEF Tagged
    <3>4. fields = Over(LeftOf(function, Among(tags, k)), c.fields)
      <4>1. [x \in {t} |-> Left(t, function[t])] = LeftOf(function, {t})
        BY <2>4, OverLeft
      <4>2. Over(LeftOf(function, {t}), Over(LeftOf(function, Among(tags, k - 1)), c.fields))
                = Over(LeftOf(function, {t} \union Among(tags, k - 1)), c.fields)
        BY OverLeft
      <4>3. {t} \union Among(tags, k - 1) = Among(tags, k)
        BY <2>2
      <4> QED
        BY <3>3, <4>1, <4>2, <4>3
    <3>5. (IF t = "EXTINF" THEN s.curKey ELSE was.key) = segment(k).key
      BY <2>2, <2>4 DEF Tagged
    <3>6. [fields |-> fields, key |-> IF t = "EXTINF" THEN s.curKey ELSE was.key, parts |-> was.parts] = segment(k)
      BY <3>3, <3>4, <3>5 DEF Tagged
    <3>7. IsSegment(was) /\ IsSegment(segment(k))
      BY DEF Tagged, IsSegment
    <3> HIDE DEF segment, block, g, b, line, t, was, fields
    <3>8. IsState(before) /\ before.curSegment = was /\ before.curKey = s.curKey
      BY <3>7, WithField DEF Fields, was
    <3>9. ReadLine(before, line) = With(before, "curSegment", segment(k))
      <4> DEFINE read == [fields |-> Over([x \in {line.tag} |-> unmarshal(line)], before.curSegment.fields),
                          key |-> IF line.tag = "EXTINF" THEN before.curKey ELSE before.curSegment.key,
                          parts |-> before.curSegment.parts]
      <4>1. line.tag \in DOMAIN SegmentTags
        BY <2>1, <3>2
      <4> HIDE DEF before
      <4>2. ReadLine(before, line) = With(before, "curSegment", read)
        BY <3>2, <3>8, <4>1, FieldRead
      <4>3. Over([x \in {line.tag} |-> unmarshal(line)], before.curSegment.fields) = fields
        BY <3>2, <3>8 DEF fields
      <4>4. read = segment(k)
        BY <3>2, <3>6, <3>8, <4>3
      <4> QED
        BY <4>2, <4>4
    <3>10. With(before, "curSegment", segment(k)) = after
      <4>1. IsSegment(segment(k - 1)) /\ IsSegment(segment(k)) /\ "curSegment" \in Fields
        BY <3>7 DEF was, Fields
      <4> HIDE DEF before, after
      <4>2. before = With(s, "curSegment", segment(k - 1)) /\ after = With(s, "curSegment", segment(k))
        BY DEF before, after
      <4> QED
        BY <4>1, <4>2, WithTwice
    <3>11. Scanned(before, << line >>) = ReadLine(before, line)
      BY ScannedFew, Zenon
    <3> HIDE DEF before, after
    <3> QED
      BY ONLY <2>1, <3>1, <3>9, <3>10, <3>11
  <2> QED
    BY <2>3, <2>4
<1>4. b = [i \in 1..Len(tags) |-> b[i]] /\ Len(tags) \in Nat /\ \A i \in 1..Len(tags) : b[i] = block(i)
  OBVIOUS
<1>5. g[Len(tags)] = With(s, "curSegment", segment(Len(tags)))
  OBVIOUS
<1> HIDE DEF block, b, g, segment
<1>6. \A i \in 1..Len(tags) : IsList(b[i])
  BY <1>1, <1>4
<1>7. Scanned(g[0], FlattenSeq(b)) = g[Len(tags)]
  BY <1>3, <1>4, <1>6, BlocksRead
<1> QED
  BY <1>1, <1>2, <1>5, <1>7 DEF segment, b, block

--------------------------------------------------------------------------------
(***************************************************************************)
(* Lists: the parts of a segment, reports, renditions and variants.        *)
(***************************************************************************)

\* What is left of the first values of a list.
FirstLeft(tag, values, k) == [i \in 1..k |-> Left(tag, values[i])]

\* A list to which they are appended.
Longer(a, tag, values, k) == a \o FirstLeft(tag, values, k)

Values(tag, values) == IsList(values) /\ \A i \in 1..Len(values) : IsValue(tag, values[i])

\* A list that grows, and the one value by which it does.
LEMMA Grown ==
    ASSUME NEW a, IsList(a), NEW tag, NEW values, NEW k \in Nat
    PROVE  Longer(a, tag, values, 0) = a /\ IsList(Longer(a, tag, values, k))
<1>1. IsList(FirstLeft(tag, values, k)) /\ FirstLeft(tag, values, 0) = << >>
  BY DEF FirstLeft, IsList
<1>2. IsList(a \o FirstLeft(tag, values, k))
  BY <1>1, TextRead
<1>3. PICK S : a \in Seq(S) /\ FirstLeft(tag, values, k) \in Seq(S)
  BY <1>1, ListsTogether
<1>4. a \o << >> = a
  BY <1>3
<1> QED
  BY <1>1, <1>2, <1>4 DEF Longer

\* The list grows by what is left of the next value.
LEMMA OneMoreLeft ==
    ASSUME NEW a, IsList(a), NEW tag, NEW values, NEW k \in Nat, k # 0
    PROVE  Longer(a, tag, values, k) = Append(Longer(a, tag, values, k - 1), Left(tag, values[k]))
<1> DEFINE few == FirstLeft(tag, values, k - 1)
           more == FirstLeft(tag, values, k)
           one == Left(tag, values[k])
<1>1. /\ IsList(few) /\ Len(few) = k - 1
      /\ IsList(more) /\ Len(more) = k /\ more[k] = one
      /\ \A i \in 1..k - 1 : few[i] = more[i]
  BY DEF FirstLeft, IsList
<1> HIDE DEF few, more, one
<1>2. PICK S : a \in Seq(S) /\ more \in Seq(S)
  BY <1>1, ListsTogether
<1>3. few \in Seq(S) /\ one \in S
  BY <1>1, <1>2 DEF IsList
<1>4. a \o more = Append(a \o few, one)
  BY <1>1, <1>2, <1>3
<1> QED
  BY <1>4 DEF Longer, few, more, one

\* The lines of a list, one for each value; they are refused when a value vanishes.
LEMMA PrintedAll ==
    ASSUME NEW tag \in DOMAIN Tags, NEW values, Values(tag, values)
    PROVE  /\ IsList(marshalAll(tag, values)) /\ Len(marshalAll(tag, values)) = Len(values)
           /\ \A i \in 1..Len(values) : marshalAll(tag, values)[i] = marshal(tag, values[i])
           /\ tag # "EXTINF" /\ (\E i \in 1..Len(values) : Vanishes(tag, values[i]))
                => Refuses(marshalAll(tag, values))
<1> DEFINE lines == marshalAll(tag, values)
<1>1. /\ IsList(lines) /\ Len(lines) = Len(values)
      /\ \A i \in 1..Len(values) : lines[i] = marshal(tag, values[i])
  BY DEF marshalAll, IsList, Values
<1> HIDE DEF lines
<1>2. ASSUME tag # "EXTINF", NEW i \in 1..Len(values), Vanishes(tag, values[i]) PROVE Refuses(lines)
  <2>1. ~Valid(lines[i])
    BY <1>1, <1>2, LineReadsBack DEF Values
  <2> QED
    BY <1>1, <2>1, TextRead
<1> QED
  BY <1>1, <1>2 DEF lines

\* The tags that are always read again.
LEMMA NeverVanishes ==
    ASSUME NEW tag \in {"RENDITION_REPORT", "STREAM_INF", "MEDIA", "URI", "BYTERANGE"}, NEW value
    PROVE  ~Vanishes(tag, value)
<1>1. Tags[tag].times \intersect Tags[tag].plain = {}
  BY TagTable DEF SegmentTags, Tag, Flag, Pointer, RenditionReport, Variant, Rendition
<1> QED
  BY <1>1 DEF Vanishes

\* Reports, variants and renditions are appended to their lists.
LEMMA ListScanned ==
    ASSUME NEW tag, NEW list,
           \/ tag = "RENDITION_REPORT" /\ list = "reports"
           \/ tag = "STREAM_INF" /\ list = "variants"
           \/ tag = "MEDIA" /\ list = "renditions",
           NEW values, Values(tag, values), NEW s, IsState(s), IsList(s[list])
    PROVE  Scanned(s, marshalAll(tag, values)) = With(s, list, s[list] \o FirstLeft(tag, values, Len(values)))
<1> DEFINE lines == marshalAll(tag, values)
           got(k) == Longer(s[list], tag, values, k)
           p == [k \in 0..Len(values) |-> With(s, list, got(k))]
<1>1. tag \in {"RENDITION_REPORT", "STREAM_INF", "MEDIA"} /\ tag \in DOMAIN Tags
      /\ list \in Fields /\ list # "curSegment"
  BY TagTable DEF Fields
<1>2. /\ IsList(lines) /\ Len(lines) = Len(values)
      /\ \A i \in 1..Len(values) : lines[i] = marshal(tag, values[i])
  BY <1>1, PrintedAll
<1>3. Len(values) \in Nat
  BY DEF Values, IsList
<1>4. p[0] = s
  <2>1. got(0) = s[list]
    BY Grown, 0 \in Nat
  <2>2. p[0] = With(s, list, got(0))
    BY <1>3
  <2> HIDE DEF p, got
  <2> QED
    BY <1>1, <2>1, <2>2, WithTwice
<1>5. ASSUME NEW k \in 1..Len(lines) PROVE p[k] = ReadLine(p[k - 1], lines[k])
  <2> DEFINE line == lines[k]
             before == With(s, list, got(k - 1))
  <2>1. k \in Nat /\ k # 0 /\ k - 1 \in Nat /\ k \in 1..Len(values)
    BY <1>2, <1>3
  <2>2. line.tag = tag /\ Valid(line) /\ unmarshal(line) = Left(tag, values[k])
    BY <1>1, <1>2, <2>1, LineReadsBack, NeverVanishes DEF Values
  <2>3. got(k) = Append(got(k - 1), Left(tag, values[k]))
    BY <2>1, OneMoreLeft
  <2>4. p[k] = With(s, list, got(k)) /\ p[k - 1] = before
    BY <1>3, <2>1
  <2> HIDE DEF lines, p, got, line
  <2>5. before[list] = got(k - 1)
    BY <1>1, WithField
  <2> HIDE DEF before
  <2>6. ReadLine(before, line) = AddTo(before, list, line)
    BY <1>1, <2>2, ReadLineIs
  <2>7. AddTo(before, list, line) = With(before, list, got(k))
    BY <2>2, <2>3, <2>5 DEF AddTo, With
  <2>8. With(before, list, got(k)) = With(s, list, got(k))
    BY <1>1, WithTwice DEF before
  <2> QED
    BY <2>4, <2>6, <2>7, <2>8 DEF line
<1>6. p[Len(lines)] = With(s, list, got(Len(values)))
  BY <1>2, <1>3
<1> HIDE DEF lines, p
<1>7. Scans(p, s, lines)
  BY <1>4, <1>5 DEF Scans
<1>8. PICK S : lines \in Seq(S)
  BY <1>2, ListsTogether
<1> QED
  BY <1>6, <1>7, <1>8, ScannedBy DEF lines, Longer

WithParts(c, parts) == [fields |-> c.fields, key |-> c.key, parts |-> parts]

\* Parts are appended to those of the segment.
LEMMA PartsScanned ==
    ASSUME NEW values, Values("PART", values), \A i \in 1..Len(values) : ~Vanishes("PART", values[i]),
           NEW s, IsState(s), IsList(s.curSegment.parts)
    PROVE  Scanned(s, marshalAll("PART", values))
                = With(s, "curSegment", WithParts(s.curSegment,
                                                  s.curSegment.parts \o FirstLeft("PART", values, Len(values))))
<1> DEFINE lines == marshalAll("PART", values)
           c == s.curSegment
           got(k) == Longer(c.parts, "PART", values, k)
           segment(k) == WithParts(c, got(k))
           p == [k \in 0..Len(values) |-> With(s, "curSegment", segment(k))]
<1>1. "PART" \in DOMAIN Tags /\ IsSegment(c) /\ \A k : IsSegment(segment(k))
  BY TagTable DEF IsState, IsSegment, WithParts
<1>2. /\ IsList(lines) /\ Len(lines) = Len(values)
      /\ \A i \in 1..Len(values) : lines[i] = marshal("PART", values[i])
  BY <1>1, PrintedAll
<1>3. Len(values) \in Nat
  BY DEF Values, IsList
<1>4. p[0] = s
  <2>1. got(0) = c.parts
    BY Grown, 0 \in Nat
  <2>2. segment(0) = c
    BY <1>1, <2>1 DEF WithParts, IsSegment
  <2>3. p[0] = With(s, "curSegment", segment(0))
    BY <1>3
  <2> HIDE DEF p, segment
  <2> QED
    BY <1>1, <2>2, <2>3, WithTwice DEF Fields
<1>5. ASSUME NEW k \in 1..Len(lines) PROVE p[k] = ReadLine(p[k - 1], lines[k])
  <2> DEFINE line == lines[k]
             before == With(s, "curSegment", segment(k - 1))
             u == unmarshal(line)
  <2>1. k \in Nat /\ k # 0 /\ k - 1 \in Nat /\ k \in 1..Len(values)
    BY <1>2, <1>3
  <2>2. line.tag = "PART" /\ Valid(line) /\ u = Left("PART", values[k])
    BY <1>1, <1>2, <2>1, LineReadsBack DEF Values
  <2>3. got(k) = Append(got(k - 1), u)
    <3>1. got(k) = Append(got(k - 1), Left("PART", values[k]))
      BY <2>1, OneMoreLeft
    <3> QED
      BY <2>2, <3>1
  <2>4. p[k] = With(s, "curSegment", segment(k)) /\ p[k - 1] = before
    BY <1>3, <2>1
  <2> HIDE DEF got
  <2>5. segment(k - 1).parts = got(k - 1) /\ segment(k) = [segment(k - 1) EXCEPT !.parts = got(k)]
    BY DEF WithParts
  <2> HIDE DEF lines, p, got, line, segment, u
  <2>6. before.curSegment = segment(k - 1) /\ IsState(before)
    BY <1>1, WithField DEF Fields
  <2> HIDE DEF before
  <2>7. ReadLine(before, line) = AddPart(before, line)
    BY <2>2, ReadLineIs
  <2>8. AddPart(before, line) = [before EXCEPT !.curSegment = [before.curSegment EXCEPT !.parts = Append(before.curSegment.parts, u)]]
    BY <2>6, Reads DEF u
  <2>9. AddPart(before, line) = With(before, "curSegment", segment(k))
    BY <2>3, <2>5, <2>6, <2>8 DEF With
  <2>10. With(before, "curSegment", segment(k)) = With(s, "curSegment", segment(k))
    BY <1>1, WithTwice DEF before, Fields
  <2> QED
    BY <2>4, <2>7, <2>9, <2>10 DEF line
<1>6. p[Len(lines)] = With(s, "curSegment", segment(Len(values)))
  BY <1>2, <1>3
<1> HIDE DEF lines, p
<1>7. Scans(p, s, lines)
  BY <1>4, <1>5 DEF Scans
<1>8. PICK S : lines \in Seq(S)
  BY <1>2, ListsTogether
<1> QED
  BY <1>6, <1>7, <1>8, ScannedBy DEF lines, Longer

--------------------------------------------------------------------------------
(***************************************************************************)
(* A segment.                                                              *)
(***************************************************************************)

IsKey(key) == key = None \/ (key = Some(key[1]) /\ IsValue("KEY", key[1]))

\* A segment that has been read: its tags, a duration among them, its key and its parts.
GoodSegment(segment) ==
    /\ IsSegment(segment)
    /\ Kind(segment.fields) /\ IsMap(segment.fields) /\ DOMAIN segment.fields \subseteq DOMAIN SegmentTags
    /\ HasDuration(segment)
    /\ IsKey(segment.key)
    /\ Values("PART", segment.parts)

\* What is left of it, with the key in force.
SegmentLeft(segment, key) ==
    [fields |-> FieldsRemain(segment.fields), key |-> key, parts |-> AllRemain("PART", segment.parts)]

\* All that is left of some tags.
LEMMA LeftOfAll ==
    ASSUME NEW function, NEW D, DOMAIN function \subseteq D, "STREAM_INF" \notin DOMAIN function,
           NEW h, DOMAIN h \subseteq DOMAIN function
    PROVE  Over(LeftOf(function, D), h) = FieldsRemain(function)
<1>1. DOMAIN LeftOf(function, D) = DOMAIN function
      /\ \A tag \in DOMAIN function : LeftOf(function, D)[tag] = Remains(tag, function[tag])
  BY DEF LeftOf, Left
<1> QED
  BY <1>1 DEF Over, FieldsRemain

\* The first tags of a segment and the last ones.
FirstTags == << "DISCONTINUITY", "GAP", "PROGRAM_DATE_TIME", "BITRATE" >>
LastTags == << "EXTINF", "BYTERANGE" >>

\* The tags of a segment are those before its parts and those behind.
LEMMA SegmentTagLists ==
    /\ FirstTags \in Seq(DOMAIN SegmentTags) /\ LastTags \in Seq(DOMAIN SegmentTags)
    /\ Len(FirstTags) = 4 /\ Len(LastTags) = 2
    /\ Among(FirstTags, 4) = {"DISCONTINUITY", "GAP", "PROGRAM_DATE_TIME", "BITRATE"}
    /\ Among(LastTags, 2) = {"EXTINF", "BYTERANGE"}
    /\ DOMAIN SegmentTags = Among(FirstTags, 4) \union Among(LastTags, 2)
<1>1. DOMAIN SegmentTags = {"DISCONTINUITY", "GAP", "PROGRAM_DATE_TIME", "BITRATE", "EXTINF", "BYTERANGE"}
  BY DEF SegmentTags
<1>2. FirstTags \in Seq(DOMAIN SegmentTags) /\ LastTags \in Seq(DOMAIN SegmentTags)
      /\ Len(FirstTags) = 4 /\ Len(LastTags) = 2
  BY <1>1 DEF FirstTags, LastTags
<1>3. Among(FirstTags, 4) = {"DISCONTINUITY", "GAP", "PROGRAM_DATE_TIME", "BITRATE"}
  <2>1. 1..4 = {1, 2, 3, 4}
    OBVIOUS
  <2> QED
    BY <2>1 DEF Among, FirstTags
<1>4. Among(LastTags, 2) = {"EXTINF", "BYTERANGE"}
  <2>1. 1..2 = {1, 2}
    OBVIOUS
  <2> QED
    BY <2>1 DEF Among, LastTags
<1> QED
  BY <1>1, <1>2, <1>3, <1>4

\* Its lines, in four sections.
LEMMA SegmentLines ==
    ASSUME NEW segment, GoodSegment(segment)
    PROVE  LET first == marshalTags(segment.fields, FirstTags)
               parts == marshalAll("PART", segment.parts)
               last == marshalTags(segment.fields, LastTags)
               uri == << marshal("URI", Nothing) >>
           IN  /\ marshalSegment(segment) = first \o parts \o last \o uri
               /\ IsList(first) /\ IsList(parts) /\ IsList(last) /\ IsList(uri)
               /\ marshal("URI", Nothing).tag = "URI" /\ Valid(marshal("URI", Nothing))
<1>1. IsList(marshalTags(segment.fields, FirstTags)) /\ IsList(marshalTags(segment.fields, LastTags))
  BY SegmentTagLists, TagsAreText
<1>2. IsList(marshalAll("PART", segment.parts))
  BY PrintedAll, TagTable DEF GoodSegment
<1>3. IsList(<< marshal("URI", Nothing) >>)
  BY DEF IsList
<1>4. IsValue("URI", Nothing)
  BY TagTable DEF IsValue, Nothing, Flag, Tag
<1>5. marshal("URI", Nothing).tag = "URI" /\ Valid(marshal("URI", Nothing))
  BY <1>4, LineReadsBack, NeverVanishes, TagTable
<1> QED
  BY <1>1, <1>2, <1>3, <1>5 DEF marshalSegment, FirstTags, LastTags

\* The lines of a segment are read as it, with the key in force.
LEMMA SegmentScanned ==
    ASSUME NEW segment, GoodSegment(segment), Readable(segment.fields),
           \A i \in 1..Len(segment.parts) : ~Vanishes("PART", segment.parts[i]),
           NEW s, IsState(s), s.curSegment = NewSegment
    PROVE  Scanned(s, marshalSegment(segment))
                = With(s, "segments", Append(s.segments, SegmentLeft(segment, s.curKey)))
<1> DEFINE f == segment.fields
           first == marshalTags(f, FirstTags)
           parts == marshalAll("PART", segment.parts)
           last == marshalTags(f, LastTags)
           uri == << marshal("URI", Nothing) >>
           all == FirstLeft("PART", segment.parts, Len(segment.parts))
           c1 == Tagged(NewSegment, s.curKey, f, Among(FirstTags, 4))
           c2 == WithParts(c1, all)
           c3 == Tagged(c2, s.curKey, f, Among(LastTags, 2))
           State(c) == With(s, "curSegment", c)
<1>1. /\ marshalSegment(segment) = first \o parts \o last \o uri
      /\ IsList(first) /\ IsList(parts) /\ IsList(last) /\ IsList(uri)
      /\ marshal("URI", Nothing).tag = "URI" /\ Valid(marshal("URI", Nothing))
  BY SegmentLines
<1>2. IsSegment(c1) /\ IsSegment(c2) /\ IsSegment(c3)
  BY DEF IsSegment, Tagged, WithParts
<1>3. /\ NewSegment.fields = Nothing /\ IsMap(Nothing) /\ DOMAIN Nothing = {}
      /\ NewSegment.parts = << >> /\ IsList(<< >>)
  BY DEF NewSegment, Nothing, IsMap, IsList
<1>4. Scanned(s, first) = State(c1)
  <2>1. IsMap(s.curSegment.fields) /\ Kind(f)
    BY <1>3 DEF GoodSegment
  <2> QED
    BY <2>1, FieldsScanned, SegmentTagLists
<1>5. /\ c1.parts = << >> /\ IsMap(c1.fields)
      /\ c1.fields = Over(LeftOf(f, Among(FirstTags, 4)), Nothing)
  BY <1>3, OverLeft DEF Tagged
<1>6. Scanned(State(c1), parts) = State(c2)
  <2>1. IsState(State(c1)) /\ State(c1).curSegment = c1
    BY <1>2, WithField DEF Fields
  <2>2. << >> \o all = all
    <3>1. IsList(all)
      BY DEF FirstLeft, IsList, GoodSegment, Values
    <3> HIDE DEF all
    <3>2. PICK S : all \in Seq(S)
      BY <3>1, ListsTogether
    <3> QED
      BY <3>2
  <2>3. Values("PART", segment.parts)
    BY DEF GoodSegment
  <2> HIDE DEF all, c1, c2, State, parts
  <2>4. Scanned(State(c1), marshalAll("PART", segment.parts))
            = With(State(c1), "curSegment", WithParts(c1, << >> \o FirstLeft("PART", segment.parts, Len(segment.parts))))
    <3>1. State(c1).curSegment.parts = << >> /\ IsList(State(c1).curSegment.parts)
      BY <1>3, <1>5, <2>1
    <3>2. \A t : IsState(t) /\ IsList(t.curSegment.parts) =>
            Scanned(t, marshalAll("PART", segment.parts))
                = With(t, "curSegment", WithParts(t.curSegment, t.curSegment.parts
                            \o FirstLeft("PART", segment.parts, Len(segment.parts))))
      BY <2>3, PartsScanned
    <3> QED
      BY ONLY <2>1, <3>1, <3>2
  <2>5. Scanned(State(c1), parts) = With(State(c1), "curSegment", c2)
    BY <2>2, <2>4 DEF all, c2, parts
  <2>6. With(State(c1), "curSegment", c2) = State(c2)
    BY <1>2, WithTwice DEF State, Fields
  <2> QED
    BY <2>5, <2>6
<1>7. Scanned(State(c2), last) = State(c3)
  <2>1. IsState(State(c2)) /\ State(c2).curSegment = c2 /\ State(c2).curKey = s.curKey
    BY <1>2, WithField DEF Fields
  <2>2. IsMap(c2.fields) /\ Kind(f)
    BY <1>5 DEF WithParts, GoodSegment
  <2> HIDE DEF c1, c2, State, f
  <2>3. Scanned(State(c2), last) = With(State(c2), "curSegment", c3)
    BY <2>1, <2>2, FieldsScanned, SegmentTagLists DEF f
  <2> HIDE DEF c3
  <2>4. With(State(c2), "curSegment", c3) = State(c3)
    BY <1>2, WithTwice DEF State, Fields
  <2> QED
    BY <2>3, <2>4
<1>8. c3 = SegmentLeft(segment, s.curKey)
  <2>1. c2.fields = c1.fields /\ c2.parts = all
    BY DEF WithParts
  <2>2. Over(LeftOf(f, Among(LastTags, 2)), Over(LeftOf(f, Among(FirstTags, 4)), Nothing))
            = Over(LeftOf(f, Among(LastTags, 2) \union Among(FirstTags, 4)), Nothing)
    BY <1>3, OverLeft
  <2>3. "STREAM_INF" \notin DOMAIN f /\ DOMAIN f \subseteq Among(LastTags, 2) \union Among(FirstTags, 4)
    BY SegmentTagLists DEF GoodSegment
  <2>4. Over(LeftOf(f, Among(LastTags, 2) \union Among(FirstTags, 4)), Nothing) = FieldsRemain(f)
    BY <1>3, <2>3, LeftOfAll
  <2>5. "EXTINF" \in DOMAIN f \intersect Among(LastTags, 2)
    BY SegmentTagLists DEF GoodSegment, HasDuration, Has
  <2>6. all = AllRemain("PART", segment.parts)
    BY DEF FirstLeft, AllRemain, Left
  <2> HIDE DEF c1, c2, f, all
  <2> QED
    BY <1>5, <2>1, <2>2, <2>4, <2>5, <2>6 DEF Tagged, SegmentLeft, f
<1>9. HasDuration(c3)
  <2>1. "EXTINF" \in DOMAIN f /\ Has(f["EXTINF"], "DURATION")
    BY DEF GoodSegment, HasDuration, Has
  <2>2. DOMAIN Remains("EXTINF", f["EXTINF"]) = DOMAIN f["EXTINF"]
    BY DEF Remains
  <2>3. Has(FieldsRemain(f), "EXTINF") /\ Has(FieldsRemain(f)["EXTINF"], "DURATION")
    BY <2>1, <2>2 DEF FieldsRemain, Has
  <2> HIDE DEF c3, f
  <2> QED
    BY <1>8, <2>3 DEF HasDuration, SegmentLeft, f
<1> DEFINE after == With(s, "segments", Append(s.segments, c3))
<1>10. Scanned(State(c3), uri) = after
  <2>1. IsState(State(c3)) /\ State(c3).curSegment = c3
        /\ \A field \in Fields : field # "curSegment" => State(c3)[field] = s[field]
    BY <1>2, WithField DEF Fields
  <2>2. Scanned(State(c3), uri) = ReadURI(State(c3))
    <3> HIDE DEF c3, State
    <3>1. Scanned(State(c3), << marshal("URI", Nothing) >>) = ReadLine(State(c3), marshal("URI", Nothing))
      BY ScannedFew, Zenon
    <3> QED
      BY <1>1, <3>1, ReadLineIs
  <2> HIDE DEF c3, State
  <2> DEFINE more == Append(s.segments, c3)
             next == With(State(c3), "segments", more)
  <2>3. ReadURI(State(c3)) = With(next, "curSegment", NewSegment)
    BY <1>9, <2>1, Reads DEF With, Fields
  <2> HIDE DEF more
  <2>4. IsState(next) /\ IsState(after) /\ IsSegment(NewSegment)
    BY <2>1, WithField DEF Fields, more, IsSegment, NewSegment
  <2>5. IsState(With(next, "curSegment", NewSegment))
    BY <2>4, WithField DEF Fields
  <2>6. ASSUME NEW field \in Fields PROVE With(next, "curSegment", NewSegment)[field] = after[field]
    <3>1. CASE field = "curSegment"
      BY <2>4, <3>1, WithField DEF Fields
    <3>2. CASE field = "segments"
      BY <2>1, <2>4, <3>2, WithField DEF Fields, more
    <3>3. CASE field \notin {"curSegment", "segments"}
      <4>1. With(next, "curSegment", NewSegment)[field] = next[field]
        BY <2>4, <3>3, WithField DEF Fields
      <4>2. next[field] = State(c3)[field]
        BY <2>1, <3>3, WithField DEF Fields
      <4>3. after[field] = s[field]
        BY <3>3, WithField DEF Fields
      <4> QED
        BY <2>1, <3>3, <4>1, <4>2, <4>3
    <3> QED
      BY <3>1, <3>2, <3>3
  <2> HIDE DEF next, after
  <2> QED
    BY <2>2, <2>3, <2>4, <2>5, <2>6, SameState
<1> HIDE DEF first, parts, last, uri, State, c1, c2, c3, after
<1>11. Scanned(s, first \o parts \o last \o uri) = after
  <2>1. IsList(first \o parts) /\ Scanned(s, first \o parts) = State(c2)
    BY <1>1, <1>4, <1>6, TextRead
  <2>2. IsList(first \o parts \o last) /\ Scanned(s, first \o parts \o last) = State(c3)
    BY <1>1, <1>7, <2>1, TextRead
  <2> QED
    BY <1>1, <1>10, <2>2, TextRead
<1> QED
  BY <1>1, <1>8, <1>11 DEF after

\* A duration that vanishes leaves a segment without one, and its URI refuses the text.
LEMMA ShortSegmentRefuses ==
    ASSUME NEW segment, GoodSegment(segment), Vanishes("EXTINF", segment.fields["EXTINF"])
    PROVE  Refuses(marshalTags(segment.fields, LastTags) \o << marshal("URI", Nothing) >>)
<1> DEFINE f == segment.fields
           last == marshalTags(f, LastTags)
           line == marshal("EXTINF", f["EXTINF"])
           range == marshal("BYTERANGE", f["BYTERANGE"])
           uri == marshal("URI", Nothing)
           block(i) == IF Has(f, LastTags[i]) THEN << marshal(LastTags[i], f[LastTags[i]]) >> ELSE << >>
           b == [i \in 1..2 |-> block(i)]
<1>1. /\ line.tag = "EXTINF" /\ Valid(line) /\ ~Has(unmarshal(line), "DURATION")
      /\ Has(f, "EXTINF")
  BY LineReadsBack, TagTable DEF GoodSegment, Kind, HasDuration, Has
<1>2. Has(f, "BYTERANGE") => range.tag = "BYTERANGE" /\ Valid(range)
  BY LineReadsBack, NeverVanishes DEF GoodSegment, Kind, Has
<1>3. /\ IsList(last) /\ IsList(<< uri >>) /\ uri.tag = "URI" /\ Valid(uri)
  BY SegmentLines
<1>4. last = FlattenSeq(b) /\ \A i \in 1..2 : IsList(block(i))
  BY TagsAreText, SegmentTagLists
<1>5. /\ b = [i \in 1..2 |-> b[i]] /\ \A i \in 1..2 : b[i] = block(i)
      /\ b[1] = << line >> /\ b[2] = IF Has(f, "BYTERANGE") THEN << range >> ELSE << >>
  BY <1>1 DEF LastTags
<1> HIDE DEF last, line, range, uri, block, b, f
<1> SUFFICES ASSUME NEW s, IsState(s) PROVE Scanned(s, last \o << uri >>).refused
  BY DEF Refuses, last, uri, f
<1> DEFINE s1 == ReadLine(s, line)
           s2 == IF Has(f, "BYTERANGE") THEN ReadLine(s1, range) ELSE s1
           Short(t) == "EXTINF" \in DOMAIN t.curSegment.fields /\ ~Has(t.curSegment.fields["EXTINF"], "DURATION")
<1>6. IsState(s1) /\ Short(s1)
  <2> DEFINE fields == Over([t \in {"EXTINF"} |-> unmarshal(line)], s.curSegment.fields)
             c == [fields |-> fields, key |-> s.curKey, parts |-> s.curSegment.parts]
  <2>1. s1 = With(s, "curSegment", c)
    BY <1>1, FieldRead DEF SegmentTags
  <2>2. "EXTINF" \in DOMAIN fields /\ fields["EXTINF"] = unmarshal(line)
    BY DEF Over
  <2>3. IsSegment(c) /\ c.fields = fields
    BY DEF IsSegment
  <2> HIDE DEF fields, c
  <2>4. IsState(With(s, "curSegment", c)) /\ With(s, "curSegment", c).curSegment = c
    BY <2>3, WithField DEF Fields
  <2> QED
    BY <1>1, <2>1, <2>2, <2>3, <2>4
<1> HIDE DEF s1
<1>7. IsState(s2) /\ Short(s2)
  <2>1. CASE ~Has(f, "BYTERANGE")
    BY <1>6, <2>1
  <2>2. CASE Has(f, "BYTERANGE")
    <3> DEFINE fields == Over([t \in {"BYTERANGE"} |-> unmarshal(range)], s1.curSegment.fields)
               c == [fields |-> fields, key |-> s1.curSegment.key, parts |-> s1.curSegment.parts]
    <3>1. ReadLine(s1, range) = With(s1, "curSegment", c)
      BY <1>2, <1>6, <2>2, FieldRead DEF SegmentTags
    <3>2. "EXTINF" \in DOMAIN fields /\ fields["EXTINF"] = s1.curSegment.fields["EXTINF"]
      BY <1>6 DEF Over
    <3>3. IsSegment(c) /\ c.fields = fields
      BY DEF IsSegment
    <3> HIDE DEF fields, c
    <3>4. IsState(With(s1, "curSegment", c)) /\ With(s1, "curSegment", c).curSegment = c
      BY <1>6, <3>3, WithField DEF Fields
    <3> QED
      BY <1>6, <2>2, <3>1, <3>2, <3>3, <3>4
  <2> QED
    BY <2>1, <2>2
<1> HIDE DEF s2
<1>8. Scanned(s, last) = s2
  <2> DEFINE g == [k \in 0..2 |-> IF k = 0 THEN s ELSE IF k = 1 THEN s1 ELSE s2]
  <2>1. g[0] = s /\ g[1] = s1 /\ g[2] = s2
    OBVIOUS
  <2>2. Scanned(s, << line >>) = s1
    BY ScannedFew, Zenon DEF s1
  <2>3. Scanned(s1, b[2]) = s2
    <3>1. Scanned(s1, << range >>) = ReadLine(s1, range) /\ Scanned(s1, << >>) = s1
      BY ScannedFew, Zenon
    <3> QED
      BY <1>5, <3>1 DEF s2
  <2> HIDE DEF g
  <2>4. \A k \in 1..2 : Scanned(g[k - 1], b[k]) = g[k]
    <3>1. Scanned(g[0], b[1]) = g[1] /\ Scanned(g[1], b[2]) = g[2]
      BY <1>5, <2>1, <2>2, <2>3
    <3>2. \A k \in 1..2 : (k = 1 /\ k - 1 = 0) \/ (k = 2 /\ k - 1 = 1)
      OBVIOUS
    <3> QED
      BY <3>1, <3>2
  <2>5. \A i \in 1..2 : IsList(b[i])
    BY <1>4, <1>5
  <2>6. Scanned(g[0], FlattenSeq(b)) = g[2]
    BY <1>5, <2>4, <2>5, BlocksRead
  <2> QED
    BY <1>4, <2>1, <2>6
<1>9. Scanned(s2, << uri >>).refused
  <2>1. Scanned(s2, << uri >>) = ReadLine(s2, uri)
    BY ScannedFew, Zenon
  <2>2. ReadLine(s2, uri) = ReadURI(s2)
    BY <1>3, ReadLineIs
  <2>3. ReadURI(s2) = Refuse(s2)
    BY <1>7 DEF ReadURI, HasDuration
  <2>4. Refuse(s2).refused
    BY DEF Refuse, NewScan
  <2> QED
    BY <2>1, <2>2, <2>3, <2>4
<1> QED
  BY <1>3, <1>8, <1>9, TextRead

\* A segment is refused when one of its tags or parts vanishes.
LEMMA SegmentRefuses ==
    ASSUME NEW segment, GoodSegment(segment),
           ~Readable(segment.fields) \/ \E i \in 1..Len(segment.parts) : Vanishes("PART", segment.parts[i])
    PROVE  Refuses(marshalSegment(segment))
<1> DEFINE f == segment.fields
           first == marshalTags(f, FirstTags)
           parts == marshalAll("PART", segment.parts)
           last == marshalTags(f, LastTags)
           uri == << marshal("URI", Nothing) >>
<1>1. /\ marshalSegment(segment) = first \o parts \o last \o uri
      /\ IsList(first) /\ IsList(parts) /\ IsList(last) /\ IsList(uri)
  BY SegmentLines
<1>2. IsList(first \o parts) /\ IsList(first \o parts \o last)
  <2> HIDE DEF first, parts, last, uri
  <2>1. IsList(first \o parts)
    BY <1>1, TextRead
  <2> QED
    BY <1>1, <2>1, TextRead
<1>3. Refuses(first) \/ Refuses(parts) \/ Refuses(last) => Refuses(marshalSegment(segment))
  <2> HIDE DEF first, parts, last, uri
  <2>1. Refuses(first) \/ Refuses(parts) => Refuses(first \o parts)
    BY <1>1, TextRead
  <2>2. Refuses(first \o parts) \/ Refuses(last) => Refuses(first \o parts \o last)
    BY <1>1, <1>2, TextRead
  <2>3. Refuses(first \o parts \o last) => Refuses(first \o parts \o last \o uri)
    BY <1>1, <1>2, TextRead
  <2> QED
    BY <1>1, <2>1, <2>2, <2>3
<1>4. CASE \E i \in 1..Len(segment.parts) : Vanishes("PART", segment.parts[i])
  <2>1. Refuses(parts)
    BY <1>4, PrintedAll, TagTable DEF GoodSegment
  <2> QED
    BY <1>3, <2>1
<1>5. ASSUME NEW tag \in DOMAIN f, Vanishes(tag, f[tag]) PROVE Refuses(marshalSegment(segment))
  <2>1. Kind(f) /\ DOMAIN f \subseteq DOMAIN SegmentTags
    BY DEF GoodSegment
  <2>2. CASE tag = "EXTINF"
    <3>1. Refuses(last \o uri)
      BY <1>5, <2>2, ShortSegmentRefuses
    <3> HIDE DEF first, parts, last, uri
    <3>2. \A s : Scanned(s, first \o parts \o last \o uri) = Scanned(Scanned(s, first \o parts), last \o uri)
      <4>1. \A s : Scanned(s, first \o parts \o last \o uri) = Scanned(Scanned(s, first \o parts \o last), uri)
        BY <1>1, <1>2, TextRead
      <4>2. \A s : Scanned(s, first \o parts \o last) = Scanned(Scanned(s, first \o parts), last)
        BY <1>1, <1>2, TextRead
      <4>3. \A t : Scanned(t, last \o uri) = Scanned(Scanned(t, last), uri)
        BY <1>1, TextRead
      <4> QED
        BY <4>1, <4>2, <4>3
    <3>3. \A s : IsState(s) => IsState(Scanned(s, first \o parts))
      BY <1>2, TextRead
    <3> QED
      BY <1>1, <3>1, <3>2, <3>3 DEF Refuses
  <2>3. CASE tag \in Among(FirstTags, 4)
    <3>1. PICK i \in 1..4 : FirstTags[i] = tag
      BY <2>3 DEF Among
    <3>2. tag # "EXTINF" /\ Len(FirstTags) = 4 /\ FirstTags \in Seq(DOMAIN SegmentTags)
      BY <2>3, SegmentTagLists
    <3>3. Refuses(first)
      BY <1>5, <2>1, <3>1, <3>2, TagsRefuse
    <3> QED
      BY <1>3, <3>3
  <2>4. CASE tag = "BYTERANGE"
    BY <1>5, <2>4, NeverVanishes
  <2> QED
    BY <2>1, <2>2, <2>3, <2>4, SegmentTagLists
<1> QED
  BY <1>4, <1>5 DEF Readable

--------------------------------------------------------------------------------
(***************************************************************************)
(* Keys: one is printed where it differs from the one printed before, and  *)
(* stays in force.                                                         *)
(***************************************************************************)

Keyed(segments, i) == {j \in 1..i : segments[j].key # None}

\* The last segment that has a key.
LEMMA LastKeyed ==
    ASSUME NEW segments, NEW i \in Nat
    PROVE  /\ Keyed(segments, i) # {} =>
                /\ Max(Keyed(segments, i)) \in 1..i
                /\ segments[Max(Keyed(segments, i))].key # None
                /\ KeyInForce(segments, i) = AllRemain("KEY", segments[Max(Keyed(segments, i))].key)
           /\ Keyed(segments, i) = {} => KeyInForce(segments, i) = None
           /\ prevKey(segments, i + 1)
                = IF Keyed(segments, i) = {} THEN None ELSE segments[Max(Keyed(segments, i))].key
<1>1. Keyed(segments, i) # {} => Max(Keyed(segments, i)) \in Keyed(segments, i)
  <2>1. Keyed(segments, i) \in SUBSET (1..i)
    BY DEF Keyed
  <2> HIDE DEF Keyed
  <2> QED
    BY <2>1, MaxOfPlaces
<1>2. (i + 1) - 1 = i
  OBVIOUS
<1> QED
  BY <1>1, <1>2 DEF Keyed, KeyInForce, prevKey

\* A key is printed as one line.
LEMMA KeyPrinted ==
    ASSUME NEW key, IsKey(key), key # None
    PROVE  /\ marshalAll("KEY", key) = << marshal("KEY", key[1]) >>
           /\ IsList(marshalAll("KEY", key))
           /\ IsValue("KEY", key[1])
           /\ AllRemain("KEY", key) = Some(Remains("KEY", key[1]))
<1>1. key = << key[1] >> /\ IsValue("KEY", key[1])
  BY DEF IsKey, Some
<1> DEFINE value == key[1]
<1> HIDE DEF value
<1>2. marshalAll("KEY", << value >>) = << marshal("KEY", value) >> /\ IsList(<< marshal("KEY", value) >>)
  BY DEF marshalAll, IsList
<1>3. AllRemain("KEY", << value >>) = Some(Remains("KEY", value))
  BY DEF AllRemain, Some
<1>4. key = << value >>
  BY <1>1 DEF value
<1> QED
  BY <1>1, <1>2, <1>3, <1>4 DEF value

\* What is printed before a segment gives the key that is in force there.
LEMMA KeyScanned ==
    ASSUME NEW segments, NEW i \in Nat, i # 0, IsKey(segments[i].key),
           segments[i].key # None => ~Vanishes("KEY", segments[i].key[1]),
           NEW s, IsState(s), s.curKey = KeyInForce(segments, i - 1)
    PROVE  Scanned(s, keyLines(segments, i)) = With(s, "curKey", KeyInForce(segments, i))
<1> DEFINE key == segments[i].key
           was == Keyed(segments, i - 1)
           now == Keyed(segments, i)
<1>1. now = IF key = None THEN was ELSE was \union {i}
  BY DEF Keyed
<1>2. i - 1 \in Nat /\ (i - 1) + 1 = i
  OBVIOUS
<1>3. CASE key = None
  <2>1. keyLines(segments, i) = << >>
    BY <1>3 DEF keyLines
  <2>2. KeyInForce(segments, i) = KeyInForce(segments, i - 1)
    BY <1>1, <1>3 DEF KeyInForce, Keyed
  <2>3. With(s, "curKey", s.curKey) = s
    BY WithTwice DEF Fields
  <2>4. Scanned(s, << >>) = s
    BY ScannedFew
  <2> QED
    BY <2>1, <2>2, <2>3, <2>4
<1>4. ASSUME key # None PROVE KeyInForce(segments, i) = AllRemain("KEY", key)
  <2>1. now \in SUBSET (1..i) /\ i \in now
    BY <1>1, <1>4 DEF Keyed
  <2> HIDE DEF now
  <2>2. Max(now) \in 1..i /\ i <= Max(now)
    BY <2>1, MaxOfPlaces
  <2>3. Max(now) = i
    BY <2>2
  <2> QED
    BY <2>1, <2>3, LastKeyed DEF now
<1>5. CASE key # None /\ key = prevKey(segments, i)
  <2>1. keyLines(segments, i) = << >>
    BY <1>5 DEF keyLines
  <2>2. was # {} /\ segments[Max(was)].key = key
    <3>1. prevKey(segments, (i - 1) + 1) = IF was = {} THEN None ELSE segments[Max(was)].key
      BY <1>2, LastKeyed
    <3> HIDE DEF was
    <3> QED
      BY <1>2, <1>5, <3>1
  <2>3. KeyInForce(segments, i - 1) = AllRemain("KEY", key)
    BY <1>2, <2>2, LastKeyed
  <2>4. With(s, "curKey", s.curKey) = s
    BY WithTwice DEF Fields
  <2>5. Scanned(s, << >>) = s
    BY ScannedFew
  <2> QED
    BY <1>4, <1>5, <2>1, <2>3, <2>4, <2>5
<1>6. CASE key # None /\ key # prevKey(segments, i)
  <2> DEFINE line == marshal("KEY", key[1])
  <2>1. keyLines(segments, i) = << line >> /\ AllRemain("KEY", key) = Some(Remains("KEY", key[1]))
    BY <1>6, KeyPrinted DEF keyLines
  <2>2. line.tag = "KEY" /\ Valid(line) /\ unmarshal(line) = Remains("KEY", key[1])
    BY <1>6, KeyPrinted, LineReadsBack, TagTable DEF Left
  <2> HIDE DEF line, key
  <2>3. Scanned(s, << line >>) = ReadLine(s, line)
    BY ScannedFew, Zenon
  <2>4. ReadLine(s, line) = AddKey(s, line)
    BY <2>2, ReadLineIs
  <2>5. AddKey(s, line) = With(s, "curKey", Some(Remains("KEY", key[1])))
    BY <2>2 DEF AddKey, With
  <2> QED
    BY <1>4, <1>6, <2>1, <2>3, <2>4, <2>5
<1> QED
  BY <1>3, <1>5, <1>6

\* A key that vanishes refuses the text: the first one that does is printed.
LEMMA KeyRefuses ==
    ASSUME NEW segments, NEW n \in Nat, \A i \in 1..n : IsKey(segments[i].key),
           \E i \in 1..n : segments[i].key # None /\ Vanishes("KEY", segments[i].key[1])
    PROVE  \E i \in 1..n : Refuses(keyLines(segments, i))
<1> DEFINE bad == {i \in 1..n : segments[i].key # None /\ Vanishes("KEY", segments[i].key[1])}
           i == Min(bad)
           key == segments[i].key
<1>1. i \in bad /\ \A j \in bad : i <= j
  <2>1. bad \in SUBSET Nat /\ bad # {}
    OBVIOUS
  <2> HIDE DEF bad
  <2> QED
    BY <2>1, MinOfNaturals
<1>2. i \in 1..n /\ IsKey(key) /\ key # None /\ Vanishes("KEY", key[1])
  BY <1>1
<1>3. key # prevKey(segments, i)
  <2> SUFFICES ASSUME key = prevKey(segments, i) PROVE FALSE
    OBVIOUS
  <2> DEFINE was == Keyed(segments, i - 1)
  <2>1. i - 1 \in Nat /\ (i - 1) + 1 = i
    BY <1>2
  <2>2. /\ prevKey(segments, (i - 1) + 1) = IF was = {} THEN None ELSE segments[Max(was)].key
        /\ was # {} => Max(was) \in 1..i - 1
    BY <2>1, LastKeyed
  <2> HIDE DEF was, i
  <2>3. Max(was) \in 1..i - 1 /\ segments[Max(was)].key = key
    BY <1>2, <2>1, <2>2
  <2>4. Max(was) \in bad
    BY <1>2, <2>3
  <2> QED
    BY <1>1, <1>2, <2>3, <2>4
<1>4. keyLines(segments, i) = << marshal("KEY", key[1]) >>
  BY <1>2, <1>3, KeyPrinted DEF keyLines
<1>5. ~Valid(marshal("KEY", key[1]))
  BY <1>2, KeyPrinted, LineReadsBack, TagTable
<1> DEFINE line == marshal("KEY", key[1])
           one == << line >>
<1>6. IsList(one) /\ 1 \in 1..Len(one) /\ one[1] = line
  BY DEF IsList
<1>7. Refuses(one)
  <2> HIDE DEF one
  <2> QED
    BY <1>5, <1>6, TextRead
<1> QED
  BY <1>2, <1>4, <1>7

--------------------------------------------------------------------------------
(***************************************************************************)
(* All segments of a playlist.                                             *)
(***************************************************************************)

GoodSegments(segments) == IsList(segments) /\ \A i \in 1..Len(segments) : GoodSegment(segments[i])

SegmentsLines(segments) ==
    FlattenSeq([i \in 1..Len(segments) |-> keyLines(segments, i) \o marshalSegment(segments[i])])

\* The first of them as they are read.
SegmentsLeft(segments, k) == [i \in 1..k |-> SegmentLeft(segments[i], KeyInForce(segments, i))]

\* The segments are printed as blocks of lines.
LEMMA SegmentBlocks ==
    ASSUME NEW segments, GoodSegments(segments), NEW i \in 1..Len(segments)
    PROVE  /\ IsList(keyLines(segments, i)) /\ IsList(marshalSegment(segments[i]))
           /\ IsList(keyLines(segments, i) \o marshalSegment(segments[i]))
<1>1. IsKey(segments[i].key) /\ GoodSegment(segments[i])
  BY DEF GoodSegments, GoodSegment
<1>2. IsList(keyLines(segments, i))
  <2>1. CASE segments[i].key # None /\ segments[i].key # prevKey(segments, i)
    BY <1>1, <2>1, KeyPrinted DEF keyLines
  <2>2. CASE ~(segments[i].key # None /\ segments[i].key # prevKey(segments, i))
    BY <2>2 DEF keyLines, IsList
  <2> QED
    BY <2>1, <2>2
<1>3. IsList(marshalSegment(segments[i]))
  <2> DEFINE f == segments[i].fields
             first == marshalTags(f, FirstTags)
             parts == marshalAll("PART", segments[i].parts)
             last == marshalTags(f, LastTags)
             uri == << marshal("URI", Nothing) >>
  <2>1. /\ marshalSegment(segments[i]) = first \o parts \o last \o uri
        /\ IsList(first) /\ IsList(parts) /\ IsList(last) /\ IsList(uri)
    BY <1>1, SegmentLines
  <2> HIDE DEF first, parts, last, uri
  <2>2. IsList(first \o parts)
    BY <2>1, TextRead
  <2>3. IsList(first \o parts \o last)
    BY <2>1, <2>2, TextRead
  <2> QED
    BY <2>1, <2>3, TextRead
<1> QED
  BY <1>2, <1>3, TextRead

\* What makes a segment unreadable, place by place.
LEMMA UnreadableParts ==
    ASSUME NEW segment, GoodSegment(segment)
    PROVE  SegmentUnreadable(segment) <=>
                \/ ~Readable(segment.fields)
                \/ \E i \in 1..Len(segment.parts) : Vanishes("PART", segment.parts[i])
                \/ segment.key # None /\ Vanishes("KEY", segment.key[1])
<1>1. Range(segment.parts) = {segment.parts[i] : i \in 1..Len(segment.parts)}
  BY DEF Range, GoodSegment, Values, IsList
<1> QED
  BY <1>1 DEF SegmentUnreadable, Readable

\* All segments are read again, each with the key that is in force at it.
LEMMA SegmentsScanned ==
    ASSUME NEW segments, GoodSegments(segments), \A i \in 1..Len(segments) : ~SegmentUnreadable(segments[i]),
           NEW s, IsState(s), s.segments = << >>, s.curSegment = NewSegment, s.curKey = None
    PROVE  Scanned(s, SegmentsLines(segments))
                = With(With(s, "segments", SegmentsLeft(segments, Len(segments))),
                       "curKey", KeyInForce(segments, Len(segments)))
<1> DEFINE n == Len(segments)
           left(k) == SegmentsLeft(segments, k)
           key(k) == KeyInForce(segments, k)
           State(k) == With(With(s, "segments", left(k)), "curKey", key(k))
           g == [k \in 0..n |-> State(k)]
           block(i) == keyLines(segments, i) \o marshalSegment(segments[i])
           b == [i \in 1..n |-> block(i)]
<1>1. n \in Nat
  BY DEF GoodSegments, IsList
<1>2. /\ b = [i \in 1..n |-> b[i]] /\ \A i \in 1..n : b[i] = block(i)
      /\ \A k \in 0..n : g[k] = State(k)
  OBVIOUS
<1>3. \A i \in 1..n : IsList(keyLines(segments, i)) /\ IsList(marshalSegment(segments[i])) /\ IsList(block(i))
  BY SegmentBlocks
<1>4. \A k : /\ IsState(State(k)) /\ State(k).segments = left(k) /\ State(k).curKey = key(k)
             /\ \A field \in Fields : field \notin {"segments", "curKey"} => State(k)[field] = s[field]
  <2> TAKE k
  <2> DEFINE l == left(k)
             c == key(k)
             mid == With(s, "segments", l)
  <2> HIDE DEF left, key, l, c
  <2>1. /\ IsState(mid) /\ mid.segments = l
        /\ \A field \in Fields : field # "segments" => mid[field] = s[field]
    BY WithField DEF Fields
  <2> HIDE DEF mid
  <2>2. /\ IsState(With(mid, "curKey", c)) /\ With(mid, "curKey", c).curKey = c
        /\ \A field \in Fields : field # "curKey" => With(mid, "curKey", c)[field] = mid[field]
    BY <2>1, WithField DEF Fields
  <2>3. State(k) = With(mid, "curKey", c)
    BY DEF mid, l, c
  <2> HIDE DEF State
  <2>4. State(k).segments = mid.segments
    BY <2>2, <2>3 DEF Fields
  <2> QED
    BY <2>1, <2>2, <2>3, <2>4 DEF l, c
<1>5. g[0] = s
  <2>1. left(0) = << >> /\ key(0) = None
    BY DEF SegmentsLeft, KeyInForce
  <2>2. g[0] = State(0)
    BY <1>1, <1>2
  <2> HIDE DEF State, g, left, key
  <2>3. \A field \in Fields : State(0)[field] = s[field]
    BY <1>4, <2>1 DEF Fields
  <2> QED
    BY <1>4, <2>2, <2>3, SameState
<1>6. ASSUME NEW k \in 1..n PROVE Scanned(g[k - 1], b[k]) = g[k]
  <2> DEFINE before == State(k - 1)
             mid == With(before, "curKey", key(k))
             segment == segments[k]
             more == Append(left(k - 1), SegmentLeft(segment, key(k)))
             after == With(mid, "segments", more)
  <2>1. k \in Nat /\ k # 0 /\ k - 1 \in 0..n /\ k \in 0..n
    BY <1>1
  <2>2. /\ GoodSegment(segment) /\ IsKey(segment.key)
        /\ segment.key # None => ~Vanishes("KEY", segment.key[1])
        /\ Readable(segment.fields) /\ \A i \in 1..Len(segment.parts) : ~Vanishes("PART", segment.parts[i])
    BY UnreadableParts DEF GoodSegments, GoodSegment
  <2>3. left(k) = more
    <3>1. left(k - 1) = [i \in 1..k - 1 |-> SegmentLeft(segments[i], KeyInForce(segments, i))]
      BY DEF SegmentsLeft
    <3>2. left(k) = [i \in 1..k |-> SegmentLeft(segments[i], KeyInForce(segments, i))]
      BY DEF SegmentsLeft
    <3> DEFINE one(i) == SegmentLeft(segments[i], KeyInForce(segments, i))
               S == {one(i) : i \in 1..k}
    <3>3. left(k - 1) = [i \in 1..k - 1 |-> one(i)] /\ left(k) = [i \in 1..k |-> one(i)]
      BY <3>1, <3>2
    <3>4. \A i \in 1..k : one(i) \in S
      OBVIOUS
    <3> HIDE DEF one, S, left
    <3>5. left(k - 1) \in Seq(S) /\ Len(left(k - 1)) = k - 1 /\ left(k) \in Seq(S) /\ Len(left(k)) = k /\ one(k) \in S
      BY <2>1, <3>3, <3>4
    <3>6. left(k) = Append(left(k - 1), one(k))
      BY <2>1, <3>3, <3>5
    <3> QED
      BY <3>6 DEF one
  <2>4. Scanned(before, keyLines(segments, k)) = mid
    <3> HIDE DEF State
    <3>1. IsState(before) /\ before.curKey = KeyInForce(segments, k - 1)
      BY <1>4
    <3> QED
      BY <2>1, <2>2, <3>1, KeyScanned
  <2>5. /\ IsState(mid) /\ mid.curSegment = NewSegment /\ mid.curKey = key(k) /\ mid.segments = left(k - 1)
        /\ \A field \in Fields : field \notin {"curKey", "segments"} => mid[field] = s[field]
    <3> HIDE DEF State, left, key
    <3>1. IsState(mid) /\ mid.curKey = key(k) /\ \A field \in Fields : field # "curKey" => mid[field] = before[field]
      BY <1>4, WithField DEF Fields
    <3> HIDE DEF mid
    <3> QED
      BY <1>4, <3>1 DEF Fields
  <2>6. Scanned(mid, marshalSegment(segment)) = after
    <3> HIDE DEF State, left, key, mid, segment
    <3> QED
      BY <2>2, <2>5, SegmentScanned
  <2>7. after = State(k)
    <3> HIDE DEF State, left, key, mid, segment, more
    <3>1. /\ IsState(after) /\ after.segments = more
          /\ \A field \in Fields : field # "segments" => after[field] = mid[field]
      BY <2>5, WithField DEF Fields
    <3> HIDE DEF after
    <3>2. \A field \in Fields : after[field] = State(k)[field]
      BY <1>4, <2>3, <2>5, <3>1 DEF Fields
    <3> QED
      BY <1>4, <3>1, <3>2, SameState
  <2>8. Scanned(before, block(k)) = Scanned(mid, marshalSegment(segment))
    <3> HIDE DEF State, mid
    <3> QED
      BY <1>3, <2>4, TextRead DEF segment
  <2>9. g[k - 1] = before /\ g[k] = State(k) /\ b[k] = block(k)
    BY <1>2, <2>1
  <2> HIDE DEF State, mid, after, before, block, g, b, segment
  <2> QED
    BY <2>6, <2>7, <2>8, <2>9
<1>7. n \in 0..n /\ g[n] = State(n)
  BY <1>1, <1>2
<1> HIDE DEF State, block, g, b, n
<1>8. \A i \in 1..n : IsList(b[i])
  BY <1>2, <1>3
<1>9. Scanned(g[0], FlattenSeq(b)) = g[n]
  BY <1>1, <1>2, <1>6, <1>8, BlocksRead
<1> QED
  BY <1>5, <1>7, <1>9 DEF State, SegmentsLines, b, block, n

\* A list with an unreadable segment is refused.
LEMMA SegmentsRefuse ==
    ASSUME NEW segments, GoodSegments(segments)
    PROVE  /\ IsList(SegmentsLines(segments))
           /\ (\E i \in 1..Len(segments) : SegmentUnreadable(segments[i])) => Refuses(SegmentsLines(segments))
<1> DEFINE n == Len(segments)
           block(i) == keyLines(segments, i) \o marshalSegment(segments[i])
           b == [i \in 1..n |-> block(i)]
<1>1. n \in Nat
  BY DEF GoodSegments, IsList
<1>2. b = [i \in 1..n |-> b[i]] /\ \A i \in 1..n : b[i] = block(i)
  OBVIOUS
<1>3. \A i \in 1..n : IsList(keyLines(segments, i)) /\ IsList(marshalSegment(segments[i])) /\ IsList(block(i))
  BY SegmentBlocks
<1>4. IsList(FlattenSeq(b)) /\ \A i \in 1..n : Refuses(b[i]) => Refuses(FlattenSeq(b))
  <2> HIDE DEF b, block, n
  <2> QED
    BY <1>1, <1>2, <1>3, BlocksRead
<1>5. ASSUME NEW i \in 1..n, SegmentUnreadable(segments[i]) PROVE \E j \in 1..n : Refuses(b[j])
  <2>1. GoodSegment(segments[i]) /\ \A j \in 1..n : IsKey(segments[j].key)
    BY DEF GoodSegments, GoodSegment
  <2>2. \A j \in 1..n : Refuses(keyLines(segments, j)) \/ Refuses(marshalSegment(segments[j])) => Refuses(b[j])
    <3> TAKE j \in 1..n
    <3> DEFINE key == keyLines(segments, j)
               lines == marshalSegment(segments[j])
    <3>1. b[j] = key \o lines /\ IsList(key) /\ IsList(lines)
      BY <1>3
    <3> HIDE DEF b, key, lines
    <3>2. Refuses(key) \/ Refuses(lines) => Refuses(b[j])
      BY <3>1, TextRead
    <3> QED
      BY <3>2 DEF key, lines
  <2>3. CASE segments[i].key # None /\ Vanishes("KEY", segments[i].key[1])
    <3>1. \E j \in 1..n : Refuses(keyLines(segments, j))
      BY <1>1, <2>1, <2>3, KeyRefuses
    <3> QED
      BY <2>2, <3>1
  <2>4. CASE ~(segments[i].key # None /\ Vanishes("KEY", segments[i].key[1]))
    <3>1. \/ ~Readable(segments[i].fields)
          \/ \E j \in 1..Len(segments[i].parts) : Vanishes("PART", segments[i].parts[j])
      BY <1>5, <2>1, <2>4, UnreadableParts
    <3> QED
      BY <2>1, <2>2, <3>1, SegmentRefuses
  <2> QED
    BY <2>3, <2>4
<1> QED
  BY <1>4, <1>5 DEF SegmentsLines

--------------------------------------------------------------------------------
(***************************************************************************)
(* A playlist that has been read, or written by the muxer.                 *)
(***************************************************************************)

IsHeader(kind, header) ==
    /\ IsMap(header) /\ Kind(header)
    /\ DOMAIN EmptyHeader(kind) \subseteq DOMAIN header
    /\ DOMAIN header \subseteq IF kind = "media" THEN DOMAIN MediaHeader ELSE DOMAIN MultivariantHeader

IsPlaylist(p) ==
    p = [kind |-> p.kind, header |-> p.header, segments |-> p.segments, parts |-> p.parts,
         reports |-> p.reports, variants |-> p.variants, renditions |-> p.renditions]

GoodPlaylist(p) ==
    /\ IsPlaylist(p) /\ p.kind \in {"media", "multivariant"} /\ IsHeader(p.kind, p.header)
    /\ GoodSegments(p.segments) /\ Values("PART", p.parts) /\ Values("RENDITION_REPORT", p.reports)
    /\ Values("STREAM_INF", p.variants) /\ Values("MEDIA", p.renditions)
    /\ p.kind = "media" =>
        /\ p.variants = << >> /\ p.renditions = << >>
        /\ p.segments # << >> /\ Has(p.header["TARGETDURATION"], "VALUE")
    /\ p.kind = "multivariant" =>
        /\ p.segments = << >> /\ p.parts = << >> /\ p.reports = << >>
        /\ p.variants # << >>

\* What is left of it when it is printed and read again.
PlaylistLeft(p) ==
    [kind |-> p.kind, header |-> FieldsRemain(p.header),
     segments |-> SegmentsLeft(p.segments, Len(p.segments)), parts |-> AllRemain("PART", p.parts),
     reports |-> AllRemain("RENDITION_REPORT", p.reports),
     variants |-> FirstLeft("STREAM_INF", p.variants, Len(p.variants)),
     renditions |-> AllRemain("MEDIA", p.renditions)]

\* What makes it unreadable, place by place.
LEMMA UnreadablePlaces ==
    ASSUME NEW p, GoodPlaylist(p)
    PROVE  Unreadable(p) <=>
                \/ ~Readable(p.header)
                \/ \E i \in 1..Len(p.segments) : SegmentUnreadable(p.segments[i])
                \/ \E i \in 1..Len(p.parts) : Vanishes("PART", p.parts[i])
<1>1. Range(p.segments) = {p.segments[i] : i \in 1..Len(p.segments)}
  BY DEF Range, GoodPlaylist, GoodSegments, IsList
<1>2. Range(p.parts) = {p.parts[i] : i \in 1..Len(p.parts)}
  BY DEF Range, GoodPlaylist, Values, IsList
<1> QED
  BY <1>1, <1>2 DEF Unreadable, Readable

\* The state of the decoder, field by field.
Got(kind, refused, header, segments, reports, variants, renditions, c, key) ==
    [kind |-> kind, refused |-> refused, header |-> header, segments |-> segments, reports |-> reports,
     variants |-> variants, renditions |-> renditions, curSegment |-> c, curKey |-> key]

\* The fields of what the decoder has got.
LEMMA GotFields ==
    ASSUME NEW kind, NEW refused, NEW header, NEW segments, NEW reports, NEW variants, NEW renditions,
           NEW c, IsSegment(c), NEW key
    PROVE  LET s == Got(kind, refused, header, segments, reports, variants, renditions, c, key)
           IN  /\ IsState(s) /\ s.kind = kind /\ s.header = header /\ s.segments = segments
               /\ s.reports = reports /\ s.variants = variants /\ s.renditions = renditions
               /\ s.curSegment = c /\ s.curKey = key
  BY DEF Got, IsState

\* They are replaced one at a time.
LEMMA GotWith ==
    ASSUME NEW kind, NEW refused, NEW header, NEW segments, NEW reports, NEW variants, NEW renditions,
           NEW c, NEW key, NEW x
    PROVE  LET s == Got(kind, refused, header, segments, reports, variants, renditions, c, key)
           IN  /\ With(s, "header", x) = Got(kind, refused, x, segments, reports, variants, renditions, c, key)
               /\ With(s, "segments", x) = Got(kind, refused, header, x, reports, variants, renditions, c, key)
               /\ With(s, "reports", x) = Got(kind, refused, header, segments, x, variants, renditions, c, key)
               /\ With(s, "variants", x) = Got(kind, refused, header, segments, reports, x, renditions, c, key)
               /\ With(s, "renditions", x) = Got(kind, refused, header, segments, reports, variants, x, c, key)
               /\ With(s, "curSegment", x) = Got(kind, refused, header, segments, reports, variants, renditions, x, key)
               /\ With(s, "curKey", x) = Got(kind, refused, header, segments, reports, variants, renditions, c, x)
<1> DEFINE s == Got(kind, refused, header, segments, reports, variants, renditions, c, key)
<1>1. With(s, "header", x) = Got(kind, refused, x, segments, reports, variants, renditions, c, key)
  BY DEF Got, With
<1>2. With(s, "segments", x) = Got(kind, refused, header, x, reports, variants, renditions, c, key)
  BY DEF Got, With
<1>3. With(s, "reports", x) = Got(kind, refused, header, segments, x, variants, renditions, c, key)
  BY DEF Got, With
<1>4. With(s, "variants", x) = Got(kind, refused, header, segments, reports, x, renditions, c, key)
  BY DEF Got, With
<1>5. With(s, "renditions", x) = Got(kind, refused, header, segments, reports, variants, x, c, key)
  BY DEF Got, With
<1>6. With(s, "curSegment", x) = Got(kind, refused, header, segments, reports, variants, renditions, x, key)
  BY DEF Got, With
<1>7. With(s, "curKey", x) = Got(kind, refused, header, segments, reports, variants, renditions, c, x)
  BY DEF Got, With
<1> QED
  BY <1>1, <1>2, <1>3, <1>4, <1>5, <1>6, <1>7

\* A text in three sections.
LEMMA ThreeRead ==
    ASSUME NEW a, IsList(a), NEW b, IsList(b), NEW c, IsList(c)
    PROVE  /\ IsList(a \o b \o c)
           /\ \A s : Scanned(s, a \o b \o c) = Scanned(Scanned(Scanned(s, a), b), c)
           /\ Refuses(a) \/ Refuses(b) \/ Refuses(c) => Refuses(a \o b \o c)
<1>1. /\ IsList(a \o b) /\ \A s : Scanned(s, a \o b) = Scanned(Scanned(s, a), b)
      /\ Refuses(a) \/ Refuses(b) => Refuses(a \o b)
  BY TextRead
<1>2. /\ IsList(a \o b \o c) /\ \A s : Scanned(s, a \o b \o c) = Scanned(Scanned(s, a \o b), c)
      /\ Refuses(a \o b) \/ Refuses(c) => Refuses(a \o b \o c)
  BY <1>1, TextRead
<1> QED
  BY <1>1, <1>2

\* Nothing before a list.
LEMMA NothingBefore ==
    ASSUME NEW tag, NEW values, Len(values) \in Nat
    PROVE  /\ << >> \o FirstLeft(tag, values, Len(values)) = FirstLeft(tag, values, Len(values))
           /\ tag # "STREAM_INF" => FirstLeft(tag, values, Len(values)) = AllRemain(tag, values)
<1> DEFINE all == FirstLeft(tag, values, Len(values))
<1>1. IsList(all)
  BY DEF FirstLeft, IsList
<1>2. tag # "STREAM_INF" => all = AllRemain(tag, values)
  BY DEF FirstLeft, AllRemain, Left
<1> HIDE DEF all
<1>3. PICK S : all \in Seq(S)
  BY <1>1, ListsTogether
<1>4. << >> \o all = all
  BY <1>3
<1> QED
  BY <1>2, <1>4 DEF all

\* The tags of a header, in the order in which they are printed.
MediaTags ==
    << "VERSION", "INDEPENDENT_SEGMENTS", "ALLOW_CACHE", "TARGETDURATION", "SERVER_CONTROL",
       "PART_INF", "MEDIA_SEQUENCE", "DISCONTINUITY_SEQUENCE", "PLAYLIST_TYPE", "MAP", "START", "SKIP" >>
MultivariantTags == << "VERSION", "INDEPENDENT_SEGMENTS", "START" >>

\* The tags of the headers, each once.
LEMMA HeaderTagLists ==
    /\ MediaTags \in Seq(DOMAIN MediaHeader) /\ MultivariantTags \in Seq(DOMAIN MediaHeader)
    /\ << "PRELOAD_HINT" >> \in Seq(DOMAIN MediaHeader) /\ << "ENDLIST" >> \in Seq(DOMAIN MediaHeader)
    /\ Among(<< "PRELOAD_HINT" >>, 1) = {"PRELOAD_HINT"} /\ Among(<< "ENDLIST" >>, 1) = {"ENDLIST"}
    /\ DOMAIN MediaHeader = {"ENDLIST"} \union ({"PRELOAD_HINT"} \union Among(MediaTags, Len(MediaTags)))
    /\ DOMAIN MultivariantHeader = Among(MultivariantTags, Len(MultivariantTags))
    /\ DOMAIN MultivariantHeader \subseteq DOMAIN MediaHeader /\ "STREAM_INF" \notin DOMAIN MediaHeader
    /\ "EXTINF" \notin DOMAIN MediaHeader
<1>1. DOMAIN MediaHeader = {"VERSION", "INDEPENDENT_SEGMENTS", "ALLOW_CACHE", "TARGETDURATION", "SERVER_CONTROL",
                            "PART_INF", "MEDIA_SEQUENCE", "DISCONTINUITY_SEQUENCE", "PLAYLIST_TYPE", "MAP",
                            "START", "SKIP", "PRELOAD_HINT", "ENDLIST"}
  BY DEF MediaHeader
<1>2. DOMAIN MultivariantHeader = {"VERSION", "INDEPENDENT_SEGMENTS", "START"}
  BY DEF MultivariantHeader
<1>3. /\ MediaTags \in Seq(DOMAIN MediaHeader) /\ MultivariantTags \in Seq(DOMAIN MediaHeader)
      /\ << "PRELOAD_HINT" >> \in Seq(DOMAIN MediaHeader) /\ << "ENDLIST" >> \in Seq(DOMAIN MediaHeader)
      /\ Len(MediaTags) = 12 /\ Len(MultivariantTags) = 3
  BY <1>1 DEF MediaTags, MultivariantTags
<1>4. Among(<< "PRELOAD_HINT" >>, 1) = {"PRELOAD_HINT"} /\ Among(<< "ENDLIST" >>, 1) = {"ENDLIST"}
  <2>1. 1..1 = {1}
    OBVIOUS
  <2> QED
    BY <2>1 DEF Among
<1>5. Among(MediaTags, 12) = {"VERSION", "INDEPENDENT_SEGMENTS", "ALLOW_CACHE", "TARGETDURATION", "SERVER_CONTROL",
                              "PART_INF", "MEDIA_SEQUENCE", "DISCONTINUITY_SEQUENCE", "PLAYLIST_TYPE", "MAP",
                              "START", "SKIP"}
  <2>1. 1..12 = {1, 2, 3, 4, 5, 6, 7, 8, 9, 10, 11, 12}
    OBVIOUS
  <2>2. Among(MediaTags, 12) = {MediaTags[j] : j \in {1, 2, 3, 4, 5, 6, 7, 8, 9, 10, 11, 12}}
    BY <2>1 DEF Among
  <2> QED
    BY <2>2 DEF MediaTags
<1>6. Among(MultivariantTags, 3) = {"VERSION", "INDEPENDENT_SEGMENTS", "START"}
  <2>1. 1..3 = {1, 2, 3}
    OBVIOUS
  <2> QED
    BY <2>1 DEF Among, MultivariantTags
<1> QED
  BY <1>1, <1>2, <1>3, <1>4, <1>5, <1>6

\* A header of which a tag vanishes refuses the text.
LEMMA HeaderRefuses ==
    ASSUME NEW header, Kind(header), NEW tags \in Seq(DOMAIN MediaHeader),
           NEW tag \in DOMAIN header, tag \in Among(tags, Len(tags)), Vanishes(tag, header[tag])
    PROVE  Refuses(marshalTags(header, tags))
<1>1. PICK i \in 1..Len(tags) : tags[i] = tag
  BY DEF Among
<1>2. tag # "EXTINF"
  BY <1>1, HeaderTagLists
<1> QED
  BY <1>1, <1>2, TagsRefuse

\* A media playlist that is printed and read again.
LEMMA MediaRead ==
    ASSUME NEW p, GoodPlaylist(p), p.kind = "media"
    PROVE  Unmarshal("media", MediaLines(p)) = IF Unreadable(p) THEN None ELSE Some(PlaylistLeft(p))
<1> DEFINE h == p.header
           a == marshalTags(h, MediaTags)
           b == SegmentsLines(p.segments)
           c == marshalAll("PART", p.parts)
           d == marshalTags(h, << "PRELOAD_HINT" >>)
           e == marshalAll("RENDITION_REPORT", p.reports)
           f == marshalTags(h, << "ENDLIST" >>)
           lines == a \o b \o c \o d \o e \o f
<1>1. MediaLines(p) = lines
  BY DEF MediaLines, SegmentsLines, MediaTags
<1>2. /\ IsHeader("media", h) /\ GoodSegments(p.segments) /\ Values("PART", p.parts)
      /\ Values("RENDITION_REPORT", p.reports)
  BY DEF GoodPlaylist
<1>3. /\ IsList(a) /\ IsList(b) /\ IsList(c) /\ IsList(d) /\ IsList(e) /\ IsList(f)
  BY <1>2, TagsAreText, HeaderTagLists, SegmentsRefuse, PrintedAll, TagTable
<1>4. Kind(h) /\ DOMAIN h \subseteq DOMAIN MediaHeader /\ DOMAIN EmptyHeader("media") \subseteq DOMAIN h
  BY <1>2 DEF IsHeader
<1>5. /\ \A s : Scanned(s, lines) = Scanned(Scanned(Scanned(Scanned(Scanned(Scanned(s, a), b), c), d), e), f)
      /\ Refuses(a) \/ Refuses(b) \/ Refuses(c) \/ Refuses(d) \/ Refuses(e) \/ Refuses(f) => Refuses(lines)
  <2> HIDE DEF a, b, c, d, e, f
  <2>1. /\ IsList(a \o b \o c) /\ \A s : Scanned(s, a \o b \o c) = Scanned(Scanned(Scanned(s, a), b), c)
        /\ Refuses(a) \/ Refuses(b) \/ Refuses(c) => Refuses(a \o b \o c)
    BY <1>3, ThreeRead
  <2> DEFINE abc == a \o b \o c
  <2> HIDE DEF abc
  <2>2. /\ IsList(abc \o d \o e) /\ \A s : Scanned(s, abc \o d \o e) = Scanned(Scanned(Scanned(s, abc), d), e)
        /\ Refuses(abc) \/ Refuses(d) \/ Refuses(e) => Refuses(abc \o d \o e)
    BY <1>3, <2>1, ThreeRead DEF abc
  <2>3. /\ \A s : Scanned(s, abc \o d \o e \o f) = Scanned(Scanned(s, abc \o d \o e), f)
        /\ Refuses(abc \o d \o e) \/ Refuses(f) => Refuses(abc \o d \o e \o f)
    BY <1>3, <2>2, TextRead
  <2> QED
    BY <2>1, <2>2, <2>3 DEF abc
<1>6. CASE Unreadable(p)
  <2>1. Refuses(lines)
    <3>1. CASE ~Readable(h)
      <4>1. PICK tag \in DOMAIN h : Vanishes(tag, h[tag])
        BY <3>1 DEF Readable
      <4>2. \/ tag \in Among(MediaTags, Len(MediaTags))
            \/ tag \in Among(<< "PRELOAD_HINT" >>, Len(<< "PRELOAD_HINT" >>))
            \/ tag \in Among(<< "ENDLIST" >>, Len(<< "ENDLIST" >>))
        BY <1>4, HeaderTagLists
      <4>3. Refuses(a) \/ Refuses(d) \/ Refuses(f)
        BY <1>4, <4>1, <4>2, HeaderRefuses, HeaderTagLists
      <4> QED
        BY <1>5, <4>3
    <3>2. CASE \E i \in 1..Len(p.segments) : SegmentUnreadable(p.segments[i])
      BY <1>2, <1>5, <3>2, SegmentsRefuse
    <3>3. CASE \E i \in 1..Len(p.parts) : Vanishes("PART", p.parts[i])
      BY <1>2, <1>5, <3>3, PrintedAll, TagTable
    <3> QED
      BY <1>6, <3>1, <3>2, <3>3, UnreadablePlaces
  <2>2. Scanned(Begin("media"), lines).refused
    BY <2>1, NewScanIsState DEF Refuses, Begin
  <2> HIDE DEF lines
  <2>3. Unmarshal("media", lines) = None
    BY <2>2 DEF Unmarshal, Scanned, Result
  <2> QED
    BY <1>1, <1>6, <2>3
<1>7. CASE ~Unreadable(p)
  <2>1. /\ Readable(h) /\ \A i \in 1..Len(p.segments) : ~SegmentUnreadable(p.segments[i])
        /\ \A i \in 1..Len(p.parts) : ~Vanishes("PART", p.parts[i])
    BY <1>7, UnreadablePlaces
  <2> DEFINE h0 == EmptyHeader("media")
             h1 == Over(LeftOf(h, Among(MediaTags, Len(MediaTags))), h0)
             h4 == Over(LeftOf(h, {"PRELOAD_HINT"}), h1)
             h6 == Over(LeftOf(h, {"ENDLIST"}), h4)
             segments == SegmentsLeft(p.segments, Len(p.segments))
             key == KeyInForce(p.segments, Len(p.segments))
             parts == FirstLeft("PART", p.parts, Len(p.parts))
             reports == FirstLeft("RENDITION_REPORT", p.reports, Len(p.reports))
             last == WithParts(NewSegment, parts)
             no == FALSE
             State(header, segs, reps, cur, k) == Got("media", no, header, segs, reps, << >>, << >>, cur, k)
  <2>2. IsMap(h0) /\ IsMap(h1) /\ IsMap(h4) /\ h6 = FieldsRemain(h)
    <3>1. IsMap(h0)
      BY DEF IsMap, EmptyHeader
    <3>2. IsMap(h1)
      BY <3>1, OverLeft
    <3>3. IsMap(h4)
      BY <3>2, OverLeft
    <3>4. h4 = Over(LeftOf(h, {"PRELOAD_HINT"} \union Among(MediaTags, Len(MediaTags))), h0)
      BY <3>1, OverLeft
    <3>5. Over(LeftOf(h, {"ENDLIST"}), Over(LeftOf(h, {"PRELOAD_HINT"} \union Among(MediaTags, Len(MediaTags))), h0))
            = Over(LeftOf(h, {"ENDLIST"} \union ({"PRELOAD_HINT"} \union Among(MediaTags, Len(MediaTags)))), h0)
      BY <3>1, OverLeft
    <3>6. Over(LeftOf(h, DOMAIN MediaHeader), h0) = FieldsRemain(h)
      BY <1>4, HeaderTagLists, LeftOfAll
    <3> HIDE DEF h, h0
    <3> QED
      BY <3>1, <3>2, <3>3, <3>4, <3>5, <3>6, HeaderTagLists
  <2>3. IsSegment(NewSegment) /\ IsSegment(last) /\ NewSegment.parts = << >> /\ IsList(<< >>)
    BY DEF IsSegment, NewSegment, WithParts, IsList
  <2>4. Begin("media") = State(h0, << >>, << >>, NewSegment, None)
    BY DEF Begin, NewScan, Got
  <2>5. << >> \o parts = parts /\ << >> \o reports = reports
        /\ parts = AllRemain("PART", p.parts) /\ reports = AllRemain("RENDITION_REPORT", p.reports)
    BY <1>2, NothingBefore DEF Values, IsList
  <2> HIDE DEF no, h0, h1, h4, h6, segments, key, parts, reports, last
  <2>6. \A header, segs, reps, cur, k :
            LET s == State(header, segs, reps, cur, k)
            IN  IsSegment(cur) =>
                    /\ IsState(s) /\ s.header = header /\ s.segments = segs /\ s.reports = reps
                    /\ s.curSegment = cur /\ s.curKey = k
    BY GotFields
  <2>7. \A header, segs, reps, cur, k, x :
            LET s == State(header, segs, reps, cur, k)
            IN  /\ With(s, "header", x) = State(x, segs, reps, cur, k)
                /\ With(s, "segments", x) = State(header, x, reps, cur, k)
                /\ With(s, "reports", x) = State(header, segs, x, cur, k)
                /\ With(s, "curSegment", x) = State(header, segs, reps, x, k)
                /\ With(s, "curKey", x) = State(header, segs, reps, cur, x)
    BY GotWith
  <2> HIDE DEF State
  <2>8. Scanned(State(h0, << >>, << >>, NewSegment, None), a) = State(h1, << >>, << >>, NewSegment, None)
    <3> DEFINE s == State(h0, << >>, << >>, NewSegment, None)
    <3>1. IsState(s) /\ s.header = h0
      BY <2>3, <2>6
    <3>2. With(s, "header", h1) = State(h1, << >>, << >>, NewSegment, None)
      BY <2>7
    <3> HIDE DEF s
    <3>3. Scanned(s, a) = With(s, "header", h1)
      BY <1>4, <2>1, <2>2, <3>1, HeaderScanned, HeaderTagLists DEF h1
    <3> QED
      BY <3>2, <3>3 DEF s
  <2>9. Scanned(State(h1, << >>, << >>, NewSegment, None), b) = State(h1, segments, << >>, NewSegment, key)
    <3> DEFINE s == State(h1, << >>, << >>, NewSegment, None)
    <3>1. IsState(s) /\ s.segments = << >> /\ s.curSegment = NewSegment /\ s.curKey = None
      BY <2>3, <2>6
    <3>2. With(With(s, "segments", segments), "curKey", key) = State(h1, segments, << >>, NewSegment, key)
      BY <2>7
    <3> HIDE DEF s
    <3>3. Scanned(s, b) = With(With(s, "segments", segments), "curKey", key)
      BY <1>2, <2>1, <3>1, SegmentsScanned DEF segments, key
    <3> QED
      BY <3>2, <3>3 DEF s
  <2>10. Scanned(State(h1, segments, << >>, NewSegment, key), c) = State(h1, segments, << >>, last, key)
    <3> DEFINE s == State(h1, segments, << >>, NewSegment, key)
    <3>1. IsState(s) /\ s.curSegment = NewSegment /\ IsList(s.curSegment.parts)
      BY <2>3, <2>6
    <3>2. With(s, "curSegment", last) = State(h1, segments, << >>, last, key)
      BY <2>7
    <3> HIDE DEF s
    <3>3. Scanned(s, c) = With(s, "curSegment", WithParts(s.curSegment, s.curSegment.parts \o parts))
      BY <1>2, <2>1, <3>1, PartsScanned DEF parts
    <3>4. WithParts(s.curSegment, s.curSegment.parts \o parts) = last
      BY <2>3, <2>5, <3>1 DEF last
    <3> QED
      BY <3>2, <3>3, <3>4 DEF s
  <2>11. Scanned(State(h1, segments, << >>, last, key), d) = State(h4, segments, << >>, last, key)
    <3> DEFINE s == State(h1, segments, << >>, last, key)
    <3>1. IsState(s) /\ s.header = h1
      BY <2>3, <2>6
    <3>2. With(s, "header", h4) = State(h4, segments, << >>, last, key)
      BY <2>7
    <3> HIDE DEF s
    <3>3. Among(<< "PRELOAD_HINT" >>, Len(<< "PRELOAD_HINT" >>)) = {"PRELOAD_HINT"}
      BY HeaderTagLists
    <3>4. Scanned(s, d) = With(s, "header", Over(LeftOf(h, Among(<< "PRELOAD_HINT" >>, Len(<< "PRELOAD_HINT" >>))), s.header))
      BY <1>4, <2>1, <2>2, <3>1, HeaderScanned, HeaderTagLists
    <3> QED
      BY <3>1, <3>2, <3>3, <3>4 DEF s, h4
  <2>12. Scanned(State(h4, segments, << >>, last, key), e) = State(h4, segments, reports, last, key)
    <3> DEFINE s == State(h4, segments, << >>, last, key)
    <3>1. IsState(s) /\ s.reports = << >>
      BY <2>3, <2>6
    <3>2. With(s, "reports", reports) = State(h4, segments, reports, last, key)
      BY <2>7
    <3> HIDE DEF s
    <3>3. Scanned(s, e) = With(s, "reports", s["reports"] \o reports)
      <4>1. IsList(s["reports"])
        BY <2>3, <3>1
      <4>2. \A t : IsState(t) /\ IsList(t["reports"]) =>
                Scanned(t, e) = With(t, "reports", t["reports"] \o reports)
        BY <1>2, ListScanned DEF reports
      <4> QED
        BY <3>1, <4>1, <4>2
    <3> QED
      BY <2>5, <3>1, <3>2, <3>3 DEF s
  <2>13. Scanned(State(h4, segments, reports, last, key), f) = State(h6, segments, reports, last, key)
    <3> DEFINE s == State(h4, segments, reports, last, key)
    <3>1. IsState(s) /\ s.header = h4
      BY <2>3, <2>6
    <3>2. With(s, "header", h6) = State(h6, segments, reports, last, key)
      BY <2>7
    <3> HIDE DEF s
    <3>3. Among(<< "ENDLIST" >>, Len(<< "ENDLIST" >>)) = {"ENDLIST"}
      BY HeaderTagLists
    <3>4. Scanned(s, f) = With(s, "header", Over(LeftOf(h, Among(<< "ENDLIST" >>, Len(<< "ENDLIST" >>))), s.header))
      BY <1>4, <2>1, <2>2, <3>1, HeaderScanned, HeaderTagLists
    <3> QED
      BY <3>1, <3>2, <3>3, <3>4 DEF s, h6
  <2> DEFINE end == State(h6, segments, reports, last, key)
  <2>14. Scanned(Begin("media"), lines) = end
    <3> HIDE DEF a, b, c, d, e, f, lines
    <3> QED
      BY <1>5, <2>4, <2>8, <2>9, <2>10, <2>11, <2>12, <2>13
  <2>15. Complete(end)
    <3>1. end.kind = "media" /\ end.header = h6 /\ end.segments = segments
      BY DEF State, Got
    <3>2. "TARGETDURATION" \in DOMAIN h /\ Has(h["TARGETDURATION"], "VALUE")
      BY <1>4 DEF EmptyHeader, GoodPlaylist
    <3>3. DOMAIN Remains("TARGETDURATION", h["TARGETDURATION"]) = DOMAIN h["TARGETDURATION"]
      BY DEF Remains
    <3>4. Has(FieldsRemain(h)["TARGETDURATION"], "VALUE")
      BY <3>2, <3>3 DEF FieldsRemain, Has
    <3>5. segments # << >>
      <4>1. p.segments # << >> /\ IsList(p.segments)
        BY <1>2 DEF GoodSegments, GoodPlaylist
      <4>2. Len(p.segments) # 0
        BY <4>1 DEF IsList
      <4>3. 1 \in 1..Len(p.segments)
        BY <4>1, <4>2 DEF IsList
      <4>4. DOMAIN segments = 1..Len(p.segments)
        BY DEF segments, SegmentsLeft
      <4> QED
        BY <4>3, <4>4
    <3> HIDE DEF end
    <3> QED
      BY <2>2, <3>1, <3>4, <3>5 DEF Complete
  <2>16. Result(end) = Some(PlaylistLeft(p))
    <3>1. end = [kind |-> "media", refused |-> no, header |-> h6, segments |-> segments, reports |-> reports,
                 variants |-> << >>, renditions |-> << >>, curSegment |-> last, curKey |-> key]
      BY DEF State, Got
    <3>2. ~end.refused
      BY <3>1 DEF no
    <3>3. Result(end) = Some([kind |-> "media", header |-> h6, segments |-> segments, parts |-> last.parts,
                              reports |-> reports, variants |-> << >>, renditions |-> << >>])
      <4>1. Result(end) = Some([kind |-> end.kind, header |-> end.header, segments |-> end.segments,
                                parts |-> end.curSegment.parts, reports |-> end.reports,
                                variants |-> end.variants, renditions |-> end.renditions])
        BY <2>15, <3>2 DEF Result
      <4>2. /\ end.kind = "media" /\ end.header = h6 /\ end.segments = segments /\ end.reports = reports
            /\ end.variants = << >> /\ end.renditions = << >> /\ end.curSegment = last
        BY <3>1
      <4> HIDE DEF end
      <4> QED
        BY <4>1, <4>2
    <3>4. last.parts = parts
      BY DEF last, WithParts
    <3>5. p.variants = << >> /\ p.renditions = << >>
      BY DEF GoodPlaylist
    <3>6. FirstLeft("STREAM_INF", p.variants, Len(p.variants)) = << >> /\ AllRemain("MEDIA", p.renditions) = << >>
      BY <3>5 DEF FirstLeft, AllRemain
    <3> HIDE DEF end
    <3> QED
      BY <2>2, <2>5, <3>3, <3>4, <3>6 DEF PlaylistLeft, segments, h
  <2>17. Unmarshal("media", lines) = Result(end)
    <3> HIDE DEF lines, end
    <3> QED
      BY <2>14 DEF Unmarshal, Scanned
  <2> HIDE DEF lines, end
  <2> QED
    BY <1>1, <1>7, <2>16, <2>17
<1> QED
  BY <1>6, <1>7

\* A multivariant playlist that is printed and read again.
LEMMA MultivariantRead ==
    ASSUME NEW p, GoodPlaylist(p), p.kind = "multivariant"
    PROVE  Unmarshal("multivariant", MultivariantLines(p)) = IF Unreadable(p) THEN None ELSE Some(PlaylistLeft(p))
<1> DEFINE h == p.header
           a == marshalTags(h, MultivariantTags)
           b == marshalAll("MEDIA", p.renditions)
           c == marshalAll("STREAM_INF", p.variants)
           lines == a \o b \o c
<1>1. MultivariantLines(p) = lines
  BY DEF MultivariantLines, MultivariantTags
<1>2. IsHeader("multivariant", h) /\ Values("MEDIA", p.renditions) /\ Values("STREAM_INF", p.variants)
  BY DEF GoodPlaylist
<1>3. IsList(a) /\ IsList(b) /\ IsList(c)
  BY <1>2, TagsAreText, HeaderTagLists, PrintedAll, TagTable
<1>4. Kind(h) /\ DOMAIN h \subseteq DOMAIN MultivariantHeader /\ DOMAIN EmptyHeader("multivariant") \subseteq DOMAIN h
  BY <1>2 DEF IsHeader
<1>5. /\ \A s : Scanned(s, lines) = Scanned(Scanned(Scanned(s, a), b), c)
      /\ Refuses(a) => Refuses(lines)
  <2> HIDE DEF a, b, c
  <2> QED
    BY <1>3, ThreeRead
<1>6. Unreadable(p) <=> ~Readable(h)
  <2>1. p.segments = << >> /\ p.parts = << >>
    BY DEF GoodPlaylist
  <2>2. Len(p.segments) = 0 /\ Len(p.parts) = 0
    BY <2>1
  <2> QED
    BY <2>2, UnreadablePlaces
<1>7. CASE Unreadable(p)
  <2>1. PICK tag \in DOMAIN h : Vanishes(tag, h[tag])
    BY <1>6, <1>7 DEF Readable
  <2>2. Refuses(a)
    BY <1>4, <2>1, HeaderRefuses, HeaderTagLists
  <2>3. Scanned(Begin("multivariant"), lines).refused
    BY <1>5, <2>2, NewScanIsState DEF Refuses, Begin
  <2> HIDE DEF lines
  <2>4. Unmarshal("multivariant", lines) = None
    BY <2>3 DEF Unmarshal, Scanned, Result
  <2> QED
    BY <1>1, <1>7, <2>4
<1>8. CASE ~Unreadable(p)
  <2> DEFINE h0 == EmptyHeader("multivariant")
             h1 == Over(LeftOf(h, Among(MultivariantTags, Len(MultivariantTags))), h0)
             renditions == FirstLeft("MEDIA", p.renditions, Len(p.renditions))
             variants == FirstLeft("STREAM_INF", p.variants, Len(p.variants))
             no == FALSE
             State(header, v, r) == Got("multivariant", no, header, << >>, << >>, v, r, NewSegment, None)
  <2>1. IsMap(h0) /\ h1 = FieldsRemain(h)
    <3>1. IsMap(h0)
      BY DEF IsMap, EmptyHeader
    <3>2. "STREAM_INF" \notin DOMAIN h /\ DOMAIN h \subseteq Among(MultivariantTags, Len(MultivariantTags))
      BY <1>4, HeaderTagLists
    <3> QED
      BY <1>4, <3>1, <3>2, LeftOfAll
  <2>2. IsSegment(NewSegment) /\ NewSegment.parts = << >> /\ IsList(<< >>)
    BY DEF IsSegment, NewSegment, IsList
  <2>3. Begin("multivariant") = State(h0, << >>, << >>)
    BY DEF Begin, NewScan, Got
  <2>4. << >> \o renditions = renditions /\ << >> \o variants = variants
        /\ renditions = AllRemain("MEDIA", p.renditions)
    BY <1>2, NothingBefore DEF Values, IsList
  <2> HIDE DEF no, h0, h1, renditions, variants
  <2>5. \A header, v, r : LET s == State(header, v, r)
                          IN  IsState(s) /\ s.header = header /\ s.variants = v /\ s.renditions = r
    BY <2>2, GotFields
  <2>6. \A header, v, r, x : LET s == State(header, v, r)
                             IN  /\ With(s, "header", x) = State(x, v, r)
                                 /\ With(s, "variants", x) = State(header, x, r)
                                 /\ With(s, "renditions", x) = State(header, v, x)
    BY GotWith
  <2> HIDE DEF State
  <2>7. Scanned(State(h0, << >>, << >>), a) = State(h1, << >>, << >>)
    <3> DEFINE s == State(h0, << >>, << >>)
    <3>1. IsState(s) /\ s.header = h0
      BY <2>5
    <3>2. With(s, "header", h1) = State(h1, << >>, << >>)
      BY <2>6
    <3> HIDE DEF s
    <3>3. Readable(h)
      BY <1>6, <1>8
    <3>4. Scanned(s, a) = With(s, "header", h1)
      BY <1>4, <2>1, <3>1, <3>3, HeaderScanned, HeaderTagLists DEF h1
    <3> QED
      BY <3>2, <3>4 DEF s
  <2>8. Scanned(State(h1, << >>, << >>), b) = State(h1, << >>, renditions)
    <3> DEFINE s == State(h1, << >>, << >>)
    <3>1. IsState(s) /\ s["renditions"] = << >>
      BY <2>5
    <3>2. With(s, "renditions", renditions) = State(h1, << >>, renditions)
      BY <2>6
    <3> HIDE DEF s
    <3>3. Scanned(s, b) = With(s, "renditions", s["renditions"] \o renditions)
      <4>1. \A t : IsState(t) /\ IsList(t["renditions"]) =>
                Scanned(t, b) = With(t, "renditions", t["renditions"] \o renditions)
        BY <1>2, ListScanned DEF renditions
      <4> QED
        BY <2>2, <3>1, <4>1
    <3> QED
      BY <2>4, <3>1, <3>2, <3>3 DEF s
  <2>9. Scanned(State(h1, << >>, renditions), c) = State(h1, variants, renditions)
    <3> DEFINE s == State(h1, << >>, renditions)
    <3>1. IsState(s) /\ s["variants"] = << >>
      BY <2>5
    <3>2. With(s, "variants", variants) = State(h1, variants, renditions)
      BY <2>6
    <3> HIDE DEF s
    <3>3. Scanned(s, c) = With(s, "variants", s["variants"] \o variants)
      <4>1. \A t : IsState(t) /\ IsList(t["variants"]) =>
                Scanned(t, c) = With(t, "variants", t["variants"] \o variants)
        BY <1>2, ListScanned DEF variants
      <4> QED
        BY <2>2, <3>1, <4>1
    <3> QED
      BY <2>4, <3>1, <3>2, <3>3 DEF s
  <2> DEFINE end == State(h1, variants, renditions)
  <2>10. Scanned(Begin("multivariant"), lines) = end
    <3> HIDE DEF a, b, c, lines
    <3> QED
      BY <1>5, <2>3, <2>7, <2>8, <2>9
  <2>11. variants # << >>
    <3>1. p.variants # << >> /\ IsList(p.variants)
      BY <1>2 DEF Values, GoodPlaylist
    <3>2. Len(p.variants) # 0
      BY <3>1 DEF IsList
    <3>3. 1 \in 1..Len(p.variants)
      BY <3>1, <3>2 DEF IsList
    <3>4. DOMAIN variants = 1..Len(p.variants)
      BY DEF variants, FirstLeft
    <3> QED
      BY <3>3, <3>4
  <2>12. Result(end) = Some(PlaylistLeft(p))
    <3>1. end = [kind |-> "multivariant", refused |-> no, header |-> h1, segments |-> << >>, reports |-> << >>,
                 variants |-> variants, renditions |-> renditions, curSegment |-> NewSegment, curKey |-> None]
      BY DEF State, Got
    <3>2. ~end.refused
      BY <3>1 DEF no
    <3>3. /\ end.kind = "multivariant" /\ end.header = h1 /\ end.segments = << >> /\ end.reports = << >>
          /\ end.variants = variants /\ end.renditions = renditions /\ end.curSegment = NewSegment
      BY <3>1
    <3> HIDE DEF end
    <3>4. Complete(end)
      BY <2>11, <3>3 DEF Complete
    <3>5. Result(end) = Some([kind |-> "multivariant", header |-> h1, segments |-> << >>, parts |-> << >>,
                              reports |-> << >>, variants |-> variants, renditions |-> renditions])
      <4>1. Result(end) = Some([kind |-> end.kind, header |-> end.header, segments |-> end.segments,
                                parts |-> end.curSegment.parts, reports |-> end.reports,
                                variants |-> end.variants, renditions |-> end.renditions])
        BY <3>2, <3>4 DEF Result
      <4> QED
        BY <2>2, <3>3, <4>1
    <3>6. p.segments = << >> /\ p.parts = << >> /\ p.reports = << >>
      BY DEF GoodPlaylist
    <3>7. /\ SegmentsLeft(p.segments, Len(p.segments)) = << >> /\ AllRemain("PART", p.parts) = << >>
          /\ AllRemain("RENDITION_REPORT", p.reports) = << >>
      BY <3>6 DEF SegmentsLeft, AllRemain
    <3> QED
      BY <2>1, <2>4, <3>5, <3>7 DEF PlaylistLeft, variants, h
  <2>13. Unmarshal("multivariant", lines) = Result(end)
    <3> HIDE DEF lines, end
    <3> QED
      BY <2>10 DEF Unmarshal, Scanned
  <2> HIDE DEF lines, end
  <2> QED
    BY <1>1, <1>8, <2>12, <2>13
<1> QED
  BY <1>7, <1>8

\* The formula of ReadBack, for any playlist that has been read or written.
LEMMA GoodReadBack ==
    ASSUME playlist # None, GoodPlaylist(playlist[1])
    PROVE  /\ ReadBack
           /\ Unmarshal(playlist[1].kind, Marshal(playlist[1]))
                = IF Unreadable(playlist[1]) THEN None ELSE Some(PlaylistLeft(playlist[1]))
<1> DEFINE p == playlist[1]
           expected == [p EXCEPT
                !.header = FieldsRemain(@),
                !.segments = [i \in 1..Len(@) |-> [fields |-> FieldsRemain(@[i].fields),
                                                  key |-> KeyInForce(@, i),
                                                  parts |-> AllRemain("PART", @[i].parts)]],
                !.parts = AllRemain("PART", @),
                !.reports = AllRemain("RENDITION_REPORT", @),
                !.variants = [i \in 1..Len(@) |-> VariantRemains(@[i])],
                !.renditions = AllRemain("MEDIA", @)]
<1>1. Unmarshal(p.kind, Marshal(p)) = IF Unreadable(p) THEN None ELSE Some(PlaylistLeft(p))
  <2> HIDE DEF p
  <2>1. p.kind \in {"media", "multivariant"} /\ GoodPlaylist(p)
    BY DEF GoodPlaylist, p
  <2>2. CASE p.kind = "media"
    BY <2>1, <2>2, MediaRead DEF Marshal
  <2>3. CASE p.kind = "multivariant"
    BY <2>1, <2>3, MultivariantRead DEF Marshal
  <2> QED
    BY <2>1, <2>2, <2>3
<1>2. expected = PlaylistLeft(p)
  <2> DEFINE header == FieldsRemain(p.header)
             segments == [i \in 1..Len(p.segments) |-> [fields |-> FieldsRemain(p.segments[i].fields),
                                                        key |-> KeyInForce(p.segments, i),
                                                        parts |-> AllRemain("PART", p.segments[i].parts)]]
             parts == AllRemain("PART", p.parts)
             reports == AllRemain("RENDITION_REPORT", p.reports)
             variants == [i \in 1..Len(p.variants) |-> VariantRemains(p.variants[i])]
             renditions == AllRemain("MEDIA", p.renditions)
  <2>1. segments = SegmentsLeft(p.segments, Len(p.segments))
    BY DEF SegmentsLeft, SegmentLeft
  <2>2. variants = FirstLeft("STREAM_INF", p.variants, Len(p.variants))
    BY DEF FirstLeft, Left
  <2>3. IsPlaylist(p)
    BY DEF GoodPlaylist
  <2>4. expected = [p EXCEPT !.header = header, !.segments = segments, !.parts = parts, !.reports = reports,
                             !.variants = variants, !.renditions = renditions]
    BY <2>3 DEF IsPlaylist
  <2> HIDE DEF header, segments, parts, reports, variants, renditions, expected, p
  <2>5. [p EXCEPT !.header = header, !.segments = segments, !.parts = parts, !.reports = reports,
                  !.variants = variants, !.renditions = renditions]
            = [kind |-> p.kind, header |-> header, segments |-> segments, parts |-> parts, reports |-> reports,
               variants |-> variants, renditions |-> renditions]
    <3> DEFINE R(a, b, c, d, e, f) == [kind |-> p.kind, header |-> a, segments |-> b, parts |-> c, reports |-> d,
                                       variants |-> e, renditions |-> f]
    <3>1. p = R(p.header, p.segments, p.parts, p.reports, p.variants, p.renditions)
      BY <2>3 DEF IsPlaylist
    <3>2. \A a, b, c, d, e, f, x :
            /\ [R(a, b, c, d, e, f) EXCEPT !.header = x] = R(x, b, c, d, e, f)
            /\ [R(a, b, c, d, e, f) EXCEPT !.segments = x] = R(a, x, c, d, e, f)
            /\ [R(a, b, c, d, e, f) EXCEPT !.parts = x] = R(a, b, x, d, e, f)
            /\ [R(a, b, c, d, e, f) EXCEPT !.reports = x] = R(a, b, c, x, e, f)
            /\ [R(a, b, c, d, e, f) EXCEPT !.variants = x] = R(a, b, c, d, x, f)
            /\ [R(a, b, c, d, e, f) EXCEPT !.renditions = x] = R(a, b, c, d, e, x)
      OBVIOUS
    <3> DEFINE q1 == [p EXCEPT !.header = header]
               q2 == [q1 EXCEPT !.segments = segments]
               q3 == [q2 EXCEPT !.parts = parts]
               q4 == [q3 EXCEPT !.reports = reports]
               q5 == [q4 EXCEPT !.variants = variants]
               q6 == [q5 EXCEPT !.renditions = renditions]
    <3>3. [p EXCEPT !.header = header, !.segments = segments, !.parts = parts, !.reports = reports,
                    !.variants = variants, !.renditions = renditions] = q6
      OBVIOUS
    <3> HIDE DEF R
    <3>4. q6 = R(header, segments, parts, reports, variants, renditions)
      <4>1. q1 = R(header, p.segments, p.parts, p.reports, p.variants, p.renditions)
        BY <3>1, <3>2
      <4> HIDE DEF q1
      <4>2. q2 = R(header, segments, p.parts, p.reports, p.variants, p.renditions)
        BY <4>1, <3>2
      <4> HIDE DEF q2
      <4>3. q3 = R(header, segments, parts, p.reports, p.variants, p.renditions)
        BY <4>2, <3>2
      <4> HIDE DEF q3
      <4>4. q4 = R(header, segments, parts, reports, p.variants, p.renditions)
        BY <4>3, <3>2
      <4> HIDE DEF q4
      <4>5. q5 = R(header, segments, parts, reports, variants, p.renditions)
        BY <4>4, <3>2
      <4> HIDE DEF q5
      <4> QED
        BY <4>5, <3>2
    <3> QED
      BY <3>3, <3>4 DEF R
  <2> QED
    BY <2>1, <2>2, <2>4, <2>5 DEF PlaylistLeft, header, parts, reports, renditions
<1>3. ReadBack
  BY <1>1, <1>2 DEF ReadBack
<1> QED
  BY <1>1, <1>3

--------------------------------------------------------------------------------
(***************************************************************************)
(* What has been read is well formed, and so is what is returned: the      *)
(* inductive invariant.                                                    *)
(***************************************************************************)

\* A segment that is being read.
Begun(c) ==
    /\ IsSegment(c)
    /\ Kind(c.fields) /\ IsMap(c.fields) /\ DOMAIN c.fields \subseteq DOMAIN SegmentTags
    /\ IsKey(c.key)
    /\ Values("PART", c.parts)

GoodScan(s) ==
    /\ IsState(s) /\ s.kind \in {"media", "multivariant"} /\ IsHeader(s.kind, s.header)
    /\ GoodSegments(s.segments) /\ Values("RENDITION_REPORT", s.reports)
    /\ Values("STREAM_INF", s.variants) /\ Values("MEDIA", s.renditions)
    /\ Begun(s.curSegment) /\ IsKey(s.curKey)
    /\ s.kind = "media" => s.variants = << >> /\ s.renditions = << >>
    /\ s.kind = "multivariant" => s.segments = << >> /\ s.reports = << >> /\ s.curSegment.parts = << >>

WellFormed ==
    /\ GoodScan(scan)
    /\ playlist = None \/ (playlist = Some(playlist[1]) /\ GoodPlaylist(playlist[1]))

\* The decoder begins well formed.
LEMMA NewScanIsGood ==
    ASSUME NEW kind \in {"media", "multivariant"}, NEW refused
    PROVE  GoodScan(NewScan(kind, refused))
<1> DEFINE s == NewScan(kind, refused)
<1>1. /\ s.kind = kind /\ s.header = EmptyHeader(kind) /\ s.segments = << >> /\ s.reports = << >>
      /\ s.variants = << >> /\ s.renditions = << >> /\ s.curSegment = NewSegment /\ s.curKey = None
  BY DEF NewScan
<1>2. IsState(s)
  BY NewScanIsState
<1>3. IsHeader(kind, EmptyHeader(kind))
  <2>1. IsMap(EmptyHeader(kind)) /\ \A tag \in DOMAIN EmptyHeader(kind) : EmptyHeader(kind)[tag] = Nothing
    BY DEF IsMap, EmptyHeader
  <2>2. /\ DOMAIN EmptyHeader(kind) \subseteq {"VERSION", "TARGETDURATION", "MEDIA_SEQUENCE"}
        /\ kind = "multivariant" => DOMAIN EmptyHeader(kind) \subseteq {"VERSION"}
    BY DEF EmptyHeader
  <2>3. DOMAIN EmptyHeader(kind) \subseteq IF kind = "media" THEN DOMAIN MediaHeader ELSE DOMAIN MultivariantHeader
    BY <2>2 DEF MediaHeader, MultivariantHeader
  <2>4. \A tag \in {"VERSION", "TARGETDURATION", "MEDIA_SEQUENCE"} : tag \in DOMAIN Tags /\ IsValue(tag, Nothing)
    BY TagTable DEF MediaHeader, Value, Tag, IsValue, Nothing
  <2> QED
    BY <2>1, <2>2, <2>3, <2>4 DEF IsHeader, Kind
<1>4. Begun(NewSegment) /\ NewSegment.parts = << >>
  <2>1. /\ IsSegment(NewSegment) /\ NewSegment.fields = Nothing /\ NewSegment.key = None
        /\ NewSegment.parts = << >>
    BY DEF IsSegment, NewSegment
  <2>2. Kind(Nothing) /\ IsMap(Nothing) /\ DOMAIN Nothing = {}
    BY DEF Kind, IsMap, Nothing
  <2>3. Values("PART", << >>)
    BY DEF Values, IsList
  <2> QED
    BY <2>1, <2>2, <2>3 DEF Begun, IsKey
<1>5. GoodSegments(<< >>) /\ \A tag : Values(tag, << >>)
  BY DEF GoodSegments, Values, IsList
<1> HIDE DEF s
<1>6. IsKey(None)
  BY DEF IsKey
<1>7. GoodScan(s)
  BY <1>1, <1>2, <1>3, <1>4, <1>5, <1>6 DEF GoodScan
<1> QED
  BY <1>7 DEF s

\* A list that grows.
LEMMA TextGrown ==
    ASSUME NEW text, IsList(text), NEW x
    PROVE  /\ IsList(Append(text, x)) /\ Len(Append(text, x)) = Len(text) + 1
           /\ Append(text, x)[Len(text) + 1] = x /\ Append(text, x) # << >>
           /\ \A i \in 1..Len(text) : Append(text, x)[i] = text[i]
<1>1. IsList(<< x >>)
  BY DEF IsList
<1>2. PICK S : text \in Seq(S) /\ << x >> \in Seq(S)
  BY <1>1, ListsTogether
<1>3. x \in S
  <2> DEFINE one == << x >>
  <2>1. one \in Seq(S) /\ Len(one) = 1 /\ one[1] = x
    BY <1>2
  <2> HIDE DEF one
  <2> QED
    BY <2>1
<1>4. Append(text, x) \in Seq(S)
  BY <1>2, <1>3
<1>5. IsList(Append(text, x))
  BY <1>4, SequenceIsList
<1> QED
  BY <1>2, <1>3, <1>5

\* A list of values to which one is appended.
LEMMA ListGrown ==
    ASSUME NEW tag, NEW values, Values(tag, values), NEW value, IsValue(tag, value)
    PROVE  Values(tag, Append(values, value))
<1> DEFINE more == Append(values, value)
<1>1. /\ IsList(more) /\ Len(more) = Len(values) + 1 /\ more[Len(values) + 1] = value
      /\ \A i \in 1..Len(values) : more[i] = values[i]
  BY TextGrown DEF Values
<1>2. Len(values) \in Nat
  BY DEF Values, IsList
<1> HIDE DEF more
<1>3. ASSUME NEW i \in 1..Len(more) PROVE IsValue(tag, more[i])
  <2>1. i \in 1..Len(values) \/ i = Len(values) + 1
    BY <1>1, <1>2
  <2> QED
    BY <1>1, <2>1 DEF Values
<1>4. Values(tag, more)
  BY <1>1, <1>3 DEF Values
<1> QED
  BY <1>4 DEF more

\* A list of segments to which one is appended.
LEMMA SegmentsGrown ==
    ASSUME NEW segments, GoodSegments(segments), NEW segment, GoodSegment(segment)
    PROVE  GoodSegments(Append(segments, segment))
<1> DEFINE more == Append(segments, segment)
<1>1. /\ IsList(more) /\ Len(more) = Len(segments) + 1 /\ more[Len(segments) + 1] = segment
      /\ \A i \in 1..Len(segments) : more[i] = segments[i]
  BY TextGrown DEF GoodSegments
<1>2. Len(segments) \in Nat
  BY DEF GoodSegments, IsList
<1> HIDE DEF more
<1>3. ASSUME NEW i \in 1..Len(more) PROVE GoodSegment(more[i])
  <2>1. i \in 1..Len(segments) \/ i = Len(segments) + 1
    BY <1>1, <1>2
  <2> QED
    BY <1>1, <2>1 DEF GoodSegments
<1>4. GoodSegments(more)
  BY <1>1, <1>3 DEF GoodSegments
<1> QED
  BY <1>4 DEF more

\* One tag more, or another value of one.
LEMMA MapGrown ==
    ASSUME NEW function, IsMap(function), Kind(function), NEW tag \in DOMAIN Tags, NEW value, IsValue(tag, value)
    PROVE  LET more == Over([t \in {tag} |-> value], function)
           IN  IsMap(more) /\ Kind(more) /\ DOMAIN more = DOMAIN function \union {tag}
  BY DEF Over, IsMap, Kind

\* The tags that may be read into a playlist of either kind.
MediaLine == DOMAIN MediaHeader \union DOMAIN SegmentTags \union {"KEY", "PART", "URI", "RENDITION_REPORT"}
MultivariantLine == DOMAIN MultivariantHeader \union {"STREAM_INF", "MEDIA"}

\* A line leaves the decoder well formed.
LEMMA ReadIsGood ==
    ASSUME NEW s, GoodScan(s), NEW line \in Lines,
           \/ s.kind = "media" /\ line.tag \in MediaLine
           \/ s.kind = "multivariant" /\ line.tag \in MultivariantLine
    PROVE  GoodScan(ReadLine(s, line))
<1> DEFINE tag == line.tag
           value == unmarshal(line)
<1>1. tag \in DOMAIN Tags /\ \A a \in DOMAIN line.attrs : line.attrs[a] \in Nat \union {Bad}
  BY LinesAssumption
<1>2. IsState(s) /\ s.kind \in {"media", "multivariant"} /\ IsSegment(s.curSegment)
  BY DEF GoodScan, Begun
<1>3. CASE ~Valid(line)
  <2>1. ReadLine(s, line) = NewScan(s.kind, TRUE)
    BY <1>3 DEF ReadLine, Refuse
  <2> QED
    BY <1>2, <2>1, NewScanIsGood
<1>4. ASSUME Valid(line) PROVE GoodScan(ReadLine(s, line))
  <2>1. IsValue(tag, value)
    BY <1>1, <1>4, ReadIsValue
  <2>2. CASE tag \in DOMAIN MediaHeader
    <3> DEFINE header == Over([t \in {tag} |-> value], s.header)
    <3>1. ReadLine(s, line) = AddTag(s, line)
      BY <1>4, <2>2 DEF ReadLine, MediaHeader
    <3>2. AddTag(s, line) = With(s, "header", header)
      BY DEF AddTag, Replace, With
    <3>3. IsHeader(s.kind, header)
      <4>1. IsMap(header) /\ Kind(header) /\ DOMAIN header = DOMAIN s.header \union {tag}
        <5>1. IsMap(s.header) /\ Kind(s.header)
          BY DEF GoodScan, IsHeader
        <5> HIDE DEF tag, value
        <5> QED
          BY <1>1, <2>1, <5>1, MapGrown
      <4>2. s.kind = "multivariant" => tag \in DOMAIN MultivariantHeader
        BY <2>2 DEF MultivariantLine, MediaHeader
      <4> HIDE DEF header, tag
      <4> QED
        BY <2>2, <4>1, <4>2 DEF GoodScan, IsHeader
    <3> HIDE DEF header, tag, value
    <3>4. /\ IsState(With(s, "header", header)) /\ With(s, "header", header).header = header
          /\ \A f \in Fields : f # "header" => With(s, "header", header)[f] = s[f]
      BY <1>2, WithField DEF Fields
    <3> HIDE DEF With
    <3>5. GoodScan(With(s, "header", header))
      BY <3>3, <3>4 DEF GoodScan, Fields
    <3> QED
      BY <3>1, <3>2, <3>5
  <2>3. CASE tag \in DOMAIN SegmentTags
    <3> DEFINE c == s.curSegment
               fields == Over([t \in {tag} |-> value], c.fields)
               key == IF tag = "EXTINF" THEN s.curKey ELSE c.key
               next == [fields |-> fields, key |-> key, parts |-> c.parts]
    <3>1. ReadLine(s, line) = With(s, "curSegment", next)
      BY <1>2, <1>4, <2>3, FieldRead
    <3>2. IsMap(fields) /\ Kind(fields) /\ DOMAIN fields = DOMAIN c.fields \union {tag}
      <4>1. IsMap(c.fields) /\ Kind(c.fields)
        BY DEF GoodScan, Begun
      <4> HIDE DEF c, tag, value
      <4> QED
        BY <1>1, <2>1, <4>1, MapGrown
    <3>3. IsKey(key)
      BY DEF GoodScan, Begun
    <3> HIDE DEF fields, key, tag, value
    <3>4. Begun(next) /\ next.parts = c.parts
      BY <2>3, <3>2, <3>3 DEF GoodScan, Begun, IsSegment
    <3> HIDE DEF next
    <3>5. /\ IsState(With(s, "curSegment", next)) /\ With(s, "curSegment", next).curSegment = next
          /\ \A f \in Fields : f # "curSegment" => With(s, "curSegment", next)[f] = s[f]
      BY <1>2, <3>4, WithField DEF Fields, Begun
    <3>6. GoodScan(With(s, "curSegment", next))
      BY <3>4, <3>5 DEF GoodScan, Fields
    <3> QED
      BY <3>1, <3>6
  <2>4. CASE tag = "KEY"
    <3>1. ReadLine(s, line) = With(s, "curKey", Some(value))
      BY <1>4, <2>4, ReadLineIs DEF AddKey, With
    <3>2. IsKey(Some(value))
      BY <2>1, <2>4 DEF IsKey, Some
    <3> HIDE DEF value
    <3>3. /\ IsState(With(s, "curKey", Some(value))) /\ With(s, "curKey", Some(value)).curKey = Some(value)
          /\ \A f \in Fields : f # "curKey" => With(s, "curKey", Some(value))[f] = s[f]
      BY <1>2, WithField DEF Fields
    <3>4. GoodScan(With(s, "curKey", Some(value)))
      BY <3>2, <3>3 DEF GoodScan, Fields
    <3> QED
      BY <3>1, <3>4
  <2>5. CASE tag = "PART"
    <3> DEFINE c == s.curSegment
               parts == Append(c.parts, value)
               next == [c EXCEPT !.parts = parts]
    <3>1. ReadLine(s, line) = With(s, "curSegment", next)
      <4>1. ReadLine(s, line) = AddPart(s, line)
        BY <1>4, <2>5, ReadLineIs
      <4>2. AddPart(s, line) = [s EXCEPT !.curSegment = next]
        BY <1>2, Reads
      <4> HIDE DEF next
      <4> QED
        BY <4>1, <4>2 DEF With
    <3>2. Values("PART", parts)
      BY <2>1, <2>5, ListGrown DEF GoodScan, Begun
    <3>3. s.kind = "media"
      BY <2>5 DEF MultivariantLine, MultivariantHeader
    <3> HIDE DEF parts, tag, value
    <3>4. Begun(next)
      BY <3>2 DEF GoodScan, Begun, IsSegment
    <3> HIDE DEF next
    <3>5. /\ IsState(With(s, "curSegment", next)) /\ With(s, "curSegment", next).curSegment = next
          /\ \A f \in Fields : f # "curSegment" => With(s, "curSegment", next)[f] = s[f]
      BY <1>2, <3>4, WithField DEF Fields, Begun
    <3>6. GoodScan(With(s, "curSegment", next))
      BY <3>3, <3>4, <3>5 DEF GoodScan, Fields
    <3> QED
      BY <3>1, <3>6
  <2>6. CASE tag = "URI"
    <3>1. ReadLine(s, line) = ReadURI(s)
      BY <1>4, <2>6, ReadLineIs
    <3>2. CASE ~HasDuration(s.curSegment)
      <4>1. ReadURI(s) = NewScan(s.kind, TRUE)
        BY <3>2 DEF ReadURI, Refuse
      <4> QED
        BY <1>2, <3>1, <4>1, NewScanIsGood
    <3>3. CASE HasDuration(s.curSegment)
      <4> DEFINE segments == Append(s.segments, s.curSegment)
                 mid == With(s, "segments", segments)
                 next == With(mid, "curSegment", NewSegment)
      <4>1. ReadURI(s) = next
        BY <1>2, <3>3, Reads DEF With
      <4>2. GoodSegments(segments)
        BY <3>3, SegmentsGrown DEF GoodScan, GoodSegment, Begun
      <4>3. s.kind = "media"
        BY <2>6 DEF MultivariantLine, MultivariantHeader
      <4>4. Begun(NewSegment)
        BY NewScanIsGood DEF GoodScan, NewScan
      <4> HIDE DEF segments
      <4>5. /\ IsState(mid) /\ mid.segments = segments
            /\ \A f \in Fields : f # "segments" => mid[f] = s[f]
        BY <1>2, WithField DEF Fields
      <4> HIDE DEF mid
      <4>6. /\ IsState(next) /\ next.curSegment = NewSegment
            /\ \A f \in Fields : f # "curSegment" => next[f] = mid[f]
        BY <4>4, <4>5, WithField DEF Fields, Begun
      <4> HIDE DEF next
      <4>7. GoodScan(next)
        BY <4>2, <4>3, <4>4, <4>5, <4>6 DEF GoodScan, Fields
      <4> QED
        BY <3>1, <4>1, <4>7
    <3> QED
      BY <3>2, <3>3
  <2>7. CASE tag = "RENDITION_REPORT"
    <3> DEFINE reports == Append(s.reports, value)
               next == With(s, "reports", reports)
    <3>1. ReadLine(s, line) = next
      BY <1>4, <2>7, ReadLineIs DEF AddTo, With
    <3>2. Values("RENDITION_REPORT", reports)
      BY <2>1, <2>7, ListGrown DEF GoodScan
    <3>3. s.kind = "media"
      BY <2>7 DEF MultivariantLine, MultivariantHeader
    <3> HIDE DEF reports
    <3>4. IsState(next) /\ next.reports = reports /\ \A f \in Fields : f # "reports" => next[f] = s[f]
      BY <1>2, WithField DEF Fields
    <3> HIDE DEF next
    <3>5. GoodScan(next)
      BY <3>2, <3>3, <3>4 DEF GoodScan, Fields
    <3> QED
      BY <3>1, <3>5
  <2>8. CASE tag = "STREAM_INF"
    <3> DEFINE variants == Append(s.variants, value)
               next == With(s, "variants", variants)
    <3>1. ReadLine(s, line) = next
      BY <1>4, <2>8, ReadLineIs DEF AddTo, With
    <3>2. Values("STREAM_INF", variants)
      BY <2>1, <2>8, ListGrown DEF GoodScan
    <3>3. s.kind = "multivariant"
      BY <2>8 DEF MediaLine, MediaHeader, SegmentTags
    <3> HIDE DEF variants
    <3>4. IsState(next) /\ next.variants = variants /\ \A f \in Fields : f # "variants" => next[f] = s[f]
      BY <1>2, WithField DEF Fields
    <3> HIDE DEF next
    <3>5. GoodScan(next)
      BY <3>2, <3>3, <3>4 DEF GoodScan, Fields
    <3> QED
      BY <3>1, <3>5
  <2>9. CASE tag = "MEDIA"
    <3> DEFINE renditions == Append(s.renditions, value)
               next == With(s, "renditions", renditions)
    <3>1. ReadLine(s, line) = next
      BY <1>4, <2>9, ReadLineIs DEF AddTo, With
    <3>2. Values("MEDIA", renditions)
      BY <2>1, <2>9, ListGrown DEF GoodScan
    <3>3. s.kind = "multivariant"
      BY <2>9 DEF MediaLine, MediaHeader, SegmentTags
    <3> HIDE DEF renditions
    <3>4. IsState(next) /\ next.renditions = renditions /\ \A f \in Fields : f # "renditions" => next[f] = s[f]
      BY <1>2, WithField DEF Fields
    <3> HIDE DEF next
    <3>5. GoodScan(next)
      BY <3>2, <3>3, <3>4 DEF GoodScan, Fields
    <3> QED
      BY <3>1, <3>5
  <2> QED
    BY <1>1, <2>2, <2>3, <2>4, <2>5, <2>6, <2>7, <2>8, <2>9, TagTable
<1> QED
  BY <1>3, <1>4

\* What is returned is well formed ...
LEMMA ResultIsGood ==
    ASSUME NEW s, GoodScan(s)
    PROVE  Result(s) = None \/ (Result(s) = Some(Result(s)[1]) /\ GoodPlaylist(Result(s)[1]))
<1> SUFFICES ASSUME ~(s.refused \/ ~Complete(s))
             PROVE  Result(s) = Some(Result(s)[1]) /\ GoodPlaylist(Result(s)[1])
  BY DEF Result
<1> DEFINE p == [kind |-> s.kind, header |-> s.header, segments |-> s.segments, parts |-> s.curSegment.parts,
                 reports |-> s.reports, variants |-> s.variants, renditions |-> s.renditions]
<1>1. Result(s) = Some(p)
  BY DEF Result
<1>2. /\ p.kind = s.kind /\ p.header = s.header /\ p.segments = s.segments /\ p.parts = s.curSegment.parts
      /\ p.reports = s.reports /\ p.variants = s.variants /\ p.renditions = s.renditions
      /\ IsPlaylist(p)
  BY DEF IsPlaylist
<1> HIDE DEF p
<1>3. Values("PART", s.curSegment.parts)
  BY DEF GoodScan, Begun
<1>4. GoodPlaylist(p)
  BY <1>2, <1>3 DEF GoodPlaylist, GoodScan, Complete
<1>5. Some(p)[1] = p
  BY DEF Some
<1> QED
  BY <1>1, <1>4, <1>5

\* ... and stays so when a segment loses its key.
LEMMA UnkeyedIsGood ==
    ASSUME NEW p, GoodPlaylist(p), NEW i \in 1..Len(p.segments)
    PROVE  GoodPlaylist([p EXCEPT !.segments[i].key = None])
<1> DEFINE segment == [p.segments[i] EXCEPT !.key = None]
           segments == [p.segments EXCEPT ![i] = segment]
           q == [p EXCEPT !.segments = segments]
<1>1. [p EXCEPT !.segments[i].key = None] = q
  OBVIOUS
<1>2. IsList(p.segments) /\ \A j \in 1..Len(p.segments) : GoodSegment(p.segments[j])
  BY DEF GoodPlaylist, GoodSegments
<1>3. GoodSegment(segment)
  <2>1. GoodSegment(p.segments[i])
    BY <1>2
  <2> DEFINE c == p.segments[i]
  <2> HIDE DEF c
  <2>2. GoodSegment(c) => GoodSegment([c EXCEPT !.key = None])
    BY DEF GoodSegment, IsSegment, IsKey, HasDuration
  <2> QED
    BY <2>1, <2>2 DEF c
<1> HIDE DEF segment
<1>4. /\ IsList(segments) /\ Len(segments) = Len(p.segments)
      /\ \A j \in 1..Len(p.segments) : segments[j] = IF j = i THEN segment ELSE p.segments[j]
  <2>1. PICK S : p.segments \in Seq(S)
    BY <1>2, ListsTogether
  <2>2. segments \in Seq(S \union {segment}) /\ Len(segments) = Len(p.segments)
    BY <2>1
  <2>3. \A j \in 1..Len(p.segments) : segments[j] = IF j = i THEN segment ELSE p.segments[j]
    BY <2>1
  <2> QED
    BY <2>2, <2>3, SequenceIsList
<1> HIDE DEF segments
<1>5. GoodSegments(segments)
  BY <1>2, <1>3, <1>4 DEF GoodSegments
<1>6. segments # << >>
  <2>1. Len(segments) # 0
    BY <1>4, <1>2 DEF IsList
  <2> QED
    BY <2>1
<1>7. p.kind = "media"
  BY DEF GoodPlaylist
<1>8. /\ q.kind = p.kind /\ q.header = p.header /\ q.segments = segments /\ q.parts = p.parts
      /\ q.reports = p.reports /\ q.variants = p.variants /\ q.renditions = p.renditions
      /\ IsPlaylist(q)
  <2>1. IsPlaylist(p)
    BY DEF GoodPlaylist
  <2> QED
    BY <2>1 DEF IsPlaylist
<1> HIDE DEF q
<1>9. GoodPlaylist(q)
  BY <1>5, <1>6, <1>7, <1>8 DEF GoodPlaylist
<1> QED
  BY <1>1, <1>9

\* The invariant holds at first,
LEMMA WellFormedFirst == Init => WellFormed
<1> SUFFICES ASSUME Init PROVE WellFormed
  OBVIOUS
<1>1. PICK kind \in {"media", "multivariant"} : scan = Begin(kind)
  BY DEF Init
<1>2. GoodScan(scan)
  BY <1>1, NewScanIsGood DEF Begin
<1> QED
  BY <1>2 DEF WellFormed, Init

\* The steps of the reader keep everything well formed.
LEMMA WellFormedNext == WellFormed /\ [Next]_vars => WellFormed'
<1> SUFFICES ASSUME WellFormed, [Next]_vars PROVE WellFormed'
  OBVIOUS
<1>1. ASSUME NEW kind, NEW tags, Read(kind, tags),
             \/ kind = "media" /\ tags \subseteq MediaLine
             \/ kind = "multivariant" /\ tags \subseteq MultivariantLine
      PROVE  WellFormed'
  <2>1. PICK line \in Lines : line.tag \in tags /\ scan' = ReadLine(scan, line)
    BY <1>1 DEF Read
  <2>2. scan.kind = kind /\ playlist = None /\ playlist' = None
    BY <1>1 DEF Read
  <2>3. GoodScan(ReadLine(scan, line))
    BY <1>1, <2>1, <2>2, ReadIsGood DEF WellFormed
  <2> QED
    BY <2>1, <2>2, <2>3 DEF WellFormed
<1>2. CASE ReadHeaderTag
  BY <1>1, <1>2 DEF ReadHeaderTag, MediaLine
<1>3. CASE ReadSegmentTag
  BY <1>1, <1>3 DEF ReadSegmentTag, MediaLine
<1>4. CASE ReadKey
  BY <1>1, <1>4 DEF ReadKey, MediaLine
<1>5. CASE ReadPart
  BY <1>1, <1>5 DEF ReadPart, MediaLine
<1>6. CASE ReadSegment
  BY <1>1, <1>6 DEF ReadSegment, MediaLine
<1>7. CASE ReadReport
  BY <1>1, <1>7 DEF ReadReport, MediaLine
<1>8. CASE ReadMultivariantTag
  BY <1>1, <1>8 DEF ReadMultivariantTag, MultivariantLine
<1>9. CASE ReadVariant
  BY <1>1, <1>9 DEF ReadVariant, MultivariantLine
<1>10. CASE ReadRendition
  BY <1>1, <1>10 DEF ReadRendition, MultivariantLine
<1>11. CASE Return
  <2>1. GoodScan(scan) /\ scan.kind \in {"media", "multivariant"}
    BY DEF WellFormed, GoodScan
  <2>2. scan' = NewScan(scan.kind, FALSE) /\ playlist' = Result(scan)
    BY <1>11 DEF Return, Begin
  <2>3. GoodScan(scan)'
    BY <2>1, <2>2, NewScanIsGood
  <2> QED
    BY <2>1, <2>2, <2>3, ResultIsGood DEF WellFormed
<1>12. CASE ClearKey
  <2>1. PICK i \in 1..Len(playlist[1].segments) :
            playlist' = Some([playlist[1] EXCEPT !.segments[i].key = None])
    BY <1>12 DEF ClearKey
  <2>2. playlist # None /\ scan' = scan
    BY <1>12 DEF ClearKey
  <2> DEFINE q == [playlist[1] EXCEPT !.segments[i].key = None]
  <2>3. GoodPlaylist(q)
    BY <2>2, UnkeyedIsGood DEF WellFormed
  <2> HIDE DEF q
  <2>4. playlist' = Some(q) /\ Some(q)[1] = q
    BY <2>1 DEF q, Some
  <2> QED
    BY <2>2, <2>3, <2>4 DEF WellFormed
<1>13. CASE UNCHANGED vars
  BY <1>13 DEF WellFormed, vars
<1> QED
  BY <1>2, <1>3, <1>4, <1>5, <1>6, <1>7, <1>8, <1>9, <1>10, <1>11, <1>12, <1>13 DEF Next

\* From the invariant follows that a playlist is read again.
LEMMA WellFormedReadsBack == WellFormed => ReadBack
<1>1. CASE playlist = None
  BY <1>1 DEF ReadBack
<1>2. CASE playlist # None
  BY <1>2, GoodReadBack DEF WellFormed
<1> QED
  BY <1>1, <1>2

\* Of whatever texts, what has been read of one is printed so that it can be read again.
THEOREM ReadBackOfTexts == Spec => []ReadBack
<1>1. Spec => []WellFormed
  BY WellFormedFirst, WellFormedNext, PTL DEF Spec
<1> QED
  BY <1>1, WellFormedReadsBack, PTL

--------------------------------------------------------------------------------
(***************************************************************************)
(* A muxer that has been started, and its streams.                         *)
(***************************************************************************)

\* A set of at most one element has no other.
LEMMA OnlyElement ==
    ASSUME NEW S, IsFiniteSet(S), Cardinality(S) <= 1, NEW x \in S
    PROVE  S = {x}
<1>1. IsFiniteSet({x}) /\ Cardinality({x}) = 1 /\ {x} \subseteq S
  BY FS_Singleton
<1>2. Cardinality(S) \in Nat
  BY FS_CardinalityType
<1>3. Cardinality({x}) <= Cardinality(S)
  BY <1>1, FS_Subset
<1> QED
  BY <1>1, <1>2, <1>3, FS_Subset

\* The tracks of a muxer that has been started.
LEMMA SomeTracks ==
    ASSUME NEW m \in Configurations, Accepted(m)
    PROVE  /\ m.variant \in {"LL", "FMP4", "MPEGTS"}
           /\ Len(m.tracks) \in Nat /\ Len(m.tracks) # 0
           /\ \A i \in 1..Len(m.tracks) :
                /\ m.tracks[i].codec \in Codecs /\ m.tracks[i].name \in Nat /\ m.tracks[i].language \in Nat
                /\ m.tracks[i].isDefault \in {NO, YES}
<1>1. m.variant \in {"LL", "FMP4", "MPEGTS"} /\ m.tracks \in Seq(Track)
  BY IndexAssumption
<1>2. m.tracks # << >>
  BY DEF Accepted
<1>3. \A i \in 1..Len(m.tracks) : m.tracks[i] \in Track
  BY <1>1
<1> QED
  BY <1>1, <1>2, <1>3 DEF Track

\* There is a leading track: the video one, or else the first audio one.
LEMMA LeadingTrack ==
    ASSUME NEW m \in Configurations, Accepted(m)
    PROVE  LET tracks == m.tracks
               leading == leadingTrackIndex(tracks)
           IN  /\ leading \in 1..Len(tracks) /\ leading \notin Data(tracks)
               /\ Videos(tracks) # {} => Videos(tracks) = {leading}
               /\ Videos(tracks) = {} => \A i \in Audios(tracks) : leading <= i
<1> DEFINE tracks == m.tracks
           leading == leadingTrackIndex(tracks)
<1>1. Len(tracks) \in Nat /\ Len(tracks) # 0 /\ m.variant \in {"LL", "FMP4", "MPEGTS"}
  BY SomeTracks
<1>2. /\ Videos(tracks) \subseteq 1..Len(tracks) /\ Audios(tracks) \subseteq 1..Len(tracks)
      /\ Data(tracks) \subseteq 1..Len(tracks)
      /\ Videos(tracks) \intersect Data(tracks) = {} /\ Audios(tracks) \intersect Data(tracks) = {}
      /\ Videos(tracks) \union Audios(tracks) \union Data(tracks) = 1..Len(tracks)
  BY DEF Videos, Audios, Data, IsVideo
<1>3. Carried(m.variant, tracks)
  BY DEF Accepted
<1>4. Videos(tracks) \union Audios(tracks) # {}
  <2>1. CASE m.variant = "MPEGTS"
    BY <1>3, <2>1 DEF Carried
  <2>2. CASE m.variant # "MPEGTS"
    <3>1. Data(tracks) = {} /\ 1 \in 1..Len(tracks)
      BY <1>1, <1>3, <2>2 DEF Carried
    <3> QED
      BY <1>2, <3>1
  <2> QED
    BY <2>1, <2>2
<1>5. CASE Videos(tracks) # {}
  <2>1. PICK v : v \in Videos(tracks)
    BY <1>5
  <2>2. IsFiniteSet(Videos(tracks)) /\ Cardinality(Videos(tracks)) <= 1
    <3>1. IsFiniteSet(1..Len(tracks))
      BY <1>1, FS_Interval
    <3> QED
      BY <1>2, <1>3, <3>1, FS_Subset DEF Carried
  <2>3. Videos(tracks) = {v}
    BY <2>1, <2>2, OnlyElement
  <2>4. leading \in Videos(tracks)
    <3>1. Videos(tracks) \in SUBSET Nat
      BY <1>2
    <3>2. Min(Videos(tracks)) \in Videos(tracks)
      BY <1>5, <3>1, MinOfNaturals
    <3> QED
      BY <1>5, <3>2 DEF leadingTrackIndex
  <2> QED
    BY <1>2, <1>5, <2>3, <2>4
<1>6. CASE Videos(tracks) = {}
  <2>1. Audios(tracks) \in SUBSET Nat /\ Audios(tracks) # {}
    BY <1>2, <1>4, <1>6
  <2>2. Min(Audios(tracks)) \in Audios(tracks) /\ \A i \in Audios(tracks) : Min(Audios(tracks)) <= i
    BY <2>1, MinOfNaturals
  <2>3. leading = Min(Audios(tracks))
    BY <1>6 DEF leadingTrackIndex
  <2> QED
    BY <1>2, <1>6, <2>2, <2>3
<1> QED
  BY <1>5, <1>6

\* The streams of a muxer that has a stream for each track.
LEMMA TrackStreams ==
    ASSUME NEW m \in Configurations, Accepted(m), m.variant # "MPEGTS"
    PROVE  LET all == NewStreams(m)
               tracks == m.tracks
           IN  /\ IsList(all) /\ Len(all) = Len(tracks)
               /\ \A i \in 1..Len(tracks) :
                    /\ all[i].tracks = << i >> /\ all[i].language = tracks[i].language
                    /\ all[i].isLeading <=> i = leadingTrackIndex(tracks)
                    /\ all[i].isRendition <=> isRendition(tracks, i)
                    /\ isRendition(tracks, i) =>
                         all[i].name = (IF tracks[i].name # 0 THEN tracks[i].name ELSE DefaultName(i))
                    /\ ~isRendition(tracks, i) => all[i].name = 0
                    /\ all[i].isDefault = IF isDefault(tracks, i) THEN YES ELSE NO
<1> DEFINE all == NewStreams(m)
           tracks == m.tracks
<1>1. Len(tracks) \in Nat
  BY SomeTracks
<1>2. all = [i \in 1..Len(tracks) |-> NewStream(tracks, i)]
  BY <1>1 DEF NewStreams
<1>3. IsList(all) /\ Len(all) = Len(tracks) /\ \A i \in 1..Len(tracks) : all[i] = NewStream(tracks, i)
  BY <1>1, <1>2 DEF IsList
<1> HIDE DEF all
<1>4. ASSUME NEW i \in 1..Len(tracks)
      PROVE  LET stream == NewStream(tracks, i)
             IN  /\ stream.tracks = << i >> /\ stream.language = tracks[i].language
                 /\ stream.isLeading <=> i = leadingTrackIndex(tracks)
                 /\ stream.isRendition <=> isRendition(tracks, i)
                 /\ isRendition(tracks, i) =>
                      stream.name = (IF tracks[i].name # 0 THEN tracks[i].name ELSE DefaultName(i))
                 /\ ~isRendition(tracks, i) => stream.name = 0
                 /\ stream.isDefault = IF isDefault(tracks, i) THEN YES ELSE NO
  BY DEF NewStream
<1> QED
  BY <1>3, <1>4 DEF all

\* The streams of any muxer: one of them leads, and the others are renditions.
LEMMA MuxerStreams ==
    ASSUME NEW m \in Configurations, Accepted(m)
    PROVE  LET all == NewStreams(m)
           IN  /\ IsList(all) /\ Len(all) \in Nat
               /\ Leading(all) \in 1..Len(all)
               /\ Leading(all) = IF m.variant = "MPEGTS" THEN 1 ELSE leadingTrackIndex(m.tracks)
               /\ Renditions(all) \subseteq 1..Len(all) /\ Renditions(all) \union {Leading(all)} = 1..Len(all)
               /\ m.variant = "MPEGTS" => Len(all) = 1 /\ Renditions(all) = {}
               /\ \A i \in 1..Len(all) :
                    /\ all[i].isLeading <=> i = Leading(all)
                    /\ all[i].name \in Nat /\ all[i].language \in Nat /\ all[i].isDefault \in {NO, YES}
<1> DEFINE all == NewStreams(m)
           tracks == m.tracks
           leading == leadingTrackIndex(tracks)
<1>1. CASE m.variant = "MPEGTS"
  <2> DEFINE places == [i \in 1..Len(tracks) |-> i]
             one == [tracks |-> places, isLeading |-> TRUE, isRendition |-> FALSE, name |-> 0, language |-> 0,
                     isDefault |-> NO]
  <2>1. all = << one >>
    BY <1>1 DEF NewStreams
  <2>2. one.isLeading /\ ~one.isRendition /\ one.name = 0 /\ one.language = 0 /\ one.isDefault = NO
    OBVIOUS
  <2> HIDE DEF all, one
  <2>3. Len(all) = 1 /\ IsList(all) /\ all[1] = one
    BY <2>1 DEF IsList
  <2>4. Renditions(all) = {}
    BY <2>2, <2>3 DEF Renditions
  <2>5. 1..Len(all) = {1} /\ Leading(all) = 1
    BY <2>2, <2>3 DEF Leading
  <2> QED
    BY <1>1, <2>2, <2>3, <2>4, <2>5 DEF all, NO
<1>2. CASE m.variant # "MPEGTS"
  <2>1. /\ leading \in 1..Len(tracks) /\ Len(tracks) \in Nat
        /\ \A i \in 1..Len(tracks) : tracks[i].name \in Nat /\ tracks[i].language \in Nat
    BY LeadingTrack, SomeTracks
  <2>2. /\ IsList(all) /\ Len(all) = Len(tracks)
        /\ \A i \in 1..Len(tracks) :
             /\ all[i].language = tracks[i].language
             /\ all[i].isLeading <=> i = leading
             /\ all[i].isRendition <=> isRendition(tracks, i)
             /\ isRendition(tracks, i) =>
                  all[i].name = (IF tracks[i].name # 0 THEN tracks[i].name ELSE DefaultName(i))
             /\ ~isRendition(tracks, i) => all[i].name = 0
             /\ all[i].isDefault = IF isDefault(tracks, i) THEN YES ELSE NO
    BY <1>2, TrackStreams
  <2> HIDE DEF all, leading
  <2>3. Leading(all) = leading
    BY <2>1, <2>2 DEF Leading
  <2>4. \A i \in 1..Len(tracks) : i # leading => isRendition(tracks, i)
    BY DEF isRendition, leading
  <2>5. Renditions(all) \subseteq 1..Len(all) /\ Renditions(all) \union {leading} = 1..Len(all)
    BY <2>1, <2>2, <2>4 DEF Renditions
  <2>6. \A i \in 1..Len(tracks) : all[i].name \in Nat /\ all[i].isDefault \in {NO, YES}
    BY <2>1, <2>2 DEF DefaultName
  <2> QED
    BY <1>2, <2>1, <2>2, <2>3, <2>5, <2>6 DEF all, leading
<1> QED
  BY <1>1, <1>2

\* The codecs of a muxer are supported or not; there are some.
LEMMA CodecsGiven ==
    ASSUME NEW m \in Configurations, Accepted(m)
    PROVE  CodecsOf(m.tracks) \in {Supported, Unsupported}
<1>1. leadingTrackIndex(m.tracks) \in 1..Len(m.tracks) /\ leadingTrackIndex(m.tracks) \notin Data(m.tracks)
  BY LeadingTrack
<1>2. leadingTrackIndex(m.tracks) \in Videos(m.tracks) \union Audios(m.tracks)
  BY <1>1 DEF Audios
<1> HIDE DEF Videos, Audios
<1> QED
  BY <1>2 DEF CodecsOf

--------------------------------------------------------------------------------
(***************************************************************************)
(* The multivariant playlist.                                              *)
(***************************************************************************)

\* Attributes that are zero are not kept, and are read as zero.
LEMMA GivenOnly ==
    ASSUME NEW value
    PROVE  /\ DOMAIN Given(value) = {a \in DOMAIN value : value[a] # 0}
           /\ \A a \in DOMAIN Given(value) : Given(value)[a] = value[a]
           /\ Given(value) = [a \in DOMAIN Given(value) |-> Given(value)[a]]
           /\ \A a \in DOMAIN value : Attribute(Given(value), a) = value[a]
  BY DEF Given, Attribute, Has

\* The variant of an index is one that may be read.
LEMMA VariantGiven ==
    ASSUME NEW m \in Configurations, Accepted(m)
    PROVE  LET all == NewStreams(m)
               variant == variantOf(m.tracks, all)
           IN  /\ IsValue("STREAM_INF", variant)
               /\ {"URI", "CODECS", "BANDWIDTH"} \subseteq DOMAIN variant
               /\ variant["URI"] = Leading(all) /\ variant["CODECS"] = CodecsOf(m.tracks)
               /\ variant["BANDWIDTH"] = Text
               /\ "AUDIO" \in DOMAIN variant <=> Renditions(all) # {}
               /\ "AUDIO" \in DOMAIN variant => variant["AUDIO"] = Text
<1> DEFINE all == NewStreams(m)
           variant == variantOf(m.tracks, all)
           resolution == IF Videos(m.tracks) = {} THEN 0 ELSE Text
           rate == IF \E i \in Videos(m.tracks) : m.tracks[i].codec \in {"H264", "H265"} THEN Text ELSE 0
           audio == IF Renditions(all) = {} THEN 0 ELSE Text
           value == [BANDWIDTH |-> Text, AVERAGE_BANDWIDTH |-> Text, CODECS |-> CodecsOf(m.tracks),
                     RESOLUTION |-> resolution, FRAME_RATE |-> rate, AUDIO |-> audio, URI |-> Leading(all)]
<1>1. variant = Given(value)
  BY DEF variantOf
<1>2. /\ CodecsOf(m.tracks) \in {Supported, Unsupported}
      /\ Leading(all) \in Nat /\ Leading(all) # 0
  BY CodecsGiven, MuxerStreams
<1>3. resolution \in {0, Text} /\ rate \in {0, Text} /\ audio \in {0, Text} /\ (audio = Text <=> Renditions(all) # {})
  BY DEF Text
<1> HIDE DEF resolution, rate, audio, all, variant
<1>4. /\ DOMAIN value = {"BANDWIDTH", "AVERAGE_BANDWIDTH", "CODECS", "RESOLUTION", "FRAME_RATE", "AUDIO", "URI"}
      /\ value["BANDWIDTH"] = Text /\ value["CODECS"] = CodecsOf(m.tracks) /\ value["URI"] = Leading(all)
      /\ value["AUDIO"] = audio /\ \A a \in DOMAIN value : value[a] \in Nat
  BY <1>2, <1>3 DEF Text, Supported, Unsupported
<1> HIDE DEF value
<1>5. /\ DOMAIN variant = {a \in DOMAIN value : value[a] # 0}
      /\ \A a \in DOMAIN variant : variant[a] = value[a]
      /\ variant = [a \in DOMAIN variant |-> variant[a]]
  BY <1>1, GivenOnly
<1>6. {"URI", "CODECS", "BANDWIDTH"} \subseteq DOMAIN variant
  BY <1>2, <1>4, <1>5 DEF Text, Supported, Unsupported
<1>7. IsValue("STREAM_INF", variant)
  <2>1. Tags["STREAM_INF"].required = {"URI"}
        /\ DOMAIN value \subseteq Tags["STREAM_INF"].plain \union Tags["STREAM_INF"].kept
    BY <1>4, TagTable DEF Variant, Tag
  <2> QED
    BY <1>4, <1>5, <1>6, <2>1 DEF IsValue
<1>8. "AUDIO" \in DOMAIN variant <=> audio = Text
  BY <1>3, <1>4, <1>5 DEF Text
<1> QED
  BY <1>3, <1>4, <1>5, <1>6, <1>7, <1>8 DEF all, variant

\* So is each rendition, which has a URI unless it is in the stream of the variant.
LEMMA RenditionGiven ==
    ASSUME NEW m \in Configurations, Accepted(m), NEW i \in Renditions(NewStreams(m))
    PROVE  LET stream == NewStreams(m)[i]
               rendition == renditionOf(i, stream)
           IN  /\ IsValue("MEDIA", rendition)
               /\ rendition["GROUP_ID"] = Text
               /\ "URI" \in DOMAIN rendition <=> i # Leading(NewStreams(m))
               /\ "URI" \in DOMAIN rendition => rendition["URI"] = i
               /\ Attribute(rendition, "NAME") = stream.name
               /\ Attribute(rendition, "LANGUAGE") = stream.language
               /\ Attribute(rendition, "DEFAULT") = stream.isDefault
<1> DEFINE stream == NewStreams(m)[i]
           rendition == renditionOf(i, stream)
           name == stream.name
           language == stream.language
           default == stream.isDefault
           uri == IF stream.isLeading THEN 0 ELSE i
           value == [TYPE |-> AUDIO, GROUP_ID |-> Text, NAME |-> name, LANGUAGE |-> language,
                     AUTOSELECT |-> YES, DEFAULT |-> default, URI |-> uri]
<1>1. rendition = Given(value)
  BY DEF renditionOf
<1>2. /\ i \in Nat /\ i # 0 /\ name \in Nat /\ language \in Nat /\ default \in {NO, YES}
      /\ uri = IF i = Leading(NewStreams(m)) THEN 0 ELSE i
  BY MuxerStreams
<1> HIDE DEF stream, rendition, name, language, default, uri
<1>3. /\ DOMAIN value = {"TYPE", "GROUP_ID", "NAME", "LANGUAGE", "AUTOSELECT", "DEFAULT", "URI"}
      /\ value["TYPE"] = AUDIO /\ value["GROUP_ID"] = Text /\ value["NAME"] = name /\ value["LANGUAGE"] = language
      /\ value["DEFAULT"] = default /\ value["URI"] = uri /\ \A a \in DOMAIN value : value[a] \in Nat
  BY <1>2 DEF AUDIO, Text, YES, NO
<1> HIDE DEF value
<1>4. /\ DOMAIN rendition = {a \in DOMAIN value : value[a] # 0}
      /\ \A a \in DOMAIN rendition : rendition[a] = value[a]
      /\ rendition = [a \in DOMAIN rendition |-> rendition[a]]
      /\ \A a \in DOMAIN value : Attribute(rendition, a) = value[a]
  BY <1>1, GivenOnly
<1>5. {"TYPE", "GROUP_ID"} \subseteq DOMAIN rendition
  BY <1>3, <1>4 DEF AUDIO, Text
<1>6. IsValue("MEDIA", rendition)
  <2>1. /\ Tags["MEDIA"].required = {"TYPE", "GROUP_ID"}
        /\ DOMAIN value \subseteq Tags["MEDIA"].plain \union Tags["MEDIA"].kept
    BY <1>3, TagTable DEF Rendition, Tag
  <2>2. RenditionValid(rendition)
    BY <1>3, <1>4, <1>5 DEF RenditionValid, Has, AUDIO, SUBTITLES, CLOSED_CAPTIONS
  <2> QED
    BY <1>3, <1>4, <1>5, <2>1, <2>2 DEF IsValue
<1>7. "URI" \in DOMAIN rendition <=> i # Leading(NewStreams(m))
  BY <1>2, <1>3, <1>4
<1>8. "URI" \in DOMAIN rendition => rendition["URI"] = i
  BY <1>2, <1>3, <1>4
<1> QED
  BY <1>3, <1>4, <1>5, <1>6, <1>7, <1>8 DEF stream, rendition, name, language, default

RenditionsOf(all) == [i \in 1..Len(all) |-> renditionOf(i, all[i])]

\* The index, part by part.
LEMMA PlaylistParts ==
    ASSUME NEW m, NEW all
    PROVE  LET p == generateMultivariantPlaylist(m, all)
           IN  /\ IsPlaylist(p) /\ p.kind = "multivariant"
               /\ p.header = [VERSION |-> [VALUE |-> IF m.variant = "MPEGTS" THEN 3 ELSE 10],
                              INDEPENDENT_SEGMENTS |-> Nothing]
               /\ p.segments = << >> /\ p.parts = << >> /\ p.reports = << >>
               /\ p.variants = << variantOf(m.tracks, all) >>
               /\ p.renditions = FlattenSeq([i \in 1..Len(all) |->
                                     IF all[i].isRendition THEN << renditionOf(i, all[i]) >> ELSE << >>])
  BY DEF generateMultivariantPlaylist, IsPlaylist

\* Each stream that is a rendition is listed once.
LEMMA RenditionsListed ==
    ASSUME NEW m \in Configurations, Accepted(m)
    PROVE  LET all == NewStreams(m)
           IN  Lists(generateMultivariantPlaylist(m, all).renditions, RenditionsOf(all), Renditions(all))
<1> DEFINE all == NewStreams(m)
           f == RenditionsOf(all)
           b == [i \in 1..Len(all) |-> IF all[i].isRendition THEN << renditionOf(i, all[i]) >> ELSE << >>]
<1>1. Len(all) \in Nat
  BY MuxerStreams
<1>2. generateMultivariantPlaylist(m, all).renditions = FlattenSeq(b)
  BY PlaylistParts
<1> HIDE DEF all
<1>3. b = [i \in 1..Len(all) |-> IF i \in Renditions(all) THEN << f[i] >> ELSE << >>]
  BY DEF Renditions, RenditionsOf
<1>4. Renditions(all) \in SUBSET (1..Len(all))
  BY DEF Renditions
<1> HIDE DEF b, f
<1>5. Lists(FlattenSeq(b), f, Renditions(all))
  BY <1>1, <1>3, <1>4, ChosenListed
<1> QED
  BY <1>2, <1>5 DEF all, f

\* The index may be read.
LEMMA GeneratedIsGood ==
    ASSUME NEW m \in Configurations, Accepted(m)
    PROVE  LET p == generateMultivariantPlaylist(m, NewStreams(m)) IN GoodPlaylist(p) /\ ~Unreadable(p)
<1> DEFINE all == NewStreams(m)
           p == generateMultivariantPlaylist(m, all)
           variant == variantOf(m.tracks, all)
           version == IF m.variant = "MPEGTS" THEN 3 ELSE 10
<1>1. /\ IsPlaylist(p) /\ p.kind = "multivariant"
      /\ p.header = [VERSION |-> [VALUE |-> version], INDEPENDENT_SEGMENTS |-> Nothing]
      /\ p.segments = << >> /\ p.parts = << >> /\ p.reports = << >>
      /\ p.variants = << variant >>
  BY PlaylistParts
<1>2. Lists(p.renditions, RenditionsOf(all), Renditions(all))
  BY RenditionsListed
<1>3. /\ IsValue("STREAM_INF", variant)
      /\ \A i \in Renditions(all) : IsValue("MEDIA", renditionOf(i, all[i]))
  BY VariantGiven, RenditionGiven
<1>4. version \in Nat /\ version # 0
  OBVIOUS
<1> HIDE DEF all, p, variant, version
<1>5. \A i \in Renditions(all) : RenditionsOf(all)[i] = renditionOf(i, all[i])
  BY DEF RenditionsOf, Renditions
<1>6. Values("MEDIA", p.renditions)
  BY <1>2, <1>3, <1>5, WhatIsListed DEF Values
<1>7. Values("STREAM_INF", p.variants) /\ p.variants # << >>
  BY <1>1, <1>3 DEF Values, IsList
<1>8. /\ DOMAIN p.header = {"VERSION", "INDEPENDENT_SEGMENTS"} /\ IsMap(p.header)
      /\ p.header["VERSION"] = [VALUE |-> version] /\ p.header["INDEPENDENT_SEGMENTS"] = Nothing
  BY <1>1 DEF IsMap
<1>9. /\ Tags["VERSION"] = Value /\ Tags["INDEPENDENT_SEGMENTS"] = Flag
      /\ {"VERSION", "INDEPENDENT_SEGMENTS"} \subseteq DOMAIN Tags
  BY TagTable DEF MediaHeader
<1>10. IsValue("VERSION", [VALUE |-> version]) /\ IsValue("INDEPENDENT_SEGMENTS", Nothing)
  BY <1>4, <1>9 DEF IsValue, Value, Flag, Tag, Nothing
<1>11. Kind(p.header)
  BY <1>8, <1>9, <1>10 DEF Kind
<1>12. Readable(p.header)
  BY <1>8, <1>9 DEF Readable, Vanishes, Value, Flag, Tag
<1>13. IsHeader("multivariant", p.header)
  BY <1>8, <1>11 DEF IsHeader, EmptyHeader, MultivariantHeader
<1>14. GoodSegments(<< >>) /\ Values("PART", << >>) /\ Values("RENDITION_REPORT", << >>)
  BY DEF GoodSegments, Values, IsList
<1>15. GoodPlaylist(p)
  BY <1>1, <1>6, <1>7, <1>13, <1>14 DEF GoodPlaylist
<1>16. ~Unreadable(p)
  BY <1>1, <1>12, <1>15, UnreadablePlaces
<1> QED
  BY <1>15, <1>16 DEF p, all

\* What is left of the variant and of the renditions.
LEMMA IndexLeft ==
    ASSUME NEW m \in Configurations, Accepted(m)
    PROVE  LET all == NewStreams(m)
               p == generateMultivariantPlaylist(m, all)
               q == PlaylistLeft(p)
               variant == variantOf(m.tracks, all)
           IN  /\ q.renditions = p.renditions
               /\ Len(q.variants) = 1
               /\ DOMAIN q.variants[1] = DOMAIN variant
               /\ \A a \in {"URI", "CODECS", "BANDWIDTH", "AUDIO"} : Attribute(q.variants[1], a) = Attribute(variant, a)
<1> DEFINE all == NewStreams(m)
           p == generateMultivariantPlaylist(m, all)
           q == PlaylistLeft(p)
           variant == variantOf(m.tracks, all)
<1>1. p.variants = << variant >> /\ GoodPlaylist(p)
  BY PlaylistParts, GeneratedIsGood
<1>2. IsValue("STREAM_INF", variant) /\ "CODECS" \in DOMAIN variant
  BY VariantGiven
<1> HIDE DEF all, p, variant
<1>3. q.variants = FirstLeft("STREAM_INF", p.variants, Len(p.variants)) /\ q.renditions = AllRemain("MEDIA", p.renditions)
  BY DEF PlaylistLeft
<1> HIDE DEF q
<1>4. \A value : IsValue("MEDIA", value) => Remains("MEDIA", value) = value
  <2> TAKE value
  <2> HAVE IsValue("MEDIA", value)
  <2>1. "MEDIA" \in DOMAIN Tags /\ Tags["MEDIA"].times = {}
    BY TagTable DEF Rendition, Tag
  <2>2. Rounded("MEDIA", value) = [a \in DOMAIN value |-> value[a]]
    BY <2>1 DEF Rounded
  <2>3. Remains("MEDIA", value) = [a \in DOMAIN value |-> Rounded("MEDIA", value)[a]]
    BY DEF Remains
  <2> QED
    BY <2>2, <2>3 DEF IsValue
<1>5. q.renditions = p.renditions
  <2>1. IsList(p.renditions) /\ \A i \in 1..Len(p.renditions) : IsValue("MEDIA", p.renditions[i])
    BY <1>1 DEF GoodPlaylist, Values
  <2> QED
    BY <1>3, <1>4, <2>1 DEF AllRemain, IsList
<1>6. Len(q.variants) = 1 /\ q.variants[1] = VariantRemains(variant)
  BY <1>1, <1>3 DEF FirstLeft, Left
<1>7. Tags["STREAM_INF"].times = {"FRAME_RATE"}
  BY TagTable DEF Variant, Tag
<1>8. /\ DOMAIN Rounded("STREAM_INF", variant) = DOMAIN variant
      /\ \A a \in DOMAIN variant : a # "FRAME_RATE" => Rounded("STREAM_INF", variant)[a] = variant[a]
  BY <1>7 DEF Rounded
<1>9. Remains("STREAM_INF", variant) = [a \in DOMAIN variant |-> Rounded("STREAM_INF", variant)[a]]
  BY DEF Remains
<1>10. DOMAIN VariantRemains(variant) = DOMAIN variant
       /\ \A a \in DOMAIN variant : a # "FRAME_RATE" => VariantRemains(variant)[a] = variant[a]
  BY <1>2, <1>8, <1>9 DEF VariantRemains, Over
<1> QED
  BY <1>5, <1>6, <1>10 DEF Attribute, Has, q, p, all, variant

--------------------------------------------------------------------------------
(***************************************************************************)
(* The invariant.                                                          *)
(***************************************************************************)

\* Streams are those of the muxer, and an index is that of the streams.
IndexWellFormed ==
    /\ WellFormed
    /\ muxer # None => muxer = Some(muxer[1]) /\ muxer[1] \in Configurations
    /\ streams # None => muxer # None /\ Accepted(muxer[1]) /\ streams = Some(NewStreams(muxer[1]))
    /\ muxer # None /\ playlist # None =>
        streams # None /\ playlist = Some(generateMultivariantPlaylist(muxer[1], streams[1]))
    /\ received # None => streams # None

\* The invariant holds at first,
LEMMA IndexWellFormedFirst == IndexInit => IndexWellFormed
<1> SUFFICES ASSUME IndexInit PROVE IndexWellFormed
  OBVIOUS
<1>1. Init /\ streams = None /\ received = None /\ muxer \in {None} \union {Some(m) : m \in Configurations}
  BY DEF IndexInit
<1>2. playlist = None
  BY <1>1 DEF Init
<1>3. muxer # None => muxer = Some(muxer[1]) /\ muxer[1] \in Configurations
  BY <1>1 DEF Some
<1> QED
  BY <1>1, <1>2, <1>3, WellFormedFirst DEF IndexWellFormed

\* and every step keeps it.
LEMMA IndexWellFormedNext == IndexWellFormed /\ [IndexNext]_<< vars, indexVars >> => IndexWellFormed'
<1> SUFFICES ASSUME IndexWellFormed, [IndexNext]_<< vars, indexVars >> PROVE IndexWellFormed'
  OBVIOUS
<1>1. CASE ReadElsewhere
  <2>1. WellFormed'
    BY <1>1, WellFormedNext DEF IndexWellFormed, ReadElsewhere
  <2>2. muxer = None /\ muxer' = muxer /\ streams' = streams /\ received' = received
    BY <1>1 DEF ReadElsewhere, indexVars
  <2> QED
    BY <2>1, <2>2 DEF IndexWellFormed
<1>2. CASE StartMuxer
  <2>1. /\ muxer # None /\ streams = None /\ Accepted(muxer[1]) /\ streams' = Some(NewStreams(muxer[1]))
        /\ scan' = scan /\ playlist' = playlist /\ muxer' = muxer /\ received' = received
    BY <1>2 DEF StartMuxer
  <2>2. WellFormed' /\ playlist = None /\ streams' # None
    BY <2>1 DEF IndexWellFormed, WellFormed, Some, None
  <2> QED
    BY <2>1, <2>2 DEF IndexWellFormed
<1>3. CASE AnswerIndex
  <2> DEFINE p == generateMultivariantPlaylist(muxer[1], streams[1])
  <2>1. /\ streams # None /\ playlist = None /\ playlist' = Some(p)
        /\ scan' = scan /\ muxer' = muxer /\ streams' = streams /\ received' = received
    BY <1>3 DEF AnswerIndex
  <2>2. muxer[1] \in Configurations /\ Accepted(muxer[1]) /\ streams[1] = NewStreams(muxer[1])
    BY <2>1 DEF IndexWellFormed, Some
  <2>3. GoodPlaylist(p)
    BY <2>2, GeneratedIsGood
  <2> HIDE DEF p
  <2>4. playlist' # None /\ playlist'[1] = p /\ GoodScan(scan)
    BY <2>1 DEF Some, None, IndexWellFormed, WellFormed
  <2>5. WellFormed'
    BY <2>1, <2>3, <2>4 DEF WellFormed
  <2> QED
    BY <2>1, <2>5 DEF IndexWellFormed, p
<1>4. CASE DownloadIndex
  BY <1>4 DEF DownloadIndex, IndexWellFormed, WellFormed
<1>5. CASE UNCHANGED << vars, indexVars >>
  BY <1>5 DEF vars, indexVars, IndexWellFormed, WellFormed
<1> QED
  BY <1>1, <1>2, <1>3, <1>4, <1>5 DEF IndexNext

\* Hence it holds always.
LEMMA IndexStaysWellFormed == IndexSpec => []IndexWellFormed
  BY IndexWellFormedFirst, IndexWellFormedNext, PTL DEF IndexSpec

\* The same of the playlists that are read from any text, and of the indexes that muxers
\* answer: each is read again as it was, as far as it can be printed.
THEOREM PlaylistsReadBack == IndexSpec => []ReadBack
<1>1. IndexWellFormed => ReadBack
  BY WellFormedReadsBack DEF IndexWellFormed
<1> QED
  BY <1>1, IndexStaysWellFormed, PTL

--------------------------------------------------------------------------------
(***************************************************************************)
(* What the client makes of the index.                                     *)
(***************************************************************************)

IndexRead(m) == PlaylistLeft(generateMultivariantPlaylist(m, NewStreams(m)))

\* The variant is picked when its codecs are supported.
LEMMA VariantPicked ==
    ASSUME NEW m \in Configurations, Accepted(m)
    PROVE  pickLeadingPlaylist(IndexRead(m).variants) = IF CodecsOf(m.tracks) = Supported THEN 1 ELSE 0
<1> DEFINE variants == IndexRead(m).variants
           candidates == {i \in 1..Len(variants) : ~Has(variants[i], "CODECS") \/ variants[i]["CODECS"] = Supported}
           best == {i \in candidates : \A j \in candidates : variants[i]["BANDWIDTH"] >= variants[j]["BANDWIDTH"]}
<1>1. pickLeadingPlaylist(variants) = IF best = {} THEN 0 ELSE Min(best)
  BY DEF pickLeadingPlaylist
<1>2. Len(variants) = 1 /\ {"CODECS", "BANDWIDTH"} \subseteq DOMAIN variants[1]
      /\ variants[1]["CODECS"] = CodecsOf(m.tracks) /\ variants[1]["BANDWIDTH"] = Text
  BY IndexLeft, VariantGiven DEF IndexRead, Attribute, Has
<1> HIDE DEF variants
<1>3. candidates = IF CodecsOf(m.tracks) = Supported THEN {1} ELSE {}
  BY <1>2 DEF Has
<1> HIDE DEF candidates
<1>4. best = candidates
  BY <1>2, <1>3 DEF Text
<1> HIDE DEF best
<1>5. Min({1}) = 1
  BY MinOfNaturals
<1> QED
  BY <1>1, <1>3, <1>4, <1>5 DEF variants

\* The group of the variant has all renditions.
LEMMA GroupListed ==
    ASSUME NEW m \in Configurations, Accepted(m)
    PROVE  LET all == NewStreams(m)
               q == IndexRead(m)
               variant == q.variants[1]
               group == IF Has(variant, "AUDIO") THEN getRenditionsByGroup(q.renditions, variant["AUDIO"]) ELSE << >>
           IN  Lists(group, RenditionsOf(all), Renditions(all)) /\ ~Ungrouped(q, variant)
<1> DEFINE all == NewStreams(m)
           q == IndexRead(m)
           variant == q.variants[1]
           list == q.renditions
           f == RenditionsOf(all)
           D == Renditions(all)
           grouped == getRenditionsByGroup(list, Text)
<1>1. Lists(list, f, D)
  BY RenditionsListed, IndexLeft DEF IndexRead
<1>2. Has(variant, "AUDIO") <=> D # {}
  BY IndexLeft, VariantGiven DEF IndexRead, Has
<1>3. Has(variant, "AUDIO") => variant["AUDIO"] = Text
  BY IndexLeft, VariantGiven DEF IndexRead, Attribute, Has
<1>4. \A i \in D : f[i]["GROUP_ID"] = Text
  BY RenditionGiven DEF RenditionsOf, Renditions
<1> HIDE DEF all, q, variant, list, f, D
<1>5. Lists(grouped, f, D)
  <2> DEFINE b == [k \in 1..Len(list) |-> IF list[k]["GROUP_ID"] = Text THEN << list[k] >> ELSE << >>]
  <2>1. grouped = FlattenSeq(b)
    BY DEF getRenditionsByGroup, Kept
  <2>2. \A j \in 1..Len(list) : \A x \in D : list[j] = f[x] => b[j] = IF x \in D THEN << list[j] >> ELSE << >>
    BY <1>4
  <2>3. b = [k \in 1..Len(list) |-> b[k]]
    OBVIOUS
  <2> HIDE DEF b
  <2>4. Lists(FlattenSeq(b), f, D)
    BY <1>1, <2>2, <2>3, KeptListed
  <2> QED
    BY <2>1, <2>4
<1>6. Lists(<< >>, f, {})
  <2> DEFINE e == [j \in 1..0 |-> 0]
  <2>1. Enumerates(e, 0, {}) /\ << >> = [j \in 1..0 |-> f[e[j]]]
    BY DEF Enumerates
  <2> QED
    BY <2>1 DEF Lists
<1>7. D # {} => grouped # << >>
  BY <1>5, WhatIsListed
<1> HIDE DEF grouped
<1>8. Lists(IF Has(variant, "AUDIO") THEN getRenditionsByGroup(list, variant["AUDIO"]) ELSE << >>, f, D)
  <2>1. CASE D = {}
    BY <1>2, <1>6, <2>1
  <2>2. CASE D # {}
    BY <1>2, <1>3, <1>5, <2>2 DEF grouped
  <2> QED
    BY <2>1, <2>2
<1>9. ~Ungrouped(q, variant)
  BY <1>2, <1>3, <1>7 DEF Ungrouped, grouped, list
<1> QED
  BY <1>8, <1>9 DEF all, q, variant, list, f, D

\* The client looks at each stream of the muxer once, with what is said of it.
PlacesOf(all) ==
    [i \in 1..Len(all) |->
        [at |-> i, rendition |-> IF i = Leading(all) THEN Nothing ELSE renditionOf(i, all[i])]]

\* Of an index whose codecs are supported, each stream is downloaded once.
LEMMA StreamsListed ==
    ASSUME NEW m \in Configurations, Accepted(m), CodecsOf(m.tracks) = Supported
    PROVE  LET all == NewStreams(m) IN Lists(IndexStreams(IndexRead(m)), PlacesOf(all), 1..Len(all))
<1> DEFINE all == NewStreams(m)
           q == IndexRead(m)
           variant == q.variants[1]
           leading == Leading(all)
           group == IF Has(variant, "AUDIO") THEN getRenditionsByGroup(q.renditions, variant["AUDIO"]) ELSE << >>
           others == Kept(group, LAMBDA rendition : Has(rendition, "URI"))
           places == [k \in 1..Len(others) |-> [at |-> others[k]["URI"], rendition |-> others[k]]]
           first == [at |-> variant["URI"], rendition |-> Nothing]
           f == RenditionsOf(all)
           g == PlacesOf(all)
           D == Renditions(all)
<1>1. pickLeadingPlaylist(q.variants) = 1
  BY VariantPicked
<1>2. IndexStreams(q) = << first >> \o places
  BY <1>1 DEF IndexStreams
<1>3. Lists(group, f, D)
  BY GroupListed
<1>4. variant["URI"] = leading
  BY IndexLeft, VariantGiven DEF IndexRead, Attribute, Has
<1>5. leading \in 1..Len(all) /\ D \subseteq 1..Len(all) /\ D \union {leading} = 1..Len(all)
  BY MuxerStreams
<1>6. \A i \in D : f[i] = renditionOf(i, all[i])
  BY <1>5 DEF RenditionsOf
<1>7. \A i \in D : /\ Has(f[i], "URI") <=> i # leading
                   /\ Has(f[i], "URI") => f[i]["URI"] = i
  BY <1>6, RenditionGiven DEF Has
<1>8. /\ \A i \in D : i # leading => g[i] = [at |-> i, rendition |-> f[i]]
      /\ g[leading] = [at |-> leading, rendition |-> Nothing]
  BY <1>5, <1>6 DEF PlacesOf
<1> HIDE DEF all, q, variant, leading, group, f, g, D
<1>9. Lists(others, f, D \ {leading})
  <2> DEFINE E == D \ {leading}
             b == [k \in 1..Len(group) |-> IF Has(group[k], "URI") THEN << group[k] >> ELSE << >>]
  <2>1. others = FlattenSeq(b)
    BY DEF Kept
  <2>2. \A j \in 1..Len(group) : \A x \in D : group[j] = f[x] => b[j] = IF x \in E THEN << group[j] >> ELSE << >>
    BY <1>7
  <2>3. b = [k \in 1..Len(group) |-> b[k]] /\ E \in SUBSET D
    OBVIOUS
  <2> HIDE DEF b, E
  <2>4. Lists(FlattenSeq(b), f, E)
    BY <1>3, <2>2, <2>3, KeptListed
  <2> QED
    BY <2>1, <2>4 DEF E
<1> HIDE DEF others
<1>10. Lists(places, g, D \ {leading})
  <2>1. \A j \in 1..Len(others) : \A x \in D \ {leading} : others[j] = f[x] => places[j] = g[x]
    BY <1>7, <1>8
  <2>2. places = [j \in 1..Len(others) |-> places[j]]
    OBVIOUS
  <2> HIDE DEF places
  <2> QED
    BY <1>9, <2>1, <2>2, MadeOfListed
<1> HIDE DEF places
<1>11. Lists(<< g[leading] >> \o places, g, (D \ {leading}) \union {leading})
  BY <1>10, OneBefore
<1>12. (D \ {leading}) \union {leading} = 1..Len(all) /\ first = g[leading]
  BY <1>4, <1>5, <1>8
<1> HIDE DEF first
<1>13. Lists(IndexStreams(q), g, 1..Len(all))
  BY <1>2, <1>11, <1>12
<1> QED
  BY <1>13 DEF all, q, g

\* A stream that does not lead is the default if and only if players are to be told so.
LEMMA DefaultDescribed ==
    ASSUME NEW m \in Configurations, Accepted(m), m.variant # "MPEGTS",
           NEW i \in 1..Len(m.tracks), i # leadingTrackIndex(m.tracks)
    PROVE  isDefault(m.tracks, i) <=>
              \/ DefaultAudios(m.tracks) = {i}
              \/ /\ DefaultAudios(m.tracks) = {} /\ i = Min((1..Len(m.tracks)) \ Videos(m.tracks))
                 /\ Videos(m.tracks) # {}
<1> DEFINE tracks == m.tracks
           leading == leadingTrackIndex(tracks)
           others == (1..Len(tracks)) \ Videos(tracks)
           defaults == DefaultAudios(tracks)
<1>1. Len(tracks) \in Nat /\ leading \in 1..Len(tracks)
  BY SomeTracks, LeadingTrack
<1>2. isRendition(tracks, i)
  BY DEF isRendition
<1>3. isDefault(tracks, i) <=> IF defaults # {} THEN i \in defaults ELSE \A j \in 1..i - 1 : ~isRendition(tracks, j)
  BY <1>2 DEF isDefault
<1>4. CASE defaults # {}
  <2>1. defaults \subseteq 1..Len(tracks) /\ Cardinality(defaults) <= 1
    BY DEF DefaultAudios, Accepted
  <2>2. IsFiniteSet(defaults)
    <3>1. IsFiniteSet(1..Len(tracks))
      BY <1>1, FS_Interval
    <3> HIDE DEF defaults
    <3> QED
      BY <2>1, <3>1, FS_Subset
  <2>3. i \in defaults => defaults = {i}
    BY <2>1, <2>2, OnlyElement
  <2> QED
    BY <1>3, <1>4, <2>3
<1>5. CASE defaults = {} /\ Videos(tracks) # {}
  <2>1. Videos(tracks) = {leading}
    BY <1>5, LeadingTrack
  <2>2. i \in others /\ others \in SUBSET Nat
    BY <1>1, <2>1
  <2>3. Min(others) \in others /\ \A x \in others : Min(others) <= x
    BY <2>2, MinOfNaturals
  <2>4. IsVideo(tracks[leading].codec)
    BY <2>1 DEF Videos
  <2>5. \A j \in 1..Len(tracks) : isRendition(tracks, j) <=> j \in others
    BY <2>1, <2>4 DEF isRendition
  <2> HIDE DEF others
  <2>6. (\A j \in 1..i - 1 : ~isRendition(tracks, j)) <=> i = Min(others)
    <3>1. ASSUME \A j \in 1..i - 1 : ~isRendition(tracks, j) PROVE i = Min(others)
      <4>1. Min(others) \in 1..Len(tracks) /\ Min(others) <= i
        BY <2>2, <2>3 DEF others
      <4>2. Min(others) \notin 1..i - 1
        BY <2>3, <2>5, <3>1, <4>1
      <4> QED
        BY <4>1, <4>2
    <3>2. ASSUME i = Min(others), NEW j \in 1..i - 1 PROVE ~isRendition(tracks, j)
      <4>1. j \in 1..Len(tracks) /\ ~(i <= j)
        BY <1>1
      <4> QED
        BY <2>3, <2>5, <3>2, <4>1
    <3> QED
      BY <3>1, <3>2
  <2> QED
    BY <1>3, <1>5, <2>6 DEF others
<1>6. CASE defaults = {} /\ Videos(tracks) = {}
  <2>1. \A x \in Audios(tracks) : leading <= x
    BY <1>6, LeadingTrack
  <2>2. Data(tracks) = {}
    BY DEF Accepted, Carried
  <2>3. Audios(tracks) = 1..Len(tracks)
    BY <1>6, <2>2 DEF Audios
  <2>4. leading \in 1..i - 1
    <3>1. leading <= i /\ leading \in Nat /\ leading # 0
      BY <1>1, <2>1, <2>3
    <3> QED
      BY <3>1
  <2>5. isRendition(tracks, leading)
    <3>1. ~IsVideo(tracks[leading].codec)
      BY <1>1, <1>6 DEF Videos
    <3>2. Len(tracks) > 1
      BY <1>1, <2>4
    <3> QED
      BY <3>1, <3>2 DEF isRendition
  <2> QED
    BY <1>3, <1>6, <2>4, <2>5
<1> QED
  BY <1>4, <1>5, <1>6

DescribedAll(m) == [i \in 1..Len(m.tracks) |-> Described(m, i)]

\* A stream of its own has the track that it is for.
LEMMA TrackFound ==
    ASSUME NEW m \in Configurations, Accepted(m), m.variant # "MPEGTS", muxer[1] = m,
           NEW i \in 1..Len(m.tracks)
    PROVE  TracksOf(NewStreams(m)[i], PlacesOf(NewStreams(m))[i].rendition) = << Described(m, i) >>
<1> DEFINE all == NewStreams(m)
           track == m.tracks[i]
           leading == leadingTrackIndex(m.tracks)
           rendition == PlacesOf(all)[i].rendition
           found == Kept(all[i].tracks, LAMBDA j : m.tracks[j].codec \in toContainer(m.variant))
           default == IF isDefault(m.tracks, i) THEN YES ELSE NO
           told == [track |-> found[1], codec |-> fromContainer(m.variant, m.tracks[found[1]].codec),
                    name |-> Attribute(rendition, "NAME"), language |-> Attribute(rendition, "LANGUAGE"),
                    isDefault |-> Attribute(rendition, "DEFAULT")]
<1>1. track.codec \in toContainer(m.variant)
  <2>1. i \notin Data(m.tracks)
    BY DEF Accepted, Carried
  <2>2. track.codec \in Codecs /\ track.codec # "KLV"
    BY <2>1, SomeTracks DEF Data
  <2> QED
    BY <2>2 DEF toContainer, Codecs
<1>2. /\ all[i].tracks = << i >> /\ all[i].language = track.language /\ Len(all) = Len(m.tracks)
      /\ isRendition(m.tracks, i) => all[i].name = (IF track.name # 0 THEN track.name ELSE DefaultName(i))
      /\ all[i].isDefault = default
  BY TrackStreams
<1>3. found = << i >>
  <2>1. found = FlattenSeq(<< << i >> >>)
    <3> DEFINE list == << i >>
               b == [k \in 1..Len(list) |-> IF m.tracks[list[k]].codec \in toContainer(m.variant) THEN << list[k] >> ELSE << >>]
    <3>1. found = FlattenSeq(b)
      BY <1>2 DEF Kept
    <3>2. b = << << i >> >>
      BY <1>1
    <3> HIDE DEF b, found
    <3> QED
      BY <3>1, <3>2
  <2>2. IsList(<< i >>)
    BY DEF IsList
  <2> QED
    BY <2>1, <2>2, FlattenOne
<1>4. TracksOf(all[i], rendition) = [k \in 1..Len(found) |->
            [track |-> found[k], codec |-> fromContainer(m.variant, m.tracks[found[k]].codec),
             name |-> Attribute(rendition, "NAME"), language |-> Attribute(rendition, "LANGUAGE"),
             isDefault |-> Attribute(rendition, "DEFAULT")]]
  BY DEF TracksOf
<1>5. TracksOf(all[i], rendition) = << told >>
  <2>1. Len(found) = 1
    BY <1>3
  <2> DEFINE what(j) == [track |-> j, codec |-> fromContainer(m.variant, m.tracks[j].codec),
                         name |-> Attribute(rendition, "NAME"), language |-> Attribute(rendition, "LANGUAGE"),
                         isDefault |-> Attribute(rendition, "DEFAULT")]
  <2>2. TracksOf(all[i], rendition) = [k \in 1..Len(found) |-> what(found[k])] /\ told = what(found[1])
    BY <1>4
  <2> HIDE DEF what, found, told
  <2> QED
    BY <2>1, <2>2
<1>6. Leading(all) = leading /\ Renditions(all) \union {leading} = 1..Len(all)
  BY MuxerStreams
<1>7. rendition = IF i = leading THEN Nothing ELSE renditionOf(i, all[i])
  BY <1>2, <1>6 DEF PlacesOf
<1>8. fromContainer(m.variant, track.codec) = [codec |-> track.codec, known |-> m.variant # "MPEGTS" \/ track.codec # "H264"]
  BY DEF fromContainer
<1>9. CASE i = leading
  <2>1. /\ Attribute(rendition, "NAME") = 0 /\ Attribute(rendition, "LANGUAGE") = 0
        /\ Attribute(rendition, "DEFAULT") = 0
    BY <1>7, <1>9 DEF Attribute, Has, Nothing
  <2> HIDE DEF rendition, found, track, all
  <2>2. Described(m, i) = [track |-> i, codec |-> fromContainer(m.variant, track.codec), name |-> 0, language |-> 0, isDefault |-> NO]
    BY <1>8, <1>9 DEF Described, track
  <2> QED
    BY <1>3, <1>5, <2>1, <2>2 DEF NO, track, all, rendition
<1>10. CASE i # leading
  <2>1. i \in Renditions(all) /\ isRendition(m.tracks, i)
    BY <1>2, <1>6, <1>10 DEF isRendition
  <2>2. /\ Attribute(rendition, "NAME") = (IF track.name # 0 THEN track.name ELSE DefaultName(i))
        /\ Attribute(rendition, "LANGUAGE") = track.language
        /\ Attribute(rendition, "DEFAULT") = default
    BY <1>2, <1>7, <1>10, <2>1, RenditionGiven
  <2> HIDE DEF rendition, found, track, all, default
  <2>3. Described(m, i) = [track |-> i, codec |-> fromContainer(m.variant, track.codec),
                           name |-> IF track.name # 0 THEN track.name ELSE DefaultName(i),
                           language |-> track.language, isDefault |-> default]
    BY <1>8, <1>10, DefaultDescribed DEF Described, track, default
  <2> QED
    BY <1>3, <1>5, <2>2, <2>3 DEF track, all, rendition
<1> QED
  BY <1>9, <1>10

\* A stream that is shared has all tracks.
LEMMA SharedTracksFound ==
    ASSUME NEW m \in Configurations, Accepted(m), m.variant = "MPEGTS", muxer[1] = m
    PROVE  Lists(TracksOf(NewStreams(m)[1], Nothing), DescribedAll(m), 1..Len(m.tracks))
<1> DEFINE tracks == m.tracks
           n == Len(tracks)
           places == [i \in 1..n |-> i]
           b == [k \in 1..Len(places) |->
                    IF tracks[places[k]].codec \in toContainer(m.variant) THEN << places[k] >> ELSE << >>]
           found == FlattenSeq(b)
           what(j) == [track |-> j, codec |-> fromContainer(m.variant, tracks[j].codec),
                       name |-> Attribute(Nothing, "NAME"), language |-> Attribute(Nothing, "LANGUAGE"),
                       isDefault |-> Attribute(Nothing, "DEFAULT")]
           told == [k \in 1..Len(found) |-> what(found[k])]
<1>1. n \in Nat
  BY SomeTracks
<1>2. TracksOf(NewStreams(m)[1], Nothing) = told
  <2>1. NewStreams(m)[1].tracks = places
    BY DEF NewStreams
  <2> HIDE DEF places
  <2> QED
    BY <2>1 DEF TracksOf, Kept
<1>3. ASSUME NEW i \in 1..n PROVE tracks[i].codec \in toContainer(m.variant)
  <2>1. i \in Videos(tracks) \/ i \in Audios(tracks) \/ tracks[i].codec = "KLV"
    BY DEF Audios, Data
  <2>2. tracks[i].codec \in {"H264", "MPEG4Audio", "KLV"}
    BY <2>1 DEF Accepted, Carried
  <2> QED
    BY <2>2 DEF toContainer
<1>4. Len(places) = n /\ b = [i \in 1..n |-> IF i \in 1..n THEN << places[i] >> ELSE << >>]
  BY <1>1, <1>3
<1> HIDE DEF b
<1>5. Lists(found, places, 1..n)
  <2> HIDE DEF places
  <2> QED
    BY <1>1, <1>4, ChosenListed
<1>6. ASSUME NEW i \in 1..n PROVE what(i) = DescribedAll(m)[i]
  <2>1. /\ Attribute(Nothing, "NAME") = 0 /\ Attribute(Nothing, "LANGUAGE") = 0
        /\ Attribute(Nothing, "DEFAULT") = NO
    BY DEF Attribute, Has, Nothing, NO
  <2>2. fromContainer(m.variant, tracks[i].codec) = [codec |-> tracks[i].codec, known |-> m.variant # "MPEGTS" \/ tracks[i].codec # "H264"]
    BY DEF fromContainer
  <2>3. Described(m, i) = what(i)
    BY <2>1, <2>2 DEF Described
  <2> QED
    BY <2>3 DEF DescribedAll
<1>7. ASSUME NEW j \in 1..Len(found), NEW x \in 1..n, found[j] = places[x]
      PROVE  told[j] = DescribedAll(m)[x]
  <2>1. found[j] = x
    BY <1>7
  <2> HIDE DEF what, found
  <2> QED
    BY <1>6, <2>1
<1>8. told = [j \in 1..Len(found) |-> told[j]]
  OBVIOUS
<1> HIDE DEF told, found, places
<1>9. Lists(told, DescribedAll(m), 1..n)
  BY <1>5, <1>7, <1>8, MadeOfListed
<1> QED
  BY <1>2, <1>9

\* All tracks are found in an index, or an error.
LEMMA TracksFound ==
    ASSUME NEW m \in Configurations, Accepted(m), muxer[1] = m, streams[1] = NewStreams(m)
    PROVE  LET r == FindTracks(IndexRead(m))
           IN  IF CodecsOf(m.tracks) = Unsupported \/ Shared(m) > MaxTracks THEN r = Refused
               ELSE Lists(r, DescribedAll(m), 1..Len(m.tracks))
<1> DEFINE q == IndexRead(m)
           all == NewStreams(m)
           places == PlacesOf(all)
           h == DescribedAll(m)
           n == Len(m.tracks)
           found == IndexStreams(q)
           got == [k \in 1..Len(found) |-> TracksOf(streams[1][found[k].at], found[k].rendition)]
<1>1. CASE CodecsOf(m.tracks) = Unsupported
  <2>1. pickLeadingPlaylist(q.variants) = 0
    BY <1>1, VariantPicked DEF Supported, Unsupported
  <2> QED
    BY <1>1, <2>1 DEF FindTracks
<1>2. CASE CodecsOf(m.tracks) # Unsupported
  <2>1. CodecsOf(m.tracks) = Supported
    BY <1>2, CodecsGiven
  <2>2. pickLeadingPlaylist(q.variants) = 1 /\ ~Ungrouped(q, q.variants[1])
    BY <2>1, VariantPicked, GroupListed
  <2>3. FindTracks(q) = IF \E k \in 1..Len(got) : Len(got[k]) > MaxTracks THEN Refused ELSE FlattenSeq(got)
    BY <2>2 DEF FindTracks
  <2>4. Lists(found, places, 1..Len(all))
    BY <2>1, StreamsListed
  <2>5. MaxTracks \in Nat \ {0} /\ n \in Nat
    BY IndexAssumption, SomeTracks
  <2>6. \A i \in 1..Len(all) : places[i].at = i
    BY DEF PlacesOf
  <2>7. CASE m.variant = "MPEGTS"
    <3> DEFINE told == TracksOf(all[1], Nothing)
    <3>1. Lists(told, h, 1..n)
      BY <2>7, SharedTracksFound
    <3>2. Len(all) = 1 /\ Leading(all) = 1
      BY <2>7, MuxerStreams
    <3>3. places[1] = [at |-> 1, rendition |-> Nothing]
      BY <3>2 DEF PlacesOf
    <3>4. Len(found) = 1 /\ found[1] = places[1]
      <4>1. 1..Len(all) = {1} /\ Cardinality({1}) = 1
        BY <3>2, FS_Singleton
      <4> HIDE DEF found, places
      <4>2. Lists(found, places, {1})
        BY <2>4, <4>1
      <4>3. Len(found) = 1
        BY <4>1, <4>2, WhatIsListed
      <4>4. \A j \in 1..Len(found) : \E x \in {1} : found[j] = places[x]
        BY <4>2, WhatIsListed
      <4> QED
        BY <4>3, <4>4
    <3> HIDE DEF found
    <3>5. got = << told >>
      BY <3>3, <3>4
    <3>6. IsList(told) /\ Len(told) = n
      <4>1. Cardinality(1..n) = n
        BY <2>5, FS_Interval
      <4> HIDE DEF told, h
      <4> QED
        BY <3>1, <4>1, WhatIsListed
    <3> HIDE DEF told, got
    <3>7. FlattenSeq(got) = told
      BY <3>5, <3>6, FlattenOne
    <3>8. (\E k \in 1..Len(got) : Len(got[k]) > MaxTracks) <=> n > MaxTracks
      BY <3>5, <3>6
    <3>9. Shared(m) = n
      BY <2>7 DEF Shared
    <3> QED
      BY <1>2, <2>3, <3>1, <3>7, <3>8, <3>9
  <2>8. CASE m.variant # "MPEGTS"
    <3>1. Len(all) = n
      BY <2>8, TrackStreams
    <3>2. \A x \in 1..n : TracksOf(all[x], places[x].rendition) = << h[x] >>
      BY <2>8, TrackFound DEF DescribedAll
    <3> HIDE DEF found, places, h
    <3>3. \A j \in 1..Len(found) : \E x \in 1..n : found[j] = places[x]
      BY <2>4, <3>1, WhatIsListed
    <3>4. \A j \in 1..Len(found) : \A x \in 1..n : found[j] = places[x] => found[j].at = x /\ got[j] = << h[x] >>
      BY <2>6, <3>1, <3>2
    <3> DEFINE other == [j \in 1..Len(found) |-> h[found[j].at]]
    <3>5. \A j \in 1..Len(found) : \A x \in 1..n : found[j] = places[x] => other[j] = h[x]
      BY <3>4
    <3>6. \A j \in 1..Len(found) : got[j] = << other[j] >>
      BY <3>3, <3>4, <3>5
    <3>7. other = [j \in 1..Len(found) |-> other[j]] /\ got = [j \in 1..Len(found) |-> got[j]]
          /\ Len(found) \in Nat
      BY <2>4, WhatIsListed DEF IsList
    <3>8. Len(other) = Len(found) /\ Len(got) = Len(found)
      BY <3>7
    <3> HIDE DEF other, got
    <3>9. Lists(other, h, 1..n)
      BY <2>4, <3>1, <3>5, <3>7, MadeOfListed
    <3>10. \A j \in 1..Len(other) : \A x \in 1..n : other[j] = h[x] => got[j] = IF x \in 1..n THEN << other[j] >> ELSE << >>
      BY <3>6, <3>8
    <3>11. got = [j \in 1..Len(other) |-> got[j]] /\ 1..n \in SUBSET (1..n)
      BY <3>7, <3>8
    <3>12. Lists(FlattenSeq(got), h, 1..n)
      BY <3>9, <3>10, <3>11, KeptListed
    <3>13. ~ \E k \in 1..Len(got) : Len(got[k]) > MaxTracks
      BY <2>5, <3>6, <3>8
    <3>14. Shared(m) = 1 /\ ~(1 > MaxTracks)
      BY <2>5, <2>8 DEF Shared
    <3> QED
      BY <1>2, <2>3, <3>12, <3>13, <3>14 DEF h
  <2> QED
    BY <2>7, <2>8
<1> QED
  BY <1>1, <1>2

\* Players are offered one default.
LEMMA OneDefault ==
    ASSUME NEW m \in Configurations, Accepted(m), Renditions(NewStreams(m)) # {}
    PROVE  Cardinality({i \in Renditions(NewStreams(m)) : NewStreams(m)[i].isDefault = YES}) = 1
<1> DEFINE all == NewStreams(m)
           tracks == m.tracks
           D == Renditions(all)
           leading == leadingTrackIndex(tracks)
           defaults == DefaultAudios(tracks)
           marked == {i \in D : all[i].isDefault = YES}
<1>1. m.variant # "MPEGTS"
  BY MuxerStreams
<1>2. Len(tracks) \in Nat /\ leading \in 1..Len(tracks)
  BY SomeTracks, LeadingTrack
<1>3. /\ Len(all) = Len(tracks)
      /\ \A i \in 1..Len(tracks) : /\ all[i].isRendition <=> isRendition(tracks, i)
                                   /\ all[i].isDefault = IF isDefault(tracks, i) THEN YES ELSE NO
  BY <1>1, TrackStreams
<1>4. \A i \in 1..Len(tracks) : i \in D <=> isRendition(tracks, i)
  BY <1>3 DEF Renditions
<1>5. D \subseteq 1..Len(tracks)
  BY <1>3 DEF Renditions
<1>6. marked = {i \in D : isDefault(tracks, i)}
  BY <1>3, <1>5 DEF YES, NO
<1> HIDE DEF all, D, marked
<1>7. \E x : marked = {x}
  <2>1. CASE defaults # {}
    <3>1. PICK x : x \in defaults
      BY <2>1
    <3>2. /\ defaults \subseteq 1..Len(tracks) /\ Cardinality(defaults) <= 1
          /\ ~IsVideo(tracks[x].codec)
      BY <3>1 DEF DefaultAudios, Accepted, Videos
    <3>3. defaults = {x}
      <4>1. IsFiniteSet(1..Len(tracks))
        BY <1>2, FS_Interval
      <4> HIDE DEF defaults
      <4>2. IsFiniteSet(defaults)
        BY <3>2, <4>1, FS_Subset
      <4> QED
        BY <3>1, <3>2, <4>2, OnlyElement
    <3>4. isRendition(tracks, x)
      <4>1. CASE x # leading
        BY <4>1 DEF isRendition
      <4>2. CASE x = leading
        <5>1. PICK j \in D : TRUE
          BY DEF D, all
        <5>2. j \in 1..Len(tracks) /\ isRendition(tracks, j)
          BY <1>4, <1>5
        <5>3. Len(tracks) > 1
          BY <1>2, <5>2 DEF isRendition
        <5> QED
          BY <3>2, <5>3 DEF isRendition
      <4> QED
        BY <4>1, <4>2
    <3>5. x \in D
      BY <1>4, <3>1, <3>2, <3>4
    <3>6. \A i \in D : isDefault(tracks, i) <=> i = x
      BY <1>4, <1>5, <3>3 DEF isDefault
    <3> QED
      BY <1>6, <3>5, <3>6
  <2>2. CASE defaults = {}
    <3> DEFINE x == Min(D)
    <3>1. x \in D /\ \A i \in D : x <= i
      <4>1. D \in SUBSET Nat /\ D # {}
        BY <1>2, <1>5 DEF D, all
      <4> QED
        BY <4>1, MinOfNaturals
    <3> HIDE DEF x
    <3>2. \A i \in D : isDefault(tracks, i) <=> \A j \in 1..i - 1 : ~isRendition(tracks, j)
      BY <1>4, <1>5, <2>2 DEF isDefault
    <3>3. isDefault(tracks, x)
      <4>1. ASSUME NEW j \in 1..x - 1 PROVE ~isRendition(tracks, j)
        <5>1. j \in 1..Len(tracks) /\ ~(x <= j)
          BY <1>2, <1>5, <3>1
        <5> QED
          BY <1>4, <3>1, <5>1
      <4> QED
        BY <3>1, <3>2, <4>1
    <3>4. ASSUME NEW i \in D, isDefault(tracks, i) PROVE i = x
      <4>1. x \in 1..Len(tracks) /\ i \in 1..Len(tracks) /\ x <= i /\ isRendition(tracks, x)
        BY <1>4, <1>5, <3>1
      <4>2. x \notin 1..i - 1
        BY <3>2, <3>4, <4>1
      <4> QED
        BY <4>1, <4>2
    <3> QED
      BY <1>6, <3>1, <3>3, <3>4
  <2> QED
    BY <2>1, <2>2
<1>8. Cardinality(marked) = 1
  BY <1>7, FS_Singleton
<1> QED
  BY <1>8 DEF marked, D, all

\* A download that ends has found what the muxer has.
LEMMA DownloadArrives == IndexWellFormed /\ DownloadIndex => TracksArrive'
<1> SUFFICES ASSUME IndexWellFormed, DownloadIndex PROVE TracksArrive'
  OBVIOUS
<1> DEFINE m == muxer[1]
           all == NewStreams(m)
           p == generateMultivariantPlaylist(m, all)
           answer == Unmarshal("multivariant", Marshal(playlist[1]))
           r == FindTracks(IndexRead(m))
           marked == {i \in Renditions(all) : all[i].isDefault = YES}
<1>1. /\ streams # None /\ playlist # None
      /\ received' = Some(IF answer = None THEN Refused ELSE FindTracks(answer[1]))
      /\ muxer' = muxer /\ streams' = streams
  BY DEF DownloadIndex
<1>2. /\ m \in Configurations /\ Accepted(m) /\ streams[1] = all /\ playlist[1] = p
  BY <1>1 DEF IndexWellFormed, Some
<1>3. p.kind = "multivariant" /\ GoodPlaylist(p) /\ ~Unreadable(p)
  BY <1>2, PlaylistParts, GeneratedIsGood
<1>4. answer = Some(IndexRead(m))
  <2>1. Unmarshal(playlist[1].kind, Marshal(playlist[1])) = Some(PlaylistLeft(playlist[1]))
    BY <1>1, <1>2, <1>3, GoodReadBack
  <2> QED
    BY <1>2, <1>3, <2>1 DEF IndexRead
<1>5. answer # None /\ answer[1] = IndexRead(m)
  BY <1>4 DEF Some, None
<1>6. received' = Some(r)
  BY <1>1, <1>5
<1>7. IF CodecsOf(m.tracks) = Unsupported \/ Shared(m) > MaxTracks THEN r = Refused
      ELSE Lists(r, DescribedAll(m), 1..Len(m.tracks))
  BY <1>2, TracksFound
<1>8. Renditions(all) # {} => Cardinality(marked) = 1
  BY <1>2, OneDefault
<1>9. received'[1] = r /\ muxer'[1] = m /\ streams'[1] = all
  BY <1>1, <1>2, <1>6 DEF Some
<1>10. Lists(r, DescribedAll(m), 1..Len(m.tracks)) =>
            ToSet(r) = {Described(m, i) : i \in 1..Len(m.tracks)} /\ Len(r) = Len(m.tracks)
  <2> DEFINE n == Len(m.tracks)
             f == DescribedAll(m)
  <2>1. {f[i] : i \in 1..n} = {Described(m, i) : i \in 1..n}
    BY DEF DescribedAll
  <2>2. n \in Nat /\ Cardinality(1..n) = n
    <3>1. n \in Nat
      BY <1>2, SomeTracks
    <3> QED
      BY <3>1, FS_Interval
  <2> HIDE DEF f, n, r
  <2> DEFINE D == 1..n
  <2>3. ASSUME Lists(r, f, D) PROVE ToSet(r) = {f[i] : i \in D} /\ Len(r) = Cardinality(D)
    <3> HIDE DEF D
    <3> QED
      BY ONLY <2>3, WhatIsListed
  <2> QED
    BY <2>1, <2>2, <2>3 DEF f, n
<1> HIDE DEF r, all, m
<1>11. IF CodecsOf(m.tracks) = Unsupported \/ Shared(m) > MaxTracks THEN r = Refused
       ELSE /\ ToSet(r) = {Described(m, i) : i \in 1..Len(m.tracks)}
            /\ Len(r) = Len(m.tracks)
  BY <1>7, <1>10
<1> QED
  BY <1>8, <1>9, <1>11 DEF TracksArrive

\* Every step leaves what has arrived as it is, or lets it arrive.
LEMMA TracksArriveNext == IndexWellFormed /\ TracksArrive /\ [IndexNext]_<< vars, indexVars >> => TracksArrive'
<1> SUFFICES ASSUME IndexWellFormed, TracksArrive, [IndexNext]_<< vars, indexVars >> PROVE TracksArrive'
  OBVIOUS
<1>1. CASE UNCHANGED indexVars
  BY <1>1 DEF indexVars, TracksArrive
<1>2. CASE ReadElsewhere
  BY <1>1, <1>2 DEF ReadElsewhere
<1>3. CASE StartMuxer
  <2>1. received' = None
    BY <1>3 DEF StartMuxer, IndexWellFormed
  <2> QED
    BY <2>1 DEF TracksArrive
<1>4. CASE AnswerIndex
  BY <1>1, <1>4 DEF AnswerIndex, indexVars
<1>5. CASE DownloadIndex
  BY <1>5, DownloadArrives
<1>6. CASE UNCHANGED << vars, indexVars >>
  BY <1>1, <1>6
<1> QED
  BY <1>2, <1>3, <1>4, <1>5, <1>6 DEF IndexNext

\* Of any muxers, a client gets the tracks that there are, or none.
THEOREM AllTracksArrive == IndexSpec => []TracksArrive
<1>1. IndexInit => TracksArrive
  BY DEF IndexInit, TracksArrive
<1> QED
  BY <1>1, IndexWellFormedFirst, IndexWellFormedNext, TracksArriveNext, PTL DEF IndexSpec

================================================================================
