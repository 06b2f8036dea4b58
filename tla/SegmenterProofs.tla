---------------------------- MODULE SegmenterProofs ----------------------------
(***************************************************************************)
(* What holds of muxerSegmenter for every list of timestamps, any clock    *)
(* rate and any durations asked for.                                       *)
(***************************************************************************)
EXTENDS Segmenter, FoldProofs

--------------------------------------------------------------------------------
(***************************************************************************)
(* Arithmetic.                                                             *)
(***************************************************************************)

\* The larger one of two numbers.
LEMMA MaxOfTwo ==
    ASSUME NEW a \in Int, NEW b \in Int
    PROVE  Max({a, b}) \in {a, b} /\ a <= Max({a, b}) /\ b <= Max({a, b})
<1>1. CASE a <= b
  BY <1>1, MaxOfBounded, \A x \in {a, b} : x <= b
<1>2. CASE ~(a <= b)
  BY <1>2, MaxOfBounded, \A x \in {a, b} : x <= a
<1> QED
  BY <1>1, <1>2

\* Whole quotients.
LEMMA Quotients ==
    ASSUME NEW a \in Int, NEW b \in Nat \ {0}
    PROVE  /\ a \div b \in Int
           /\ (a \div b) * b <= a /\ a < (a \div b) * b + b
           /\ a >= 0 => a \div b >= 0
  OBVIOUS

\* The quotient that Go makes is whole, and keeps the sign.
LEMMA QuotientType ==
    ASSUME NEW a \in Int, NEW b \in Nat \ {0}
    PROVE  /\ Quotient(a, b) \in Int
           /\ a >= 0 => Quotient(a, b) >= 0 /\ Quotient(a, b) * b <= a
<1>1. CASE a >= 0
  BY <1>1, Quotients DEF Quotient
<1>2. CASE ~(a >= 0)
  BY <1>2, Quotients, -a \in Int DEF Quotient
<1> QED
  BY <1>1, <1>2

LEMMA Products ==
    ASSUME NEW a \in Nat, NEW b \in Nat
    PROVE  a * b \in Nat
  OBVIOUS

\* A conversion between timestamps and durations gives a whole number and keeps
\* the sign.
LEMMA ConversionType ==
    ASSUME NEW v \in Int, NEW m \in Nat \ {0}, NEW d \in Nat \ {0}
    PROVE  /\ multiplyAndDivide(v, m, d) \in Int
           /\ v >= 0 => multiplyAndDivide(v, m, d) >= 0
<1> DEFINE secs == Quotient(v, d)
           rest == v - secs * d
<1>1. secs \in Int /\ (v >= 0 => secs \in Nat /\ rest \in Nat)
  <2>1. secs \in Int /\ (v >= 0 => secs >= 0 /\ secs * d <= v)
    BY QuotientType
  <2> HIDE DEF secs
  <2>2. secs * d \in Int
    BY <2>1
  <2> QED
    BY <2>1, <2>2
<1>2. rest \in Int /\ multiplyAndDivide(v, m, d) = secs * m + Quotient(rest * m, d)
  BY <1>1 DEF multiplyAndDivide
<1> HIDE DEF secs, rest
<1>3. rest * m \in Int /\ secs * m \in Int
  BY <1>1, <1>2
<1>4. Quotient(rest * m, d) \in Int /\ (rest * m >= 0 => Quotient(rest * m, d) >= 0)
  BY <1>3, QuotientType
<1>5. ASSUME v >= 0 PROVE rest * m >= 0 /\ secs * m >= 0
  BY <1>1, <1>5, Products
<1> HIDE DEF multiplyAndDivide
<1> QED
  BY <1>2, <1>3, <1>4, <1>5

LEMMA DurationType ==
    ASSUME SegmenterAssumption, NEW v \in Int
    PROVE  timestampToDuration(v) \in Int /\ (v >= 0 => timestampToDuration(v) \in Nat)
<1>1. Second \in Nat \ {0} /\ ClockRate \in Nat \ {0}
  BY DEF SegmenterAssumption
<1> QED
  BY <1>1, ConversionType DEF timestampToDuration

\* Rounding from above.
LEMMA RoundUpBounds ==
    ASSUME NEW v \in Int, NEW unit \in Nat \ {0}
    PROVE  /\ RoundUp(v, unit) \in Int
           /\ v <= RoundUp(v, unit)
<1>1. v + unit - 1 \in Int
  OBVIOUS
<1> DEFINE q == (v + unit - 1) \div unit
<1>2. q \in Int /\ v + unit - 1 < q * unit + unit
  BY <1>1, Quotients
<1> HIDE DEF q
<1>3. q * unit \in Int
  BY <1>2
<1>4. RoundUp(v, unit) = q * unit
  BY DEF RoundUp, q
<1> HIDE DEF RoundUp
<1> QED
  BY <1>2, <1>3, <1>4

--------------------------------------------------------------------------------
(***************************************************************************)
(* The leading stream: its type, its targets.                              *)
(***************************************************************************)

OpenSegment == [start : Int, parts : Seq(PartType), opening : Openings]
ListedSegment ==
    [duration : Nat \ {0}, parts : Seq(PartType), opening : Openings \union {"gap"}]
OpenPart == [start : Int, lengths : SUBSET Nat]

StreamTyped ==
    /\ segment \subseteq OpenSegment /\ Cardinality(segment) <= 1
    /\ part \in OpenPart
    /\ segments \in Seq(ListedSegment)
    /\ target \in Nat /\ partTarget \in Nat

\* What a segment that is being written must be like: the announced part
\* duration covers it, and an MPEG-TS segment has no parts.
Covered(seg) ==
    /\ seg \in OpenSegment
    /\ \A q \in ToSet(seg.parts) : q.duration <= partTarget
    /\ variant = "MPEGTS" => seg.parts = << >>

\* TargetsCover, with what it needs to last: the largest part duration is not
\* looked for in an MPEG-TS stream, which must have none.
StreamInv ==
    /\ StreamTyped
    /\ TargetsCover
    /\ variant = "MPEGTS" => \A seg \in ToSet(segments) \union segment : seg.parts = << >>

\* The elements of a sequence, one by one.
LEMMA Elements ==
    ASSUME NEW S, NEW s \in Seq(S)
    PROVE  /\ ToSet(s) \subseteq S
           /\ \A i \in 1..Len(s) : s[i] \in ToSet(s)
           /\ \A x \in S : ToSet(Append(s, x)) = ToSet(s) \union {x}
<1>1. DOMAIN s = 1..Len(s) /\ Len(s) \in Nat /\ \A i \in 1..Len(s) : s[i] \in S
  OBVIOUS
<1>2. ToSet(s) \subseteq S /\ \A i \in 1..Len(s) : s[i] \in ToSet(s)
  BY <1>1 DEF ToSet
<1>3. ASSUME NEW x \in S PROVE ToSet(Append(s, x)) = ToSet(s) \union {x}
  <2> DEFINE longer == Append(s, x)
  <2>1. /\ DOMAIN longer = 1..Len(s) + 1
        /\ longer[Len(s) + 1] = x
        /\ \A i \in 1..Len(s) : longer[i] = s[i]
    BY <1>1
  <2> HIDE DEF longer
  <2>2. ToSet(longer) \subseteq ToSet(s) \union {x}
    <3>1. \A i \in 1..Len(s) + 1 : i \in 1..Len(s) \/ i = Len(s) + 1
      BY <1>1
    <3> QED
      BY <1>1, <2>1, <3>1 DEF ToSet
  <2>3. ToSet(s) \union {x} \subseteq ToSet(longer)
    <3>1. Len(s) + 1 \in 1..Len(s) + 1 /\ \A i \in 1..Len(s) : i \in 1..Len(s) + 1
      BY <1>1
    <3> QED
      BY <1>1, <2>1, <3>1 DEF ToSet
  <2> QED
    BY <2>2, <2>3 DEF longer
<1> QED
  BY <1>2, <1>3

\* The duration announced for parts covers those it is made from.
LEMMA PartTargetCovers ==
    ASSUME SegmenterAssumption,
           NEW window \in Seq(ListedSegment), NEW parts \in Seq(PartType), NEW b \in Int,
           \A seg \in ToSet(window) : \A q \in ToSet(seg.parts) : q.duration <= b,
           \A q \in ToSet(parts) : q.duration <= b
    PROVE  /\ partTargetDuration(window, parts) \in Nat
           /\ \A seg \in ToSet(window) : \A q \in ToSet(seg.parts) :
                q.duration <= partTargetDuration(window, parts)
           /\ \A q \in ToSet(parts) : q.duration <= partTargetDuration(window, parts)
<1> DEFINE listed == (UNION {ToSet(seg.parts) : seg \in ToSet(window)}) \union ToSet(parts)
           D == {0} \union {q.duration : q \in listed}
<1>1. Millisecond \in Nat \ {0}
  BY DEF SegmenterAssumption
<1>2. /\ \A seg \in ToSet(window) : ToSet(seg.parts) \subseteq PartType
      /\ ToSet(parts) \subseteq PartType
  <2>1. \A seg \in ToSet(window) : seg \in ListedSegment
    BY Elements
  <2>2. \A seg \in ToSet(window) : seg.parts \in Seq(PartType)
    BY <2>1 DEF ListedSegment
  <2> QED
    BY <2>2, Elements
<1>3. /\ \A q \in listed : q \in PartType /\ q.duration <= b
      /\ \A seg \in ToSet(window) : \A q \in ToSet(seg.parts) : q \in listed
      /\ \A q \in ToSet(parts) : q \in listed
  <2>1. \A q \in listed : q \in ToSet(parts) \/ \E seg \in ToSet(window) : q \in ToSet(seg.parts)
    BY ONLY DEF listed
  <2>2. \A q \in listed : q.duration <= b
    BY <2>1, Zenon
  <2>3. \A q \in listed : q \in PartType
    BY ONLY <1>2, <2>1, Zenon
  <2>4. /\ \A seg \in ToSet(window) : \A q \in ToSet(seg.parts) : q \in listed
        /\ \A q \in ToSet(parts) : q \in listed
    BY ONLY DEF listed
  <2> QED
    BY ONLY <2>2, <2>3, <2>4
<1>4. partTargetDuration(window, parts) = RoundUp(Max(D), Millisecond)
  BY DEF partTargetDuration
<1> HIDE DEF listed
<1>5. D \in SUBSET Int /\ 0 \in D /\ \A q \in listed : q.duration \in D
  <2>1. \A q \in listed : q.duration \in Int
    BY ONLY <1>3 DEF PartType
  <2> QED
    BY ONLY <2>1
<1>6. \E c \in Int : \A x \in D : x <= c
  <2>1. CASE b >= 0
    BY ONLY <1>3, <2>1, b \in Int
  <2>2. CASE ~(b >= 0)
    <3>1. \A q \in listed : q.duration <= 0
      <4> SUFFICES ASSUME NEW q \in listed PROVE q.duration <= 0
        OBVIOUS
      <4>1. q.duration \in Int /\ q.duration <= b
        BY ONLY <1>3 DEF PartType
      <4> QED
        BY ONLY <2>2, <4>1, b \in Int
    <3> QED
      BY ONLY <3>1
  <2> QED
    BY <2>1, <2>2
<1> HIDE DEF D
<1>7. Max(D) \in D /\ \A x \in D : x <= Max(D)
  BY <1>5, <1>6, MaxOfBounded
<1>8. Max(D) \in Int /\ 0 <= Max(D) /\ \A q \in listed : q.duration <= Max(D)
  BY <1>5, <1>7
<1>9. RoundUp(Max(D), Millisecond) \in Int /\ Max(D) <= RoundUp(Max(D), Millisecond)
  BY <1>1, <1>8, RoundUpBounds
<1> DEFINE top == Max(D)
           announced == RoundUp(Max(D), Millisecond)
<1>10. /\ top \in Int /\ announced \in Int /\ 0 <= top /\ top <= announced
       /\ \A q \in listed : q.duration \in Int /\ q.duration <= top
  BY <1>3, <1>8, <1>9 DEF PartType
<1> HIDE DEF top, announced
<1>11. announced \in Nat /\ \A q \in listed : q.duration <= announced
  BY ONLY <1>10
<1> QED
  BY <1>3, <1>4, <1>11 DEF announced

\* Rounding a duration to seconds: what the result covers, and when a number
\* covers the duration.
LEMMA SecondsCover ==
    ASSUME NEW d \in Nat, NEW s \in Nat \ {0}, NEW n \in Nat
    PROVE  /\ (2 * d + s) \div (2 * s) \in Nat
           /\ (2 * d + s) \div (2 * s) <= n <=> 2 * d < (2 * n + 1) * s
<1> DEFINE a == 2 * d + s
           unit == 2 * s
           q == a \div unit
<1>1. a \in Nat /\ unit \in Nat \ {0}
  OBVIOUS
<1>2. q \in Int /\ q >= 0 /\ q * (2 * s) <= 2 * d + s /\ 2 * d + s < q * (2 * s) + 2 * s
  <2> HIDE DEF a, unit
  <2>1. q \in Int /\ q >= 0 /\ q * unit <= a /\ a < q * unit + unit
    BY <1>1, Quotients
  <2> QED
    BY <2>1 DEF a, unit
<1> HIDE DEF q
<1>3. ASSUME q <= n PROVE 2 * d < (2 * n + 1) * s
  <2>1. (n - q) * s >= 0 /\ n * s \in Int /\ q * s \in Int
    BY <1>2, <1>3, Products
  <2>2. q * s <= n * s
    BY <1>2, <2>1
  <2> QED
    BY <1>2, <2>1, <2>2
<1>4. ASSUME ~(q <= n) PROVE ~(2 * d < (2 * n + 1) * s)
  <2>1. q - n - 1 \in Nat
    BY <1>2, <1>4
  <2>2. (q - n - 1) * s >= 0 /\ n * s \in Int /\ q * s \in Int
    BY <1>2, <2>1, Products
  <2>3. n * s + s <= q * s
    BY <1>2, <2>2
  <2> QED
    BY <1>2, <2>2, <2>3
<1> QED
  BY <1>2, <1>3, <1>4 DEF q

\* The duration announced for segments covers the window.
LEMMA TargetCovers ==
    ASSUME SegmenterAssumption, NEW window \in Seq(ListedSegment), NEW b \in Nat,
           \A seg \in ToSet(window) : 2 * seg.duration < (2 * b + 1) * Second,
           target \in Nat
    PROVE  /\ RaisedTarget(window) \in Nat
           /\ \A seg \in ToSet(window) :
                2 * seg.duration < (2 * RaisedTarget(window) + 1) * Second
<1> DEFINE secs(seg) == (2 * seg.duration + Second) \div (2 * Second)
           D == {0} \union {secs(seg) : seg \in ToSet(window)}
<1>1. Second \in Nat \ {0}
  BY DEF SegmenterAssumption
<1>2. \A seg \in ToSet(window) : seg.duration \in Nat
  <2>1. \A seg \in ToSet(window) : seg \in ListedSegment
    BY Elements
  <2> QED
    BY <2>1 DEF ListedSegment
<1>3. \A seg \in ToSet(window) : secs(seg) \in Nat /\ secs(seg) <= b
  BY <1>1, <1>2, SecondsCover
<1> HIDE DEF secs
<1>4. /\ D \in SUBSET Int /\ 0 \in D /\ \A x \in D : x <= b
      /\ \A seg \in ToSet(window) : secs(seg) \in D
  BY <1>3
<1>5. RaisedTarget(window) = Max({target, Max(D)})
  BY DEF RaisedTarget, targetDuration, secs
<1> HIDE DEF D
<1>6. Max(D) \in D /\ \A x \in D : x <= Max(D)
  <2>1. D \in SUBSET Int /\ D # {} /\ b \in Int /\ \A x \in D : x <= b
    BY <1>4
  <2> QED
    BY ONLY <2>1, MaxOfBounded
<1>7. Max(D) \in Int /\ 0 <= Max(D) /\ \A seg \in ToSet(window) : secs(seg) <= Max(D)
  BY <1>4, <1>6
<1> DEFINE top == Max(D)
<1> HIDE DEF top
<1>8. RaisedTarget(window) \in Nat /\ top <= RaisedTarget(window)
  <2>1. RaisedTarget(window) = Max({target, top}) /\ top \in Int /\ 0 <= top
    BY <1>5, <1>7 DEF top
  <2>2. target \in Int /\ target >= 0
    OBVIOUS
  <2>3. Max({target, top}) \in {target, top} /\ top <= Max({target, top})
    BY ONLY <2>1, <2>2, MaxOfTwo
  <2> QED
    BY <2>1, <2>2, <2>3
<1>9. \A seg \in ToSet(window) : secs(seg) \in Nat /\ secs(seg) <= RaisedTarget(window)
  <2>1. top \in Int /\ \A seg \in ToSet(window) : secs(seg) <= top
    BY <1>7 DEF top
  <2>2. \A n \in Nat : n <= top => n <= RaisedTarget(window)
    BY ONLY <1>8, <2>1
  <2> QED
    BY ONLY <1>3, <2>1, <2>2
<1> QED
  BY <1>1, <1>2, <1>8, <1>9, SecondsCover DEF secs

\* The part that ends joins the others.
LEMMA PublishedType ==
    ASSUME NEW parts \in Seq(PartType), NEW p \in OpenPart, NEW t \in Int, adjusted' \in Nat
    PROVE  /\ Published(parts, p, t) \in Seq(PartType)
           /\ \A b \in Int : (\A q \in ToSet(parts) : q.duration <= b) /\ t - p.start <= b =>
                \A q \in ToSet(Published(parts, p, t)) : q.duration <= b
           /\ variant = "MPEGTS" => Published(parts, p, t) = parts
<1> DEFINE new == [duration |-> t - p.start, lengths |-> p.lengths, allowed |-> adjusted']
<1>1. new \in PartType /\ new.duration = t - p.start
  BY DEF PartType, OpenPart
<1>2. Published(parts, p, t) = IF variant = "LL" THEN Append(parts, new) ELSE parts
  BY DEF Published
<1> HIDE DEF new
<1>3. Append(parts, new) \in Seq(PartType) /\ ToSet(Append(parts, new)) = ToSet(parts) \union {new}
  BY <1>1, Elements
<1> QED
  BY <1>1, <1>2, <1>3

\* A segment of the window is not one that is being written.
LEMMA ListedNotOpen == \A seg \in ListedSegment : seg \notin OpenSegment
<1> SUFFICES ASSUME NEW seg \in ListedSegment, seg \in OpenSegment PROVE FALSE
  OBVIOUS
<1>1. DOMAIN seg = {"duration", "parts", "opening"}
  BY DEF ListedSegment
<1>2. DOMAIN seg = {"start", "parts", "opening"}
  BY DEF OpenSegment
<1> QED
  BY <1>1, <1>2

\* StreamInv, of the segments of the window and of the one being written.
AllCovered ==
    /\ \A seg \in ToSet(segments) :
        /\ 2 * seg.duration < (2 * target + 1) * Second
        /\ \A q \in ToSet(seg.parts) : q.duration <= partTarget
        /\ variant = "MPEGTS" => seg.parts = << >>
    /\ \A seg \in segment : Covered(seg)

LEMMA StreamInvParts == StreamInv <=> StreamTyped /\ AllCovered
<1> SUFFICES ASSUME StreamTyped PROVE StreamInv <=> AllCovered
  BY DEF StreamInv
<1>1. \A seg \in ToSet(segments) : seg \notin segment
  <2>1. \A seg \in ToSet(segments) : seg \in ListedSegment
    BY Elements DEF StreamTyped
  <2> QED
    BY <2>1, ListedNotOpen DEF StreamTyped
<1>2. \A seg \in segment : seg \in OpenSegment
  BY DEF StreamTyped
<1> QED
  BY <1>1, <1>2, Zenon DEF StreamInv, TargetsCover, Covered, AllCovered

\* The durations of parts are numbers.
LEMMA PartDurations ==
    ASSUME NEW parts \in Seq(PartType)
    PROVE  \A q \in ToSet(parts) : q.duration \in Int
<1>1. \A q \in ToSet(parts) : q \in PartType
  BY Elements
<1> QED
  BY <1>1 DEF PartType

LEMMA AtMostOne == \A x : Cardinality({x}) <= 1
<1>1. \A x : Cardinality({x}) = 1
  BY FS_Singleton, Zenon
<1> QED
  BY <1>1

\* A part ends in the middle of a segment.
LEMMA RotatePartsKeeps ==
    ASSUME SegmenterAssumption, StreamInv, NEW seg, Covered(seg), NEW p \in OpenPart,
           NEW t \in Int, adjusted' \in Nat, variant = "LL", variant' = variant,
           rotateParts(seg, p, t)
    PROVE  StreamInv'
<1> DEFINE parts == Published(seg.parts, p, t)
           b == IF partTarget >= t - p.start THEN partTarget ELSE t - p.start
<1>1. StreamTyped /\ seg \in OpenSegment /\ seg.parts \in Seq(PartType)
  BY DEF StreamInv, Covered, OpenSegment
<1>2. /\ \A s \in ToSet(segments) :
            /\ 2 * s.duration < (2 * target + 1) * Second
            /\ \A q \in ToSet(s.parts) : q.duration <= partTarget
      /\ \A q \in ToSet(seg.parts) : q.duration <= partTarget
  BY <1>1, StreamInvParts DEF Covered, AllCovered
<1>3. segments \in Seq(ListedSegment) /\ partTarget \in Nat /\ t - p.start \in Int
  <2>1. segments \in Seq(ListedSegment) /\ partTarget \in Nat
    BY ONLY <1>1 DEF StreamTyped
  <2>2. p.start \in Int /\ t \in Int
    BY DEF OpenPart
  <2> QED
    BY ONLY <2>1, <2>2
<1>4. b \in Int /\ partTarget <= b /\ t - p.start <= b
  BY ONLY <1>3 DEF b
<1> HIDE DEF b
<1>5. /\ \A s \in ToSet(segments) : \A q \in ToSet(s.parts) : q.duration <= b
      /\ \A q \in ToSet(seg.parts) : q.duration <= b
  <2>1. \A s \in ToSet(segments) : s \in ListedSegment
    BY <1>3, Elements
  <2>2. \A s \in ToSet(segments) : s.parts \in Seq(PartType)
    BY <2>1 DEF ListedSegment
  <2>3. /\ \A s \in ToSet(segments) : \A q \in ToSet(s.parts) : q.duration \in Int
        /\ \A q \in ToSet(seg.parts) : q.duration \in Int
    BY <1>1, <2>2, PartDurations
  <2>4. \A n \in Int : n <= partTarget => n <= b
    BY ONLY <1>3, <1>4
  <2> QED
    BY ONLY <1>2, <2>3, <2>4
<1>6. parts \in Seq(PartType) /\ \A q \in ToSet(parts) : q.duration <= b
  BY <1>1, <1>4, <1>5, PublishedType
<1>7. /\ segment' = {[seg EXCEPT !.parts = parts]} /\ part' = NewPart(t)
      /\ segments' = segments /\ target' = target
      /\ partTarget' = partTargetDuration(segments, parts)
  BY DEF rotateParts
<1> HIDE DEF parts
<1>8. /\ partTarget' \in Nat
      /\ \A s \in ToSet(segments) : \A q \in ToSet(s.parts) : q.duration <= partTarget'
      /\ \A q \in ToSet(parts) : q.duration <= partTarget'
  BY <1>3, <1>4, <1>5, <1>6, <1>7, PartTargetCovers
<1> DEFINE new == [seg EXCEPT !.parts = parts]
<1>9. new \in OpenSegment /\ new.parts = parts
  BY <1>1, <1>6 DEF OpenSegment
<1> HIDE DEF new
<1>10. segment' = {new}
  BY <1>7 DEF new
<1>11. StreamTyped'
  <2>1. Cardinality(segment') <= 1
    BY <1>10, AtMostOne
  <2>2. part' \in OpenPart
    BY <1>7 DEF NewPart, OpenPart
  <2> QED
    BY <1>1, <1>7, <1>8, <1>9, <1>10, <2>1, <2>2 DEF StreamTyped
<1>12. AllCovered'
  BY <1>2, <1>7, <1>8, <1>9, <1>10 DEF Covered, AllCovered
<1> QED
  BY <1>11, <1>12, StreamInvParts, PTL

\* What is left of a window when its first entry leaves it.
LEMMA TailElements ==
    ASSUME NEW S, NEW s \in Seq(S), s # << >>
    PROVE  Tail(s) \in Seq(S) /\ ToSet(Tail(s)) \subseteq ToSet(s)
<1> DEFINE rest == Tail(s)
<1>1. /\ rest \in Seq(S) /\ DOMAIN rest = 1..Len(s) - 1
      /\ \A i \in 1..Len(s) - 1 : rest[i] = s[i + 1] /\ i + 1 \in 1..Len(s)
  OBVIOUS
<1> HIDE DEF rest
<1>2. DOMAIN s = 1..Len(s)
  OBVIOUS
<1>3. ToSet(rest) \subseteq ToSet(s)
  BY <1>1, <1>2 DEF ToSet
<1> QED
  BY <1>1, <1>3 DEF rest

LEMMA ConcatElements ==
    ASSUME NEW S, NEW s \in Seq(S), NEW t \in Seq(S)
    PROVE  s \o t \in Seq(S) /\ ToSet(s \o t) \subseteq ToSet(s) \union ToSet(t)
<1> DEFINE all == s \o t
<1>1. /\ all \in Seq(S) /\ Len(all) = Len(s) + Len(t) /\ DOMAIN all = 1..Len(all)
      /\ Len(s) \in Nat /\ Len(t) \in Nat
      /\ \A i \in 1..Len(all) : all[i] = IF i <= Len(s) THEN s[i] ELSE t[i - Len(s)]
  OBVIOUS
<1> HIDE DEF all
<1>2. ASSUME NEW i \in 1..Len(all) PROVE all[i] \in ToSet(s) \union ToSet(t)
  <2>1. CASE i <= Len(s)
    <3>1. i \in DOMAIN s /\ all[i] = s[i]
      BY <1>1, <2>1
    <3> QED
      BY <3>1 DEF ToSet
  <2>2. CASE ~(i <= Len(s))
    <3>1. i - Len(s) \in DOMAIN t /\ all[i] = t[i - Len(s)]
      BY <1>1, <2>2
    <3> QED
      BY <3>1 DEF ToSet
  <2> QED
    BY <2>1, <2>2
<1>3. ToSet(all) \subseteq ToSet(s) \union ToSet(t)
  BY <1>1, <1>2 DEF ToSet
<1> QED
  BY <1>1, <1>3 DEF all

\* The window of rotateSegments, before its first entry may leave it.
GapsBefore(done) ==
    IF variant = "LL" /\ segments = << >>
    THEN [i \in 1..GapCount |-> Gap(done.duration)] ELSE << >>
WindowWith(done) == segments \o GapsBefore(done) \o << done >>
Kept(window) == IF Len(window) > SegmentCount THEN Tail(window) ELSE window

\* The window after a rotation lists what it listed, the new segment and gaps of
\* the same duration.
LEMMA WindowElements ==
    ASSUME segments \in Seq(ListedSegment), NEW done \in ListedSegment
    PROVE  /\ Kept(WindowWith(done)) \in Seq(ListedSegment)
           /\ \A seg \in ToSet(Kept(WindowWith(done))) :
                seg \in ToSet(segments) \/ seg = done \/ seg = Gap(done.duration)
<1> DEFINE gap == Gap(done.duration)
           gaps == GapsBefore(done)
           window == WindowWith(done)
           kept == Kept(window)
<1>1. gap \in ListedSegment /\ gap = Gap(done.duration)
  BY DEF Gap, ListedSegment
<1>2. gaps \in Seq(ListedSegment) /\ ToSet(gaps) \subseteq {gap}
  <2>1. CASE variant = "LL" /\ segments = << >>
    <3>1. GapCount \in Nat
      BY SegmenterAssumption DEF SegmenterAssumption
    <3>2. gaps = [i \in 1..GapCount |-> gap]
      BY <2>1 DEF GapsBefore
    <3> HIDE DEF gap, gaps
    <3>3. gaps \in Seq(ListedSegment) /\ DOMAIN gaps = 1..GapCount
      BY <1>1, <3>1, <3>2
    <3>4. \A i \in 1..GapCount : gaps[i] = gap
      BY <3>2
    <3>5. ToSet(gaps) \subseteq {gap}
      BY ONLY <3>3, <3>4 DEF ToSet
    <3> QED
      BY <3>3, <3>5
  <2>2. CASE ~(variant = "LL" /\ segments = << >>)
    BY <2>2 DEF ToSet, GapsBefore
  <2> QED
    BY <2>1, <2>2
<1>7. window = segments \o gaps \o << done >>
  BY DEF WindowWith
<1>8. kept = IF Len(window) > SegmentCount THEN Tail(window) ELSE window
  BY DEF Kept
<1> HIDE DEF gap, gaps, window, kept
<1>3. << done >> \in Seq(ListedSegment) /\ ToSet(<< done >>) = {done}
  BY DEF ToSet
<1>4. /\ segments \o gaps \in Seq(ListedSegment)
      /\ ToSet(segments \o gaps) \subseteq ToSet(segments) \union {gap}
  <2>1. segments \in Seq(ListedSegment)
    OBVIOUS
  <2>2. /\ segments \o gaps \in Seq(ListedSegment)
        /\ ToSet(segments \o gaps) \subseteq ToSet(segments) \union ToSet(gaps)
    BY ONLY <1>2, <2>1, ConcatElements
  <2> QED
    BY <1>2, <2>2
<1>5. /\ window \in Seq(ListedSegment) /\ window # << >>
      /\ ToSet(window) \subseteq ToSet(segments) \union {gap, done}
  <2> DEFINE before == segments \o gaps
             last == << done >>
  <2>1. /\ before \in Seq(ListedSegment) /\ last \in Seq(ListedSegment)
        /\ ToSet(before) \subseteq ToSet(segments) \union {gap} /\ ToSet(last) = {done}
        /\ last # << >> /\ Len(last) = 1
    BY <1>3, <1>4
  <2>2. window = before \o last
    BY <1>7
  <2> HIDE DEF before, last
  <2>3. /\ before \o last \in Seq(ListedSegment)
        /\ ToSet(before \o last) \subseteq ToSet(before) \union ToSet(last)
    BY ONLY <2>1, ConcatElements
  <2>4. before \o last # << >>
    BY ONLY <2>1
  <2> QED
    BY <2>1, <2>2, <2>3, <2>4
<1>6. kept \in Seq(ListedSegment) /\ ToSet(kept) \subseteq ToSet(window)
  BY <1>5, <1>8, TailElements
<1> QED
  BY <1>1, <1>5, <1>6 DEF kept, window

\* A segment ends.
LEMMA RotateSegmentsKeeps ==
    ASSUME SegmenterAssumption, StreamInv, NEW seg, Covered(seg), NEW p \in OpenPart,
           NEW t \in Int, adjusted' \in Nat, variant' = variant,
           t - seg.start >= SegmentMin, NEW begins \in Openings,
           rotateSegments(seg, p, t, begins)
    PROVE  /\ StreamInv'
           /\ \A s \in ToSet(segments') :
                s \in ToSet(segments) \/ s.opening \in {seg.opening, "gap"}
           /\ \E s : segment' = {s} /\ s.opening = begins
<1> DEFINE parts == IF variant = "MPEGTS" THEN << >> ELSE Published(seg.parts, p, t)
           done == [duration |-> t - seg.start, parts |-> parts, opening |-> seg.opening]
           b == IF partTarget >= t - p.start THEN partTarget ELSE t - p.start
<1>1. /\ StreamTyped
      /\ seg \in OpenSegment /\ seg.parts \in Seq(PartType) /\ seg.opening \in Openings
      /\ seg.start \in Int
  BY DEF StreamInv, Covered, OpenSegment
<1>2. /\ \A s \in ToSet(segments) :
            /\ 2 * s.duration < (2 * target + 1) * Second
            /\ \A q \in ToSet(s.parts) : q.duration <= partTarget
            /\ variant = "MPEGTS" => s.parts = << >>
      /\ \A q \in ToSet(seg.parts) : q.duration <= partTarget
      /\ variant = "MPEGTS" => seg.parts = << >>
  BY <1>1, StreamInvParts DEF Covered, AllCovered
<1>3. /\ segments \in Seq(ListedSegment) /\ partTarget \in Nat /\ target \in Nat
      /\ t - p.start \in Int
  <2>1. segments \in Seq(ListedSegment) /\ partTarget \in Nat /\ target \in Nat
    BY ONLY <1>1 DEF StreamTyped
  <2>2. p.start \in Int /\ t \in Int
    BY DEF OpenPart
  <2> QED
    BY ONLY <2>1, <2>2
<1>4. b \in Int /\ partTarget <= b /\ t - p.start <= b
  BY ONLY <1>3 DEF b
<1> HIDE DEF b
<1>5. /\ \A s \in ToSet(segments) : \A q \in ToSet(s.parts) : q.duration <= b
      /\ \A q \in ToSet(seg.parts) : q.duration <= b
  <2>1. \A s \in ToSet(segments) : s \in ListedSegment
    BY <1>3, Elements
  <2>2. \A s \in ToSet(segments) : s.parts \in Seq(PartType)
    BY <2>1 DEF ListedSegment
  <2>3. /\ \A s \in ToSet(segments) : \A q \in ToSet(s.parts) : q.duration \in Int
        /\ \A q \in ToSet(seg.parts) : q.duration \in Int
    BY <1>1, <2>2, PartDurations
  <2>4. \A n \in Int : n <= partTarget => n <= b
    BY ONLY <1>3, <1>4
  <2> QED
    BY ONLY <1>2, <2>3, <2>4
<1>6. /\ parts \in Seq(PartType) /\ \A q \in ToSet(parts) : q.duration <= b
      /\ variant = "MPEGTS" => parts = << >>
  <2>1. CASE variant = "MPEGTS"
    BY <2>1 DEF ToSet
  <2>2. CASE variant # "MPEGTS"
    BY <1>1, <1>4, <1>5, <2>2, PublishedType
  <2> QED
    BY <2>1, <2>2
<1>7. /\ segments' = Kept(WindowWith(done))
      /\ segment' = {[NewSegment(t) EXCEPT !.opening = begins]}
      /\ part' = NewPart(t)
      /\ target' = RaisedTarget(segments')
      /\ partTarget' = IF variant = "MPEGTS" THEN 0 ELSE partTargetDuration(segments, parts)
  BY DEF rotateSegments, Kept, WindowWith, GapsBefore
<1> HIDE DEF parts
<1>8. done \in ListedSegment /\ done.parts = parts /\ done.opening = seg.opening
  <2>1. SegmentMin \in Nat \ {0}
    BY DEF SegmenterAssumption
  <2>2. t \in Int /\ seg.start \in Int /\ t - seg.start >= SegmentMin
    BY <1>1
  <2>3. t - seg.start \in Nat \ {0}
    BY ONLY <2>1, <2>2
  <2> QED
    BY <1>1, <1>6, <2>3 DEF ListedSegment
<1> HIDE DEF done
<1>9. /\ segments' \in Seq(ListedSegment)
       /\ \A s \in ToSet(segments') :
            \/ s \in ToSet(segments)
            \/ /\ s.duration = done.duration /\ (s.parts = << >> \/ s.parts = parts)
               /\ s.opening \in {seg.opening, "gap"}
  <2>1. /\ segments' \in Seq(ListedSegment)
        /\ \A s \in ToSet(segments') :
            s \in ToSet(segments) \/ s = done \/ s = Gap(done.duration)
    BY ONLY <1>3, <1>7, <1>8, WindowElements
  <2> QED
    BY <1>8, <2>1 DEF Gap
<1> DEFINE secs == (2 * done.duration + Second) \div (2 * Second)
           n == IF target >= secs THEN target ELSE secs
<1>10. n \in Nat /\ \A s \in ToSet(segments') : 2 * s.duration < (2 * n + 1) * Second
  <2>1. Second \in Nat \ {0}
    BY DEF SegmenterAssumption
  <2>2. done.duration \in Nat
    BY <1>8 DEF ListedSegment
  <2>3. secs \in Nat
    BY <2>1, <2>2, SecondsCover
  <2> HIDE DEF secs
  <2>4. n \in Nat /\ secs <= n /\ target <= n
    BY <1>3, <2>3
  <2> HIDE DEF n
  <2>5. 2 * done.duration < (2 * n + 1) * Second
    BY <2>1, <2>2, <2>4, SecondsCover DEF secs
  <2>6. ASSUME NEW s \in ToSet(segments) PROVE 2 * s.duration < (2 * n + 1) * Second
    <3>1. s \in ListedSegment
      BY <1>3, Elements
    <3>2. s.duration \in Nat
      BY <3>1 DEF ListedSegment
    <3> DEFINE covering == (2 * s.duration + Second) \div (2 * Second)
    <3>3. covering \in Nat /\ covering <= target
      BY <1>2, <1>3, <2>1, <3>2, SecondsCover
    <3> HIDE DEF covering
    <3>4. covering <= n
      BY <1>3, <2>4, <3>3
    <3> QED
      BY <2>1, <2>4, <3>2, <3>4, SecondsCover DEF covering
  <2> QED
    BY <1>9, <2>4, <2>5, <2>6
<1> HIDE DEF secs, n
<1>11. /\ target' \in Nat
       /\ \A s \in ToSet(segments') : 2 * s.duration < (2 * target' + 1) * Second
  BY <1>3, <1>7, <1>9, <1>10, TargetCovers
<1>12. /\ partTarget' \in Nat
       /\ \A s \in ToSet(segments) : \A q \in ToSet(s.parts) : q.duration <= partTarget'
       /\ \A q \in ToSet(parts) : q.duration <= partTarget'
  <2>1. CASE variant = "MPEGTS"
    BY SMTT(30), <1>2, <1>6, <1>7, <2>1 DEF ToSet
  <2>2. CASE variant # "MPEGTS"
    BY <1>3, <1>4, <1>5, <1>6, <1>7, <2>2, PartTargetCovers
  <2> QED
    BY <2>1, <2>2
<1> DEFINE new == [NewSegment(t) EXCEPT !.opening = begins]
<1>13. new \in OpenSegment /\ new.parts = << >> /\ new.opening = begins
  <2>1. new = [start |-> t, parts |-> << >>, opening |-> begins]
    BY DEF NewSegment
  <2>2. t \in Int /\ begins \in Openings /\ << >> \in Seq(PartType)
    OBVIOUS
  <2> HIDE DEF new
  <2> QED
    BY ONLY <2>1, <2>2 DEF OpenSegment
<1> HIDE DEF new
<1>14. segment' = {new}
  BY <1>7 DEF new
<1>15. StreamTyped'
  <2>1. Cardinality(segment') <= 1
    BY <1>14, AtMostOne
  <2>2. part' \in OpenPart
    BY <1>7 DEF NewPart, OpenPart
  <2> QED
    BY <1>9, <1>11, <1>12, <1>13, <1>14, <2>1, <2>2 DEF StreamTyped
<1>16. AllCovered'
  <2>1. \A q \in ToSet(<< >>) : FALSE
    BY DEF ToSet
  <2>2. ASSUME NEW s \in ToSet(segments')
        PROVE  /\ \A q \in ToSet(s.parts) : q.duration <= partTarget'
               /\ variant' = "MPEGTS" => s.parts = << >>
    BY <1>2, <1>6, <1>9, <1>12, <2>1
  <2>3. Covered(new)'
    BY <1>13, <2>1 DEF Covered
  <2> QED
    BY <1>11, <1>14, <2>2, <2>3 DEF AllCovered
<1>17. StreamInv'
  BY <1>15, <1>16, StreamInvParts, PTL
<1> QED
  BY <1>9, <1>13, <1>14, <1>17

--------------------------------------------------------------------------------
(***************************************************************************)
(* The samples.                                                            *)
(***************************************************************************)

InputTyped ==
    /\ << variant, codec >> \in Muxers
    /\ given \in [Tracks -> Int] /\ written \in [Tracks -> Nat]
    /\ found \in BOOLEAN

WaitingTyped ==
    /\ next \in [Tracks -> SUBSET Sample] /\ end \in [Tracks -> SUBSET Nat]
    /\ \A t \in Tracks : Cardinality(next[t]) <= 1 /\ Cardinality(end[t]) <= 1

AdjustTyped ==
    known \subseteq Nat \ {0} /\ adjusted \in Nat /\ frozen \in BOOLEAN

SegmenterInv ==
    InputTyped /\ WaitingTyped /\ AdjustTyped /\ failed \in BOOLEAN /\ StreamInv

\* What is added to timestamps.
Offset == durationToTimestamp(fmp4StartDTS)

LEMMA OffsetType == Offset \in Int
<1>1. /\ Second \in Nat \ {0} /\ ClockRate \in Nat \ {0} /\ fmp4StartDTS \in Int
  BY SegmenterAssumption DEF SegmenterAssumption
<1> QED
  BY ONLY <1>1, ConversionType DEF Offset, durationToTimestamp

\* The part duration that is looked for is found.
LEMMA PartDurationFound ==
    ASSUME NEW lengths
    PROVE  findCompatiblePartDuration(lengths) \in Nat
<1> DEFINE tried == {PartMin + k * Step : k \in 0..((Ceiling - PartMin) \div Step)}
           fit == {d \in tried : d < Ceiling /\ partDurationIsCompatibleWithAll(d, lengths)}
           up == RoundUp(Ceiling - PartMin, Step)
<1>1. PartMin \in Nat /\ Step \in Nat \ {0} /\ Ceiling \in Nat
  BY SegmenterAssumption DEF SegmenterAssumption
<1>2. \A k \in 0..((Ceiling - PartMin) \div Step) : k \in Nat
  <2>1. Ceiling - PartMin \in Int
    BY ONLY <1>1
  <2>2. (Ceiling - PartMin) \div Step \in Int
    BY ONLY <1>1, <2>1, Quotients
  <2> QED
    BY ONLY <2>2
<1>3. \A k \in Nat : k * Step \in Nat
  BY ONLY <1>1, Products
<1>4. fit \in SUBSET Nat
  BY ONLY <1>1, <1>2, <1>3
<1>5. Max({0, up}) \in Int /\ Max({0, up}) >= 0
  <2>1. Ceiling - PartMin \in Int
    BY ONLY <1>1
  <2>2. up \in Int
    BY ONLY <1>1, <2>1, RoundUpBounds
  <2> HIDE DEF up
  <2>3. 0 \in Int
    OBVIOUS
  <2> QED
    BY ONLY <2>2, <2>3, MaxOfTwo
<1>6. findCompatiblePartDuration(lengths) = IF fit # {} THEN Min(fit) ELSE PartMin + Max({0, up})
  BY DEF findCompatiblePartDuration
<1> HIDE DEF fit, up
<1>7. fit # {} => Min(fit) \in Nat
  BY ONLY <1>4, MinOfNaturals
<1>8. PartMin + Max({0, up}) \in Nat
  BY ONLY <1>1, <1>5
<1> QED
  BY ONLY <1>6, <1>7, <1>8

LEMMA AdjustKeepsType ==
    ASSUME known \subseteq Nat \ {0}, adjusted \in Nat, NEW length \in Nat,
           fmp4AdjustPartDuration(length)
    PROVE  known' \subseteq Nat \ {0} /\ adjusted' \in Nat
<1>1. CASE variant # "LL" \/ frozen \/ length \in known \union {0}
  BY <1>1 DEF fmp4AdjustPartDuration
<1>2. CASE ~(variant # "LL" \/ frozen \/ length \in known \union {0})
  BY <1>2, PartDurationFound DEF fmp4AdjustPartDuration
<1> QED
  BY <1>1, <1>2

\* The new sample that waits starts where it should, and not before the last one;
\* the last one lasts up to there, modulo the range of durations.
LEMMA TakeWaits ==
    ASSUME WaitingTyped, NEW t \in Tracks, NEW sample \in next[t], NEW dts \in Int,
           NEW random \in BOOLEAN, Take(t, sample, dts, random)
    PROVE  \E n \in Sample :
            /\ n.random = random
            /\ n.dts \in {dts + Offset, sample.dts}
            /\ dts + Offset <= n.dts /\ sample.dts <= n.dts
            /\ next' = [next EXCEPT ![t] = {n}]
            /\ Length(t, sample) = (n.dts - sample.dts) % DurationRange
            /\ Length(t, sample) \in Nat
<1> DEFINE start == dts + Offset
           top == Max({start, sample.dts})
           n == [dts |-> top, random |-> random]
<1>1. sample \in Sample
  BY DEF WaitingTyped
<1>2. start \in Int /\ sample.dts \in Nat
  BY <1>1, OffsetType DEF Sample
<1> HIDE DEF start
<1>3. top \in {start, sample.dts} /\ start <= top /\ sample.dts <= top
  <2> DEFINE last == sample.dts
  <2>1. last \in Int /\ top = Max({start, last})
    BY <1>2
  <2> HIDE DEF last, top
  <2>2. top \in {start, last} /\ start <= top /\ last <= top
    BY ONLY <1>2, <2>1, MaxOfTwo
  <2> QED
    BY <2>2 DEF last
<1>4. next' = [next EXCEPT ![t] = {[dts |-> Max({start, sample.dts}), random |-> random]}]
  BY DEF Take, start, Offset
<1>5. next'[t] = {n}
  BY <1>4 DEF WaitingTyped
<1> HIDE DEF top
<1>6. top \in Nat /\ top - sample.dts \in Nat
  BY ONLY <1>2, <1>3
<1>7. n \in Sample /\ n.random = random /\ n.dts = top
  BY <1>6 DEF Sample
<1> DEFINE wait == top - sample.dts
<1>8. Length(t, sample) = Max({0, wait}) % DurationRange
  <2>1. {m.dts - sample.dts : m \in next'[t]} = {wait}
    BY <1>5, <1>7
  <2>2. {0} \union {m.dts - sample.dts : m \in next'[t]} = {0, wait}
    BY ONLY <2>1
  <2> QED
    BY ONLY <2>2 DEF Length
<1> HIDE DEF wait
<1>9. Max({0, wait}) = wait
  <2>1. 0 \in Int /\ wait \in Int /\ wait >= 0
    BY <1>6 DEF wait
  <2>2. Max({0, wait}) \in {0, wait} /\ wait <= Max({0, wait})
    BY ONLY <2>1, MaxOfTwo
  <2> QED
    BY ONLY <2>1, <2>2
<1>10. Length(t, sample) \in Nat
  <2>1. DurationRange \in Nat \ {0}
    BY SegmenterAssumption DEF SegmenterAssumption
  <2>2. wait \in Nat
    BY <1>6 DEF wait
  <2> QED
    BY ONLY <1>8, <1>9, <2>1, <2>2
<1> QED
  BY <1>3, <1>4, <1>6, <1>7, <1>8, <1>9, <1>10 DEF top, wait, start

\* The sample that ends, or the last one.
LEMMA WriteSampleEnds ==
    ASSUME WaitingTyped, NEW t \in Tracks, NEW sample \in next[t], NEW fits \in BOOLEAN,
           Length(t, sample) \in Nat, failed \in BOOLEAN, WriteSample(t, sample, fits)
    PROVE  /\ failed' \in BOOLEAN
           /\ end' \in [Tracks -> SUBSET Nat]
           /\ \A u \in Tracks : Cardinality(end'[u]) <= 1
<1>1. sample.dts \in Nat
  <2>1. sample \in Sample
    BY DEF WaitingTyped
  <2> QED
    BY <2>1 DEF Sample
<1>2. failed' \in BOOLEAN
  BY DEF WriteSample
<1>3. CASE ~fits
  BY <1>2, <1>3 DEF WriteSample, WaitingTyped
<1>4. CASE fits
  <2> DEFINE stop == sample.dts + Length(t, sample)
  <2>1. stop \in Nat /\ end' = [end EXCEPT ![t] = {stop}]
    BY <1>1, <1>4 DEF WriteSample
  <2> HIDE DEF stop
  <2>2. end' \in [Tracks -> SUBSET Nat] /\ \A u \in Tracks : end'[u] = {stop} \/ end'[u] = end[u]
    BY <2>1 DEF WaitingTyped
  <2> QED
    BY <1>2, <2>2, AtMostOne DEF WaitingTyped
<1> QED
  BY <1>3, <1>4

LEMMA GiveKeepsType ==
    ASSUME InputTyped, NEW t \in Tracks, NEW dts \in Int, NEW random \in BOOLEAN,
           Give(t, dts, random)
    PROVE  InputTyped' /\ given' = [given EXCEPT ![t] = dts] /\ variant' = variant
  BY DEF InputTyped, Give

\* The steps of a segmenter.
LEMMA StepCases ==
    ASSUME InputTyped, Next
    PROVE  \E t \in Tracks, dts \in Int, random \in BOOLEAN :
            /\ dts - given[t] \in Deltas[t]
            /\ \/ WriteNegative(t, dts, random)
               \/ WriteFirst(t, dts, random)
               \/ t = 1 /\ WriteLeading(dts, random)
               \/ t = 2 /\ WriteOther(dts)
               \/ t = 1 /\ WriteMPEGTS(dts, random)
<1>1. PICK t \in Tracks, d \in UNION {Deltas[u] : u \in Tracks}, random \in BOOLEAN :
        /\ d \in Deltas[t]
        /\ \/ WriteNegative(t, given[t] + d, random)
           \/ WriteFirst(t, given[t] + d, random)
           \/ t = 1 /\ WriteLeading(given[t] + d, random)
           \/ t = 2 /\ random /\ WriteOther(given[t] + d)
           \/ t = 1 /\ WriteMPEGTS(given[t] + d, random)
  BY Zenon DEF Next
<1> DEFINE dts == given[t] + d
<1>2. d \in Int /\ given[t] \in Int
  <2>1. Deltas \in [Tracks -> SUBSET Int]
    BY SegmenterAssumption DEF SegmenterAssumption
  <2>2. Deltas[t] \in SUBSET Int
    BY ONLY <2>1, t \in Tracks
  <2> QED
    BY <1>1, <2>2 DEF InputTyped
<1>3. dts \in Int /\ dts - given[t] = d
  BY ONLY <1>2
<1> HIDE DEF dts
<1>4. /\ dts - given[t] \in Deltas[t]
      /\ \/ WriteNegative(t, dts, random)
         \/ WriteFirst(t, dts, random)
         \/ t = 1 /\ WriteLeading(dts, random)
         \/ t = 2 /\ WriteOther(dts)
         \/ t = 1 /\ WriteMPEGTS(dts, random)
  BY <1>1, <1>3, Zenon DEF dts
<1> QED
  BY <1>3, <1>4, Zenon

\* What the writers of the leading track find: the segment that is written, or a
\* first one.
LEMMA CurrentSegment ==
    ASSUME StreamInv, NEW t \in Int, NEW seg,
           seg = IF segment = {} THEN NewSegment(t) ELSE CHOOSE s \in segment : TRUE
    PROVE  /\ Covered(seg)
           /\ segment # {} => seg \in segment
           /\ segment = {} => seg = NewSegment(t)
<1>1. CASE segment # {}
  <2>1. seg \in segment
    BY <1>1
  <2> QED
    BY <1>1, <2>1, StreamInvParts DEF AllCovered
<1>2. CASE segment = {}
  <2>1. seg = NewSegment(t)
    BY <1>2
  <2>2. seg \in OpenSegment /\ seg.parts = << >>
    <3>1. t \in Int /\ << >> \in Seq(PartType) /\ "nothing" \in Openings
      BY DEF Openings
    <3>2. seg = [start |-> t, parts |-> << >>, opening |-> "nothing"]
      BY <2>1 DEF NewSegment
    <3> QED
      BY ONLY <3>1, <3>2 DEF OpenSegment
  <2>3. \A q \in ToSet(<< >>) : FALSE
    BY DEF ToSet
  <2> QED
    BY <1>2, <2>1, <2>2, <2>3 DEF Covered
<1> QED
  BY <1>1, <1>2

LEMMA OpenedCovered ==
    ASSUME NEW seg, Covered(seg), NEW random \in BOOLEAN
    PROVE  /\ Covered(Opened(seg, random))
           /\ Opened(seg, random).start = seg.start /\ Opened(seg, random).parts = seg.parts
           /\ Opened(seg, random).opening =
                IF seg.opening # "nothing" THEN seg.opening ELSE IF random THEN "random" ELSE "other"
<1> DEFINE new == IF seg.opening # "nothing" THEN seg.opening ELSE IF random THEN "random" ELSE "other"
           full == [seg EXCEPT !.opening = new]
<1>1. full = Opened(seg, random)
  BY DEF Opened
<1>2. seg \in OpenSegment /\ new \in Openings
  BY DEF Covered, OpenSegment, Openings
<1> HIDE DEF new
<1>3. full \in OpenSegment /\ full.start = seg.start /\ full.parts = seg.parts /\ full.opening = new
  BY <1>2 DEF OpenSegment
<1> HIDE DEF full
<1>4. Covered(full)
  BY <1>3 DEF Covered
<1> QED
  BY <1>1, <1>3, <1>4 DEF new

\* A segment takes the place of the one that is written, and the window stays.
LEMMA SegmentKeptCovered ==
    ASSUME StreamInv, NEW seg, Covered(seg), segment' = {seg}, part' \in OpenPart,
           UNCHANGED << variant, segments, target, partTarget >>
    PROVE  StreamInv'
<1>1. StreamTyped /\ AllCovered
  BY StreamInvParts
<1>2. StreamTyped'
  BY <1>1, AtMostOne DEF StreamTyped, Covered
<1>3. AllCovered'
  BY <1>1, Zenon DEF AllCovered, Covered
<1> QED
  BY <1>2, <1>3, StreamInvParts, PTL

\* Nothing of the stream changes.
LEMMA StreamKept ==
    ASSUME StreamInv, UNCHANGED << variant, stream >>
    PROVE  StreamInv'
  BY DEF StreamInv, StreamTyped, TargetsCover, stream

LEMMA WriteNegativeKeeps ==
    ASSUME SegmenterInv, NEW t \in Tracks, NEW dts \in Int, NEW random \in BOOLEAN,
           WriteNegative(t, dts, random)
    PROVE  SegmenterInv'
<1>1. InputTyped' /\ variant' = variant
  BY GiveKeepsType DEF WriteNegative, SegmenterInv
<1>2. StreamInv'
  BY <1>1, StreamKept DEF WriteNegative, SegmenterInv
<1>3. WaitingTyped' /\ AdjustTyped' /\ failed' \in BOOLEAN
  BY DEF WriteNegative, SegmenterInv, WaitingTyped, AdjustTyped, adjust
<1> QED
  BY <1>1, <1>2, <1>3 DEF SegmenterInv

\* The sample that starts to wait for the next one.
LEMMA WriteFirstWaits ==
    ASSUME WaitingTyped, NEW t \in Tracks, NEW dts \in Int, NEW random \in BOOLEAN,
           WriteFirst(t, dts, random)
    PROVE  \E n \in Sample :
            n.random = random /\ n.dts = dts + Offset /\ next' = [next EXCEPT ![t] = {n}]
<1> DEFINE start == dts + durationToTimestamp(fmp4StartDTS)
           n == [dts |-> start, random |-> random]
<1>1. start \in Int
  BY OffsetType DEF Offset
<1>2. start >= 0 /\ next' = [next EXCEPT ![t] = {n}]
  BY DEF WriteFirst
<1>3. start = dts + Offset
  BY DEF Offset
<1> HIDE DEF start
<1>4. n \in Sample /\ n.random = random /\ n.dts = start
  BY <1>1, <1>2 DEF Sample
<1> QED
  BY <1>2, <1>3, <1>4

LEMMA WriteFirstKeeps ==
    ASSUME SegmenterInv, NEW t \in Tracks, NEW dts \in Int, NEW random \in BOOLEAN,
           WriteFirst(t, dts, random)
    PROVE  SegmenterInv'
<1>1. InputTyped' /\ variant' = variant
  BY GiveKeepsType DEF WriteFirst, SegmenterInv
<1>2. StreamInv'
  BY <1>1, StreamKept DEF WriteFirst, SegmenterInv
<1>3. PICK n \in Sample : next' = [next EXCEPT ![t] = {n}]
  BY WriteFirstWaits DEF SegmenterInv
<1>4. WaitingTyped'
  BY <1>3, AtMostOne DEF WriteFirst, SegmenterInv, WaitingTyped
<1>5. AdjustTyped' /\ failed' \in BOOLEAN
  BY DEF WriteFirst, SegmenterInv, AdjustTyped, adjust
<1> QED
  BY <1>1, <1>2, <1>4, <1>5 DEF SegmenterInv

LEMMA WriteOtherKeeps ==
    ASSUME SegmenterInv, NEW dts \in Int, WriteOther(dts)
    PROVE  SegmenterInv'
<1>0. 2 \in Tracks
  BY DEF Tracks
<1>1. PICK sample \in next[2], fits \in BOOLEAN :
        /\ Give(2, dts, TRUE)
        /\ Take(2, sample, dts, TRUE)
        /\ IF segment = {} THEN fits /\ UNCHANGED << end, failed >>
                           ELSE WriteSample(2, sample, fits)
        /\ UNCHANGED << adjust, stream >>
  BY Zenon DEF WriteOther
<1>2. InputTyped' /\ variant' = variant
  BY <1>0, <1>1, GiveKeepsType DEF SegmenterInv
<1>3. StreamInv'
  BY <1>1, <1>2, StreamKept DEF SegmenterInv
<1>4. PICK n \in Sample : next' = [next EXCEPT ![2] = {n}] /\ Length(2, sample) \in Nat
  BY <1>0, <1>1, TakeWaits DEF SegmenterInv
<1>5. next' \in [Tracks -> SUBSET Sample] /\ \A t \in Tracks : Cardinality(next'[t]) <= 1
  BY <1>4, AtMostOne DEF SegmenterInv, WaitingTyped
<1>6. /\ failed' \in BOOLEAN /\ end' \in [Tracks -> SUBSET Nat]
      /\ \A t \in Tracks : Cardinality(end'[t]) <= 1
  <2>1. CASE segment = {}
    BY <1>1, <2>1 DEF SegmenterInv, WaitingTyped
  <2>2. CASE segment # {}
    BY <1>0, <1>1, <1>4, <2>2, WriteSampleEnds DEF SegmenterInv
  <2> QED
    BY <2>1, <2>2
<1>7. WaitingTyped'
  BY <1>5, <1>6 DEF WaitingTyped
<1>8. AdjustTyped'
  BY <1>1 DEF SegmenterInv, AdjustTyped, adjust
<1> QED
  BY <1>2, <1>3, <1>6, <1>7, <1>8 DEF SegmenterInv

LEMMA WriteMPEGTSKeeps ==
    ASSUME SegmenterInv, NEW dts \in Int, NEW random \in BOOLEAN, WriteMPEGTS(dts, random)
    PROVE  SegmenterInv'
<1>1. 1 \in Tracks /\ Give(1, dts, random)
  BY DEF Tracks, WriteMPEGTS
<1>2. InputTyped' /\ variant' = variant
  BY <1>1, GiveKeepsType DEF SegmenterInv
<1> DEFINE t == timestampToDuration(dts)
           seg == IF segment = {} THEN NewSegment(t) ELSE CHOOSE s \in segment : TRUE
<1>3. PICK fits \in BOOLEAN :
        /\ failed' = (failed \/ ~fits)
        /\ \/ /\ SwitchSegment(random, t, seg)
              /\ rotateSegments(seg, part, t, IF fits THEN "random" ELSE "nothing")
           \/ /\ ~SwitchSegment(random, t, seg)
              /\ segment' = {IF fits THEN Opened(seg, random) ELSE seg}
              /\ UNCHANGED << part, segments, target, partTarget >>
  BY Zenon DEF WriteMPEGTS
<1>4. UNCHANGED << next, end, adjust >>
  BY DEF WriteMPEGTS
<1>5. t \in Int
  BY SegmenterAssumption, DurationType
<1>6. seg = IF segment = {} THEN NewSegment(t) ELSE CHOOSE s \in segment : TRUE
  OBVIOUS
<1> HIDE DEF t, seg
<1>7. StreamInv /\ part \in OpenPart /\ Covered(seg)
  BY <1>5, <1>6, CurrentSegment DEF SegmenterInv, StreamInv, StreamTyped
<1>8. WaitingTyped' /\ AdjustTyped' /\ failed' \in BOOLEAN
  BY <1>3, <1>4 DEF SegmenterInv, WaitingTyped, AdjustTyped, adjust
<1>9. StreamInv'
  <2>1. CASE /\ SwitchSegment(random, t, seg)
             /\ rotateSegments(seg, part, t, IF fits THEN "random" ELSE "nothing")
    <3> DEFINE begins == IF fits THEN "random" ELSE "nothing"
    <3>1. begins \in Openings /\ rotateSegments(seg, part, t, begins)
      BY <2>1 DEF Openings
    <3>2. t - seg.start >= SegmentMin
      BY <2>1 DEF SwitchSegment
    <3>3. adjusted' \in Nat
      BY <1>8 DEF AdjustTyped
    <3> HIDE DEF begins
    <3> QED
      BY <1>2, <1>5, <1>7, <3>1, <3>2, <3>3, SegmenterAssumption, RotateSegmentsKeeps
  <2>2. CASE /\ segment' = {IF fits THEN Opened(seg, random) ELSE seg}
             /\ UNCHANGED << part, segments, target, partTarget >>
    <3> DEFINE new == IF fits THEN Opened(seg, random) ELSE seg
    <3>1. Covered(new) /\ segment' = {new}
      BY <1>7, <2>2, OpenedCovered
    <3> HIDE DEF new
    <3> QED
      BY <1>2, <1>7, <2>2, <3>1, SegmentKeptCovered
  <2> QED
    BY <1>3, <2>1, <2>2
<1> QED
  BY <1>2, <1>8, <1>9 DEF SegmenterInv

\* A sample of the leading track of an fMP4 stream.  (The definitions are those of
\* the code: the segment and the part that the sample goes into.)
LeadingStart(sample) == timestampToDuration(sample.dts)
LeadingLength(sample) == timestampToDuration(Length(1, sample))
LeadingSegment(sample) ==
    IF segment = {} THEN NewSegment(LeadingStart(sample)) ELSE CHOOSE s \in segment : TRUE
LeadingPart(sample) == IF segment = {} THEN NewPart(LeadingStart(sample)) ELSE part
FullSegment(sample) == Opened(LeadingSegment(sample), sample.random)
FullPart(sample) ==
    [LeadingPart(sample) EXCEPT !.lengths = @ \union {LeadingLength(sample)}]

Cut(random, sample, fits, cut) ==
    \/ /\ ~fits
       /\ segment' = {LeadingSegment(sample)} /\ part' = LeadingPart(sample)
       /\ UNCHANGED << frozen, segments, target, partTarget >>
    \/ /\ fits /\ SwitchSegment(random, cut, LeadingSegment(sample))
       /\ rotateSegments(FullSegment(sample), FullPart(sample), cut, "nothing")
       /\ frozen' = TRUE
    \/ /\ fits /\ ~SwitchSegment(random, cut, LeadingSegment(sample))
       /\ UNCHANGED frozen
       /\ IF variant = "LL" /\ cut - LeadingPart(sample).start >= adjusted'
          THEN rotateParts(FullSegment(sample), FullPart(sample), cut)
          ELSE /\ segment' = {FullSegment(sample)} /\ part' = FullPart(sample)
               /\ UNCHANGED << segments, target, partTarget >>

LEMMA LeadingCases ==
    ASSUME NEW dts, NEW random, WriteLeading(dts, random)
    PROVE  \E sample \in next[1], fits \in BOOLEAN :
            /\ variant # "MPEGTS"
            /\ Give(1, dts, random)
            /\ Take(1, sample, dts, random)
            /\ fmp4AdjustPartDuration(LeadingLength(sample))
            /\ WriteSample(1, sample, fits)
            /\ \E cut \in {timestampToDuration(n.dts) : n \in next'[1]} :
                Cut(random, sample, fits, cut)
  BY Zenon DEF WriteLeading, Cut, LeadingStart, LeadingLength, LeadingSegment, LeadingPart,
     FullSegment, FullPart

\* The segment and the part that a leading sample goes into.
LEMMA LeadingTypes ==
    ASSUME StreamInv, NEW sample \in Sample, Length(1, sample) \in Nat
    PROVE  /\ LeadingStart(sample) \in Int /\ LeadingLength(sample) \in Nat
           /\ Covered(LeadingSegment(sample)) /\ Covered(FullSegment(sample))
           /\ FullSegment(sample).start = LeadingSegment(sample).start
           /\ FullSegment(sample).parts = LeadingSegment(sample).parts
           /\ LeadingPart(sample) \in OpenPart /\ FullPart(sample) \in OpenPart
           /\ FullPart(sample).start = LeadingPart(sample).start
<1>1. sample.dts \in Int /\ sample.random \in BOOLEAN
  BY DEF Sample
<1>2. LeadingStart(sample) \in Int /\ LeadingLength(sample) \in Nat
  BY <1>1, SegmenterAssumption, DurationType DEF LeadingStart, LeadingLength
<1>3. Covered(LeadingSegment(sample))
  BY <1>2, CurrentSegment DEF LeadingSegment
<1>4. /\ Covered(FullSegment(sample))
      /\ FullSegment(sample).start = LeadingSegment(sample).start
      /\ FullSegment(sample).parts = LeadingSegment(sample).parts
  BY <1>1, <1>3, OpenedCovered DEF FullSegment
<1>5. LeadingPart(sample) \in OpenPart
  BY <1>2 DEF LeadingPart, NewPart, OpenPart, StreamInv, StreamTyped
<1> DEFINE p == LeadingPart(sample)
           n == LeadingLength(sample)
<1>6. FullPart(sample) = [p EXCEPT !.lengths = p.lengths \union {n}]
  BY DEF FullPart
<1>7. p \in OpenPart /\ n \in Nat
  BY <1>2, <1>5
<1> HIDE DEF p, n
<1>8. FullPart(sample) \in OpenPart /\ FullPart(sample).start = p.start
  <2>1. p.start \in Int /\ p.lengths \union {n} \in SUBSET Nat
    BY ONLY <1>7 DEF OpenPart
  <2> QED
    BY ONLY <1>6, <1>7, <2>1 DEF OpenPart
<1> QED
  BY <1>2, <1>3, <1>4, <1>5, <1>8 DEF p

LEMMA WriteLeadingKeeps ==
    ASSUME SegmenterInv, NEW dts \in Int, NEW random \in BOOLEAN, WriteLeading(dts, random)
    PROVE  SegmenterInv'
<1>1. 1 \in Tracks
  BY DEF Tracks
<1>2. PICK sample \in next[1], fits \in BOOLEAN :
        /\ variant # "MPEGTS"
        /\ Give(1, dts, random)
        /\ Take(1, sample, dts, random)
        /\ fmp4AdjustPartDuration(LeadingLength(sample))
        /\ WriteSample(1, sample, fits)
        /\ \E cut \in {timestampToDuration(n.dts) : n \in next'[1]} :
            Cut(random, sample, fits, cut)
  BY LeadingCases
<1>3. InputTyped' /\ variant' = variant
  BY <1>1, <1>2, GiveKeepsType DEF SegmenterInv
<1>4. PICK n \in Sample : next' = [next EXCEPT ![1] = {n}] /\ Length(1, sample) \in Nat
  BY <1>1, <1>2, TakeWaits DEF SegmenterInv
<1>5. next'[1] = {n} /\ WaitingTyped
  BY <1>1, <1>4 DEF SegmenterInv, WaitingTyped
<1>6. WaitingTyped' /\ failed' \in BOOLEAN
  <2>1. next' \in [Tracks -> SUBSET Sample] /\ \A t \in Tracks : Cardinality(next'[t]) <= 1
    BY <1>4, <1>5, AtMostOne DEF WaitingTyped
  <2>2. /\ failed' \in BOOLEAN /\ end' \in [Tracks -> SUBSET Nat]
        /\ \A t \in Tracks : Cardinality(end'[t]) <= 1
    BY <1>1, <1>2, <1>4, <1>5, WriteSampleEnds DEF SegmenterInv
  <2> QED
    BY <2>1, <2>2 DEF WaitingTyped
<1>7. sample \in Sample
  BY <1>1, <1>5 DEF WaitingTyped
<1>8. /\ StreamInv /\ LeadingLength(sample) \in Nat
      /\ Covered(LeadingSegment(sample)) /\ Covered(FullSegment(sample))
      /\ FullSegment(sample).start = LeadingSegment(sample).start
      /\ LeadingPart(sample) \in OpenPart /\ FullPart(sample) \in OpenPart
  BY <1>4, <1>7, LeadingTypes DEF SegmenterInv
<1>9. known' \subseteq Nat \ {0} /\ adjusted' \in Nat
  BY <1>2, <1>8, AdjustKeepsType DEF SegmenterInv, AdjustTyped
<1>10. PICK cut \in {timestampToDuration(m.dts) : m \in next'[1]} : Cut(random, sample, fits, cut)
  BY <1>2
<1>11. cut \in Int
  <2>1. cut = timestampToDuration(n.dts) /\ n.dts \in Int
    BY <1>5, <1>10 DEF Sample
  <2> QED
    BY <2>1, SegmenterAssumption, DurationType
<1>12. CASE /\ ~fits
            /\ segment' = {LeadingSegment(sample)} /\ part' = LeadingPart(sample)
            /\ UNCHANGED << frozen, segments, target, partTarget >>
  <2>1. StreamInv'
    BY <1>3, <1>8, <1>12, SegmentKeptCovered
  <2> QED
    BY <1>3, <1>6, <1>9, <1>12, <2>1 DEF SegmenterInv, AdjustTyped
<1>13. CASE /\ SwitchSegment(random, cut, LeadingSegment(sample))
            /\ rotateSegments(FullSegment(sample), FullPart(sample), cut, "nothing")
            /\ frozen' = TRUE
  <2>1. cut - FullSegment(sample).start >= SegmentMin /\ "nothing" \in Openings
    BY <1>8, <1>13 DEF SwitchSegment, Openings
  <2>2. StreamInv'
    BY <1>3, <1>8, <1>9, <1>11, <1>13, <2>1, SegmenterAssumption, RotateSegmentsKeeps
  <2> QED
    BY <1>3, <1>6, <1>9, <1>13, <2>2 DEF SegmenterInv, AdjustTyped
<1>14. CASE /\ UNCHANGED frozen
            /\ IF variant = "LL" /\ cut - LeadingPart(sample).start >= adjusted'
               THEN rotateParts(FullSegment(sample), FullPart(sample), cut)
               ELSE /\ segment' = {FullSegment(sample)} /\ part' = FullPart(sample)
                    /\ UNCHANGED << segments, target, partTarget >>
  <2>1. CASE variant = "LL" /\ cut - LeadingPart(sample).start >= adjusted'
    <3>1. StreamInv'
      BY <1>3, <1>8, <1>9, <1>11, <1>14, <2>1, SegmenterAssumption, RotatePartsKeeps
    <3> QED
      BY <1>3, <1>6, <1>9, <1>14, <3>1 DEF SegmenterInv, AdjustTyped
  <2>2. CASE ~(variant = "LL" /\ cut - LeadingPart(sample).start >= adjusted')
    <3>1. StreamInv'
      BY <1>3, <1>8, <1>14, <2>2, SegmentKeptCovered
    <3> QED
      BY <1>3, <1>6, <1>9, <1>14, <3>1 DEF SegmenterInv, AdjustTyped
  <2> QED
    BY <2>1, <2>2
<1> QED
  BY <1>10, <1>12, <1>13, <1>14, Zenon DEF Cut

LEMMA InitSegmenterInv == Init => SegmenterInv
<1> SUFFICES ASSUME Init PROVE SegmenterInv
  OBVIOUS
<1>1. \A t \in Tracks : Cardinality({}) <= 1
  BY FS_EmptySet
<1>2. InputTyped
  <2>1. \E muxer \in Muxers : variant = muxer[1] /\ codec = muxer[2]
    BY DEF Init
  <2>2. \A muxer \in Muxers : muxer = << muxer[1], muxer[2] >>
    BY SegmenterAssumption DEF SegmenterAssumption
  <2>3. << variant, codec >> \in Muxers
    BY <2>1, <2>2
  <2>4. given = [t \in Tracks |-> 0] /\ written = [t \in Tracks |-> 0] /\ found = FALSE
    BY DEF Init
  <2>5. given \in [Tracks -> Int] /\ written \in [Tracks -> Nat]
    BY ONLY <2>4
  <2>6. found \in BOOLEAN
    BY ONLY <2>4
  <2> QED
    BY <2>3, <2>5, <2>6, Zenon DEF InputTyped
<1>3. WaitingTyped /\ AdjustTyped /\ failed \in BOOLEAN
  BY <1>1 DEF Init, WaitingTyped, AdjustTyped
<1>4. StreamTyped
  <2>1. Cardinality({}) <= 1
    BY FS_EmptySet
  <2>2. NewPart(0) \in OpenPart
    BY DEF NewPart, OpenPart
  <2> QED
    BY <2>1, <2>2 DEF Init, StreamTyped
<1>5. AllCovered
  BY DEF Init, AllCovered, ToSet
<1> QED
  BY <1>2, <1>3, <1>4, <1>5, StreamInvParts DEF SegmenterInv

LEMMA NextSegmenterInv == SegmenterInv /\ [Next]_vars => SegmenterInv'
<1> SUFFICES ASSUME SegmenterInv, [Next]_vars PROVE SegmenterInv'
  OBVIOUS
<1>1. CASE Next
  <2>1. PICK t \in Tracks, dts \in Int, random \in BOOLEAN :
            \/ WriteNegative(t, dts, random)
            \/ WriteFirst(t, dts, random)
            \/ t = 1 /\ WriteLeading(dts, random)
            \/ t = 2 /\ WriteOther(dts)
            \/ t = 1 /\ WriteMPEGTS(dts, random)
    BY <1>1, StepCases DEF SegmenterInv
  <2> QED
    BY <2>1, WriteNegativeKeeps, WriteFirstKeeps, WriteLeadingKeeps, WriteOtherKeeps,
       WriteMPEGTSKeeps
<1>2. CASE UNCHANGED vars
  <2>1. StreamInv'
    BY <1>2, StreamKept DEF SegmenterInv, vars, input
  <2>2. InputTyped' /\ WaitingTyped' /\ AdjustTyped' /\ failed' \in BOOLEAN
    BY <1>2 DEF SegmenterInv, InputTyped, WaitingTyped, AdjustTyped, vars, input, adjust
  <2> QED
    BY <2>1, <2>2 DEF SegmenterInv
<1> QED
  BY <1>1, <1>2

LEMMA SegmenterInvHolds == Spec => []SegmenterInv
  BY InitSegmenterInv, NextSegmenterInv, PTL DEF Spec

\* Every variable of the segmenter has its type: among others, a segment that is
\* listed lasts some time, and no duration that is announced is negative.
THEOREM SegmenterTyped == Spec => []TypeOK
<1>1. SegmenterInv => TypeOK
  BY DEF SegmenterInv, InputTyped, WaitingTyped, AdjustTyped, StreamInv, StreamTyped, TypeOK,
     OpenSegment, ListedSegment, OpenPart
<1> QED
  BY <1>1, SegmenterInvHolds, PTL

\* EXT-X-TARGETDURATION and PART-TARGET cover what the playlist lists, however the
\* durations of segments and parts come about.
THEOREM TargetsAreTrue == Spec => []TargetsCover
<1>1. SegmenterInv => TargetsCover
  BY DEF SegmenterInv, StreamInv
<1> QED
  BY <1>1, SegmenterInvHolds, PTL

--------------------------------------------------------------------------------
(***************************************************************************)
(* No hole, no overlap.                                                    *)
(***************************************************************************)

\* The time between two timestamps of a track fits in the duration of a sample.
DurationsFit == \A t \in Tracks : \A d \in Deltas[t] : d < DurationRange

\* Continuous, with what it needs to last: the sample that waits is not before the
\* last timestamp given, so that the next one is not too far from it; nothing has
\* been written before there is a segment, nor when no sample waits.
ContinuousInv ==
    /\ \A t \in Tracks :
        /\ \A n \in next[t] : given[t] + Offset <= n.dts
        /\ segment = {} \/ next[t] = {} => end[t] = {}
        /\ variant = "MPEGTS" => next[t] = {}
    /\ Continuous

LEMMA InitContinuousInv == Init => ContinuousInv
  BY DEF Init, ContinuousInv, Continuous

\* A sample that is written ends where the next one starts.
LEMMA EndsWhereNextStarts ==
    ASSUME DurationsFit, SegmenterInv, ContinuousInv, NEW t \in Tracks, NEW dts \in Int,
           dts - given[t] \in Deltas[t], NEW random \in BOOLEAN, NEW sample \in next[t],
           Take(t, sample, dts, random)
    PROVE  \E n \in Sample :
            /\ next' = [next EXCEPT ![t] = {n}] /\ next'[t] = {n}
            /\ dts + Offset <= n.dts
            /\ sample.dts + Length(t, sample) = n.dts
<1>1. PICK n \in Sample :
        /\ n.dts \in {dts + Offset, sample.dts}
        /\ dts + Offset <= n.dts /\ sample.dts <= n.dts
        /\ next' = [next EXCEPT ![t] = {n}]
        /\ Length(t, sample) = (n.dts - sample.dts) % DurationRange
  BY TakeWaits DEF SegmenterInv
<1>2. next'[t] = {n}
  BY <1>1 DEF SegmenterInv, WaitingTyped
<1> DEFINE a == sample.dts
           z == n.dts
           g == given[t]
<1>3. a \in Int /\ z \in Int /\ g \in Int /\ Offset \in Int /\ DurationRange \in Nat \ {0}
  <2>1. sample \in Sample /\ g \in Int
    BY DEF SegmenterInv, WaitingTyped, InputTyped
  <2>2. DurationRange \in Nat \ {0}
    BY SegmenterAssumption DEF SegmenterAssumption
  <2> QED
    BY <2>1, <2>2, OffsetType DEF Sample
<1>4. /\ z \in {dts + Offset, a} /\ a <= z /\ g + Offset <= a /\ dts - g < DurationRange
      /\ dts \in Int
  BY <1>1 DEF DurationsFit, ContinuousInv
<1> HIDE DEF a, z, g
<1>5. 0 <= z - a /\ z - a < DurationRange
  BY ONLY <1>3, <1>4
<1>6. (z - a) % DurationRange = z - a
  BY ONLY <1>3, <1>5
<1>7. Length(t, sample) = z - a
  BY <1>1, <1>6 DEF a, z
<1>8. a + Length(t, sample) = z
  BY ONLY <1>3, <1>7
<1> QED
  BY <1>1, <1>2, <1>8 DEF a, z

\* A track takes a sample, and the one before it is written.
LEMMA TakeContinues ==
    ASSUME DurationsFit, SegmenterInv, ContinuousInv, NEW t \in Tracks, NEW dts \in Int,
           dts - given[t] \in Deltas[t], NEW random \in BOOLEAN, NEW sample \in next[t],
           NEW fits \in BOOLEAN, Give(t, dts, random), Take(t, sample, dts, random),
           variant # "MPEGTS",
           \/ WriteSample(t, sample, fits) /\ segment' # {}
           \/ segment = {} /\ segment' = {} /\ UNCHANGED << end, failed >>
    PROVE  ContinuousInv'
<1>1. PICK n \in Sample :
        /\ next' = [next EXCEPT ![t] = {n}] /\ next'[t] = {n}
        /\ dts + Offset <= n.dts
        /\ sample.dts + Length(t, sample) = n.dts
  BY EndsWhereNextStarts
<1>2. given' = [given EXCEPT ![t] = dts] /\ variant' = variant /\ given'[t] = dts
  BY GiveKeepsType DEF SegmenterInv, InputTyped
<1>3. /\ next \in [Tracks -> SUBSET Sample] /\ end \in [Tracks -> SUBSET Nat]
      /\ given \in [Tracks -> Int]
  BY DEF SegmenterInv, WaitingTyped, InputTyped
<1>4. \A u \in Tracks \ {t} : next'[u] = next[u] /\ given'[u] = given[u]
  BY <1>1, <1>2, <1>3
<1>5. \A u \in Tracks : \A m \in next'[u] : given'[u] + Offset <= m.dts
  BY <1>1, <1>2, <1>4 DEF ContinuousInv
<1>6. variant' # "MPEGTS"
  BY <1>2
<1>7. CASE WriteSample(t, sample, fits) /\ segment' # {}
  <2>1. CASE fits
    <3>1. failed' = failed /\ end' = [end EXCEPT ![t] = {n.dts}] /\ end'[t] = {n.dts}
      BY <1>1, <1>3, <1>7, <2>1 DEF WriteSample, SegmenterInv
    <3>2. \A u \in Tracks \ {t} : end'[u] = end[u]
      BY <1>3, <3>1
    <3>3. \A u \in Tracks : next'[u] = {} => end'[u] = {}
      BY <1>1, <1>4, <3>2 DEF ContinuousInv
    <3>4. Continuous'
      BY <1>1, <1>4, <3>1, <3>2 DEF ContinuousInv, Continuous
    <3> QED
      BY <1>5, <1>6, <1>7, <3>3, <3>4 DEF ContinuousInv, Offset, durationToTimestamp
  <2>2. CASE ~fits
    <3>1. failed' /\ end' = end
      BY <1>7, <2>2 DEF WriteSample
    <3>2. \A u \in Tracks : next'[u] = {} => end'[u] = {}
      BY <1>1, <1>4, <3>1 DEF ContinuousInv
    <3> QED
      BY <1>5, <1>6, <1>7, <3>1, <3>2 DEF ContinuousInv, Continuous
  <2> QED
    BY <2>1, <2>2
<1>8. CASE segment = {} /\ segment' = {} /\ UNCHANGED << end, failed >>
  <2>1. \A u \in Tracks : end'[u] = {}
    BY <1>8 DEF ContinuousInv
  <2> QED
    BY <1>5, <1>6, <2>1 DEF ContinuousInv, Continuous
<1> QED
  BY <1>7, <1>8

\* What WriteSample and the cuts leave: there is a segment.
LEMMA CutHasSegment ==
    ASSUME NEW random, NEW sample, NEW fits, NEW cut, Cut(random, sample, fits, cut)
    PROVE  segment' # {}
  BY DEF Cut, rotateSegments, rotateParts

LEMMA NextContinuousInv ==
    ASSUME DurationsFit, SegmenterInv, ContinuousInv, [Next]_vars
    PROVE  ContinuousInv'
<1>1. CASE UNCHANGED vars
  BY <1>1 DEF ContinuousInv, Continuous, Offset, durationToTimestamp, vars, input, stream
<1>2. CASE Next
  <2>1. PICK t \in Tracks, dts \in Int, random \in BOOLEAN :
            /\ dts - given[t] \in Deltas[t]
            /\ \/ WriteNegative(t, dts, random)
               \/ WriteFirst(t, dts, random)
               \/ t = 1 /\ WriteLeading(dts, random)
               \/ t = 2 /\ WriteOther(dts)
               \/ t = 1 /\ WriteMPEGTS(dts, random)
    BY <1>2, StepCases DEF SegmenterInv
  <2>2. /\ next \in [Tracks -> SUBSET Sample] /\ end \in [Tracks -> SUBSET Nat]
        /\ given \in [Tracks -> Int] /\ InputTyped
    BY DEF SegmenterInv, WaitingTyped, InputTyped
  <2>3. CASE WriteNegative(t, dts, random)
    <3>1. given' = [given EXCEPT ![t] = dts] /\ variant' = variant
      BY <2>2, <2>3, GiveKeepsType DEF WriteNegative
    <3>2. failed' /\ UNCHANGED << next, end, stream >> /\ dts + Offset < 0
      BY <2>3 DEF WriteNegative, Offset
    <3>3. \A u \in Tracks : \A n \in next[u] : given'[u] + Offset <= n.dts
      <4>1. \A u \in Tracks \ {t} : given'[u] = given[u]
        BY <2>2, <3>1
      <4>2. \A n \in next[t] : given'[t] = dts /\ n.dts \in Nat
        BY <2>2, <3>1 DEF Sample
      <4>3. \A n \in next[t] : given'[t] + Offset <= n.dts
        BY <3>2, <4>2, OffsetType
      <4> QED
        BY <4>1, <4>3 DEF ContinuousInv
    <3> QED
      BY <3>1, <3>2, <3>3 DEF ContinuousInv, Continuous, Offset, durationToTimestamp, stream
  <2>4. CASE WriteFirst(t, dts, random)
    <3>1. given' = [given EXCEPT ![t] = dts] /\ variant' = variant
      BY <2>2, <2>4, GiveKeepsType DEF WriteFirst
    <3>2. PICK n \in Sample : n.dts = dts + Offset /\ next' = [next EXCEPT ![t] = {n}]
      BY <2>4, WriteFirstWaits DEF SegmenterInv
    <3>3. UNCHANGED << end, failed, stream >> /\ next[t] = {} /\ variant # "MPEGTS"
      BY <2>4 DEF WriteFirst
    <3>4. \A u \in Tracks \ {t} : given'[u] = given[u] /\ next'[u] = next[u]
      BY <2>2, <3>1, <3>2
    <3>5. given'[t] = dts /\ next'[t] = {n} /\ end[t] = {} /\ n.dts \in Int
      BY <2>2, <3>1, <3>2, <3>3 DEF ContinuousInv, Sample
    <3>6. \A u \in Tracks : \A m \in next'[u] : given'[u] + Offset <= m.dts
      BY <3>2, <3>4, <3>5 DEF ContinuousInv
    <3>7. \A u \in Tracks : segment' = {} \/ next'[u] = {} => end'[u] = {}
      BY <3>3, <3>4, <3>5 DEF ContinuousInv, stream
    <3>8. Continuous'
      BY <3>3, <3>4, <3>5 DEF ContinuousInv, Continuous
    <3> QED
      BY <3>1, <3>3, <3>6, <3>7, <3>8 DEF ContinuousInv, Offset, durationToTimestamp
  <2>5. CASE t = 1 /\ WriteLeading(dts, random)
    <3>1. PICK sample \in next[1], fits \in BOOLEAN :
            /\ variant # "MPEGTS" /\ Give(1, dts, random) /\ Take(1, sample, dts, random)
            /\ WriteSample(1, sample, fits)
            /\ \E cut \in {timestampToDuration(n.dts) : n \in next'[1]} :
                Cut(random, sample, fits, cut)
      BY <2>5, LeadingCases
    <3>2. segment' # {}
      BY <3>1, CutHasSegment
    <3> QED
      BY <2>1, <2>5, <3>1, <3>2, TakeContinues
  <2>6. CASE t = 2 /\ WriteOther(dts)
    <3>1. PICK sample \in next[2], fits \in BOOLEAN :
            /\ variant # "MPEGTS" /\ Give(2, dts, TRUE) /\ Take(2, sample, dts, TRUE)
            /\ IF segment = {} THEN fits /\ UNCHANGED << end, failed >>
                               ELSE WriteSample(2, sample, fits)
            /\ UNCHANGED << adjust, stream >>
      BY <2>6, Zenon DEF WriteOther
    <3>2. segment' = segment
      BY <3>1 DEF stream
    <3> QED
      BY <2>1, <2>6, <3>1, <3>2, TakeContinues
  <2>7. CASE t = 1 /\ WriteMPEGTS(dts, random)
    <3>1. variant' = variant /\ variant = "MPEGTS" /\ UNCHANGED << next, end >>
      BY <2>7 DEF WriteMPEGTS, Give
    <3>2. \A u \in Tracks : next[u] = {} /\ end[u] = {}
      BY <3>1 DEF ContinuousInv
    <3> QED
      BY <3>1, <3>2 DEF ContinuousInv, Continuous
  <2> QED
    BY <2>1, <2>3, <2>4, <2>5, <2>6, <2>7
<1> QED
  BY <1>1, <1>2

\* Until a write fails, the samples of a track follow one another without a hole
\* and without an overlap, whatever timestamps the application gives, as long as
\* the time between two of them can be written as the duration of a sample.
THEOREM TracksContinuous ==
    ASSUME DurationsFit
    PROVE  Spec => []Continuous
<1>1. Init => ContinuousInv
  BY InitContinuousInv
<1>2. SegmenterInv /\ ContinuousInv /\ [Next]_vars => ContinuousInv'
  BY NextContinuousInv
<1>3. ContinuousInv => Continuous
  BY DEF ContinuousInv
<1> QED
  BY <1>1, <1>2, <1>3, SegmenterInvHolds, PTL DEF Spec

--------------------------------------------------------------------------------
(***************************************************************************)
(* Segments that can be played alone.                                      *)
(***************************************************************************)

\* SegmentsIndependent, with what it needs to last: a segment that has no sample
\* yet is begun by a random access one, which waits already in an fMP4 stream and
\* is the first one that is accepted in an MPEG-TS stream.
IndependentInv ==
    ~failed /\ codec # "AV1" =>
        /\ \A seg \in ToSet(segments) : seg.opening \in {"random", "gap"}
        /\ \A seg \in segment :
            \/ seg.opening = "random"
            \/ /\ variant # "MPEGTS" /\ seg.opening = "nothing"
               /\ \A n \in next[1] : n.random
        /\ segment = {} => IF variant = "MPEGTS" THEN ~found ELSE \A n \in next[1] : n.random
        /\ variant # "MPEGTS" /\ found => next[1] # {}

LEMMA InitIndependentInv == Init => IndependentInv
<1> SUFFICES ASSUME Init PROVE IndependentInv
  OBVIOUS
<1>1. 1 \in Tracks
  BY DEF Tracks
<1>2. next[1] = {} /\ segment = {} /\ segments = << >> /\ found = FALSE
  BY <1>1 DEF Init
<1>3. \A seg \in ToSet(<< >>) : FALSE
  BY DEF ToSet
<1> QED
  BY <1>2, <1>3 DEF IndependentInv

\* The first sample of the leading track is a random access one.
LEMMA FirstIsRandom ==
    ASSUME InputTyped, NEW dts, NEW random \in BOOLEAN, Give(1, dts, random),
           ~found, codec # "AV1"
    PROVE  random
<1>1. codec \in {"H26x", "VP9", "AV1", "audio"}
  <2>1. Muxers \subseteq ({"LL", "FMP4"} \X {"H26x", "VP9", "AV1", "audio"})
                          \union ({"MPEGTS"} \X {"H26x", "audio"})
    BY SegmenterAssumption DEF SegmenterAssumption
  <2>2. << variant, codec >> \in Muxers
    BY DEF InputTyped
  <2> QED
    BY ONLY <2>1, <2>2
<1> QED
  BY <1>1 DEF Give, AcceptsVP9, AcceptsH26x

\* The segment that takes the sample that waits begins with a random access one.
LEMMA FullSegmentRandom ==
    ASSUME SegmenterInv, IndependentInv, ~failed, codec # "AV1", variant # "MPEGTS",
           NEW sample \in next[1]
    PROVE  FullSegment(sample).opening = "random"
<1>1. sample \in Sample /\ sample.random \in BOOLEAN
  BY DEF SegmenterInv, WaitingTyped, Sample, Tracks
<1>2. LeadingStart(sample) \in Int
  <2>1. sample.dts \in Int
    BY <1>1 DEF Sample
  <2> QED
    BY <2>1, SegmenterAssumption, DurationType DEF LeadingStart
<1>3. /\ Covered(LeadingSegment(sample))
      /\ segment # {} => LeadingSegment(sample) \in segment
      /\ segment = {} => LeadingSegment(sample) = NewSegment(LeadingStart(sample))
  BY <1>2, CurrentSegment DEF LeadingSegment, SegmenterInv
<1>4. \/ LeadingSegment(sample).opening = "random"
      \/ LeadingSegment(sample).opening = "nothing" /\ sample.random
  <2>1. CASE segment = {}
    BY <1>3, <2>1 DEF IndependentInv, NewSegment
  <2>2. CASE segment # {}
    BY <1>3, <2>2 DEF IndependentInv
  <2> QED
    BY <2>1, <2>2
<1> QED
  BY <1>1, <1>3, <1>4, OpenedCovered DEF FullSegment

LEMMA LeadingIndependent ==
    ASSUME SegmenterInv, IndependentInv, NEW dts \in Int, NEW random \in BOOLEAN,
           WriteLeading(dts, random)
    PROVE  IndependentInv'
<1>1. PICK sample \in next[1], fits \in BOOLEAN :
        /\ variant # "MPEGTS"
        /\ Give(1, dts, random)
        /\ Take(1, sample, dts, random)
        /\ fmp4AdjustPartDuration(LeadingLength(sample))
        /\ WriteSample(1, sample, fits)
        /\ \E cut \in {timestampToDuration(n.dts) : n \in next'[1]} :
            Cut(random, sample, fits, cut)
  BY LeadingCases
<1> SUFFICES ASSUME ~failed', codec' # "AV1" PROVE IndependentInv'
  BY Zenon DEF IndependentInv
<1>2. ~failed /\ fits /\ codec # "AV1" /\ variant' = variant
  BY <1>1 DEF WriteSample, Give
<1>3. 1 \in Tracks /\ WaitingTyped
  BY DEF Tracks, SegmenterInv
<1>4. PICK n \in Sample :
        next' = [next EXCEPT ![1] = {n}] /\ n.random = random /\ Length(1, sample) \in Nat
  BY <1>1, <1>3, TakeWaits
<1>5. next'[1] = {n} /\ n.dts \in Int /\ sample \in Sample
  BY <1>3, <1>4 DEF WaitingTyped, Sample
<1>6. PICK cut : /\ cut \in {timestampToDuration(m.dts) : m \in next'[1]}
                 /\ Cut(random, sample, fits, cut)
  BY <1>1
<1>7. cut \in Int
  <2>1. cut = timestampToDuration(n.dts)
    BY <1>5, <1>6
  <2> QED
    BY <1>5, <2>1, SegmenterAssumption, DurationType
<1>8. FullSegment(sample).opening = "random"
  BY <1>1, <1>2, FullSegmentRandom
<1>9. /\ StreamInv /\ LeadingLength(sample) \in Nat /\ Covered(FullSegment(sample))
      /\ FullSegment(sample).start = LeadingSegment(sample).start
      /\ FullPart(sample) \in OpenPart
  BY <1>4, <1>5, LeadingTypes DEF SegmenterInv
<1>10. \A seg \in ToSet(segments) : seg.opening \in {"random", "gap"}
  BY <1>2 DEF IndependentInv
<1>11. /\ \A seg \in ToSet(segments') : seg.opening \in {"random", "gap"}
       /\ segment' # {}
       /\ \A seg \in segment' : seg.opening = "random" \/ (seg.opening = "nothing" /\ random)
  <2>1. CASE /\ SwitchSegment(random, cut, LeadingSegment(sample))
             /\ rotateSegments(FullSegment(sample), FullPart(sample), cut, "nothing")
    <3>1. /\ cut - FullSegment(sample).start >= SegmentMin /\ "nothing" \in Openings
          /\ random
      BY <1>9, <2>1 DEF SwitchSegment, Openings
    <3>2. adjusted' \in Nat
      BY <1>1, <1>9, AdjustKeepsType DEF SegmenterInv, AdjustTyped
    <3>3. /\ \A s \in ToSet(segments') :
                s \in ToSet(segments) \/ s.opening \in {FullSegment(sample).opening, "gap"}
          /\ \E s : segment' = {s} /\ s.opening = "nothing"
      BY <1>2, <1>7, <1>9, <2>1, <3>1, <3>2, SegmenterAssumption, RotateSegmentsKeeps
    <3> QED
      BY <1>8, <1>10, <3>1, <3>3
  <2>2. CASE IF variant = "LL" /\ cut - LeadingPart(sample).start >= adjusted'
             THEN rotateParts(FullSegment(sample), FullPart(sample), cut)
             ELSE /\ segment' = {FullSegment(sample)} /\ part' = FullPart(sample)
                  /\ UNCHANGED << segments, target, partTarget >>
    <3>1. \E parts : segment' = {[FullSegment(sample) EXCEPT !.parts = parts]}
                        \/ segment' = {FullSegment(sample)}
      BY <2>2, Zenon DEF rotateParts
    <3>2. PICK seg : segment' = {seg} /\ seg.opening = "random"
      <4>1. FullSegment(sample) \in OpenSegment
        BY <1>9 DEF Covered
      <4>2. \A parts : [FullSegment(sample) EXCEPT !.parts = parts].opening = "random"
        BY <1>8, <4>1 DEF OpenSegment
      <4> QED
        BY <1>8, <3>1, <4>2
    <3>3. segments' = segments
      BY <2>2 DEF rotateParts
    <3> QED
      BY <1>10, <3>2, <3>3
  <2> QED
    BY <1>2, <1>6, <2>1, <2>2, Zenon DEF Cut
<1> QED
  BY <1>1, <1>2, <1>4, <1>5, <1>11 DEF IndependentInv

LEMMA MPEGTSIndependent ==
    ASSUME SegmenterInv, IndependentInv, NEW dts \in Int, NEW random \in BOOLEAN,
           WriteMPEGTS(dts, random)
    PROVE  IndependentInv'
<1> DEFINE t == timestampToDuration(dts)
           seg == IF segment = {} THEN NewSegment(t) ELSE CHOOSE s \in segment : TRUE
<1>1. PICK fits \in BOOLEAN :
        /\ failed' = (failed \/ ~fits)
        /\ \/ /\ SwitchSegment(random, t, seg)
              /\ rotateSegments(seg, part, t, IF fits THEN "random" ELSE "nothing")
           \/ /\ ~SwitchSegment(random, t, seg)
              /\ segment' = {IF fits THEN Opened(seg, random) ELSE seg}
              /\ UNCHANGED << part, segments, target, partTarget >>
  BY Zenon DEF WriteMPEGTS
<1> SUFFICES ASSUME ~failed', codec' # "AV1" PROVE IndependentInv'
  BY Zenon DEF IndependentInv
<1>2. /\ ~failed /\ fits /\ codec # "AV1" /\ Give(1, dts, random)
      /\ variant = "MPEGTS" /\ variant' = variant /\ adjusted' = adjusted
  BY <1>1 DEF WriteMPEGTS, Give, adjust
<1>3. t \in Int
  BY SegmenterAssumption, DurationType
<1>4. seg = IF segment = {} THEN NewSegment(t) ELSE CHOOSE s \in segment : TRUE
  OBVIOUS
<1> HIDE DEF t, seg
<1>5. /\ Covered(seg) /\ (segment # {} => seg \in segment)
      /\ (segment = {} => seg = NewSegment(t)) /\ StreamInv /\ part \in OpenPart
  BY <1>3, <1>4, CurrentSegment DEF SegmenterInv, StreamInv, StreamTyped
<1>6. \A s \in ToSet(segments) : s.opening \in {"random", "gap"}
  BY <1>2 DEF IndependentInv
<1>7. seg.opening = "random" \/ (segment = {} /\ seg = NewSegment(t) /\ random)
  <2>1. CASE segment = {}
    <3>1. ~found
      BY <1>2, <2>1 DEF IndependentInv
    <3>2. random
      BY <1>2, <3>1, FirstIsRandom DEF SegmenterInv
    <3> QED
      BY <1>5, <2>1, <3>2
  <2>2. CASE segment # {}
    BY <1>2, <1>5, <2>2 DEF IndependentInv
  <2> QED
    BY <2>1, <2>2
<1>8. /\ \A s \in ToSet(segments') : s.opening \in {"random", "gap"}
      /\ \E s : segment' = {s} /\ s.opening = "random"
  <2>1. CASE SwitchSegment(random, t, seg) /\ rotateSegments(seg, part, t, "random")
    <3>1. t - seg.start >= SegmentMin /\ "random" \in Openings /\ adjusted' \in Nat
      BY <1>2, <2>1 DEF SwitchSegment, Openings, SegmenterInv, AdjustTyped
    <3>2. seg.opening = "random"
      <4>1. SegmentMin \in Nat \ {0}
        BY SegmenterAssumption DEF SegmenterAssumption
      <4>2. ASSUME seg = NewSegment(t) PROVE FALSE
        <5>1. seg.start = t
          BY <4>2 DEF NewSegment
        <5> QED
          BY ONLY <1>3, <3>1, <4>1, <5>1
      <4> QED
        BY <1>7, <4>2
    <3>3. /\ \A s \in ToSet(segments') :
                s \in ToSet(segments) \/ s.opening \in {seg.opening, "gap"}
          /\ \E s : segment' = {s} /\ s.opening = "random"
      BY <1>2, <1>3, <1>5, <2>1, <3>1, SegmenterAssumption, RotateSegmentsKeeps
    <3> QED
      BY <1>6, <3>2, <3>3
  <2>2. CASE segment' = {Opened(seg, random)} /\ segments' = segments
    <3>1. Opened(seg, random).opening = "random"
      BY <1>5, <1>7, OpenedCovered DEF NewSegment
    <3> QED
      BY <1>6, <2>2, <3>1
  <2> QED
    BY <1>1, <1>2, <2>1, <2>2
<1> QED
  BY <1>2, <1>8 DEF IndependentInv

LEMMA NextIndependentInv == SegmenterInv /\ IndependentInv /\ [Next]_vars => IndependentInv'
<1> SUFFICES ASSUME SegmenterInv, IndependentInv, [Next]_vars PROVE IndependentInv'
  OBVIOUS
<1>1. CASE UNCHANGED vars
  BY <1>1 DEF IndependentInv, vars, input, stream
<1>2. CASE Next
  <2>1. PICK t \in Tracks, dts \in Int, random \in BOOLEAN :
            \/ WriteNegative(t, dts, random)
            \/ WriteFirst(t, dts, random)
            \/ t = 1 /\ WriteLeading(dts, random)
            \/ t = 2 /\ WriteOther(dts)
            \/ t = 1 /\ WriteMPEGTS(dts, random)
    BY <1>2, StepCases DEF SegmenterInv
  <2>2. next \in [Tracks -> SUBSET Sample] /\ 1 \in Tracks /\ WaitingTyped /\ InputTyped
    BY DEF SegmenterInv, WaitingTyped, Tracks
  <2>3. CASE WriteNegative(t, dts, random)
    BY <2>3 DEF WriteNegative, IndependentInv
  <2>4. CASE WriteFirst(t, dts, random)
    <3>1. /\ UNCHANGED << failed, segment, segments, variant, codec >> /\ variant # "MPEGTS"
          /\ next[t] = {} /\ Give(t, dts, random) /\ found' = (found \/ t = 1)
      BY <2>4 DEF WriteFirst, Give, stream
    <3>2. PICK n \in Sample : n.random = random /\ next' = [next EXCEPT ![t] = {n}]
      BY <2>2, <2>4, WriteFirstWaits
    <3>3. CASE t = 1
      <4> SUFFICES ASSUME ~failed', codec' # "AV1" PROVE IndependentInv'
        BY Zenon DEF IndependentInv
      <4>1. ~failed /\ codec # "AV1" /\ ~found
        BY <3>1, <3>3 DEF IndependentInv
      <4>2. random
        BY <2>2, <3>1, <3>3, <4>1, FirstIsRandom
      <4>3. next'[1] = {n} /\ n.random
        BY <2>2, <3>2, <3>3, <4>2
      <4> QED
        BY <3>1, <4>1, <4>3 DEF IndependentInv
    <3>4. CASE t # 1
      <4>1. next'[1] = next[1] /\ found' = found
        BY <2>2, <3>1, <3>2, <3>4 DEF SegmenterInv, InputTyped
      <4> QED
        BY <3>1, <4>1 DEF IndependentInv
    <3> QED
      BY <3>3, <3>4
  <2>5. CASE t = 2 /\ WriteOther(dts)
    <3>1. PICK sample \in next[2], fits \in BOOLEAN :
            /\ Give(2, dts, TRUE) /\ Take(2, sample, dts, TRUE)
            /\ IF segment = {} THEN fits /\ UNCHANGED << end, failed >>
                               ELSE WriteSample(2, sample, fits)
            /\ UNCHANGED << adjust, stream >>
      BY <2>5, Zenon DEF WriteOther
    <3>2. /\ UNCHANGED << segment, segments, variant, codec >> /\ (~failed' => ~failed)
          /\ found' = found
      <4>1. UNCHANGED << segment, segments, variant, codec >> /\ found' = (found \/ 2 = 1)
        BY <3>1 DEF stream, Give
      <4>2. found' = found
        BY <2>2, <4>1 DEF InputTyped
      <4>3. ~failed' => ~failed
        BY <3>1, Zenon DEF WriteSample
      <4> QED
        BY <4>1, <4>2, <4>3
    <3>3. next'[1] = next[1]
      BY <2>2, <3>1 DEF Take
    <3> QED
      BY <3>2, <3>3 DEF IndependentInv
  <2> QED
    BY <2>1, <2>3, <2>4, <2>5, LeadingIndependent, MPEGTSIndependent
<1> QED
  BY <1>1, <1>2

\* Until a write fails, every segment begins with a random access sample of the
\* leading track, whatever the samples and wherever the muxer cuts: this is what
\* EXT-X-INDEPENDENT-SEGMENTS says.
THEOREM SegmentsPlayAlone == Spec => []SegmentsIndependent
<1>1. IndependentInv => SegmentsIndependent
  BY DEF IndependentInv, SegmentsIndependent
<1> QED
  BY <1>1, InitIndependentInv, NextIndependentInv, SegmenterInvHolds, PTL DEF Spec

--------------------------------------------------------------------------------
(***************************************************************************)
(* What is cut lasts as long as what it is cut from.                       *)
(***************************************************************************)

\* How long parts, or segments, last together.
Lasting(s) == FoldLeft(LAMBDA sum, x : sum + x.duration, 0, s)

LEMMA LastingIsSum ==
    ASSUME NEW S, \A x \in S : x.duration \in Int, NEW s \in Seq(S)
    PROVE  IsSum(Lasting(s), [i \in 1..Len(s) |-> s[i].duration], Len(s))
<1> DEFINE n == Len(s)
           d == [i \in 1..n |-> s[i].duration]
<1>1. n \in Nat /\ DOMAIN s = 1..n /\ \A k \in 1..n : d[k] \in Int /\ d[k] = s[k].duration
  OBVIOUS
<1> HIDE DEF n, d
<1>2. PICK f : IsFold(f, d, n)
  BY <1>1, FoldExists
<1> DEFINE step(g) == [p \in SUBSET (1..n) |-> IF p = {} THEN 0 ELSE g[p \ {Max(p)}] + s[Max(p)].duration]
           fold == CHOOSE g : g = step(g)
<1>3. \A g : step(g) = [p \in SUBSET (1..n) |-> IF p = {} THEN 0 ELSE g[p \ {Max(p)}] + d[Max(p)]]
  <2> TAKE g
  <2> SUFFICES ASSUME NEW p \in SUBSET (1..n), p # {} PROVE s[Max(p)].duration = d[Max(p)]
    OBVIOUS
  <2>1. Max(p) \in p
    BY <1>1, MaxOfPlaces
  <2> QED
    BY <1>1, <2>1
<1>4. f = step(f)
  BY <1>2, <1>3 DEF IsFold
<1>5. fold = step(fold)
  <2> HIDE DEF step
  <2> QED
    BY <1>4
<1>6. IsFold(fold, d, n)
  BY <1>3, <1>5 DEF IsFold
<1>7. Lasting(s) = fold[1..n]
  BY <1>1 DEF Lasting, FoldLeft, MapThenFoldSet
<1> HIDE DEF fold
<1>8. IsSum(Lasting(s), d, n)
  BY <1>1, <1>6, <1>7, FoldIsSum
<1> QED
  BY <1>8 DEF d, n

\* Nothing lasts no time, and one more adds its own duration.
LEMMA LastingGrows ==
    ASSUME NEW S, \A x \in S : x.duration \in Int
    PROVE  /\ Lasting(<< >>) = 0
           /\ \A s \in Seq(S), x \in S :
                /\ Lasting(s) \in Int
                /\ Lasting(Append(s, x)) = Lasting(s) + x.duration
<1>1. Lasting(<< >>) = 0
  <2> DEFINE none == [i \in 1..Len(<< >>) |-> << >>[i].duration]
  <2>1. << >> \in Seq(S) /\ Len(<< >>) = 0
    OBVIOUS
  <2>2. IsSum(Lasting(<< >>), none, 0)
    BY <2>1, LastingIsSum
  <2> HIDE DEF none
  <2>3. IsSum(0, none, 0)
    BY SumOfNothing
  <2> QED
    BY <2>2, <2>3, SameSum
<1>2. ASSUME NEW s \in Seq(S), NEW x \in S
      PROVE  Lasting(s) \in Int /\ Lasting(Append(s, x)) = Lasting(s) + x.duration
  <2> DEFINE n == Len(s)
             longer == Append(s, x)
             d == [i \in 1..n |-> s[i].duration]
             e == [i \in 1..n + 1 |-> longer[i].duration]
  <2>1. /\ n \in Nat /\ longer \in Seq(S) /\ Len(longer) = n + 1
        /\ \A k \in 1..n : e[k] = d[k]
        /\ e[n + 1] = x.duration /\ x.duration \in Int
    OBVIOUS
  <2>2. IsSum(Lasting(s), d, n) /\ IsSum(Lasting(longer), e, n + 1)
    BY <2>1, LastingIsSum
  <2> HIDE DEF n, longer, d, e
  <2>3. Lasting(s) \in Int /\ IsSum(Lasting(s) + e[n + 1], e, n + 1)
    BY <2>1, <2>2, SumOfMore
  <2>4. Lasting(longer) = Lasting(s) + e[n + 1]
    BY <2>1, <2>2, <2>3, SameSum, n + 1 \in Nat
  <2> QED
    BY <2>1, <2>3, <2>4 DEF longer
<1> QED
  BY <1>1, <1>2

LEMMA PartsLasting ==
    /\ Lasting(<< >>) = 0
    /\ \A s \in Seq(PartType), x \in PartType :
        Lasting(s) \in Int /\ Lasting(Append(s, x)) = Lasting(s) + x.duration
<1>1. \A x \in PartType : x.duration \in Int
  BY DEF PartType
<1> QED
  BY <1>1, LastingGrows

\* PartsFillSegment, with what it needs to last: the part that is written starts
\* where the parts of its segment end.
FilledInv ==
    variant = "LL" =>
        /\ \A seg \in ToSet(segments) : seg.opening # "gap" => Lasting(seg.parts) = seg.duration
        /\ \A seg \in segment : seg.start + Lasting(seg.parts) = part.start

\* The part that ends fills the time from its start on.
LEMMA PublishedLasting ==
    ASSUME NEW parts \in Seq(PartType), NEW p \in OpenPart, NEW t \in Int, adjusted' \in Nat,
           variant = "LL"
    PROVE  Lasting(Published(parts, p, t)) = Lasting(parts) + (t - p.start)
<1> DEFINE new == [duration |-> t - p.start, lengths |-> p.lengths, allowed |-> adjusted']
<1>1. new \in PartType /\ new.duration = t - p.start
  BY DEF PartType, OpenPart
<1>2. Published(parts, p, t) = Append(parts, new)
  BY DEF Published
<1> HIDE DEF new
<1> QED
  BY <1>1, <1>2, PartsLasting

LEMMA InitFilledInv == Init => FilledInv
<1>1. \A seg \in ToSet(<< >>) : FALSE
  BY DEF ToSet
<1> QED
  BY <1>1 DEF Init, FilledInv

\* A segment that is full, a part of it, or a sample of a part: where the part that
\* is written starts, the parts of its segment end.
LEMMA LeadingFilled ==
    ASSUME SegmenterInv, FilledInv, NEW dts \in Int, NEW random \in BOOLEAN,
           WriteLeading(dts, random)
    PROVE  FilledInv'
<1>1. PICK sample \in next[1], fits \in BOOLEAN :
        /\ variant # "MPEGTS"
        /\ Give(1, dts, random)
        /\ Take(1, sample, dts, random)
        /\ fmp4AdjustPartDuration(LeadingLength(sample))
        /\ WriteSample(1, sample, fits)
        /\ \E cut \in {timestampToDuration(n.dts) : n \in next'[1]} :
            Cut(random, sample, fits, cut)
  BY LeadingCases
<1> SUFFICES ASSUME variant' = "LL" PROVE FilledInv'
  BY DEF FilledInv
<1>2. variant = "LL" /\ 1 \in Tracks /\ WaitingTyped
  BY <1>1 DEF Give, Tracks, SegmenterInv
<1>3. PICK n \in Sample : next' = [next EXCEPT ![1] = {n}] /\ Length(1, sample) \in Nat
  BY <1>1, <1>2, TakeWaits
<1>4. next'[1] = {n} /\ n.dts \in Int /\ sample \in Sample
  BY <1>2, <1>3 DEF WaitingTyped, Sample
<1>5. PICK cut : /\ cut \in {timestampToDuration(m.dts) : m \in next'[1]}
                 /\ Cut(random, sample, fits, cut)
  BY <1>1
<1>6. cut \in Int
  <2>1. cut = timestampToDuration(n.dts)
    BY <1>4, <1>5
  <2> QED
    BY <1>4, <2>1, SegmenterAssumption, DurationType
<1> DEFINE seg == LeadingSegment(sample)
           p == LeadingPart(sample)
           fullSeg == FullSegment(sample)
           fullPart == FullPart(sample)
<1>7. /\ StreamInv /\ LeadingStart(sample) \in Int /\ LeadingLength(sample) \in Nat
      /\ Covered(seg) /\ Covered(fullSeg) /\ fullSeg.start = seg.start /\ fullSeg.parts = seg.parts
      /\ p \in OpenPart /\ fullPart \in OpenPart /\ fullPart.start = p.start
  BY <1>3, <1>4, LeadingTypes DEF SegmenterInv
<1>8. adjusted' \in Nat
  BY <1>1, <1>7, AdjustKeepsType DEF SegmenterInv, AdjustTyped
<1>9. seg.start + Lasting(seg.parts) = p.start
  <2>1. CASE segment = {}
    <3>1. seg = NewSegment(LeadingStart(sample)) /\ p = NewPart(LeadingStart(sample))
      BY <2>1 DEF LeadingSegment, LeadingPart
    <3>2. seg.start = LeadingStart(sample) /\ seg.parts = << >> /\ p.start = LeadingStart(sample)
      BY <3>1 DEF NewSegment, NewPart
    <3> HIDE DEF seg, p
    <3> QED
      BY <1>7, <3>2, PartsLasting
  <2>2. CASE segment # {}
    <3>1. seg \in segment /\ p = part
      BY <1>7, <2>2, CurrentSegment DEF LeadingSegment, LeadingPart
    <3> QED
      BY <1>2, <3>1 DEF FilledInv
  <2> QED
    BY <2>1, <2>2
<1>10. Cut(random, sample, fits, cut) <=>
        \/ /\ ~fits
           /\ segment' = {seg} /\ part' = p
           /\ UNCHANGED << frozen, segments, target, partTarget >>
        \/ /\ fits /\ SwitchSegment(random, cut, seg)
           /\ rotateSegments(fullSeg, fullPart, cut, "nothing")
           /\ frozen' = TRUE
        \/ /\ fits /\ ~SwitchSegment(random, cut, seg)
           /\ UNCHANGED frozen
           /\ IF variant = "LL" /\ cut - p.start >= adjusted'
              THEN rotateParts(fullSeg, fullPart, cut)
              ELSE /\ segment' = {fullSeg} /\ part' = fullPart
                   /\ UNCHANGED << segments, target, partTarget >>
  BY DEF Cut
<1> HIDE DEF seg, p, fullSeg, fullPart
<1>11. /\ seg.start \in Int /\ p.start \in Int /\ seg.parts \in Seq(PartType)
       /\ Lasting(seg.parts) \in Int /\ fullSeg \in OpenSegment
  <2>1. seg \in OpenSegment /\ fullSeg \in OpenSegment
    BY <1>7 DEF Covered
  <2>2. seg.start \in Int /\ p.start \in Int /\ seg.parts \in Seq(PartType)
    BY <1>7, <2>1 DEF OpenSegment, OpenPart
  <2>3. [duration |-> 0, lengths |-> {}, allowed |-> 0] \in PartType
    BY DEF PartType
  <2> QED
    BY <2>1, <2>2, <2>3, PartsLasting
<1> DEFINE parts == Published(fullSeg.parts, fullPart, cut)
<1>12. parts = Published(seg.parts, fullPart, cut) /\ parts \in Seq(PartType)
  BY <1>6, <1>7, <1>8, <1>11, PublishedType
<1>13. Lasting(parts) = Lasting(seg.parts) + (cut - p.start)
  <2>1. Lasting(Published(seg.parts, fullPart, cut)) = Lasting(seg.parts) + (cut - fullPart.start)
    <3>1. seg.parts \in Seq(PartType) /\ fullPart \in OpenPart
      BY <1>7, <1>11
    <3> QED
      BY ONLY <1>2, <1>6, <1>8, <3>1, PublishedLasting
  <2> HIDE DEF parts
  <2> QED
    BY <1>7, <1>12, <2>1
<1>14. seg.start + Lasting(parts) = cut /\ Lasting(parts) = cut - seg.start
  <2> DEFINE was == Lasting(seg.parts)
             is == Lasting(parts)
             from == seg.start
             at == p.start
  <2>1. was \in Int /\ from \in Int /\ at \in Int /\ from + was = at /\ is = was + (cut - at)
    BY <1>9, <1>11, <1>13
  <2> HIDE DEF was, is, from, at
  <2>2. from + is = cut /\ is = cut - from
    BY <1>6, <2>1
  <2> QED
    BY <2>2 DEF is, from
<1>15. \A s \in ToSet(segments) : s.opening # "gap" => Lasting(s.parts) = s.duration
  BY <1>2 DEF FilledInv
<1>16. CASE /\ segment' = {seg} /\ part' = p /\ segments' = segments
  BY <1>9, <1>15, <1>16 DEF FilledInv
<1>17. CASE rotateSegments(fullSeg, fullPart, cut, "nothing") /\ SwitchSegment(random, cut, seg)
  <2> DEFINE done == [duration |-> cut - fullSeg.start, parts |-> parts, opening |-> fullSeg.opening]
             new == [NewSegment(cut) EXCEPT !.opening = "nothing"]
  <2>1. segments' = Kept(WindowWith(done)) /\ segment' = {new} /\ part' = NewPart(cut)
    BY <1>2, <1>17 DEF rotateSegments, Kept, WindowWith, GapsBefore
  <2>2. done \in ListedSegment /\ Lasting(done.parts) = done.duration
    <3>1. cut - seg.start \in Nat \ {0}
      <4>1. SegmentMin \in Nat \ {0} /\ cut - seg.start >= SegmentMin
        BY <1>17, SegmenterAssumption DEF SegmenterAssumption, SwitchSegment
      <4> DEFINE from == seg.start
      <4>2. from \in Int /\ cut - from >= SegmentMin
        BY <1>11, <4>1
      <4> HIDE DEF from
      <4>3. cut - from \in Nat \ {0}
        BY ONLY <1>6, <4>1, <4>2
      <4> QED
        BY <4>3 DEF from
    <3>2. fullSeg.opening \in Openings
      BY <1>11 DEF OpenSegment
    <3> HIDE DEF parts
    <3> QED
      BY <1>7, <1>12, <1>14, <3>1, <3>2 DEF ListedSegment
  <2>3. segments \in Seq(ListedSegment)
    BY <1>7 DEF StreamInv, StreamTyped
  <2> HIDE DEF done
  <2>4. \A s \in ToSet(segments') : s \in ToSet(segments) \/ s = done \/ s = Gap(done.duration)
    BY <2>1, <2>2, <2>3, WindowElements
  <2>5. Gap(done.duration).opening = "gap"
    BY DEF Gap
  <2>6. new.start = cut /\ new.parts = << >> /\ part'.start = cut
    BY <2>1 DEF NewSegment, NewPart
  <2> HIDE DEF new
  <2>7. \A s \in segment' : s.start + Lasting(s.parts) = part'.start
    BY <1>6, <2>1, <2>6, PartsLasting
  <2> QED
    BY <1>15, <2>2, <2>4, <2>5, <2>7 DEF FilledInv
<1>18. CASE rotateParts(fullSeg, fullPart, cut)
  <2> DEFINE new == [fullSeg EXCEPT !.parts = parts]
  <2>1. segment' = {new} /\ part' = NewPart(cut) /\ segments' = segments
    BY <1>18 DEF rotateParts
  <2>2. new.start = seg.start /\ new.parts = parts /\ part'.start = cut
    BY <1>7, <1>11, <2>1 DEF NewPart, OpenSegment
  <2> HIDE DEF new, parts
  <2> QED
    BY <1>14, <1>15, <2>1, <2>2 DEF FilledInv
<1>19. CASE segment' = {fullSeg} /\ part' = fullPart /\ segments' = segments
  BY <1>7, <1>9, <1>15, <1>19 DEF FilledInv
<1> QED
  BY <1>5, <1>10, <1>16, <1>17, <1>18, <1>19, Zenon

LEMMA NextFilledInv == SegmenterInv /\ FilledInv /\ [Next]_vars => FilledInv'
<1> SUFFICES ASSUME SegmenterInv, FilledInv, [Next]_vars PROVE FilledInv'
  OBVIOUS
<1>1. ASSUME UNCHANGED << variant, stream >> PROVE FilledInv'
  BY <1>1 DEF FilledInv, stream
<1>2. CASE UNCHANGED vars
  BY <1>1, <1>2 DEF vars, input
<1>3. CASE Next
  <2>1. PICK t \in Tracks, dts \in Int, random \in BOOLEAN :
            \/ WriteNegative(t, dts, random)
            \/ WriteFirst(t, dts, random)
            \/ t = 1 /\ WriteLeading(dts, random)
            \/ t = 2 /\ WriteOther(dts)
            \/ t = 1 /\ WriteMPEGTS(dts, random)
    BY <1>3, StepCases DEF SegmenterInv
  <2>2. CASE WriteNegative(t, dts, random) \/ WriteFirst(t, dts, random)
    BY <1>1, <2>2 DEF WriteNegative, WriteFirst, Give
  <2>3. CASE t = 2 /\ WriteOther(dts)
    BY <1>1, <2>3 DEF WriteOther, Give
  <2>4. CASE t = 1 /\ WriteMPEGTS(dts, random)
    <3>1. variant' = variant /\ variant = "MPEGTS"
      BY <2>4 DEF WriteMPEGTS, Give
    <3> QED
      BY <3>1 DEF FilledInv
  <2> QED
    BY <2>1, <2>2, <2>3, <2>4, LeadingFilled
<1> QED
  BY <1>2, <1>3

\* The parts of a Low-Latency segment last as long as the segment that they make
\* up, whatever the samples, the part durations that are looked for meanwhile and
\* the segments that are cut: EXT-X-PART and EXTINF agree.
THEOREM PartsMakeSegments == Spec => []PartsFillSegment
<1>1. FilledInv => PartsFillSegment
  BY DEF FilledInv, PartsFillSegment, Lasting
<1> QED
  BY <1>1, InitFilledInv, NextFilledInv, SegmenterInvHolds, PTL DEF Spec

\* A delta update goes back more than one target duration (6 in the code).
SkipsBack == SkipTargets >= 2

\* A delta update shows at least the end of the stream, even if the target duration
\* has grown with segments that are not listed anymore: the first segment of the
\* window always lasts less than the skip boundary.
THEOREM DeltaUpdatesShow ==
    ASSUME SkipsBack
    PROVE  Spec => []DeltaShowsEnd
<1> SUFFICES ASSUME SegmenterInv PROVE DeltaShowsEnd
  BY SegmenterInvHolds, PTL
<1> SUFFICES ASSUME segments # << >>, target > 0 \/ \E seg \in ToSet(segments) : 2 * seg.duration >= Second
             PROVE  skipped < Len(segments)
  BY DEF DeltaShowsEnd
<1>1. Second \in Nat \ {0} /\ SkipTargets \in Nat /\ SkipTargets >= 2
  BY SegmenterAssumption DEF SegmenterAssumption, SkipsBack
<1>2. /\ segments \in Seq(ListedSegment) /\ target \in Nat
      /\ \A seg \in ToSet(segments) : seg.duration \in Nat /\ 2 * seg.duration < (2 * target + 1) * Second
  <2>1. StreamTyped /\ AllCovered
    BY StreamInvParts DEF SegmenterInv
  <2>2. segments \in Seq(ListedSegment) /\ target \in Nat
    BY <2>1 DEF StreamTyped
  <2>3. \A seg \in ToSet(segments) : seg \in ListedSegment
    BY <2>2, Elements
  <2> QED
    BY <2>1, <2>2, <2>3 DEF AllCovered, ListedSegment
<1>3. target > 0
  <2>1. ASSUME NEW seg \in ToSet(segments), 2 * seg.duration >= Second, target = 0 PROVE FALSE
    <3>1. (2 * target + 1) * Second = Second
      BY <1>1, <2>1
    <3> QED
      BY <1>1, <1>2, <2>1, <3>1
  <2> QED
    BY <1>2, <2>1
<1> DEFINE n == Len(segments)
           first == segments[1]
           upTo(k) == Lasting(SubSeq(segments, 1, k))
           S == {k \in 1..n : upTo(k) < skipBoundary}
<1>4. n \in Nat /\ 1 \in 1..n /\ first \in ToSet(segments) /\ first \in ListedSegment
  <2>1. n \in Nat /\ n # 0
    BY <1>2
  <2>2. 1 \in 1..n
    BY <2>1
  <2> QED
    BY <1>2, <2>1, <2>2, Elements
<1>5. upTo(1) = first.duration
  <2> DEFINE head == SubSeq(segments, 1, 1)
             one == Append(<< >>, first)
  <2>1. head = one
    <3>1. head \in Seq(ListedSegment) /\ Len(head) = 1 /\ head[1] = segments[1]
      BY <1>2, <1>4, SubSeqProperties
    <3>2. one \in Seq(ListedSegment) /\ Len(one) = 1 /\ one[1] = first
      BY <1>4
    <3> HIDE DEF head, one
    <3> QED
      BY <3>1, <3>2, SeqEqual, \A i \in 1..1 : i = 1
  <2>2. << >> \in Seq(ListedSegment) /\ \A x \in ListedSegment : x.duration \in Int
    BY DEF ListedSegment
  <2>3. Lasting(Append(<< >>, first)) = 0 + first.duration
    BY <1>4, <2>2, LastingGrows
  <2>4. first.duration \in Int
    BY <1>4, <2>2
  <2>5. upTo(1) = Lasting(head) /\ Lasting(one) = 0 + first.duration
    BY <2>3
  <2> HIDE DEF first, head, one, upTo
  <2> QED
    BY <2>1, <2>4, <2>5
<1>6. first.duration < skipBoundary
  <2> DEFINE d == first.duration
             ts == target * Second
  <2>1. d \in Nat /\ 2 * d < (2 * target + 1) * Second
    BY <1>2, <1>4
  <2> HIDE DEF d
  <2>2. ts \in Nat /\ ts >= Second /\ (2 * target + 1) * Second = 2 * ts + Second
    <3>1. (target - 1) * Second \in Nat /\ target - 1 \in Nat
      BY <1>1, <1>2, <1>3, Products
    <3> QED
      BY <1>1, <1>2, <3>1
  <2>3. skipBoundary = SkipTargets * ts
    BY <1>1, <1>2 DEF skipBoundary
  <2> HIDE DEF ts
  <2>4. (SkipTargets - 2) * ts \in Nat
    BY <1>1, <2>2, Products
  <2>5. SkipTargets * ts >= 2 * ts /\ SkipTargets * ts \in Int
    BY <1>1, <2>2, <2>4
  <2> QED
    BY <1>1, <2>1, <2>2, <2>3, <2>5 DEF d
<1>7. shown = Cardinality(S)
  BY DEF shown, Lasting
<1>8. 1 \in S
  BY <1>4, <1>5, <1>6
<1>9. IsFiniteSet(S)
  <2>1. IsFiniteSet(1..n)
    BY <1>4, FS_Interval
  <2> QED
    BY <2>1, FS_Subset
<1> HIDE DEF S
<1>10. Cardinality(S) \in Nat /\ Cardinality(S) # 0
  BY <1>8, <1>9, FS_CardinalityType, FS_EmptySet
<1> QED
  BY <1>4, <1>7, <1>10 DEF skipped

--------------------------------------------------------------------------------
(***************************************************************************)
(* Parts of samples that last the same.                                    *)
(***************************************************************************)

\* A factor is taken out of a comparison.
LEMMA Cancelled ==
    ASSUME NEW x \in Int, NEW y \in Int, NEW f \in Nat \ {0}, x * f < y * f
    PROVE  x < y
<1> SUFFICES ASSUME y <= x PROVE FALSE
  OBVIOUS
<1>1. x - y \in Nat
  OBVIOUS
<1>2. (x - y) * f \in Nat
  BY <1>1, Products
<1>3. (x - y) * f = x * f - y * f
  OBVIOUS
<1> QED
  BY <1>2, <1>3

\* A conversion rounds down, and overflows nowhere.
LEMMA ConversionBounds ==
    ASSUME NEW v \in Nat, NEW m \in Nat \ {0}, NEW d \in Nat \ {0}
    PROVE  /\ multiplyAndDivide(v, m, d) \in Int
           /\ multiplyAndDivide(v, m, d) * d <= v * m
           /\ v * m < multiplyAndDivide(v, m, d) * d + d
<1> DEFINE s == v \div d
           r == v - s * d
           t == (r * m) \div d
<1>1. s \in Nat /\ s * d <= v
  BY Quotients
<1>2. Quotient(v, d) = s
  BY DEF Quotient
<1> HIDE DEF s
<1>3. s * d \in Nat /\ r \in Nat
  BY <1>1, Products
<1>4. v = s * d + r
  BY <1>3
<1> HIDE DEF r
<1>5. r * m \in Nat
  BY <1>3, Products
<1>6. t \in Int /\ t * d <= r * m /\ r * m < t * d + d
  <2> DEFINE w == r * m
  <2>1. w \in Int
    BY <1>5
  <2> HIDE DEF w
  <2>2. w \div d \in Int /\ (w \div d) * d <= w /\ w < (w \div d) * d + d
    BY <2>1, Quotients
  <2> QED
    BY <2>2 DEF w
<1>7. multiplyAndDivide(v, m, d) = s * m + t
  <2>1. multiplyAndDivide(v, m, d) = Quotient(v, d) * m + Quotient((v - Quotient(v, d) * d) * m, d)
    BY DEF multiplyAndDivide
  <2>2. multiplyAndDivide(v, m, d) = s * m + Quotient(r * m, d)
    BY <1>2, <2>1 DEF r
  <2>3. Quotient(r * m, d) = t
    BY <1>5 DEF Quotient
  <2> QED
    BY <2>2, <2>3
<1> HIDE DEF t
<1>8. v * m = (s * m) * d + r * m
  BY <1>1, <1>3, <1>4
<1>9. (s * m + t) * d = (s * m) * d + t * d
  BY <1>1, <1>6
<1>10. s * m + t \in Int /\ (s * m) * d \in Int /\ t * d \in Int
  BY <1>1, <1>6
<1> QED
  BY <1>5, <1>6, <1>7, <1>8, <1>9, <1>10

\* What a step of the clock may add by rounding: nothing, when a tick is a whole
\* number of units.
Slack == IF Second % ClockRate = 0 THEN 0 ELSE 1

\* The duration between two timestamps, and the durations of both.
LEMMA DurationsAdd ==
    ASSUME SegmenterAssumption, NEW a \in Nat, NEW b \in Nat
    PROVE  /\ timestampToDuration(a) \in Nat /\ timestampToDuration(b) \in Nat
           /\ timestampToDuration(a) + timestampToDuration(b) <= timestampToDuration(a + b)
           /\ timestampToDuration(a + b) <= timestampToDuration(a) + timestampToDuration(b) + Slack
<1> DEFINE m == Second
           d == ClockRate
           A == timestampToDuration(a)
           B == timestampToDuration(b)
           C == timestampToDuration(a + b)
           X == a * m
           Y == b * m
<1>1. m \in Nat \ {0} /\ d \in Nat \ {0} /\ a + b \in Nat
  BY DEF SegmenterAssumption
<1>2. A \in Nat /\ B \in Nat
  BY DurationType
<1>3. /\ A * d <= X /\ X < A * d + d
      /\ B * d <= Y /\ Y < B * d + d
      /\ C \in Int /\ C * d <= (a + b) * m /\ (a + b) * m < C * d + d
  BY <1>1, ConversionBounds DEF timestampToDuration
<1>4. (a + b) * m = X + Y /\ X \in Nat /\ Y \in Nat
  BY <1>1
<1> SUFFICES A + B <= C /\ C <= A + B + Slack
  BY <1>2
<1> HIDE DEF A, B, C
<1>6. A + B <= C /\ C <= A + B + 1
  <2> HIDE DEF X, Y, m, d
  <2>1. (A + B) * d = A * d + B * d /\ (C + 1) * d = C * d + d /\ (A + B + 2) * d = A * d + B * d + d + d
    BY <1>1, <1>2, <1>3
  <2>2. A * d \in Int /\ B * d \in Int /\ C * d \in Int
    BY <1>1, <1>2, <1>3
  <2>3. (A + B) * d < (C + 1) * d /\ C * d < (A + B + 2) * d
    BY <1>1, <1>3, <1>4, <2>1, <2>2
  <2>4. A + B < C + 1
    BY <1>1, <1>2, <1>3, <2>3, Cancelled, A + B \in Int, C + 1 \in Int
  <2>5. C < A + B + 2
    BY <1>1, <1>2, <1>3, <2>3, Cancelled, A + B + 2 \in Int
  <2> QED
    BY <1>2, <1>3, <2>4, <2>5
<1>7. ASSUME m % d = 0 PROVE C = A + B
  <2> DEFINE q == m \div d
  <2>1. q \in Int /\ m = q * d
    BY <1>1, <1>7
  <2> HIDE DEF q
  <2>2. \A u \in Nat, U \in Int : U * d <= u * m /\ u * m < U * d + d => U = u * q
    <3> TAKE u \in Nat, U \in Int
    <3> HAVE U * d <= u * m /\ u * m < U * d + d
    <3>1. u * m = (u * q) * d /\ u * q \in Int
      BY <1>1, <2>1
    <3> DEFINE w == u * q
    <3> HIDE DEF w, m, d
    <3>2. w \in Int /\ (w + 1) * d = w * d + d /\ (U + 1) * d = U * d + d /\ w * d \in Int /\ U * d \in Int
      BY <1>1, <3>1 DEF w
    <3>3. U * d < (w + 1) * d /\ w * d < (U + 1) * d
      BY <1>1, <3>1, <3>2 DEF w
    <3>4. U < w + 1 /\ w < U + 1
      BY <1>1, <3>2, <3>3, Cancelled, w + 1 \in Int, U + 1 \in Int
    <3> QED
      BY <3>2, <3>4 DEF w
  <2>3. A = a * q /\ B = b * q /\ C = (a + b) * q
    BY <1>1, <1>2, <1>3, <2>2
  <2> QED
    BY <2>1, <2>3
<1> QED
  BY <1>2, <1>3, <1>6, <1>7 DEF Slack

\* A part duration that is found before the search gives up suits every sample.
LEMMA FoundIsCompatible ==
    ASSUME SegmenterAssumption, NEW lengths, NEW d \in lengths,
           findCompatiblePartDuration(lengths) < Ceiling
    PROVE  partDurationIsCompatible(findCompatiblePartDuration(lengths), d)
<1> DEFINE tried == {PartMin + k * Step : k \in 0..((Ceiling - PartMin) \div Step)}
           fit == {u \in tried : u < Ceiling /\ partDurationIsCompatibleWithAll(u, lengths)}
           room == Ceiling - PartMin
           up == RoundUp(room, Step)
           last == PartMin + Max({0, up})
<1>1. PartMin \in Nat /\ Step \in Nat \ {0} /\ Ceiling \in Nat
  BY DEF SegmenterAssumption
<1>2. fit \in SUBSET Nat
  <2>1. room \in Int
    BY <1>1
  <2>2. room \div Step \in Int
    BY ONLY <1>1, <2>1, Quotients
  <2>3. \A k \in 0..(room \div Step) : k \in Nat
    BY ONLY <2>2
  <2>4. \A k \in Nat : k * Step \in Nat
    BY ONLY <1>1, Products
  <2> QED
    BY ONLY <1>1, <2>3, <2>4
<1>3. findCompatiblePartDuration(lengths) = IF fit # {} THEN Min(fit) ELSE last
  BY DEF findCompatiblePartDuration
<1>4. last >= Ceiling
  <2>1. room \in Int /\ 0 \in Int
    BY <1>1
  <2>2. up \in Int /\ room <= up
    BY ONLY <1>1, <2>1, RoundUpBounds
  <2> HIDE DEF up
  <2>3. Max({0, up}) \in {0, up} /\ up <= Max({0, up})
    BY ONLY <2>1, <2>2, MaxOfTwo
  <2> QED
    BY ONLY <1>1, <2>2, <2>3
<1>5. fit # {}
  BY <1>1, <1>3, <1>4, PartDurationFound
<1>6. Min(fit) \in fit
  <2> HIDE DEF fit
  <2> QED
    BY ONLY <1>2, <1>5, MinOfNaturals
<1> QED
  BY <1>3, <1>5, <1>6 DEF partDurationIsCompatibleWithAll

\* What suits a sample is more than 85% of as many of them as it takes to reach it.
LEMMA CompatibleCovers ==
    ASSUME NEW A \in Nat, NEW d \in Nat \ {0}, partDurationIsCompatible(A, d),
           NEW k \in Nat, k * d < A
    PROVE  85 * ((k + 1) * d) < 100 * A
<1> DEFINE q == (A + d - 1) \div d
           R == q * d
           z == (R * 85) \div 100
<1>1. q \in Int /\ A + d - 1 \in Int
  OBVIOUS
<1>2. RoundUp(A, d) = R
  BY DEF RoundUp
<1>3. A <= R /\ R \in Int
  BY <1>2, RoundUpBounds
<1> HIDE DEF q
<1>4. k < q
  BY <1>1, <1>3, Cancelled
<1>5. (k + 1) * d <= R
  <2>1. (q - (k + 1)) * d \in Nat
    BY <1>1, <1>4, Products, q - (k + 1) \in Nat
  <2>2. (q - (k + 1)) * d = q * d - (k + 1) * d
    BY <1>1
  <2>3. (k + 1) * d \in Int
    OBVIOUS
  <2> QED
    BY <1>3, <2>1, <2>2, <2>3
<1>6. A > z
  BY <1>2 DEF partDurationIsCompatible
<1> DEFINE more == (k + 1) * d
<1>7. more \in Int /\ more <= R
  BY <1>5
<1> HIDE DEF R, more
<1>8. z \in Int /\ R * 85 < z * 100 + 100
  BY <1>3
<1> HIDE DEF z
<1>9. 85 * more < 100 * A
  BY <1>3, <1>6, <1>7, <1>8
<1> QED
  BY <1>9 DEF more

\* Samples that last d make up a part that has lasted e up to now.
Steady(d, e) == \E k \in Nat : k * d <= e /\ e <= k * d + k * Slack

\* One more such sample.
LEMMA SteadyGrows ==
    ASSUME NEW d \in Nat, NEW e \in Int, NEW longer \in Int, Steady(d, e),
           e + d <= longer, longer <= e + d + Slack
    PROVE  /\ Steady(d, longer)
           /\ \A A \in Nat : d > 0 /\ e < A /\ partDurationIsCompatible(A, d) =>
                85 * (longer - Rounding(longer, d)) < 100 * A
<1>1. PICK k \in Nat : k * d <= e /\ e <= k * d + k * Slack
  BY DEF Steady
<1>2. Slack \in {0, 1} /\ (Slack = 0 <=> Second % ClockRate = 0)
  BY DEF Slack
<1> DEFINE one == k * d
           more == (k + 1) * d
           slack == Slack
<1>3. one \in Nat /\ more \in Nat /\ more = one + d
  BY Products
<1>4. k * slack \in Int /\ (k + 1) * slack = k * slack + slack
  BY <1>2
<1>5. more <= longer /\ longer <= more + (k + 1) * slack
  <2> DEFINE ks == k * slack
  <2>1. one <= e /\ e <= one + ks /\ ks \in Int /\ (k + 1) * slack = ks + slack /\ slack \in Int
    BY <1>1, <1>2, <1>4
  <2>2. e + d <= longer /\ longer <= e + d + slack
    OBVIOUS
  <2> HIDE DEF one, more, ks, slack
  <2> QED
    BY <1>3, <2>1, <2>2
<1>6. Steady(d, longer)
  BY <1>5, k + 1 \in Nat DEF Steady
<1>7. ASSUME NEW A \in Nat, d > 0, e < A, partDurationIsCompatible(A, d)
      PROVE  85 * (longer - Rounding(longer, d)) < 100 * A
  <2>1. 85 * more < 100 * A
    <3>1. k * d < A
      BY <1>1, <1>3, <1>7
    <3> QED
      BY <1>7, <3>1, CompatibleCovers
  <2>2. longer - Rounding(longer, d) <= more /\ Rounding(longer, d) \in Int
    <3>1. CASE Second % ClockRate = 0
      <4>1. slack = 0 /\ Rounding(longer, d) = 0
        BY <1>2, <3>1 DEF Rounding
      <4>2. (k + 1) * slack = 0
        BY <4>1
      <4> HIDE DEF more, slack
      <4> QED
        BY <1>3, <1>5, <4>1, <4>2
    <3>2. CASE Second % ClockRate # 0
      <4> DEFINE w == longer \div d
      <4>1. slack = 1 /\ Rounding(longer, d) = w
        BY <1>2, <3>2 DEF Rounding
      <4>2. w \in Int /\ longer < w * d + d
        BY <1>7, Quotients
      <4>3. (k + 1) * slack = k + 1
        BY <4>1
      <4> HIDE DEF w
      <4>4. (w + 1) * d = w * d + d /\ w * d \in Int
        BY <4>2
      <4>5. more < (w + 1) * d
        <5> HIDE DEF more
        <5> QED
          BY <1>3, <1>5, <4>2, <4>4
      <4>6. k + 1 < w + 1
        BY <1>7, <4>2, <4>5, Cancelled, k + 1 \in Int, w + 1 \in Int
      <4> HIDE DEF more, slack
      <4> QED
        BY <1>3, <1>5, <4>1, <4>2, <4>3, <4>6
    <3> QED
      BY <3>1, <3>2
  <2> HIDE DEF more
  <2> QED
    BY <1>3, <1>7, <2>1, <2>2
<1> QED
  BY <1>6, <1>7

\* Durations of samples that the part duration takes into account, if there is only
\* one: it is known, or the part duration is frozen.
Settled(durations, fixed, lengths) ==
    \A d : lengths = {d} => fixed \/ d \in durations \union {0}

\* A part is not full yet, and has lasted e up to now.
EvenPart(lengths, e) ==
    /\ Settled(known, frozen, lengths)
    /\ lengths = {} => e = 0
    /\ lengths # {} => e < adjusted
    /\ \A d : lengths = {d} => Steady(d, e)

\* A sample joins a part, and the part duration is adjusted to it.
LEMMA PartGrows ==
    ASSUME SegmenterAssumption, known \subseteq Nat \ {0}, adjusted \in Nat, variant = "LL",
           known # {} => adjusted = findCompatiblePartDuration(known),
           NEW length \in Nat, fmp4AdjustPartDuration(length),
           NEW lengths \in SUBSET Nat, NEW e \in Int, EvenPart(lengths, e),
           NEW longer \in Int, e + length <= longer, longer <= e + length + Slack
    PROVE  /\ frozen => known' = known
           /\ known \subseteq known'
           /\ Settled(known', frozen, lengths \union {length})
           /\ \A d : lengths \union {length} = {d} =>
                /\ Steady(d, longer)
                /\ d \in known' /\ adjusted' < Ceiling =>
                    85 * (longer - Rounding(longer, d)) < 100 * adjusted'
<1> DEFINE stays == frozen \/ length \in known \union {0}
<1>1. /\ stays => known' = known /\ adjusted' = adjusted
      /\ ~stays => known' = known \union {length} /\ adjusted' = findCompatiblePartDuration(known')
  BY DEF fmp4AdjustPartDuration
<1>2. known' # {} => adjusted' = findCompatiblePartDuration(known')
  BY <1>1
<1>3. known' \subseteq Nat \ {0} /\ adjusted' \in Nat
  BY AdjustKeepsType
<1>4. Settled(known', frozen, lengths \union {length})
  BY <1>1 DEF Settled
<1>5. ASSUME NEW d, lengths \union {length} = {d}
      PROVE  /\ Steady(d, longer)
             /\ d \in known' /\ adjusted' < Ceiling =>
                    85 * (longer - Rounding(longer, d)) < 100 * adjusted'
  <2>1. d = length /\ d \in Nat /\ (lengths = {} \/ lengths = {d})
    BY <1>5
  <2>2. Steady(d, e)
    <3>1. CASE lengths = {}
      <4>1. e = 0 /\ 0 * d <= 0 /\ 0 <= 0 * d + 0 * Slack
        BY <2>1, <3>1 DEF EvenPart, Slack
      <4> QED
        BY <4>1 DEF Steady
    <3>2. CASE lengths = {d}
      BY <3>2 DEF EvenPart
    <3> QED
      BY <2>1, <3>1, <3>2
  <2>3. ASSUME d \in known', adjusted' < Ceiling
        PROVE  d > 0 /\ e < adjusted' /\ partDurationIsCompatible(adjusted', d)
    <3>1. partDurationIsCompatible(adjusted', d)
      BY <1>2, <2>3, FoundIsCompatible
    <3>2. d \in Nat \ {0} /\ d <= adjusted'
      BY <1>3, <2>3, <3>1 DEF partDurationIsCompatible
    <3>3. CASE lengths = {}
      BY <1>3, <3>1, <3>2, <3>3 DEF EvenPart
    <3>4. CASE lengths = {d}
      <4>1. stays
        BY <2>1, <3>4 DEF EvenPart, Settled
      <4> QED
        BY <1>1, <3>1, <3>2, <3>4, <4>1 DEF EvenPart
    <3> QED
      BY <2>1, <3>3, <3>4
  <2>4. e + d <= longer /\ longer <= e + d + Slack
    BY <2>1
  <2> QED
    BY <1>3, <2>1, <2>2, <2>3, <2>4, SteadyGrows
<1> QED
  BY <1>1, <1>4, <1>5

\* The last entry leaves a sequence that it has joined.
LEMMA FrontOfAppended ==
    ASSUME NEW S, NEW s \in Seq(S), NEW x \in S
    PROVE  Front(Append(s, x)) = s /\ Append(s, x) # << >>
<1> DEFINE longer == Append(s, x)
           front == Front(longer)
<1>1. /\ longer \in Seq(S) /\ Len(longer) = Len(s) + 1 /\ Len(s) \in Nat
      /\ \A i \in 1..Len(s) : longer[i] = s[i]
  OBVIOUS
<1>2. front = SubSeq(longer, 1, Len(s))
  BY <1>1 DEF Front
<1> HIDE DEF longer
<1>3. /\ SubSeq(longer, 1, Len(s)) \in Seq(S)
      /\ Len(SubSeq(longer, 1, Len(s))) = Len(s)
      /\ \A i \in 1..Len(s) : SubSeq(longer, 1, Len(s))[i] = longer[i]
  BY <1>1
<1> HIDE DEF front
<1>4. front = s
  BY <1>1, <1>2, <1>3, SeqEqual
<1> QED
  BY <1>1, <1>4 DEF front, longer

\* PartsSimilar, with what it needs to last: the part duration suits the durations
\* that are known, and the part that is written has not reached it yet.
SimilarInv ==
    /\ known # {} => variant = "LL" /\ adjusted = findCompatiblePartDuration(known)
    /\ variant = "LL" /\ segment # {} => next[1] # {}
    /\ variant = "LL" /\ ~failed =>
        /\ \A p \in FullParts : Settled(known, frozen, p.lengths) /\ Similar(p)
        /\ \A seg \in segment, n \in next[1] :
            EvenPart(part.lengths, timestampToDuration(n.dts) - part.start)

LEMMA InitSimilarInv == Init => SimilarInv
<1>1. ToSet(<< >>) = {}
  BY DEF ToSet
<1> QED
  BY <1>1 DEF Init, SimilarInv, FullParts

\* A part that was full, after a sample that may have made one more duration known.
LEMMA StaysSimilar ==
    ASSUME NEW p, Settled(known, frozen, p.lengths), Similar(p),
           known \subseteq known', frozen => known' = known, frozen => frozen',
           known' \subseteq Nat \ {0}
    PROVE  Settled(known', frozen', p.lengths) /\ Similar(p)'
<1>1. Settled(known', frozen', p.lengths)
  BY DEF Settled
<1>2. ASSUME NEW d \in known', p.lengths = {d} PROVE d \in known
  BY <1>2 DEF Settled
<1> QED
  BY <1>1, <1>2 DEF Similar, Even

\* A sample makes a part longer or full: a part that becomes full is like the others,
\* and what is written next has not reached the part duration.
LEMMA LeadingSimilar ==
    ASSUME DurationsFit, SegmenterInv, ContinuousInv, SimilarInv, NEW dts \in Int,
           dts - given[1] \in Deltas[1], NEW random \in BOOLEAN, WriteLeading(dts, random)
    PROVE  SimilarInv'
<1>1. PICK sample \in next[1], fits \in BOOLEAN :
        /\ variant # "MPEGTS"
        /\ Give(1, dts, random)
        /\ Take(1, sample, dts, random)
        /\ fmp4AdjustPartDuration(LeadingLength(sample))
        /\ WriteSample(1, sample, fits)
        /\ \E cut \in {timestampToDuration(n.dts) : n \in next'[1]} :
            Cut(random, sample, fits, cut)
  BY LeadingCases
<1>2. variant' = variant /\ 1 \in Tracks /\ WaitingTyped
  BY <1>1 DEF Give, Tracks, SegmenterInv
<1>3. PICK n \in Sample : next'[1] = {n} /\ sample.dts + Length(1, sample) = n.dts
  BY <1>1, <1>2, EndsWhereNextStarts
<1>4. sample \in Sample /\ Length(1, sample) \in Nat
  BY <1>1, <1>2, TakeWaits DEF WaitingTyped
<1>5. CASE variant # "LL"
  <2>1. known' = known /\ known = {}
    BY <1>1, <1>5 DEF fmp4AdjustPartDuration, SimilarInv
  <2> QED
    BY <1>2, <1>5, <2>1 DEF SimilarInv
<1>6. CASE variant = "LL"
  <2> DEFINE start == LeadingStart(sample)
             length == LeadingLength(sample)
             stop == timestampToDuration(n.dts)
             seg == LeadingSegment(sample)
             p == LeadingPart(sample)
             fullSeg == FullSegment(sample)
             fullPart == FullPart(sample)
  <2>1. /\ start \in Nat /\ length \in Nat /\ stop \in Int
        /\ start + length <= stop /\ stop <= start + length + Slack
    <3>1. sample.dts \in Nat
      BY <1>4 DEF Sample
    <3> QED
      BY <1>3, <1>4, <3>1, DurationsAdd, SegmenterAssumption, DurationType, n.dts \in Int
         DEF LeadingStart, LeadingLength, Sample
  <2>2. /\ StreamInv
        /\ Covered(seg) /\ Covered(fullSeg) /\ fullSeg.start = seg.start /\ fullSeg.parts = seg.parts
        /\ p \in OpenPart /\ fullPart \in OpenPart /\ fullPart.start = p.start
    BY <1>4, LeadingTypes DEF SegmenterInv
  <2>3. fullPart.lengths = p.lengths \union {length}
    BY <2>2 DEF FullPart, OpenPart
  <2>4. /\ known \subseteq Nat \ {0} /\ adjusted \in Nat /\ frozen \in BOOLEAN
        /\ known' \subseteq Nat \ {0} /\ adjusted' \in Nat
    BY <1>1, <2>1, AdjustKeepsType DEF SegmenterInv, AdjustTyped
  <2>5. known' # {} => adjusted' = findCompatiblePartDuration(known')
    <3>1. CASE frozen \/ length \in known \union {0}
      BY <1>1, <3>1 DEF fmp4AdjustPartDuration, SimilarInv
    <3>2. CASE ~(frozen \/ length \in known \union {0})
      BY <1>1, <1>6, <3>2 DEF fmp4AdjustPartDuration
    <3> QED
      BY <3>1, <3>2
  <2>6. variant' = "LL" /\ next'[1] # {}
    BY <1>2, <1>3, <1>6
  <2> SUFFICES ASSUME ~failed'
               PROVE  /\ \A q \in FullParts' : Settled(known', frozen', q.lengths) /\ Similar(q)'
                      /\ Settled(known', frozen', part'.lengths)
                      /\ part'.lengths = {} => stop - part'.start = 0
                      /\ part'.lengths # {} => stop - part'.start < adjusted'
                      /\ \A d : part'.lengths = {d} => Steady(d, stop - part'.start)
    <3>1. \A m \in next'[1] : timestampToDuration(m.dts) = stop
      BY <1>3
    <3> HIDE DEF stop
    <3> QED
      BY <2>5, <2>6, <3>1 DEF SimilarInv, EvenPart
  <2>7. fits /\ ~failed
    BY <1>1 DEF WriteSample
  <2>8. Cut(random, sample, fits, stop)
    BY <1>1, <1>3
  <2>9. \/ /\ SwitchSegment(random, stop, seg)
           /\ rotateSegments(fullSeg, fullPart, stop, "nothing")
           /\ frozen' = TRUE
        \/ /\ frozen' = frozen
           /\ stop - p.start >= adjusted'
           /\ rotateParts(fullSeg, fullPart, stop)
        \/ /\ frozen' = frozen
           /\ ~(stop - p.start >= adjusted')
           /\ segment' = {fullSeg} /\ part' = fullPart /\ segments' = segments
    BY <1>6, <2>7, <2>8, Zenon DEF Cut
  <2>10. EvenPart(p.lengths, start - p.start) /\ ToSet(seg.parts) \subseteq FullParts
    <3>1. CASE segment = {}
      <4>1. p = NewPart(start) /\ seg = NewSegment(start)
        BY <3>1 DEF LeadingPart, LeadingSegment
      <4>2. p.lengths = {} /\ p.start = start /\ seg.parts = << >> /\ ToSet(<< >>) = {}
        BY <4>1 DEF NewPart, NewSegment, ToSet
      <4> HIDE DEF p, seg, start
      <4> QED
        BY <2>1, <4>2 DEF EvenPart, Settled
    <3>2. CASE segment # {}
      <4>1. p = part /\ seg \in segment
        BY <2>1, <2>2, <3>2, CurrentSegment DEF LeadingPart, LeadingSegment
      <4>2. EvenPart(part.lengths, start - part.start)
        BY <1>6, <2>7, <4>1 DEF SimilarInv, LeadingStart
      <4> HIDE DEF p, seg, start
      <4> QED
        BY <4>1, <4>2 DEF FullParts
    <3> QED
      BY <3>1, <3>2
  <2> HIDE DEF start, length, stop, seg, p, fullSeg, fullPart
  <2>11. /\ p.start \in Int /\ p.lengths \in SUBSET Nat /\ fullPart.lengths \in SUBSET Nat
         /\ seg.parts \in Seq(PartType) /\ fullSeg \in OpenSegment
    BY <2>2 DEF OpenPart, Covered, OpenSegment
  <2> DEFINE e == start - p.start
             longer == stop - p.start
  <2>12. /\ frozen => known' = known
         /\ known \subseteq known'
         /\ Settled(known', frozen, fullPart.lengths)
         /\ \A d : fullPart.lengths = {d} =>
                /\ Steady(d, longer)
                /\ d \in known' /\ adjusted' < Ceiling =>
                    85 * (longer - Rounding(longer, d)) < 100 * adjusted'
    <3>1. e \in Int /\ longer \in Int /\ e + length <= longer /\ longer <= e + length + Slack
      <4> DEFINE from == p.start
                 slack == Slack
      <4>1. from \in Int /\ slack \in Int
        BY <2>11 DEF Slack
      <4>2. /\ start \in Int /\ length \in Int /\ stop \in Int
            /\ start + length <= stop /\ stop <= start + length + slack
        BY <2>1
      <4> HIDE DEF from, slack
      <4>3. /\ start - from \in Int /\ stop - from \in Int
            /\ start - from + length <= stop - from
            /\ stop - from <= start - from + length + slack
        BY ONLY <4>1, <4>2
      <4> QED
        BY <4>3 DEF from, slack
    <3>2. known # {} => adjusted = findCompatiblePartDuration(known)
      BY DEF SimilarInv
    <3>3. fmp4AdjustPartDuration(length)
      BY <1>1 DEF length
    <3>4. EvenPart(p.lengths, e)
      BY <2>10
    <3> DEFINE old == p.lengths
    <3>5. fullPart.lengths = old \union {length} /\ old \in SUBSET Nat /\ EvenPart(old, e)
      BY <2>3, <2>11, <3>4
    <3> HIDE DEF e, longer, old
    <3>6. /\ frozen => known' = known
          /\ known \subseteq known'
          /\ Settled(known', frozen, old \union {length})
          /\ \A d : old \union {length} = {d} =>
                /\ Steady(d, longer)
                /\ d \in known' /\ adjusted' < Ceiling =>
                    85 * (longer - Rounding(longer, d)) < 100 * adjusted'
      BY ONLY <1>6, <2>1, <2>4, <3>1, <3>2, <3>3, <3>5, SegmenterAssumption, PartGrows
    <3> QED
      BY <3>5, <3>6
  <2>13. \A q \in FullParts : Settled(known', frozen', q.lengths) /\ Similar(q)'
    <3>1. \A q \in FullParts : Settled(known, frozen, q.lengths) /\ Similar(q)
      BY <1>6, <2>7 DEF SimilarInv
    <3>2. frozen => frozen'
      BY <2>9
    <3> QED
      BY <2>4, <2>12, <3>1, <3>2, StaysSimilar
  <2> DEFINE new == [duration |-> stop - p.start, lengths |-> fullPart.lengths, allowed |-> adjusted']
             parts == Published(fullSeg.parts, fullPart, stop)
  <2>14. new \in PartType /\ parts = Append(seg.parts, new)
    BY <1>6, <2>1, <2>2, <2>4, <2>11 DEF Published, PartType
  <2>15. Front(parts) = seg.parts /\ ToSet(parts) = ToSet(seg.parts) \union {new}
    <3> HIDE DEF new, parts
    <3> QED
      BY <2>11, <2>14, FrontOfAppended, Elements
  <2>16. ASSUME NEW q, q = new, new.duration >= adjusted'
         PROVE  Settled(known', frozen', q.lengths) /\ Similar(q)'
    <3>1. q.duration = longer /\ q.lengths = fullPart.lengths /\ q.allowed = adjusted' /\ longer >= adjusted'
      BY <2>16
    <3>2. Settled(known', frozen', fullPart.lengths)
      BY <2>9, <2>12 DEF Settled
    <3> HIDE DEF new, longer
    <3>3. ASSUME NEW d \in known', q.lengths = {d}, q.allowed < Ceiling
          PROVE  q.allowed <= q.duration /\ 85 * (q.duration - Rounding(q.duration, d)) < 100 * q.allowed
      BY <2>12, <3>1, <3>3
    <3> QED
      BY <3>1, <3>2, <3>3 DEF Similar, Even
  <2>17. CASE part' = NewPart(stop) /\ \A q \in FullParts' : Settled(known', frozen', q.lengths) /\ Similar(q)'
    <3>1. part'.lengths = {} /\ part'.start = stop
      BY <2>17 DEF NewPart
    <3> QED
      BY <2>1, <2>17, <3>1 DEF Settled
  <2>18. CASE SwitchSegment(random, stop, seg) /\ rotateSegments(fullSeg, fullPart, stop, "nothing")
    <3> DEFINE done == [duration |-> stop - fullSeg.start, parts |-> parts, opening |-> fullSeg.opening]
               opened == [NewSegment(stop) EXCEPT !.opening = "nothing"]
    <3>1. segments' = Kept(WindowWith(done)) /\ segment' = {opened} /\ part' = NewPart(stop)
      BY <1>6, <2>18 DEF rotateSegments, Kept, WindowWith, GapsBefore
    <3>2. done \in ListedSegment /\ done.parts = parts
      <4>1. stop - fullSeg.start \in Nat \ {0}
        <5> DEFINE from == fullSeg.start
        <5>1. SegmentMin \in Nat \ {0} /\ from \in Int /\ stop - from >= SegmentMin
          BY <2>2, <2>11, <2>18, SegmenterAssumption DEF SegmenterAssumption, SwitchSegment, OpenSegment
        <5> HIDE DEF from
        <5>2. stop - from \in Nat \ {0}
          BY ONLY <2>1, <5>1
        <5> QED
          BY <5>2 DEF from
      <4>2. fullSeg.opening \in Openings /\ parts \in Seq(PartType)
        <5> HIDE DEF new, parts
        <5> QED
          BY <2>11, <2>14 DEF OpenSegment
      <4> HIDE DEF parts, new
      <4> QED
        BY <4>1, <4>2 DEF ListedSegment
    <3>3. segments \in Seq(ListedSegment)
      BY <2>2 DEF StreamInv, StreamTyped
    <3>4. opened.parts = << >> /\ ToSet(<< >>) = {}
      BY DEF NewSegment, ToSet
    <3> HIDE DEF done, opened, parts, new
    <3>5. \A s \in ToSet(segments') : s \in ToSet(segments) \/ s = done \/ s = Gap(done.duration)
      BY <3>1, <3>2, <3>3, WindowElements
    <3>6. Gap(done.duration).parts = << >>
      BY DEF Gap
    <3>7. FullParts' \subseteq FullParts
      <4> SUFFICES ASSUME NEW s \in ToSet(segments'), s.parts # << >>, NEW q \in ToSet(Front(s.parts))
                   PROVE  q \in FullParts
        BY <3>1, <3>4 DEF FullParts
      <4>1. CASE s \in ToSet(segments)
        BY <4>1 DEF FullParts
      <4>2. CASE s = done
        BY <2>10, <2>15, <3>2, <4>2
      <4> QED
        BY <3>5, <3>6, <4>1, <4>2
    <3> QED
      BY <2>13, <2>17, <3>1, <3>7
  <2>19. CASE stop - p.start >= adjusted' /\ rotateParts(fullSeg, fullPart, stop)
    <3> DEFINE more == [fullSeg EXCEPT !.parts = parts]
    <3>1. segment' = {more} /\ part' = NewPart(stop) /\ segments' = segments
      BY <2>19 DEF rotateParts
    <3>2. more.parts = parts
      BY <2>11 DEF OpenSegment
    <3> HIDE DEF more, parts, new
    <3>3. FullParts' \subseteq FullParts \union {new}
      BY <2>10, <2>15, <3>1, <3>2 DEF FullParts
    <3>4. new.duration >= adjusted'
      BY <2>19 DEF new
    <3> QED
      BY <2>13, <2>16, <2>17, <3>1, <3>3, <3>4
  <2>20. CASE /\ frozen' = frozen /\ ~(stop - p.start >= adjusted')
              /\ segment' = {fullSeg} /\ part' = fullPart /\ segments' = segments
    <3>1. FullParts' \subseteq FullParts
      BY <2>2, <2>10, <2>20 DEF FullParts
    <3>2. fullPart.lengths # {} /\ fullPart.start = p.start /\ longer < adjusted' /\ longer = stop - p.start
      BY <2>1, <2>2, <2>3, <2>4, <2>11, <2>20
    <3> HIDE DEF longer
    <3> QED
      BY <2>12, <2>13, <2>20, <3>1, <3>2
  <2> QED
    BY <2>9, <2>18, <2>19, <2>20, Zenon
<1> QED
  BY <1>5, <1>6

LEMMA NextSimilarInv ==
    ASSUME DurationsFit, SegmenterInv, ContinuousInv, SimilarInv, [Next]_vars
    PROVE  SimilarInv'
<1>1. ASSUME UNCHANGED << variant, adjust, stream >>, failed => failed', next'[1] = next[1]
      PROVE  SimilarInv'
  <2>1. FullParts' = FullParts /\ UNCHANGED << variant, known, adjusted, frozen, segment, part >>
    BY <1>1 DEF FullParts, adjust, stream
  <2>2. \A q : Similar(q)' <=> Similar(q)
    BY <2>1 DEF Similar, Even
  <2>3. /\ known' # {} => variant' = "LL" /\ adjusted' = findCompatiblePartDuration(known')
        /\ variant' = "LL" /\ segment' # {} => next'[1] # {}
    BY <1>1, <2>1 DEF SimilarInv
  <2>4. ASSUME variant' = "LL", ~failed'
        PROVE  /\ \A p \in FullParts' : Settled(known', frozen', p.lengths) /\ Similar(p)'
               /\ \A seg \in segment', n \in next'[1] :
                    EvenPart(part.lengths, timestampToDuration(n.dts) - part.start)'
    <3>1. variant = "LL" /\ ~failed
      BY <1>1, <2>1, <2>4
    <3>2. \A p \in FullParts : Settled(known, frozen, p.lengths) /\ Similar(p)
      BY <3>1 DEF SimilarInv
    <3>3. \A seg \in segment, n \in next[1] :
            EvenPart(part.lengths, timestampToDuration(n.dts) - part.start)
      BY <3>1 DEF SimilarInv
    <3>4. \A p \in FullParts' : Settled(known', frozen', p.lengths) /\ Similar(p)'
      BY <2>1, <2>2, <3>2
    <3>5. \A seg \in segment', n \in next'[1] :
            EvenPart(part.lengths, timestampToDuration(n.dts) - part.start)'
      BY <1>1, <2>1, <3>3 DEF EvenPart
    <3> QED
      BY <3>4, <3>5
  <2> QED
    BY <2>3, <2>4 DEF SimilarInv
<1>2. CASE UNCHANGED vars
  BY <1>1, <1>2 DEF vars, input
<1>3. CASE Next
  <2>1. PICK t \in Tracks, dts \in Int, random \in BOOLEAN :
            /\ dts - given[t] \in Deltas[t]
            /\ \/ WriteNegative(t, dts, random)
               \/ WriteFirst(t, dts, random)
               \/ t = 1 /\ WriteLeading(dts, random)
               \/ t = 2 /\ WriteOther(dts)
               \/ t = 1 /\ WriteMPEGTS(dts, random)
    BY <1>3, StepCases DEF SegmenterInv
  <2>2. CASE WriteNegative(t, dts, random)
    BY <1>1, <2>2 DEF WriteNegative, Give
  <2>3. CASE WriteFirst(t, dts, random)
    <3>1. next[t] = {} /\ UNCHANGED << variant, adjust, stream, failed >>
      BY <2>3 DEF WriteFirst, Give
    <3>2. CASE t = 1
      <4>1. next'[1] # {}
        <5>1. WaitingTyped /\ next \in [Tracks -> SUBSET Sample]
          BY DEF SegmenterInv, WaitingTyped
        <5>2. PICK n \in Sample : next' = [next EXCEPT ![t] = {n}]
          BY <2>3, <5>1, WriteFirstWaits
        <5> QED
          BY <3>2, <5>1, <5>2
      <4>2. variant = "LL" => segment = {}
        BY <3>1, <3>2 DEF SimilarInv
      <4>3. FullParts' = FullParts /\ UNCHANGED << variant, known, adjusted, frozen, segment, failed >>
        BY <3>1 DEF FullParts, adjust, stream
      <4>4. \A q : Similar(q)' <=> Similar(q)
        BY <4>3 DEF Similar, Even
      <4>5. variant = "LL" /\ ~failed =>
                \A p \in FullParts' : Settled(known', frozen', p.lengths) /\ Similar(p)'
        BY <4>3, <4>4 DEF SimilarInv
      <4> QED
        BY <4>1, <4>2, <4>3, <4>5 DEF SimilarInv
    <3>3. CASE t # 1
      <4>1. next'[1] = next[1]
        BY <2>3, <3>3, 1 \in Tracks DEF WriteFirst, SegmenterInv, WaitingTyped, Tracks
      <4> QED
        BY <1>1, <3>1, <4>1
    <3> QED
      BY <3>2, <3>3
  <2>4. CASE t = 2 /\ WriteOther(dts)
    <3>1. next'[1] = next[1]
      BY <2>4, 1 \in Tracks DEF WriteOther, Take, SegmenterInv, WaitingTyped, Tracks
    <3>2. UNCHANGED << variant, adjust, stream >> /\ (failed => failed')
      BY <2>4 DEF WriteOther, WriteSample, Give
    <3> QED
      BY <1>1, <3>1, <3>2
  <2>5. CASE t = 1 /\ WriteMPEGTS(dts, random)
    <3>1. variant' = variant /\ variant = "MPEGTS" /\ known' = known
      BY <2>5 DEF WriteMPEGTS, Give, adjust
    <3> QED
      BY <3>1 DEF SimilarInv
  <2> QED
    BY <2>1, <2>2, <2>3, <2>4, <2>5, LeadingSimilar
<1> QED
  BY <1>2, <1>3

\* What suits more samples is not shorter: the search starts from the same place.
LEMMA MoreTakesLonger ==
    ASSUME NEW few, NEW many, few \subseteq many
    PROVE  findCompatiblePartDuration(few) <= findCompatiblePartDuration(many)
<1> DEFINE tried == {PartMin + k * Step : k \in 0..((Ceiling - PartMin) \div Step)}
           fit(lengths) == {u \in tried : u < Ceiling /\ partDurationIsCompatibleWithAll(u, lengths)}
           room == Ceiling - PartMin
           up == RoundUp(room, Step)
           last == PartMin + Max({0, up})
<1>1. PartMin \in Nat /\ Step \in Nat \ {0} /\ Ceiling \in Nat
  BY SegmenterAssumption DEF SegmenterAssumption
<1>2. tried \in SUBSET Nat
  <2>1. room \in Int
    BY <1>1
  <2>2. room \div Step \in Int
    BY ONLY <1>1, <2>1, Quotients
  <2>3. \A k \in 0..(room \div Step) : k \in Nat
    BY ONLY <2>2
  <2>4. \A k \in Nat : k * Step \in Nat
    BY ONLY <1>1, Products
  <2> QED
    BY ONLY <1>1, <2>3, <2>4
<1>3. last \in Nat /\ last >= Ceiling
  <2>1. room \in Int /\ 0 \in Int
    BY <1>1
  <2>2. up \in Int /\ room <= up
    BY ONLY <1>1, <2>1, RoundUpBounds
  <2> HIDE DEF up
  <2>3. Max({0, up}) \in {0, up} /\ up <= Max({0, up}) /\ 0 <= Max({0, up})
    BY ONLY <2>1, <2>2, MaxOfTwo
  <2> QED
    BY ONLY <1>1, <2>2, <2>3
<1>4. fit(many) \subseteq fit(few)
  BY DEF partDurationIsCompatibleWithAll
<1>5. \A lengths : findCompatiblePartDuration(lengths) = IF fit(lengths) # {} THEN Min(fit(lengths)) ELSE last
  BY DEF findCompatiblePartDuration
<1>6. \A lengths : fit(lengths) \in SUBSET Nat /\ \A u \in fit(lengths) : u < Ceiling
  BY <1>2
<1> HIDE DEF fit, last
<1>7. \A lengths : fit(lengths) # {} =>
        Min(fit(lengths)) \in fit(lengths) /\ \A u \in fit(lengths) : Min(fit(lengths)) <= u
  BY ONLY <1>6, MinOfNaturals
<1>8. CASE fit(many) # {}
  BY <1>4, <1>5, <1>7, <1>8
<1>9. CASE fit(many) = {} /\ fit(few) # {}
  <2>1. Min(fit(few)) \in Nat /\ Min(fit(few)) < Ceiling
    BY <1>6, <1>7, <1>9
  <2> QED
    BY <1>1, <1>3, <1>5, <1>9, <2>1
<1>10. CASE fit(many) = {} /\ fit(few) = {}
  BY <1>3, <1>5, <1>10
<1> QED
  BY <1>8, <1>9, <1>10

\* The part duration is zero as long as nothing is known, and never falls.
Unset == known = {} => adjusted = 0

LEMMA PartDurationGrows ==
    ASSUME SegmenterInv, SimilarInv, Unset, [Next]_vars
    PROVE  Unset' /\ [adjusted' >= adjusted]_vars
<1>1. adjusted \in Nat
  BY DEF SegmenterInv, AdjustTyped
<1>2. CASE UNCHANGED << known, adjusted >>
  BY <1>1, <1>2 DEF Unset
<1>3. CASE UNCHANGED vars
  BY <1>3 DEF Unset, vars, adjust
<1>4. ASSUME NEW t \in Tracks, NEW dts \in Int, NEW random \in BOOLEAN, WriteLeading(dts, random)
      PROVE  Unset' /\ adjusted' >= adjusted
  <2>1. PICK sample \in next[1] : fmp4AdjustPartDuration(LeadingLength(sample))
    BY <1>4, LeadingCases
  <2> DEFINE length == LeadingLength(sample)
  <2>2. CASE variant # "LL" \/ frozen \/ length \in known \union {0}
    BY <1>1, <2>1, <2>2 DEF fmp4AdjustPartDuration, Unset
  <2>3. CASE ~(variant # "LL" \/ frozen \/ length \in known \union {0})
    <3>1. known' = known \union {length} /\ adjusted' = findCompatiblePartDuration(known')
      BY <2>1, <2>3 DEF fmp4AdjustPartDuration
    <3>2. known' # {} /\ known \subseteq known' /\ adjusted' \in Nat
      BY <3>1, PartDurationFound
    <3>3. CASE known = {}
      BY <3>2, <3>3 DEF Unset
    <3>4. CASE known # {}
      BY <3>1, <3>2, <3>4, MoreTakesLonger DEF Unset, SimilarInv
    <3> QED
      BY <3>3, <3>4
  <2> QED
    BY <2>2, <2>3
<1>5. CASE Next
  <2>1. PICK t \in Tracks, dts \in Int, random \in BOOLEAN :
            \/ WriteNegative(t, dts, random)
            \/ WriteFirst(t, dts, random)
            \/ WriteLeading(dts, random)
            \/ WriteOther(dts)
            \/ WriteMPEGTS(dts, random)
    BY <1>5, StepCases DEF SegmenterInv
  <2>2. WriteLeading(dts, random) \/ UNCHANGED << known, adjusted >>
    BY <2>1 DEF WriteNegative, WriteFirst, WriteOther, WriteMPEGTS, adjust
  <2> QED
    BY <1>2, <1>4, <2>2
<1> QED
  BY <1>3, <1>5

\* The parts that are full are parts.
LEMMA FullPartsTyped ==
    ASSUME SegmenterInv
    PROVE  FullParts \subseteq PartType
<1>1. \A seg \in segment : seg.parts \in Seq(PartType)
  BY DEF SegmenterInv, StreamInv, StreamTyped, OpenSegment
<1>2. \A seg \in ToSet(segments) : seg.parts \in Seq(PartType)
  <2>1. ToSet(segments) \subseteq ListedSegment
    BY Elements DEF SegmenterInv, StreamInv, StreamTyped
  <2> QED
    BY <2>1 DEF ListedSegment
<1>3. \A s \in Seq(PartType) : s # << >> => Front(s) \in Seq(PartType)
  BY DEF Front
<1>4. \A s \in Seq(PartType) : ToSet(s) \subseteq PartType
  BY Elements
<1> QED
  BY ONLY <1>1, <1>2, <1>3, <1>4 DEF FullParts

\* Until a write fails, a part whose samples all last the same, a duration that was
\* known before the part duration was frozen, reaches the part duration in force and
\* is less than 1/0.85 times as long, but for the rounding of its timestamps, if a part
\* duration below the ceiling suits what was known; and lasts more than 85% of every such
\* part that ended under no longer part duration, whatever the frame rate of each.  The part
\* duration never falls, so that these are all of the earlier ones.
THEOREM PartsAlwaysSimilar ==
    ASSUME DurationsFit
    PROVE  Spec => PartsSimilar
<1>1. ContinuousInv /\ SimilarInv /\ SegmenterInv => PartsAlike
  <2> SUFFICES ASSUME ContinuousInv, SimilarInv, SegmenterInv, ~failed PROVE PartsAlike
    BY DEF PartsAlike
  <2>1. \A p \in FullParts : Similar(p)
    <3>1. CASE variant = "LL"
      BY <3>1 DEF SimilarInv
    <3>2. CASE variant # "LL"
      <4>1. known = {}
        BY <3>2 DEF SimilarInv
      <4> QED
        BY <4>1 DEF Similar
    <3> QED
      BY <3>1, <3>2
  <2>2. ASSUME NEW p \in FullParts, NEW q \in FullParts, NEW d \in known, NEW e \in known,
               Even(p, d), Even(q, e), p.allowed <= q.allowed
        PROVE  85 * (p.duration - Rounding(p.duration, d)) < 100 * q.duration
    <3>1. 85 * (p.duration - Rounding(p.duration, d)) < 100 * p.allowed
      BY <2>1, <2>2 DEF Similar
    <3>2. q.allowed <= q.duration
      BY <2>1, <2>2 DEF Similar
    <3>3. /\ p.allowed \in Int /\ p.duration \in Int /\ q.allowed \in Int /\ q.duration \in Int
          /\ d \in Nat \ {0}
      BY FullPartsTyped DEF SegmenterInv, AdjustTyped, PartType
    <3>4. Rounding(p.duration, d) \in Int
      BY <3>3 DEF Rounding
    <3> QED
      BY <2>2, <3>1, <3>2, <3>3, <3>4
  <2> QED
    BY <2>1, <2>2 DEF PartsAlike
<1>2. Init => ContinuousInv /\ SimilarInv /\ Unset
  BY InitContinuousInv, InitSimilarInv DEF Init, Unset
<1>3. SegmenterInv /\ ContinuousInv /\ SimilarInv /\ Unset /\ [Next]_vars =>
        ContinuousInv' /\ SimilarInv' /\ Unset' /\ [adjusted' >= adjusted]_vars
  BY NextContinuousInv, NextSimilarInv, PartDurationGrows
<1>4. (ContinuousInv /\ SimilarInv /\ SegmenterInv)' => PartsAlike'
  BY <1>1, PTL
<1>5. SegmenterInv' /\ (SegmenterInv /\ ContinuousInv /\ SimilarInv /\ Unset) /\ [Next]_vars =>
        [PartsAlike' /\ adjusted' >= adjusted]_vars
  BY <1>3, <1>4
<1> QED
  BY <1>2, <1>3, <1>5, SegmenterInvHolds, PTL DEF Spec, PartsSimilar
================================================================================
