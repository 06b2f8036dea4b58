------------------------------- MODULE FoldProofs ------------------------------
(***************************************************************************)
(* What the folds of the community modules compute: sums over a sequence   *)
(* and concatenations of sequences.  They are recursive functions, chosen  *)
(* among the functions that satisfy an equation; induction over the places *)
(* of the sequence shows that there is one.                                *)
(***************************************************************************)
EXTENDS Integers, Sequences, FiniteSetsExt, SequencesExt,
    FiniteSetTheorems, WellFoundedInduction, SequenceTheorems, TLAPS

--------------------------------------------------------------------------------
(***************************************************************************)
(* The smallest and the largest element of a set.                          *)
(***************************************************************************)

\* The smallest element of a set of naturals.
LEMMA MinOfNaturals ==
    ASSUME NEW S \in SUBSET Nat, S # {}
    PROVE  Min(S) \in S /\ \A x \in S : Min(S) <= x
<1> DEFINE Below == {pair \in Nat \X Nat : pair[1] < pair[2]}
<1>1. IsWellFoundedOn(Below, Nat)
  BY NatLessThanWellFounded DEF OpToRel
<1> HIDE DEF Below
<1>2. PICK m \in S : \A y \in S : ~(<< y, m >> \in Below)
  BY <1>1, WFMin, Zenon
<1>3. \A y \in S : m <= y
  <2> TAKE y \in S
  <2>1. m \in Nat /\ y \in Nat
    OBVIOUS
  <2>2. ASSUME y < m PROVE << y, m >> \in Below
    BY <2>1, <2>2 DEF Below
  <2> QED
    BY <1>2, <2>1, <2>2
<1>4. Min(S) \in S /\ \A y \in S : Min(S) <= y
  BY <1>3, Zenon DEF Min
<1> QED
  BY <1>4

\* The largest element of a set of numbers that has a bound.
LEMMA MaxOfBounded ==
    ASSUME NEW S \in SUBSET Int, S # {}, NEW b \in Int, \A x \in S : x <= b
    PROVE  Max(S) \in S /\ \A x \in S : x <= Max(S)
<1> DEFINE T == {b - x : x \in S}
<1>1. T \in SUBSET Nat /\ T # {}
  <2>1. \A x \in S : b - x \in Nat
    OBVIOUS
  <2> QED
    BY <2>1
<1>2. PICK m \in T : \A k \in T : m <= k
  BY <1>1, MinOfNaturals
<1>3. PICK x \in S : m = b - x
  BY <1>2
<1>4. \A y \in S : x >= y
  <2> TAKE y \in S
  <2>1. b - y \in T
    OBVIOUS
  <2>2. b - x <= b - y
    BY <1>2, <1>3, <2>1
  <2>3. x \in Int /\ y \in Int
    OBVIOUS
  <2> QED
    BY <2>2, <2>3
<1>5. Max(S) \in S /\ \A y \in S : Max(S) >= y
  BY <1>4, Zenon DEF Max
<1> QED
  BY <1>5

\* Induction, with a set in the place of a predicate.
LEMMA Induction ==
    ASSUME NEW T, 0 \in T, \A n \in Nat : n \in T => n + 1 \in T
    PROVE  \A n \in Nat : n \in T
<1> SUFFICES ASSUME NEW S, S = {n \in Nat : n \notin T}, S # {} PROVE FALSE
  OBVIOUS
<1>1. Min(S) \in S /\ \A x \in S : Min(S) <= x
  BY MinOfNaturals
<1>2. Min(S) \in Nat /\ Min(S) \notin T /\ Min(S) # 0
  BY <1>1
<1>3. Min(S) - 1 \in Nat /\ Min(S) - 1 \notin S
  BY <1>1, <1>2
<1> QED
  BY <1>2, <1>3

--------------------------------------------------------------------------------
(***************************************************************************)
(* Sums.                                                                   *)
(***************************************************************************)

\* p holds the sums of the first numbers of d, n of them.
Adds(p, d, n) == p[0] = 0 /\ \A k \in 1..n : p[k] = p[k - 1] + d[k]

IsSum(v, d, n) == \E p \in [0..n -> Int] : Adds(p, d, n) /\ v = p[n]

\* Sums of the same numbers are the same.
LEMMA SameSum ==
    ASSUME NEW n \in Nat, NEW d, NEW e, \A k \in 1..n : d[k] = e[k],
           NEW v, IsSum(v, d, n), NEW w, IsSum(w, e, n)
    PROVE  v = w
<1>1. PICK p \in [0..n -> Int] : Adds(p, d, n) /\ v = p[n]
  BY DEF IsSum
<1>2. PICK q \in [0..n -> Int] : Adds(q, e, n) /\ w = q[n]
  BY DEF IsSum
<1> DEFINE T == {k \in Nat : k <= n => p[k] = q[k]}
<1>3. 0 \in T
  BY <1>1, <1>2 DEF Adds
<1>4. ASSUME NEW k \in Nat, k \in T PROVE k + 1 \in T
  <2> SUFFICES ASSUME k + 1 <= n PROVE p[k + 1] = q[k + 1]
    OBVIOUS
  <2>1. k + 1 \in 1..n /\ (k + 1) - 1 = k /\ p[k] = q[k]
    BY <1>4
  <2> QED
    BY <1>1, <1>2, <2>1 DEF Adds
<1> HIDE DEF T
<1>5. n \in T
  BY <1>3, <1>4, Induction
<1> QED
  BY <1>1, <1>2, <1>5 DEF T

\* Nothing adds up to 0, ...
LEMMA SumOfNothing ==
    ASSUME NEW d
    PROVE  IsSum(0, d, 0)
<1> DEFINE p == [k \in 0..0 |-> 0]
<1>1. p \in [0..0 -> Int] /\ p[0] = 0 /\ Adds(p, d, 0)
  BY DEF Adds
<1> QED
  BY <1>1 DEF IsSum

\* ... and one number more is added to the sum.
LEMMA SumOfMore ==
    ASSUME NEW n \in Nat, NEW d, NEW v, IsSum(v, d, n), NEW e, \A k \in 1..n : e[k] = d[k],
           e[n + 1] \in Int
    PROVE  v \in Int /\ IsSum(v + e[n + 1], e, n + 1)
<1>1. PICK p \in [0..n -> Int] : Adds(p, d, n) /\ v = p[n]
  BY DEF IsSum
<1> DEFINE q == [k \in 0..n + 1 |-> IF k <= n THEN p[k] ELSE p[n] + e[n + 1]]
<1>2. v \in Int
  BY <1>1
<1>3. q \in [0..n + 1 -> Int]
  BY <1>1
<1>4. q[0] = 0
  BY <1>1 DEF Adds
<1>5. ASSUME NEW k \in 1..n + 1 PROVE q[k] = q[k - 1] + e[k]
  <2>1. CASE k = n + 1
    BY <2>1
  <2>2. CASE k # n + 1
    <3>1. k \in 1..n /\ k - 1 \in 0..n
      BY <2>2
    <3>2. p[k] = p[k - 1] + d[k]
      BY <1>1, <3>1 DEF Adds
    <3> QED
      BY <3>1, <3>2
  <2> QED
    BY <2>1, <2>2
<1>6. q[n + 1] = v + e[n + 1]
  BY <1>1
<1> HIDE DEF q
<1> QED
  BY <1>2, <1>3, <1>4, <1>5, <1>6 DEF IsSum, Adds

--------------------------------------------------------------------------------
(***************************************************************************)
(* FoldLeft: it goes through the sets of places, from the largest place    *)
(* down.                                                                   *)
(***************************************************************************)

IsFold(f, d, n) ==
    f = [s \in SUBSET (1..n) |-> IF s = {} THEN 0 ELSE f[s \ {Max(s)}] + d[Max(s)]]

\* The last one of some places of a sequence.
LEMMA MaxOfPlaces ==
    ASSUME NEW n \in Nat, NEW s \in SUBSET (1..n), s # {}
    PROVE  Max(s) \in s /\ \A x \in s : x <= Max(s)
<1>1. s \in SUBSET Int /\ n \in Int /\ \A x \in s : x <= n
  OBVIOUS
<1> QED
  BY <1>1, MaxOfBounded

\* There is a function that folds a sum over n places.
LEMMA FoldExists ==
    ASSUME NEW n \in Nat, NEW d, \A k \in 1..n : d[k] \in Int
    PROVE  \E f : IsFold(f, d, n)
<1> DEFINE T == {k \in Nat : k <= n => \E f : IsFold(f, d, k)}
<1>1. 0 \in T
  <2> DEFINE f == [s \in SUBSET (1..0) |-> 0]
  <2>1. \A s \in SUBSET (1..0) : s = {}
    OBVIOUS
  <2>2. f = [s \in SUBSET (1..0) |-> IF s = {} THEN 0 ELSE f[s \ {Max(s)}] + d[Max(s)]]
    BY <2>1
  <2> QED
    BY <2>2 DEF IsFold
<1>2. ASSUME NEW k \in Nat, k \in T PROVE k + 1 \in T
  <2> SUFFICES ASSUME k + 1 <= n PROVE \E g : IsFold(g, d, k + 1)
    OBVIOUS
  <2>1. PICK f : IsFold(f, d, k)
    BY <1>2
  <2> DEFINE g == [s \in SUBSET (1..k + 1) |->
                      IF k + 1 \in s THEN f[s \ {k + 1}] + d[k + 1] ELSE f[s]]
             step(s) == IF s = {} THEN 0 ELSE g[s \ {Max(s)}] + d[Max(s)]
  <2>2. ASSUME NEW s \in SUBSET (1..k) PROVE g[s] = f[s]
    BY <2>2
  <2>3. ASSUME NEW s \in SUBSET (1..k + 1) PROVE g[s] = step(s)
    <3>1. CASE k + 1 \in s
      <4>1. Max(s) = k + 1
        <5>1. Max(s) \in s /\ \A x \in s : x <= Max(s)
          BY <3>1, MaxOfPlaces
        <5>2. k + 1 <= Max(s) /\ Max(s) \in 1..k + 1
          BY <3>1, <5>1
        <5> QED
          BY <5>2
      <4>2. s \ {k + 1} \in SUBSET (1..k)
        OBVIOUS
      <4>3. g[s \ {k + 1}] = f[s \ {k + 1}]
        BY <2>2, <4>2
      <4> QED
        BY <3>1, <4>1, <4>3
    <3>2. CASE k + 1 \notin s
      <4>1. s \in SUBSET (1..k)
        BY <3>2
      <4>2. f[s] = IF s = {} THEN 0 ELSE f[s \ {Max(s)}] + d[Max(s)]
        BY <2>1, <4>1 DEF IsFold
      <4>3. g[s \ {Max(s)}] = f[s \ {Max(s)}]
        BY <2>2, <4>1
      <4> QED
        BY <3>2, <4>2, <4>3
    <3> QED
      BY <3>1, <3>2
  <2>4. g = [s \in SUBSET (1..k + 1) |-> step(s)]
    BY <2>3
  <2> HIDE DEF g
  <2> QED
    BY <2>4 DEF IsFold
<1> HIDE DEF T
<1>3. n \in T
  BY <1>1, <1>2, Induction
<1> QED
  BY <1>3 DEF T

\* It computes the sum.
LEMMA FoldIsSum ==
    ASSUME NEW n \in Nat, NEW d, \A k \in 1..n : d[k] \in Int, NEW f, IsFold(f, d, n)
    PROVE  IsSum(f[1..n], d, n)
<1> DEFINE p == [k \in 0..n |-> f[1..k]]
           T == {k \in Nat : k <= n => f[1..k] \in Int}
<1>1. f[1..0] = 0
  <2>1. 1..0 = {} /\ {} \in SUBSET (1..n)
    OBVIOUS
  <2> QED
    BY <2>1 DEF IsFold
<1>2. ASSUME NEW k \in Nat, k + 1 <= n PROVE f[1..k + 1] = f[1..k] + d[k + 1]
  <2> DEFINE s == 1..k + 1
  <2>1. s \in SUBSET (1..n) /\ s # {} /\ k + 1 \in s
    BY <1>2
  <2>2. Max(s) = k + 1
    <3>1. Max(s) \in s /\ \A x \in s : x <= Max(s)
      BY <2>1, MaxOfPlaces
    <3> QED
      BY <2>1, <3>1
  <2>3. s \ {k + 1} = 1..k
    OBVIOUS
  <2> HIDE DEF s
  <2>4. f[s] = f[s \ {Max(s)}] + d[Max(s)]
    BY <2>1 DEF IsFold
  <2> QED
    BY <2>2, <2>3, <2>4 DEF s
<1>3. 0 \in T
  BY <1>1
<1>4. ASSUME NEW k \in Nat, k \in T PROVE k + 1 \in T
  <2> SUFFICES ASSUME k + 1 <= n PROVE f[1..k + 1] \in Int
    OBVIOUS
  <2> QED
    BY <1>2, <1>4, k + 1 \in 1..n
<1> HIDE DEF T
<1>5. \A k \in Nat : k \in T
  BY <1>3, <1>4, Induction
<1>6. p \in [0..n -> Int]
  BY <1>5 DEF T
<1>7. Adds(p, d, n)
  <2>1. p[0] = 0
    BY <1>1
  <2>2. ASSUME NEW k \in 1..n PROVE p[k] = p[k - 1] + d[k]
    <3>1. k - 1 \in Nat /\ (k - 1) + 1 = k /\ k - 1 \in 0..n /\ k \in 0..n
      OBVIOUS
    <3> QED
      BY <1>2, <3>1
  <2> QED
    BY <2>1, <2>2 DEF Adds
<1> HIDE DEF p
<1>8. f[1..n] = p[n]
  BY DEF p
<1> QED
  BY <1>6, <1>7, <1>8 DEF IsSum

--------------------------------------------------------------------------------
(***************************************************************************)
(* FlattenSeq: it joins the sequences one after the other.                 *)
(***************************************************************************)

IsJoin(f, s, n) == f = [i \in 1..n |-> IF i = 1 THEN s[i] ELSE f[i - 1] \o s[i]]

\* There is a function that joins n sequences.
LEMMA JoinExists ==
    ASSUME NEW n \in Nat, NEW s
    PROVE  \E f : IsJoin(f, s, n)
<1> DEFINE T == {k \in Nat : \E f : IsJoin(f, s, k)}
<1>1. 0 \in T
  <2> DEFINE f == [i \in 1..0 |-> << >>]
  <2>1. f = [i \in 1..0 |-> IF i = 1 THEN s[i] ELSE f[i - 1] \o s[i]]
    OBVIOUS
  <2> QED
    BY <2>1 DEF IsJoin
<1>2. ASSUME NEW k \in Nat, k \in T PROVE k + 1 \in T
  <2>1. PICK f : IsJoin(f, s, k)
    BY <1>2
  <2> DEFINE g == [i \in 1..k + 1 |-> IF i # k + 1 THEN f[i] ELSE IF i = 1 THEN s[i] ELSE f[i - 1] \o s[i]]
             step(i) == IF i = 1 THEN s[i] ELSE g[i - 1] \o s[i]
  <2>2. ASSUME NEW i \in 1..k + 1 PROVE g[i] = step(i)
    <3>1. i # 1 => i - 1 \in 1..k /\ g[i - 1] = f[i - 1]
      OBVIOUS
    <3>2. ASSUME i # k + 1 PROVE f[i] = IF i = 1 THEN s[i] ELSE f[i - 1] \o s[i]
      <4>1. i \in 1..k
        BY <3>2
      <4> QED
        BY <2>1, <4>1, Zenon DEF IsJoin
    <3> QED
      BY <3>1, <3>2
  <2>3. g = [i \in 1..k + 1 |-> step(i)]
    BY <2>2
  <2> HIDE DEF g
  <2>4. IsJoin(g, s, k + 1)
    BY <2>3 DEF IsJoin
  <2> QED
    BY <2>4
<1> HIDE DEF T
<1>3. n \in T
  BY <1>1, <1>2, Induction
<1> QED
  BY <1>3 DEF T

\* Joins of sequences that begin in the same way begin in the same way.
LEMMA SameJoin ==
    ASSUME NEW S, NEW n \in Nat, NEW s, \A i \in 1..n : s[i] \in Seq(S),
           NEW f, IsJoin(f, s, n),
           NEW m \in Nat, n <= m, NEW t, \A i \in 1..n : s[i] = t[i], NEW g, IsJoin(g, t, m)
    PROVE  \A i \in 1..n : f[i] = g[i] /\ f[i] \in Seq(S)
<1> DEFINE T == {k \in Nat : k \in 1..n => f[k] = g[k] /\ f[k] \in Seq(S)}
<1>1. 0 \in T
  OBVIOUS
<1>2. ASSUME NEW k \in Nat, k \in T PROVE k + 1 \in T
  <2> SUFFICES ASSUME k + 1 \in 1..n PROVE f[k + 1] = g[k + 1] /\ f[k + 1] \in Seq(S)
    OBVIOUS
  <2>1. k + 1 \in 1..m /\ s[k + 1] = t[k + 1] /\ s[k + 1] \in Seq(S)
    OBVIOUS
  <2>2. f[k + 1] = IF k + 1 = 1 THEN s[k + 1] ELSE f[(k + 1) - 1] \o s[k + 1]
    BY DEF IsJoin
  <2>3. g[k + 1] = IF k + 1 = 1 THEN t[k + 1] ELSE g[(k + 1) - 1] \o t[k + 1]
    BY <2>1 DEF IsJoin
  <2>4. k # 0 => f[k] = g[k] /\ f[k] \in Seq(S)
    BY <1>2
  <2>5. k # 0 => f[k] \o s[k + 1] \in Seq(S)
    BY <2>1, <2>4
  <2> QED
    BY <2>1, <2>2, <2>3, <2>4, <2>5, (k + 1) - 1 = k
<1> HIDE DEF T
<1>3. \A k \in Nat : k \in T
  BY <1>1, <1>2, Induction
<1> QED
  BY <1>3, \A i \in 1..n : i \in Nat DEF T

\* What FlattenSeq is.
LEMMA FlattenIsJoin ==
    ASSUME NEW s, Len(s) \in Nat \ {0}
    PROVE  \E f : IsJoin(f, s, Len(s)) /\ FlattenSeq(s) = f[Len(s)]
<1> DEFINE n == Len(s)
           step(g) == [i \in 1..n |-> IF i = 1 THEN s[i] ELSE g[i - 1] \o s[i]]
           join == CHOOSE g : g = step(g)
<1>1. PICK f : f = step(f)
  BY JoinExists DEF IsJoin
<1>2. join = step(join)
  <2> HIDE DEF step
  <2> QED
    BY <1>1
<1>3. FlattenSeq(s) = join[n]
  BY DEF FlattenSeq
<1> HIDE DEF join
<1> QED
  BY <1>2, <1>3 DEF IsJoin

\* Nothing is joined to nothing, and one more sequence follows the others.
LEMMA Flattened ==
    ASSUME NEW S
    PROVE  /\ FlattenSeq(<< >>) = << >>
           /\ \A s \in Seq(Seq(S)) : FlattenSeq(s) \in Seq(S)
           /\ \A s \in Seq(Seq(S)), x \in Seq(S) :
                FlattenSeq(Append(s, x)) = FlattenSeq(s) \o x
<1>1. FlattenSeq(<< >>) = << >>
  BY DEF FlattenSeq
<1>2. ASSUME NEW s \in Seq(Seq(S)), NEW x \in Seq(S)
      PROVE  FlattenSeq(s) \in Seq(S) /\ FlattenSeq(Append(s, x)) = FlattenSeq(s) \o x
  <2> DEFINE n == Len(s)
             longer == Append(s, x)
  <2>1. /\ n \in Nat /\ Len(longer) = n + 1 /\ longer[n + 1] = x
        /\ \A i \in 1..n : s[i] \in Seq(S) /\ s[i] = longer[i]
    OBVIOUS
  <2> HIDE DEF longer
  <2>2. PICK g : IsJoin(g, longer, n + 1) /\ FlattenSeq(longer) = g[n + 1]
    BY <2>1, FlattenIsJoin, n + 1 \in Nat \ {0}
  <2>3. g[n + 1] = IF n + 1 = 1 THEN x ELSE g[(n + 1) - 1] \o x
    BY <2>1, <2>2, n + 1 \in 1..n + 1 DEF IsJoin
  <2>4. CASE n = 0
    <3>1. s = << >>
      BY <2>4
    <3>2. << >> \o x = x /\ << >> \in Seq(S)
      OBVIOUS
    <3>3. FlattenSeq(s) = << >>
      BY <1>1, <3>1, Zenon
    <3>4. FlattenSeq(longer) = x
      BY <2>2, <2>3, <2>4
    <3> QED
      BY <3>2, <3>3, <3>4, Zenon DEF longer
  <2>5. CASE n # 0
    <3>1. PICK f : IsJoin(f, s, n) /\ FlattenSeq(s) = f[n]
      BY <2>1, <2>5, FlattenIsJoin
    <3>2. n \in 1..n /\ n + 1 \in Nat /\ n <= n + 1
      BY <2>1, <2>5
    <3>3. f[n] = g[n] /\ f[n] \in Seq(S)
      BY <2>1, <2>2, <3>1, <3>2, SameJoin
    <3> QED
      BY <2>1, <2>2, <2>3, <2>5, <3>1, <3>3, (n + 1) - 1 = n DEF longer
  <2> QED
    BY <2>4, <2>5
<1>3. \A s \in Seq(Seq(S)) : FlattenSeq(s) \in Seq(S)
  BY <1>2, << >> \in Seq(S)
<1> QED
  BY <1>1, <1>2, <1>3

\* The first of some sequences, joined.
Joined(s, k) == FlattenSeq(SubSeq(s, 1, k))

\* Sequences are joined one after the other.
LEMMA JoinedOneByOne ==
    ASSUME NEW S, NEW s \in Seq(Seq(S))
    PROVE  /\ Joined(s, 0) = << >>
           /\ Joined(s, Len(s)) = FlattenSeq(s)
           /\ \A k \in 0..Len(s) : Joined(s, k) \in Seq(S)
           /\ \A k \in 0..Len(s) - 1 : Joined(s, k + 1) = Joined(s, k) \o s[k + 1]
<1>1. Joined(s, 0) = << >>
  <2>1. SubSeq(s, 1, 0) = << >>
    BY SubSeqEmpty, 0 < 1, 0 \in Int, 1 \in Int
  <2> QED
    BY <2>1, Flattened DEF Joined
<1>2. Joined(s, Len(s)) = FlattenSeq(s)
  BY SubSeqFull DEF Joined
<1>3. ASSUME NEW k \in 0..Len(s) PROVE Joined(s, k) \in Seq(S)
  <2>1. SubSeq(s, 1, k) \in Seq(Seq(S))
    BY SubSeqProperties, \A i \in 1..k : s[i] \in Seq(S), 1 \in Int, k \in Int
  <2> QED
    BY <2>1, Flattened DEF Joined
<1>4. ASSUME NEW k \in 0..Len(s) - 1 PROVE Joined(s, k + 1) = Joined(s, k) \o s[k + 1]
  <2> DEFINE before == SubSeq(s, 1, k)
  <2>1. before \in Seq(Seq(S)) /\ s[k + 1] \in Seq(S)
    BY SubSeqProperties, \A i \in 1..k + 1 : s[i] \in Seq(S), 1 \in Int, k \in Int
  <2>2. SubSeq(s, 1, k + 1) = before \o << s[k + 1] >>
    <3>1. 1 \in 1..Len(s) /\ k + 1 \in 1..Len(s) /\ (k + 1) - 1 = k
      OBVIOUS
    <3> QED
      BY <3>1, SubSeqRecursiveSecond
  <2> HIDE DEF before
  <2>3. SubSeq(s, 1, k + 1) = Append(before, s[k + 1])
    BY <2>1, <2>2, AppendIsConcat
  <2> QED
    BY <2>1, <2>3, Flattened DEF Joined, before
<1> QED
  BY <1>1, <1>2, <1>3, <1>4

\* Joined sequences are as long as all of them.
LEMMA JoinedLength ==
    ASSUME NEW S, NEW s \in Seq(Seq(S)), NEW d, \A i \in 1..Len(s) : d[i] = Len(s[i])
    PROVE  IsSum(Len(FlattenSeq(s)), d, Len(s))
<1> DEFINE T == {k \in Nat : k <= Len(s) => IsSum(Len(Joined(s, k)), d, k)}
<1>1. 0 \in T
  <2>1. Joined(s, 0) = << >> /\ Len(<< >>) = 0
    BY JoinedOneByOne
  <2> QED
    BY <2>1, SumOfNothing
<1>2. ASSUME NEW k \in Nat, k \in T PROVE k + 1 \in T
  <2> SUFFICES ASSUME k + 1 <= Len(s) PROVE IsSum(Len(Joined(s, k + 1)), d, k + 1)
    OBVIOUS
  <2>1. k \in 0..Len(s) /\ k \in 0..Len(s) - 1 /\ k + 1 \in 1..Len(s)
    OBVIOUS
  <2>2. /\ Joined(s, k) \in Seq(S) /\ s[k + 1] \in Seq(S)
        /\ Joined(s, k + 1) = Joined(s, k) \o s[k + 1]
    BY <2>1, JoinedOneByOne
  <2>3. Len(Joined(s, k + 1)) = Len(Joined(s, k)) + d[k + 1] /\ d[k + 1] \in Int
    BY <2>1, <2>2
  <2>4. IsSum(Len(Joined(s, k)), d, k)
    BY <1>2, <2>1
  <2> QED
    BY <2>3, <2>4, SumOfMore
<1> HIDE DEF T
<1>3. Len(s) \in T
  BY <1>1, <1>2, Induction, SMTT(30)
<1>4. IsSum(Len(Joined(s, Len(s))), d, Len(s))
  BY <1>3 DEF T
<1> QED
  BY <1>4, JoinedOneByOne

\* The contents s lie in all one behind the other, at the places o.
Lies(all, o, s) ==
    /\ o[1] = 0 /\ \A i \in 1..Len(s) - 1 : o[i + 1] = o[i] + Len(s[i])
    /\ \A i \in 1..Len(s) : \A j \in 1..Len(s[i]) : all[o[i] + j] = s[i][j]
    /\ Len(all) = o[Len(s)] + Len(s[Len(s)])

\* They make it up.
LEMMA LaidOut ==
    ASSUME NEW S, NEW s \in Seq(Seq(S)), s # << >>, NEW all \in Seq(S),
           NEW o \in [1..Len(s) -> Nat], Lies(all, o, s)
    PROVE  all = FlattenSeq(s)
<1> DEFINE n == Len(s)
<1>1. n = Len(s) /\ o \in [1..n -> Nat]
  OBVIOUS
<1>2. n \in Nat \ {0}
  OBVIOUS
<1>3. \A i \in 1..n : o[i] \in Nat
  BY ONLY <1>1
<1>4. /\ o[1] = 0 /\ \A i \in 1..n - 1 : o[i + 1] = o[i] + Len(s[i])
      /\ \A i \in 1..n : \A j \in 1..Len(s[i]) : all[o[i] + j] = s[i][j]
      /\ Len(all) = o[n] + Len(s[n])
  BY DEF Lies
<1> HIDE DEF n
<1> USE <1>1, <1>2, <1>3, <1>4
<1> DEFINE end(k) == IF k = 0 THEN 0 ELSE o[k] + Len(s[k])
           T == {k \in Nat : k <= n => /\ Len(Joined(s, k)) = end(k)
                                       /\ \A j \in 1..end(k) : all[j] = Joined(s, k)[j]}
<1>5. 0 \in T
  <2>1. Joined(s, 0) = << >> /\ Len(<< >>) = 0
    BY JoinedOneByOne
  <2> QED
    BY <2>1
<1>6. ASSUME NEW k \in Nat, k \in T PROVE k + 1 \in T
  <2> SUFFICES ASSUME k + 1 <= n
               PROVE  /\ Len(Joined(s, k + 1)) = end(k + 1)
                      /\ \A j \in 1..end(k + 1) : all[j] = Joined(s, k + 1)[j]
    OBVIOUS
  <2> DEFINE was == Joined(s, k)
             next == s[k + 1]
             from == end(k)
  <2>1. k \in 0..Len(s) /\ k \in 0..Len(s) - 1 /\ k + 1 \in 1..n
    OBVIOUS
  <2>2. was \in Seq(S) /\ next \in Seq(S) /\ Joined(s, k + 1) = was \o next
    <3>1. s[k + 1] \in Seq(S)
      BY <2>1
    <3>2. Joined(s, k) \in Seq(S) /\ Joined(s, k + 1) = Joined(s, k) \o s[k + 1]
      BY ONLY <2>1, s \in Seq(Seq(S)), JoinedOneByOne
    <3> QED
      BY ONLY <3>1, <3>2
  <2>3. from \in Nat /\ Len(was) = from /\ \A j \in 1..from : all[j] = was[j]
    BY <1>6, <2>1, <2>2
  <2>4. o[k + 1] = from
    <3>1. k # 0 => k \in 1..n - 1
      BY <2>1
    <3> QED
      BY <3>1
  <2>5. end(k + 1) = o[k + 1] + Len(next) /\ \A j \in 1..Len(next) : all[o[k + 1] + j] = next[j]
    <3>1. end(k + 1) = o[k + 1] + Len(next)
      BY <2>1
    <3>2. \A j \in 1..Len(s[k + 1]) : all[o[k + 1] + j] = s[k + 1][j]
      BY <2>1, Zenon
    <3> QED
      BY ONLY <3>1, <3>2
  <2> HIDE DEF was, next, from, end
  <2>6. Len(was \o next) = from + Len(next)
    <3>1. Len(was \o next) = Len(was) + Len(next)
      BY <2>2, ConcatProperties
    <3> QED
      BY ONLY <2>3, <3>1
  <2>7. ASSUME NEW j \in 1..from + Len(next) PROVE all[j] = (was \o next)[j]
    <3>1. CASE j <= from
      BY <2>2, <2>3, <3>1
    <3>2. CASE ~(j <= from)
      <4>1. j - from \in 1..Len(next) /\ from + (j - from) = j
        BY <2>2, <2>3, <3>2
      <4>2. all[j] = next[j - from]
        BY <2>4, <2>5, <4>1
      <4>3. (was \o next)[j] = next[j - from]
        BY <2>2, <2>3, <3>2, SMTT(30)
      <4> QED
        BY <4>2, <4>3
    <3> QED
      BY <3>1, <3>2
  <2> QED
    BY <2>2, <2>4, <2>5, <2>6, <2>7
<1> HIDE DEF T
<1>7. n \in T
  BY <1>5, <1>6, Induction
<1>8. Len(Joined(s, n)) = Len(all) /\ \A j \in 1..Len(all) : all[j] = Joined(s, n)[j]
  BY <1>7 DEF T
<1>9. Joined(s, n) \in Seq(S) /\ Joined(s, n) = FlattenSeq(s)
  BY JoinedOneByOne, n \in 0..Len(s) DEF n
<1> QED
  BY <1>8, <1>9, SeqEqual

--------------------------------------------------------------------------------
(***************************************************************************)
(* Lists, whatever their elements are.                                     *)
(***************************************************************************)

IsList(lines) == Len(lines) \in Nat /\ lines = [k \in 1..Len(lines) |-> lines[k]]

\* Two lists are sequences over one set.
LEMMA ListsTogether ==
    ASSUME NEW lines, IsList(lines), NEW more, IsList(more)
    PROVE  \E S : lines \in Seq(S) /\ more \in Seq(S)
<1> DEFINE S == {lines[k] : k \in 1..Len(lines)} \union {more[k] : k \in 1..Len(more)}
<1>1. lines \in [1..Len(lines) -> S]
  <2>1. \A k \in 1..Len(lines) : lines[k] \in S
    OBVIOUS
  <2> HIDE DEF S
  <2> QED
    BY <2>1 DEF IsList
<1>2. more \in [1..Len(more) -> S]
  <2>1. \A k \in 1..Len(more) : more[k] \in S
    OBVIOUS
  <2> HIDE DEF S
  <2> QED
    BY <2>1 DEF IsList
<1> HIDE DEF S
<1>3. lines \in Seq(S) /\ more \in Seq(S)
  BY <1>1, <1>2, SeqDef DEF IsList
<1> QED
  BY <1>3

\* A sequence is a list.
LEMMA SequenceIsList ==
    ASSUME NEW S, NEW lines \in Seq(S)
    PROVE  IsList(lines)
  BY DEF IsList

\* Of a list of one list.
LEMMA FlattenOne ==
    ASSUME NEW list, IsList(list)
    PROVE  FlattenSeq(<< list >>) = list
<1>1. PICK S : list \in Seq(S)
  BY ListsTogether
<1>2. Append(<< >>, list) = << list >> /\ << >> \in Seq(Seq(S))
  OBVIOUS
<1>3. FlattenSeq(Append(<< >>, list)) = FlattenSeq(<< >>) \o list
  BY ONLY <1>1, <1>2, Flattened
<1>4. FlattenSeq(<< >>) = << >> /\ << >> \o list = list
  BY <1>1, Flattened
<1> QED
  BY <1>2, <1>3, <1>4

--------------------------------------------------------------------------------
(***************************************************************************)
(* Lists that are made by leaving elements out.                            *)
(***************************************************************************)

\* e counts the elements of D.
Enumerates(e, m, D) ==
    /\ m \in Nat /\ e \in [1..m -> D]
    /\ \A x \in D : \E j \in 1..m : e[j] = x
    /\ \A i, j \in 1..m : e[i] = e[j] => i = j

\* A set that is counted is finite, and has as many elements as have been counted.
LEMMA Counted ==
    ASSUME NEW e, NEW m, NEW D, Enumerates(e, m, D)
    PROVE  IsFiniteSet(D) /\ Cardinality(D) = m
<1>1. e \in Bijection(1..m, D)
  BY DEF Enumerates, Bijection, Injection, Surjection, IsInjective
<1>2. IsFiniteSet(1..m) /\ Cardinality(1..m) = m
  BY FS_Interval DEF Enumerates
<1> QED
  BY <1>1, <1>2, FS_Bijection DEF ExistsBijection

\* A list has f[x] for each x of D, once, in whatever order.
Lists(list, f, D) == \E m, e : Enumerates(e, m, D) /\ list = [j \in 1..m |-> f[e[j]]]

\* What is chosen by its place.
LEMMA Chosen ==
    ASSUME NEW n \in Nat, NEW D, NEW f, NEW b, b = [i \in 1..n |-> IF i \in D THEN << f[i] >> ELSE << >>]
    PROVE  Lists(FlattenSeq(b), f, D \intersect 1..n)
<1> DEFINE S == {f[i] : i \in 1..n}
           join(k) == Joined(b, k)
           Joins(k, m, e) == Enumerates(e, m, D \intersect 1..k) /\ join(k) = [j \in 1..m |-> f[e[j]]]
           Fine(k) == \E m, e : Joins(k, m, e)
           T == {k \in Nat : k <= n => Fine(k)}
<1>1. \A i \in 1..n : f[i] \in S
  OBVIOUS
<1> HIDE DEF S
<1>2. b \in Seq(Seq(S)) /\ Len(b) = n
  <2>1. \A i \in 1..n : b[i] \in Seq(S)
    BY <1>1
  <2>2. b \in [1..n -> Seq(S)]
    BY <2>1
  <2> QED
    BY <2>2, SeqDef
<1>3. /\ join(0) = << >> /\ join(n) = FlattenSeq(b)
      /\ \A k \in 0..n : join(k) \in Seq(S)
      /\ \A k \in 0..n - 1 : join(k + 1) = join(k) \o b[k + 1]
  BY <1>2, JoinedOneByOne
<1> HIDE DEF join
<1>4. Fine(0)
  <2> DEFINE e == [j \in 1..0 |-> 0]
  <2>1. Enumerates(e, 0, D \intersect 1..0)
    BY DEF Enumerates
  <2>2. join(0) = [j \in 1..0 |-> f[e[j]]]
    BY <1>3
  <2> HIDE DEF e
  <2>3. Joins(0, 0, e)
    BY <2>1, <2>2
  <2> HIDE DEF Joins
  <2> QED
    BY <2>3
<1>5. ASSUME NEW k \in Nat, k + 1 <= n, Fine(k) PROVE Fine(k + 1)
  <2>1. PICK m, e : Joins(k, m, e)
    BY <1>5
  <2>2. /\ m \in Nat /\ Enumerates(e, m, D \intersect 1..k) /\ join(k) = [j \in 1..m |-> f[e[j]]]
        /\ \A j \in 1..m : e[j] \in D /\ e[j] \in 1..k
    BY <2>1 DEF Enumerates
  <2>3. k + 1 \in 1..n /\ k \in 0..n - 1 /\ k \in 0..n
    BY <1>5
  <2>4. join(k) \in Seq(S) /\ join(k + 1) = join(k) \o b[k + 1]
    BY <1>3, <2>3
  <2>5. CASE k + 1 \notin D
    <3>1. D \intersect 1..k + 1 = D \intersect 1..k
      BY <2>5
    <3>2. b[k + 1] = << >>
      BY <2>3, <2>5
    <3>3. join(k + 1) = join(k)
      BY ONLY <2>4, <3>2
    <3>4. Joins(k + 1, m, e)
      BY <2>1, <3>1, <3>3
    <3> HIDE DEF Joins
    <3> QED
      BY <3>4
  <2>6. CASE k + 1 \in D
    <3> DEFINE E == [j \in 1..m + 1 |-> IF j <= m THEN e[j] ELSE k + 1]
    <3>1. D \intersect 1..k + 1 = (D \intersect 1..k) \union {k + 1}
      BY <2>6
    <3>2. \A j \in 1..m : E[j] = e[j]
      BY <2>2
    <3>3. E[m + 1] = k + 1 /\ E \in [1..m + 1 -> D \intersect 1..k + 1]
      BY ONLY <2>2, <2>6, <3>1, k \in Nat
    <3>4. 1..m + 1 = (1..m) \union {m + 1}
      BY <2>2
    <3> HIDE DEF E
    <3>5. \A j \in 1..m : E[j] # E[m + 1]
      <4>1. \A j \in 1..m : e[j] # k + 1
        BY <2>2
      <4> QED
        BY <3>2, <3>3, <4>1
    <3>6. Enumerates(E, m + 1, D \intersect 1..k + 1)
      <4>1. ASSUME NEW x \in D \intersect 1..k + 1 PROVE \E j \in 1..m + 1 : E[j] = x
        <5>1. CASE x = k + 1
          BY <3>3, <3>4, <5>1
        <5>2. CASE x \in D \intersect 1..k
          BY <2>2, <3>2, <3>4, <5>2 DEF Enumerates
        <5> QED
          BY <3>1, <5>1, <5>2
      <4>2. ASSUME NEW i \in 1..m + 1, NEW j \in 1..m + 1, E[i] = E[j] PROVE i = j
        <5>1. CASE i \in 1..m /\ j \in 1..m
          BY <2>2, <3>2, <4>2, <5>1 DEF Enumerates
        <5>2. CASE i = m + 1 /\ j \in 1..m
          BY <3>5, <4>2, <5>2
        <5>3. CASE i \in 1..m /\ j = m + 1
          BY <3>5, <4>2, <5>3
        <5> QED
          BY <3>4, <4>2, <5>1, <5>2, <5>3
      <4> QED
        BY <2>2, <3>3, <4>1, <4>2 DEF Enumerates
    <3>7. join(k + 1) = [j \in 1..m + 1 |-> f[E[j]]]
      <4> DEFINE one == f[k + 1]
                 joined == join(k)
      <4>1. b[k + 1] = << one >>
        BY <2>3, <2>6
      <4>2. one \in S
        BY <1>1, <2>3
      <4>3. joined \in Seq(S) /\ joined = [j \in 1..m |-> f[e[j]]]
        BY <2>2, <2>4
      <4>4. Len(joined) = m /\ \A j \in 1..m : joined[j] = f[e[j]]
        BY ONLY <2>2, <4>3
      <4> HIDE DEF one, joined
      <4>5. joined \o << one >> = [j \in 1..m + 1 |-> IF j <= m THEN joined[j] ELSE one]
        BY ONLY <2>2, <4>2, <4>3, <4>4
      <4>6. ASSUME NEW j \in 1..m + 1 PROVE (IF j <= m THEN joined[j] ELSE one) = f[E[j]]
        <5>1. CASE j \in 1..m
          <6>1. joined[j] = f[e[j]] /\ E[j] = e[j] /\ j <= m
            BY <2>2, <3>2, <4>4, <5>1
          <6> QED
            BY <6>1
        <5>2. CASE j = m + 1
          <6>1. one = f[E[j]] /\ ~(j <= m)
            BY <2>2, <3>3, <5>2 DEF one
          <6> QED
            BY <6>1
        <5> QED
          BY <3>4, <5>1, <5>2
      <4>7. joined \o << one >> = [j \in 1..m + 1 |-> f[E[j]]]
        BY ONLY <4>5, <4>6
      <4> QED
        BY <2>4, <4>1, <4>7 DEF joined
    <3>8. Joins(k + 1, m + 1, E)
      BY <3>6, <3>7
    <3> HIDE DEF Joins
    <3> QED
      BY <3>8
  <2> QED
    BY <2>5, <2>6
<1> HIDE DEF Fine
<1>6. 0 \in T /\ \A k \in Nat : k \in T => k + 1 \in T
  BY <1>4, <1>5
<1> HIDE DEF T
<1>7. n \in T
  BY <1>6, Induction
<1>8. Fine(n)
  BY <1>7 DEF T
<1> HIDE DEF Joins
<1>9. PICK m, e : Joins(n, m, e)
  BY <1>8 DEF Fine
<1>10. Enumerates(e, m, D \intersect 1..n) /\ FlattenSeq(b) = [j \in 1..m |-> f[e[j]]]
  BY <1>3, <1>9 DEF Joins
<1> DEFINE flat == FlattenSeq(b)
<1>11. Enumerates(e, m, D \intersect 1..n) /\ flat = [j \in 1..m |-> f[e[j]]]
  BY <1>10
<1> HIDE DEF flat
<1>12. Lists(flat, f, D \intersect 1..n)
  BY ONLY <1>11 DEF Lists
<1> QED
  BY <1>12 DEF flat

\* What is in such a list, and how long it is.
LEMMA WhatIsListed ==
    ASSUME NEW list, NEW f, NEW D, Lists(list, f, D)
    PROVE  /\ IsList(list) /\ IsFiniteSet(D) /\ Len(list) = Cardinality(D)
           /\ ToSet(list) = {f[x] : x \in D}
           /\ \A j \in 1..Len(list) : \E x \in D : list[j] = f[x]
           /\ D # {} => list # << >>
<1>1. PICK m, e : Enumerates(e, m, D) /\ list = [j \in 1..m |-> f[e[j]]]
  BY DEF Lists
<1>2. IsFiniteSet(D) /\ Cardinality(D) = m
  BY <1>1, Counted
<1>3. /\ m \in Nat /\ \A j \in 1..m : e[j] \in D
      /\ \A x \in D : \E j \in 1..m : e[j] = x
  BY <1>1 DEF Enumerates
<1>4. Len(list) = m /\ DOMAIN list = 1..m /\ \A j \in 1..m : list[j] = f[e[j]]
  BY <1>1, <1>3
<1>5. IsList(list)
  BY <1>1, <1>4 DEF IsList
<1>6. ToSet(list) = {f[x] : x \in D}
  BY <1>3, <1>4 DEF ToSet
<1>7. D # {} => list # << >>
  <2> SUFFICES ASSUME NEW x \in D PROVE Len(list) # 0
    OBVIOUS
  <2> QED
    BY <1>3, <1>4
<1> QED
  BY <1>2, <1>3, <1>4, <1>5, <1>6, <1>7

\* The same, of a set of places.
LEMMA ChosenListed ==
    ASSUME NEW n \in Nat, NEW D \in SUBSET (1..n), NEW f,
           NEW b, b = [i \in 1..n |-> IF i \in D THEN << f[i] >> ELSE << >>]
    PROVE  Lists(FlattenSeq(b), f, D)
<1>1. D \intersect 1..n = D
  OBVIOUS
<1>2. Lists(FlattenSeq(b), f, D \intersect 1..n)
  BY Chosen
<1> QED
  BY <1>1, <1>2

\* What is counted through places that are counted.
LEMMA Through ==
    ASSUME NEW m, NEW e, NEW D, Enumerates(e, m, D), NEW C \in SUBSET (1..m), NEW f,
           NEW g, \A j \in 1..m : g[j] = f[e[j]], NEW list, Lists(list, g, C)
    PROVE  Lists(list, f, {e[j] : j \in C})
<1>1. PICK q, h : Enumerates(h, q, C) /\ list = [j \in 1..q |-> g[h[j]]]
  BY DEF Lists
<1>2. /\ q \in Nat /\ \A j \in 1..q : h[j] \in C /\ h[j] \in 1..m
      /\ \A x \in C : \E j \in 1..q : h[j] = x
      /\ \A i, j \in 1..q : h[i] = h[j] => i = j
  BY <1>1 DEF Enumerates
<1>3. \A i, j \in 1..m : e[i] = e[j] => i = j
  BY DEF Enumerates
<1> DEFINE k == [j \in 1..q |-> e[h[j]]]
           E == {e[j] : j \in C}
<1>4. k \in [1..q -> E]
  BY <1>2
<1>5. \A x \in E : \E j \in 1..q : k[j] = x
  BY <1>2
<1>6. \A i, j \in 1..q : k[i] = k[j] => i = j
  BY <1>2, <1>3
<1>7. list = [j \in 1..q |-> f[k[j]]]
  BY <1>1, <1>2
<1> HIDE DEF k, E
<1>8. Enumerates(k, q, E)
  BY <1>2, <1>4, <1>5, <1>6 DEF Enumerates
<1>9. Lists(list, f, E)
  BY <1>7, <1>8 DEF Lists
<1> QED
  BY <1>9 DEF E

\* Those of a list that are kept.
LEMMA KeptListed ==
    ASSUME NEW list, NEW f, NEW D, Lists(list, f, D), NEW E \in SUBSET D, NEW b,
           b = [j \in 1..Len(list) |-> b[j]],
           \A j \in 1..Len(list) : \A x \in D :
               list[j] = f[x] => b[j] = IF x \in E THEN << list[j] >> ELSE << >>
    PROVE  Lists(FlattenSeq(b), f, E)
<1>1. PICK m, e : Enumerates(e, m, D) /\ list = [j \in 1..m |-> f[e[j]]]
  BY DEF Lists
<1>2. m \in Nat /\ \A x \in D : \E j \in 1..m : e[j] = x
  BY <1>1 DEF Enumerates
<1>3. \A j \in 1..m : e[j] \in D
  BY <1>1 DEF Enumerates
<1> DEFINE C == {j \in 1..m : e[j] \in E}
<1>4. Len(list) = m /\ \A j \in 1..m : list[j] = f[e[j]]
  BY <1>1, <1>2
<1>5. b = [j \in 1..m |-> IF j \in C THEN << list[j] >> ELSE << >>]
  BY <1>3, <1>4
<1>6. C \in SUBSET (1..m) /\ {e[j] : j \in C} = E
  BY <1>2, <1>3
<1> HIDE DEF C
<1>7. Lists(FlattenSeq(b), list, C)
  BY <1>2, <1>5, <1>6, ChosenListed
<1>8. Lists(FlattenSeq(b), f, {e[j] : j \in C})
  BY ONLY <1>1, <1>4, <1>6, <1>7, Through
<1> QED
  BY <1>6, <1>8

\* What is made of each element.
LEMMA MadeOfListed ==
    ASSUME NEW list, NEW f, NEW D, Lists(list, f, D), NEW g, NEW more,
           more = [j \in 1..Len(list) |-> more[j]],
           \A j \in 1..Len(list) : \A x \in D : list[j] = f[x] => more[j] = g[x]
    PROVE  Lists(more, g, D)
<1>1. PICK m, e : Enumerates(e, m, D) /\ list = [j \in 1..m |-> f[e[j]]]
  BY DEF Lists
<1>2. m \in Nat /\ \A j \in 1..m : e[j] \in D
  BY <1>1 DEF Enumerates
<1>3. Len(list) = m /\ \A j \in 1..m : list[j] = f[e[j]]
  BY <1>1, <1>2
<1>4. more = [j \in 1..m |-> g[e[j]]]
  BY <1>2, <1>3
<1> QED
  BY <1>1, <1>4 DEF Lists

\* One that comes before.
LEMMA OneBefore ==
    ASSUME NEW list, NEW f, NEW D, Lists(list, f, D), NEW x, x \notin D
    PROVE  Lists(<< f[x] >> \o list, f, D \union {x})
<1>1. PICK m, e : Enumerates(e, m, D) /\ list = [j \in 1..m |-> f[e[j]]]
  BY DEF Lists
<1>2. /\ m \in Nat /\ \A j \in 1..m : e[j] \in D
      /\ \A y \in D : \E j \in 1..m : e[j] = y
      /\ \A i, j \in 1..m : e[i] = e[j] => i = j
  BY <1>1 DEF Enumerates
<1> DEFINE h == [j \in 1..m + 1 |-> IF j = 1 THEN x ELSE e[j - 1]]
<1>3. \A j \in 1..m : h[j + 1] = e[j] /\ j + 1 \in 1..m + 1 /\ j + 1 # 1
  BY <1>2
<1>4. \A j \in 1..m + 1 : j = 1 \/ (j - 1 \in 1..m /\ h[j] = e[j - 1])
  BY <1>2
<1>5. h[1] = x /\ 1 \in 1..m + 1 /\ DOMAIN h = 1..m + 1 /\ h = [j \in 1..m + 1 |-> h[j]]
  BY <1>2
<1> HIDE DEF h
<1>6. \A j \in 1..m + 1 : h[j] \in D \union {x}
  BY <1>2, <1>4, <1>5
<1>7. h \in [1..m + 1 -> D \union {x}]
  BY <1>5, <1>6
<1>8. \A y \in D \union {x} : \E j \in 1..m + 1 : h[j] = y
  <2> TAKE y \in D \union {x}
  <2>1. CASE y = x
    BY <1>5, <2>1
  <2>2. CASE y \in D
    <3>1. PICK j \in 1..m : e[j] = y
      BY <1>2, <2>2
    <3>2. j + 1 \in 1..m + 1 /\ h[j + 1] = y
      BY <1>3, <3>1
    <3> QED
      BY <3>2
  <2> QED
    BY <2>1, <2>2
<1>9. \A i, j \in 1..m + 1 : h[i] = h[j] => i = j
  <2> TAKE i, j \in 1..m + 1
  <2> HAVE h[i] = h[j]
  <2>1. CASE i = 1 \/ j = 1
    BY <1>2, <1>4, <1>5, <2>1
  <2>2. CASE i # 1 /\ j # 1
    <3>1. i - 1 \in 1..m /\ j - 1 \in 1..m /\ e[i - 1] = e[j - 1]
      BY <1>4, <2>2
    <3>2. i - 1 = j - 1
      BY <1>2, <3>1
    <3> QED
      BY <3>2
  <2> QED
    BY <2>1, <2>2
<1>10. << f[x] >> \o list = [j \in 1..m + 1 |-> f[h[j]]]
  <2> DEFINE one == f[x]
             F == {list[j] : j \in 1..m} \union {one}
  <2>1. Len(list) = m /\ \A j \in 1..m : list[j] \in F /\ list[j] = f[e[j]]
    BY <1>1, <1>2
  <2>2. one \in F /\ list = [j \in 1..m |-> list[j]]
    BY <1>1
  <2> HIDE DEF one, F
  <2>3. list \in Seq(F)
    <3>1. list \in [1..m -> F]
      BY <2>1, <2>2
    <3> QED
      BY <1>2, <3>1, SeqDef
  <2>4. << one >> \o list = [j \in 1..m + 1 |-> IF j = 1 THEN one ELSE list[j - 1]]
    BY <1>2, <2>1, <2>2, <2>3
  <2>5. \A j \in 1..m + 1 : (IF j = 1 THEN one ELSE list[j - 1]) = f[h[j]]
    BY <1>4, <1>5, <2>1 DEF one
  <2>6. << one >> \o list = [j \in 1..m + 1 |-> f[h[j]]]
    BY ONLY <2>4, <2>5
  <2> QED
    BY <2>6 DEF one
<1>11. Enumerates(h, m + 1, D \union {x})
  BY <1>2, <1>7, <1>8, <1>9 DEF Enumerates
<1> QED
  BY <1>10, <1>11 DEF Lists

================================================================================
