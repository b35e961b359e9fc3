---- MODULE FiguresProofs ----
(***************************************************************************)
(* What is proved of the figures: that analytics of a back-test and the    *)
(* reports agree with any trades they are of, for all the values of their  *)
(* constants.  The invariant is only that they are trades; what is proved  *)
(* is that two ways to compute a figure agree.                             *)
(***************************************************************************)
EXTENDS Figures, Induction

-----------------------------------------------------------------------------
(* Extremes, and recursion from 0. *)

\* The sums of the figures are the same as these.
LEMMA AnalysisSums ==
    /\ \A f, S : Analysis!SumFunctionOnSet(f, S) = SumFunctionOnSet(f, S)
    /\ \A f : Analysis!SumFunction(f) = SumFunctionOnSet(f, DOMAIN f)
<1>1. \A f, S : Analysis!SumFunctionOnSet(f, S) = SumFunctionOnSet(f, S)
  BY DEF Analysis!SumFunctionOnSet, Analysis!FoldFunctionOnSet, Analysis!MapThenFoldSet,
         SumFunctionOnSet, FoldFunctionOnSet, MapThenFoldSet
<1>2. \A f : Analysis!SumFunction(f) = SumFunctionOnSet(f, DOMAIN f)
  BY <1>1 DEF Analysis!SumFunction
<1>3. QED
  BY <1>1, <1>2

\* And their fractions.
LEMMA AnalysisFractions ==
    /\ \A n, d : Analysis!Fraction(n, d) = Fraction(n, d)
    /\ \A n : Analysis!Whole(n) = Whole(n)
    /\ \A a, b : Analysis!AtMost(a, b) <=> AtMost(a, b)
<1>1. Analysis!Gcd = Gcd
  BY DEF Analysis!Gcd, Gcd
<1>2. \A n, d : Analysis!Fraction(n, d) = Fraction(n, d)
  <2>1. \A n : Analysis!Size(n) = Size(n)
    BY DEF Analysis!Size, Size
  <2>2. ASSUME NEW n, NEW d PROVE Analysis!Fraction(n, d) = Fraction(n, d)
    <3>1. Analysis!Gcd[<<Analysis!Size(n), Analysis!Size(d)>>] = Gcd[<<Size(n), Size(d)>>]
      BY ONLY <1>1, <2>1
    <3>2. PICK g : g = Gcd[<<Size(n), Size(d)>>]
      OBVIOUS
    <3>3. QED
      BY ONLY <3>1, <3>2 DEF Analysis!Fraction, Fraction
  <2>3. QED
    BY <2>2
<1>3. \A n : Analysis!Whole(n) = Whole(n)
  BY DEF Analysis!Whole, Whole
<1>4. \A a, b : Analysis!AtMost(a, b) <=> AtMost(a, b)
  BY DEF Analysis!AtMost, AtMost
<1>5. QED
  BY <1>2, <1>3, <1>4

\* Integers that are finitely many have a greatest and a least.
LEMMA ExtremesExist ==
    ASSUME NEW S \in SUBSET Int, IsFiniteSet(S), S # {}
    PROVE  /\ \E m \in S : \A x \in S : m >= x
           /\ \E m \in S : \A x \in S : m <= x
<1> DEFINE G == {T \in SUBSET Int : T # {} => /\ \E m \in T : \A x \in T : m >= x
                                              /\ \E m \in T : \A x \in T : m <= x}
<1>1. {} \in G
  OBVIOUS
<1>2. ASSUME NEW T \in SUBSET Int, NEW y \in Int \ T, T \in G PROVE T \cup {y} \in G
  <2>1. CASE T = {}
    BY <2>1
  <2>2. CASE T # {}
    <3>1. PICK u \in T : \A x \in T : u >= x
      BY <1>2, <2>2
    <3>2. PICK v \in T : \A x \in T : v <= x
      BY <1>2, <2>2
    <3>3. \E m \in T \cup {y} : \A x \in T \cup {y} : m >= x
      <4>1. CASE u >= y
        BY <3>1, <4>1
      <4>2. CASE ~(u >= y)
        <5>1. y \in T \cup {y} /\ \A x \in T \cup {y} : y >= x
          BY <3>1, <4>2
        <5>2. QED
          BY <5>1
      <4>3. QED
        BY <4>1, <4>2
    <3>4. \E m \in T \cup {y} : \A x \in T \cup {y} : m <= x
      <4>1. CASE v <= y
        BY <3>2, <4>1
      <4>2. CASE ~(v <= y)
        <5>1. y \in T \cup {y} /\ \A x \in T \cup {y} : y <= x
          BY <3>2, <4>2
        <5>2. QED
          BY <5>1
      <4>3. QED
        BY <4>1, <4>2
    <3>5. QED
      BY <3>3, <3>4
  <2>3. QED
    BY <2>1, <2>2
<1>3. \A T \in SUBSET Int : \A x \in Int \ T : IsFiniteSet(T) /\ T \in G => T \cup {x} \in G
  BY <1>2
<1> HIDE DEF G
<1>4. S \in G
  BY <1>1, <1>3, SetInduction
<1>5. QED
  BY <1>4 DEF G

\* They are the greatest and the least.
LEMMA Extremes ==
    ASSUME NEW S \in SUBSET Int, IsFiniteSet(S), S # {}
    PROVE  /\ Max(S) \in S /\ \A x \in S : x <= Max(S)
           /\ Min(S) \in S /\ \A x \in S : Min(S) <= x
<1>1. PICK m \in S : \A x \in S : m >= x
  BY ExtremesExist
<1>2. PICK l \in S : \A x \in S : l <= x
  BY ExtremesExist
<1>3. Max(S) \in S /\ \A x \in S : Max(S) >= x
  BY <1>1, Zenon DEF Max
<1>4. Min(S) \in S /\ \A x \in S : Min(S) <= x
  BY <1>2, Zenon DEF Min
<1>5. QED
  BY <1>3, <1>4

\* What a number is that is in a set and no less, or no greater, than the others.
LEMMA ExtremeIs ==
    ASSUME NEW S \in SUBSET Int, NEW m \in S
    PROVE  /\ (\A x \in S : x <= m) => Max(S) = m
           /\ (\A x \in S : m <= x) => Min(S) = m
<1>1. ASSUME \A x \in S : x <= m PROVE Max(S) = m
  <2>1. \A x \in S : (\A y \in S : x >= y) <=> x = m
    BY <1>1
  <2>2. QED
    BY <2>1 DEF Max
<1>2. ASSUME \A x \in S : m <= x PROVE Min(S) = m
  <2>1. \A x \in S : (\A y \in S : x <= y) <=> x = m
    BY <1>2
  <2>2. QED
    BY <2>1 DEF Min
<1>3. QED
  BY <1>1, <1>2

\* Those of the figures are the same.
LEMMA FiguresExtremes ==
    /\ \A S : Analysis!Max(S) = Max(S) /\ Analysis!Min(S) = Min(S)
    /\ \A S : Report!Max(S) = Max(S) /\ Report!Min(S) = Min(S)
<1>1. \A S : Analysis!Max(S) = Max(S) /\ Analysis!Min(S) = Min(S)
  BY DEF Analysis!Max, Analysis!Min, Max, Min
<1>2. \A S : Report!Max(S) = Max(S) /\ Report!Min(S) = Min(S)
  BY DEF Report!Max, Report!Min, Max, Min
<1>3. QED
  BY <1>1, <1>2

\* A recursion from 0 defines a function.
FromZero(f, n, base, step) ==
    f = [i \in 0 .. n |-> IF i = 0 THEN base ELSE step[<<i, f[i - 1]>>]]

LEMMA FromZeroExists ==
    ASSUME NEW V, NEW base \in V, NEW n \in Nat, NEW step \in [(1 .. n) \X V -> V]
    PROVE  \E f \in [0 .. n -> V] : FromZero(f, n, base, step)
<1>1. PICK m, k : m = n + 1 /\ k = 2
  OBVIOUS
<1>2. PICK later : later = [p \in (1 .. m) \X V |->
                              IF p[1] = 1 THEN base ELSE step[<<p[1] - 1, p[2]>>]]
  OBVIOUS
<1>3. later \in [(1 .. m) \X V -> V]
  <2>1. ASSUME NEW i \in 1 .. m, NEW v \in V
        PROVE  (IF i = 1 THEN base ELSE step[<<i - 1, v>>]) \in V
    <3>1. i # 1 => i - 1 \in 1 .. n
      BY <1>1
    <3>2. QED
      BY <3>1
  <2>2. QED
    BY <1>2, <2>1
<1>4. m \in Nat /\ k \in Nat /\ k >= 2
  BY <1>1
<1>5. PICK g \in [1 .. m -> V] : Stepwise(g, m, k, base, later)
  BY ONLY base \in V, <1>3, <1>4, StepwiseExists
<1>6. PICK f : f = [i \in 0 .. n |-> g[i + 1]]
  OBVIOUS
<1>7. f \in [0 .. n -> V]
  BY <1>1, <1>6
<1>8. ASSUME NEW i \in 0 .. n PROVE f[i] = IF i = 0 THEN base ELSE step[<<i, f[i - 1]>>]
  <2>1. PICK j : j = i + 1
    OBVIOUS
  <2>2. j \in 1 .. m /\ j - 1 = i
    BY <1>1, <2>1
  <2>3. g[j] = IF j < k THEN base ELSE later[<<j, g[j - 1]>>]
    BY <1>5, <2>2 DEF Stepwise
  <2>4. CASE i = 0
    BY <1>1, <1>6, <2>1, <2>3, <2>4
  <2>5. CASE i # 0
    <3>1. i - 1 \in 0 .. n /\ i \in 1 .. m /\ i - 1 + 1 = i /\ j # 1
      BY <1>1, <2>1, <2>5
    <3>2. f[i - 1] = g[i] /\ g[i] \in V
      BY <1>5, <1>6, <3>1
    <3>3. later[<<j, g[i]>>] = step[<<i, g[i]>>]
      BY <1>2, <2>2, <3>1, <3>2
    <3>4. ~(j < k)
      BY <1>1, <2>1, <2>5
    <3>5. f[i] = g[j]
      BY <1>6, <2>1
    <3>6. QED
      BY <2>2, <2>3, <2>5, <3>2, <3>3, <3>4, <3>5
  <2>6. QED
    BY <2>4, <2>5
<1>9. FromZero(f, n, base, step)
  BY <1>6, <1>8 DEF FromZero
<1>10. QED
  BY <1>7, <1>9

-----------------------------------------------------------------------------
(* Orders on finite sets. *)

\* A relation, as a set of pairs, that puts the elements of a set in an order.
Ordering(R, S) ==
    /\ \A x, y \in S : <<x, y>> \in R \/ <<y, x>> \in R
    /\ \A x, y, z \in S : <<x, y>> \in R /\ <<y, z>> \in R => <<x, z>> \in R

\* In it a last one exists.
LEMMA LastExists ==
    ASSUME NEW S, IsFiniteSet(S), S # {}, NEW R, Ordering(R, S)
    PROVE  \E m \in S : \A x \in S : <<x, m>> \in R
<1> DEFINE G == {T \in SUBSET S : T # {} => \E m \in T : \A x \in T : <<x, m>> \in R}
<1>1. {} \in G
  OBVIOUS
<1>2. ASSUME NEW T \in SUBSET S, NEW y \in S \ T, T \in G PROVE T \cup {y} \in G
  <2>1. CASE T = {}
    <3>1. <<y, y>> \in R
      BY DEF Ordering
    <3>2. QED
      BY <2>1, <3>1
  <2>2. CASE T # {}
    <3>1. PICK m \in T : \A x \in T : <<x, m>> \in R
      BY <1>2, <2>2
    <3>2. <<y, y>> \in R
      BY DEF Ordering
    <3>3. CASE <<y, m>> \in R
      <4>1. \A x \in T \cup {y} : <<x, m>> \in R
        BY <3>1, <3>3
      <4>2. QED
        BY <4>1
    <3>4. CASE <<m, y>> \in R
      <4>1. \A x \in T \cup {y} : <<x, y>> \in R
        BY <3>1, <3>2, <3>4 DEF Ordering
      <4>2. QED
        BY <4>1
    <3>5. QED
      BY <3>3, <3>4 DEF Ordering
  <2>3. QED
    BY <2>1, <2>2
<1>3. \A T \in SUBSET S : \A x \in S \ T : IsFiniteSet(T) /\ T \in G => T \cup {x} \in G
  BY <1>2
<1> HIDE DEF G
<1>4. S \in G
  BY <1>1, <1>3, SetInduction
<1>5. QED
  BY <1>4 DEF G

\* A list of elements of a set, without repetition and in an order.
InOrder(o, n, S, R) ==
    /\ o \in [1 .. n -> S]
    /\ \A i, j \in 1 .. n : i < j => o[i] # o[j] /\ <<o[i], o[j]>> \in R

\* A finite set can be listed in an order, by taking the last one out.
LEMMA OrderExists ==
    ASSUME NEW S, IsFiniteSet(S), NEW R, Ordering(R, S)
    PROVE  \E o : InOrder(o, Cardinality(S), S, R)
<1> DEFINE G == {n \in Nat : \A T \in SUBSET S : Cardinality(T) = n => \E o : InOrder(o, n, T, R)}
<1>1. 0 \in G
  <2>1. ASSUME NEW T \in SUBSET S, Cardinality(T) = 0 PROVE \E o : InOrder(o, 0, T, R)
    <3>1. PICK o : o = [i \in 1 .. 0 |-> i]
      OBVIOUS
    <3>2. InOrder(o, 0, T, R)
      BY <3>1 DEF InOrder
    <3>3. QED
      BY <3>2
  <2>2. QED
    BY <2>1
<1>2. ASSUME NEW n \in Nat, n \in G PROVE n + 1 \in G
  <2>1. SUFFICES ASSUME NEW T \in SUBSET S, Cardinality(T) = n + 1
                 PROVE  \E o : InOrder(o, n + 1, T, R)
    OBVIOUS
  <2>2. IsFiniteSet(T) /\ T # {}
    BY <2>1, FS_Subset, FS_EmptySet
  <2>3. Ordering(R, T)
    BY DEF Ordering
  <2>4. PICK m \in T : \A x \in T : <<x, m>> \in R
    BY <2>2, <2>3, LastExists
  <2>5. PICK U : U = T \ {m}
    OBVIOUS
  <2>6. U \in SUBSET S /\ Cardinality(U) = n
    <3>1. Cardinality(U) = Cardinality(T) - 1
      BY <2>2, <2>5, FS_RemoveElement
    <3>2. QED
      BY <2>1, <2>5, <3>1
  <2>7. PICK o : InOrder(o, n, U, R)
    BY <1>2, <2>6
  <2>8. PICK k : k = n + 1
    OBVIOUS
  <2>9. PICK p : p = [i \in 1 .. k |-> IF i = k THEN m ELSE o[i]]
    OBVIOUS
  <2>10. \A i \in 1 .. k : i # k => i \in 1 .. n
    BY <2>8
  <2>11. \A i \in 1 .. n : o[i] \in T /\ o[i] # m
    BY <2>5, <2>7 DEF InOrder
  <2>12. p \in [1 .. k -> T]
    BY <2>9, <2>10, <2>11
  <2>13. ASSUME NEW i \in 1 .. k, NEW j \in 1 .. k, i < j
         PROVE  p[i] # p[j] /\ <<p[i], p[j]>> \in R
    <3>1. i \in 1 .. n /\ p[i] = o[i]
      BY <2>8, <2>9, <2>13
    <3>2. CASE j = k
      BY <2>4, <2>9, <2>11, <3>1, <3>2
    <3>3. CASE j # k
      <4>1. j \in 1 .. n /\ p[j] = o[j]
        BY <2>9, <2>10, <3>3
      <4>2. QED
        BY <2>7, <2>13, <3>1, <4>1 DEF InOrder
    <3>4. QED
      BY <3>2, <3>3
  <2>14. InOrder(p, k, T, R)
    BY <2>12, <2>13 DEF InOrder
  <2>15. QED
    BY <2>8, <2>14
<1> HIDE DEF G
<1>3. \A n \in Nat : n \in G
  BY <1>1, <1>2, NumberInduction
<1>4. Cardinality(S) \in G
  BY <1>3, FS_CardinalityType
<1>5. QED
  BY <1>4 DEF G

\* Such a list has every element.
LEMMA OrderReaches ==
    ASSUME NEW S, IsFiniteSet(S), NEW R, NEW o, InOrder(o, Cardinality(S), S, R)
    PROVE  \A x \in S : \E i \in 1 .. Cardinality(S) : o[i] = x
<1>1. PICK n : n = Cardinality(S)
  OBVIOUS
<1>2. n \in Nat /\ InOrder(o, n, S, R)
  BY <1>1, FS_CardinalityType
<1>3. o \in Injection(1 .. n, S)
  <2>1. ASSUME NEW i \in 1 .. n, NEW j \in 1 .. n, o[i] = o[j] PROVE i = j
    <3>1. ~(i < j) /\ ~(j < i)
      BY <1>2, <2>1 DEF InOrder
    <3>2. QED
      BY <1>2, <3>1
  <2>2. QED
    BY <1>2, <2>1 DEF InOrder, Injection, IsInjective
<1>4. IsFiniteSet(1 .. n) /\ Cardinality(1 .. n) = n
  BY <1>2, FS_Interval
<1>5. o \in Surjection(1 .. n, S)
  BY <1>1, <1>3, <1>4, FS_Injection
<1>6. QED
  BY <1>1, <1>5 DEF Surjection

\* What a list of a finite set has is finite, and no more.
LEMMA ImageFinite ==
    ASSUME NEW S, IsFiniteSet(S), NEW f
    PROVE  /\ IsFiniteSet({f[x] : x \in S})
           /\ Cardinality({f[x] : x \in S}) <= Cardinality(S)
<1>1. PICK T, g : T = {f[x] : x \in S} /\ g = [x \in S |-> f[x]]
  OBVIOUS
<1>2. g \in Surjection(S, T)
  BY <1>1 DEF Surjection
<1>3. IsFiniteSet(T) /\ Cardinality(T) <= Cardinality(S)
  BY <1>2, FS_Surjection
<1>4. QED
  BY <1>1, <1>3

-----------------------------------------------------------------------------
(* The drawdown of a back-test. *)

\* What the analysis of the drawdown keeps while it goes along the curve.
Drawdowns ==
    [peak : Int, drops : BOOLEAN, start : Int, depth : Int, percent : Rational,
     periods : Seq([start : Int, end : Int, depth : Int])]

\* A percentage is a fraction.
LEMMA PercentType ==
    \A part \in Int, whole \in Int : Analysis!PercentOf(part, whole) \in Rational
<1>1. ASSUME NEW part \in Int, NEW whole \in Int
      PROVE  Analysis!PercentOf(part, whole) \in Rational
  <2>1. CASE whole > 0
    <3>1. 100 * part \in Int /\ whole \in Int \ {0}
      BY <2>1
    <3>2. Fraction(100 * part, whole) \in Rational
      BY ONLY <3>1, FractionRational
    <3>3. QED
      BY <2>1, <3>2, AnalysisFractions DEF Analysis!PercentOf
  <2>2. CASE ~(whole > 0)
    BY <2>2, FractionRational, AnalysisFractions DEF Analysis!PercentOf
  <2>3. QED
    BY <2>1, <2>2
<1>2. QED
  BY <1>1

\* It begins at the first value.
LEMMA DrawdownBegins ==
    ASSUME NEW x \in Int, NEW d, d = Analysis!Drawdown0(x)
    PROVE  /\ d \in Drawdowns
           /\ d.peak = x /\ d.drops = FALSE /\ d.depth = 0 /\ d.percent = Whole(0)
           /\ d.periods = <<>>
BY AnalysisFractions, FractionRational DEF Analysis!Drawdown0, Drawdowns

\* A new peak ends the period there was.
Peaks(d, i, x, next) ==
    /\ next \in Drawdowns
    /\ next.peak = x /\ next.drops = FALSE /\ next.depth = d.depth
    /\ next.percent = d.percent
    /\ d.drops = FALSE => next.periods = d.periods
    /\ d.drops = TRUE =>
         next.periods = Append(d.periods, [start |-> d.start, end |-> i, depth |-> d.depth])

LEMMA DrawdownPeaks ==
    ASSUME NEW d \in Drawdowns, NEW i \in Int, NEW x \in Int, x > d.peak
    PROVE  Peaks(d, i, x, Analysis!DrawdownStep(d, i, x))
<1>0. PICK next : next = Analysis!DrawdownStep(d, i, x)
  OBVIOUS
<1>1. PICK row : row = [start |-> d.start, end |-> i, depth |-> d.depth]
  OBVIOUS
<1>2. PICK more : more = Append(d.periods, row)
  OBVIOUS
<1>3. /\ d.periods \in Seq([start : Int, end : Int, depth : Int])
      /\ row \in [start : Int, end : Int, depth : Int]
      /\ d.drops \in BOOLEAN
  BY <1>1 DEF Drawdowns
<1>4. more \in Seq([start : Int, end : Int, depth : Int])
  BY <1>2, <1>3
<1>5. CASE d.drops = TRUE
  <2>1. next = [d EXCEPT !.peak = x, !.drops = FALSE, !.periods = more]
    BY <1>0, <1>1, <1>2, <1>5 DEF Analysis!DrawdownStep
  <2>2. Peaks(d, i, x, next)
    BY <1>1, <1>2, <1>4, <1>5, <2>1 DEF Drawdowns, Peaks
  <2>3. QED
    BY <1>0, <2>2
<1>6. CASE d.drops = FALSE
  <2>1. next = [d EXCEPT !.peak = x, !.drops = FALSE, !.periods = d.periods]
    BY <1>0, <1>6 DEF Analysis!DrawdownStep
  <2>2. Peaks(d, i, x, next)
    BY <1>6, <2>1 DEF Drawdowns, Peaks
  <2>3. QED
    BY <1>0, <2>2
<1>7. QED
  BY <1>0, <1>3, <1>5, <1>6

\* Any other value is a fall from the peak.
Falls(d, x, next) ==
    /\ next \in Drawdowns
    /\ next.peak = d.peak /\ next.drops = TRUE /\ next.periods = d.periods
    /\ next.depth = IF d.peak - x > d.depth THEN d.peak - x ELSE d.depth
    /\ \/ next.percent = d.percent
       \/ next.percent = Analysis!PercentOf(d.peak - x, d.peak)

LEMMA DrawdownFalls ==
    ASSUME NEW d \in Drawdowns, NEW i \in Int, NEW x \in Int, ~(x > d.peak)
    PROVE  Falls(d, x, Analysis!DrawdownStep(d, i, x))
<1>0. PICK next : next = Analysis!DrawdownStep(d, i, x)
  OBVIOUS
<1>1. PICK fall : fall = d.peak - x
  OBVIOUS
<1>2. d.depth \in Int /\ d.peak \in Int /\ fall \in Int
  BY <1>1 DEF Drawdowns
<1>3. PICK depth : depth = IF fall > d.depth THEN fall ELSE d.depth
  OBVIOUS
<1>4. Analysis!Max({d.depth, fall}) = depth
  <2>1. PICK S : S = {d.depth, fall}
    OBVIOUS
  <2>2. S \in SUBSET Int /\ depth \in S /\ \A y \in S : y <= depth
    BY <1>2, <1>3, <2>1
  <2>3. Max(S) = depth
    BY <2>2, ExtremeIs
  <2>4. QED
    BY <2>1, <2>3, FiguresExtremes
<1>5. PICK percent : percent = IF fall > d.depth THEN Analysis!PercentOf(fall, d.peak)
                               ELSE d.percent
  OBVIOUS
<1>6. percent \in Rational
  BY <1>2, <1>5, PercentType DEF Drawdowns
<1>7. next = [d EXCEPT !.drops = TRUE, !.start = IF d.start = 0 THEN i ELSE d.start,
                       !.depth = depth, !.percent = percent]
  BY <1>0, <1>1, <1>4, <1>5 DEF Analysis!DrawdownStep
<1>8. depth \in Int
  BY <1>2, <1>3
<1>9. next \in Drawdowns
  BY <1>6, <1>7, <1>8 DEF Drawdowns
<1>10. /\ next.peak = d.peak /\ next.drops = TRUE /\ next.periods = d.periods
       /\ next.depth = depth /\ next.percent = percent
  BY <1>7 DEF Drawdowns
<1>11. QED
  BY <1>0, <1>1, <1>3, <1>5, <1>9, <1>10 DEF Falls

\* The greatest of the first values.
PeakIs(e, i, x) == (\E k \in 1 .. i : e[k] = x) /\ \A k \in 1 .. i : e[k] <= x

\* The greatest fall from one of them to a later one.
GreatestFall(e, i, depth) ==
    /\ \E a, b \in 1 .. i : a <= b /\ e[a] - e[b] = depth
    /\ \A a, b \in 1 .. i : a <= b => e[a] - e[b] <= depth

\* The percentage of one of the falls from the peak.
PercentFrom(e, i, percent) ==
    \E k \in 1 .. i, x \in Int :
      PeakIs(e, k, x) /\ (percent = Whole(0) \/ percent = Analysis!PercentOf(x - e[k], x))

\* A value that is greater than all before it.
NewPeak(e, i) == i > 1 /\ \A k \in 1 .. i - 1 : e[k] < e[i]

Recovers(e, i) == NewPeak(e, i) /\ ~NewPeak(e, i - 1)

\* The periods that ended so far ended where the curve recovered.
EndsAre(e, i, periods) ==
    /\ \A k \in DOMAIN periods : periods[k].end \in 1 .. i /\ Recovers(e, periods[k].end)
    /\ \A j \in 1 .. i : Recovers(e, j) => \E k \in DOMAIN periods : periods[k].end = j

\* What the analysis keeps after the first i values.
DrawdownKnown(e, i, d) ==
    /\ d \in Drawdowns
    /\ PeakIs(e, i, d.peak) /\ GreatestFall(e, i, d.depth) /\ PercentFrom(e, i, d.percent)
    /\ d.drops = TRUE <=> ~NewPeak(e, i)
    /\ EndsAre(e, i, d.periods)

\* After the first.
LEMMA DrawdownFirst ==
    ASSUME NEW n \in Nat, NEW e \in [1 .. n -> Int], 1 <= n,
           NEW d, d = Analysis!DrawdownStep(Analysis!Drawdown0(e[1]), 1, e[1])
    PROVE  DrawdownKnown(e, 1, d)
<1>1. PICK b, x : b = Analysis!Drawdown0(e[1]) /\ x = e[1]
  OBVIOUS
<1>2. x \in Int
  BY <1>1
<1>3. /\ b \in Drawdowns /\ b.peak = x /\ b.drops = FALSE /\ b.depth = 0
      /\ b.percent = Whole(0) /\ b.periods = <<>>
  BY <1>1, <1>2, DrawdownBegins
<1>4. PICK i : i = 1
  OBVIOUS
<1>5. ~(x > b.peak) /\ d = Analysis!DrawdownStep(b, i, x) /\ i \in Int
  BY <1>1, <1>2, <1>3, <1>4
<1>6. /\ d \in Drawdowns
      /\ d.peak = b.peak /\ d.drops = TRUE /\ d.periods = b.periods
      /\ d.depth = IF b.peak - x > b.depth THEN b.peak - x ELSE b.depth
      /\ \/ d.percent = b.percent
         \/ d.percent = Analysis!PercentOf(b.peak - x, b.peak)
  <2>1. Falls(b, x, d)
    BY <1>2, <1>3, <1>5, DrawdownFalls
  <2>2. QED
    BY <2>1 DEF Falls
<1>7. d.peak = x /\ d.depth = 0
  BY <1>2, <1>3, <1>6
<1>8. PeakIs(e, i, x)
  BY <1>1, <1>2, <1>4 DEF PeakIs
<1>9. GreatestFall(e, i, d.depth)
  <2>1. \A a \in 1 .. i : a = i /\ e[a] - e[a] = 0
    BY <1>1, <1>2, <1>4
  <2>2. i \in 1 .. i
    BY <1>4
  <2>3. QED
    BY <1>7, <2>1, <2>2 DEF GreatestFall
<1>10. PercentFrom(e, i, d.percent)
  <2>1. d.percent = Whole(0) \/ d.percent = Analysis!PercentOf(x - e[i], x)
    BY <1>1, <1>3, <1>4, <1>6
  <2>2. i \in 1 .. i
    BY <1>4
  <2>3. QED
    BY <1>2, <1>8, <2>1, <2>2 DEF PercentFrom
<1>11. ~NewPeak(e, i)
  BY <1>4 DEF NewPeak
<1>12. EndsAre(e, i, d.periods)
  <2>1. DOMAIN d.periods = {}
    BY <1>3, <1>6
  <2>2. \A j \in 1 .. i : j = i
    BY <1>4
  <2>3. QED
    BY <1>11, <2>1, <2>2 DEF EndsAre, Recovers
<1>13. QED
  BY <1>4, <1>6, <1>7, <1>8, <1>9, <1>10, <1>11, <1>12 DEF DrawdownKnown

\* And after each other one: a new peak is no fall.
LEMMA DrawdownAtPeak ==
    ASSUME NEW n \in Nat, NEW e \in [1 .. n -> Int], NEW i \in Nat \ {0}, NEW m, m = i + 1, m <= n,
           NEW d, DrawdownKnown(e, i, d), e[m] > d.peak,
           NEW next, next = Analysis!DrawdownStep(d, m, e[m])
    PROVE  DrawdownKnown(e, m, next)
<1>1. PICK x : x = e[m]
  OBVIOUS
<1>2. /\ d \in Drawdowns /\ m \in Int /\ x \in Int /\ x > d.peak
      /\ next = Analysis!DrawdownStep(d, m, x) /\ d.peak \in Int /\ d.depth \in Int
  BY <1>1 DEF DrawdownKnown, Drawdowns
<1>3. /\ next \in Drawdowns
      /\ next.peak = x /\ next.drops = FALSE /\ next.depth = d.depth
      /\ next.percent = d.percent
      /\ d.drops = FALSE => next.periods = d.periods
      /\ d.drops = TRUE =>
           next.periods = Append(d.periods, [start |-> d.start, end |-> m, depth |-> d.depth])
  <2>1. Peaks(d, m, x, next)
    BY <1>2, DrawdownPeaks
  <2>2. QED
    BY <2>1 DEF Peaks
<1>4. /\ \A k \in 1 .. m : k \in 1 .. i \/ k = m
      /\ \A k \in 1 .. i : k \in 1 .. m /\ k # m /\ e[k] \in Int
      /\ m \in 1 .. m /\ m > 1 /\ m - 1 = i
  OBVIOUS
<1>5. \A k \in 1 .. i : e[k] < x
  BY <1>2, <1>4 DEF DrawdownKnown, PeakIs
<1>6. NewPeak(e, m)
  BY <1>1, <1>4, <1>5 DEF NewPeak
<1>7. PeakIs(e, m, x)
  BY <1>1, <1>2, <1>4, <1>5 DEF PeakIs
<1>8. GreatestFall(e, m, d.depth)
  <2>1. /\ \E a, b \in 1 .. i : a <= b /\ e[a] - e[b] = d.depth
        /\ \A a, b \in 1 .. i : a <= b => e[a] - e[b] <= d.depth
    BY DEF DrawdownKnown, GreatestFall
  <2>2. d.depth >= 0
    <3>1. 1 \in 1 .. i /\ e[1] \in Int
      BY <1>4
    <3>2. QED
      BY <1>2, <2>1, <3>1
  <2>3. ASSUME NEW a \in 1 .. m, NEW b \in 1 .. m, a <= b PROVE e[a] - e[b] <= d.depth
    <3>1. CASE b \in 1 .. i
      <4>1. a \in 1 .. i
        BY <2>3, <3>1
      <4>2. QED
        BY <2>1, <2>3, <3>1, <4>1
    <3>2. CASE b = m
      <4>1. e[a] <= x /\ e[a] \in Int
        BY <1>1, <1>2, <1>4, <1>5
      <4>2. QED
        BY <1>1, <1>2, <2>2, <3>2, <4>1
    <3>3. QED
      BY <1>4, <3>1, <3>2
  <2>4. QED
    BY <1>4, <2>1, <2>3 DEF GreatestFall
<1>9. PercentFrom(e, m, d.percent)
  BY <1>4 DEF DrawdownKnown, PercentFrom
<1>10. EndsAre(e, m, next.periods)
  <2>1. PICK p, q : p = d.periods /\ q = next.periods
    OBVIOUS
  <2>2. /\ \A k \in DOMAIN p : p[k].end \in 1 .. i /\ Recovers(e, p[k].end)
        /\ \A j \in 1 .. i : Recovers(e, j) => \E k \in DOMAIN p : p[k].end = j
    BY <2>1 DEF DrawdownKnown, EndsAre
  <2>3. p \in Seq([start : Int, end : Int, depth : Int])
    BY <1>2, <2>1 DEF Drawdowns
  <2>4. CASE d.drops = TRUE
    <3>1. PICK row : row = [start |-> d.start, end |-> m, depth |-> d.depth]
      OBVIOUS
    <3>2. row.end = m /\ q = Append(p, row) /\ Recovers(e, m)
      BY <1>3, <1>4, <1>6, <2>1, <2>4, <3>1 DEF DrawdownKnown, Recovers
    <3>3. PICK l : l = Len(p) + 1
      OBVIOUS
    <3>4. /\ l \in DOMAIN q /\ q[l] = row
          /\ \A k \in DOMAIN p : k \in DOMAIN q /\ q[k] = p[k]
          /\ \A k \in DOMAIN q : k \in DOMAIN p \/ k = l
      <4>1. row \in [start : Int, end : Int, depth : Int]
        BY <1>2, <3>1 DEF Drawdowns
      <4>2. QED
        BY ONLY <2>3, <3>2, <3>3, <4>1
    <3>5. \A k \in DOMAIN q : q[k].end \in 1 .. m /\ Recovers(e, q[k].end)
      BY <1>4, <2>2, <3>2, <3>4
    <3>6. \A j \in 1 .. m : Recovers(e, j) => \E k \in DOMAIN q : q[k].end = j
      BY <1>4, <2>2, <3>2, <3>4
    <3>7. QED
      BY <2>1, <3>5, <3>6 DEF EndsAre
  <2>5. CASE d.drops = FALSE
    <3>1. q = p /\ ~Recovers(e, m)
      BY <1>3, <1>4, <2>1, <2>5 DEF DrawdownKnown, Recovers
    <3>2. QED
      BY <1>4, <2>1, <2>2, <3>1 DEF EndsAre
  <2>6. d.drops \in BOOLEAN
    BY <1>2 DEF Drawdowns
  <2>7. QED
    BY <2>4, <2>5, <2>6
<1>11. QED
  BY <1>3, <1>6, <1>7, <1>8, <1>9, <1>10 DEF DrawdownKnown

\* Any other value falls from the peak.
LEMMA DrawdownBelow ==
    ASSUME NEW n \in Nat, NEW e \in [1 .. n -> Int], NEW i \in Nat \ {0}, NEW m, m = i + 1, m <= n,
           NEW d, DrawdownKnown(e, i, d), ~(e[m] > d.peak),
           NEW next, next = Analysis!DrawdownStep(d, m, e[m])
    PROVE  DrawdownKnown(e, m, next)
<1>1. PICK x, y : x = e[m] /\ y = d.peak
  OBVIOUS
<1>2. /\ d \in Drawdowns /\ m \in Int /\ x \in Int /\ ~(x > d.peak)
      /\ next = Analysis!DrawdownStep(d, m, x) /\ y \in Int /\ d.depth \in Int
  BY <1>1 DEF DrawdownKnown, Drawdowns
<1>3. /\ next \in Drawdowns
      /\ next.peak = y /\ next.drops = TRUE /\ next.periods = d.periods
      /\ next.depth = IF y - x > d.depth THEN y - x ELSE d.depth
      /\ \/ next.percent = d.percent
         \/ next.percent = Analysis!PercentOf(y - x, y)
  <2>1. Falls(d, x, next)
    BY <1>2, DrawdownFalls
  <2>2. QED
    BY <1>1, <2>1 DEF Falls
<1>4. /\ \A k \in 1 .. m : k \in 1 .. i \/ k = m
      /\ \A k \in 1 .. i : k \in 1 .. m /\ k # m /\ e[k] \in Int
      /\ m \in 1 .. m /\ m > 1 /\ m - 1 = i
  OBVIOUS
<1>5. PICK top \in 1 .. i : e[top] = y
  BY <1>1 DEF DrawdownKnown, PeakIs
<1>6. \A k \in 1 .. i : e[k] <= y
  BY <1>1 DEF DrawdownKnown, PeakIs
<1>7. ~NewPeak(e, m)
  BY <1>1, <1>2, <1>4, <1>5 DEF NewPeak
<1>8. PeakIs(e, m, y)
  BY <1>1, <1>2, <1>4, <1>5, <1>6 DEF PeakIs
<1>9. GreatestFall(e, m, next.depth)
  <2>1. PICK a0 \in 1 .. i, b0 \in 1 .. i : a0 <= b0 /\ e[a0] - e[b0] = d.depth
    BY DEF DrawdownKnown, GreatestFall
  <2>2. \A a, b \in 1 .. i : a <= b => e[a] - e[b] <= d.depth
    BY DEF DrawdownKnown, GreatestFall
  <2>3. next.depth \in Int /\ next.depth >= d.depth /\ next.depth >= y - x
    BY <1>2, <1>3
  <2>4. ASSUME NEW a \in 1 .. m, NEW b \in 1 .. m, a <= b PROVE e[a] - e[b] <= next.depth
    <3>1. CASE b \in 1 .. i
      <4>1. a \in 1 .. i
        BY <2>4, <3>1
      <4>2. e[a] - e[b] <= d.depth /\ e[a] \in Int /\ e[b] \in Int
        BY <1>4, <2>2, <2>4, <3>1, <4>1
      <4>3. QED
        BY <1>2, <2>3, <4>2
    <3>2. CASE b = m
      <4>1. e[a] <= y /\ e[a] \in Int
        BY <1>1, <1>2, <1>4, <1>6
      <4>2. QED
        BY <1>1, <1>2, <2>3, <3>2, <4>1
    <3>3. QED
      BY <1>4, <3>1, <3>2
  <2>5. \E a, b \in 1 .. m : a <= b /\ e[a] - e[b] = next.depth
    <3>1. CASE y - x > d.depth
      <4>1. top \in 1 .. m /\ top <= m /\ e[top] - e[m] = next.depth
        BY <1>1, <1>3, <1>4, <1>5, <3>1
      <4>2. QED
        BY <1>4, <4>1
    <3>2. CASE ~(y - x > d.depth)
      <4>1. a0 \in 1 .. m /\ b0 \in 1 .. m /\ e[a0] - e[b0] = next.depth
        BY <1>3, <1>4, <2>1, <3>2
      <4>2. QED
        BY <2>1, <4>1
    <3>3. QED
      BY <3>1, <3>2
  <2>6. QED
    BY <2>4, <2>5 DEF GreatestFall
<1>10. PercentFrom(e, m, next.percent)
  <2>1. CASE next.percent = d.percent
    BY <1>4, <2>1 DEF DrawdownKnown, PercentFrom
  <2>2. CASE next.percent = Analysis!PercentOf(y - x, y)
    BY <1>1, <1>2, <1>4, <1>8, <2>2 DEF PercentFrom
  <2>3. QED
    BY <1>3, <2>1, <2>2
<1>11. EndsAre(e, m, next.periods)
  <2>1. PICK p : p = d.periods
    OBVIOUS
  <2>2. /\ \A k \in DOMAIN p : p[k].end \in 1 .. i /\ Recovers(e, p[k].end)
        /\ \A j \in 1 .. i : Recovers(e, j) => \E k \in DOMAIN p : p[k].end = j
    BY <2>1 DEF DrawdownKnown, EndsAre
  <2>3. next.periods = p /\ ~Recovers(e, m)
    BY <1>3, <1>7, <2>1 DEF Recovers
  <2>4. QED
    BY <1>4, <2>2, <2>3 DEF EndsAre
<1>12. QED
  BY <1>3, <1>7, <1>8, <1>9, <1>10, <1>11 DEF DrawdownKnown

\* So after all values it is what is known of them.
LEMMA DrawdownIs ==
    ASSUME NEW n \in Nat \ {0}, NEW e \in [1 .. n -> Int]
    PROVE  \E d : /\ DrawdownKnown(e, n, d)
                  /\ Analysis!AnalyzeDrawdown(e).max_drawdown = d.depth
                  /\ Analysis!AnalyzeDrawdown(e).max_drawdown_pct = d.percent
                  /\ Analysis!AnalyzeDrawdown(e).drawdown_periods = d.periods
                  /\ Analysis!AnalyzeDrawdown(e).current_drawdown = d.peak - e[n]
<1> DEFINE Is(d) == d = [i \in 0 .. n |-> IF i = 0 THEN Analysis!Drawdown0(e[1])
                                          ELSE Analysis!DrawdownStep(d[i - 1], i, e[i])]
<1>1. Len(e) = n
  OBVIOUS
<1>2. PICK A : A = CHOOSE d : Is(d)
  OBVIOUS
<1>3. \E f : Is(f)
  <2>1. PICK V, base, step :
           /\ V = Drawdowns /\ base = Analysis!Drawdown0(e[1])
           /\ step = [p \in (1 .. n) \X V |-> Analysis!DrawdownStep(p[2], p[1], e[p[1]])]
    OBVIOUS
  <2>2. base \in V
    <3>1. e[1] \in Int
      OBVIOUS
    <3>2. QED
      BY <2>1, <3>1, DrawdownBegins
  <2>3. ASSUME NEW i \in 1 .. n, NEW d \in V PROVE Analysis!DrawdownStep(d, i, e[i]) \in V
    <3>1. e[i] \in Int /\ i \in Int /\ d \in Drawdowns
      BY <2>1
    <3>2. CASE e[i] > d.peak
      <4>1. Peaks(d, i, e[i], Analysis!DrawdownStep(d, i, e[i]))
        BY <3>1, <3>2, DrawdownPeaks
      <4>2. QED
        BY <2>1, <4>1 DEF Peaks
    <3>3. CASE ~(e[i] > d.peak)
      <4>1. Falls(d, e[i], Analysis!DrawdownStep(d, i, e[i]))
        BY <3>1, <3>3, DrawdownFalls
      <4>2. QED
        BY <2>1, <4>1 DEF Falls
    <3>4. QED
      BY <3>2, <3>3
  <2>4. step \in [(1 .. n) \X V -> V] /\ n \in Nat
    BY <2>1, <2>3
  <2>5. PICK f \in [0 .. n -> V] : FromZero(f, n, base, step)
    BY ONLY <2>2, <2>4, FromZeroExists
  <2>6. ASSUME NEW i \in 0 .. n
        PROVE  f[i] = IF i = 0 THEN Analysis!Drawdown0(e[1])
                      ELSE Analysis!DrawdownStep(f[i - 1], i, e[i])
    <3>1. f[i] = IF i = 0 THEN base ELSE step[<<i, f[i - 1]>>]
      BY <2>5 DEF FromZero
    <3>2. i # 0 => i - 1 \in 0 .. n /\ i \in 1 .. n
      OBVIOUS
    <3>3. i # 0 => f[i - 1] \in V
      BY <2>5, <3>2
    <3>4. QED
      BY <2>1, <3>1, <3>2, <3>3
  <2>7. f = [i \in 0 .. n |-> IF i = 0 THEN Analysis!Drawdown0(e[1])
                              ELSE Analysis!DrawdownStep(f[i - 1], i, e[i])]
    BY <2>5, <2>6
  <2>8. QED
    BY <2>7
<1>4. Is(A)
  BY <1>2, <1>3
<1>5. /\ A[0] = Analysis!Drawdown0(e[1])
      /\ \A i \in 1 .. n : A[i] = Analysis!DrawdownStep(A[i - 1], i, e[i])
  BY <1>4
<1>6. PICK result : result = Analysis!AnalyzeDrawdown(e)
  OBVIOUS
<1>7. PICK last : last = A[n]
  OBVIOUS
<1>8. /\ result.max_drawdown = last.depth /\ result.max_drawdown_pct = last.percent
      /\ result.drawdown_periods = last.periods /\ result.current_drawdown = last.peak - e[n]
  <2>1. e # <<>> /\ Analysis!Last(e) = e[n]
    BY <1>1 DEF Analysis!Last
  <2>2. QED
    BY <1>1, <1>2, <1>6, <1>7, <2>1 DEF Analysis!AnalyzeDrawdown
<1> HIDE DEF Is
<1> DEFINE G == {i \in Nat : i \in 1 .. n => DrawdownKnown(e, i, A[i])}
<1>9. 0 \in G
  OBVIOUS
<1>10. ASSUME NEW i \in Nat, i \in G PROVE i + 1 \in G
  <2>1. PICK m : m = i + 1
    OBVIOUS
  <2>2. SUFFICES ASSUME m \in 1 .. n PROVE DrawdownKnown(e, m, A[m])
    BY <2>1
  <2>3. A[m] = Analysis!DrawdownStep(A[i], m, e[m])
    BY <1>5, <2>1, <2>2
  <2>4. CASE i = 0
    <3>1. m = 1 /\ A[m] = Analysis!DrawdownStep(Analysis!Drawdown0(e[1]), 1, e[1]) /\ 1 <= n
      BY <1>5, <2>1, <2>3, <2>4
    <3>2. QED
      BY <3>1, DrawdownFirst
  <2>5. CASE i # 0
    <3>1. i \in Nat \ {0} /\ m <= n /\ DrawdownKnown(e, i, A[i]) /\ n \in Nat
      BY <1>10, <2>1, <2>2, <2>5
    <3>2. QED
      BY <2>1, <2>3, <3>1, DrawdownAtPeak, DrawdownBelow
  <2>6. QED
    BY <2>4, <2>5
<1> HIDE DEF G
<1>11. \A i \in Nat : i \in G
  BY <1>9, <1>10, NumberInduction
<1>12. DrawdownKnown(e, n, last)
  BY <1>7, <1>11 DEF G
<1>13. QED
  BY <1>6, <1>8, <1>12

-----------------------------------------------------------------------------
(* The deepest percentage. *)

\* Fractions are in an order.
NoGreater == {p \in Rational \X Rational : AtMost(p[1], p[2])}

\* A product with something positive keeps the order.
LEMMA ProductOrder ==
    ASSUME NEW a \in Int, NEW b \in Int, NEW k \in Nat \ {0}
    PROVE  k * a <= k * b <=> a <= b
<1>1. CASE a <= b
  <2>1. PICK c : c = b - a
    OBVIOUS
  <2>2. c \in Nat /\ b = a + c
    BY <1>1, <2>1
  <2>3. k * c >= 0 /\ k * b = k * a + k * c
    BY <2>2
  <2>4. k * a <= k * b
    BY <2>2, <2>3
  <2>5. QED
    BY <1>1, <2>4
<1>2. CASE ~(a <= b)
  <2>1. PICK c : c = a - b
    OBVIOUS
  <2>2. c \in Nat \ {0} /\ a = b + c
    BY <1>2, <2>1
  <2>3. k * c > 0 /\ k * a = k * b + k * c
    BY <2>2
  <2>4. ~(k * a <= k * b)
    BY <2>2, <2>3
  <2>5. QED
    BY <1>2, <2>4
<1>3. QED
  BY <1>1, <1>2

\* Of any two one is at most the other, and what is at most something is at most what that
\* is at most.
LEMMA AtMostOrders ==
    ASSUME NEW S \in SUBSET Rational
    PROVE  Ordering(NoGreater, S)
<1>1. ASSUME NEW f \in S, NEW g \in S PROVE <<f, g>> \in NoGreater \/ <<g, f>> \in NoGreater
  <2>1. f \in Rational /\ g \in Rational
    OBVIOUS
  <2>2. PICK a \in Int, b \in Nat \ {0} : f = <<a, b>>
    BY <2>1 DEF Rational
  <2>3. PICK c \in Int, d \in Nat \ {0} : g = <<c, d>>
    BY <2>1 DEF Rational
  <2>4. PICK x, y : x = a * d /\ y = c * b
    OBVIOUS
  <2>5. x \in Int /\ y \in Int
    BY <2>4
  <2>6. (AtMost(f, g) <=> x <= y) /\ (AtMost(g, f) <=> y <= x)
    BY <2>2, <2>3, <2>4 DEF AtMost
  <2>7. AtMost(f, g) \/ AtMost(g, f)
    BY ONLY <2>5, <2>6
  <2>8. QED
    BY <2>1, <2>7 DEF NoGreater
<1>2. ASSUME NEW f \in S, NEW g \in S, NEW h \in S,
             <<f, g>> \in NoGreater, <<g, h>> \in NoGreater
      PROVE  <<f, h>> \in NoGreater
  <2>1. f \in Rational /\ g \in Rational /\ h \in Rational /\ AtMost(f, g) /\ AtMost(g, h)
    BY <1>2 DEF NoGreater
  <2>2. PICK a \in Int, b \in Nat \ {0} : f = <<a, b>>
    BY <2>1 DEF Rational
  <2>3. PICK c \in Int, d \in Nat \ {0} : g = <<c, d>>
    BY <2>1 DEF Rational
  <2>4. PICK x \in Int, y \in Nat \ {0} : h = <<x, y>>
    BY <2>1 DEF Rational
  <2>5. PICK ad, cb, cy, xd, ay, xb :
           ad = a * d /\ cb = c * b /\ cy = c * y /\ xd = x * d /\ ay = a * y /\ xb = x * b
    OBVIOUS
  <2>6. ad \in Int /\ cb \in Int /\ cy \in Int /\ xd \in Int /\ ay \in Int /\ xb \in Int
    BY <2>5
  <2>7. ad <= cb /\ cy <= xd
    BY <2>1, <2>2, <2>3, <2>4, <2>5 DEF AtMost
  <2>8. y * ad <= y * cb /\ b * cy <= b * xd
    BY <2>6, <2>7, ProductOrder
  <2>9. y * ad = d * ay /\ y * cb = b * cy /\ b * xd = d * xb
    BY <2>5
  <2>10. d * ay <= d * xb
    <3>1. PICK u, v, w : u = d * ay /\ v = b * cy /\ w = d * xb
      OBVIOUS
    <3>2. u \in Int /\ v \in Int /\ w \in Int
      BY <2>6, <3>1
    <3>3. u <= v /\ v <= w
      BY ONLY <2>8, <2>9, <3>1
    <3>4. u <= w
      BY ONLY <3>2, <3>3
    <3>5. QED
      BY <3>1, <3>4
  <2>11. ay <= xb
    BY <2>6, <2>10, ProductOrder
  <2>12. AtMost(f, h)
    BY <2>2, <2>4, <2>5, <2>11 DEF AtMost
  <2>13. QED
    BY <2>1, <2>12 DEF NoGreater
<1>3. QED
  BY <1>1, <1>2 DEF Ordering

\* The peak so far.
LEMMA PeakNow ==
    ASSUME NEW n \in Nat, NEW e \in [1 .. n -> Int], NEW i \in 1 .. n
    PROVE  /\ Analysis!Max({e[k] : k \in 1 .. i}) \in Int
           /\ PeakIs(e, i, Analysis!Max({e[k] : k \in 1 .. i}))
           /\ \A x \in Int : PeakIs(e, i, x) => Analysis!Max({e[k] : k \in 1 .. i}) = x
<1>1. PICK S, D : S = {e[k] : k \in 1 .. i} /\ D = 1 .. i
  OBVIOUS
<1>2. S \in SUBSET Int /\ S # {}
  BY <1>1
<1>3. IsFiniteSet(S)
  <2>1. IsFiniteSet(D)
    BY <1>1, FS_Interval
  <2>2. IsFiniteSet({e[k] : k \in D})
    BY <2>1, ImageFinite
  <2>3. QED
    BY <1>1, <2>2
<1>4. Max(S) \in S /\ \A x \in S : x <= Max(S)
  BY <1>2, <1>3, Extremes
<1>5. PICK m : m = Max(S)
  OBVIOUS
<1>6. m \in Int /\ PeakIs(e, i, m)
  BY <1>1, <1>2, <1>4, <1>5 DEF PeakIs
<1>7. ASSUME NEW x \in Int, PeakIs(e, i, x) PROVE m = x
  <2>1. x \in S /\ \A y \in S : y <= x
    BY <1>1, <1>7 DEF PeakIs
  <2>2. QED
    BY <1>2, <1>5, <2>1, ExtremeIs
<1>8. QED
  BY <1>1, <1>5, <1>6, <1>7, FiguresExtremes

\* The percentage of the drawdown is no greater than that of the risk figures.
LEMMA PercentBelow ==
    ASSUME NEW n \in Nat \ {0}, NEW e \in [1 .. n -> Int], NEW percent, PercentFrom(e, n, percent)
    PROVE  Analysis!AtMost(percent, Analysis!GetMaxDrawdownPct(e))
<1> DEFINE Peak(i) == Analysis!Max({e[k] : k \in 1 .. i})
           Fall == {Analysis!PercentOf(Peak(i) - e[i], Peak(i)) : i \in 1 .. n}
<1>1. \A i \in 1 .. n : Peak(i) \in Int /\ e[i] \in Int /\ PeakIs(e, i, Peak(i))
  BY PeakNow
<1>2. Fall \in SUBSET Rational /\ Fall # {}
  <2>1. ASSUME NEW i \in 1 .. n PROVE Analysis!PercentOf(Peak(i) - e[i], Peak(i)) \in Rational
    <3>1. PICK x : x = Peak(i)
      OBVIOUS
    <3>2. x \in Int /\ x - e[i] \in Int
      <4> HIDE DEF Peak
      <4> QED
        BY <1>1, <3>1
    <3>3. Analysis!PercentOf(x - e[i], x) \in Rational
      BY <3>2, PercentType
    <3>4. QED
      BY <3>1, <3>3
  <2>2. 1 \in 1 .. n
    OBVIOUS
  <2>3. QED
    BY <2>1, <2>2
<1>3. IsFiniteSet(Fall)
  <2>1. PICK f, D : f = [i \in 1 .. n |-> Analysis!PercentOf(Peak(i) - e[i], Peak(i))] /\ D = 1 .. n
    OBVIOUS
  <2>2. IsFiniteSet(D)
    BY <2>1, FS_Interval
  <2>3. IsFiniteSet({f[i] : i \in D})
    BY <2>2, ImageFinite
  <2>4. {f[i] : i \in D} = Fall
    BY <2>1
  <2>5. QED
    BY <2>3, <2>4
<1>4. PICK most : most = CHOOSE f \in Fall : \A g \in Fall : Analysis!AtMost(g, f)
  OBVIOUS
<1>5. Analysis!GetMaxDrawdownPct(e) = most
  <2>1. DOMAIN e = 1 .. n
    OBVIOUS
  <2>2. QED
    BY <1>4, <2>1 DEF Analysis!GetMaxDrawdownPct
<1>6. PICK k \in 1 .. n, x \in Int :
         PeakIs(e, k, x) /\ (percent = Whole(0) \/ percent = Analysis!PercentOf(x - e[k], x))
  BY DEF PercentFrom
<1>7. Peak(k) = x
  BY <1>6, PeakNow
<1>8. Analysis!PercentOf(x - e[k], x) \in Fall
  BY <1>7
<1>9. PICK z : z = Analysis!PercentOf(x - e[k], x)
  OBVIOUS
<1>10. e[k] \in Int /\ e[k] <= x
  BY <1>6 DEF PeakIs
<1> HIDE DEF Fall, Peak
<1>11. \E f \in Fall : \A g \in Fall : <<g, f>> \in NoGreater
  BY <1>2, <1>3, AtMostOrders, LastExists
<1>12. most \in Fall /\ \A g \in Fall : AtMost(g, most)
  <2>1. \E f \in Fall : \A g \in Fall : Analysis!AtMost(g, f)
    BY <1>11, AnalysisFractions DEF NoGreater
  <2>2. most \in Fall /\ \A g \in Fall : Analysis!AtMost(g, most)
    BY <1>4, <2>1
  <2>3. QED
    BY <2>2, AnalysisFractions
<1>13. z \in Rational /\ most \in Rational /\ AtMost(z, most)
  BY <1>2, <1>8, <1>9, <1>12
<1>14. AtMost(Whole(0), z)
  <2>1. PICK y : y = x - e[k]
    OBVIOUS
  <2>2. y \in Int /\ y >= 0
    BY <1>10, <2>1
  <2>3. CASE x > 0
    <3>1. z = Fraction(100 * y, x)
      BY <1>9, <2>1, <2>3, AnalysisFractions DEF Analysis!PercentOf
    <3>2. PICK one, zero, w : one = 1 /\ zero = 0 /\ w = 100 * y
      OBVIOUS
    <3>3. Whole(zero) = Fraction(zero * one, one)
      BY <3>2, WholeFraction
    <3>4. zero * one = zero
      BY <3>2
    <3>5. AtMost(Fraction(zero, one), Fraction(w, x)) <=> zero * x <= w * one
      BY <2>2, <2>3, <3>2, FractionOrder
    <3>6. zero * x <= w * one
      BY <2>2, <3>2
    <3>7. QED
      BY <3>1, <3>2, <3>3, <3>4, <3>5, <3>6
  <2>4. CASE ~(x > 0)
    <3>1. z = Whole(0)
      BY <1>9, <2>4, AnalysisFractions DEF Analysis!PercentOf
    <3>2. QED
      BY <3>1 DEF AtMost, Whole
  <2>5. QED
    BY <2>3, <2>4
<1>15. AtMost(percent, most)
  <2>1. CASE percent = z
    BY <1>13, <2>1
  <2>2. CASE percent = Whole(0)
    <3>1. PICK T : T = {percent, z, most}
      OBVIOUS
    <3>2. T \in SUBSET Rational
      BY <1>13, <2>2, <3>1, FractionRational
    <3>3. Ordering(NoGreater, T)
      BY <3>2, AtMostOrders
    <3>4. <<percent, z>> \in NoGreater /\ <<z, most>> \in NoGreater
      BY <1>13, <1>14, <2>2, <3>1, <3>2 DEF NoGreater
    <3>5. <<percent, most>> \in NoGreater
      BY <3>1, <3>3, <3>4 DEF Ordering
    <3>6. QED
      BY <3>5 DEF NoGreater
  <2>3. QED
    BY <1>6, <1>9, <2>1, <2>2
<1>16. QED
  BY <1>5, <1>15, AnalysisFractions

-----------------------------------------------------------------------------
(* The analytics. *)

\* The results are trades, and the curve has values.
ResultsKnown == results \in Seq(Results) /\ equity_curve \in Seq(Equities)

\* Their profits are whole.
LEMMA ProfitsAre ==
    ASSUME ResultsKnown
    PROVE  \E n \in Nat : /\ Len(results) = n /\ DOMAIN results = 1 .. n
                          /\ Analysis!Profits \in [1 .. n -> Int]
                          /\ (results = <<>> <=> n = 0)
                          /\ \A i \in 1 .. n : /\ results[i] \in Results
                                               /\ Analysis!Profits[i]
                                                    = results[i].exit - results[i].entry
<1>1. PICK n : n = Len(results)
  OBVIOUS
<1>2. /\ n \in Nat /\ DOMAIN results = 1 .. n /\ (results = <<>> <=> n = 0)
      /\ \A i \in 1 .. n : results[i] \in Results
  BY <1>1 DEF ResultsKnown
<1>3. \A i \in 1 .. n : results[i].exit \in Int /\ results[i].entry \in Int
  BY <1>2, ResultAmounts
<1>4. /\ Analysis!Profits \in [1 .. n -> Int]
      /\ \A i \in 1 .. n : Analysis!Profits[i] = results[i].exit - results[i].entry
  BY <1>2, <1>3 DEF Analysis!Profits, Analysis!Pnl
<1>5. QED
  BY <1>1, <1>2, <1>4

\* A sum of whole numbers at finitely many positions.
LEMMA TotalIs ==
    /\ \A s, S : Analysis!Total(s, S) = SumFunctionOnSet(s, S)
    /\ \A n \in Nat : \A s \in [1 .. n -> Int], S \in SUBSET (1 .. n) :
         IsFiniteSet(S) /\ SumFunctionOnSet(s, S) \in Int
<1>1. \A s, S : Analysis!Total(s, S) = SumFunctionOnSet(s, S)
  BY AnalysisSums DEF Analysis!Total
<1>2. ASSUME NEW n \in Nat, NEW s \in [1 .. n -> Int], NEW S \in SUBSET (1 .. n)
      PROVE  IsFiniteSet(S) /\ SumFunctionOnSet(s, S) \in Int
  <2>1. IsFiniteSet(1 .. n)
    BY FS_Interval
  <2>2. IsFiniteSet(S) /\ \A x \in S : s[x] \in Int
    BY <2>1, FS_Subset
  <2>3. QED
    BY <2>2, SumType
<1>3. QED
  BY <1>1, <1>2

\* The values of the curve are whole.
LEMMA CurveIs ==
    ASSUME ResultsKnown
    PROVE  \E m \in Nat : /\ Len(equity_curve) = m /\ equity_curve \in [1 .. m -> Int]
                          /\ (equity_curve = <<>> <=> m = 0)
<1>1. PICK m : m = Len(equity_curve)
  OBVIOUS
<1>2. /\ m \in Nat /\ DOMAIN equity_curve = 1 .. m /\ (equity_curve = <<>> <=> m = 0)
      /\ \A i \in 1 .. m : equity_curve[i] \in Equities
  BY <1>1 DEF ResultsKnown
<1>3. \A i \in 1 .. m : equity_curve[i] \in Int
  <2>1. Equities \in SUBSET Int
    BY ResultAmounts
  <2>2. QED
    BY <1>2, <2>1
<1>4. equity_curve \in [1 .. m -> Int]
  BY <1>2, <1>3 DEF ResultsKnown
<1>5. QED
  BY <1>1, <1>2, <1>4

\* What is won and what is lost is all.
LEMMA WonAndLost ==
    ASSUME NEW n \in Nat, NEW p \in [1 .. n -> Int]
    PROVE  SumFunctionOnSet(p, 1 .. n)
             = SumFunctionOnSet(p, Analysis!Winning(p)) + SumFunctionOnSet(p, Analysis!Losing(p))
<1>1. PICK W, L, Z, D, R : /\ W = {i \in 1 .. n : p[i] > 0} /\ L = {i \in 1 .. n : p[i] < 0}
                           /\ Z = {i \in 1 .. n : p[i] = 0} /\ D = 1 .. n /\ R = D \ W
  OBVIOUS
<1>2. Analysis!Winning(p) = W /\ Analysis!Losing(p) = L
  BY <1>1 DEF Analysis!Winning, Analysis!Losing
<1>3. IsFiniteSet(D) /\ \A i \in D : p[i] \in Int
  BY <1>1, FS_Interval
<1>4. W \in SUBSET D /\ L \in SUBSET R /\ R \in SUBSET D /\ R \ L = Z
  BY <1>1
<1>5. IsFiniteSet(R) /\ (\A i \in R : p[i] \in Int)
  BY <1>3, <1>4, FS_Subset
<1>6. SumFunctionOnSet(p, D) = SumFunctionOnSet(p, W) + SumFunctionOnSet(p, R)
  BY <1>1, <1>3, <1>4, SumParts
<1>7. SumFunctionOnSet(p, R) = SumFunctionOnSet(p, L) + SumFunctionOnSet(p, Z)
  BY <1>4, <1>5, SumParts
<1>8. SumFunctionOnSet(p, Z) = 0
  <2>1. IsFiniteSet(Z)
    BY <1>4, <1>5, FS_Subset
  <2>2. (\A i \in Z : p[i] \in Nat) /\ \A i \in Z : p[i] = 0
    BY <1>1
  <2>3. QED
    BY <2>1, <2>2, SumNatural
<1>9. W \in SUBSET (1 .. n) /\ L \in SUBSET (1 .. n)
  BY <1>1
<1>10. SumFunctionOnSet(p, W) \in Int /\ SumFunctionOnSet(p, L) \in Int
  BY <1>9, TotalIs
<1>11. SumFunctionOnSet(p, D) = SumFunctionOnSet(p, W) + SumFunctionOnSet(p, L)
  BY ONLY <1>6, <1>7, <1>8, <1>10
<1>12. QED
  BY <1>1, <1>2, <1>11

\* Results of one kind, from one to another.
Alike(p, i, j) == \A k \in i .. j : Analysis!Kind(p[k]) = Analysis!Kind(p[i])

\* The longest run of results of one kind is as long as the longest counted.
RunsCounted(p, n, longest) ==
    /\ longest \in Nat
    /\ \A i, j \in 1 .. n : Alike(p, i, j) => j - i + 1 <= longest
    /\ n > 0 => \E i, j \in 1 .. n : Alike(p, i, j) /\ j - i + 1 = longest

\* The runs are counted along the results.
LEMMA RunsAre ==
    ASSUME NEW n \in Nat, NEW p \in [1 .. n -> Int]
    PROVE  \E longest : /\ RunsCounted(p, n, longest)
                        /\ Analysis!AnalyzeWinRate(p).max_consecutive_wins = longest
                        /\ Analysis!AnalyzeWinRate(p).max_consecutive_losses = longest
<1> DEFINE Same(i) == i > 1 /\ Analysis!Kind(p[i]) = Analysis!Kind(p[i - 1])
           Is(f) == f = [i \in 0 .. n |-> IF i = 0 THEN 0
                                          ELSE IF i > 1 /\ Analysis!Kind(p[i])
                                                             = Analysis!Kind(p[i - 1])
                                               THEN f[i - 1] + 1 ELSE 1]
<1>1. Len(p) = n
  OBVIOUS
<1>2. PICK A : A = CHOOSE f : Is(f)
  OBVIOUS
<1>3. \E f : Is(f)
  <2>1. PICK V, base, step :
           /\ V = Nat /\ base = 0
           /\ step = [q \in (1 .. n) \X V |-> IF Same(q[1]) THEN q[2] + 1 ELSE 1]
    OBVIOUS
  <2> HIDE DEF Same
  <2>2. base \in V /\ step \in [(1 .. n) \X V -> V]
    BY <2>1
  <2>3. PICK f \in [0 .. n -> V] : FromZero(f, n, base, step)
    BY ONLY n \in Nat, <2>2, FromZeroExists
  <2>4. ASSUME NEW i \in 0 .. n
        PROVE  f[i] = IF i = 0 THEN 0 ELSE IF Same(i) THEN f[i - 1] + 1 ELSE 1
    <3>1. f[i] = IF i = 0 THEN base ELSE step[<<i, f[i - 1]>>]
      BY <2>3 DEF FromZero
    <3>2. i # 0 => i - 1 \in 0 .. n /\ i \in 1 .. n
      OBVIOUS
    <3>3. i # 0 => f[i - 1] \in V
      BY <2>3, <3>2
    <3>4. QED
      BY <2>1, <3>1, <3>2, <3>3
  <2>5. Is(f)
    BY <2>3, <2>4 DEF Same
  <2>6. QED
    BY <2>5
<1>4. Is(A)
  BY <1>2, <1>3
<1>5. A[0] = 0 /\ \A i \in 1 .. n : A[i] = IF Same(i) THEN A[i - 1] + 1 ELSE 1
  BY <1>4
<1>6. PICK S : S = {A[i] : i \in 0 .. n}
  OBVIOUS
<1>7. /\ Analysis!AnalyzeWinRate(p).max_consecutive_wins = Analysis!Max(S)
      /\ Analysis!AnalyzeWinRate(p).max_consecutive_losses = Analysis!Max(S)
  BY <1>1, <1>2, <1>6 DEF Analysis!AnalyzeWinRate
<1> HIDE DEF Is
<1>8. \A i \in 0 .. n : A[i] \in Nat
  <2> DEFINE G == {i \in Nat : i \in 0 .. n => A[i] \in Nat}
  <2>1. 0 \in G
    BY <1>5
  <2>2. ASSUME NEW i \in Nat, i \in G PROVE i + 1 \in G
    <3>1. PICK m : m = i + 1
      OBVIOUS
    <3>2. m \in 0 .. n => m \in 1 .. n /\ A[i] \in Nat /\ m - 1 = i
      BY <2>2, <3>1
    <3>3. m \in 0 .. n => A[m] \in Nat
      <4> HIDE DEF Same
      <4> QED
        BY <1>5, <3>2
    <3>4. QED
      BY <3>1, <3>3
  <2> HIDE DEF G
  <2>3. \A i \in Nat : i \in G
    BY <2>1, <2>2, NumberInduction
  <2>4. QED
    BY <2>3 DEF G
<1>9. PICK longest : longest = Max(S)
  OBVIOUS
<1>10. longest \in Nat /\ (\A i \in 0 .. n : A[i] <= longest) /\ longest \in S
  <2>1. PICK D : D = 0 .. n
    OBVIOUS
  <2>2. IsFiniteSet(D)
    BY <2>1, FS_Interval
  <2>3. IsFiniteSet({A[i] : i \in D})
    BY <2>2, ImageFinite
  <2>4. IsFiniteSet(S) /\ S \in SUBSET Int /\ S # {} /\ S \subseteq Nat
    BY <1>6, <1>8, <2>1, <2>3
  <2>5. longest \in S /\ \A x \in S : x <= longest
    BY <1>9, <2>4, Extremes
  <2>6. QED
    BY <1>6, <2>4, <2>5
<1>11. ASSUME NEW i \in 1 .. n, NEW j \in 1 .. n, Alike(p, i, j)
       PROVE  j - i + 1 <= longest
  <2> DEFINE G == {l \in Nat : i + l <= j => A[i + l] >= l + 1}
  <2>1. 0 \in G
    <3>1. A[i] = IF Same(i) THEN A[i - 1] + 1 ELSE 1
      BY <1>5
    <3>2. i - 1 \in 0 .. n
      OBVIOUS
    <3>3. A[i - 1] \in Nat
      BY <1>8, <3>2
    <3>4. A[i] >= 1 /\ i + 0 = i
      <4> HIDE DEF Same
      <4> QED
        BY <3>1, <3>3
    <3>5. QED
      BY <3>4
  <2>2. ASSUME NEW l \in Nat, l \in G PROVE l + 1 \in G
    <3>1. PICK k, m : k = i + l /\ m = k + 1
      OBVIOUS
    <3>2. SUFFICES ASSUME m <= j PROVE A[m] >= l + 2
      BY <3>1
    <3>3. k \in i .. j /\ m \in i .. j /\ m \in 1 .. n /\ m - 1 = k /\ m > 1 /\ k \in 0 .. n
      BY <3>1, <3>2
    <3>4. Analysis!Kind(p[k]) = Analysis!Kind(p[m])
      BY <1>11, <3>3 DEF Alike
    <3>5. Same(m)
      BY <3>3, <3>4
    <3>6. A[k] >= l + 1 /\ A[k] \in Nat
      BY <1>8, <2>2, <3>1, <3>3
    <3>7. A[m] = A[k] + 1
      <4> HIDE DEF Same
      <4> QED
        BY <1>5, <3>3, <3>5
    <3>8. QED
      BY <3>6, <3>7
  <2> HIDE DEF G
  <2>3. \A l \in Nat : l \in G
    BY <2>1, <2>2, NumberInduction
  <2>4. CASE i <= j
    <3>1. PICK l : l = j - i
      OBVIOUS
    <3>2. l \in Nat /\ i + l = j
      BY <2>4, <3>1
    <3>3. A[j] >= l + 1
      BY <2>3, <3>2 DEF G
    <3>4. A[j] <= longest /\ A[j] \in Nat
      BY <1>8, <1>10
    <3>5. QED
      BY <1>10, <3>1, <3>3, <3>4
  <2>5. CASE ~(i <= j)
    BY <1>10, <2>5
  <2>6. QED
    BY <2>4, <2>5
<1> DEFINE Back(i) == /\ A[i] >= 1 /\ A[i] <= i
                      /\ \A k \in i - A[i] + 1 .. i :
                            Analysis!Kind(p[k]) = Analysis!Kind(p[i])
<1>12. \A i \in 1 .. n : Back(i)
  <2> DEFINE G == {i \in Nat : i \in 1 .. n => Back(i)}
  <2>1. 0 \in G
    OBVIOUS
  <2>2. ASSUME NEW i \in Nat, i \in G PROVE i + 1 \in G
    <3>1. PICK m : m = i + 1
      OBVIOUS
    <3>2. SUFFICES ASSUME m \in 1 .. n PROVE Back(m)
      BY <3>1
    <3>3. m - 1 = i /\ m \in Nat /\ i \in 0 .. n /\ A[i] \in Nat
      BY <1>8, <3>1, <3>2
    <3>4. CASE Same(m)
      <4>1. A[m] = A[i] + 1
        <5> HIDE DEF Same
        <5> QED
          BY <1>5, <3>2, <3>3, <3>4
      <4>2. i > 0 /\ Analysis!Kind(p[m]) = Analysis!Kind(p[i])
        BY <3>1, <3>3, <3>4
      <4>3. i \in 1 .. n
        BY <3>3, <4>2
      <4>4. Back(i)
        BY <2>2, <4>3
      <4>5. ASSUME NEW k \in m - A[m] + 1 .. m
            PROVE  Analysis!Kind(p[k]) = Analysis!Kind(p[m])
        <5>1. k = m \/ k \in i - A[i] + 1 .. i
          BY <3>1, <3>3, <4>1
        <5>2. QED
          BY <4>2, <4>4, <5>1
      <4>6. A[m] >= 1 /\ A[m] <= m
        BY <3>1, <3>3, <4>1, <4>4
      <4>7. QED
        BY <4>5, <4>6
    <3>5. CASE ~Same(m)
      <4>1. A[m] = 1
        <5> HIDE DEF Same
        <5> QED
          BY <1>5, <3>2, <3>5
      <4>2. \A k \in m - A[m] + 1 .. m : k = m
        BY <3>3, <4>1
      <4>3. QED
        BY <3>2, <4>1, <4>2
    <3>6. QED
      BY <3>4, <3>5
  <2> HIDE DEF G
  <2>3. \A i \in Nat : i \in G
    BY <2>1, <2>2, NumberInduction
  <2>4. QED
    BY <2>3 DEF G
<1>13. ASSUME n > 0 PROVE \E i, j \in 1 .. n : Alike(p, i, j) /\ j - i + 1 = longest
  <2>1. PICK j \in 0 .. n : longest = A[j]
    BY <1>6, <1>10
  <2>2. 1 \in 1 .. n /\ 1 \in 0 .. n
    BY <1>13
  <2>3. A[1] >= 1 /\ A[1] <= longest /\ A[1] \in Nat
    BY <1>8, <1>10, <1>12, <2>2
  <2>4. longest >= 1
    BY <1>10, <2>3
  <2>5. j # 0
    BY <1>5, <2>1, <2>4
  <2>6. j \in 1 .. n
    BY <2>1, <2>5
  <2>7. Back(j)
    BY <1>12, <2>6
  <2>8. PICK i : i = j - longest + 1
    OBVIOUS
  <2>9. i \in 1 .. n /\ i \in i .. j /\ j - i + 1 = longest
    BY <1>10, <2>1, <2>4, <2>6, <2>7, <2>8
  <2>10. \A k \in i .. j : Analysis!Kind(p[k]) = Analysis!Kind(p[j])
    BY <2>1, <2>7, <2>8
  <2>11. Alike(p, i, j)
    BY <2>9, <2>10 DEF Alike
  <2>12. QED
    BY <2>6, <2>9, <2>11
<1>14. RunsCounted(p, n, longest)
  BY <1>10, <1>11, <1>13 DEF RunsCounted
<1>15. QED
  BY <1>7, <1>9, <1>14, FiguresExtremes

\* What is reported when nothing raises.
LEMMA GenerateIs ==
    ASSUME ~Analysis!Generate.raised
    PROVE  /\ Analysis!Generate.total_return
                = IF equity_curve = <<>> THEN 0
                  ELSE Analysis!Last(equity_curve) - InitialCapital
           /\ Analysis!Generate.profit = Analysis!AnalyzeProfit(Analysis!Profits)
           /\ Analysis!Generate.drawdown = Analysis!AnalyzeDrawdown(equity_curve)
           /\ Analysis!Generate.win_rate = Analysis!AnalyzeWinRate(Analysis!Profits)
           /\ Analysis!Generate.risk = Analysis!AnalyzeRisk(equity_curve)
           /\ Analysis!Generate.trades =
                IF results = <<>> THEN {} ELSE {Analysis!AnalyzeTradeHistory(results)}
<1>1. CASE results # <<>> /\ ( \/ Analysis!Winning(Analysis!Profits) = {}
                               \/ Analysis!Losing(Analysis!Profits) = {})
  <2>1. Analysis!Generate = [raised |-> TRUE]
    BY <1>1 DEF Analysis!Generate, Analysis!Raised
  <2>2. QED
    BY <2>1
<1>2. CASE ~(results # <<>> /\ ( \/ Analysis!Winning(Analysis!Profits) = {}
                                 \/ Analysis!Losing(Analysis!Profits) = {}))
  <2>1. PICK a, b, c, d, f, h :
          /\ a = IF equity_curve = <<>> THEN 0
                 ELSE Analysis!Last(equity_curve) - InitialCapital
          /\ b = Analysis!AnalyzeProfit(Analysis!Profits)
          /\ c = Analysis!AnalyzeDrawdown(equity_curve)
          /\ d = Analysis!AnalyzeWinRate(Analysis!Profits)
          /\ f = Analysis!AnalyzeRisk(equity_curve)
          /\ h = IF results = <<>> THEN {} ELSE {Analysis!AnalyzeTradeHistory(results)}
    OBVIOUS
  <2>2. Analysis!Generate = [raised |-> FALSE, total_return |-> a, profit |-> b, drawdown |-> c,
                             win_rate |-> d, risk |-> f, trades |-> h]
    BY <1>2, <2>1 DEF Analysis!Generate
  <2>3. QED
    BY <2>1, <2>2
<1>3. QED
  BY <1>1, <1>2

\* The figures of profits.
LEMMA ProfitIs ==
    ASSUME NEW n \in Nat, NEW p \in [1 .. n -> Int]
    PROVE  /\ Analysis!AnalyzeProfit(p).net_profit = SumFunctionOnSet(p, 1 .. n)
           /\ Analysis!AnalyzeProfit(p).total_profit = SumFunctionOnSet(p, Analysis!Winning(p))
           /\ Analysis!AnalyzeProfit(p).total_loss = SumFunctionOnSet(p, Analysis!Losing(p))
<1>1. DOMAIN p = 1 .. n
  OBVIOUS
<1>2. QED
  BY <1>1, TotalIs DEF Analysis!AnalyzeProfit

\* The percentage among the figures of risk.
LEMMA RiskIs ==
    ASSUME NEW e
    PROVE  Analysis!AnalyzeRisk(e).max_drawdown_pct =
             IF 1 .. Len(e) - 1 = {} THEN Analysis!Whole(0) ELSE Analysis!GetMaxDrawdownPct(e)
BY DEF Analysis!AnalyzeRisk

\* The falls between two points of a curve have no greater one than the drawdown.
LEMMA FallsAre ==
    ASSUME NEW m \in Nat, NEW e \in [1 .. m -> Int], NEW depth \in Int, GreatestFall(e, m, depth)
    PROVE  Analysis!Max({0} \cup UNION {{e[i] - e[j] : j \in i .. m} : i \in 1 .. m}) = depth
<1>1. PICK S : S = UNION {{e[i] - e[j] : j \in i .. m} : i \in 1 .. m}
  OBVIOUS
<1>2. S \in SUBSET Int
  <2>1. ASSUME NEW x \in S PROVE x \in Int
    <3>1. PICK i \in 1 .. m : x \in {e[i] - e[j] : j \in i .. m}
      BY <1>1
    <3>2. PICK j \in i .. m : x = e[i] - e[j]
      BY <3>1
    <3>3. j \in 1 .. m /\ e[i] \in Int
      BY <3>2
    <3>4. QED
      BY <3>2, <3>3
  <2>2. QED
    BY <2>1
<1>3. PICK a \in 1 .. m, b \in 1 .. m : a <= b /\ e[a] - e[b] = depth
  BY DEF GreatestFall
<1>4. depth \in S
  <2>1. b \in a .. m
    BY <1>3
  <2>2. QED
    BY <1>1, <1>3, <2>1
<1>5. \A x \in S : x <= depth
  <2>1. ASSUME NEW x \in S PROVE x <= depth
    <3>1. PICK i \in 1 .. m : x \in {e[i] - e[j] : j \in i .. m}
      BY <1>1
    <3>2. PICK j \in i .. m : x = e[i] - e[j]
      BY <3>1
    <3>3. j \in 1 .. m /\ i <= j
      BY <3>2
    <3>4. QED
      BY <3>2, <3>3 DEF GreatestFall
  <2>2. QED
    BY <2>1
<1>6. 0 <= depth
  <2>1. e[a] - e[a] = 0 /\ a \in a .. m
    BY <1>3
  <2>2. 0 \in {e[a] - e[j] : j \in a .. m}
    BY <2>1
  <2>3. 0 \in S
    BY <1>1, <1>3, <2>2
  <2>4. QED
    BY <1>5, <2>3
<1>7. PICK T : T = {0} \cup S
  OBVIOUS
<1>8. T \in SUBSET Int /\ depth \in T /\ \A x \in T : x <= depth
  BY <1>2, <1>4, <1>5, <1>6, <1>7
<1>9. Max(T) = depth
  BY <1>8, ExtremeIs
<1>10. QED
  BY <1>1, <1>7, <1>9, FiguresExtremes

\* The percentage of the drawdown of a single value is nothing.
LEMMA SingleIs ==
    ASSUME NEW e \in [1 .. 1 -> Int], NEW percent, PercentFrom(e, 1, percent)
    PROVE  Analysis!AtMost(percent, Analysis!Whole(0))
<1>1. PICK k \in 1 .. 1, x \in Int :
         PeakIs(e, k, x) /\ (percent = Whole(0) \/ percent = Analysis!PercentOf(x - e[k], x))
  BY DEF PercentFrom
<1>2. k = 1
  OBVIOUS
<1>3. x = e[1] /\ x - e[k] = 0
  BY <1>1, <1>2 DEF PeakIs
<1>4. PICK one, zero : one = 1 /\ zero = 0
  OBVIOUS
<1>5. AtMost(Whole(0), Whole(0))
  BY DEF AtMost, Whole
<1>6. CASE percent = Whole(0)
  BY <1>5, <1>6, AnalysisFractions
<1>7. CASE percent = Analysis!PercentOf(x - e[k], x) /\ x > 0
  <2>1. percent = Fraction(100 * zero, x)
    BY <1>3, <1>4, <1>7, AnalysisFractions DEF Analysis!PercentOf
  <2>2. 100 * zero = zero /\ zero * one = zero
    BY <1>4
  <2>3. Whole(zero) = Fraction(zero * one, one)
    BY <1>4, WholeFraction
  <2>4. AtMost(Fraction(zero, x), Fraction(zero, one)) <=> zero * one <= zero * x
    BY <1>4, <1>7, FractionOrder
  <2>5. zero * one <= zero * x
    BY <1>4, <1>7
  <2>6. QED
    BY <1>4, <2>1, <2>2, <2>3, <2>4, <2>5, AnalysisFractions
<1>8. CASE percent = Analysis!PercentOf(x - e[k], x) /\ ~(x > 0)
  BY <1>5, <1>8, AnalysisFractions DEF Analysis!PercentOf
<1>9. QED
  BY <1>1, <1>6, <1>7, <1>8

\* What the figures of a curve have to do with it.
CurveAgrees(e, return, drawdown, percent) ==
    /\ e # <<>> =>
         return + drawdown.current_drawdown = Analysis!Max(Analysis!ToSet(e)) - InitialCapital
    /\ drawdown.max_drawdown
         = Analysis!Max({0} \cup UNION {{e[i] - e[j] : j \in i .. Len(e)} : i \in DOMAIN e})
    /\ Analysis!AtMost(drawdown.max_drawdown_pct, percent)
    /\ {drawdown.drawdown_periods[k].end : k \in DOMAIN drawdown.drawdown_periods}
         = {i \in DOMAIN e : NewPeak(e, i) /\ ~NewPeak(e, i - 1)}

\* They have, when it has no value.
LEMMA NothingAgrees ==
    ASSUME NEW e, e = <<>>, NEW return
    PROVE  CurveAgrees(e, return, Analysis!AnalyzeDrawdown(e),
                       Analysis!AnalyzeRisk(e).max_drawdown_pct)
<1>1. Len(e) = 0 /\ DOMAIN e = {}
  OBVIOUS
<1>2. Analysis!AnalyzeRisk(e).max_drawdown_pct = Whole(0)
  <2>1. 1 .. Len(e) - 1 = {}
    BY <1>1
  <2>2. QED
    BY <2>1, RiskIs, AnalysisFractions
<1>3. PICK d : d = Analysis!AnalyzeDrawdown(e)
  OBVIOUS
<1>4. d.max_drawdown = 0 /\ d.max_drawdown_pct = Whole(0) /\ d.drawdown_periods = <<>>
  BY <1>3, AnalysisFractions DEF Analysis!AnalyzeDrawdown, Analysis!NoDrawdown
<1>5. Analysis!Max({0} \cup UNION {{e[i] - e[j] : j \in i .. Len(e)} : i \in DOMAIN e}) = 0
  <2>1. PICK S : S = {0} \cup UNION {{e[i] - e[j] : j \in i .. Len(e)} : i \in DOMAIN e}
    OBVIOUS
  <2>2. S = {0}
    BY <1>1, <2>1
  <2>3. Max(S) = 0
    BY <2>2, ExtremeIs
  <2>4. QED
    BY <2>1, <2>3, FiguresExtremes
<1>6. Analysis!AtMost(d.max_drawdown_pct, Whole(0))
  BY <1>4, AnalysisFractions DEF AtMost, Whole
<1>7. {d.drawdown_periods[k].end : k \in DOMAIN d.drawdown_periods}
        = {i \in DOMAIN e : NewPeak(e, i) /\ ~NewPeak(e, i - 1)}
  BY <1>1, <1>4
<1>8. QED
  BY <1>2, <1>3, <1>4, <1>5, <1>6, <1>7 DEF CurveAgrees

\* They have, when it has some.
LEMMA SomeAgree ==
    ASSUME NEW m \in Nat \ {0}, NEW e \in [1 .. m -> Int]
    PROVE  CurveAgrees(e, Analysis!Last(e) - InitialCapital, Analysis!AnalyzeDrawdown(e),
                       Analysis!AnalyzeRisk(e).max_drawdown_pct)
<1>1. DOMAIN e = 1 .. m /\ Len(e) = m /\ e # <<>>
  OBVIOUS
<1>2. PICK drawdown : drawdown = Analysis!AnalyzeDrawdown(e)
  OBVIOUS
<1>3. PICK d : /\ DrawdownKnown(e, m, d)
               /\ drawdown.max_drawdown = d.depth /\ drawdown.max_drawdown_pct = d.percent
               /\ drawdown.drawdown_periods = d.periods
               /\ drawdown.current_drawdown = d.peak - e[m]
  BY <1>2, DrawdownIs
<1>4. Analysis!Last(e) - InitialCapital + drawdown.current_drawdown
        = Analysis!Max(Analysis!ToSet(e)) - InitialCapital
  <2>1. Analysis!Last(e) = e[m]
    BY <1>1 DEF Analysis!Last
  <2>2. PICK peak : peak = d.peak
    OBVIOUS
  <2>3. peak \in Int /\ PeakIs(e, m, peak)
    BY <1>3, <2>2 DEF DrawdownKnown, Drawdowns
  <2>4. m \in 1 .. m /\ e[m] \in Int
    OBVIOUS
  <2>5. Analysis!Max({e[k] : k \in 1 .. m}) = peak
    BY <2>3, <2>4, PeakNow
  <2>6. Analysis!ToSet(e) = {e[k] : k \in 1 .. m}
    BY <1>1 DEF Analysis!ToSet
  <2>7. PICK x, y : x = e[m] /\ y = InitialCapital
    OBVIOUS
  <2>8. x - y + (peak - x) = peak - y
    BY <2>3, <2>4, <2>7, ResultAmounts
  <2>9. QED
    BY <1>3, <2>1, <2>2, <2>5, <2>6, <2>7, <2>8
<1>5. drawdown.max_drawdown
        = Analysis!Max({0} \cup UNION {{e[i] - e[j] : j \in i .. Len(e)} : i \in DOMAIN e})
  <2>1. PICK depth : depth = d.depth
    OBVIOUS
  <2>2. depth \in Int /\ GreatestFall(e, m, depth)
    BY <1>3, <2>1 DEF DrawdownKnown, Drawdowns
  <2>3. Analysis!Max({0} \cup UNION {{e[i] - e[j] : j \in i .. m} : i \in 1 .. m}) = depth
    BY <2>2, FallsAre
  <2>4. QED
    BY <1>1, <1>3, <2>1, <2>3
<1>6. Analysis!AtMost(drawdown.max_drawdown_pct, Analysis!AnalyzeRisk(e).max_drawdown_pct)
  <2>1. PICK percent : percent = d.percent
    OBVIOUS
  <2>2. PercentFrom(e, m, percent)
    BY <1>3, <2>1 DEF DrawdownKnown
  <2>3. CASE m = 1
    <3>1. 1 .. Len(e) - 1 = {}
      BY <1>1, <2>3
    <3>2. Analysis!AnalyzeRisk(e).max_drawdown_pct = Analysis!Whole(0)
      BY <3>1, RiskIs
    <3>3. Analysis!AtMost(percent, Analysis!Whole(0))
      <4>1. e \in [1 .. 1 -> Int] /\ PercentFrom(e, 1, percent)
        BY <2>2, <2>3
      <4>2. QED
        BY <4>1, SingleIs
    <3>4. QED
      BY <1>3, <2>1, <3>2, <3>3
  <2>4. CASE m # 1
    <3>1. 1 \in 1 .. Len(e) - 1
      BY <1>1, <2>4
    <3>2. Analysis!AnalyzeRisk(e).max_drawdown_pct = Analysis!GetMaxDrawdownPct(e)
      BY <3>1, RiskIs
    <3>3. Analysis!AtMost(percent, Analysis!GetMaxDrawdownPct(e))
      BY <2>2, PercentBelow
    <3>4. QED
      BY <1>3, <2>1, <3>2, <3>3
  <2>5. QED
    BY <2>3, <2>4
<1>7. {drawdown.drawdown_periods[k].end : k \in DOMAIN drawdown.drawdown_periods}
        = {i \in DOMAIN e : NewPeak(e, i) /\ ~NewPeak(e, i - 1)}
  <2>1. PICK q : q = drawdown.drawdown_periods
    OBVIOUS
  <2>2. EndsAre(e, m, q)
    BY <1>3, <2>1 DEF DrawdownKnown
  <2>3. {q[k].end : k \in DOMAIN q} = {i \in DOMAIN e : NewPeak(e, i) /\ ~NewPeak(e, i - 1)}
    BY <1>1, <2>2 DEF EndsAre, Recovers
  <2>4. QED
    BY <2>1, <2>3
<1>8. QED
  BY <1>2, <1>4, <1>5, <1>6, <1>7 DEF CurveAgrees

\* The figures agree with the curve and the results.
LEMMA AnalyticsHold ==
    ASSUME ResultsKnown
    PROVE  Analysis!AnalyticsAgree
<1>1. SUFFICES ASSUME ~Analysis!Generate.raised PROVE Analysis!AnalyticsAgree
  BY DEF Analysis!AnalyticsAgree
<1>2. PICK n \in Nat : /\ DOMAIN results = 1 .. n /\ (results = <<>> <=> n = 0)
                       /\ Analysis!Profits \in [1 .. n -> Int]
  BY ProfitsAre
<1> DEFINE p == Analysis!Profits
           e == equity_curve
           g == Analysis!Generate
           longest == g.win_rate.max_consecutive_wins
<1>3. PICK m \in Nat : Len(e) = m /\ e \in [1 .. m -> Int] /\ (e = <<>> <=> m = 0)
  BY CurveIs
<1>4. /\ g.total_return = IF e = <<>> THEN 0 ELSE Analysis!Last(e) - InitialCapital
      /\ g.profit = Analysis!AnalyzeProfit(p) /\ g.drawdown = Analysis!AnalyzeDrawdown(e)
      /\ g.win_rate = Analysis!AnalyzeWinRate(p) /\ g.risk = Analysis!AnalyzeRisk(e)
  BY <1>1, GenerateIs
<1> HIDE DEF p, e, g
<1>5. g.profit.net_profit = g.profit.total_profit + g.profit.total_loss
  BY <1>2, <1>4, ProfitIs, WonAndLost DEF p
<1>6. CurveAgrees(e, g.total_return, g.drawdown, g.risk.max_drawdown_pct)
  <2>1. CASE m = 0
    BY <1>3, <1>4, <2>1, NothingAgrees
  <2>2. CASE m # 0
    BY <1>3, <1>4, <2>2, SomeAgree
  <2>3. QED
    BY <2>1, <2>2
<1>7. /\ e # <<>> =>
           g.total_return + g.drawdown.current_drawdown
             = Analysis!Max(Analysis!ToSet(e)) - InitialCapital
      /\ g.drawdown.max_drawdown
           = Analysis!Max({0} \cup UNION {{e[i] - e[j] : j \in i .. Len(e)} : i \in DOMAIN e})
      /\ Analysis!AtMost(g.drawdown.max_drawdown_pct, g.risk.max_drawdown_pct)
  BY <1>6 DEF CurveAgrees
<1>8. {g.drawdown.drawdown_periods[k].end : k \in DOMAIN g.drawdown.drawdown_periods}
        = {i \in DOMAIN e : /\ i > 1 /\ \A k \in 1 .. i - 1 : e[k] < e[i]
                            /\ ~(i - 1 > 1 /\ \A k \in 1 .. i - 1 - 1 : e[k] < e[i - 1])}
  BY <1>6 DEF CurveAgrees, NewPeak
<1>9. g.win_rate.max_consecutive_losses = longest /\ RunsCounted(p, n, longest)
  BY <1>2, <1>4, RunsAre DEF p
<1>10. \A i, j \in DOMAIN results :
         (\A k \in i .. j : Analysis!Kind(p[k]) = Analysis!Kind(p[i])) => j - i + 1 <= longest
  BY <1>2, <1>9 DEF RunsCounted, Alike
<1>11. results # <<>> =>
         \E i, j \in DOMAIN results :
           /\ \A k \in i .. j : Analysis!Kind(p[k]) = Analysis!Kind(p[i])
           /\ j - i + 1 = longest
  <2>1. results # <<>> => n > 0
    BY <1>2
  <2>2. QED
    BY <1>2, <1>9, <2>1 DEF RunsCounted, Alike
<1>12. g.win_rate.max_consecutive_losses = g.win_rate.max_consecutive_wins
  BY <1>9
<1>13. QED
  BY <1>5, <1>7, <1>8, <1>10, <1>11, <1>12 DEF p, e, g, Analysis!AnalyticsAgree

-----------------------------------------------------------------------------
(* Counts by kind. *)

\* Each number being one, a sum counts.
LEMMA SumOnes ==
    ASSUME NEW S, IsFiniteSet(S), NEW f, \A x \in S : f[x] = 1
    PROVE  SumFunctionOnSet(f, S) = Cardinality(S)
<1> DEFINE G == {T \in SUBSET S : SumFunctionOnSet(f, T) = Cardinality(T)}
<1>1. {} \in G
  BY SumEmpty, FS_EmptySet
<1>2. ASSUME NEW T \in SUBSET S, NEW x \in S \ T, IsFiniteSet(T), T \in G
      PROVE  T \cup {x} \in G
  <2>1. x \notin T /\ f[x] = 1 /\ f[x] \in Int /\ \A y \in T : f[y] \in Int
    OBVIOUS
  <2>2. SumFunctionOnSet(f, T \cup {x}) = f[x] + SumFunctionOnSet(f, T)
    BY <1>2, <2>1, SumAdd
  <2>3. Cardinality(T \cup {x}) = Cardinality(T) + 1 /\ Cardinality(T) \in Nat
    BY <1>2, FS_AddElement, FS_CardinalityType
  <2>4. SumFunctionOnSet(f, T) = Cardinality(T)
    BY <1>2
  <2>5. SumFunctionOnSet(f, T \cup {x}) = Cardinality(T \cup {x})
    BY <2>1, <2>2, <2>3, <2>4
  <2>6. QED
    BY <2>5
<1>3. \A T \in SUBSET S : \A x \in S \ T : IsFiniteSet(T) /\ T \in G => T \cup {x} \in G
  BY <1>2
<1> HIDE DEF G
<1>4. S \in G
  BY <1>1, <1>3, SetInduction
<1>5. QED
  BY <1>4 DEF G

\* The sums of what has each kind are together the sum of what has one of the kinds.
SumsByKind(g, K, f, D, kind) ==
    \A x \in K : g[x] = SumFunctionOnSet(f, {i \in D : kind[i] = x})

LEMMA SumByKind ==
    ASSUME NEW D, IsFiniteSet(D), NEW f, \A i \in D : f[i] \in Int, NEW kind,
           NEW K, IsFiniteSet(K), NEW g, SumsByKind(g, K, f, D, kind),
           NEW A, A = {i \in D : kind[i] \in K}
    PROVE  SumFunctionOnSet(g, K) = SumFunctionOnSet(f, A)
<1> DEFINE G == {T \in SUBSET K : SumFunctionOnSet(g, T)
                                    = SumFunctionOnSet(f, {i \in D : kind[i] \in T})}
<1>1. {} \in G
  <2>1. {i \in D : kind[i] \in {}} = {}
    OBVIOUS
  <2>2. QED
    BY <2>1, SumEmpty
<1>2. \A S \in SUBSET D : IsFiniteSet(S) /\ SumFunctionOnSet(f, S) \in Int
  <2>1. ASSUME NEW S \in SUBSET D PROVE IsFiniteSet(S) /\ SumFunctionOnSet(f, S) \in Int
    <3>1. IsFiniteSet(S) /\ \A i \in S : f[i] \in Int
      BY FS_Subset
    <3>2. QED
      BY <3>1, SumType
  <2>2. QED
    BY <2>1
<1>3. \A x \in K : g[x] \in Int
  <2>1. \A x \in K : {i \in D : kind[i] = x} \in SUBSET D
    OBVIOUS
  <2>2. QED
    BY <1>2, <2>1 DEF SumsByKind
<1>4. ASSUME NEW T \in SUBSET K, NEW x \in K \ T, IsFiniteSet(T), T \in G
      PROVE  T \cup {x} \in G
  <2>1. PICK U, P, Q : /\ U = {i \in D : kind[i] \in T \cup {x}}
                       /\ P = {i \in D : kind[i] = x} /\ Q = {i \in D : kind[i] \in T}
    OBVIOUS
  <2>2. U \in SUBSET D /\ P \in SUBSET U /\ U \ P = Q /\ Q \in SUBSET D /\ P \in SUBSET D
    BY <2>1
  <2>3. IsFiniteSet(U) /\ \A i \in U : f[i] \in Int
    BY <1>2, <2>2
  <2>4. SumFunctionOnSet(f, U) = SumFunctionOnSet(f, P) + SumFunctionOnSet(f, U \ P)
    BY <2>2, <2>3, SumParts
  <2>5. x \notin T /\ g[x] \in Int /\ \A y \in T : g[y] \in Int
    BY <1>3
  <2>6. SumFunctionOnSet(g, T \cup {x}) = g[x] + SumFunctionOnSet(g, T)
    BY <1>4, <2>5, SumAdd
  <2>7. g[x] = SumFunctionOnSet(f, P) /\ SumFunctionOnSet(g, T) = SumFunctionOnSet(f, Q)
    BY <1>4, <2>1 DEF SumsByKind
  <2>8. SumFunctionOnSet(g, T \cup {x}) = SumFunctionOnSet(f, U)
    BY ONLY <2>2, <2>4, <2>6, <2>7
  <2>9. QED
    BY <2>1, <2>8
<1>5. \A T \in SUBSET K : \A x \in K \ T : IsFiniteSet(T) /\ T \in G => T \cup {x} \in G
  BY <1>4
<1> HIDE DEF G
<1>6. K \in G
  BY <1>1, <1>5, SetInduction
<1>7. QED
  BY <1>6 DEF G

\* The figures count as sets are counted.
LEMMA FiguresCardinality ==
    /\ \A S : Analysis!Cardinality(S) = Cardinality(S)
    /\ \A S : Report!Cardinality(S) = Cardinality(S)
<1>1. \A S : Analysis!Cardinality(S) = Cardinality(S)
  BY DEF Analysis!Cardinality, Cardinality
<1>2. \A S : Report!Cardinality(S) = Cardinality(S)
  BY DEF Report!Cardinality, Cardinality
<1>3. QED
  BY <1>1, <1>2

\* Counting by keys counts everything once.
LEMMA CountsAll ==
    ASSUME NEW n \in Nat, NEW keys, DOMAIN keys = 1 .. n
    PROVE  Analysis!SumFunction(Analysis!CountBy(keys)) = n
<1>1. PICK D, K, ones : D = 1 .. n /\ K = {keys[i] : i \in D} /\ ones = [i \in D |-> 1]
  OBVIOUS
<1>2. IsFiniteSet(D) /\ Cardinality(D) = n
  <2>1. 1 \in Int /\ n \in Int
    OBVIOUS
  <2>2. QED
    BY <1>1, <2>1, FS_Interval
<1>3. IsFiniteSet(K)
  BY <1>1, <1>2, ImageFinite
<1>4. PICK g : g = [k \in K |-> Cardinality({i \in D : keys[i] = k})]
  OBVIOUS
<1>5. Analysis!CountBy(keys) = g
  <2>1. Analysis!CountBy(keys) =
          [k \in Analysis!ToSet(keys) |-> Analysis!Cardinality({i \in D : keys[i] = k})]
    BY <1>1 DEF Analysis!CountBy
  <2>2. Analysis!ToSet(keys) = K
    BY <1>1 DEF Analysis!ToSet
  <2>3. \A k \in K : Analysis!Cardinality({i \in D : keys[i] = k})
                       = Cardinality({i \in D : keys[i] = k})
    BY FiguresCardinality
  <2>4. QED
    BY <1>4, <2>1, <2>2, <2>3
<1>6. \A x \in K : g[x] = SumFunctionOnSet(ones, {i \in D : keys[i] = x})
  <2>1. ASSUME NEW x \in K PROVE g[x] = SumFunctionOnSet(ones, {i \in D : keys[i] = x})
    <3>1. PICK S : S = {i \in D : keys[i] = x}
      OBVIOUS
    <3>2. S \in SUBSET D /\ \A i \in S : ones[i] = 1
      BY <1>1, <3>1
    <3>3. IsFiniteSet(S)
      BY <1>2, <3>2, FS_Subset
    <3>4. SumFunctionOnSet(ones, S) = Cardinality(S)
      BY <3>2, <3>3, SumOnes
    <3>5. QED
      BY <1>4, <3>1, <3>4
  <2>2. QED
    BY <2>1
<1>7. \A i \in D : ones[i] \in Int /\ ones[i] = 1
  BY <1>1
<1>8. D = {i \in D : keys[i] \in K}
  BY <1>1
<1>9. SumFunctionOnSet(g, K) = SumFunctionOnSet(ones, D)
  <2>1. SumsByKind(g, K, ones, D, keys)
    BY <1>6 DEF SumsByKind
  <2>2. QED
    BY <1>2, <1>3, <1>7, <1>8, <2>1, SumByKind
<1>10. SumFunctionOnSet(ones, D) = n
  BY <1>2, <1>7, SumOnes
<1>11. DOMAIN g = K
  BY <1>4
<1>12. QED
  BY <1>5, <1>8, <1>9, <1>10, <1>11, AnalysisSums

\* A sum is between so many times the least and so many times the greatest.
LEMMA SumBetween ==
    ASSUME NEW S, IsFiniteSet(S), NEW f, NEW lo \in Int, NEW hi \in Int,
           \A x \in S : f[x] \in Int /\ lo <= f[x] /\ f[x] <= hi
    PROVE  /\ lo * Cardinality(S) <= SumFunctionOnSet(f, S)
           /\ SumFunctionOnSet(f, S) <= hi * Cardinality(S)
<1> DEFINE Good(T) == /\ lo * Cardinality(T) <= SumFunctionOnSet(f, T)
                      /\ SumFunctionOnSet(f, T) <= hi * Cardinality(T)
           G == {T \in SUBSET S : Good(T)}
<1>1. {} \in G
  <2>1. SumFunctionOnSet(f, {}) = 0 /\ Cardinality({}) = 0
    BY SumEmpty, FS_EmptySet
  <2>2. lo * 0 = 0 /\ hi * 0 = 0
    OBVIOUS
  <2>3. QED
    BY <2>1, <2>2
<1>2. ASSUME NEW T \in SUBSET S, NEW x \in S \ T, IsFiniteSet(T), T \in G
      PROVE  T \cup {x} \in G
  <2>1. x \notin T /\ f[x] \in Int /\ \A y \in T : f[y] \in Int
    OBVIOUS
  <2>2. SumFunctionOnSet(f, T \cup {x}) = f[x] + SumFunctionOnSet(f, T)
    BY <1>2, <2>1, SumAdd
  <2>3. Cardinality(T \cup {x}) = Cardinality(T) + 1 /\ Cardinality(T) \in Nat
    BY <1>2, FS_AddElement, FS_CardinalityType
  <2>4. PICK c, s, y, sum, card :
          /\ c = Cardinality(T) /\ s = SumFunctionOnSet(f, T) /\ y = f[x]
          /\ sum = SumFunctionOnSet(f, T \cup {x}) /\ card = Cardinality(T \cup {x})
    OBVIOUS
  <2>5. c \in Nat /\ s \in Int /\ y \in Int /\ lo <= y /\ y <= hi /\ sum = y + s /\ card = c + 1
    BY <1>2, <2>1, <2>2, <2>3, <2>4, SumType
  <2>6. lo * c <= s /\ s <= hi * c
    BY <1>2, <2>4
  <2>7. PICK u, v : u = lo * c /\ v = hi * c
    OBVIOUS
  <2>8. u \in Int /\ v \in Int /\ lo * (c + 1) = u + lo /\ hi * (c + 1) = v + hi
    BY <2>5, <2>7
  <2>9. lo * card <= sum /\ sum <= hi * card
    <3>1. u + lo <= y + s /\ y + s <= v + hi
      BY <2>5, <2>6, <2>7, <2>8
    <3>2. QED
      BY ONLY <2>5, <2>8, <3>1
  <2>10. QED
    BY <2>4, <2>9
<1>3. \A T \in SUBSET S : \A x \in S \ T : IsFiniteSet(T) /\ T \in G => T \cup {x} \in G
  BY <1>2
<1> HIDE DEF G, Good
<1>4. S \in G
  BY <1>1, <1>3, SetInduction
<1>5. Good(S)
  BY <1>4 DEF G
<1>6. QED
  BY <1>5 DEF Good

\* So a mean is between the least and the greatest.
LEMMA MeanBetween ==
    ASSUME NEW S, IsFiniteSet(S), S # {}, NEW f, NEW lo \in Int, NEW hi \in Int,
           \A x \in S : f[x] \in Int /\ lo <= f[x] /\ f[x] <= hi
    PROVE  /\ Analysis!AtMost(Analysis!Whole(lo), Analysis!Mean(f, S))
           /\ Analysis!AtMost(Analysis!Mean(f, S), Analysis!Whole(hi))
<1>1. PICK c, s, one : c = Cardinality(S) /\ s = SumFunctionOnSet(f, S) /\ one = 1
  OBVIOUS
<1>2. c \in Nat \ {0} /\ s \in Int /\ one \in Nat \ {0}
  BY <1>1, FS_CardinalityType, FS_EmptySet, SumType
<1>3. lo * c <= s /\ s <= hi * c
  BY <1>1, SumBetween
<1>4. Whole(lo) = Fraction(lo, one) /\ Whole(hi) = Fraction(hi, one)
  <2>1. lo * one = lo /\ hi * one = hi
    BY <1>1
  <2>2. Whole(lo) = Fraction(lo * one, one) /\ Whole(hi) = Fraction(hi * one, one)
    BY <1>2, WholeFraction
  <2>3. QED
    BY <2>1, <2>2
<1>5. /\ AtMost(Fraction(lo, one), Fraction(s, c)) <=> lo * c <= s * one
      /\ AtMost(Fraction(s, c), Fraction(hi, one)) <=> s * one <= hi * c
  BY <1>2, FractionOrder
<1>6. s * one = s
  BY <1>1, <1>2
<1>7. Analysis!Mean(f, S) = Fraction(s, c)
  <2>1. Analysis!Total(f, S) = s /\ Analysis!Cardinality(S) = c
    BY <1>1, TotalIs, FiguresCardinality
  <2>2. Analysis!Mean(f, S) = Analysis!Fraction(s, c)
    BY <2>1 DEF Analysis!Mean
  <2>3. QED
    BY <2>2, AnalysisFractions
<1>8. QED
  BY <1>3, <1>4, <1>5, <1>6, <1>7, AnalysisFractions

\* Which of two positions is first, by the value and then by the place.
Earlier(price, i, j) == price[i] < price[j] \/ (price[i] = price[j] /\ i < j)

\* There is a first one, and a last one.
LEMMA EndsExist ==
    ASSUME NEW n \in Nat \ {0}, NEW price, \A i \in 1 .. n : price[i] \in Int
    PROVE  /\ \E i \in 1 .. n : \A j \in (1 .. n) \ {i} : Earlier(price, i, j)
           /\ \E i \in 1 .. n : \A j \in (1 .. n) \ {i} : Earlier(price, j, i)
<1>1. PICK D, R, Q : /\ D = 1 .. n
                     /\ R = {p \in D \X D : Earlier(price, p[1], p[2]) \/ p[1] = p[2]}
                     /\ Q = {p \in D \X D : Earlier(price, p[2], p[1]) \/ p[1] = p[2]}
  OBVIOUS
<1>2. IsFiniteSet(D) /\ D # {}
  <2>1. IsFiniteSet(D)
    BY <1>1, FS_Interval
  <2>2. 1 \in D
    BY <1>1
  <2>3. QED
    BY <2>1, <2>2
<1>3. \A i, j \in D : Earlier(price, i, j) \/ Earlier(price, j, i) \/ i = j
  BY <1>1 DEF Earlier
<1>4. \A i, j, k \in D : Earlier(price, i, j) /\ Earlier(price, j, k) => Earlier(price, i, k)
  BY <1>1 DEF Earlier
<1>5. \A i, j \in D : /\ <<i, j>> \in R <=> (Earlier(price, i, j) \/ i = j)
                      /\ <<i, j>> \in Q <=> (Earlier(price, j, i) \/ i = j)
  BY <1>1
<1>6. Ordering(R, D) /\ Ordering(Q, D)
  <2>1. Ordering(R, D)
    BY <1>3, <1>4, <1>5 DEF Ordering
  <2>2. Ordering(Q, D)
    BY <1>3, <1>4, <1>5 DEF Ordering
  <2>3. QED
    BY <2>1, <2>2
<1>7. PICK i \in D : \A j \in D : <<j, i>> \in Q
  BY <1>2, <1>6, LastExists
<1>8. PICK k \in D : \A j \in D : <<j, k>> \in R
  BY <1>2, <1>6, LastExists
<1>9. \A j \in D \ {i} : Earlier(price, i, j)
  BY <1>5, <1>7
<1>10. \A j \in D \ {k} : Earlier(price, j, k)
  BY <1>5, <1>8
<1>11. QED
  BY <1>1, <1>9, <1>10

\* What the history of trades gives.
HistoryIs(n, h) ==
    /\ Analysis!SumFunction(h.trades_by_hour) = n
    /\ Analysis!SumFunction(h.trades_by_day) = n
    /\ Analysis!SumFunction(h.trades_by_symbol) = n
    /\ Analysis!AtMost(Analysis!Whole(h.shortest_trade_hours), h.avg_trade_duration_hours)
    /\ Analysis!AtMost(h.avg_trade_duration_hours, Analysis!Whole(h.longest_trade_hours))
    /\ \A i \in 1 .. n : Analysis!Profits[i] <= h.best_exit.exit - h.worst_entry.entry

LEMMA HistoryHolds ==
    ASSUME NEW n \in Nat \ {0}, DOMAIN results = 1 .. n,
           \A i \in 1 .. n : /\ results[i] \in Results
                             /\ Analysis!Profits[i] = results[i].exit - results[i].entry
    PROVE  HistoryIs(n, Analysis!AnalyzeTradeHistory(results))
<1>1. PICK h : h = Analysis!AnalyzeTradeHistory(results)
  OBVIOUS
<1>2. PICK hours, entry, fall, hour, day, share :
        /\ hours = [i \in DOMAIN results |-> results[i].left - results[i].entered]
        /\ entry = [i \in DOMAIN results |-> results[i].entry]
        /\ fall = [i \in DOMAIN results |-> -results[i].exit]
        /\ hour = [i \in DOMAIN results |-> results[i].entered % 24]
        /\ day = [i \in DOMAIN results |-> (results[i].entered \div 24) % 7]
        /\ share = [i \in DOMAIN results |-> results[i].symbol]
  OBVIOUS
<1>3. PICK first, least :
        /\ first = CHOOSE i \in DOMAIN results :
                     \A j \in DOMAIN results \ {i} : Earlier(entry, i, j)
        /\ least = CHOOSE i \in DOMAIN results : \A j \in DOMAIN results \ {i} : Earlier(fall, i, j)
  OBVIOUS
<1>4. /\ h.avg_trade_duration_hours = Analysis!Mean(hours, DOMAIN hours)
      /\ h.longest_trade_hours = Analysis!Max(Analysis!ToSet(hours))
      /\ h.shortest_trade_hours = Analysis!Min(Analysis!ToSet(hours))
      /\ h.trades_by_hour = Analysis!CountBy(hour)
      /\ h.trades_by_day = Analysis!CountBy(day)
      /\ h.trades_by_symbol = Analysis!CountBy(share)
      /\ h.worst_entry = results[first] /\ h.best_exit = results[least]
  BY <1>1, <1>2, <1>3 DEF Analysis!AnalyzeTradeHistory, Earlier
<1>5. \A i \in 1 .. n : /\ results[i].exit \in Int /\ results[i].entry \in Int
                        /\ results[i].left \in Int /\ results[i].entered \in Int
  BY ResultAmounts
<1>6. /\ Analysis!SumFunction(h.trades_by_hour) = n
      /\ Analysis!SumFunction(h.trades_by_day) = n
      /\ Analysis!SumFunction(h.trades_by_symbol) = n
  <2>1. DOMAIN hour = 1 .. n /\ DOMAIN day = 1 .. n /\ DOMAIN share = 1 .. n /\ n \in Nat
    BY <1>2
  <2>2. QED
    BY <1>4, <2>1, CountsAll
<1>7. /\ Analysis!AtMost(Analysis!Whole(h.shortest_trade_hours), h.avg_trade_duration_hours)
      /\ Analysis!AtMost(h.avg_trade_duration_hours, Analysis!Whole(h.longest_trade_hours))
  <2>1. PICK D, S : D = 1 .. n /\ S = {hours[i] : i \in D}
    OBVIOUS
  <2>2. DOMAIN hours = D /\ Analysis!ToSet(hours) = S
    BY <1>2, <2>1 DEF Analysis!ToSet
  <2>3. \A i \in D : hours[i] \in Int
    BY <1>2, <1>5, <2>1
  <2>4. IsFiniteSet(D) /\ D # {}
    <3>1. IsFiniteSet(D)
      BY <2>1, FS_Interval
    <3>2. 1 \in D
      BY <2>1
    <3>3. QED
      BY <3>1, <3>2
  <2>5. IsFiniteSet(S) /\ S \in SUBSET Int /\ S # {}
    BY <2>1, <2>3, <2>4, ImageFinite
  <2>6. PICK lo, hi : lo = Min(S) /\ hi = Max(S)
    OBVIOUS
  <2>7. lo \in S /\ hi \in S /\ \A x \in S : lo <= x /\ x <= hi
    BY <2>5, <2>6, Extremes
  <2>8. /\ lo \in Int /\ hi \in Int
        /\ \A i \in D : hours[i] \in Int /\ lo <= hours[i] /\ hours[i] <= hi
    BY <2>1, <2>3, <2>5, <2>7
  <2>9. /\ Analysis!AtMost(Analysis!Whole(lo), Analysis!Mean(hours, D))
        /\ Analysis!AtMost(Analysis!Mean(hours, D), Analysis!Whole(hi))
    BY ONLY <2>4, <2>8, MeanBetween
  <2>10. h.shortest_trade_hours = lo /\ h.longest_trade_hours = hi
    BY <1>4, <2>2, <2>6, FiguresExtremes
  <2>11. QED
    BY <1>4, <2>2, <2>9, <2>10
<1>8. \A i \in 1 .. n : Analysis!Profits[i] <= h.best_exit.exit - h.worst_entry.entry
  <2>1. /\ \A i \in 1 .. n : entry[i] = results[i].entry /\ fall[i] = -results[i].exit
        /\ \A i \in 1 .. n : entry[i] \in Int
        /\ \A i \in 1 .. n : fall[i] \in Int
    BY <1>2, <1>5
  <2>2. /\ first \in 1 .. n /\ \A j \in (1 .. n) \ {first} : Earlier(entry, first, j)
        /\ least \in 1 .. n /\ \A j \in (1 .. n) \ {least} : Earlier(fall, least, j)
    <3>1. \E i \in 1 .. n : \A j \in (1 .. n) \ {i} : Earlier(entry, i, j)
      BY <2>1, EndsExist
    <3>2. \E i \in 1 .. n : \A j \in (1 .. n) \ {i} : Earlier(fall, i, j)
      BY <2>1, EndsExist
    <3>3. QED
      BY <1>3, <3>1, <3>2
  <2>3. ASSUME NEW i \in 1 .. n
        PROVE  Analysis!Profits[i] <= h.best_exit.exit - h.worst_entry.entry
    <3>1. entry[first] <= entry[i] /\ fall[least] <= fall[i]
      <4>1. i # first => entry[first] < entry[i] \/ entry[first] = entry[i]
        BY <2>2 DEF Earlier
      <4>2. i # least => fall[least] < fall[i] \/ fall[least] = fall[i]
        BY <2>2 DEF Earlier
      <4>3. entry[first] \in Int /\ entry[i] \in Int /\ fall[least] \in Int /\ fall[i] \in Int
        BY <2>1, <2>2
      <4>4. QED
        BY ONLY <4>1, <4>2, <4>3
    <3>2. /\ results[first].entry <= results[i].entry
          /\ results[least].exit >= results[i].exit
      BY <1>5, <2>1, <2>2, <3>1
    <3>3. Analysis!Profits[i] = results[i].exit - results[i].entry
      OBVIOUS
    <3>4. QED
      BY <1>4, <1>5, <2>2, <3>2, <3>3
  <2>4. QED
    BY <2>3
<1>9. QED
  BY <1>1, <1>6, <1>7, <1>8 DEF HistoryIs

-----------------------------------------------------------------------------
(* Medians. *)

\* The positions of a list of numbers by what is there.
NoLess(s, S) == {p \in S \X S : s[p[1]] <= s[p[2]]}

\* Sorting lists them so.
LEMMA SortedIs ==
    ASSUME NEW n \in Nat, NEW s \in [1 .. n -> Int], NEW S \in SUBSET (1 .. n),
           NEW c, c = Cardinality(S)
    PROVE  InOrder(Analysis!Sorted(s, S), c, S, NoLess(s, S))
<1>1. IsFiniteSet(S) /\ c \in Nat
  BY TotalIs, FS_CardinalityType
<1>2. \A i \in S : s[i] \in Int
  OBVIOUS
<1>3. \A i, j \in S : <<i, j>> \in NoLess(s, S) <=> s[i] <= s[j]
  BY DEF NoLess
<1>4. Ordering(NoLess(s, S), S)
  BY <1>2, <1>3 DEF Ordering
<1>5. PICK o : InOrder(o, c, S, NoLess(s, S))
  BY <1>1, <1>4, OrderExists
<1>6. PICK q : q = CHOOSE order \in [1 .. c -> S] :
                     \A i, j \in 1 .. c : i < j => order[i] # order[j] /\ s[order[i]] <= s[order[j]]
  OBVIOUS
<1>7. Analysis!Sorted(s, S) = q
  BY <1>6, FiguresCardinality DEF Analysis!Sorted
<1>8. /\ o \in [1 .. c -> S]
      /\ \A i, j \in 1 .. c : i < j => o[i] # o[j] /\ s[o[i]] <= s[o[j]]
  BY <1>3, <1>5 DEF InOrder
<1>9. /\ q \in [1 .. c -> S]
      /\ \A i, j \in 1 .. c : i < j => q[i] # q[j] /\ s[q[i]] <= s[q[j]]
  <2> DEFINE Is(order) ==
               \A i, j \in 1 .. c : i < j => order[i] # order[j] /\ s[order[i]] <= s[order[j]]
  <2>1. \E order \in [1 .. c -> S] : Is(order)
    BY <1>8
  <2>2. q = CHOOSE order \in [1 .. c -> S] : Is(order)
    BY <1>6
  <2> HIDE DEF Is
  <2>3. q \in [1 .. c -> S] /\ Is(q)
    BY <2>1, <2>2
  <2>4. QED
    BY <2>3 DEF Is
<1>10. InOrder(q, c, S, NoLess(s, S))
  BY <1>3, <1>9 DEF InOrder
<1>11. QED
  BY <1>7, <1>10

\* What is at the places between two of them is no more than the places.
Places(o, a, b, T) == \A x \in T : \E i \in a .. b : o[i] = x

LEMMA PlacesBound ==
    ASSUME NEW o, NEW a \in Nat, NEW b \in Nat, a <= b + 1, NEW T, Places(o, a, b, T)
    PROVE  IsFiniteSet(T) /\ Cardinality(T) <= b - a + 1
<1>1. PICK D, U : D = a .. b /\ U = {o[i] : i \in D}
  OBVIOUS
<1>2. IsFiniteSet(D) /\ Cardinality(D) = b - a + 1
  <2>1. a \in Int /\ b \in Int
    OBVIOUS
  <2>2. IsFiniteSet(D) /\ Cardinality(D) = IF a > b THEN 0 ELSE b - a + 1
    BY <1>1, <2>1, FS_Interval
  <2>3. QED
    BY <2>2
<1>3. IsFiniteSet(U) /\ Cardinality(U) <= Cardinality(D)
  BY <1>1, <1>2, ImageFinite
<1>4. T \in SUBSET U
  BY <1>1 DEF Places
<1>5. IsFiniteSet(T) /\ Cardinality(T) <= Cardinality(U)
  BY <1>3, <1>4, FS_Subset
<1>6. Cardinality(T) \in Nat /\ Cardinality(U) \in Nat
  BY <1>3, <1>5, FS_CardinalityType
<1>7. QED
  BY <1>2, <1>3, <1>5, <1>6

\* The upper one in the middle has at most half of them on either side.
InMiddle(s, S, c, median) ==
    /\ 2 * Cardinality({i \in S : s[i] < median}) <= c
    /\ 2 * Cardinality({i \in S : s[i] > median}) <= c

LEMMA MedianHalves ==
    ASSUME NEW n \in Nat, NEW s \in [1 .. n -> Int], NEW S \in SUBSET (1 .. n), S # {},
           NEW c, c = Cardinality(S),
           NEW median, median = s[Analysis!Sorted(s, S)[c \div 2 + 1]]
    PROVE  InMiddle(s, S, c, median)
<1>1. IsFiniteSet(S) /\ c \in Nat /\ c # 0
  BY TotalIs, FS_CardinalityType, FS_EmptySet
<1>2. PICK o, m : o = Analysis!Sorted(s, S) /\ m = c \div 2 + 1
  OBVIOUS
<1>3. m \in 1 .. c /\ 2 * (m - 1) <= c /\ 2 * (c - m) <= c
  BY <1>1, <1>2
<1>4. InOrder(o, c, S, NoLess(s, S))
  BY <1>2, SortedIs
<1>5. /\ o \in [1 .. c -> S]
      /\ \A i, j \in 1 .. c : i < j => s[o[i]] <= s[o[j]]
      /\ \A i \in 1 .. c : s[o[i]] \in Int
  <2>1. \A i, j \in S : <<i, j>> \in NoLess(s, S) => s[i] <= s[j]
    BY DEF NoLess
  <2>2. QED
    BY <1>4, <2>1 DEF InOrder
<1>6. \A x \in S : \E i \in 1 .. c : o[i] = x
  BY <1>1, <1>4, OrderReaches
<1>7. median = s[o[m]] /\ median \in Int
  BY <1>2, <1>3, <1>5
<1>8. 2 * Cardinality({i \in S : s[i] < median}) <= c
  <2>1. PICK T : T = {i \in S : s[i] < median}
    OBVIOUS
  <2>2. ASSUME NEW x \in T PROVE \E i \in 1 .. m - 1 : o[i] = x
    <3>1. PICK i \in 1 .. c : o[i] = x
      BY <1>6, <2>1
    <3>2. s[o[i]] < s[o[m]] /\ s[o[i]] \in Int /\ s[o[m]] \in Int
      BY <1>3, <1>5, <1>7, <2>1, <3>1
    <3>3. ~(m < i) /\ i # m
      BY <1>3, <1>5, <3>2
    <3>4. i \in 1 .. m - 1
      BY <1>3, <3>3
    <3>5. QED
      BY <3>1, <3>4
  <2>3. PICK a, b : a = 1 /\ b = m - 1
    OBVIOUS
  <2>4. a \in Nat /\ b \in Nat /\ a <= b + 1 /\ Places(o, a, b, T)
    BY <1>1, <1>3, <2>2, <2>3 DEF Places
  <2>5. IsFiniteSet(T) /\ Cardinality(T) <= b - a + 1
    BY <2>4, PlacesBound
  <2>6. Cardinality(T) \in Nat
    BY <2>5, FS_CardinalityType
  <2>7. QED
    BY <1>1, <1>3, <2>1, <2>3, <2>5, <2>6
<1>9. 2 * Cardinality({i \in S : s[i] > median}) <= c
  <2>1. PICK T : T = {i \in S : s[i] > median}
    OBVIOUS
  <2>2. ASSUME NEW x \in T PROVE \E i \in m + 1 .. c : o[i] = x
    <3>1. PICK i \in 1 .. c : o[i] = x
      BY <1>6, <2>1
    <3>2. s[o[i]] > s[o[m]] /\ s[o[i]] \in Int /\ s[o[m]] \in Int
      BY <1>3, <1>5, <1>7, <2>1, <3>1
    <3>3. ~(i < m) /\ i # m
      BY <1>3, <1>5, <3>2
    <3>4. i \in m + 1 .. c
      BY <1>3, <3>3
    <3>5. QED
      BY <3>1, <3>4
  <2>3. PICK a : a = m + 1
    OBVIOUS
  <2>4. a \in Nat /\ c \in Nat /\ a <= c + 1 /\ Places(o, a, c, T)
    BY <1>1, <1>3, <2>2, <2>3 DEF Places
  <2>5. IsFiniteSet(T) /\ Cardinality(T) <= c - a + 1
    BY <2>4, PlacesBound
  <2>6. Cardinality(T) \in Nat
    BY <2>5, FS_CardinalityType
  <2>7. QED
    BY <1>1, <1>3, <2>1, <2>3, <2>5, <2>6
<1>10. QED
  BY <1>8, <1>9 DEF InMiddle

\* What is said of the distribution of some of the profits.
Halved(p, S, d) ==
    /\ 2 * Analysis!Cardinality({i \in S : p[i] < d.median}) <= Analysis!Cardinality(S)
    /\ 2 * Analysis!Cardinality({i \in S : p[i] > d.median}) <= Analysis!Cardinality(S)
    /\ Analysis!AtMost(Analysis!Whole(d.min), d.avg)
    /\ Analysis!AtMost(d.avg, Analysis!Whole(d.max))

LEMMA DistributionIs ==
    ASSUME NEW n \in Nat, NEW p \in [1 .. n -> Int], NEW S \in SUBSET (1 .. n)
    PROVE  \A d \in Analysis!Distribution(p, S) : Halved(p, S, d)
<1>1. SUFFICES ASSUME NEW d \in Analysis!Distribution(p, S) PROVE Halved(p, S, d)
  OBVIOUS
<1>2. PICK c, V, median : /\ c = Cardinality(S) /\ V = {p[i] : i \in S}
                          /\ median = p[Analysis!Sorted(p, S)[c \div 2 + 1]]
  OBVIOUS
<1>3. /\ S # {}
      /\ d.min = Analysis!Min(V) /\ d.max = Analysis!Max(V)
      /\ d.avg = Analysis!Mean(p, S) /\ d.median = median
  <2>1. Analysis!Cardinality(S) = c
    BY <1>2, FiguresCardinality
  <2>2. CASE S = {}
    BY <1>1, <2>2 DEF Analysis!Distribution
  <2>3. CASE S # {}
    <3>1. d = [min |-> Analysis!Min(V), max |-> Analysis!Max(V), avg |-> Analysis!Mean(p, S),
               median |-> median]
      BY <1>1, <1>2, <2>1, <2>3 DEF Analysis!Distribution, Analysis!Values
    <3>2. QED
      BY <2>3, <3>1
  <2>4. QED
    BY <2>2, <2>3
<1>4. IsFiniteSet(S) /\ \A i \in S : p[i] \in Int
  BY TotalIs
<1>5. IsFiniteSet(V) /\ V \in SUBSET Int /\ V # {}
  BY <1>2, <1>3, <1>4, ImageFinite
<1>6. PICK lo, hi : lo = Min(V) /\ hi = Max(V)
  OBVIOUS
<1>7. lo \in V /\ hi \in V /\ \A x \in V : lo <= x /\ x <= hi
  BY <1>5, <1>6, Extremes
<1>8. lo \in Int /\ hi \in Int /\ \A i \in S : p[i] \in Int /\ lo <= p[i] /\ p[i] <= hi
  BY <1>2, <1>4, <1>5, <1>7
<1>9. S # {}
  BY <1>3
<1>10. /\ Analysis!AtMost(Analysis!Whole(lo), Analysis!Mean(p, S))
       /\ Analysis!AtMost(Analysis!Mean(p, S), Analysis!Whole(hi))
  BY ONLY <1>4, <1>8, <1>9, MeanBetween
<1>11. d.min = lo /\ d.max = hi
  BY <1>3, <1>6, FiguresExtremes
<1>12. InMiddle(p, S, c, median)
  BY <1>2, <1>9, MedianHalves
<1>13. QED
  BY <1>2, <1>3, <1>10, <1>11, <1>12, FiguresCardinality DEF Halved, InMiddle

\* The history and the distributions agree with the results.
LEMMA HistoryAgreesHolds ==
    ASSUME ResultsKnown
    PROVE  Analysis!HistoryAgrees
<1>1. SUFFICES ASSUME ~Analysis!Generate.raised PROVE Analysis!HistoryAgrees
  BY DEF Analysis!HistoryAgrees
<1>2. PICK n \in Nat : /\ Len(results) = n /\ DOMAIN results = 1 .. n
                       /\ Analysis!Profits \in [1 .. n -> Int]
                       /\ (results = <<>> <=> n = 0)
                       /\ \A i \in 1 .. n : /\ results[i] \in Results
                                            /\ Analysis!Profits[i]
                                                 = results[i].exit - results[i].entry
  BY ProfitsAre
<1> DEFINE p == Analysis!Profits
           g == Analysis!Generate
<1>3. /\ g.win_rate = Analysis!AnalyzeWinRate(p)
      /\ g.trades = IF results = <<>> THEN {} ELSE {Analysis!AnalyzeTradeHistory(results)}
  BY <1>1, GenerateIs
<1>4. p \in [1 .. n -> Int]
  BY <1>2
<1> HIDE DEF p, g
<1>5. ASSUME NEW h \in g.trades PROVE HistoryIs(n, h)
  <2>1. n \in Nat \ {0} /\ h = Analysis!AnalyzeTradeHistory(results)
    BY <1>2, <1>3, <1>5
  <2>2. QED
    BY <1>2, <2>1, HistoryHolds
<1>6. \A h \in g.trades :
        /\ Analysis!SumFunction(h.trades_by_hour) = Len(results)
        /\ Analysis!SumFunction(h.trades_by_day) = Len(results)
        /\ Analysis!SumFunction(h.trades_by_symbol) = Len(results)
        /\ Analysis!AtMost(Analysis!Whole(h.shortest_trade_hours), h.avg_trade_duration_hours)
        /\ Analysis!AtMost(h.avg_trade_duration_hours, Analysis!Whole(h.longest_trade_hours))
        /\ \A i \in DOMAIN results : p[i] <= h.best_exit.exit - h.worst_entry.entry
  BY <1>2, <1>5 DEF HistoryIs, p
<1>7. /\ g.win_rate.win_distribution = Analysis!Distribution(p, Analysis!Winning(p))
      /\ g.win_rate.loss_distribution = Analysis!Distribution(p, Analysis!Losing(p))
  BY <1>3 DEF Analysis!AnalyzeWinRate
<1>8. Analysis!Winning(p) \in SUBSET (1 .. n) /\ Analysis!Losing(p) \in SUBSET (1 .. n)
  BY <1>4 DEF Analysis!Winning, Analysis!Losing
<1>9. /\ \A d \in g.win_rate.win_distribution : Halved(p, Analysis!Winning(p), d)
      /\ \A d \in g.win_rate.loss_distribution : Halved(p, Analysis!Losing(p), d)
  BY <1>4, <1>7, <1>8, DistributionIs
<1>10. QED
  BY <1>6, <1>9 DEF Halved, p, g, Analysis!HistoryAgrees

-----------------------------------------------------------------------------
(* The reports, period by period. *)

\* The trades recorded are such.
RecordsKnown ==
    recorded \in Seq([entry : Entries, exit : Exits \cup {Report!Open}, pnl : Pnls])

\* Their dates are within the years that are reported on.
LEMMA RecordsAre ==
    ASSUME RecordsKnown
    PROVE  \E n \in Nat : \E t \in [1 .. n -> Nat] :
             /\ Len(recorded) = n /\ DOMAIN recorded = 1 .. n
             /\ Report!PnlOf \in [1 .. n -> Int]
             /\ \A i \in 1 .. n : /\ recorded[i].entry \in Int
                                  /\ t[i] = Report!DateOf(i) /\ t[i] < Report!Year * Years
<1>1. PICK n, t, all : n = Len(recorded) /\ t = [i \in 1 .. n |-> Report!DateOf(i)]
                       /\ all = Report!Year * Years
  OBVIOUS
<1>2. n \in Nat /\ DOMAIN recorded = 1 .. n
      /\ \A i \in 1 .. n :
           recorded[i] \in [entry : Entries, exit : Exits \cup {Report!Open}, pnl : Pnls]
  <2>1. PICK R : R = [entry : Entries, exit : Exits \cup {Report!Open}, pnl : Pnls]
    OBVIOUS
  <2>2. recorded \in Seq(R)
    BY <2>1 DEF RecordsKnown
  <2>3. n \in Nat /\ DOMAIN recorded = 1 .. n /\ \A i \in 1 .. n : recorded[i] \in R
    BY <1>1, <2>2
  <2>4. QED
    BY <2>1, <2>3
<1>3. all \in Int
  <2>1. Report!Year \in Int
    <3>1. Report!Month \in Int
      BY Calendar DEF Report!Month, Report!Day
    <3>2. QED
      BY <3>1, Calendar DEF Report!Year
  <2>2. QED
    BY <1>1, <2>1, Calendar
<1>4. ASSUME NEW i \in 1 .. n
      PROVE  /\ recorded[i].entry \in Int /\ recorded[i].pnl \in Int
             /\ t[i] = Report!DateOf(i) /\ t[i] \in Nat /\ t[i] < all
  <2>1. PICK trade : trade = recorded[i]
    OBVIOUS
  <2>2. trade.entry \in Entries /\ trade.exit \in Exits \cup {Report!Open} /\ trade.pnl \in Pnls
    BY <1>2, <2>1
  <2>3. \A x \in Entries \cup Exits : x \in Nat /\ x < all
    BY <1>1, <1>3, Calendar
  <2>4. Report!DateOf(i) = IF trade.exit = Report!Open THEN trade.entry ELSE trade.exit
    BY <2>1 DEF Report!DateOf, Report!Dated
  <2>5. Report!DateOf(i) \in Entries \cup Exits
    BY <2>2, <2>4
  <2>6. t[i] = Report!DateOf(i)
    BY <1>1
  <2>7. recorded[i].entry \in Int /\ recorded[i].pnl \in Int
    <3>1. trade.entry \in Entries \cup Exits /\ trade.pnl \in Int
      BY <2>2, Calendar
    <3>2. QED
      BY <2>1, <2>3, <3>1
  <2>8. t[i] \in Nat /\ t[i] < all
    BY <2>3, <2>5, <2>6
  <2>9. QED
    BY <2>6, <2>7, <2>8
<1>5. Report!PnlOf \in [1 .. n -> Int]
  BY <1>2, <1>4 DEF Report!PnlOf
<1>6. t \in [1 .. n -> Nat]
  BY <1>1, <1>4
<1>7. QED
  BY <1>1, <1>2, <1>4, <1>5, <1>6

\* The sums of the reports are the same as these.
LEMMA ReportSums ==
    /\ \A f, S : Report!SumFunctionOnSet(f, S) = SumFunctionOnSet(f, S)
    /\ \A f : Report!SumFunction(f) = SumFunctionOnSet(f, DOMAIN f)
    /\ \A S : Report!Sum(S) = SumFunctionOnSet(Report!PnlOf, S)
<1>1. \A f, S : Report!SumFunctionOnSet(f, S) = SumFunctionOnSet(f, S)
  BY DEF Report!SumFunctionOnSet, Report!FoldFunctionOnSet, Report!MapThenFoldSet,
         SumFunctionOnSet, FoldFunctionOnSet, MapThenFoldSet
<1>2. \A f : Report!SumFunction(f) = SumFunctionOnSet(f, DOMAIN f)
  BY <1>1 DEF Report!SumFunction
<1>3. \A S : Report!Sum(S) = SumFunctionOnSet(Report!PnlOf, S)
  BY <1>1 DEF Report!Sum
<1>4. QED
  BY <1>1, <1>2, <1>3

\* The remainder and the quotient of a time within a period, but for the last tick of it.
LEMMA WithinPeriod ==
    ASSUME NEW L \in Nat, L >= 2, NEW t \in Nat, NEW x \in Nat
    PROVE  (x * L <= t /\ t <= x * L + L - 2) <=> (t \div L = x /\ t % L # L - 1)
<1>1. PICK q, r : q = t \div L /\ r = t % L
  OBVIOUS
<1>2. q \in Nat /\ r \in Nat /\ r < L /\ t = L * q + r
  BY <1>1, Division
<1>3. PICK start : start = x * L
  OBVIOUS
<1>4. start \in Nat /\ start = L * x
  BY <1>3
<1>5. ASSUME start <= t, t <= start + L - 2 PROVE q = x /\ r # L - 1
  <2>1. PICK s : s = t - start
    OBVIOUS
  <2>2. s \in Nat /\ s < L /\ t = L * x + s /\ s <= L - 2
    BY <1>4, <1>5, <2>1
  <2>3. t \div L = x /\ t % L = s
    BY <2>2, DivisionIs
  <2>4. QED
    BY <1>1, <2>2, <2>3
<1>6. ASSUME q = x, r # L - 1 PROVE start <= t /\ t <= start + L - 2
  <2>1. t = start + r
    BY <1>2, <1>4, <1>6
  <2>2. QED
    BY <1>2, <1>4, <1>6, <2>1
<1>7. QED
  BY <1>1, <1>3, <1>5, <1>6

\* The sums of what is within each period.
SumsOf(g, K, L, f, n, t) ==
    \A x \in 0 .. K - 1 :
      g[x] = SumFunctionOnSet(f, {i \in 1 .. n : x * L <= t[i] /\ t[i] <= x * L + L - 2})

\* The times are in the periods.
InPeriods(t, n, L, K) == \A i \in 1 .. n : t[i] < L * K

LastTicks(t, n, L) == {i \in 1 .. n : t[i] % L = L - 1}

\* Together they are all, but for the last tick of each.
LEMMA PeriodSums ==
    ASSUME NEW L \in Nat, L >= 2, NEW K \in Nat, NEW n \in Nat, NEW f \in [1 .. n -> Int],
           NEW t \in [1 .. n -> Nat], InPeriods(t, n, L, K), NEW g, SumsOf(g, K, L, f, n, t)
    PROVE  SumFunctionOnSet(g, 0 .. K - 1)
             = SumFunctionOnSet(f, 1 .. n) - SumFunctionOnSet(f, LastTicks(t, n, L))
<1>0. PICK E : E = LastTicks(t, n, L)
  OBVIOUS
<1>1. PICK D, A, kind, P : /\ E = {i \in 1 .. n : t[i] % L = L - 1}
                           /\ A = 1 .. n /\ D = A \ E
                           /\ kind = [i \in 1 .. n |-> t[i] \div L] /\ P = 0 .. K - 1
  BY <1>0 DEF LastTicks
<1>2. E \in SUBSET A /\ D \in SUBSET A /\ IsFiniteSet(A) /\ \A i \in A : f[i] \in Int
  <2>1. IsFiniteSet(A)
    BY <1>1, FS_Interval
  <2>2. QED
    BY <1>1, <2>1
<1>3. IsFiniteSet(D) /\ IsFiniteSet(P) /\ \A i \in D : f[i] \in Int
  <2>1. IsFiniteSet(P)
    <3>1. 0 \in Int /\ K - 1 \in Int
      OBVIOUS
    <3>2. QED
      BY <1>1, <3>1, FS_Interval
  <2>2. IsFiniteSet(D)
    BY <1>2, FS_Subset
  <2>3. QED
    BY <1>2, <2>1, <2>2
<1>4. SumFunctionOnSet(f, A) = SumFunctionOnSet(f, E) + SumFunctionOnSet(f, D)
  BY <1>1, <1>2, SumParts
<1>5. \A i \in D : kind[i] \in P
  <2>1. ASSUME NEW i \in D PROVE kind[i] \in P
    <3>1. PICK q, r : q = t[i] \div L /\ r = t[i] % L
      OBVIOUS
    <3>2. i \in 1 .. n /\ t[i] \in Nat /\ t[i] < L * K
      BY <1>1 DEF InPeriods
    <3>3. q \in Nat /\ r \in Nat /\ t[i] = L * q + r
      <4>1. PICK a : a = t[i]
        OBVIOUS
      <4>2. a \in Nat /\ L \in Nat \ {0}
        BY <3>2, <4>1
      <4>3. a \div L \in Nat /\ a % L \in Nat /\ a = L * (a \div L) + (a % L)
        BY <4>2, Division
      <4>4. QED
        BY <3>1, <4>1, <4>3
    <3>4. ~(K <= q)
      <4>1. PICK u, v : u = L * K /\ v = L * q
        OBVIOUS
      <4>2. u \in Int /\ v \in Int
        BY <3>3, <4>1
      <4>3. ~(u <= v)
        <5>1. PICK a : a = t[i]
          OBVIOUS
        <5>2. a \in Int /\ a < u /\ a = v + r
          BY <3>2, <3>3, <4>1, <5>1
        <5>3. QED
          BY <3>3, <4>2, <5>2
      <4>4. L * K <= L * q <=> K <= q
        BY <3>3, ProductOrder
      <4>5. QED
        BY <4>1, <4>3, <4>4
    <3>5. q \in P
      BY <1>1, <3>3, <3>4
    <3>6. QED
      BY <1>1, <3>1, <3>2, <3>5
  <2>2. QED
    BY <2>1
<1>6. D = {i \in D : kind[i] \in P}
  BY <1>5
<1>7. SumsByKind(g, P, f, D, kind)
  <2>1. ASSUME NEW x \in P PROVE g[x] = SumFunctionOnSet(f, {i \in D : kind[i] = x})
    <3>1. x \in Nat /\ x \in 0 .. K - 1
      BY <1>1
    <3>2. \A i \in 1 .. n : (x * L <= t[i] /\ t[i] <= x * L + L - 2)
                              <=> (t[i] \div L = x /\ t[i] % L # L - 1)
      BY <3>1, WithinPeriod
    <3>3. {i \in 1 .. n : x * L <= t[i] /\ t[i] <= x * L + L - 2} = {i \in D : kind[i] = x}
      <4>1. \A i : i \in D <=> i \in 1 .. n /\ t[i] % L # L - 1
        BY <1>1
      <4>2. \A i \in 1 .. n : kind[i] = t[i] \div L
        BY <1>1
      <4>3. QED
        BY ONLY <3>2, <4>1, <4>2
    <3>4. QED
      BY <3>1, <3>3 DEF SumsOf
  <2>2. QED
    BY <2>1 DEF SumsByKind
<1>8. SumFunctionOnSet(g, P) = SumFunctionOnSet(f, D)
  BY ONLY <1>3, <1>6, <1>7, SumByKind
<1>9. SumFunctionOnSet(f, E) \in Int /\ SumFunctionOnSet(f, D) \in Int
  <2>1. E \in SUBSET (1 .. n) /\ D \in SUBSET (1 .. n)
    BY <1>1
  <2>2. QED
    BY <2>1, TotalIs
<1>10. SumFunctionOnSet(g, P) = SumFunctionOnSet(f, A) - SumFunctionOnSet(f, E)
  BY ONLY <1>4, <1>8, <1>9
<1>11. QED
  BY <1>0, <1>1, <1>10

\* What is reported of some trades.
LEMMA ReportIs ==
    /\ \A S : Report!Report(S).total_pnl = SumFunctionOnSet(Report!PnlOf, S)
    /\ \A S : Report!Report(S).total_trades = Cardinality(S)
<1>1. \A S : /\ Report!Report(S).total_pnl = Report!Sum(S)
             /\ Report!Report(S).total_trades = Report!Cardinality(S)
  BY DEF Report!Report
<1>2. QED
  BY <1>1, ReportSums, FiguresCardinality

\* What the reports of a day, a month and a year are of.
LEMMA PeriodsReported ==
    /\ \A d : Report!DailyReport(d).overall
                = Report!Report({i \in DOMAIN recorded : Report!DayOf(Report!DateOf(i)) = d})
    /\ \A m : /\ Report!MonthlyReport(m).overall = Report!Report(Report!TradesOf(m))
              /\ Report!MonthlyReport(m).trading_days
                   = Cardinality(Report!DaysTraded(Report!TradesOf(m)))
    /\ \A y : Report!YearlyReport(y).overall
                = Report!Report({i \in DOMAIN recorded :
                                   Report!Within(Report!DateOf(i), y * Report!Year, Report!Year)})
<1>1. \A d : Report!DailyReport(d).overall
               = Report!Report({i \in DOMAIN recorded : Report!DayOf(Report!DateOf(i)) = d})
  BY DEF Report!DailyReport
<1>2. \A m : /\ Report!MonthlyReport(m).overall = Report!Report(Report!TradesOf(m))
             /\ Report!MonthlyReport(m).trading_days
                  = Report!Cardinality(Report!DaysTraded(Report!TradesOf(m)))
  BY DEF Report!MonthlyReport
<1>3. \A y : Report!YearlyReport(y).overall
               = Report!Report({i \in DOMAIN recorded :
                                  Report!Within(Report!DateOf(i), y * Report!Year, Report!Year)})
  BY DEF Report!YearlyReport
<1>4. QED
  BY <1>1, <1>2, <1>3, FiguresCardinality

\* The lengths of the periods, and how many there are.
LEMMA PeriodLengths ==
    /\ Report!Month \in Nat /\ Report!Month >= 2 /\ Report!Year \in Nat /\ Report!Year >= 2
    /\ Report!Year = Report!Month * MonthsOfYear
    /\ Years * MonthsOfYear \in Nat /\ Years * MonthsOfYear * DaysOfMonth \in Nat
    /\ Report!Year * Years = Report!Month * (Years * MonthsOfYear)
    /\ Report!Year * Years = 3 * (Years * MonthsOfYear * DaysOfMonth)
<1>1. PICK M, Y, a, b, c : M = Report!Month /\ Y = Report!Year
                           /\ a = DaysOfMonth /\ b = MonthsOfYear /\ c = Years
  OBVIOUS
<1>2. a \in Nat \ {0} /\ b \in Nat \ {0} /\ c \in Nat
  BY <1>1, Calendar
<1>3. M = 3 * a /\ Y = M * b
  BY <1>1 DEF Report!Month, Report!Day, Report!Year
<1>4. M \in Nat /\ M >= 2
  BY <1>2, <1>3
<1>5. Y \in Nat /\ Y >= 2
  <2>1. PICK k : k = b - 1
    OBVIOUS
  <2>2. k \in Nat /\ b = k + 1
    BY <1>2, <2>1
  <2>3. M * k \in Nat /\ M * b = M * k + M
    BY <1>4, <2>2
  <2>4. QED
    BY <1>3, <1>4, <2>3
<1>6. c * b \in Nat /\ c * b * a \in Nat
  BY <1>2
<1>7. Y * c = M * (c * b)
  BY <1>2, <1>3, <1>4
<1>8. Y * c = 3 * (c * b * a)
  BY <1>2, <1>3
<1>9. QED
  BY <1>1, <1>3, <1>4, <1>5, <1>6, <1>7, <1>8

\* The daily reports are together the sum of all trades.
LEMMA DaysSum ==
    ASSUME NEW n \in Nat, NEW t \in [1 .. n -> Nat], DOMAIN recorded = 1 .. n,
           Report!PnlOf \in [1 .. n -> Int],
           \A i \in 1 .. n : t[i] = Report!DateOf(i) /\ t[i] < Report!Year * Years,
           NEW g, DOMAIN g = 0 .. Years * MonthsOfYear * DaysOfMonth - 1,
           \A d \in DOMAIN g : g[d] = Report!DailyReport(d).overall.total_pnl
    PROVE  SumFunctionOnSet(g, DOMAIN g) = SumFunctionOnSet(Report!PnlOf, 1 .. n)
<1>1. PICK f, K, L, D, P, kind :
        /\ f = Report!PnlOf /\ K = Years * MonthsOfYear * DaysOfMonth /\ L = 3 /\ D = 1 .. n
        /\ P = 0 .. K - 1 /\ kind = [i \in 1 .. n |-> t[i] \div L]
  OBVIOUS
<1>2. K \in Nat /\ L \in Nat \ {0} /\ P = DOMAIN g /\ \A i \in 1 .. n : t[i] < L * K
  BY <1>1, PeriodLengths
<1>3. IsFiniteSet(D) /\ IsFiniteSet(P) /\ \A i \in D : f[i] \in Int
  <2>1. IsFiniteSet(D)
    BY <1>1, FS_Interval
  <2>2. IsFiniteSet(P)
    <3>1. 0 \in Int /\ K - 1 \in Int
      BY <1>2
    <3>2. QED
      BY <1>1, <3>1, FS_Interval
  <2>3. QED
    BY <1>1, <2>1, <2>2
<1>4. ASSUME NEW i \in D PROVE kind[i] \in P
  <2>1. PICK a, q : a = t[i] /\ q = t[i] \div L
    OBVIOUS
  <2>2. a \in Nat /\ a < L * K
    BY <1>1, <1>2, <2>1
  <2>3. q \in Nat /\ a >= L * q
    <3>1. L \in Nat \ {0} /\ q = a \div L
      BY <1>2, <2>1
    <3>2. a \div L \in Nat /\ a % L \in Nat /\ a = L * (a \div L) + (a % L)
      BY <2>2, <3>1, Division
    <3>3. PICK v, r : v = L * q /\ r = a % L
      OBVIOUS
    <3>4. q \in Nat /\ r \in Nat /\ a = v + r
      BY ONLY <3>1, <3>2, <3>3
    <3>5. v \in Int
      BY ONLY <3>1, <3>3, <3>4
    <3>6. QED
      BY ONLY <3>3, <3>4, <3>5
  <2>4. q < K
    BY <1>1, <1>2, <2>2, <2>3
  <2>5. kind[i] = q /\ q \in P
    BY <1>1, <1>2, <2>1, <2>3, <2>4
  <2>6. QED
    BY <2>5
<1>5. D = {i \in D : kind[i] \in P}
  BY <1>4
<1>6. SumsByKind(g, P, f, D, kind)
  <2>1. ASSUME NEW d \in P PROVE g[d] = SumFunctionOnSet(f, {i \in D : kind[i] = d})
    <3>1. \A i \in D : Report!DayOf(Report!DateOf(i)) = kind[i]
      BY <1>1 DEF Report!DayOf, Report!Day
    <3>2. {i \in DOMAIN recorded : Report!DayOf(Report!DateOf(i)) = d} = {i \in D : kind[i] = d}
      BY <1>1, <3>1
    <3>3. QED
      BY <1>1, <1>2, <3>2, PeriodsReported, ReportIs
  <2>2. QED
    BY <2>1 DEF SumsByKind
<1>7. SumFunctionOnSet(g, P) = SumFunctionOnSet(f, D)
  BY <1>3, <1>5, <1>6, SumByKind
<1>8. QED
  BY <1>1, <1>2, <1>7

\* What each report says is the sum of its trades.
ReportedSums(g, L) ==
    \A x \in DOMAIN g : g[x] = SumFunctionOnSet(Report!PnlOf,
      {i \in DOMAIN recorded : Report!Within(Report!DateOf(i), x * L, L)})

\* The dates of what is recorded.
DatesOf(t, n) == \A i \in 1 .. n : t[i] = Report!DateOf(i)

\* So are the monthly reports and the yearly ones, but for the last half seconds.
LEMMA LongerSums ==
    ASSUME NEW n \in Nat, NEW t \in [1 .. n -> Nat], DOMAIN recorded = 1 .. n,
           Report!PnlOf \in [1 .. n -> Int], DatesOf(t, n),
           NEW L \in Nat, L >= 2, NEW K \in Nat, InPeriods(t, n, L, K),
           NEW g, DOMAIN g = 0 .. K - 1, ReportedSums(g, L)
    PROVE  SumFunctionOnSet(g, DOMAIN g)
             = SumFunctionOnSet(Report!PnlOf, 1 .. n) - Report!LastHalfSecond(L)
<1>1. PICK f : f = Report!PnlOf
  OBVIOUS
<1>2. SumsOf(g, K, L, f, n, t)
  <2>1. ASSUME NEW x \in 0 .. K - 1
        PROVE  g[x] = SumFunctionOnSet(f, {i \in 1 .. n : x * L <= t[i] /\ t[i] <= x * L + L - 2})
    <3>1. {i \in DOMAIN recorded : Report!Within(Report!DateOf(i), x * L, L)}
            = {i \in 1 .. n : x * L <= t[i] /\ t[i] <= x * L + L - 2}
      BY DEF Report!Within, DatesOf
    <3>2. QED
      BY <1>1, <3>1 DEF ReportedSums
  <2>2. QED
    BY <2>1 DEF SumsOf
<1>3. f \in [1 .. n -> Int]
  BY <1>1
<1>4. PICK E : E = LastTicks(t, n, L)
  OBVIOUS
<1>5. SumFunctionOnSet(g, 0 .. K - 1) = SumFunctionOnSet(f, 1 .. n) - SumFunctionOnSet(f, E)
  <2>1. InPeriods(t, n, L, K)
    OBVIOUS
  <2>2. /\ L \in Nat /\ L >= 2 /\ K \in Nat /\ n \in Nat /\ f \in [1 .. n -> Int]
        /\ t \in [1 .. n -> Nat] /\ SumsOf(g, K, L, f, n, t)
    BY <1>2, <1>3
  <2>3. SumFunctionOnSet(g, 0 .. K - 1)
          = SumFunctionOnSet(f, 1 .. n) - SumFunctionOnSet(f, LastTicks(t, n, L))
    BY ONLY <2>1, <2>2, PeriodSums, SMTT(40)
  <2>4. QED
    BY <1>4, <2>3
<1>6. {i \in DOMAIN recorded : Report!DateOf(i) % L = L - 1} = E
  BY <1>4 DEF LastTicks, DatesOf
<1>7. Report!LastHalfSecond(L)
        = SumFunctionOnSet(f, {i \in DOMAIN recorded : Report!DateOf(i) % L = L - 1})
  BY <1>1, ReportSums DEF Report!LastHalfSecond
<1>8. QED
  BY <1>1, <1>5, <1>6, <1>7

\* A month that traded is among the months of its year.
LEMMA MonthInYear ==
    ASSUME NEW n \in Nat, NEW t \in [1 .. n -> Nat], DOMAIN recorded = 1 .. n,
           \A i \in 1 .. n : t[i] = Report!DateOf(i),
           NEW y \in Nat, NEW m \in Nat, m \div MonthsOfYear = y,
           Report!MonthlyReport(m).overall.total_trades > 0
    PROVE  Report!YearlyReport(y).monthly_reports[m] = Report!MonthlyReport(m)
<1>1. PICK S, M, Y, b : /\ S = Report!TradesOf(m) /\ M = Report!Month /\ Y = Report!Year
                        /\ b = MonthsOfYear
  OBVIOUS
<1>2. M \in Nat /\ M >= 2 /\ Y \in Nat /\ Y = M * b /\ b \in Nat \ {0}
  BY <1>1, PeriodLengths, Calendar
<1>3. Cardinality(S) > 0
  BY <1>1, PeriodsReported, ReportIs
<1>4. S # {}
  <2>1. Cardinality({}) = 0
    BY FS_EmptySet
  <2>2. ASSUME S = {} PROVE FALSE
    <3>1. Cardinality(S) = Cardinality({})
      BY <2>2, Zenon
    <3>2. QED
      BY ONLY <1>3, <2>1, <3>1
  <2>3. QED
    BY <2>2
<1>5. PICK i \in S : TRUE
  BY <1>4
<1>6. PICK a : a = t[i]
  OBVIOUS
<1>7. i \in 1 .. n /\ a \in Nat /\ a = Report!DateOf(i) /\ m * M <= a /\ a <= m * M + M - 2
  BY <1>1, <1>5, <1>6 DEF Report!TradesOf, Report!Within
<1>8. a \div M = m
  BY <1>2, <1>7, WithinPeriod
<1>9. y * Y <= a /\ a <= y * Y + Y - 2
  <2>1. PICK r : r = m % b
    OBVIOUS
  <2>2. r \in Nat /\ r < b /\ m = b * y + r
    <3>1. m % b \in Nat /\ m % b < b /\ m = b * (m \div b) + (m % b)
      BY <1>2, Division
    <3>2. QED
      BY <1>1, <2>1, <3>1
  <2>3. PICK u, v, w, k : u = y * Y /\ v = r * M /\ w = m * M /\ k = b - r - 1
    OBVIOUS
  <2>4. w = u + v
    BY <1>2, <2>2, <2>3
  <2>5. v \in Nat /\ u \in Nat /\ k \in Nat /\ b = k + r + 1
    BY <1>2, <2>2, <2>3
  <2>6. Y = M * k + v + M /\ M * k \in Nat
    BY <1>2, <2>2, <2>3, <2>5
  <2>7. PICK z : z = M * k
    OBVIOUS
  <2>8. w <= a /\ a <= w + M - 2 /\ z \in Nat /\ Y = z + v + M
    BY <1>7, <2>3, <2>6, <2>7
  <2>9. u <= a /\ a <= u + Y - 2
    <3>0. M \in Int /\ Y \in Int /\ a \in Int
      <4>1. M \in Nat /\ Y \in Nat
        BY <1>2
      <4>2. a \in Nat
        BY <1>7
      <4>3. QED
        BY ONLY <4>1, <4>2
    <3>1. /\ u \in Int /\ v \in Int /\ w \in Int /\ z \in Int /\ M \in Int /\ Y \in Int /\ a \in Int
          /\ w = u + v /\ v >= 0 /\ z >= 0 /\ Y = z + v + M /\ w <= a /\ a <= w + M - 2
      BY ONLY <3>0, <2>4, <2>5, <2>8
    <3>2. QED
      BY ONLY <3>1
  <2>10. QED
    BY <2>3, <2>9
<1>10. PICK T : T = {j \in DOMAIN recorded :
                       Report!Within(Report!DateOf(j), y * Report!Year, Report!Year)}
  OBVIOUS
<1>11. i \in T
  BY <1>1, <1>7, <1>9, <1>10 DEF Report!Within
<1>12. Report!YearlyReport(y).monthly_reports
         = [l \in {Report!MonthOf(Report!DateOf(j)) : j \in T} |-> Report!MonthlyReport(l)]
  BY <1>10 DEF Report!YearlyReport
<1>13. Report!MonthOf(Report!DateOf(i)) = m
  BY <1>1, <1>7, <1>8 DEF Report!MonthOf
<1>14. m \in {Report!MonthOf(Report!DateOf(j)) : j \in T}
  BY <1>11, <1>13
<1>15. QED
  BY <1>12, <1>14

\* The only day of a month is its best and its worst.
LEMMA OnlyDay ==
    ASSUME NEW n \in Nat, DOMAIN recorded = 1 .. n, Report!PnlOf \in [1 .. n -> Int],
           NEW m, Report!MonthlyReport(m).trading_days = 1
    PROVE  /\ Report!MonthlyReport(m).best_day_pnl = Report!MonthlyReport(m).overall.total_pnl
           /\ Report!MonthlyReport(m).worst_day_pnl = Report!MonthlyReport(m).overall.total_pnl
<1>1. PICK S, D, pnl : /\ S = Report!TradesOf(m) /\ D = Report!DaysTraded(S)
                       /\ pnl = {Report!Sum({i \in S : Report!DayOf(Report!DateOf(i)) = d}) :
                                   d \in D}
  OBVIOUS
<1>2. /\ Report!MonthlyReport(m).best_day_pnl = IF D = {} THEN 0 ELSE Report!Max(pnl)
      /\ Report!MonthlyReport(m).worst_day_pnl = IF D = {} THEN 0 ELSE Report!Min(pnl)
  BY <1>1 DEF Report!MonthlyReport
<1>3. S \in SUBSET (1 .. n) /\ IsFiniteSet(S)
  <2>1. S \in SUBSET (1 .. n)
    BY <1>1 DEF Report!TradesOf
  <2>2. QED
    BY <2>1, TotalIs
<1>4. PICK x : x = SumFunctionOnSet(Report!PnlOf, S)
  OBVIOUS
<1>5. x \in Int /\ Report!MonthlyReport(m).overall.total_pnl = x
  BY <1>1, <1>3, <1>4, TotalIs, PeriodsReported, ReportIs
<1>6. PICK d : D = {d}
  <2>1. PICK day : day = [i \in S |-> Report!DayOf(Report!DateOf(i))]
    OBVIOUS
  <2>2. D = {day[i] : i \in S}
    BY <1>1, <2>1 DEF Report!DaysTraded
  <2>3. IsFiniteSet(D) /\ Cardinality(D) = 1
    <3>1. IsFiniteSet(D)
      BY <1>3, <2>2, ImageFinite
    <3>2. Report!MonthlyReport(m).trading_days = Cardinality(D)
      BY <1>1, PeriodsReported
    <3>3. QED
      BY <3>1, <3>2
  <2>4. QED
    BY <2>3, FS_Singleton
<1>7. \A i \in S : Report!DayOf(Report!DateOf(i)) = d
  BY <1>1, <1>6 DEF Report!DaysTraded
<1>8. {i \in S : Report!DayOf(Report!DateOf(i)) = d} = S
  BY <1>7
<1>9. Report!Sum({i \in S : Report!DayOf(Report!DateOf(i)) = d}) = x
  BY <1>4, <1>8, ReportSums
<1>10. pnl = {x}
  BY <1>1, <1>6, <1>9
<1>11. Max(pnl) = x /\ Min(pnl) = x
  <2>1. pnl \in SUBSET Int /\ x \in pnl /\ (\A z \in pnl : z <= x) /\ (\A z \in pnl : x <= z)
    BY <1>5, <1>10
  <2>2. QED
    BY <2>1, ExtremeIs
<1>12. QED
  BY <1>2, <1>5, <1>6, <1>11, FiguresExtremes

\* The reports agree with each other.
LEMMA ReportsHold ==
    ASSUME RecordsKnown
    PROVE  Report!ReportsAgree
<1>0. PICK n \in Nat : \E u \in [1 .. n -> Nat] :
             /\ Len(recorded) = n /\ DOMAIN recorded = 1 .. n
             /\ Report!PnlOf \in [1 .. n -> Int]
             /\ \A i \in 1 .. n : /\ recorded[i].entry \in Int
                                  /\ u[i] = Report!DateOf(i) /\ u[i] < Report!Year * Years
  BY RecordsAre
<1>1. PICK tt \in [1 .. n -> Nat] :
             /\ Len(recorded) = n /\ DOMAIN recorded = 1 .. n
             /\ Report!PnlOf \in [1 .. n -> Int]
             /\ \A i \in 1 .. n : /\ recorded[i].entry \in Int
                                  /\ tt[i] = Report!DateOf(i) /\ tt[i] < Report!Year * Years
  BY <1>0
<1> DEFINE total(reports) ==
             Report!SumFunction([r \in DOMAIN reports |-> reports[r].overall.total_pnl])
           years == [y \in 0 .. Years - 1 |-> Report!YearlyReport(y)]
           months == [m \in 0 .. Years * MonthsOfYear - 1 |-> Report!MonthlyReport(m)]
           days == [d \in 0 .. Years * MonthsOfYear * DaysOfMonth - 1 |-> Report!DailyReport(d)]
<1>2. total(days) = Report!Sum(DOMAIN recorded)
  <2>1. PICK g : g = [r \in DOMAIN days |-> days[r].overall.total_pnl]
    OBVIOUS
  <2>2. /\ DOMAIN g = 0 .. Years * MonthsOfYear * DaysOfMonth - 1
        /\ \A d \in DOMAIN g : g[d] = Report!DailyReport(d).overall.total_pnl
    BY <2>1
  <2>3. SumFunctionOnSet(g, DOMAIN g) = SumFunctionOnSet(Report!PnlOf, 1 .. n)
    <3> HIDE DEF days
    <3> QED
      BY <1>1, <2>2, DaysSum
  <2>4. total(days) = SumFunctionOnSet(g, DOMAIN g)
    <3> HIDE DEF days
    <3> QED
      BY <2>1, ReportSums
  <2>5. QED
    BY <1>1, <2>3, <2>4, ReportSums
<1>3. total(months) = Report!Sum(DOMAIN recorded) - Report!LastHalfSecond(Report!Month)
  <2>1. PICK g, K, L : /\ g = [r \in DOMAIN months |-> months[r].overall.total_pnl]
                       /\ K = Years * MonthsOfYear /\ L = Report!Month
    OBVIOUS
  <2>2. /\ DOMAIN g = 0 .. K - 1
        /\ \A m \in DOMAIN g : g[m] = Report!MonthlyReport(m).overall.total_pnl
    BY <2>1
  <2>3. \A m : g[m] = Report!MonthlyReport(m).overall.total_pnl =>
                 g[m] = SumFunctionOnSet(Report!PnlOf,
                   {i \in DOMAIN recorded : Report!Within(Report!DateOf(i), m * L, L)})
    BY <2>1, PeriodsReported, ReportIs DEF Report!TradesOf
  <2>4. ReportedSums(g, L) /\ DatesOf(tt, n)
    BY <1>1, <2>2, <2>3 DEF ReportedSums, DatesOf
  <2>5. L \in Nat /\ L >= 2 /\ K \in Nat /\ InPeriods(tt, n, L, K)
    BY <1>1, <2>1, PeriodLengths DEF InPeriods
  <2>6. SumFunctionOnSet(g, DOMAIN g)
          = SumFunctionOnSet(Report!PnlOf, 1 .. n) - Report!LastHalfSecond(L)
    <3> HIDE DEF months
    <3>1. /\ n \in Nat /\ tt \in [1 .. n -> Nat] /\ DOMAIN recorded = 1 .. n
          /\ Report!PnlOf \in [1 .. n -> Int] /\ DOMAIN g = 0 .. K - 1
      BY <1>1, <2>2
    <3>2. SumFunctionOnSet(g, DOMAIN g)
            = SumFunctionOnSet(Report!PnlOf, 1 .. n) - Report!LastHalfSecond(L)
      BY ONLY <2>4, <2>5, <3>1, LongerSums
    <3>3. QED
      BY <3>2
  <2>7. total(months) = SumFunctionOnSet(g, DOMAIN g)
    <3> HIDE DEF months
    <3> QED
      BY <2>1, ReportSums
  <2>8. QED
    BY <1>1, <2>1, <2>6, <2>7, ReportSums
<1>4. total(years) = Report!Sum(DOMAIN recorded) - Report!LastHalfSecond(Report!Year)
  <2>1. PICK g, K, L : /\ g = [r \in DOMAIN years |-> years[r].overall.total_pnl]
                       /\ K = Years /\ L = Report!Year
    OBVIOUS
  <2>2. /\ DOMAIN g = 0 .. K - 1
        /\ \A y \in DOMAIN g : g[y] = Report!YearlyReport(y).overall.total_pnl
    BY <2>1
  <2>3. \A y : g[y] = Report!YearlyReport(y).overall.total_pnl =>
                 g[y] = SumFunctionOnSet(Report!PnlOf,
                   {i \in DOMAIN recorded : Report!Within(Report!DateOf(i), y * L, L)})
    BY <2>1, PeriodsReported, ReportIs
  <2>4. ReportedSums(g, L) /\ DatesOf(tt, n)
    BY <1>1, <2>2, <2>3 DEF ReportedSums, DatesOf
  <2>5. L \in Nat /\ L >= 2 /\ K \in Nat /\ InPeriods(tt, n, L, K)
    BY <1>1, <2>1, PeriodLengths, Calendar DEF InPeriods
  <2>6. SumFunctionOnSet(g, DOMAIN g)
          = SumFunctionOnSet(Report!PnlOf, 1 .. n) - Report!LastHalfSecond(L)
    <3> HIDE DEF years
    <3>1. /\ n \in Nat /\ tt \in [1 .. n -> Nat] /\ DOMAIN recorded = 1 .. n
          /\ Report!PnlOf \in [1 .. n -> Int] /\ DOMAIN g = 0 .. K - 1
      BY <1>1, <2>2
    <3>2. SumFunctionOnSet(g, DOMAIN g)
            = SumFunctionOnSet(Report!PnlOf, 1 .. n) - Report!LastHalfSecond(L)
      BY ONLY <2>4, <2>5, <3>1, LongerSums
    <3>3. QED
      BY <3>2
  <2>7. total(years) = SumFunctionOnSet(g, DOMAIN g)
    <3> HIDE DEF years
    <3> QED
      BY <2>1, ReportSums
  <2>8. QED
    BY <1>1, <2>1, <2>6, <2>7, ReportSums
<1>5. \A y \in DOMAIN years : \A m \in DOMAIN months :
        m \div MonthsOfYear = y /\ months[m].overall.total_trades > 0 =>
           years[y].monthly_reports[m] = months[m]
  <2>1. ASSUME NEW y \in DOMAIN years, NEW m \in DOMAIN months,
               m \div MonthsOfYear = y, months[m].overall.total_trades > 0
        PROVE  years[y].monthly_reports[m] = months[m]
    <3>1. y \in Nat /\ m \in Nat /\ years[y] = Report!YearlyReport(y)
          /\ months[m] = Report!MonthlyReport(m)
      OBVIOUS
    <3>2. Report!MonthlyReport(m).overall.total_trades > 0
      BY <2>1, <3>1
    <3> HIDE DEF years, months
    <3>3. Report!YearlyReport(y).monthly_reports[m] = Report!MonthlyReport(m)
      BY <1>1, <2>1, <3>1, <3>2, MonthInYear
    <3>4. QED
      BY <3>1, <3>3
  <2>2. QED
    BY <2>1
<1>6. \A m \in DOMAIN months :
        months[m].trading_days = 1 =>
           /\ months[m].best_day_pnl = months[m].overall.total_pnl
           /\ months[m].worst_day_pnl = months[m].overall.total_pnl
  <2>1. \A m \in DOMAIN months : months[m] = Report!MonthlyReport(m)
    OBVIOUS
  <2> HIDE DEF months
  <2>2. \A m : Report!MonthlyReport(m).trading_days = 1 =>
           /\ Report!MonthlyReport(m).best_day_pnl = Report!MonthlyReport(m).overall.total_pnl
           /\ Report!MonthlyReport(m).worst_day_pnl = Report!MonthlyReport(m).overall.total_pnl
    BY <1>1, OnlyDay
  <2>3. QED
    BY <2>1, <2>2
<1>7. QED
  BY <1>2, <1>3, <1>4, <1>5, <1>6 DEF Report!ReportsAgree

-----------------------------------------------------------------------------
(* The drawdown of the reports. *)

\* The drawdown reported is the greatest fall of the curve.
LEMMA FallIs ==
    ASSUME NEW n \in Nat \ {0}, NEW c \in [1 .. n -> Int]
    PROVE  GreatestFall(c, n, Report!MaxDrawdown(c)) /\ Report!MaxDrawdown(c) \in Int
<1> DEFINE Is(f) == f = [i \in DOMAIN c |-> IF i = 1 THEN c[1] ELSE Report!Max({f[i - 1], c[i]})]
<1>1. DOMAIN c = 1 .. n
  OBVIOUS
<1>2. PICK P : P = CHOOSE f : Is(f)
  OBVIOUS
<1>3. ASSUME NEW x \in Int, NEW y \in Int
      PROVE  Report!Max({x, y}) = IF y <= x THEN x ELSE y
  <2>1. {x, y} \in SUBSET Int
    OBVIOUS
  <2>2. CASE y <= x
    <3>1. \A z \in {x, y} : z <= x
      BY <2>2
    <3>2. x \in {x, y}
      OBVIOUS
    <3>3. Max({x, y}) = x
      BY <2>1, <3>1, <3>2, ExtremeIs
    <3>4. QED
      BY <2>2, <3>3, FiguresExtremes
  <2>3. CASE ~(y <= x)
    <3>1. \A z \in {x, y} : z <= y
      BY <2>3
    <3>2. y \in {x, y}
      OBVIOUS
    <3>3. Max({x, y}) = y
      BY <2>1, <3>1, <3>2, ExtremeIs
    <3>4. QED
      BY <2>3, <3>3, FiguresExtremes
  <2>4. QED
    BY <2>2, <2>3
<1>4. \E f : Is(f)
  <2>1. PICK V, base, k, step :
           /\ V = Int /\ base = c[1] /\ k = 2
           /\ step = [p \in (1 .. n) \X V |-> IF c[p[1]] <= p[2] THEN p[2] ELSE c[p[1]]]
    OBVIOUS
  <2>2. base \in V /\ step \in [(1 .. n) \X V -> V] /\ k \in Nat /\ k >= 2 /\ n \in Nat
    <3>1. c[1] \in Int
      OBVIOUS
    <3>2. QED
      BY <2>1, <3>1
  <2>3. PICK f \in [1 .. n -> V] : Stepwise(f, n, k, base, step)
    BY ONLY <2>2, StepwiseExists
  <2>4. ASSUME NEW i \in 1 .. n
        PROVE  f[i] = IF i = 1 THEN c[1] ELSE Report!Max({f[i - 1], c[i]})
    <3>1. f[i] = IF i < k THEN base ELSE step[<<i, f[i - 1]>>]
      BY <2>3 DEF Stepwise
    <3>2. CASE i = 1
      BY <2>1, <3>1, <3>2
    <3>3. CASE i # 1
      <4>1. i - 1 \in 1 .. n /\ ~(i < k) /\ c[i] \in Int
        BY <2>1, <3>3
      <4>2. f[i - 1] \in Int
        BY <2>1, <2>3, <4>1
      <4>3. step[<<i, f[i - 1]>>] = IF c[i] <= f[i - 1] THEN f[i - 1] ELSE c[i]
        BY <2>1, <4>2
      <4>4. Report!Max({f[i - 1], c[i]}) = IF c[i] <= f[i - 1] THEN f[i - 1] ELSE c[i]
        BY <1>3, <4>1, <4>2
      <4>5. QED
        BY <3>1, <3>3, <4>1, <4>3, <4>4
    <3>4. QED
      BY <3>2, <3>3
  <2>5. Is(f)
    BY <1>1, <2>3, <2>4
  <2>6. QED
    BY <2>5
<1>5. Is(P)
  BY <1>2, <1>4
<1>6. \A i \in 1 .. n : P[i] = IF i = 1 THEN c[1] ELSE Report!Max({P[i - 1], c[i]})
  BY <1>1, <1>5
<1>7. PICK S : S = {0} \cup {P[i] - c[i] : i \in 1 .. n}
  OBVIOUS
<1>8. Report!MaxDrawdown(c) = Report!Max(S)
  BY <1>1, <1>2, <1>7 DEF Report!MaxDrawdown
<1> HIDE DEF Is
<1> DEFINE G == {i \in Nat : i \in 1 .. n => P[i] \in Int /\ PeakIs(c, i, P[i])}
<1>9. 0 \in G
  OBVIOUS
<1>10. ASSUME NEW i \in Nat, i \in G PROVE i + 1 \in G
  <2>1. PICK m : m = i + 1
    OBVIOUS
  <2>2. SUFFICES ASSUME m \in 1 .. n PROVE P[m] \in Int /\ PeakIs(c, m, P[m])
    BY <2>1
  <2>3. PICK x : x = c[m]
    OBVIOUS
  <2>4. x \in Int /\ m \in 1 .. m
    BY <2>1, <2>2, <2>3
  <2>5. CASE i = 0
    <3>1. m = 1 /\ P[m] = x /\ \A k \in 1 .. m : k = m
      <4>1. m = 1
        BY <2>1, <2>5
      <4>2. P[m] = c[1]
        BY <1>6, <2>2, <4>1
      <4>3. QED
        BY <2>3, <4>1, <4>2
    <3>2. QED
      BY <2>3, <2>4, <3>1 DEF PeakIs
  <2>6. CASE i # 0
    <3>1. PICK y : y = P[i]
      OBVIOUS
    <3>2. i \in 1 .. n /\ m # 1 /\ m - 1 = i
      BY <2>1, <2>2, <2>6
    <3>3. y \in Int /\ PeakIs(c, i, y)
      BY <1>10, <3>1, <3>2
    <3>4. P[m] = IF x <= y THEN y ELSE x
      BY <1>3, <1>6, <2>2, <2>3, <2>4, <3>1, <3>2, <3>3
    <3>5. \A k \in 1 .. m : k \in 1 .. i \/ k = m
      BY <2>1
    <3>6. \A k \in 1 .. i : k \in 1 .. m /\ c[k] \in Int
      BY <2>1, <3>2
    <3>7. CASE x <= y
      <4>1. P[m] = y
        BY <3>4, <3>7
      <4>2. QED
        BY <2>3, <3>3, <3>5, <3>6, <3>7, <4>1 DEF PeakIs
    <3>8. CASE ~(x <= y)
      <4>1. P[m] = x
        BY <3>4, <3>8
      <4>2. \A k \in 1 .. i : c[k] <= x
        BY <2>4, <3>3, <3>6, <3>8 DEF PeakIs
      <4>3. \A k \in 1 .. m : c[k] <= x
        BY <2>3, <2>4, <3>5, <4>2
      <4>4. QED
        BY <2>3, <2>4, <4>1, <4>3 DEF PeakIs
    <3>9. QED
      BY <3>7, <3>8
  <2>7. QED
    BY <2>5, <2>6
<1> HIDE DEF G
<1>11. \A i \in Nat : i \in G
  BY <1>9, <1>10, NumberInduction
<1>12. \A i \in 1 .. n : P[i] \in Int /\ PeakIs(c, i, P[i]) /\ c[i] \in Int
  BY <1>11 DEF G
<1>13. S \in SUBSET Int /\ IsFiniteSet(S) /\ 0 \in S
  <2>0. PICK D, fall : D = 1 .. n /\ fall = [i \in 1 .. n |-> P[i] - c[i]]
    OBVIOUS
  <2>1. PICK U : U = {fall[i] : i \in D}
    OBVIOUS
  <2>2. IsFiniteSet(D)
    BY <2>0, FS_Interval
  <2>3. IsFiniteSet(U)
    BY ONLY <2>1, <2>2, ImageFinite
  <2>4. S = U \cup {0}
    BY <1>7, <2>0, <2>1
  <2>5. IsFiniteSet(S)
    BY <2>3, <2>4, FS_AddElement
  <2>6. QED
    BY <1>7, <1>12, <2>5
<1>14. PICK M : M = Max(S)
  OBVIOUS
<1>15. M \in S /\ \A x \in S : x <= M
  BY <1>13, <1>14, Extremes
<1>16. M \in Int
  BY <1>13, <1>15
<1>17. ASSUME NEW a \in 1 .. n, NEW b \in 1 .. n, a <= b PROVE c[a] - c[b] <= M
  <2>1. P[b] - c[b] <= M
    BY <1>7, <1>15
  <2>2. a \in 1 .. b
    BY <1>17
  <2>3. c[a] <= P[b]
    BY <1>12, <2>2 DEF PeakIs
  <2>4. c[a] \in Int /\ c[b] \in Int /\ P[b] \in Int
    BY <1>12
  <2>5. QED
    BY ONLY <1>16, <2>1, <2>3, <2>4
<1>18. \E a, b \in 1 .. n : a <= b /\ c[a] - c[b] = M
  <2>1. CASE M = 0
    <3>1. PICK a : a = 1
      OBVIOUS
    <3>2. a \in 1 .. n /\ a <= a /\ c[a] - c[a] = 0
      BY <1>12, <3>1
    <3>3. QED
      BY <2>1, <3>2
  <2>2. CASE M # 0
    <3>1. PICK b \in 1 .. n : M = P[b] - c[b]
      BY <1>7, <1>15, <2>2
    <3>2. PICK a \in 1 .. b : c[a] = P[b]
      BY <1>12 DEF PeakIs
    <3>3. a \in 1 .. n /\ a <= b
      OBVIOUS
    <3>4. c[a] - c[b] = M
      BY <3>1, <3>2
    <3>5. QED
      BY <3>3, <3>4
  <2>3. QED
    BY <2>1, <2>2
<1>19. Report!MaxDrawdown(c) = M
  BY <1>8, <1>14, FiguresExtremes
<1>20. QED
  BY <1>16, <1>17, <1>18, <1>19 DEF GreatestFall

\* The positions of trades by the time of their entry.
ByEntry(n) == {p \in (1 .. n) \X (1 .. n) : Report!Before(p[1], p[2])}

\* The curve is of the trades in the order of their entries.
LEMMA OrderOfEntries ==
    ASSUME NEW n \in Nat, DOMAIN recorded = 1 .. n, \A i \in 1 .. n : recorded[i].entry \in Int
    PROVE  \E o \in [1 .. n -> 1 .. n] :
             /\ Report!EquityCurve = [i \in 1 .. n |-> Report!Sum({o[k] : k \in 1 .. i})]
             /\ \A i, j \in 1 .. n : i < j => o[i] # o[j] /\ Report!Before(o[i], o[j])
             /\ \A x \in 1 .. n : \E i \in 1 .. n : o[i] = x
<1>1. PICK S, R : S = 1 .. n /\ R = ByEntry(n)
  OBVIOUS
<1>2. IsFiniteSet(S) /\ Cardinality(S) = n
  <2>1. 1 \in Int /\ n \in Int
    OBVIOUS
  <2>2. IsFiniteSet(S) /\ Cardinality(S) = IF 1 > n THEN 0 ELSE n - 1 + 1
    BY <1>1, <2>1, FS_Interval
  <2>3. QED
    BY <2>2
<1>3. \A i, j \in S : <<i, j>> \in R <=> Report!Before(i, j)
  BY <1>1 DEF ByEntry
<1>4. Ordering(R, S)
  <2>1. PICK e : e = [i \in S |-> recorded[i].entry]
    OBVIOUS
  <2>2. \A i \in S : e[i] \in Int /\ i \in Int
    BY <1>1, <2>1
  <2>3. \A i, j \in S : <<i, j>> \in R <=> (e[i] < e[j] \/ (e[i] = e[j] /\ i <= j))
    BY <1>3, <2>1 DEF Report!Before
  <2>4. ASSUME NEW x \in S, NEW y \in S PROVE <<x, y>> \in R \/ <<y, x>> \in R
    <3>1. PICK a, b : a = e[x] /\ b = e[y]
      OBVIOUS
    <3>2. a \in Int /\ b \in Int /\ x \in Int /\ y \in Int
      BY <2>2, <3>1
    <3>3. (a < b \/ (a = b /\ x <= y)) \/ (b < a \/ (b = a /\ y <= x))
      BY ONLY <3>2
    <3>4. QED
      BY <2>3, <3>1, <3>3
  <2>5. \A x, y, z \in S : <<x, y>> \in R /\ <<y, z>> \in R => <<x, z>> \in R
    BY <2>2, <2>3
  <2>6. QED
    BY <2>4, <2>5 DEF Ordering
<1> DEFINE Is(s) == \A i, j \in DOMAIN recorded : i < j => s[i] # s[j] /\ Report!Before(s[i], s[j])
<1>5. PICK o : o = CHOOSE s \in [DOMAIN recorded -> DOMAIN recorded] : Is(s)
  OBVIOUS
<1>6. Report!EquityCurve = [i \in DOMAIN recorded |-> Report!Sum({o[k] : k \in 1 .. i})]
  BY <1>5 DEF Report!EquityCurve
<1>7. \E s \in [DOMAIN recorded -> DOMAIN recorded] : Is(s)
  <2>1. PICK s : InOrder(s, Cardinality(S), S, R)
    BY <1>2, <1>4, OrderExists
  <2>2. s \in [S -> S] /\ \A i, j \in S : i < j => s[i] # s[j] /\ <<s[i], s[j]>> \in R
    BY <1>1, <1>2, <2>1 DEF InOrder
  <2>3. \A i, j \in S : i < j => s[i] # s[j] /\ Report!Before(s[i], s[j])
    BY <1>3, <2>2
  <2>4. QED
    BY <1>1, <2>2, <2>3
<1> HIDE DEF Is
<1>8. o \in [DOMAIN recorded -> DOMAIN recorded] /\ Is(o)
  BY <1>5, <1>7
<1>9. o \in [S -> S] /\ \A i, j \in S : i < j => o[i] # o[j] /\ Report!Before(o[i], o[j])
  BY <1>1, <1>8 DEF Is
<1>10. InOrder(o, Cardinality(S), S, R)
  <2>1. \A i, j \in S : i < j => o[i] # o[j] /\ <<o[i], o[j]>> \in R
    BY <1>3, <1>9
  <2>2. QED
    BY <1>1, <1>2, <1>9, <2>1 DEF InOrder
<1>11. \A x \in S : \E i \in 1 .. n : o[i] = x
  BY <1>2, <1>10, OrderReaches
<1>12. QED
  BY <1>1, <1>6, <1>9, <1>11

\* Of two trades one is before the other, and both only of the same.
LEMMA EntriesOrder ==
    ASSUME NEW n \in Nat, NEW i \in 1 .. n, NEW j \in 1 .. n,
           recorded[i].entry \in Int, recorded[j].entry \in Int
    PROVE  /\ Report!Before(i, i)
           /\ Report!Before(i, j) /\ Report!Before(j, i) => i = j
<1>1. PICK a, b : a = recorded[i].entry /\ b = recorded[j].entry
  OBVIOUS
<1>2. a \in Int /\ b \in Int /\ i \in Int /\ j \in Int
  BY <1>1
<1>3. /\ Report!Before(i, i) <=> (a < a \/ (a = a /\ i <= i))
      /\ Report!Before(i, j) <=> (a < b \/ (a = b /\ i <= j))
      /\ Report!Before(j, i) <=> (b < a \/ (b = a /\ j <= i))
  BY <1>1 DEF Report!Before
<1>4. QED
  BY ONLY <1>2, <1>3

\* The greatest loss from one trade to a later one is the drawdown reported.
LEMMA DrawdownHolds ==
    ASSUME RecordsKnown
    PROVE  Report!DrawdownTrue
<1>1. PICK n \in Nat : /\ DOMAIN recorded = 1 .. n /\ Report!PnlOf \in [1 .. n -> Int]
                       /\ \A i \in 1 .. n : recorded[i].entry \in Int
  BY RecordsAre
<1>2. PICK o \in [1 .. n -> 1 .. n] :
             /\ Report!EquityCurve = [i \in 1 .. n |-> Report!Sum({o[k] : k \in 1 .. i})]
             /\ \A i, j \in 1 .. n : i < j => o[i] # o[j] /\ Report!Before(o[i], o[j])
             /\ \A x \in 1 .. n : \E i \in 1 .. n : o[i] = x
  BY <1>1, OrderOfEntries
<1>3. PICK up, c, d :
        /\ up = [i \in 1 .. n |-> Report!Sum({j \in 1 .. n : Report!Before(j, i)})]
        /\ c = Report!EquityCurve /\ d = Report!PerformanceMetrics.max_drawdown
  OBVIOUS
<1>4. d = Report!MaxDrawdown(c)
  BY <1>3 DEF Report!PerformanceMetrics
<1>5. \A i \in 1 .. n : up[i] \in Int
  <2>1. ASSUME NEW i \in 1 .. n PROVE up[i] \in Int
    <3>1. PICK U : U = {j \in 1 .. n : Report!Before(j, i)}
      OBVIOUS
    <3>2. U \in SUBSET (1 .. n)
      BY <3>1
    <3>3. up[i] = Report!Sum(U)
      BY <1>3, <3>1
    <3>4. SumFunctionOnSet(Report!PnlOf, U) \in Int
      BY <1>1, <3>2, TotalIs
    <3>5. QED
      BY <3>3, <3>4, ReportSums
  <2>2. QED
    BY <2>1
<1>6. \A i, j \in 1 .. n : i <= j <=> Report!Before(o[i], o[j])
  <2>1. ASSUME NEW i \in 1 .. n, NEW j \in 1 .. n
        PROVE  i <= j <=> Report!Before(o[i], o[j])
    <3>1. o[i] \in 1 .. n /\ o[j] \in 1 .. n
      OBVIOUS
    <3>2. /\ Report!Before(o[i], o[i])
          /\ Report!Before(o[i], o[j]) /\ Report!Before(o[j], o[i]) => o[i] = o[j]
      <4>1. PICK x, y : x = o[i] /\ y = o[j]
        OBVIOUS
      <4>2. x \in 1 .. n /\ y \in 1 .. n /\ recorded[x].entry \in Int /\ recorded[y].entry \in Int
        BY <1>1, <3>1, <4>1
      <4>3. /\ Report!Before(x, x)
            /\ Report!Before(x, y) /\ Report!Before(y, x) => x = y
        BY <4>2, EntriesOrder
      <4>4. QED
        BY <4>1, <4>3
    <3>3. i < j => o[i] # o[j] /\ Report!Before(o[i], o[j])
      BY <1>2
    <3>4. j < i => o[j] # o[i] /\ Report!Before(o[j], o[i])
      BY <1>2
    <3>5. CASE i < j
      BY <3>3, <3>5
    <3>6. CASE j < i
      BY <3>2, <3>4, <3>6
    <3>7. CASE i = j
      BY <3>2, <3>7
    <3>8. QED
      BY <3>5, <3>6, <3>7
  <2>2. QED
    BY <2>1
<1>7. ASSUME NEW i \in 1 .. n PROVE c[i] = up[o[i]]
  <2>1. PICK x : x = o[i]
    OBVIOUS
  <2>2. \A k \in 1 .. n : k \in 1 .. i <=> Report!Before(o[k], x)
    BY <1>6, <2>1
  <2>3. \A k \in 1 .. i : k \in 1 .. n
    OBVIOUS
  <2>4. {o[k] : k \in 1 .. i} = {j \in 1 .. n : Report!Before(j, x)}
    <3>1. ASSUME NEW j \in {o[k] : k \in 1 .. i} PROVE j \in 1 .. n /\ Report!Before(j, x)
      BY <2>2, <2>3
    <3>2. ASSUME NEW j \in 1 .. n, Report!Before(j, x) PROVE j \in {o[k] : k \in 1 .. i}
      BY <1>2, <2>2, <3>2
    <3>3. QED
      BY <3>1, <3>2
  <2>5. x \in 1 .. n
    BY <2>1
  <2>6. QED
    BY <1>2, <1>3, <2>1, <2>4, <2>5
<1>8. c \in [1 .. n -> Int]
  <2>1. ASSUME NEW i \in 1 .. n PROVE c[i] \in Int
    <3>1. o[i] \in 1 .. n
      OBVIOUS
    <3>2. QED
      BY <1>5, <1>7, <3>1
  <2>2. QED
    BY <1>2, <1>3, <2>1
<1>9. PICK T : T = {0} \cup UNION {{up[i] - up[j] : j \in {l \in 1 .. n : Report!Before(i, l)}} :
                                     i \in 1 .. n}
  OBVIOUS
<1>10. \A x : x \in T <=> x = 0 \/ \E i, j \in 1 .. n : Report!Before(i, j) /\ x = up[i] - up[j]
  BY <1>9
<1>11. d = Max(T)
  <2>1. CASE n = 0
    <3>1. 1 .. n = {}
      BY <2>1
    <3>2. T = {0}
      BY <1>10, <3>1
    <3>3. DOMAIN c = {}
      BY <1>2, <1>3, <3>1
    <3>4. PICK S : S = {x : x \in {0}}
      OBVIOUS
    <3>5. d = Report!Max({0})
      BY <1>4, <3>3 DEF Report!MaxDrawdown
    <3>6. QED
      BY <3>2, <3>5, FiguresExtremes
  <2>2. CASE n # 0
    <3>1. n \in Nat \ {0}
      BY <2>2
    <3>2. GreatestFall(c, n, d) /\ d \in Int
      BY <1>4, <1>8, <3>1, FallIs
    <3>3. PICK a \in 1 .. n, b \in 1 .. n : a <= b /\ c[a] - c[b] = d
      BY <3>2 DEF GreatestFall
    <3>4. \A i, j \in 1 .. n : i <= j => c[i] - c[j] <= d
      BY <3>2 DEF GreatestFall
    <3>5. d \in T
      <4>1. o[a] \in 1 .. n /\ o[b] \in 1 .. n /\ Report!Before(o[a], o[b])
        BY <1>6, <3>3
      <4>2. d = up[o[a]] - up[o[b]]
        BY <1>7, <3>3
      <4>3. QED
        BY <1>10, <4>1, <4>2
    <3>6. ASSUME NEW x \in T PROVE x \in Int /\ x <= d
      <4>1. CASE x = 0
        <5>1. c[1] - c[1] <= d /\ c[1] \in Int
          BY <1>8, <3>1, <3>4
        <5>2. QED
          BY <3>2, <4>1, <5>1
      <4>2. CASE \E i, j \in 1 .. n : Report!Before(i, j) /\ x = up[i] - up[j]
        <5>1. PICK i \in 1 .. n, j \in 1 .. n : Report!Before(i, j) /\ x = up[i] - up[j]
          BY <4>2
        <5>2. PICK k \in 1 .. n : o[k] = i
          BY <1>2
        <5>3. PICK l \in 1 .. n : o[l] = j
          BY <1>2
        <5>4. k <= l /\ x = c[k] - c[l]
          BY <1>6, <1>7, <5>1, <5>2, <5>3
        <5>5. c[k] \in Int /\ c[l] \in Int
          BY <1>8
        <5>6. QED
          BY <3>4, <5>4, <5>5
      <4>3. QED
        BY <1>10, <4>1, <4>2
    <3>7. T \in SUBSET Int /\ \A x \in T : x <= d
      BY <3>6
    <3>8. QED
      BY <3>5, <3>7, ExtremeIs
  <2>3. QED
    BY <2>1, <2>2
<1> DEFINE upTo(i) == Report!Sum({j \in DOMAIN recorded : Report!Before(j, i)})
           after(i) == {j \in DOMAIN recorded : Report!Before(i, j)}
           losses == UNION {{upTo(i) - upTo(j) : j \in after(i)} : i \in DOMAIN recorded}
<1>12. T = {0} \cup losses
  <2>1. \A i \in 1 .. n : up[i] = upTo(i)
    BY <1>1, <1>3
  <2>2. \A i \in 1 .. n : after(i) = {l \in 1 .. n : Report!Before(i, l)}
    BY <1>1
  <2> HIDE DEF upTo, after
  <2>3. \A i : after(i) \subseteq 1 .. n
    BY <1>1 DEF after
  <2>4. \A x : x \in losses <=> \E i, j \in 1 .. n : j \in after(i) /\ x = upTo(i) - upTo(j)
    BY <1>1, <2>3
  <2> HIDE DEF losses
  <2>5. \A i, j \in 1 .. n : j \in after(i) <=> Report!Before(i, j)
    BY <2>2
  <2>6. \A x : x \in T <=> x = 0 \/ x \in losses
    BY <1>10, <2>1, <2>4, <2>5
  <2>7. QED
    BY <2>6
<1>13. d = Report!Max({0} \cup losses)
  <2> HIDE DEF losses
  <2> QED
    BY <1>11, <1>12, FiguresExtremes
<1>14. QED
  BY <1>3, <1>13 DEF Report!DrawdownTrue

-----------------------------------------------------------------------------
\* Whatever trades and records there are, the figures are of them.
FiguresKnown == ResultsKnown /\ RecordsKnown

\* The analytics of a back-test agree with each other and with its trades, and so do the
\* reports, by the day, the month and the year; the drawdown reported is the greatest loss
\* from one trade to a later one.
THEOREM FiguresStayTrue == FiguresSpec => []FiguresTrue
<1>1. FiguresInit => FiguresKnown
  BY DEF FiguresInit, Analysis!AnalyticsInit, Report!ReportInit, FiguresKnown, ResultsKnown,
         RecordsKnown
<1>2. ASSUME FiguresKnown, [FiguresNext]_figureVars PROVE FiguresKnown'
  <2>1. CASE ResultsGrow
    <3>1. results' \in Seq(Results) /\ equity_curve' \in Seq(Equities)
      <4>1. CASE Analysis!TradeClosed
        <5>1. PICK trade \in Results : results' = Append(results, trade)
          BY <4>1 DEF Analysis!TradeClosed
        <5>2. equity_curve' = equity_curve
          BY <4>1 DEF Analysis!TradeClosed
        <5>3. QED
          BY <1>2, <5>1, <5>2 DEF FiguresKnown, ResultsKnown
      <4>2. CASE Analysis!EquityTaken
        <5>1. PICK equity \in Equities : equity_curve' = Append(equity_curve, equity)
          BY <4>2 DEF Analysis!EquityTaken
        <5>2. results' = results
          BY <4>2 DEF Analysis!EquityTaken
        <5>3. QED
          BY <1>2, <5>1, <5>2 DEF FiguresKnown, ResultsKnown
      <4>3. QED
        BY <2>1, <4>1, <4>2 DEF ResultsGrow, Analysis!AnalyticsStep
    <3>2. recorded' = recorded
      BY <2>1 DEF ResultsGrow
    <3>3. QED
      BY <1>2, <3>1, <3>2 DEF FiguresKnown, ResultsKnown, RecordsKnown
  <2>2. CASE ReportsGrow
    <3>1. PICK R : R = [entry : Entries, exit : Exits \cup {Report!Open}, pnl : Pnls]
      OBVIOUS
    <3>2. PICK entry \in Entries, exit \in Exits \cup {Report!Open}, pnl \in Pnls :
             recorded' = Append(recorded, [entry |-> entry, exit |-> exit, pnl |-> pnl])
      BY <2>2 DEF ReportsGrow, Report!RecordTrade
    <3>3. PICK trade : trade = [entry |-> entry, exit |-> exit, pnl |-> pnl]
      OBVIOUS
    <3>4. trade \in R
      BY <3>1, <3>3
    <3>5. recorded \in Seq(R) /\ recorded' = Append(recorded, trade)
      BY <1>2, <3>1, <3>2, <3>3 DEF FiguresKnown, RecordsKnown
    <3>6. recorded' \in Seq(R)
      BY ONLY <3>4, <3>5
    <3>7. results' = results /\ equity_curve' = equity_curve
      BY <2>2 DEF ReportsGrow, Analysis!anvars
    <3>8. QED
      BY <1>2, <3>1, <3>6, <3>7 DEF FiguresKnown, ResultsKnown, RecordsKnown
  <2>3. CASE TextGrows \/ UNCHANGED figureVars
    BY <1>2, <2>3 DEF TextGrows, figureVars, Analysis!anvars, FiguresKnown, ResultsKnown,
                      RecordsKnown
  <2>4. QED
    BY <1>2, <2>1, <2>2, <2>3 DEF FiguresNext
<1>3. FiguresKnown => FiguresTrue
  BY AnalyticsHold, HistoryAgreesHolds, ReportsHold, DrawdownHolds DEF FiguresKnown, FiguresTrue
<1>4. QED
  BY <1>1, <1>2, <1>3, PTL DEF FiguresSpec
====
