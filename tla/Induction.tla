---- MODULE Induction ----
(***************************************************************************)
(* Induction over numbers, finite sets and sequences, and what functions   *)
(* that are defined by recursion over finite sets are, or step by step; at *)
(* the end, what fractions are.  A property is the set of the things that  *)
(* have it, so that every lemma can be cited for any property.             *)
(***************************************************************************)
EXTENDS Fractions, Sequences, SequencesExt, Functions, FiniteSetTheorems, TLAPS

\* What holds of the empty set, and of a finite set with one element more, holds of every
\* finite set: a counterexample would have a minimal one.
LEMMA SetInduction ==
    ASSUME NEW S, NEW G, {} \in G,
           \A T \in SUBSET S : \A x \in S \ T : IsFiniteSet(T) /\ T \in G => T \cup {x} \in G
    PROVE  \A T \in SUBSET S : IsFiniteSet(T) => T \in G
<1> DEFINE Bad == {T \in FiniteSubsetsOf(S) : T \notin G}
<1> SUFFICES ASSUME Bad # {} PROVE FALSE
  BY DEF FiniteSubsetsOf
<1>1. Bad \subseteq FiniteSubsetsOf(S)
  OBVIOUS
<1> HIDE DEF Bad
<1>2. PICK T \in Bad : \A U \in Bad : <<U, T>> \notin StrictSubsetOrdering(S)
  BY <1>1, FS_StrictSubsetOrderingWellFounded, WFMin
<1> USE DEF Bad
<1>3. T \in SUBSET S /\ IsFiniteSet(T) /\ T \notin G
  BY DEF FiniteSubsetsOf
<1>4. PICK x \in T : TRUE
  BY <1>3
<1>5. PICK U : U = T \ {x}
  OBVIOUS
<1>6. /\ IsFiniteSet(U) /\ U \in SUBSET S /\ U \subseteq T /\ U # T
      /\ U \cup {x} = T /\ x \in S \ U
  BY <1>3, <1>4, <1>5, FS_RemoveElement
<1>7. <<U, T>> \in StrictSubsetOrdering(S)
  BY <1>3, <1>6 DEF StrictSubsetOrdering
<1>8. U \in FiniteSubsetsOf(S)
  BY <1>6 DEF FiniteSubsetsOf
<1>9. U \in G
  BY <1>2, <1>7, <1>8
<1>10. QED
  BY <1>3, <1>6, <1>9

\* What holds of 0, and of n + 1 if of n, holds of every number.
LEMMA NumberInduction ==
    ASSUME NEW G, 0 \in G, \A n \in Nat : n \in G => n + 1 \in G
    PROVE  \A n \in Nat : n \in G
<1> DEFINE H == {T \in SUBSET Nat : IsFiniteSet(T) /\ Cardinality(T) \in G}
<1>1. {} \in H
  BY FS_EmptySet
<1>2. ASSUME NEW T \in SUBSET Nat, NEW x \in Nat \ T, IsFiniteSet(T), T \in H
      PROVE  T \cup {x} \in H
  <2>1. /\ IsFiniteSet(T \cup {x})
        /\ Cardinality(T \cup {x}) = Cardinality(T) + 1
    BY <1>2, FS_AddElement
  <2>2. Cardinality(T) \in Nat /\ Cardinality(T) \in G
    BY <1>2, FS_CardinalityType
  <2>3. QED
    BY <2>1, <2>2
<1> HIDE DEF H
<1>3. \A T \in SUBSET Nat : IsFiniteSet(T) => T \in H
  BY <1>1, <1>2, SetInduction
<1>4. ASSUME NEW n \in Nat PROVE n \in G
  <2>1. IsFiniteSet(1 .. n) /\ Cardinality(1 .. n) = n
    BY FS_Interval
  <2>2. 1 .. n \in SUBSET Nat
    OBVIOUS
  <2>3. 1 .. n \in H
    BY <1>3, <2>1, <2>2
  <2>4. QED
    BY <2>1, <2>3 DEF H
<1>5. QED
  BY <1>4

\* What holds of the empty sequence, and of a sequence with one element more, holds of every
\* sequence.
LEMMA SequenceInduction ==
    ASSUME NEW X, NEW G, <<>> \in G,
           \A s \in Seq(X), x \in X : s \in G => Append(s, x) \in G
    PROVE  \A s \in Seq(X) : s \in G
<1> DEFINE H == {n \in Nat : \A s \in Seq(X) : Len(s) = n => s \in G}
<1>1. 0 \in H
  <2>1. \A s \in Seq(X) : Len(s) = 0 => s = <<>>
    OBVIOUS
  <2>2. QED
    BY <2>1
<1>2. ASSUME NEW n \in Nat, n \in H PROVE n + 1 \in H
  <2>1. SUFFICES ASSUME NEW s \in Seq(X), Len(s) = n + 1 PROVE s \in G
    OBVIOUS
  <2>2. PICK t : t = SubSeq(s, 1, n)
    OBVIOUS
  <2>3. /\ t \in Seq(X) /\ Len(t) = n
        /\ s = Append(t, s[n + 1]) /\ s[n + 1] \in X
    BY <2>1, <2>2
  <2>4. QED
    BY <1>2, <2>3
<1> HIDE DEF H
<1>3. \A n \in Nat : n \in H
  BY <1>1, <1>2, NumberInduction
<1>4. QED
  BY <1>3 DEF H

\* Numbers that are finitely many have a greatest.
LEMMA GreatestExists ==
    \A D \in SUBSET Nat : IsFiniteSet(D) /\ D # {} => \E m \in D : \A n \in D : m >= n
<1> DEFINE G == {D \in SUBSET Nat : D = {} \/ \E m \in D : \A n \in D : m >= n}
<1>1. {} \in G
  OBVIOUS
<1>2. ASSUME NEW D \in SUBSET Nat, NEW x \in Nat \ D, D \in G PROVE D \cup {x} \in G
  <2>1. CASE D = {}
    BY <2>1
  <2>2. CASE D # {}
    <3>1. PICK m \in D : \A n \in D : m >= n
      BY <1>2, <2>2
    <3>2. CASE m >= x
      BY <3>1, <3>2
    <3>3. CASE x >= m
      BY <3>1, <3>3
    <3>4. QED
      BY <3>2, <3>3
  <2>3. QED
    BY <2>1, <2>2
<1> HIDE DEF G
<1>3. \A D \in SUBSET Nat : IsFiniteSet(D) => D \in G
  BY <1>1, <1>2, SetInduction
<1>4. QED
  BY <1>3 DEF G

\* Numbers have a least.
LEMMA LeastExists ==
    \A D \in SUBSET Nat : D # {} => \E m \in D : \A n \in D : m <= n
<1> DEFINE Reaches(D, n) == \E d \in D : d <= n
           HasLeast(D) == \E m \in D : \A n \in D : m <= n
           G == {n \in Nat : \A D \in SUBSET Nat : Reaches(D, n) => HasLeast(D)}
<1>1. 0 \in G
  OBVIOUS
<1>2. ASSUME NEW n \in Nat, n \in G PROVE n + 1 \in G
  <2>1. SUFFICES ASSUME NEW D \in SUBSET Nat, Reaches(D, n + 1) PROVE HasLeast(D)
    OBVIOUS
  <2>2. CASE Reaches(D, n)
    BY <1>2, <2>2
  <2>3. CASE ~Reaches(D, n)
    <3>1. n + 1 \in D /\ \A d \in D : n + 1 <= d
      BY <2>1, <2>3
    <3>2. QED
      BY <3>1
  <2>4. QED
    BY <2>2, <2>3
<1> HIDE DEF G
<1>3. \A n \in Nat : n \in G
  BY <1>1, <1>2, NumberInduction
<1>4. ASSUME NEW D \in SUBSET Nat, NEW d \in D PROVE HasLeast(D)
  <2>1. d \in Nat /\ Reaches(D, d)
    OBVIOUS
  <2>2. QED
    BY <1>3, <2>1 DEF G
<1>5. QED
  BY <1>4

-----------------------------------------------------------------------------
(* Recursion over the subsets of a finite set, as in Folds!MapThenFoldSet.  *)

\* f takes an element out of a set, and steps from what it is of the rest.
Recursive(f, S, base, choice, step) ==
    f = [s \in SUBSET S |->
            IF s = {} THEN base ELSE step[<<choice[s], f[s \ {choice[s]}]>>]]

Choice(choice, S) == \A s \in SUBSET S : s # {} => choice[s] \in s

\* A recursive definition over the subsets of a finite set defines a function.
LEMMA RecursionExists ==
    ASSUME NEW S, IsFiniteSet(S), NEW V, NEW base \in V, NEW choice, Choice(choice, S),
           NEW step \in [S \X V -> V]
    PROVE  \E f \in [SUBSET S -> V] : Recursive(f, S, base, choice, step)
<1> DEFINE Level(n) == {s \in SUBSET S : Cardinality(s) <= n}
           Value(f, s) == IF s = {} THEN base ELSE step[<<choice[s], f[s \ {choice[s]}]>>]
           Defined(n) == \E f \in [Level(n) -> V] : \A s \in Level(n) : f[s] = Value(f, s)
           H == {n \in Nat : Defined(n)}
<1>0. \A s \in SUBSET S : IsFiniteSet(s) /\ Cardinality(s) \in Nat
  BY FS_Subset, FS_CardinalityType
<1>a. ASSUME NEW n \in Nat, NEW s \in Level(n + 1), s # {}
      PROVE  choice[s] \in S /\ s \ {choice[s]} \in Level(n)
  <2>1. choice[s] \in s /\ choice[s] \in S
    BY <1>a DEF Choice
  <2>2. Cardinality(s \ {choice[s]}) = Cardinality(s) - 1
    BY <1>0, <2>1, FS_RemoveElement
  <2>3. QED
    BY <1>0, <2>1, <2>2
<1>1. 0 \in H
  <2>1. \A s \in Level(0) : s = {}
    BY <1>0, FS_EmptySet
  <2>2. [s \in Level(0) |-> base] \in [Level(0) -> V]
    OBVIOUS
  <2>3. QED
    BY <2>1, <2>2
<1>2. ASSUME NEW n \in Nat, n \in H PROVE n + 1 \in H
  <2>1. PICK f \in [Level(n) -> V] : \A s \in Level(n) : f[s] = Value(f, s)
    BY <1>2
  <2>2. PICK g : g = [s \in Level(n + 1) |-> Value(f, s)]
    OBVIOUS
  <2>3. \A s \in Level(n + 1) : Value(f, s) \in V
    BY <1>a
  <2>4. g \in [Level(n + 1) -> V]
    BY <2>2, <2>3
  <2>5. \A s \in Level(n) : s \in Level(n + 1) /\ g[s] = f[s]
    BY <1>0, <2>1, <2>2
  <2>6. ASSUME NEW s \in Level(n + 1) PROVE g[s] = Value(g, s)
    BY <1>a, <2>2, <2>5
  <2>7. Defined(n + 1)
    BY <2>4, <2>6
  <2> HIDE DEF Defined
  <2>8. QED
    BY <2>7
<1> HIDE DEF H
<1>3. \A n \in Nat : n \in H
  BY <1>1, <1>2, NumberInduction
<1>4. PICK n \in Nat : n = Cardinality(S)
  BY FS_CardinalityType
<1>5. Level(n) = SUBSET S
  BY <1>4, FS_Subset
<1>6. PICK f \in [Level(n) -> V] : \A s \in Level(n) : f[s] = Value(f, s)
  BY <1>3 DEF H
<1>7. f = [s \in SUBSET S |-> Value(f, s)]
  BY <1>5, <1>6
<1>8. QED
  BY <1>5, <1>6, <1>7 DEF Recursive

\* g takes the same steps over the subsets of R, as long as its values are in V.
Follows(g, R, base, choice, step, V) ==
    /\ g[{}] = base
    /\ \A s \in SUBSET R : s # {} /\ g[s \ {choice[s]}] \in V =>
          g[s] = step[<<choice[s], g[s \ {choice[s]}]>>]

\* Such functions agree.
LEMMA RecursionAgrees ==
    ASSUME NEW R, IsFiniteSet(R), NEW V, NEW base, NEW choice, Choice(choice, R), NEW step,
           NEW f, NEW g, \A s \in SUBSET R : f[s] \in V,
           Follows(f, R, base, choice, step, V), Follows(g, R, base, choice, step, V)
    PROVE  \A s \in SUBSET R : f[s] = g[s]
<1> DEFINE H == {s \in SUBSET R : f[s] = g[s]}
           Sizes == {n \in Nat : \A s \in SUBSET R : Cardinality(s) = n => s \in H}
<1>1. \A s \in SUBSET R : IsFiniteSet(s) /\ Cardinality(s) \in Nat
  BY FS_Subset, FS_CardinalityType
<1>2. {} \in H
  BY DEF Follows
<1>3. ASSUME NEW s \in SUBSET R, s # {}, NEW t, t = s \ {choice[s]}, t \in H PROVE s \in H
  BY <1>3 DEF Follows
<1> HIDE DEF H
<1>4. 0 \in Sizes
  BY <1>1, <1>2, FS_EmptySet
<1>5. ASSUME NEW n \in Nat, n \in Sizes PROVE n + 1 \in Sizes
  <2>1. SUFFICES ASSUME NEW s \in SUBSET R, Cardinality(s) = n + 1 PROVE s \in H
    OBVIOUS
  <2>2. IsFiniteSet(s) /\ s # {}
    <3>1. n + 1 # 0
      OBVIOUS
    <3>2. QED
      BY <1>1, <2>1, <3>1, FS_EmptySet
  <2>3. PICK t : t = s \ {choice[s]}
    OBVIOUS
  <2>4. Cardinality(t) = Cardinality(s) - 1 /\ t \in SUBSET R
    BY <2>2, <2>3, FS_RemoveElement DEF Choice
  <2>5. t \in H
    BY <1>5, <2>1, <2>4
  <2>6. QED
    BY <1>3, <2>2, <2>3, <2>5
<1> HIDE DEF Sizes
<1>6. \A n \in Nat : n \in Sizes
  BY <1>4, <1>5, NumberInduction
<1>7. QED
  BY <1>1, <1>6 DEF H, Sizes

-----------------------------------------------------------------------------
(* Sums: Functions!SumFunctionOnSet.                                        *)

\* The element that a fold takes first.
Some(s) == CHOOSE x \in s : TRUE

\* The function that the definition of a sum of f over T is the recursion of.
Adds(iter, f, T) ==
    iter = [s \in SUBSET T |-> IF s = {} THEN 0 ELSE f[Some(s)] + iter[s \ {Some(s)}]]

Adding(f, T) == CHOOSE iter : Adds(iter, f, T)

First(S) == [s \in SUBSET S |-> Some(s)]
PlusStep(f, S) == [p \in S \X Int |-> f[p[1]] + p[2]]

\* It is an element.
LEMMA SomeIsElement == \A s : s # {} => Some(s) \in s
BY DEF Some

\* A sum is what this function is of the whole set.
LEMMA SumIsAdding == \A f, T : SumFunctionOnSet(f, T) = Adding(f, T)[T]
BY DEF SumFunctionOnSet, FoldFunctionOnSet, MapThenFoldSet, Adding, Adds, Some

\* It takes an element out of the set, and adds.
LEMMA AddsFollows ==
    ASSUME NEW S, NEW f, NEW iter, Adds(iter, f, S)
    PROVE  Follows(iter, S, 0, First(S), PlusStep(f, S), Int)
<1>1. iter[{}] = 0
  BY DEF Adds
<1>2. ASSUME NEW s \in SUBSET S, s # {}, iter[s \ {First(S)[s]}] \in Int
      PROVE  iter[s] = PlusStep(f, S)[<<First(S)[s], iter[s \ {First(S)[s]}]>>]
  <2>1. PICK x, v : x = Some(s) /\ v = iter[s \ {x}]
    OBVIOUS
  <2>2. x \in S /\ First(S)[s] = x
    BY <1>2, <2>1, SomeIsElement DEF First
  <2>3. iter[s] = f[x] + v
    BY <1>2, <2>1 DEF Adds
  <2>4. v \in Int
    BY <1>2, <2>1, <2>2
  <2>5. PlusStep(f, S)[<<x, v>>] = f[x] + v
    BY <2>2, <2>4 DEF PlusStep
  <2>6. QED
    BY <2>1, <2>2, <2>3, <2>5
<1>3. QED
  BY <1>1, <1>2 DEF Follows

\* This function exists, and its values are integers.
LEMMA AddingExists ==
    ASSUME NEW S, IsFiniteSet(S), NEW f, \A x \in S : f[x] \in Int
    PROVE  /\ Adds(Adding(f, S), f, S)
           /\ Adding(f, S) \in [SUBSET S -> Int]
<1>1. PICK choice, step : choice = First(S) /\ step = PlusStep(f, S)
  OBVIOUS
<1>2. Choice(choice, S)
  BY <1>1, SomeIsElement DEF Choice, First
<1>3. step \in [S \X Int -> Int]
  BY <1>1 DEF PlusStep
<1>4. PICK F \in [SUBSET S -> Int] : Recursive(F, S, 0, choice, step)
  <2>1. 0 \in Int
    OBVIOUS
  <2>2. QED
    BY ONLY <1>2, <1>3, <2>1, IsFiniteSet(S), RecursionExists
<1>5. ASSUME NEW s \in SUBSET S, s # {}
      PROVE  choice[s] = Some(s) /\ \A v \in Int : step[<<choice[s], v>>] = f[Some(s)] + v
  <2>1. choice[s] = Some(s) /\ Some(s) \in S
    BY <1>1, <1>5, SomeIsElement DEF First
  <2>2. \A x \in S, v \in Int : step[<<x, v>>] = f[x] + v
    BY <1>1 DEF PlusStep
  <2>3. QED
    BY <2>1, <2>2
<1>6. Adds(F, f, S)
  <2>1. F = [s \in SUBSET S |-> IF s = {} THEN 0 ELSE step[<<choice[s], F[s \ {choice[s]}]>>]]
    BY <1>4 DEF Recursive
  <2>2. \A s \in SUBSET S : F[s \ {choice[s]}] \in Int
    OBVIOUS
  <2>3. QED
    BY <1>5, <2>1, <2>2 DEF Adds
<1>7. PICK A : A = Adding(f, S)
  OBVIOUS
<1>8. Adds(A, f, S)
  BY <1>6, <1>7 DEF Adding
<1>9. Follows(A, S, 0, choice, step, Int)
  BY <1>1, <1>8, AddsFollows
<1>10. Follows(F, S, 0, choice, step, Int)
  BY <1>4 DEF Follows, Recursive
<1>11. \A s \in SUBSET S : F[s] = A[s]
  BY <1>2, <1>9, <1>10, RecursionAgrees
<1>12. A \in [SUBSET S -> Int]
  BY <1>8, <1>11 DEF Adds
<1>13. QED
  BY <1>7, <1>8, <1>12

\* Of the same numbers the sums are the same.
LEMMA SumSame ==
    ASSUME NEW S, IsFiniteSet(S), NEW T \in SUBSET S, NEW f, NEW g,
           \A x \in S : f[x] \in Int, \A x \in T : f[x] = g[x]
    PROVE  Adding(f, S)[T] = SumFunctionOnSet(g, T)
<1>1. IsFiniteSet(T)
  BY FS_Subset
<1>2. PICK choice, step : choice = First(T) /\ step = PlusStep(g, T)
  OBVIOUS
<1>3. Choice(choice, T)
  BY <1>2, SomeIsElement DEF Choice, First
<1>5. PICK A, B : A = Adding(f, S) /\ B = Adding(g, T)
  OBVIOUS
<1>6. Adds(A, f, S) /\ A \in [SUBSET S -> Int]
  BY <1>5, AddingExists
<1>7. Adds(B, g, T)
  BY <1>1, <1>5, AddingExists
<1>8. Follows(B, T, 0, choice, step, Int)
  BY <1>2, <1>7, AddsFollows
<1>9. Follows(A, T, 0, choice, step, Int)
  <2>1. A[{}] = 0
    BY <1>6 DEF Adds
  <2>2. ASSUME NEW s \in SUBSET T, s # {}
        PROVE  A[s] = step[<<choice[s], A[s \ {choice[s]}]>>]
    <3>1. PICK x, v : x = Some(s) /\ v = A[s \ {x}]
      OBVIOUS
    <3>2. x \in T /\ s \in SUBSET S /\ choice[s] = x
      BY <1>2, <2>2, <3>1, SomeIsElement DEF First
    <3>3. A[s] = g[x] + v /\ v \in Int
      BY <1>6, <2>2, <3>1, <3>2 DEF Adds
    <3>4. step[<<x, v>>] = g[x] + v
      BY <1>2, <3>2, <3>3 DEF PlusStep
    <3>5. QED
      BY <3>1, <3>2, <3>3, <3>4
  <2>3. QED
    BY <2>1, <2>2 DEF Follows
<1>10. \A s \in SUBSET T : A[s] = B[s]
  BY <1>1, <1>3, <1>6, <1>8, <1>9, RecursionAgrees
<1>11. QED
  BY <1>5, <1>10, SumIsAdding

\* Of the same numbers the sums are the same.
LEMMA SumAgrees ==
    ASSUME NEW S, IsFiniteSet(S), NEW f, NEW g, \A x \in S : f[x] \in Int /\ f[x] = g[x]
    PROVE  SumFunctionOnSet(f, S) = SumFunctionOnSet(g, S)
<1>1. S \in SUBSET S /\ (\A x \in S : f[x] \in Int) /\ (\A x \in S : f[x] = g[x])
  OBVIOUS
<1>2. Adding(f, S)[S] = SumFunctionOnSet(g, S)
  BY <1>1, SumSame
<1>3. QED
  BY <1>2, SumIsAdding

\* The sum of nothing is 0.
LEMMA SumEmpty == \A f : SumFunctionOnSet(f, {}) = 0
<1>1. SUFFICES ASSUME NEW f PROVE SumFunctionOnSet(f, {}) = 0
  OBVIOUS
<1>2. Adds(Adding(f, {}), f, {})
  BY AddingExists, FS_EmptySet
<1>3. QED
  BY <1>2, SumIsAdding DEF Adds

\* A sum of integers is one.
LEMMA SumType ==
    ASSUME NEW S, IsFiniteSet(S), NEW f, \A x \in S : f[x] \in Int
    PROVE  SumFunctionOnSet(f, S) \in Int
BY AddingExists, SumIsAdding

\* One number more; whichever the fold takes first.
LEMMA SumAdd ==
    ASSUME NEW T, IsFiniteSet(T), NEW x, x \notin T, NEW f, f[x] \in Int,
           \A y \in T : f[y] \in Int
    PROVE  SumFunctionOnSet(f, T \cup {x}) = f[x] + SumFunctionOnSet(f, T)
<1>1. PICK S : S = T \cup {x}
  OBVIOUS
<1>2. IsFiniteSet(S) /\ x \in S /\ T \in SUBSET S /\ \A y \in S : f[y] \in Int
  BY <1>1, FS_AddElement
<1>3. PICK A : A = Adding(f, S)
  OBVIOUS
<1>4. Adds(A, f, S) /\ A \in [SUBSET S -> Int]
  BY <1>2, <1>3, AddingExists
<1> DEFINE Step(s, y) == A[s \cup {y}] = f[y] + A[s]
           Sizes == {n \in Nat : \A s \in SUBSET S :
                                    Cardinality(s) = n => \A y \in S \ s : Step(s, y)}
<1>5. \A s \in SUBSET S : IsFiniteSet(s) /\ Cardinality(s) \in Nat
  BY <1>2, FS_Subset, FS_CardinalityType
<1>6. \A s \in SUBSET S : s # {} => Some(s) \in s /\ A[s] = f[Some(s)] + A[s \ {Some(s)}]
  BY <1>4, SomeIsElement DEF Adds
<1>7. ASSUME NEW s \in SUBSET S, NEW y \in S \ s, Some(s \cup {y}) = y PROVE Step(s, y)
  <2>1. s \cup {y} \in SUBSET S /\ s \cup {y} # {} /\ (s \cup {y}) \ {y} = s
    OBVIOUS
  <2>2. QED
    BY <1>6, <1>7, <2>1
<1>8. 0 \in Sizes
  <2>1. SUFFICES ASSUME NEW s \in SUBSET S, Cardinality(s) = 0, NEW y \in S \ s
                 PROVE  Step(s, y)
    OBVIOUS
  <2>2. s = {}
    BY <1>5, <2>1, FS_EmptySet
  <2>3. Some(s \cup {y}) = y
    BY <2>2, SomeIsElement
  <2>4. QED
    BY <1>7, <2>3
<1>9. ASSUME NEW n \in Nat, n \in Sizes PROVE n + 1 \in Sizes
  <2>1. SUFFICES ASSUME NEW s \in SUBSET S, Cardinality(s) = n + 1, NEW y \in S \ s
                 PROVE  Step(s, y)
    OBVIOUS
  <2>2. PICK z : z = Some(s \cup {y})
    OBVIOUS
  <2>3. CASE z = y
    BY <1>7, <2>2, <2>3
  <2>4. CASE z # y
    <3>1. PICK t : t = s \ {z}
      OBVIOUS
    <3>2. /\ z \in s /\ z \in S \ t /\ y \in S \ t /\ t \in SUBSET S
          /\ s = t \cup {z} /\ (s \cup {y}) \ {z} = t \cup {y}
      BY <2>2, <2>4, <3>1, SomeIsElement
    <3>3. Cardinality(t) = n
      <4>1. Cardinality(t) = Cardinality(s) - 1
        BY <1>5, <3>1, <3>2, FS_RemoveElement
      <4>2. QED
        BY <2>1, <4>1
    <3>4. Step(t, y) /\ Step(t, z)
      BY <1>9, <3>2, <3>3
    <3>5. A[s \cup {y}] = f[z] + A[t \cup {y}]
      <4>1. s \cup {y} \in SUBSET S /\ s \cup {y} # {}
        OBVIOUS
      <4>2. QED
        BY <1>6, <2>2, <3>2, <4>1
    <3>6. A[t \cup {y}] = f[y] + A[t] /\ A[s] = f[z] + A[t]
      BY <3>2, <3>4
    <3>7. f[y] \in Int /\ f[z] \in Int /\ A[t] \in Int
      BY <1>2, <1>4, <3>2
    <3>8. QED
      BY <3>5, <3>6, <3>7
  <2>5. QED
    BY <2>3, <2>4
<1> HIDE DEF Step, Sizes
<1>10. \A n \in Nat : n \in Sizes
  BY <1>8, <1>9, NumberInduction
<1>11. Step(T, x)
  BY <1>1, <1>2, <1>5, <1>10 DEF Sizes
<1>12. A[T] = SumFunctionOnSet(f, T)
  BY <1>2, <1>3, SumSame
<1>13. QED
  BY <1>1, <1>3, <1>11, <1>12, SumIsAdding DEF Step

\* The sum over a set with x is x and the sum over the rest.
LEMMA SumSplit ==
    ASSUME NEW S, IsFiniteSet(S), NEW x \in S, NEW f, \A y \in S : f[y] \in Int
    PROVE  SumFunctionOnSet(f, S) = f[x] + SumFunctionOnSet(f, S \ {x})
<1>1. PICK T : T = S \ {x}
  OBVIOUS
<1>2. IsFiniteSet(T) /\ x \notin T /\ T \cup {x} = S
  BY <1>1, FS_RemoveElement
<1>3. SumFunctionOnSet(f, T \cup {x}) = f[x] + SumFunctionOnSet(f, T)
  BY <1>1, <1>2, SumAdd
<1>4. QED
  BY <1>1, <1>2, <1>3

\* Where one number changes, the sum changes by as much.
LEMMA SumChange ==
    ASSUME NEW S, IsFiniteSet(S), NEW x \in S, NEW f, NEW g,
           \A y \in S : f[y] \in Int /\ g[y] \in Int, \A y \in S \ {x} : f[y] = g[y]
    PROVE  SumFunctionOnSet(g, S) = SumFunctionOnSet(f, S) + g[x] - f[x]
<1>1. PICK T : T = S \ {x}
  OBVIOUS
<1>2. IsFiniteSet(T)
  BY <1>1, FS_RemoveElement
<1>3. /\ SumFunctionOnSet(f, S) = f[x] + SumFunctionOnSet(f, T)
      /\ SumFunctionOnSet(g, S) = g[x] + SumFunctionOnSet(g, T)
  BY <1>1, SumSplit
<1>4. SumFunctionOnSet(f, T) = SumFunctionOnSet(g, T) /\ SumFunctionOnSet(f, T) \in Int
  BY <1>1, <1>2, SumAgrees, SumType
<1>5. QED
  BY <1>3, <1>4

\* A sum of natural numbers is one, and 0 only if all of them are.
LEMMA SumNatural ==
    ASSUME NEW S, IsFiniteSet(S), NEW f, \A x \in S : f[x] \in Nat
    PROVE  /\ SumFunctionOnSet(f, S) \in Nat
           /\ SumFunctionOnSet(f, S) = 0 <=> \A x \in S : f[x] = 0
<1> DEFINE Good(T) == /\ SumFunctionOnSet(f, T) \in Nat
                      /\ SumFunctionOnSet(f, T) = 0 <=> \A x \in T : f[x] = 0
           G == {T \in SUBSET S : Good(T)}
<1>1. {} \in G
  BY SumEmpty
<1>2. ASSUME NEW T \in SUBSET S, NEW x \in S \ T, IsFiniteSet(T), T \in G
      PROVE  T \cup {x} \in G
  <2>1. SumFunctionOnSet(f, T \cup {x}) = f[x] + SumFunctionOnSet(f, T)
    <3>1. x \notin T /\ f[x] \in Int /\ \A y \in T : f[y] \in Int
      BY <1>2
    <3>2. QED
      BY <1>2, <3>1, SumAdd
  <2>2. Good(T)
    BY <1>2
  <2>3. Good(T \cup {x})
    BY <2>1, <2>2
  <2>4. QED
    BY <2>3
<1> HIDE DEF G, Good
<1>3. \A T \in SUBSET S : IsFiniteSet(T) => T \in G
  BY <1>1, <1>2, SetInduction
<1>4. Good(S)
  BY <1>3 DEF G
<1>5. QED
  BY <1>4 DEF Good

\* The sum of sums.
LEMMA SumPlus ==
    ASSUME NEW S, IsFiniteSet(S), NEW f, NEW g, NEW h,
           \A x \in S : f[x] \in Int /\ g[x] \in Int /\ h[x] = f[x] + g[x]
    PROVE  SumFunctionOnSet(h, S) = SumFunctionOnSet(f, S) + SumFunctionOnSet(g, S)
<1> DEFINE Good(T) == SumFunctionOnSet(h, T) = SumFunctionOnSet(f, T) + SumFunctionOnSet(g, T)
           G == {T \in SUBSET S : Good(T)}
<1>1. {} \in G
  BY SumEmpty
<1>2. ASSUME NEW T \in SUBSET S, NEW x \in S \ T, IsFiniteSet(T), T \in G
      PROVE  T \cup {x} \in G
  <2>1. \A y \in T : f[y] \in Int /\ g[y] \in Int /\ h[y] \in Int
    OBVIOUS
  <2>2. x \notin T /\ f[x] \in Int /\ g[x] \in Int /\ h[x] \in Int
    OBVIOUS
  <2>3. /\ SumFunctionOnSet(f, T \cup {x}) = f[x] + SumFunctionOnSet(f, T)
        /\ SumFunctionOnSet(g, T \cup {x}) = g[x] + SumFunctionOnSet(g, T)
        /\ SumFunctionOnSet(h, T \cup {x}) = h[x] + SumFunctionOnSet(h, T)
    BY <1>2, <2>1, <2>2, SumAdd
  <2>4. SumFunctionOnSet(f, T) \in Int /\ SumFunctionOnSet(g, T) \in Int
    BY <1>2, <2>1, SumType
  <2>5. h[x] = f[x] + g[x] /\ Good(T)
    BY <1>2
  <2>6. Good(T \cup {x})
    BY <2>2, <2>3, <2>4, <2>5
  <2>7. QED
    BY <2>6
<1> HIDE DEF G
<1>3. \A T \in SUBSET S : IsFiniteSet(T) => T \in G
  BY <1>1, <1>2, SetInduction
<1>4. S \in G
  BY <1>3
<1>5. QED
  BY <1>4 DEF G

\* The sum of multiples.
LEMMA SumTimes ==
    ASSUME NEW S, IsFiniteSet(S), NEW k \in Int, NEW f, NEW h,
           \A x \in S : f[x] \in Int /\ h[x] = k * f[x]
    PROVE  SumFunctionOnSet(h, S) = k * SumFunctionOnSet(f, S)
<1> DEFINE Good(T) == SumFunctionOnSet(h, T) = k * SumFunctionOnSet(f, T)
           G == {T \in SUBSET S : Good(T)}
<1>1. {} \in G
  BY SumEmpty
<1>2. ASSUME NEW T \in SUBSET S, NEW x \in S \ T, IsFiniteSet(T), T \in G
      PROVE  T \cup {x} \in G
  <2>1. \A y \in T : f[y] \in Int /\ h[y] \in Int
    OBVIOUS
  <2>2. x \notin T /\ f[x] \in Int /\ h[x] \in Int /\ h[x] = k * f[x]
    OBVIOUS
  <2>3. /\ SumFunctionOnSet(f, T \cup {x}) = f[x] + SumFunctionOnSet(f, T)
        /\ SumFunctionOnSet(h, T \cup {x}) = h[x] + SumFunctionOnSet(h, T)
    BY <1>2, <2>1, <2>2, SumAdd
  <2>4. PICK a, b : a = f[x] /\ b = SumFunctionOnSet(f, T)
    OBVIOUS
  <2>5. a \in Int /\ b \in Int
    BY <1>2, <2>1, <2>2, <2>4, SumType
  <2>6. k * (a + b) = k * a + k * b
    BY <2>5
  <2>7. Good(T)
    BY <1>2
  <2>8. Good(T \cup {x})
    BY <2>2, <2>3, <2>4, <2>6, <2>7
  <2>9. QED
    BY <2>8
<1> HIDE DEF G
<1>3. \A T \in SUBSET S : IsFiniteSet(T) => T \in G
  BY <1>1, <1>2, SetInduction
<1>4. S \in G
  BY <1>3
<1>5. QED
  BY <1>4 DEF G

\* The sum over a part, and over the rest.
LEMMA SumParts ==
    ASSUME NEW S, IsFiniteSet(S), NEW P \in SUBSET S, NEW f, \A x \in S : f[x] \in Int
    PROVE  SumFunctionOnSet(f, S) = SumFunctionOnSet(f, P) + SumFunctionOnSet(f, S \ P)
<1> DEFINE Good(T) ==
             SumFunctionOnSet(f, P \cup T) = SumFunctionOnSet(f, P) + SumFunctionOnSet(f, T)
           G == {T \in SUBSET (S \ P) : Good(T)}
<1>0. IsFiniteSet(P) /\ SumFunctionOnSet(f, P) \in Int
  BY FS_Subset, SumType
<1>1. {} \in G
  <2>1. P \cup {} = P
    OBVIOUS
  <2>2. QED
    BY <1>0, <2>1, SumEmpty
<1>2. ASSUME NEW T \in SUBSET (S \ P), NEW x \in (S \ P) \ T, IsFiniteSet(T), T \in G
      PROVE  T \cup {x} \in G
  <2>1. PICK U : U = P \cup T
    OBVIOUS
  <2>2. IsFiniteSet(U) /\ x \notin U /\ (\A y \in U : f[y] \in Int) /\ f[x] \in Int
    BY <1>0, <1>2, <2>1, FS_Union
  <2>3. x \notin T /\ \A y \in T : f[y] \in Int
    OBVIOUS
  <2>4. /\ SumFunctionOnSet(f, U \cup {x}) = f[x] + SumFunctionOnSet(f, U)
        /\ SumFunctionOnSet(f, T \cup {x}) = f[x] + SumFunctionOnSet(f, T)
    BY <1>2, <2>2, <2>3, SumAdd
  <2>5. SumFunctionOnSet(f, T) \in Int
    BY <1>2, <2>3, SumType
  <2>6. SumFunctionOnSet(f, U) = SumFunctionOnSet(f, P) + SumFunctionOnSet(f, T)
    BY <1>2, <2>1
  <2>7. Good(T \cup {x})
    <3>1. SumFunctionOnSet(f, U \cup {x}) = SumFunctionOnSet(f, P) + SumFunctionOnSet(f, T \cup {x})
      BY <1>0, <2>2, <2>4, <2>5, <2>6
    <3>2. P \cup (T \cup {x}) = U \cup {x}
      BY <2>1
    <3>3. QED
      BY <3>1, <3>2
  <2>8. QED
    BY <2>7
<1> HIDE DEF G
<1>3. \A T \in SUBSET (S \ P) : IsFiniteSet(T) => T \in G
  BY <1>1, <1>2, SetInduction
<1>4. IsFiniteSet(S \ P)
  BY FS_Subset
<1>5. S \ P \in G
  BY <1>3, <1>4
<1>6. P \cup (S \ P) = S
  OBVIOUS
<1>7. QED
  BY <1>5, <1>6 DEF G

-----------------------------------------------------------------------------
(* What a list comprehension keeps.                                         *)

\* [x for x in list if x in S]
Kept(list, S) ==
    FoldLeft(LAMBDA kept, x : IF x \in S THEN Append(kept, x) ELSE kept, <<>>, list)

\* The last position of a sequence is what FoldLeft takes first.
LEMMA LastPosition ==
    /\ \A D \in SUBSET Nat : IsFiniteSet(D) /\ D # {} => Max(D) \in D
    /\ \A n \in Nat : Max(1 .. n + 1) = n + 1
<1>1. ASSUME NEW D \in SUBSET Nat, IsFiniteSet(D), D # {} PROVE Max(D) \in D
  BY <1>1, GreatestExists DEF Max
<1>2. ASSUME NEW n \in Nat PROVE Max(1 .. n + 1) = n + 1
  <2>1. \A m \in 1 .. n + 1 : (\A k \in 1 .. n + 1 : m >= k) <=> m = n + 1
    OBVIOUS
  <2>2. n + 1 \in 1 .. n + 1
    OBVIOUS
  <2>3. QED
    BY <2>1, <2>2 DEF Max
<1>3. QED
  BY <1>1, <1>2

\* The function that the definition of Kept is the recursion of.
Keeps(iter, list, S) ==
    iter = [D \in SUBSET DOMAIN list |->
              IF D = {} THEN <<>>
              ELSE IF list[Max(D)] \in S THEN Append(iter[D \ {Max(D)}], list[Max(D)])
                   ELSE iter[D \ {Max(D)}]]

Keeping(list, S) == CHOOSE iter : Keeps(iter, list, S)

Final(N) == [D \in SUBSET N |-> Max(D)]
Taken(list, S, N, X) ==
    [p \in N \X Seq(X) |-> IF list[p[1]] \in S THEN Append(p[2], list[p[1]]) ELSE p[2]]

\* What is kept of a list is what this function is of all its positions.
LEMMA KeepIsKeeping == \A list, S : Kept(list, S) = Keeping(list, S)[DOMAIN list]
BY DEF Kept, FoldLeft, MapThenFoldSet, Keeping, Keeps

\* It goes through the list from its end.
LEMMA KeepsFollows ==
    ASSUME NEW N, IsFiniteSet(N), NEW X, NEW list \in Seq(X), N \subseteq DOMAIN list, NEW S,
           NEW iter, Keeps(iter, list, S)
    PROVE  Follows(iter, N, <<>>, Final(N), Taken(list, S, N, X), Seq(X))
<1>1. iter[{}] = <<>>
  BY DEF Keeps
<1>2. ASSUME NEW D \in SUBSET N, D # {}, iter[D \ {Final(N)[D]}] \in Seq(X)
      PROVE  iter[D] = Taken(list, S, N, X)[<<Final(N)[D], iter[D \ {Final(N)[D]}]>>]
  <2>1. PICK i, kept : i = Max(D) /\ kept = iter[D \ {i}]
    OBVIOUS
  <2>2. i \in N /\ Final(N)[D] = i
    <3>1. D \in SUBSET Nat /\ IsFiniteSet(D)
      BY <1>2, FS_Subset
    <3>2. QED
      BY <1>2, <2>1, <3>1, LastPosition DEF Final
  <2>3. iter[D] = IF list[i] \in S THEN Append(kept, list[i]) ELSE kept
    BY <1>2, <2>1 DEF Keeps
  <2>4. kept \in Seq(X)
    BY <1>2, <2>1, <2>2
  <2>5. Taken(list, S, N, X)[<<i, kept>>] = IF list[i] \in S THEN Append(kept, list[i]) ELSE kept
    BY <2>2, <2>4 DEF Taken
  <2>6. QED
    BY <2>1, <2>2, <2>3, <2>5
<1>3. QED
  BY <1>1, <1>2 DEF Follows

\* This function exists, and its values are lists.
LEMMA KeepingExists ==
    ASSUME NEW X, NEW list \in Seq(X), NEW S
    PROVE  /\ Keeps(Keeping(list, S), list, S)
           /\ Keeping(list, S) \in [SUBSET DOMAIN list -> Seq(X)]
<1>1. PICK N, base, choice, step : /\ N = DOMAIN list /\ base = <<>>
                                   /\ choice = Final(N) /\ step = Taken(list, S, N, X)
  OBVIOUS
<1>2. N \in SUBSET Nat /\ IsFiniteSet(N)
  <2>1. N = 1 .. Len(list) /\ Len(list) \in Nat
    BY <1>1
  <2>2. QED
    BY <2>1, FS_Interval
<1>3. Choice(choice, N)
  BY <1>1, <1>2, LastPosition, FS_Subset DEF Choice, Final
<1>4. step \in [N \X Seq(X) -> Seq(X)]
  <2>1. ASSUME NEW i \in N, NEW kept \in Seq(X)
        PROVE  (IF list[i] \in S THEN Append(kept, list[i]) ELSE kept) \in Seq(X)
    <3>1. list[i] \in X
      BY <1>1
    <3>2. QED
      BY <3>1
  <2>2. QED
    BY <1>1, <2>1 DEF Taken
<1>5. base \in Seq(X)
  BY <1>1
<1>6. PICK F \in [SUBSET N -> Seq(X)] : Recursive(F, N, base, choice, step)
  BY ONLY <1>2, <1>3, <1>4, <1>5, RecursionExists
<1>7. Follows(F, N, base, choice, step, Seq(X))
  BY <1>6 DEF Follows, Recursive
<1>8. ASSUME NEW D \in SUBSET N, D # {}
      PROVE  F[D] = IF list[Max(D)] \in S THEN Append(F[D \ {Max(D)}], list[Max(D)])
                    ELSE F[D \ {Max(D)}]
  <2>1. PICK i, kept : i = Max(D) /\ kept = F[D \ {i}]
    OBVIOUS
  <2>2. i \in N /\ choice[D] = i
    BY <1>1, <1>2, <1>8, <2>1, LastPosition, FS_Subset DEF Final
  <2>3. kept \in Seq(X)
    BY <1>6, <2>1
  <2>4. F[D] = step[<<i, kept>>]
    BY <1>6, <1>8, <2>1, <2>2 DEF Recursive
  <2>5. step[<<i, kept>>] = IF list[i] \in S THEN Append(kept, list[i]) ELSE kept
    BY <1>1, <2>2, <2>3 DEF Taken
  <2>6. QED
    BY <2>1, <2>4, <2>5
<1>9. Keeps(F, list, S)
  <2>1. F[{}] = <<>>
    BY <1>1, <1>7 DEF Follows
  <2>2. QED
    BY <1>1, <1>6, <1>8, <2>1 DEF Keeps
<1>10. PICK A : A = Keeping(list, S)
  OBVIOUS
<1>11. Keeps(A, list, S)
  BY <1>9, <1>10 DEF Keeping
<1>12. Follows(A, N, base, choice, step, Seq(X))
  BY <1>1, <1>2, <1>11, KeepsFollows
<1>13. \A D \in SUBSET N : F[D] \in Seq(X)
  BY <1>6
<1>14. \A D \in SUBSET N : F[D] = A[D]
  <2>1. PICK V : V = Seq(X)
    OBVIOUS
  <2>2. /\ \A D \in SUBSET N : F[D] \in V
        /\ Follows(F, N, base, choice, step, V) /\ Follows(A, N, base, choice, step, V)
    BY <1>7, <1>12, <1>13, <2>1
  <2>3. QED
    <3>1. IsFiniteSet(N)
      BY <1>2
    <3>2. QED
      BY <1>3, <2>2, <3>1, RecursionAgrees
<1>15. A \in [SUBSET N -> Seq(X)]
  BY <1>1, <1>11, <1>13, <1>14 DEF Keeps
<1>16. QED
  BY <1>1, <1>10, <1>11, <1>15

\* Of nothing, nothing is kept.
LEMMA KeepEmpty == \A S : Kept(<<>>, S) = <<>>
<1>1. SUFFICES ASSUME NEW S PROVE Kept(<<>>, S) = <<>>
  OBVIOUS
<1>2. <<>> \in Seq({}) /\ DOMAIN <<>> = {}
  OBVIOUS
<1>3. Keeps(Keeping(<<>>, S), <<>>, S)
  BY <1>2, KeepingExists
<1>4. Keeping(<<>>, S)[{}] = <<>>
  BY <1>2, <1>3 DEF Keeps
<1>5. QED
  BY <1>2, <1>4, KeepIsKeeping

\* A list kept of a list of X is one.
LEMMA KeepType ==
    ASSUME NEW X, NEW list \in Seq(X), NEW S
    PROVE  Kept(list, S) \in Seq(X)
<1>1. Keeping(list, S) \in [SUBSET DOMAIN list -> Seq(X)]
  BY KeepingExists
<1>2. Keeping(list, S)[DOMAIN list] \in Seq(X)
  BY <1>1
<1>3. QED
  BY <1>2, KeepIsKeeping

\* Of a longer list, the last element is kept or not.
LEMMA KeepAppend ==
    ASSUME NEW X, NEW list \in Seq(X), NEW x \in X, NEW S
    PROVE  Kept(Append(list, x), S) =
             IF x \in S THEN Append(Kept(list, S), x) ELSE Kept(list, S)
<1>1. PICK N, choice, step, long, n :
        /\ N = DOMAIN list /\ choice = Final(N) /\ step = Taken(list, S, N, X)
        /\ long = Append(list, x) /\ n = Len(list)
  OBVIOUS
<1>2. /\ n \in Nat /\ N = 1 .. n /\ IsFiniteSet(N) /\ N \in SUBSET Nat
      /\ long \in Seq(X) /\ DOMAIN long = 1 .. n + 1 /\ long[n + 1] = x
      /\ N \subseteq DOMAIN long
      /\ \A i \in N : long[i] = list[i]
  <2>1. n \in Nat /\ N = 1 .. n
    BY <1>1
  <2>2. IsFiniteSet(N) /\ N \in SUBSET Nat
    BY <2>1, FS_Interval
  <2>3. long \in Seq(X) /\ DOMAIN long = 1 .. n + 1 /\ long[n + 1] = x
    BY <1>1
  <2>4. \A i \in 1 .. n : long[i] = list[i]
    BY <1>1
  <2>5. QED
    BY <2>1, <2>2, <2>3, <2>4
<1>3. Choice(choice, N)
  BY <1>1, <1>2, LastPosition, FS_Subset DEF Choice, Final
<1>4. PICK A, B : A = Keeping(list, S) /\ B = Keeping(long, S)
  OBVIOUS
<1>5. Keeps(A, list, S) /\ A \in [SUBSET N -> Seq(X)]
  BY <1>1, <1>4, KeepingExists
<1>6. Keeps(B, long, S) /\ B \in [SUBSET (1 .. n + 1) -> Seq(X)]
  BY <1>2, <1>4, KeepingExists
<1>7. Follows(A, N, <<>>, choice, step, Seq(X))
  BY <1>1, <1>2, <1>5, KeepsFollows
<1>8. Follows(B, N, <<>>, choice, step, Seq(X))
  <2>1. Taken(long, S, N, X) = step
    BY <1>1, <1>2 DEF Taken
  <2>2. Follows(B, N, <<>>, Final(N), Taken(long, S, N, X), Seq(X))
    BY <1>2, <1>6, KeepsFollows
  <2>3. QED
    BY <1>1, <2>1, <2>2
<1>9. \A D \in SUBSET N : A[D] \in Seq(X)
  BY <1>5
<1>10. A[N] = B[N]
  <2>1. PICK V, base : V = Seq(X) /\ base = <<>>
    OBVIOUS
  <2>2. /\ \A D \in SUBSET N : A[D] \in V
        /\ Follows(A, N, base, choice, step, V) /\ Follows(B, N, base, choice, step, V)
    BY <1>7, <1>8, <1>9, <2>1
  <2>3. \A D \in SUBSET N : A[D] = B[D]
    <3>1. IsFiniteSet(N)
      BY <1>2
    <3>2. QED
      BY <1>3, <2>2, <3>1, RecursionAgrees
  <2>4. QED
    BY <2>3
<1>11. B[1 .. n + 1] = IF x \in S THEN Append(B[N], x) ELSE B[N]
  <2>1. Max(1 .. n + 1) = n + 1
    BY <1>2, LastPosition
  <2>2. (1 .. n + 1) \ {n + 1} = N /\ 1 .. n + 1 # {}
    <3>1. n \in Nat /\ N = 1 .. n
      BY <1>2
    <3>2. \A i : i \in 1 .. n + 1 /\ i # n + 1 <=> i \in 1 .. n
      BY <3>1
    <3>3. n + 1 \in 1 .. n + 1
      BY <3>1
    <3>4. QED
      BY <3>1, <3>2, <3>3
  <2>3. PICK D : D = 1 .. n + 1
    OBVIOUS
  <2>4. B[D] = IF long[Max(D)] \in S THEN Append(B[D \ {Max(D)}], long[Max(D)])
               ELSE B[D \ {Max(D)}]
    <3>1. D \in SUBSET DOMAIN long /\ D # {}
      BY <1>2, <2>2, <2>3
    <3>2. QED
      BY <1>6, <3>1 DEF Keeps
  <2>5. Max(D) = n + 1 /\ D \ {Max(D)} = N
    BY <2>1, <2>2, <2>3
  <2>6. QED
    BY <1>2, <2>3, <2>4, <2>5
<1>12. Kept(list, S) = A[N] /\ Kept(long, S) = B[1 .. n + 1]
  BY <1>1, <1>2, <1>4, KeepIsKeeping
<1>13. QED
  BY <1>1, <1>10, <1>11, <1>12

\* It is no longer than the list, and a second comprehension changes nothing.
LEMMA KeepTwice ==
    ASSUME NEW X, NEW S
    PROVE  \A list \in Seq(X) : /\ Len(Kept(list, S)) <= Len(list)
                               /\ Kept(Kept(list, S), S) = Kept(list, S)
<1> DEFINE G == {list \in Seq(X) : /\ Len(Kept(list, S)) <= Len(list)
                                  /\ Kept(Kept(list, S), S) = Kept(list, S)}
<1>1. <<>> \in G
  BY KeepEmpty
<1>2. ASSUME NEW list \in Seq(X), NEW x \in X, list \in G PROVE Append(list, x) \in G
  <2>1. PICK kept : kept = Kept(list, S)
    OBVIOUS
  <2>2. kept \in Seq(X) /\ Len(kept) <= Len(list) /\ Kept(kept, S) = kept
    BY <1>2, <2>1, KeepType
  <2>3. Kept(Append(list, x), S) = IF x \in S THEN Append(kept, x) ELSE kept
    BY <2>1, KeepAppend
  <2>4. x \in S => Kept(Append(kept, x), S) = Append(kept, x)
    BY <2>2, KeepAppend
  <2>5. Append(list, x) \in Seq(X) /\ Len(Append(list, x)) = Len(list) + 1
    OBVIOUS
  <2>6. Len(Append(kept, x)) = Len(kept) + 1 /\ Len(kept) \in Nat /\ Len(list) \in Nat
    BY <2>2
  <2>7. CASE x \in S
    <3>1. PICK long, more : long = Append(list, x) /\ more = Append(kept, x)
      OBVIOUS
    <3>2. Kept(long, S) = more /\ Kept(more, S) = more
      BY <2>3, <2>4, <2>7, <3>1
    <3>3. Len(more) <= Len(long) /\ long \in Seq(X)
      BY <2>2, <2>5, <2>6, <3>1
    <3>4. QED
      BY <3>1, <3>2, <3>3
  <2>8. CASE x \notin S
    BY <2>2, <2>3, <2>5, <2>6, <2>8
  <2>9. QED
    BY <2>7, <2>8
<1> HIDE DEF G
<1>3. \A list \in Seq(X) : list \in G
  BY <1>1, <1>2, SequenceInduction
<1>4. QED
  BY <1>3 DEF G

\* A function over 1 .. n that is base before k, and each later value a step from the one before.
Stepwise(f, n, k, base, step) ==
    f = [i \in 1 .. n |-> IF i < k THEN base ELSE step[<<i, f[i - 1]>>]]

\* There is one for every type of values that the step stays in.
LEMMA StepwiseExists ==
    ASSUME NEW k \in Nat, k >= 2, NEW V, NEW base \in V, NEW N \in Nat,
           NEW step \in [(1 .. N) \X V -> V]
    PROVE  \E f \in [1 .. N -> V] : Stepwise(f, N, k, base, step)
<1> DEFINE G == {n \in Nat : n <= N => \E f \in [1 .. n -> V] : Stepwise(f, n, k, base, step)}
<1>1. 0 \in G
  <2>1. PICK f : f = [i \in 1 .. 0 |-> base]
    OBVIOUS
  <2>2. f \in [1 .. 0 -> V] /\ Stepwise(f, 0, k, base, step)
    BY <2>1 DEF Stepwise
  <2>3. QED
    BY <2>2
<1>2. ASSUME NEW n \in Nat, n \in G PROVE n + 1 \in G
  <2>1. SUFFICES ASSUME n + 1 <= N
                 PROVE  \E f \in [1 .. n + 1 -> V] : Stepwise(f, n + 1, k, base, step)
    OBVIOUS
  <2>2. PICK f \in [1 .. n -> V] : Stepwise(f, n, k, base, step)
    BY <1>2, <2>1
  <2>3. PICK m : m = n + 1
    OBVIOUS
  <2>4. PICK g : g = [i \in 1 .. m |-> IF i <= n THEN f[i]
                                       ELSE IF m < k THEN base ELSE step[<<m, f[n]>>]]
    OBVIOUS
  <2>5. m \in Nat /\ m <= N /\ m - 1 = n /\ \A i \in 1 .. m : i <= n \/ i = m
    BY <2>1, <2>3
  <2>6. \A i \in 1 .. n : g[i] = f[i] /\ f[i] \in V
    BY <2>4, <2>5
  <2>7. g[m] = (IF m < k THEN base ELSE step[<<m, f[n]>>]) /\ g[m] \in V
    <3>1. m \in 1 .. m /\ ~(m <= n)
      BY <2>5
    <3>2. m >= k => n \in 1 .. n
      BY <2>5
    <3>3. m >= k => step[<<m, f[n]>>] \in V
      BY <2>5, <2>6, <3>2
    <3>4. QED
      BY <2>4, <2>5, <3>1, <3>3
  <2>8. g \in [1 .. m -> V]
    BY <2>4, <2>5, <2>6, <2>7
  <2>9. ASSUME NEW i \in 1 .. m
        PROVE  g[i] = IF i < k THEN base ELSE step[<<i, g[i - 1]>>]
    <3>1. CASE i <= n
      <4>1. i \in 1 .. n
        BY <3>1
      <4>2. f[i] = IF i < k THEN base ELSE step[<<i, f[i - 1]>>]
        BY <2>2, <4>1 DEF Stepwise
      <4>3. i >= k => i - 1 \in 1 .. n
        BY <4>1
      <4>4. QED
        BY <2>6, <4>1, <4>2, <4>3
    <3>2. CASE i = m
      <4>1. m >= k => n \in 1 .. n
        BY <2>5
      <4>2. m >= k => g[m - 1] = f[n]
        BY <2>5, <2>6, <4>1
      <4>3. QED
        BY <2>5, <2>7, <3>2, <4>2
    <3>3. QED
      BY <2>5, <3>1, <3>2
  <2>10. Stepwise(g, m, k, base, step)
    BY <2>4, <2>9 DEF Stepwise
  <2>11. QED
    BY <2>3, <2>8, <2>10
<1> HIDE DEF G
<1>3. \A n \in Nat : n \in G
  BY <1>1, <1>2, NumberInduction
<1>4. N \in G
  BY <1>3
<1>5. QED
  BY <1>4 DEF G

\* One function steps as the other.
StepsAs(more, step, N, V) == \A i \in 1 .. N, v \in V : more[<<i, v>>] = step[<<i, v>>]

\* One function begins with the values of the other.
Begins(g, f, N, V) == \A i \in 1 .. N : f[i] \in V /\ g[i] = f[i]

\* A longer one of the same steps starts with it, and its values are of the type.
LEMMA StepwiseAgrees ==
    ASSUME NEW k \in Nat, k >= 2, NEW V, NEW base \in V, NEW N \in Nat,
           NEW step \in [(1 .. N) \X V -> V], NEW f, Stepwise(f, N, k, base, step),
           NEW M \in Nat, N <= M, NEW more, StepsAs(more, step, N, V),
           NEW g, Stepwise(g, M, k, base, more)
    PROVE  Begins(g, f, N, V)
<1> DEFINE G == {n \in Nat : n \in 1 .. N => f[n] \in V /\ g[n] = f[n]}
<1>1. 0 \in G
  OBVIOUS
<1>2. ASSUME NEW n \in Nat, n \in G PROVE n + 1 \in G
  <2>1. SUFFICES ASSUME n + 1 <= N PROVE f[n + 1] \in V /\ g[n + 1] = f[n + 1]
    OBVIOUS
  <2>2. PICK m : m = n + 1
    OBVIOUS
  <2>3. m \in 1 .. N /\ m \in 1 .. M /\ m - 1 = n
    BY <2>1, <2>2
  <2>4. /\ f[m] = IF m < k THEN base ELSE step[<<m, f[n]>>]
        /\ g[m] = IF m < k THEN base ELSE more[<<m, g[n]>>]
    BY <2>3 DEF Stepwise
  <2>5. CASE m < k
    BY <2>2, <2>4, <2>5
  <2>6. CASE m >= k
    <3>1. n \in 1 .. N
      BY <2>3, <2>6
    <3>2. f[n] \in V /\ g[n] = f[n]
      BY <1>2, <3>1
    <3>3. step[<<m, f[n]>>] \in V /\ more[<<m, f[n]>>] = step[<<m, f[n]>>]
      BY <2>3, <3>2 DEF StepsAs
    <3>4. f[m] = step[<<m, f[n]>>] /\ g[m] = more[<<m, f[n]>>]
      BY <2>3, <2>4, <2>6, <3>2
    <3>5. QED
      BY <2>2, <3>3, <3>4
  <2>7. QED
    BY <2>3, <2>5, <2>6
<1> HIDE DEF G
<1>3. \A n \in Nat : n \in G
  BY <1>1, <1>2, NumberInduction
<1>4. QED
  BY <1>3 DEF G, Begins

-----------------------------------------------------------------------------
(* Fractions in lowest terms. *)

\* What division with a remainder is.
LEMMA Division ==
    ASSUME NEW a \in Nat, NEW b \in Nat \ {0}
    PROVE  /\ a % b \in Nat /\ a % b < b /\ a \div b \in Nat
           /\ a = b * (a \div b) + (a % b)
OBVIOUS

\* It is the only one.
LEMMA DivisionIs ==
    ASSUME NEW a \in Nat, NEW b \in Nat \ {0}, NEW q \in Int, NEW r \in Nat, r < b,
           a = b * q + r
    PROVE  a \div b = q /\ a % b = r
OBVIOUS

\* A multiple.
Divides(d, a) == \E x \in Nat : a = d * x
Common(a, b) == {d \in Nat \ {0} : Divides(d, a) /\ Divides(d, b)}
Greatest(D) == CHOOSE m \in D : \A d \in D : d <= m

\* A number and the remainder of another divide by the same as the two.
LEMMA SameDivisors ==
    ASSUME NEW a \in Nat, NEW b \in Nat \ {0}
    PROVE  Common(a, b) = Common(b, a % b)
<1>1. PICK q, r : q = a \div b /\ r = a % b
  OBVIOUS
<1>2. q \in Nat /\ r \in Nat /\ a = b * q + r
  BY <1>1, Division
<1>3. ASSUME NEW d \in Nat \ {0}, Divides(d, a), Divides(d, b) PROVE Divides(d, r)
  <2>1. PICK x \in Nat : a = d * x
    BY <1>3 DEF Divides
  <2>2. PICK y \in Nat : b = d * y
    BY <1>3 DEF Divides
  <2>3. r = d * (x - y * q)
    BY <1>2, <2>1, <2>2
  <2>4. x - y * q \in Nat
    <3>1. PICK z : z = x - y * q
      OBVIOUS
    <3>2. z \in Int /\ r = d * z
      BY <1>2, <2>3, <3>1
    <3>3. z >= 0
      BY <1>2, <3>2
    <3>4. QED
      BY <3>1, <3>2, <3>3
  <2>5. QED
    BY <2>3, <2>4 DEF Divides
<1>4. ASSUME NEW d \in Nat \ {0}, Divides(d, b), Divides(d, r) PROVE Divides(d, a)
  <2>1. PICK x \in Nat : r = d * x
    BY <1>4 DEF Divides
  <2>2. PICK y \in Nat : b = d * y
    BY <1>4 DEF Divides
  <2>3. a = d * (x + y * q) /\ x + y * q \in Nat
    BY <1>2, <2>1, <2>2
  <2>4. QED
    BY <2>3 DEF Divides
<1>5. QED
  BY <1>1, <1>3, <1>4 DEF Common

\* The greatest divisor of a number and 0 is the number.
LEMMA GreatestItself ==
    ASSUME NEW b \in Nat \ {0}
    PROVE  Greatest(Common(b, 0)) = b
<1>1. b \in Common(b, 0)
  <2>1. b = b * 1 /\ 0 = b * 0
    OBVIOUS
  <2>2. QED
    BY <2>1 DEF Common, Divides
<1>2. ASSUME NEW d \in Common(b, 0) PROVE d <= b /\ d \in Nat
  <2>1. PICK x \in Nat : b = d * x /\ d \in Nat \ {0}
    BY DEF Common, Divides
  <2>2. x > 0
    BY <2>1
  <2>3. QED
    BY <2>1, <2>2
<1>3. \A m \in Common(b, 0) : (\A d \in Common(b, 0) : d <= m) <=> m = b
  BY <1>1, <1>2
<1>4. QED
  BY <1>1, <1>3 DEF Greatest

\* The recursion defines a function.
LEMMA GcdDefined ==
    Gcd = [p \in Nat \X Nat |-> IF p[2] = 0 THEN p[1] ELSE Gcd[<<p[2], p[1] % p[2]>>]]
<1>1. PICK F : F = [p \in Nat \X Nat |->
                      IF p[2] = 0 THEN p[1] ELSE Greatest(Common(p[1], p[2]))]
  OBVIOUS
<1>2. ASSUME NEW a \in Nat, NEW b \in Nat \ {0} PROVE F[<<a, b>>] = F[<<b, a % b>>]
  <2>1. PICK r : r = a % b
    OBVIOUS
  <2>2. r \in Nat
    BY <2>1, Division
  <2>3. F[<<a, b>>] = Greatest(Common(b, r))
    BY <1>1, <2>1, SameDivisors
  <2>4. CASE r = 0
    <3>1. F[<<b, r>>] = b
      BY <1>1, <2>4
    <3>2. QED
      BY <2>1, <2>3, <2>4, <3>1, GreatestItself
  <2>5. CASE r # 0
    <3>1. F[<<b, r>>] = Greatest(Common(b, r))
      BY <1>1, <2>2, <2>5
    <3>2. QED
      BY <2>1, <2>3, <3>1
  <2>6. QED
    BY <2>4, <2>5
<1>3. F = [p \in Nat \X Nat |-> IF p[2] = 0 THEN p[1] ELSE F[<<p[2], p[1] % p[2]>>]]
  <2>1. ASSUME NEW p \in Nat \X Nat
        PROVE  F[p] = IF p[2] = 0 THEN p[1] ELSE F[<<p[2], p[1] % p[2]>>]
    <3>1. PICK a \in Nat, b \in Nat : p = <<a, b>>
      OBVIOUS
    <3>2. CASE b = 0
      BY <1>1, <3>1, <3>2
    <3>3. CASE b # 0
      BY <1>2, <3>1, <3>3
    <3>4. QED
      BY <3>2, <3>3
  <2>2. QED
    BY <1>1, <2>1
<1>4. QED
  BY <1>3 DEF Gcd

\* The divisor by Euclid's steps.
LEMMA GcdSteps ==
    /\ \A a \in Nat : Gcd[<<a, 0>>] = a
    /\ \A a \in Nat, b \in Nat \ {0} : Gcd[<<a, b>>] = Gcd[<<b, a % b>>]
<1>1. PICK G : G = Gcd
  OBVIOUS
<1>2. G = [p \in Nat \X Nat |-> IF p[2] = 0 THEN p[1] ELSE G[<<p[2], p[1] % p[2]>>]]
  BY <1>1, GcdDefined
<1>3. QED
  BY <1>1, <1>2

\* What is to be known of a greatest common divisor: it divides both numbers, and that of
\* multiples is the same multiple.
GcdFits(a, b, g) ==
    /\ g \in Nat /\ Divides(g, a) /\ Divides(g, b) /\ (a # 0 \/ b # 0 => g # 0)
    /\ \A k \in Nat \ {0} : Gcd[<<k * a, k * b>>] = k * g

\* It fits any two numbers, by induction on the smaller.
LEMMA GcdFitsAll == \A a \in Nat, b \in Nat : GcdFits(a, b, Gcd[<<a, b>>])
<1> DEFINE G == {n \in Nat : \A a \in Nat, b \in Nat : b <= n => GcdFits(a, b, Gcd[<<a, b>>])}
<1>1. ASSUME NEW a \in Nat PROVE GcdFits(a, 0, Gcd[<<a, 0>>])
  <2>1. Gcd[<<a, 0>>] = a
    BY GcdSteps
  <2>2. a = a * 1 /\ 0 = a * 0
    OBVIOUS
  <2>3. ASSUME NEW k \in Nat \ {0} PROVE Gcd[<<k * a, k * 0>>] = k * a
    <3>1. k * a \in Nat /\ k * 0 = 0
      OBVIOUS
    <3>2. QED
      BY <3>1, GcdSteps
  <2>4. QED
    BY <2>1, <2>2, <2>3 DEF GcdFits, Divides
<1>2. 0 \in G
  BY <1>1
<1>3. ASSUME NEW n \in Nat, n \in G PROVE n + 1 \in G
  <2>1. SUFFICES ASSUME NEW a \in Nat, NEW b \in Nat \ {0}, b <= n + 1
                 PROVE  GcdFits(a, b, Gcd[<<a, b>>])
    BY <1>1
  <2>2. PICK q, r : q = a \div b /\ r = a % b
    OBVIOUS
  <2>3. q \in Nat /\ r \in Nat /\ r < b /\ a = b * q + r
    BY <2>2, Division
  <2>4. PICK g : g = Gcd[<<b, r>>]
    OBVIOUS
  <2>5. GcdFits(b, r, g)
    BY <1>3, <2>1, <2>3, <2>4
  <2>6. Gcd[<<a, b>>] = g
    BY <2>2, <2>4, GcdSteps
  <2>7. Divides(g, a)
    <3>1. PICK x \in Nat : b = g * x
      BY <2>5 DEF GcdFits, Divides
    <3>2. PICK y \in Nat : r = g * y
      BY <2>5 DEF GcdFits, Divides
    <3>3. g \in Nat
      BY <2>5 DEF GcdFits
    <3>4. a = g * (x * q + y) /\ x * q + y \in Nat
      BY <2>3, <3>1, <3>2, <3>3
    <3>5. QED
      BY <3>4 DEF Divides
  <2>8. ASSUME NEW k \in Nat \ {0} PROVE Gcd[<<k * a, k * b>>] = k * g
    <3>1. PICK ka, kb, kr : ka = k * a /\ kb = k * b /\ kr = k * r
      OBVIOUS
    <3>2. ka \in Nat /\ kb \in Nat \ {0} /\ kr \in Nat /\ ka = kb * q + kr /\ kr < kb
      BY <2>3, <3>1
    <3>3. ka % kb = kr
      BY <2>3, <3>2, DivisionIs
    <3>4. Gcd[<<ka, kb>>] = Gcd[<<kb, kr>>]
      BY <3>2, <3>3, GcdSteps
    <3>5. Gcd[<<kb, kr>>] = k * g
      BY <2>5, <3>1 DEF GcdFits
    <3>6. QED
      BY <3>1, <3>4, <3>5
  <2>9. QED
    BY <2>5, <2>6, <2>7, <2>8 DEF GcdFits
<1> HIDE DEF G
<1>4. \A n \in Nat : n \in G
  BY <1>2, <1>3, NumberInduction
<1>5. ASSUME NEW a \in Nat, NEW b \in Nat PROVE GcdFits(a, b, Gcd[<<a, b>>])
  <2>1. b \in G
    BY <1>4
  <2>2. QED
    BY <2>1 DEF G
<1>6. QED
  BY <1>5

\* Division of a multiple.
LEMMA DivisionExact ==
    ASSUME NEW g \in Nat \ {0}, NEW x \in Int, NEW n, n = g * x
    PROVE  n \div g = x
OBVIOUS

\* A fraction is what is left when the greatest common divisor is taken out.
LEMMA FractionForm ==
    ASSUME NEW n \in Int, NEW d \in Nat \ {0}
    PROVE  \E x \in Int, y \in Nat \ {0}, g \in Nat \ {0} :
             /\ Fraction(n, d) = <<x, y>> /\ n = g * x /\ d = g * y
             /\ g = Gcd[<<Size(n), d>>]
<1>1. PICK m : m = Size(n)
  OBVIOUS
<1>2. m \in Nat /\ (n = m \/ n = -m) /\ Size(d) = d
  BY <1>1 DEF Size
<1>3. PICK g : g = Gcd[<<m, d>>]
  OBVIOUS
<1>4. g \in Nat \ {0} /\ Divides(g, m) /\ Divides(g, d)
  BY <1>2, <1>3, GcdFitsAll DEF GcdFits
<1>5. PICK z \in Nat : m = g * z
  BY <1>4 DEF Divides
<1>6. PICK y \in Nat : d = g * y
  BY <1>4 DEF Divides
<1>7. PICK x \in Int : n = g * x
  <2>1. -z \in Int /\ g * (-z) = -m
    BY <1>4, <1>5
  <2>2. QED
    BY <1>2, <1>5, <2>1
<1>8. y # 0
  BY <1>4, <1>6
<1>9. n \div g = x /\ d \div g = y
  BY <1>4, <1>6, <1>7, DivisionExact
<1>10. ~(d < 0) /\ ~(g < 0)
  BY <1>4
<1>11. Fraction(n, d) = <<n \div g, d \div g>>
  BY <1>1, <1>2, <1>3, <1>10 DEF Fraction
<1>12. QED
  BY <1>1, <1>3, <1>4, <1>6, <1>7, <1>8, <1>9, <1>11

\* It is the same of multiples.
LEMMA FractionScales ==
    ASSUME NEW n \in Int, NEW d \in Nat \ {0}, NEW k \in Nat \ {0}
    PROVE  Fraction(k * n, k * d) = Fraction(n, d)
<1>1. PICK x \in Int, y \in Nat \ {0}, g \in Nat \ {0} :
         /\ Fraction(n, d) = <<x, y>> /\ n = g * x /\ d = g * y /\ g = Gcd[<<Size(n), d>>]
  BY FractionForm
<1>2. PICK kn, kd, kg : kn = k * n /\ kd = k * d /\ kg = k * g
  OBVIOUS
<1>3. kn \in Int /\ kd \in Nat \ {0} /\ kg \in Nat \ {0}
  BY <1>2
<1>4. PICK u \in Int, v \in Nat \ {0}, h \in Nat \ {0} :
         /\ Fraction(kn, kd) = <<u, v>> /\ kn = h * u /\ kd = h * v /\ h = Gcd[<<Size(kn), kd>>]
  BY <1>3, FractionForm
<1>5. PICK m : m = Size(n)
  OBVIOUS
<1>6. m \in Nat /\ Size(kn) = k * m
  BY <1>2, <1>5 DEF Size
<1>7. h = kg
  <2>1. GcdFits(m, d, g)
    BY <1>1, <1>5, <1>6, GcdFitsAll
  <2>2. Gcd[<<k * m, k * d>>] = k * g
    BY <2>1 DEF GcdFits
  <2>3. h = Gcd[<<k * m, k * d>>]
    BY ONLY <1>2, <1>4, <1>6
  <2>4. QED
    BY ONLY <1>2, <2>2, <2>3
<1>8. kn = kg * x /\ kd = kg * y
  <2>1. k * (g * x) = (k * g) * x /\ k * (g * y) = (k * g) * y
    OBVIOUS
  <2>2. QED
    BY ONLY <1>1, <1>2, <2>1
<1>9. u = x /\ v = y
  BY <1>3, <1>4, <1>7, <1>8
<1>10. QED
  BY <1>1, <1>2, <1>4, <1>9

\* Fractions are the same exactly when they are the same numbers.
LEMMA FractionSame ==
    ASSUME NEW n \in Int, NEW d \in Nat \ {0}, NEW m \in Int, NEW e \in Nat \ {0}, n * e = m * d
    PROVE  Fraction(n, d) = Fraction(m, e)
<1>1. Fraction(e * n, e * d) = Fraction(n, d) /\ Fraction(d * m, d * e) = Fraction(m, e)
  BY FractionScales
<1>2. e * n = d * m /\ e * d = d * e
  OBVIOUS
<1>3. QED
  BY <1>1, <1>2

\* A negative denominator changes the sign of the numerator.
LEMMA FractionNegative ==
    ASSUME NEW n \in Int, NEW d \in Nat \ {0}
    PROVE  Fraction(n, -d) = Fraction(-n, d)
<1>1. Size(n) = Size(-n) /\ Size(-d) = d /\ Size(d) = d /\ Size(n) \in Nat
  BY DEF Size
<1>2. PICK g : g = Gcd[<<Size(n), d>>]
  OBVIOUS
<1>3. g \in Nat \ {0}
  BY <1>1, <1>2, GcdFitsAll DEF GcdFits
<1>4. Fraction(-n, d) = <<(-n) \div g, d \div g>>
  BY <1>1, <1>2, <1>3 DEF Fraction
<1>5. Fraction(n, -d) = <<(-n) \div (-(-g)), (-(-d)) \div (-(-g))>>
  BY <1>1, <1>2, <1>3 DEF Fraction
<1>6. -(-g) = g /\ -(-d) = d
  BY <1>3
<1>7. QED
  BY <1>4, <1>5, <1>6

\* What a fraction is of.
LEMMA FractionParts ==
    ASSUME NEW n \in Int, NEW d \in Nat \ {0}
    PROVE  \E x \in Int, y \in Nat \ {0}, g \in Nat \ {0} :
             Fraction(n, d) = <<x, y>> /\ n = g * x /\ d = g * y
<1>1. PICK x \in Int, y \in Nat \ {0}, g \in Nat \ {0} :
             /\ Fraction(n, d) = <<x, y>> /\ n = g * x /\ d = g * y
             /\ g = Gcd[<<Size(n), d>>]
  BY FractionForm
<1>2. QED
  BY ONLY <1>1

\* Sums, differences and multiples of fractions of one denominator.
LEMMA PlusFractions ==
    ASSUME NEW n \in Int, NEW m \in Int, NEW d \in Nat \ {0}
    PROVE  /\ Plus(Fraction(n, d), Fraction(m, d)) = Fraction(n + m, d)
           /\ Minus(Fraction(n, d), Fraction(m, d)) = Fraction(n - m, d)
<1>1. PICK x \in Int, y \in Nat \ {0}, g \in Nat \ {0} :
         Fraction(n, d) = <<x, y>> /\ n = g * x /\ d = g * y
  BY FractionParts
<1>2. PICK u \in Int, v \in Nat \ {0}, h \in Nat \ {0} :
         Fraction(m, d) = <<u, v>> /\ m = h * u /\ d = h * v
  BY FractionParts
<1>3. PICK a, b, w : a = x * v /\ b = u * y /\ w = y * v
  OBVIOUS
<1>4. a \in Int /\ b \in Int /\ w \in Nat \ {0}
  BY <1>3
<1>5. a * d = n * w
  <2>1. (x * v) * (g * y) = (g * x) * (y * v)
    OBVIOUS
  <2>2. QED
    BY ONLY <1>1, <1>3, <2>1
<1>6. b * d = m * w
  <2>1. (u * y) * (h * v) = (h * u) * (y * v)
    OBVIOUS
  <2>2. QED
    BY ONLY <1>2, <1>3, <2>1
<1>7. (a + b) * d = (n + m) * w /\ (a - b) * d = (n - m) * w
  <2>1. (a + b) * d = a * d + b * d /\ (a - b) * d = a * d - b * d
    BY <1>4
  <2>2. (n + m) * w = n * w + m * w /\ (n - m) * w = n * w - m * w
    BY <1>4
  <2>3. QED
    BY ONLY <1>5, <1>6, <2>1, <2>2
<1>8. Fraction(a + b, w) = Fraction(n + m, d) /\ Fraction(a - b, w) = Fraction(n - m, d)
  <2>1. a + b \in Int /\ a - b \in Int /\ n + m \in Int /\ n - m \in Int
    BY <1>4
  <2>2. QED
    BY <1>4, <1>7, <2>1, FractionSame
<1>9. QED
  BY <1>1, <1>2, <1>3, <1>8 DEF Plus, Minus

\* A multiple of a fraction.
LEMMA TimesFraction ==
    ASSUME NEW n \in Int, NEW k \in Int, NEW d \in Nat \ {0}
    PROVE  Times(k, Fraction(n, d)) = Fraction(k * n, d)
<1>1. PICK x \in Int, y \in Nat \ {0}, g \in Nat \ {0} :
         Fraction(n, d) = <<x, y>> /\ n = g * x /\ d = g * y
  BY FractionParts
<1>2. (k * x) * (g * y) = (k * (g * x)) * y
  OBVIOUS
<1>3. (k * x) * d = (k * n) * y
  BY ONLY <1>1, <1>2
<1>4. k * x \in Int /\ k * n \in Int
  OBVIOUS
<1>5. Fraction(k * x, y) = Fraction(k * n, d)
  BY <1>3, <1>4, FractionSame
<1>6. QED
  BY <1>1, <1>5 DEF Times

\* A whole number, over any denominator.
LEMMA WholeFraction ==
    ASSUME NEW n \in Int, NEW d \in Nat \ {0}
    PROVE  Whole(n) = Fraction(n * d, d)
<1>1. PICK x \in Int, y \in Nat \ {0}, g \in Nat \ {0} :
         Fraction(n, 1) = <<x, y>> /\ n = g * x /\ 1 = g * y
  <2>1. PICK one \in Nat \ {0} : one = 1
    OBVIOUS
  <2>2. \E x \in Int, y \in Nat \ {0}, g \in Nat \ {0} :
           Fraction(n, one) = <<x, y>> /\ n = g * x /\ one = g * y
    BY ONLY FractionParts, n \in Int
  <2>3. QED
    BY ONLY <2>1, <2>2
<1>2. g = 1 /\ y = 1
  BY <1>1
<1>3. Whole(n) = Fraction(n, 1)
  BY <1>1, <1>2 DEF Whole
<1>4. n * d \in Int /\ n * d = (n * d) * 1
  OBVIOUS
<1>5. QED
  BY <1>3, <1>4, FractionSame

\* What is less and what is at most, by the numbers the fractions are of.
LEMMA FractionOrder ==
    ASSUME NEW n \in Int, NEW d \in Nat \ {0}, NEW m \in Int, NEW e \in Nat \ {0}
    PROVE  /\ Less(Fraction(n, d), Fraction(m, e)) <=> n * e < m * d
           /\ AtMost(Fraction(n, d), Fraction(m, e)) <=> n * e <= m * d
<1>1. PICK x \in Int, y \in Nat \ {0}, g \in Nat \ {0} :
         Fraction(n, d) = <<x, y>> /\ n = g * x /\ d = g * y
  BY FractionParts
<1>2. PICK u \in Int, v \in Nat \ {0}, h \in Nat \ {0} :
         Fraction(m, e) = <<u, v>> /\ m = h * u /\ e = h * v
  BY FractionParts
<1>3. PICK a, b, c : a = x * v /\ b = u * y /\ c = g * h
  OBVIOUS
<1>4. a \in Int /\ b \in Int /\ c \in Nat \ {0}
  BY <1>3
<1>5. n * e = c * a
  <2>1. (g * x) * (h * v) = (g * h) * (x * v)
    OBVIOUS
  <2>2. QED
    BY ONLY <1>1, <1>2, <1>3, <2>1
<1>6. m * d = c * b
  <2>1. (h * u) * (g * y) = (g * h) * (u * y)
    OBVIOUS
  <2>2. QED
    BY ONLY <1>1, <1>2, <1>3, <2>1
<1>7. (c * a < c * b <=> a < b) /\ (c * a <= c * b <=> a <= b)
  BY <1>4
<1>8. QED
  BY <1>1, <1>2, <1>3, <1>5, <1>6, <1>7 DEF Less, AtMost

\* The values of indicators.
Rational == Int \X (Nat \ {0})

\* What is divided by something is one, and so is a whole number.
LEMMA FractionRational ==
    /\ \A n \in Int, d \in Int \ {0} : Fraction(n, d) \in Rational
    /\ \A n \in Int : Whole(n) \in Rational
<1>1. ASSUME NEW n \in Int, NEW d \in Nat \ {0} PROVE Fraction(n, d) \in Rational
  <2>1. PICK x \in Int, y \in Nat \ {0}, g \in Nat \ {0} :
           Fraction(n, d) = <<x, y>> /\ n = g * x /\ d = g * y
    BY FractionParts
  <2>2. QED
    BY <2>1 DEF Rational
<1>2. ASSUME NEW n \in Int, NEW d \in Int \ {0}, d < 0 PROVE Fraction(n, d) \in Rational
  <2>1. PICK e : e = -d
    OBVIOUS
  <2>2. e \in Nat \ {0} /\ -n \in Int /\ d = -e
    BY <1>2, <2>1
  <2>3. Fraction(n, d) = Fraction(-n, e)
    BY <2>2, FractionNegative
  <2>4. QED
    BY <1>1, <2>2, <2>3
<1>3. \A n \in Int : Whole(n) \in Rational
  BY DEF Whole, Rational
<1>4. ASSUME NEW n \in Int, NEW d \in Int \ {0} PROVE Fraction(n, d) \in Rational
  <2>1. d \in Nat \ {0} \/ d < 0
    OBVIOUS
  <2>2. QED
    BY <1>1, <1>2, <2>1
<1>5. QED
  BY <1>3, <1>4

\* The parts of a value.
LEMMA RationalParts ==
    \A v \in Rational : v[1] \in Int /\ v[2] \in Nat \ {0}
BY DEF Rational
====
