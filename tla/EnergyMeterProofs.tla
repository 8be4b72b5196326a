-------------------------- MODULE EnergyMeterProofs --------------------------
(***************************************************************************)
(* Proof that what the energy page reports of a day is what the schedule   *)
(* asked for: the speed bands are real minutes, and the summary errs only  *)
(* in the hours that it must.                                              *)
(*                                                                         *)
(* First come facts about sums.  Induction is on the size of the set, by   *)
(* the least counterexample.                                               *)
(***************************************************************************)
EXTENDS ScheduleClockProofs, FiniteSetTheorems

-----------------------------------------------------------------------------
(* Sums.                                                                    *)

Some(T) == CHOOSE x \in T : TRUE

\* One round of the fold that a sum is.
Round1(f, S, it) ==
    [T \in SUBSET S |-> IF T = {} THEN 0 ELSE f[Some(T)] + it[T \ {Some(T)}]]

Partial(f, S) == CHOOSE it : it = Round1(f, S, it)

\* A sum is a fold.
LEMMA SumIsFold ==
    ASSUME NEW f, NEW S
    PROVE  SumFunctionOnSet(f, S) = Partial(f, S)[S]
<1>1. QED
  BY DEF SumFunctionOnSet, FoldFunctionOnSet, MapThenFoldSet, Partial, Round1, Some

\* Induction over the numbers, for a set of numbers,
LEMMA NumbersInduction ==
    ASSUME NEW H \in SUBSET Nat, 0 \in H, \A n \in H : n + 1 \in H
    PROVE  \A n \in Nat : n \in H
<1> DEFINE Bad == Nat \ H
<1>1. SUFFICES ASSUME Bad # {} PROVE FALSE
  OBVIOUS
<1>2. PICK b \in Bad : \A j \in Bad : b <= j
  BY <1>1, Least
<1>3. b \in Nat /\ b # 0
  BY <1>2
<1>4. b - 1 \in Nat /\ b - 1 \in H
  <2>1. b - 1 \in Nat /\ ~(b <= b - 1)
    BY <1>3
  <2>2. QED
    BY <1>2, <2>1
<1>5. (b - 1) + 1 \in H
  BY <1>4
<1>6. QED
  BY <1>2, <1>3, <1>5

\* A set without one of its elements.
LEMMA OneLess ==
    ASSUME NEW T, IsFiniteSet(T), NEW x \in T
    PROVE  /\ IsFiniteSet(T \ {x})
           /\ Cardinality(T) \in Nat \ {0}
           /\ Cardinality(T \ {x}) = Cardinality(T) - 1
<1>1. Cardinality(T) \in Nat /\ Cardinality(T) # 0
  BY FS_CardinalityType, FS_EmptySet
<1>2. IsFiniteSet(T \ {x}) /\ Cardinality(T \ {x}) = Cardinality(T) - 1
  BY FS_RemoveElement
<1>3. QED
  BY <1>1, <1>2

\* and over a finite set, for a set of its subsets.
LEMMA SubsetsInduction ==
    ASSUME NEW S, IsFiniteSet(S), NEW H, {} \in H,
           \A T \in SUBSET S, x \in S : T \in H /\ x \notin T => T \cup {x} \in H
    PROVE  S \in H
<1> DEFINE G == {n \in Nat : \A T \in SUBSET S : Cardinality(T) = n => T \in H}
<1>1. \A T \in SUBSET S : IsFiniteSet(T) /\ Cardinality(T) \in Nat
  BY FS_Subset, FS_CardinalityType
<1>2. 0 \in G
  BY <1>1, FS_EmptySet
<1>3. ASSUME NEW n \in G PROVE n + 1 \in G
  <2>1. SUFFICES ASSUME NEW T \in SUBSET S, Cardinality(T) = n + 1 PROVE T \in H
    OBVIOUS
  <2>2. n \in Nat /\ T # {}
    BY <2>1, FS_EmptySet
  <2>3. PICK x \in T : TRUE
    BY <2>2
  <2>4. Cardinality(T \ {x}) = n
    <3>1. Cardinality(T \ {x}) = Cardinality(T) - 1
      BY <1>1, <2>3, OneLess
    <3>2. QED
      BY <2>1, <2>2, <3>1
  <2>5. T \ {x} \in SUBSET S /\ x \in S /\ x \notin T \ {x} /\ T = (T \ {x}) \cup {x}
    BY <2>3
  <2>6. T \ {x} \in H
    BY <1>3, <2>4, <2>5
  <2>7. QED
    BY <2>5, <2>6
<1>4. \A n \in Nat : n \in G
  <2> HIDE DEF G
  <2>1. G \in SUBSET Nat
    BY DEF G
  <2>2. QED
    BY <1>2, <1>3, <2>1, NumbersInduction
<1>5. QED
  BY <1>1, <1>4

\* The fold is well defined.
LEMMA PartialIsDefined ==
    ASSUME NEW S, IsFiniteSet(S), NEW f
    PROVE  Partial(f, S) = Round1(f, S, Partial(f, S))
<1> DEFINE Upto(g, n) == \A T \in SUBSET S : Cardinality(T) <= n => g[T] = Round1(f, S, g)[T]
           H == {n \in Nat : \E g : Upto(g, n)}
<1>1. \A T \in SUBSET S : IsFiniteSet(T) /\ Cardinality(T) \in Nat /\ Cardinality(T) <= Cardinality(S)
  BY FS_Subset, FS_CardinalityType
<1>2. \A T \in SUBSET S : T # {} => /\ Some(T) \in T /\ T \ {Some(T)} \in SUBSET S
                                    /\ Cardinality(T \ {Some(T)}) = Cardinality(T) - 1
                                    /\ Cardinality(T) > 0
  <2>1. ASSUME NEW T \in SUBSET S, T # {}
        PROVE  /\ Some(T) \in T /\ T \ {Some(T)} \in SUBSET S
               /\ Cardinality(T \ {Some(T)}) = Cardinality(T) - 1
               /\ Cardinality(T) > 0
    <3>1. Some(T) \in T
      BY <2>1 DEF Some
    <3>2. IsFiniteSet(T)
      BY <1>1
    <3>3. Cardinality(T \ {Some(T)}) = Cardinality(T) - 1 /\ Cardinality(T) \in Nat \ {0}
      BY <3>1, <3>2, OneLess
    <3>4. QED
      BY <3>1, <3>3
  <2>2. QED
    BY <2>1
<1>3. \A g : \A T \in SUBSET S :
         Round1(f, S, g)[T] = IF T = {} THEN 0 ELSE f[Some(T)] + g[T \ {Some(T)}]
  BY DEF Round1
<1>4. 0 \in H
  <2>1. Upto([T \in SUBSET S |-> 0], 0)
    <3>1. \A T \in SUBSET S : Cardinality(T) <= 0 => T = {}
      BY <1>1, FS_EmptySet
    <3>2. QED
      BY <1>3, <3>1
  <2>2. QED
    BY <2>1
<1>5. ASSUME NEW n \in H PROVE n + 1 \in H
  <2>1. PICK g : Upto(g, n)
    OBVIOUS
  <2> DEFINE h == Round1(f, S, g)
  <2>2. ASSUME NEW T \in SUBSET S, Cardinality(T) <= n + 1 PROVE h[T] = Round1(f, S, h)[T]
    <3>1. CASE T = {}
      BY <1>3, <3>1
    <3>2. CASE T # {}
      <4> HIDE DEF h
      <4>1. T \ {Some(T)} \in SUBSET S /\ Cardinality(T \ {Some(T)}) <= n
        BY <1>1, <1>2, <2>2, <3>2
      <4>2. g[T \ {Some(T)}] = h[T \ {Some(T)}]
        BY <2>1, <4>1 DEF h
      <4>3. h[T] = f[Some(T)] + g[T \ {Some(T)}]
        BY <1>3, <3>2 DEF h
      <4>4. Round1(f, S, h)[T] = f[Some(T)] + h[T \ {Some(T)}]
        BY <1>3, <3>2
      <4>5. QED
        BY <4>2, <4>3, <4>4
    <3>3. QED
      BY <3>1, <3>2
  <2>3. Upto(h, n + 1)
    <3> HIDE DEF h
    <3>1. QED
      BY <2>2
  <2>4. QED
    BY <2>3
<1>6. Cardinality(S) \in H
  <2> HIDE DEF H
  <2>1. H \in SUBSET Nat
    BY DEF H
  <2>2. Cardinality(S) \in Nat
    BY FS_CardinalityType
  <2>3. QED
    BY <1>4, <1>5, <2>1, <2>2, NumbersInduction
<1>7. PICK g : Upto(g, Cardinality(S))
  BY <1>6
<1> DEFINE h == Round1(f, S, g)
<1>8. h = Round1(f, S, h)
  <2>1. \A T \in SUBSET S : g[T] = h[T]
    BY <1>1, <1>7
  <2> HIDE DEF h
  <2>2. \A T \in SUBSET S : h[T] = Round1(f, S, h)[T]
    <3>1. \A T \in SUBSET S : T # {} => g[T \ {Some(T)}] = h[T \ {Some(T)}]
      BY <1>2, <2>1
    <3>2. \A T \in SUBSET S : h[T] = IF T = {} THEN 0 ELSE f[Some(T)] + g[T \ {Some(T)}]
      BY <1>3 DEF h
    <3>3. ASSUME NEW T \in SUBSET S PROVE h[T] = Round1(f, S, h)[T]
      <4>1. Round1(f, S, h)[T] = IF T = {} THEN 0 ELSE f[Some(T)] + h[T \ {Some(T)}]
        BY <1>3
      <4>2. CASE T = {}
        BY <3>2, <4>1, <4>2
      <4>3. CASE T # {}
        <5>1. g[T \ {Some(T)}] = h[T \ {Some(T)}]
          BY <3>1, <4>3
        <5>2. h[T] = f[Some(T)] + g[T \ {Some(T)}]
          BY <3>2, <4>3
        <5>3. QED
          BY <4>1, <4>3, <5>1, <5>2
      <4>4. QED
        BY <4>2, <4>3
    <3>4. QED
      BY <3>3
  <2>3. /\ h = [T \in SUBSET S |-> h[T]]
        /\ Round1(f, S, h) = [T \in SUBSET S |-> Round1(f, S, h)[T]]
    BY DEF h, Round1
  <2>4. QED
    BY <2>2, <2>3
<1>9. QED
  BY <1>8 DEF Partial

\* A part of the fold does not depend on the set it is a part of.
LEMMA PartialAgrees ==
    ASSUME NEW S, IsFiniteSet(S), NEW f, NEW T \in SUBSET S
    PROVE  \A U \in SUBSET T : Partial(f, T)[U] = Partial(f, S)[U]
<1> DEFINE p == Partial(f, T)
           q == Partial(f, S)
           H == {n \in Nat : \A U \in SUBSET T : Cardinality(U) = n => p[U] = q[U]}
<1>1. \A U \in SUBSET T : /\ U \in SUBSET S /\ IsFiniteSet(U) /\ IsFiniteSet(T)
                          /\ Cardinality(U) \in Nat
  BY FS_Subset, FS_CardinalityType
<1>2. p = Round1(f, T, p) /\ q = Round1(f, S, q)
  BY <1>1, PartialIsDefined
<1> HIDE DEF p, q
<1>3. \A U \in SUBSET T :
         /\ p[U] = IF U = {} THEN 0 ELSE f[Some(U)] + p[U \ {Some(U)}]
         /\ q[U] = IF U = {} THEN 0 ELSE f[Some(U)] + q[U \ {Some(U)}]
  <2>1. ASSUME NEW U \in SUBSET T
        PROVE  p[U] = IF U = {} THEN 0 ELSE f[Some(U)] + p[U \ {Some(U)}]
    <3>1. p[U] = Round1(f, T, p)[U]
      BY <1>2
    <3>2. QED
      BY <3>1 DEF Round1
  <2>2. ASSUME NEW U \in SUBSET S
        PROVE  q[U] = IF U = {} THEN 0 ELSE f[Some(U)] + q[U \ {Some(U)}]
    <3>1. q[U] = Round1(f, S, q)[U]
      BY <1>2
    <3>2. QED
      BY <3>1 DEF Round1
  <2>3. QED
    BY <2>1, <2>2
<1>4. 0 \in H
  BY <1>1, <1>3, FS_EmptySet
<1>5. ASSUME NEW n \in H PROVE n + 1 \in H
  <2>1. SUFFICES ASSUME NEW U \in SUBSET T, Cardinality(U) = n + 1 PROVE p[U] = q[U]
    OBVIOUS
  <2>2. n \in Nat /\ U # {}
    BY <2>1, FS_EmptySet
  <2>3. Some(U) \in U
    BY <2>2 DEF Some
  <2>4. U \ {Some(U)} \in SUBSET T /\ Cardinality(U \ {Some(U)}) = n
    <3>1. Cardinality(U \ {Some(U)}) = Cardinality(U) - 1
      BY <1>1, <2>3, OneLess
    <3>2. QED
      BY <2>1, <2>2, <3>1
  <2>5. p[U \ {Some(U)}] = q[U \ {Some(U)}]
    BY <2>4
  <2>6. QED
    BY <1>3, <2>2, <2>5
<1>6. \A n \in Nat : n \in H
  <2> HIDE DEF H
  <2>1. H \in SUBSET Nat
    BY DEF H
  <2>2. QED
    BY <1>4, <1>5, <2>1, NumbersInduction
<1>7. QED
  BY <1>1, <1>6 DEF p, q

\* Hence a sum is nothing, or one term and the sum of the rest.
LEMMA SumStep ==
    ASSUME NEW S, IsFiniteSet(S), NEW f
    PROVE  SumFunctionOnSet(f, S) =
              IF S = {} THEN 0
              ELSE f[Some(S)] + SumFunctionOnSet(f, S \ {Some(S)})
<1>1. SumFunctionOnSet(f, S) = Partial(f, S)[S]
  BY SumIsFold
<1>2. Partial(f, S) = Round1(f, S, Partial(f, S))
  BY PartialIsDefined
<1>3. Partial(f, S)[S] = Round1(f, S, Partial(f, S))[S]
  BY <1>2
<1>4. Partial(f, S)[S] = IF S = {} THEN 0 ELSE f[Some(S)] + Partial(f, S)[S \ {Some(S)}]
  BY <1>3 DEF Round1
<1>5. Partial(f, S)[S \ {Some(S)}] = SumFunctionOnSet(f, S \ {Some(S)})
  <2>1. S \ {Some(S)} \in SUBSET S /\ S \ {Some(S)} \in SUBSET (S \ {Some(S)})
    OBVIOUS
  <2>2. Partial(f, S \ {Some(S)})[S \ {Some(S)}] = Partial(f, S)[S \ {Some(S)}]
    BY <2>1, PartialAgrees
  <2>3. QED
    BY <2>2, SumIsFold
<1>6. QED
  BY <1>1, <1>4, <1>5

\* A sum of integers is one.
LEMMA SumInt ==
    ASSUME NEW S, IsFiniteSet(S), NEW f, \A x \in S : f[x] \in Int
    PROVE  SumFunctionOnSet(f, S) \in Int
<1> DEFINE Sum(T) == SumFunctionOnSet(f, T)
           H == {n \in Nat : \A T \in SUBSET S : Cardinality(T) = n => Sum(T) \in Int}
<1>1. \A T \in SUBSET S : IsFiniteSet(T) /\ Cardinality(T) \in Nat
  BY FS_Subset, FS_CardinalityType
<1>2. \A T \in SUBSET S : Sum(T) = IF T = {} THEN 0 ELSE f[Some(T)] + Sum(T \ {Some(T)})
  BY <1>1, SumStep
<1> HIDE DEF Sum
<1>3. 0 \in H
  <2>1. \A T \in SUBSET S : Cardinality(T) = 0 => T = {}
    BY <1>1, FS_EmptySet
  <2>2. Sum({}) = 0
    BY <1>2
  <2>3. \A T \in SUBSET S : Cardinality(T) = 0 => Sum(T) \in Int
    BY <2>1, <2>2
  <2>4. QED
    BY <2>3
<1>4. ASSUME NEW n \in H PROVE n + 1 \in H
  <2>1. SUFFICES ASSUME NEW T \in SUBSET S, Cardinality(T) = n + 1 PROVE Sum(T) \in Int
    OBVIOUS
  <2>2. n \in Nat /\ T # {}
    BY <2>1, FS_EmptySet
  <2> DEFINE y == Some(T)
  <2>3. y \in T
    BY <2>2 DEF Some
  <2>4. Sum(T) = f[y] + Sum(T \ {y})
    BY <1>2, <2>2
  <2> HIDE DEF y
  <2>5. T \ {y} \in SUBSET S /\ Cardinality(T \ {y}) = n
    <3>1. Cardinality(T \ {y}) = Cardinality(T) - 1
      BY <1>1, <2>3, OneLess
    <3>2. QED
      BY <2>1, <2>2, <3>1
  <2>6. Sum(T \ {y}) \in Int /\ f[y] \in Int
    BY <2>3, <2>5
  <2>7. QED
    BY <2>4, <2>6
<1>5. \A n \in Nat : n \in H
  <2> HIDE DEF H
  <2>1. H \in SUBSET Nat
    BY DEF H
  <2>2. QED
    BY <1>3, <1>4, <2>1, NumbersInduction
<1>6. QED
  BY <1>1, <1>5 DEF Sum

\* Any term may be taken first.
LEMMA SumTake ==
    ASSUME NEW S, IsFiniteSet(S), NEW f, \A x \in S : f[x] \in Int
    PROVE  \A x \in S : SumFunctionOnSet(f, S) = f[x] + SumFunctionOnSet(f, S \ {x})
<1> DEFINE Sum(T) == SumFunctionOnSet(f, T)
           Good(T) == \A x \in T : Sum(T) = f[x] + Sum(T \ {x})
           H == {n \in Nat : \A T \in SUBSET S : Cardinality(T) = n => Good(T)}
<1>1. \A T \in SUBSET S : IsFiniteSet(T) /\ Cardinality(T) \in Nat
  BY FS_Subset, FS_CardinalityType
<1>2. \A T \in SUBSET S : Sum(T) = IF T = {} THEN 0 ELSE f[Some(T)] + Sum(T \ {Some(T)})
  BY <1>1, SumStep
<1>3. \A T \in SUBSET S : Sum(T) \in Int
  BY <1>1, SumInt
<1> HIDE DEF Sum
<1>4. 0 \in H
  BY <1>1, FS_EmptySet
<1>5. ASSUME NEW n \in H PROVE n + 1 \in H
  <2>1. SUFFICES ASSUME NEW T \in SUBSET S, Cardinality(T) = n + 1 PROVE Good(T)
    OBVIOUS
  <2>2. n \in Nat /\ T # {}
    BY <2>1, FS_EmptySet
  <2> DEFINE y == Some(T)
  <2>3. y \in T
    BY <2>2 DEF Some
  <2>4. Sum(T) = f[y] + Sum(T \ {y})
    BY <1>2, <2>2
  <2> HIDE DEF y
  <2>5. \A x \in T : T \ {x} \in SUBSET S /\ Cardinality(T \ {x}) = n
    <3>1. \A x \in T : Cardinality(T \ {x}) = Cardinality(T) - 1
      BY <1>1, OneLess
    <3>2. QED
      BY <2>1, <2>2, <3>1
  <2>6. \A x \in T : Good(T \ {x})
    BY <2>5
  <2>7. ASSUME NEW x \in T, x # y PROVE Sum(T) = f[x] + Sum(T \ {x})
    <3> DEFINE U == T \ {x, y}
    <3>1. U = (T \ {x}) \ {y} /\ U = (T \ {y}) \ {x} /\ x \in T \ {y} /\ y \in T \ {x}
      BY <2>3, <2>7
    <3>2. Sum(T \ {y}) = f[x] + Sum(U) /\ Sum(T \ {x}) = f[y] + Sum(U)
      BY <2>3, <2>6, <3>1
    <3>3. Sum(U) \in Int /\ f[x] \in Int /\ f[y] \in Int
      <4>1. U \in SUBSET S
        OBVIOUS
      <4>2. QED
        BY <1>3, <2>3, <4>1
    <3>4. QED
      BY <2>4, <3>2, <3>3
  <2>8. QED
    BY <2>4, <2>7
<1>6. \A n \in Nat : n \in H
  <2> HIDE DEF H
  <2>1. H \in SUBSET Nat
    BY DEF H
  <2>2. QED
    BY <1>4, <1>5, <2>1, NumbersInduction
<1>7. Good(S)
  BY <1>1, <1>6
<1>8. QED
  BY <1>7 DEF Sum

\* A term added.
LEMMA SumInsert ==
    ASSUME NEW T, IsFiniteSet(T), NEW x, x \notin T, NEW f,
           \A y \in T \cup {x} : f[y] \in Int
    PROVE  /\ SumFunctionOnSet(f, {}) = 0
           /\ SumFunctionOnSet(f, T) \in Int
           /\ SumFunctionOnSet(f, T \cup {x}) = f[x] + SumFunctionOnSet(f, T)
<1>1. IsFiniteSet(T \cup {x}) /\ (T \cup {x}) \ {x} = T /\ IsFiniteSet({})
  BY FS_AddElement, FS_EmptySet
<1>2. SumFunctionOnSet(f, {}) = 0
  BY <1>1, SumStep
<1>3. SumFunctionOnSet(f, T \cup {x}) = f[x] + SumFunctionOnSet(f, (T \cup {x}) \ {x})
  BY <1>1, SumTake
<1>4. QED
  BY <1>1, <1>2, <1>3, SumInt

LEMMA SumEmpty ==
    ASSUME NEW f
    PROVE  SumFunctionOnSet(f, {}) = 0
<1>1. QED
  BY SumStep, FS_EmptySet

\* What is added decides a sum, and terms that are zero do not.
LEMMA SumSame ==
    ASSUME NEW S, IsFiniteSet(S), NEW T \in SUBSET S, NEW f, NEW g,
           \A x \in T : f[x] \in Int /\ f[x] = g[x], \A x \in S \ T : f[x] = 0
    PROVE  SumFunctionOnSet(f, S) = SumFunctionOnSet(g, T)
<1> DEFINE H == {U \in SUBSET S : SumFunctionOnSet(f, U) = SumFunctionOnSet(g, U \cap T)}
<1>1. {} \in H
  BY SumEmpty
<1>2. ASSUME NEW U \in SUBSET S, NEW x \in S, U \in H, x \notin U PROVE U \cup {x} \in H
  <2>1. IsFiniteSet(U) /\ IsFiniteSet(U \cap T) /\ \A y \in S : f[y] \in Int
    BY FS_Subset
  <2>2. SumFunctionOnSet(f, U \cup {x}) = f[x] + SumFunctionOnSet(f, U)
        /\ SumFunctionOnSet(f, U) \in Int
    BY <1>2, <2>1, SumInsert
  <2>3. CASE x \in T
    <3>1. (U \cup {x}) \cap T = (U \cap T) \cup {x}
      BY <2>3
    <3>2. SumFunctionOnSet(g, (U \cap T) \cup {x}) = g[x] + SumFunctionOnSet(g, U \cap T)
      BY <1>2, <2>1, <2>3, SumInsert
    <3>3. QED
      BY <1>2, <2>2, <2>3, <3>1, <3>2
  <2>4. CASE x \notin T
    <3>1. (U \cup {x}) \cap T = U \cap T /\ f[x] = 0
      BY <2>4
    <3>2. 0 + SumFunctionOnSet(f, U) = SumFunctionOnSet(f, U)
      BY <2>2
    <3>3. SumFunctionOnSet(f, U \cup {x}) = SumFunctionOnSet(g, (U \cup {x}) \cap T)
      BY <1>2, <2>2, <3>1, <3>2
    <3>4. QED
      BY <3>3
  <2>5. QED
    BY <2>3, <2>4
<1>3. S \in H
  <2> HIDE DEF H
  <2>1. QED
    BY <1>1, <1>2, SubsetsInduction
<1>4. S \cap T = T
  OBVIOUS
<1>5. QED
  BY <1>3, <1>4

\* A sum of equal terms is a product, and a sum of bounded terms has a bound.
LEMMA SumBounds ==
    ASSUME NEW S, IsFiniteSet(S), NEW f, NEW c \in Int, NEW d \in Int,
           \A x \in S : f[x] \in Int /\ d <= f[x] /\ f[x] <= c
    PROVE  /\ SumFunctionOnSet(f, S) \in Int
           /\ d * Cardinality(S) <= SumFunctionOnSet(f, S)
           /\ SumFunctionOnSet(f, S) <= c * Cardinality(S)
<1> DEFINE H == {U \in SUBSET S : /\ d * Cardinality(U) <= SumFunctionOnSet(f, U)
                                  /\ SumFunctionOnSet(f, U) <= c * Cardinality(U)}
<1>1. {} \in H
  BY SumEmpty, FS_EmptySet
<1>2. ASSUME NEW U \in SUBSET S, NEW x \in S, U \in H, x \notin U PROVE U \cup {x} \in H
  <2>1. IsFiniteSet(U) /\ Cardinality(U) \in Nat /\ \A y \in S : f[y] \in Int
    BY FS_Subset, FS_CardinalityType
  <2>2. SumFunctionOnSet(f, U \cup {x}) = f[x] + SumFunctionOnSet(f, U)
        /\ SumFunctionOnSet(f, U) \in Int
    BY <1>2, <2>1, SumInsert
  <2>3. Cardinality(U \cup {x}) = Cardinality(U) + 1
    BY <1>2, <2>1, FS_AddElement
  <2>4. \A n \in Nat : c * (n + 1) = c * n + c /\ d * (n + 1) = d * n + d /\ c * n \in Int /\ d * n \in Int
    OBVIOUS
  <2>5. QED
    <3>1. d <= f[x] /\ f[x] <= c /\ f[x] \in Int
      OBVIOUS
    <3>2. d * Cardinality(U) <= SumFunctionOnSet(f, U) /\ SumFunctionOnSet(f, U) <= c * Cardinality(U)
      BY <1>2
    <3>3. /\ c * Cardinality(U \cup {x}) = c * Cardinality(U) + c
          /\ d * Cardinality(U \cup {x}) = d * Cardinality(U) + d
          /\ c * Cardinality(U) \in Int /\ d * Cardinality(U) \in Int
      BY <2>1, <2>3, <2>4
    <3>4. /\ d * Cardinality(U) + d <= f[x] + SumFunctionOnSet(f, U)
          /\ f[x] + SumFunctionOnSet(f, U) <= c * Cardinality(U) + c
      BY <2>2, <3>1, <3>2, <3>3
    <3>5. QED
      BY <2>2, <3>3, <3>4
<1>3. S \in H
  <2> HIDE DEF H
  <2>1. QED
    BY <1>1, <1>2, SubsetsInduction
<1>4. QED
  BY <1>3, SumInt

\* M falls into the sets own[x], which are disjoint and of the sizes f[x].
Splits(M, S, own, f) ==
    /\ \A x \in S : IsFiniteSet(own[x]) /\ f[x] = Cardinality(own[x])
    /\ \A x, y \in S : x # y => own[x] \cap own[y] = {}
    /\ \A m : m \in M <=> \E x \in S : m \in own[x]

\* The sizes of disjoint sets add up to the size of their union.
LEMMA SumOfSizes ==
    ASSUME NEW M, NEW S, IsFiniteSet(S), NEW own, NEW f, Splits(M, S, own, f)
    PROVE  IsFiniteSet(M) /\ SumFunctionOnSet(f, S) = Cardinality(M)
<1> DEFINE All(U) == UNION {own[x] : x \in U}
           H == {U \in SUBSET S : /\ IsFiniteSet(All(U))
                                  /\ SumFunctionOnSet(f, U) = Cardinality(All(U))}
<1>1. {} \in H
  <2>1. All({}) = {}
    OBVIOUS
  <2>2. QED
    BY <2>1, SumEmpty, FS_EmptySet
<1>2. ASSUME NEW U \in SUBSET S, NEW x \in S, U \in H, x \notin U PROVE U \cup {x} \in H
  <2>1. IsFiniteSet(U) /\ \A y \in S : f[y] \in Int
    BY FS_Subset, FS_CardinalityType DEF Splits
  <2>2. SumFunctionOnSet(f, U \cup {x}) = f[x] + SumFunctionOnSet(f, U)
    BY <1>2, <2>1, SumInsert
  <2>3. All(U \cup {x}) = All(U) \cup own[x]
    OBVIOUS
  <2>4. All(U) \cap own[x] = {}
    BY <1>2 DEF Splits
  <2>5. IsFiniteSet(All(U)) /\ SumFunctionOnSet(f, U) = Cardinality(All(U))
        /\ Cardinality(All(U)) \in Int
    <3> HIDE DEF All
    <3>1. QED
      BY <1>2, FS_CardinalityType
  <2> HIDE DEF All
  <2>6. IsFiniteSet(All(U) \cup own[x])
        /\ Cardinality(All(U) \cup own[x]) = Cardinality(All(U)) + Cardinality(own[x]) - Cardinality({})
    BY <2>4, <2>5, FS_Union DEF Splits
  <2>7. Cardinality(All(U) \cup own[x]) = Cardinality(All(U)) + f[x]
    <3>1. Cardinality({}) = 0 /\ Cardinality(own[x]) = f[x] /\ f[x] \in Int
      BY <2>1, FS_EmptySet DEF Splits
    <3>2. QED
      BY <2>5, <2>6, <3>1
  <2>8. f[x] + SumFunctionOnSet(f, U) = Cardinality(All(U)) + f[x]
    <3>1. f[x] \in Int
      BY <2>1
    <3>2. QED
      BY <2>5, <3>1
  <2>9. IsFiniteSet(All(U \cup {x}))
        /\ SumFunctionOnSet(f, U \cup {x}) = Cardinality(All(U \cup {x}))
    BY <2>2, <2>3, <2>6, <2>7, <2>8
  <2>10. QED
    BY <2>9
<1>3. S \in H
  <2> HIDE DEF H
  <2>1. QED
    BY <1>1, <1>2, SubsetsInduction
<1>4. M = All(S)
  BY DEF Splits
<1>5. QED
  BY <1>3, <1>4

\* A sum is linear.
LEMMA SumLinear ==
    ASSUME NEW S, IsFiniteSet(S), NEW a, NEW b, NEW f, NEW p \in Int, NEW q \in Int,
           \A x \in S : a[x] \in Int /\ b[x] \in Int /\ f[x] = p * a[x] - q * b[x]
    PROVE  SumFunctionOnSet(f, S) = p * SumFunctionOnSet(a, S) - q * SumFunctionOnSet(b, S)
<1> DEFINE H == {U \in SUBSET S : SumFunctionOnSet(f, U) =
                       p * SumFunctionOnSet(a, U) - q * SumFunctionOnSet(b, U)}
<1>1. {} \in H
  <2>1. p * 0 - q * 0 = 0
    OBVIOUS
  <2>2. QED
    BY <2>1, SumEmpty
<1>2. ASSUME NEW U \in SUBSET S, NEW x \in S, U \in H, x \notin U PROVE U \cup {x} \in H
  <2>1. IsFiniteSet(U)
    BY FS_Subset
  <2>2. a[x] \in Int /\ b[x] \in Int /\ \A y \in S : f[y] \in Int /\ a[y] \in Int /\ b[y] \in Int
    OBVIOUS
  <2> DEFINE sa == SumFunctionOnSet(a, U)
             sb == SumFunctionOnSet(b, U)
  <2>3. /\ sa \in Int /\ SumFunctionOnSet(a, U \cup {x}) = a[x] + sa
        /\ sb \in Int /\ SumFunctionOnSet(b, U \cup {x}) = b[x] + sb
    BY <1>2, <2>1, <2>2, SumInsert
  <2>4. SumFunctionOnSet(f, U \cup {x}) = f[x] + SumFunctionOnSet(f, U)
    BY <1>2, <2>1, <2>2, SumInsert
  <2>5. SumFunctionOnSet(f, U) = p * sa - q * sb
    BY <1>2
  <2> HIDE DEF sa, sb
  <2>6. \A m, n \in Int : p * (m + n) = p * m + p * n /\ q * (m + n) = q * m + q * n
    OBVIOUS
  <2>7. p * (a[x] + sa) = p * a[x] + p * sa /\ q * (b[x] + sb) = q * b[x] + q * sb
    BY <2>2, <2>3, <2>6
  <2>8. /\ p * a[x] \in Int /\ p * sa \in Int /\ q * b[x] \in Int /\ q * sb \in Int
    BY <2>2, <2>3
  <2>9. (p * a[x] - q * b[x]) + (p * sa - q * sb) = p * (a[x] + sa) - q * (b[x] + sb)
    BY <2>7, <2>8
  <2>10. QED
    BY <2>3, <2>4, <2>5, <2>9
<1>3. S \in H
  <2> HIDE DEF H
  <2>1. QED
    BY <1>1, <1>2, SubsetsInduction
<1>4. QED
  BY <1>3

\* Two sums, one of them scaled, are close if their terms agree but for some, and
\* those have a bound.
LEMMA SumsAreClose ==
    ASSUME NEW S, IsFiniteSet(S), NEW a, NEW b, NEW T \in SUBSET S,
           NEW p \in Int, NEW q \in Int, NEW c \in Int,
           \A x \in S : a[x] \in Int /\ b[x] \in Int,
           \A x \in S \ T : p * a[x] = q * b[x],
           \A x \in T : p * a[x] - q * b[x] \in -c..c
    PROVE  p * SumFunctionOnSet(a, S) - q * SumFunctionOnSet(b, S)
              \in -(c * Cardinality(T))..c * Cardinality(T)
<1> DEFINE f == [x \in S |-> p * a[x] - q * b[x]]
           n == Cardinality(T)
<1>1. IsFiniteSet(T) /\ n \in Nat
  BY FS_Subset, FS_CardinalityType
<1>2. \A x \in S : f[x] = p * a[x] - q * b[x] /\ f[x] \in Int
  OBVIOUS
<1>3. (\A x \in S \ T : f[x] = 0) /\ \A x \in T : -c <= f[x] /\ f[x] <= c
  <2>1. \A x \in S : p * a[x] \in Int /\ q * b[x] \in Int
    OBVIOUS
  <2>2. QED
    BY <1>2, <2>1
<1> HIDE DEF f
<1>4. SumFunctionOnSet(f, S) = p * SumFunctionOnSet(a, S) - q * SumFunctionOnSet(b, S)
  BY <1>2, SumLinear
<1>5. SumFunctionOnSet(f, S) = SumFunctionOnSet(f, T)
  BY <1>2, <1>3, SumSame
<1>6. /\ SumFunctionOnSet(f, T) \in Int
      /\ (-c) * n <= SumFunctionOnSet(f, T) /\ SumFunctionOnSet(f, T) <= c * n
  <2>1. \A x \in T : f[x] \in Int /\ -c <= f[x] /\ f[x] <= c
    BY <1>2, <1>3
  <2>2. -c \in Int
    OBVIOUS
  <2> HIDE DEF n
  <2>3. QED
    BY <1>1, <2>1, <2>2, SumBounds DEF n
<1>7. (-c) * n = -(c * n) /\ c * n \in Int
  BY <1>1
<1>8. QED
  BY <1>4, <1>5, <1>6, <1>7

-----------------------------------------------------------------------------
(* Arithmetic.                                                              *)

\* What division does.
LEMMA Division ==
    ASSUME NEW n \in Int, NEW d \in Nat \ {0}
    PROVE  /\ n \div d \in Int
           /\ d * (n \div d) <= n /\ n < d * (n \div d) + d
<1>1. QED
  OBVIOUS

\* Division is monotone, and undoes a multiplication.
LEMMA DivisionBetween ==
    ASSUME NEW n \in Int, NEW d \in Nat \ {0}, NEW lo \in Int, NEW hi \in Int
    PROVE  /\ d * lo <= n => lo <= n \div d
           /\ n <= d * hi => n \div d <= hi
           /\ n < d * hi + d => n \div d <= hi
<1> DEFINE k == n \div d
<1>1. k \in Int /\ d * k <= n /\ n < d * k + d
  BY Division
<1> HIDE DEF k
<1>2. \A x, y \in Int : x < y => d * x + d <= d * y
  <2>1. \A z \in Nat \ {0} : d <= d * z
    OBVIOUS
  <2>2. ASSUME NEW x \in Int, NEW y \in Int, x < y PROVE d * x + d <= d * y
    <3>1. y - x \in Nat \ {0} /\ d * (y - x) = d * y - d * x
      BY <2>2
    <3>2. QED
      BY <2>1, <3>1
  <2>3. QED
    BY <2>2
<1>3. ASSUME d * lo <= n PROVE lo <= k
  BY <1>1, <1>2, <1>3
<1>4. ASSUME n <= d * hi PROVE k <= hi
  <2>1. ASSUME hi < k PROVE FALSE
    <3>1. d * hi + d <= d * k
      BY <1>1, <1>2, <2>1
    <3>2. QED
      BY <1>1, <1>4, <3>1
  <2>2. QED
    BY <1>1, <2>1
<1>5. ASSUME n < d * hi + d PROVE k <= hi
  <2>1. ASSUME hi < k PROVE FALSE
    <3>1. d * hi + d <= d * k
      BY <1>1, <1>2, <2>1
    <3>2. d * hi \in Int /\ d * k \in Int
      BY <1>1
    <3>3. QED
      BY <1>1, <1>5, <3>1, <3>2
  <2>2. QED
    BY <1>1, <2>1
<1>6. QED
  BY <1>3, <1>4, <1>5 DEF k

\* Numbers that are close stay close when divided.
LEMMA DivisionIsClose ==
    ASSUME NEW x \in Int, NEW y \in Int, NEW d \in Nat \ {0}, NEW w \in Nat,
           d * x - y \in -(d * w)..d * w
    PROVE  Distance(x, y \div d) <= w
<1>1. d * x \in Int /\ d * w \in Int /\ d * (x - w) = d * x - d * w /\ d * (x + w) = d * x + d * w
  OBVIOUS
<1>2. d * (x - w) <= y /\ y <= d * (x + w)
  BY <1>1
<1>3. x - w \in Int /\ x + w \in Int
  OBVIOUS
<1>4. x - w <= y \div d /\ y \div d <= x + w
  BY <1>2, <1>3, DivisionBetween
<1>5. y \div d \in Int
  OBVIOUS
<1>6. QED
  BY <1>4, <1>5 DEF Distance

-----------------------------------------------------------------------------
(* The curves.                                                              *)

\* A table of knots that rises, from above the origin.
Rising(table, n) ==
    /\ n \in Nat \ {0} /\ Len(table) = n /\ table \in Seq(Nat \X Nat)
    /\ table[1][1] > 0
    /\ \A i \in 1..n : table[i][2] <= table[n][2]
    /\ \A i \in 1..n - 1 : /\ table[i][1] < table[i + 1][1]
                           /\ table[i][1] < table[n][1]
                           /\ table[i][2] <= table[i + 1][2]

\* The knots of a table, with the origin.
LEMMA KnotsAre ==
    ASSUME NEW table, NEW n, Rising(table, n)
    PROVE  LET knots == <<<<0, 0>>>> \o table
           IN  /\ Len(knots) = n + 1
               /\ knots[1] = <<0, 0>>
               /\ \A i \in 1..n + 1 : knots[i][1] \in Nat /\ knots[i][2] \in Nat
               /\ \A i \in 1..n : knots[i + 1] = table[i]
               /\ \A i \in 1..n : /\ knots[i][1] < knots[i + 1][1]
                                  /\ knots[i][2] <= knots[i + 1][2]
                                  /\ knots[i + 1][2] <= table[n][2]
<1> DEFINE o == <<<<0, 0>>>>
           knots == o \o table
<1>1. n \in Nat \ {0} /\ Len(table) = n /\ table \in Seq(Nat \X Nat)
  BY DEF Rising
<1>2. o \in Seq(Nat \X Nat) /\ Len(o) = 1 /\ o[1] = <<0, 0>>
  OBVIOUS
<1> HIDE DEF o
<1>3. /\ knots \in Seq(Nat \X Nat) /\ Len(knots) = 1 + n
      /\ \A i \in 1..(1 + n) : knots[i] = IF i <= 1 THEN o[i] ELSE table[i - 1]
  <2>1. /\ o \o table \in Seq(Nat \X Nat) /\ Len(o \o table) = Len(o) + Len(table)
        /\ \A i \in 1..Len(o) + Len(table) :
              (o \o table)[i] = IF i <= Len(o) THEN o[i] ELSE table[i - Len(o)]
    BY <1>1, <1>2, ConcatProperties
  <2>2. QED
    BY <1>1, <1>2, <2>1
<1> HIDE DEF knots
<1>4. Len(knots) = n + 1 /\ knots[1] = <<0, 0>>
  <2>1. 1 \in 1..(1 + n) /\ 1 <= 1
    BY <1>1
  <2>2. QED
    BY <1>1, <1>2, <1>3, <2>1
<1>5. \A i \in 1..n : knots[i + 1] = table[i]
  <2>1. \A i \in 1..n : i + 1 \in 1..(1 + n) /\ ~(i + 1 <= 1) /\ (i + 1) - 1 = i
    BY <1>1
  <2>2. QED
    BY <1>3, <2>1
<1>6. \A i \in 1..n + 1 : knots[i] \in Nat \X Nat
  BY <1>1, <1>3
<1>7. ASSUME NEW i \in 1..n
      PROVE  /\ knots[i][1] < knots[i + 1][1]
             /\ knots[i][2] <= knots[i + 1][2]
             /\ knots[i + 1][2] <= table[n][2]
  <2>1. knots[i + 1] = table[i] /\ table[i] \in Nat \X Nat /\ table[i][2] <= table[n][2]
    BY <1>1, <1>5 DEF Rising
  <2>2. CASE i = 1
    BY <1>4, <2>1, <2>2 DEF Rising
  <2>3. CASE i # 1
    <3>1. i - 1 \in 1..n - 1 /\ i - 1 \in 1..n /\ (i - 1) + 1 = i
      BY <1>1, <2>3
    <3>2. knots[i] = table[i - 1]
      BY <1>5, <3>1
    <3>3. table[i - 1][1] < table[i][1] /\ table[i - 1][2] <= table[i][2]
      BY <3>1 DEF Rising
    <3>4. QED
      BY <2>1, <3>2, <3>3
  <2>4. QED
    BY <2>2, <2>3
<1>8. QED
  BY <1>4, <1>5, <1>6, <1>7 DEF knots, o

\* A share of k, rounded, is no more than k.
LEMMA RoundIs ==
    ASSUME NEW d \in Nat \ {0}, NEW k \in Nat, NEW y \in 0..d
    PROVE  Round(y * k, d) \in 0..k /\ Round(d * k, d) = k
<1>1. y * k \in Nat /\ y * k <= d * k /\ d * k \in Nat
  OBVIOUS
<1>2. 2 * d \in Nat \ {0} /\ (2 * d) * 0 <= 2 * (y * k) + d
  BY <1>1
<1>3. (2 * d) * k = 2 * (d * k)
  OBVIOUS
<1>4. 2 * (y * k) + d < (2 * d) * k + 2 * d /\ 2 * (d * k) + d < (2 * d) * k + 2 * d
  BY <1>1, <1>3
<1>5. (2 * d) * k <= 2 * (d * k) + d
  BY <1>1, <1>3
<1>6. 2 * (y * k) + d \in Int /\ 2 * (d * k) + d \in Int
  BY <1>1
<1>7. 0 <= Round(y * k, d) /\ Round(y * k, d) <= k
  BY <1>2, <1>4, <1>6, DivisionBetween DEF Round
<1>8. k <= Round(d * k, d) /\ Round(d * k, d) <= k
  BY <1>2, <1>4, <1>5, <1>6, DivisionBetween DEF Round
<1>9. Round(y * k, d) \in Int /\ Round(d * k, d) \in Int
  BY <1>2, <1>6 DEF Round
<1>10. QED
  BY <1>7, <1>8, <1>9

\* A rising table is never above its last knot, and is there at that.
LEMMA InterpolateIs ==
    ASSUME NEW table, NEW n, Rising(table, n), NEW x \in Nat
    PROVE  /\ Interpolate(table, x) \in 0..table[n][2]
           /\ x = table[n][1] => Interpolate(table, x) = table[n][2]
<1> DEFINE knots == <<<<0, 0>>>> \o table
           above == {i \in 2..Len(knots) : x <= knots[i][1]}
<1>1. /\ n \in Nat \ {0} /\ Len(knots) = n + 1
      /\ knots[1] = <<0, 0>>
      /\ \A i \in 1..n + 1 : knots[i][1] \in Nat /\ knots[i][2] \in Nat
      /\ \A i \in 1..n : knots[i + 1] = table[i]
      /\ \A i \in 1..n : /\ knots[i][1] < knots[i + 1][1]
                         /\ knots[i][2] <= knots[i + 1][2]
                         /\ knots[i + 1][2] <= table[n][2]
  BY KnotsAre DEF Rising
<1>2. /\ Last(table) = table[n] /\ knots[n + 1] = table[n]
      /\ table[n][1] \in Nat /\ table[n][2] \in Nat
  <2>1. n \in 1..n /\ n + 1 \in 1..n + 1
    BY <1>1
  <2>2. QED
    BY <1>1, <2>1 DEF Last, Rising
<1>3. Interpolate(table, x) =
         IF above = {} THEN Last(table)[2]
         ELSE knots[Min(above) - 1][2]
              + Round((x - knots[Min(above) - 1][1])
                         * (knots[Min(above)][2] - knots[Min(above) - 1][2]),
                      knots[Min(above)][1] - knots[Min(above) - 1][1])
  BY DEF Interpolate
<1> HIDE DEF knots
<1>4. CASE above = {}
  <2>1. x # table[n][1]
    <3>1. n + 1 \in 2..Len(knots)
      BY <1>1
    <3>2. ~(x <= knots[n + 1][1])
      BY <1>4, <3>1
    <3>3. ~(x <= table[n][1])
      BY <1>2, <3>2
    <3>4. QED
      BY <1>2, <3>3
  <2>2. QED
    BY <1>2, <1>3, <1>4, <2>1
<1>5. CASE above # {}
  <2> DEFINE i == Min(above)
  <2>1. i \in above /\ \A j \in above : i <= j
    <3>1. above \in SUBSET Nat
      BY <1>1
    <3> HIDE DEF above
    <3>2. QED
      BY <1>5, <3>1, MinIs
  <2>2. i \in 2..n + 1 /\ x <= knots[i][1]
    BY <1>1, <2>1
  <2>3. i - 1 \in 1..n /\ i - 1 \in 1..n + 1 /\ i \in 1..n + 1 /\ (i - 1) + 1 = i
        /\ i - 1 \notin above
    <3> HIDE DEF i
    <3>1. i - 1 \in 1..n /\ i - 1 \in 1..n + 1 /\ i \in 1..n + 1 /\ (i - 1) + 1 = i
          /\ ~(i <= i - 1)
      BY <1>1, <2>2
    <3>2. QED
      BY <2>1, <3>1
  <2> HIDE DEF i
  <2> DEFINE lo == knots[i - 1]
             hi == knots[i]
  <2>4. /\ lo[1] \in Nat /\ lo[2] \in Nat /\ hi[1] \in Nat /\ hi[2] \in Nat
        /\ lo[1] < hi[1] /\ lo[2] <= hi[2] /\ hi[2] <= table[n][2]
    BY <1>1, <2>3
  <2>5. lo[1] <= x
    <3>1. CASE i = 2
      <4>1. lo[1] = 0
        BY <1>1, <3>1
      <4>2. QED
        BY <4>1
    <3>2. CASE i # 2
      <4>1. i - 1 \in 2..Len(knots)
        BY <1>1, <2>2, <3>2
      <4>2. ~(x <= lo[1])
        BY <2>3, <4>1
      <4>3. QED
        BY <2>4, <4>2
    <3>3. QED
      BY <3>1, <3>2
  <2>6. Interpolate(table, x) = lo[2] + Round((x - lo[1]) * (hi[2] - lo[2]), hi[1] - lo[1])
    BY <1>3, <1>5 DEF i
  <2>7. x <= hi[1]
    BY <2>2
  <2> HIDE DEF lo, hi
  <2>8. hi[1] - lo[1] \in Nat \ {0} /\ hi[2] - lo[2] \in Nat /\ x - lo[1] \in 0..hi[1] - lo[1]
    BY <2>4, <2>5, <2>7
  <2>9. /\ Round((x - lo[1]) * (hi[2] - lo[2]), hi[1] - lo[1]) \in 0..hi[2] - lo[2]
        /\ Round((hi[1] - lo[1]) * (hi[2] - lo[2]), hi[1] - lo[1]) = hi[2] - lo[2]
    BY <2>8, RoundIs
  <2>10. Interpolate(table, x) \in 0..table[n][2]
    <3> DEFINE r == Round((x - lo[1]) * (hi[2] - lo[2]), hi[1] - lo[1])
    <3>1. r \in 0..hi[2] - lo[2] /\ Interpolate(table, x) = lo[2] + r
      BY <2>6, <2>9
    <3> HIDE DEF r
    <3>2. QED
      BY <1>2, <2>4, <3>1
  <2>11. ASSUME x = table[n][1] PROVE Interpolate(table, x) = table[n][2]
    <3>1. i = n + 1
      <4>1. \A j \in 1..n - 1 : table[j][1] < table[n][1] /\ knots[j + 1] = table[j]
        <5>1. \A j \in 1..n - 1 : j \in 1..n
          BY <1>1
        <5>2. QED
          BY <1>1, <5>1 DEF Rising
      <4>2. ASSUME i # n + 1 PROVE FALSE
        <5>1. i - 1 \in 1..n - 1
          BY <1>1, <2>2, <4>2
        <5>2. hi[1] < table[n][1]
          BY <2>3, <4>1, <5>1 DEF hi
        <5>3. QED
          BY <2>4, <2>7, <2>11, <5>2, <1>2
      <4>3. QED
        BY <4>2
    <3>2. hi = table[n]
      BY <1>2, <3>1 DEF hi
    <3>3. x - lo[1] = hi[1] - lo[1]
      BY <2>11, <3>2
    <3>4. Interpolate(table, x) = lo[2] + (hi[2] - lo[2])
      BY <2>6, <2>9, <3>3
    <3>5. QED
      BY <2>4, <3>2, <3>4
  <2>12. QED
    BY <2>10, <2>11
<1>6. QED
  BY <1>4, <1>5

\* The two curves rise.
LEMMA CurvesRise ==
    Rising(RPM_TO_GPM, 9) /\ Rising(WATTS_CURVE, 13)
<1>1. Rising(RPM_TO_GPM, 9)
  <2>1. \A i \in 1..9 : i = 1 \/ i = 2 \/ i = 3 \/ i = 4 \/ i = 5 \/ i = 6 \/ i = 7 \/ i = 8 \/ i = 9
    OBVIOUS
  <2>2. RPM_TO_GPM \in Seq(Nat \X Nat) /\ Len(RPM_TO_GPM) = 9
    BY DEF RPM_TO_GPM
  <2>3. QED
    BY <2>1, <2>2 DEF Rising, RPM_TO_GPM
<1>2. Rising(WATTS_CURVE, 13)
  <2>1. WATTS_CURVE \in Seq(Nat \X Nat) /\ Len(WATTS_CURVE) = 13
    BY DEF WATTS_CURVE
  <2>2. QED
    BY <2>1 DEF Rising, WATTS_CURVE
<1>3. QED
  BY <1>1, <1>2

\* Every measure is between nothing and its largest, that of full speed.
LEMMA MeasureIs ==
    ASSUME NEW of \in Measures, NEW r \in Nat
    PROVE  Largest(of) \in Nat /\ Measure(of, r) \in 0..Largest(of)
<1>1. CASE of = "running"
  BY <1>1 DEF Largest, Measure
<1>2. CASE of = "gpm"
  <2>1. RPM_TO_GPM[9] = <<3450, 98>>
    BY DEF RPM_TO_GPM
  <2>2. Interpolate(RPM_TO_GPM, 3450) = 98
    BY <2>1, CurvesRise, InterpolateIs
  <2>3. Interpolate(RPM_TO_GPM, r) \in 0..98
    <3>1. Interpolate(RPM_TO_GPM, r) \in 0..RPM_TO_GPM[9][2]
      BY CurvesRise, InterpolateIs
    <3>2. QED
      BY <2>1, <3>1
  <2>4. Largest(of) = 98 /\ Measure(of, r) = IF r <= 0 THEN 0 ELSE Interpolate(RPM_TO_GPM, r)
    <3>1. ~(3450 <= 0)
      OBVIOUS
    <3>2. \A x : Measure("gpm", x) = IF x <= 0 THEN 0 ELSE Interpolate(RPM_TO_GPM, x)
      BY DEF Measure
    <3>3. Largest("gpm") = Interpolate(RPM_TO_GPM, 3450)
      BY <3>1, <3>2 DEF Largest
    <3>4. QED
      BY <1>2, <2>2, <3>2, <3>3
  <2>5. QED
    BY <2>3, <2>4
<1>3. CASE of = "watts"
  <2>1. WATTS_CURVE[13] = <<3450, 1487>>
    BY DEF WATTS_CURVE
  <2>2. Interpolate(WATTS_CURVE, 3450) = 1487
    BY <2>1, CurvesRise, InterpolateIs
  <2>3. Interpolate(WATTS_CURVE, r) \in 0..1487
    <3>1. Interpolate(WATTS_CURVE, r) \in 0..WATTS_CURVE[13][2]
      BY CurvesRise, InterpolateIs
    <3>2. QED
      BY <2>1, <3>1
  <2>4. Largest(of) = 1487 /\ Measure(of, r) = IF r <= 0 THEN 0 ELSE Interpolate(WATTS_CURVE, r)
    <3>1. ~(3450 <= 0)
      OBVIOUS
    <3>2. \A x : Measure("watts", x) = IF x <= 0 THEN 0 ELSE Interpolate(WATTS_CURVE, x)
      BY DEF Measure
    <3>3. Largest("watts") = Interpolate(WATTS_CURVE, 3450)
      BY <3>1, <3>2 DEF Largest
    <3>4. QED
      BY <1>3, <2>2, <3>2, <3>3
  <2>5. QED
    BY <2>3, <2>4
<1>4. QED
  BY <1>1, <1>2, <1>3 DEF Measures

-----------------------------------------------------------------------------
(* The rows of a day.                                                       *)

\* What the schedule of today asks for, minute by minute.
Plan == [m \in 0..MINUTES - 1 |-> Planned(m)]

PlanOK == Plan \in [0..MINUTES - 1 -> Nat] /\ ActiveRpm = Plan[minute]

\* The speed of a list of segments is one of theirs.
LEMMA SegmentRpmIs ==
    ASSUME NEW segs \in Seq(ScheduleSegments), segs # <<>>, NEW m
    PROVE  SegmentRpm(segs, m) \in Nat
<1> DEFINE sorted == SortSegments(segs)
<1>1. PICK p : SortedBy(segs, sorted, p)
  BY SortSegmentsIs
<1>2. sorted \in Seq(ScheduleSegments) /\ Len(sorted) = Len(segs)
  BY <1>1, SortedIs
<1>3. SegmentRpm(segs, m) = ActiveAfter(sorted, m)[Len(sorted)].rpm
  BY DEF SegmentRpm
<1> HIDE DEF sorted
<1>4. sorted # <<>>
  BY <1>2
<1>5. PICK k \in 1..Len(sorted) : LastDue(sorted, m, k)
  BY <1>2, <1>4, LastDueExists
<1>6. ActiveAfter(sorted, m)[Len(sorted)] = sorted[k]
  BY <1>2, <1>5, LoopIs
<1>7. sorted[k] \in ScheduleSegments
  BY <1>2
<1>8. QED
  BY <1>3, <1>6, <1>7 DEF ScheduleSegments

\* The schedule of today, if there is one, is a list of segments.
LEMMA TopIs ==
    ASSUME ClockOK
    PROVE  Top = <<>> \/ (Top \in Seq(ScheduleSegments) /\ Top # <<>>)
<1>1. CASE \E i \in DOMAIN list : InForce(i) /\ Top = list[i].segments
  BY <1>1, ListIs
<1>2. QED
  BY <1>1, TopIsInForce

\* The plan has a speed for every minute, and the engine follows it.
LEMMA PlanIs == ClockOK => PlanOK
<1> SUFFICES ASSUME ClockOK PROVE PlanOK
  OBVIOUS
<1>1. ASSUME NEW m \in 0..MINUTES - 1 PROVE Planned(m) \in Nat
  <2>1. CASE Top = <<>>
    BY <2>1 DEF Planned, ActiveAt, Top
  <2>2. CASE Top # <<>>
    <3>1. Planned(m) = SegmentRpm(Top, m)
      BY <2>2 DEF Planned, ActiveAt, Top
    <3>2. QED
      BY <2>2, <3>1, TopIs, SegmentRpmIs
  <2>3. QED
    BY <2>1, <2>2
<1>2. ActiveRpm = Planned(minute)
  BY DEF ActiveRpm, Planned
<1>3. minute \in 0..MINUTES - 1
  BY DEF ClockOK
<1>4. QED
  BY <1>1, <1>2, <1>3 DEF PlanOK, Plan

\* The rows are in the order of time, none is of a later minute, and each has the
\* speed of the plan.
SamplesOK ==
    /\ samples \in Seq([at: 0..MINUTES - 1, rpm: Nat])
    /\ \A i \in 1..Len(samples) : /\ samples[i].at <= minute
                                  /\ samples[i].rpm = Plan[samples[i].at]
    /\ \A i, j \in 1..Len(samples) : i < j => samples[i].at <= samples[j].at

MIInv == ClockOK /\ SamplesOK

\* What there is to know of a row.
LEMMA SamplesAre ==
    MIInv => /\ MINUTES \in Nat \ {0} /\ minute \in 0..MINUTES - 1 /\ minute \in Nat
             /\ Len(samples) \in Nat /\ DOMAIN samples = 1..Len(samples)
             /\ \A i \in 1..Len(samples) :
                   /\ samples[i].at \in 0..MINUTES - 1 /\ samples[i].at \in Nat
                   /\ samples[i].rpm \in Nat /\ samples[i].rpm = Plan[samples[i].at]
                   /\ samples[i].at <= minute
             /\ \A i, j \in 1..Len(samples) : i < j => samples[i].at <= samples[j].at
<1> DEFINE R == [at: 0..MINUTES - 1, rpm: Nat]
<1> SUFFICES ASSUME MIInv
             PROVE  /\ MINUTES \in Nat \ {0} /\ minute \in 0..MINUTES - 1 /\ minute \in Nat
                    /\ Len(samples) \in Nat /\ DOMAIN samples = 1..Len(samples)
                    /\ \A i \in 1..Len(samples) :
                          /\ samples[i].at \in 0..MINUTES - 1 /\ samples[i].at \in Nat
                          /\ samples[i].rpm \in Nat /\ samples[i].rpm = Plan[samples[i].at]
                          /\ samples[i].at <= minute
                    /\ \A i, j \in 1..Len(samples) : i < j => samples[i].at <= samples[j].at
  OBVIOUS
<1>1. MINUTES \in Nat \ {0} /\ minute \in 0..MINUTES - 1 /\ minute \in Nat
  BY ScheduleClockAssumption DEF MIInv, ClockOK
<1>2. samples \in Seq(R)
  BY DEF MIInv, SamplesOK
<1>3. \A x \in R : x.at \in 0..MINUTES - 1 /\ x.at \in Nat /\ x.rpm \in Nat
  BY <1>1
<1> HIDE DEF R
<1>4. /\ Len(samples) \in Nat /\ DOMAIN samples = 1..Len(samples)
      /\ \A i \in 1..Len(samples) : samples[i] \in R
  BY <1>2
<1>5. /\ \A i \in 1..Len(samples) : /\ samples[i].at <= minute
                                    /\ samples[i].rpm = Plan[samples[i].at]
      /\ \A i, j \in 1..Len(samples) : i < j => samples[i].at <= samples[j].at
  BY DEF MIInv, SamplesOK
<1>6. \A i \in 1..Len(samples) : /\ samples[i].at \in 0..MINUTES - 1 /\ samples[i].at \in Nat
                                /\ samples[i].rpm \in Nat
  BY <1>3, <1>4
<1>7. QED
  BY <1>1, <1>4, <1>5, <1>6

\* The rows of one minute.
LEMMA RowsAre ==
    ASSUME NEW n \in Nat, NEW m \in 0..MINUTES - 1, NEW r \in Nat
    PROVE  /\ Rows(n, m, r) \in Seq([at: 0..MINUTES - 1, rpm: Nat])
           /\ Len(Rows(n, m, r)) = n
           /\ \A i \in 1..n : Rows(n, m, r)[i] = [at |-> m, rpm |-> r]
<1>1. Rows(n, m, r) \in [1..n -> [at: 0..MINUTES - 1, rpm: Nat]]
  BY DEF Rows
<1>2. QED
  BY <1>1 DEF Rows

\* The first rows.
LEMMA RowsBegin == MInit => MIInv
<1> SUFFICES ASSUME MInit PROVE MIInv
  OBVIOUS
<1>1. ClockOK
  BY ScheduleClockAssumption DEF MInit, Init, ClockOK
<1>2. PlanOK
  BY <1>1, PlanIs
<1>3. PICK n \in Recorded(list) : samples = Rows(n, 0, ActiveRpm)
  BY DEF MInit
<1>4. n \in Nat
  BY <1>3, EnergyMeterAssumption DEF Recorded
<1>5. minute = 0 /\ 0 \in 0..MINUTES - 1 /\ ActiveRpm = Plan[0] /\ ActiveRpm \in Nat
  BY <1>1, <1>2 DEF PlanOK, ClockOK, MInit, Init
<1>6. SamplesOK
  <2>1. /\ samples \in Seq([at: 0..MINUTES - 1, rpm: Nat]) /\ Len(samples) = n
        /\ \A i \in 1..n : samples[i] = [at |-> 0, rpm |-> ActiveRpm]
    BY <1>3, <1>4, <1>5, RowsAre
  <2>2. QED
    BY <1>5, <2>1 DEF SamplesOK
<1>7. QED
  BY <1>1, <1>6 DEF MIInv

\* The rows of the minute that begins, after those there are.
LEMMA RowsGo == MIInv /\ MMinute => MIInv'
<1> SUFFICES ASSUME MIInv, MMinute PROVE MIInv'
  OBVIOUS
<1>1. ClockOK'
  <2>1. DAYS \in Nat \ {0} /\ MINUTES \in Nat \ {0}
    BY ScheduleClockAssumption
  <2>2. minute \in Int /\ day \in Int
    BY DEF MIInv, ClockOK
  <2>3. (minute + 1) % MINUTES \in 0..MINUTES - 1 /\ (day + 1) % DAYS \in 0..DAYS - 1
    BY <2>1, <2>2
  <2>4. QED
    BY <2>3 DEF MMinute, Minute, MIInv, ClockOK
<1>2. PlanOK'
  BY <1>1, PlanIs, PTL
<1>3. /\ minute' \in 0..MINUTES - 1 /\ MINUTES \in Nat
      /\ ActiveRpm' = Plan'[minute'] /\ ActiveRpm' \in Nat
  BY <1>1, <1>2, ScheduleClockAssumption DEF PlanOK, ClockOK
<1> DEFINE old == IF minute' = 0 THEN <<>> ELSE samples
<1>4. PICK n \in Recorded(list) : samples' = old \o Rows(n, minute', ActiveRpm')
  BY DEF MMinute
<1>5. n \in Nat
  BY <1>4, EnergyMeterAssumption DEF Recorded
<1> DEFINE new == Rows(n, minute', ActiveRpm')
           k == Len(old)
<1>6. /\ new \in Seq([at: 0..MINUTES - 1, rpm: Nat]) /\ Len(new) = n
      /\ \A i \in 1..n : new[i] = [at |-> minute', rpm |-> ActiveRpm']
  BY <1>3, <1>5, RowsAre
<1>7. /\ old \in Seq([at: 0..MINUTES - 1, rpm: Nat])
      /\ \A i \in 1..k : /\ old[i].at <= minute'
                         /\ old[i].rpm = Plan'[old[i].at]
      /\ \A i, j \in 1..k : i < j => old[i].at <= old[j].at
  <2>1. CASE minute' = 0
    BY <2>1
  <2>2. CASE minute' # 0
    <3>1. minute' = minute + 1
      <4>1. MINUTES \in Nat \ {0} /\ minute \in 0..MINUTES - 1 /\ minute' = (minute + 1) % MINUTES
        BY ScheduleClockAssumption DEF MIInv, ClockOK, MMinute, Minute
      <4>2. minute + 1 = MINUTES \/ minute + 1 \in 0..MINUTES - 1
        BY <4>1
      <4>3. MINUTES % MINUTES = 0
        BY <4>1
      <4>4. QED
        BY <2>2, <4>1, <4>2, <4>3
    <3>2. Plan' = Plan
      <4>1. list' = list /\ day' = day
        BY <2>2 DEF MMinute, Minute
      <4>2. QED
        BY <4>1 DEF Plan, Planned, ActiveAt, TopOn, Matches
    <3>3. minute \in Int
      BY DEF MIInv, ClockOK
    <3>4. old = samples
      BY <2>2
    <3>5. \A i \in 1..Len(samples) : samples[i].at \in Int
      BY SamplesAre
    <3> HIDE DEF old
    <3>6. QED
      BY <3>1, <3>2, <3>3, <3>4, <3>5 DEF MIInv, SamplesOK
  <2>3. QED
    BY <2>1, <2>2
<1> HIDE DEF old, new
<1>8. k \in Nat
  BY <1>7
<1>9. /\ samples' \in Seq([at: 0..MINUTES - 1, rpm: Nat]) /\ Len(samples') = k + n
      /\ \A i \in 1..(k + n) : samples'[i] = IF i <= k THEN old[i] ELSE new[i - k]
  <2>1. samples' = old \o new
    BY <1>4 DEF new
  <2> DEFINE R == [at: 0..MINUTES - 1, rpm: Nat]
  <2>2. old \in Seq(R) /\ new \in Seq(R) /\ Len(new) = n
    BY <1>6, <1>7
  <2> HIDE DEF R
  <2>3. /\ old \o new \in Seq(R) /\ Len(old \o new) = Len(old) + Len(new)
        /\ \A i \in 1..Len(old) + Len(new) :
              (old \o new)[i] = IF i <= Len(old) THEN old[i] ELSE new[i - Len(old)]
    BY <2>2, ConcatProperties
  <2>4. QED
    BY <2>1, <2>2, <2>3 DEF R
<1>10. \A i \in 1..(k + n) : \/ i \in 1..k /\ samples'[i] = old[i]
                             \/ /\ ~(i <= k)
                                /\ samples'[i] = [at |-> minute', rpm |-> ActiveRpm']
  <2>1. ASSUME NEW i \in 1..(k + n), ~(i <= k)
        PROVE  samples'[i] = [at |-> minute', rpm |-> ActiveRpm']
    <3>1. i - k \in 1..n
      BY <1>5, <1>8, <2>1
    <3>2. QED
      BY <1>6, <1>9, <2>1, <3>1
  <2>2. QED
    BY <1>5, <1>8, <1>9, <2>1
<1>11. SamplesOK'
  <2>1. \A i \in 1..(k + n) : /\ samples'[i].at <= minute'
                              /\ samples'[i].rpm = Plan'[samples'[i].at]
    BY <1>3, <1>7, <1>10
  <2>2. ASSUME NEW i \in 1..(k + n), NEW j \in 1..(k + n), i < j
        PROVE  samples'[i].at <= samples'[j].at
    <3>1. CASE j \in 1..k
      <4>1. i \in 1..k
        BY <1>5, <1>8, <2>2, <3>1
      <4>2. samples'[i] = old[i] /\ samples'[j] = old[j]
        BY <1>8, <1>10, <3>1, <4>1
      <4>3. QED
        BY <1>7, <2>2, <3>1, <4>1, <4>2
    <3>2. CASE j \notin 1..k
      <4>1. samples'[j].at = minute'
        BY <1>10, <3>2
      <4>2. QED
        BY <2>1, <4>1
    <3>3. QED
      BY <3>1, <3>2
  <2>3. QED
    BY <1>9, <2>1, <2>2 DEF SamplesOK
<1>12. QED
  BY <1>1, <1>11 DEF MIInv

-----------------------------------------------------------------------------
(* The speed bands.                                                         *)

\* The minutes that a row is credited with.
Owned(i) == samples[i].at .. samples[i].at + Credited(i) - 1

\* What a row is credited with: less than an hour of the time to the next row.
LEMMA CreditIs ==
    ASSUME MIInv, NEW i \in 1..Len(samples)
    PROVE  /\ Len(samples) \in Nat /\ samples[i].at \in Nat /\ Credited(i) \in Nat
           /\ \A m \in Int :
                 m \in Owned(i) <=> /\ i < Len(samples)
                                    /\ samples[i].at <= m /\ m < samples[i].at + HOUR
                                    /\ m < samples[i + 1].at
<1>1. /\ Len(samples) \in Nat /\ HOUR \in Nat \ {0}
      /\ \A j \in 1..Len(samples) : samples[j].at \in Nat
  BY SamplesAre, EnergyMeterAssumption
<1>2. CASE i = Len(samples)
  <2>1. Lead(i) = 0 /\ 0 < HOUR /\ ~(i < Len(samples))
    BY <1>1, <1>2 DEF Lead
  <2>2. Credited(i) = 0 /\ samples[i].at \in Nat
    BY <1>1, <2>1 DEF Credited
  <2>3. \A m \in Int : m \notin Owned(i)
    BY <2>2 DEF Owned
  <2>4. QED
    BY <1>1, <2>1, <2>2, <2>3
<1>3. CASE i # Len(samples)
  <2>1. i + 1 \in 1..Len(samples) /\ i < i + 1 /\ i < Len(samples)
    BY <1>1, <1>3
  <2>2. samples[i].at <= samples[i + 1].at
    BY <2>1 DEF MIInv, SamplesOK
  <2>3. Lead(i) = samples[i + 1].at - samples[i].at
    BY <1>3 DEF Lead
  <2>4. samples[i].at \in Nat /\ samples[i + 1].at \in Nat
    BY <1>1, <2>1
  <2>5. Credited(i) = IF Lead(i) < HOUR THEN Lead(i) ELSE HOUR
    BY DEF Credited
  <2>6. QED
    BY <1>1, <2>1, <2>2, <2>3, <2>4, <2>5, SMTT(30) DEF Owned
<1>4. QED
  BY <1>2, <1>3

\* No minute is credited twice.
LEMMA OwnedApart ==
    ASSUME MIInv, NEW i \in 1..Len(samples), NEW j \in 1..Len(samples), i < j
    PROVE  Owned(i) \cap Owned(j) = {}
<1>1. Len(samples) \in Nat /\ \A k \in 1..Len(samples) : samples[k].at \in Nat
  BY SamplesAre
<1>2. i + 1 \in 1..Len(samples)
  BY <1>1
<1>3. samples[i + 1].at <= samples[j].at
  <2>1. CASE i + 1 = j
    BY <1>1, <2>1
  <2>2. CASE i + 1 # j
    <3>1. i + 1 < j
      BY <1>1, <2>2
    <3>2. QED
      BY <1>2, <3>1 DEF MIInv, SamplesOK
  <2>3. QED
    BY <2>1, <2>2
<1>4. ASSUME NEW m \in Owned(i), m \in Owned(j) PROVE FALSE
  <2>1. m \in Int
    BY <1>1, CreditIs DEF Owned
  <2>2. m < samples[i + 1].at /\ samples[j].at <= m
    BY <1>4, <2>1, CreditIs
  <2>3. samples[i + 1].at \in Int /\ samples[j].at \in Int
    BY <1>1, <1>2
  <2>4. QED
    BY <1>3, <2>1, <2>2, <2>3
<1>5. QED
  BY <1>4

\* The bands count real minutes.
LEMMA BandsCountMinutes ==
    ASSUME MIInv
    PROVE  BandsAreMinutes
<1> SUFFICES ASSUME NEW band \in {"off", "low", "mid", "high"}
             PROVE  SpeedBands(band) =
                    Cardinality({m \in 0..minute :
                        \E i \in DOMAIN samples :
                           /\ samples[i].at <= m /\ m < samples[i].at + HOUR
                           /\ Band(samples[i].rpm) = band
                           /\ \A j \in DOMAIN samples : samples[j].at <= m => j <= i
                           /\ Last(samples).at > m})
  BY DEF BandsAreMinutes
<1> DEFINE n == Len(samples)
           S == RowsOf(band)
           f == [i \in S |-> Credited(i)]
           own == [i \in S |-> Owned(i)]
           Counts(i, m) == /\ samples[i].at <= m /\ m < samples[i].at + HOUR
                           /\ \A j \in 1..n : samples[j].at <= m => j <= i
                           /\ samples[n].at > m
           M == {m \in 0..minute : \E i \in S : Counts(i, m)}
<1>1. /\ n \in Nat /\ DOMAIN samples = 1..n /\ S \in SUBSET (1..n) /\ minute \in Nat
      /\ \A i \in 1..n : samples[i].at \in Nat /\ samples[i].at <= minute
  BY SamplesAre DEF RowsOf
<1>2. IsFiniteSet(S)
  <2>1. IsFiniteSet(1..n)
    BY <1>1, FS_Interval
  <2>2. QED
    BY <1>1, <2>1, FS_Subset
<1>3. ASSUME NEW i \in S
      PROVE  IsFiniteSet(own[i]) /\ f[i] = Cardinality(own[i])
  <2> DEFINE a == samples[i].at
             c == Credited(i)
             b == a + c - 1
  <2>1. i \in 1..n
    BY <1>1
  <2>2. a \in Nat /\ c \in Nat
    BY <2>1, CreditIs
  <2>3. own[i] = a..b /\ f[i] = c
    BY DEF Owned
  <2> HIDE DEF a, c
  <2>4. a \in Int /\ b \in Int /\ (IF a > b THEN 0 ELSE b - a + 1) = c
    BY <2>2
  <2> HIDE DEF b
  <2>5. IsFiniteSet(a..b) /\ Cardinality(a..b) = c
    BY <2>4, FS_Interval
  <2> HIDE DEF own, f
  <2>6. QED
    BY <2>3, <2>5
<1>4. ASSUME NEW i \in S, NEW j \in S, i # j PROVE own[i] \cap own[j] = {}
  <2>1. i < j \/ j < i
    BY <1>1, <1>4
  <2>2. QED
    BY <1>1, <2>1, OwnedApart
<1>5. ASSUME NEW i \in S, NEW m \in Int
      PROVE  m \in Owned(i) <=> m \in 0..minute /\ Counts(i, m)
  <2>1. i \in 1..n
    BY <1>1
  <2>2. /\ samples[i].at \in Nat
        /\ m \in Owned(i) <=> /\ i < n
                              /\ samples[i].at <= m /\ m < samples[i].at + HOUR
                              /\ m < samples[i + 1].at
    BY <2>1, CreditIs
  <2>3. ASSUME m \in Owned(i) PROVE m \in 0..minute /\ Counts(i, m)
    <3>1. i + 1 \in 1..n /\ n \in 1..n
      BY <1>1, <2>1, <2>2, <2>3
    <3>2. \A j \in 1..n : i < j => samples[i + 1].at <= samples[j].at
      <4>1. ASSUME NEW j \in 1..n, i < j PROVE samples[i + 1].at <= samples[j].at
        <5>1. CASE i + 1 = j
          BY <1>1, <5>1
        <5>2. CASE i + 1 # j
          <6>1. i + 1 < j
            BY <1>1, <2>1, <4>1, <5>2
          <6>2. QED
            BY <3>1, <6>1 DEF MIInv, SamplesOK
        <5>3. QED
          BY <5>1, <5>2
      <4>2. QED
        BY <4>1
    <3>3. \A j \in 1..n : samples[j].at <= m => j <= i
      <4>1. ASSUME NEW j \in 1..n, samples[j].at <= m, i < j PROVE FALSE
        <5>1. samples[i + 1].at <= samples[j].at /\ m < samples[i + 1].at
          BY <2>2, <2>3, <3>2, <4>1
        <5>2. samples[i + 1].at \in Int /\ samples[j].at \in Int
          BY <1>1, <3>1
        <5>3. QED
          BY <4>1, <5>1, <5>2
      <4>2. QED
        BY <1>1, <2>1, <4>1
    <3>4. samples[n].at > m
      <4>1. samples[i + 1].at <= samples[n].at /\ m < samples[i + 1].at
        BY <2>2, <2>3, <3>1, <3>2
      <4>2. samples[i + 1].at \in Int /\ samples[n].at \in Int
        BY <1>1, <3>1
      <4>3. QED
        BY <4>1, <4>2
    <3>5. m \in 0..minute
      <4>1. samples[n].at \in Nat /\ samples[n].at <= minute
        BY <1>1, <3>1
      <4>2. QED
        BY <1>1, <2>2, <2>3, <3>4, <4>1
    <3>6. QED
      BY <2>2, <2>3, <3>3, <3>4, <3>5
  <2>4. ASSUME Counts(i, m) PROVE m \in Owned(i)
    <3>1. i # n
      <4>1. ASSUME i = n PROVE FALSE
        BY <1>1, <2>1, <2>4, <4>1
      <4>2. QED
        BY <4>1
    <3>2. i < n /\ i + 1 \in 1..n /\ ~(i + 1 <= i)
      BY <1>1, <2>1, <3>1
    <3>3. ~(samples[i + 1].at <= m) /\ samples[i + 1].at \in Int
      BY <1>1, <2>4, <3>2
    <3>4. QED
      BY <2>2, <2>4, <3>2, <3>3
  <2>5. QED
    BY <2>3, <2>4
<1>6. \A m : m \in M <=> \E i \in S : m \in own[i]
  <2>1. \A i \in S : own[i] = Owned(i) /\ Owned(i) \subseteq Int
    BY <1>1, CreditIs DEF Owned
  <2> HIDE DEF own, Counts, S
  <2>2. \A m : (\E i \in S : m \in own[i]) <=> \E i \in S : m \in Owned(i)
    BY <2>1
  <2>3. \A m : m \in M <=> m \in 0..minute /\ \E i \in S : Counts(i, m)
    OBVIOUS
  <2>4. \A m : m \in M <=> \E i \in S : m \in Owned(i)
    BY <1>1, <1>5, <2>1, <2>3
  <2>5. QED
    BY <2>2, <2>4
<1>7. SumFunctionOnSet(f, S) = Cardinality(M)
  <2>1. \A i \in S : IsFiniteSet(own[i]) /\ f[i] = Cardinality(own[i])
    <3> HIDE DEF f, own
    <3>1. QED
      BY <1>3
  <2>2. \A i, j \in S : i # j => own[i] \cap own[j] = {}
    <3> HIDE DEF f, own
    <3>1. QED
      BY <1>4
  <2> HIDE DEF f, own, S, M
  <2>3. Splits(M, S, own, f)
    BY <1>6, <2>1, <2>2 DEF Splits
  <2>4. QED
    BY <1>2, <2>3, SumOfSizes
<1>8. SpeedBands(band) = SumFunctionOnSet(f, S)
  BY DEF SpeedBands, SumFunction
<1>9. M = {m \in 0..minute :
             \E i \in DOMAIN samples :
                /\ samples[i].at <= m /\ m < samples[i].at + HOUR
                /\ Band(samples[i].rpm) = band
                /\ \A j \in DOMAIN samples : samples[j].at <= m => j <= i
                /\ Last(samples).at > m}
  BY <1>1 DEF RowsOf, Last
<1>10. QED
  BY <1>7, <1>8, <1>9

-----------------------------------------------------------------------------
(* The summary.                                                             *)

\* The minutes of an hour.
LEMMA MinutesOfAre ==
    ASSUME NEW h \in Hours
    PROVE  /\ MinutesOf(h) = h * HOUR .. h * HOUR + HOUR - 1
           /\ h * HOUR \in MinutesOf(h)
           /\ MinutesOf(h) \subseteq 0..MINUTES - 1
           /\ IsFiniteSet(MinutesOf(h)) /\ Cardinality(MinutesOf(h)) = HOUR
<1> DEFINE k == MINUTES \div HOUR
           x == h * HOUR
<1>1. HOUR \in Nat \ {0} /\ MINUTES \in Nat \ {0} /\ MINUTES % HOUR = 0
  BY EnergyMeterAssumption, ScheduleClockAssumption
<1>2. k \in Int /\ MINUTES = HOUR * k
  BY <1>1
<1>3. h \in Nat /\ h <= k - 1
  BY <1>2 DEF Hours
<1> HIDE DEF k
<1>4. x \in Nat /\ x + HOUR <= MINUTES
  <2>1. h * HOUR + HOUR = HOUR * (h + 1)
    BY <1>1, <1>3
  <2>2. HOUR * (h + 1) <= HOUR * k
    <3>1. k - (h + 1) \in Nat
      BY <1>2, <1>3
    <3>2. HOUR * (k - (h + 1)) \in Nat /\ HOUR * (k - (h + 1)) = HOUR * k - HOUR * (h + 1)
      BY <1>1, <1>2, <1>3, <3>1
    <3>3. HOUR * k \in Int /\ HOUR * (h + 1) \in Int
      BY <1>1, <1>2, <1>3
    <3>4. QED
      BY <3>2, <3>3
  <2>3. x \in Nat
    BY <1>1, <1>3
  <2>4. QED
    BY <1>1, <1>2, <2>1, <2>2, <2>3
<1>5. ASSUME NEW m \in Int
      PROVE  m \div HOUR = h <=> x <= m /\ m < x + HOUR
  <2>1. m \div HOUR \in Int /\ HOUR * (m \div HOUR) <= m /\ m < HOUR * (m \div HOUR) + HOUR
    BY <1>1, Division
  <2>2. ASSUME m \div HOUR = h PROVE x <= m /\ m < x + HOUR
    <3>1. HOUR * h = x
      BY <1>1, <1>3
    <3>2. QED
      BY <2>1, <2>2, <3>1
  <2>3. ASSUME x <= m, m < x + HOUR PROVE m \div HOUR = h
    <3>1. HOUR * h = x /\ HOUR * h <= m /\ m < HOUR * h + HOUR
      BY <1>1, <1>3, <2>3
    <3>2. h <= m \div HOUR /\ m \div HOUR <= h
      BY <1>1, <1>3, <3>1, DivisionBetween
    <3>3. QED
      BY <1>3, <2>1, <3>2
  <2>4. QED
    BY <2>2, <2>3
<1> HIDE DEF x
<1>6. MinutesOf(h) = x .. x + HOUR - 1
  <2>1. \A m : m \in MinutesOf(h) <=> m \in 0..MINUTES - 1 /\ m \div HOUR = h
    BY DEF MinutesOf
  <2>2. \A m : m \in x .. x + HOUR - 1 <=> m \in 0..MINUTES - 1 /\ x <= m /\ m < x + HOUR
    BY <1>1, <1>4
  <2>3. \A m \in 0..MINUTES - 1 : m \div HOUR = h <=> x <= m /\ m < x + HOUR
    BY <1>1, <1>5
  <2>4. QED
    BY <2>1, <2>2, <2>3
<1>7. x \in x .. x + HOUR - 1 /\ x .. x + HOUR - 1 \subseteq 0..MINUTES - 1
  BY <1>1, <1>4
<1>8. IsFiniteSet(x .. x + HOUR - 1) /\ Cardinality(x .. x + HOUR - 1) = HOUR
  <2>1. x + HOUR - 1 \in Int /\ x \in Int /\ ~(x > x + HOUR - 1) /\ (x + HOUR - 1) - x + 1 = HOUR
    BY <1>1, <1>4
  <2>2. QED
    BY <2>1, FS_Interval
<1>9. QED
  BY <1>6, <1>7, <1>8 DEF x

\* What the schedule makes of an hour has a bound.
LEMMA ExpectedIs ==
    ASSUME MIInv, NEW of \in Measures, NEW h \in Hours
    PROVE  Expected(of, h) \in 0..Largest(of) * HOUR
<1> DEFINE f == [m \in MinutesOf(h) |-> Measure(of, Planned(m))]
           L == Largest(of)
<1>1. IsFiniteSet(MinutesOf(h)) /\ Cardinality(MinutesOf(h)) = HOUR
      /\ MinutesOf(h) \subseteq 0..MINUTES - 1 /\ HOUR \in Nat
  BY MinutesOfAre, EnergyMeterAssumption
<1>2. \A m \in MinutesOf(h) : Planned(m) \in Nat
  <2>1. \A m \in MinutesOf(h) : Plan[m] \in Nat /\ Plan[m] = Planned(m)
    BY <1>1, PlanIs DEF MIInv, PlanOK, Plan
  <2>2. QED
    BY <2>1
<1>3. L \in Nat /\ \A m \in MinutesOf(h) : f[m] \in Int /\ 0 <= f[m] /\ f[m] <= L
  <2>1. L \in Nat
    BY <1>2, MeasureIs
  <2>2. \A m \in MinutesOf(h) : f[m] \in 0..L
    BY <1>2, MeasureIs
  <2> HIDE DEF f, L
  <2>3. QED
    BY <2>1, <2>2
<1>4. Expected(of, h) = SumFunctionOnSet(f, MinutesOf(h))
  BY DEF Expected, SumFunction
<1> HIDE DEF f, L
<1>5. /\ SumFunctionOnSet(f, MinutesOf(h)) \in Int
      /\ 0 * HOUR <= SumFunctionOnSet(f, MinutesOf(h))
      /\ SumFunctionOnSet(f, MinutesOf(h)) <= L * HOUR
  <2>1. 0 \in Int /\ L \in Int
    BY <1>3
  <2> DEFINE S == MinutesOf(h)
  <2>2. \A m \in S : f[m] \in Int /\ 0 <= f[m] /\ f[m] <= L
    BY <1>3
  <2>3. IsFiniteSet(S) /\ Cardinality(S) = HOUR
    BY <1>1
  <2> HIDE DEF S
  <2>4. /\ SumFunctionOnSet(f, S) \in Int
        /\ 0 * Cardinality(S) <= SumFunctionOnSet(f, S)
        /\ SumFunctionOnSet(f, S) <= L * Cardinality(S)
    BY <2>1, <2>2, <2>3, SumBounds
  <2>5. QED
    BY <2>3, <2>4 DEF S
<1>6. 0 * HOUR = 0 /\ L * HOUR \in Int
  BY <1>1, <1>3
<1>7. QED
  BY <1>4, <1>5, <1>6 DEF L

\* The rows of an hour.
LEMMA BucketIs ==
    ASSUME MIInv, NEW h \in Hours
    PROVE  /\ IsFiniteSet(Bucket(h)) /\ Cardinality(Bucket(h)) \in Nat
           /\ Bucket(h) # {} => Cardinality(Bucket(h)) # 0
           /\ \A i \in Bucket(h) : /\ samples[i].at \in MinutesOf(h)
                                   /\ samples[i].rpm \in Nat
                                   /\ samples[i].rpm = Planned(samples[i].at)
                                   /\ samples[i].at <= minute
           /\ \A i \in DOMAIN samples : samples[i].at \in MinutesOf(h) => i \in Bucket(h)
<1> DEFINE n == Len(samples)
<1>1. /\ n \in Nat /\ DOMAIN samples = 1..n
      /\ \A i \in 1..n : /\ samples[i].at \in 0..MINUTES - 1 /\ samples[i].rpm \in Nat
                         /\ samples[i].at <= minute /\ samples[i].rpm = Plan[samples[i].at]
  BY SamplesAre
<1>2. \A i \in 1..n : samples[i].rpm = Planned(samples[i].at)
  BY <1>1 DEF Plan
<1>3. Bucket(h) \in SUBSET (1..n) /\ IsFiniteSet(1..n)
  BY <1>1, FS_Interval DEF Bucket
<1>4. IsFiniteSet(Bucket(h)) /\ Cardinality(Bucket(h)) \in Nat
  BY <1>3, FS_Subset, FS_CardinalityType
<1>5. Bucket(h) # {} => Cardinality(Bucket(h)) # 0
  BY <1>4, FS_EmptySet
<1>6. \A i \in 1..n : i \in Bucket(h) <=> samples[i].at \in MinutesOf(h)
  BY <1>1 DEF Bucket, MinutesOf, Truncated
<1>7. QED
  BY <1>1, <1>2, <1>3, <1>4, <1>5, <1>6

\* The average of an hour that has rows has a bound, and is what it was all the time
\* if the speed never changed.
LEMMA AverageIs ==
    ASSUME MIInv, NEW of \in Measures, NEW h \in Hours, Bucket(h) # {}
    PROVE  /\ Average(of, h) \in 0..UNIT * Largest(of)
           /\ \A v \in Nat : (\A m \in MinutesOf(h) : Planned(m) = v)
                                => Average(of, h) = UNIT * Measure(of, v)
<1> DEFINE f == [i \in Bucket(h) |-> Measure(of, samples[i].rpm)]
           n == Cardinality(Bucket(h))
           L == Largest(of)
           s == SumFunctionOnSet(f, Bucket(h))
<1>1. /\ IsFiniteSet(Bucket(h)) /\ n \in Nat \ {0}
      /\ \A i \in Bucket(h) : /\ samples[i].at \in MinutesOf(h)
                              /\ samples[i].rpm \in Nat
                              /\ samples[i].rpm = Planned(samples[i].at)
  BY BucketIs
<1>2. L \in Nat /\ \A r \in Nat : Measure(of, r) \in 0..L
  <2>1. L \in Nat
    BY <1>1, MeasureIs
  <2>2. QED
    BY <2>1, MeasureIs
<1>3. UNIT \in Nat
  BY EnergyMeterAssumption
<1>4. Average(of, h) = (UNIT * s) \div n
  BY DEF Average, Measured, SumFunction
<1>5. \A i \in Bucket(h) : f[i] = Measure(of, samples[i].rpm) /\ f[i] \in 0..L
  BY <1>1, <1>2
<1> HIDE DEF f, L, s, n
<1>6. ASSUME NEW c \in Nat, NEW d \in Nat, \A i \in Bucket(h) : d <= f[i] /\ f[i] <= c
      PROVE  s \in Int /\ d * n <= s /\ s <= c * n
  <2>1. \A i \in Bucket(h) : f[i] \in Int /\ d <= f[i] /\ f[i] <= c
    BY <1>2, <1>5, <1>6
  <2>2. c \in Int /\ d \in Int
    OBVIOUS
  <2>3. QED
    BY <1>1, <2>1, <2>2, SumBounds DEF n, s
<1>7. \A x \in Nat, y \in Int : y <= x * n => UNIT * y <= n * (UNIT * x)
  <2>1. ASSUME NEW x \in Nat, NEW y \in Int, y <= x * n PROVE UNIT * y <= n * (UNIT * x)
    <3>1. x * n - y \in Nat
      BY <1>1, <2>1
    <3>2. UNIT * (x * n - y) \in Nat /\ UNIT * (x * n - y) = UNIT * (x * n) - UNIT * y
      BY <1>1, <1>3, <3>1
    <3>3. UNIT * (x * n) = n * (UNIT * x)
      BY <1>1, <1>3
    <3>4. UNIT * (x * n) \in Int /\ UNIT * y \in Int
      BY <1>1, <1>3
    <3>5. QED
      BY <3>2, <3>3, <3>4
  <2>2. QED
    BY <2>1
<1>8. \A x \in Nat, y \in Int : x * n <= y => n * (UNIT * x) <= UNIT * y
  <2>1. ASSUME NEW x \in Nat, NEW y \in Int, x * n <= y PROVE n * (UNIT * x) <= UNIT * y
    <3>1. y - x * n \in Nat
      BY <1>1, <2>1
    <3>2. UNIT * (y - x * n) \in Nat /\ UNIT * (y - x * n) = UNIT * y - UNIT * (x * n)
      BY <1>1, <1>3, <3>1
    <3>3. UNIT * (x * n) = n * (UNIT * x)
      BY <1>1, <1>3
    <3>4. UNIT * (x * n) \in Int /\ UNIT * y \in Int
      BY <1>1, <1>3
    <3>5. QED
      BY <3>2, <3>3, <3>4
  <2>2. QED
    BY <2>1
<1>9. ASSUME NEW c \in Nat, NEW d \in Nat, \A i \in Bucket(h) : d <= f[i] /\ f[i] <= c
      PROVE  Average(of, h) \in UNIT * d .. UNIT * c
  <2>1. s \in Int /\ d * n <= s /\ s <= c * n
    BY <1>6, <1>9
  <2>2. n * (UNIT * d) <= UNIT * s /\ UNIT * s <= n * (UNIT * c)
    BY <1>7, <1>8, <2>1
  <2>3. UNIT * s \in Int /\ UNIT * d \in Int /\ UNIT * c \in Int
    BY <1>3, <2>1
  <2>4. UNIT * d <= (UNIT * s) \div n /\ (UNIT * s) \div n <= UNIT * c
    BY <1>1, <2>2, <2>3, DivisionBetween
  <2>5. (UNIT * s) \div n \in Int
    BY <1>1, <2>3
  <2>6. QED
    BY <1>4, <2>3, <2>4, <2>5
<1>10. Average(of, h) \in 0..UNIT * L
  <2>1. \A i \in Bucket(h) : 0 <= f[i] /\ f[i] <= L
    BY <1>2, <1>5
  <2>2. UNIT * 0 = 0 /\ 0 \in Nat
    BY <1>3
  <2>3. QED
    BY <1>2, <1>9, <2>1, <2>2
<1>11. ASSUME NEW v \in Nat, \A m \in MinutesOf(h) : Planned(m) = v
       PROVE  Average(of, h) = UNIT * Measure(of, v)
  <2>1. \A i \in Bucket(h) : f[i] = Measure(of, v)
    BY <1>1, <1>5, <1>11
  <2>2. Measure(of, v) \in Nat
    BY <1>2
  <2>3. Average(of, h) \in UNIT * Measure(of, v) .. UNIT * Measure(of, v)
    <3> DEFINE w == Measure(of, v)
    <3>1. w \in Nat /\ \A i \in Bucket(h) : f[i] = w
      BY <2>1, <2>2
    <3> HIDE DEF w, f
    <3>2. \A i \in Bucket(h) : w <= f[i] /\ f[i] <= w
      BY <3>1
    <3>3. Average(of, h) \in UNIT * w .. UNIT * w
      BY <1>9, <3>1, <3>2
    <3>4. QED
      BY <3>3 DEF w
  <2>4. UNIT * Measure(of, v) \in Int
    BY <1>3, <2>2
  <2>5. QED
    BY <2>3, <2>4
<1>12. QED
  BY <1>10, <1>11 DEF L

\* Where the speed never changes the schedule makes of an hour what it makes of a
\* minute, as often as an hour has minutes.
LEMMA ExpectedOfSteady ==
    ASSUME MIInv, NEW of \in Measures, NEW h \in Hours, NEW v \in Nat,
           \A m \in MinutesOf(h) : Planned(m) = v
    PROVE  Expected(of, h) = Measure(of, v) * HOUR
<1> DEFINE f == [m \in MinutesOf(h) |-> Measure(of, Planned(m))]
           c == Measure(of, v)
<1>1. IsFiniteSet(MinutesOf(h)) /\ Cardinality(MinutesOf(h)) = HOUR /\ HOUR \in Nat
  BY MinutesOfAre, EnergyMeterAssumption
<1>2. c \in Int
  BY MeasureIs
<1>3. \A m \in MinutesOf(h) : f[m] = c
  OBVIOUS
<1>4. Expected(of, h) = SumFunctionOnSet(f, MinutesOf(h))
  BY DEF Expected, SumFunction
<1> HIDE DEF f, c
<1>5. \A m \in MinutesOf(h) : f[m] \in Int /\ c <= f[m] /\ f[m] <= c
  BY <1>2, <1>3
<1>6. /\ SumFunctionOnSet(f, MinutesOf(h)) \in Int
      /\ c * HOUR <= SumFunctionOnSet(f, MinutesOf(h))
      /\ SumFunctionOnSet(f, MinutesOf(h)) <= c * HOUR
  BY <1>1, <1>2, <1>5, SumBounds
<1>7. c * HOUR \in Int
  BY <1>1, <1>2
<1>8. QED
  BY <1>4, <1>6, <1>7 DEF c

\* The summary errs by no more than the uncertain hours.
LEMMA SummaryIsClose ==
    ASSUME MIInv, NEW of \in Measures
    PROVE  Distance(Summary(of),
                    (UNIT * SumFunction([h \in Begun |-> Expected(of, h)])) \div HOUR)
              <= UNIT * Largest(of) * Cardinality({h \in Begun : Uncertain(h)})
<1> DEFINE a == [h \in Begun |-> IF Bucket(h) # {} THEN Average(of, h) ELSE 0]
           b == [h \in Begun |-> Expected(of, h)]
           g == [h \in HourlyBuckets |-> Average(of, h)]
           T == {h \in Begun : Uncertain(h)}
           L == Largest(of)
           w == UNIT * L
           c == HOUR * w
           x == SumFunctionOnSet(a, Begun)
           y == SumFunctionOnSet(b, Begun)
<1>1. /\ UNIT \in Nat /\ HOUR \in Nat \ {0} /\ minute \in Nat
      /\ MINUTES \in Nat
  BY EnergyMeterAssumption, ScheduleClockAssumption DEF MIInv, ClockOK
<1>2. L \in Nat
  BY MeasureIs
<1>3. w \in Nat /\ c \in Nat
  BY <1>1, <1>2
<1>4. IsFiniteSet(Begun) /\ T \in SUBSET Begun /\ HourlyBuckets \in SUBSET Begun
  <2>1. IsFiniteSet(Hours)
    <3>1. (MINUTES \div HOUR) - 1 \in Int
      BY <1>1
    <3>2. QED
      BY <3>1, FS_Interval DEF Hours
  <2>2. IsFiniteSet(Begun)
    BY <2>1, FS_Subset DEF Begun
  <2>3. ASSUME NEW h \in HourlyBuckets PROVE h \in Begun
    <3>1. h \in Hours /\ Bucket(h) # {}
      BY DEF HourlyBuckets
    <3>2. PICK i \in Bucket(h) : TRUE
      BY <3>1
    <3>3. samples[i].at \in h * HOUR .. h * HOUR + HOUR - 1 /\ samples[i].at <= minute
      BY <3>1, <3>2, BucketIs, MinutesOfAre
    <3>4. h * HOUR \in Int
      BY <1>1, <3>1 DEF Hours
    <3>5. h * HOUR <= minute
      BY <1>1, <3>3, <3>4
    <3>6. QED
      BY <3>1, <3>5 DEF Begun
  <2>4. QED
    BY <2>2, <2>3
<1>5. \A h \in Begun : h \in Hours
  BY DEF Begun
<1>6. \A h \in Begun : a[h] \in 0..w /\ b[h] \in 0..L * HOUR
  <2>1. ASSUME NEW h \in Begun PROVE a[h] \in 0..w
    <3>1. CASE Bucket(h) # {}
      BY <1>5, <3>1, AverageIs
    <3>2. CASE Bucket(h) = {}
      BY <1>3, <3>2
    <3>3. QED
      BY <3>1, <3>2
  <2>2. ASSUME NEW h \in Begun PROVE b[h] \in 0..L * HOUR
    BY <1>5, ExpectedIs
  <2>3. QED
    BY <2>1, <2>2
<1>7. ASSUME NEW h \in Begun \ T PROVE HOUR * a[h] = UNIT * b[h]
  <2>1. h \in Hours /\ ~Uncertain(h)
    BY <1>5, <1>7
  <2>2. /\ \A m, n \in MinutesOf(h) : Planned(m) = Planned(n)
        /\ \E i \in DOMAIN samples : samples[i].at \in MinutesOf(h)
    BY <2>1 DEF Uncertain
  <2> DEFINE v == Planned(h * HOUR)
  <2>3. h * HOUR \in MinutesOf(h) /\ h * HOUR \in 0..MINUTES - 1
    BY <2>1, MinutesOfAre
  <2>4. v \in Nat /\ \A m \in MinutesOf(h) : Planned(m) = v
    <3>1. Plan[h * HOUR] \in Nat /\ Plan[h * HOUR] = v
      BY <2>3, PlanIs DEF MIInv, PlanOK, Plan
    <3>2. QED
      BY <2>2, <2>3, <3>1
  <2> HIDE DEF v
  <2>5. Bucket(h) # {}
    BY <2>1, <2>2, BucketIs
  <2>6. a[h] = UNIT * Measure(of, v)
    BY <2>1, <2>4, <2>5, AverageIs
  <2>7. b[h] = Measure(of, v) * HOUR
    BY <2>1, <2>4, ExpectedOfSteady
  <2>8. Measure(of, v) \in Int
    BY <2>4, MeasureIs
  <2>9. HOUR * (UNIT * Measure(of, v)) = UNIT * (Measure(of, v) * HOUR)
    BY <1>1, <2>8
  <2>10. QED
    BY <2>6, <2>7, <2>9
<1>8. ASSUME NEW h \in T PROVE HOUR * a[h] - UNIT * b[h] \in -c..c
  <2>1. a[h] \in 0..w /\ b[h] \in 0..L * HOUR
    BY <1>4, <1>6
  <2> DEFINE p == a[h]
             q == b[h]
  <2>2. p \in Nat /\ p <= w /\ q \in Nat /\ q <= L * HOUR
    BY <1>1, <1>2, <1>3, <2>1
  <2> HIDE DEF a, b, p, q, w, c, L
  <2>3. HOUR * p \in Nat /\ HOUR * p <= c
    <3>1. HOUR * (w - p) \in Nat /\ HOUR * (w - p) = HOUR * w - HOUR * p
      BY <1>1, <1>3, <2>2
    <3>2. HOUR * p \in Nat /\ HOUR * w \in Nat
      BY <1>1, <1>3, <2>2
    <3>3. QED
      BY <3>1, <3>2 DEF c
  <2>4. UNIT * q \in Nat /\ UNIT * q <= c
    <3>1. L * HOUR - q \in Nat /\ L * HOUR \in Nat
      BY <1>1, <1>2, <2>2
    <3>2. UNIT * (L * HOUR - q) \in Nat
          /\ UNIT * (L * HOUR - q) = UNIT * (L * HOUR) - UNIT * q
      BY <1>1, <2>2, <3>1
    <3>3. UNIT * (L * HOUR) = HOUR * (UNIT * L) /\ UNIT * (L * HOUR) \in Nat /\ UNIT * q \in Nat
      BY <1>1, <1>2, <2>2
    <3>4. QED
      BY <3>2, <3>3 DEF c, w
  <2>5. HOUR * p - UNIT * q \in -c..c
    BY <1>3, <2>3, <2>4
  <2>6. QED
    BY <2>5 DEF p, q
<1>9. Summary(of) = x
  <2>1. Summary(of) = SumFunctionOnSet(g, HourlyBuckets)
    BY DEF Summary, SumFunction
  <2>2. \A h \in HourlyBuckets : a[h] = g[h]
    BY <1>4 DEF HourlyBuckets
  <2>3. \A h \in Begun \ HourlyBuckets : a[h] = 0
    BY <1>5 DEF HourlyBuckets
  <2>4. \A h \in HourlyBuckets : a[h] \in Int
    BY <1>3, <1>4, <1>6
  <2> HIDE DEF a, g
  <2>5. x = SumFunctionOnSet(g, HourlyBuckets)
    BY <1>4, <2>2, <2>3, <2>4, SumSame
  <2>6. QED
    BY <2>1, <2>5
<1>10. SumFunction(b) = y
  BY DEF SumFunction
<1>11. \A h \in Begun : a[h] \in Int /\ b[h] \in Int
  BY <1>1, <1>2, <1>3, <1>6
<1> HIDE DEF a, b, T, w, c, L
<1>12. x \in Int /\ y \in Int
  BY <1>4, <1>11, SumInt
<1>13. HOUR * x - UNIT * y \in -(c * Cardinality(T))..c * Cardinality(T)
  <2>1. c \in Int /\ HOUR \in Int /\ UNIT \in Int
    BY <1>1, <1>3
  <2>2. QED
    BY <1>4, <1>7, <1>8, <1>11, <2>1, SumsAreClose
<1>14. Cardinality(T) \in Nat
  BY <1>4, FS_Subset, FS_CardinalityType
<1> DEFINE k == w * Cardinality(T)
<1>15. c * Cardinality(T) = HOUR * k /\ k \in Nat
  <2>1. w * Cardinality(T) \in Nat /\ (HOUR * w) * Cardinality(T) = HOUR * (w * Cardinality(T))
    BY <1>1, <1>3, <1>14
  <2>2. QED
    BY <2>1 DEF c
<1>16. UNIT * y \in Int
  BY <1>1, <1>12
<1>17. Distance(x, (UNIT * y) \div HOUR) <= k
  <2> HIDE DEF k, x, y
  <2>1. HOUR * x - UNIT * y \in -(HOUR * k)..HOUR * k
    BY <1>13, <1>15
  <2>2. QED
    BY <1>1, <1>12, <1>15, <1>16, <2>1, DivisionIsClose
<1>18. QED
  BY <1>9, <1>10, <1>17 DEF k, w, T, L, b

-----------------------------------------------------------------------------
(* The running hours of a day.                                              *)

\* The minutes in which the schedule runs the pump.
RunningMinutes == {m \in 0..MINUTES - 1 : Planned(m) > 0}

\* The blocks of the timeline tile the day, and each has the speed of its minutes.
LEMMA BlocksTile ==
    ASSUME NEW segs \in Seq(ScheduleSegments), segs # <<>>
    PROVE  LET blocks == TimelineBlocks(segs)
           IN  \E n \in Nat \ {0} :
                 /\ DOMAIN blocks = 1..n
                 /\ \A i \in 1..n : /\ blocks[i].from \in Nat /\ blocks[i].to \in Nat
                                    /\ blocks[i].from <= blocks[i].to
                                    /\ blocks[i].to <= MINUTES
                 /\ \A i, j \in 1..n : i < j => blocks[i].to <= blocks[j].from
                 /\ \A m \in 0..MINUTES - 1 : \E i \in 1..n :
                       blocks[i].from <= m /\ m < blocks[i].to
                 /\ \A i \in 1..n, m \in 0..MINUTES - 1 :
                       blocks[i].from <= m /\ m < blocks[i].to
                          => SegmentRpm(segs, m) = blocks[i].rpm
<1> DEFINE sorted == SortSegments(segs)
           k == Len(sorted)
           a == IF sorted[1].start > 0 THEN 1 ELSE 0
           blocks == TimelineBlocks(segs)
           n == a + k
<1>1. PICK p : SortedBy(segs, sorted, p)
  BY SortSegmentsIs
<1>2. /\ sorted \in Seq(ScheduleSegments) /\ Len(sorted) = Len(segs)
      /\ \A i, j \in 1..Len(segs) : i < j => sorted[i].start <= sorted[j].start
  BY <1>1, SortedIs
<1>3. k \in Nat \ {0} /\ sorted # <<>> /\ k = Len(segs)
  BY <1>2
<1>4. /\ DOMAIN blocks = 1..(a + k)
      /\ \A i \in 1..k : blocks[a + i] = BlockOf(sorted, i)
      /\ a = 1 => blocks[1] = [from |-> 0, to |-> sorted[1].start, rpm |-> sorted[k].rpm]
  BY <1>2, <1>3, BlocksAre
<1>5. MINUTES \in Nat \ {0}
  BY ScheduleClockAssumption
<1>6. \A i \in 1..k : sorted[i].start \in Nat /\ sorted[i].start < MINUTES
  <2> HIDE DEF sorted
  <2>1. \A i \in 1..k : sorted[i] \in ScheduleSegments
    BY <1>2
  <2>2. QED
    BY <1>5, <2>1 DEF ScheduleSegments
<1>7. a \in {0, 1} /\ (a = 0 => sorted[1].start = 0)
  BY <1>3, <1>6
<1>8. n \in Nat \ {0}
  BY <1>3, <1>7
<1> HIDE DEF sorted, a, blocks, k
<1>9. ASSUME NEW i \in 1..n
      PROVE  /\ blocks[i].from \in Nat /\ blocks[i].from < MINUTES
             /\ blocks[i].to = IF i < n THEN blocks[i + 1].from ELSE MINUTES
             /\ i < n => blocks[i].from <= blocks[i + 1].from
  <2>1. CASE a = 1 /\ i = 1
    <3>1. blocks[1] = [from |-> 0, to |-> sorted[1].start, rpm |-> sorted[k].rpm]
      BY <1>4, <2>1
    <3>2. 1 \in 1..k /\ 1 < n
      BY <1>3, <2>1
    <3>3. blocks[1 + 1] = BlockOf(sorted, 1) /\ sorted[1].start \in Nat
      BY <1>4, <1>6, <2>1, <3>2
    <3>4. blocks[1 + 1].from = sorted[1].start
      BY <3>3 DEF BlockOf
    <3>5. QED
      BY <1>5, <2>1, <3>1, <3>2, <3>3, <3>4
  <2>2. CASE ~(a = 1 /\ i = 1)
    <3> DEFINE j == i - a
    <3>1. j \in 1..k /\ i = a + j /\ (i < n <=> j < k) /\ i + 1 = a + (j + 1)
      BY <1>3, <1>7, <2>2
    <3> HIDE DEF j
    <3>2. blocks[i] = BlockOf(sorted, j)
      BY <1>4, <3>1
    <3>3. j < k => j + 1 \in 1..k /\ blocks[i + 1] = BlockOf(sorted, j + 1)
      BY <1>3, <1>4, <3>1
    <3>4. j < k => sorted[j].start <= sorted[j + 1].start
      <4>1. j < k => j \in 1..Len(segs) /\ j + 1 \in 1..Len(segs) /\ j < j + 1
        BY <1>3, <3>1
      <4>2. QED
        BY <1>2, <4>1
    <3>5. sorted[j].start \in Nat /\ sorted[j].start < MINUTES
      BY <1>6, <3>1
    <3>6. QED
      BY <3>1, <3>2, <3>3, <3>4, <3>5 DEF BlockOf, k
  <2>3. QED
    BY <2>1, <2>2
<1>10. blocks[1].from = 0
  <2>1. CASE a = 1
    BY <1>4, <2>1
  <2>2. CASE a = 0
    <3>1. 1 \in 1..k /\ a + 1 = 1
      BY <1>3, <2>2
    <3>2. blocks[1] = BlockOf(sorted, 1)
      BY <1>4, <3>1
    <3>3. QED
      BY <1>7, <2>2, <3>2 DEF BlockOf
  <2>3. QED
    BY <1>7, <2>1, <2>2
<1> HIDE DEF n
<1>11. \A i, j \in 1..n : i <= j => blocks[i].from <= blocks[j].from
  <2> DEFINE Bad == {j \in Nat : j \in 1..n /\ \E i \in 1..n :
                                   i <= j /\ ~(blocks[i].from <= blocks[j].from)}
  <2>1. SUFFICES ASSUME Bad # {} PROVE FALSE
    BY <1>8
  <2>2. PICK j \in Bad : \A l \in Bad : j <= l
    BY <2>1, Least
  <2>3. PICK i \in 1..n : i <= j /\ ~(blocks[i].from <= blocks[j].from)
    BY <2>2
  <2>4. i # j /\ j \in 1..n
    BY <1>9, <2>2, <2>3
  <2>5. j - 1 \in 1..n /\ i <= j - 1 /\ (j - 1) + 1 = j /\ j - 1 < n /\ j - 1 \in Nat /\ ~(j <= j - 1)
    BY <1>8, <2>3, <2>4
  <2>6. blocks[i].from <= blocks[j - 1].from
    BY <2>2, <2>5
  <2>7. blocks[j - 1].from <= blocks[j].from
    BY <1>9, <2>5
  <2>8. blocks[i].from \in Nat /\ blocks[j - 1].from \in Nat /\ blocks[j].from \in Nat
    BY <1>9, <2>4, <2>5
  <2>9. QED
    BY <2>3, <2>6, <2>7, <2>8
<1>12. \A i \in 1..n : /\ blocks[i].from \in Nat /\ blocks[i].to \in Nat
                       /\ blocks[i].from <= blocks[i].to
                       /\ blocks[i].to <= MINUTES
  <2>1. ASSUME NEW i \in 1..n
        PROVE  /\ blocks[i].from \in Nat /\ blocks[i].to \in Nat
               /\ blocks[i].from <= blocks[i].to
               /\ blocks[i].to <= MINUTES
    <3>1. CASE i < n
      <4>1. i + 1 \in 1..n
        BY <1>8, <3>1
      <4>2. /\ blocks[i].to = blocks[i + 1].from /\ blocks[i].from <= blocks[i + 1].from
            /\ blocks[i].from \in Nat
        BY <1>9, <3>1
      <4>3. blocks[i + 1].from \in Nat /\ blocks[i + 1].from < MINUTES
        BY <1>9, <4>1
      <4>4. QED
        BY <1>5, <4>2, <4>3
    <3>2. CASE ~(i < n)
      BY <1>5, <1>9, <3>2
    <3>3. QED
      BY <3>1, <3>2
  <2>2. QED
    BY <2>1
<1>13. \A i, j \in 1..n : i < j => blocks[i].to <= blocks[j].from
  <2>1. ASSUME NEW i \in 1..n, NEW j \in 1..n, i < j
        PROVE  blocks[i].to <= blocks[j].from
    <3>1. i + 1 \in 1..n /\ i + 1 <= j /\ i < n
      BY <1>8, <2>1
    <3>2. QED
      BY <1>9, <1>11, <3>1
  <2>2. QED
    BY <2>1
<1>14. ASSUME NEW m \in 0..MINUTES - 1
       PROVE  \E i \in 1..n : blocks[i].from <= m /\ m < blocks[i].to
  <2> DEFINE Begins == {i \in 1..n : blocks[i].from <= m}
  <2>1. Begins \in SUBSET (0..n) /\ 1 \in Begins
    BY <1>8, <1>10
  <2>2. PICK i \in Begins : \A j \in Begins : j <= i
    <3> HIDE DEF Begins
    <3>1. QED
      BY <1>8, <2>1, Greatest
  <2>3. m < blocks[i].to
    <3>1. CASE i < n
      <4>1. i + 1 \in 1..n /\ ~(i + 1 <= i)
        BY <1>8, <3>1
      <4>2. ~(blocks[i + 1].from <= m)
        BY <2>2, <4>1
      <4>3. blocks[i + 1].from \in Nat /\ blocks[i].to = blocks[i + 1].from
        BY <1>9, <3>1, <4>1
      <4>4. m \in Int
        OBVIOUS
      <4>5. QED
        BY <4>2, <4>3, <4>4
    <3>2. CASE ~(i < n)
      BY <1>5, <1>9, <3>2
    <3>3. QED
      BY <3>1, <3>2
  <2>4. QED
    BY <2>3
<1>15. ASSUME NEW i \in 1..n, NEW m \in 0..MINUTES - 1,
              blocks[i].from <= m, m < blocks[i].to
       PROVE  SegmentRpm(segs, m) = blocks[i].rpm
  <2> DEFINE here == {j \in DOMAIN blocks : m >= blocks[j].from /\ m < blocks[j].to}
  <2>1. here = {i}
    <3>1. ASSUME NEW j \in 1..n, blocks[j].from <= m, m < blocks[j].to PROVE j = i
      <4>1. ASSUME NEW s \in 1..n, NEW t \in 1..n, s < t, m < blocks[s].to, blocks[t].from <= m
            PROVE  FALSE
        <5>1. blocks[s].to <= blocks[t].from /\ blocks[s].to \in Nat /\ blocks[t].from \in Nat
          BY <1>12, <1>13, <4>1
        <5>2. m \in Int
          OBVIOUS
        <5>3. QED
          BY <4>1, <5>1, <5>2
      <4>2. ~(i < j) /\ ~(j < i)
        BY <1>15, <3>1, <4>1
      <4>3. i \in Int /\ j \in Int
        BY <1>8
      <4>4. QED
        BY <4>2, <4>3
    <3>2. m \in Int /\ \A j \in 1..n : blocks[j].from \in Nat
      BY <1>12
    <3>3. QED
      BY <1>4, <1>15, <3>1, <3>2 DEF n
  <2>2. Min(here) = i
    <3>1. here \in SUBSET Nat /\ here # {}
      BY <1>8, <2>1
    <3> HIDE DEF here
    <3>2. QED
      BY <2>1, <3>1, MinIs
  <2>3. RpmAt(segs, m) = IF here = {} THEN Head(blocks).rpm ELSE blocks[Min(here)].rpm
    BY DEF RpmAt, blocks
  <2> HIDE DEF here
  <2>4. RpmAt(segs, m) = blocks[i].rpm
    BY <2>1, <2>2, <2>3
  <2>5. QED
    BY <2>4, TimelineAgrees
<1>16. DOMAIN blocks = 1..n
  BY <1>4 DEF n
<1>17. QED
  BY <1>8, <1>12, <1>13, <1>14, <1>15, <1>16 DEF blocks

\* The running hours of the schedule page are the minutes in which it runs the pump,
LEMMA RuntimeIsRunningMinutes ==
    ASSUME ClockOK, Top # <<>>
    PROVE  RuntimeMinutes(Top) = Cardinality(RunningMinutes)
<1> DEFINE blocks == TimelineBlocks(Top)
           running == {i \in DOMAIN blocks : blocks[i].rpm > 0}
           f == [i \in running |-> blocks[i].to - blocks[i].from]
           own == [i \in running |-> blocks[i].from .. blocks[i].to - 1]
<1>1. Top \in Seq(ScheduleSegments)
  BY TopIs
<1>2. PICK n \in Nat \ {0} :
         /\ DOMAIN blocks = 1..n
         /\ \A i \in 1..n : /\ blocks[i].from \in Nat /\ blocks[i].to \in Nat
                            /\ blocks[i].from <= blocks[i].to
                            /\ blocks[i].to <= MINUTES
         /\ \A i, j \in 1..n : i < j => blocks[i].to <= blocks[j].from
         /\ \A m \in 0..MINUTES - 1 : \E i \in 1..n :
               blocks[i].from <= m /\ m < blocks[i].to
         /\ \A i \in 1..n, m \in 0..MINUTES - 1 :
               blocks[i].from <= m /\ m < blocks[i].to
                  => SegmentRpm(Top, m) = blocks[i].rpm
  BY <1>1, BlocksTile
<1>3. RuntimeMinutes(Top) = SumFunctionOnSet(f, running)
  BY DEF RuntimeMinutes, SumFunction
<1> HIDE DEF blocks
<1>4. running \in SUBSET (1..n) /\ IsFiniteSet(running)
  <2>1. running \in SUBSET (1..n)
    BY <1>2
  <2>2. IsFiniteSet(1..n)
    BY FS_Interval
  <2> HIDE DEF running
  <2>3. QED
    BY <2>1, <2>2, FS_Subset
<1>5. \A i \in running : IsFiniteSet(own[i]) /\ f[i] = Cardinality(own[i])
  <2>1. ASSUME NEW i \in running
        PROVE  IsFiniteSet(own[i]) /\ f[i] = Cardinality(own[i])
    <3>1. blocks[i].from \in Nat /\ blocks[i].to \in Nat /\ blocks[i].from <= blocks[i].to
      BY <1>2, <1>4
    <3>2. /\ blocks[i].to - 1 \in Int /\ blocks[i].from \in Int
          /\ blocks[i].to - blocks[i].from =
                IF blocks[i].from > blocks[i].to - 1 THEN 0
                ELSE (blocks[i].to - 1) - blocks[i].from + 1
      BY <3>1
    <3>3. /\ IsFiniteSet(blocks[i].from .. blocks[i].to - 1)
          /\ Cardinality(blocks[i].from .. blocks[i].to - 1) = blocks[i].to - blocks[i].from
      BY <3>2, FS_Interval
    <3>4. QED
      BY <3>3
  <2>2. QED
    BY <2>1
<1>6. ASSUME NEW i \in running, NEW j \in running, i # j PROVE own[i] \cap own[j] = {}
  <2>1. ASSUME NEW s \in running, NEW t \in running, s < t PROVE own[s] \cap own[t] = {}
    <3>1. /\ blocks[s].to <= blocks[t].from /\ blocks[s].to \in Nat /\ blocks[t].from \in Nat
          /\ blocks[s].from \in Nat /\ blocks[t].to \in Nat
      BY <1>2, <1>4, <2>1
    <3>2. QED
      BY <3>1
  <2>2. i < j \/ j < i
    BY <1>4, <1>6
  <2>3. QED
    BY <2>1, <2>2
<1>7. \A m : m \in RunningMinutes <=> \E i \in running : m \in own[i]
  <2>1. ASSUME NEW i \in running, NEW m \in own[i] PROVE m \in RunningMinutes
    <3>1. /\ i \in 1..n /\ blocks[i].from \in Nat /\ blocks[i].to \in Nat
          /\ blocks[i].to <= MINUTES /\ blocks[i].rpm > 0
      BY <1>2, <1>4
    <3>2. m \in 0..MINUTES - 1 /\ blocks[i].from <= m /\ m < blocks[i].to
      <4>1. MINUTES \in Nat
        BY ScheduleClockAssumption
      <4>2. m \in blocks[i].from .. blocks[i].to - 1
        OBVIOUS
      <4>3. QED
        BY <3>1, <4>1, <4>2
    <3>3. SegmentRpm(Top, m) = blocks[i].rpm
      BY <1>2, <3>1, <3>2
    <3>4. QED
      BY <3>1, <3>2, <3>3 DEF RunningMinutes, Planned, ActiveAt, Top
  <2>2. ASSUME NEW m \in RunningMinutes PROVE \E i \in running : m \in own[i]
    <3>1. m \in 0..MINUTES - 1 /\ SegmentRpm(Top, m) > 0
      BY DEF RunningMinutes, Planned, ActiveAt, Top
    <3>2. PICK i \in 1..n : blocks[i].from <= m /\ m < blocks[i].to
      BY <1>2, <3>1
    <3>3. blocks[i].rpm > 0
      BY <1>2, <3>1, <3>2
    <3>4. i \in running
      BY <1>2, <3>3
    <3>5. blocks[i].from \in Nat /\ blocks[i].to \in Nat /\ m \in Int
      BY <1>2, <3>1
    <3>6. m \in blocks[i].from .. blocks[i].to - 1
      BY <3>2, <3>5
    <3>7. QED
      BY <3>4, <3>6
  <2> HIDE DEF own, running
  <2>3. QED
    BY <2>1, <2>2
<1>8. SumFunctionOnSet(f, running) = Cardinality(RunningMinutes)
  <2> HIDE DEF f, own, running
  <2>1. \A i, j \in running : i # j => own[i] \cap own[j] = {}
    BY <1>6
  <2>2. Splits(RunningMinutes, running, own, f)
    BY <1>5, <1>7, <2>1 DEF Splits
  <2>3. QED
    BY <1>4, <2>2, SumOfSizes
<1>9. QED
  BY <1>3, <1>8

\* and at the end of the day so are those of the summary's schedule.
LEMMA RealIsRunningMinutes ==
    ASSUME ClockOK, minute = MINUTES - 1
    PROVE  SumFunction([h \in Begun |-> Expected("running", h)]) = Cardinality(RunningMinutes)
<1> DEFINE b == [h \in Begun |-> Expected("running", h)]
           own == [h \in Begun |-> MinutesOf(h) \cap RunningMinutes]
<1>1. HOUR \in Nat \ {0} /\ MINUTES \in Nat \ {0} /\ MINUTES % HOUR = 0
  BY EnergyMeterAssumption, ScheduleClockAssumption
<1>2. Begun = Hours
  <2>1. ASSUME NEW h \in Hours PROVE h * HOUR <= minute
    <3>1. h * HOUR \in 0..MINUTES - 1
      BY MinutesOfAre
    <3>2. QED
      BY <1>1, <3>1
  <2>2. QED
    BY <2>1 DEF Begun
<1>3. IsFiniteSet(Begun)
  <2>1. (MINUTES \div HOUR) - 1 \in Int
    BY <1>1
  <2>2. QED
    BY <1>2, <2>1, FS_Interval DEF Hours
<1>4. ASSUME NEW h \in Begun PROVE IsFiniteSet(own[h]) /\ b[h] = Cardinality(own[h])
  <2> DEFINE M == MinutesOf(h)
             f == [m \in M |-> Measure("running", Planned(m))]
             one == [m \in M |-> IF Planned(m) > 0 THEN {m} ELSE {}]
  <2>1. IsFiniteSet(M) /\ M \subseteq 0..MINUTES - 1
    BY <1>2, MinutesOfAre
  <2>2. b[h] = SumFunctionOnSet(f, M)
    BY DEF Expected, SumFunction
  <2>3. \A m \in M : IsFiniteSet(one[m]) /\ f[m] = Cardinality(one[m])
    <3>1. IsFiniteSet({}) /\ Cardinality({}) = 0
      BY FS_EmptySet
    <3>2. \A m \in M : IsFiniteSet({m}) /\ Cardinality({m}) = 1
      BY FS_Singleton
    <3>3. \A m \in M : f[m] = IF Planned(m) > 0 THEN 1 ELSE 0
      BY DEF Measure
    <3>4. QED
      BY <3>1, <3>2, <3>3
  <2>4. \A m, l \in M : m # l => one[m] \cap one[l] = {}
    OBVIOUS
  <2>5. \A x : x \in own[h] <=> \E m \in M : x \in one[m]
    BY <2>1 DEF RunningMinutes
  <2>6. IsFiniteSet(own[h]) /\ SumFunctionOnSet(f, M) = Cardinality(own[h])
    <3> HIDE DEF f, one, M, own
    <3>1. Splits(own[h], M, one, f)
      BY <2>3, <2>4, <2>5 DEF Splits
    <3>2. QED
      BY <2>1, <3>1, SumOfSizes
  <2>7. QED
    BY <2>2, <2>6
<1>5. \A h, l \in Begun : h # l => own[h] \cap own[l] = {}
  BY DEF MinutesOf
<1>6. \A m : m \in RunningMinutes <=> \E h \in Begun : m \in own[h]
  <2>1. ASSUME NEW m \in RunningMinutes PROVE \E h \in Begun : m \in own[h]
    <3> DEFINE h == m \div HOUR
    <3>1. m \in 0..MINUTES - 1
      BY DEF RunningMinutes
    <3>2. h \in Hours
      <4>1. m \in Nat /\ m < MINUTES /\ HOUR * 0 <= m /\ MINUTES = HOUR * (MINUTES \div HOUR)
            /\ (MINUTES \div HOUR) - 1 \in Int
        BY <1>1, <3>1
      <4>2. m < HOUR * ((MINUTES \div HOUR) - 1) + HOUR
        BY <1>1, <4>1
      <4>3. 0 <= h /\ h <= (MINUTES \div HOUR) - 1
        BY <1>1, <4>1, <4>2, DivisionBetween
      <4>4. h \in Int
        BY <1>1, <4>1
      <4>5. QED
        BY <4>1, <4>3, <4>4 DEF Hours
    <3>3. m \in MinutesOf(h)
      BY <3>1 DEF MinutesOf
    <3>4. QED
      BY <1>2, <3>2, <3>3
  <2>2. QED
    BY <2>1
<1>7. SumFunctionOnSet(b, Begun) = Cardinality(RunningMinutes)
  <2> HIDE DEF b, own
  <2>1. \A h \in Begun : IsFiniteSet(own[h]) /\ b[h] = Cardinality(own[h])
    BY <1>4
  <2>2. Splits(RunningMinutes, Begun, own, b)
    BY <1>5, <1>6, <2>1 DEF Splits
  <2>3. QED
    BY <1>3, <2>2, SumOfSizes
<1>8. QED
  BY <1>7 DEF SumFunction

\* The summary is what the schedule asked for.
LEMMA SummaryFollowsSchedule ==
    ASSUME MIInv
    PROVE  SummaryIsReal
<1>1. ASSUME NEW of \in Measures
      PROVE  Distance(Summary(of),
                      (UNIT * SumFunction([h \in Begun |-> Expected(of, h)])) \div HOUR)
                <= UNIT * Largest(of) * Cardinality({h \in Begun : Uncertain(h)})
  BY SummaryIsClose
<1>2. ASSUME minute = MINUTES - 1, Top # <<>>
      PROVE  SumFunction([h \in Begun |-> Expected("running", h)]) = RuntimeMinutes(Top)
  <2>1. ClockOK
    BY DEF MIInv
  <2>2. QED
    BY <1>2, <2>1, RuntimeIsRunningMinutes, RealIsRunningMinutes
<1>3. QED
  BY <1>1, <1>2 DEF SummaryIsReal

-----------------------------------------------------------------------------
(* The meter.                                                               *)

\* Every recorded row has the speed of the schedule of today, in the order of time.
LEMMA RowsFollowPlan == MSpec => []MIInv
<1>1. MInit => MIInv
  BY RowsBegin
<1>2. MIInv /\ [MMinute]_mvars => MIInv'
  <2>1. MIInv /\ UNCHANGED mvars => MIInv'
    BY DEF MIInv, ClockOK, SamplesOK, Plan, Planned, ActiveAt, TopOn, Matches, mvars, vars
  <2>2. QED
    BY <2>1, RowsGo
<1>3. QED
  BY <1>1, <1>2, PTL DEF MSpec

\* The speed bands of the energy page are real minutes of the day, whatever rows were
\* dropped or repeated (db/repos/telemetry.ts:208-239).
THEOREM BandsAreRealMinutes == MSpec => []BandsAreMinutes
<1>1. MIInv => BandsAreMinutes
  BY BandsCountMinutes
<1>2. QED
  BY <1>1, RowsFollowPlan, PTL

\* The running hours, gallons and kWh of the summary are those the schedule asked for,
\* up to the hours in which the speed changes or nothing was recorded; and its running
\* hours are those of the schedule page (db/repos/telemetry.ts:92-130).
THEOREM SummaryFollowsSchedules == MSpec => []SummaryIsReal
<1>1. MIInv => SummaryIsReal
  BY SummaryFollowsSchedule
<1>2. QED
  BY <1>1, RowsFollowPlan, PTL
=============================================================================
