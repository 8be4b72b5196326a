------------------------- MODULE ScheduleClockProofs -------------------------
(***************************************************************************)
(* Proof that the engine runs the schedule and the segment in force at     *)
(* every minute, and that the web app agrees, for days and weeks of any    *)
(* length and lists of any schedules with any number of segments.          *)
(*                                                                         *)
(* Induction is by the least counterexample (Least): a set of numbers that *)
(* has a member has a least one.                                           *)
(***************************************************************************)
EXTENDS EnergyMeter, TLAPS, SequenceTheorems, WellFoundedInduction

\* A set of numbers that has a member has a least one,
LEMMA Least ==
    ASSUME NEW S \in SUBSET Nat, S # {}
    PROVE  \E k \in S : \A j \in S : k <= j
<1>1. IsWellFoundedOn(OpToRel(<, Nat), Nat)
  BY NatLessThanWellFounded
<1>2. PICK k \in S : \A j \in S : ~ (<<j, k>> \in OpToRel(<, Nat))
  BY <1>1, WFMin
<1>3. \A j \in S : ~ (j < k)
  BY <1>2 DEF OpToRel
<1>4. QED
  BY <1>3

\* which is what Min chooses.
LEMMA MinIs ==
    ASSUME NEW S \in SUBSET Nat, S # {}
    PROVE  Min(S) \in S /\ \A j \in S : Min(S) <= j
<1>1. QED
  BY Least DEF Min

\* A set of numbers that has a member and a bound has a greatest.
LEMMA Greatest ==
    ASSUME NEW n \in Nat, NEW S \in SUBSET (0..n), S # {}
    PROVE  \E k \in S : \A j \in S : j <= k
<1> DEFINE T == {n - k : k \in S}
<1>1. T \in SUBSET Nat /\ T # {}
  <2>1. \A k \in S : n - k \in Nat
    OBVIOUS
  <2>2. QED
    BY <2>1
<1>2. PICK t \in T : \A u \in T : t <= u
  BY <1>1, Least
<1>3. PICK k \in S : t = n - k
  BY <1>2
<1>4. ASSUME NEW j \in S PROVE j <= k
  <2>1. n - j \in T /\ j \in 0..n /\ k \in 0..n
    BY <1>4
  <2>2. n - k <= n - j
    BY <1>2, <1>3, <2>1
  <2>3. QED
    BY <2>1, <2>2
<1>5. QED
  BY <1>4

-----------------------------------------------------------------------------
(* The sort.                                                                *)

\* Position i of a list of starts comes before position j.
Precedes(starts, i, j) ==
    \/ starts[i] < starts[j]
    \/ starts[i] = starts[j] /\ i < j

InOrder(starts, n, p) ==
    \A i, j \in 1..n : i < j => Precedes(starts, p[i], p[j])

Sortable(n) ==
    \A starts \in [1..n -> Int] : \E p \in Bijection(1..n, 1..n) : InOrder(starts, n, p)

\* Positions in order are all different.
LEMMA InOrderInjective ==
    ASSUME NEW n \in Nat, NEW starts \in [1..n -> Int], NEW p \in [1..n -> 1..n],
           InOrder(starts, n, p), \A x \in 1..n : \E i \in 1..n : p[i] = x
    PROVE  p \in Bijection(1..n, 1..n)
<1>1. ASSUME NEW i \in 1..n, NEW j \in 1..n, p[i] = p[j] PROVE i = j
  <2>1. p[i] \in 1..n
    OBVIOUS
  <2>2. \A x \in 1..n : ~Precedes(starts, x, x)
    BY DEF Precedes
  <2>3. ~(i < j) /\ ~(j < i)
    BY <1>1, <2>1, <2>2 DEF InOrder
  <2>4. QED
    BY <2>3
<1>2. QED
  BY <1>1 DEF Bijection, Injection, Surjection, IsInjective

\* One start more is put in its place.
LEMMA SortOneMore ==
    ASSUME NEW n \in Nat \ {0}, Sortable(n - 1)
    PROVE  Sortable(n)
<1> SUFFICES ASSUME NEW starts \in [1..n -> Int]
             PROVE  \E q \in Bijection(1..n, 1..n) : InOrder(starts, n, q)
  BY DEF Sortable
<1> DEFINE N == n - 1
           before == [i \in 1..N |-> starts[i]]
<1>1. N \in Nat /\ 1..n = 1..N \cup {n} /\ n \notin 1..N
  OBVIOUS
<1>2. before \in [1..N -> Int]
  BY <1>1
<1>3. PICK p \in Bijection(1..N, 1..N) : InOrder(before, N, p)
  BY <1>2 DEF Sortable
<1>4. /\ p \in [1..N -> 1..N]
      /\ \A x \in 1..N : \E i \in 1..N : p[i] = x
  BY <1>3 DEF Bijection, Injection, Surjection
<1>5. \A i, j \in 1..N : i < j => Precedes(starts, p[i], p[j])
  BY <1>3, <1>4 DEF InOrder, Precedes
<1> DEFINE Later == {i \in 1..n : i = n \/ starts[p[i]] > starts[n]}
<1>6. PICK k \in Later : \A j \in Later : k <= j
  <2>1. n \in Later /\ Later \in SUBSET Nat
    OBVIOUS
  <2> HIDE DEF Later
  <2>2. QED
    BY <2>1, Least
<1>7. /\ k \in 1..n /\ (k # n => starts[p[k]] > starts[n])
      /\ \A i \in 1..n : i < k => i \in 1..N /\ starts[p[i]] <= starts[n]
  <2>1. ASSUME NEW i \in 1..n, i < k PROVE i \in 1..N /\ starts[p[i]] <= starts[n]
    <3>1. i \notin Later
      BY <1>6, <2>1
    <3>2. i # n /\ ~(starts[p[i]] > starts[n])
      BY <3>1
    <3>3. i \in 1..N /\ p[i] \in 1..n
      BY <1>1, <1>4, <3>2
    <3>4. QED
      BY <3>2, <3>3
  <2>2. QED
    BY <1>6, <2>1
<1> HIDE DEF Later, before, N
<1> DEFINE q == [i \in 1..n |-> IF i < k THEN p[i] ELSE IF i = k THEN n ELSE p[i - 1]]
<1>8. \A i \in 1..n : i > k => i - 1 \in 1..N /\ i - 1 >= k
  BY <1>7 DEF N
<1>9. q \in [1..n -> 1..n]
  <2>1. ASSUME NEW i \in 1..n PROVE q[i] \in 1..n
    <3>1. CASE i < k
      BY <1>1, <1>4, <1>7, <3>1
    <3>2. CASE i = k
      BY <3>2
    <3>3. CASE i > k
      <4>1. i - 1 \in 1..N
        BY <1>8, <3>3
      <4>2. p[i - 1] \in 1..n
        BY <1>1, <1>4, <4>1
      <4>3. QED
        BY <1>7, <3>3, <4>2
    <3>4. QED
      BY <1>7, <3>1, <3>2, <3>3
  <2>2. QED
    BY <2>1
<1>10. ASSUME NEW x \in 1..n PROVE \E i \in 1..n : q[i] = x
  <2>1. CASE x = n
    BY <1>7, <2>1
  <2>2. CASE x # n
    <3>1. PICK i \in 1..N : p[i] = x
      BY <1>1, <1>4, <2>2
    <3>2. CASE i < k
      BY <1>1, <3>1, <3>2
    <3>3. CASE i >= k
      <4>1. i + 1 \in 1..n /\ i + 1 > k /\ (i + 1) - 1 = i
        BY <1>7, <3>1, <3>3 DEF N
      <4>2. q[i + 1] = p[i]
        BY <1>7, <4>1
      <4>3. QED
        BY <3>1, <4>1, <4>2
    <3>4. QED
      BY <1>7, <3>1, <3>2, <3>3 DEF N
  <2>3. QED
    BY <2>1, <2>2
<1>11. ASSUME NEW i \in 1..n, NEW j \in 1..n, i < j PROVE Precedes(starts, q[i], q[j])
  <2>1. CASE j < k
    <3>1. q[i] = p[i] /\ q[j] = p[j] /\ i \in 1..N /\ j \in 1..N
      BY <1>7, <1>11, <2>1
    <3>2. QED
      BY <1>5, <1>11, <3>1
  <2>2. CASE j = k
    <3>1. q[i] = p[i] /\ q[j] = n /\ i \in 1..N /\ starts[p[i]] <= starts[n]
      BY <1>7, <1>11, <2>2
    <3>2. p[i] \in 1..N /\ p[i] \in 1..n /\ p[i] < n
      BY <1>1, <1>4, <3>1
    <3>3. starts[p[i]] \in Int /\ starts[n] \in Int
      BY <1>1, <3>2
    <3>4. starts[p[i]] < starts[n] \/ starts[p[i]] = starts[n]
      BY <3>1, <3>3
    <3>5. Precedes(starts, p[i], n)
      BY <3>2, <3>4 DEF Precedes
    <3>6. QED
      BY <3>1, <3>5
  <2>3. CASE i < k /\ j > k
    <3>1. q[i] = p[i] /\ q[j] = p[j - 1] /\ i \in 1..N /\ j - 1 \in 1..N /\ i < j - 1
      BY <1>7, <1>8, <2>3
    <3>2. QED
      BY <1>5, <3>1
  <2>4. CASE i = k
    <3>1. q[i] = n /\ q[j] = p[j - 1] /\ j - 1 \in 1..N /\ k <= j - 1 /\ k # n
      BY <1>7, <1>8, <1>11, <2>4
    <3>2. k \in 1..N /\ starts[p[k]] > starts[n]
      BY <1>1, <1>7, <3>1
    <3>3. p[k] \in 1..n /\ p[j - 1] \in 1..n
      BY <1>1, <1>4, <3>1, <3>2
    <3>4. starts[p[k]] \in Int /\ starts[n] \in Int /\ starts[p[j - 1]] \in Int
      BY <3>3
    <3>5. starts[p[j - 1]] >= starts[p[k]]
      <4>1. CASE k = j - 1
        BY <3>4, <4>1
      <4>2. CASE k < j - 1
        <5>1. Precedes(starts, p[k], p[j - 1])
          BY <1>5, <3>1, <3>2, <4>2
        <5>2. QED
          BY <3>4, <5>1 DEF Precedes
      <4>3. QED
        BY <1>7, <3>1, <4>1, <4>2
    <3>6. starts[n] < starts[p[j - 1]]
      BY <3>2, <3>4, <3>5
    <3>7. QED
      BY <3>1, <3>6 DEF Precedes
  <2>5. CASE i > k
    <3>1. /\ q[i] = p[i - 1] /\ q[j] = p[j - 1] /\ i - 1 \in 1..N /\ j - 1 \in 1..N
          /\ i - 1 < j - 1
      BY <1>7, <1>8, <1>11, <2>5
    <3>2. QED
      BY <1>5, <3>1
  <2>6. QED
    BY <1>7, <1>11, <2>1, <2>2, <2>3, <2>4, <2>5
<1> HIDE DEF q
<1>12. InOrder(starts, n, q)
  BY <1>11 DEF InOrder
<1>13. QED
  BY <1>9, <1>10, <1>12, InOrderInjective

\* Starts of any number can be put in order.
LEMMA EverySortable ==
    ASSUME NEW n \in Nat
    PROVE  Sortable(n)
<1> DEFINE Bad == {k \in Nat : ~Sortable(k)}
<1>1. SUFFICES ASSUME Bad # {} PROVE FALSE
  OBVIOUS
<1>2. PICK k \in Bad : \A j \in Bad : k <= j
  <2>1. Bad \in SUBSET Nat
    OBVIOUS
  <2> HIDE DEF Bad
  <2>2. QED
    BY <1>1, <2>1, Least
<1>3. CASE k = 0
  <2>1. ASSUME NEW starts \in [1..0 -> Int]
        PROVE  \E p \in Bijection(1..0, 1..0) : InOrder(starts, 0, p)
    <3>1. 1..0 = {} /\ starts \in [1..0 -> 1..0]
      OBVIOUS
    <3>2. starts \in Bijection(1..0, 1..0)
      BY <3>1 DEF Bijection, Injection, Surjection, IsInjective
    <3>3. QED
      BY <3>1, <3>2 DEF InOrder
  <2>2. QED
    BY <1>2, <1>3, <2>1 DEF Sortable
<1>4. CASE k # 0
  <2>1. k - 1 \in Nat /\ k - 1 \notin Bad
    BY <1>2, <1>4
  <2>2. QED
    BY <1>2, <1>4, <2>1, SortOneMore
<1>5. QED
  BY <1>3, <1>4

\* What the sort returns: the segments by a permutation, in order of start and,
\* where starts are equal, of position.
SortedBy(segs, sorted, p) ==
    /\ p \in Bijection(DOMAIN segs, DOMAIN segs)
    /\ sorted = [k \in DOMAIN segs |-> segs[p[k]]]
    /\ \A i, j \in DOMAIN segs : i < j =>
          \/ segs[p[i]].start < segs[p[j]].start
          \/ segs[p[i]].start = segs[p[j]].start /\ p[i] < p[j]

\* The sort returns the segments in order.
LEMMA SortSegmentsIs ==
    ASSUME NEW segs \in Seq(ScheduleSegments)
    PROVE  \E p : SortedBy(segs, SortSegments(segs), p)
<1> DEFINE n == Len(segs)
           starts == [i \in 1..n |-> segs[i].start]
<1>1. n \in Nat /\ DOMAIN segs = 1..n /\ \A i \in 1..n : segs[i] \in ScheduleSegments
  OBVIOUS
<1>2. starts \in [1..n -> Int]
  BY <1>1 DEF ScheduleSegments
<1>3. PICK q \in Bijection(1..n, 1..n) : InOrder(starts, n, q)
  BY <1>1, <1>2, EverySortable DEF Sortable
<1> DEFINE Fits(p) ==
             \A i, j \in DOMAIN segs : i < j =>
               \/ segs[p[i]].start < segs[p[j]].start
               \/ segs[p[i]].start = segs[p[j]].start /\ p[i] < p[j]
           order == CHOOSE p \in Bijection(DOMAIN segs, DOMAIN segs) : Fits(p)
<1>4. Fits(q)
  <2>1. q \in [1..n -> 1..n]
    BY <1>3 DEF Bijection, Injection
  <2>2. QED
    BY <1>1, <1>3, <2>1 DEF InOrder, Precedes
<1>5. order \in Bijection(DOMAIN segs, DOMAIN segs) /\ Fits(order)
  BY <1>1, <1>3, <1>4
<1>6. SortSegments(segs) = [k \in DOMAIN segs |-> segs[order[k]]]
  BY DEF SortSegments
<1> HIDE DEF order
<1>7. SortedBy(segs, SortSegments(segs), order)
  BY <1>5, <1>6 DEF SortedBy
<1>8. QED
  BY <1>7

\* So it is a list of the same segments, with the starts ascending.
LEMMA SortedIs ==
    ASSUME NEW segs \in Seq(ScheduleSegments), NEW sorted, NEW p,
           SortedBy(segs, sorted, p)
    PROVE  /\ sorted \in Seq(ScheduleSegments) /\ Len(sorted) = Len(segs)
           /\ \A k \in 1..Len(segs) : p[k] \in 1..Len(segs) /\ sorted[k] = segs[p[k]]
           /\ \A x \in 1..Len(segs) : \E k \in 1..Len(segs) : p[k] = x
           /\ \A i, j \in 1..Len(segs) : i < j => sorted[i].start <= sorted[j].start
<1> DEFINE n == Len(segs)
<1>1. n \in Nat /\ DOMAIN segs = 1..n /\ \A i \in 1..n : segs[i] \in ScheduleSegments
  OBVIOUS
<1>2. p \in [1..n -> 1..n] /\ \A x \in 1..n : \E k \in 1..n : p[k] = x
  BY <1>1 DEF SortedBy, Bijection, Injection, Surjection
<1>3. \A k \in 1..n : p[k] \in 1..n /\ sorted[k] = segs[p[k]]
  BY <1>1, <1>2 DEF SortedBy
<1>4. sorted \in [1..n -> ScheduleSegments]
  <2>1. sorted = [k \in 1..n |-> segs[p[k]]]
    BY <1>1 DEF SortedBy
  <2>2. QED
    BY <1>1, <1>3, <2>1
<1>5. sorted \in Seq(ScheduleSegments) /\ Len(sorted) = n
  BY <1>1, <1>4
<1>6. \A i, j \in 1..n : i < j => sorted[i].start <= sorted[j].start
  <2>1. \A i \in 1..n : segs[i].start \in Int
    BY <1>1 DEF ScheduleSegments
  <2>2. ASSUME NEW i \in 1..n, NEW j \in 1..n, i < j
        PROVE  sorted[i].start <= sorted[j].start
    <3>1. \/ segs[p[i]].start < segs[p[j]].start
          \/ segs[p[i]].start = segs[p[j]].start /\ p[i] < p[j]
      BY <1>1, <2>2 DEF SortedBy
    <3>2. p[i] \in 1..n /\ p[j] \in 1..n
      BY <1>3
    <3>3. segs[p[i]].start \in Int /\ segs[p[j]].start \in Int
      BY <2>1, <3>2
    <3>4. segs[p[i]].start <= segs[p[j]].start
      BY <3>1, <3>3
    <3>5. sorted[i] = segs[p[i]] /\ sorted[j] = segs[p[j]]
      BY <1>3
    <3>6. QED
      BY <3>4, <3>5
  <2>3. QED
    BY <2>2
<1>7. QED
  BY <1>2, <1>3, <1>5, <1>6

-----------------------------------------------------------------------------
(* The loop over the segments.                                              *)

\* Position k is the last that is due, or the last of all if none is.
LastDue(sorted, m, k) ==
    \/ /\ Due(sorted[k], m)
       /\ \A j \in 1..Len(sorted) : j > k => ~Due(sorted[j], m)
    \/ /\ k = Len(sorted)
       /\ \A j \in 1..Len(sorted) : ~Due(sorted[j], m)

\* Among segments there is always a last that is due, or a last of all.
LEMMA LastDueExists ==
    ASSUME NEW sorted \in Seq(ScheduleSegments), sorted # <<>>, NEW m
    PROVE  \E k \in 1..Len(sorted) : LastDue(sorted, m, k)
<1> DEFINE n == Len(sorted)
           D == {j \in 1..n : Due(sorted[j], m)}
<1>1. n \in Nat \ {0} /\ D \in SUBSET (0..n)
  OBVIOUS
<1>2. CASE D = {}
  BY <1>1, <1>2 DEF LastDue
<1>3. CASE D # {}
  <2>1. PICK k \in D : \A j \in D : j <= k
    <3> HIDE DEF D
    <3>1. QED
      BY <1>1, <1>3, Greatest
  <2>2. \A j \in 1..n : j > k => j \notin D
    BY <1>1, <2>1
  <2>3. QED
    BY <2>1, <2>2 DEF LastDue
<1>4. QED
  BY <1>2, <1>3

\* What the loop has after i segments.
LEMMA ActiveAfterIs ==
    ASSUME NEW sorted \in Seq(ScheduleSegments), NEW m
    PROVE  LET active == ActiveAfter(sorted, m)
           IN  active = [i \in 0..Len(sorted) |->
                           IF i = 0 THEN Last(sorted)
                           ELSE IF Due(sorted[i], m) THEN sorted[i] ELSE active[i - 1]]
<1> DEFINE n == Len(sorted)
           Body(f) == [i \in 0..n |-> IF i = 0 THEN Last(sorted)
                                      ELSE IF Due(sorted[i], m) THEN sorted[i]
                                      ELSE f[i - 1]]
           Latest(i, k) == /\ k \in 1..i /\ Due(sorted[k], m)
                           /\ \A j \in 1..i : j > k => ~Due(sorted[j], m)
           g == [i \in 0..n |-> IF \E k \in 1..i : Latest(i, k)
                                THEN sorted[CHOOSE k \in 1..i : Latest(i, k)]
                                ELSE Last(sorted)]
<1>1. n \in Nat
  OBVIOUS
<1>2. ASSUME NEW i \in 0..n
      PROVE  g[i] = IF i = 0 THEN Last(sorted)
                    ELSE IF Due(sorted[i], m) THEN sorted[i] ELSE g[i - 1]
  <2>1. CASE i = 0
    BY <1>1, <2>1
  <2>2. CASE i # 0 /\ Due(sorted[i], m)
    <3>1. Latest(i, i) /\ i \in 1..i /\ \A k \in 1..i : Latest(i, k) => k = i
      BY <1>1, <2>2
    <3>2. (CHOOSE k \in 1..i : Latest(i, k)) = i
      BY <3>1
    <3>3. QED
      BY <2>2, <3>1, <3>2
  <2>3. CASE i # 0 /\ ~Due(sorted[i], m)
    <3>1. i - 1 \in 0..n /\ 1..i = 1..(i - 1) \cup {i} /\ i \notin 1..(i - 1)
      BY <1>1, <2>3
    <3>2. \A k : Latest(i, k) <=> Latest(i - 1, k)
      BY <2>3, <3>1
    <3>3. \A k : (k \in 1..i /\ Latest(i, k)) <=> (k \in 1..(i - 1) /\ Latest(i - 1, k))
      BY <3>2
    <3>4. (\E k \in 1..i : Latest(i, k)) <=> (\E k \in 1..(i - 1) : Latest(i - 1, k))
      BY <3>3
    <3>5. (CHOOSE k : k \in 1..i /\ Latest(i, k))
             = (CHOOSE k : k \in 1..(i - 1) /\ Latest(i - 1, k))
      BY <3>3
    <3>6. QED
      BY <2>3, <3>1, <3>4, <3>5
  <2>4. QED
    BY <2>1, <2>2, <2>3
<1>3. g = Body(g)
  <2> HIDE DEF g
  <2>1. \A i \in 0..n : g[i] = Body(g)[i]
    BY <1>2
  <2>2. QED
    BY <2>1 DEF g
<1>4. ActiveAfter(sorted, m) = CHOOSE f : f = Body(f)
  BY DEF ActiveAfter
<1>5. ActiveAfter(sorted, m) = Body(ActiveAfter(sorted, m))
  BY <1>3, <1>4
<1>6. QED
  BY <1>5

\* The loop ends at the last segment that is due.
LEMMA LoopIs ==
    ASSUME NEW sorted \in Seq(ScheduleSegments), NEW m,
           NEW k \in 1..Len(sorted), LastDue(sorted, m, k)
    PROVE  ActiveAfter(sorted, m)[Len(sorted)] = sorted[k]
<1> DEFINE n == Len(sorted)
           active == ActiveAfter(sorted, m)
<1>1. n \in Nat
  OBVIOUS
<1>2. /\ active[0] = Last(sorted)
      /\ \A i \in 1..n : active[i] = IF Due(sorted[i], m) THEN sorted[i] ELSE active[i - 1]
  <2>1. active = [i \in 0..n |-> IF i = 0 THEN Last(sorted)
                                 ELSE IF Due(sorted[i], m) THEN sorted[i] ELSE active[i - 1]]
    BY ActiveAfterIs
  <2> HIDE DEF active
  <2>2. 0 \in 0..n /\ \A i \in 1..n : i \in 0..n /\ i # 0
    BY <1>1
  <2>3. QED
    BY <2>1, <2>2
<1> HIDE DEF active
\* First, the segments after k leave the answer as it is.
<1>3. CASE Due(sorted[k], m) /\ \A j \in 1..n : j > k => ~Due(sorted[j], m)
  <2> DEFINE Bad == {i \in Nat : i \in k..n /\ active[i] # sorted[k]}
  <2>1. SUFFICES ASSUME Bad # {} PROVE FALSE
    <3>1. n \in Nat /\ n \in k..n
      BY <1>1
    <3>2. active[n] # sorted[k] => n \in Bad
      BY <3>1
    <3>3. QED
      BY <3>2 DEF active
  <2>2. PICK b \in Bad : \A j \in Bad : b <= j
    <3>1. Bad \in SUBSET Nat
      OBVIOUS
    <3> HIDE DEF Bad
    <3>2. QED
      BY <2>1, <3>1, Least
  <2>3. b # k
    BY <1>2, <1>3, <2>2
  <2>4. b - 1 \in k..n /\ b - 1 \notin Bad /\ b \in 1..n /\ b > k
    BY <1>1, <2>2, <2>3
  <2>5. active[b - 1] = sorted[k]
    BY <2>4
  <2>6. active[b] = active[b - 1]
    BY <1>2, <1>3, <2>4
  <2>7. QED
    BY <2>2, <2>5, <2>6
<1>4. CASE k = n /\ \A j \in 1..n : ~Due(sorted[j], m)
  <2> DEFINE Bad == {i \in Nat : i \in 0..n /\ active[i] # Last(sorted)}
  <2>1. Last(sorted) = sorted[k]
    BY <1>4 DEF Last
  <2>2. SUFFICES ASSUME Bad # {} PROVE FALSE
    <3>1. n \in Nat /\ n \in 0..n
      BY <1>1
    <3>2. active[n] # Last(sorted) => n \in Bad
      BY <3>1
    <3>3. QED
      BY <2>1, <3>2 DEF active
  <2>3. PICK b \in Bad : \A j \in Bad : b <= j
    <3>1. Bad \in SUBSET Nat
      OBVIOUS
    <3> HIDE DEF Bad
    <3>2. QED
      BY <2>2, <3>1, Least
  <2>4. b # 0
    BY <1>2, <2>3
  <2>5. b - 1 \in 0..n /\ b - 1 \in Nat /\ b - 1 \notin Bad /\ b \in 1..n
    BY <1>1, <2>3, <2>4
  <2>6. active[b - 1] = Last(sorted)
    BY <2>5
  <2>7. active[b] = active[b - 1]
    BY <1>2, <1>4, <2>5
  <2>8. QED
    BY <2>3, <2>6, <2>7
<1>5. QED
  BY <1>3, <1>4 DEF LastDue

-----------------------------------------------------------------------------
(* The engine.                                                              *)

\* The speed the engine takes from a list of segments is that of the current one.
LEMMA SegmentIsCurrent ==
    ASSUME NEW segs \in Seq(ScheduleSegments), segs # <<>>
    PROVE  \E k \in DOMAIN segs : /\ Current(segs, k)
                                  /\ SegmentRpm(segs, minute) = segs[k].rpm
<1> DEFINE n == Len(segs)
           sorted == SortSegments(segs)
<1>1. n \in Nat \ {0} /\ DOMAIN segs = 1..n
  OBVIOUS
<1>2. PICK p : SortedBy(segs, sorted, p)
  BY SortSegmentsIs
<1>3. /\ sorted \in Seq(ScheduleSegments) /\ Len(sorted) = n
      /\ \A k \in 1..n : p[k] \in 1..n /\ sorted[k] = segs[p[k]]
      /\ \A x \in 1..n : \E k \in 1..n : p[k] = x
  BY <1>2, SortedIs
<1>4. SegmentRpm(segs, minute) = ActiveAfter(sorted, minute)[Len(sorted)].rpm
  BY DEF SegmentRpm
<1>5. \A i, j \in 1..n : i < j =>
         \/ segs[p[i]].start < segs[p[j]].start
         \/ segs[p[i]].start = segs[p[j]].start /\ p[i] < p[j]
  BY <1>1, <1>2 DEF SortedBy
<1> HIDE DEF sorted
<1>6. sorted # <<>>
  BY <1>1, <1>3
<1>7. PICK k \in 1..n : LastDue(sorted, minute, k)
  BY <1>3, <1>6, LastDueExists
<1>8. SegmentRpm(segs, minute) = segs[p[k]].rpm
  <2>1. k \in 1..Len(sorted)
    BY <1>3
  <2>2. ActiveAfter(sorted, minute)[Len(sorted)] = sorted[k]
    BY <1>3, <1>7, <2>1, LoopIs
  <2>3. QED
    BY <1>3, <1>4, <2>2
<1> DEFINE started == {j \in DOMAIN segs : segs[j].start <= minute}
           pool == IF started = {} THEN DOMAIN segs ELSE started
<1>9. /\ p[k] \in pool
      /\ \A i \in 1..n : p[i] \in pool => i <= k
  <2>1. CASE Due(sorted[k], minute) /\ \A j \in 1..n : j > k => ~Due(sorted[j], minute)
    <3>1. p[k] \in started
      BY <1>1, <1>3, <2>1 DEF Due
    <3>2. ASSUME NEW i \in 1..n, i > k PROVE p[i] \notin started
      BY <1>1, <1>3, <2>1, <3>2 DEF Due
    <3>3. pool = started
      BY <3>1
    <3>4. QED
      BY <1>1, <3>1, <3>2, <3>3
  <2>2. CASE k = n /\ \A j \in 1..n : ~Due(sorted[j], minute)
    <3>1. ASSUME NEW x \in started PROVE FALSE
      <4>1. PICK i \in 1..n : p[i] = x
        BY <1>1, <1>3
      <4>2. QED
        BY <1>3, <2>2, <3>1, <4>1 DEF Due
    <3>2. started = {}
      BY <3>1
    <3>3. pool = DOMAIN segs
      BY <3>2
    <3>4. p[k] \in pool
      BY <1>1, <1>3, <3>3
    <3>5. \A i \in 1..n : i <= k
      BY <1>1, <2>2
    <3>6. QED
      BY <3>4, <3>5
  <2>3. QED
    BY <1>3, <1>7, <2>1, <2>2 DEF LastDue
<1>10. pool \subseteq 1..n
  BY <1>1
<1>11. ASSUME NEW j \in pool
       PROVE  \/ segs[j].start < segs[p[k]].start
              \/ segs[j].start = segs[p[k]].start /\ j <= p[k]
  <2> HIDE DEF pool
  <2>1. PICK i \in 1..n : p[i] = j
    BY <1>3, <1>10, <1>11
  <2>2. i <= k
    <3>1. p[i] \in pool
      BY <1>11, <2>1
    <3>2. \A x \in 1..n : p[x] \in pool => x <= k
      BY <1>9
    <3>3. QED
      BY <3>1, <3>2
  <2>3. CASE i = k
    <3>1. j = p[k] /\ segs[j].start = segs[p[k]].start
      BY <2>1, <2>3
    <3>2. p[k] \in 1..n
      BY <1>3
    <3>3. j <= p[k]
      BY <3>1, <3>2
    <3>4. QED
      BY <3>1, <3>3
  <2>4. CASE i < k
    <3>1. \/ segs[p[i]].start < segs[p[k]].start
          \/ segs[p[i]].start = segs[p[k]].start /\ p[i] < p[k]
      BY <1>5, <2>4
    <3>2. p[i] \in 1..n /\ p[k] \in 1..n
      BY <1>3
    <3>3. QED
      BY <2>1, <3>1, <3>2
  <2>5. QED
    BY <2>2, <2>3, <2>4
<1>12. Current(segs, p[k])
  BY <1>9, <1>11 DEF Current
<1>13. QED
  BY <1>1, <1>3, <1>8, <1>12

\* The clock's values: the list never changes, the day and the minute stay in
\* their ranges.
ClockOK ==
    /\ list \in Lists
    /\ day \in 0..DAYS - 1
    /\ minute \in 0..MINUTES - 1

\* The list of the database, field by field.
LEMMA ListIs ==
    ASSUME ClockOK
    PROVE  /\ list \in Seq(ScheduleInputs)
           /\ \A i \in DOMAIN list : /\ list[i].priority \in Int
                                     /\ list[i].enabled \in BOOLEAN
                                     /\ list[i].segments \in Seq(ScheduleSegments)
                                     /\ list[i].segments # <<>>
           /\ \A i, j \in DOMAIN list : i < j => list[i].priority >= list[j].priority
           /\ DOMAIN list \in SUBSET Nat
<1>1. list \in Seq(ScheduleInputs)
  BY ScheduleClockAssumption DEF ClockOK
<1>2. \A i \in DOMAIN list : list[i] \in ScheduleInputs
  BY <1>1
<1>3. \A i, j \in DOMAIN list : i < j => list[i].priority >= list[j].priority
  BY ScheduleClockAssumption DEF ClockOK
<1>4. DOMAIN list \in SUBSET Nat
  BY <1>1
<1>5. QED
  BY <1>1, <1>2, <1>3, <1>4 DEF ScheduleInputs

\* The schedule the engine takes is the one in force.
LEMMA TopIsInForce ==
    ASSUME ClockOK
    PROVE  \/ (\A i \in DOMAIN list : ~Matches(list[i], day)) /\ Top = <<>>
           \/ \E i \in DOMAIN list : InForce(i) /\ Top = list[i].segments
<1> DEFINE candidates == {i \in DOMAIN list : Matches(list[i], day)}
<1>1. Top = IF candidates = {} THEN <<>> ELSE list[Min(candidates)].segments
  BY DEF Top, TopOn
<1>2. CASE candidates = {}
  BY <1>1, <1>2
<1>3. CASE candidates # {}
  <2> DEFINE i == Min(candidates)
  <2>1. candidates \in SUBSET Nat
    BY ListIs
  <2>2. i \in candidates /\ \A j \in candidates : i <= j
    <3> HIDE DEF candidates
    <3>1. QED
      BY <1>3, <2>1, MinIs
  <2>3. Top = list[i].segments
    BY <1>1, <1>3
  <2> HIDE DEF i
  <2>4. ASSUME NEW j \in DOMAIN list, Matches(list[j], day)
        PROVE  \/ list[j].priority < list[i].priority
               \/ list[j].priority = list[i].priority /\ j >= i
    <3>1. i \in DOMAIN list /\ i <= j /\ i \in Nat /\ j \in Nat
      BY <2>1, <2>2, <2>4, ListIs
    <3>2. list[i].priority \in Int /\ list[j].priority \in Int
      BY <3>1, ListIs
    <3>3. i = j \/ list[i].priority >= list[j].priority
      BY <3>1, ListIs
    <3>4. QED
      BY <3>1, <3>2, <3>3
  <2>5. InForce(i)
    BY <2>2, <2>4 DEF InForce
  <2>6. QED
    BY <2>2, <2>3, <2>5
<1>4. QED
  BY <1>2, <1>3

\* What the engine runs is in force, in every state of the clock.
LEMMA EngineRunsInForce ==
    ASSUME ClockOK
    PROVE  ActiveIsInForce
<1>1. CASE (\A i \in DOMAIN list : ~Matches(list[i], day)) /\ Top = <<>>
  BY <1>1 DEF ActiveIsInForce, ActiveRpm, ActiveAt, Top
<1>2. CASE \E i \in DOMAIN list : InForce(i) /\ Top = list[i].segments
  <2>1. PICK i \in DOMAIN list : InForce(i) /\ Top = list[i].segments
    BY <1>2
  <2>2. list[i].segments \in Seq(ScheduleSegments) /\ list[i].segments # <<>>
    BY ListIs
  <2>3. PICK k \in DOMAIN list[i].segments :
            /\ Current(list[i].segments, k)
            /\ SegmentRpm(list[i].segments, minute) = list[i].segments[k].rpm
    BY <2>2, SegmentIsCurrent
  <2>4. ActiveRpm = list[i].segments[k].rpm
    BY <2>1, <2>2, <2>3 DEF ActiveRpm, ActiveAt, Top
  <2>5. QED
    BY <2>1, <2>3, <2>4 DEF ActiveIsInForce
<1>3. QED
  BY <1>1, <1>2, TopIsInForce

-----------------------------------------------------------------------------
(* The web app.                                                             *)

\* The blocks of the timeline: the segments in order, each until the next one
\* starts, after a block of the last segment's speed if the day starts before them.
BlockOf(sorted, i) ==
    [from |-> sorted[i].start,
     to   |-> IF i < Len(sorted) THEN sorted[i + 1].start ELSE MINUTES,
     rpm  |-> sorted[i].rpm]

\* The blocks of a schedule, by position.
LEMMA BlocksAre ==
    ASSUME NEW segs \in Seq(ScheduleSegments), NEW sorted \in Seq(ScheduleSegments),
           sorted = SortSegments(segs), sorted # <<>>
    PROVE  LET a == IF sorted[1].start > 0 THEN 1 ELSE 0
               blocks == TimelineBlocks(segs)
           IN  /\ DOMAIN blocks = 1..(a + Len(sorted))
               /\ \A i \in 1..Len(sorted) : blocks[a + i] = BlockOf(sorted, i)
               /\ a = 1 => blocks[1] = [from |-> 0, to |-> sorted[1].start,
                                        rpm |-> sorted[Len(sorted)].rpm]
<1> DEFINE n == Len(sorted)
           own == [i \in 1..n |-> BlockOf(sorted, i)]
           first == [from |-> 0, to |-> sorted[1].start, rpm |-> sorted[n].rpm]
<1>1. n \in Nat \ {0}
  OBVIOUS
<1>2. Head(sorted) = sorted[1] /\ Last(sorted) = sorted[n]
  BY <1>1 DEF Last
<1>3. TimelineBlocks(segs) = Before(sorted) \o own
  BY DEF TimelineBlocks, BlockOf
<1> DEFINE T == {own[i] : i \in 1..n} \cup {first}
<1>4. own \in Seq(T) /\ Len(own) = n /\ first \in T
  <2>1. own \in [1..n -> T]
    OBVIOUS
  <2> HIDE DEF own, T
  <2>2. own \in Seq(T) /\ Len(own) = n
    BY <1>1, <2>1
  <2>3. QED
    BY <2>2 DEF T
<1> HIDE DEF T
<1>5. CASE sorted[1].start > 0
  <2>1. Before(sorted) = <<first>>
    BY <1>2, <1>5 DEF Before
  <2>2. TimelineBlocks(segs) = <<first>> \o own
    BY <1>3, <2>1
  <2> HIDE DEF own, first
  <2>3. <<first>> \in Seq(T) /\ Len(<<first>>) = 1 /\ <<first>>[1] = first
    BY <1>4
  <2>4. /\ Len(<<first>> \o own) = 1 + n
        /\ \A i \in 1..(1 + n) : (<<first>> \o own)[i] =
                                   IF i <= 1 THEN <<first>>[i] ELSE own[i - 1]
    BY <1>4, <2>3, ConcatProperties
  <2>5. <<first>> \o own \in Seq(T)
    BY <1>4, <2>3, ConcatProperties
  <2>6. DOMAIN TimelineBlocks(segs) = 1..(1 + n)
    BY <2>2, <2>4, <2>5
  <2>7. ASSUME NEW i \in 1..n PROVE TimelineBlocks(segs)[1 + i] = own[i]
    <3>1. 1 + i \in 1..(1 + n) /\ ~(1 + i <= 1) /\ (1 + i) - 1 = i
      BY <1>1
    <3>2. QED
      BY <2>2, <2>4, <3>1
  <2>8. TimelineBlocks(segs)[1] = first
    <3>1. 1 \in 1..(1 + n) /\ 1 <= 1
      BY <1>1
    <3>2. QED
      BY <2>2, <2>3, <2>4, <3>1
  <2>9. \A i \in 1..n : own[i] = BlockOf(sorted, i)
    BY DEF own
  <2>10. QED
    BY <1>5, <2>6, <2>7, <2>8, <2>9 DEF first
<1>6. CASE ~(sorted[1].start > 0)
  <2>1. Before(sorted) = <<>>
    BY <1>2, <1>6 DEF Before
  <2>2. TimelineBlocks(segs) = own
    <3> HIDE DEF own
    <3>1. QED
      BY <1>3, <1>4, <2>1, ConcatEmptySeq
  <2>3. DOMAIN own = 1..n /\ \A i \in 1..n : own[i] = BlockOf(sorted, i) /\ 0 + i = i
    OBVIOUS
  <2> HIDE DEF own
  <2>4. DOMAIN TimelineBlocks(segs) = 1..(0 + n)
    BY <1>1, <2>2, <2>3
  <2>5. QED
    BY <1>6, <2>2, <2>3, <2>4
<1>7. QED
  BY <1>5, <1>6

\* The block that covers a minute has the speed of the loop's answer.
LEMMA TimelineAgrees ==
    ASSUME NEW segs \in Seq(ScheduleSegments), segs # <<>>,
           NEW m \in 0..MINUTES - 1
    PROVE  RpmAt(segs, m) = SegmentRpm(segs, m)
<1> DEFINE sorted == SortSegments(segs)
           n == Len(sorted)
           a == IF sorted[1].start > 0 THEN 1 ELSE 0
           blocks == TimelineBlocks(segs)
           here == {i \in DOMAIN blocks : m >= blocks[i].from /\ m < blocks[i].to}
<1>1. PICK p : SortedBy(segs, sorted, p)
  BY SortSegmentsIs
<1>2. /\ sorted \in Seq(ScheduleSegments) /\ Len(sorted) = Len(segs)
      /\ \A i, j \in 1..Len(segs) : i < j => sorted[i].start <= sorted[j].start
  BY <1>1, SortedIs
<1>3. n \in Nat \ {0} /\ sorted # <<>>
  BY <1>2
<1>4. /\ DOMAIN blocks = 1..(a + n)
      /\ \A i \in 1..n : blocks[a + i] = BlockOf(sorted, i)
      /\ a = 1 => blocks[1] = [from |-> 0, to |-> sorted[1].start, rpm |-> sorted[n].rpm]
  BY <1>2, <1>3, BlocksAre
<1>5. SegmentRpm(segs, m) = ActiveAfter(sorted, m)[n].rpm
  BY DEF SegmentRpm
<1>6. RpmAt(segs, m) = IF here = {} THEN Head(blocks).rpm ELSE blocks[Min(here)].rpm
  BY DEF RpmAt
<1>7. /\ m \in Int /\ 0 <= m /\ m < MINUTES /\ MINUTES \in Int
      /\ \A i \in 1..n : sorted[i].start \in Int /\ 0 <= sorted[i].start
  <2>1. MINUTES \in Nat \ {0}
    BY ScheduleClockAssumption
  <2>2. m \in Int /\ 0 <= m /\ m < MINUTES
    BY <2>1
  <2>3. ASSUME NEW i \in 1..n PROVE sorted[i].start \in 0..MINUTES - 1
    <3> HIDE DEF sorted
    <3>1. sorted[i] \in ScheduleSegments
      BY <1>2
    <3>2. QED
      BY <3>1 DEF ScheduleSegments
  <2>4. QED
    BY <2>1, <2>2, <2>3
<1>8. \A i, j \in 1..n : i <= j => sorted[i].start <= sorted[j].start
  BY <1>2, <1>3, <1>7
<1>9. a \in {0, 1} /\ (a = 0 => sorted[1].start = 0)
  BY <1>3, <1>7
<1>10. PICK k \in 1..n : LastDue(sorted, m, k)
  BY <1>2, <1>3, LastDueExists
<1> HIDE DEF sorted, blocks, n, a
<1>11. SegmentRpm(segs, m) = sorted[k].rpm
  BY <1>2, <1>5, <1>10, LoopIs DEF n
<1>12. \A i \in DOMAIN blocks : (i = 1 /\ a = 1) \/ i - a \in 1..n
  BY <1>3, <1>4, <1>9
<1>13. CASE Due(sorted[k], m) /\ \A j \in 1..n : j > k => ~Due(sorted[j], m)
  <2>1. sorted[k].start <= m /\ \A j \in 1..n : j > k => m < sorted[j].start
    BY <1>7, <1>13 DEF Due
  <2>2. a + k \in here
    <3>1. a + k \in DOMAIN blocks /\ blocks[a + k] = BlockOf(sorted, k)
      BY <1>3, <1>4, <1>9
    <3>2. m < blocks[a + k].to
      <4>1. CASE k < n
        <5>1. k + 1 \in 1..n /\ k + 1 > k
          BY <1>3, <4>1
        <5>2. m < sorted[k + 1].start
          BY <2>1, <5>1
        <5>3. QED
          BY <3>1, <4>1, <5>2 DEF BlockOf, n
      <4>2. CASE k = n
        BY <1>3, <1>7, <3>1, <4>2 DEF BlockOf, n
      <4>3. QED
        BY <1>3, <4>1, <4>2
    <3>3. m >= blocks[a + k].from
      BY <1>7, <2>1, <3>1 DEF BlockOf
    <3>4. QED
      BY <3>1, <3>2, <3>3
  <2>3. ASSUME NEW i \in here PROVE i = a + k
    <3>1. CASE i = 1 /\ a = 1
      <4>1. m < sorted[1].start
        BY <1>4, <2>3, <3>1
      <4>2. sorted[1].start <= sorted[k].start
        BY <1>3, <1>8
      <4>3. QED
        BY <1>3, <1>7, <2>1, <4>1, <4>2
    <3>2. CASE i - a \in 1..n
      <4> DEFINE j == i - a
      <4>1. i = a + j
        BY <1>4, <1>9, <2>3
      <4>2. blocks[i] = BlockOf(sorted, j)
        BY <1>4, <3>2, <4>1
      <4> HIDE DEF j
      <4>3. m >= sorted[j].start /\ j \in 1..n
        BY <2>3, <3>2, <4>2 DEF BlockOf, j
      <4>4. ~(j > k)
        BY <1>7, <2>1, <4>3
      <4>5. ASSUME j < k PROVE FALSE
        <5>1. j < n /\ j + 1 \in 1..n /\ j + 1 <= k
          BY <1>3, <4>3, <4>5
        <5>2. m < sorted[j + 1].start
          BY <2>3, <4>2, <5>1 DEF BlockOf, n
        <5>3. sorted[j + 1].start <= sorted[k].start
          BY <1>8, <5>1
        <5>4. QED
          BY <1>7, <2>1, <5>1, <5>2, <5>3
      <4>6. QED
        BY <4>1, <4>3, <4>4, <4>5
    <3>3. QED
      BY <1>12, <2>3, <3>1, <3>2
  <2>4. here = {a + k} /\ a + k \in Nat
    BY <1>9, <2>2, <2>3
  <2>5. Min(here) = a + k
    <3> HIDE DEF here
    <3>1. here \in SUBSET Nat /\ here # {}
      BY <2>4
    <3>2. QED
      BY <2>4, <3>1, MinIs
  <2>6. blocks[a + k].rpm = sorted[k].rpm
    <3>1. blocks[a + k] = BlockOf(sorted, k)
      BY <1>4
    <3>2. QED
      BY <3>1 DEF BlockOf
  <2> HIDE DEF here
  <2>7. QED
    BY <1>6, <1>11, <2>4, <2>5, <2>6
<1>14. CASE k = n /\ \A j \in 1..n : ~Due(sorted[j], m)
  <2>1. \A j \in 1..n : m < sorted[j].start
    BY <1>7, <1>14 DEF Due
  <2>2. a = 1
    BY <1>3, <1>7, <1>9, <2>1
  <2>3. 1 \in here
    <3>1. 1 \in DOMAIN blocks /\ 1 \in 1..n
      BY <1>3, <1>4, <2>2
    <3>2. QED
      BY <1>4, <1>7, <2>1, <2>2, <3>1
  <2>4. ASSUME NEW i \in here PROVE i = 1
    <3>1. CASE i - a \in 1..n
      <4> DEFINE j == i - a
      <4>1. i = a + j
        BY <1>4, <1>9, <2>4
      <4>2. blocks[i] = BlockOf(sorted, j)
        BY <1>4, <3>1, <4>1
      <4> HIDE DEF j
      <4>3. m >= sorted[j].start /\ j \in 1..n
        BY <2>4, <3>1, <4>2 DEF BlockOf, j
      <4>4. QED
        BY <1>7, <2>1, <4>3
    <3>2. QED
      BY <1>12, <2>4, <3>1
  <2>5. here = {1}
    BY <2>3, <2>4
  <2>6. Min(here) = 1
    <3> HIDE DEF here
    <3>1. here \in SUBSET Nat /\ here # {}
      BY <2>5
    <3>2. QED
      BY <2>5, <3>1, MinIs
  <2> HIDE DEF here
  <2>7. blocks[1].rpm = sorted[k].rpm
    BY <1>4, <1>14, <2>2
  <2>8. QED
    BY <1>6, <1>11, <2>5, <2>6, <2>7
<1>15. QED
  BY <1>10, <1>13, <1>14 DEF LastDue, n

\* With one schedule enabled the card and the engine look at the same one, whatever
\* the clocks of the card say.
LEMMA CardAgrees ==
    ASSUME ClockOK, \A i, j \in EnabledIn(list) : i = j,
           NEW d \in 0..DAYS - 1, NEW m \in 0..MINUTES - 1
    PROVE  CardRpm(list, d, m) = ActiveAt(d, m)
<1> DEFINE candidates == {i \in DOMAIN list : Matches(list[i], d)}
<1>1. candidates \subseteq EnabledIn(list)
  BY DEF Matches, EnabledIn
<1>2. TopOn(d) = IF candidates = {} THEN <<>> ELSE list[Min(candidates)].segments
  BY DEF TopOn
<1>3. CASE EnabledIn(list) = {}
  <2>1. candidates = {}
    BY <1>1, <1>3
  <2>2. QED
    BY <1>2, <1>3, <2>1 DEF CardRpm, ActiveAt
<1>4. CASE EnabledIn(list) # {}
  <2>1. PICK i \in EnabledIn(list) : TRUE
    BY <1>4
  <2>2. EnabledIn(list) = {i} /\ i \in DOMAIN list /\ i \in Nat /\ list[i].enabled
    BY <2>1, ListIs DEF EnabledIn
  <2>3. Min(EnabledIn(list)) = i
    BY <2>2, MinIs
  <2>4. list[i].segments \in Seq(ScheduleSegments) /\ list[i].segments # <<>>
    BY <2>2, ListIs
  <2>5. CASE RunsToday(list[i], d)
    <3>1. candidates = {i}
      BY <1>1, <2>2, <2>5 DEF RunsToday, Matches
    <3>2. Min(candidates) = i
      BY <2>2, <3>1, MinIs
    <3>3. ActiveAt(d, m) = SegmentRpm(list[i].segments, m)
      BY <1>2, <2>4, <3>1, <3>2 DEF ActiveAt
    <3>4. CardRpm(list, d, m) = RpmAt(list[i].segments, m)
      BY <1>4, <2>3, <2>5 DEF CardRpm
    <3>5. QED
      BY <2>4, <3>3, <3>4, TimelineAgrees
  <2>6. CASE ~RunsToday(list[i], d)
    <3>1. candidates = {}
      BY <1>1, <2>2, <2>6 DEF RunsToday, Matches
    <3>2. QED
      BY <1>2, <2>3, <2>6, <3>1 DEF CardRpm, ActiveAt
  <2>7. QED
    BY <2>5, <2>6
<1>5. QED
  BY <1>3, <1>4

\* The timelines and the card agree with the engine, in every state of the clock.
LEMMA WebAppAgrees ==
    ASSUME ClockOK
    PROVE  WebAgrees
<1>1. ASSUME NEW i \in DOMAIN list
      PROVE  RpmAt(list[i].segments, minute) = SegmentRpm(list[i].segments, minute)
  <2>1. list[i].segments \in Seq(ScheduleSegments) /\ list[i].segments # <<>>
    BY ListIs
  <2>2. QED
    BY <2>1, TimelineAgrees DEF ClockOK
<1>2. QED
  BY <1>1, CardAgrees DEF WebAgrees

-----------------------------------------------------------------------------
(* The clock.                                                               *)

\* The clock stays in its week and day, and the list is one of the database's.
THEOREM ClockTypeCorrect == Spec => []ClockOK
<1>1. Init => ClockOK
  BY ScheduleClockAssumption DEF Init, ClockOK
<1>2. ClockOK /\ [Next]_vars => ClockOK'
  <2> SUFFICES ASSUME ClockOK, [Next]_vars PROVE ClockOK'
    OBVIOUS
  <2>1. CASE Minute
    <3>1. DAYS \in Nat \ {0} /\ MINUTES \in Nat \ {0}
      BY ScheduleClockAssumption
    <3>2. minute \in Int /\ day \in Int
      BY DEF ClockOK
    <3>3. (minute + 1) % MINUTES \in 0..MINUTES - 1 /\ (day + 1) % DAYS \in 0..DAYS - 1
      BY <3>1, <3>2
    <3>4. QED
      BY <2>1, <3>3 DEF Minute, ClockOK
  <2>2. CASE UNCHANGED vars
    BY <2>2 DEF ClockOK, vars
  <2>3. QED
    BY <2>1, <2>2 DEF Next
<1>3. QED
  BY <1>1, <1>2, PTL DEF Spec

\* At every minute the engine runs the speed of the current segment of the schedule
\* in force, and nothing when none matches (activeRpm, core/scheduler.ts).
THEOREM EngineFollowsSchedules == Spec => []ActiveIsInForce
<1>1. ClockOK => ActiveIsInForce
  BY EngineRunsInForce
<1>2. QED
  BY <1>1, ClockTypeCorrect, PTL

\* At every minute the web app's timeline has the engine's speed for every schedule.
\* The card shows what the engine runs at the day and minute of the card's own
\* clocks, while the list it fetched is the engine's and enables a single schedule
\* (lib/schedule.ts, ActiveScheduleCard.tsx).
THEOREM TimelineFollowsEngine == Spec => []WebAgrees
<1>1. ClockOK => WebAgrees
  BY WebAppAgrees
<1>2. QED
  BY <1>1, ClockTypeCorrect, PTL

\* The meter only watches the clock, so both hold while a day is recorded.
THEOREM RecordedDayFollowsSchedules == MSpec => [](ActiveIsInForce /\ WebAgrees)
<1>1. MInit => Init
  BY DEF MInit
<1>2. [MMinute]_mvars => [Next]_vars
  BY DEF MMinute, Next, mvars
<1>3. MSpec => Spec
  BY <1>1, <1>2, PTL DEF MSpec, Spec
<1>4. QED
  BY <1>3, EngineFollowsSchedules, TimelineFollowsEngine, PTL
=============================================================================
