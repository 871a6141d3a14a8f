-------------------------- MODULE Algorithms_proofs ---------------------------
(***************************************************************************)
(* Proofs about the pure algorithms, for inputs of any length: the         *)
(* dispatch the host suggests for a document passes the host's check, and  *)
(* the check accepts exactly the plans that cover the source; the          *)
(* intervals of review evidence stand for what was read and not corrected; *)
(* the cues of a timed track say its text, whole and in order.             *)
(*                                                                         *)
(* A fold over a sequence is a recursive function on the sets of its       *)
(* positions.  It exists, and its values on the prefixes follow each other *)
(* by the fold's step; the algorithms are then understood by induction     *)
(* over prefixes.                                                          *)
(***************************************************************************)
EXTENDS TeamProgress, Dispatch, Segmentation, FiniteSetTheorems, SequenceTheorems,
        WellFoundedInduction, TLAPS

-----------------------------------------------------------------------------
(* Numbers. *)

\* A set of natural numbers has a least one.
LEMMA LeastNumber ==
    ASSUME NEW T \in SUBSET Nat, T # {}
    PROVE  \E n \in T : \A m \in T : n <= m
<1>1. \E n \in T : \A m \in T : <<m, n>> \notin OpToRel(<, Nat)
    BY NatLessThanWellFounded, WFMin
<1>2. PICK n \in T : \A m \in T : <<m, n>> \notin OpToRel(<, Nat)
    BY <1>1
<1>3. ASSUME NEW m \in T PROVE n <= m
    <2>1. m < n => <<m, n>> \in OpToRel(<, Nat)
        BY DEF OpToRel
    <2>2. ~(m < n)
        BY <1>2, <2>1
    <2> QED BY <2>2
<1> QED BY <1>3

\* What holds of zero, and of a number when it holds of the one before, holds
\* of all numbers up to a bound.
LEMMA UpToBound ==
    ASSUME NEW n \in Nat, NEW T, 0 \in T, \A k \in 0 .. n - 1 : k \in T => k + 1 \in T
    PROVE  \A k \in 0 .. n : k \in T
<1> DEFINE Bad == {k \in 0 .. n : k \notin T}
<1>1. ASSUME Bad # {} PROVE FALSE
    <2>1. Bad \in SUBSET Nat
        OBVIOUS
    <2>2. PICK k \in Bad : \A m \in Bad : k <= m
        BY <1>1, <2>1, LeastNumber
    <2>3. k \in 0 .. n /\ k \notin T /\ k # 0
        OBVIOUS
    <2>4. k - 1 \in 0 .. n - 1 /\ k - 1 \in 0 .. n /\ ~(k <= k - 1) /\ (k - 1) + 1 = k
        BY <2>3
    <2>5. k - 1 \in T
        BY <2>2, <2>4
    <2> QED BY <2>3, <2>4, <2>5
<1> QED BY <1>1

\* A finite set of integers between two numbers has a greatest and a least.
LEMMA GreatestIs ==
    ASSUME NEW n \in Int, NEW m \in Int, NEW S \in SUBSET (m .. n), S # {}
    PROVE  Max(S) \in S /\ \A x \in S : x <= Max(S)
<1> DEFINE T == {n - x : x \in S}
<1>0. \A x \in S : n - x \in Nat
    OBVIOUS
<1>1. T \in SUBSET Nat /\ T # {}
    BY <1>0
<1>2. PICK t \in T : \A u \in T : t <= u
    BY <1>1, LeastNumber
<1>3. PICK x \in S : t = n - x
    OBVIOUS
<1>4. \A y \in S : x >= y
    <2> SUFFICES ASSUME NEW y \in S PROVE x >= y
        OBVIOUS
    <2>1. n - y \in T
        OBVIOUS
    <2>2. n - x <= n - y
        BY <1>2, <1>3, <2>1
    <2> QED BY <2>2
<1>5. Max(S) \in S /\ \A y \in S : Max(S) >= y
    BY <1>3, <1>4 DEF Max
<1> QED BY <1>5

\* A set of integers that begins somewhere has a least one.
LEMMA LeastIs ==
    ASSUME NEW n \in Int, NEW S, S # {}, \A x \in S : x \in Int /\ n <= x
    PROVE  Min(S) \in S /\ \A x \in S : Min(S) <= x
<1> DEFINE T == {x - n : x \in S}
<1>1. T \in SUBSET Nat /\ T # {}
    OBVIOUS
<1>2. PICK t \in T : \A u \in T : t <= u
    BY <1>1, LeastNumber
<1>3. PICK x \in S : t = x - n
    OBVIOUS
<1>4. \A y \in S : x <= y
    <2> SUFFICES ASSUME NEW y \in S PROVE x <= y
        OBVIOUS
    <2>1. y - n \in T
        OBVIOUS
    <2>2. x - n <= y - n
        BY <1>2, <1>3, <2>1
    <2> QED BY <2>2
<1>5. Min(S) \in S /\ \A y \in S : Min(S) <= y
    BY <1>3, <1>4 DEF Min
<1> QED BY <1>5

\* What a quotient is.
LEMMA Quotient ==
    ASSUME NEW x \in Nat, NEW d \in Nat \ {0}
    PROVE  x \div d \in Nat /\ d * (x \div d) <= x /\ x < d * (x \div d) + d
OBVIOUS

\* It is at least what fits into the number that is divided.
LEMMA QuotientAtLeast ==
    ASSUME NEW x \in Nat, NEW d \in Nat \ {0}, NEW q \in Nat, d * q <= x
    PROVE  q <= x \div d
<1> DEFINE p == x \div d
<1>1. p \in Nat /\ x < d * p + d
    BY Quotient
<1> HIDE DEF p
<1>2. d * q < d * (p + 1)
    BY <1>1
<1>3. q < p + 1
    BY <1>1, <1>2
<1>4. q <= p
    BY <1>1, <1>3
<1> QED BY <1>4 DEF p

-----------------------------------------------------------------------------
(* Folds.  step[k] is what the k-th element of a sequence does to the value *)
(* so far. *)

IsFold(g, base, step, n) ==
    \A s \in SUBSET (1 .. n) :
        g[s] = IF s = {} THEN base ELSE step[Max(s)][g[s \ {Max(s)}]]

\* The greatest of a set of positions.
LEMMA GreatestPosition ==
    ASSUME NEW n \in Nat, NEW s \in SUBSET (1 .. n), s # {}
    PROVE  Max(s) \in s /\ Max(s) \in 1 .. n /\ s \ {Max(s)} \in SUBSET (1 .. Max(s) - 1)
<1>1. 1 \in Int /\ n \in Int
    OBVIOUS
<1>2. Max(s) \in s /\ \A x \in s : x <= Max(s)
    BY <1>1, GreatestIs
<1>3. Max(s) \in 1 .. n /\ \A x \in s : x \in 1 .. n
    BY <1>2
<1>4. \A x \in s \ {Max(s)} : x \in 1 .. Max(s) - 1
    BY <1>2, <1>3
<1> QED BY <1>2, <1>3, <1>4

\* A fold exists.
LEMMA FoldExists ==
    ASSUME NEW n \in Nat, NEW V, NEW base \in V, NEW step \in [1 .. n -> [V -> V]]
    PROVE  \E g \in [SUBSET (1 .. n) -> V] : IsFold(g, base, step, n)
<1> DEFINE T == {k \in 0 .. n : \E g \in [SUBSET (1 .. k) -> V] : IsFold(g, base, step, k)}
<1>1. 0 \in T
    <2> DEFINE g == [s \in SUBSET (1 .. 0) |-> base]
    <2>1. \A s \in SUBSET (1 .. 0) : s = {}
        OBVIOUS
    <2>2. g \in [SUBSET (1 .. 0) -> V] /\ IsFold(g, base, step, 0)
        BY <2>1 DEF IsFold
    <2> QED BY <2>2
<1>2. ASSUME NEW k \in 0 .. n - 1, k \in T PROVE k + 1 \in T
    <2>1. PICK f \in [SUBSET (1 .. k) -> V] : IsFold(f, base, step, k)
        BY <1>2
    <2> DEFINE g == [s \in SUBSET (1 .. k + 1) |->
                        IF s \in SUBSET (1 .. k) THEN f[s] ELSE step[k + 1][f[s \ {k + 1}]]]
    <2>2. \A s \in SUBSET (1 .. k + 1) : s \ {k + 1} \in SUBSET (1 .. k)
        OBVIOUS
    <2>3. k + 1 \in 1 .. n /\ \A x \in V : step[k + 1][x] \in V
        OBVIOUS
    <2>4. g \in [SUBSET (1 .. k + 1) -> V]
        BY <2>2, <2>3
    <2>5. ASSUME NEW s \in SUBSET (1 .. k + 1)
          PROVE  g[s] = IF s = {} THEN base ELSE step[Max(s)][g[s \ {Max(s)}]]
        <3>1. CASE s \in SUBSET (1 .. k)
            <4>1. g[s] = f[s] /\ f[s] = IF s = {} THEN base ELSE step[Max(s)][f[s \ {Max(s)}]]
                BY <2>1, <3>1 DEF IsFold
            <4>2. s \ {Max(s)} \in SUBSET (1 .. k) /\ s \ {Max(s)} \in SUBSET (1 .. k + 1)
                BY <3>1
            <4>3. g[s \ {Max(s)}] = f[s \ {Max(s)}]
                BY <4>2
            <4> HIDE DEF g
            <4> QED BY <4>1, <4>3
        <3>2. CASE s \notin SUBSET (1 .. k)
            <4>1. k + 1 \in s /\ s # {}
                BY <3>2
            <4>2. Max(s) = k + 1
                <5>1. 1 \in Int /\ k + 1 \in Int
                    OBVIOUS
                <5>2. Max(s) \in s /\ \A x \in s : x <= Max(s)
                    BY <4>1, <5>1, GreatestIs
                <5>3. Max(s) \in 1 .. k + 1
                    BY <5>2
                <5> QED BY <4>1, <5>2, <5>3
            <4>3. g[s] = step[k + 1][f[s \ {k + 1}]]
                BY <3>2
            <4>4. g[s \ {k + 1}] = f[s \ {k + 1}]
                BY <2>2
            <4> HIDE DEF g
            <4> QED BY <4>1, <4>2, <4>3, <4>4
        <3> QED BY <3>1, <3>2
    <2> HIDE DEF g
    <2>6. IsFold(g, base, step, k + 1)
        BY <2>5 DEF IsFold
    <2>7. k + 1 \in 0 .. n
        OBVIOUS
    <2> QED BY <2>4, <2>6, <2>7
<1> HIDE DEF T
<1>3. \A k \in 0 .. n : k \in T
    BY <1>1, <1>2, UpToBound
<1>4. n \in T
    BY <1>3
<1> QED BY <1>4 DEF T

\* The positions of a prefix, and its greatest.
LEMMA NoPrefix == 1 .. 0 = {}
OBVIOUS

\* A prefix that is not empty ends with its length.
LEMMA PrefixIs ==
    ASSUME NEW n \in Nat, NEW k \in 1 .. n
    PROVE  /\ 1 .. k \in SUBSET (1 .. n) /\ 1 .. k # {}
           /\ Max(1 .. k) = k /\ (1 .. k) \ {Max(1 .. k)} = 1 .. k - 1
<1>1. 1 .. k \in SUBSET (1 .. n) /\ 1 .. k # {} /\ k \in 1 .. k
    OBVIOUS
<1>2. Max(1 .. k) = k
    <2>1. Max(1 .. k) \in 1 .. k /\ k <= Max(1 .. k)
        BY <1>1, GreatestIs, 1 \in Int, k \in Int
    <2> QED BY <2>1
<1>3. (1 .. k) \ {k} = 1 .. k - 1
    OBVIOUS
<1> QED BY <1>1, <1>2, <1>3

\* A recursive function folds by a step, when the step need not say what it does
\* to values that cannot occur.
Folds(g, base, step, n, V) ==
    /\ g[{}] = base
    /\ \A s \in SUBSET (1 .. n) : s # {} /\ g[s \ {Max(s)}] \in V
           => g[s] = step[Max(s)][g[s \ {Max(s)}]]

\* The values of a fold on the prefixes of a sequence follow each other by its
\* step.
LEMMA FoldOnPrefixes ==
    ASSUME NEW n \in Nat, NEW V, NEW base \in V, NEW step \in [1 .. n -> [V -> V]], NEW g,
           Folds(g, base, step, n, V)
    PROVE  /\ g[1 .. 0] = base
           /\ \A k \in 0 .. n : g[1 .. k] \in V
           /\ \A k \in 1 .. n : g[1 .. k] = step[k][g[1 .. k - 1]]
<1>1. g[1 .. 0] = base
    BY NoPrefix DEF Folds
<1>2. ASSUME NEW k \in 1 .. n, g[1 .. k - 1] \in V PROVE g[1 .. k] = step[k][g[1 .. k - 1]]
    BY <1>2, PrefixIs DEF Folds
<1> DEFINE T == {k \in 0 .. n : g[1 .. k] \in V}
<1>3. 0 \in T
    BY <1>1
<1>4. ASSUME NEW k \in 0 .. n - 1, k \in T PROVE k + 1 \in T
    <2>1. k + 1 \in 1 .. n /\ (k + 1) - 1 = k /\ k + 1 \in 0 .. n
        OBVIOUS
    <2>2. g[1 .. k + 1] = step[k + 1][g[1 .. k]]
        BY <1>2, <1>4, <2>1
    <2>3. step[k + 1][g[1 .. k]] \in V
        BY <1>4, <2>1
    <2> QED BY <2>1, <2>2, <2>3
<1> HIDE DEF T
<1>5. \A k \in 0 .. n : k \in T
    BY <1>3, <1>4, UpToBound
<1>6. \A k \in 0 .. n : g[1 .. k] \in V
    BY <1>5 DEF T
<1>7. \A k \in 1 .. n : k - 1 \in 0 .. n
    OBVIOUS
<1> QED BY <1>1, <1>2, <1>6, <1>7

-----------------------------------------------------------------------------
(* The check of a dispatch. *)

Sections == Int \X Int

\* The cursor after every section of a plan.
IsWalk(at, plans) ==
    /\ at \in [0 .. Len(plans) -> Int]
    /\ at[0] = 0
    /\ \A k \in 1 .. Len(plans) : at[k] = Walk(at[k - 1], plans[k])

\* The host's fold walks its cursor over the sections.
LEMMA WalkIsFold ==
    ASSUME NEW secs \in Seq(Sections)
    PROVE  \E at : IsWalk(at, secs) /\ FoldLeft(Walk, 0, secs) = at[Len(secs)]
<1> DEFINE n == Len(secs)
           step == [k \in 1 .. n |-> [c \in Int |-> Walk(c, secs[k])]]
           Body(g) == [s \in SUBSET DOMAIN secs |->
                          IF s = {} THEN 0
                          ELSE LET x == Max(s) IN Walk(g[s \ {x}], secs[x])]
           iter == CHOOSE g : g = Body(g)
<1>1. n \in Nat /\ DOMAIN secs = 1 .. n
    OBVIOUS
<1>2. FoldLeft(Walk, 0, secs) = iter[1 .. n]
    BY <1>1 DEF FoldLeft, MapThenFoldSet
<1>3. ASSUME NEW k \in 1 .. n, NEW c \in Int PROVE Walk(c, secs[k]) \in Int
    <2>1. secs[k] \in Sections
        BY <1>1
    <2> QED BY <2>1 DEF Walk, Refused, Sections
<1>4. step \in [1 .. n -> [Int -> Int]]
    BY <1>3
<1>5. \A k \in 1 .. n, c \in Int : step[k][c] = Walk(c, secs[k])
    OBVIOUS
<1> HIDE DEF step, n
<1>6. \E g : g = Body(g)
    <2>1. PICK g \in [SUBSET (1 .. n) -> Int] : IsFold(g, 0, step, n)
        <3>1. 0 \in Int /\ n \in Nat
            BY <1>1
        <3> QED BY <1>4, <3>1, FoldExists
    <2>2. ASSUME NEW s \in SUBSET (1 .. n), s # {}
          PROVE  g[s] = Walk(g[s \ {Max(s)}], secs[Max(s)])
        <3>1. Max(s) \in 1 .. n /\ s \ {Max(s)} \in SUBSET (1 .. n)
            BY <1>1, <2>2, GreatestPosition
        <3>2. g[s] = step[Max(s)][g[s \ {Max(s)}]]
            BY <2>1, <2>2 DEF IsFold
        <3>3. g[s \ {Max(s)}] \in Int
            BY <3>1
        <3> QED BY <1>5, <3>1, <3>2, <3>3
    <2>3. g[{}] = 0
        BY <2>1 DEF IsFold
    <2>4. g = Body(g)
        BY <1>1, <2>1, <2>2, <2>3
    <2> QED BY <2>4
<1>7. iter = Body(iter)
    BY <1>6
<1>8. /\ iter[{}] = 0
      /\ \A s \in SUBSET (1 .. n) : s # {} => iter[s] = Walk(iter[s \ {Max(s)}], secs[Max(s)])
    BY <1>1, <1>7
<1> HIDE DEF iter
<1> DEFINE V == Int
<1>9. Folds(iter, 0, step, n, V)
    <2> SUFFICES ASSUME NEW s \in SUBSET (1 .. n), s # {}, iter[s \ {Max(s)}] \in Int
                 PROVE  iter[s] = step[Max(s)][iter[s \ {Max(s)}]]
        BY <1>8 DEF Folds
    <2>1. Max(s) \in 1 .. n
        BY <1>1, GreatestPosition
    <2>2. iter[s] = Walk(iter[s \ {Max(s)}], secs[Max(s)])
        BY <1>8
    <2> QED BY <1>5, <2>1, <2>2
<1>10. step \in [1 .. n -> [V -> V]] /\ n \in Nat /\ 0 \in V
    BY <1>1, <1>4
<1> HIDE DEF V
<1> SUFFICES ASSUME Folds(iter, 0, step, n, V), step \in [1 .. n -> [V -> V]], n \in Nat, 0 \in V
             PROVE  \E at : IsWalk(at, secs) /\ FoldLeft(Walk, 0, secs) = at[Len(secs)]
    BY <1>9, <1>10
<1>11. /\ iter[1 .. 0] = 0
       /\ \A k \in 0 .. n : iter[1 .. k] \in V
       /\ \A k \in 1 .. n : iter[1 .. k] = step[k][iter[1 .. k - 1]]
    BY FoldOnPrefixes, SMTT(30)
<1>12. \A k \in 0 .. n : iter[1 .. k] \in Int
    BY <1>11 DEF V
<1> DEFINE at == [k \in 0 .. n |-> iter[1 .. k]]
<1>13. at \in [0 .. n -> Int] /\ at[0] = 0 /\ at[n] = iter[1 .. n]
    BY <1>1, <1>11, <1>12
<1>14. ASSUME NEW k \in 1 .. n PROVE at[k] = Walk(at[k - 1], secs[k])
    <2>1. k - 1 \in 0 .. n /\ k \in 0 .. n
        BY <1>1
    <2> QED BY <1>5, <1>11, <1>12, <2>1
<1> HIDE DEF at
<1>15. IsWalk(at, secs)
    BY <1>13, <1>14 DEF IsWalk, n
<1>16. FoldLeft(Walk, 0, secs) = at[Len(secs)]
    BY <1>2, <1>13 DEF n
<1> QED BY <1>15, <1>16

\* The sections of a sequence, by their first and their last.
LEMMA SectionsTyped ==
    ASSUME NEW S, NEW secs \in Seq(S \X S)
    PROVE  /\ Len(secs) \in Nat /\ DOMAIN secs = 1 .. Len(secs)
           /\ \A k \in 1 .. Len(secs) : secs[k][1] \in S /\ secs[k][2] \in S
<1>1. Len(secs) \in Nat /\ DOMAIN secs = 1 .. Len(secs)
    OBVIOUS
<1>2. \A k \in 1 .. Len(secs) : secs[k] \in S \X S
    BY <1>1
<1>3. ASSUME NEW k \in 1 .. Len(secs) PROVE secs[k][1] \in S /\ secs[k][2] \in S
    BY <1>2
<1> QED BY <1>1, <1>3

\* Intervals in order that leave no position out.
InOrder(F, L, n, total) ==
    /\ F \in [1 .. n -> 0 .. total - 1] /\ L \in [1 .. n -> 0 .. total - 1]
    /\ \A k \in 1 .. n : F[k] <= L[k]
    /\ \A j, k \in 1 .. n : j < k => L[j] < F[k]
    /\ \A i \in 0 .. total - 1 : \E k \in 1 .. n : F[k] <= i /\ i <= L[k]

\* Ordered intervals that leave no position out follow each other from the first
\* position to the last.
LEMMA Contiguous ==
    ASSUME NEW total \in Nat \ {0}, NEW n \in Nat, NEW F, NEW L, InOrder(F, L, n, total)
    PROVE  /\ n >= 1 /\ F[1] = 0 /\ L[n] = total - 1
           /\ \A k \in 2 .. n : F[k] = L[k - 1] + 1
<1>1. n >= 1
    <2>1. 0 \in 0 .. total - 1
        OBVIOUS
    <2> QED BY <2>1 DEF InOrder
<1>2. 1 \in 1 .. n /\ n \in 1 .. n
    BY <1>1
<1>3. \A k \in 1 .. n : F[k] \in Int /\ L[k] \in Int /\ 0 <= F[k] /\ F[k] <= L[k] /\ L[k] <= total - 1
    BY DEF InOrder
<1>4. ASSUME NEW j \in 1 .. n, NEW k \in 1 .. n, j < k PROVE L[j] < F[k]
    BY <1>4 DEF InOrder
<1>5. ASSUME NEW i \in Int, 0 <= i, i <= total - 1 PROVE \E k \in 1 .. n : F[k] <= i /\ i <= L[k]
    <2>1. i \in 0 .. total - 1
        BY <1>5
    <2> QED BY <2>1 DEF InOrder
<1>6. F[1] = 0
    <2>1. PICK k \in 1 .. n : F[k] <= 0 /\ 0 <= L[k]
        BY <1>5
    <2>2. k = 1 \/ 1 < k
        OBVIOUS
    <2>3. 1 < k => L[1] < F[k]
        BY <1>2, <1>4
    <2> QED BY <1>2, <1>3, <2>1, <2>2, <2>3
<1>7. L[n] = total - 1
    <2>1. PICK k \in 1 .. n : F[k] <= total - 1 /\ total - 1 <= L[k]
        BY <1>5
    <2>2. k = n \/ k < n
        OBVIOUS
    <2>3. k < n => L[k] < F[n]
        BY <1>2, <1>4
    <2> QED BY <1>2, <1>3, <2>1, <2>2, <2>3
<1>8. ASSUME NEW k \in 2 .. n PROVE F[k] = L[k - 1] + 1
    <2>1. k - 1 \in 1 .. n /\ k \in 1 .. n /\ k - 1 < k
        OBVIOUS
    <2>2. L[k - 1] < F[k]
        BY <1>4, <2>1
    <2>3. L[k - 1] \in Int /\ F[k] \in Int /\ 0 <= L[k - 1] /\ F[k] <= total - 1
        BY <1>3, <2>1
    <2>4. PICK j \in 1 .. n : F[j] <= L[k - 1] + 1 /\ L[k - 1] + 1 <= L[j]
        BY <1>5, <2>2, <2>3
    <2>5. F[j] \in Int /\ L[j] \in Int
        BY <1>3
    <2>6. j = k \/ k < j \/ j = k - 1 \/ j < k - 1
        OBVIOUS
    <2>7. ~(k < j)
        <3>1. k < j => L[k] < F[j] /\ F[k] <= L[k] /\ L[k] \in Int
            BY <1>3, <1>4, <2>1
        <3> QED BY <2>2, <2>3, <2>4, <2>5, <3>1
    <2>8. ~(j < k - 1)
        <3>1. j < k - 1 => L[j] < F[k - 1] /\ F[k - 1] <= L[k - 1] /\ F[k - 1] \in Int
            BY <1>3, <1>4, <2>1
        <3> QED BY <2>3, <2>4, <2>5, <3>1
    <2>9. j # k - 1
        BY <2>3, <2>4
    <2>10. F[k] <= L[k - 1] + 1
        BY <2>4, <2>6, <2>7, <2>8, <2>9
    <2> QED BY <2>2, <2>3, <2>10
<1> QED BY <1>1, <1>6, <1>7, <1>8

\* A plan that covers the source goes from its first cue to its last without a
\* gap.
LEMMA CoveringIsContiguous ==
    ASSUME NEW total \in Nat \ {0}, NEW secs \in Seq((0 .. total - 1) \X (0 .. total - 1)),
           Covers(secs, total)
    PROVE  /\ Len(secs) >= 1 /\ secs[1][1] = 0 /\ secs[Len(secs)][2] = total - 1
           /\ \A k \in 2 .. Len(secs) : secs[k][1] = secs[k - 1][2] + 1
<1> DEFINE n == Len(secs)
           F == [k \in 1 .. n |-> secs[k][1]]
           L == [k \in 1 .. n |-> secs[k][2]]
<1>1. /\ n \in Nat /\ DOMAIN secs = 1 .. n
      /\ \A k \in 1 .. n : secs[k][1] \in 0 .. total - 1 /\ secs[k][2] \in 0 .. total - 1
    BY SectionsTyped
<1>2. /\ \A k \in 1 .. n : secs[k][1] <= secs[k][2]
      /\ \A k \in 1 .. n : \A j \in 1 .. k - 1 : secs[j][2] < secs[k][1]
      /\ \A i \in 0 .. total - 1 : \E k \in 1 .. n : secs[k][1] <= i /\ i <= secs[k][2]
    <2>1. /\ \A k \in 1 .. n : secs[k][1] <= secs[k][2]
          /\ \A k \in 1 .. n : \A j \in 1 .. k - 1 : secs[j][2] < secs[k][1]
        BY <1>1 DEF Covers
    <2>2. \A i \in 0 .. total - 1 : \E k \in 1 .. n : i \in secs[k][1] .. secs[k][2]
        BY <1>1 DEF Covers
    <2>3. ASSUME NEW i \in 0 .. total - 1 PROVE \E k \in 1 .. n : secs[k][1] <= i /\ i <= secs[k][2]
        <3>1. PICK k \in 1 .. n : i \in secs[k][1] .. secs[k][2]
            BY <2>2
        <3>2. secs[k][1] <= i /\ i <= secs[k][2]
            BY <3>1
        <3> QED BY <3>2
    <2> QED BY <2>1, <2>3
<1> HIDE DEF n
<1>3. F \in [1 .. n -> 0 .. total - 1] /\ L \in [1 .. n -> 0 .. total - 1]
    BY <1>1
<1>4. \A k \in 1 .. n : F[k] = secs[k][1] /\ L[k] = secs[k][2]
    OBVIOUS
<1> HIDE DEF F, L
<1>5. \A k \in 1 .. n : F[k] <= L[k]
    BY <1>2, <1>4
<1>6. \A j, k \in 1 .. n : j < k => L[j] < F[k]
    <2> SUFFICES ASSUME NEW j \in 1 .. n, NEW k \in 1 .. n, j < k PROVE L[j] < F[k]
        OBVIOUS
    <2>1. j \in 1 .. k - 1
        OBVIOUS
    <2> QED BY <1>2, <1>4, <2>1
<1>7. \A i \in 0 .. total - 1 : \E k \in 1 .. n : F[k] <= i /\ i <= L[k]
    BY <1>2, <1>4
<1>8. n >= 1 /\ F[1] = 0 /\ L[n] = total - 1 /\ \A k \in 2 .. n : F[k] = L[k - 1] + 1
    <2>1. InOrder(F, L, n, total)
        BY <1>3, <1>5, <1>6, <1>7 DEF InOrder
    <2> QED BY <1>1, <2>1, Contiguous
<1>9. 1 \in 1 .. n /\ n \in 1 .. n /\ \A k \in 2 .. n : k \in 1 .. n /\ k - 1 \in 1 .. n
    BY <1>1, <1>8
<1> QED BY <1>4, <1>8, <1>9 DEF n

\* Sections that follow each other from the first cue to the last.
Follow(secs, total) ==
    /\ secs # << >> /\ secs[1][1] = 0 /\ secs[Len(secs)][2] = total - 1
    /\ \A k \in 2 .. Len(secs) : secs[k][1] = secs[k - 1][2] + 1
    /\ \A k \in 1 .. Len(secs) : secs[k][1] <= secs[k][2]

\* The host accepts them.
LEMMA FollowingIsAccepted ==
    ASSUME NEW total \in Nat \ {0}, NEW secs \in Seq(Sections), Follow(secs, total)
    PROVE  secs # << >> /\ FoldLeft(Walk, 0, secs) = total
<1> DEFINE n == Len(secs)
<1>1. /\ n \in Nat \ {0} /\ secs[1][1] = 0 /\ secs[n][2] = total - 1
      /\ \A k \in 2 .. n : secs[k][1] = secs[k - 1][2] + 1
      /\ secs # << >>
    BY DEF Follow
<1>2. /\ \A k \in 1 .. n : secs[k][1] \in Int /\ secs[k][2] \in Int
      /\ \A k \in 1 .. n : secs[k][1] <= secs[k][2]
    BY SectionsTyped DEF Follow, Sections
<1>3. PICK at : IsWalk(at, secs) /\ FoldLeft(Walk, 0, secs) = at[n]
    BY WalkIsFold
<1> HIDE DEF n
<1>4. at[0] = 0 /\ \A k \in 1 .. n : at[k] = Walk(at[k - 1], secs[k])
    BY <1>3 DEF IsWalk, n
<1> DEFINE T == {k \in 0 .. n : k # 0 => at[k] = secs[k][2] + 1}
<1>5. 0 \in T
    BY <1>1
<1>6. ASSUME NEW k \in 0 .. n - 1, k \in T PROVE k + 1 \in T
    <2>1. k + 1 \in 1 .. n /\ k + 1 \in 0 .. n /\ (k + 1) - 1 = k
        BY <1>1
    <2>2. secs[k + 1][1] = at[k]
        <3>1. CASE k = 0
            BY <1>1, <1>4, <3>1
        <3>2. CASE k # 0
            <4>1. k + 1 \in 2 .. n
                BY <1>1, <3>2
            <4> QED BY <1>1, <1>6, <2>1, <3>2, <4>1
        <3> QED BY <3>1, <3>2
    <2>3. at[k + 1] = Walk(at[k], secs[k + 1])
        BY <1>4, <2>1
    <2>4. at[k + 1] = secs[k + 1][2] + 1
        BY <1>2, <2>1, <2>2, <2>3 DEF Walk
    <2> QED BY <2>1, <2>4
<1> HIDE DEF T
<1>7. \A k \in 0 .. n : k \in T
    BY <1>1, <1>5, <1>6, UpToBound
<1>8. at[n] = total
    <2>1. n \in 0 .. n /\ n # 0
        BY <1>1
    <2> QED BY <1>1, <1>7, <2>1 DEF T
<1> QED BY <1>1, <1>3, <1>8

\* The host accepts what covers the source.
LEMMA CoveringIsAccepted ==
    ASSUME NEW total \in Nat \ {0}, NEW secs \in Seq((0 .. total - 1) \X (0 .. total - 1)),
           Covers(secs, total)
    PROVE  secs # << >> /\ FoldLeft(Walk, 0, secs) = total
<1>1. Follow(secs, total)
    <2>1. /\ Len(secs) >= 1 /\ secs[1][1] = 0 /\ secs[Len(secs)][2] = total - 1
          /\ \A k \in 2 .. Len(secs) : secs[k][1] = secs[k - 1][2] + 1
        BY CoveringIsContiguous
    <2>2. Len(secs) >= 1 => secs # << >>
        OBVIOUS
    <2>3. \A k \in 1 .. Len(secs) : secs[k][1] <= secs[k][2]
        BY DOMAIN secs = 1 .. Len(secs) DEF Covers
    <2> QED BY <2>1, <2>2, <2>3, Zenon DEF Follow
<1>2. secs \in Seq(Sections)
    <2>1. (0 .. total - 1) \X (0 .. total - 1) \subseteq Sections
        BY DEF Sections
    <2> QED BY <2>1
<1> QED BY <1>1, <1>2, FollowingIsAccepted

\* A cursor that is never refused starts every section where it stands and ends
\* behind the section.
Walked(F, L, at, n) ==
    /\ at[0] = 0
    /\ \A k \in 1 .. n : F[k] \in Int /\ L[k] \in Int
    /\ \A k \in 1 .. n : F[k] = at[k - 1] /\ F[k] <= L[k] /\ at[k] = L[k] + 1

\* It leaves every section behind it, and no position out.
LEMMA WalkedCovers ==
    ASSUME NEW n \in Nat, NEW F, NEW L, NEW at, Walked(F, L, at, n)
    PROVE  /\ \A k \in 1 .. n : \A j \in 1 .. k - 1 : L[j] < F[k]
           /\ \A i \in 0 .. at[n] - 1 : \E k \in 1 .. n : F[k] <= i /\ i <= L[k]
<1>1. \A k \in 1 .. n : F[k] \in Int /\ L[k] \in Int /\ F[k] = at[k - 1] /\ F[k] <= L[k] /\ at[k] = L[k] + 1
    BY DEF Walked
<1>2. at[0] = 0
    BY DEF Walked
<1>3. \A k \in 0 .. n : at[k] \in Int
    <2> SUFFICES ASSUME NEW k \in 0 .. n PROVE at[k] \in Int
        OBVIOUS
    <2>1. CASE k = 0
        BY <1>2, <2>1
    <2>2. CASE k # 0
        <3>1. k \in 1 .. n
            BY <2>2
        <3> QED BY <1>1, <3>1
    <2> QED BY <2>1, <2>2
<1> DEFINE T == {k \in 0 .. n : \A j \in 1 .. k : L[j] < at[k]}
           U == {k \in 0 .. n : \A i \in Int : 0 <= i /\ i < at[k] =>
                                   \E j \in 1 .. k : F[j] <= i /\ i <= L[j]}
<1>4. 0 \in T /\ 0 \in U
    BY <1>2
<1>5. ASSUME NEW k \in 0 .. n - 1
      PROVE  /\ at[k] \in Int /\ F[k + 1] \in Int /\ L[k + 1] \in Int
             /\ F[k + 1] = at[k] /\ F[k + 1] <= L[k + 1] /\ at[k + 1] = L[k + 1] + 1
    <2>1. k \in 0 .. n /\ k + 1 \in 1 .. n /\ (k + 1) - 1 = k
        OBVIOUS
    <2> HIDE DEF T, U
    <2>2. at[k] \in Int
        BY <1>3, <2>1
    <2>3. F[k + 1] = at[k]
        <3>1. F[k + 1] = at[(k + 1) - 1]
            BY <1>1, <2>1, Zenon
        <3> QED BY <2>1, <3>1
    <2>4. F[k + 1] \in Int /\ L[k + 1] \in Int /\ F[k + 1] <= L[k + 1] /\ at[k + 1] = L[k + 1] + 1
        BY <1>1, <2>1, Zenon
    <2> QED BY <2>2, <2>3, <2>4, Zenon
<1>6. ASSUME NEW k \in 0 .. n - 1, k \in T PROVE k + 1 \in T
    <2>0. /\ at[k] \in Int /\ F[k + 1] \in Int /\ L[k + 1] \in Int
          /\ F[k + 1] = at[k] /\ F[k + 1] <= L[k + 1] /\ at[k + 1] = L[k + 1] + 1
        BY <1>5, Zenon
    <2>1. ASSUME NEW j \in 1 .. k + 1 PROVE L[j] < at[k + 1]
        <3>1. CASE j = k + 1
            <4>1. L[k + 1] < at[k + 1]
                BY <2>0
            <4> QED BY <3>1, <4>1, Zenon
        <3>2. CASE j # k + 1
            <4>1. j \in 1 .. k /\ j \in 1 .. n
                BY <3>2
            <4>2. L[j] < at[k] /\ L[j] \in Int
                BY <1>1, <1>6, <4>1
            <4> QED BY <2>0, <4>2
        <3> QED BY <3>1, <3>2
    <2>2. k + 1 \in 0 .. n
        OBVIOUS
    <2> QED BY <2>1, <2>2
<1>7. ASSUME NEW k \in 0 .. n - 1, k \in U PROVE k + 1 \in U
    <2>0. /\ at[k] \in Int /\ F[k + 1] \in Int /\ L[k + 1] \in Int
          /\ F[k + 1] = at[k] /\ F[k + 1] <= L[k + 1] /\ at[k + 1] = L[k + 1] + 1
        BY <1>5, Zenon
    <2>1. ASSUME NEW i \in Int, 0 <= i, i < at[k + 1]
          PROVE  \E j \in 1 .. k + 1 : F[j] <= i /\ i <= L[j]
        <3>1. CASE i < at[k]
            <4>1. PICK j \in 1 .. k : F[j] <= i /\ i <= L[j]
                BY <1>7, <2>1, <3>1
            <4>2. j \in 1 .. k + 1
                OBVIOUS
            <4> QED BY <4>1, <4>2
        <3>2. CASE ~(i < at[k])
            <4>1. F[k + 1] <= i /\ i <= L[k + 1]
                BY <2>0, <2>1, <3>2
            <4>2. k + 1 \in 1 .. k + 1
                OBVIOUS
            <4> QED BY <4>1, <4>2
        <3> QED BY <3>1, <3>2
    <2>2. k + 1 \in 0 .. n
        OBVIOUS
    <2> QED BY <2>1, <2>2
<1> HIDE DEF T, U
<1>8. \A k \in 0 .. n : k \in T
    BY <1>4, <1>6, UpToBound
<1>9. \A k \in 0 .. n : k \in U
    BY <1>4, <1>7, UpToBound
<1>10. ASSUME NEW k \in 1 .. n, NEW j \in 1 .. k - 1 PROVE L[j] < F[k]
    <2>1. k - 1 \in 0 .. n
        OBVIOUS
    <2>2. L[j] < at[k - 1]
        BY <1>8, <2>1 DEF T
    <2> QED BY <1>1, <2>2
<1>11. ASSUME NEW i \in 0 .. at[n] - 1 PROVE \E k \in 1 .. n : F[k] <= i /\ i <= L[k]
    <2>1. n \in 0 .. n /\ at[n] \in Int
        BY <1>3
    <2>2. i \in Int /\ 0 <= i /\ i < at[n]
        BY <2>1
    <2> QED BY <1>9, <2>1, <2>2 DEF U
<1> QED BY <1>10, <1>11

\* A cursor that was refused stays refused, and one that comes to the end was
\* never refused.
LEMMA NeverRefused ==
    ASSUME NEW total \in Nat \ {0}, NEW secs \in Seq((0 .. total - 1) \X (0 .. total - 1)),
           NEW at, IsWalk(at, secs), at[Len(secs)] = total
    PROVE  \A k \in 0 .. Len(secs) : at[k] # Refused
<1> DEFINE n == Len(secs)
<1>1. /\ n \in Nat
      /\ \A k \in 1 .. n : secs[k][1] \in 0 .. total - 1 /\ secs[k][2] \in 0 .. total - 1
    BY SectionsTyped
<1>2. \A k \in 1 .. n : at[k] = Walk(at[k - 1], secs[k])
    BY DEF IsWalk
<1>3. at[n] # Refused
    BY DEF Refused
<1> HIDE DEF n
<1> DEFINE T == {k \in 0 .. n : \A j \in 0 .. k : at[j] = Refused => at[k] = Refused}
<1>4. 0 \in T
    BY <1>1
<1>5. ASSUME NEW k \in 0 .. n - 1, k \in T PROVE k + 1 \in T
    <2>1. k + 1 \in 1 .. n /\ (k + 1) - 1 = k /\ k + 1 \in 0 .. n
        BY <1>1
    <2>2. at[k] = Refused => at[k + 1] = Refused
        <3>1. at[k + 1] = Walk(at[k], secs[k + 1])
            BY <1>2, <2>1
        <3>2. secs[k + 1][1] # Refused
            BY <1>1, <2>1 DEF Refused
        <3> QED BY <3>1, <3>2 DEF Walk
    <2>3. \A j \in 0 .. k + 1 : j = k + 1 \/ j \in 0 .. k
        BY <1>1
    <2> QED BY <1>5, <2>1, <2>2, <2>3
<1> HIDE DEF T
<1>6. \A k \in 0 .. n : k \in T
    BY <1>1, <1>4, <1>5, UpToBound
<1>7. n \in T
    BY <1>1, <1>6
<1> QED BY <1>3, <1>7 DEF T, n

\* What the host accepts covers the source.
LEMMA AcceptedIsCovering ==
    ASSUME NEW total \in Nat \ {0}, NEW secs \in Seq((0 .. total - 1) \X (0 .. total - 1)),
           FoldLeft(Walk, 0, secs) = total
    PROVE  Covers(secs, total)
<1> DEFINE n == Len(secs)
           F == [k \in 1 .. n |-> secs[k][1]]
           L == [k \in 1 .. n |-> secs[k][2]]
<1>1. /\ n \in Nat /\ DOMAIN secs = 1 .. n
      /\ \A k \in 1 .. n : secs[k][1] \in 0 .. total - 1 /\ secs[k][2] \in 0 .. total - 1
    BY SectionsTyped
<1>2. secs \in Seq(Sections)
    <2>1. (0 .. total - 1) \X (0 .. total - 1) \subseteq Sections
        BY DEF Sections
    <2> QED BY <2>1
<1>3. PICK at : IsWalk(at, secs) /\ FoldLeft(Walk, 0, secs) = at[n]
    BY <1>2, WalkIsFold
<1>4. at[n] = total
    BY <1>3
<1>5. \A k \in 0 .. n : at[k] # Refused
    BY <1>3, <1>4, NeverRefused
<1>6. at[0] = 0 /\ \A k \in 1 .. n : at[k] = Walk(at[k - 1], secs[k])
    BY <1>3 DEF IsWalk
<1> HIDE DEF n
<1>7. ASSUME NEW k \in 1 .. n
      PROVE  secs[k][1] = at[k - 1] /\ secs[k][1] <= secs[k][2] /\ at[k] = secs[k][2] + 1
    <2>1. at[k] = Walk(at[k - 1], secs[k]) /\ at[k] # Refused
        BY <1>1, <1>5, <1>6
    <2>2. secs[k][1] \in Int /\ secs[k][2] \in Int
        BY <1>1
    <2>3. ~(secs[k][1] # at[k - 1] \/ secs[k][2] < at[k - 1]) /\ at[k] = secs[k][2] + 1
        BY <2>1 DEF Walk
    <2> QED BY <2>2, <2>3
<1>8. \A k \in 1 .. n : F[k] = secs[k][1] /\ L[k] = secs[k][2]
    OBVIOUS
<1> HIDE DEF F, L
<1>9. Walked(F, L, at, n)
    <2>1. \A k \in 1 .. n : secs[k][1] \in Int /\ secs[k][2] \in Int
        BY <1>1
    <2> QED BY <1>6, <1>7, <1>8, <2>1 DEF Walked
<1>10. /\ \A k \in 1 .. n : \A j \in 1 .. k - 1 : L[j] < F[k]
       /\ \A i \in 0 .. at[n] - 1 : \E k \in 1 .. n : F[k] <= i /\ i <= L[k]
    BY <1>1, <1>9, WalkedCovers
<1>11. \A k \in 1 .. n : \A j \in 1 .. k - 1 : secs[j][2] < secs[k][1]
    <2>1. \A k \in 1 .. n : 1 .. k - 1 \subseteq 1 .. n
        BY <1>1
    <2> QED BY <1>8, <1>10, <2>1
<1>12. ASSUME NEW i \in 0 .. total - 1 PROVE \E k \in 1 .. n : i \in secs[k][1] .. secs[k][2]
    <2>1. PICK k \in 1 .. n : secs[k][1] <= i /\ i <= secs[k][2]
        BY <1>4, <1>8, <1>10
    <2>2. secs[k][1] \in Int /\ secs[k][2] \in Int
        BY <1>1
    <2>3. i \in secs[k][1] .. secs[k][2]
        BY <2>1, <2>2
    <2> QED BY <2>3
<1> QED BY <1>1, <1>7, <1>11, <1>12 DEF Covers

-----------------------------------------------------------------------------
(* The document, and its opening. *)

CueType == [end : EndTimes, break : BOOLEAN]

DispatchTypes ==
    /\ stream \in BOOLEAN
    /\ doc \in Seq(CueType)
    /\ plan \in Seq(Positions \X Positions)

\* Cues are appended to a document, and sections of its positions to a plan.
LEMMA TypesKept ==
    ASSUME DispatchTypes, [DispatchStep]_dispatch
    PROVE  DispatchTypes'
<1>1. CASE AddCue
    <2>1. PICK end \in EndTimes, break \in BOOLEAN : doc' = Append(doc, [end |-> end, break |-> break])
        BY <1>1 DEF AddCue
    <2>2. [end |-> end, break |-> break] \in CueType
        BY DEF CueType
    <2>3. doc' \in Seq(CueType)
        BY <2>1, <2>2 DEF DispatchTypes
    <2>4. plan' = << >> /\ stream' = stream
        BY <1>1 DEF AddCue
    <2> QED BY <2>3, <2>4 DEF DispatchTypes
<1>2. CASE AddSection
    <2>1. PICK first \in Positions, last \in Positions : plan' = Append(plan, <<first, last>>)
        BY <1>2 DEF AddSection
    <2>2. doc' = doc /\ stream' = stream /\ Positions' = Positions
        BY <1>2 DEF AddSection, Positions, Total
    <2>3. <<first, last>> \in Positions \X Positions
        OBVIOUS
    <2>4. plan' \in Seq(Positions \X Positions)
        BY <2>1, <2>3 DEF DispatchTypes
    <2> QED BY <2>2, <2>4 DEF DispatchTypes
<1>3. CASE UNCHANGED dispatch
    BY <1>3 DEF dispatch, DispatchTypes, Positions, Total
<1> QED BY <1>1, <1>2, <1>3 DEF DispatchStep

\* The cues of a document that has one.
LEMMA DocumentTyped ==
    ASSUME DispatchTypes, doc # << >>
    PROVE  /\ Total \in Nat \ {0} /\ Positions = 0 .. Total - 1
           /\ \A i \in Positions : Cue(i).end \in Nat \ {0} /\ Cue(i).break \in BOOLEAN
<1>1. doc \in Seq(CueType) /\ EndTimes \subseteq Nat \ {0}
    BY DispatchOK DEF DispatchTypes
<1>2. Total \in Nat \ {0} /\ DOMAIN doc = 1 .. Total
    BY <1>1 DEF Total
<1>3. Positions = 0 .. Total - 1
    BY DEF Positions
<1>4. ASSUME NEW i \in Positions PROVE Cue(i).end \in Nat \ {0} /\ Cue(i).break \in BOOLEAN
    <2>1. i + 1 \in 1 .. Total
        BY <1>2, <1>3
    <2>2. doc[i + 1] \in CueType
        BY <1>1, <1>2, <2>1
    <2>3. Cue(i) \in CueType
        BY <2>2 DEF Cue
    <2> QED BY <1>1, <2>3 DEF CueType
<1> QED BY <1>2, <1>3, <1>4

\* The target is a length of time.
LEMMA TargetTyped ==
    ASSUME DispatchTypes, doc # << >>
    PROVE  Target \in Nat
<1>1. /\ Total \in Nat \ {0} /\ Positions = 0 .. Total - 1
      /\ \A i \in Positions : Cue(i).end \in Nat \ {0}
    BY DocumentTyped
<1> DEFINE ends == {Cue(i).end : i \in Positions}
           T == {k \in 0 .. Total - 1 : \E n \in Nat : \A i \in 0 .. k : Cue(i).end <= n}
<1>2. 0 \in T
    <2>1. Cue(0).end \in Nat /\ 0 \in 0 .. Total - 1 /\ \A i \in 0 .. 0 : i = 0
        BY <1>1
    <2>2. \A i \in 0 .. 0 : Cue(i).end <= Cue(0).end
        BY <2>1
    <2> QED BY <2>1, <2>2
<1>3. ASSUME NEW k \in 0 .. (Total - 1) - 1, k \in T PROVE k + 1 \in T
    <2>1. PICK n \in Nat : \A i \in 0 .. k : Cue(i).end <= n
        BY <1>3
    <2>2. k + 1 \in 0 .. Total - 1 /\ k + 1 \in Positions
        BY <1>1
    <2>3. PICK m \in Nat : m = Cue(k + 1).end
        BY <1>1, <2>2
    <2>4. ASSUME NEW i \in 0 .. k + 1 PROVE Cue(i).end <= n + m
        <3>1. CASE i = k + 1
            BY <2>3, <3>1
        <3>2. CASE i # k + 1
            <4>1. i \in 0 .. k /\ i \in Positions
                BY <1>1, <3>2
            <4>2. Cue(i).end <= n /\ Cue(i).end \in Nat
                BY <1>1, <2>1, <4>1
            <4> QED BY <4>2
        <3> QED BY <3>1, <3>2
    <2>5. n + m \in Nat
        OBVIOUS
    <2> QED BY <2>2, <2>4, <2>5
<1>4. Total - 1 \in Nat
    BY <1>1
<1> HIDE DEF T
<1>5. \A k \in 0 .. Total - 1 : k \in T
    BY <1>2, <1>3, <1>4, UpToBound
<1>6. Total - 1 \in T
    BY <1>4, <1>5
<1>7. PICK n \in Nat : \A i \in 0 .. Total - 1 : Cue(i).end <= n
    BY <1>6 DEF T
<1>8. ends \in SUBSET (0 .. n)
    BY <1>1, <1>7
<1>9. ends # {}
    <2>1. 0 \in Positions
        BY <1>1
    <2> QED BY <2>1
<1> HIDE DEF ends
<1>10. Max(ends) \in Nat
    <2>1. 0 \in Int /\ n \in Int
        OBVIOUS
    <2>2. Max(ends) \in ends
        BY <1>8, <1>9, <2>1, GreatestIs
    <2>3. Max(ends) \in 0 .. n
        BY <1>8, <2>2, Zenon
    <2> QED BY <2>3
<1>11. Duration \in Nat
    BY <1>10 DEF Duration, ends
<1>12. 2 * Duration + 6 \in Nat /\ 2 * 6 \in Nat \ {0}
    BY <1>11
<1>13. (2 * Duration + 6) \div (2 * 6) \in Nat
    BY <1>12, Quotient
<1> QED BY <1>13 DEF Target, Rounded

\* The first cue that ends late enough, or the last cue.
LEMMA FirstLate ==
    ASSUME DispatchTypes, doc # << >>, NEW num, NEW den
    PROVE  /\ At(num, den) \in Positions
           /\ \A i \in Positions : den * Cue(i).end >= num * Target => At(num, den) <= i
           /\ At(num, den) = Total - 1 \/ den * Cue(At(num, den)).end >= num * Target
<1> DEFINE late == {i \in Positions : den * Cue(i).end >= num * Target}
<1>1. Total \in Nat \ {0} /\ Positions = 0 .. Total - 1
    BY DocumentTyped
<1>2. At(num, den) = IF late = {} THEN Total - 1 ELSE Min(late)
    BY DEF At
<1>3. late # {} => Min(late) \in late /\ \A i \in late : Min(late) <= i
    <2>1. 0 \in Int /\ \A i \in late : i \in Int /\ 0 <= i
        BY <1>1
    <2> HIDE DEF late
    <2> QED BY <2>1, LeastIs
<1>4. CASE late = {}
    BY <1>1, <1>2, <1>4
<1>5. CASE late # {}
    <2>1. At(num, den) \in late /\ \A i \in late : At(num, den) <= i
        BY <1>2, <1>3, <1>5
    <2> QED BY <2>1
<1> QED BY <1>4, <1>5

\* The suggested opening is one the check allows.
LEMMA OpeningAllowed ==
    ASSUME DispatchTypes, doc # << >>
    PROVE  SuggestedOpening \in Positions /\ SuggestedOpening \in OpeningMin .. OpeningMax
<1>1. /\ Total \in Nat \ {0} /\ Positions = 0 .. Total - 1
      /\ \A i \in Positions : Cue(i).end \in Nat
    BY DocumentTyped
<1>2. Target \in Nat
    BY TargetTyped
<1>3. /\ At(3, 4) \in Positions /\ At(1, 1) \in Positions /\ At(3, 2) \in Positions
    BY FirstLate
<1>4. At(3, 4) <= At(1, 1)
    <2>1. At(1, 1) = Total - 1 \/ 1 * Cue(At(1, 1)).end >= 1 * Target
        BY FirstLate
    <2>2. 4 * Cue(At(1, 1)).end >= 3 * Target => At(3, 4) <= At(1, 1)
        BY <1>3, FirstLate
    <2>3. Cue(At(1, 1)).end \in Nat
        BY <1>1, <1>3
    <2>4. At(3, 4) \in Int /\ At(3, 4) <= Total - 1
        BY <1>1, <1>3
    <2> QED BY <1>2, <2>1, <2>2, <2>3, <2>4
<1>5. At(1, 1) <= At(3, 2)
    <2>1. At(3, 2) = Total - 1 \/ 2 * Cue(At(3, 2)).end >= 3 * Target
        BY FirstLate
    <2>2. 1 * Cue(At(3, 2)).end >= 1 * Target => At(1, 1) <= At(3, 2)
        BY <1>3, FirstLate
    <2>3. Cue(At(3, 2)).end \in Nat
        BY <1>1, <1>3
    <2>4. At(1, 1) \in Int /\ At(1, 1) <= Total - 1
        BY <1>1, <1>3
    <2> QED BY <1>2, <2>1, <2>2, <2>3, <2>4
<1>6. Small \in Nat /\ Small <= Total - 1
    BY <1>1, DispatchOK DEF Small, Least
<1>7. /\ At(3, 4) \in Int /\ At(1, 1) \in Int /\ At(3, 2) \in Int
      /\ 0 <= At(1, 1) /\ At(1, 1) <= Total - 1 /\ At(3, 2) <= Total - 1
    BY <1>1, <1>3
<1>8. SuggestedOpening = IF At(1, 1) < Small THEN Small ELSE At(1, 1)
    BY <1>5, <1>6, <1>7 DEF SuggestedOpening, OpeningMax, Least, Most
<1>9. OpeningMin \in Int /\ OpeningMin <= SuggestedOpening
    BY <1>4, <1>6, <1>7, <1>8, DispatchOK DEF OpeningMin
<1>10. OpeningMax \in Int /\ SuggestedOpening <= OpeningMax
    BY <1>5, <1>6, <1>7, <1>8 DEF OpeningMax, Most
<1>11. SuggestedOpening \in Int /\ 0 <= SuggestedOpening /\ SuggestedOpening <= Total - 1
    BY <1>1, <1>6, <1>7, <1>8
<1> QED BY <1>1, <1>9, <1>10, <1>11

-----------------------------------------------------------------------------
(* The sections after the opening. *)

\* The even boundaries begin at zero and end with the last cue.
LEMMA EvenEnds ==
    ASSUME NEW r \in Nat, NEW c \in Nat \ {0}
    PROVE  Rounded(r * 0, c) = 0 /\ Rounded(r * c, c) = r
<1>1. 2 * c \in Nat \ {0} /\ c \in Nat
    OBVIOUS
<1> DEFINE p == c \div (2 * c)
<1>2. p \in Nat /\ (2 * c) * p <= c
    BY <1>1, Quotient
<1> HIDE DEF p
<1>3. p = 0
    <2>1. p >= 1 => (2 * c) * p >= (2 * c) * 1
        BY <1>2
    <2> QED BY <1>2, <2>1
<1>4. Rounded(r * 0, c) = p
    BY r * 0 = 0, 2 * 0 + c = c DEF Rounded, p
<1> DEFINE x == 2 * (r * c) + c
           q == x \div (2 * c)
<1>5. x \in Nat
    BY r * c \in Nat
<1>6. q \in Nat /\ (2 * c) * q <= x /\ x < (2 * c) * q + 2 * c
    <2> HIDE DEF x
    <2> QED BY <1>1, <1>5, Quotient
<1>7. Rounded(r * c, c) = q
    BY DEF Rounded
<1> HIDE DEF q
<1>8. q = r
    <2>1. c * (2 * q) <= c * (2 * r + 1)
        BY <1>6
    <2>2. c * (2 * r + 1) < c * (2 * q + 2)
        BY <1>6
    <2>3. 2 * q <= 2 * r + 1
        BY <1>6, <2>1
    <2>4. 2 * r + 1 < 2 * q + 2
        BY <1>6, <2>2
    <2> QED BY <1>6, <2>3, <2>4
<1> QED BY <1>3, <1>4, <1>7, <1>8

\* Neighbouring even boundaries keep a distance there is room for.
LEMMA EvenGap ==
    ASSUME NEW r \in Nat, NEW c \in Nat \ {0}, NEW d \in Nat, c * d <= r, NEW i \in 1 .. c
    PROVE  Rounded(r * (i - 1), c) \in Nat /\ Rounded(r * (i - 1), c) + d <= Rounded(r * i, c)
<1>1. PICK a : a = r * (i - 1)
    OBVIOUS
<1>2. a \in Nat /\ r * i = a + r
    BY <1>1
<1> DEFINE x == 2 * a + c
           y == 2 * (a + r) + c
           q == x \div (2 * c)
<1>3. x \in Nat /\ y \in Nat /\ 2 * c \in Nat \ {0}
    BY <1>2
<1>4. q \in Nat /\ (2 * c) * q <= x
    <2> HIDE DEF x
    <2> QED BY <1>3, Quotient
<1>5. Rounded(r * (i - 1), c) = q /\ Rounded(r * i, c) = y \div (2 * c)
    BY <1>1, <1>2 DEF Rounded
<1> HIDE DEF q
<1>6. (2 * c) * (q + d) <= y
    <2>1. (2 * c) * (q + d) = (2 * c) * q + 2 * (c * d)
        BY <1>4
    <2>2. c * d \in Nat /\ (2 * c) * q \in Nat
        BY <1>4
    <2> QED BY <1>2, <1>4, <2>1, <2>2
<1> HIDE DEF x, y
<1>7. q + d <= y \div (2 * c)
    BY <1>3, <1>4, <1>6, QuotientAtLeast
<1> QED BY <1>4, <1>5, <1>7

\* Where the sections start, how many there are, and that there is room for them.
LEMMA Room ==
    ASSUME DispatchTypes, doc # << >>
    PROVE  /\ Start \in Nat /\ Start <= Total /\ Total \in Nat \ {0}
           /\ Remaining \in Nat /\ Start + Remaining = Total
           /\ Count \in Nat /\ Count <= MaxSubagents
           /\ Remaining = 0 => Count = 0
           /\ Remaining # 0 => Count # 0
           /\ Count = 1 \/ Count * (Window + 1) <= Remaining
           /\ ~stream => Start = 0
<1>1. Total \in Nat \ {0} /\ Positions = 0 .. Total - 1
    BY DocumentTyped
<1>2. SuggestedOpening \in Positions
    BY OpeningAllowed
<1>3. /\ Start \in Nat /\ Start <= Total /\ (~stream => Start = 0)
    BY <1>1, <1>2 DEF Start, OpeningEnd
<1>4. Remaining \in Nat /\ Start + Remaining = Total
    BY <1>1, <1>3 DEF Remaining
<1>5. PerAgent \in Nat \ {0} /\ PerAgent >= 2 * (Window + 1) /\ Window \in Nat /\ MaxSubagents \in Nat \ {0}
    BY DispatchOK
<1> DEFINE x == Remaining + PerAgent - 1
           q == x \div PerAgent
<1>6. x \in Nat
    BY <1>4, <1>5
<1>7. q \in Nat /\ PerAgent * q <= x /\ x < PerAgent * q + PerAgent
    <2> HIDE DEF x
    <2> QED BY <1>5, <1>6, Quotient
<1>8. Count = IF MaxSubagents < q THEN MaxSubagents ELSE q
    BY DEF Count, Least, CeilDiv
<1> HIDE DEF q
<1>9. Count \in Nat /\ Count <= MaxSubagents /\ Count <= q
    BY <1>5, <1>7, <1>8
<1>10. Remaining = 0 => Count = 0
    <2> SUFFICES ASSUME Remaining = 0 PROVE q = 0
        BY <1>5, <1>8
    <2>1. PerAgent * q < PerAgent * 1
        BY <1>5, <1>7
    <2> QED BY <1>5, <1>7, <2>1
<1>11. Remaining # 0 => Count # 0
    <2> SUFFICES ASSUME Remaining # 0 PROVE q # 0
        BY <1>5, <1>8
    <2>1. q = 0 => PerAgent * q = 0
        BY <1>5
    <2> QED BY <1>4, <1>5, <1>7, <2>1
<1>12. Count = 1 \/ Count * (Window + 1) <= Remaining
    <2>1. CASE Count = 0
        BY <1>4, <1>5, <2>1
    <2>2. CASE Count >= 2
        <3> DEFINE w == Window + 1
        <3>1. PerAgent * (q - 1) <= Remaining - 1
            BY <1>4, <1>5, <1>7
        <3>2. q - 1 >= Count - 1 /\ Count - 1 >= 1
            BY <1>7, <1>9, <2>2
        <3>3. PerAgent * (Count - 1) <= PerAgent * (q - 1)
            BY <1>5, <1>7, <1>9, <3>2
        <3>4. (2 * w) * (Count - 1) <= PerAgent * (Count - 1)
            BY <1>5, <1>9, <3>2
        <3>5. w * Count <= w * (2 * (Count - 1))
            BY <1>5, <1>9, <2>2
        <3>6. w * (2 * (Count - 1)) = (2 * w) * (Count - 1) /\ Count * w = w * Count
            BY <1>5, <1>9
        <3>7. /\ w * Count \in Int /\ (2 * w) * (Count - 1) \in Int
              /\ PerAgent * (Count - 1) \in Int /\ PerAgent * (q - 1) \in Int
            BY <1>5, <1>7, <1>9
        <3> HIDE DEF w
        <3>8. Count * w <= Remaining
            BY <1>4, <3>1, <3>3, <3>4, <3>5, <3>6, <3>7
        <3> QED BY <3>8 DEF w
    <2> QED BY <1>9, <2>1, <2>2
<1> QED BY <1>1, <1>3, <1>4, <1>9, <1>10, <1>11, <1>12

\* A boundary is the even one, or near it and not before the cursor.
LEMMA BoundaryIs ==
    ASSUME DispatchTypes, doc # << >>, NEW i \in 1 .. Count, Even(i) \in Int, NEW cursor \in Int
    PROVE  /\ Boundary(i, cursor) \in Int
           /\ i = Count => Boundary(i, cursor) = Even(i)
           /\ \/ Boundary(i, cursor) = Even(i)
              \/ cursor <= Boundary(i, cursor) /\ Boundary(i, cursor) <= Even(i) + Window
<1> DEFINE breaks == {n \in Candidates(i, cursor) : Cue(n).break}
           nearest == {n \in breaks : \A m \in breaks : Distance(n, i) <= Distance(m, i)}
<1>1. Window \in Nat
    BY DispatchOK
<1>2. \A n \in breaks : n \in Int /\ Even(i) - Window <= n /\ n <= Even(i) + Window /\ cursor <= n
    BY <1>1 DEF Candidates
<1>3. Boundary(i, cursor) = IF i = Count \/ breaks = {} THEN Even(i) ELSE Min(nearest)
    BY DEF Boundary
<1>4. ASSUME breaks # {} PROVE Min(nearest) \in breaks
    <2> DEFINE far == {Distance(n, i) : n \in breaks}
    <2>1. \A n \in breaks : Distance(n, i) \in Nat
        BY <1>2 DEF Distance
    <2>2. far \in SUBSET Nat /\ far # {}
        BY <1>4, <2>1
    <2> HIDE DEF breaks
    <2>3. PICK d \in far : \A e \in far : d <= e
        BY <2>2, LeastNumber
    <2>4. PICK n \in breaks : d = Distance(n, i)
        BY <2>3
    <2>5. \A m \in breaks : Distance(n, i) <= Distance(m, i)
        BY <2>3, <2>4
    <2>6. nearest # {}
        BY <2>4, <2>5
    <2>7. Even(i) - Window \in Int /\ \A m \in nearest : m \in Int /\ Even(i) - Window <= m
        BY <1>1, <1>2
    <2>8. Min(nearest) \in nearest
        <3> HIDE DEF nearest
        <3> QED BY <2>6, <2>7, LeastIs
    <2> QED BY <2>8
<1> HIDE DEF breaks, nearest
<1>5. CASE i = Count \/ breaks = {}
    BY <1>3, <1>5
<1>6. CASE ~(i = Count \/ breaks = {})
    <2>1. Boundary(i, cursor) \in breaks
        BY <1>3, <1>4, <1>6
    <2> QED BY <1>2, <1>6, <2>1
<1> QED BY <1>5, <1>6

\* What one more section makes of the cursor and the sections so far.
Acc == [cursor : Int, sections : Seq(Sections)]
Grown(acc, i) ==
    LET end == Boundary(i, acc.cursor)
    IN  [cursor |-> end + 1, sections |-> Append(acc.sections, <<acc.cursor, end>>)]

\* The cursor and the sections after every section of the suggestion.
IsGrowth(at) ==
    /\ at \in [0 .. Count -> Acc]
    /\ at[0] = [cursor |-> Start, sections |-> << >>]
    /\ \A k \in 1 .. Count : at[k] = Grown(at[k - 1], k)

\* Even boundaries are numbers.
LEMMA EvenTyped ==
    ASSUME DispatchTypes, doc # << >>
    PROVE  \A i \in 1 .. Count : Even(i) \in Int
<1>1. Start \in Nat /\ Remaining \in Nat /\ Count \in Nat
    BY Room
<1>2. ASSUME NEW i \in 1 .. Count PROVE Even(i) \in Int
    <2> DEFINE x == 2 * (Remaining * i) + Count
    <2>1. x \in Nat /\ 2 * Count \in Nat \ {0}
        <3>1. Remaining * i \in Nat /\ Count # 0
            BY <1>1, <1>2
        <3> QED BY <1>1, <3>1
    <2> HIDE DEF x
    <2>2. x \div (2 * Count) \in Nat
        BY <2>1, Quotient
    <2>3. Rounded(Remaining * i, Count) \in Nat
        BY <2>2 DEF Rounded, x
    <2> QED BY <1>1, <2>3 DEF Even
<1> QED BY <1>2

\* The suggestion grows section by section.
LEMMA SuggestionIsGrowth ==
    ASSUME DispatchTypes, doc # << >>
    PROVE  \E at : IsGrowth(at) /\ Suggestion = at[Count].sections
<1> DEFINE n == Count
           ids == [i \in 1 .. n |-> i]
           base == [cursor |-> Start, sections |-> << >>]
           step == [k \in 1 .. n |-> [acc \in Acc |-> Grown(acc, k)]]
           Body(g) == [s \in SUBSET DOMAIN ids |->
                          IF s = {} THEN base
                          ELSE LET x == Max(s) IN Grown(g[s \ {x}], ids[x])]
           iter == CHOOSE g : g = Body(g)
<1>1. n \in Nat /\ DOMAIN ids = 1 .. n /\ \A k \in 1 .. n : ids[k] = k
    BY Room
<1>2. Suggestion = iter[1 .. n].sections
    BY <1>1 DEF Suggestion, FoldLeft, MapThenFoldSet, Grown
<1>3. base \in Acc
    <2>1. Start \in Int /\ << >> \in Seq(Sections)
        BY Room
    <2> QED BY <2>1 DEF Acc
<1>4. ASSUME NEW k \in 1 .. n, NEW acc \in Acc PROVE Grown(acc, k) \in Acc
    <2>1. acc.cursor \in Int /\ acc.sections \in Seq(Sections)
        BY DEF Acc
    <2>2. Boundary(k, acc.cursor) \in Int
        BY <2>1, BoundaryIs, EvenTyped
    <2>3. <<acc.cursor, Boundary(k, acc.cursor)>> \in Sections
        BY <2>1, <2>2 DEF Sections
    <2>4. Append(acc.sections, <<acc.cursor, Boundary(k, acc.cursor)>>) \in Seq(Sections)
        BY <2>1, <2>3
    <2>5. Boundary(k, acc.cursor) + 1 \in Int
        BY <2>2
    <2> QED BY <2>4, <2>5 DEF Grown, Acc
<1>5. step \in [1 .. n -> [Acc -> Acc]]
    BY <1>4
<1>6. \A k \in 1 .. n, acc \in Acc : step[k][acc] = Grown(acc, k)
    OBVIOUS
<1> HIDE DEF step, n, base, ids
<1>7. \E g : g = Body(g)
    <2>1. PICK g \in [SUBSET (1 .. n) -> Acc] : IsFold(g, base, step, n)
        BY <1>1, <1>3, <1>5, FoldExists
    <2>2. ASSUME NEW s \in SUBSET (1 .. n), s # {}
          PROVE  g[s] = Grown(g[s \ {Max(s)}], ids[Max(s)])
        <3>1. Max(s) \in 1 .. n /\ s \ {Max(s)} \in SUBSET (1 .. n)
            BY <1>1, <2>2, GreatestPosition
        <3>2. g[s] = step[Max(s)][g[s \ {Max(s)}]]
            BY <2>1, <2>2 DEF IsFold
        <3>3. g[s \ {Max(s)}] \in Acc
            BY <3>1
        <3> QED BY <1>1, <1>6, <3>1, <3>2, <3>3
    <2>3. g[{}] = base
        BY <2>1 DEF IsFold
    <2>4. g = Body(g)
        BY <1>1, <2>1, <2>2, <2>3
    <2> QED BY <2>4
<1>8. iter = Body(iter)
    BY <1>7
<1>9. /\ iter[{}] = base
      /\ \A s \in SUBSET (1 .. n) : s # {} => iter[s] = Grown(iter[s \ {Max(s)}], ids[Max(s)])
    BY <1>1, <1>8
<1> HIDE DEF iter
<1>10. Folds(iter, base, step, n, Acc)
    <2> SUFFICES ASSUME NEW s \in SUBSET (1 .. n), s # {}, iter[s \ {Max(s)}] \in Acc
                 PROVE  iter[s] = step[Max(s)][iter[s \ {Max(s)}]]
        BY <1>9 DEF Folds
    <2>1. Max(s) \in 1 .. n
        BY <1>1, GreatestPosition
    <2>2. iter[s] = Grown(iter[s \ {Max(s)}], ids[Max(s)])
        BY <1>9
    <2> QED BY <1>1, <1>6, <2>1, <2>2
<1>11. /\ iter[1 .. 0] = base
       /\ \A k \in 0 .. n : iter[1 .. k] \in Acc
       /\ \A k \in 1 .. n : iter[1 .. k] = step[k][iter[1 .. k - 1]]
    BY <1>1, <1>3, <1>5, <1>10, FoldOnPrefixes
<1> DEFINE at == [k \in 0 .. n |-> iter[1 .. k]]
<1>12. at \in [0 .. n -> Acc] /\ at[0] = base /\ at[n] = iter[1 .. n]
    BY <1>1, <1>11
<1>13. ASSUME NEW k \in 1 .. n PROVE at[k] = Grown(at[k - 1], k)
    <2>1. k - 1 \in 0 .. n /\ k \in 0 .. n
        BY <1>1
    <2> QED BY <1>6, <1>11, <2>1
<1> HIDE DEF at
<1>14. IsGrowth(at)
    BY <1>12, <1>13 DEF IsGrowth, n, base
<1>15. Suggestion = at[Count].sections
    BY <1>2, <1>12 DEF n
<1> QED BY <1>14, <1>15

\* The cursor moves forward with every section, and from the start to the end.
LEMMA CursorAdvances ==
    ASSUME DispatchTypes, doc # << >>, NEW at, IsGrowth(at)
    PROVE  /\ \A k \in 0 .. Count : at[k].cursor \in Int
           /\ at[0].cursor = Start
           /\ \A k \in 1 .. Count : at[k - 1].cursor < at[k].cursor
           /\ Count # 0 => at[Count].cursor = Total
<1>1. /\ Start \in Nat /\ Remaining \in Nat /\ Count \in Nat /\ Total \in Nat
      /\ Start + Remaining = Total
      /\ Remaining = 0 => Count = 0
      /\ Count = 1 \/ Count * (Window + 1) <= Remaining
    BY Room
<1>2. Window \in Nat
    BY DispatchOK
<1>3. \A k \in 0 .. Count : at[k] \in Acc
    BY DEF IsGrowth
<1>4. \A k \in 0 .. Count : at[k].cursor \in Int
    BY <1>3 DEF Acc
<1>5. at[0].cursor = Start
    BY DEF IsGrowth
<1>6. ASSUME NEW k \in 1 .. Count PROVE at[k].cursor = Boundary(k, at[k - 1].cursor) + 1
    <2>1. at[k] = Grown(at[k - 1], k)
        BY DEF IsGrowth
    <2> QED BY <2>1 DEF Grown
<1> DEFINE q(i) == Rounded(Remaining * i, Count)
<1>7. Count # 0 => q(0) = 0 /\ q(Count) = Remaining
    BY <1>1, EvenEnds
<1>8. ASSUME NEW i \in 1 .. Count
      PROVE  /\ q(i - 1) \in Nat /\ q(i) \in Int /\ q(i - 1) + 1 <= q(i)
             /\ i # 1 => q(i - 1) + (Window + 1) <= q(i)
    <2>1. Count \in Nat \ {0}
        BY <1>1, <1>8
    <2>2. Count * 1 <= Remaining
        <3>1. CASE Count = 1
            BY <1>1, <3>1
        <3>2. CASE Count # 1
            <4>1. Count * 1 <= Count * (Window + 1)
                BY <1>2, <2>1
            <4>2. Count * (Window + 1) \in Int
                BY <1>2, <2>1
            <4> QED BY <1>1, <2>1, <3>2, <4>1, <4>2
        <3> QED BY <3>1, <3>2
    <2>3. q(i - 1) \in Nat /\ q(i - 1) + 1 <= q(i)
        BY <1>1, <2>1, <2>2, EvenGap
    <2>4. q(i) \in Int
        BY <1>1, <2>1, EvenTyped DEF Even, Rounded
    <2>5. ASSUME i # 1 PROVE q(i - 1) + (Window + 1) <= q(i)
        <3>1. Count * (Window + 1) <= Remaining
            BY <1>1, <1>8, <2>5
        <3>2. Window + 1 \in Nat
            BY <1>2
        <3> HIDE DEF q
        <3>3. Rounded(Remaining * (i - 1), Count) + (Window + 1) <= Rounded(Remaining * i, Count)
            BY <1>1, <2>1, <3>1, <3>2, EvenGap
        <3> QED BY <3>3 DEF q
    <2> QED BY <2>3, <2>4, <2>5
<1>9. \A i \in 1 .. Count : Even(i) = Start + q(i) - 1
    BY DEF Even
<1> HIDE DEF q
<1> DEFINE T == {k \in 0 .. Count : k # 0 => at[k].cursor <= Start + q(k) + Window}
<1>10. 0 \in T
    BY <1>1
<1>11. ASSUME NEW k \in 0 .. Count - 1, k \in T
       PROVE  k + 1 \in T /\ at[k].cursor < at[k + 1].cursor
    <2> DEFINE c == at[k].cursor
               b == Boundary(k + 1, c)
    <2>1. k + 1 \in 1 .. Count /\ (k + 1) - 1 = k /\ k \in 0 .. Count /\ k + 1 \in 0 .. Count
        BY <1>1
    <2>2. c \in Int /\ at[k + 1].cursor = b + 1
        BY <1>4, <1>6, <2>1
    <2>3. /\ q(k) \in Nat /\ q(k + 1) \in Int /\ q(k) + 1 <= q(k + 1)
          /\ k # 0 => q(k) + (Window + 1) <= q(k + 1)
        BY <1>8, <2>1
    <2>4. Even(k + 1) = Start + q(k + 1) - 1 /\ Even(k + 1) \in Int
        BY <1>1, <1>9, <2>1, <2>3
    <2>5. /\ b \in Int
          /\ b = Even(k + 1) \/ (c <= b /\ b <= Even(k + 1) + Window)
        BY <2>1, <2>2, <2>4, BoundaryIs
    <2>6. c <= Even(k + 1)
        <3>1. CASE k = 0
            <4>1. c = Start /\ q(k) = 0
                BY <1>5, <1>7, <2>1, <3>1
            <4> QED BY <1>1, <2>3, <2>4, <4>1
        <3>2. CASE k # 0
            <4>1. c <= Start + q(k) + Window
                BY <1>11, <3>2
            <4> QED BY <1>1, <1>2, <2>2, <2>3, <2>4, <3>2, <4>1
        <3> QED BY <3>1, <3>2
    <2> HIDE DEF c, b
    <2>7. c <= b /\ b + 1 <= Start + q(k + 1) + Window
        <3>1. c <= b
            BY <2>5, <2>6
        <3>2. b <= Even(k + 1) + Window
            BY <1>2, <2>4, <2>5
        <3>3. Start \in Int /\ q(k + 1) \in Int /\ b \in Int /\ Even(k + 1) = Start + q(k + 1) - 1
            BY <1>1, <2>3, <2>4, <2>5
        <3> QED BY <1>2, <3>1, <3>2, <3>3
    <2>8. c < at[k + 1].cursor /\ at[k + 1].cursor <= Start + q(k + 1) + Window
        BY <2>2, <2>5, <2>7
    <2> QED BY <2>1, <2>8 DEF c
<1> HIDE DEF T
<1>12. \A k \in 0 .. Count : k \in T
    BY <1>1, <1>10, <1>11, UpToBound
<1>13. ASSUME NEW k \in 1 .. Count PROVE at[k - 1].cursor < at[k].cursor
    <2>1. k - 1 \in 0 .. Count - 1 /\ k - 1 \in 0 .. Count /\ (k - 1) + 1 = k
        BY <1>1
    <2> QED BY <1>11, <1>12, <2>1
<1>14. ASSUME Count # 0 PROVE at[Count].cursor = Total
    <2>1. Count \in 1 .. Count /\ Count - 1 \in 0 .. Count
        BY <1>1, <1>14
    <2>2. Even(Count) = Start + Remaining - 1 /\ Even(Count) \in Int
        BY <1>1, <1>7, <1>9, <1>14, <2>1
    <2>3. Boundary(Count, at[Count - 1].cursor) = Even(Count)
        BY <1>4, <2>1, <2>2, BoundaryIs
    <2>4. at[Count].cursor = Even(Count) + 1
        BY <1>6, <2>1, <2>3
    <2> QED BY <1>1, <2>2, <2>4
<1> QED BY <1>4, <1>5, <1>13, <1>14

\* The sections of the suggestion lie between the places of its cursor.
LEMMA SuggestionIs ==
    ASSUME DispatchTypes, doc # << >>, NEW at, IsGrowth(at), Suggestion = at[Count].sections
    PROVE  /\ Suggestion \in Seq(Sections) /\ Len(Suggestion) = Count
           /\ \A j \in 1 .. Count : Suggestion[j] = <<at[j - 1].cursor, at[j].cursor - 1>>
<1>1. Count \in Nat
    BY Room
<1>2. \A k \in 0 .. Count : at[k].cursor \in Int /\ at[k].sections \in Seq(Sections)
    BY DEF IsGrowth, Acc
<1> DEFINE Placed(s, k) == Len(s) = k /\ \A j \in 1 .. k : s[j] = <<at[j - 1].cursor, at[j].cursor - 1>>
           T == {k \in 0 .. Count : Placed(at[k].sections, k)}
<1>3. 0 \in T
    <2>1. at[0].sections = << >>
        BY DEF IsGrowth
    <2>2. Placed(<< >>, 0)
        OBVIOUS
    <2> QED BY <1>1, <2>1, <2>2
<1>4. ASSUME NEW k \in 0 .. Count - 1, k \in T PROVE k + 1 \in T
    <2> DEFINE s == at[k].sections
               b == Boundary(k + 1, at[k].cursor)
    <2>1. k \in 0 .. Count /\ k + 1 \in 1 .. Count /\ (k + 1) - 1 = k /\ k + 1 \in 0 .. Count
        BY <1>1
    <2>2. at[k + 1] = Grown(at[k], k + 1)
        BY <2>1 DEF IsGrowth
    <2>3. at[k + 1].cursor = b + 1 /\ at[k + 1].sections = Append(s, <<at[k].cursor, b>>)
        BY <2>2 DEF Grown
    <2>4. b \in Int
        BY <1>2, <2>1, BoundaryIs, EvenTyped
    <2>5. at[k + 1].cursor - 1 = b
        BY <2>3, <2>4
    <2>6. s \in Seq(Sections) /\ Placed(s, k)
        BY <1>2, <1>4, <2>1
    <2>7. <<at[k].cursor, b>> \in Sections
        BY <1>2, <2>1, <2>4 DEF Sections
    <2> HIDE DEF s, b
    <2>8. /\ Len(Append(s, <<at[k].cursor, b>>)) = k + 1
          /\ \A j \in 1 .. k : Append(s, <<at[k].cursor, b>>)[j] = s[j]
          /\ Append(s, <<at[k].cursor, b>>)[k + 1] = <<at[k].cursor, b>>
        BY <2>1, <2>6, <2>7
    <2>9. \A j \in 1 .. k + 1 : j \in 1 .. k \/ j = k + 1
        BY <2>1
    <2>10. ASSUME NEW j \in 1 .. k + 1
           PROVE  at[k + 1].sections[j] = <<at[j - 1].cursor, at[j].cursor - 1>>
        <3>1. CASE j \in 1 .. k
            BY <2>3, <2>6, <2>8, <3>1
        <3>2. CASE j = k + 1
            BY <2>1, <2>3, <2>5, <2>8, <3>2
        <3> QED BY <2>9, <3>1, <3>2
    <2>11. Placed(at[k + 1].sections, k + 1)
        BY <2>3, <2>8, <2>10
    <2> QED BY <2>1, <2>11
<1> HIDE DEF T
<1>5. \A k \in 0 .. Count : k \in T
    BY <1>1, <1>3, <1>4, UpToBound
<1>6. Count \in T /\ Count \in 0 .. Count
    BY <1>1, <1>5
<1> QED BY <1>2, <1>6 DEF T

\* One section before the others.
LEMMA SectionBefore ==
    ASSUME NEW S, NEW o \in Seq(S), Len(o) = 1, NEW t \in Seq(S)
    PROVE  /\ o \o t \in Seq(S) /\ Len(o \o t) = Len(t) + 1 /\ (o \o t)[1] = o[1]
           /\ \A k \in 2 .. Len(t) + 1 : (o \o t)[k] = t[k - 1]
<1> DEFINE all == o \o t
<1>0. /\ all \in Seq(S) /\ Len(all) = Len(o) + Len(t)
      /\ \A k \in 1 .. Len(o) + Len(t) : all[k] = IF k <= Len(o) THEN o[k] ELSE t[k - Len(o)]
    BY ConcatProperties, Zenon
<1> HIDE DEF all
<1>1. /\ all \in Seq(S) /\ Len(all) = Len(o) + Len(t) /\ Len(t) \in Nat
      /\ \A k \in 1 .. Len(o) + Len(t) : all[k] = IF k <= Len(o) THEN o[k] ELSE t[k - Len(o)]
    BY <1>0
<1>2. 1 \in 1 .. 1 + Len(t) /\ \A k \in 2 .. Len(t) + 1 : k \in 1 .. 1 + Len(t) /\ ~(k <= 1)
    BY <1>1
<1>3. all[1] = o[1] /\ \A k \in 2 .. Len(t) + 1 : all[k] = t[k - 1]
    BY <1>1, <1>2
<1>4. Len(all) = Len(t) + 1
    BY <1>1
<1> QED BY <1>1, <1>3, <1>4 DEF all

\* What is checked of a suggestion: the opening, if there is one, and the
\* sections after it.
WithOpening == (IF stream THEN << <<0, OpeningEnd>> >> ELSE << >>) \o Suggestion

\* The suggestion with its opening goes from the first cue to the last without a
\* gap.
LEMMA SuggestionFollows ==
    ASSUME DispatchTypes, doc # << >>
    PROVE  WithOpening \in Seq(Sections) /\ Follow(WithOpening, Total)
<1>1. /\ Start \in Nat /\ Total \in Nat \ {0} /\ Start + Remaining = Total /\ Count \in Nat
      /\ Remaining # 0 => Count # 0
      /\ ~stream => Start = 0
    BY Room
<1>2. PICK at : IsGrowth(at) /\ Suggestion = at[Count].sections
    BY SuggestionIsGrowth
<1> DEFINE cursor == [k \in 0 .. Count |-> at[k].cursor]
<1>3. /\ \A k \in 0 .. Count : cursor[k] \in Int
      /\ cursor[0] = Start
      /\ \A k \in 1 .. Count : cursor[k - 1] < cursor[k]
      /\ Count # 0 => cursor[Count] = Total
    <2>1. \A k \in 1 .. Count : k \in 0 .. Count /\ k - 1 \in 0 .. Count
        BY <1>1
    <2>2. 0 \in 0 .. Count /\ Count \in 0 .. Count
        BY <1>1
    <2> QED BY <1>2, <2>1, <2>2, CursorAdvances
<1>4. /\ Suggestion \in Seq(Sections) /\ Len(Suggestion) = Count
      /\ \A j \in 1 .. Count : Suggestion[j] = <<cursor[j - 1], cursor[j] - 1>>
    <2>1. \A k \in 1 .. Count : k \in 0 .. Count /\ k - 1 \in 0 .. Count
        BY <1>1
    <2> QED BY <1>2, <2>1, SuggestionIs
<1> HIDE DEF cursor
<1>5. \A j \in 1 .. Count : /\ Suggestion[j][1] = cursor[j - 1] /\ Suggestion[j][2] = cursor[j] - 1
                            /\ cursor[j - 1] <= cursor[j] - 1
    <2> SUFFICES ASSUME NEW j \in 1 .. Count
                 PROVE  /\ Suggestion[j][1] = cursor[j - 1] /\ Suggestion[j][2] = cursor[j] - 1
                        /\ cursor[j - 1] <= cursor[j] - 1
        OBVIOUS
    <2>1. j \in 0 .. Count /\ j - 1 \in 0 .. Count
        BY <1>1
    <2>2. cursor[j - 1] \in Int /\ cursor[j] \in Int /\ cursor[j - 1] < cursor[j]
        BY <1>3, <2>1
    <2> QED BY <1>4, <2>2
<1>6. ASSUME NEW k \in 2 .. Count PROVE Suggestion[k][1] = Suggestion[k - 1][2] + 1
    <2>1. k \in 1 .. Count /\ k - 1 \in 1 .. Count /\ k - 1 \in 0 .. Count
        BY <1>1
    <2>2. Suggestion[k][1] = cursor[k - 1] /\ Suggestion[k - 1][2] = cursor[k - 1] - 1
        BY <1>5, <2>1
    <2> QED BY <1>3, <2>1, <2>2
<1>7. CASE ~stream
    <2>1. Start = 0 /\ Count \in 1 .. Count /\ 1 \in 1 .. Count /\ Count # 0
        BY <1>1, <1>7
    <2>2. WithOpening = Suggestion
        BY <1>4, <1>7 DEF WithOpening
    <2>3. Suggestion # << >>
        BY <1>4, <2>1
    <2>4. Suggestion[1][1] = 0 /\ Suggestion[Count][2] = Total - 1
        BY <1>3, <1>5, <2>1
    <2>5. \A k \in 1 .. Count : Suggestion[k][1] <= Suggestion[k][2]
        BY <1>5
    <2> QED BY <1>4, <1>6, <2>2, <2>3, <2>4, <2>5 DEF Follow
<1>8. CASE stream
    <2> DEFINE open == << <<0, OpeningEnd>> >>
               all == open \o Suggestion
    <2>1. Start = OpeningEnd + 1 /\ OpeningEnd \in Int /\ 0 <= OpeningEnd
        <3>1. SuggestedOpening \in Positions /\ Positions = 0 .. Total - 1
            BY OpeningAllowed, DocumentTyped
        <3> QED BY <1>1, <1>8, <3>1 DEF Start, OpeningEnd
    <2>2. <<0, OpeningEnd>> \in Sections
        BY <2>1 DEF Sections
    <2>3. open \in Seq(Sections) /\ Len(open) = 1 /\ open[1] = <<0, OpeningEnd>>
        BY <2>2
    <2> HIDE DEF open
    <2>4. /\ all \in Seq(Sections) /\ Len(all) = Count + 1 /\ all[1] = <<0, OpeningEnd>>
          /\ \A k \in 2 .. Count + 1 : all[k] = Suggestion[k - 1]
        BY <1>1, <1>4, <2>3, SectionBefore
    <2>5. WithOpening = all
        BY <1>8 DEF WithOpening, open
    <2> HIDE DEF all
    <2>6. all[1][1] = 0 /\ all[1][2] = OpeningEnd
        BY <2>4
    <2>7. ASSUME NEW k \in 2 .. Count + 1 PROVE all[k][1] = all[k - 1][2] + 1 /\ all[k][1] <= all[k][2]
        <3>1. k - 1 \in 1 .. Count /\ all[k] = Suggestion[k - 1]
            BY <1>1, <2>4
        <3>2. all[k][1] <= all[k][2]
            BY <1>5, <3>1
        <3>3. CASE k = 2
            BY <1>3, <1>5, <2>1, <2>6, <3>1, <3>3
        <3>4. CASE k # 2
            <4>1. k - 1 \in 2 .. Count + 1 /\ k - 1 \in 2 .. Count /\ (k - 1) - 1 = k - 2
                BY <1>1, <3>4
            <4>2. all[k - 1] = Suggestion[k - 2]
                BY <2>4, <4>1
            <4>3. Suggestion[k - 1][1] = Suggestion[k - 2][2] + 1
                BY <1>6, <4>1
            <4> QED BY <3>1, <3>2, <4>2, <4>3
        <3> QED BY <3>2, <3>3, <3>4
    <2>8. all[Count + 1][2] = Total - 1
        <3>1. CASE Count = 0
            BY <1>1, <2>1, <2>6, <3>1
        <3>2. CASE Count # 0
            <4>1. Count + 1 \in 2 .. Count + 1 /\ (Count + 1) - 1 = Count /\ Count \in 1 .. Count
                BY <1>1, <3>2
            <4>2. all[Count + 1] = Suggestion[Count]
                BY <2>4, <4>1
            <4> QED BY <1>3, <1>5, <3>2, <4>1, <4>2
        <3> QED BY <3>1, <3>2
    <2>9. \A k \in 1 .. Count + 1 : all[k][1] <= all[k][2]
        <3>1. \A k \in 1 .. Count + 1 : k = 1 \/ k \in 2 .. Count + 1
            BY <1>1
        <3> QED BY <2>1, <2>6, <2>7, <3>1
    <2>10. all # << >>
        BY <1>1, <2>4
    <2> QED BY <2>4, <2>5, <2>6, <2>7, <2>8, <2>9, <2>10 DEF Follow
<1> QED BY <1>7, <1>8

\* For every document and every plan.
LEMMA SoundWhenTyped ==
    ASSUME DispatchTypes
    PROVE  DispatchSound
<1>1. ASSUME doc # << >>
      PROVE  /\ stream => OpeningEnd \in OpeningMin .. OpeningMax
             /\ Len(Suggestion) <= MaxSubagents
             /\ Accepted(WithOpening)
    <2>1. stream => OpeningEnd \in OpeningMin .. OpeningMax
        BY <1>1, OpeningAllowed DEF OpeningEnd
    <2>2. Count <= MaxSubagents /\ Total \in Nat \ {0}
        BY <1>1, Room
    <2>3. Len(Suggestion) = Count
        <3>1. PICK at : IsGrowth(at) /\ Suggestion = at[Count].sections
            BY <1>1, SuggestionIsGrowth
        <3> QED BY <1>1, <3>1, SuggestionIs
    <2>4. WithOpening \in Seq(Sections) /\ Follow(WithOpening, Total)
        BY <1>1, SuggestionFollows
    <2>5. Accepted(WithOpening)
        BY <2>2, <2>4, FollowingIsAccepted DEF Accepted
    <2> QED BY <2>1, <2>2, <2>3, <2>5
<1>2. SuggestionIsAccepted
    BY <1>1 DEF SuggestionIsAccepted, WithOpening
<1>3. ASSUME doc # << >> PROVE Accepted(plan) <=> Covers(plan, Total)
    <2>1. Total \in Nat \ {0} /\ Positions = 0 .. Total - 1
        BY <1>3, DocumentTyped
    <2>2. plan \in Seq((0 .. Total - 1) \X (0 .. Total - 1))
        BY <2>1 DEF DispatchTypes
    <2>3. Covers(plan, Total) => Accepted(plan)
        BY <2>1, <2>2, CoveringIsAccepted DEF Accepted
    <2>4. Accepted(plan) => Covers(plan, Total)
        BY <2>1, <2>2, AcceptedIsCovering DEF Accepted
    <2> QED BY <2>3, <2>4
<1> QED BY <1>2, <1>3 DEF DispatchSound, CursorIsCoverage

\* The dispatch the host suggests for any document passes the host's own check,
\* and the check accepts exactly the plans that cover the source.
THEOREM SuggestionPassesCheck == DispatchSpec => []DispatchSound
<1>1. NoDocument => DispatchTypes
    BY DEF NoDocument, DispatchTypes, CueType
<1>2. DispatchTypes /\ [DispatchStep]_dispatch => DispatchTypes'
    BY TypesKept
<1>3. DispatchTypes => DispatchSound
    BY SoundWhenTyped
<1> QED BY <1>1, <1>2, <1>3, PTL DEF DispatchSpec

-----------------------------------------------------------------------------
(* Intervals in the order of their starts. *)

\* A sequence of intervals, by their starts and their ends.
LEMMA RangeTypes ==
    ASSUME NEW rs \in Ranges
    PROVE  /\ Len(rs) \in Nat /\ DOMAIN rs = 1 .. Len(rs)
           /\ \A k \in 1 .. Len(rs) : /\ rs[k] \in (0 .. Length) \X (0 .. Length)
                                      /\ Starts(rs[k]) \in 0 .. Length /\ Ends(rs[k]) \in 0 .. Length
<1>1. Len(rs) \in Nat /\ DOMAIN rs = 1 .. Len(rs)
    BY DEF Ranges
<1>2. \A k \in 1 .. Len(rs) : rs[k] \in (0 .. Length) \X (0 .. Length)
    BY <1>1 DEF Ranges
<1>3. ASSUME NEW k \in 1 .. Len(rs) PROVE Starts(rs[k]) \in 0 .. Length /\ Ends(rs[k]) \in 0 .. Length
    BY <1>2 DEF Starts, Ends
<1> QED BY <1>1, <1>2, <1>3

\* Every position of a sequence has a place of its own, and those that come
\* before it have smaller ones.
LEMMA PlacesDiffer ==
    ASSUME NEW rs \in Ranges, NEW i \in DOMAIN rs, NEW j \in DOMAIN rs, i # j, Precedes(rs, i, j)
    PROVE  Place(rs, i) < Place(rs, j)
<1> DEFINE Up(x) == {y \in DOMAIN rs : Precedes(rs, y, x)}
<1>1. \A x \in DOMAIN rs : x \in Int /\ Starts(rs[x]) \in Int
    BY RangeTypes
<1>2. IsFiniteSet(DOMAIN rs)
    BY RangeTypes, FS_Interval, 1 \in Int, Len(rs) \in Int
<1>3. Up(i) \subseteq Up(j)
    BY <1>1 DEF Precedes
<1>4. j \in Up(j) /\ j \notin Up(i)
    BY <1>1 DEF Precedes
<1>5. IsFiniteSet(Up(j)) /\ IsFiniteSet(Up(i)) /\ Cardinality(Up(i)) <= Cardinality(Up(j)) /\ Cardinality(Up(j)) # Cardinality(Up(i))
    <2>1. Up(j) \in SUBSET DOMAIN rs /\ Up(i) \in SUBSET Up(j)
        BY <1>3
    <2>2. IsFiniteSet(Up(j))
        BY <1>2, <2>1, FS_Subset
    <2> QED BY <1>4, <2>1, <2>2, FS_Subset
<1>6. Cardinality(Up(i)) \in Nat /\ Cardinality(Up(j)) \in Nat
    BY <1>5, FS_CardinalityType
<1>7. Place(rs, i) = Cardinality(Up(i)) /\ Place(rs, j) = Cardinality(Up(j))
    BY DEF Place
<1> HIDE DEF Up
<1> QED BY <1>5, <1>6, <1>7

\* Every place is somebody's.
LEMMA PlacesTaken ==
    ASSUME NEW rs \in Ranges, NEW k \in DOMAIN rs
    PROVE  \E i \in DOMAIN rs : Place(rs, i) = k
<1> DEFINE D == DOMAIN rs
           f == [i \in D |-> Place(rs, i)]
<1>1. \A x \in D : x \in Int /\ Starts(rs[x]) \in Int
    BY RangeTypes
<1>2. D = 1 .. Len(rs) /\ Len(rs) \in Nat /\ IsFiniteSet(D) /\ Cardinality(D) = Len(rs)
    <2>1. D = 1 .. Len(rs) /\ Len(rs) \in Nat
        BY RangeTypes
    <2> DEFINE n == Len(rs)
    <2>2. IsFiniteSet(1 .. n) /\ Cardinality(1 .. n) = IF 1 > n THEN 0 ELSE n - 1 + 1
        BY <2>1, FS_Interval, 1 \in Int, n \in Int
    <2>3. Cardinality(1 .. n) = n
        BY <2>1, <2>2
    <2> QED BY <2>1, <2>2, <2>3
<1>3. ASSUME NEW i \in D PROVE Place(rs, i) \in D
    <2> DEFINE Up == {y \in D : Precedes(rs, y, i)}
    <2>1. Up \in SUBSET D /\ i \in Up
        BY <1>1 DEF Precedes
    <2>2. IsFiniteSet(Up) /\ Cardinality(Up) <= Len(rs)
        BY <1>2, <2>1, FS_Subset
    <2>3. Cardinality(Up) \in Nat /\ Cardinality(Up) # 0
        BY <2>1, <2>2, FS_CardinalityType, FS_EmptySet
    <2>4. Place(rs, i) = Cardinality(Up)
        BY DEF Place
    <2> HIDE DEF Up
    <2> QED BY <1>2, <2>2, <2>3, <2>4
<1>4. ASSUME NEW i \in D, NEW j \in D, i # j PROVE Place(rs, i) # Place(rs, j)
    <2>1. Precedes(rs, i, j) \/ Precedes(rs, j, i)
        BY <1>1 DEF Precedes
    <2>2. Place(rs, i) \in Int /\ Place(rs, j) \in Int
        BY <1>2, <1>3
    <2>3. Place(rs, i) < Place(rs, j) \/ Place(rs, j) < Place(rs, i)
        BY <1>4, <2>1, PlacesDiffer
    <2> QED BY <2>2, <2>3
<1>5. f \in Injection(D, D)
    <2>1. f \in [D -> D]
        BY <1>3
    <2>2. \A i, j \in D : f[i] = f[j] => i = j
        BY <1>4
    <2> QED BY <2>1, <2>2 DEF Injection, IsInjective
<1>6. f \in Surjection(D, D)
    <2> HIDE DEF f, D
    <2> QED BY <1>2, <1>5, FS_Injection
<1>7. \E i \in D : f[i] = k
    BY <1>6 DEF Surjection
<1> QED BY <1>7

\* What is ordered by start has the same intervals, and no start comes before a
\* smaller one.
LEMMA Ordered ==
    ASSUME NEW rs \in Ranges
    PROVE  /\ ByStart(rs) \in Ranges /\ Len(ByStart(rs)) = Len(rs)
           /\ \A k \in 1 .. Len(rs) : \E i \in 1 .. Len(rs) : ByStart(rs)[k] = rs[i]
           /\ \A i \in 1 .. Len(rs) : \E k \in 1 .. Len(rs) : ByStart(rs)[k] = rs[i]
           /\ \A j, k \in 1 .. Len(rs) : j < k => Starts(ByStart(rs)[j]) <= Starts(ByStart(rs)[k])
<1> DEFINE n == Len(rs)
           p == [k \in 1 .. n |-> CHOOSE i \in 1 .. n : Place(rs, i) = k]
           s == ByStart(rs)
<1>1. n \in Nat /\ DOMAIN rs = 1 .. n /\ \A k \in 1 .. n : rs[k] \in (0 .. Length) \X (0 .. Length) /\ Starts(rs[k]) \in Int
    BY RangeTypes
<1>2. ASSUME NEW k \in 1 .. n PROVE p[k] \in 1 .. n /\ Place(rs, p[k]) = k /\ s[k] = rs[p[k]]
    <2>1. \E i \in 1 .. n : Place(rs, i) = k
        BY <1>1, PlacesTaken
    <2>2. p[k] = CHOOSE i \in 1 .. n : Place(rs, i) = k
        OBVIOUS
    <2>3. p[k] \in 1 .. n /\ Place(rs, p[k]) = k
        BY <2>1, <2>2
    <2>4. s[k] = rs[p[k]]
        BY <1>1, <2>2 DEF ByStart
    <2> QED BY <2>3, <2>4
<1>3. DOMAIN s = 1 .. n
    BY <1>1 DEF ByStart
<1>4. s \in [1 .. n -> (0 .. Length) \X (0 .. Length)]
    BY <1>1, <1>2, <1>3 DEF ByStart
<1> HIDE DEF s, p, n
<1>5. s \in Ranges /\ Len(s) = n
    <2>1. s \in Seq((0 .. Length) \X (0 .. Length))
        BY <1>1, <1>4 
    <2> QED BY <1>1, <1>3, <2>1 DEF Ranges
<1>6. ASSUME NEW i \in 1 .. n PROVE Place(rs, i) \in 1 .. n /\ p[Place(rs, i)] = i
    <2>1. Place(rs, i) \in 1 .. n
        <3> DEFINE Up == {y \in DOMAIN rs : Precedes(rs, y, i)}
        <3>1. i \in Up
            BY <1>1 DEF Precedes
        <3>2. IsFiniteSet(1 .. n) /\ Cardinality(1 .. n) = n
            BY <1>1, FS_Interval, 1 \in Int, n \in Int
        <3>3. Up \in SUBSET (1 .. n)
            BY <1>1
        <3>4. IsFiniteSet(Up) /\ Cardinality(Up) <= n
            BY <3>2, <3>3, FS_Subset
        <3>5. Cardinality(Up) \in Nat /\ Cardinality(Up) # 0
            BY <3>1, <3>4, FS_CardinalityType, FS_EmptySet
        <3>6. Place(rs, i) = Cardinality(Up)
            BY DEF Place
        <3> HIDE DEF Up
        <3> QED BY <1>1, <3>4, <3>5, <3>6
    <2>2. LET q == p[Place(rs, i)] IN q \in 1 .. n /\ Place(rs, q) = Place(rs, i)
        BY <1>2, <2>1
    <2>3. ASSUME NEW q \in 1 .. n, q # i, Place(rs, q) = Place(rs, i) PROVE FALSE
        <3>1. Precedes(rs, q, i) \/ Precedes(rs, i, q)
            BY <1>1 DEF Precedes
        <3>2. Place(rs, q) < Place(rs, i) \/ Place(rs, i) < Place(rs, q)
            BY <1>1, <2>3, <3>1, PlacesDiffer
        <3> QED BY <2>1, <2>3, <3>2
    <2> QED BY <2>1, <2>2, <2>3
<1>7. ASSUME NEW j \in 1 .. n, NEW k \in 1 .. n, j < k PROVE Starts(s[j]) <= Starts(s[k])
    <2>1. p[j] \in 1 .. n /\ p[k] \in 1 .. n /\ Place(rs, p[j]) = j /\ Place(rs, p[k]) = k
        BY <1>2
    <2>2. Starts(rs[p[k]]) < Starts(rs[p[j]]) => Precedes(rs, p[k], p[j]) /\ p[k] # p[j]
        BY <1>1, <2>1 DEF Precedes
    <2>3. ~(Starts(rs[p[k]]) < Starts(rs[p[j]]))
        <3>1. ASSUME Precedes(rs, p[k], p[j]), p[k] # p[j] PROVE FALSE
            <4>1. Place(rs, p[k]) < Place(rs, p[j])
                BY <1>1, <2>1, <3>1, PlacesDiffer
            <4> QED BY <1>7, <2>1, <4>1
        <3> QED BY <2>2, <3>1
    <2>4. Starts(s[j]) = Starts(rs[p[j]]) /\ Starts(s[k]) = Starts(rs[p[k]])
        BY <1>2
    <2>5. Starts(rs[p[j]]) \in Int /\ Starts(rs[p[k]]) \in Int
        BY <1>1, <2>1
    <2> QED BY <2>3, <2>4, <2>5
<1>8. \A k \in 1 .. n : \E i \in 1 .. n : s[k] = rs[i]
    BY <1>2
<1>9. \A i \in 1 .. n : \E k \in 1 .. n : s[k] = rs[i]
    BY <1>2, <1>6
<1> QED BY <1>5, <1>7, <1>8, <1>9 DEF s, n

-----------------------------------------------------------------------------
(* Merging. *)

\* A position lies in one of the intervals.
In(x, rs) == \E k \in DOMAIN rs : Starts(rs[k]) <= x /\ x < Ends(rs[k])
\* None is empty, and each ends before the next one starts.
Apart(rs) ==
    /\ rs \in Ranges
    /\ \A k \in DOMAIN rs : Starts(rs[k]) < Ends(rs[k])
    /\ \A j, k \in DOMAIN rs : j < k => Ends(rs[j]) < Starts(rs[k])

Pair == (0 .. Length) \X (0 .. Length)

\* An interval, by its start and its end.
LEMMA PairParts == ASSUME NEW r \in Pair PROVE Starts(r) \in 0 .. Length /\ Ends(r) \in 0 .. Length /\ r = <<Starts(r), Ends(r)>>
BY DEF Pair, Starts, Ends

\* And an interval from its start and its end.
LEMMA PairMade ==
    ASSUME NEW a \in 0 .. Length, NEW b \in 0 .. Length
    PROVE  <<a, b>> \in Pair /\ Starts(<<a, b>>) = a /\ Ends(<<a, b>>) = b
BY DEF Pair, Starts, Ends

\* The greater of two numbers.
LEMMA GreaterOf == ASSUME NEW a \in Int, NEW b \in Int
    PROVE Max({a, b}) \in {a, b} /\ a <= Max({a, b}) /\ b <= Max({a, b})
<1>1. CASE a <= b
    <2>1. {a, b} \in SUBSET (a .. b) /\ {a, b} # {}
        BY <1>1
    <2> QED BY <2>1, GreatestIs
<1>2. CASE ~(a <= b)
    <2>1. {a, b} \in SUBSET (b .. a) /\ {a, b} # {}
        BY <1>2
    <2> QED BY <2>1, GreatestIs
<1> QED BY <1>1, <1>2

\* An interval that meets the last one extends it.
LEMMA MergeMeets ==
    ASSUME NEW m \in Ranges, NEW r \in Pair, m # << >>, Overlap(m[Len(m)], r)
    PROVE  LET s == MergeNext(m, r)
               n == Len(m)
           IN  /\ s \in Ranges /\ Len(s) = n
               /\ \A k \in 1 .. n - 1 : s[k] = m[k]
               /\ s[n] = <<Starts(m[n]), Max({Ends(m[n]), Ends(r)})>>
<1> DEFINE n == Len(m)
           t == <<Starts(m[n]), Max({Ends(m[n]), Ends(r)})>>
<1>1. n \in Nat \ {0} /\ m \in Seq(Pair) /\ n \in 1 .. n
    BY RangeTypes DEF Ranges, Pair
<1>2. MergeNext(m, r) = SubSeq(m, 1, n - 1) \o <<t>>
    BY DEF MergeNext, Last, Front
<1>3. t \in Pair
    <2>1. Starts(m[n]) \in 0 .. Length /\ Ends(m[n]) \in 0 .. Length /\ Ends(r) \in 0 .. Length
        BY <1>1, RangeTypes, PairParts
    <2>2. Max({Ends(m[n]), Ends(r)}) \in {Ends(m[n]), Ends(r)}
        <3>1. Ends(m[n]) \in Int /\ Ends(r) \in Int
            BY <2>1, LengthOK
        <3> QED BY <3>1, GreaterOf
    <2> QED BY <2>1, <2>2, PairMade
<1> HIDE DEF t, n
<1>4. SubSeq(m, 1, n - 1) \in Seq(Pair) /\ Len(SubSeq(m, 1, n - 1)) = n - 1 /\ \A k \in 1 .. n - 1 : SubSeq(m, 1, n - 1)[k] = m[k]
    <2>1. n - 1 \in Int /\ 1 \in Int /\ 1 .. n - 1 \subseteq DOMAIN m
        BY <1>1 DEF n
    <2>2. \A k \in 1 .. n - 1 : m[k] \in Pair
        BY <1>1 DEF n
    <2>3. SubSeq(m, 1, n - 1) = [k \in 1 .. n - 1 |-> m[k]]
        BY <1>1, <2>1
    <2> QED BY <1>1, <2>2, <2>3
<1> DEFINE f == SubSeq(m, 1, n - 1)
<1> HIDE DEF f
<1>5. f \in Seq(Pair) /\ Len(f) = n - 1 /\ \A k \in 1 .. n - 1 : f[k] = m[k]
    BY <1>4 DEF f
<1>6. f \o <<t>> \in Seq(Pair) /\ Len(f \o <<t>>) = n /\ (f \o <<t>>)[n] = t /\ \A k \in 1 .. n - 1 : (f \o <<t>>)[k] = f[k]
    BY <1>1, <1>3, <1>5
<1> QED BY <1>2, <1>5, <1>6 DEF f, t, n, Ranges, Pair

\* Any other is a new one.
LEMMA MergeAdds ==
    ASSUME NEW m \in Ranges, NEW r \in Pair, m = << >> \/ ~Overlap(m[Len(m)], r)
    PROVE  LET s == MergeNext(m, r)
               n == Len(m)
           IN  /\ s \in Ranges /\ Len(s) = n + 1
               /\ \A k \in 1 .. n : s[k] = m[k]
               /\ s[n + 1] = r
<1>1. m \in Seq(Pair)
    BY DEF Ranges, Pair
<1>2. MergeNext(m, r) = Append(m, r)
    BY DEF MergeNext, Last
<1> QED BY <1>1, <1>2 DEF Ranges, Pair

\* An interval that starts no earlier than the others is merged into them.
LEMMA MergeKeeps ==
    ASSUME NEW m, Apart(m), NEW r \in Pair, Starts(r) < Ends(r),
           \A k \in DOMAIN m : Starts(m[k]) <= Starts(r)
    PROVE  /\ Apart(MergeNext(m, r))
           /\ \A x \in Int : In(x, MergeNext(m, r)) <=> In(x, m) \/ (Starts(r) <= x /\ x < Ends(r))
           /\ \A k \in DOMAIN MergeNext(m, r) : Starts(MergeNext(m, r)[k]) <= Starts(r)
<1> DEFINE n == Len(m)
           s == MergeNext(m, r)
<1>1. m \in Ranges /\ n \in Nat /\ DOMAIN m = 1 .. n /\ (m # << >> => n \in 1 .. n)
    BY RangeTypes DEF Apart
<1>2. \A k \in 1 .. n : Starts(m[k]) \in 0 .. Length /\ Ends(m[k]) \in 0 .. Length /\ Starts(m[k]) < Ends(m[k]) /\ Starts(m[k]) <= Starts(r)
    BY <1>1, RangeTypes DEF Apart
<1>3. Starts(r) \in 0 .. Length /\ Ends(r) \in 0 .. Length
    BY PairParts
<1>4. \A j, k \in 1 .. n : j < k => Ends(m[j]) < Starts(m[k])
    BY <1>1 DEF Apart
<1>5. CASE m # << >> /\ Overlap(m[n], r)
    <2> DEFINE e == Max({Ends(m[n]), Ends(r)})
    <2>1. s \in Ranges /\ Len(s) = n /\ (\A k \in 1 .. n - 1 : s[k] = m[k]) /\ s[n] = <<Starts(m[n]), e>>
        BY <1>1, <1>5, MergeMeets
    <2>2. DOMAIN s = 1 .. n /\ n \in 1 .. n
        BY <1>1, <1>5, <2>1, RangeTypes
    <2>3. e \in {Ends(m[n]), Ends(r)} /\ Ends(m[n]) <= e /\ Ends(r) <= e
        <3>1. Ends(m[n]) \in Int /\ Ends(r) \in Int
            BY <1>2, <1>3, <2>2, LengthOK
        <3> QED BY <3>1, GreaterOf
    <2>4. Starts(s[n]) = Starts(m[n]) /\ Ends(s[n]) = e
        BY <2>1 DEF Starts, Ends
    <2>5. Starts(r) <= Ends(m[n])
        BY <1>5 DEF Overlap
    <2> HIDE DEF s, e, n
    <2>6. \A k \in 1 .. n : Starts(s[k]) = Starts(m[k]) /\ (k # n => Ends(s[k]) = Ends(m[k]))
        <3> SUFFICES ASSUME NEW k \in 1 .. n PROVE Starts(s[k]) = Starts(m[k]) /\ (k # n => Ends(s[k]) = Ends(m[k]))
            OBVIOUS
        <3>1. k = n \/ k \in 1 .. n - 1
            BY <1>1
        <3> QED BY <2>1, <2>4, <3>1
    <2>7. Apart(s)
        <3>1. \A k \in 1 .. n : Starts(s[k]) < Ends(s[k])
            BY <1>2, <1>3, <2>2, <2>3, <2>4, <2>6
        <3>2. ASSUME NEW j \in 1 .. n, NEW k \in 1 .. n, j < k PROVE Ends(s[j]) < Starts(s[k])
            <4>1. j # n
                BY <1>1, <3>2
            <4> QED BY <1>4, <2>6, <3>2, <4>1
        <3> QED BY <2>1, <2>2, <3>1, <3>2 DEF Apart
    <2>8. ASSUME NEW x \in Int PROVE In(x, s) <=> In(x, m) \/ (Starts(r) <= x /\ x < Ends(r))
        <3>1. ASSUME In(x, s) PROVE In(x, m) \/ (Starts(r) <= x /\ x < Ends(r))
            <4>1. PICK k \in 1 .. n : Starts(s[k]) <= x /\ x < Ends(s[k])
                BY <2>2, <3>1 DEF In
            <4>2. CASE k # n
                BY <1>1, <2>6, <4>1, <4>2 DEF In
            <4>3. CASE k = n
                <5>1. Starts(m[n]) <= x /\ x < e
                    BY <2>4, <4>1, <4>3
                <5>2. x < Ends(m[n]) \/ (Starts(r) <= x /\ x < Ends(r))
                    BY <1>2, <1>3, <2>2, <2>3, <2>5, <5>1
                <5> QED BY <1>1, <2>2, <5>1, <5>2 DEF In
            <4> QED BY <4>2, <4>3
        <3>2. ASSUME In(x, m) PROVE In(x, s)
            <4>1. PICK k \in 1 .. n : Starts(m[k]) <= x /\ x < Ends(m[k])
                BY <1>1, <3>2 DEF In
            <4>2. Ends(m[k]) <= Ends(s[k])
                BY <1>2, <2>3, <2>4, <2>6
            <4>3. Ends(m[k]) \in Int /\ Ends(s[k]) \in Int
                <5>1. e \in Int
                    BY <1>2, <1>3, <2>2, <2>3, LengthOK
                <5>2. k = n => Ends(s[k]) = e
                    BY <2>4
                <5>3. k # n => Ends(s[k]) = Ends(m[k])
                    BY <2>6
                <5> QED BY <1>2, <5>1, <5>2, <5>3, LengthOK
            <4>4. Starts(s[k]) <= x /\ x < Ends(s[k])
                BY <2>6, <4>1, <4>2, <4>3
            <4> QED BY <2>2, <4>4 DEF In
        <3>3. ASSUME Starts(r) <= x, x < Ends(r) PROVE In(x, s)
            <4>1. Starts(s[n]) <= x /\ x < Ends(s[n])
                BY <1>2, <1>3, <2>2, <2>3, <2>4, <3>3
            <4> QED BY <2>2, <4>1 DEF In
        <3> QED BY <3>1, <3>2, <3>3
    <2>9. \A k \in DOMAIN s : Starts(s[k]) <= Starts(r)
        BY <1>2, <2>2, <2>6
    <2> QED BY <2>7, <2>8, <2>9 DEF s
<1>6. CASE m = << >> \/ ~Overlap(m[n], r)
    <2>1. s \in Ranges /\ Len(s) = n + 1 /\ (\A k \in 1 .. n : s[k] = m[k]) /\ s[n + 1] = r
        BY <1>1, <1>6, MergeAdds
    <2>2. DOMAIN s = 1 .. n + 1
        BY <1>1, <2>1, RangeTypes
    <2> HIDE DEF s, n
    <2>3. \A k \in 1 .. n : Ends(m[k]) < Starts(r)
        <3>1. CASE m = << >>
            BY <3>1 DEF n
        <3>2. CASE m # << >> /\ ~Overlap(m[n], r)
            <4>1. n \in 1 .. n /\ Ends(m[n]) < Starts(r)
                BY <1>1, <1>2, <1>3, <3>2 DEF Overlap
            <4>2. ASSUME NEW k \in 1 .. n PROVE Ends(m[k]) < Starts(r)
                <5>1. k = n \/ k < n
                    BY <1>1
                <5>2. k = n \/ Ends(m[k]) < Starts(m[n])
                    BY <1>4, <4>1, <5>1
                <5>3. Ends(m[k]) \in Int /\ Ends(m[n]) \in Int /\ Starts(m[n]) \in Int /\ Starts(r) \in Int
                    BY <1>2, <1>3, <4>1, LengthOK
                <5>4. Starts(m[n]) < Ends(m[n]) /\ (k = n \/ Ends(m[k]) < Ends(m[n]))
                    BY <1>2, <4>1, <5>2, <5>3
                <5> QED BY <4>1, <5>3, <5>4
            <4> QED BY <4>2
        <3> QED BY <1>6, <3>1, <3>2
    <2>4. ASSUME NEW k \in 1 .. n + 1 PROVE k = n + 1 \/ k \in 1 .. n
        BY <1>1
    <2>5. Apart(s)
        <3>1. \A k \in 1 .. n + 1 : Starts(s[k]) < Ends(s[k])
            BY <1>2, <2>1, <2>4
        <3>2. ASSUME NEW j \in 1 .. n + 1, NEW k \in 1 .. n + 1, j < k PROVE Ends(s[j]) < Starts(s[k])
            <4>1. j \in 1 .. n
                BY <1>1, <3>2
            <4> QED BY <1>4, <2>1, <2>3, <2>4, <3>2, <4>1
        <3> QED BY <2>1, <2>2, <3>1, <3>2 DEF Apart
    <2>6. ASSUME NEW x \in Int PROVE In(x, s) <=> In(x, m) \/ (Starts(r) <= x /\ x < Ends(r))
        <3>1. n + 1 \in 1 .. n + 1 /\ \A k \in 1 .. n : k \in 1 .. n + 1
            BY <1>1
        <3>2. In(x, s) => In(x, m) \/ (Starts(r) <= x /\ x < Ends(r))
            BY <1>1, <2>1, <2>2, <2>4 DEF In
        <3>3. In(x, m) => In(x, s)
            BY <1>1, <2>1, <2>2, <3>1 DEF In
        <3>4. Starts(r) <= x /\ x < Ends(r) => In(x, s)
            BY <2>1, <2>2, <3>1 DEF In
        <3> QED BY <3>2, <3>3, <3>4
    <2>7. \A k \in DOMAIN s : Starts(s[k]) <= Starts(r)
        BY <1>2, <1>3, <2>1, <2>2, <2>4
    <2> QED BY <2>5, <2>6, <2>7 DEF s
<1> QED BY <1>5, <1>6

\* What has been merged after every interval.
IsMerge(at, rs) ==
    /\ at \in [0 .. Len(rs) -> Ranges]
    /\ at[0] = << >>
    /\ \A k \in 1 .. Len(rs) : at[k] = MergeNext(at[k - 1], rs[k])

\* The fold merges one interval after the other.
LEMMA MergeIsFold ==
    ASSUME NEW rs \in Ranges
    PROVE  \E at : IsMerge(at, rs) /\ FoldLeft(MergeNext, << >>, rs) = at[Len(rs)]
<1> DEFINE n == Len(rs)
           step == [k \in 1 .. n |-> [c \in Ranges |-> MergeNext(c, rs[k])]]
           Body(g) == [s \in SUBSET DOMAIN rs |->
                          IF s = {} THEN << >>
                          ELSE LET x == Max(s) IN MergeNext(g[s \ {x}], rs[x])]
           iter == CHOOSE g : g = Body(g)
<1>1. n \in Nat /\ DOMAIN rs = 1 .. n /\ << >> \in Ranges
    BY RangeTypes DEF Ranges
<1>2. FoldLeft(MergeNext, << >>, rs) = iter[1 .. n]
    BY <1>1 DEF FoldLeft, MapThenFoldSet
<1>3. ASSUME NEW k \in 1 .. n, NEW c \in Ranges PROVE MergeNext(c, rs[k]) \in Ranges
    <2>1. rs[k] \in Pair
        BY <1>1, RangeTypes DEF Pair
    <2>2. MergeNext(c, rs[k]) \in Ranges
        BY <2>1, MergeMeets, MergeAdds
    <2> QED BY <2>2
<1>4. step \in [1 .. n -> [Ranges -> Ranges]]
    BY <1>3
<1>5. \A k \in 1 .. n, c \in Ranges : step[k][c] = MergeNext(c, rs[k])
    OBVIOUS
<1> HIDE DEF step, n
<1>6. \E g : g = Body(g)
    <2>1. PICK g \in [SUBSET (1 .. n) -> Ranges] : IsFold(g, << >>, step, n)
        <3>1. << >> \in Ranges /\ n \in Nat
            BY <1>1
        <3> QED BY <1>4, <3>1, FoldExists
    <2>2. ASSUME NEW s \in SUBSET (1 .. n), s # {}
          PROVE  g[s] = MergeNext(g[s \ {Max(s)}], rs[Max(s)])
        <3>1. Max(s) \in 1 .. n /\ s \ {Max(s)} \in SUBSET (1 .. n)
            BY <1>1, <2>2, GreatestPosition
        <3>2. g[s] = step[Max(s)][g[s \ {Max(s)}]]
            BY <2>1, <2>2 DEF IsFold
        <3>3. g[s \ {Max(s)}] \in Ranges
            BY <3>1
        <3> QED BY <1>5, <3>1, <3>2, <3>3
    <2>3. g[{}] = << >>
        BY <2>1 DEF IsFold
    <2>4. g = Body(g)
        BY <1>1, <2>1, <2>2, <2>3
    <2> QED BY <2>4
<1>7. iter = Body(iter)
    BY <1>6
<1>8. /\ iter[{}] = << >>
      /\ \A s \in SUBSET (1 .. n) : s # {} => iter[s] = MergeNext(iter[s \ {Max(s)}], rs[Max(s)])
    BY <1>1, <1>7
<1> HIDE DEF iter
<1> DEFINE V == Ranges
<1>9. Folds(iter, << >>, step, n, V)
    <2> SUFFICES ASSUME NEW s \in SUBSET (1 .. n), s # {}, iter[s \ {Max(s)}] \in Ranges
                 PROVE  iter[s] = step[Max(s)][iter[s \ {Max(s)}]]
        BY <1>8 DEF Folds
    <2>1. Max(s) \in 1 .. n
        BY <1>1, GreatestPosition
    <2>2. iter[s] = MergeNext(iter[s \ {Max(s)}], rs[Max(s)])
        BY <1>8
    <2> QED BY <1>5, <2>1, <2>2
<1>10. step \in [1 .. n -> [V -> V]] /\ n \in Nat /\ << >> \in V
    BY <1>1, <1>4
<1> HIDE DEF V
<1> SUFFICES ASSUME Folds(iter, << >>, step, n, V), step \in [1 .. n -> [V -> V]], n \in Nat, << >> \in V
             PROVE  \E at : IsMerge(at, rs) /\ FoldLeft(MergeNext, << >>, rs) = at[Len(rs)]
    BY <1>9, <1>10
<1>11. /\ iter[1 .. 0] = << >>
       /\ \A k \in 0 .. n : iter[1 .. k] \in V
       /\ \A k \in 1 .. n : iter[1 .. k] = step[k][iter[1 .. k - 1]]
    BY FoldOnPrefixes, SMTT(30)
<1>12. \A k \in 0 .. n : iter[1 .. k] \in Ranges
    BY <1>11 DEF V
<1> DEFINE at == [k \in 0 .. n |-> iter[1 .. k]]
<1>13. at \in [0 .. n -> Ranges] /\ at[0] = << >> /\ at[n] = iter[1 .. n]
    BY <1>1, <1>11, <1>12
<1>14. ASSUME NEW k \in 1 .. n PROVE at[k] = MergeNext(at[k - 1], rs[k])
    <2>1. k - 1 \in 0 .. n /\ k \in 0 .. n
        BY <1>1
    <2> QED BY <1>5, <1>11, <1>12, <2>1
<1> HIDE DEF at
<1>15. IsMerge(at, rs)
    BY <1>13, <1>14 DEF IsMerge, n
<1>16. FoldLeft(MergeNext, << >>, rs) = at[Len(rs)]
    BY <1>2, <1>13 DEF n
<1> QED BY <1>15, <1>16


\* What is in order, and has no empty interval, is merged into intervals that are
\* apart and lose no position.
LEMMA Merged ==
    ASSUME NEW rs \in Ranges,
           \A k \in 1 .. Len(rs) : Starts(rs[k]) < Ends(rs[k]),
           \A j, k \in 1 .. Len(rs) : j < k => Starts(rs[j]) <= Starts(rs[k])
    PROVE  LET s == FoldLeft(MergeNext, << >>, rs)
           IN  Apart(s) /\ \A x \in Int : In(x, s) <=> In(x, rs)
<1> DEFINE n == Len(rs)
<1>1. n \in Nat /\ DOMAIN rs = 1 .. n /\ \A k \in 1 .. n : rs[k] \in Pair /\ Starts(rs[k]) \in Int
    BY RangeTypes, LengthOK DEF Pair
<1>2. PICK at : IsMerge(at, rs) /\ FoldLeft(MergeNext, << >>, rs) = at[n]
    BY MergeIsFold
<1> HIDE DEF n
<1>3. at[0] = << >> /\ \A k \in 1 .. n : at[k] = MergeNext(at[k - 1], rs[k])
    BY <1>2 DEF IsMerge, n
<1> DEFINE Good(k) == /\ Apart(at[k])
                      /\ \A x \in Int : In(x, at[k]) <=> \E j \in 1 .. k : Starts(rs[j]) <= x /\ x < Ends(rs[j])
                      /\ k # 0 => \A i \in DOMAIN at[k] : Starts(at[k][i]) <= Starts(rs[k])
           T == {k \in 0 .. n : Good(k)}
<1>4. 0 \in T
    <2>1. Apart(at[0])
        BY <1>3 DEF Apart, Ranges
    <2>2. \A x \in Int : ~In(x, at[0])
        BY <1>3 DEF In
    <2> QED BY <1>1, <2>1, <2>2
<1>5. ASSUME NEW k \in 0 .. n - 1, k \in T PROVE k + 1 \in T
    <2>1. k + 1 \in 1 .. n /\ k + 1 \in 0 .. n /\ (k + 1) - 1 = k /\ k \in 0 .. n /\ (k # 0 => k \in 1 .. n)
        BY <1>1
    <2>2. at[k + 1] = MergeNext(at[k], rs[k + 1]) /\ rs[k + 1] \in Pair
        BY <1>1, <1>3, <2>1
    <2>3. Good(k)
        BY <1>5
    <2>4. Starts(rs[k + 1]) < Ends(rs[k + 1])
        BY <2>1 DEF n
    <2>5. ASSUME NEW i \in DOMAIN at[k] PROVE Starts(at[k][i]) <= Starts(rs[k + 1])
        <3>1. CASE k = 0
            BY <1>3, <3>1
        <3>2. CASE k # 0
            <4>1. Starts(at[k][i]) <= Starts(rs[k])
                BY <2>3, <3>2
            <4>2. Starts(rs[k]) <= Starts(rs[k + 1])
                BY <1>1, <2>1, <3>2 DEF n
            <4>3. Starts(at[k][i]) \in Int
                <5>1. at[k] \in Ranges
                    BY <2>3 DEF Apart
                <5> HIDE DEF Good
                <5>2. i \in 1 .. Len(at[k])
                    BY <5>1, RangeTypes
                <5> QED BY <5>1, <5>2, RangeTypes, LengthOK
            <4> QED BY <1>1, <2>1, <3>2, <4>1, <4>2, <4>3
        <3> QED BY <3>1, <3>2
    <2>6. /\ Apart(at[k + 1])
          /\ \A x \in Int : In(x, at[k + 1]) <=> In(x, at[k]) \/ (Starts(rs[k + 1]) <= x /\ x < Ends(rs[k + 1]))
          /\ \A i \in DOMAIN at[k + 1] : Starts(at[k + 1][i]) <= Starts(rs[k + 1])
        <3>1. Apart(at[k])
            BY <2>3
        <3> QED BY <2>2, <2>4, <2>5, <3>1, MergeKeeps
    <2>7. \A x \in Int : In(x, at[k + 1]) <=> \E j \in 1 .. k + 1 : Starts(rs[j]) <= x /\ x < Ends(rs[j])
        <3> SUFFICES ASSUME NEW x \in Int
                     PROVE  In(x, at[k + 1]) <=> \E j \in 1 .. k + 1 : Starts(rs[j]) <= x /\ x < Ends(rs[j])
            OBVIOUS
        <3>1. In(x, at[k]) <=> \E j \in 1 .. k : Starts(rs[j]) <= x /\ x < Ends(rs[j])
            BY <2>3
        <3>2. \A j : j \in 1 .. k + 1 <=> j \in 1 .. k \/ j = k + 1
            BY <2>1
        <3> QED BY <2>6, <3>1, <3>2
    <2> QED BY <2>1, <2>6, <2>7
<1> HIDE DEF T, Good
<1>6. \A k \in 0 .. n : k \in T
    BY <1>1, <1>4, <1>5, UpToBound
<1>7. Good(n)
    BY <1>1, <1>6 DEF T
<1> QED BY <1>1, <1>2, <1>7 DEF Good, In, n

\* A page that was read is in the intervals, with what was there.
LEMMA Added ==
    ASSUME NEW rs, Apart(rs), NEW start \in 0 .. Length, NEW end \in 0 .. Length
    PROVE  /\ Apart(AddRange(rs, start, end))
           /\ \A x \in Int : In(x, AddRange(rs, start, end)) <=> In(x, rs) \/ (start <= x /\ x < end)
<1> DEFINE n == Len(rs)
           a == Append(rs, <<start, end>>)
           b == ByStart(a)
<1>0. start \in Int /\ end \in Int
    BY LengthOK
<1>1. CASE end <= start
    <2>1. AddRange(rs, start, end) = rs /\ \A x \in Int : ~(start <= x /\ x < end)
        BY <1>0, <1>1 DEF AddRange
    <2> QED BY <2>1
<1>2. CASE ~(end <= start)
    <2>1. AddRange(rs, start, end) = FoldLeft(MergeNext, << >>, b)
        BY <1>2 DEF AddRange
    <2>2. rs \in Ranges /\ n \in Nat /\ DOMAIN rs = 1 .. n
        BY RangeTypes DEF Apart
    <2>3. <<start, end>> \in Pair /\ Starts(<<start, end>>) = start /\ Ends(<<start, end>>) = end
        BY PairMade
    <2>4. a \in Ranges /\ Len(a) = n + 1 /\ a[n + 1] = <<start, end>> /\ \A k \in 1 .. n : a[k] = rs[k]
        BY <2>2, <2>3 DEF Ranges, Pair
    <2> HIDE DEF a, n
    <2>5. n + 1 \in 1 .. n + 1 /\ \A k : k \in 1 .. n + 1 <=> k \in 1 .. n \/ k = n + 1
        BY <2>2
    <2>6. \A k \in 1 .. n + 1 : Starts(a[k]) < Ends(a[k])
        BY <1>0, <1>2, <2>2, <2>3, <2>4, <2>5 DEF Apart
    <2>7. b \in Ranges /\ Len(b) = n + 1 /\ DOMAIN b = 1 .. n + 1
        BY <2>4, Ordered, RangeTypes
    <2>8. /\ \A k \in 1 .. n + 1 : \E i \in 1 .. n + 1 : b[k] = a[i]
          /\ \A i \in 1 .. n + 1 : \E k \in 1 .. n + 1 : b[k] = a[i]
          /\ \A j, k \in 1 .. n + 1 : j < k => Starts(b[j]) <= Starts(b[k])
        <3> DEFINE l == Len(a)
        <3>1. /\ \A k \in 1 .. l : \E i \in 1 .. l : b[k] = a[i]
              /\ \A i \in 1 .. l : \E k \in 1 .. l : b[k] = a[i]
              /\ \A j, k \in 1 .. l : j < k => Starts(b[j]) <= Starts(b[k])
            <4> HIDE DEF l
            <4>1. a \in Ranges
                BY <2>4
            <4> QED BY <4>1, Ordered, Zenon DEF l
        <3>2. l = n + 1
            BY <2>4
        <3> HIDE DEF l, b
        <3> QED BY <3>1, <3>2
    <2> HIDE DEF b
    <2>9. \A k \in 1 .. n + 1 : Starts(b[k]) < Ends(b[k])
        BY <2>6, <2>8
    <2> DEFINE s == FoldLeft(MergeNext, << >>, b)
    <2>10. Apart(s) /\ \A x \in Int : In(x, s) <=> In(x, b)
        BY <2>7, <2>8, <2>9, Merged
    <2>11. \A x \in Int : In(x, b) <=> \E i \in 1 .. n + 1 : Starts(a[i]) <= x /\ x < Ends(a[i])
        BY <2>7, <2>8 DEF In
    <2>12. \A x \in Int : (\E i \in 1 .. n + 1 : Starts(a[i]) <= x /\ x < Ends(a[i])) <=> In(x, rs) \/ (start <= x /\ x < end)
        BY <2>2, <2>3, <2>4, <2>5 DEF In
    <2> HIDE DEF s
    <2>13. AddRange(rs, start, end) = s
        BY <2>1 DEF s
    <2> QED BY <2>10, <2>11, <2>12, <2>13
<1> QED BY <1>1, <1>2

-----------------------------------------------------------------------------
(* Taking out what changed. *)

\* Intervals behind others are apart from them.
LEMMA Joined ==
    ASSUME NEW r, Apart(r), NEW s, Apart(s), \A j \in DOMAIN r, k \in DOMAIN s : Ends(r[j]) < Starts(s[k])
    PROVE  /\ Apart(r \o s)
           /\ \A x \in Int : In(x, r \o s) <=> In(x, r) \/ In(x, s)
           /\ \A i \in DOMAIN (r \o s) : (\E j \in DOMAIN r : (r \o s)[i] = r[j]) \/ \E k \in DOMAIN s : (r \o s)[i] = s[k]
<1> DEFINE m == Len(r)
           n == Len(s)
           t == r \o s
<1>1. /\ m \in Nat /\ n \in Nat /\ DOMAIN r = 1 .. m /\ DOMAIN s = 1 .. n
      /\ r \in Seq(Pair) /\ s \in Seq(Pair)
    BY RangeTypes DEF Apart, Ranges, Pair
<1>2. t \in Seq(Pair) /\ Len(t) = m + n
    BY <1>1
<1>3. \A i \in 1 .. m : t[i] = r[i]
    BY <1>1
<1>4. \A i \in 1 .. n : t[m + i] = s[i]
    BY <1>1
<1> HIDE DEF t, m, n
<1>5. DOMAIN t = 1 .. m + n
    BY <1>1, <1>2
<1>6. ASSUME NEW i \in 1 .. m + n PROVE i \in 1 .. m \/ (i - m \in 1 .. n /\ i = m + (i - m))
    BY <1>1
<1>7. ASSUME NEW i \in 1 .. m + n, i \notin 1 .. m PROVE i - m \in 1 .. n /\ t[i] = s[i - m]
    <2>1. i - m \in 1 .. n /\ i = m + (i - m)
        BY <1>6, <1>7
    <2>2. t[m + (i - m)] = s[i - m]
        BY <1>4, <2>1
    <2> QED BY <2>1, <2>2
<1>8. \A i \in 1 .. m + n : (\E j \in 1 .. m : t[i] = r[j]) \/ \E k \in 1 .. n : t[i] = s[k]
    BY <1>3, <1>7
<1>9. Apart(t)
    <2>1. \A i \in 1 .. m + n : Starts(t[i]) < Ends(t[i])
        BY <1>1, <1>8 DEF Apart
    <2>2. ASSUME NEW i \in 1 .. m + n, NEW j \in 1 .. m + n, i < j PROVE Ends(t[i]) < Starts(t[j])
        <3>1. CASE j \in 1 .. m
            <4>1. i \in 1 .. m
                BY <1>1, <2>2, <3>1
            <4> QED BY <1>1, <1>3, <2>2, <3>1, <4>1 DEF Apart
        <3>2. CASE i \in 1 .. m /\ j \notin 1 .. m
            BY <1>1, <1>3, <1>7, <3>2
        <3>3. CASE i \notin 1 .. m /\ j \notin 1 .. m
            <4>1. i - m \in 1 .. n /\ j - m \in 1 .. n /\ i - m < j - m
                BY <1>1, <1>7, <2>2, <3>3
            <4>2. Ends(s[i - m]) < Starts(s[j - m])
                BY <1>1, <4>1 DEF Apart
            <4> QED BY <1>7, <3>3, <4>2
        <3>4. j \notin 1 .. m \/ j \in 1 .. m
            OBVIOUS
        <3> QED BY <3>1, <3>2, <3>3
    <2> QED BY <1>2, <1>5, <2>1, <2>2 DEF Apart, Ranges, Pair
<1>10. ASSUME NEW x \in Int PROVE In(x, t) <=> In(x, r) \/ In(x, s)
    <2>1. In(x, t) => In(x, r) \/ In(x, s)
        BY <1>1, <1>5, <1>8 DEF In
    <2>2. In(x, r) => In(x, t)
        <3>1. \A i \in 1 .. m : i \in 1 .. m + n
            BY <1>1
        <3> QED BY <1>1, <1>3, <1>5, <3>1 DEF In
    <2>3. In(x, s) => In(x, t)
        <3>1. \A i \in 1 .. n : m + i \in 1 .. m + n
            BY <1>1
        <3> QED BY <1>1, <1>4, <1>5, <3>1 DEF In
    <2> QED BY <2>1, <2>2, <2>3
<1> QED BY <1>1, <1>5, <1>8, <1>9, <1>10 DEF t

\* One more interval behind the others.
LEMMA Lengthened ==
    ASSUME NEW r, Apart(r), NEW a \in 0 .. Length, NEW b \in 0 .. Length, a < b,
           \A j \in DOMAIN r : Ends(r[j]) < a
    PROVE  /\ Apart(Append(r, <<a, b>>))
           /\ \A x \in Int : In(x, Append(r, <<a, b>>)) <=> In(x, r) \/ (a <= x /\ x < b)
           /\ \A i \in DOMAIN Append(r, <<a, b>>) : (\E j \in DOMAIN r : Append(r, <<a, b>>)[i] = r[j]) \/ Append(r, <<a, b>>)[i] = <<a, b>>
<1> DEFINE s == << <<a, b>> >>
<1>1. <<a, b>> \in Pair /\ Starts(<<a, b>>) = a /\ Ends(<<a, b>>) = b
    BY PairMade
<1>2. DOMAIN s = {1} /\ s[1] = <<a, b>> /\ s \in Seq(Pair)
    BY <1>1
<1>3. r \in Seq(Pair)
    BY DEF Apart, Ranges, Pair
<1>4. Append(r, <<a, b>>) = r \o s
    BY <1>1, <1>3, AppendIsConcat
<1> HIDE DEF s
<1>5. Apart(s) /\ \A x \in Int : In(x, s) <=> a <= x /\ x < b
    <2>1. s \in Ranges
        BY <1>2 DEF Ranges, Pair
    <2>2. \A k \in DOMAIN s : k = 1 /\ Starts(s[k]) = a /\ Ends(s[k]) = b
        BY <1>1, <1>2
    <2>3. \A x \in Int : In(x, s) <=> a <= x /\ x < b
        BY <1>2, <2>2 DEF In
    <2> QED BY <2>1, <2>2, <2>3 DEF Apart
<1>6. \A j \in DOMAIN r, k \in DOMAIN s : Ends(r[j]) < Starts(s[k])
    BY <1>1, <1>2
<1>7. /\ Apart(r \o s)
      /\ \A x \in Int : In(x, r \o s) <=> In(x, r) \/ In(x, s)
      /\ \A i \in DOMAIN (r \o s) : (\E j \in DOMAIN r : (r \o s)[i] = r[j]) \/ \E k \in DOMAIN s : (r \o s)[i] = s[k]
    BY <1>5, <1>6, Joined
<1> QED BY <1>2, <1>4, <1>5, <1>7

\* A changed position ends the piece before it.
CutAt(changed, acc, i) ==
    IF i \notin changed THEN acc
    ELSE [from |-> i + 1,
          kept |-> IF acc.from < i THEN Append(acc.kept, <<acc.from, i>>) ELSE acc.kept]
\* What is behind the last changed position is a piece too.
Rest(cut, range) ==
    IF cut.from < Ends(range) THEN Append(cut.kept, <<cut.from, Ends(range)>>) ELSE cut.kept

\* The pieces after every position of an interval.
IsCut(at, range, changed) ==
    /\ at \in [0 .. Ends(range) - Starts(range) -> [from : 0 .. Length, kept : Ranges]]
    /\ at[0] = [from |-> Starts(range), kept |-> << >>]
    /\ \A k \in 1 .. Ends(range) - Starts(range) :
           at[k] = CutAt(changed, at[k - 1], Starts(range) + k - 1)

\* The fold cuts at one position after the other.
LEMMA CutIsFold ==
    ASSUME NEW range \in Pair, Starts(range) < Ends(range), NEW changed
    PROVE  \E at : IsCut(at, range, changed) /\ Pieces(range, changed) = Rest(at[Ends(range) - Starts(range)], range)
<1> DEFINE n == Ends(range) - Starts(range)
           pos == [k \in 1 .. n |-> Starts(range) + k - 1]
           base == [from |-> Starts(range), kept |-> << >>]
           V == [from : 0 .. Length, kept : Ranges]
           step == [k \in 1 .. n |-> [c \in V |-> CutAt(changed, c, pos[k])]]
           Body(g) == [s \in SUBSET DOMAIN pos |->
                          IF s = {} THEN base
                          ELSE LET x == Max(s) IN CutAt(changed, g[s \ {x}], pos[x])]
           iter == CHOOSE g : g = Body(g)
<1>1. /\ n \in Nat /\ DOMAIN pos = 1 .. n /\ base \in V
      /\ \A k \in 1 .. n : pos[k] \in 0 .. Length - 1 /\ pos[k] + 1 \in 0 .. Length /\ pos[k] = Starts(range) + k - 1
    <2>1. Starts(range) \in 0 .. Length /\ Ends(range) \in 0 .. Length /\ << >> \in Ranges
        BY PairParts DEF Ranges
    <2>2. base \in V
        BY <2>1
    <2> QED BY <2>1, <2>2, LengthOK
<1>2. Pieces(range, changed) = Rest(iter[1 .. n], range)
    <2> DEFINE fold == FoldLeft(LAMBDA acc, i : CutAt(changed, acc, i), base, pos)
    <2>1. Pieces(range, changed) = Rest(fold, range)
        BY Zenon DEF Pieces, Rest, CutAt
    <2> HIDE DEF n, pos, base
    <2>2. fold = iter[DOMAIN pos]
        BY Zenon DEF FoldLeft, MapThenFoldSet
    <2> HIDE DEF fold, iter
    <2> QED BY <1>1, <2>1, <2>2
<1>3. ASSUME NEW k \in 1 .. n, NEW c \in V PROVE CutAt(changed, c, pos[k]) \in V
    <2>1. pos[k] \in 0 .. Length /\ pos[k] + 1 \in 0 .. Length
        BY <1>1, LengthOK
    <2>2. <<c.from, pos[k]>> \in Pair
        BY <2>1, PairMade
    <2>3. Append(c.kept, <<c.from, pos[k]>>) \in Ranges
        BY <2>2 DEF Ranges, Pair
    <2> HIDE DEF pos
    <2> QED BY <2>1, <2>3 DEF CutAt
<1>4. step \in [1 .. n -> [V -> V]]
    BY <1>3
<1>5. \A k \in 1 .. n, c \in V : step[k][c] = CutAt(changed, c, pos[k])
    OBVIOUS
<1> HIDE DEF step, n, V, pos, base
<1>6. \E g : g = Body(g)
    <2>1. PICK g \in [SUBSET (1 .. n) -> V] : IsFold(g, base, step, n)
        <3>1. base \in V /\ n \in Nat
            BY <1>1
        <3> QED BY <1>4, <3>1, FoldExists
    <2>2. ASSUME NEW s \in SUBSET (1 .. n), s # {}
          PROVE  g[s] = CutAt(changed, g[s \ {Max(s)}], pos[Max(s)])
        <3>1. Max(s) \in 1 .. n /\ s \ {Max(s)} \in SUBSET (1 .. n)
            BY <1>1, <2>2, GreatestPosition
        <3>2. g[s] = step[Max(s)][g[s \ {Max(s)}]]
            BY <2>1, <2>2 DEF IsFold
        <3>3. g[s \ {Max(s)}] \in V
            BY <3>1
        <3> QED BY <1>5, <3>1, <3>2, <3>3
    <2>3. g[{}] = base
        BY <2>1 DEF IsFold
    <2>4. g = Body(g)
        BY <1>1, <2>1, <2>2, <2>3
    <2> QED BY <2>4
<1>7. iter = Body(iter)
    BY <1>6
<1>8. /\ iter[{}] = base
      /\ \A s \in SUBSET (1 .. n) : s # {} => iter[s] = CutAt(changed, iter[s \ {Max(s)}], pos[Max(s)])
    BY <1>1, <1>7
<1> HIDE DEF iter
<1>9. Folds(iter, base, step, n, V)
    <2> SUFFICES ASSUME NEW s \in SUBSET (1 .. n), s # {}, iter[s \ {Max(s)}] \in V
                 PROVE  iter[s] = step[Max(s)][iter[s \ {Max(s)}]]
        BY <1>8 DEF Folds
    <2>1. Max(s) \in 1 .. n
        BY <1>1, GreatestPosition
    <2>2. iter[s] = CutAt(changed, iter[s \ {Max(s)}], pos[Max(s)])
        BY <1>8
    <2> QED BY <1>5, <2>1, <2>2
<1>10. step \in [1 .. n -> [V -> V]] /\ n \in Nat /\ base \in V
    BY <1>1, <1>4
<1> SUFFICES ASSUME Folds(iter, base, step, n, V), step \in [1 .. n -> [V -> V]], n \in Nat, base \in V
             PROVE  \E at : IsCut(at, range, changed) /\ Pieces(range, changed) = Rest(at[Ends(range) - Starts(range)], range)
    BY <1>9, <1>10
<1>11. /\ iter[1 .. 0] = base
       /\ \A k \in 0 .. n : iter[1 .. k] \in V
       /\ \A k \in 1 .. n : iter[1 .. k] = step[k][iter[1 .. k - 1]]
    BY FoldOnPrefixes, SMTT(30)
<1>12. \A k \in 0 .. n : iter[1 .. k] \in V
    BY <1>11
<1> DEFINE at == [k \in 0 .. n |-> iter[1 .. k]]
<1>13. at \in [0 .. n -> V] /\ at[0] = base /\ at[n] = iter[1 .. n]
    BY <1>1, <1>11, <1>12
<1>14. ASSUME NEW k \in 1 .. n PROVE at[k] = CutAt(changed, at[k - 1], Starts(range) + k - 1)
    <2>1. k - 1 \in 0 .. n /\ k \in 0 .. n
        BY <1>1
    <2>2. pos[k] = Starts(range) + k - 1
        BY <1>1
    <2> QED BY <1>5, <1>11, <1>12, <2>1, <2>2
<1> HIDE DEF at
<1>15. IsCut(at, range, changed)
    BY <1>13, <1>14 DEF IsCut, n, V, base
<1>16. Pieces(range, changed) = Rest(at[Ends(range) - Starts(range)], range)
    BY <1>2, <1>13 DEF n
<1> QED BY <1>15, <1>16

\* Within an interval: behind its start and before a position.
Within(rs, a, b) == \A j \in DOMAIN rs : a <= Starts(rs[j]) /\ Ends(rs[j]) < b

\* One more position is looked at.
LEMMA CutOnce ==
    ASSUME NEW changed, NEW a \in 0 .. Length, NEW i \in 0 .. Length, i + 1 <= Length,
           NEW c \in [from : 0 .. Length, kept : Ranges],
           a <= c.from, c.from <= i, Apart(c.kept), Within(c.kept, a, c.from),
           \A x \in Int : In(x, c.kept) <=> a <= x /\ x < c.from /\ x \notin changed,
           \A x \in Int : c.from <= x /\ x < i => x \notin changed
    PROVE  LET d == CutAt(changed, c, i)
           IN  /\ a <= d.from /\ d.from <= i + 1 /\ Apart(d.kept) /\ Within(d.kept, a, d.from)
               /\ \A x \in Int : In(x, d.kept) <=> a <= x /\ x < d.from /\ x \notin changed
               /\ \A x \in Int : d.from <= x /\ x < i + 1 => x \notin changed
<1> DEFINE d == CutAt(changed, c, i)
<1>0. i \in Int /\ a \in Int /\ c.from \in Int /\ c.from \in 0 .. Length /\ i + 1 \in Int
    BY LengthOK
<1>1. CASE i \notin changed
    <2>1. d = c
        BY <1>1 DEF CutAt
    <2>2. ASSUME NEW x \in Int, c.from <= x, x < i + 1 PROVE x \notin changed
        <3>1. x = i \/ x < i
            BY <1>0, <2>2
        <3> QED BY <1>1, <2>2, <3>1
    <2>3. c.from <= i + 1
        BY <1>0
    <2> QED BY <2>1, <2>2, <2>3
<1>2. CASE i \in changed /\ c.from < i
    <2>1. d.from = i + 1 /\ d.kept = Append(c.kept, <<c.from, i>>)
        BY <1>2 DEF CutAt
    <2> DEFINE s == Append(c.kept, <<c.from, i>>)
    <2>2. \A j \in DOMAIN c.kept : Ends(c.kept[j]) < c.from
        BY DEF Within
    <2>3. /\ Apart(s)
          /\ \A x \in Int : In(x, s) <=> In(x, c.kept) \/ (c.from <= x /\ x < i)
          /\ \A j \in DOMAIN s : (\E k \in DOMAIN c.kept : s[j] = c.kept[k]) \/ s[j] = <<c.from, i>>
        BY <1>0, <1>2, <2>2, Lengthened
    <2> HIDE DEF s
    <2>4. Starts(<<c.from, i>>) = c.from /\ Ends(<<c.from, i>>) = i
        BY DEF Starts, Ends
    <2>5. ASSUME NEW j \in DOMAIN s PROVE a <= Starts(s[j]) /\ Ends(s[j]) < i + 1
        <3>1. CASE \E k \in DOMAIN c.kept : s[j] = c.kept[k]
            <4>1. PICK k \in DOMAIN c.kept : s[j] = c.kept[k]
                BY <3>1
            <4>2. a <= Starts(c.kept[k]) /\ Ends(c.kept[k]) < c.from
                BY DEF Within
            <4>3. c.kept \in Ranges /\ k \in 1 .. Len(c.kept)
                BY RangeTypes
            <4>4. Ends(c.kept[k]) \in Int
                BY <4>3, RangeTypes, LengthOK
            <4> QED BY <1>0, <4>1, <4>2, <4>4
        <3>2. CASE s[j] = <<c.from, i>>
            BY <1>0, <2>4, <3>2
        <3> QED BY <2>3, <3>1, <3>2
    <2>6. ASSUME NEW x \in Int PROVE In(x, s) <=> a <= x /\ x < i + 1 /\ x \notin changed
        <3>1. In(x, s) <=> (a <= x /\ x < c.from /\ x \notin changed) \/ (c.from <= x /\ x < i)
            BY <2>3
        <3>2. c.from <= x /\ x < i => a <= x /\ x < i + 1 /\ x \notin changed
            BY <1>0
        <3>3. x < c.from => x < i + 1
            BY <1>0
        <3>4. a <= x /\ x < i + 1 /\ x \notin changed => x < i
            BY <1>0, <1>2
        <3>5. x < c.from \/ c.from <= x
            BY <1>0
        <3> QED BY <3>1, <3>2, <3>3, <3>4, <3>5
    <2>7. Within(s, a, i + 1)
        BY <2>5 DEF Within
    <2>8. a <= i + 1 /\ \A x \in Int : ~(i + 1 <= x /\ x < i + 1)
        BY <1>0
    <2>9. d.kept = s
        BY <2>1 DEF s
    <2> HIDE DEF d
    <2>10. i + 1 <= i + 1
        BY <1>0
    <2> QED BY <2>1, <2>3, <2>6, <2>7, <2>8, <2>9, <2>10 DEF d
<1>3. CASE i \in changed /\ ~(c.from < i)
    <2>1. d.from = i + 1 /\ d.kept = c.kept
        BY <1>3 DEF CutAt
    <2>2. c.from = i
        BY <1>0, <1>3
    <2>3. ASSUME NEW j \in DOMAIN c.kept PROVE a <= Starts(c.kept[j]) /\ Ends(c.kept[j]) < i + 1
        <3>1. a <= Starts(c.kept[j]) /\ Ends(c.kept[j]) < c.from
            BY DEF Within
        <3>2. c.kept \in Ranges /\ j \in 1 .. Len(c.kept)
            BY RangeTypes
        <3>3. Ends(c.kept[j]) \in Int
            BY <3>2, RangeTypes, LengthOK
        <3> QED BY <1>0, <2>2, <3>1, <3>3
    <2>4. ASSUME NEW x \in Int PROVE In(x, c.kept) <=> a <= x /\ x < i + 1 /\ x \notin changed
        <3>1. x < i + 1 <=> x < i \/ x = i
            BY <1>0
        <3> QED BY <1>3, <2>2, <3>1
    <2>5. Within(c.kept, a, i + 1)
        BY <2>3 DEF Within
    <2>6. a <= i + 1 /\ (\A x \in Int : ~(i + 1 <= x /\ x < i + 1)) /\ i + 1 <= i + 1
        BY <1>0
    <2> HIDE DEF d
    <2> QED BY <2>1, <2>4, <2>5, <2>6 DEF d
<1> HIDE DEF d
<1> QED BY <1>1, <1>2, <1>3 DEF d

\* The pieces of an interval are what of it has not changed.
LEMMA PiecesAre ==
    ASSUME NEW range \in Pair, Starts(range) < Ends(range), NEW changed
    PROVE  LET s == Pieces(range, changed)
           IN  /\ Apart(s)
               /\ \A j \in DOMAIN s : Starts(range) <= Starts(s[j]) /\ Ends(s[j]) <= Ends(range)
               /\ \A x \in Int : In(x, s) <=> Starts(range) <= x /\ x < Ends(range) /\ x \notin changed
<1> DEFINE a == Starts(range)
           b == Ends(range)
           n == b - a
<1>1. a \in 0 .. Length /\ b \in 0 .. Length /\ n \in Nat /\ a \in Int /\ b \in Int /\ a + n = b /\ n - 1 \in Int
    BY PairParts, LengthOK
<1>2. PICK at : IsCut(at, range, changed) /\ Pieces(range, changed) = Rest(at[n], range)
    BY CutIsFold
<1>3. /\ at \in [0 .. n -> [from : 0 .. Length, kept : Ranges]]
      /\ at[0] = [from |-> a, kept |-> << >>]
      /\ \A k \in 1 .. n : at[k] = CutAt(changed, at[k - 1], a + k - 1)
    BY <1>2 DEF IsCut
<1> HIDE DEF a, b, n
<1> DEFINE Good(k) ==
               /\ a <= at[k].from /\ at[k].from <= a + k /\ Apart(at[k].kept) /\ Within(at[k].kept, a, at[k].from)
               /\ \A x \in Int : In(x, at[k].kept) <=> a <= x /\ x < at[k].from /\ x \notin changed
               /\ \A x \in Int : at[k].from <= x /\ x < a + k => x \notin changed
           T == {k \in 0 .. n : Good(k)}
<1>4. 0 \in T
    <2>1. at[0].from = a /\ at[0].kept = << >>
        BY <1>3
    <2>2. Apart(at[0].kept) /\ Within(at[0].kept, a, a) /\ \A x : ~In(x, at[0].kept)
        BY <2>1 DEF Apart, Within, In, Ranges
    <2>3. a + 0 = a /\ a <= a /\ \A x \in Int : ~(a <= x /\ x < a)
        BY <1>1
    <2> QED BY <1>1, <2>1, <2>2, <2>3
<1>5. ASSUME NEW k \in 0 .. n - 1, k \in T PROVE k + 1 \in T
    <2>1. k + 1 \in 1 .. n /\ k + 1 \in 0 .. n /\ (k + 1) - 1 = k /\ k \in 0 .. n /\ a + (k + 1) - 1 = a + k /\ (a + k) + 1 = a + (k + 1)
        BY <1>1
    <2>2. a + k \in 0 .. Length /\ (a + k) + 1 <= Length
        BY <1>1, LengthOK
    <2>3. at[k + 1] = CutAt(changed, at[k], a + k) /\ at[k] \in [from : 0 .. Length, kept : Ranges]
        BY <1>3, <2>1
    <2>4. Good(k)
        BY <1>5
    <2> DEFINE c == at[k]
               i == a + k
               d == CutAt(changed, c, i)
    <2>5. /\ a <= c.from /\ c.from <= i /\ Apart(c.kept) /\ Within(c.kept, a, c.from)
          /\ \A x \in Int : In(x, c.kept) <=> a <= x /\ x < c.from /\ x \notin changed
          /\ \A x \in Int : c.from <= x /\ x < i => x \notin changed
        BY <2>4
    <2>6. c \in [from : 0 .. Length, kept : Ranges] /\ i \in 0 .. Length /\ i + 1 <= Length
        BY <2>2, <2>3
    <2> HIDE DEF c, i
    <2>7. /\ a <= d.from /\ d.from <= i + 1 /\ Apart(d.kept) /\ Within(d.kept, a, d.from)
          /\ \A x \in Int : In(x, d.kept) <=> a <= x /\ x < d.from /\ x \notin changed
          /\ \A x \in Int : d.from <= x /\ x < i + 1 => x \notin changed
        BY <1>1, <2>5, <2>6, CutOnce
    <2>8. at[k + 1] = d /\ i + 1 = a + (k + 1)
        BY <2>1, <2>3 DEF c, i
    <2> HIDE DEF d
    <2>9. Good(k + 1)
        BY <2>7, <2>8
    <2> QED BY <2>1, <2>9
<1> HIDE DEF T, Good
<1>6. \A k \in 0 .. n : k \in T
    BY <1>1, <1>4, <1>5, UpToBound
<1>7. Good(n)
    BY <1>1, <1>6 DEF T
<1> DEFINE c == at[n]
           s == Rest(c, range)
<1>8. c.from \in 0 .. Length /\ c.from \in Int /\ c.kept \in Ranges
    BY <1>1, <1>3, LengthOK
<1>9. /\ a <= c.from /\ c.from <= b /\ Apart(c.kept) /\ Within(c.kept, a, c.from)
      /\ \A x \in Int : In(x, c.kept) <=> a <= x /\ x < c.from /\ x \notin changed
      /\ \A x \in Int : c.from <= x /\ x < b => x \notin changed
    BY <1>1, <1>7 DEF Good
<1> HIDE DEF c
<1>10. \A j \in DOMAIN c.kept : a <= Starts(c.kept[j]) /\ Ends(c.kept[j]) < c.from /\ Ends(c.kept[j]) \in Int
    <2> SUFFICES ASSUME NEW j \in DOMAIN c.kept
                 PROVE  a <= Starts(c.kept[j]) /\ Ends(c.kept[j]) < c.from /\ Ends(c.kept[j]) \in Int
        OBVIOUS
    <2>1. j \in 1 .. Len(c.kept)
        BY <1>8, RangeTypes
    <2> QED BY <1>8, <1>9, <2>1, RangeTypes, LengthOK DEF Within
<1>11. CASE c.from < b
    <2> DEFINE t == Append(c.kept, <<c.from, b>>)
    <2>1. s = t
        BY <1>11 DEF Rest, b
    <2>2. /\ Apart(t)
          /\ \A x \in Int : In(x, t) <=> In(x, c.kept) \/ (c.from <= x /\ x < b)
          /\ \A j \in DOMAIN t : (\E k \in DOMAIN c.kept : t[j] = c.kept[k]) \/ t[j] = <<c.from, b>>
        <3>1. Apart(c.kept) /\ \A j \in DOMAIN c.kept : Ends(c.kept[j]) < c.from
            BY <1>9, <1>10
        <3> DEFINE r == c.kept
                   e == c.from
        <3>2. Apart(r) /\ (\A j \in DOMAIN r : Ends(r[j]) < e) /\ e \in 0 .. Length /\ b \in 0 .. Length /\ e < b
            BY <1>1, <1>8, <1>11, <3>1
        <3> HIDE DEF r, e
        <3>3. /\ Apart(Append(r, <<e, b>>))
              /\ \A x \in Int : In(x, Append(r, <<e, b>>)) <=> In(x, r) \/ (e <= x /\ x < b)
              /\ \A j \in DOMAIN Append(r, <<e, b>>) : (\E k \in DOMAIN r : Append(r, <<e, b>>)[j] = r[k]) \/ Append(r, <<e, b>>)[j] = <<e, b>>
            BY <3>2, Lengthened
        <3> QED BY <3>3 DEF r, e
    <2>3. Starts(<<c.from, b>>) = c.from /\ Ends(<<c.from, b>>) = b
        BY DEF Starts, Ends
    <2> HIDE DEF t, s
    <2>4. ASSUME NEW j \in DOMAIN t PROVE a <= Starts(t[j]) /\ Ends(t[j]) <= b
        <3>1. CASE \E k \in DOMAIN c.kept : t[j] = c.kept[k]
            BY <1>1, <1>8, <1>9, <1>10, <3>1
        <3>2. CASE t[j] = <<c.from, b>>
            BY <1>1, <1>9, <2>3, <3>2
        <3> QED BY <2>2, <3>1, <3>2
    <2>5. ASSUME NEW x \in Int PROVE In(x, t) <=> a <= x /\ x < b /\ x \notin changed
        <3>1. In(x, t) <=> (a <= x /\ x < c.from /\ x \notin changed) \/ (c.from <= x /\ x < b)
            BY <1>9, <2>2
        <3>2. x < c.from => x < b
            BY <1>1, <1>8, <1>11
        <3>3. c.from <= x => a <= x
            BY <1>1, <1>8, <1>9
        <3>4. x < c.from \/ c.from <= x
            BY <1>8
        <3> QED BY <1>9, <3>1, <3>2, <3>3, <3>4
    <2> QED BY <1>2, <2>1, <2>2, <2>4, <2>5 DEF s, c, a, b
<1>12. CASE ~(c.from < b)
    <2>1. s = c.kept /\ c.from = b
        BY <1>1, <1>8, <1>9, <1>12 DEF Rest, b
    <2>2. \A j \in DOMAIN c.kept : a <= Starts(c.kept[j]) /\ Ends(c.kept[j]) <= b
        BY <1>1, <1>10, <2>1
    <2> HIDE DEF s
    <2> QED BY <1>2, <1>9, <2>1, <2>2 DEF s, c, a, b
<1> QED BY <1>11, <1>12

\* What is left after every interval.
IsRemoval(at, rs, changed) ==
    /\ at \in [0 .. Len(rs) -> Ranges]
    /\ at[0] = << >>
    /\ \A k \in 1 .. Len(rs) : at[k] = at[k - 1] \o Pieces(rs[k], changed)

\* The fold puts the pieces of one interval behind those of the others.
LEMMA RemovalIsFold ==
    ASSUME NEW rs, Apart(rs), NEW changed
    PROVE  \E at : IsRemoval(at, rs, changed) /\ Without(rs, changed) = at[Len(rs)]
<1> DEFINE n == Len(rs)
           step == [k \in 1 .. n |-> [c \in Ranges |-> c \o Pieces(rs[k], changed)]]
           Body(g) == [s \in SUBSET DOMAIN rs |->
                          IF s = {} THEN << >>
                          ELSE LET x == Max(s) IN g[s \ {x}] \o Pieces(rs[x], changed)]
           iter == CHOOSE g : g = Body(g)
<1>1. n \in Nat /\ DOMAIN rs = 1 .. n /\ << >> \in Ranges
    BY RangeTypes DEF Apart, Ranges
<1>2. Without(rs, changed) = iter[1 .. n]
    <2> HIDE DEF n
    <2>1. Without(rs, changed) = iter[DOMAIN rs]
        BY Zenon DEF Without, FoldLeft, MapThenFoldSet
    <2> HIDE DEF iter
    <2> QED BY <1>1, <2>1
<1>3. ASSUME NEW k \in 1 .. n, NEW c \in Ranges PROVE c \o Pieces(rs[k], changed) \in Ranges
    <2>1. rs[k] \in Pair /\ Starts(rs[k]) < Ends(rs[k])
        BY <1>1, RangeTypes DEF Apart, Pair
    <2>2. Pieces(rs[k], changed) \in Ranges
        BY <2>1, PiecesAre DEF Apart
    <2> QED BY <2>2 DEF Ranges
<1>4. step \in [1 .. n -> [Ranges -> Ranges]]
    BY <1>3
<1>5. \A k \in 1 .. n, c \in Ranges : step[k][c] = c \o Pieces(rs[k], changed)
    OBVIOUS
<1> HIDE DEF step, n
<1>6. \E g : g = Body(g)
    <2>1. PICK g \in [SUBSET (1 .. n) -> Ranges] : IsFold(g, << >>, step, n)
        <3>1. << >> \in Ranges /\ n \in Nat
            BY <1>1
        <3> QED BY <1>4, <3>1, FoldExists
    <2>2. ASSUME NEW s \in SUBSET (1 .. n), s # {}
          PROVE  g[s] = g[s \ {Max(s)}] \o Pieces(rs[Max(s)], changed)
        <3>1. Max(s) \in 1 .. n /\ s \ {Max(s)} \in SUBSET (1 .. n)
            BY <1>1, <2>2, GreatestPosition
        <3>2. g[s] = step[Max(s)][g[s \ {Max(s)}]]
            BY <2>1, <2>2 DEF IsFold
        <3>3. g[s \ {Max(s)}] \in Ranges
            BY <3>1
        <3> QED BY <1>5, <3>1, <3>2, <3>3
    <2>3. g[{}] = << >>
        BY <2>1 DEF IsFold
    <2>4. g = Body(g)
        BY <1>1, <2>1, <2>2, <2>3
    <2> QED BY <2>4
<1>7. iter = Body(iter)
    BY <1>6
<1>8. /\ iter[{}] = << >>
      /\ \A s \in SUBSET (1 .. n) : s # {} => iter[s] = iter[s \ {Max(s)}] \o Pieces(rs[Max(s)], changed)
    BY <1>1, <1>7
<1> HIDE DEF iter
<1> DEFINE V == Ranges
<1>9. Folds(iter, << >>, step, n, V)
    <2> SUFFICES ASSUME NEW s \in SUBSET (1 .. n), s # {}, iter[s \ {Max(s)}] \in Ranges
                 PROVE  iter[s] = step[Max(s)][iter[s \ {Max(s)}]]
        BY <1>8 DEF Folds
    <2>1. Max(s) \in 1 .. n
        BY <1>1, GreatestPosition
    <2>2. iter[s] = iter[s \ {Max(s)}] \o Pieces(rs[Max(s)], changed)
        BY <1>8
    <2> QED BY <1>5, <2>1, <2>2
<1>10. step \in [1 .. n -> [V -> V]] /\ n \in Nat /\ << >> \in V
    BY <1>1, <1>4
<1> HIDE DEF V
<1> SUFFICES ASSUME Folds(iter, << >>, step, n, V), step \in [1 .. n -> [V -> V]], n \in Nat, << >> \in V
             PROVE  \E at : IsRemoval(at, rs, changed) /\ Without(rs, changed) = at[Len(rs)]
    BY <1>9, <1>10
<1>11. /\ iter[1 .. 0] = << >>
       /\ \A k \in 0 .. n : iter[1 .. k] \in V
       /\ \A k \in 1 .. n : iter[1 .. k] = step[k][iter[1 .. k - 1]]
    BY FoldOnPrefixes, SMTT(30)
<1>12. \A k \in 0 .. n : iter[1 .. k] \in Ranges
    BY <1>11 DEF V
<1> DEFINE at == [k \in 0 .. n |-> iter[1 .. k]]
<1>13. at \in [0 .. n -> Ranges] /\ at[0] = << >> /\ at[n] = iter[1 .. n]
    BY <1>1, <1>11, <1>12
<1>14. ASSUME NEW k \in 1 .. n PROVE at[k] = at[k - 1] \o Pieces(rs[k], changed)
    <2>1. k - 1 \in 0 .. n /\ k \in 0 .. n
        BY <1>1
    <2> QED BY <1>5, <1>11, <1>12, <2>1
<1> HIDE DEF at
<1>15. IsRemoval(at, rs, changed)
    BY <1>13, <1>14 DEF IsRemoval, n
<1>16. Without(rs, changed) = at[Len(rs)]
    BY <1>2, <1>13 DEF n
<1> QED BY <1>15, <1>16

\* A correction takes the changed positions out, and nothing else.
LEMMA Removed ==
    ASSUME NEW rs, Apart(rs), NEW changed
    PROVE  /\ Apart(Without(rs, changed))
           /\ \A x \in Int : In(x, Without(rs, changed)) <=> In(x, rs) /\ x \notin changed
<1> DEFINE n == Len(rs)
<1>1. rs \in Ranges /\ n \in Nat /\ DOMAIN rs = 1 .. n
    BY RangeTypes DEF Apart
<1>2. /\ \A k \in 1 .. n : rs[k] \in Pair /\ Starts(rs[k]) \in Int /\ Ends(rs[k]) \in Int /\ Starts(rs[k]) < Ends(rs[k])
      /\ \A j, k \in 1 .. n : j < k => Ends(rs[j]) < Starts(rs[k])
    <2>1. \A k \in 1 .. n : rs[k] \in Pair
        BY <1>1, RangeTypes DEF Pair
    <2>2. \A k \in 1 .. n : Starts(rs[k]) \in Int /\ Ends(rs[k]) \in Int
        BY <1>1, RangeTypes, LengthOK
    <2> HIDE DEF n
    <2> QED BY <1>1, <2>1, <2>2 DEF Apart
<1>3. PICK at : IsRemoval(at, rs, changed) /\ Without(rs, changed) = at[n]
    BY RemovalIsFold
<1>4. at[0] = << >> /\ \A k \in 1 .. n : at[k] = at[k - 1] \o Pieces(rs[k], changed)
    BY <1>3 DEF IsRemoval
<1> HIDE DEF n
<1> DEFINE Good(k) ==
               /\ Apart(at[k])
               /\ k # 0 => \A i \in DOMAIN at[k] : Ends(at[k][i]) <= Ends(rs[k])
               /\ \A x \in Int : In(x, at[k]) <=>
                      (\E j \in 1 .. k : Starts(rs[j]) <= x /\ x < Ends(rs[j])) /\ x \notin changed
           T == {k \in 0 .. n : Good(k)}
<1>5. 0 \in T
    <2>1. Apart(at[0]) /\ \A x : ~In(x, at[0])
        BY <1>4 DEF Apart, In, Ranges
    <2> QED BY <1>1, <2>1
<1>6. ASSUME NEW k \in 0 .. n - 1, k \in T PROVE k + 1 \in T
    <2>1. k + 1 \in 1 .. n /\ k + 1 \in 0 .. n /\ (k + 1) - 1 = k /\ k \in 0 .. n /\ (k # 0 => k \in 1 .. n) /\ k < k + 1
        BY <1>1
    <2> DEFINE r == at[k]
               s == Pieces(rs[k + 1], changed)
    <2>2. at[k + 1] = r \o s
        BY <1>4, <2>1
    <2>3. Good(k)
        BY <1>6
    <2>4. Apart(r)
        BY <2>3
    <2>5. /\ Apart(s)
          /\ \A j \in DOMAIN s : Starts(rs[k + 1]) <= Starts(s[j]) /\ Ends(s[j]) <= Ends(rs[k + 1])
          /\ \A x \in Int : In(x, s) <=> Starts(rs[k + 1]) <= x /\ x < Ends(rs[k + 1]) /\ x \notin changed
        BY <1>2, <2>1, PiecesAre
    <2> HIDE DEF s
    <2>6. \A i \in DOMAIN r : Ends(r[i]) \in Int /\ Ends(r[i]) < Starts(rs[k + 1])
        <3> SUFFICES ASSUME NEW i \in DOMAIN r PROVE Ends(r[i]) \in Int /\ Ends(r[i]) < Starts(rs[k + 1])
            OBVIOUS
        <3>1. k # 0
            BY <1>4
        <3>2. Ends(r[i]) <= Ends(rs[k]) /\ Ends(rs[k]) < Starts(rs[k + 1])
            BY <1>2, <2>1, <2>3, <3>1
        <3> HIDE DEF r, Good
        <3>3. r \in Ranges /\ i \in 1 .. Len(r)
            BY <2>4, RangeTypes DEF Apart
        <3>4. Ends(r[i]) \in Int
            BY <3>3, RangeTypes, LengthOK
        <3> QED BY <1>2, <2>1, <3>1, <3>2, <3>4
    <2>7. \A j \in DOMAIN s : Starts(s[j]) \in Int
        <3> SUFFICES ASSUME NEW j \in DOMAIN s PROVE Starts(s[j]) \in Int
            OBVIOUS
        <3>1. s \in Ranges /\ j \in 1 .. Len(s)
            BY <2>5, RangeTypes DEF Apart
        <3> QED BY <3>1, RangeTypes, LengthOK
    <2>8. \A i \in DOMAIN r, j \in DOMAIN s : Ends(r[i]) < Starts(s[j])
        <3> SUFFICES ASSUME NEW i \in DOMAIN r, NEW j \in DOMAIN s PROVE Ends(r[i]) < Starts(s[j])
            OBVIOUS
        <3>1. Ends(r[i]) < Starts(rs[k + 1]) /\ Starts(rs[k + 1]) <= Starts(s[j])
            BY <2>5, <2>6
        <3>2. Ends(r[i]) \in Int /\ Starts(s[j]) \in Int /\ Starts(rs[k + 1]) \in Int
            BY <1>2, <2>1, <2>6, <2>7
        <3> QED BY <3>1, <3>2
    <2>9. /\ Apart(r \o s)
          /\ \A x \in Int : In(x, r \o s) <=> In(x, r) \/ In(x, s)
          /\ \A i \in DOMAIN (r \o s) : (\E j \in DOMAIN r : (r \o s)[i] = r[j]) \/ \E j \in DOMAIN s : (r \o s)[i] = s[j]
        <3> HIDE DEF r
        <3> QED BY <2>4, <2>5, <2>8, Joined
    <2> DEFINE t == r \o s
    <2> HIDE DEF t
    <2>10. ASSUME NEW i \in DOMAIN t PROVE Ends(t[i]) <= Ends(rs[k + 1])
        <3>1. CASE \E j \in DOMAIN s : t[i] = s[j]
            BY <2>5, <3>1
        <3>2. CASE \E j \in DOMAIN r : t[i] = r[j]
            <4>1. PICK j \in DOMAIN r : t[i] = r[j]
                BY <3>2
            <4>2. Ends(r[j]) \in Int /\ Ends(r[j]) < Starts(rs[k + 1])
                BY <2>6
            <4>3. Starts(rs[k + 1]) < Ends(rs[k + 1]) /\ Starts(rs[k + 1]) \in Int /\ Ends(rs[k + 1]) \in Int
                BY <1>2, <2>1
            <4>4. Ends(r[j]) <= Ends(rs[k + 1])
                BY <4>2, <4>3
            <4> QED BY <4>1, <4>4
        <3> QED BY <2>9, <3>1, <3>2 DEF t
    <2>11. ASSUME NEW x \in Int
           PROVE  In(x, t) <=> (\E j \in 1 .. k + 1 : Starts(rs[j]) <= x /\ x < Ends(rs[j])) /\ x \notin changed
        <3>1. In(x, t) <=> In(x, r) \/ In(x, s)
            BY <2>9 DEF t
        <3>2. In(x, r) <=> (\E j \in 1 .. k : Starts(rs[j]) <= x /\ x < Ends(rs[j])) /\ x \notin changed
            BY <2>3
        <3>3. \A j : j \in 1 .. k + 1 <=> j \in 1 .. k \/ j = k + 1
            BY <2>1
        <3> HIDE DEF r, Good
        <3> QED BY <2>5, <3>1, <3>2, <3>3
    <2>12. at[k + 1] = t /\ Apart(t)
        BY <2>2, <2>9 DEF t
    <2> HIDE DEF r
    <2> QED BY <2>1, <2>10, <2>11, <2>12
<1> HIDE DEF T, Good
<1>7. \A k \in 0 .. n : k \in T
    BY <1>1, <1>5, <1>6, UpToBound
<1>8. Good(n)
    BY <1>1, <1>7 DEF T
<1> QED BY <1>1, <1>3, <1>8 DEF Good, In

-----------------------------------------------------------------------------
(* Counting. *)

\* The number of positions up to every interval.
IsCount(at, rs) ==
    /\ at \in [0 .. Len(rs) -> Int]
    /\ at[0] = 0
    /\ \A k \in 1 .. Len(rs) : at[k] = at[k - 1] + Ends(rs[k]) - Starts(rs[k])

\* The fold counts one interval after the other.
LEMMA CountIsFold ==
    ASSUME NEW rs \in Ranges
    PROVE  \E at : IsCount(at, rs) /\ RangeCount(rs) = at[Len(rs)]
<1> DEFINE n == Len(rs)
           step == [k \in 1 .. n |-> [c \in Int |-> c + Ends(rs[k]) - Starts(rs[k])]]
           Body(g) == [s \in SUBSET DOMAIN rs |->
                          IF s = {} THEN 0
                          ELSE LET x == Max(s) IN g[s \ {x}] + Ends(rs[x]) - Starts(rs[x])]
           iter == CHOOSE g : g = Body(g)
<1>1. n \in Nat /\ DOMAIN rs = 1 .. n /\ 0 \in Int
    BY RangeTypes
<1>2. RangeCount(rs) = iter[1 .. n]
    <2> HIDE DEF n
    <2>1. RangeCount(rs) = iter[DOMAIN rs]
        BY Zenon DEF RangeCount, FoldLeft, MapThenFoldSet
    <2> HIDE DEF iter
    <2> QED BY <1>1, <2>1
<1>3. ASSUME NEW k \in 1 .. n, NEW c \in Int PROVE c + Ends(rs[k]) - Starts(rs[k]) \in Int
    BY <1>1, RangeTypes, LengthOK
<1>4. step \in [1 .. n -> [Int -> Int]]
    BY <1>3
<1>5. \A k \in 1 .. n, c \in Int : step[k][c] = c + Ends(rs[k]) - Starts(rs[k])
    OBVIOUS
<1> HIDE DEF step, n
<1>6. \E g : g = Body(g)
    <2>1. PICK g \in [SUBSET (1 .. n) -> Int] : IsFold(g, 0, step, n)
        <3>1. 0 \in Int /\ n \in Nat
            BY <1>1
        <3> QED BY <1>4, <3>1, FoldExists
    <2>2. ASSUME NEW s \in SUBSET (1 .. n), s # {}
          PROVE  g[s] = g[s \ {Max(s)}] + Ends(rs[Max(s)]) - Starts(rs[Max(s)])
        <3>1. Max(s) \in 1 .. n /\ s \ {Max(s)} \in SUBSET (1 .. n)
            BY <1>1, <2>2, GreatestPosition
        <3>2. g[s] = step[Max(s)][g[s \ {Max(s)}]]
            BY <2>1, <2>2 DEF IsFold
        <3>3. g[s \ {Max(s)}] \in Int
            BY <3>1
        <3> QED BY <1>5, <3>1, <3>2, <3>3
    <2>3. g[{}] = 0
        BY <2>1 DEF IsFold
    <2>4. g = Body(g)
        BY <1>1, <2>1, <2>2, <2>3
    <2> QED BY <2>4
<1>7. iter = Body(iter)
    BY <1>6
<1>8. /\ iter[{}] = 0
      /\ \A s \in SUBSET (1 .. n) : s # {} => iter[s] = iter[s \ {Max(s)}] + Ends(rs[Max(s)]) - Starts(rs[Max(s)])
    BY <1>1, <1>7
<1> HIDE DEF iter
<1> DEFINE V == Int
<1>9. Folds(iter, 0, step, n, V)
    <2> SUFFICES ASSUME NEW s \in SUBSET (1 .. n), s # {}, iter[s \ {Max(s)}] \in Int
                 PROVE  iter[s] = step[Max(s)][iter[s \ {Max(s)}]]
        BY <1>8 DEF Folds
    <2>1. Max(s) \in 1 .. n
        BY <1>1, GreatestPosition
    <2>2. iter[s] = iter[s \ {Max(s)}] + Ends(rs[Max(s)]) - Starts(rs[Max(s)])
        BY <1>8
    <2> QED BY <1>5, <2>1, <2>2
<1>10. step \in [1 .. n -> [V -> V]] /\ n \in Nat /\ 0 \in V
    BY <1>1, <1>4
<1> HIDE DEF V
<1> SUFFICES ASSUME Folds(iter, 0, step, n, V), step \in [1 .. n -> [V -> V]], n \in Nat, 0 \in V
             PROVE  \E at : IsCount(at, rs) /\ RangeCount(rs) = at[Len(rs)]
    BY <1>9, <1>10
<1>11. /\ iter[1 .. 0] = 0
       /\ \A k \in 0 .. n : iter[1 .. k] \in V
       /\ \A k \in 1 .. n : iter[1 .. k] = step[k][iter[1 .. k - 1]]
    BY FoldOnPrefixes, SMTT(30)
<1>12. \A k \in 0 .. n : iter[1 .. k] \in Int
    BY <1>11 DEF V
<1> DEFINE at == [k \in 0 .. n |-> iter[1 .. k]]
<1>13. at \in [0 .. n -> Int] /\ at[0] = 0 /\ at[n] = iter[1 .. n]
    BY <1>1, <1>11, <1>12
<1>14. ASSUME NEW k \in 1 .. n PROVE at[k] = at[k - 1] + Ends(rs[k]) - Starts(rs[k])
    <2>1. k - 1 \in 0 .. n /\ k \in 0 .. n
        BY <1>1
    <2> QED BY <1>5, <1>11, <1>12, <2>1
<1> HIDE DEF at
<1>15. IsCount(at, rs)
    BY <1>13, <1>14 DEF IsCount, n
<1>16. RangeCount(rs) = at[Len(rs)]
    BY <1>2, <1>13 DEF n
<1> QED BY <1>15, <1>16

\* Intervals that are apart are counted once.
LEMMA Counted ==
    ASSUME NEW rs, Apart(rs)
    PROVE  RangeCount(rs) = Cardinality({x \in Cues : In(x, rs)})
<1> DEFINE n == Len(rs)
           Below(k) == {x \in Cues : \E j \in 1 .. k : Starts(rs[j]) <= x /\ x < Ends(rs[j])}
<1>1. rs \in Ranges /\ n \in Nat /\ DOMAIN rs = 1 .. n
    BY RangeTypes DEF Apart
<1>2. /\ \A k \in 1 .. n : /\ Starts(rs[k]) \in 0 .. Length /\ Ends(rs[k]) \in 0 .. Length
                            /\ Starts(rs[k]) \in Int /\ Ends(rs[k]) \in Int /\ Starts(rs[k]) < Ends(rs[k])
      /\ \A j, k \in 1 .. n : j < k => Ends(rs[j]) < Starts(rs[k])
    <2>1. \A k \in 1 .. n : Starts(rs[k]) \in 0 .. Length /\ Ends(rs[k]) \in 0 .. Length
        BY <1>1, RangeTypes
    <2>2. \A x \in 0 .. Length : x \in Int
        BY LengthOK
    <2> HIDE DEF n
    <2>3. \A k \in 1 .. n : Starts(rs[k]) \in Int /\ Ends(rs[k]) \in Int
        BY <2>1, <2>2
    <2> QED BY <1>1, <2>1, <2>3 DEF Apart
<1>3. PICK at : IsCount(at, rs) /\ RangeCount(rs) = at[n]
    BY <1>1, CountIsFold
<1>4. at[0] = 0 /\ \A k \in 1 .. n : at[k] = at[k - 1] + Ends(rs[k]) - Starts(rs[k])
    BY <1>3 DEF IsCount
<1>5. IsFiniteSet(Cues)
    BY FS_Interval, LengthOK, 0 \in Int, Length - 1 \in Int DEF Cues
<1> HIDE DEF n
<1> DEFINE T == {k \in 0 .. n : at[k] = Cardinality(Below(k))}
<1>6. 0 \in T
    <2>1. Below(0) = {}
        OBVIOUS
    <2>2. Cardinality(Below(0)) = 0
        BY <2>1, FS_EmptySet, Zenon
    <2> HIDE DEF Below
    <2> QED BY <1>1, <1>4, <2>2
<1>7. ASSUME NEW k \in 0 .. n - 1, k \in T PROVE k + 1 \in T
    <2>1. k + 1 \in 1 .. n /\ k + 1 \in 0 .. n /\ (k + 1) - 1 = k /\ (\A j \in 1 .. k : j \in 1 .. n /\ j < k + 1)
        BY <1>1
    <2> DEFINE a == Starts(rs[k + 1])
               b == Ends(rs[k + 1])
               New == a .. b - 1
    <2>2. a \in 0 .. Length /\ b \in 0 .. Length /\ a \in Int /\ b \in Int /\ a < b
        BY <1>2, <2>1
    <2>3. at[k + 1] = at[k] + b - a
        BY <1>4, <2>1
    <2>4. at[k] = Cardinality(Below(k))
        BY <1>7
    <2>5. \A j : j \in 1 .. k + 1 <=> j \in 1 .. k \/ j = k + 1
        BY <2>1
    <2> HIDE DEF a, b
    <2>6. New \subseteq Cues /\ \A x \in Int : x \in New <=> a <= x /\ x < b
        BY <2>2, LengthOK DEF Cues
    <2>7. Below(k + 1) = Below(k) \cup New
        BY <2>5, <2>6, LengthOK DEF a, b, Cues
    <2>8. Below(k) \cap New = {}
        <3> SUFFICES ASSUME NEW x \in Cues, NEW j \in 1 .. k, Starts(rs[j]) <= x, x < Ends(rs[j]), a <= x PROVE FALSE
            BY <2>6, LengthOK DEF Cues
        <3>1. Ends(rs[j]) < a /\ Ends(rs[j]) \in Int /\ x \in Int
            BY <1>2, <2>1, LengthOK DEF a, Cues
        <3> QED BY <2>2, <3>1
    <2> HIDE DEF Below
    <2>9. IsFiniteSet(Below(k)) /\ Cardinality(Below(k)) \in Nat
        <3>1. Below(k) \in SUBSET Cues
            BY DEF Below
        <3> QED BY <1>5, <3>1, FS_Subset, FS_CardinalityType
    <2>10. IsFiniteSet(New) /\ Cardinality(New) = b - a
        <3>1. b - 1 \in Int /\ ~(a > b - 1) /\ (b - 1) - a + 1 = b - a
            BY <2>2
        <3>2. IsFiniteSet(New) /\ Cardinality(New) = IF a > b - 1 THEN 0 ELSE (b - 1) - a + 1
            BY <2>2, <3>1, FS_Interval
        <3> HIDE DEF New
        <3> QED BY <3>1, <3>2
    <2> HIDE DEF New
    <2>11. Cardinality(Below(k) \cup New) = Cardinality(Below(k)) + Cardinality(New) - Cardinality(Below(k) \cap New)
        BY <2>9, <2>10, FS_Union
    <2>12. Cardinality(Below(k) \cap New) = 0
        BY <2>8, FS_EmptySet
    <2>13. Cardinality(Below(k + 1)) = at[k + 1]
        <3> DEFINE c == Cardinality(Below(k))
        <3>0. Cardinality(Below(k + 1)) = Cardinality(Below(k) \cup New)
            BY <2>7
        <3>1. c \in Int /\ Cardinality(Below(k + 1)) = c + (b - a)
            BY <2>2, <2>9, <2>10, <2>11, <2>12, <3>0
        <3>2. at[k] = c
            BY <2>4
        <3> HIDE DEF c
        <3> QED BY <2>2, <2>3, <3>1, <3>2
    <2> QED BY <2>1, <2>13
<1> HIDE DEF T, Below
<1>8. \A k \in 0 .. n : k \in T
    BY <1>1, <1>6, <1>7, UpToBound
<1>9. at[n] = Cardinality(Below(n))
    BY <1>1, <1>8 DEF T
<1>10. Below(n) = {x \in Cues : In(x, rs)}
    BY <1>1 DEF Below, In
<1> QED BY <1>3, <1>9, <1>10

-----------------------------------------------------------------------------
(* What the intervals say. *)

\* The intervals are apart and stand for the positions that were marked.
EvidenceInv ==
    /\ Apart(ranges)
    /\ marked \subseteq Cues
    /\ \A x \in Int : x \in marked <=> In(x, ranges)

\* What lies in an interval is a cue.
LEMMA InIsCue == ASSUME NEW rs, Apart(rs), NEW x \in Int, In(x, rs) PROVE x \in Cues
<1>1. PICK k \in DOMAIN rs : Starts(rs[k]) <= x /\ x < Ends(rs[k])
    BY DEF In
<1>2. rs \in Ranges /\ k \in 1 .. Len(rs)
    BY RangeTypes DEF Apart
<1>3. Starts(rs[k]) \in 0 .. Length /\ Ends(rs[k]) \in 0 .. Length
    BY <1>2, RangeTypes
<1> QED BY <1>1, <1>3, LengthOK DEF Cues

\* The intervals of the invariant, as numbers.
LEMMA Numbers ==
    ASSUME EvidenceInv
    PROVE  /\ ranges \in Ranges /\ Len(ranges) \in Nat /\ DOMAIN ranges = 1 .. Len(ranges)
           /\ \A k \in DOMAIN ranges : /\ Starts(ranges[k]) \in Int /\ Ends(ranges[k]) \in Int
                                       /\ 0 <= Starts(ranges[k]) /\ Ends(ranges[k]) <= Length
                                       /\ Starts(ranges[k]) < Ends(ranges[k])
           /\ \A j, k \in DOMAIN ranges : j < k => Ends(ranges[j]) < Starts(ranges[k])
<1>1. ranges \in Ranges /\ Len(ranges) \in Nat /\ DOMAIN ranges = 1 .. Len(ranges)
    BY RangeTypes DEF EvidenceInv, Apart
<1>2. \A k \in 1 .. Len(ranges) : Starts(ranges[k]) \in 0 .. Length /\ Ends(ranges[k]) \in 0 .. Length
    BY <1>1, RangeTypes
<1>3. \A x \in 0 .. Length : x \in Int /\ 0 <= x /\ x <= Length
    BY LengthOK
<1> QED BY <1>1, <1>2, <1>3 DEF EvidenceInv, Apart

\* They stand for exactly the marked positions.
LEMMA TheyDenote == EvidenceInv => Denotes
<1> SUFFICES ASSUME EvidenceInv PROVE Denotes
    OBVIOUS
<1>1. \A k \in DOMAIN ranges : Starts(ranges[k]) \in Int /\ Ends(ranges[k]) \in Int
    BY Numbers
<1>2. \A x \in Cues : x \in Int
    BY LengthOK DEF Cues
<1> DEFINE U == UNION {Starts(ranges[k]) .. Ends(ranges[k]) - 1 : k \in DOMAIN ranges}
<1>3. ASSUME NEW x \in U PROVE x \in Int /\ In(x, ranges)
    <2>1. PICK k \in DOMAIN ranges : x \in Starts(ranges[k]) .. Ends(ranges[k]) - 1
        OBVIOUS
    <2> QED BY <1>1, <2>1 DEF In
<1>4. ASSUME NEW x \in Int, In(x, ranges) PROVE x \in U
    <2>1. PICK k \in DOMAIN ranges : Starts(ranges[k]) <= x /\ x < Ends(ranges[k])
        BY <1>4 DEF In
    <2>2. x \in Starts(ranges[k]) .. Ends(ranges[k]) - 1
        BY <1>1, <2>1
    <2> QED BY <2>2
<1> HIDE DEF U
<1>5. marked = U
    BY <1>2, <1>3, <1>4 DEF EvidenceInv
<1>6. marked = {x \in Cues : In(x, ranges)}
    BY <1>2 DEF EvidenceInv
<1>7. RangeCount(ranges) = Cardinality({x \in Cues : In(x, ranges)})
    BY Counted DEF EvidenceInv
<1>8. ranges \in Ranges
    BY Numbers
<1> QED BY <1>5, <1>6, <1>7, <1>8 DEF Denotes, U

\* The end of an interval is in none.
LEMMA EndIsGap == ASSUME EvidenceInv, NEW k \in DOMAIN ranges PROVE Ends(ranges[k]) \notin marked
<1> SUFFICES ASSUME Ends(ranges[k]) \in marked PROVE FALSE
    OBVIOUS
<1>1. PICK j \in DOMAIN ranges : Starts(ranges[j]) <= Ends(ranges[k]) /\ Ends(ranges[k]) < Ends(ranges[j])
    BY Numbers DEF EvidenceInv, In
<1>2. j < k \/ j = k \/ k < j
    BY Numbers
<1>3. /\ Starts(ranges[k]) \in Int /\ Ends(ranges[k]) \in Int /\ Starts(ranges[k]) < Ends(ranges[k])
      /\ Starts(ranges[j]) \in Int /\ Ends(ranges[j]) \in Int /\ Starts(ranges[j]) < Ends(ranges[j])
    BY Numbers
<1>4. (j < k => Ends(ranges[j]) < Starts(ranges[k])) /\ (k < j => Ends(ranges[k]) < Starts(ranges[j]))
    BY Numbers
<1> QED BY <1>1, <1>2, <1>3, <1>4

\* A page without a gap lies in one of them.
LEMMA TheyJoin == EvidenceInv => PagesInOneRange
<1> SUFFICES ASSUME EvidenceInv, NEW start \in marked, NEW end \in 1 .. Length,
                    start < end, start .. end - 1 \subseteq marked
             PROVE  \E k \in DOMAIN ranges : Starts(ranges[k]) <= start /\ end <= Ends(ranges[k])
    BY DEF PagesInOneRange
<1>1. start \in Int /\ end \in Int
    BY LengthOK DEF EvidenceInv, Cues
<1>2. PICK k \in DOMAIN ranges : Starts(ranges[k]) <= start /\ start < Ends(ranges[k])
    BY <1>1 DEF EvidenceInv, In
<1>3. Ends(ranges[k]) \in Int /\ Ends(ranges[k]) \notin marked
    BY Numbers, EndIsGap
<1>4. Ends(ranges[k]) \notin start .. end - 1
    BY <1>3
<1>5. end <= Ends(ranges[k])
    BY <1>1, <1>2, <1>3, <1>4
<1> QED BY <1>2, <1>5

\* A review goes on at the first position that is not marked.
LEMMA TheyResume == EvidenceInv => ResumesAtFirstGap
<1> SUFFICES ASSUME EvidenceInv PROVE NextUnread(ranges) = Min((Cues \ marked) \cup {Length})
    BY DEF ResumesAtFirstGap
<1> DEFINE S == (Cues \ marked) \cup {Length}
           first == ranges # << >> /\ Starts(Head(ranges)) = 0
           offset == IF first THEN Ends(Head(ranges)) ELSE 0
<1>1. Length \in Nat \ {0} /\ Length \in Int /\ Length \in S /\ \A x \in S : x \in Int /\ 0 <= x /\ x <= Length
    BY LengthOK DEF Cues
<1>2. Min(S) \in S /\ \A x \in S : Min(S) <= x
    <2>1. S # {} /\ 0 \in Int /\ \A x \in S : x \in Int /\ 0 <= x
        BY <1>1
    <2> HIDE DEF S
    <2> QED BY <2>1, LeastIs
<1>3. ranges # << >> => 1 \in DOMAIN ranges /\ Head(ranges) = ranges[1]
    BY Numbers DEF Ranges
<1>4. offset \in Int /\ 0 <= offset /\ offset <= Length
    <2>1. CASE first
        <3>1. Ends(ranges[1]) \in Int /\ 0 <= Ends(ranges[1]) /\ Ends(ranges[1]) <= Length
            BY <1>1, <1>3, <2>1, Numbers
        <3> QED BY <1>3, <2>1, <3>1
    <2>2. CASE ~first
        BY <1>1, <2>2
    <2> QED BY <2>1, <2>2
<1>5. \A x \in S : offset <= x
    <2> SUFFICES ASSUME NEW x \in S PROVE offset <= x
        OBVIOUS
    <2>1. CASE ~first
        BY <1>1, <2>1
    <2>2. CASE first /\ x = Length
        BY <1>4, <2>2
    <2>3. CASE first /\ x \in Cues \ marked
        <3>1. ~(Starts(ranges[1]) <= x /\ x < Ends(ranges[1]))
            BY <1>1, <1>3, <2>3 DEF EvidenceInv, In
        <3>2. Starts(ranges[1]) = 0 /\ offset = Ends(ranges[1])
            BY <1>3, <2>3
        <3> QED BY <1>1, <1>4, <3>1, <3>2
    <2> QED BY <2>1, <2>2, <2>3
<1>6. offset \in S
    <2>1. CASE first
        <3>1. 1 \in DOMAIN ranges /\ offset = Ends(ranges[1])
            BY <1>3, <2>1
        <3>2. Ends(ranges[1]) \notin marked
            BY <3>1, EndIsGap
        <3>3. offset = Length \/ offset \in Cues
            BY <1>1, <1>4 DEF Cues
        <3> QED BY <3>1, <3>2, <3>3
    <2>2. CASE ~first
        <3>1. offset = 0 /\ 0 \in Cues /\ 0 \in Int
            BY <1>1, <2>2 DEF Cues
        <3>2. ASSUME 0 \in marked PROVE FALSE
            <4>1. PICK k \in DOMAIN ranges : Starts(ranges[k]) <= 0 /\ 0 < Ends(ranges[k])
                BY <3>1, <3>2 DEF EvidenceInv, In
            <4>2. Starts(ranges[k]) = 0
                BY <4>1, Numbers
            <4>3. ranges # << >> /\ 1 \in DOMAIN ranges /\ (k = 1 \/ 1 < k)
                BY <4>1, Numbers
            <4>4. 1 < k => Ends(ranges[1]) < 0
                BY <4>2, <4>3, Numbers
            <4>5. 0 < Ends(ranges[1]) /\ Ends(ranges[1]) \in Int
                BY <4>3, Numbers
            <4>6. k = 1
                BY <4>3, <4>4, <4>5
            <4> QED BY <1>3, <2>2, <4>2, <4>3, <4>6
        <3> QED BY <3>1, <3>2
    <2> QED BY <2>1, <2>2
<1> HIDE DEF S, offset
<1>7. Min(S) = offset
    <2>1. Min(S) \in Int
        BY <1>1, <1>2
    <2>2. Min(S) <= offset /\ offset <= Min(S)
        BY <1>2, <1>5, <1>6
    <2> QED BY <1>4, <2>1, <2>2
<1>8. NextUnread(ranges) = offset
    BY <1>1, <1>4 DEF NextUnread, offset
<1> QED BY <1>7, <1>8 DEF S

\* A page that was read keeps the intervals in order.
LEMMA MarkKeeps == ASSUME EvidenceInv, NEW start \in 0 .. Length, NEW end \in 0 .. Length, Mark(start, end) PROVE EvidenceInv'
<1> DEFINE new == {i \in Cues : start <= i /\ i < end}
<1>1. ranges' = AddRange(ranges, start, end) /\ marked' = marked \cup new
    BY DEF Mark
<1>2. /\ Apart(ranges')
      /\ \A x \in Int : In(x, ranges') <=> In(x, ranges) \/ (start <= x /\ x < end)
    BY <1>1, Added DEF EvidenceInv
<1>3. \A x \in Int : x \in new <=> start <= x /\ x < end
    BY LengthOK DEF Cues
<1>4. new \subseteq Cues
    OBVIOUS
<1> HIDE DEF new
<1> QED BY <1>1, <1>2, <1>3, <1>4 DEF EvidenceInv

\* So does a correction.
LEMMA InvalidateKeeps == ASSUME EvidenceInv, NEW changed \in SUBSET Cues, Invalidate(changed) PROVE EvidenceInv'
<1>1. ranges' = Without(ranges, changed) /\ marked' = marked \ changed
    BY DEF Invalidate
<1>2. /\ Apart(ranges')
      /\ \A x \in Int : In(x, ranges') <=> In(x, ranges) /\ x \notin changed
    BY <1>1, Removed DEF EvidenceInv
<1> QED BY <1>1, <1>2 DEF EvidenceInv

\* The evidence of a review says what was reviewed, for a document of any length
\* and pages and corrections in any order: the intervals stand for exactly the
\* positions that were read and not corrected since, a page that was read in
\* pieces lies in one of them, and a review resumes at the first gap.
THEOREM EvidenceIsKept == EvidenceSpec => []EvidenceKept
<1>1. NoEvidence => EvidenceInv
    BY DEF NoEvidence, EvidenceInv, Apart, In, Ranges
<1>2. EvidenceInv /\ [EvidenceStep]_evidence => EvidenceInv'
    <2> SUFFICES ASSUME EvidenceInv, [EvidenceStep]_evidence PROVE EvidenceInv'
        OBVIOUS
    <2>1. CASE EvidenceStep
        BY <2>1, MarkKeeps, InvalidateKeeps DEF EvidenceStep
    <2>2. CASE UNCHANGED evidence
        BY <2>2 DEF evidence, EvidenceInv
    <2> QED BY <2>1, <2>2
<1>3. EvidenceInv => EvidenceKept
    BY TheyDenote, TheyJoin, TheyResume DEF EvidenceKept
<1> QED BY <1>1, <1>2, <1>3, PTL DEF EvidenceSpec

-----------------------------------------------------------------------------
(* Sequences of sequences. *)

\* The sequence of sequences, joined one after the other.
IsFlat(at, gs, S) ==
    /\ at \in [0 .. Len(gs) -> Seq(S)]
    /\ at[0] = << >>
    /\ \A k \in 1 .. Len(gs) : at[k] = at[k - 1] \o gs[k]

\* Flattening joins them.
LEMMA FlatIs ==
    ASSUME NEW S, NEW gs \in Seq(Seq(S))
    PROVE  \E at : IsFlat(at, gs, S) /\ FlattenSeq(gs) = at[Len(gs)]
<1> DEFINE n == Len(gs)
           V == Seq(S)
           step == [k \in 1 .. n |-> [v \in V |-> v \o gs[k]]]
           Body(h) == [i \in 1 .. n |-> IF i = 1 THEN gs[i] ELSE h[i - 1] \o gs[i]]
           flat == CHOOSE h : h = Body(h)
<1>0. << >> \in Seq(S) /\ n \in Nat
    OBVIOUS
<1>1. n \in Nat /\ << >> \in V /\ \A k \in 1 .. n : gs[k] \in Seq(S)
    OBVIOUS
<1>2. step \in [1 .. n -> [V -> V]] /\ \A k \in 1 .. n, v \in V : step[k][v] = v \o gs[k]
    BY <1>1
<1>3. FlattenSeq(gs) = IF n = 0 THEN gs ELSE flat[n]
    BY DEF FlattenSeq
<1> HIDE DEF step, n, V
<1>4. \E h : h = Body(h)
    <2>1. PICK g \in [SUBSET (1 .. n) -> V] : IsFold(g, << >>, step, n)
        BY <1>1, <1>2, FoldExists
    <2> DEFINE h == [i \in 1 .. n |-> g[1 .. i]]
    <2>2. g[{}] = << >>
        BY <2>1 DEF IsFold
    <2>3. ASSUME NEW i \in 1 .. n PROVE g[1 .. i] = g[1 .. i - 1] \o gs[i] /\ g[1 .. i - 1] \in V
        <3>1. 1 .. i \in SUBSET (1 .. n) /\ 1 .. i # {} /\ Max(1 .. i) = i /\ (1 .. i) \ {Max(1 .. i)} = 1 .. i - 1
            BY <1>1, PrefixIs
        <3>2. g[1 .. i] = step[i][g[1 .. i - 1]]
            BY <2>1, <3>1 DEF IsFold
        <3>3. 1 .. i - 1 \in SUBSET (1 .. n)
            BY <1>1
        <3>4. g[1 .. i - 1] \in V
            BY <2>1, <3>3
        <3> QED BY <1>2, <3>2, <3>4
    <2>4. ASSUME NEW i \in 1 .. n PROVE h[i] = IF i = 1 THEN gs[i] ELSE h[i - 1] \o gs[i]
        <3>1. CASE i = 1
            <4>1. g[1 .. 0] = << >>
                BY <2>2, NoPrefix
            <4>2. g[1 .. 1] = << >> \o gs[1]
                <5>1. i - 1 = 0
                    BY <3>1
                <5> QED BY <2>3, <3>1, <4>1, <5>1
            <4>3. << >> \o gs[1] = gs[1]
                BY <1>1, <3>1
            <4> QED BY <3>1, <4>2, <4>3
        <3>2. CASE i # 1
            <4>1. i - 1 \in 1 .. n
                BY <1>1, <3>2
            <4> QED BY <2>3, <3>2, <4>1
        <3> QED BY <3>1, <3>2
    <2>5. h = Body(h)
        BY <2>4
    <2> QED BY <2>5
<1>5. flat = Body(flat)
    BY <1>4
<1>6. \A i \in 1 .. n : flat[i] = IF i = 1 THEN gs[i] ELSE flat[i - 1] \o gs[i]
    BY <1>5
<1> HIDE DEF flat
<1> DEFINE at == [k \in 0 .. n |-> IF k = 0 THEN << >> ELSE flat[k]]
<1>7. at[0] = << >>
    BY <1>1
<1>8. ASSUME NEW k \in 1 .. n PROVE at[k] = at[k - 1] \o gs[k]
    <2>1. k \in 0 .. n /\ k - 1 \in 0 .. n /\ at[k] = flat[k]
        BY <1>1
    <2>2. CASE k = 1
        <3>1. at[k - 1] = << >> /\ flat[k] = gs[k]
            BY <1>6, <1>7, <2>2
        <3>2. << >> \o gs[k] = gs[k]
            BY <1>1
        <3> QED BY <2>1, <3>1, <3>2
    <2>3. CASE k # 1
        <3>1. k - 1 # 0
            BY <1>1, <2>3
        <3>2. at[k - 1] = flat[k - 1]
            BY <2>1, <3>1
        <3> QED BY <1>6, <2>1, <2>3, <3>2
    <2> QED BY <2>2, <2>3
<1>9. FlattenSeq(gs) = at[n]
    <2>1. CASE n = 0
        <3>1. gs = << >>
            BY <2>1 DEF n
        <3> QED BY <1>3, <1>7, <2>1, <3>1
    <2>2. CASE n # 0
        <3>1. n \in 0 .. n
            BY <1>1
        <3> QED BY <1>3, <2>2, <3>1
    <2> QED BY <2>1, <2>2
<1>10. DOMAIN at = 0 .. n /\ at = [k \in 0 .. n |-> at[k]]
    OBVIOUS
<1> HIDE DEF at
<1> DEFINE T == {k \in 0 .. n : at[k] \in Seq(S)}
<1>11. 0 \in T
    <2>1. 0 \in 0 .. n
        BY <1>0
    <2>2. at[0] \in Seq(S)
        BY <1>7
    <2> QED BY <2>1, <2>2
<1>12. ASSUME NEW k \in 0 .. n - 1, k \in T PROVE k + 1 \in T
    <2>1. k + 1 \in 1 .. n /\ k + 1 \in 0 .. n /\ (k + 1) - 1 = k
        BY <1>1
    <2>2. at[k + 1] = at[k] \o gs[k + 1]
        BY <1>8, <2>1
    <2>3. at[k] \o gs[k + 1] \in Seq(S)
        BY <1>1, <1>12, <2>1
    <2> QED BY <2>1, <2>2, <2>3
<1> HIDE DEF T
<1>13. \A k \in 0 .. n : k \in T
    BY <1>1, <1>11, <1>12, UpToBound
<1>14. at \in [0 .. n -> Seq(S)]
    BY <1>10, <1>13 DEF T
<1>15. IsFlat(at, gs, S)
    BY <1>7, <1>8, <1>14 DEF IsFlat, n
<1> QED BY <1>9, <1>15 DEF n

\* Joining three.
Joins(S) == \A a, b, c \in Seq(S) : (a \o b) \o c = a \o (b \o c)
LEMMA ConcatThree == \A S : Joins(S)
BY ConcatAssociative DEF Joins

\* Joining one more.
LEMMA FlatAppend ==
    ASSUME NEW S, NEW gs \in Seq(Seq(S)), NEW g \in Seq(S)
    PROVE  FlattenSeq(gs) \in Seq(S) /\ FlattenSeq(Append(gs, g)) = FlattenSeq(gs) \o g
<1> DEFINE n == Len(gs)
           hs == Append(gs, g)
<1>1. /\ hs \in Seq(Seq(S)) /\ Len(hs) = n + 1 /\ n \in Nat /\ hs[n + 1] = g
      /\ \A k \in 1 .. n : hs[k] = gs[k]
    BY AppendProperties
<1> HIDE DEF hs
<1>2. PICK at : IsFlat(at, gs, S) /\ FlattenSeq(gs) = at[n]
    BY FlatIs
<1>3. PICK bt : IsFlat(bt, hs, S) /\ FlattenSeq(hs) = bt[n + 1]
    BY <1>1, FlatIs
<1>4. /\ at \in [0 .. n -> Seq(S)] /\ at[0] = << >>
      /\ \A k \in 1 .. n : at[k] = at[k - 1] \o gs[k]
    BY <1>2 DEF IsFlat
<1>5. /\ bt[0] = << >>
      /\ \A k \in 1 .. n + 1 : bt[k] = bt[k - 1] \o hs[k]
    BY <1>1, <1>3 DEF IsFlat
<1> HIDE DEF n
<1> DEFINE T == {k \in 0 .. n : at[k] = bt[k]}
<1>6. 0 \in T
    <2>1. 0 \in 0 .. n
        BY <1>1
    <2>2. at[0] = bt[0]
        BY <1>4, <1>5
    <2> QED BY <2>1, <2>2
<1>7. ASSUME NEW k \in 0 .. n - 1, k \in T PROVE k + 1 \in T
    <2>1. k + 1 \in 1 .. n /\ k + 1 \in 0 .. n /\ k + 1 \in 1 .. n + 1 /\ (k + 1) - 1 = k
        BY <1>1
    <2> QED BY <1>1, <1>4, <1>5, <1>7, <2>1
<1> HIDE DEF T
<1>8. \A k \in 0 .. n : k \in T
    BY <1>1, <1>6, <1>7, UpToBound
<1>9. at[n] = bt[n] /\ at[n] \in Seq(S)
    BY <1>1, <1>4, <1>8 DEF T
<1>10. bt[n + 1] = bt[n] \o g
    <2>1. n + 1 \in 1 .. n + 1 /\ (n + 1) - 1 = n
        BY <1>1
    <2> QED BY <1>1, <1>5, <2>1
<1> QED BY <1>2, <1>3, <1>9, <1>10 DEF hs

\* Nothing joined is nothing.
LEMMA FlatEmpty == FlattenSeq(<< >>) = << >>
BY DEF FlattenSeq

\* Joining one that is longer at its end.
LEMMA FlatLonger ==
    ASSUME NEW S, NEW gs \in Seq(Seq(S)), gs # << >>, NEW e \in S
    PROVE  LET hs == [gs EXCEPT ![Len(gs)] = Append(@, e)]
           IN  hs \in Seq(Seq(S)) /\ FlattenSeq(hs) = Append(FlattenSeq(gs), e)
<1>1. PICK fs \in Seq(Seq(S)), g \in Seq(S) : gs = Append(fs, g)
    BY SequenceEmptyOrAppend
<1> DEFINE n == Len(gs)
           hs == [gs EXCEPT ![n] = Append(@, e)]
           ks == Append(fs, Append(g, e))
<1>2. n \in Nat /\ n = Len(fs) + 1 /\ Len(fs) \in Nat /\ gs[n] = g /\ n \in 1 .. n /\ \A k \in 1 .. Len(fs) : gs[k] = fs[k]
    BY <1>1, AppendProperties
<1>3. Append(g, e) \in Seq(S)
    OBVIOUS
<1>4. /\ hs \in Seq(Seq(S)) /\ Len(hs) = n
      /\ \A j \in 1 .. n : hs[j] = IF j = n THEN Append(g, e) ELSE gs[j]
    BY <1>2, <1>3, ExceptSeq
<1>5. /\ ks \in Seq(Seq(S)) /\ Len(ks) = n /\ ks[n] = Append(g, e)
      /\ \A j \in 1 .. Len(fs) : ks[j] = fs[j]
    BY <1>2, <1>3, AppendProperties
<1> HIDE DEF hs, n
<1>6. \A j \in 1 .. n : hs[j] = ks[j]
    <2> SUFFICES ASSUME NEW j \in 1 .. n PROVE hs[j] = ks[j]
        OBVIOUS
    <2>1. CASE j = n
        BY <1>4, <1>5, <2>1
    <2>2. CASE j # n
        <3>1. j \in 1 .. Len(fs)
            BY <1>2, <2>2
        <3> QED BY <1>2, <1>4, <1>5, <2>2, <3>1
    <2> QED BY <2>1, <2>2
<1> HIDE DEF ks
<1>7. hs = ks
    BY <1>4, <1>5, <1>6, SeqEqual
<1>8. FlattenSeq(ks) = FlattenSeq(fs) \o Append(g, e) /\ FlattenSeq(fs) \in Seq(S)
    BY <1>3, FlatAppend DEF ks
<1>9. FlattenSeq(gs) = FlattenSeq(fs) \o g
    BY <1>1, FlatAppend
<1>10. FlattenSeq(fs) \o Append(g, e) = Append(FlattenSeq(fs) \o g, e)
    <2>1. Append(g, e) = g \o <<e>> /\ <<e>> \in Seq(S)
        BY AppendIsConcat
    <2>2. FlattenSeq(fs) \o g \in Seq(S)
        BY <1>8, ConcatProperties
    <2>3. Append(FlattenSeq(fs) \o g, e) = (FlattenSeq(fs) \o g) \o <<e>>
        BY <2>2, AppendIsConcat
    <2> QED BY <1>8, <2>1, <2>3, ConcatAssociative
<1> QED BY <1>4, <1>7, <1>8, <1>9, <1>10 DEF hs, n

\* Joining two sequences of sequences.
LEMMA FlatConcat ==
    ASSUME NEW S, NEW gs \in Seq(Seq(S)), NEW hs \in Seq(Seq(S))
    PROVE  FlattenSeq(gs \o hs) = FlattenSeq(gs) \o FlattenSeq(hs)
<1> DEFINE n == Len(hs)
           Good(k) == FlattenSeq(gs \o SubSeq(hs, 1, k)) = FlattenSeq(gs) \o FlattenSeq(SubSeq(hs, 1, k))
           T == {k \in 0 .. n : Good(k)}
<1>0. Joins(S) /\ Joins(Seq(S))
    BY ConcatThree
<1>1. n \in Nat /\ FlattenSeq(gs) \in Seq(S)
    BY FlatAppend, EmptySeq
<1>2. 0 \in T
    <2>1. SubSeq(hs, 1, 0) = << >>
        BY SubSeqEmpty
    <2>2. gs \o << >> = gs /\ FlattenSeq(gs) \o << >> = FlattenSeq(gs)
        BY <1>1, ConcatEmptySeq
    <2>3. Good(0)
        BY <2>1, <2>2, FlatEmpty
    <2> QED BY <1>1, <2>3
<1>3. ASSUME NEW k \in 0 .. n - 1, k \in T PROVE k + 1 \in T
    <2> DEFINE P == SubSeq(hs, 1, k)
               h == hs[k + 1]
    <2>1. k + 1 \in 1 .. n /\ k + 1 \in 0 .. n /\ (k + 1) - 1 = k /\ k + 1 \in 1 .. Len(hs) /\ 1 \in 1 .. Len(hs)
        BY <1>1
    <2>2. h \in Seq(S) /\ P \in Seq(Seq(S))
        <3>1. \A i \in 1 .. k : hs[i] \in Seq(S)
            BY <2>1
        <3>2. 1 \in Int /\ k \in Int
            BY <2>1
        <3> QED BY <2>1, <3>1, <3>2, SubSeqProperties
    <2>3. SubSeq(hs, 1, k + 1) = Append(P, h)
        <3>1. SubSeq(hs, 1, k + 1) = P \o <<h>>
            BY <2>1, SubSeqRecursiveSecond
        <3> QED BY <2>2, <3>1, AppendIsConcat
    <2> HIDE DEF P, h
    <2>4. gs \o Append(P, h) = Append(gs \o P, h) /\ gs \o P \in Seq(Seq(S))
        <3>1. gs \o P \in Seq(Seq(S)) /\ <<h>> \in Seq(Seq(S))
            BY <2>2, ConcatProperties
        <3>2. gs \o (P \o <<h>>) = (gs \o P) \o <<h>>
            BY <1>0, <2>2, <3>1 DEF Joins
        <3> QED BY <2>2, <3>1, <3>2, AppendIsConcat
    <2>5. FlattenSeq(Append(gs \o P, h)) = FlattenSeq(gs \o P) \o h
        BY <2>2, <2>4, FlatAppend
    <2>6. FlattenSeq(Append(P, h)) = FlattenSeq(P) \o h /\ FlattenSeq(P) \in Seq(S)
        BY <2>2, FlatAppend
    <2>7. FlattenSeq(gs \o P) = FlattenSeq(gs) \o FlattenSeq(P)
        BY <1>3 DEF P
    <2>8. (FlattenSeq(gs) \o FlattenSeq(P)) \o h = FlattenSeq(gs) \o (FlattenSeq(P) \o h)
        <3>1. FlattenSeq(gs) \in Seq(S)
            BY <1>1
        <3>2. FlattenSeq(P) \in Seq(S)
            BY <2>6
        <3>3. h \in Seq(S)
            BY <2>2
        <3> QED BY <1>0, <3>1, <3>2, <3>3 DEF Joins
    <2>9. Good(k + 1)
        BY <2>3, <2>4, <2>5, <2>6, <2>7, <2>8
    <2> QED BY <2>1, <2>9
<1> HIDE DEF T
<1>4. \A k \in 0 .. n : k \in T
    BY <1>1, <1>2, <1>3, UpToBound
<1>5. Good(n)
    BY <1>1, <1>4 DEF T
<1>6. SubSeq(hs, 1, n) = hs
    BY SubSeqFull
<1> QED BY <1>5, <1>6

\* Joining in two steps.
LEMMA FlatFlat ==
    ASSUME NEW S, NEW xs \in Seq(Seq(Seq(S)))
    PROVE  FlattenSeq(FlattenSeq(xs)) = FlattenSeq([k \in 1 .. Len(xs) |-> FlattenSeq(xs[k])])
<1> DEFINE n == Len(xs)
           ys == [k \in 1 .. n |-> FlattenSeq(xs[k])]
<1>1. n \in Nat /\ \A k \in 1 .. n : xs[k] \in Seq(Seq(S))
    OBVIOUS
<1>2. \A k \in 1 .. n : FlattenSeq(xs[k]) \in Seq(S)
    BY <1>1, FlatAppend, EmptySeq
<1>3. ys \in Seq(Seq(S)) /\ Len(ys) = n /\ \A k \in 1 .. n : ys[k] = FlattenSeq(xs[k])
    BY <1>1, <1>2
<1> HIDE DEF ys
<1>4. PICK at : IsFlat(at, xs, Seq(S)) /\ FlattenSeq(xs) = at[n]
    BY FlatIs
<1>5. PICK bt : IsFlat(bt, ys, S) /\ FlattenSeq(ys) = bt[n]
    BY <1>3, FlatIs
<1>6. /\ at \in [0 .. n -> Seq(Seq(S))] /\ at[0] = << >>
      /\ \A k \in 1 .. n : at[k] = at[k - 1] \o xs[k]
    BY <1>4 DEF IsFlat
<1>7. bt[0] = << >> /\ \A k \in 1 .. n : bt[k] = bt[k - 1] \o ys[k]
    BY <1>3, <1>5 DEF IsFlat
<1> DEFINE T == {k \in 0 .. n : FlattenSeq(at[k]) = bt[k]}
<1> HIDE DEF n
<1>8. 0 \in T
    BY <1>1, <1>6, <1>7, FlatEmpty
<1>9. ASSUME NEW k \in 0 .. n - 1, k \in T PROVE k + 1 \in T
    <2>1. k + 1 \in 1 .. n /\ k + 1 \in 0 .. n /\ (k + 1) - 1 = k /\ k \in 0 .. n
        BY <1>1
    <2>2. at[k + 1] = at[k] \o xs[k + 1] /\ at[k] \in Seq(Seq(S)) /\ xs[k + 1] \in Seq(Seq(S))
        BY <1>1, <1>6, <2>1
    <2>3. FlattenSeq(at[k + 1]) = FlattenSeq(at[k]) \o FlattenSeq(xs[k + 1])
        BY <2>2, FlatConcat
    <2>4. bt[k + 1] = bt[k] \o FlattenSeq(xs[k + 1])
        BY <1>3, <1>7, <2>1
    <2>5. FlattenSeq(at[k]) = bt[k]
        BY <1>9
    <2> QED BY <2>1, <2>3, <2>4, <2>5
<1> HIDE DEF T
<1>10. \A k \in 0 .. n : k \in T
    BY <1>1, <1>8, <1>9, UpToBound
<1>11. FlattenSeq(at[n]) = bt[n]
    BY <1>1, <1>10 DEF T
<1> QED BY <1>4, <1>5, <1>11 DEF ys, n

-----------------------------------------------------------------------------
(* Folds over sequences, and what is chosen from one. *)

\* A fold, with what its steps are applied to.
Given(g, base, step, n, V) ==
    /\ DOMAIN g = SUBSET (1 .. n) /\ g = [s \in SUBSET (1 .. n) |-> g[s]]
    /\ g[{}] = base
    /\ \A s \in SUBSET (1 .. n) : s # {} =>
          /\ Max(s) \in 1 .. n /\ g[s \ {Max(s)}] \in V
          /\ g[s] = step[Max(s)][g[s \ {Max(s)}]]

\* It exists.
LEMMA FoldGiven ==
    ASSUME NEW n \in Nat, NEW V, NEW base \in V, NEW step \in [1 .. n -> [V -> V]]
    PROVE  \E g : Given(g, base, step, n, V)
<1>1. PICK g \in [SUBSET (1 .. n) -> V] : IsFold(g, base, step, n)
    BY FoldExists
<1>2. g[{}] = base
    BY <1>1 DEF IsFold
<1>3. ASSUME NEW s \in SUBSET (1 .. n), s # {}
      PROVE  /\ Max(s) \in 1 .. n /\ g[s \ {Max(s)}] \in V
             /\ g[s] = step[Max(s)][g[s \ {Max(s)}]]
    <2>1. Max(s) \in 1 .. n /\ s \ {Max(s)} \in SUBSET (1 .. n)
        BY <1>3, GreatestPosition
    <2>2. g[s] = step[Max(s)][g[s \ {Max(s)}]]
        BY <1>1, <1>3 DEF IsFold
    <2> QED BY <1>1, <2>1, <2>2
<1> QED BY <1>1, <1>2, <1>3 DEF Given

\* The values of a fold on the prefixes.
Values(at, base, step, n, V) ==
    /\ at \in [0 .. n -> V]
    /\ at[0] = base
    /\ \A k \in 1 .. n : at[k] = step[k][at[k - 1]]

\* They lead to the value of the fold.
LEMMA FoldValues ==
    ASSUME NEW n \in Nat, NEW V, NEW base \in V, NEW step \in [1 .. n -> [V -> V]], NEW g,
           Folds(g, base, step, n, V)
    PROVE  \E at : Values(at, base, step, n, V) /\ at[n] = g[1 .. n]
<1>1. /\ g[1 .. 0] = base
      /\ \A k \in 0 .. n : g[1 .. k] \in V
      /\ \A k \in 1 .. n : g[1 .. k] = step[k][g[1 .. k - 1]]
    BY FoldOnPrefixes
<1> DEFINE at == [k \in 0 .. n |-> g[1 .. k]]
<1>2. at \in [0 .. n -> V] /\ at[0] = base /\ at[n] = g[1 .. n]
    BY <1>1
<1>3. ASSUME NEW k \in 1 .. n PROVE at[k] = step[k][at[k - 1]]
    <2>1. k - 1 \in 0 .. n /\ k \in 0 .. n
        OBVIOUS
    <2> QED BY <1>1, <2>1
<1> HIDE DEF at
<1> QED BY <1>2, <1>3 DEF Values

\* What has been chosen after every element.
IsChoice(at, s, T, S) ==
    /\ at \in [0 .. Len(s) -> Seq(S)]
    /\ at[0] = << >>
    /\ \A k \in 1 .. Len(s) : at[k] = IF s[k] \in T THEN Append(at[k - 1], s[k]) ELSE at[k - 1]

\* The choice goes through the elements in their order.
LEMMA ChosenIsFold ==
    ASSUME NEW S, NEW s \in Seq(S), NEW T
    PROVE  \E at : IsChoice(at, s, T, S) /\ Chosen(s, T) = at[Len(s)]
<1> DEFINE n == Len(s)
           V == Seq(S)
           Op(c, e) == IF e \in T THEN Append(c, e) ELSE c
           step == [k \in 1 .. n |-> [c \in V |-> Op(c, s[k])]]
           Body(g) == [u \in SUBSET DOMAIN s |->
                          IF u = {} THEN << >>
                          ELSE LET x == Max(u) IN Op(g[u \ {x}], s[x])]
           iter == CHOOSE g : g = Body(g)
<1>1. n \in Nat /\ DOMAIN s = 1 .. n /\ << >> \in Seq(S) /\ \A k \in 1 .. n : s[k] \in S
    OBVIOUS
<1>2. Chosen(s, T) = iter[1 .. n]
    BY <1>1 DEF Chosen, FoldLeft, MapThenFoldSet
<1>3. step \in [1 .. n -> [V -> V]] /\ << >> \in V
    BY <1>1
<1>4. \A k \in 1 .. n, c \in V : step[k][c] = Op(c, s[k])
    OBVIOUS
<1> HIDE DEF step, V, Op
<1>5. \E g : g = Body(g)
    <2>1. PICK g : Given(g, << >>, step, n, V)
        BY <1>1, <1>3, FoldGiven
    <2>2. \A u \in SUBSET (1 .. n) : u # {} => g[u] = Op(g[u \ {Max(u)}], s[Max(u)])
        BY <1>4, <2>1 DEF Given
    <2>3. g = Body(g)
        BY <1>1, <2>1, <2>2 DEF Given
    <2> QED BY <2>3
<1>6. iter = Body(iter)
    BY <1>5
<1>7. iter[{}] = << >> /\ \A u \in SUBSET (1 .. n) : u # {} => iter[u] = Op(iter[u \ {Max(u)}], s[Max(u)])
    BY <1>1, <1>6
<1> HIDE DEF iter, n
<1>8. Folds(iter, << >>, step, n, V)
    BY <1>1, <1>4, <1>7, GreatestPosition DEF Folds
<1>9. PICK at : Values(at, << >>, step, n, V) /\ at[n] = iter[1 .. n]
    BY <1>1, <1>3, <1>8, FoldValues
<1>10. ASSUME NEW k \in 1 .. n PROVE at[k] = Op(at[k - 1], s[k])
    <2>1. k - 1 \in 0 .. n
        BY <1>1
    <2> QED BY <1>4, <1>9, <2>1 DEF Values
<1>11. IsChoice(at, s, T, S)
    BY <1>9, <1>10 DEF IsChoice, Values, V, Op, n
<1> QED BY <1>2, <1>9, <1>11 DEF n

\* What is next to each other is chosen as it is.
LEMMA ChosenBlock ==
    ASSUME NEW S, NEW s \in Seq(S), NEW T, NEW a \in Nat, NEW b \in Nat, a <= b, b <= Len(s),
           \A k \in 1 .. Len(s) : s[k] \in T <=> a < k /\ k <= b
    PROVE  Chosen(s, T) = SubSeq(s, a + 1, b)
<1> DEFINE n == Len(s)
<1>1. n \in Nat /\ \A k \in 1 .. n : s[k] \in S
    OBVIOUS
<1>2. PICK at : IsChoice(at, s, T, S) /\ Chosen(s, T) = at[n]
    BY ChosenIsFold
<1>3. /\ at[0] = << >>
      /\ \A k \in 1 .. n : at[k] = IF s[k] \in T THEN Append(at[k - 1], s[k]) ELSE at[k - 1]
    BY <1>2 DEF IsChoice
<1> DEFINE Good(k) == at[k] = SubSeq(s, a + 1, Lesser(k, b))
           G == {k \in 0 .. n : Good(k)}
<1>4. 0 \in G
    <2>1. Lesser(0, b) = 0
        BY DEF Lesser
    <2>2. SubSeq(s, a + 1, 0) = << >>
        BY SubSeqEmpty
    <2>3. Good(0)
        BY <1>3, <2>1, <2>2
    <2> QED BY <1>1, <2>3
<1>5. ASSUME NEW k \in 0 .. n - 1, k \in G PROVE k + 1 \in G
    <2>1. k + 1 \in 1 .. n /\ k + 1 \in 0 .. n /\ (k + 1) - 1 = k /\ k \in Nat
        BY <1>1
    <2>2. at[k + 1] = IF s[k + 1] \in T THEN Append(at[k], s[k + 1]) ELSE at[k]
        BY <1>3, <2>1
    <2>3. s[k + 1] \in T <=> a < k + 1 /\ k + 1 <= b
        BY <2>1
    <2>4. at[k] = SubSeq(s, a + 1, Lesser(k, b))
        BY <1>5
    <2>5. CASE k + 1 <= a
        <3>1. Lesser(k, b) = k /\ Lesser(k + 1, b) = k + 1
            BY <2>1, <2>5 DEF Lesser
        <3>2. SubSeq(s, a + 1, k) = << >> /\ SubSeq(s, a + 1, k + 1) = << >>
            BY <2>1, <2>5, SubSeqEmpty
        <3>3. at[k + 1] = at[k]
            BY <2>1, <2>2, <2>3, <2>5
        <3> QED BY <2>1, <2>4, <3>1, <3>2, <3>3
    <2>6. CASE a < k + 1 /\ k + 1 <= b
        <3>1. Lesser(k, b) = k /\ Lesser(k + 1, b) = k + 1
            BY <2>1, <2>6 DEF Lesser
        <3>2. SubSeq(s, a + 1, k + 1) = SubSeq(s, a + 1, k) \o <<s[k + 1]>>
            <4>1. a + 1 \in 1 .. Len(s) /\ k + 1 \in a + 1 .. Len(s)
                BY <2>1, <2>6
            <4> QED BY <2>1, <4>1, SubSeqRecursiveSecond
        <3>3. SubSeq(s, a + 1, k) \in Seq(S) /\ s[k + 1] \in S
            <4>1. \A i \in a + 1 .. k : s[i] \in S
                BY <1>1, <2>1
            <4>2. a + 1 \in Int /\ k \in Int
                BY <2>1
            <4> QED BY <1>1, <2>1, <4>1, <4>2, SubSeqProperties
        <3>4. Append(SubSeq(s, a + 1, k), s[k + 1]) = SubSeq(s, a + 1, k) \o <<s[k + 1]>>
            BY <3>3, AppendIsConcat
        <3>5. at[k + 1] = Append(at[k], s[k + 1])
            BY <2>2, <2>3, <2>6
        <3> QED BY <2>1, <2>4, <3>1, <3>2, <3>4, <3>5
    <2>7. CASE b < k + 1
        <3>1. Lesser(k, b) = b /\ Lesser(k + 1, b) = b
            BY <2>1, <2>7 DEF Lesser
        <3>2. at[k + 1] = at[k]
            BY <2>1, <2>2, <2>3, <2>7
        <3> QED BY <2>1, <2>4, <3>1, <3>2
    <2> QED BY <2>1, <2>5, <2>6, <2>7
<1> HIDE DEF G
<1>6. \A k \in 0 .. n : k \in G
    BY <1>1, <1>4, <1>5, UpToBound
<1>7. Good(n)
    BY <1>1, <1>6 DEF G
<1>8. Lesser(n, b) = b
    BY <1>1 DEF Lesser
<1> QED BY <1>2, <1>7, <1>8

\* A sequence that is cut is joined again.
LEMMA FlatCuts ==
    ASSUME NEW S, NEW s \in Seq(S), NEW gs \in Seq(Seq(S)), NEW p \in [0 .. Len(gs) -> 0 .. Len(s)],
           p[0] = 0,
           \A k \in 1 .. Len(gs) : p[k - 1] <= p[k] /\ gs[k] = SubSeq(s, p[k - 1] + 1, p[k])
    PROVE  FlattenSeq(gs) = SubSeq(s, 1, p[Len(gs)])
<1> DEFINE n == Len(gs)
<1>1. n \in Nat /\ Len(s) \in Nat
    OBVIOUS
<1>2. PICK at : IsFlat(at, gs, S) /\ FlattenSeq(gs) = at[n]
    BY FlatIs
<1>3. at[0] = << >> /\ \A k \in 1 .. n : at[k] = at[k - 1] \o gs[k]
    BY <1>2 DEF IsFlat
<1> DEFINE G == {k \in 0 .. n : at[k] = SubSeq(s, 1, p[k])}
<1>4. 0 \in G
    <2>1. SubSeq(s, 1, 0) = << >>
        BY SubSeqEmpty
    <2>2. at[0] = SubSeq(s, 1, p[0])
        BY <1>3, <2>1
    <2>3. 0 \in 0 .. n
        BY <1>1
    <2> QED BY <2>2, <2>3
<1>5. ASSUME NEW k \in 0 .. n - 1, k \in G PROVE k + 1 \in G
    <2>1. k + 1 \in 1 .. n /\ k + 1 \in 0 .. n /\ (k + 1) - 1 = k /\ k \in 0 .. n
        BY <1>1
    <2>2. at[k + 1] = at[k] \o gs[k + 1]
        BY <1>3, <2>1
    <2>3. p[k] <= p[k + 1] /\ gs[k + 1] = SubSeq(s, p[k] + 1, p[k + 1]) /\ p[k] \in 0 .. Len(s) /\ p[k + 1] \in 0 .. Len(s)
        BY <2>1
    <2>4. SubSeq(s, 1, p[k]) \o SubSeq(s, p[k] + 1, p[k + 1]) = SubSeq(s, 1, p[k + 1])
        <3>1. 1 \in 1 .. Len(s) + 1 /\ p[k] \in 1 - 1 .. Len(s) /\ p[k + 1] \in p[k] .. Len(s)
            BY <1>1, <2>3
        <3> QED BY <3>1, ConcatAdjacentSubSeq
    <2> QED BY <1>5, <2>1, <2>2, <2>3, <2>4
<1> HIDE DEF G
<1>6. \A k \in 0 .. n : k \in G
    BY <1>1, <1>4, <1>5, UpToBound
<1>7. at[n] = SubSeq(s, 1, p[n])
    BY <1>1, <1>6 DEF G
<1> QED BY <1>2, <1>7

\* The elements of two sequences that are joined.
IsJoin(w, u, v) ==
    /\ Len(w) = Len(u) + Len(v)
    /\ \A i \in 1 .. Len(u) + Len(v) : w[i] = IF i <= Len(u) THEN u[i] ELSE v[i - Len(u)]
LEMMA JoinedIs == \A S : \A u, v \in Seq(S) : IsJoin(u \o v, u, v)
BY ConcatProperties DEF IsJoin

\* What was joined is found next to each other, from the end of what is in front.
AreSeqs(gs, S) == Len(gs) \in Nat /\ \A k \in 1 .. Len(gs) : gs[k] \in Seq(S)
BlocksFound(at, gs) ==
    \A g \in 1 .. Len(gs) :
        /\ Len(at[g - 1]) + Len(gs[g]) <= Len(at[Len(gs)])
        /\ \A j \in 1 .. Len(gs[g]) : gs[g][j] = at[Len(gs)][Len(at[g - 1]) + j]
LEMMA FlatBlockAt ==
    ASSUME NEW S, NEW gs, AreSeqs(gs, S), NEW at, IsFlat(at, gs, S)
    PROVE  BlocksFound(at, gs)
<1> SUFFICES ASSUME NEW g \in 1 .. Len(gs)
             PROVE  /\ Len(at[g - 1]) + Len(gs[g]) <= Len(at[Len(gs)])
                    /\ \A j \in 1 .. Len(gs[g]) : gs[g][j] = at[Len(gs)][Len(at[g - 1]) + j]
    BY DEF BlocksFound
<1> DEFINE n == Len(gs)
           m == Len(gs[g])
<1>1. /\ n \in Nat /\ m \in Nat /\ g \in 1 .. n /\ g \in Nat /\ g - 1 \in 0 .. n
      /\ m = Len(gs[g]) /\ \A k \in 1 .. n : gs[k] \in Seq(S)
    BY DEF AreSeqs
<1>3. at \in [0 .. n -> Seq(S)] /\ \A k \in 1 .. n : at[k] = at[k - 1] \o gs[k]
    BY DEF IsFlat
<1> DEFINE a == Len(at[g - 1])
<1>4. a \in Nat /\ a = Len(at[g - 1])
    BY <1>1, <1>3
<1>9. a \in Nat /\ m \in Nat
    BY <1>1, <1>4
<1> HIDE DEF n, m, a
<1> DEFINE Good(k) == a + m <= Len(at[k]) /\ \A j \in 1 .. m : gs[g][j] = at[k][a + j]
           G == {k \in 0 .. n : k < g \/ Good(k)}
<1>5. 0 \in G
    BY <1>1
<1>6. ASSUME NEW k \in 0 .. n - 1, k \in G PROVE k + 1 \in G
    <2>1. k + 1 \in 1 .. n /\ k + 1 \in 0 .. n /\ (k + 1) - 1 = k /\ k \in 0 .. n
        BY <1>1
    <2>2. at[k + 1] = at[k] \o gs[k + 1] /\ at[k] \in Seq(S) /\ gs[k + 1] \in Seq(S)
        BY <1>1, <1>3, <2>1
    <2>3. IsJoin(at[k + 1], at[k], gs[k + 1])
        BY <2>2, JoinedIs
    <2> DEFINE u == Len(at[k])
               v == Len(gs[k + 1])
    <2>4. u \in Nat /\ v \in Nat
        BY <2>2
    <2>8. Len(at[k + 1]) = u + v
        BY <2>3 DEF IsJoin
    <2> HIDE DEF u, v
    <2>5. CASE k + 1 < g
        BY <2>1, <2>5
    <2>6. CASE k + 1 = g
        <3>0. a = u /\ m = v
            BY <1>1, <1>4, <2>1, <2>6 DEF u, v
        <3>1. gs[g] = gs[k + 1]
            BY <2>6
        <3>2. ASSUME NEW j \in 1 .. m PROVE gs[g][j] = at[k + 1][a + j]
            <4>1. a + j \in 1 .. u + v /\ ~(a + j <= u) /\ (a + j) - u = j
                BY <1>9, <2>4, <3>0
            <4> QED BY <2>3, <3>1, <4>1 DEF IsJoin, u, v
        <3>3. Good(k + 1)
            BY <1>9, <2>4, <2>8, <3>0, <3>2
        <3> QED BY <2>1, <3>3
    <2>7. CASE g < k + 1
        <3>1. Good(k)
            BY <1>1, <1>6, <2>1, <2>7
        <3>2. ASSUME NEW j \in 1 .. m PROVE gs[g][j] = at[k + 1][a + j]
            <4>0. a + m <= u
                BY <3>1 DEF u
            <4>1. a + j \in 1 .. u + v /\ a + j <= u
                BY <1>9, <2>4, <4>0
            <4> QED BY <2>3, <3>1, <4>1 DEF IsJoin, u, v
        <3>3. a + m <= Len(at[k + 1])
            <4>1. a + m <= u
                BY <3>1 DEF u
            <4> QED BY <1>9, <2>4, <2>8, <4>1
        <3>4. Good(k + 1)
            BY <3>2, <3>3
        <3> QED BY <2>1, <3>4
    <2> QED BY <1>1, <2>1, <2>5, <2>6, <2>7
<1> HIDE DEF G
<1>7. \A k \in 0 .. n : k \in G
    BY <1>1, <1>5, <1>6, UpToBound
<1>8. Good(n)
    <2>1. n \in G /\ ~(n < g)
        BY <1>1, <1>7
    <2> QED BY <2>1 DEF G
<1> QED BY <1>4, <1>8 DEF a, m, n

\* Where the sequences that are joined begin and end.
Blocks(off, gs, w) ==
    /\ off \in [0 .. Len(gs) -> Nat] /\ off[0] = 0 /\ off[Len(gs)] = Len(w)
    /\ \A k \in 1 .. Len(gs) : off[k] = off[k - 1] + Len(gs[k]) /\ off[k] <= Len(w)
    /\ \A k \in 1 .. Len(gs) : \A j \in 1 .. Len(gs[k]) : gs[k][j] = w[off[k - 1] + j]

\* They have such places in what they are joined to.
LEMMA FlatPlaces ==
    ASSUME NEW S, NEW gs \in Seq(Seq(S))
    PROVE  \E off : Blocks(off, gs, FlattenSeq(gs))
<1> DEFINE n == Len(gs)
<1>1. n \in Nat /\ \A k \in 1 .. n : gs[k] \in Seq(S)
    OBVIOUS
<1>2. PICK at : IsFlat(at, gs, S) /\ FlattenSeq(gs) = at[n]
    BY FlatIs
<1>3. at \in [0 .. n -> Seq(S)] /\ at[0] = << >> /\ \A k \in 1 .. n : at[k] = at[k - 1] \o gs[k]
    BY <1>2 DEF IsFlat
<1>4. \A k \in 1 .. n : /\ Len(at[k - 1]) + Len(gs[k]) <= Len(at[n])
                        /\ \A j \in 1 .. Len(gs[k]) : gs[k][j] = at[n][Len(at[k - 1]) + j]
    <2>1. IsFlat(at, gs, S) /\ AreSeqs(gs, S)
        BY <1>1, <1>2 DEF AreSeqs
    <2>2. BlocksFound(at, gs)
        BY <2>1, FlatBlockAt
    <2> QED BY <2>2 DEF BlocksFound
<1> DEFINE off == [k \in 0 .. n |-> Len(at[k])]
<1>5. off \in [0 .. n -> Nat] /\ \A k \in 0 .. n : off[k] = Len(at[k])
    BY <1>3
<1>6. off[0] = 0 /\ off[n] = Len(at[n])
    BY <1>1, <1>3, <1>5
<1> HIDE DEF off, n
<1>7. \A k \in 1 .. n : k - 1 \in 0 .. n /\ k \in 0 .. n
    BY <1>1
<1>8. ASSUME NEW k \in 1 .. n PROVE off[k] = off[k - 1] + Len(gs[k])
    <2>1. at[k] = at[k - 1] \o gs[k] /\ at[k - 1] \in Seq(S) /\ gs[k] \in Seq(S)
        BY <1>1, <1>3, <1>7
    <2>2. IsJoin(at[k], at[k - 1], gs[k])
        BY <2>1, JoinedIs
    <2> QED BY <1>5, <1>7, <2>2 DEF IsJoin
<1>9. ASSUME NEW k \in 1 .. n PROVE off[k] <= Len(at[n]) /\ \A j \in 1 .. Len(gs[k]) : gs[k][j] = at[n][off[k - 1] + j]
    BY <1>4, <1>5, <1>7, <1>8
<1>10. Blocks(off, gs, at[n])
    BY <1>5, <1>6, <1>8, <1>9 DEF Blocks, n
<1> QED BY <1>2, <1>10

\* Every place is in one of them.
LEMMA BlockOf ==
    ASSUME NEW S, NEW gs, AreSeqs(gs, S), NEW off, NEW w, Blocks(off, gs, w), NEW i \in 1 .. Len(w)
    PROVE  \E k \in 1 .. Len(gs) : \E j \in 1 .. Len(gs[k]) : i = off[k - 1] + j
<1> DEFINE n == Len(gs)
           T == {k \in 0 .. n : i <= off[k]}
<1>1. /\ n \in Nat /\ off \in [0 .. n -> Nat] /\ off[0] = 0 /\ off[n] = Len(w)
      /\ \A k \in 1 .. n : off[k] = off[k - 1] + Len(gs[k]) /\ Len(gs[k]) \in Nat
    BY DEF Blocks, AreSeqs
<1> HIDE DEF n
<1>2. T \in SUBSET Nat /\ n \in T
    <2>1. i <= Len(w) /\ n \in 0 .. n
        BY <1>1
    <2> QED BY <1>1, <2>1
<1>3. PICK k \in T : \A m \in T : k <= m
    BY <1>2, LeastNumber
<1>4. k \in 0 .. n /\ i <= off[k] /\ i \in Int /\ 1 <= i
    BY <1>1, <1>2
<1>5. k \in 1 .. n /\ k - 1 \in 0 .. n /\ ~(k <= k - 1)
    <2>1. k # 0
        BY <1>1, <1>4
    <2> QED BY <1>1, <1>4, <2>1
<1>6. off[k - 1] < i
    <2>1. off[k - 1] \in Nat
        BY <1>1, <1>5
    <2> QED BY <1>3, <1>4, <1>5, <2>1
<1> DEFINE a == off[k - 1]
           m == Len(gs[k])
<1>7. a \in Nat /\ m \in Nat /\ a < i /\ i <= a + m
    BY <1>1, <1>4, <1>5, <1>6
<1> HIDE DEF a, m
<1>8. i - a \in 1 .. m /\ i = a + (i - a)
    BY <1>4, <1>7
<1> QED BY <1>5, <1>8 DEF a, m, n

\* They are in their order.
LEMMA BlocksOrdered ==
    ASSUME NEW S, NEW gs, AreSeqs(gs, S), NEW off, NEW w, Blocks(off, gs, w),
           NEW j \in 0 .. Len(gs), NEW k \in 0 .. Len(gs), j <= k
    PROVE  off[j] <= off[k]
<1> DEFINE n == Len(gs)
           T == {m \in 0 .. n : j <= m => off[j] <= off[m]}
<1>1. /\ n \in Nat /\ j \in Nat /\ off \in [0 .. n -> Nat]
      /\ \A m \in 1 .. n : off[m] = off[m - 1] + Len(gs[m]) /\ Len(gs[m]) \in Nat
    BY DEF Blocks, AreSeqs
<1>2. j \in 0 .. n /\ k \in 0 .. n
    OBVIOUS
<1> HIDE DEF n
<1>3. 0 \in T
    <2>1. j <= 0 => j = 0
        BY <1>1
    <2> QED BY <1>1, <1>2, <2>1
<1>4. ASSUME NEW m \in 0 .. n - 1, m \in T PROVE m + 1 \in T
    <2>1. m + 1 \in 1 .. n /\ m + 1 \in 0 .. n /\ (m + 1) - 1 = m /\ m \in 0 .. n
        BY <1>1
    <2>2. off[m + 1] = off[m] + Len(gs[m + 1]) /\ Len(gs[m + 1]) \in Nat
        BY <1>1, <2>1
    <2>3. off[m] \in Nat /\ off[j] \in Nat /\ off[m + 1] \in Nat
        BY <1>1, <1>2, <2>1
    <2>4. CASE j = m + 1
        BY <2>1, <2>3, <2>4
    <2>5. CASE j # m + 1
        <3>1. j <= m + 1 => j <= m
            BY <1>1, <2>1, <2>5
        <3>2. j <= m => off[j] <= off[m]
            BY <1>4
        <3> DEFINE x == off[j]
                   y == off[m]
                   z == off[m + 1]
                   l == Len(gs[m + 1])
        <3>3. x \in Nat /\ y \in Nat /\ l \in Nat /\ z = y + l
            BY <2>2, <2>3
        <3>4. j <= m => x <= y
            BY <3>2
        <3> HIDE DEF x, y, z, l
        <3>5. j <= m + 1 => x <= z
            BY <3>1, <3>3, <3>4
        <3> QED BY <2>1, <3>5 DEF x, z
    <2> QED BY <2>4, <2>5
<1> HIDE DEF T
<1>5. \A m \in 0 .. n : m \in T
    BY <1>1, <1>3, <1>4, UpToBound
<1> QED BY <1>2, <1>5 DEF T

\* What was joined is found next to each other.
LEMMA FlatBlock ==
    ASSUME NEW S, NEW gs \in Seq(Seq(S)), NEW g \in 1 .. Len(gs)
    PROVE  \E a \in Nat : /\ a + Len(gs[g]) <= Len(FlattenSeq(gs))
                          /\ \A j \in 1 .. Len(gs[g]) : gs[g][j] = FlattenSeq(gs)[a + j]
<1>1. PICK off : Blocks(off, gs, FlattenSeq(gs))
    BY FlatPlaces
<1>2. g - 1 \in 0 .. Len(gs) /\ g \in 1 .. Len(gs)
    OBVIOUS
<1>3. off[g - 1] \in Nat
    BY <1>1, <1>2 DEF Blocks
<1>4. /\ off[g - 1] + Len(gs[g]) <= Len(FlattenSeq(gs))
      /\ \A j \in 1 .. Len(gs[g]) : gs[g][j] = FlattenSeq(gs)[off[g - 1] + j]
    BY <1>1, <1>2 DEF Blocks
<1> QED BY <1>3, <1>4

-----------------------------------------------------------------------------
(* Groups of segments. *)

\* Groups that have something in them.
Groups(S) == Seq(Seq(S) \ {<< >>})

\* They are sequences of sequences.
LEMMA GroupsAre == ASSUME NEW S, NEW gs \in Groups(S) PROVE gs \in Seq(Seq(S))
<1>1. Seq(S) \ {<< >>} \subseteq Seq(S) /\ gs \in Seq(Seq(S) \ {<< >>})
    BY DEF Groups
<1> QED BY <1>1, SeqMonotonic

\* No group yet.
LEMMA NoGroups == ASSUME NEW S PROVE << >> \in Groups(S)
BY EmptySeq DEF Groups

\* What is added to groups is added to what they say.
LEMMA GroupAdded ==
    ASSUME NEW S, NEW gs \in Groups(S), NEW g \in Seq(S), g # << >>
    PROVE  Append(gs, g) \in Groups(S) /\ FlattenSeq(Append(gs, g)) = FlattenSeq(gs) \o g
<1>1. g \in Seq(S) \ {<< >>} /\ gs \in Seq(Seq(S) \ {<< >>})
    BY DEF Groups
<1>2. Append(gs, g) \in Seq(Seq(S) \ {<< >>})
    BY <1>1, AppendProperties
<1>3. gs \in Seq(Seq(S))
    BY GroupsAre
<1> QED BY <1>2, <1>3, FlatAppend DEF Groups

\* A group of one, and a group that gets longer.
LEMMA GroupGrows ==
    ASSUME NEW S, NEW gs \in Groups(S), NEW e \in S
    PROVE  /\ Append(gs, <<e>>) \in Groups(S)
           /\ FlattenSeq(Append(gs, <<e>>)) = Append(FlattenSeq(gs), e)
           /\ gs # << >> =>
                 /\ [gs EXCEPT ![Len(gs)] = Append(@, e)] \in Groups(S)
                 /\ FlattenSeq([gs EXCEPT ![Len(gs)] = Append(@, e)]) = Append(FlattenSeq(gs), e)
<1>1. gs \in Seq(Seq(S)) /\ FlattenSeq(gs) \in Seq(S)
    BY GroupsAre, FlatAppend, EmptySeq
<1>2. <<e>> \in Seq(S) /\ <<e>> # << >>
    OBVIOUS
<1>3. Append(gs, <<e>>) \in Groups(S) /\ FlattenSeq(Append(gs, <<e>>)) = FlattenSeq(gs) \o <<e>>
    BY <1>2, GroupAdded
<1>4. FlattenSeq(gs) \o <<e>> = Append(FlattenSeq(gs), e)
    BY <1>1, AppendIsConcat
<1>5. ASSUME gs # << >>
      PROVE  /\ [gs EXCEPT ![Len(gs)] = Append(@, e)] \in Groups(S)
             /\ FlattenSeq([gs EXCEPT ![Len(gs)] = Append(@, e)]) = Append(FlattenSeq(gs), e)
    <2> DEFINE n == Len(gs)
               Q == Seq(S) \ {<< >>}
    <2>1. gs \in Seq(Q)
        BY DEF Groups
    <2>2. n \in 1 .. Len(gs) /\ gs[n] \in Q
        BY <1>5, <2>1
    <2>3. Append(gs[n], e) \in Q
        <3>1. gs[n] \in Seq(S)
            BY <2>2
        <3>2. Append(gs[n], e) \in Seq(S) /\ Append(gs[n], e) # << >>
            BY <3>1, AppendProperties
        <3> QED BY <3>2
    <2> HIDE DEF Q
    <2>4. [gs EXCEPT ![n] = Append(gs[n], e)] \in Seq(Q)
        BY <2>1, <2>2, <2>3, ExceptSeq
    <2>5. FlattenSeq([gs EXCEPT ![Len(gs)] = Append(@, e)]) = Append(FlattenSeq(gs), e)
        BY <1>1, <1>5, FlatLonger
    <2> QED BY <2>4, <2>5 DEF Groups, Q
<1> QED BY <1>3, <1>4, <1>5

\* The groups after every segment.
IsGrouping(at, s, usePause, S) ==
    /\ at \in [0 .. Len(s) -> Groups(S)]
    /\ at[0] = << >>
    /\ \A k \in 1 .. Len(s) : at[k] = PlaceNext(at[k - 1], s[k], usePause)

\* A segment is placed in what there is.
LEMMA PlacedIs ==
    ASSUME NEW S, NEW gs \in Groups(S), NEW e \in S, NEW usePause
    PROVE  /\ PlaceNext(gs, e, usePause) \in Groups(S)
           /\ FlattenSeq(PlaceNext(gs, e, usePause)) = Append(FlattenSeq(gs), e)
<1>1. CASE gs = << >> \/ BreaksBefore(Last(gs), e, usePause)
    BY <1>1, GroupGrows DEF PlaceNext
<1>2. CASE ~(gs = << >> \/ BreaksBefore(Last(gs), e, usePause))
    BY <1>2, GroupGrows DEF PlaceNext
<1> QED BY <1>1, <1>2

\* Grouping goes through the segments.
LEMMA GroupedIsFold ==
    ASSUME NEW S, NEW s \in Seq(S), NEW usePause
    PROVE  \E at : IsGrouping(at, s, usePause, S) /\ Grouped(s, usePause) = at[Len(s)]
<1> DEFINE n == Len(s)
           V == Groups(S)
           step == [k \in 1 .. n |-> [c \in V |-> PlaceNext(c, s[k], usePause)]]
           Body(g) == [u \in SUBSET DOMAIN s |->
                          IF u = {} THEN << >>
                          ELSE LET x == Max(u) IN PlaceNext(g[u \ {x}], s[x], usePause)]
           iter == CHOOSE g : g = Body(g)
<1>1. n \in Nat /\ DOMAIN s = 1 .. n /\ \A k \in 1 .. n : s[k] \in S
    OBVIOUS
<1>2. Grouped(s, usePause) = iter[1 .. n]
    BY <1>1, Zenon DEF Grouped, FoldLeft, MapThenFoldSet
<1>3. step \in [1 .. n -> [V -> V]] /\ << >> \in V
    BY <1>1, PlacedIs, NoGroups
<1>4. \A k \in 1 .. n, c \in V : step[k][c] = PlaceNext(c, s[k], usePause)
    OBVIOUS
<1> HIDE DEF step, V
<1>5. \E g : g = Body(g)
    <2>1. PICK g : Given(g, << >>, step, n, V)
        BY <1>1, <1>3, FoldGiven
    <2>2. \A u \in SUBSET (1 .. n) : u # {} => g[u] = PlaceNext(g[u \ {Max(u)}], s[Max(u)], usePause)
        BY <1>4, <2>1 DEF Given
    <2>3. g = Body(g)
        BY <1>1, <2>1, <2>2 DEF Given
    <2> QED BY <2>3
<1>6. iter = Body(iter)
    BY <1>5
<1>7. iter[{}] = << >> /\ \A u \in SUBSET (1 .. n) : u # {} => iter[u] = PlaceNext(iter[u \ {Max(u)}], s[Max(u)], usePause)
    BY <1>1, <1>6
<1> HIDE DEF iter, n
<1>8. Folds(iter, << >>, step, n, V)
    BY <1>1, <1>4, <1>7, GreatestPosition DEF Folds
<1>9. PICK at : Values(at, << >>, step, n, V) /\ at[n] = iter[1 .. n]
    BY <1>1, <1>3, <1>8, FoldValues
<1>10. ASSUME NEW k \in 1 .. n PROVE at[k] = PlaceNext(at[k - 1], s[k], usePause)
    <2>1. k - 1 \in 0 .. n
        BY <1>1
    <2> QED BY <1>4, <1>9, <2>1 DEF Values
<1>11. IsGrouping(at, s, usePause, S)
    BY <1>9, <1>10 DEF IsGrouping, Values, V, n
<1> QED BY <1>2, <1>9, <1>11 DEF n

\* A longer prefix.
LEMMA PrefixGrows ==
    ASSUME NEW S, NEW s \in Seq(S), NEW k \in 0 .. Len(s) - 1
    PROVE  /\ SubSeq(s, 1, k) \in Seq(S) /\ s[k + 1] \in S
           /\ SubSeq(s, 1, k + 1) = Append(SubSeq(s, 1, k), s[k + 1])
<1>1. k + 1 \in 1 .. Len(s) /\ 1 \in 1 .. Len(s) /\ (k + 1) - 1 = k /\ k \in Int /\ 1 \in Int
    OBVIOUS
<1>2. SubSeq(s, 1, k) \in Seq(S)
    <2>1. \A i \in 1 .. k : s[i] \in S
        OBVIOUS
    <2> QED BY <1>1, <2>1, SubSeqProperties
<1>3. SubSeq(s, 1, k + 1) = SubSeq(s, 1, k) \o <<s[k + 1]>>
    BY <1>1, SubSeqRecursiveSecond
<1> QED BY <1>1, <1>2, <1>3, AppendIsConcat

\* Groups say what the segments say, and every one says something.
LEMMA GroupedJoins ==
    ASSUME NEW S, NEW s \in Seq(S), NEW usePause
    PROVE  Grouped(s, usePause) \in Groups(S) /\ FlattenSeq(Grouped(s, usePause)) = s
<1> DEFINE n == Len(s)
<1>1. n \in Nat
    OBVIOUS
<1>2. PICK at : IsGrouping(at, s, usePause, S) /\ Grouped(s, usePause) = at[n]
    BY GroupedIsFold
<1>3. /\ at \in [0 .. n -> Groups(S)] /\ at[0] = << >>
      /\ \A k \in 1 .. n : at[k] = PlaceNext(at[k - 1], s[k], usePause)
    BY <1>2 DEF IsGrouping
<1> DEFINE T == {k \in 0 .. n : FlattenSeq(at[k]) = SubSeq(s, 1, k)}
<1>4. 0 \in T
    <2>1. SubSeq(s, 1, 0) = << >>
        BY SubSeqEmpty
    <2>2. 0 \in 0 .. n /\ FlattenSeq(at[0]) = << >>
        BY <1>1, <1>3, FlatEmpty
    <2> QED BY <2>1, <2>2
<1>5. ASSUME NEW k \in 0 .. n - 1, k \in T PROVE k + 1 \in T
    <2>1. k + 1 \in 1 .. n /\ k + 1 \in 0 .. n /\ (k + 1) - 1 = k /\ k \in 0 .. n
        BY <1>1
    <2>2. at[k] \in Groups(S) /\ at[k + 1] = PlaceNext(at[k], s[k + 1], usePause)
        BY <1>3, <2>1
    <2>3. s[k + 1] \in S /\ SubSeq(s, 1, k + 1) = Append(SubSeq(s, 1, k), s[k + 1])
        BY PrefixGrows
    <2>4. FlattenSeq(at[k + 1]) = Append(FlattenSeq(at[k]), s[k + 1])
        BY <2>2, <2>3, PlacedIs
    <2> QED BY <1>5, <2>1, <2>3, <2>4
<1> HIDE DEF T
<1>6. \A k \in 0 .. n : k \in T
    BY <1>1, <1>4, <1>5, UpToBound
<1>7. FlattenSeq(at[n]) = SubSeq(s, 1, n) /\ at[n] \in Groups(S)
    BY <1>1, <1>3, <1>6 DEF T
<1> QED BY <1>2, <1>7, SubSeqFull

-----------------------------------------------------------------------------
(* Segments in time. *)

\* A segment of a track.
Piece == [place : Nat, start : Nat, end : Nat,
          kind : {"word", "stop", "noise", "arrow"}, high : BOOLEAN]

\* Segments that follow each other in time.
Timely(s) ==
    /\ s \in Seq(Piece)
    /\ \A k \in 1 .. Len(s) : s[k].start < s[k].end
    /\ \A j, k \in 1 .. Len(s) : j < k => s[j].end <= s[k].start

\* The segments of a track: their places, and starts that do not go back.
Track(s) ==
    /\ s \in Seq(Piece)
    /\ \A k \in 1 .. Len(s) : s[k].place = k /\ s[k].start < s[k].end
    /\ \A j, k \in 1 .. Len(s) : j < k => s[j].start <= s[k].start

\* A function on the first numbers is a sequence.
LEMMA SeqMade ==
    ASSUME NEW Q, NEW n \in Nat, NEW x, x = [k \in 1 .. n |-> x[k]], \A k \in 1 .. n : x[k] \in Q
    PROVE  x \in Seq(Q) /\ Len(x) = n
<1>1. x \in [1 .. n -> Q]
    OBVIOUS
<1> QED BY <1>1

\* What the times of a segment are.
LEMMA PieceTimes == ASSUME NEW e \in Piece PROVE e.start \in Nat /\ e.end \in Nat /\ e.place \in Nat
BY DEF Piece

\* A part of a sequence.
IsPart(g, s, a) ==
    /\ g \in Seq(Piece) /\ g # << >> /\ a \in Nat /\ a + Len(g) <= Len(s)
    /\ \A j \in 1 .. Len(g) : g[j] = s[a + j]

\* The times of the first and of the last segment of a part.
LEMMA PartEnds ==
    ASSUME NEW s \in Seq(Piece), NEW g, NEW a, IsPart(g, s, a)
    PROVE  LET m == Len(g) IN
           /\ m \in Nat \ {0} /\ a + 1 \in 1 .. Len(s) /\ a + m \in 1 .. Len(s) /\ Len(s) \in Nat /\ a \in Nat
           /\ g[1] = s[a + 1] /\ Last(g) = s[a + m]
           /\ SubSeq(s, a + 1, a + m) = g
<1> DEFINE m == Len(g)
<1>1. m \in Nat \ {0} /\ Len(s) \in Nat /\ a \in Nat /\ a + m <= Len(s)
    BY EmptySeq DEF IsPart
<1>2. Last(g) = g[m]
    BY DEF Last
<1>3. 1 \in 1 .. m /\ m \in 1 .. m /\ a + 1 \in 1 .. Len(s) /\ a + m \in 1 .. Len(s)
    BY <1>1
<1>4. g[1] = s[a + 1] /\ g[m] = s[a + m]
    BY <1>3 DEF IsPart
<1> DEFINE t == SubSeq(s, a + 1, a + m)
<1>5. t \in Seq(Piece) /\ Len(t) = m /\ \A i \in 1 .. m : t[i] = s[a + i]
    <2>1. a + 1 \in Int /\ a + m \in Int /\ a + 1 <= a + m /\ (a + m) - (a + 1) + 1 = m
        BY <1>1
    <2>2. \A i \in a + 1 .. a + m : s[i] \in Piece
        BY <1>1
    <2>3. /\ t \in Seq(Piece)
          /\ Len(t) = (a + m) - (a + 1) + 1
          /\ \A i \in 1 .. (a + m) - (a + 1) + 1 : t[i] = s[(a + 1) + i - 1]
        BY <2>1, <2>2, SubSeqProperties
    <2>4. \A i \in 1 .. m : (a + 1) + i - 1 = a + i
        BY <1>1
    <2> HIDE DEF t
    <2> QED BY <2>1, <2>3, <2>4
<1>6. g \in Seq(Piece) /\ Len(g) = m /\ \A i \in 1 .. m : g[i] = s[a + i]
    BY DEF IsPart
<1> HIDE DEF t, m
<1>7. t = g
    BY <1>5, <1>6, SeqEqual
<1> QED BY <1>1, <1>2, <1>3, <1>4, <1>7 DEF t, m

\* The segments that start within a part are the part.
LEMMA StartsIsPart ==
    ASSUME NEW s, Timely(s), NEW g, NEW a, IsPart(g, s, a)
    PROVE  StartsWithin(s, g) = g
<1> DEFINE n == Len(s)
           m == Len(g)
           T == {e \in ToSet(s) : e.start >= g[1].start /\ e.start < Last(g).end}
<1>1. /\ m \in Nat \ {0} /\ a + 1 \in 1 .. n /\ a + m \in 1 .. n /\ n \in Nat /\ a \in Nat
      /\ g[1] = s[a + 1] /\ Last(g) = s[a + m] /\ SubSeq(s, a + 1, a + m) = g
    BY PartEnds DEF Timely
<1> HIDE DEF m
<1>2. ASSUME NEW k \in 1 .. n PROVE s[k] \in T <=> a < k /\ k <= a + m
    <2>1. s[k] \in ToSet(s)
        <3>1. DOMAIN s = 1 .. n
            BY LenProperties DEF Timely
        <3> QED BY <3>1 DEF ToSet
    <2>2. s[k] \in T <=> s[k].start >= s[a + 1].start /\ s[k].start < s[a + m].end
        BY <1>1, <2>1
    <2>3. /\ s[k].start \in Nat /\ s[k].end \in Nat /\ s[a + 1].start \in Nat
          /\ s[a + m].start \in Nat /\ s[a + m].end \in Nat
        BY <1>1, PieceTimes DEF Timely
    <2>4. s[k].start < s[k].end /\ s[a + m].start < s[a + m].end
        BY <1>1 DEF Timely
    <2>5. CASE k <= a
        <3>1. s[k].end <= s[a + 1].start
            <4>1. k < a + 1 /\ a + 1 \in 1 .. Len(s) /\ k \in 1 .. Len(s)
                BY <1>1, <2>5
            <4> QED BY <4>1 DEF Timely
        <3> QED BY <1>1, <2>2, <2>3, <2>4, <2>5, <3>1
    <2>6. CASE a < k /\ k <= a + m
        <3>1. k = a + 1 \/ s[a + 1].end <= s[k].start
            <4>1. k = a + 1 \/ a + 1 < k
                BY <1>1, <2>6
            <4>2. a + 1 \in 1 .. Len(s) /\ k \in 1 .. Len(s)
                BY <1>1
            <4> QED BY <4>1, <4>2 DEF Timely
        <3>2. s[a + 1].start < s[a + 1].end /\ s[a + 1].end \in Nat
            BY <1>1, PieceTimes DEF Timely
        <3>3. k = a + m \/ s[k].end <= s[a + m].start
            <4>1. k = a + m \/ k < a + m
                BY <1>1, <2>6
            <4>2. a + m \in 1 .. Len(s) /\ k \in 1 .. Len(s)
                BY <1>1
            <4> QED BY <4>1, <4>2 DEF Timely
        <3>4. s[k].start >= s[a + 1].start
            BY <2>3, <3>1, <3>2
        <3>5. s[k].start < s[a + m].end
            BY <2>3, <2>4, <3>3
        <3> QED BY <2>2, <2>6, <3>4, <3>5
    <2>7. CASE a + m < k
        <3>1. s[a + m].end <= s[k].start
            BY <1>1, <2>7 DEF Timely
        <3>2. ~(k <= a + m) /\ ~(s[k].start < s[a + m].end)
            BY <1>1, <2>3, <2>7, <3>1
        <3> QED BY <2>2, <3>2
    <2> QED BY <1>1, <2>5, <2>6, <2>7
<1> HIDE DEF T
<1>3. a <= a + m /\ a + m <= n /\ a + m \in Nat /\ s \in Seq(Piece)
    BY <1>1 DEF Timely
<1>4. Chosen(s, T) = SubSeq(s, a + 1, a + m)
    BY <1>1, <1>2, <1>3, ChosenBlock
<1> QED BY <1>1, <1>4 DEF StartsWithin, T

\* A group of timely segments is a part of them.
LEMMA GroupIsPart ==
    ASSUME NEW gs \in Groups(Piece), NEW g \in 1 .. Len(gs)
    PROVE  \E a : IsPart(gs[g], FlattenSeq(gs), a)
<1>1. gs \in Seq(Seq(Piece))
    BY GroupsAre
<1>2. gs[g] \in Seq(Piece) /\ gs[g] # << >>
    BY DEF Groups
<1>3. PICK a \in Nat : /\ a + Len(gs[g]) <= Len(FlattenSeq(gs))
                       /\ \A j \in 1 .. Len(gs[g]) : gs[g][j] = FlattenSeq(gs)[a + j]
    BY <1>1, FlatBlock
<1> QED BY <1>2, <1>3 DEF IsPart

\* One group says what it says.
LEMMA FlatOne == ASSUME NEW S, NEW g \in Seq(S) PROVE <<g>> \in Seq(Seq(S)) /\ FlattenSeq(<<g>>) = g
<1>1. << >> \in Seq(Seq(S)) /\ Append(<< >>, g) = <<g>>
    OBVIOUS
<1>2. FlattenSeq(Append(<< >>, g)) = FlattenSeq(<< >>) \o g
    BY <1>1, FlatAppend
<1>3. << >> \o g = g
    BY ConcatEmptySeq
<1>4. FlattenSeq(<<g>>) = g
    BY <1>1, <1>2, <1>3, FlatEmpty
<1>5. <<g>> \in Seq(Seq(S))
    OBVIOUS
<1> QED BY <1>4, <1>5

\* The cues that rules make say what the segments say.
LEMMA FormatJoins ==
    ASSUME NEW s, Timely(s)
    PROVE  FormatSubtitles(s) \in Seq(Seq(Piece)) /\ FlattenSeq(FormatSubtitles(s)) = s
<1> DEFINE groups == Grouped(s, FALSE)
           Again(group) ==
               LET within == StartsWithin(s, group) IN
               IF Len(group) > LongText /\ Len(within) > 1 THEN Grouped(within, TRUE) ELSE <<group>>
           n == Len(groups)
           xs == [g \in 1 .. n |-> Again(groups[g])]
<1>1. groups \in Groups(Piece) /\ FlattenSeq(groups) = s
    BY GroupedJoins DEF Timely
<1>2. n \in Nat /\ DOMAIN groups = 1 .. n /\ groups \in Seq(Seq(Piece)) /\ groups = [g \in 1 .. n |-> groups[g]]
    <2>1. groups \in Seq(Seq(Piece))
        BY <1>1, GroupsAre
    <2> HIDE DEF groups
    <2> QED BY <2>1
<1>3. FormatSubtitles(s) = FlattenSeq(xs)
    BY <1>2 DEF FormatSubtitles
<1> HIDE DEF groups
<1>4. ASSUME NEW g \in 1 .. n PROVE xs[g] \in Seq(Seq(Piece)) /\ FlattenSeq(xs[g]) = groups[g]
    <2>1. PICK a : IsPart(groups[g], s, a)
        BY <1>1, GroupIsPart
    <2>2. StartsWithin(s, groups[g]) = groups[g] /\ groups[g] \in Seq(Piece)
        BY <2>1, StartsIsPart DEF IsPart
    <2>3. xs[g] = Grouped(groups[g], TRUE) \/ xs[g] = <<groups[g]>>
        BY <2>2
    <2>4. Grouped(groups[g], TRUE) \in Seq(Seq(Piece)) /\ FlattenSeq(Grouped(groups[g], TRUE)) = groups[g]
        BY <2>2, GroupedJoins, GroupsAre
    <2>5. <<groups[g]>> \in Seq(Seq(Piece)) /\ FlattenSeq(<<groups[g]>>) = groups[g]
        BY <2>2, FlatOne
    <2> HIDE DEF xs
    <2> QED BY <2>3, <2>4, <2>5
<1>5. xs \in Seq(Seq(Seq(Piece))) /\ Len(xs) = n
    <2>1. xs = [k \in 1 .. n |-> xs[k]]
        OBVIOUS
    <2>2. \A k \in 1 .. n : xs[k] \in Seq(Seq(Piece))
        BY <1>4
    <2> HIDE DEF xs, n
    <2> QED BY <1>2, <2>1, <2>2, SeqMade
<1> HIDE DEF xs, n
<1>6. FlattenSeq(FlattenSeq(xs)) = FlattenSeq([k \in 1 .. n |-> FlattenSeq(xs[k])])
    BY <1>5, FlatFlat
<1>7. [k \in 1 .. n |-> FlattenSeq(xs[k])] = groups
    BY <1>2, <1>4
<1>8. FlattenSeq(xs) \in Seq(Seq(Piece))
    BY <1>5, FlatAppend, EmptySeq
<1> QED BY <1>1, <1>3, <1>6, <1>7, <1>8

-----------------------------------------------------------------------------
(* Lines of segments. *)

\* The lines and what is left for the next one.
OpenLines == [whole : Groups(Piece), open : Seq(Piece)]

\* What the lines say.
LinesSay(st) == FlattenSeq(st.whole) \o st.open

\* A line that is whole.
LEMMA LineEnds ==
    ASSUME NEW st \in OpenLines, st.open # << >>
    PROVE  Append(st.whole, st.open) \in Groups(Piece) /\ FlattenSeq(Append(st.whole, st.open)) = LinesSay(st)
<1>1. st.whole \in Groups(Piece) /\ st.open \in Seq(Piece)
    BY DEF OpenLines
<1> QED BY <1>1, GroupAdded DEF LinesSay

\* A segment that is added is said last.
LEMMA LineAdded ==
    ASSUME NEW st \in OpenLines, NEW e \in Piece
    PROVE  LET next == [whole |-> st.whole, open |-> Append(st.open, e)]
           IN  next \in OpenLines /\ next.open # << >> /\ LinesSay(next) = Append(LinesSay(st), e)
<1> DEFINE w == FlattenSeq(st.whole)
           o == st.open
<1>1. st.whole \in Groups(Piece) /\ o \in Seq(Piece)
    BY DEF OpenLines
<1>2. w \in Seq(Piece)
    BY <1>1, GroupsAre, FlatAppend, EmptySeq
<1>3. Append(o, e) \in Seq(Piece) /\ Append(o, e) # << >> /\ Append(o, e) = o \o <<e>>
    BY <1>1, AppendProperties, AppendIsConcat
<1>4. w \o o \in Seq(Piece) /\ <<e>> \in Seq(Piece)
    BY <1>1, <1>2, ConcatProperties
<1>5. Append(w \o o, e) = (w \o o) \o <<e>>
    BY <1>4, AppendIsConcat
<1>6. w \o Append(o, e) = Append(w \o o, e)
    <2>1. Joins(Piece)
        BY ConcatThree
    <2> HIDE DEF w, o
    <2> QED BY <1>1, <1>2, <1>3, <1>4, <1>5, <2>1 DEF Joins
<1> QED BY <1>1, <1>3, <1>6 DEF OpenLines, LinesSay

\* Every segment is said, after what was said before.
LEMMA LineGrows ==
    ASSUME NEW st \in OpenLines, NEW e \in Piece
    PROVE  LineNext(st, e) \in OpenLines /\ LinesSay(LineNext(st, e)) = Append(LinesSay(st), e)
<1> DEFINE paused == st.open # << >> /\ e.start > Last(st.open).end + Pause
           cut == IF paused THEN [whole |-> Append(st.whole, st.open), open |-> << >>] ELSE st
           next == [whole |-> cut.whole, open |-> Append(cut.open, e)]
           closed == [whole |-> Append(next.whole, next.open), open |-> << >>]
<1>1. cut \in OpenLines /\ LinesSay(cut) = LinesSay(st)
    <2>1. CASE paused
        <3>1. Append(st.whole, st.open) \in Groups(Piece) /\ FlattenSeq(Append(st.whole, st.open)) = LinesSay(st)
            BY <2>1, LineEnds
        <3>2. LinesSay(st) \in Seq(Piece)
            <4>1. st.whole \in Groups(Piece) /\ st.open \in Seq(Piece)
                BY DEF OpenLines
            <4>2. FlattenSeq(st.whole) \in Seq(Piece)
                BY <4>1, GroupsAre, FlatAppend, EmptySeq
            <4> QED BY <4>1, <4>2, ConcatProperties DEF LinesSay
        <3>3. LinesSay(st) \o << >> = LinesSay(st)
            BY <3>2, ConcatEmptySeq
        <3>4. << >> \in Seq(Piece)
            OBVIOUS
        <3>5. cut.whole = Append(st.whole, st.open) /\ cut.open = << >> /\ cut = [whole |-> Append(st.whole, st.open), open |-> << >>]
            BY <2>1
        <3> HIDE DEF cut
        <3> QED BY <3>1, <3>3, <3>4, <3>5 DEF OpenLines, LinesSay
    <2>2. CASE ~paused
        BY <2>2
    <2> QED BY <2>1, <2>2
<1>2. next \in OpenLines /\ next.open # << >> /\ LinesSay(next) = Append(LinesSay(cut), e)
    <2> HIDE DEF cut
    <2> QED BY <1>1, LineAdded
<1>3. closed \in OpenLines /\ LinesSay(closed) = LinesSay(next)
    <2> HIDE DEF next
    <2>1. Append(next.whole, next.open) \in Groups(Piece) /\ FlattenSeq(Append(next.whole, next.open)) = LinesSay(next)
        BY <1>2, LineEnds
    <2>2. LinesSay(next) \in Seq(Piece)
        <3>1. next.whole \in Groups(Piece) /\ next.open \in Seq(Piece)
            BY <1>2 DEF OpenLines
        <3>2. FlattenSeq(next.whole) \in Seq(Piece)
            BY <3>1, GroupsAre, FlatAppend, EmptySeq
        <3> QED BY <3>1, <3>2, ConcatProperties DEF LinesSay
    <2>3. LinesSay(next) \o << >> = LinesSay(next) /\ << >> \in Seq(Piece)
        BY <2>2, ConcatEmptySeq, EmptySeq
    <2> QED BY <2>1, <2>3 DEF OpenLines, LinesSay
<1>4. LineNext(st, e) = next \/ LineNext(st, e) = closed
    BY DEF LineNext
<1> HIDE DEF next, closed, cut
<1> QED BY <1>1, <1>2, <1>3, <1>4

\* The lines after every segment.
NoLines == [whole |-> << >>, open |-> << >>]
IsLining(at, s) ==
    /\ at \in [0 .. Len(s) -> OpenLines]
    /\ at[0] = NoLines
    /\ \A k \in 1 .. Len(s) : at[k] = LineNext(at[k - 1], s[k])

\* The line that is left is a line.
LinesOf(st) == IF st.open = << >> THEN st.whole ELSE Append(st.whole, st.open)

\* Lines are made segment by segment.
LEMMA LinesIsFold ==
    ASSUME NEW s \in Seq(Piece)
    PROVE  \E at : IsLining(at, s) /\ Lines(s) = LinesOf(at[Len(s)])
<1> DEFINE n == Len(s)
           V == OpenLines
           step == [k \in 1 .. n |-> [c \in V |-> LineNext(c, s[k])]]
           Body(g) == [u \in SUBSET DOMAIN s |->
                          IF u = {} THEN NoLines
                          ELSE LET x == Max(u) IN LineNext(g[u \ {x}], s[x])]
           iter == CHOOSE g : g = Body(g)
<1>1. n \in Nat /\ DOMAIN s = 1 .. n /\ \A k \in 1 .. n : s[k] \in Piece
    OBVIOUS
<1>2. Lines(s) = LinesOf(iter[1 .. n])
    <2>1. Lines(s) = LinesOf(iter[DOMAIN s])
        BY Zenon DEF Lines, FoldLeft, MapThenFoldSet, LinesOf, NoLines
    <2> HIDE DEF iter, n
    <2> QED BY <1>1, <2>1
<1>3. step \in [1 .. n -> [V -> V]] /\ NoLines \in V
    BY <1>1, LineGrows, NoGroups, EmptySeq DEF NoLines, OpenLines
<1>4. \A k \in 1 .. n, c \in V : step[k][c] = LineNext(c, s[k])
    OBVIOUS
<1> HIDE DEF step, V
<1>5. \E g : g = Body(g)
    <2>1. PICK g : Given(g, NoLines, step, n, V)
        BY <1>1, <1>3, FoldGiven
    <2>2. \A u \in SUBSET (1 .. n) : u # {} => g[u] = LineNext(g[u \ {Max(u)}], s[Max(u)])
        BY <1>4, <2>1 DEF Given
    <2>3. g = Body(g)
        BY <1>1, <2>1, <2>2 DEF Given
    <2> QED BY <2>3
<1>6. iter = Body(iter)
    BY <1>5
<1>7. iter[{}] = NoLines /\ \A u \in SUBSET (1 .. n) : u # {} => iter[u] = LineNext(iter[u \ {Max(u)}], s[Max(u)])
    BY <1>1, <1>6
<1> HIDE DEF iter, n
<1>8. Folds(iter, NoLines, step, n, V)
    BY <1>1, <1>4, <1>7, GreatestPosition DEF Folds
<1>9. PICK at : Values(at, NoLines, step, n, V) /\ at[n] = iter[1 .. n]
    BY <1>1, <1>3, <1>8, FoldValues
<1>10. ASSUME NEW k \in 1 .. n PROVE at[k] = LineNext(at[k - 1], s[k])
    <2>1. k - 1 \in 0 .. n
        BY <1>1
    <2> QED BY <1>4, <1>9, <2>1 DEF Values
<1>11. IsLining(at, s)
    BY <1>9, <1>10 DEF IsLining, Values, V, n
<1> QED BY <1>2, <1>9, <1>11 DEF n

\* The lines say what the segments say.
LEMMA LinesJoin ==
    ASSUME NEW s \in Seq(Piece)
    PROVE  Lines(s) \in Seq(Seq(Piece)) /\ FlattenSeq(Lines(s)) = s
<1> DEFINE n == Len(s)
<1>1. n \in Nat
    OBVIOUS
<1>2. PICK at : IsLining(at, s) /\ Lines(s) = LinesOf(at[n])
    BY LinesIsFold
<1>3. /\ at \in [0 .. n -> OpenLines] /\ at[0] = NoLines
      /\ \A k \in 1 .. n : at[k] = LineNext(at[k - 1], s[k])
    BY <1>2 DEF IsLining
<1> DEFINE T == {k \in 0 .. n : LinesSay(at[k]) = SubSeq(s, 1, k)}
<1>4. 0 \in T
    <2>1. SubSeq(s, 1, 0) = << >>
        BY SubSeqEmpty
    <2>2. << >> \o << >> = << >>
        BY ConcatEmptySeq, EmptySeq
    <2>3. LinesSay(NoLines) = << >>
        BY <2>2, FlatEmpty DEF LinesSay, NoLines
    <2>4. 0 \in 0 .. n
        BY <1>1
    <2> QED BY <1>3, <2>1, <2>3, <2>4
<1>5. ASSUME NEW k \in 0 .. n - 1, k \in T PROVE k + 1 \in T
    <2>1. k + 1 \in 1 .. n /\ k + 1 \in 0 .. n /\ (k + 1) - 1 = k /\ k \in 0 .. n
        BY <1>1
    <2>2. at[k] \in OpenLines /\ at[k + 1] = LineNext(at[k], s[k + 1])
        BY <1>3, <2>1
    <2>3. s[k + 1] \in Piece /\ SubSeq(s, 1, k + 1) = Append(SubSeq(s, 1, k), s[k + 1])
        BY PrefixGrows
    <2>4. LinesSay(at[k + 1]) = Append(LinesSay(at[k]), s[k + 1])
        BY <2>2, <2>3, LineGrows
    <2> QED BY <1>5, <2>1, <2>3, <2>4
<1> HIDE DEF T
<1>6. \A k \in 0 .. n : k \in T
    BY <1>1, <1>4, <1>5, UpToBound
<1> DEFINE st == at[n]
<1>7. LinesSay(st) = s /\ st \in OpenLines
    BY <1>1, <1>3, <1>6, SubSeqFull DEF T
<1> HIDE DEF st
<1>8. LinesOf(st) \in Groups(Piece) /\ FlattenSeq(LinesOf(st)) = s
    <2>1. st.whole \in Groups(Piece)
        BY <1>7 DEF OpenLines
    <2>2. CASE st.open = << >>
        <3>1. FlattenSeq(st.whole) \in Seq(Piece)
            BY <2>1, GroupsAre, FlatAppend, EmptySeq
        <3>2. FlattenSeq(st.whole) \o << >> = FlattenSeq(st.whole)
            BY <3>1, ConcatEmptySeq
        <3> QED BY <1>7, <2>1, <2>2, <3>2 DEF LinesOf, LinesSay
    <2>3. CASE st.open # << >>
        BY <1>7, <2>3, LineEnds DEF LinesOf
    <2> QED BY <2>2, <2>3
<1> QED BY <1>2, <1>8, GroupsAre DEF st

-----------------------------------------------------------------------------
(* Sentences that are too long. *)

\* Segments of a track, in its order.
Ascending(b) ==
    /\ b \in Seq(Piece)
    /\ \A i, j \in 1 .. Len(b) : i < j => b[i].place < b[j].place

\* Those of the first segments of a track that are in a set.
Picked(c, s, T, k) ==
    /\ Ascending(c)
    /\ \A i \in 1 .. Len(c) : \E p \in 1 .. k : c[i] = s[p] /\ s[p] \in T
    /\ \A p \in 1 .. k : s[p] \in T => \E i \in 1 .. Len(c) : c[i] = s[p]

\* One more segment is picked, or not.
LEMMA PickNext ==
    ASSUME NEW s, Track(s), NEW T, NEW k \in Nat, k + 1 <= Len(s), NEW c, Picked(c, s, T, k)
    PROVE  Picked(IF s[k + 1] \in T THEN Append(c, s[k + 1]) ELSE c, s, T, k + 1)
<1> DEFINE n == Len(c)
           e == s[k + 1]
           r == Append(c, e)
<1>1. /\ c \in Seq(Piece) /\ n \in Nat
      /\ \A i, j \in 1 .. n : i < j => c[i].place < c[j].place
    BY DEF Picked, Ascending
<1>2. \A i \in 1 .. n : \E p \in 1 .. k : c[i] = s[p] /\ s[p] \in T
    BY DEF Picked
<1>3. \A p \in 1 .. k : s[p] \in T => \E i \in 1 .. n : c[i] = s[p]
    BY DEF Picked
<1>4. /\ \A p \in 1 .. k + 1 : p \in 1 .. k \/ p = k + 1
      /\ \A p \in 1 .. k : p \in 1 .. k + 1
      /\ k + 1 \in 1 .. k + 1
    OBVIOUS
<1>5. k + 1 \in 1 .. Len(s) /\ \A p \in 1 .. k + 1 : p \in 1 .. Len(s)
    <2>1. Len(s) \in Nat
        BY DEF Track
    <2> QED BY <2>1
<1>6. e \in Piece /\ e.place = k + 1 /\ \A p \in 1 .. k : s[p].place = p
    BY <1>4, <1>5 DEF Track
<1>7. r \in Seq(Piece) /\ Len(r) = n + 1 /\ r[n + 1] = e /\ \A i \in 1 .. n : r[i] = c[i]
    BY <1>1, <1>6, AppendProperties
<1>8. /\ \A i \in 1 .. n + 1 : i \in 1 .. n \/ i = n + 1
      /\ \A i \in 1 .. n : i \in 1 .. n + 1
      /\ n + 1 \in 1 .. n + 1
    BY <1>1
<1> HIDE DEF n, r, e
<1>9. CASE e \notin T
    <2>1. \A i \in 1 .. n : \E p \in 1 .. k + 1 : c[i] = s[p] /\ s[p] \in T
        BY <1>2, <1>4
    <2>2. \A p \in 1 .. k + 1 : s[p] \in T => \E i \in 1 .. n : c[i] = s[p]
        BY <1>3, <1>4, <1>9 DEF e
    <2>3. Picked(c, s, T, k + 1)
        BY <1>1, <2>1, <2>2 DEF Picked, Ascending, n
    <2> QED BY <1>9, <2>3 DEF e
<1>10. CASE e \in T
    <2>1. ASSUME NEW i \in 1 .. n + 1 PROVE \E p \in 1 .. k + 1 : r[i] = s[p] /\ s[p] \in T
        <3>1. CASE i \in 1 .. n
            <4>1. PICK p \in 1 .. k : c[i] = s[p] /\ s[p] \in T
                BY <1>2, <3>1
            <4> QED BY <1>4, <1>7, <3>1, <4>1
        <3>2. CASE i = n + 1
            BY <1>4, <1>7, <1>10, <3>2 DEF e
        <3> QED BY <1>8, <3>1, <3>2
    <2>2. ASSUME NEW p \in 1 .. k + 1, s[p] \in T PROVE \E i \in 1 .. n + 1 : r[i] = s[p]
        <3>1. CASE p \in 1 .. k
            <4>1. PICK i \in 1 .. n : c[i] = s[p]
                BY <1>3, <2>2, <3>1
            <4> QED BY <1>7, <1>8, <4>1
        <3>2. CASE p = k + 1
            BY <1>7, <1>8, <3>2 DEF e
        <3> QED BY <1>4, <3>1, <3>2
    <2>3. ASSUME NEW i \in 1 .. n + 1, NEW j \in 1 .. n + 1, i < j PROVE r[i].place < r[j].place
        <3>1. i \in 1 .. n
            BY <1>1, <2>3
        <3>2. CASE j \in 1 .. n
            BY <1>1, <1>7, <2>3, <3>1, <3>2
        <3>3. CASE j = n + 1
            <4>1. PICK p \in 1 .. k : c[i] = s[p]
                BY <1>2, <3>1
            <4>2. c[i].place = p /\ p < k + 1
                BY <1>6, <4>1
            <4> QED BY <1>6, <1>7, <3>1, <3>3, <4>2
        <3> QED BY <1>8, <3>2, <3>3
    <2>4. Picked(r, s, T, k + 1)
        BY <1>7, <2>1, <2>2, <2>3 DEF Picked, Ascending
    <2> QED BY <1>10, <2>4 DEF e, r
<1> QED BY <1>9, <1>10

\* What is chosen from a track.
LEMMA ChosenArePicked ==
    ASSUME NEW s, Track(s), NEW T
    PROVE  Picked(Chosen(s, T), s, T, Len(s))
<1> DEFINE n == Len(s)
<1>1. s \in Seq(Piece) /\ n \in Nat
    BY DEF Track
<1>2. PICK at : IsChoice(at, s, T, Piece) /\ Chosen(s, T) = at[n]
    BY <1>1, ChosenIsFold
<1>3. /\ at[0] = << >>
      /\ \A k \in 1 .. n : at[k] = IF s[k] \in T THEN Append(at[k - 1], s[k]) ELSE at[k - 1]
    BY <1>2 DEF IsChoice
<1> DEFINE G == {k \in 0 .. n : Picked(at[k], s, T, k)}
<1>4. 0 \in G
    <2>1. << >> \in Seq(Piece) /\ Len(<< >>) = 0 /\ 1 .. 0 = {}
        BY EmptySeq
    <2>2. Picked(<< >>, s, T, 0)
        BY <2>1 DEF Picked, Ascending
    <2> QED BY <1>1, <1>3, <2>2
<1>5. ASSUME NEW k \in 0 .. n - 1, k \in G PROVE k + 1 \in G
    <2>1. k + 1 \in 1 .. n /\ k + 1 \in 0 .. n /\ (k + 1) - 1 = k /\ k \in Nat /\ k + 1 <= n
        BY <1>1
    <2>2. at[k + 1] = IF s[k + 1] \in T THEN Append(at[k], s[k + 1]) ELSE at[k]
        BY <1>3, <2>1
    <2>3. Picked(at[k], s, T, k)
        BY <1>5
    <2>4. Picked(at[k + 1], s, T, k + 1)
        BY <2>1, <2>2, <2>3, PickNext
    <2> QED BY <2>1, <2>4
<1> HIDE DEF G
<1>6. \A k \in 0 .. n : k \in G
    BY <1>1, <1>4, <1>5, UpToBound
<1>7. n \in G
    BY <1>1, <1>6
<1> QED BY <1>2, <1>7 DEF G

\* A word that a later one ends before, and one that may be said again.
OutlastingIn(s, p) == \E j \in 1 .. Len(s) : p < j /\ s[j].end < s[p].end
ShadowedIn(s, p) ==
    \E j \in 1 .. Len(s) : \/ j < p /\ s[j].end >= s[p].end
                           \/ p < j /\ s[j].start = s[p].start

\* What is said of a part: words of it, others only when they are shadowed, and
\* all of it that is not outlasting.
SaysPart(b, s, a, m) ==
    /\ Ascending(b)
    /\ \A i \in 1 .. Len(b) : \E p \in 1 .. Len(s) : b[i] = s[p] /\ (p \in a + 1 .. a + m \/ ShadowedIn(s, p))
    /\ \A p \in a + 1 .. a + m : OutlastingIn(s, p) \/ \E i \in 1 .. Len(b) : b[i] = s[p]

\* A part says itself.
LEMMA PartSays ==
    ASSUME NEW s, Track(s), NEW g, NEW a, IsPart(g, s, a)
    PROVE  SaysPart(g, s, a, Len(g))
<1> DEFINE m == Len(g)
<1>1. /\ g \in Seq(Piece) /\ m \in Nat /\ a \in Nat /\ Len(s) \in Nat /\ a + m <= Len(s)
      /\ \A j \in 1 .. m : g[j] = s[a + j]
    BY DEF IsPart, Track
<1>2. \A k \in 1 .. Len(s) : s[k].place = k
    BY DEF Track
<1> HIDE DEF m
<1>3. \A j \in 1 .. m : a + j \in 1 .. Len(s) /\ a + j \in a + 1 .. a + m
    BY <1>1
<1>4. \A i, j \in 1 .. m : i < j => g[i].place < g[j].place
    <2> SUFFICES ASSUME NEW i \in 1 .. m, NEW j \in 1 .. m, i < j PROVE g[i].place < g[j].place
        OBVIOUS
    <2>1. g[i].place = a + i /\ g[j].place = a + j
        BY <1>1, <1>2, <1>3
    <2> QED BY <1>1, <2>1
<1>5. \A p \in a + 1 .. a + m : p - a \in 1 .. m /\ a + (p - a) = p
    BY <1>1
<1>6. \A p \in a + 1 .. a + m : \E i \in 1 .. m : g[i] = s[p]
    BY <1>1, <1>5
<1>7. \A i \in 1 .. m : \E p \in 1 .. Len(s) : g[i] = s[p] /\ p \in a + 1 .. a + m
    BY <1>1, <1>3
<1> QED BY <1>1, <1>4, <1>6, <1>7 DEF SaysPart, Ascending, m

\* The words within the time of a part say it.
LEMMA WithinSays ==
    ASSUME NEW s, Track(s), NEW g, NEW a, IsPart(g, s, a)
    PROVE  SaysPart(Chosen(s, {w \in ToSet(s) : w.start >= g[1].start /\ w.end <= Last(g).end}), s, a, Len(g))
<1> DEFINE n == Len(s)
           m == Len(g)
           T == {w \in ToSet(s) : w.start >= g[1].start /\ w.end <= Last(g).end}
           b == Chosen(s, T)
<1>1. /\ m \in Nat \ {0} /\ a + 1 \in 1 .. n /\ a + m \in 1 .. n /\ n \in Nat /\ a \in Nat
      /\ g[1] = s[a + 1] /\ Last(g) = s[a + m]
    BY PartEnds DEF Track
<1>2. Picked(b, s, T, n)
    BY ChosenArePicked
<1> HIDE DEF m, n
<1>3. /\ \A k \in 1 .. n : s[k] \in Piece
      /\ \A j, k \in 1 .. n : j < k => s[j].start <= s[k].start
    BY DEF Track, n
<1>4. \A k \in 1 .. n : s[k].start \in Nat /\ s[k].end \in Nat
    BY <1>3, PieceTimes
<1>5. \A k \in 1 .. n : s[k] \in T <=> s[k].start >= s[a + 1].start /\ s[k].end <= s[a + m].end
    <2>1. DOMAIN s = 1 .. n
        BY LenProperties DEF Track, n
    <2>2. \A k \in 1 .. n : s[k] \in ToSet(s)
        BY <2>1 DEF ToSet
    <2> QED BY <1>1, <2>2
<1> HIDE DEF T, b
<1>6. ASSUME NEW p \in 1 .. n, s[p] \in T PROVE p \in a + 1 .. a + m \/ ShadowedIn(s, p)
    <2>1. s[p].start >= s[a + 1].start /\ s[p].end <= s[a + m].end
        BY <1>5, <1>6
    <2>2. /\ s[p].start \in Nat /\ s[p].end \in Nat /\ s[a + 1].start \in Nat /\ s[a + m].end \in Nat
        BY <1>1, <1>4
    <2>3. CASE p < a + 1
        <3>1. s[p].start <= s[a + 1].start
            BY <1>1, <1>3, <2>3
        <3>2. s[a + 1].start = s[p].start
            BY <2>1, <2>2, <3>1
        <3> QED BY <1>1, <2>3, <3>2 DEF ShadowedIn, n
    <2>4. CASE a + m < p
        <3>1. s[a + m].end >= s[p].end
            BY <2>1, <2>2
        <3> QED BY <1>1, <2>4, <3>1 DEF ShadowedIn, n
    <2> QED BY <1>1, <2>3, <2>4
<1>7. ASSUME NEW p \in a + 1 .. a + m, ~OutlastingIn(s, p) PROVE s[p] \in T
    <2>1. p \in 1 .. n
        BY <1>1
    <2>2. s[a + 1].start <= s[p].start
        <3>1. p = a + 1 \/ a + 1 < p
            BY <1>1
        <3> QED BY <1>1, <1>3, <1>4, <2>1, <3>1
    <2>3. s[p].end <= s[a + m].end
        <3>1. p = a + m \/ p < a + m
            BY <1>1
        <3>2. p < a + m => ~(s[a + m].end < s[p].end)
            BY <1>1, <1>7 DEF OutlastingIn, n
        <3>3. s[p].end \in Nat /\ s[a + m].end \in Nat
            BY <1>1, <1>4, <2>1
        <3> QED BY <3>1, <3>2, <3>3
    <2>4. s[p].start >= s[a + 1].start
        BY <1>1, <1>4, <2>1, <2>2
    <2> QED BY <1>5, <2>1, <2>3, <2>4
<1>8. \A i \in 1 .. Len(b) : \E p \in 1 .. n : b[i] = s[p] /\ s[p] \in T
    BY <1>2 DEF Picked
<1>9. \A p \in 1 .. n : s[p] \in T => \E i \in 1 .. Len(b) : b[i] = s[p]
    BY <1>2 DEF Picked
<1>10. \A i \in 1 .. Len(b) : \E p \in 1 .. n : b[i] = s[p] /\ (p \in a + 1 .. a + m \/ ShadowedIn(s, p))
    BY <1>6, <1>8
<1>11. \A p \in a + 1 .. a + m : p \in 1 .. n
    BY <1>1
<1>12. \A p \in a + 1 .. a + m : OutlastingIn(s, p) \/ \E i \in 1 .. Len(b) : b[i] = s[p]
    BY <1>7, <1>9, <1>11
<1>13. Ascending(b)
    BY <1>2 DEF Picked
<1> QED BY <1>10, <1>12, <1>13 DEF SaysPart, b, T, m, n

\* Pieces of the same length, and a shorter one at the end.
LEMMA EvenParts ==
    ASSUME NEW S, NEW g \in Seq(S), NEW per \in Nat \ {0}
    PROVE  LET n == Len(g)
               parts == [j \in 1 .. (n + per - 1) \div per |->
                            SubSeq(g, (j - 1) * per + 1, Lesser(n, j * per))]
           IN  parts \in Groups(S) /\ FlattenSeq(parts) = g
<1> DEFINE n == Len(g)
           q == (n + per - 1) \div per
           parts == [j \in 1 .. q |-> SubSeq(g, (j - 1) * per + 1, Lesser(n, j * per))]
           p == [j \in 0 .. q |-> Lesser(n, j * per)]
<1>1. n \in Nat /\ n + per - 1 \in Nat
    OBVIOUS
<1> HIDE DEF n
<1>2. q \in Nat /\ per * q <= n + per - 1 /\ n + per - 1 < per * q + per
    BY <1>1, Quotient
<1>3. DOMAIN p = 0 .. q /\ \A j \in 0 .. q : p[j] = Lesser(n, j * per)
    OBVIOUS
<1>4. DOMAIN parts = 1 .. q /\ parts = [j \in 1 .. q |-> parts[j]]
      /\ \A j \in 1 .. q : parts[j] = SubSeq(g, (j - 1) * per + 1, Lesser(n, j * per))
    OBVIOUS
<1>5. p = [j \in 0 .. q |-> p[j]]
    OBVIOUS
<1> HIDE DEF parts, p, q
<1>6. \A j \in 0 .. q : j * per \in Nat /\ p[j] \in 0 .. n
    <2> SUFFICES ASSUME NEW j \in 0 .. q PROVE j * per \in Nat /\ p[j] \in 0 .. n
        OBVIOUS
    <2>1. j \in Nat
        BY <1>2
    <2>2. j * per \in Nat
        BY <2>1
    <2> QED BY <1>1, <1>3, <2>2 DEF Lesser
<1>7. p[0] = 0
    <2>1. 0 \in 0 .. q /\ 0 * per = 0
        BY <1>2
    <2> QED BY <1>1, <1>3, <2>1 DEF Lesser
<1>8. p[q] = n
    <2>1. q * per = per * q /\ q \in 0 .. q
        BY <1>2
    <2>2. n <= q * per /\ q * per \in Nat
        <3> DEFINE x == per * q
        <3>1. x \in Nat
            BY <1>2
        <3> HIDE DEF x
        <3> QED BY <1>1, <1>2, <2>1, <3>1 DEF x
    <2> QED BY <1>1, <1>3, <2>1, <2>2 DEF Lesser
<1>9. ASSUME NEW j \in 1 .. q
      PROVE  p[j - 1] <= p[j] /\ parts[j] = SubSeq(g, p[j - 1] + 1, p[j]) /\ parts[j] \in Seq(S) \ {<< >>}
    <2> DEFINE x == (j - 1) * per
    <2>1. j \in 0 .. q /\ j - 1 \in 0 .. q /\ j \in Nat /\ j - 1 \in Nat
        BY <1>2
    <2>2. x \in Nat /\ j * per = x + per
        BY <2>1
    <2>3. x < n
        <3>1. q * per = per * q /\ q \in Nat
            BY <1>2
        <3>2. j * per <= q * per
            <4>1. j <= q
                BY <1>2
            <4>2. (q - j) * per \in Nat
                <5>1. q - j \in Nat
                    BY <1>2, <4>1
                <5> QED BY <5>1
            <4>3. q * per = j * per + (q - j) * per
                BY <2>1, <3>1
            <4> QED BY <2>2, <4>2, <4>3
        <3> DEFINE y == q * per
        <3>3. y \in Nat /\ y <= n + per - 1
            BY <1>2, <3>1
        <3> HIDE DEF x, y
        <3>4. x + per <= y
            BY <2>2, <3>2 DEF y
        <3> QED BY <1>1, <2>2, <3>3, <3>4
    <2>4. p[j - 1] = x
        BY <1>1, <1>3, <2>1, <2>2, <2>3 DEF Lesser
    <2>5. p[j] = Lesser(n, j * per)
        BY <1>3, <2>1
    <2>6. parts[j] = SubSeq(g, x + 1, p[j])
        BY <1>4, <2>5
    <2>7. x < p[j] /\ p[j] \in 0 .. n
        <3>1. p[j] = n \/ p[j] = x + per
            BY <2>2, <2>5 DEF Lesser
        <3> HIDE DEF x
        <3> QED BY <1>1, <1>6, <2>1, <2>2, <2>3, <3>1
    <2>8. parts[j] \in Seq(S) \ {<< >>}
        <3> HIDE DEF x
        <3>1. \A i \in x + 1 .. p[j] : g[i] \in S
            BY <1>1, <2>2, <2>7 DEF n
        <3>2. x + 1 \in Int /\ p[j] \in Int /\ x + 1 <= p[j] /\ p[j] - (x + 1) + 1 # 0
            BY <1>1, <2>2, <2>7
        <3>3. parts[j] \in Seq(S) /\ Len(parts[j]) = p[j] - (x + 1) + 1
            BY <2>6, <3>1, <3>2, SubSeqProperties
        <3> QED BY <3>2, <3>3, EmptySeq
    <2>9. x <= p[j]
        <3> HIDE DEF x
        <3> QED BY <2>2, <2>7
    <2> QED BY <2>4, <2>6, <2>8, <2>9
<1>10. parts \in Groups(S) /\ Len(parts) = q
    BY <1>2, <1>4, <1>9, SeqMade DEF Groups
<1>14. parts \in Seq(Seq(S))
    BY <1>10, GroupsAre
<1>11. p \in [0 .. Len(parts) -> 0 .. Len(g)]
    BY <1>5, <1>6, <1>10 DEF n
<1>12. FlattenSeq(parts) = SubSeq(g, 1, p[Len(parts)])
    BY <1>7, <1>9, <1>10, <1>11, <1>14, FlatCuts
<1>13. FlattenSeq(parts) = g
    BY <1>8, <1>10, <1>12, SubSeqFull DEF n
<1> QED BY <1>10, <1>13 DEF parts, q, n

\* A sentence that is split says it, too.
LEMMA SplitSays ==
    ASSUME NEW s, Track(s), NEW g, NEW a, IsPart(g, s, a)
    PROVE  SplitLong(s, g) \in Groups(Piece) /\ SaysPart(FlattenSeq(SplitLong(s, g)), s, a, Len(g))
<1> DEFINE from == g[1].start
           to == Last(g).end
           b == Chosen(s, {w \in ToSet(s) : w.start >= from /\ w.end <= to})
           n == Len(b)
           parts == Greater(1, (2 * (to - from) + MaxSentence) \div (2 * MaxSentence))
           per == Greater(1, n \div parts)
           split == [j \in 1 .. (n + per - 1) \div per |-> SubSeq(b, (j - 1) * per + 1, Lesser(n, j * per))]
<1>1. SaysPart(b, s, a, Len(g))
    BY WithinSays
<1>2. SplitLong(s, g) = <<g>> \/ SplitLong(s, g) = split
    BY DEF SplitLong
<1>3. b \in Seq(Piece) /\ n \in Nat
    BY <1>1 DEF SaysPart, Ascending
<1>4. from \in Int /\ to \in Int
    <2>1. /\ a + 1 \in 1 .. Len(s) /\ a + Len(g) \in 1 .. Len(s)
          /\ g[1] = s[a + 1] /\ Last(g) = s[a + Len(g)]
        BY PartEnds DEF Track
    <2>2. s[a + 1] \in Piece /\ s[a + Len(g)] \in Piece
        BY <2>1 DEF Track
    <2>3. s[a + 1].start \in Nat /\ s[a + Len(g)].end \in Nat
        BY <2>2, PieceTimes
    <2> QED BY <2>1, <2>3
<1> HIDE DEF from, to, b
<1>5. parts \in Nat \ {0}
    <2> DEFINE x == 2 * (to - from) + MaxSentence
               d == 2 * MaxSentence
    <2>1. x \in Int /\ d \in Nat \ {0}
        BY <1>4, SegmentsOK
    <2> HIDE DEF x, d
    <2>2. x \div d \in Int
        BY <2>1
    <2>3. Greater(1, x \div d) \in Nat \ {0}
        BY <2>2 DEF Greater
    <2> QED BY <2>3 DEF x, d
<1> HIDE DEF parts, n
<1>6. per \in Nat \ {0}
    <2>1. n \div parts \in Int
        BY <1>3, <1>5
    <2> HIDE DEF parts
    <2> QED BY <2>1 DEF Greater
<1> HIDE DEF per
<1>7. split \in Groups(Piece) /\ FlattenSeq(split) = b
    BY <1>3, <1>6, EvenParts DEF n
<1>8. <<g>> \in Groups(Piece) /\ FlattenSeq(<<g>>) = g
    <2>1. g \in Seq(Piece) /\ g # << >>
        BY DEF IsPart
    <2>2. g \in Seq(Piece) \ {<< >>}
        BY <2>1
    <2>3. <<g>> \in Groups(Piece)
        BY <2>2 DEF Groups
    <2> QED BY <2>1, <2>3, FlatOne
<1>9. SaysPart(g, s, a, Len(g))
    BY PartSays
<1> HIDE DEF split
<1> QED BY <1>1, <1>2, <1>7, <1>8, <1>9

-----------------------------------------------------------------------------
(* The boundaries of sentences. *)

\* Boundaries in their order, up to one.
IsBounds(bs, m) ==
    /\ bs \in Seq(Nat)
    /\ \A k \in 1 .. Len(bs) : bs[k] \in 1 .. m
    /\ \A j, k \in 1 .. Len(bs) : j < k => bs[j] < bs[k]

\* There may be more room.
LEMMA BoundsWiden == ASSUME NEW m \in Int, NEW n \in Int, m <= n, NEW bs, IsBounds(bs, m) PROVE IsBounds(bs, n)
BY DEF IsBounds

\* One more boundary.
LEMMA BoundsAppend ==
    ASSUME NEW m \in Int, NEW b \in Nat \ {0}, m < b, NEW bs, IsBounds(bs, m)
    PROVE  IsBounds(Append(bs, b), b)
<1> DEFINE n == Len(bs)
           cs == Append(bs, b)
<1>1. bs \in Seq(Nat) /\ n \in Nat /\ b \in Nat
    BY DEF IsBounds
<1>2. cs \in Seq(Nat) /\ Len(cs) = n + 1 /\ cs[n + 1] = b /\ \A k \in 1 .. n : cs[k] = bs[k]
    BY <1>1, AppendProperties
<1>3. \A k \in 1 .. n : bs[k] \in 1 .. m
    BY DEF IsBounds
<1> HIDE DEF cs
<1>4. ASSUME NEW k \in 1 .. n + 1 PROVE cs[k] \in 1 .. b
    <2>1. k \in 1 .. n \/ k = n + 1
        BY <1>1
    <2> QED BY <1>2, <1>3, <2>1
<1>5. ASSUME NEW j \in 1 .. n + 1, NEW k \in 1 .. n + 1, j < k PROVE cs[j] < cs[k]
    <2>1. j \in 1 .. n /\ (k \in 1 .. n \/ k = n + 1)
        BY <1>1, <1>5
    <2>2. CASE k \in 1 .. n
        BY <1>2, <1>5, <2>1, <2>2 DEF IsBounds
    <2>3. CASE k = n + 1
        BY <1>2, <1>3, <2>1, <2>3
    <2> QED BY <2>1, <2>2, <2>3
<1> QED BY <1>2, <1>4, <1>5 DEF IsBounds, cs

\* One less.
LEMMA BoundsFront ==
    ASSUME NEW m \in Int, NEW bs, IsBounds(bs, m), bs # << >>
    PROVE  IsBounds(Front(bs), m)
<1> DEFINE n == Len(bs)
           cs == Front(bs)
<1>1. bs \in Seq(Nat) /\ n \in Nat \ {0}
    BY EmptySeq DEF IsBounds
<1>2. cs \in Seq(Nat) /\ Len(cs) = n - 1 /\ \A k \in 1 .. n - 1 : cs[k] = bs[k]
    <2>1. \A i \in 1 .. n - 1 : bs[i] \in Nat
        BY <1>1
    <2>2. 1 \in Int /\ n - 1 \in Int /\ (n - 1) - 1 + 1 = n - 1 /\ (1 <= n - 1 \/ n - 1 = 0)
        <3> HIDE DEF n
        <3> QED BY <1>1
    <2>3. /\ cs \in Seq(Nat)
          /\ Len(cs) = IF 1 <= n - 1 THEN (n - 1) - 1 + 1 ELSE 0
          /\ \A i \in 1 .. (n - 1) - 1 + 1 : cs[i] = bs[1 + i - 1]
        BY <2>1, <2>2, SubSeqProperties DEF Front
    <2>4. \A i \in 1 .. n - 1 : 1 + i - 1 = i
        BY <1>1
    <2> HIDE DEF cs
    <2> QED BY <1>1, <2>2, <2>3, <2>4
<1> HIDE DEF cs
<1>3. \A k \in 1 .. n - 1 : k \in 1 .. n
    BY <1>1
<1>4. \A k \in 1 .. n - 1 : cs[k] \in 1 .. m
    BY <1>2, <1>3 DEF IsBounds
<1>5. \A j, k \in 1 .. n - 1 : j < k => cs[j] < cs[k]
    BY <1>2, <1>3 DEF IsBounds
<1> QED BY <1>2, <1>4, <1>5 DEF IsBounds, cs

\* A place to begin a sentence, the best gap since, and what was found.
Search == [from : Nat, best : Nat, score : {-1, 0, 1}, found : Seq(Nat)]

\* A boundary at a, or none.
FoundAt(st, a) == [from |-> a + 1, best |-> 0, score |-> -1, found |-> Append(st.found, a)]
NotFound(st, b, c) == [st EXCEPT !.best = b, !.score = c]

\* The search finds a boundary here or at the best gap, or goes on.
LEMMA BoundaryNextIs ==
    ASSUME NEW words, NEW st \in Search, NEW i \in Nat \ {0}
    PROVE  \/ BoundaryNext(words, st, i) = FoundAt(st, i)
           \/ st.best > 0 /\ BoundaryNext(words, st, i) = FoundAt(st, st.best)
           \/ \E b \in {i, st.best}, c \in {-1, 0, 1} : BoundaryNext(words, st, i) = NotFound(st, b, c)
<1> DEFINE score == IF words[i + 1].high THEN 1 ELSE 0
           duration == words[i + 1].end - words[st.from].start
           count == i - st.from + 2
           arrow == words[i + 1].kind = "arrow" /\ duration >= MinSentence /\ count >= MinWords
           stop == /\ words[i].kind = "stop" /\ count >= ForcedWords /\ duration >= MinSentence
                   /\ Len(words) - i >= MinWords
           better == score > st.score /\ words[i].end - words[st.from].start >= MinSentence
           best == IF better THEN i ELSE st.best
           good == /\ words[i + 1].high /\ count >= MinWords
                   /\ words[i].kind = "stop" => count >= ForcedWords
           long == duration >= MaxSentence \/ count >= MostWords
           at == IF arrow \/ stop THEN i
                 ELSE IF long THEN (IF best > 0 THEN best ELSE i)
                 ELSE IF good THEN i ELSE 0
           last == IF better THEN score ELSE st.score
<1>1. BoundaryNext(words, st, i) = IF at > 0 THEN FoundAt(st, at) ELSE NotFound(st, best, last)
    BY DEF BoundaryNext, FoundAt, NotFound
<1>2. best \in {i, st.best} /\ i > 0 /\ st.best \in Nat
    BY DEF Search
<1>3. score \in {-1, 0, 1}
    OBVIOUS
<1>4. st.score \in {-1, 0, 1}
    BY DEF Search
<1>5. last \in {-1, 0, 1}
    <2> HIDE DEF score, better
    <2> QED BY <1>3, <1>4
<1> HIDE DEF best, last, arrow, stop, long, good
<1>6. at = i \/ (at = best /\ best > 0) \/ at = 0
    BY <1>2
<1> HIDE DEF at
<1>7. CASE at = i
    BY <1>1, <1>2, <1>7
<1>8. CASE at = best /\ best > 0
    BY <1>1, <1>2, <1>8
<1>9. CASE at = 0
    BY <1>1, <1>2, <1>5, <1>9
<1> QED BY <1>6, <1>7, <1>8, <1>9

\* The search stays one.
LEMMA SearchTyped ==
    ASSUME NEW words, NEW st \in Search, NEW i \in Nat \ {0}
    PROVE  BoundaryNext(words, st, i) \in Search
<1>1. st.best \in Nat /\ st.found \in Seq(Nat) /\ st.from \in Nat
    BY DEF Search
<1>2. ASSUME NEW a \in Nat PROVE FoundAt(st, a) \in Search
    BY <1>1 DEF FoundAt, Search
<1>3. ASSUME NEW b \in Nat, NEW c \in {-1, 0, 1} PROVE NotFound(st, b, c) \in Search
    BY DEF NotFound, Search
<1>4. i \in Nat
    OBVIOUS
<1> QED BY <1>1, <1>2, <1>3, <1>4, BoundaryNextIs

\* The search after every gap.
FirstSearch == [from |-> 1, best |-> 0, score |-> -1, found |-> << >>]
IsSearch(at, words) ==
    /\ at \in [0 .. Len(words) - 1 -> Search]
    /\ at[0] = FirstSearch
    /\ \A k \in 1 .. Len(words) - 1 : at[k] = BoundaryNext(words, at[k - 1], k)

\* The search goes from gap to gap.
LEMMA SearchIsFold ==
    ASSUME NEW words \in Seq(Piece), words # << >>
    PROVE  \E at : IsSearch(at, words) /\ FindBoundaries(words) = at[Len(words) - 1].found
<1> DEFINE n == Len(words) - 1
           ids == [i \in 1 .. n |-> i]
           V == Search
           step == [k \in 1 .. n |-> [c \in V |-> BoundaryNext(words, c, k)]]
           Body(g) == [u \in SUBSET DOMAIN ids |->
                          IF u = {} THEN FirstSearch
                          ELSE LET x == Max(u) IN BoundaryNext(words, g[u \ {x}], ids[x])]
           iter == CHOOSE g : g = Body(g)
<1>1. n \in Nat /\ DOMAIN ids = 1 .. n /\ \A k \in 1 .. n : ids[k] = k /\ k \in Nat \ {0}
    BY EmptySeq
<1>2. FindBoundaries(words) = iter[1 .. n].found
    <2>1. FindBoundaries(words) = iter[DOMAIN ids].found
        BY Zenon DEF FindBoundaries, FoldLeft, MapThenFoldSet, FirstSearch
    <2> HIDE DEF iter, n
    <2> QED BY <1>1, <2>1
<1>3. step \in [1 .. n -> [V -> V]] /\ FirstSearch \in V
    BY <1>1, SearchTyped, EmptySeq DEF FirstSearch, Search
<1>4. \A k \in 1 .. n, c \in V : step[k][c] = BoundaryNext(words, c, k)
    OBVIOUS
<1> HIDE DEF step, V, ids
<1>5. \E g : g = Body(g)
    <2>1. PICK g : Given(g, FirstSearch, step, n, V)
        BY <1>1, <1>3, FoldGiven
    <2>2. \A u \in SUBSET (1 .. n) : u # {} => g[u] = BoundaryNext(words, g[u \ {Max(u)}], ids[Max(u)])
        BY <1>1, <1>4, <2>1 DEF Given
    <2>3. g = Body(g)
        BY <1>1, <2>1, <2>2 DEF Given
    <2> QED BY <2>3
<1>6. iter = Body(iter)
    BY <1>5
<1>7. /\ iter[{}] = FirstSearch
      /\ \A u \in SUBSET (1 .. n) : u # {} => iter[u] = BoundaryNext(words, iter[u \ {Max(u)}], ids[Max(u)])
    BY <1>1, <1>6
<1> HIDE DEF iter, n
<1>8. Folds(iter, FirstSearch, step, n, V)
    <2> SUFFICES ASSUME NEW u \in SUBSET (1 .. n), u # {}, iter[u \ {Max(u)}] \in V
                 PROVE  iter[u] = step[Max(u)][iter[u \ {Max(u)}]]
        BY <1>7 DEF Folds
    <2>1. Max(u) \in 1 .. n
        BY <1>1, GreatestPosition
    <2>2. iter[u] = BoundaryNext(words, iter[u \ {Max(u)}], ids[Max(u)])
        BY <1>7
    <2> QED BY <1>1, <1>4, <2>1, <2>2
<1>9. PICK at : Values(at, FirstSearch, step, n, V) /\ at[n] = iter[1 .. n]
    BY <1>1, <1>3, <1>8, FoldValues
<1>10. ASSUME NEW k \in 1 .. n PROVE at[k] = BoundaryNext(words, at[k - 1], k)
    <2>1. k - 1 \in 0 .. n
        BY <1>1
    <2> QED BY <1>4, <1>9, <2>1 DEF Values
<1>11. IsSearch(at, words)
    BY <1>9, <1>10 DEF IsSearch, Values, V, n
<1> QED BY <1>2, <1>9, <1>11 DEF n

\* The boundaries are in their order, and between words.
LEMMA BoundariesFound ==
    ASSUME NEW words \in Seq(Piece), words # << >>
    PROVE  IsBounds(FindBoundaries(words), Len(words) - 1)
<1> DEFINE n == Len(words) - 1
<1>1. n \in Nat
    BY EmptySeq
<1>2. PICK at : IsSearch(at, words) /\ FindBoundaries(words) = at[n].found
    BY SearchIsFold
<1>3. /\ at \in [0 .. n -> Search] /\ at[0] = FirstSearch
      /\ \A k \in 1 .. n : at[k] = BoundaryNext(words, at[k - 1], k)
    BY <1>2 DEF IsSearch
<1> HIDE DEF n
<1> DEFINE Good(st, k) == /\ st.from \in 1 .. k + 1 /\ (st.best = 0 \/ st.best \in st.from .. k)
                          /\ IsBounds(st.found, st.from - 1)
           T == {k \in 0 .. n : Good(at[k], k)}
<1>4. 0 \in T
    <2>1. IsBounds(<< >>, 1 - 1)
        BY EmptySeq DEF IsBounds
    <2>2. FirstSearch.from = 1 /\ FirstSearch.best = 0 /\ FirstSearch.found = << >>
        BY DEF FirstSearch
    <2>3. Good(FirstSearch, 0)
        BY <2>1, <2>2
    <2>4. 0 \in 0 .. n
        BY <1>1
    <2> QED BY <1>3, <2>3, <2>4
<1>5. ASSUME NEW k \in 0 .. n - 1, k \in T PROVE k + 1 \in T
    <2> DEFINE st == at[k]
               i == k + 1
    <2>1. i \in 1 .. n /\ i \in 0 .. n /\ i - 1 = k /\ k \in 0 .. n /\ i \in Nat \ {0}
        BY <1>1
    <2>2. at[i] = BoundaryNext(words, st, i) /\ st \in Search
        BY <1>3, <2>1
    <2>3. Good(st, k)
        BY <1>5
    <2>4. st.from \in Nat /\ st.best \in Nat /\ st.found \in Seq(Nat) /\ DOMAIN st = {"from", "best", "score", "found"}
        BY <2>2 DEF Search
    <2> HIDE DEF st
    <2>5. ASSUME NEW a \in st.from .. i PROVE Good(FoundAt(st, a), i)
        <3>1. a \in Nat \ {0} /\ st.from - 1 < a /\ st.from - 1 \in Int /\ a + 1 \in 1 .. i + 1 /\ (a + 1) - 1 = a
            BY <2>1, <2>3, <2>4
        <3>2. IsBounds(Append(st.found, a), a)
            BY <2>3, <3>1, BoundsAppend
        <3> QED BY <3>1, <3>2 DEF FoundAt
    <2>6. ASSUME NEW b \in {i, st.best}, NEW c PROVE Good(NotFound(st, b, c), i)
        <3> DEFINE next == NotFound(st, b, c)
        <3>1. next.from = st.from /\ next.best = b /\ next.found = st.found
            BY <2>4 DEF NotFound
        <3>2. st.from \in 1 .. i + 1 /\ (b = 0 \/ b \in st.from .. i)
            BY <2>1, <2>3, <2>4
        <3> HIDE DEF next
        <3> QED BY <2>3, <3>1, <3>2 DEF next
    <2>7. i \in st.from .. i /\ (st.best > 0 => st.best \in st.from .. i)
        BY <2>1, <2>3, <2>4
    <2>8. Good(at[i], i)
        <3> HIDE DEF Good, i
        <3> QED BY <2>1, <2>2, <2>5, <2>6, <2>7, BoundaryNextIs
    <2> QED BY <2>1, <2>8
<1> HIDE DEF T
<1>6. \A k \in 0 .. n : k \in T
    BY <1>1, <1>4, <1>5, UpToBound
<1> DEFINE st == at[n]
<1>7. Good(st, n) /\ st \in Search
    BY <1>1, <1>3, <1>6 DEF T
<1> HIDE DEF st
<1>8. IsBounds(st.found, n)
    <2>1. st.from - 1 \in Int /\ st.from - 1 <= n /\ n \in Int
        BY <1>1, <1>7
    <2> QED BY <1>7, <2>1, BoundsWiden
<1> QED BY <1>2, <1>8 DEF st, n

-----------------------------------------------------------------------------
(* Boundaries that are merged, and the sentences between them. *)

\* A boundary is added, or the last one goes.
LEMMA MergeBoundaryIs ==
    ASSUME NEW words, NEW c \in Seq(Nat), NEW b \in Nat
    PROVE  /\ MergeBoundary(words, c, b) = Append(c, b) \/ (c # << >> /\ MergeBoundary(words, c, b) = Front(c))
           /\ MergeBoundary(words, c, b) \in Seq(Nat)
<1>1. MergeBoundary(words, c, b) = Append(c, b) \/ (c # << >> /\ MergeBoundary(words, c, b) = Front(c))
    BY DEF MergeBoundary, MayMerge
<1>2. Append(c, b) \in Seq(Nat)
    OBVIOUS
<1>3. c # << >> => Front(c) \in Seq(Nat)
    <2>1. \A i \in 1 .. Len(c) - 1 : c[i] \in Nat
        OBVIOUS
    <2>2. 1 \in Int /\ Len(c) - 1 \in Int
        OBVIOUS
    <2> QED BY <2>1, <2>2, SubSeqProperties DEF Front
<1> QED BY <1>1, <1>2, <1>3

\* What is left of the boundaries after every one.
IsMerging(at, words, bs) ==
    /\ at \in [0 .. Len(bs) -> Seq(Nat)]
    /\ at[0] = << >>
    /\ \A k \in 1 .. Len(bs) : at[k] = MergeBoundary(words, at[k - 1], bs[k])

\* Sentences are merged boundary by boundary.
LEMMA MergingIsFold ==
    ASSUME NEW words, NEW bs \in Seq(Nat)
    PROVE  \E at : /\ IsMerging(at, words, bs)
                   /\ \/ MergeShortSentences(words, bs) = at[Len(bs)]
                      \/ at[Len(bs)] # << >> /\ MergeShortSentences(words, bs) = Front(at[Len(bs)])
<1> DEFINE n == Len(bs)
           V == Seq(Nat)
           step == [k \in 1 .. n |-> [c \in V |-> MergeBoundary(words, c, bs[k])]]
           Body(g) == [u \in SUBSET DOMAIN bs |->
                          IF u = {} THEN << >>
                          ELSE LET x == Max(u) IN MergeBoundary(words, g[u \ {x}], bs[x])]
           iter == CHOOSE g : g = Body(g)
           Final(merged) ==
               LET b == LastOf(merged)
               IN IF /\ Len(words) - b < MinWords /\ b > 0
                     /\ MayMerge(words, merged, words[b + 1].start - words[b].end, b, Len(words))
                  THEN Front(merged) ELSE merged
<1>1. n \in Nat /\ DOMAIN bs = 1 .. n /\ \A k \in 1 .. n : bs[k] \in Nat
    OBVIOUS
<1>2. MergeShortSentences(words, bs) = Final(iter[1 .. n])
    <2>1. MergeShortSentences(words, bs) = Final(iter[DOMAIN bs])
        BY Zenon DEF MergeShortSentences, FoldLeft, MapThenFoldSet
    <2> HIDE DEF iter, n, Final
    <2> QED BY <1>1, <2>1
<1>3. step \in [1 .. n -> [V -> V]] /\ << >> \in V
    <2>1. << >> \in V
        BY EmptySeq
    <2>2. ASSUME NEW k \in 1 .. n, NEW c \in V PROVE MergeBoundary(words, c, bs[k]) \in V
        BY <1>1, MergeBoundaryIs
    <2> HIDE DEF V
    <2> QED BY <2>1, <2>2
<1>4. \A k \in 1 .. n, c \in V : step[k][c] = MergeBoundary(words, c, bs[k])
    OBVIOUS
<1>5. \A merged : Final(merged) = merged \/ (merged # << >> /\ Final(merged) = Front(merged))
    BY DEF MayMerge
<1> HIDE DEF step, V, Final
<1>6. \E g : g = Body(g)
    <2>1. PICK g : Given(g, << >>, step, n, V)
        BY <1>1, <1>3, FoldGiven
    <2>2. \A u \in SUBSET (1 .. n) : u # {} => g[u] = MergeBoundary(words, g[u \ {Max(u)}], bs[Max(u)])
        BY <1>4, <2>1 DEF Given
    <2>3. g = Body(g)
        BY <1>1, <2>1, <2>2 DEF Given
    <2> QED BY <2>3
<1>7. iter = Body(iter)
    BY <1>6
<1>8. iter[{}] = << >> /\ \A u \in SUBSET (1 .. n) : u # {} => iter[u] = MergeBoundary(words, iter[u \ {Max(u)}], bs[Max(u)])
    BY <1>1, <1>7
<1> HIDE DEF iter, n
<1>9. Folds(iter, << >>, step, n, V)
    BY <1>1, <1>4, <1>8, GreatestPosition DEF Folds
<1>10. PICK at : Values(at, << >>, step, n, V) /\ at[n] = iter[1 .. n]
    BY <1>1, <1>3, <1>9, FoldValues, SMTT(30)
<1>11. ASSUME NEW k \in 1 .. n PROVE at[k] = MergeBoundary(words, at[k - 1], bs[k])
    <2>1. k - 1 \in 0 .. n
        BY <1>1
    <2> QED BY <1>4, <1>10, <2>1 DEF Values
<1>12. IsMerging(at, words, bs)
    BY <1>10, <1>11 DEF IsMerging, Values, V, n
<1> QED BY <1>2, <1>5, <1>10, <1>12 DEF n

\* The boundaries that are left are in their order, and between words.
LEMMA BoundariesMerged ==
    ASSUME NEW words, NEW m \in Nat, NEW bs, IsBounds(bs, m)
    PROVE  IsBounds(MergeShortSentences(words, bs), m)
<1> DEFINE n == Len(bs)
           upTo == [k \in 0 .. n |-> IF k = 0 THEN 0 ELSE bs[k]]
<1>1. n \in Nat /\ bs \in Seq(Nat)
    BY DEF IsBounds
<1>2. PICK at : /\ IsMerging(at, words, bs)
                /\ MergeShortSentences(words, bs) = at[n]
                   \/ (at[n] # << >> /\ MergeShortSentences(words, bs) = Front(at[n]))
    BY <1>1, MergingIsFold
<1>3. /\ at \in [0 .. n -> Seq(Nat)] /\ at[0] = << >>
      /\ \A k \in 1 .. n : at[k] = MergeBoundary(words, at[k - 1], bs[k])
    BY <1>2 DEF IsMerging
<1>4. upTo[0] = 0 /\ \A k \in 1 .. n : upTo[k] = bs[k]
    BY <1>1
<1>5. \A k \in 1 .. n : bs[k] \in 1 .. m /\ bs[k] \in Nat \ {0}
    BY DEF IsBounds
<1>6. \A k \in 0 .. n : upTo[k] \in 0 .. m
    BY <1>4, <1>5
<1> HIDE DEF upTo, n
<1> DEFINE T == {k \in 0 .. n : IsBounds(at[k], upTo[k])}
<1>7. 0 \in T
    <2>1. IsBounds(<< >>, 0)
        BY EmptySeq DEF IsBounds
    <2>2. 0 \in 0 .. n
        BY <1>1
    <2> QED BY <1>3, <1>4, <2>1, <2>2
<1>8. ASSUME NEW k \in 0 .. n - 1, k \in T PROVE k + 1 \in T
    <2> DEFINE c == at[k]
               b == bs[k + 1]
    <2>1. k + 1 \in 1 .. n /\ k + 1 \in 0 .. n /\ (k + 1) - 1 = k /\ k \in 0 .. n /\ (k = 0 \/ k \in 1 .. n)
        BY <1>1
    <2>2. at[k + 1] = MergeBoundary(words, c, b) /\ c \in Seq(Nat)
        BY <1>3, <2>1
    <2>3. b \in Nat \ {0} /\ upTo[k + 1] = b /\ b \in Nat
        BY <1>4, <1>5, <2>1
    <2>4. upTo[k] < b /\ upTo[k] \in Int
        <3>1. CASE k = 0
            BY <1>4, <2>3, <3>1
        <3>2. CASE k \in 1 .. n
            <4>1. k < k + 1
                OBVIOUS
            <4>2. bs[k] < b
                BY <2>1, <3>2, <4>1 DEF IsBounds, n
            <4> QED BY <1>4, <1>5, <3>2, <4>2
        <3> QED BY <2>1, <3>1, <3>2
    <2>5. IsBounds(c, upTo[k])
        BY <1>8
    <2> HIDE DEF c, b
    <2>6. IsBounds(Append(c, b), b)
        BY <2>3, <2>4, <2>5, BoundsAppend
    <2>7. c # << >> => IsBounds(Front(c), b)
        <3>1. c # << >> => IsBounds(Front(c), upTo[k])
            BY <2>4, <2>5, BoundsFront
        <3>2. upTo[k] <= b /\ b \in Int
            BY <2>3, <2>4
        <3> QED BY <2>4, <3>1, <3>2, BoundsWiden
    <2>8. IsBounds(at[k + 1], b)
        BY <2>2, <2>3, <2>6, <2>7, MergeBoundaryIs, ZenonT(30)
    <2> QED BY <2>1, <2>3, <2>8
<1> HIDE DEF T
<1>9. \A k \in 0 .. n : k \in T
    BY <1>1, <1>7, <1>8, UpToBound
<1>10. n \in 0 .. n
    BY <1>1
<1>11. IsBounds(at[n], upTo[n]) /\ upTo[n] \in Int /\ upTo[n] <= m /\ m \in Int
    BY <1>6, <1>9, <1>10 DEF T
<1>12. IsBounds(at[n], m)
    BY <1>11, BoundsWiden
<1>13. at[n] # << >> => IsBounds(Front(at[n]), m)
    BY <1>11, <1>12, BoundsFront
<1> QED BY <1>2, <1>12, <1>13

\* The words are cut at the boundaries.
LEMMA SentencesAre ==
    ASSUME NEW words \in Seq(Piece), words # << >>, NEW bs, IsBounds(bs, Len(words) - 1)
    PROVE  LET ss == Sentences(words, bs) IN
           /\ ss \in Seq(Seq(Piece)) /\ FlattenSeq(ss) = words
           /\ \A k \in 1 .. Len(ss) : ss[k] # << >>
<1> DEFINE n == Len(words)
           m == Len(bs)
           points == <<0>> \o bs \o <<n>>
           ss == [k \in 1 .. Len(points) - 1 |-> SubSeq(words, points[k] + 1, points[k + 1])]
<1>1. n \in Nat \ {0} /\ m \in Nat /\ bs \in Seq(Nat) /\ words \in Seq(Piece)
    BY EmptySeq DEF IsBounds
<1>2. Sentences(words, bs) = ss
    BY DEF Sentences
<1>3. \A k \in 1 .. m : bs[k] \in 1 .. n - 1
    BY DEF IsBounds
<1>4. \A j, k \in 1 .. m : j < k => bs[j] < bs[k]
    BY DEF IsBounds
<1> HIDE DEF n
<1>5. /\ points \in Seq(Nat) /\ Len(points) = m + 2
      /\ points[1] = 0 /\ points[m + 2] = n
      /\ \A k \in 1 .. m : points[k + 1] = bs[k]
    <2> DEFINE us == <<0>> \o bs
    <2>1. <<0>> \in Seq(Nat) /\ <<n>> \in Seq(Nat) /\ Len(<<0>>) = 1 /\ Len(<<n>>) = 1
        BY <1>1
    <2>2. us \in Seq(Nat) /\ IsJoin(us, <<0>>, bs)
        BY <1>1, <2>1, ConcatProperties, JoinedIs
    <2> HIDE DEF us
    <2>3. us \o <<n>> \in Seq(Nat) /\ IsJoin(us \o <<n>>, us, <<n>>)
        BY <2>1, <2>2, ConcatProperties, JoinedIs
    <2>4. Len(us) = m + 1 /\ us[1] = 0 /\ \A k \in 1 .. m : us[k + 1] = bs[k]
        <3>1. Len(us) = 1 + m
            BY <2>1, <2>2 DEF IsJoin
        <3>2. \A i \in 1 .. 1 + m : us[i] = IF i <= 1 THEN <<0>>[i] ELSE bs[i - 1]
            BY <2>1, <2>2 DEF IsJoin
        <3>3. us[1] = 0
            BY <1>1, <3>2
        <3>4. ASSUME NEW k \in 1 .. m PROVE us[k + 1] = bs[k]
            <4>1. k + 1 \in 1 .. 1 + m /\ ~(k + 1 <= 1) /\ (k + 1) - 1 = k
                BY <1>1
            <4> QED BY <3>2, <4>1
        <3> HIDE DEF m
        <3> QED BY <1>1, <3>1, <3>3, <3>4
    <2> DEFINE ps == us \o <<n>>
    <2>5. Len(ps) = m + 2 /\ \A i \in 1 .. m + 2 : ps[i] = IF i <= m + 1 THEN us[i] ELSE <<n>>[i - (m + 1)]
        <3>1. Len(us) + Len(<<n>>) = m + 2
            <4> HIDE DEF m
            <4> QED BY <1>1, <2>1, <2>4
        <3> HIDE DEF m
        <3> QED BY <2>3, <2>4, <3>1 DEF IsJoin
    <2> HIDE DEF ps, m
    <2>6. ps[1] = 0
        <3>1. 1 \in 1 .. m + 2 /\ 1 <= m + 1
            BY <1>1
        <3> QED BY <2>4, <2>5, <3>1
    <2>7. ps[m + 2] = n
        <3>1. m + 2 \in 1 .. m + 2 /\ ~(m + 2 <= m + 1) /\ (m + 2) - (m + 1) = 1
            BY <1>1
        <3>2. <<n>>[1] = n
            OBVIOUS
        <3> QED BY <2>5, <3>1, <3>2
    <2>8. ASSUME NEW k \in 1 .. m PROVE ps[k + 1] = bs[k]
        <3>1. k + 1 \in 1 .. m + 2 /\ k + 1 <= m + 1
            BY <1>1
        <3> QED BY <2>4, <2>5, <3>1
    <2>9. points = ps
        BY DEF ps, us
    <2> HIDE DEF points
    <2> QED BY <2>3, <2>5, <2>6, <2>7, <2>8, <2>9 DEF ps
<1> HIDE DEF points, m
<1>6. ASSUME NEW k \in 1 .. m + 1
      PROVE  points[k] \in 0 .. n /\ points[k + 1] \in 0 .. n /\ points[k] < points[k + 1]
    <2>1. CASE k = 1 /\ m = 0
        BY <1>1, <1>5, <2>1
    <2>2. CASE k = 1 /\ m # 0
        <3>1. 1 \in 1 .. m
            BY <1>1, <2>2
        <3>2. points[k + 1] = bs[1] /\ bs[1] \in 1 .. n - 1
            BY <1>3, <1>5, <2>2, <3>1
        <3>3. points[k] = 0
            BY <1>5, <2>2
        <3> QED BY <1>1, <3>2, <3>3
    <2>3. CASE k # 1 /\ k = m + 1
        <3>1. k - 1 \in 1 .. m /\ (k - 1) + 1 = k /\ k + 1 = m + 2
            BY <1>1, <2>3
        <3>2. points[k] = bs[k - 1] /\ bs[k - 1] \in 1 .. n - 1
            BY <1>3, <1>5, <3>1
        <3>3. points[k + 1] = n
            BY <1>5, <3>1
        <3> QED BY <1>1, <3>2, <3>3
    <2>4. CASE k # 1 /\ k # m + 1
        <3>1. k - 1 \in 1 .. m /\ (k - 1) + 1 = k /\ k \in 1 .. m /\ k - 1 < k
            BY <1>1, <2>4
        <3>2. points[k] = bs[k - 1] /\ bs[k - 1] \in 1 .. n - 1 /\ points[k + 1] = bs[k] /\ bs[k] \in 1 .. n - 1
            BY <1>3, <1>5, <3>1
        <3>3. bs[k - 1] < bs[k]
            BY <1>4, <3>1
        <3> QED BY <1>1, <3>2, <3>3
    <2> QED BY <2>1, <2>2, <2>3, <2>4
<1>7. Len(points) - 1 = m + 1
    BY <1>1, <1>5
<1>8. ss = [k \in 1 .. m + 1 |-> ss[k]] /\ \A k \in 1 .. m + 1 : ss[k] = SubSeq(words, points[k] + 1, points[k + 1])
    BY <1>7
<1> HIDE DEF ss
<1>9. ASSUME NEW k \in 1 .. m + 1 PROVE ss[k] \in Seq(Piece) /\ ss[k] # << >>
    <2> DEFINE a == points[k]
               b == points[k + 1]
               g == ss[k]
    <2>1. a \in Nat /\ b \in Nat /\ a < b /\ b <= n
        <3>1. a \in 0 .. n /\ b \in 0 .. n /\ a < b
            BY <1>6
        <3>2. n \in Nat
            BY <1>1
        <3> HIDE DEF a, b
        <3> QED BY <3>1, <3>2
    <2>2. g = SubSeq(words, a + 1, b)
        BY <1>8
    <2> HIDE DEF a, b, g
    <2>3. \A i \in a + 1 .. b : words[i] \in Piece
        BY <1>1, <2>1 DEF n
    <2>4. a + 1 \in Int /\ b \in Int /\ a + 1 <= b /\ b - (a + 1) + 1 = b - a /\ \A i \in 1 .. b - a : (a + 1) + i - 1 = a + i
        BY <2>1
    <2>5. /\ g \in Seq(Piece) /\ Len(g) = b - (a + 1) + 1
          /\ \A i \in 1 .. b - (a + 1) + 1 : g[i] = words[(a + 1) + i - 1]
        BY <2>2, <2>3, <2>4, SubSeqProperties
    <2>6. Len(g) = b - a /\ b - a # 0
        BY <2>1, <2>4, <2>5
    <2> QED BY <2>5, <2>6, EmptySeq DEF g
<1>10. ss \in Seq(Seq(Piece)) /\ Len(ss) = m + 1
    <2>1. m + 1 \in Nat
        BY <1>1
    <2> QED BY <1>8, <1>9, <2>1, SeqMade
<1> DEFINE p == [k \in 0 .. m + 1 |-> points[k + 1]]
<1>11. /\ p \in [0 .. Len(ss) -> 0 .. Len(words)] /\ p[0] = 0 /\ p[m + 1] = n
       /\ \A k \in 1 .. m + 1 : p[k - 1] = points[k] /\ p[k] = points[k + 1]
    <2>1. ASSUME NEW k \in 0 .. m + 1 PROVE points[k + 1] \in 0 .. n
        <3>1. k = 0 \/ k \in 1 .. m + 1
            BY <1>1
        <3> QED BY <1>1, <1>5, <1>6, <3>1
    <2>2. 0 \in 0 .. m + 1 /\ m + 1 \in 0 .. m + 1 /\ (m + 1) + 1 = m + 2 /\ 0 + 1 = 1
        BY <1>1
    <2>3. \A k \in 1 .. m + 1 : k - 1 \in 0 .. m + 1 /\ k \in 0 .. m + 1 /\ (k - 1) + 1 = k
        BY <1>1
    <2> QED BY <1>5, <1>10, <2>1, <2>2, <2>3 DEF n
<1> HIDE DEF p
<1>12. \A k \in 1 .. Len(ss) : p[k - 1] <= p[k] /\ ss[k] = SubSeq(words, p[k - 1] + 1, p[k])
    <2> SUFFICES ASSUME NEW k \in 1 .. m + 1
                 PROVE  p[k - 1] <= p[k] /\ ss[k] = SubSeq(words, p[k - 1] + 1, p[k])
        BY <1>10
    <2>1. points[k] <= points[k + 1]
        BY <1>1, <1>6
    <2> QED BY <1>8, <1>11, <2>1
<1>13. FlattenSeq(ss) = SubSeq(words, 1, p[Len(ss)])
    BY <1>1, <1>10, <1>11, <1>12, FlatCuts, ZenonT(30)
<1>14. FlattenSeq(ss) = words
    BY <1>1, <1>10, <1>11, <1>13, SubSeqFull DEF n
<1> QED BY <1>2, <1>9, <1>10, <1>14

\* What the cues say of a track: all but what is outlasting, in its order but for
\* what is shadowed.
SaysAll(all, s) ==
    /\ all \in Seq(Piece)
    /\ \A p \in 1 .. Len(s) : OutlastingIn(s, p) \/ \E i \in 1 .. Len(all) : all[i] = s[p]
    /\ \A i, j \in 1 .. Len(all) :
          i < j /\ ~ShadowedIn(s, all[i].place) /\ ~ShadowedIn(s, all[j].place) => all[i].place < all[j].place

\* Parts that follow each other, each of which is said, say the track.
LEMMA PartsSayAll ==
    ASSUME NEW s, Track(s), NEW ss, NEW bs, Len(ss) = Len(bs), AreSeqs(ss, Piece), AreSeqs(bs, Piece),
           NEW off, Blocks(off, ss, s), NEW all \in Seq(Piece), NEW at, Blocks(at, bs, all),
           \A k \in 1 .. Len(bs) : SaysPart(bs[k], s, off[k - 1], Len(ss[k]))
    PROVE  SaysAll(all, s)
<1> DEFINE n == Len(bs)
<1>1. n = Len(ss) /\ n \in Nat
    BY DEF AreSeqs
<1>2. /\ \A k \in 0 .. n : off[k] \in Nat /\ at[k] \in Nat
      /\ \A k \in 1 .. n : off[k] = off[k - 1] + Len(ss[k]) /\ at[k] = at[k - 1] + Len(bs[k])
      /\ \A k \in 1 .. n : at[k] <= Len(all)
    BY <1>1 DEF Blocks
<1>3. \A k \in 1 .. n : \A j \in 1 .. Len(bs[k]) : bs[k][j] = all[at[k - 1] + j]
    BY DEF Blocks
<1>4. \A k \in 1 .. Len(s) : s[k].place = k
    BY DEF Track
<1>5. \A k \in 1 .. n : Len(bs[k]) \in Nat /\ Len(ss[k]) \in Nat
    BY <1>1 DEF AreSeqs
<1>6. \A k \in 1 .. n : k - 1 \in 0 .. n /\ k \in 0 .. n
    BY <1>1
<1> HIDE DEF n
<1>7. ASSUME NEW p \in 1 .. Len(s), ~OutlastingIn(s, p) PROVE \E i \in 1 .. Len(all) : all[i] = s[p]
    <2>1. PICK k \in 1 .. n : \E j \in 1 .. Len(ss[k]) : p = off[k - 1] + j
        BY <1>1, BlockOf
    <2>2. PICK j \in 1 .. Len(ss[k]) : p = off[k - 1] + j
        BY <2>1
    <2>3. p \in off[k - 1] + 1 .. off[k - 1] + Len(ss[k])
        <3>1. off[k - 1] \in Nat /\ Len(ss[k]) \in Nat
            BY <1>2, <1>5, <1>6
        <3> QED BY <2>2, <3>1
    <2>4. SaysPart(bs[k], s, off[k - 1], Len(ss[k]))
        BY DEF n
    <2>5. PICK i \in 1 .. Len(bs[k]) : bs[k][i] = s[p]
        BY <1>7, <2>3, <2>4 DEF SaysPart
    <2>6. at[k - 1] + i \in 1 .. Len(all)
        <3> DEFINE x == at[k - 1]
                   y == at[k]
                   l == Len(bs[k])
        <3>1. x \in Nat /\ l \in Nat /\ y = x + l /\ y <= Len(all) /\ Len(all) \in Nat /\ i \in 1 .. l
            BY <1>2, <1>5, <1>6
        <3> HIDE DEF x, y, l
        <3>2. x + i \in 1 .. Len(all)
            BY <3>1
        <3> QED BY <3>2 DEF x
    <2> QED BY <1>3, <2>5, <2>6
<1>8. ASSUME NEW i \in 1 .. Len(all), NEW j \in 1 .. Len(all), i < j,
             ~ShadowedIn(s, all[i].place), ~ShadowedIn(s, all[j].place)
      PROVE  all[i].place < all[j].place
    <2>1. PICK k \in 1 .. n : \E u \in 1 .. Len(bs[k]) : i = at[k - 1] + u
        BY BlockOf DEF n
    <2>2. PICK u \in 1 .. Len(bs[k]) : i = at[k - 1] + u
        BY <2>1
    <2>3. PICK l \in 1 .. n : \E v \in 1 .. Len(bs[l]) : j = at[l - 1] + v
        BY BlockOf DEF n
    <2>4. PICK v \in 1 .. Len(bs[l]) : j = at[l - 1] + v
        BY <2>3
    <2>5. all[i] = bs[k][u] /\ all[j] = bs[l][v]
        BY <1>3, <2>2, <2>4
    <2>6. /\ SaysPart(bs[k], s, off[k - 1], Len(ss[k]))
          /\ SaysPart(bs[l], s, off[l - 1], Len(ss[l]))
        BY DEF n
    <2>7. PICK p \in 1 .. Len(s) : bs[k][u] = s[p] /\ (p \in off[k - 1] + 1 .. off[k - 1] + Len(ss[k]) \/ ShadowedIn(s, p))
        BY <2>6 DEF SaysPart
    <2>8. PICK q \in 1 .. Len(s) : bs[l][v] = s[q] /\ (q \in off[l - 1] + 1 .. off[l - 1] + Len(ss[l]) \/ ShadowedIn(s, q))
        BY <2>6 DEF SaysPart
    <2>9. all[i].place = p /\ all[j].place = q
        BY <1>4, <2>5, <2>7, <2>8
    <2>10. p <= off[k] /\ off[l - 1] < q
        <3>1. off[k - 1] \in Nat /\ Len(ss[k]) \in Nat /\ off[k] = off[k - 1] + Len(ss[k])
              /\ off[l - 1] \in Nat /\ Len(ss[l]) \in Nat
            BY <1>2, <1>5, <1>6
        <3>2. p \in off[k - 1] + 1 .. off[k - 1] + Len(ss[k]) /\ q \in off[l - 1] + 1 .. off[l - 1] + Len(ss[l])
            BY <1>8, <2>7, <2>8, <2>9
        <3> QED BY <3>1, <3>2
    <2>11. CASE k = l
        <3>1. u < v
            <4>1. at[k - 1] \in Nat /\ u \in Nat /\ v \in Nat
                BY <1>2, <1>5, <1>6, <2>11
            <4> QED BY <1>8, <2>2, <2>4, <2>11, <4>1
        <3>2. Ascending(bs[k])
            BY <2>6 DEF SaysPart
        <3> QED BY <2>5, <2>11, <3>1, <3>2 DEF Ascending
    <2>12. CASE k < l
        <3>1. k <= l - 1 /\ k \in 0 .. n /\ l - 1 \in 0 .. n
            BY <1>1, <2>12
        <3>2. off[k] <= off[l - 1]
            BY <1>1, <3>1, BlocksOrdered
        <3>3. off[k] \in Nat /\ off[l - 1] \in Nat
            BY <1>2, <3>1
        <3> QED BY <2>9, <2>10, <3>2, <3>3
    <2>13. CASE l < k
        <3>1. l <= k - 1 /\ l \in 0 .. n /\ k - 1 \in 0 .. n
            BY <1>1, <2>13
        <3>2. at[l] <= at[k - 1]
            BY <3>1, BlocksOrdered DEF n
        <3> DEFINE x == at[l - 1]
                   y == at[l]
                   z == at[k - 1]
                   m == Len(bs[l])
        <3>3. x \in Nat /\ y = x + m /\ z \in Nat /\ m \in Nat /\ y <= z /\ v \in 1 .. m /\ i = z + u /\ j = x + v
            BY <1>2, <1>5, <1>6, <2>2, <2>4, <3>1, <3>2
        <3>4. u \in Nat /\ 1 <= u
            BY <1>5
        <3> HIDE DEF x, y, z, m
        <3> QED BY <1>8, <3>3, <3>4
    <2> QED BY <1>1, <2>11, <2>12, <2>13
<1> QED BY <1>7, <1>8 DEF SaysAll

\* The sentences say what the words say.
LEMMA BuildSays ==
    ASSUME NEW words, Track(words), words # << >>, NEW bs, IsBounds(bs, Len(words) - 1)
    PROVE  /\ BuildSentences(words, bs) \in Groups(Piece)
           /\ SaysAll(FlattenSeq(BuildSentences(words, bs)), words)
<1> DEFINE ss == Sentences(words, bs)
           n == Len(ss)
           xs == [k \in 1 .. n |-> SplitLong(words, ss[k])]
           ys == [k \in 1 .. n |-> FlattenSeq(xs[k])]
<1>1. /\ ss \in Seq(Seq(Piece)) /\ FlattenSeq(ss) = words
      /\ \A k \in 1 .. n : ss[k] # << >>
    BY SentencesAre DEF Track
<1> HIDE DEF ss
<1>2. n \in Nat /\ DOMAIN ss = 1 .. n /\ AreSeqs(ss, Piece)
    BY <1>1 DEF AreSeqs
<1>3. BuildSentences(words, bs) = FlattenSeq(xs)
    BY <1>2 DEF BuildSentences, ss
<1>4. PICK off : Blocks(off, ss, words)
    BY <1>1, FlatPlaces
<1>5. ASSUME NEW k \in 1 .. n
      PROVE  xs[k] \in Groups(Piece) /\ SaysPart(FlattenSeq(xs[k]), words, off[k - 1], Len(ss[k]))
    <2>1. IsPart(ss[k], words, off[k - 1])
        <3>1. k - 1 \in 0 .. n /\ k \in 1 .. Len(ss)
            BY <1>2
        <3>2. off[k - 1] \in Nat /\ off[k - 1] + Len(ss[k]) <= Len(words)
              /\ \A j \in 1 .. Len(ss[k]) : ss[k][j] = words[off[k - 1] + j]
            BY <1>4, <3>1 DEF Blocks
        <3>3. ss[k] \in Seq(Piece) /\ ss[k] # << >>
            BY <1>1, <1>2, <3>1 DEF AreSeqs
        <3> QED BY <3>2, <3>3 DEF IsPart
    <2>2. xs[k] = SplitLong(words, ss[k])
        OBVIOUS
    <2> HIDE DEF xs
    <2> QED BY <2>1, <2>2, SplitSays
<1>6. xs = [k \in 1 .. n |-> xs[k]]
    OBVIOUS
<1> HIDE DEF xs, n
<1>7. xs \in Seq(Groups(Piece)) /\ Len(xs) = n
    BY <1>2, <1>5, <1>6, SeqMade
<1>8. FlattenSeq(xs) \in Groups(Piece)
    BY <1>7, FlatAppend, EmptySeq DEF Groups
<1>9. xs \in Seq(Seq(Seq(Piece)))
    <2>1. \A k \in 1 .. n : xs[k] \in Seq(Seq(Piece))
        BY <1>5, GroupsAre
    <2> QED BY <1>2, <1>6, <2>1, SeqMade
<1>10. FlattenSeq(FlattenSeq(xs)) = FlattenSeq(ys)
    BY <1>7, <1>9, FlatFlat
<1>11. \A k \in 1 .. n : ys[k] = FlattenSeq(xs[k]) /\ SaysPart(ys[k], words, off[k - 1], Len(ss[k]))
    BY <1>5
<1>12. \A k \in 1 .. n : ys[k] \in Seq(Piece)
    BY <1>11 DEF SaysPart, Ascending
<1>13. ys = [k \in 1 .. n |-> ys[k]]
    OBVIOUS
<1> HIDE DEF ys
<1>14. ys \in Seq(Seq(Piece)) /\ Len(ys) = n
    BY <1>2, <1>12, <1>13, SeqMade
<1>15. AreSeqs(ys, Piece)
    BY <1>2, <1>12, <1>14 DEF AreSeqs
<1>16. PICK at : Blocks(at, ys, FlattenSeq(ys))
    BY <1>14, FlatPlaces
<1>17. FlattenSeq(ys) \in Seq(Piece)
    BY <1>14, FlatAppend, EmptySeq
<1>18. /\ n = Len(ss) /\ n = Len(ys)
       /\ \A k \in 1 .. Len(ys) : SaysPart(ys[k], words, off[k - 1], Len(ss[k]))
    BY <1>11, <1>14 DEF n
<1>19. SaysAll(FlattenSeq(ys), words)
    <2>1. Len(ss) = Len(ys) /\ AreSeqs(ss, Piece)
        BY <1>2, <1>18
    <2> QED BY <1>4, <1>15, <1>16, <1>17, <1>18, <2>1, PartsSayAll
<1> QED BY <1>3, <1>8, <1>10, <1>19

-----------------------------------------------------------------------------
(* The flattened text of a track. *)

\* Timely segments, which places they have, and a time they are over.
Kept(s, P, t) ==
    /\ Timely(s)
    /\ \A j, k \in 1 .. Len(s) : j < k => s[j].place < s[k].place
    /\ {s[k].place : k \in 1 .. Len(s)} = P
    /\ \A k \in 1 .. Len(s) : s[k].end <= t

\* They are over later, too.
LEMMA KeptLater ==
    ASSUME NEW s, NEW P, NEW t \in Nat, NEW u \in Nat, t <= u, Kept(s, P, t)
    PROVE  Kept(s, P, u)
<1>1. ASSUME NEW k \in 1 .. Len(s) PROVE s[k].end <= u
    <2>1. s[k] \in Piece /\ s[k].end <= t
        BY DEF Kept, Timely
    <2>2. s[k].end \in Nat
        BY <2>1, PieceTimes
    <2> QED BY <2>1, <2>2
<1> QED BY <1>1 DEF Kept

\* Nothing is kept at first.
LEMMA KeptNothing == ASSUME NEW t PROVE Kept(<< >>, {}, t)
<1>1. << >> \in Seq(Piece) /\ Len(<< >>) = 0 /\ 1 .. 0 = {}
    BY EmptySeq
<1> QED BY <1>1 DEF Kept, Timely

\* One more segment is kept.
LEMMA KeptAppend ==
    ASSUME NEW s, NEW P, NEW t \in Nat, Kept(s, P, t),
           NEW e \in Piece, t <= e.start, e.start < e.end, \A x \in P : x < e.place
    PROVE  Kept(Append(s, e), P \cup {e.place}, e.end)
<1> DEFINE n == Len(s)
           r == Append(s, e)
<1>1. s \in Seq(Piece) /\ n \in Nat
    BY DEF Kept, Timely
<1>2. r \in Seq(Piece) /\ Len(r) = n + 1 /\ r[n + 1] = e /\ \A k \in 1 .. n : r[k] = s[k]
    BY <1>1, AppendProperties
<1>3. e.start \in Nat /\ e.end \in Nat /\ e.place \in Nat
    BY PieceTimes
<1>4. \A k \in 1 .. n : s[k].start \in Nat /\ s[k].end \in Nat /\ s[k].place \in Nat
    BY <1>1, PieceTimes
<1>5. \A k \in 1 .. n : s[k].start < s[k].end /\ s[k].end <= t /\ s[k].place < e.place
    BY DEF Kept, Timely
<1>6. \A j, k \in 1 .. n : j < k => s[j].end <= s[k].start /\ s[j].place < s[k].place
    BY DEF Kept, Timely
<1>7. {s[k].place : k \in 1 .. n} = P
    BY DEF Kept
<1> HIDE DEF r, n
<1>8. \A k \in 1 .. n + 1 : k \in 1 .. n \/ k = n + 1
    BY <1>1
<1>9. \A k \in 1 .. n + 1 : r[k].start < r[k].end /\ r[k].end <= e.end
    <2> SUFFICES ASSUME NEW k \in 1 .. n + 1 PROVE r[k].start < r[k].end /\ r[k].end <= e.end
        OBVIOUS
    <2>1. CASE k \in 1 .. n
        <3>1. r[k] = s[k] /\ s[k].start < s[k].end /\ s[k].end <= t /\ s[k].end \in Nat
            BY <1>2, <1>4, <1>5, <2>1
        <3> QED BY <1>3, <3>1
    <2>2. CASE k = n + 1
        BY <1>2, <1>3, <2>2
    <2> QED BY <1>8, <2>1, <2>2
<1>10. ASSUME NEW j \in 1 .. n + 1, NEW k \in 1 .. n + 1, j < k
       PROVE  r[j].end <= r[k].start /\ r[j].place < r[k].place
    <2>1. j \in 1 .. n /\ (k \in 1 .. n \/ k = n + 1)
        BY <1>1, <1>10
    <2>2. CASE k \in 1 .. n
        <3>1. r[j] = s[j] /\ r[k] = s[k]
            BY <1>2, <2>1, <2>2
        <3> QED BY <1>6, <1>10, <2>1, <2>2, <3>1
    <2>3. CASE k = n + 1
        <3>1. r[j] = s[j] /\ r[k] = e
            BY <1>2, <2>1, <2>3
        <3>2. s[j].end <= t /\ s[j].end \in Nat /\ s[j].place < e.place
            BY <1>4, <1>5, <2>1
        <3>3. s[j].end <= e.start
            BY <1>3, <3>2
        <3> QED BY <3>1, <3>2, <3>3
    <2> QED BY <2>1, <2>2, <2>3
<1>11. {r[k].place : k \in 1 .. n + 1} = P \cup {e.place}
    <2>1. n + 1 \in 1 .. n + 1 /\ \A k \in 1 .. n : k \in 1 .. n + 1
        BY <1>1
    <2>2. ASSUME NEW x PROVE x \in {r[k].place : k \in 1 .. n + 1} <=> x \in P \/ x = e.place
        <3>1. (\E k \in 1 .. n + 1 : x = r[k].place) <=> (\E k \in 1 .. n : x = s[k].place) \/ x = e.place
            BY <1>2, <1>8, <2>1
        <3>2. x \in P <=> \E k \in 1 .. n : x = s[k].place
            BY <1>7
        <3> QED BY <3>1, <3>2
    <2> QED BY <2>2
<1> QED BY <1>2, <1>9, <1>10, <1>11 DEF Kept, Timely, r

\* A segment that is held is kept, cut short, when it lasts.
LEMMA FlushIs ==
    ASSUME NEW st, NEW P, NEW t \in Nat, Kept(st.flat, P, t),
           NEW b \in Piece, st.buffer = <<b>>, t <= b.start, b.start < b.end, \A x \in P : x < b.place,
           NEW at \in Nat, b.start <= at
    PROVE  /\ FlushBuffer(st, at).buffer = << >>
           /\ Kept(FlushBuffer(st, at).flat, IF at > b.start THEN P \cup {b.place} ELSE P, at)
<1> DEFINE held == [b EXCEPT !.end = Lesser(b.end, at)]
           flat == IF held.end > held.start THEN Append(st.flat, held) ELSE st.flat
<1>1. FlushBuffer(st, at) = [flat |-> flat, buffer |-> << >>]
    <2>1. st.buffer # << >> /\ st.buffer[1] = b
        OBVIOUS
    <2> QED BY <2>1 DEF FlushBuffer
<1>2. b.start \in Nat /\ b.end \in Nat /\ b.place \in Nat
    BY PieceTimes
<1>3. Lesser(b.end, at) \in Nat /\ Lesser(b.end, at) <= at /\ (Lesser(b.end, at) > b.start <=> at > b.start)
    BY <1>2 DEF Lesser
<1>4. held \in Piece /\ held.start = b.start /\ held.end = Lesser(b.end, at) /\ held.place = b.place
    BY <1>3 DEF Piece
<1> HIDE DEF held
<1>5. CASE at > b.start
    <2>1. held.start < held.end /\ t <= held.start /\ held.end \in Nat /\ held.end <= at
        BY <1>2, <1>3, <1>4, <1>5
    <2>2. Kept(Append(st.flat, held), P \cup {held.place}, held.end)
        BY <1>4, <2>1, KeptAppend
    <2>3. Kept(Append(st.flat, held), P \cup {held.place}, at)
        BY <2>1, <2>2, KeptLater
    <2>4. flat = Append(st.flat, held)
        BY <1>2, <2>1
    <2> HIDE DEF flat
    <2> QED BY <1>1, <1>4, <1>5, <2>3, <2>4
<1>6. CASE ~(at > b.start)
    <2>1. flat = st.flat
        BY <1>3, <1>4, <1>6
    <2>2. t <= at
        BY <1>2
    <2>3. Kept(st.flat, P, at)
        BY <2>2, KeptLater
    <2> HIDE DEF flat
    <2> QED BY <1>1, <1>6, <2>1, <2>3
<1> QED BY <1>5, <1>6

\* What is flattened, and what is held.
Flattening == [flat : Seq(Piece), buffer : Seq(Piece)]

\* What is held is let go.
LEMMA FlushTyped ==
    ASSUME NEW st \in Flattening, NEW at \in Nat
    PROVE  FlushBuffer(st, at) \in Flattening
<1> DEFINE f == FlushBuffer(st, at)
<1>1. st.flat \in Seq(Piece) /\ st.buffer \in Seq(Piece)
    BY DEF Flattening
<1>2. CASE st.buffer = << >>
    BY <1>2 DEF FlushBuffer
<1>3. CASE st.buffer # << >>
    <2> DEFINE b == st.buffer[1]
               held == [b EXCEPT !.end = Lesser(b.end, at)]
    <2>1. b \in Piece
        BY <1>1, <1>3, EmptySeq
    <2> HIDE DEF b
    <2>2. Lesser(b.end, at) \in Nat
        BY <2>1, PieceTimes DEF Lesser
    <2>3. held \in Piece
        BY <2>1, <2>2 DEF Piece
    <2> HIDE DEF held
    <2>4. Append(st.flat, held) \in Seq(Piece) /\ << >> \in Seq(Piece)
        BY <1>1, <2>3, EmptySeq
    <2>5. f = [flat |-> IF held.end > held.start THEN Append(st.flat, held) ELSE st.flat, buffer |-> << >>]
        BY <1>3 DEF FlushBuffer, held, b
    <2> HIDE DEF f
    <2>6. f \in Flattening
        BY <1>1, <2>4, <2>5 DEF Flattening
    <2> QED BY <2>6 DEF f
<1> QED BY <1>2, <1>3

\* A segment that is prepared leaves that so, and is held unless it is noise.
LEMMA PrepareTyped ==
    ASSUME NEW st \in Flattening, NEW e \in Piece
    PROVE  LET f == FlushBuffer(st, e.start)
               next == PrepareSegment(st, e)
           IN  /\ next \in Flattening /\ next.flat = f.flat
               /\ next.buffer = IF e.kind = "noise" THEN f.buffer ELSE <<e>>
<1> DEFINE f == FlushBuffer(st, e.start)
<1>1. f \in Flattening
    BY FlushTyped, PieceTimes
<1>2. PrepareSegment(st, e) = IF e.kind = "noise" THEN f ELSE [f EXCEPT !.buffer = <<e>>]
    BY DEF PrepareSegment
<1> HIDE DEF f
<1>3. /\ [f EXCEPT !.buffer = <<e>>] \in Flattening
      /\ [f EXCEPT !.buffer = <<e>>].flat = f.flat /\ [f EXCEPT !.buffer = <<e>>].buffer = <<e>>
    <2>1. <<e>> \in Seq(Piece)
        OBVIOUS
    <2> QED BY <1>1, <2>1 DEF Flattening
<1>4. /\ PrepareSegment(st, e) \in Flattening /\ PrepareSegment(st, e).flat = f.flat
      /\ PrepareSegment(st, e).buffer = IF e.kind = "noise" THEN f.buffer ELSE <<e>>
    BY <1>1, <1>2, <1>3
<1> QED BY <1>4 DEF f

\* What is flattened after every segment.
NoText == [flat |-> << >>, buffer |-> << >>]
IsFlattening(at, s) ==
    /\ at \in [0 .. Len(s) -> Flattening]
    /\ at[0] = NoText
    /\ \A k \in 1 .. Len(s) : at[k] = PrepareSegment(at[k - 1], s[k])

\* At the end what is held is kept as it is.
FlatOf(st) == FlushBuffer(st, IF st.buffer = << >> THEN 0 ELSE st.buffer[1].end).flat

\* Flattening goes through the segments.
LEMMA FlattenedIsFold ==
    ASSUME NEW s \in Seq(Piece)
    PROVE  \E at : IsFlattening(at, s) /\ Flattened(s) = FlatOf(at[Len(s)])
<1> DEFINE n == Len(s)
           V == Flattening
           step == [k \in 1 .. n |-> [c \in V |-> PrepareSegment(c, s[k])]]
           Body(g) == [u \in SUBSET DOMAIN s |->
                          IF u = {} THEN NoText
                          ELSE LET x == Max(u) IN PrepareSegment(g[u \ {x}], s[x])]
           iter == CHOOSE g : g = Body(g)
<1>1. n \in Nat /\ DOMAIN s = 1 .. n /\ \A k \in 1 .. n : s[k] \in Piece
    OBVIOUS
<1>2. Flattened(s) = FlatOf(iter[1 .. n])
    <2>1. Flattened(s) = FlatOf(iter[DOMAIN s])
        BY Zenon DEF Flattened, FoldLeft, MapThenFoldSet, FlatOf, NoText
    <2> HIDE DEF iter, n
    <2> QED BY <1>1, <2>1
<1>3. step \in [1 .. n -> [V -> V]] /\ NoText \in V
    BY <1>1, PrepareTyped, EmptySeq DEF NoText, Flattening
<1>4. \A k \in 1 .. n, c \in V : step[k][c] = PrepareSegment(c, s[k])
    OBVIOUS
<1> HIDE DEF step, V
<1>5. \E g : g = Body(g)
    <2>1. PICK g : Given(g, NoText, step, n, V)
        BY <1>1, <1>3, FoldGiven
    <2>2. \A u \in SUBSET (1 .. n) : u # {} => g[u] = PrepareSegment(g[u \ {Max(u)}], s[Max(u)])
        BY <1>4, <2>1 DEF Given
    <2>3. g = Body(g)
        BY <1>1, <2>1, <2>2 DEF Given
    <2> QED BY <2>3
<1>6. iter = Body(iter)
    BY <1>5
<1>7. iter[{}] = NoText /\ \A u \in SUBSET (1 .. n) : u # {} => iter[u] = PrepareSegment(iter[u \ {Max(u)}], s[Max(u)])
    BY <1>1, <1>6
<1> HIDE DEF iter, n
<1>8. Folds(iter, NoText, step, n, V)
    BY <1>1, <1>4, <1>7, GreatestPosition DEF Folds
<1>9. PICK at : Values(at, NoText, step, n, V) /\ at[n] = iter[1 .. n]
    BY <1>1, <1>3, <1>8, FoldValues
<1>10. ASSUME NEW k \in 1 .. n PROVE at[k] = PrepareSegment(at[k - 1], s[k])
    <2>1. k - 1 \in 0 .. n
        BY <1>1
    <2> QED BY <1>4, <1>9, <2>1 DEF Values
<1>11. IsFlattening(at, s)
    BY <1>9, <1>10 DEF IsFlattening, Values, V, n
<1> QED BY <1>2, <1>9, <1>11 DEF n

\* What is heard of them.
HeardOf(s) == {k \in 1 .. Len(s) :
                  /\ s[k].kind # "noise"
                  /\ k < Len(s) => s[k + 1].start > s[k].start}

\* What is heard of the segments before one of them.
HeardBefore(s, i) == {k \in 1 .. i - 1 : s[k].kind # "noise" /\ s[k + 1].start > s[k].start}

\* When a segment was prepared: it is held, and what was heard before it is kept.
PreparedTo(st, s, i) ==
    /\ st \in Flattening
    /\ i = 0 => st = NoText
    /\ i # 0 =>
         /\ st.buffer = IF s[i].kind = "noise" THEN << >> ELSE <<s[i]>>
         /\ Kept(st.flat, HeardBefore(s, i), s[i].start)

\* One more place is heard, or none.
LEMMA HeardNext ==
    ASSUME NEW s, Track(s), NEW i \in Nat \ {0}, i + 1 <= Len(s)
    PROVE  HeardBefore(s, i + 1) = IF s[i].kind # "noise" /\ s[i + 1].start > s[i].start
                                   THEN HeardBefore(s, i) \cup {i} ELSE HeardBefore(s, i)
<1> DEFINE Is(k) == s[k].kind # "noise" /\ s[k + 1].start > s[k].start
<1>1. HeardBefore(s, i + 1) = {k \in 1 .. i : Is(k)}
    BY DEF HeardBefore
<1>2. HeardBefore(s, i) = {k \in 1 .. i - 1 : Is(k)}
    BY DEF HeardBefore
<1>3. \A k : k \in 1 .. i <=> k \in 1 .. i - 1 \/ k = i
    OBVIOUS
<1>4. (s[i].kind # "noise" /\ s[i + 1].start > s[i].start) <=> Is(i)
    OBVIOUS
<1> HIDE DEF Is
<1> QED BY <1>1, <1>2, <1>3, <1>4

\* The next segment is prepared.
LEMMA PreparedNext ==
    ASSUME NEW s, Track(s), NEW i \in Nat, i + 1 <= Len(s), NEW st, PreparedTo(st, s, i)
    PROVE  PreparedTo(PrepareSegment(st, s[i + 1]), s, i + 1)
<1> DEFINE e == s[i + 1]
           f == FlushBuffer(st, e.start)
<1>1. s \in Seq(Piece) /\ Len(s) \in Nat /\ i + 1 \in 1 .. Len(s)
    BY DEF Track
<1>2. e \in Piece /\ e.start \in Nat
    BY <1>1, PieceTimes
<1>3. f.buffer = << >> /\ Kept(f.flat, HeardBefore(s, i + 1), e.start)
    <2>1. CASE i = 0
        <3>1. st = NoText
            BY <2>1 DEF PreparedTo
        <3>2. f = NoText
            BY <3>1 DEF FlushBuffer, NoText
        <3>3. HeardBefore(s, i + 1) = {}
            BY <2>1 DEF HeardBefore
        <3> HIDE DEF f
        <3> QED BY <3>2, <3>3, KeptNothing DEF NoText
    <2>2. CASE i # 0
        <3> DEFINE b == s[i]
                   P == HeardBefore(s, i)
        <3>1. i \in 1 .. Len(s) /\ i \in Nat \ {0}
            BY <1>1, <2>2
        <3>2. b \in Piece /\ b.start \in Nat /\ b.end \in Nat
            BY <1>1, <3>1, PieceTimes
        <3>3. b.place = i /\ b.start < b.end /\ b.start <= e.start
            BY <1>1, <3>1 DEF Track
        <3>4. st.buffer = (IF b.kind = "noise" THEN << >> ELSE <<b>>) /\ Kept(st.flat, P, b.start)
            BY <2>2 DEF PreparedTo
        <3>5. HeardBefore(s, i + 1) = IF b.kind # "noise" /\ e.start > b.start THEN P \cup {i} ELSE P
            BY <3>1, HeardNext
        <3>6. \A x \in P : x < i
            BY <3>1 DEF HeardBefore
        <3> HIDE DEF b, P, e
        <3>7. CASE b.kind = "noise"
            <4>1. f = st /\ st.buffer = << >>
                BY <3>4, <3>7 DEF FlushBuffer
            <4>2. Kept(st.flat, P, e.start)
                BY <1>2, <3>2, <3>3, <3>4, KeptLater
            <4>3. HeardBefore(s, i + 1) = P
                BY <3>5, <3>7
            <4> HIDE DEF f
            <4> QED BY <4>1, <4>2, <4>3
        <3>8. CASE b.kind # "noise"
            <4>1. st.buffer = <<b>>
                BY <3>4, <3>8
            <4>2. \A x \in P : x < b.place
                BY <3>3, <3>6
            <4>3. b.start <= b.start
                BY <3>2
            <4>4. /\ f.buffer = << >>
                  /\ Kept(f.flat, IF e.start > b.start THEN P \cup {b.place} ELSE P, e.start)
                BY <1>2, <3>2, <3>3, <3>4, <4>1, <4>2, <4>3, FlushIs
            <4>5. HeardBefore(s, i + 1) = IF e.start > b.start THEN P \cup {b.place} ELSE P
                BY <3>3, <3>5, <3>8
            <4> HIDE DEF f
            <4> QED BY <4>4, <4>5
        <3> QED BY <3>7, <3>8
    <2> QED BY <2>1, <2>2
<1>4. st \in Flattening
    BY DEF PreparedTo
<1> DEFINE next == PrepareSegment(st, e)
<1>5. /\ next \in Flattening /\ next.flat = f.flat
      /\ next.buffer = IF e.kind = "noise" THEN f.buffer ELSE <<e>>
    BY <1>2, <1>4, PrepareTyped
<1>6. i + 1 # 0
    OBVIOUS
<1> HIDE DEF next, f
<1>7. /\ next.buffer = IF e.kind = "noise" THEN << >> ELSE <<e>>
      /\ Kept(next.flat, HeardBefore(s, i + 1), e.start)
    BY <1>3, <1>5
<1>8. PreparedTo(next, s, i + 1)
    BY <1>5, <1>6, <1>7 DEF PreparedTo
<1> QED BY <1>8 DEF next

\* Of a track the flattened text keeps what is heard.
LEMMA FlattenedKept ==
    ASSUME NEW s, Track(s)
    PROVE  \E t \in Nat : Kept(Flattened(s), HeardOf(s), t)
<1> DEFINE n == Len(s)
<1>1. s \in Seq(Piece) /\ n \in Nat
    BY DEF Track
<1>2. PICK at : IsFlattening(at, s) /\ Flattened(s) = FlatOf(at[n])
    BY <1>1, FlattenedIsFold
<1>3. at[0] = NoText /\ \A k \in 1 .. n : at[k] = PrepareSegment(at[k - 1], s[k])
    BY <1>2 DEF IsFlattening
<1> DEFINE T == {k \in 0 .. n : PreparedTo(at[k], s, k)}
<1>4. 0 \in T
    <2>1. 0 \in 0 .. n
        BY <1>1
    <2>2. NoText \in Flattening
        BY EmptySeq DEF NoText, Flattening
    <2> QED BY <1>3, <2>1, <2>2 DEF PreparedTo
<1>5. ASSUME NEW k \in 0 .. n - 1, k \in T PROVE k + 1 \in T
    <2>1. k + 1 \in 1 .. n /\ k + 1 \in 0 .. n /\ (k + 1) - 1 = k /\ k \in Nat /\ k + 1 <= n
        BY <1>1
    <2>2. at[k + 1] = PrepareSegment(at[k], s[k + 1])
        BY <1>3, <2>1
    <2>3. PreparedTo(at[k + 1], s, k + 1)
        BY <1>5, <2>1, <2>2, PreparedNext
    <2> QED BY <2>1, <2>3
<1> HIDE DEF T
<1>6. \A k \in 0 .. n : k \in T
    BY <1>1, <1>4, <1>5, UpToBound
<1> DEFINE st == at[n]
<1>7. PreparedTo(st, s, n) /\ Flattened(s) = FlatOf(st)
    BY <1>1, <1>2, <1>6 DEF T
<1> HIDE DEF st
<1>8. CASE n = 0
    <2>1. st = NoText
        BY <1>7, <1>8 DEF PreparedTo
    <2>2. Flattened(s) = << >>
        BY <1>7, <2>1 DEF FlatOf, FlushBuffer, NoText
    <2>3. HeardOf(s) = {}
        BY <1>8 DEF HeardOf
    <2>4. Kept(Flattened(s), HeardOf(s), 0)
        BY <2>2, <2>3, KeptNothing
    <2> QED BY <2>4
<1>9. CASE n # 0
    <2> DEFINE b == s[n]
               P == HeardBefore(s, n)
    <2>1. n \in 1 .. n /\ n \in Nat \ {0}
        BY <1>1, <1>9
    <2>2. b \in Piece /\ b.start \in Nat /\ b.end \in Nat
        BY <1>1, <2>1, PieceTimes
    <2>3. b.place = n /\ b.start < b.end
        BY <2>1 DEF Track
    <2>4. st.buffer = (IF b.kind = "noise" THEN << >> ELSE <<b>>) /\ Kept(st.flat, P, b.start)
        BY <1>7, <1>9 DEF PreparedTo
    <2>5. HeardOf(s) = IF b.kind # "noise" THEN P \cup {n} ELSE P
        <3> DEFINE Is(k) == s[k].kind # "noise" /\ s[k + 1].start > s[k].start
        <3>1. P = {k \in 1 .. n - 1 : Is(k)}
            BY DEF HeardBefore
        <3>2. \A k : k \in 1 .. n <=> k \in 1 .. n - 1 \/ k = n
            BY <2>1
        <3>3. \A k \in 1 .. n - 1 : k \in HeardOf(s) <=> Is(k)
            BY <1>1 DEF HeardOf
        <3>4. n \in HeardOf(s) <=> b.kind # "noise"
            BY <2>1 DEF HeardOf
        <3>5. HeardOf(s) \subseteq 1 .. n
            BY DEF HeardOf
        <3> HIDE DEF Is, P, b, n
        <3> QED BY <3>1, <3>2, <3>3, <3>4, <3>5
    <2>6. \A x \in P : x < b.place
        BY <2>1, <2>3 DEF HeardBefore
    <2> HIDE DEF b, P
    <2>7. CASE b.kind = "noise"
        <3>1. Flattened(s) = st.flat
            BY <1>7, <2>4, <2>7 DEF FlatOf, FlushBuffer
        <3> QED BY <2>2, <2>4, <2>5, <2>7, <3>1
    <2>8. CASE b.kind # "noise"
        <3>1. st.buffer = <<b>>
            BY <2>4, <2>8
        <3>2. Flattened(s) = FlushBuffer(st, b.end).flat
            BY <1>7, <3>1 DEF FlatOf
        <3>3. b.start <= b.start /\ b.start <= b.end /\ b.end > b.start
            BY <2>2, <2>3
        <3>4. Kept(FlushBuffer(st, b.end).flat, IF b.end > b.start THEN P \cup {b.place} ELSE P, b.end)
            BY <2>2, <2>3, <2>4, <2>6, <3>1, <3>3, FlushIs
        <3>5. Kept(Flattened(s), HeardOf(s), b.end)
            BY <2>3, <2>5, <2>8, <3>2, <3>3, <3>4
        <3> QED BY <2>2, <3>5
    <2> QED BY <2>7, <2>8
<1> QED BY <1>8, <1>9

-----------------------------------------------------------------------------
(* The segmentation of every track. *)

\* A track, as it is built.
SegmentInv ==
    /\ Track(transcript)
    /\ style \in {"none", "rule", "lines", "statistical"}
    /\ style = "none" => transcript = << >>
    /\ style = "statistical" => transcript # << >>

\* There is no segment at first.
LEMMA FirstTrack == SegmentInit => SegmentInv
<1>1. << >> \in Seq(Piece) /\ Len(<< >>) = 0 /\ 1 .. 0 = {}
    BY EmptySeq
<1> QED BY <1>1 DEF SegmentInit, SegmentInv, Track

\* What a segment is that is added to a track.
LEMMA SegmentAdded ==
    ASSUME NEW s, Track(s), NEW e \in Piece, e.place = Len(s) + 1, e.start < e.end,
           s # << >> => Last(s).start <= e.start
    PROVE  Track(Append(s, e))
<1> DEFINE n == Len(s)
           r == Append(s, e)
<1>1. s \in Seq(Piece) /\ n \in Nat
    BY DEF Track
<1>2. r \in Seq(Piece) /\ Len(r) = n + 1 /\ r[n + 1] = e /\ \A k \in 1 .. n : r[k] = s[k]
    BY <1>1, AppendProperties
<1>3. \A k \in 1 .. n : s[k].start \in Nat /\ s[k].end \in Nat /\ s[k].place = k /\ s[k].start < s[k].end
    BY <1>1, PieceTimes DEF Track
<1>4. e.start \in Nat /\ e.end \in Nat
    BY PieceTimes
<1>5. \A k \in 1 .. n + 1 : k \in 1 .. n \/ k = n + 1
    BY <1>1
<1>6. s # << >> => n \in 1 .. n /\ Last(s) = s[n]
    BY <1>1, EmptySeq DEF Last
<1>7. \A k \in 1 .. n : s[k].start <= e.start
    <2> SUFFICES ASSUME NEW k \in 1 .. n PROVE s[k].start <= e.start
        OBVIOUS
    <2>1. s # << >> /\ n \in 1 .. n
        BY <1>1, EmptySeq
    <2>2. s[n].start <= e.start
        BY <1>6, <2>1
    <2>3. k = n \/ k < n
        BY <1>1
    <2>4. k < n => s[k].start <= s[n].start
        BY <2>1 DEF Track
    <2> QED BY <1>3, <1>4, <2>1, <2>2, <2>3, <2>4
<1>8. \A j, k \in 1 .. n : j < k => s[j].start <= s[k].start
    BY DEF Track
<1>9. e.place = n + 1
    OBVIOUS
<1> HIDE DEF r, n
<1>10. ASSUME NEW k \in 1 .. n + 1 PROVE r[k].place = k /\ r[k].start < r[k].end
    BY <1>2, <1>3, <1>5, <1>9
<1>11. ASSUME NEW j \in 1 .. n + 1, NEW k \in 1 .. n + 1, j < k PROVE r[j].start <= r[k].start
    <2>1. j \in 1 .. n /\ r[j] = s[j]
        BY <1>1, <1>2, <1>11
    <2>2. CASE k \in 1 .. n
        BY <1>2, <1>8, <1>11, <2>1, <2>2
    <2>3. CASE k = n + 1
        BY <1>2, <1>7, <2>1, <2>3
    <2> QED BY <1>5, <2>2, <2>3
<1> QED BY <1>2, <1>10, <1>11 DEF Track, r

\* A track stays one.
LEMMA TrackGrows == SegmentInv /\ [SegmentStep]_segmentVars => SegmentInv'
<1> SUFFICES ASSUME SegmentInv, [SegmentStep]_segmentVars PROVE SegmentInv'
    OBVIOUS
<1>1. CASE SegmentStep
    <2>1. PICK s \in DOMAIN Kinds, lead \in Leads, last \in Lasts, high \in BOOLEAN :
              \E k \in Kinds[s] : AddSegment(s, lead, last, k, high)
        BY <1>1 DEF SegmentStep
    <2>2. PICK kind \in Kinds[s] : AddSegment(s, lead, last, kind, high)
        BY <2>1
    <2> DEFINE e == [place |-> Len(transcript) + 1, start |-> NextStart(lead), end |-> NextStart(lead) + last,
                     kind |-> kind, high |-> high]
    <2>3. style' = s /\ transcript' = Append(transcript, e)
        BY <2>2 DEF AddSegment
    <2>4. lead \in Nat /\ last \in Nat \ {0}
        BY SegmentsOK
    <2>5. s \in {"rule", "lines", "statistical"} /\ kind \in {"word", "stop", "noise", "arrow"}
        <3>1. DOMAIN Kinds = {"rule", "lines", "statistical"}
            BY DEF Kinds
        <3>2. Kinds["rule"] = {"word", "stop", "noise"} /\ Kinds["lines"] = {"word", "stop"}
              /\ Kinds["statistical"] = {"word", "stop", "arrow"}
            BY DEF Kinds
        <3> QED BY <3>1, <3>2
    <2>6. transcript \in Seq(Piece) /\ Len(transcript) \in Nat
        BY DEF SegmentInv, Track
    <2>7. NextStart(lead) \in Nat /\ (transcript # << >> => Last(transcript).start <= NextStart(lead))
        <3>1. CASE transcript = << >>
            BY <3>1 DEF NextStart
        <3>2. CASE transcript # << >>
            <4>1. Last(transcript) \in Piece
                BY <2>6, <3>2, EmptySeq DEF Last
            <4>2. Last(transcript).start \in Nat
                BY <4>1, PieceTimes
            <4> QED BY <2>4, <3>2, <4>2 DEF NextStart
        <3> QED BY <3>1, <3>2
    <2>8. e \in Piece /\ e.place = Len(transcript) + 1 /\ e.start = NextStart(lead) /\ e.start < e.end
        BY <2>4, <2>5, <2>6, <2>7 DEF Piece
    <2> HIDE DEF e
    <2>9. Track(transcript')
        BY <2>3, <2>7, <2>8, SegmentAdded DEF SegmentInv
    <2>10. transcript' # << >>
        BY <2>3, <2>6, <2>8
    <2>11. style' \in {"none", "rule", "lines", "statistical"} /\ style' # "none"
        BY <2>3, <2>5
    <2> QED BY <2>9, <2>10, <2>11 DEF SegmentInv
<1>2. CASE UNCHANGED segmentVars
    BY <1>2 DEF SegmentInv, segmentVars
<1> QED BY <1>1, <1>2

\* What is kept is kept in the cues, when the cues join to it.
LEMMA KeptIsHeard ==
    ASSUME NEW t, Kept(FlattenSeq(CueWords), HeardOf(transcript), t), transcript \in Seq(Piece)
    PROVE  AllHeard
<1> DEFINE all == FlattenSeq(CueWords)
<1>1. all \in Seq(Piece) /\ DOMAIN all = 1 .. Len(all) /\ Len(all) \in Nat
    BY DEF Kept, Timely
<1>2. Heard = HeardOf(transcript)
    BY DEF Heard, HeardOf
<1>3. {all[k].place : k \in DOMAIN all} = Heard
    BY <1>1, <1>2 DEF Kept
<1>4. ASSUME NEW k \in 1 .. Len(all) - 1
      PROVE  all[k].place < all[k + 1].place /\ all[k].end <= all[k + 1].start
    <2>1. k \in 1 .. Len(all) /\ k + 1 \in 1 .. Len(all) /\ k < k + 1
        BY <1>1
    <2> QED BY <2>1 DEF Kept, Timely
<1> HIDE DEF all
<1>5. /\ {all[k].place : k \in DOMAIN all} = Heard
      /\ \A k \in 1 .. Len(all) - 1 : all[k].place < all[k + 1].place /\ all[k].end <= all[k + 1].start
    BY <1>3, <1>4
<1> QED BY <1>5 DEF AllHeard, all

\* What rules and lines make says what is heard.
LEMMA RulesKeep ==
    ASSUME SegmentInv, style # "statistical"
    PROVE  AllHeard
<1>1. Track(transcript) /\ transcript \in Seq(Piece)
    BY DEF SegmentInv, Track
<1>2. PICK t \in Nat : Kept(Flattened(transcript), HeardOf(transcript), t)
    BY <1>1, FlattenedKept
<1>3. Timely(Flattened(transcript)) /\ Flattened(transcript) \in Seq(Piece)
    BY <1>2 DEF Kept, Timely
<1>4. \E u : Kept(FlattenSeq(CueWords), HeardOf(transcript), u)
    <2>1. CASE style = "none"
        <3>1. CueWords = << >> /\ transcript = << >>
            BY <2>1 DEF CueWords, SegmentInv
        <3>2. FlattenSeq(CueWords) = << >>
            BY <3>1, FlatEmpty
        <3>3. HeardOf(transcript) = {}
            BY <3>1, EmptySeq DEF HeardOf
        <3> QED BY <3>2, <3>3, KeptNothing
    <2>2. CASE style = "rule"
        <3>1. CueWords = FormatSubtitles(Flattened(transcript))
            BY <2>2 DEF CueWords
        <3> QED BY <1>2, <1>3, <3>1, FormatJoins
    <2>3. CASE style = "lines"
        <3>1. CueWords = Lines(Flattened(transcript))
            BY <2>3 DEF CueWords
        <3> QED BY <1>2, <1>3, <3>1, LinesJoin
    <2> QED BY <2>1, <2>2, <2>3 DEF SegmentInv
<1> QED BY <1>1, <1>4, KeptIsHeard

\* TimedCues that are cut where the next one starts do not overlap.
LEMMA CuesApart ==
    ASSUME NEW texts \in Groups(Piece)
    PROVE  LET cues == FixOverlaps([k \in DOMAIN texts |-> TimedCue(texts[k])]) IN
           \A k \in 1 .. Len(cues) - 1 : cues[k].end <= cues[k + 1].start
<1> DEFINE n == Len(texts)
           cs == [k \in DOMAIN texts |-> TimedCue(texts[k])]
           cues == FixOverlaps(cs)
<1>1. n \in Nat /\ DOMAIN texts = 1 .. n /\ \A k \in 1 .. n : texts[k] \in Seq(Piece) \ {<< >>}
    BY DEF Groups
<1>2. DOMAIN cs = 1 .. n /\ \A k \in 1 .. n : cs[k] = TimedCue(texts[k])
    BY <1>1
<1>3. ASSUME NEW k \in 1 .. n
      PROVE  cs[k] = [start |-> texts[k][1].start, end |-> Last(texts[k]).end]
             /\ cs[k].start \in Nat /\ cs[k].end \in Nat
    <2>1. texts[k][1] \in Piece /\ Last(texts[k]) \in Piece
        BY <1>1, EmptySeq DEF Last
    <2>2. texts[k][1].start \in Nat /\ Last(texts[k]).end \in Nat
        BY <2>1, PieceTimes
    <2>3. cs[k] = [start |-> texts[k][1].start, end |-> Last(texts[k]).end]
        BY <1>2 DEF TimedCue
    <2> HIDE DEF cs
    <2> QED BY <2>2, <2>3
<1>4. Len(cs) = n
    BY <1>1, <1>2
<1> HIDE DEF cs, n
<1>5. DOMAIN cues = 1 .. n /\ \A k \in 1 .. n :
          cues[k] = IF k < n THEN [cs[k] EXCEPT !.end = Lesser(cs[k].end, cs[k + 1].start)] ELSE cs[k]
    BY <1>2, <1>4 DEF FixOverlaps
<1>6. Len(cues) = n
    BY <1>1, <1>5
<1> HIDE DEF cues
<1>7. ASSUME NEW k \in 1 .. n - 1 PROVE cues[k].end <= cues[k + 1].start
    <2>1. k \in 1 .. n /\ k + 1 \in 1 .. n /\ k < n
        BY <1>1
    <2>2. cues[k] = [cs[k] EXCEPT !.end = Lesser(cs[k].end, cs[k + 1].start)]
        BY <1>5, <2>1
    <2>3. cues[k].end = Lesser(cs[k].end, cs[k + 1].start)
        BY <1>3, <2>1, <2>2
    <2>4. cues[k + 1].start = cs[k + 1].start
        <3>1. \/ cues[k + 1] = cs[k + 1]
              \/ cues[k + 1] = [cs[k + 1] EXCEPT !.end = Lesser(cs[k + 1].end, cs[(k + 1) + 1].start)]
            BY <1>5, <2>1
        <3> QED BY <1>3, <2>1, <3>1
    <2>5. cs[k].end \in Nat /\ cs[k + 1].start \in Nat
        BY <1>3, <2>1
    <2> QED BY <2>3, <2>4, <2>5 DEF Lesser
<1> QED BY <1>6, <1>7 DEF cues, cs, n

\* What statistics make says the words, but for what overlaps.
LEMMA StatisticsKeep ==
    ASSUME SegmentInv, style = "statistical"
    PROVE  AllSaid
<1> DEFINE bs == MergeShortSentences(transcript, FindBoundaries(transcript))
           all == FlattenSeq(CueWords)
           n == Len(transcript)
<1>1. Track(transcript) /\ transcript \in Seq(Piece) /\ transcript # << >> /\ n \in Nat /\ DOMAIN transcript = 1 .. n
    BY DEF SegmentInv, Track
<1>2. CueWords = BuildSentences(transcript, bs)
    BY DEF CueWords
<1>3. n - 1 \in Nat
    BY <1>1, EmptySeq
<1>4. IsBounds(FindBoundaries(transcript), n - 1)
    BY <1>1, BoundariesFound
<1>5. IsBounds(bs, n - 1)
    BY <1>3, <1>4, BoundariesMerged
<1> HIDE DEF bs
<1>6. CueWords \in Groups(Piece) /\ SaysAll(all, transcript)
    BY <1>1, <1>2, <1>5, BuildSays
<1>7. TimedCues = FixOverlaps([k \in DOMAIN CueWords |-> TimedCue(CueWords[k])])
    BY DEF TimedCues
<1>8. \A k \in 1 .. Len(TimedCues) - 1 : TimedCues[k].end <= TimedCues[k + 1].start
    BY <1>6, <1>7, CuesApart
<1>9. DOMAIN all = 1 .. Len(all)
    BY <1>6 DEF SaysAll
<1> HIDE DEF all
<1>10. \A k \in 1 .. n : transcript[k].place = k
    BY <1>1 DEF Track
<1>11. \A k : Outlasting(k) <=> OutlastingIn(transcript, k)
    BY <1>1 DEF Outlasting, OutlastingIn
<1>12. \A k : Shadowed(k) <=> ShadowedIn(transcript, k)
    BY <1>1 DEF Shadowed, ShadowedIn
<1>13. \A k \in DOMAIN transcript : Outlasting(k) \/ \E i \in DOMAIN all : all[i].place = k
    BY <1>1, <1>6, <1>9, <1>10, <1>11 DEF SaysAll
<1>14. \A i, j \in DOMAIN all :
          i < j /\ ~Shadowed(all[i].place) /\ ~Shadowed(all[j].place) => all[i].place < all[j].place
    BY <1>6, <1>9, <1>12 DEF SaysAll
<1> QED BY <1>8, <1>13, <1>14 DEF AllSaid, all

\* So every cue text says what the track says.
LEMMA TextIsKept == SegmentInv => TextKept
BY RulesKeep, StatisticsKeep DEF TextKept

(* In every track, whatever its times, stops, noises and scores and whatever the
   limits on pauses, groups, lines and sentences are: by rules and in lines every
   segment that is heard is said once and in order; by statistics a word is lost
   only when a later one ends before it, and repeated or moved only when one in
   front of it lasts as long or a later one starts with it; and cues do not
   overlap (TextKept). *)
THEOREM WordsAreKept == SegmentSpec => []TextKept
<1>1. SegmentSpec => []SegmentInv
    BY FirstTrack, TrackGrows, PTL DEF SegmentSpec
<1> QED BY <1>1, TextIsKept, PTL
=============================================================================
