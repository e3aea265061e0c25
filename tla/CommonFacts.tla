---------------------------- MODULE CommonFacts ----------------------------
(***************************************************************************)
(* Facts about numbers and lists that the proofs of several components     *)
(* need, and of the operators of Lists.                                    *)
(* What would be an induction is an argument by the least counterexample.  *)
(***************************************************************************)
EXTENDS Lists, FiniteSetTheorems, SequenceTheorems, WellFoundedInduction, TLAPS

\* A set of numbers has a least one.
LEMMA LeastIndex ==
    ASSUME NEW T \in SUBSET Nat, T # {}
    PROVE  \E c \in T : \A y \in T : c <= y
  <1> DEFINE upTo(i) == {j \in T : j <= i}
             F == {upTo(i) : i \in T}
             R == StrictSubsetOrdering(Nat)
  <1>1. ASSUME NEW i \in T PROVE upTo(i) \in FiniteSubsetsOf(Nat)
    <2>0. i \in Nat /\ \A j \in T : j \in Nat
      OBVIOUS
    <2>1. \A j \in upTo(i) : j \in 0 .. i /\ j \in Nat
      BY <2>0
    <2>2. IsFiniteSet(0 .. i)
      BY FS_Interval
    <2> QED
      BY <2>1, <2>2, FS_Subset DEF FiniteSubsetsOf
  <1>2. F \subseteq FiniteSubsetsOf(Nat) /\ F # {}
    BY <1>1
  <1>3. IsWellFoundedOn(R, FiniteSubsetsOf(Nat))
    BY FS_StrictSubsetOrderingWellFounded
  <1>4. PICK X \in F : \A Y \in F : ~(<<Y, X>> \in R)
    <2> HIDE DEF F, R
    <2> QED
      BY <1>2, <1>3, WFMin
  <1>5. PICK c \in T : X = upTo(c)
    OBVIOUS
  <1>6. ASSUME NEW y \in T, y < c PROVE FALSE
    <2>0. \A j \in T : j \in Nat
      OBVIOUS
    <2>1. y \in Nat /\ c \in Nat /\ c \in upTo(c) /\ c \notin upTo(y)
      BY <1>6, <2>0
    <2>2. upTo(y) \subseteq upTo(c)
      <3>1. \A j \in Nat : j <= y => j <= c
        BY <1>6, <2>1
      <3> QED
        BY <2>0, <3>1
    <2>3. upTo(y) \in SUBSET Nat /\ upTo(c) \in SUBSET Nat
      OBVIOUS
    <2>4. <<upTo(y), X>> \in R
      BY <1>5, <2>1, <2>2, <2>3 DEF StrictSubsetOrdering
    <2> QED
      BY <1>4, <2>4
  <1> QED
    BY <1>6

\* A set of the numbers up to n that has 0, and with each number the next one,
\* has them all.
LEMMA UpTo ==
    ASSUME NEW n \in Nat, NEW T, 0 \in T,
           \A k \in 0 .. n - 1 : k \in T => k + 1 \in T
    PROVE  \A k \in 0 .. n : k \in T
  <1> DEFINE out == {k \in 0 .. n : k \notin T}
  <1>1. CASE out = {}
    BY <1>1
  <1>2. CASE out # {}
    <2>1. out \in SUBSET Nat
      OBVIOUS
    <2>2. PICK c \in out : \A y \in out : c <= y
      <3> HIDE DEF out
      <3> QED
        BY <1>2, <2>1, LeastIndex
    <2>3. c \in 0 .. n /\ c \notin T
      OBVIOUS
    <2>4. c # 0
      BY <2>3
    <2>5. c - 1 \in 0 .. n - 1 /\ c - 1 \in 0 .. n /\ c - 1 + 1 = c /\ ~(c <= c - 1)
      BY <2>3, <2>4
    <2>6. c - 1 \notin out
      <3> HIDE DEF out
      <3> QED
        BY <2>2, <2>5
    <2>7. c - 1 \in T
      BY <2>5, <2>6
    <2>8. c - 1 + 1 \in T
      BY <2>5, <2>7
    <2> QED
      BY <2>3, <2>5, <2>8
  <1> QED
    BY <1>1, <1>2

\* f begins with a and goes on by the steps.
Follows(f, n, S, a, step) ==
    /\ f \in [0 .. n -> S]
    /\ f[0] = a
    /\ \A k \in 1 .. n : f[k] = step[k][f[k - 1]]

\* A function over 0 .. n can be defined from its value at 0 and from each
\* value the next one.
LEMMA StepByStep ==
    ASSUME NEW n \in Nat, NEW S, NEW a \in S, NEW step \in [1 .. n -> [S -> S]]
    PROVE  \E f : Follows(f, n, S, a, step)
  <1> DEFINE To(m) == \E f \in [0 .. m -> S] :
                         f[0] = a /\ \A k \in 1 .. m : f[k] = step[k][f[k - 1]]
             T == {m \in 0 .. n : To(m)}
  <1>1. 0 \in T
    <2> DEFINE g == [i \in 0 .. 0 |-> a]
    <2>1. g \in [0 .. 0 -> S] /\ g[0] = a
      OBVIOUS
    <2>2. \A k \in 1 .. 0 : g[k] = step[k][g[k - 1]]
      OBVIOUS
    <2>3. To(0)
      <3> HIDE DEF g
      <3> QED
        BY <2>1, <2>2
    <2> HIDE DEF To
    <2> QED
      BY <2>3
  <1>2. ASSUME NEW m \in 0 .. n - 1, m \in T PROVE m + 1 \in T
    <2>1. PICK f \in [0 .. m -> S] :
             f[0] = a /\ \A k \in 1 .. m : f[k] = step[k][f[k - 1]]
      BY <1>2
    <2>2. m \in Nat /\ m + 1 \in 1 .. n /\ m + 1 \in 0 .. n /\ m \in 0 .. m /\ m + 1 - 1 = m
      OBVIOUS
    <2>3. f[m] \in S
      BY <2>2
    <2>4. step[m + 1][f[m]] \in S
      BY <2>2, <2>3
    <2> DEFINE g == [k \in 0 .. m + 1 |-> IF k = m + 1 THEN step[m + 1][f[m]] ELSE f[k]]
    <2>5. g \in [0 .. m + 1 -> S]
      BY <2>2, <2>4
    <2>6. g[0] = a
      BY <2>1, <2>2
    <2>7. ASSUME NEW k \in 1 .. m + 1 PROVE g[k] = step[k][g[k - 1]]
      <3>1. k - 1 \in 0 .. m /\ k - 1 # m + 1 /\ k \in 0 .. m + 1 /\ k - 1 \in 0 .. m + 1
        BY <2>2
      <3>2. g[k - 1] = f[k - 1]
        BY <3>1
      <3>3. CASE k = m + 1
        BY <2>2, <3>2, <3>3
      <3>4. CASE k # m + 1
        <4>1. k \in 1 .. m
          BY <2>2, <3>4
        <4> QED
          BY <2>1, <3>1, <3>2, <3>4, <4>1
      <3> QED
        BY <3>3, <3>4
    <2>8. To(m + 1)
      <3> HIDE DEF g
      <3> QED
        BY <2>5, <2>6, <2>7
    <2> HIDE DEF To
    <2> QED
      BY <2>2, <2>8
  <1>3. \A k \in 0 .. n : k \in T
    <2> HIDE DEF T
    <2> QED
      BY <1>1, <1>2, UpTo
  <1>4. n \in 0 .. n
    OBVIOUS
  <1> QED
    BY <1>3, <1>4 DEF Follows

\* The values of a list of numbers have a largest one.
LEMMA LargestValue ==
    ASSUME NEW n \in Nat \ {0}, NEW f \in [0 .. n - 1 -> Nat]
    PROVE  \E i \in 0 .. n - 1 : \A j \in 0 .. n - 1 : f[j] <= f[i]
  <1> DEFINE Top(k) == \E i \in 0 .. k - 1 : \A j \in 0 .. k - 1 : f[j] <= f[i]
             T == {k \in 1 .. n : ~Top(k)}
  <1>1. CASE T = {}
    <2>1. n \in 1 .. n
      OBVIOUS
    <2> QED
      BY <1>1, <2>1
  <1>2. CASE T # {}
    <2>1. T \in SUBSET Nat
      OBVIOUS
    <2>2. PICK k \in T : \A y \in T : k <= y
      <3> HIDE DEF T
      <3> QED
        BY <1>2, <2>1, LeastIndex
    <2>3. k \in 1 .. n /\ ~Top(k)
      OBVIOUS
    <2>4. Top(1)
      OBVIOUS
    <2>5. k - 1 \in 1 .. n /\ Top(k - 1)
      <3>1. k # 1
        <4> HIDE DEF Top
        <4> QED
          BY <2>3, <2>4
      <3>2. k - 1 \in 1 .. n /\ k - 1 < k
        BY <2>3, <3>1
      <3>3. k - 1 \notin T
        <4> HIDE DEF T
        <4> QED
          BY <2>2, <2>3, <3>2
      <3> HIDE DEF Top
      <3> QED
        BY <3>2, <3>3
    <2>6. PICK i \in 0 .. k - 2 : \A j \in 0 .. k - 2 : f[j] <= f[i]
      BY <2>5
    <2>7. \A j \in 0 .. k - 1 : f[j] \in Nat /\ (j \in 0 .. k - 2 \/ j = k - 1)
      BY <2>3
    <2>8. i \in 0 .. k - 1 /\ k - 1 \in 0 .. k - 1 /\ f[i] \in Nat /\ f[k - 1] \in Nat
      BY <2>5, <2>7
    <2>9. CASE f[k - 1] <= f[i]
      <3>1. \A j \in 0 .. k - 1 : f[j] <= f[i]
        BY <2>6, <2>7, <2>9
      <3> QED
        BY <2>3, <2>8, <3>1
    <2>10. CASE f[i] <= f[k - 1]
      <3>1. ASSUME NEW j \in 0 .. k - 1 PROVE f[j] <= f[k - 1]
        <4>1. CASE j = k - 1
          BY <2>8, <4>1
        <4>2. CASE j \in 0 .. k - 2
          <5>1. f[j] <= f[i] /\ f[j] \in Nat
            BY <2>6, <2>7, <4>2
          <5> QED
            BY <2>8, <2>10, <5>1
        <4> QED
          BY <2>7, <4>1, <4>2
      <3> QED
        BY <2>3, <2>8, <3>1
    <2>11. f[k - 1] <= f[i] \/ f[i] <= f[k - 1]
      BY <2>8
    <2> QED
      BY <2>9, <2>10, <2>11
  <1> QED
    BY <1>1, <1>2

\* What a quotient is, and that it grows with what is divided.
LEMMA Quotient ==
    ASSUME NEW a \in Nat, NEW b \in Nat \ {0}
    PROVE  /\ a \div b \in Nat /\ a % b \in 0 .. b - 1
           /\ a = b * (a \div b) + (a % b)
  OBVIOUS

LEMMA QuotientGrows ==
    ASSUME NEW a \in Nat, NEW c \in Nat, a <= c, NEW b \in Nat \ {0}
    PROVE  a \div b <= c \div b
  OBVIOUS

LEMMA QuotientIs ==
    ASSUME NEW a \in Nat, NEW b \in Nat \ {0}, NEW i \in Nat, b * i <= a, a < b * i + b
    PROVE  a \div b = i
  OBVIOUS

LEMMA QuotientBelow ==
    ASSUME NEW a \in Nat, NEW b \in Nat \ {0}, NEW i \in Nat, a < i * b
    PROVE  a \div b < i
  OBVIOUS

-----------------------------------------------------------------------------
(* Lists *)

\* Subsequence(q, at) lists the elements of q at the indices in at, each once
\* and in order.
LEMMA SubsequenceIsPick ==
    ASSUME NEW S, NEW q \in Seq(S), NEW at \in SUBSET (1 .. Len(q))
    PROVE  /\ Subsequence(q, at) \in Seq(S)
           /\ Len(Subsequence(q, at)) = Cardinality(at)
           /\ Cardinality(at) \in Nat
           /\ \E f \in [1 .. Cardinality(at) -> at] :
                 /\ \A k, l \in 1 .. Cardinality(at) : k < l => f[k] < f[l]
                 /\ \A i \in at : \E k \in 1 .. Cardinality(at) : f[k] = i
                 /\ \A k \in 1 .. Cardinality(at) : Subsequence(q, at)[k] = q[f[k]]
  <1> DEFINE n == Cardinality(at)
             below(i) == {j \in at : j <= i}
             rank == [i \in at |-> Cardinality(below(i))]
             f == [k \in 1 .. n |-> CHOOSE i \in at : Cardinality(below(i)) = k]
  <1>0. Len(q) \in Nat /\ IsFiniteSet(1 .. Len(q)) /\ \A j \in at : j \in Nat
    BY FS_Interval
  <1>1. IsFiniteSet(at) /\ n \in Nat
    BY <1>0, FS_Subset, FS_CardinalityType
  <1>2. ASSUME NEW i \in at
        PROVE  /\ IsFiniteSet(below(i))
               /\ Cardinality(below(i)) \in 1 .. n
    <2>1. below(i) \in SUBSET at
      OBVIOUS
    <2>2. IsFiniteSet(below(i)) /\ Cardinality(below(i)) <= n
      BY <1>1, <2>1, FS_Subset
    <2>3. i \in below(i)
      OBVIOUS
    <2>4. Cardinality(below(i)) \in Nat /\ Cardinality(below(i)) # 0
      BY <2>2, <2>3, FS_CardinalityType, FS_EmptySet
    <2> QED
      BY <1>1, <2>2, <2>4
  <1>3. ASSUME NEW i \in at, NEW j \in at, i < j
        PROVE  rank[i] < rank[j]
    <2>0. i \in Nat /\ j \in Nat
      BY <1>0
    <2>1. j \in below(j) /\ j \notin below(i) /\ below(i) \in SUBSET below(j)
      <3>1. j \in below(j) /\ j \notin below(i)
        BY <1>3, <2>0
      <3>2. \A x \in below(i) : x \in below(j)
        BY <1>0, <1>3, <2>0
      <3> QED
        BY <3>1, <3>2
    <2>2. Cardinality(below(i)) <= Cardinality(below(j))
      BY <1>2, <2>1, FS_Subset
    <2>3. Cardinality(below(i)) # Cardinality(below(j))
      BY <1>2, <2>1, FS_Subset
    <2>4. Cardinality(below(i)) \in Int /\ Cardinality(below(j)) \in Int
      <3>1. Cardinality(below(i)) \in 1 .. n /\ Cardinality(below(j)) \in 1 .. n
        BY <1>2
      <3> QED
        BY <3>1
    <2> QED
      BY <2>2, <2>3, <2>4
  <1>4. rank \in [at -> 1 .. n]
    BY <1>2
  <1>5. rank \in Injection(at, 1 .. n)
    <2>1. \A i, j \in at : rank[i] = rank[j] => i = j
      <3> TAKE i, j \in at
      <3>1. i < j \/ j < i \/ i = j
        OBVIOUS
      <3>2. rank[i] \in Int /\ rank[j] \in Int
        BY <1>4
      <3> HIDE DEF rank
      <3> QED
        BY <1>3, <3>1, <3>2
    <2> HIDE DEF rank
    <2> QED
      BY <1>4, <2>1 DEF Injection, IsInjective
  <1>6. IsFiniteSet(1 .. n) /\ Cardinality(1 .. n) = n
    BY <1>1, FS_Interval
  <1>7. rank \in Surjection(at, 1 .. n)
    <2> HIDE DEF rank
    <2> QED
      BY <1>5, <1>6, FS_Injection
  <1>8. \A k \in 1 .. n : \E i \in at : rank[i] = k
    <2> HIDE DEF rank
    <2> QED
      BY <1>7 DEF Surjection
  <1>9. \A k \in 1 .. n : f[k] \in at /\ rank[f[k]] = k
    BY <1>8
  <1>10. f \in [1 .. n -> at]
    BY <1>9
  <1>11. \A k, l \in 1 .. n : k < l => f[k] < f[l]
    <2> HIDE DEF rank, f
    <2> TAKE k, l \in 1 .. n
    <2>1. f[k] \in at /\ f[l] \in at /\ rank[f[k]] = k /\ rank[f[l]] = l
      BY <1>9
    <2>2. f[l] < f[k] => l < k
      BY <1>3, <2>1
    <2>3. f[k] = f[l] => k = l
      BY <2>1
    <2>4. f[k] \in Nat /\ f[l] \in Nat
      <3> HIDE DEF n
      <3> QED
        BY <1>0, <2>1
    <2> QED
      BY <2>2, <2>3, <2>4
  <1>12. \A i \in at : \E k \in 1 .. n : f[k] = i
    <2> TAKE i \in at
    <2>1. rank[i] \in 1 .. n
      BY <1>4
    <2>2. f[rank[i]] \in at /\ rank[f[rank[i]]] = rank[i]
      BY <1>9, <2>1
    <2>3. f[rank[i]] = i
      <3> HIDE DEF rank, f
      <3> QED
        BY <1>5, <2>2 DEF Injection, IsInjective
    <2> QED
      BY <2>1, <2>3
  <1>13. Subsequence(q, at) = [k \in 1 .. n |-> q[f[k]]]
    BY DEF Subsequence
  <1>14. Subsequence(q, at) \in Seq(S) /\ Len(Subsequence(q, at)) = n
    <2> HIDE DEF f, n
    <2>1. \A k \in 1 .. n : f[k] \in 1 .. Len(q)
      BY <1>10
    <2>2. \A k \in 1 .. n : q[f[k]] \in S
      BY <2>1
    <2> QED
      BY <1>1, <1>13, <2>2
  <1>15. \A k \in 1 .. n : Subsequence(q, at)[k] = q[f[k]]
    BY <1>13
  <1> HIDE DEF f
  <1> QED
    BY <1>1, <1>10, <1>11, <1>12, <1>14, <1>15

\* Each element of a subsequence is one of the list's.
LEMMA SubsequenceElements ==
    ASSUME NEW S, NEW q \in Seq(S), NEW at \in SUBSET (1 .. Len(q))
    PROVE  /\ Len(Subsequence(q, at)) \in 0 .. Len(q)
           /\ \A k \in 1 .. Len(Subsequence(q, at)) :
                 \E i \in at : Subsequence(q, at)[k] = q[i]
  <1>1. Len(Subsequence(q, at)) = Cardinality(at) /\ Cardinality(at) \in Nat
    BY SubsequenceIsPick
  <1>2. \E f \in [1 .. Cardinality(at) -> at] :
           /\ \A k, l \in 1 .. Cardinality(at) : k < l => f[k] < f[l]
           /\ \A i \in at : \E k \in 1 .. Cardinality(at) : f[k] = i
           /\ \A k \in 1 .. Cardinality(at) : Subsequence(q, at)[k] = q[f[k]]
    BY SubsequenceIsPick, ZenonT(60)
  <1>3. Cardinality(at) <= Len(q)
    <2>1. PICK m \in Nat : m = Len(q)
      OBVIOUS
    <2>2. IsFiniteSet(1 .. m) /\ Cardinality(1 .. m) = m
      BY FS_Interval
    <2> QED
      BY <2>1, <2>2, FS_Subset
  <1>4. PICK f \in [1 .. Cardinality(at) -> at] :
           \A k \in 1 .. Cardinality(at) : Subsequence(q, at)[k] = q[f[k]]
    BY <1>2
  <1>5. ASSUME NEW k \in 1 .. Len(Subsequence(q, at))
        PROVE  \E i \in at : Subsequence(q, at)[k] = q[i]
    <2>1. k \in 1 .. Cardinality(at)
      BY <1>1
    <2> QED
      BY <1>4, <2>1
  <1>6. Len(q) \in Nat
    OBVIOUS
  <1>7. Len(Subsequence(q, at)) \in 0 .. Len(q)
    BY <1>1, <1>3, <1>6
  <1> QED
    BY <1>5, <1>7
=============================================================================
