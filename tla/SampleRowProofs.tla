--------------------------- MODULE SampleRowProofs ---------------------------
(***************************************************************************)
(* The sampler for one row, for any vocabulary, tiles, threads, digits and *)
(* parameters: the top-k cutoff is exact, a draw is proportional, and      *)
(* rejection returns a token of the nucleus and excludes none.             *)
(*                                                                         *)
(* Sums are defined by picking one element after the other, so the facts   *)
(* about them are shown for the least set they could fail for.  The        *)
(* invariant says what each stage has prepared: the largest logit of every *)
(* tile and its counts, a cutoff that keeps the top k, weights that are    *)
(* those of the kept logits, shares that are the threads' masses above the *)
(* cutoff, and a cutoff raised only where what is above it still reaches   *)
(* top_p.                                                                  *)
(***************************************************************************)
EXTENDS SampleRow, CommonFacts

-----------------------------------------------------------------------------
(***************************************************************************)
(* Sums over finite sets.                                                  *)
(***************************************************************************)

\* What holds of a subset if it holds of all its proper subsets holds of all.
LEMMA SubsetInduction ==
  ASSUME NEW S, IsFiniteSet(S), NEW T,
         \A s \in SUBSET S : (\A r \in SUBSET s : r # s => r \in T) => s \in T
  PROVE  \A s \in SUBSET S : s \in T
  <1> SUFFICES ASSUME NEW a \in SUBSET S, a \notin T PROVE FALSE
    OBVIOUS
  <1> DEFINE sizes == {Cardinality(s) : s \in {r \in SUBSET S : r \notin T}}
  <1>1. \A s \in SUBSET S : IsFiniteSet(s) /\ Cardinality(s) \in Nat
    BY FS_Subset, FS_CardinalityType
  <1>2. sizes \in SUBSET Nat /\ sizes # {}
    BY <1>1
  <1>3. PICK c \in sizes : \A y \in sizes : c <= y
    <2> HIDE DEF sizes
    <2> QED
      BY <1>2, LeastIndex
  <1>4. PICK s \in SUBSET S : s \notin T /\ Cardinality(s) = c
    OBVIOUS
  <1>5. ASSUME NEW r \in SUBSET s, r # s PROVE r \in T
    <2>1. r \in SUBSET S /\ Cardinality(r) <= Cardinality(s) /\ Cardinality(s) # Cardinality(r)
      BY <1>1, <1>5, FS_Subset
    <2>2. ~ (c <= Cardinality(r))
      BY <1>1, <1>4, <2>1
    <2> QED
      BY <1>3, <2>1, <2>2
  <1> QED
    BY <1>4, <1>5

Picked(s) == CHOOSE x \in s : TRUE

\* it adds up f over the sets in D.
AddsUp(it, f, D) ==
    \A s \in D : it[s] = IF s = {} THEN 0 ELSE f[Picked(s)] + it[s \ {Picked(s)}]

\* A set without the one picked is smaller.
LEMMA PickedIn ==
  ASSUME NEW S, IsFiniteSet(S), S # {}
  PROVE  /\ Picked(S) \in S
         /\ S \ {Picked(S)} \in SUBSET S /\ S \ {Picked(S)} # S
         /\ Cardinality(S \ {Picked(S)}) = Cardinality(S) - 1
  <1>1. Picked(S) \in S
    BY DEF Picked
  <1> QED
    BY <1>1, FS_RemoveElement

\* There is such a sum for the subsets of a finite set.
LEMMA SumExists ==
  ASSUME NEW S, IsFiniteSet(S), NEW f, \A x \in S : f[x] \in Nat
  PROVE  \E it \in [SUBSET S -> Nat] : AddsUp(it, f, SUBSET S)
  <1> DEFINE Small(m) == {s \in SUBSET S : Cardinality(s) <= m}
             n == Cardinality(S)
             T == {m \in 0 .. n : \E it \in [Small(m) -> Nat] : AddsUp(it, f, Small(m))}
  <1>1. \A s \in SUBSET S : IsFiniteSet(s) /\ Cardinality(s) \in Nat /\ Cardinality(s) <= n
    BY FS_Subset, FS_CardinalityType
  <1>2. n \in Nat
    BY FS_CardinalityType
  <1>3. 0 \in T
    <2> DEFINE it == [s \in Small(0) |-> 0]
    <2>1. \A s \in Small(0) : s = {}
      BY <1>1, FS_EmptySet
    <2>2. it \in [Small(0) -> Nat] /\ AddsUp(it, f, Small(0))
      BY <2>1 DEF AddsUp
    <2> HIDE DEF it, Small
    <2> QED
      BY <1>2, <2>2
  <1>4. ASSUME NEW m \in 0 .. n - 1, m \in T PROVE m + 1 \in T
    <2>1. PICK old \in [Small(m) -> Nat] : AddsUp(old, f, Small(m))
      BY <1>4
    <2> DEFINE val(s) == IF s = {} THEN 0 ELSE f[Picked(s)] + old[s \ {Picked(s)}]
               it == [s \in Small(m + 1) |-> val(s)]
    <2>2. ASSUME NEW s \in Small(m + 1), s # {}
          PROVE  /\ Picked(s) \in S /\ s \ {Picked(s)} \in Small(m)
                 /\ s \ {Picked(s)} \in Small(m + 1)
      <3>1. /\ Picked(s) \in s /\ s \ {Picked(s)} \in SUBSET s
            /\ Cardinality(s \ {Picked(s)}) = Cardinality(s) - 1
        BY <1>1, <2>2, PickedIn
      <3> QED
        BY <1>1, <3>1
    <2>3. it \in [Small(m + 1) -> Nat]
      <3>1. \A s \in Small(m + 1) : val(s) \in Nat
        <4> HIDE DEF Small
        <4> QED
          BY <2>2
      <3> HIDE DEF val, Small
      <3> QED
        BY <3>1
    <2>4. ASSUME NEW s \in Small(m) PROVE s \in Small(m + 1) /\ it[s] = old[s]
      <3>1. s \in Small(m + 1)
        BY <1>1
      <3>2. old[s] = val(s)
        BY <2>1 DEF AddsUp
      <3> HIDE DEF val, Small
      <3> QED
        BY <3>1, <3>2
    <2>5. AddsUp(it, f, Small(m + 1))
      <3> SUFFICES ASSUME NEW s \in Small(m + 1)
                   PROVE  it[s] = IF s = {} THEN 0 ELSE f[Picked(s)] + it[s \ {Picked(s)}]
        BY DEF AddsUp
      <3>1. it[s] = val(s)
        <4> HIDE DEF val, Small
        <4> QED
          OBVIOUS
      <3>2. s # {} => it[s \ {Picked(s)}] = old[s \ {Picked(s)}]
        <4> HIDE DEF it, Small
        <4> QED
          BY <2>2, <2>4
      <3> HIDE DEF it, Small
      <3> QED
        BY <3>1, <3>2
    <2>6. m + 1 \in 0 .. n
      BY <1>2
    <2> HIDE DEF it, Small
    <2> QED
      BY <2>3, <2>5, <2>6
  <1>5. n \in T
    <2>1. \A k \in 0 .. n : k \in T
      <3> HIDE DEF T, n
      <3> QED
        BY <1>2, <1>3, <1>4, UpTo
    <2>2. n \in 0 .. n
      <3> HIDE DEF n
      <3> QED
        BY <1>2
    <2> HIDE DEF T
    <2> QED
      BY <2>1, <2>2
  <1>6. Small(n) = SUBSET S
    BY <1>1
  <1>7. \E it \in [Small(n) -> Nat] : AddsUp(it, f, Small(n))
    BY <1>5
  <1> HIDE DEF Small, n
  <1> QED
    BY <1>6, <1>7

\* The model's Sum is one.
LEMMA SumIsOne ==
  ASSUME NEW S, IsFiniteSet(S), NEW f, \A x \in S : f[x] \in Nat
  PROVE  \E it \in [SUBSET S -> Nat] : AddsUp(it, f, SUBSET S) /\ Sum(f, S) = it[S]
  <1> DEFINE Rec(g) == g = [s \in SUBSET S |->
                              IF s = {} THEN 0
                              ELSE LET x == CHOOSE x \in s : TRUE IN f[x] + g[s \ {x}]]
             it == CHOOSE g : Rec(g)
  <1>1. Sum(f, S) = it[S]
    BY Zenon DEF Sum, MapThenSumSet, MapThenFoldSet
  <1>2. PICK g \in [SUBSET S -> Nat] : AddsUp(g, f, SUBSET S)
    BY SumExists
  <1>3. Rec(g)
    BY <1>2 DEF AddsUp, Picked
  <1>4. Rec(it)
    <2> HIDE DEF Rec
    <2> QED
      BY <1>3
  <1> HIDE DEF it
  <1>5. AddsUp(it, f, SUBSET S) /\ it = [s \in SUBSET S |-> it[s]]
    BY <1>4 DEF AddsUp, Picked
  <1>6. \A s \in SUBSET S : it[s] \in Nat
    <2> DEFINE T == {s \in SUBSET S : it[s] \in Nat}
    <2>1. ASSUME NEW s \in SUBSET S, \A r \in SUBSET s : r # s => r \in T
          PROVE  s \in T
      <3>1. CASE s = {}
        <4>1. it[s] = 0
          BY <1>5, <3>1 DEF AddsUp
        <4> QED
          BY <4>1
      <3>2. CASE s # {}
        <4>1. IsFiniteSet(s)
          BY FS_Subset
        <4>2. Picked(s) \in s /\ s \ {Picked(s)} \in SUBSET s /\ s \ {Picked(s)} # s
          BY <3>2, <4>1, PickedIn
        <4>3. it[s \ {Picked(s)}] \in Nat /\ f[Picked(s)] \in Nat
          BY <2>1, <4>2
        <4>4. it[s] = f[Picked(s)] + it[s \ {Picked(s)}]
          BY <1>5, <3>2 DEF AddsUp
        <4> QED
          BY <4>3, <4>4
      <3> QED
        BY <3>1, <3>2
    <2>2. \A s \in SUBSET S : s \in T
      <3> HIDE DEF T
      <3> QED
        BY <2>1, SubsetInduction
    <2> QED
      BY <2>2
  <1> QED
    BY <1>1, <1>5, <1>6

\* What adds up f over the subsets of two sets is the same on their common ones.
LEMMA SumsAgree ==
  ASSUME NEW S, IsFiniteSet(S), NEW f, NEW g, NEW h,
         AddsUp(g, f, SUBSET S), AddsUp(h, f, SUBSET S)
  PROVE  g[S] = h[S]
  <1> DEFINE T == {s \in SUBSET S : g[s] = h[s]}
  <1>1. ASSUME NEW s \in SUBSET S, \A r \in SUBSET s : r # s => r \in T
        PROVE  s \in T
    <2>1. CASE s = {}
      BY <2>1 DEF AddsUp
    <2>2. CASE s # {}
      <3>1. IsFiniteSet(s)
        BY FS_Subset
      <3>2. s \ {Picked(s)} \in SUBSET s /\ s \ {Picked(s)} # s
        BY <2>2, <3>1, PickedIn
      <3>3. g[s \ {Picked(s)}] = h[s \ {Picked(s)}]
        BY <1>1, <3>2
      <3> QED
        BY <2>2, <3>3 DEF AddsUp
    <2> QED
      BY <2>1, <2>2
  <1>2. \A s \in SUBSET S : s \in T
    <2> HIDE DEF T
    <2> QED
      BY <1>1, SubsetInduction
  <1> QED
    BY <1>2

\* Sum takes one element after the other.
LEMMA SumSteps ==
  ASSUME NEW S, IsFiniteSet(S), NEW f, \A x \in S : f[x] \in Nat
  PROVE  /\ Sum(f, S) \in Nat
         /\ S = {} => Sum(f, S) = 0
         /\ S # {} => Sum(f, S) = f[Picked(S)] + Sum(f, S \ {Picked(S)})
  <1>1. PICK g \in [SUBSET S -> Nat] : AddsUp(g, f, SUBSET S) /\ Sum(f, S) = g[S]
    BY SumIsOne
  <1>2. Sum(f, S) \in Nat /\ (S = {} => Sum(f, S) = 0)
    BY <1>1 DEF AddsUp
  <1>3. ASSUME S # {} PROVE Sum(f, S) = f[Picked(S)] + Sum(f, S \ {Picked(S)})
    <2> DEFINE r == S \ {Picked(S)}
    <2>1. r \in SUBSET S /\ IsFiniteSet(r)
      BY <1>3, PickedIn, FS_Subset
    <2>2. PICK h \in [SUBSET r -> Nat] : AddsUp(h, f, SUBSET r) /\ Sum(f, r) = h[r]
      <3> HIDE DEF r
      <3> QED
        BY <2>1, SumIsOne
    <2>3. AddsUp(g, f, SUBSET r)
      BY <1>1, <2>1 DEF AddsUp
    <2>4. g[r] = h[r]
      <3> HIDE DEF r
      <3> QED
        BY <2>1, <2>2, <2>3, SumsAgree
    <2>5. g[S] = f[Picked(S)] + g[r]
      BY <1>1, <1>3 DEF AddsUp
    <2> QED
      BY <1>1, <2>2, <2>4, <2>5
  <1> QED
    BY <1>2, <1>3

\* The order in which a sum is taken does not matter.
LEMMA SumRemove ==
  ASSUME NEW S, IsFiniteSet(S), NEW f, \A x \in S : f[x] \in Nat
  PROVE  \A x \in S : Sum(f, S) = f[x] + Sum(f, S \ {x})
  <1> DEFINE Any(s) == \A x \in s : Sum(f, s) = f[x] + Sum(f, s \ {x})
             T == {s \in SUBSET S : Any(s)}
  <1>1. ASSUME NEW s \in SUBSET S, \A r \in SUBSET s : r # s => r \in T,
               NEW x \in s
        PROVE  Sum(f, s) = f[x] + Sum(f, s \ {x})
    <2> DEFINE p == Picked(s)
               r == s \ {p}
               q == s \ {x}
               both == r \ {x}
    <2>1. IsFiniteSet(s) /\ s # {} /\ \A y \in s : f[y] \in Nat
      BY FS_Subset
    <2>2. p \in s
      BY <2>1, PickedIn
    <2>3. Sum(f, s) = f[p] + Sum(f, r)
      BY <2>1, SumSteps
    <2>4. CASE x = p
      BY <2>3, <2>4
    <2>5. CASE x # p
      <3>1. /\ r \in SUBSET s /\ r # s /\ x \in r
            /\ q \in SUBSET s /\ q # s /\ p \in q /\ both = q \ {p}
        BY <2>2, <2>5
      <3>2. r \in T /\ q \in T
        <4> HIDE DEF r, q, T
        <4> QED
          BY <1>1, <3>1
      <3>3. Sum(f, r) = f[x] + Sum(f, both) /\ Sum(f, q) = f[p] + Sum(f, both)
        <4>1. Any(r) /\ Any(q)
          BY <3>2
        <4> HIDE DEF r, q, p
        <4> QED
          BY <3>1, <4>1
      <3>4. Sum(f, both) \in Nat /\ f[x] \in Nat /\ f[p] \in Nat
        <4>1. both \in SUBSET s
          OBVIOUS
        <4>2. IsFiniteSet(both) /\ \A y \in both : f[y] \in Nat
          BY <2>1, <4>1, FS_Subset
        <4> HIDE DEF both
        <4> QED
          BY <2>1, <2>2, <4>2, SumSteps
      <3> HIDE DEF r, q, both, p
      <3>5. Sum(f, s) = f[p] + (f[x] + Sum(f, both))
        BY <2>3, <3>3
      <3>6. f[p] + (f[x] + Sum(f, both)) = f[x] + (f[p] + Sum(f, both))
        BY <3>4
      <3>7. Sum(f, s) = f[x] + Sum(f, q)
        BY <3>3, <3>5, <3>6
      <3> QED
        BY <3>7 DEF q
    <2> QED
      BY <2>4, <2>5
  <1>2. \A s \in SUBSET S : s \in T
    <2>1. \A s \in SUBSET S : (\A r \in SUBSET s : r # s => r \in T) => s \in T
      BY <1>1
    <2> HIDE DEF T
    <2> QED
      BY <2>1, SubsetInduction
  <1>3. Any(S)
    BY <1>2
  <1> QED
    BY <1>3

\* The sum over two sets apart.
LEMMA SumUnion ==
  ASSUME NEW A, NEW B, IsFiniteSet(A), IsFiniteSet(B), A \cap B = {},
         NEW f, \A x \in A \cup B : f[x] \in Nat
  PROVE  Sum(f, A \cup B) = Sum(f, A) + Sum(f, B)
  <1> DEFINE Joins(s) == Sum(f, A \cup s) = Sum(f, A) + Sum(f, s)
             T == {s \in SUBSET B : Joins(s)}
  <1>1. ASSUME NEW s \in SUBSET B, \A r \in SUBSET s : r # s => r \in T
        PROVE  Joins(s)
    <2>1. IsFiniteSet(s) /\ (\A y \in s : f[y] \in Nat) /\ (\A y \in A : f[y] \in Nat)
      BY FS_Subset
    <2>2. IsFiniteSet(A \cup s) /\ \A y \in A \cup s : f[y] \in Nat
      BY <2>1, FS_Union
    <2>3. Sum(f, A) \in Nat
      BY <2>1, SumSteps
    <2>4. CASE s = {}
      <3>1. A \cup s = A /\ Sum(f, s) = 0
        BY <2>1, <2>4, SumSteps
      <3> QED
        BY <2>3, <3>1
    <2>5. CASE s # {}
      <3> DEFINE p == Picked(s)
                 r == s \ {p}
      <3>1. p \in s /\ r \in SUBSET s /\ r # s
        BY <2>1, <2>5, PickedIn
      <3>2. (A \cup s) \ {p} = A \cup r /\ p \in A \cup s
        BY <3>1
      <3>3. Sum(f, A \cup s) = f[p] + Sum(f, A \cup r)
        <4> DEFINE u == A \cup s
        <4>1. IsFiniteSet(u) /\ (\A y \in u : f[y] \in Nat) /\ p \in u /\ u \ {p} = A \cup r
          BY <2>2, <3>2
        <4> HIDE DEF u, p, r
        <4>2. Sum(f, u) = f[p] + Sum(f, u \ {p})
          BY <4>1, SumRemove
        <4>3. Sum(f, u) = f[p] + Sum(f, A \cup r)
          BY <4>1, <4>2
        <4> QED
          BY <4>3 DEF u
      <3>4. Sum(f, s) = f[p] + Sum(f, r)
        BY <2>1, <2>5, SumSteps
      <3>5. Joins(r)
        BY <1>1, <3>1
      <3>6. Sum(f, r) \in Nat /\ f[p] \in Nat
        <4>1. IsFiniteSet(r) /\ \A y \in r : f[y] \in Nat
          BY <2>1, <3>1, FS_Subset
        <4> HIDE DEF r, p
        <4> QED
          BY <2>1, <3>1, <4>1, SumSteps
      <3> HIDE DEF p, r
      <3>7. f[p] + (Sum(f, A) + Sum(f, r)) = Sum(f, A) + (f[p] + Sum(f, r))
        BY <2>3, <3>6
      <3> QED
        BY <3>3, <3>4, <3>5, <3>7
    <2> QED
      BY <2>4, <2>5
  <1>2. \A s \in SUBSET B : s \in T
    <2>1. \A s \in SUBSET B : (\A r \in SUBSET s : r # s => r \in T) => s \in T
      BY <1>1
    <2> HIDE DEF T
    <2> QED
      BY <2>1, SubsetInduction
  <1>3. Joins(B)
    BY <1>2
  <1> QED
    BY <1>3

\* A part never sums up to more than the whole, and to less if it leaves
\* something out.
LEMMA SumOfPart ==
  ASSUME NEW B, IsFiniteSet(B), NEW A \in SUBSET B, NEW f, \A x \in B : f[x] \in Nat
  PROVE  /\ Sum(f, A) \in Nat /\ Sum(f, B) \in Nat
         /\ Sum(f, A) <= Sum(f, B)
         /\ \A x \in B : x \notin A => Sum(f, A) + f[x] <= Sum(f, B)
  <1> DEFINE C == B \ A
  <1>1. /\ IsFiniteSet(A) /\ IsFiniteSet(C) /\ A \cup C = B /\ A \cap C = {}
        /\ (\A x \in A : f[x] \in Nat) /\ (\A x \in C : f[x] \in Nat)
    BY FS_Subset
  <1>2. Sum(f, A) \in Nat /\ Sum(f, C) \in Nat /\ Sum(f, B) \in Nat
    <2> HIDE DEF C
    <2> QED
      BY <1>1, SumSteps
  <1>3. Sum(f, B) = Sum(f, A) + Sum(f, C)
    <2>1. \A x \in A \cup C : f[x] \in Nat
      BY <1>1
    <2> HIDE DEF C
    <2>2. Sum(f, A \cup C) = Sum(f, A) + Sum(f, C)
      BY <1>1, <2>1, SumUnion
    <2> QED
      BY <1>1, <2>2
  <1>4. ASSUME NEW x \in B, x \notin A PROVE f[x] <= Sum(f, C)
    <2>1. x \in C /\ IsFiniteSet(C \ {x}) /\ \A y \in C \ {x} : f[y] \in Nat
      BY <1>1, <1>4, FS_RemoveElement
    <2>2. f[x] \in Nat
      OBVIOUS
    <2> HIDE DEF C
    <2>3. Sum(f, C) = f[x] + Sum(f, C \ {x})
      BY <1>1, <2>1, SumRemove
    <2>4. Sum(f, C \ {x}) \in Nat
      BY <2>1, SumSteps
    <2> QED
      BY <2>2, <2>3, <2>4
  <1> HIDE DEF C
  <1>5. ASSUME NEW x \in B, x \notin A PROVE Sum(f, A) + f[x] <= Sum(f, B)
    <2>1. f[x] <= Sum(f, C) /\ f[x] \in Nat
      BY <1>4, <1>5
    <2> QED
      BY <1>2, <1>3, <2>1
  <1> QED
    BY <1>2, <1>3, <1>5

\* Equal summands sum to the same.
LEMMA SumSame ==
  ASSUME NEW S, IsFiniteSet(S), NEW f, NEW g, \A x \in S : f[x] \in Nat /\ g[x] = f[x]
  PROVE  Sum(g, S) = Sum(f, S)
  <1> DEFINE T == {s \in SUBSET S : Sum(g, s) = Sum(f, s)}
  <1>1. ASSUME NEW s \in SUBSET S, \A r \in SUBSET s : r # s => r \in T
        PROVE  s \in T
    <2>1. IsFiniteSet(s) /\ (\A y \in s : f[y] \in Nat) /\ (\A y \in s : g[y] \in Nat)
      BY FS_Subset
    <2>2. CASE s = {}
      <3>1. Sum(f, s) = 0 /\ Sum(g, s) = 0
        BY <2>1, <2>2, SumSteps
      <3> QED
        BY <3>1
    <2>3. CASE s # {}
      <3> DEFINE p == Picked(s)
                 r == s \ {p}
      <3>1. p \in s /\ r \in SUBSET s /\ r # s
        BY <2>1, <2>3, PickedIn
      <3>2. Sum(f, s) = f[p] + Sum(f, r) /\ Sum(g, s) = g[p] + Sum(g, r)
        BY <2>1, <2>3, SumSteps
      <3>3. r \in T
        BY <1>1, <3>1
      <3>4. Sum(g, r) = Sum(f, r) /\ g[p] = f[p]
        BY <3>1, <3>3
      <3> HIDE DEF p, r
      <3> QED
        BY <3>2, <3>4
    <2> QED
      BY <2>2, <2>3
  <1>2. \A s \in SUBSET S : s \in T
    <2> HIDE DEF T
    <2> QED
      BY <1>1, SubsetInduction
  <1> QED
    BY <1>2

\* A set counted by classes.
LEMMA CountClasses ==
  ASSUME NEW S, IsFiniteSet(S), NEW C, IsFiniteSet(C), NEW class \in [S -> C],
         NEW g, \A c \in C : g[c] = Cardinality({x \in S : class[x] = c})
  PROVE  Sum(g, C) = Cardinality(S)
  <1> DEFINE of(s) == {x \in S : class[x] \in s}
             T == {s \in SUBSET C : Sum(g, s) = Cardinality(of(s))}
  <1>1. ASSUME NEW s \in SUBSET C
        PROVE  IsFiniteSet(s) /\ IsFiniteSet(of(s)) /\ Cardinality(of(s)) \in Nat
    <2>1. of(s) \in SUBSET S
      OBVIOUS
    <2> HIDE DEF of
    <2> QED
      BY <2>1, FS_Subset, FS_CardinalityType
  <1>2. \A c \in C : g[c] \in Nat
    <2> SUFFICES ASSUME NEW c \in C PROVE g[c] \in Nat
      OBVIOUS
    <2> DEFINE one == {x \in S : class[x] = c}
    <2>1. one \in SUBSET S /\ g[c] = Cardinality(one)
      OBVIOUS
    <2> HIDE DEF one
    <2>2. Cardinality(one) \in Nat
      BY <2>1, FS_Subset, FS_CardinalityType
    <2> QED
      BY <2>1, <2>2
  <1>3. ASSUME NEW s \in SUBSET C, \A r \in SUBSET s : r # s => r \in T
        PROVE  s \in T
    <2>1. IsFiniteSet(s) /\ \A c \in s : g[c] \in Nat
      BY <1>1, <1>2
    <2>2. CASE s = {}
      <3>1. Sum(g, s) = 0
        BY <2>1, <2>2, SumSteps
      <3>2. of(s) = {}
        BY <2>2
      <3>3. Cardinality(of(s)) = 0
        BY <3>2, FS_EmptySet
      <3> QED
        BY <3>1, <3>3
    <2>3. CASE s # {}
      <3> DEFINE p == Picked(s)
                 r == s \ {p}
                 one == {x \in S : class[x] = p}
      <3>1. p \in s /\ r \in SUBSET s /\ r # s
        BY <2>1, <2>3, PickedIn
      <3>2. Sum(g, s) = g[p] + Sum(g, r)
        BY <2>1, <2>3, SumSteps
      <3>3. r \in T
        BY <1>3, <3>1
      <3>4. Sum(g, r) = Cardinality(of(r)) /\ g[p] = Cardinality(one)
        BY <3>1, <3>3
      <3>5. of(s) = of(r) \cup one /\ of(r) \cap one = {} /\ one \in SUBSET S
        BY <3>1
      <3>6. IsFiniteSet(one) /\ Cardinality(one) \in Nat
        BY <3>5, FS_Subset, FS_CardinalityType
      <3>7. IsFiniteSet(of(r)) /\ Cardinality(of(r)) \in Nat
        BY <1>1, <3>1
      <3> HIDE DEF one, r, p, of
      <3>8. Cardinality(of(r) \cup one)
                = Cardinality(of(r)) + Cardinality(one) - Cardinality(of(r) \cap one)
        BY <3>6, <3>7, FS_Union
      <3>9. Cardinality(of(r) \cap one) = 0
        BY <3>5, FS_EmptySet
      <3>10. Cardinality(of(s)) = Cardinality(of(r)) + Cardinality(one)
        BY <3>5, <3>6, <3>7, <3>8, <3>9
      <3>11. Sum(g, s) = Cardinality(of(s))
        BY <3>2, <3>4, <3>6, <3>7, <3>10
      <3> QED
        BY <3>11 DEF of
    <2> QED
      BY <2>2, <2>3
  <1>4. \A s \in SUBSET C : s \in T
    <2> HIDE DEF T
    <2> QED
      BY <1>3, SubsetInduction
  <1>5. Sum(g, C) = Cardinality(of(C))
    BY <1>4
  <1>6. of(C) = S
    OBVIOUS
  <1> QED
    BY <1>5, <1>6

-----------------------------------------------------------------------------
(***************************************************************************)
(* Values, keys and weights.                                               *)
(***************************************************************************)

\* The sizes are positive numbers.
LEMMA Sizes ==
  /\ VocabSize \in Nat \ {0} /\ TileSize \in Nat \ {0} /\ NumThreads \in Nat \ {0}
  /\ Vec \in Nat \ {0} /\ Base \in Nat \ {0} /\ One \in Nat \ {0}
  /\ TopPOne \in Nat \ {0} /\ FloatStep \in Nat \ {0}
  BY SampleRowAssumption

\* Tokens, threads, digits and tiles are finitely many.
LEMMA SetsAreFinite ==
  /\ IsFiniteSet(Tokens) /\ Cardinality(Tokens) = VocabSize
  /\ IsFiniteSet(Threads) /\ IsFiniteSet(Digits) /\ IsFiniteSet(Tiles)
  /\ \A i \in Tokens : i \in Nat
  <1>1. VocabSize - 1 \in Int /\ NumThreads - 1 \in Int /\ Base - 1 \in Int /\ 0 \in Int
    BY Sizes
  <1>2. (VocabSize + TileSize - 1) \div TileSize - 1 \in Int
    <2>1. VocabSize + TileSize - 1 \in Nat
      BY Sizes
    <2>2. (VocabSize + TileSize - 1) \div TileSize \in Nat
      BY Sizes, <2>1, Quotient
    <2> QED
      BY <2>2
  <1>3. Cardinality(Tokens) = VocabSize
    <2>1. Cardinality(0 .. VocabSize - 1) = IF 0 > VocabSize - 1 THEN 0 ELSE VocabSize - 1 - 0 + 1
      BY <1>1, FS_Interval
    <2> QED
      BY <2>1, Sizes DEF Tokens
  <1> QED
    BY <1>1, <1>2, <1>3, FS_Interval DEF Tokens, Threads, Digits, Tiles

\* The sign bit splits the patterns into halves.
LEMMA SignBitFacts ==
  SignBit \in Nat \ {0} /\ Base * Base = SignBit + SignBit
  <1>1. PICK h \in Nat \ {0} : Base = h + h
    <2>1. Base \in Nat \ {0} /\ Base % 2 = 0
      BY SampleRowAssumption
    <2>2. Base \div 2 \in Nat /\ Base = 2 * (Base \div 2) + (Base % 2)
      BY <2>1
    <2>3. PICK h \in Nat : h = Base \div 2
      BY <2>2
    <2>4. Base = h + h /\ h # 0
      BY <2>1, <2>2, <2>3
    <2> QED
      BY <2>4
  <1>2. PICK m \in Nat : m = h * Base
    BY <1>1, Sizes
  <1>3. Base * Base = m + m
    <2>1. (h + h) * Base = h * Base + h * Base
      BY Sizes
    <2> QED
      BY <1>1, <1>2, <2>1
  <1>4. m # 0
    <2>1. Base >= 1 /\ h >= 1
      BY <1>1, Sizes
    <2> QED
      BY <1>1, <1>2, <2>1, Sizes
  <1>5. (m + m) \div 2 = m
    BY <1>2
  <1> QED
    BY <1>2, <1>3, <1>4, <1>5 DEF SignBit

\* The keys are ordered as the values are, and a value is read back from one.
LEMMA KeysOrder ==
  ASSUME NEW x \in 0 .. Base * Base - 1, NEW y \in 0 .. Base * Base - 1
  PROVE  /\ Key(x) \in 0 .. Base * Base - 1
         /\ Value(x) \in Int /\ Value(x) > LowestValue
         /\ Key(x) < Key(y) <=> Value(x) < Value(y)
         /\ KeyValue(Key(x)) = Value(x)
  BY SignBitFacts DEF Key, Value, KeyValue, LowestValue

\* A weight is a number, and that of no distance is 1.0f.
LEMMA ExpIsNat ==
  ASSUME NEW d \in Nat
  PROVE  Exp(d) \in Nat /\ (d = 0 => Exp(d) = One)
  <1> DEFINE step == [k \in 1 .. d |-> [x \in Nat |-> x \div 2]]
             Halves(g) == g = [k \in 0 .. d |-> IF k = 0 THEN One ELSE g[k - 1] \div 2]
             half == CHOOSE g : Halves(g)
  <1>1. \A x \in Nat : x \div 2 \in Nat
    OBVIOUS
  <1>2. step \in [1 .. d -> [Nat -> Nat]]
    BY <1>1
  <1>3. PICK f : Follows(f, d, Nat, One, step)
    <2>1. One \in Nat
      BY Sizes
    <2> HIDE DEF step
    <2> QED
      BY <1>2, <2>1, StepByStep
  <1>4. /\ f \in [0 .. d -> Nat] /\ f[0] = One
        /\ \A k \in 1 .. d : f[k] = step[k][f[k - 1]]
    BY <1>3 DEF Follows
  <1>5. Halves(f)
    <2>1. ASSUME NEW k \in 0 .. d PROVE f[k] = IF k = 0 THEN One ELSE f[k - 1] \div 2
      <3>1. CASE k = 0
        BY <1>4, <3>1
      <3>2. CASE k # 0
        <4>1. k \in 1 .. d /\ k - 1 \in 0 .. d
          BY <3>2
        <4>2. f[k - 1] \in Nat
          BY <1>4, <4>1
        <4>3. step[k][f[k - 1]] = f[k - 1] \div 2
          BY <4>1, <4>2
        <4> QED
          BY <1>4, <3>2, <4>1, <4>3
      <3> QED
        BY <3>1, <3>2
    <2>2. f = [k \in 0 .. d |-> f[k]]
      BY <1>4
    <2> QED
      BY <2>1, <2>2
  <1>6. Halves(half)
    <2> HIDE DEF Halves
    <2> QED
      BY <1>5
  <1>7. Exp(d) = half[d]
    BY DEF Exp
  <1> HIDE DEF half
  <1>8. half[0] = One /\ \A k \in 1 .. d : half[k] = half[k - 1] \div 2
    BY <1>6
  <1> DEFINE T == {k \in 0 .. d : half[k] \in Nat}
  <1>9. \A k \in 0 .. d : k \in T
    <2>1. 0 \in T
      BY <1>8, Sizes
    <2>2. ASSUME NEW k \in 0 .. d - 1, k \in T PROVE k + 1 \in T
      <3>1. PICK j \in 1 .. d : j = k + 1 /\ j - 1 = k
        OBVIOUS
      <3>2. half[j] = half[j - 1] \div 2 /\ half[j - 1] \in Nat
        BY <1>8, <2>2, <3>1
      <3>3. half[j] \in Nat
        BY <1>1, <3>2
      <3> QED
        BY <3>1, <3>3
    <2> HIDE DEF T
    <2> QED
      BY <2>1, <2>2, UpTo
  <1> QED
    BY <1>7, <1>8, <1>9

-----------------------------------------------------------------------------
(***************************************************************************)
(* The largest logit.                                                      *)
(***************************************************************************)
LogitsAreBits == logits \in [Tokens -> Patterns]
RangesAreMerged == ranges = [t \in Tiles |-> MergeRange(Tile(t))]

\* A logit of the row is a pattern with a value.
LEMMA LogitsHaveValues ==
  ASSUME LogitsAreBits, NEW i \in Tokens
  PROVE  /\ logits[i] \in 0 .. Base * Base - 1
         /\ Value(logits[i]) \in Int /\ Value(logits[i]) > LowestValue
         /\ SignBit - Value(logits[i]) \in Nat
  <1>1. logits[i] \in 0 .. Base * Base - 1
    BY SampleRowAssumption DEF LogitsAreBits
  <1>2. Value(logits[i]) \in Int /\ Value(logits[i]) > LowestValue
    BY <1>1, KeysOrder
  <1>3. SignBit - Value(logits[i]) \in Nat
    BY <1>1, SignBitFacts DEF Value
  <1> QED
    BY <1>1, <1>2, <1>3

\* Merging finds the lowest of the largest.
LEMMA MergeFindsLargest ==
  ASSUME LogitsAreBits, NEW S \in SUBSET Tokens, S # {}
  PROVE  /\ MergeRange(S) \in S
         /\ \A j \in S : Value(logits[j]) <= Value(logits[MergeRange(S)])
  <1> DEFINE v(i) == Value(logits[i])
             depth == {SignBit - v(i) : i \in S}
  <1>1. \A i \in S : i \in Nat /\ v(i) \in Int /\ SignBit - v(i) \in Nat
    BY LogitsHaveValues, SetsAreFinite
  <1>2. PICK c \in depth : \A y \in depth : c <= y
    <2>1. depth \in SUBSET Nat /\ depth # {}
      BY <1>1
    <2> HIDE DEF depth
    <2> QED
      BY <2>1, LeastIndex
  <1> DEFINE tied == {i \in S : SignBit - v(i) = c}
  <1>3. PICK i \in tied : \A y \in tied : i <= y
    <2>1. tied \in SUBSET Nat /\ tied # {}
      BY <1>1
    <2> HIDE DEF tied
    <2> QED
      BY <2>1, LeastIndex
  <1>4. i \in S /\ SignBit - v(i) = c
    OBVIOUS
  <1>5. ASSUME NEW j \in S PROVE v(i) > v(j) \/ (v(i) = v(j) /\ i <= j)
    <2>1. c <= SignBit - v(j)
      BY <1>2
    <2>2. SignBit \in Nat
      BY SignBitFacts
    <2>3. v(i) >= v(j)
      <3> HIDE DEF v
      <3> QED
        BY <1>1, <1>4, <1>5, <2>1, <2>2
    <2>4. CASE v(i) = v(j)
      <3>1. j \in tied
        BY <1>4, <2>4
      <3> HIDE DEF tied
      <3> QED
        BY <1>3, <2>4, <3>1
    <2> HIDE DEF v
    <2> QED
      BY <1>1, <1>4, <1>5, <2>3, <2>4
  <1>6. \E x \in S : \A j \in S : v(x) > v(j) \/ (v(x) = v(j) /\ x <= j)
    BY <1>4, <1>5
  <1>7. /\ MergeRange(S) \in S
        /\ \A j \in S : v(MergeRange(S)) > v(j) \/ (v(MergeRange(S)) = v(j) /\ MergeRange(S) <= j)
    BY <1>6 DEF MergeRange
  <1> HIDE DEF v
  <1>8. \A j \in S : v(j) <= v(MergeRange(S))
    BY <1>1, <1>7
  <1> QED
    BY <1>7, <1>8 DEF v

\* Every token has a tile, and no tile is empty.
LEMMA TilesCoverTokens ==
  /\ \A i \in Tokens : i \div TileSize \in Tiles
  /\ \A t \in Tiles : Tile(t) \in SUBSET Tokens /\ Tile(t) # {}
  /\ Tiles # {}
  <1> DEFINE q == (VocabSize + TileSize - 1) \div TileSize
             r == (VocabSize + TileSize - 1) % TileSize
             m == TileSize * q
  <1>1. /\ q \in Nat /\ r \in 0 .. TileSize - 1
        /\ VocabSize + TileSize - 1 = m + r
    <2>1. VocabSize + TileSize - 1 \in Nat
      BY Sizes
    <2> QED
      BY Sizes, <2>1, Quotient
  <1>2. m \in Nat
    BY <1>1, Sizes
  <1>3. Tiles = 0 .. q - 1
    BY DEF Tiles
  <1> HIDE DEF q, r
  <1>4. ASSUME NEW i \in Tokens PROVE i \div TileSize \in Tiles
    <2>1. i \in Nat /\ i < m
      <3> HIDE DEF m
      <3> QED
        BY <1>1, <1>2, Sizes DEF Tokens
    <2>2. i < q * TileSize
      BY <1>1, <2>1, Sizes
    <2>3. i \div TileSize < q
      BY <1>1, <2>1, <2>2, Sizes, QuotientBelow
    <2>4. i \div TileSize \in Nat
      BY <2>1, Sizes, Quotient
    <2> QED
      BY <1>1, <1>3, <2>3, <2>4
  <1>5. ASSUME NEW t \in Tiles PROVE t * TileSize \in Tile(t)
    <2>1. t \in Nat /\ t + 1 <= q
      BY <1>1, <1>3
    <2>2. PICK x \in Nat : x = t * TileSize
      BY <2>1, Sizes
    <2>3. (t + 1) * TileSize <= q * TileSize
      BY <1>1, <2>1, Sizes
    <2>4. (t + 1) * TileSize = x + TileSize
      BY <2>1, <2>2, Sizes
    <2>5. x + TileSize <= m
      BY <1>1, <2>3, <2>4, Sizes
    <2>6. x \in Tokens
      <3> HIDE DEF m
      <3> QED
        BY <1>1, <1>2, <2>2, <2>5, Sizes DEF Tokens
    <2>7. x \div TileSize = t
      <3>1. TileSize * t <= x /\ x < TileSize * t + TileSize
        BY <2>1, <2>2, Sizes
      <3> QED
        BY <2>1, <2>2, <3>1, Sizes, QuotientIs
    <2> QED
      BY <2>2, <2>6, <2>7 DEF Tile
  <1>6. Tiles # {}
    <2>1. 0 \in Tokens
      BY Sizes DEF Tokens
    <2> QED
      BY <1>4, <2>1
  <1> QED
    BY <1>4, <1>5, <1>6 DEF Tile

\* Best is a token with the largest logit.
LEMMA BestIsLargest ==
  ASSUME LogitsAreBits, RangesAreMerged
  PROVE  /\ Best \in Tokens
         /\ \A j \in Tokens : Value(logits[j]) <= Value(logits[Best])
  <1> DEFINE S == {ranges[t] : t \in Tiles}
  <1>1. ASSUME NEW t \in Tiles
        PROVE  /\ ranges[t] \in Tokens
               /\ \A j \in Tile(t) : Value(logits[j]) <= Value(logits[ranges[t]])
    <2>1. Tile(t) \in SUBSET Tokens /\ Tile(t) # {}
      BY TilesCoverTokens
    <2>2. ranges[t] = MergeRange(Tile(t))
      BY DEF RangesAreMerged
    <2> QED
      BY <2>1, <2>2, MergeFindsLargest
  <1>2. S \in SUBSET Tokens /\ S # {}
    BY <1>1, TilesCoverTokens
  <1>3. Best \in S /\ \A x \in S : Value(logits[x]) <= Value(logits[Best])
    <2> HIDE DEF S
    <2>1. MergeRange(S) \in S /\ \A x \in S : Value(logits[x]) <= Value(logits[MergeRange(S)])
      BY <1>2, MergeFindsLargest
    <2>2. Best = MergeRange(S)
      BY DEF Best, S
    <2> QED
      BY <2>1, <2>2
  <1>4. ASSUME NEW j \in Tokens PROVE Value(logits[j]) <= Value(logits[Best])
    <2>1. PICK t \in Tiles : t = j \div TileSize
      BY TilesCoverTokens
    <2>2. j \in Tile(t)
      BY <2>1 DEF Tile
    <2>3. Value(logits[j]) <= Value(logits[ranges[t]])
      BY <1>1, <2>2
    <2>4. Value(logits[ranges[t]]) <= Value(logits[Best])
      BY <1>3
    <2>5. ranges[t] \in Tokens /\ Best \in Tokens
      BY <1>1, <1>2, <1>3
    <2> QED
      BY <2>3, <2>4, <2>5, LogitsHaveValues
  <1> QED
    BY <1>2, <1>3, <1>4

-----------------------------------------------------------------------------
(***************************************************************************)
(* The top-k cutoff.                                                       *)
(***************************************************************************)

\* Two digits compare as the number they write.
LEMMA DigitsCompare ==
  ASSUME NEW hi \in Nat, NEW lo \in Digits, NEW upper \in Nat, NEW lower \in Digits
  PROVE  /\ Base * hi + lo > upper * Base + lower <=> hi > upper \/ (hi = upper /\ lo > lower)
         /\ Base * hi + lo >= upper * Base + lower <=> hi > upper \/ (hi = upper /\ lo >= lower)
  <1>1. lo \in Nat /\ lo < Base /\ lower \in Nat /\ lower < Base
    BY Sizes DEF Digits
  <1>2. PICK a \in Nat, b \in Nat : a = Base * hi /\ b = upper * Base
    BY Sizes
  <1>3. hi = upper => a = b
    BY <1>2, Sizes
  <1>4. ASSUME hi > upper PROVE a >= b + Base
    <2>1. PICK m \in Nat : hi = upper + 1 + m
      <3>1. hi - upper - 1 \in Nat
        BY <1>4
      <3>2. hi = upper + 1 + (hi - upper - 1)
        OBVIOUS
      <3> QED
        BY <3>1, <3>2
    <2>2. a = b + Base + Base * m
      BY <1>2, <2>1, Sizes
    <2>3. Base * m \in Nat
      BY Sizes
    <2> QED
      BY <1>2, <2>2, <2>3, Sizes
  <1>5. ASSUME upper > hi PROVE b >= a + Base
    <2>1. PICK m \in Nat : upper = hi + 1 + m
      <3>1. upper - hi - 1 \in Nat
        BY <1>5
      <3>2. upper = hi + 1 + (upper - hi - 1)
        OBVIOUS
      <3> QED
        BY <3>1, <3>2
    <2>2. b = a + Base + Base * m
      BY <1>2, <2>1, Sizes
    <2>3. Base * m \in Nat
      BY Sizes
    <2> QED
      BY <1>2, <2>2, <2>3, Sizes
  <1>6. hi > upper \/ hi = upper \/ upper > hi
    OBVIOUS
  <1> QED
    BY <1>1, <1>2, <1>3, <1>4, <1>5, <1>6, Sizes

\* A key is its two digits.
LEMMA KeyHasDigits ==
  ASSUME LogitsAreBits, NEW i \in Tokens
  PROVE  /\ Key(logits[i]) \in Nat
         /\ Key(logits[i]) \div Base \in Digits /\ Key(logits[i]) % Base \in Digits
         /\ Key(logits[i]) = Base * (Key(logits[i]) \div Base) + (Key(logits[i]) % Base)
  <1>1. PICK key \in 0 .. Base * Base - 1 : key = Key(logits[i])
    BY LogitsHaveValues, KeysOrder
  <1>2. PICK n \in Nat : n = Base * Base
    BY Sizes
  <1>3. key \in Nat /\ key < n
    BY <1>1, <1>2
  <1>4. /\ key \div Base \in Nat /\ key % Base \in Digits
        /\ key = Base * (key \div Base) + (key % Base)
    BY <1>3, Sizes, Quotient DEF Digits
  <1>5. key \div Base < Base
    BY <1>2, <1>3, Sizes, QuotientBelow
  <1>6. key \div Base \in Digits
    BY <1>4, <1>5, Sizes DEF Digits
  <1> QED
    BY <1>1, <1>3, <1>4, <1>6

Over(S, class, d) == {x \in S : class[x] > d}
At(S, class, d) == {x \in S : class[x] = d}

\* What a histogram of digits selects for the k-th largest.
LEMMA DigitSelected ==
  ASSUME NEW S, IsFiniteSet(S), NEW class \in [S -> Digits], NEW histogram,
         \A d \in Digits : histogram[d] = Cardinality(At(S, class, d)),
         NEW k \in Nat \ {0}, k <= Cardinality(S),
         NEW digit, digit = SelectDigit(histogram, k)
  PROVE  /\ digit \in Digits
         /\ RankInDigit(histogram, k) = k - Cardinality(Over(S, class, digit))
         /\ Cardinality(Over(S, class, digit)) < k
         /\ k <= Cardinality(Over(S, class, digit)) + Cardinality(At(S, class, digit))
  <1> DEFINE over(d) == Over(S, class, d)
             at(d) == At(S, class, d)
             n(d) == Cardinality(over(d))
  <1>1. \A d : /\ IsFiniteSet(over(d)) /\ n(d) \in Nat
               /\ IsFiniteSet(at(d)) /\ Cardinality(at(d)) \in Nat
    <2> TAKE d
    <2>1. over(d) \in SUBSET S /\ at(d) \in SUBSET S
      BY DEF Over, At
    <2> HIDE DEF over, at
    <2> QED
      BY <2>1, FS_Subset, FS_CardinalityType
  <1>2. ASSUME NEW d \in Digits PROVE Above(histogram, d) = n(d)
    <2> DEFINE C == d + 1 .. Base - 1
               all == over(d)
               of == [x \in all |-> class[x]]
    <2>1. IsFiniteSet(C) /\ C \in SUBSET Digits
      <3>1. d + 1 \in Int /\ Base - 1 \in Int
        BY Sizes DEF Digits, Over, At
      <3>2. C \in SUBSET Digits
        BY Sizes DEF Digits, Over, At
      <3> QED
        BY <3>1, <3>2, FS_Interval
    <2>2. of \in [all -> C]
      BY Sizes DEF Digits, Over, At
    <2>3. ASSUME NEW c \in C PROVE histogram[c] = Cardinality({x \in all : of[x] = c})
      <3>1. c \in Digits /\ c > d
        BY <2>1, Sizes DEF Digits
      <3>2. {x \in all : of[x] = c} = at(c)
        BY <3>1 DEF Over, At
      <3> QED
        BY <3>1, <3>2
    <2>4. IsFiniteSet(all)
      BY <1>1
    <2> HIDE DEF C, of, all
    <2>5. Sum(histogram, C) = Cardinality(all)
      BY <2>1, <2>2, <2>3, <2>4, CountClasses
    <2> QED
      BY <2>5 DEF Above, C, all
  <1> DEFINE few == {d \in Digits : n(d) < k}
  <1>3. Base - 1 \in few
    <2>1. Base - 1 \in Digits
      BY Sizes DEF Digits, Over, At
    <2>2. over(Base - 1) = {}
      BY Sizes DEF Digits, Over, At
    <2>3. n(Base - 1) = 0
      BY <2>2, FS_EmptySet
    <2> HIDE DEF n
    <2> QED
      BY <2>1, <2>3
  <1>4. PICK d \in few : \A y \in few : d <= y
    <2>1. few \in SUBSET Digits /\ Digits \in SUBSET Nat
      BY DEF Digits
    <2>2. few # {}
      BY <1>3
    <2> HIDE DEF few
    <2> QED
      BY <2>1, <2>2, LeastIndex
  <1>5. d \in Digits /\ n(d) < k
    OBVIOUS
  <1>6. k <= n(d) + Cardinality(at(d))
    <2> DEFINE least == over(d) \cup at(d)
    <2>1. over(d) \cap at(d) = {}
      BY <1>5 DEF Digits, Over, At
    <2>2. Cardinality(least) = n(d) + Cardinality(at(d))
      <3> HIDE DEF over, at
      <3>1. Cardinality(over(d) \cup at(d))
                = Cardinality(over(d)) + Cardinality(at(d)) - Cardinality(over(d) \cap at(d))
        BY <1>1, FS_Union
      <3>2. Cardinality(over(d) \cap at(d)) = 0
        BY <2>1, FS_EmptySet
      <3> QED
        BY <1>1, <3>1, <3>2
    <2>3. CASE d = 0
      <3>1. least = S
        BY <2>3 DEF Digits, Over, At
      <3> QED
        BY <2>2, <3>1
    <2>4. CASE d # 0
      <3>1. d - 1 \in Digits /\ ~ (d <= d - 1)
        BY <1>5, <2>4, Sizes DEF Digits
      <3>2. d - 1 \notin few
        <4> HIDE DEF few
        <4> QED
          BY <1>4, <3>1
      <3>3. k <= n(d - 1)
        <4>1. n(d - 1) \in Nat
          BY <1>1
        <4> HIDE DEF n
        <4> QED
          BY <3>1, <3>2, <4>1
      <3>4. over(d - 1) = least
        BY <1>5, Sizes DEF Digits, Over, At
      <3> QED
        BY <2>2, <3>3, <3>4
    <2> QED
      BY <2>3, <2>4
  <1> DEFINE Selects(c) == /\ Above(histogram, c) < k
                           /\ k <= Above(histogram, c) + histogram[c]
             s == SelectDigit(histogram, k)
  <1>7. \E c \in Digits : Selects(c)
    <2>1. Above(histogram, d) = n(d) /\ histogram[d] = Cardinality(at(d))
      BY <1>2, <1>5
    <2> QED
      BY <1>5, <1>6, <2>1
  <1>8. s \in Digits /\ Selects(s)
    BY <1>7 DEF SelectDigit
  <1>9. Above(histogram, s) = n(s) /\ histogram[s] = Cardinality(at(s))
    BY <1>2, <1>8
  <1>10. RankInDigit(histogram, k) = k - n(s)
    BY <1>9 DEF RankInDigit
  <1> QED
    BY <1>8, <1>9, <1>10

HistogramsAreCounts == UsesTopK => histograms = [t \in Tiles |-> TileHistogram(t)]

HighDigits == [i \in Tokens |-> Key(logits[i]) \div Base]

\* The tiles' histograms add up to the row's.
LEMMA TilesAddUp ==
  ASSUME UsesTopK, HistogramsAreCounts, NEW d \in Digits
  PROVE  Sum([t \in Tiles |-> histograms[t][d]], Tiles)
            = Cardinality({i \in Tokens : HighDigits[i] = d})
  <1> DEFINE S == {i \in Tokens : HighDigits[i] = d}
             g == [t \in Tiles |-> histograms[t][d]]
             class == [i \in S |-> i \div TileSize]
  <1>1. S \in SUBSET Tokens
    OBVIOUS
  <1>2. IsFiniteSet(S) /\ IsFiniteSet(Tiles)
    <2> HIDE DEF S
    <2> QED
      BY <1>1, SetsAreFinite, FS_Subset
  <1>3. class \in [S -> Tiles]
    BY TilesCoverTokens
  <1>4. ASSUME NEW t \in Tiles PROVE g[t] = Cardinality({i \in S : class[i] = t})
    <2>1. g[t] = Cardinality({i \in Tile(t) : Key(logits[i]) \div Base = d})
      BY DEF HistogramsAreCounts, TileHistogram
    <2>2. {i \in S : class[i] = t} = {i \in Tile(t) : Key(logits[i]) \div Base = d}
      BY DEF HighDigits, Tile
    <2> QED
      BY <2>1, <2>2
  <1> HIDE DEF S, g, class
  <1>5. Sum(g, Tiles) = Cardinality(S)
    BY <1>2, <1>3, <1>4, CountClasses
  <1> QED
    BY <1>5 DEF S, g

\* The two passes select a key of the row: fewer than top_k keys are above it,
\* and with those at it they are at least top_k.
LEMMA CutoffIsKthKey ==
  ASSUME LogitsAreBits, UsesTopK, HistogramsAreCounts, param.topK \in Nat
  PROVE  \E i \in Tokens :
            /\ TopKCutoff = Value(logits[i])
            /\ Cardinality({j \in Tokens : Key(logits[j]) > Key(logits[i])}) < param.topK
            /\ param.topK <= Cardinality({j \in Tokens : Key(logits[j]) >= Key(logits[i])})
  <1> DEFINE key(i) == Key(logits[i])
             count == [d \in Digits |-> Sum([t \in Tiles |-> histograms[t][d]], Tiles)]
             upper == SelectDigit(count, param.topK)
             tie == {i \in Tokens : HighDigits[i] = upper}
             lo == [i \in tie |-> key(i) % Base]
             histogram == [d \in Digits |-> Cardinality(
                             {i \in Tokens : key(i) \div Base = upper /\ key(i) % Base = d})]
             k == RankInDigit(count, param.topK)
             lower == SelectDigit(histogram, k)
             over == {i \in Tokens : HighDigits[i] > upper}
  <1>1. \A i \in Tokens : /\ key(i) \in Nat
                          /\ key(i) \div Base \in Digits /\ key(i) % Base \in Digits
                          /\ HighDigits[i] = key(i) \div Base
                          /\ key(i) = Base * HighDigits[i] + (key(i) % Base)
    BY KeyHasDigits DEF HighDigits
  <1>2. param.topK \in Nat \ {0} /\ param.topK <= Cardinality(Tokens)
    BY SetsAreFinite, Sizes DEF UsesTopK
  <1>3. /\ upper \in Digits
        /\ k = param.topK - Cardinality(over)
        /\ Cardinality(over) < param.topK
        /\ param.topK <= Cardinality(over) + Cardinality(tie)
    <2>1. HighDigits \in [Tokens -> Digits]
      BY <1>1 DEF HighDigits
    <2>2. \A d \in Digits : count[d] = Cardinality({i \in Tokens : HighDigits[i] = d})
      BY TilesAddUp
    <2>0. upper = SelectDigit(count, param.topK)
      OBVIOUS
    <2>4. \A d \in Digits : count[d] = Cardinality(At(Tokens, HighDigits, d))
      BY <2>2 DEF At
    <2> HIDE DEF count, upper
    <2>3. /\ upper \in Digits
          /\ RankInDigit(count, param.topK)
               = param.topK - Cardinality(Over(Tokens, HighDigits, upper))
          /\ Cardinality(Over(Tokens, HighDigits, upper)) < param.topK
          /\ param.topK <= Cardinality(Over(Tokens, HighDigits, upper))
                              + Cardinality(At(Tokens, HighDigits, upper))
      BY <1>2, <2>0, <2>1, <2>4, SetsAreFinite, DigitSelected
    <2>5. over = Over(Tokens, HighDigits, upper) /\ tie = At(Tokens, HighDigits, upper)
      BY DEF Over, At
    <2> HIDE DEF over, tie
    <2> QED
      BY <2>3, <2>5 DEF k
  <1> HIDE DEF count, upper, k
  <1>4. /\ IsFiniteSet(over) /\ IsFiniteSet(tie)
        /\ Cardinality(over) \in Nat /\ Cardinality(tie) \in Nat
    <2>1. over \in SUBSET Tokens /\ tie \in SUBSET Tokens
      OBVIOUS
    <2> HIDE DEF over, tie
    <2> QED
      BY <2>1, SetsAreFinite, FS_Subset, FS_CardinalityType
  <1> DEFINE part == {i \in tie : lo[i] > lower}
             rest == {i \in tie : lo[i] = lower}
  <1>5. /\ lower \in Digits
        /\ Cardinality(part) < k
        /\ k <= Cardinality(part) + Cardinality(rest)
        /\ k \in Nat \ {0}
    <2>1. lo \in [tie -> Digits]
      BY <1>1
    <2>2. ASSUME NEW d \in Digits PROVE histogram[d] = Cardinality({i \in tie : lo[i] = d})
      <3>1. {i \in tie : lo[i] = d} = {i \in Tokens : key(i) \div Base = upper /\ key(i) % Base = d}
        BY <1>1
      <3> QED
        BY <3>1
    <2>3. k \in Nat \ {0} /\ k <= Cardinality(tie)
      <3> HIDE DEF over, tie
      <3> QED
        BY <1>2, <1>3, <1>4
    <2>0. lower = SelectDigit(histogram, k)
      OBVIOUS
    <2>5. \A d \in Digits : histogram[d] = Cardinality(At(tie, lo, d))
      BY <2>2 DEF At
    <2> HIDE DEF histogram, lo, tie, lower
    <2>4. /\ lower \in Digits
          /\ Cardinality(Over(tie, lo, lower)) < k
          /\ k <= Cardinality(Over(tie, lo, lower)) + Cardinality(At(tie, lo, lower))
      BY <1>4, <2>0, <2>1, <2>3, <2>5, DigitSelected
    <2>6. part = Over(tie, lo, lower) /\ rest = At(tie, lo, lower)
      BY DEF Over, At
    <2> HIDE DEF part, rest
    <2> QED
      BY <2>3, <2>4, <2>6
  <1>6. TopKCutoff = KeyValue(upper * Base + lower)
    BY DEF TopKCutoff, upper, k, count
  <1> HIDE DEF histogram, lower
  <1>7. /\ IsFiniteSet(part) /\ IsFiniteSet(rest)
        /\ Cardinality(part) \in Nat /\ Cardinality(rest) \in Nat
    <2>1. part \in SUBSET tie /\ rest \in SUBSET tie
      OBVIOUS
    <2> HIDE DEF part, rest, tie
    <2> QED
      BY <1>4, <2>1, FS_Subset, FS_CardinalityType
  <1>8. PICK i \in rest : TRUE
    <2>1. rest # {}
      <3> HIDE DEF part, rest
      <3>1. CASE rest = {}
        <4>1. Cardinality(rest) = 0
          BY <3>1, FS_EmptySet
        <4> QED
          BY <1>5, <1>7, <4>1
      <3> QED
        BY <3>1
    <2> QED
      BY <2>1
  <1>9. i \in Tokens /\ key(i) = upper * Base + lower
    <2>1. i \in Tokens /\ HighDigits[i] = upper /\ key(i) % Base = lower
      OBVIOUS
    <2>2. upper \in Nat
      BY <1>3 DEF Digits
    <2>3. Base * upper = upper * Base
      BY <2>2, Sizes
    <2> HIDE DEF key, lower, upper
    <2> QED
      BY <1>1, <2>1, <2>3
  <1>10. TopKCutoff = Value(logits[i])
    BY <1>6, <1>9, LogitsHaveValues, KeysOrder
  <1>11. ASSUME NEW j \in Tokens
         PROVE  /\ key(j) > key(i) <=> j \in over \cup part
                /\ key(j) >= key(i) <=> j \in (over \cup part) \cup rest
    <2>1. /\ HighDigits[j] \in Nat /\ key(j) % Base \in Digits
          /\ key(j) = Base * HighDigits[j] + (key(j) % Base)
          /\ upper \in Nat
      BY <1>1, <1>3 DEF Digits
    <2>2. /\ key(j) > upper * Base + lower
              <=> HighDigits[j] > upper \/ (HighDigits[j] = upper /\ key(j) % Base > lower)
          /\ key(j) >= upper * Base + lower
              <=> HighDigits[j] > upper \/ (HighDigits[j] = upper /\ key(j) % Base >= lower)
      <3> DEFINE last == key(j) % Base
      <3> HIDE DEF last, key
      <3>1. last \in Digits /\ key(j) = Base * HighDigits[j] + last
        BY <2>1 DEF last
      <3>2. /\ Base * HighDigits[j] + last > upper * Base + lower
              <=> HighDigits[j] > upper \/ (HighDigits[j] = upper /\ last > lower)
            /\ Base * HighDigits[j] + last >= upper * Base + lower
              <=> HighDigits[j] > upper \/ (HighDigits[j] = upper /\ last >= lower)
        BY <1>5, <2>1, <3>1, DigitsCompare
      <3> QED
        BY <3>1, <3>2 DEF last
    <2>3. /\ j \in over <=> HighDigits[j] > upper
          /\ j \in part <=> (HighDigits[j] = upper /\ key(j) % Base > lower)
          /\ j \in rest <=> (HighDigits[j] = upper /\ key(j) % Base = lower)
      OBVIOUS
    <2>4. key(j) % Base >= lower <=> (key(j) % Base > lower \/ key(j) % Base = lower)
      <3> DEFINE last == key(j) % Base
      <3>1. last \in Int /\ lower \in Int
        BY <1>5, <2>1 DEF Digits
      <3> HIDE DEF last
      <3>2. last >= lower <=> (last > lower \/ last = lower)
        BY <3>1
      <3> QED
        BY <3>2 DEF last
    <2> HIDE DEF key, over, part, rest
    <2> QED
      BY <1>9, <2>2, <2>3, <2>4
  <1>12. /\ {j \in Tokens : key(j) > key(i)} = over \cup part
         /\ {j \in Tokens : key(j) >= key(i)} = (over \cup part) \cup rest
    <2>1. over \cup part \subseteq Tokens /\ rest \subseteq Tokens
      OBVIOUS
    <2> HIDE DEF key, over, part, rest
    <2> QED
      BY <1>11, <2>1
  <1>13. over \cap part = {} /\ (over \cup part) \cap rest = {}
    BY <1>1, <1>3, <1>5 DEF Digits
  <1>14. /\ IsFiniteSet(over \cup part)
         /\ Cardinality(over \cup part) = Cardinality(over) + Cardinality(part)
         /\ Cardinality((over \cup part) \cup rest)
              = Cardinality(over) + Cardinality(part) + Cardinality(rest)
    <2> HIDE DEF over, part, rest
    <2>1. Cardinality({}) = 0
      BY FS_EmptySet
    <2>2. /\ IsFiniteSet(over \cup part)
          /\ Cardinality(over \cup part)
               = Cardinality(over) + Cardinality(part) - Cardinality(over \cap part)
      BY <1>4, <1>7, FS_Union
    <2>3. Cardinality((over \cup part) \cup rest)
            = Cardinality(over \cup part) + Cardinality(rest)
                - Cardinality((over \cup part) \cap rest)
      BY <1>7, <2>2, FS_Union
    <2>4. Cardinality(over \cup part) = Cardinality(over) + Cardinality(part)
      <3>1. Cardinality(over \cap part) = 0
        BY <1>13, <2>1
      <3> QED
        BY <1>4, <1>7, <2>2, <3>1
    <2>5. Cardinality((over \cup part) \cup rest) = Cardinality(over \cup part) + Cardinality(rest)
      <3>1. Cardinality((over \cup part) \cap rest) = 0
        BY <1>13, <2>1
      <3>2. Cardinality(over \cup part) \in Nat
        BY <1>4, <1>7, <2>4
      <3> QED
        BY <1>7, <2>3, <3>1, <3>2
    <2> QED
      BY <2>2, <2>4, <2>5
  <1>15. /\ Cardinality(over \cup part) < param.topK
         /\ param.topK <= Cardinality((over \cup part) \cup rest)
    <2> HIDE DEF over, part, rest, tie
    <2> QED
      BY <1>2, <1>3, <1>4, <1>5, <1>7, <1>14
  <1>16. /\ Cardinality({j \in Tokens : key(j) > key(i)}) < param.topK
         /\ param.topK <= Cardinality({j \in Tokens : key(j) >= key(i)})
    BY <1>12, <1>15
  <1> QED
    BY <1>9, <1>10, <1>16

ParamIsServed == param \in [temperature : {0, 1}, topK : TopKs, topP : TopPs]

\* The parameters are numbers, and top_p no more than 1.0.
LEMMA ParamsAreNumbers ==
  ASSUME ParamIsServed
  PROVE  /\ param.topK \in Nat /\ param.topP \in Nat /\ param.topP <= TopPOne
         /\ Stored(param.topP) \in Nat /\ Stored(param.topP) <= TopPOne
  <1>1. param.topK \in Nat /\ param.topP \in 1 .. TopPOne
    BY SampleRowAssumption DEF ParamIsServed
  <1>2. param.topP \in Nat /\ param.topP <= TopPOne
    BY <1>1, Sizes
  <1>3. PICK p \in Nat : p = param.topP
    BY <1>2
  <1>4. p % FloatStep \in Nat /\ p % FloatStep <= p
    <2>1. p \div FloatStep \in Nat /\ p % FloatStep \in 0 .. FloatStep - 1
          /\ p = FloatStep * (p \div FloatStep) + (p % FloatStep)
      BY Sizes, Quotient
    <2>2. FloatStep * (p \div FloatStep) \in Nat
      BY <2>1, Sizes
    <2> QED
      BY <2>1, <2>2, Sizes
  <1> QED
    BY <1>1, <1>2, <1>3, <1>4, Sizes DEF Stored

\* How many tokens have a larger logit than token i.
LEMMA RanksAreCounts ==
  ASSUME LogitsAreBits, NEW i \in Tokens
  PROVE  LET larger == {j \in Tokens : Value(logits[j]) > Value(logits[i])}
         IN  /\ IsFiniteSet(larger) /\ Cardinality(larger) \in Nat
             /\ Cardinality(larger) < VocabSize
             /\ Cardinality(larger) = 0 <=> \A j \in Tokens : Value(logits[j]) <= Value(logits[i])
  <1> DEFINE larger == {j \in Tokens : Value(logits[j]) > Value(logits[i])}
  <1>1. larger \in SUBSET Tokens /\ i \notin larger
    BY LogitsHaveValues
  <1>2. larger # Tokens
    BY <1>1
  <1>3. IsFiniteSet(larger) /\ Cardinality(larger) \in Nat /\ Cardinality(larger) < VocabSize
    <2> HIDE DEF larger
    <2>1. /\ IsFiniteSet(larger) /\ Cardinality(larger) <= Cardinality(Tokens)
          /\ (Cardinality(larger) = Cardinality(Tokens) => larger = Tokens)
      BY <1>1, SetsAreFinite, FS_Subset
    <2> QED
      BY <1>2, <2>1, SetsAreFinite, FS_CardinalityType, Sizes
  <1>4. larger = {} <=> \A j \in Tokens : Value(logits[j]) <= Value(logits[i])
    BY LogitsHaveValues
  <1>5. Cardinality(larger) = 0 <=> larger = {}
    <2> HIDE DEF larger
    <2> QED
      BY <1>3, FS_EmptySet
  <1> QED
    BY <1>3, <1>4, <1>5

\* A cutoff that fewer than top_k logits exceed and at least top_k reach.
LEMMA KthKeyIsCutoff ==
  ASSUME LogitsAreBits, UsesTopK, HistogramsAreCounts, param.topK \in Nat
  PROVE  /\ TopKCutoff \in Int
         /\ \E i \in Tokens : TopKCutoff = Value(logits[i])
         /\ \A i \in Tokens : i \in KeptByTopK <=> Value(logits[i]) >= TopKCutoff
  <1>1. PICK c \in Tokens :
            /\ TopKCutoff = Value(logits[c])
            /\ Cardinality({j \in Tokens : Key(logits[j]) > Key(logits[c])}) < param.topK
            /\ param.topK <= Cardinality({j \in Tokens : Key(logits[j]) >= Key(logits[c])})
    BY CutoffIsKthKey
  <1> DEFINE v(j) == Value(logits[j])
             above == {j \in Tokens : v(j) > v(c)}
             least == {j \in Tokens : v(j) >= v(c)}
  <1>2. \A j \in Tokens : v(j) \in Int
    BY LogitsHaveValues
  <1>3. ASSUME NEW j \in Tokens
        PROVE  /\ Key(logits[j]) > Key(logits[c]) <=> v(j) > v(c)
               /\ Key(logits[j]) >= Key(logits[c]) <=> v(j) >= v(c)
    <2>1. logits[j] \in 0 .. Base * Base - 1 /\ logits[c] \in 0 .. Base * Base - 1
      BY LogitsHaveValues
    <2>2. /\ Key(logits[j]) \in Nat /\ Key(logits[c]) \in Nat
          /\ Key(logits[c]) < Key(logits[j]) <=> v(c) < v(j)
          /\ Key(logits[j]) < Key(logits[c]) <=> v(j) < v(c)
      BY <2>1, KeysOrder, KeyHasDigits
    <2>3. v(j) \in Int /\ v(c) \in Int
      BY <1>2
    <2> HIDE DEF v
    <2> QED
      BY <2>2, <2>3
  <1>4. /\ above = {j \in Tokens : Key(logits[j]) > Key(logits[c])}
        /\ least = {j \in Tokens : Key(logits[j]) >= Key(logits[c])}
    BY <1>3
  <1>5. Cardinality(above) < param.topK /\ param.topK <= Cardinality(least)
    BY <1>1, <1>4
  <1>6. /\ IsFiniteSet(above) /\ Cardinality(above) \in Nat
        /\ IsFiniteSet(least) /\ Cardinality(least) \in Nat
    <2>1. above \in SUBSET Tokens /\ least \in SUBSET Tokens
      OBVIOUS
    <2> HIDE DEF above, least
    <2> QED
      BY <2>1, SetsAreFinite, FS_Subset, FS_CardinalityType
  <1>7. ASSUME NEW i \in Tokens PROVE i \in KeptByTopK <=> v(i) >= v(c)
    <2> DEFINE larger == {j \in Tokens : v(j) > v(i)}
    <2>1. IsFiniteSet(larger) /\ Cardinality(larger) \in Nat
      BY RanksAreCounts
    <2>2. i \in KeptByTopK <=> Cardinality(larger) < param.topK
      BY DEF KeptByTopK, UsesTopK
    <2>3. CASE v(i) >= v(c)
      <3>1. larger \in SUBSET above
        BY <1>2, <2>3
      <3>2. Cardinality(larger) <= Cardinality(above)
        <4> HIDE DEF larger, above
        <4> QED
          BY <1>6, <3>1, FS_Subset
      <3>3. Cardinality(larger) < param.topK
        <4> HIDE DEF larger, above
        <4> QED
          BY <1>5, <1>6, <2>1, <3>2
      <3> QED
        BY <2>2, <2>3, <3>3
    <2>4. CASE ~ (v(i) >= v(c))
      <3>1. least \in SUBSET larger
        BY <1>2, <2>4
      <3>2. Cardinality(least) <= Cardinality(larger)
        <4> HIDE DEF larger, least
        <4> QED
          BY <2>1, <3>1, FS_Subset
      <3>3. ~ (Cardinality(larger) < param.topK)
        <4> HIDE DEF larger, least
        <4> QED
          BY <1>5, <1>6, <2>1, <3>2
      <3> QED
        BY <2>2, <2>4, <3>3
    <2> QED
      BY <2>3, <2>4
  <1> QED
    BY <1>1, <1>2, <1>7

Cutoff ==
    CASE param.topK = 1 -> Value(logits[Best])
      [] param.topK > 1 /\ param.topK < VocabSize -> TopKCutoff
      [] OTHER -> LowestValue

\* What top_k keeps is what is largest or reaches the cutoff.
CutoffKeeps(c) ==
    /\ c \in Int
    /\ \A i \in Tokens :
          i \in KeptByTopK <=> \/ Value(logits[i]) = Value(logits[Best])
                               \/ Value(logits[i]) >= c

\* The cutoff keeps the top k in every case: one, some or all.
LEMMA CutoffKeepsTopK ==
  ASSUME LogitsAreBits, RangesAreMerged, HistogramsAreCounts, ParamIsServed,
         param.temperature # 0
  PROVE  CutoffKeeps(Cutoff)
  <1>1. param.topK \in Nat
    BY ParamsAreNumbers
  <1>2. Best \in Tokens /\ \A j \in Tokens : Value(logits[j]) <= Value(logits[Best])
    BY BestIsLargest
  <1>3. CASE param.topK = 1
    <2>1. Cutoff = Value(logits[Best])
      BY <1>3 DEF Cutoff
    <2>2. Value(logits[Best]) \in Int
      BY <1>2, LogitsHaveValues
    <2>3. ASSUME NEW i \in Tokens
          PROVE  i \in KeptByTopK <=> Value(logits[i]) >= Value(logits[Best])
      <3>1. i \in KeptByTopK <=> \A j \in Tokens : Value(logits[j]) <= Value(logits[i])
        <4>1. /\ Cardinality({j \in Tokens : Value(logits[j]) > Value(logits[i])}) \in Nat
              /\ Cardinality({j \in Tokens : Value(logits[j]) > Value(logits[i])}) = 0
                   <=> \A j \in Tokens : Value(logits[j]) <= Value(logits[i])
          BY RanksAreCounts
        <4>2. i \in KeptByTopK
                <=> Cardinality({j \in Tokens : Value(logits[j]) > Value(logits[i])}) < 1
          BY <1>3 DEF KeptByTopK
        <4> QED
          BY <4>1, <4>2
      <3>2. (\A j \in Tokens : Value(logits[j]) <= Value(logits[i]))
              <=> Value(logits[i]) >= Value(logits[Best])
        BY <1>2, LogitsHaveValues
      <3> QED
        BY <3>1, <3>2
    <2> QED
      BY <2>1, <2>2, <2>3 DEF CutoffKeeps
  <1>4. CASE param.topK > 1 /\ param.topK < VocabSize
    <2>1. Cutoff = TopKCutoff
      BY <1>1, <1>4 DEF Cutoff
    <2>2. UsesTopK
      BY <1>4 DEF UsesTopK
    <2>3. /\ TopKCutoff \in Int
          /\ \E i \in Tokens : TopKCutoff = Value(logits[i])
          /\ \A i \in Tokens : i \in KeptByTopK <=> Value(logits[i]) >= TopKCutoff
      BY <1>1, <2>2, KthKeyIsCutoff
    <2>4. Value(logits[Best]) >= TopKCutoff
      BY <1>2, <2>3, LogitsHaveValues
    <2> QED
      BY <2>1, <2>3, <2>4 DEF CutoffKeeps
  <1>5. CASE param.topK = 0 \/ ~ (param.topK < VocabSize)
    <2>1. Cutoff = LowestValue \/ param.topK = 1
      BY <1>1, <1>5, Sizes DEF Cutoff
    <2>2. LowestValue \in Int
      BY SignBitFacts DEF LowestValue
    <2>3. \A i \in Tokens : Value(logits[i]) >= LowestValue
      BY <2>2, LogitsHaveValues
    <2>4. ASSUME NEW i \in Tokens PROVE i \in KeptByTopK
      <3>1. /\ Cardinality({j \in Tokens : Value(logits[j]) > Value(logits[i])}) \in Nat
            /\ Cardinality({j \in Tokens : Value(logits[j]) > Value(logits[i])}) < VocabSize
        BY RanksAreCounts
      <3>2. \/ param.topK = 0
            \/ Cardinality({j \in Tokens : Value(logits[j]) > Value(logits[i])}) < param.topK
        BY <1>1, <1>5, <3>1, Sizes
      <3> QED
        BY <3>2 DEF KeptByTopK
    <2> QED
      BY <1>3, <2>1, <2>2, <2>3, <2>4 DEF CutoffKeeps
  <1> QED
    BY <1>1, <1>3, <1>4, <1>5, Sizes

-----------------------------------------------------------------------------
(***************************************************************************)
(* Weights and their masses.                                               *)
(***************************************************************************)

\* What is kept has its logit's weight, the largest logit 1.0f, the rest none.
LEMMA WeightsOfTopK ==
  ASSUME LogitsAreBits, RangesAreMerged, CutoffKeeps(cutoff)
  PROVE  /\ Weight(Best) = One
         /\ \A i \in Tokens :
               /\ Weight(i) \in Nat
               /\ Weight(i) = IF i \in KeptByTopK
                              THEN Exp(Value(logits[Best]) - Value(logits[i]))
                              ELSE 0
  <1>1. Best \in Tokens /\ \A j \in Tokens : Value(logits[j]) <= Value(logits[Best])
    BY BestIsLargest
  <1>2. Weight(Best) = One
    BY DEF Weight
  <1>3. ASSUME NEW i \in Tokens
        PROVE  /\ Weight(i) \in Nat
               /\ Weight(i) = IF i \in KeptByTopK
                              THEN Exp(Value(logits[Best]) - Value(logits[i]))
                              ELSE 0
    <2>1. PICK d \in Nat : d = Value(logits[Best]) - Value(logits[i])
      BY <1>1, LogitsHaveValues
    <2>2. Exp(d) \in Nat /\ (d = 0 => Exp(d) = One) /\ One \in Nat
      BY ExpIsNat, Sizes
    <2>3. Value(logits[i]) = Value(logits[Best]) <=> d = 0
      BY <1>1, <2>1, LogitsHaveValues
    <2>4. i \in KeptByTopK <=> \/ Value(logits[i]) = Value(logits[Best])
                               \/ Value(logits[i]) >= cutoff
      BY DEF CutoffKeeps
    <2>5. CASE Value(logits[i]) = Value(logits[Best])
      <3>1. Weight(i) = One
        BY <2>5 DEF Weight
      <3> QED
        BY <2>1, <2>2, <2>3, <2>4, <2>5, <3>1
    <2>6. CASE Value(logits[i]) # Value(logits[Best]) /\ Value(logits[i]) >= cutoff
      <3>1. Weight(i) = Exp(d)
        BY <2>1, <2>6 DEF Weight
      <3> QED
        BY <2>1, <2>2, <2>4, <2>6, <3>1
    <2>7. CASE Value(logits[i]) # Value(logits[Best]) /\ ~ (Value(logits[i]) >= cutoff)
      <3>1. Weight(i) = 0
        BY <2>7 DEF Weight
      <3> QED
        BY <2>4, <2>7, <3>1
    <2> QED
      BY <2>5, <2>6, <2>7
  <1> QED
    BY <1>2, <1>3

\* What sums to nothing can be left out.
LEMMA SumOfPositive ==
  ASSUME NEW S, IsFiniteSet(S), NEW A \in SUBSET S, NEW f, \A x \in S : f[x] \in Nat,
         \A x \in S : x \notin A => f[x] = 0
  PROVE  Sum(f, A) = Sum(f, S)
  <1> DEFINE T == {s \in SUBSET (S \ A) : Sum(f, s) = 0}
             Z == S \ A
  <1>1. IsFiniteSet(Z) /\ IsFiniteSet(A)
    BY FS_Subset
  <1>2. ASSUME NEW s \in SUBSET Z, \A r \in SUBSET s : r # s => r \in T
        PROVE  s \in T
    <2>1. IsFiniteSet(s) /\ \A y \in s : f[y] \in Nat /\ f[y] = 0
      BY <1>1, FS_Subset
    <2>2. CASE s = {}
      BY <2>1, <2>2, SumSteps
    <2>3. CASE s # {}
      <3>1. Picked(s) \in s /\ s \ {Picked(s)} \in SUBSET s /\ s \ {Picked(s)} # s
        BY <2>1, <2>3, PickedIn
      <3>2. Sum(f, s) = f[Picked(s)] + Sum(f, s \ {Picked(s)})
        BY <2>1, <2>3, SumSteps
      <3>3. Sum(f, s \ {Picked(s)}) = 0
        BY <1>2, <3>1
      <3> QED
        BY <2>1, <3>1, <3>2, <3>3
    <2> QED
      BY <2>2, <2>3
  <1>3. \A s \in SUBSET Z : s \in T
    <2> HIDE DEF T, Z
    <2> QED
      BY <1>1, <1>2, SubsetInduction
  <1>4. Sum(f, Z) = 0
    BY <1>3
  <1>5. A \cup Z = S /\ A \cap Z = {}
    OBVIOUS
  <1> HIDE DEF T, Z
  <1>6. Sum(f, A \cup Z) = Sum(f, A) + Sum(f, Z)
    BY <1>1, <1>5, SumUnion
  <1>7. Sum(f, A) \in Nat
    BY SumOfPart
  <1> QED
    BY <1>4, <1>5, <1>6, <1>7

\* The mass above a bound shrinks as the bound grows.
LEMMA MassesAreBounded ==
  ASSUME NEW w \in [Tokens -> Nat], NEW S \in SUBSET Tokens
  PROVE  /\ Sum(w, S) \in Nat
         /\ \A b \in Int : MassAbove(w, b, S) \in Nat
         /\ \A b, c \in Int : b <= c => MassAbove(w, c, S) <= MassAbove(w, b, S)
         /\ MassAbove(w, 0, S) = Sum(w, S)
         /\ \A i \in S : MassAbove(w, w[i], S) + w[i] <= Sum(w, S)
  <1> DEFINE part(b) == {i \in S : w[i] > b}
  <1>1. IsFiniteSet(S) /\ \A i \in S : w[i] \in Nat
    BY SetsAreFinite, FS_Subset
  <1>2. \A b : MassAbove(w, b, S) = Sum(w, part(b))
    BY DEF MassAbove
  <1>3. \A b : part(b) \in SUBSET S
    OBVIOUS
  <1>4. \A b, c \in Int : b <= c => part(c) \in SUBSET part(b)
    BY <1>1
  <1>5. \A i \in S : i \notin part(0) => w[i] = 0
    BY <1>1
  <1>6. \A i \in S : i \notin part(w[i])
    BY <1>1
  <1> HIDE DEF part
  <1>7. \A b : IsFiniteSet(part(b)) /\ \A i \in part(b) : w[i] \in Nat
    BY <1>1, <1>3, FS_Subset
  <1>8. ASSUME NEW b \in Int, NEW c \in Int, b <= c
        PROVE  MassAbove(w, c, S) <= MassAbove(w, b, S)
    <2>1. part(c) \in SUBSET part(b)
      BY <1>4, <1>8
    <2>2. Sum(w, part(c)) <= Sum(w, part(b))
      BY <1>7, <2>1, SumOfPart
    <2> QED
      BY <1>2, <2>2
  <1>9. MassAbove(w, 0, S) = Sum(w, S)
    BY <1>1, <1>2, <1>3, <1>5, SumOfPositive
  <1>10. ASSUME NEW i \in S PROVE MassAbove(w, w[i], S) + w[i] <= Sum(w, S)
    BY <1>1, <1>2, <1>3, <1>6, SumOfPart
  <1>11. Sum(w, S) \in Nat /\ \A b : Sum(w, part(b)) \in Nat
    BY <1>1, <1>3, SumOfPart
  <1> QED
    BY <1>2, <1>8, <1>9, <1>10, <1>11

-----------------------------------------------------------------------------
(***************************************************************************)
(* What holds of the row at every step.                                    *)
(***************************************************************************)
InputInv ==
    /\ pc \in {"prepare", "select", "weigh", "draw", "judge", "done"}
    /\ LogitsAreBits /\ ParamIsServed

RangesInv == pc # "prepare" => RangesAreMerged /\ HistogramsAreCounts

CutoffInv ==
    pc \in {"weigh", "draw", "judge"} =>
        param.temperature # 0 /\ CutoffKeeps(cutoff)

\* low has only been raised where what is above it still reaches top_p.
MassInv ==
    pc \in {"draw", "judge"} =>
        /\ row = [i \in Tokens |-> Weight(i)]
        /\ low \in Nat /\ high \in Nat
        /\ threadMass = [t \in Threads |-> MassAbove(row, low, Mine(t))]
        /\ target = Stored(param.topP) * Sum(row, Tokens)
        /\ low = 0 \/ Reaches(MassAbove(row, low, Tokens))

CandidateInv == pc = "judge" => candidate \in Tokens /\ row[candidate] > 0

OutputInv ==
    pc = "done" =>
         IF param.temperature = 0
         THEN \A j \in Tokens : Value(logits[j]) <= Value(logits[output])
         ELSE output \in Nucleus

RowInv ==
    /\ InputInv
    /\ RangesInv
    /\ CutoffInv
    /\ MassInv
    /\ CandidateInv
    /\ OutputInv

\* While tokens are drawn, the row's weights are numbers and Best's is 1.0f.
LEMMA RowIsNat ==
  ASSUME RowInv, pc \in {"draw", "judge"}
  PROVE  /\ row \in [Tokens -> Nat]
         /\ \A i \in Tokens : row[i] = Weight(i)
         /\ Best \in Tokens /\ row[Best] = One
  <1>1. /\ LogitsAreBits /\ RangesAreMerged /\ CutoffKeeps(cutoff)
        /\ row = [i \in Tokens |-> Weight(i)]
    BY DEF RowInv, InputInv, RangesInv, CutoffInv, MassInv
  <1>2. Weight(Best) = One /\ \A i \in Tokens : Weight(i) \in Nat
    BY <1>1, WeightsOfTopK
  <1>3. Best \in Tokens
    BY <1>1, BestIsLargest
  <1> QED
    BY <1>1, <1>2, <1>3

\* A row starts with what it must.
LEMMA InitRowInv == Init => RowInv
  BY DEF Init, RowInv, InputInv, RangesInv, CutoffInv, MassInv, CandidateInv, OutputInv,
         LogitsAreBits, ParamIsServed

\* Each step keeps it.
LEMMA PrepareLogitsKeepsRowInv ==
  ASSUME RowInv, PrepareLogits
  PROVE  RowInv'
  <1>1. /\ pc = "prepare" /\ pc' = "select"
        /\ UNCHANGED <<logits, param>>
        /\ ranges' = [t \in Tiles |-> MergeRange(Tile(t))]
        /\ histograms' = IF UsesTopK THEN [t \in Tiles |-> TileHistogram(t)] ELSE histograms
    BY DEF PrepareLogits
  <1>2. InputInv'
    BY <1>1 DEF RowInv, InputInv, LogitsAreBits, ParamIsServed
  <1>3. RangesAreMerged'
    BY <1>1 DEF RangesAreMerged, MergeRange
  <1>4. HistogramsAreCounts'
    BY <1>1 DEF HistogramsAreCounts, UsesTopK, TileHistogram
  <1> QED
    BY <1>1, <1>2, <1>3, <1>4 DEF RowInv, RangesInv, CutoffInv, MassInv, CandidateInv, OutputInv

\* What the later steps leave alone.
LEMMA RangesStay ==
  ASSUME RowInv, UNCHANGED <<logits, param, ranges, histograms>>, pc # "prepare",
         pc' \in {"select", "weigh", "draw", "judge", "done"}
  PROVE  InputInv' /\ RangesInv' /\ Best' = Best
  BY DEF RowInv, InputInv, RangesInv, LogitsAreBits, ParamIsServed, RangesAreMerged,
         HistogramsAreCounts, UsesTopK, TileHistogram, MergeRange, Best

LEMMA GreedyRowKeepsRowInv ==
  ASSUME RowInv, GreedyRow
  PROVE  RowInv'
  <1>1. /\ pc = "select" /\ pc' = "done" /\ param.temperature = 0
        /\ UNCHANGED <<logits, param, ranges, histograms>>
        /\ output' = Best
    BY DEF GreedyRow
  <1>2. \A j \in Tokens : Value(logits[j]) <= Value(logits[Best])
    BY <1>1, BestIsLargest DEF RowInv, InputInv, RangesInv
  <1> QED
    BY <1>1, <1>2, RangesStay DEF RowInv, CutoffInv, MassInv, CandidateInv, OutputInv

LEMMA SelectCutoffKeepsRowInv ==
  ASSUME RowInv, SelectCutoff
  PROVE  RowInv'
  <1>1. /\ pc = "select" /\ pc' = "weigh" /\ param.temperature # 0
        /\ UNCHANGED <<logits, param, ranges, histograms>>
        /\ cutoff' = Cutoff
    BY DEF SelectCutoff, Cutoff
  <1>2. CutoffKeeps(Cutoff)
    BY <1>1, CutoffKeepsTopK DEF RowInv, InputInv, RangesInv
  <1>3. CutoffKeeps(cutoff)'
    BY <1>1, <1>2, RangesStay DEF CutoffKeeps, KeptByTopK
  <1> QED
    BY <1>1, <1>3, RangesStay DEF RowInv, CutoffInv, MassInv, CandidateInv, OutputInv

LEMMA WeighRowKeepsRowInv ==
  ASSUME RowInv, WeighRow
  PROVE  RowInv'
  <1>1. /\ pc = "weigh" /\ pc' = "draw"
        /\ UNCHANGED <<logits, param, ranges, histograms, cutoff>>
        /\ row' = [i \in Tokens |-> Weight(i)]
        /\ threadMass' = [t \in Threads |-> Sum(row', Mine(t))]
        /\ low' = 0 /\ high' = One
        /\ target' = Stored(param.topP) * Sum(row', Tokens)
    BY DEF WeighRow
  <1>2. param.temperature # 0 /\ CutoffKeeps(cutoff) /\ LogitsAreBits /\ RangesAreMerged
    BY <1>1 DEF RowInv, InputInv, RangesInv, CutoffInv
  <1>3. Best' = Best /\ InputInv' /\ RangesInv'
    BY <1>1, RangesStay
  <1>4. CutoffKeeps(cutoff)'
    BY <1>1, <1>2, <1>3 DEF CutoffKeeps, KeptByTopK
  <1>5. row' = [i \in Tokens |-> Weight(i)']
    BY <1>1, <1>3 DEF Weight
  <1>6. row' \in [Tokens -> Nat]
    BY <1>1, <1>2, WeightsOfTopK
  <1>7. ASSUME NEW t \in Threads PROVE Sum(row', Mine(t)) = MassAbove(row', 0, Mine(t))
    <2> DEFINE w == row'
    <2>1. Mine(t) \in SUBSET Tokens
      BY DEF Mine
    <2> HIDE DEF w
    <2>2. w \in [Tokens -> Nat]
      BY <1>6 DEF w
    <2>3. MassAbove(w, 0, Mine(t)) = Sum(w, Mine(t))
      BY <2>1, <2>2, MassesAreBounded
    <2> QED
      BY <2>3 DEF w
  <1>8. threadMass' = [t \in Threads |-> MassAbove(row', low', Mine(t))]
    BY <1>1, <1>7
  <1>9. MassInv'
    BY <1>1, <1>5, <1>8, Sizes DEF MassInv
  <1> QED
    BY <1>1, <1>2, <1>3, <1>4, <1>9 DEF RowInv, CutoffInv, CandidateInv, OutputInv

\* What stays while tokens are drawn and judged.
LEMMA WeightsStay ==
  ASSUME RowInv, pc \in {"draw", "judge"}, pc' \in {"draw", "judge", "done"},
         UNCHANGED <<logits, param, ranges, histograms, cutoff, row, target>>
  PROVE  /\ InputInv' /\ RangesInv' /\ CutoffInv'
         /\ row' = [i \in Tokens |-> Weight(i)']
         /\ target' = Stored(param'.topP) * Sum(row', Tokens)
         /\ \A m : Reaches(m)' <=> Reaches(m)
  <1>1. Best' = Best /\ InputInv' /\ RangesInv'
    BY RangesStay
  <1>2. CutoffInv'
    BY <1>1 DEF RowInv, CutoffInv, CutoffKeeps, KeptByTopK
  <1>3. row' = [i \in Tokens |-> Weight(i)']
    BY <1>1 DEF RowInv, MassInv, Weight
  <1> QED
    BY <1>1, <1>2, <1>3 DEF RowInv, MassInv, Reaches

\* A token drawn still has weight above the cutoff.
LEMMA DrawnIsLive ==
  ASSUME RowInv, pc = "draw", NEW u, Drawn(u) # {}
  PROVE  Min(Drawn(u)) \in Tokens /\ row[Min(Drawn(u))] > low
  <1>1. Drawn(u) \in SUBSET Live
    BY DEF Drawn, Hits
  <1>2. Drawn(u) \in SUBSET Nat
    BY <1>1, SetsAreFinite DEF Live
  <1>3. \E x \in Drawn(u) : \A y \in Drawn(u) : x =< y
    BY <1>2, LeastIndex
  <1>4. Min(Drawn(u)) \in Drawn(u)
    BY <1>3 DEF Min
  <1> QED
    BY <1>1, <1>4 DEF Live

LEMMA DrawTokenKeepsRowInv ==
  ASSUME RowInv, DrawToken
  PROVE  RowInv'
  <1>1. /\ pc = "draw" /\ pc' = "judge"
        /\ UNCHANGED <<logits, param, ranges, histograms, cutoff, row, low, high,
                       threadMass, target>>
    BY DEF DrawToken
  <1>2. candidate' \in Tokens /\ row[candidate'] > 0
    <2>1. CASE candidate' = Best
      <3>1. Best \in Tokens /\ row[Best] = One
        BY <1>1, RowIsNat
      <3> QED
        BY <2>1, <3>1, Sizes
    <2>2. CASE candidate' # Best
      <3>1. PICK hits \in {Drawn(u) : u \in 0 .. Total - 1} : hits # {} /\ candidate' = Min(hits)
        BY <2>2 DEF DrawToken
      <3>2. candidate' \in Tokens /\ row[candidate'] > low
        BY <1>1, <3>1, DrawnIsLive
      <3>3. low \in Nat /\ row \in [Tokens -> Nat]
        BY <1>1, RowIsNat DEF RowInv, MassInv
      <3> QED
        BY <3>2, <3>3
    <2> QED
      BY <2>1, <2>2
  <1>3. /\ InputInv' /\ RangesInv' /\ CutoffInv'
        /\ row' = [i \in Tokens |-> Weight(i)']
        /\ target' = Stored(param'.topP) * Sum(row', Tokens)
        /\ \A m : Reaches(m)' <=> Reaches(m)
    BY <1>1, WeightsStay
  <1>4. low \in Nat /\ high \in Nat /\ (low = 0 \/ Reaches(MassAbove(row, low, Tokens)))
    BY <1>1 DEF RowInv, MassInv
  <1>5. threadMass = [t \in Threads |-> MassAbove(row, low, Mine(t))]
    BY <1>1 DEF RowInv, MassInv
  <1>6. MassInv'
    BY <1>1, <1>3, <1>4, <1>5 DEF MassInv, Reaches
  <1> QED
    BY <1>1, <1>2, <1>3, <1>6 DEF RowInv, CandidateInv, OutputInv

\* An accepted candidate is in the nucleus.
LEMMA AcceptedIsInNucleus ==
  ASSUME RowInv, pc = "judge", Accepted
  PROVE  candidate \in Nucleus
  <1>1. /\ candidate \in Tokens /\ row[candidate] > 0
        /\ row \in [Tokens -> Nat]
        /\ target = Stored(param.topP) * Sum(row, Tokens)
    BY RowIsNat DEF RowInv, CandidateInv, MassInv
  <1>2. PICK m, s, p \in Nat : /\ m = MassAbove(row, row[candidate], Tokens)
                               /\ s = Sum(row, Tokens)
                               /\ p = row[candidate]
    BY <1>1, MassesAreBounded
  <1>3. m + p <= s /\ p # 0
    BY <1>1, <1>2, MassesAreBounded
  <1>4. PICK q \in Nat : q = Stored(param.topP)
    BY ParamsAreNumbers DEF RowInv, InputInv
  <1>5. m * TopPOne < q * s
    <2>1. CASE q = TopPOne
      <3>1. PICK d \in Nat \ {0} : s = m + d
        <4>1. s - m \in Nat \ {0} /\ s = m + (s - m)
          BY <1>3
        <4> QED
          BY <4>1
      <3>2. q * s = m * TopPOne + d * TopPOne
        BY <2>1, <3>1, Sizes
      <3>3. d * TopPOne \in Nat \ {0} /\ m * TopPOne \in Nat
        BY Sizes
      <3> QED
        BY <3>2, <3>3
    <2>2. CASE q # TopPOne
      <3>1. ~ Reaches(m)
        BY <1>2, <1>4, <2>2 DEF Accepted, Pivot
      <3>2. ~ (m * TopPOne >= q * s)
        BY <1>1, <1>2, <1>4, <3>1 DEF Reaches
      <3>3. m * TopPOne \in Nat /\ q * s \in Nat
        BY Sizes
      <3> QED
        BY <3>2, <3>3
    <2> QED
      BY <2>1, <2>2
  <1> QED
    BY <1>1, <1>2, <1>4, <1>5 DEF Nucleus

LEMMA ReturnTokenKeepsRowInv ==
  ASSUME RowInv, ReturnToken
  PROVE  RowInv'
  <1>1. /\ pc = "judge" /\ pc' = "done" /\ Accepted
        /\ UNCHANGED <<logits, param, ranges, histograms, cutoff, row, target>>
        /\ output' = candidate
    BY DEF ReturnToken
  <1>2. candidate \in Nucleus /\ param.temperature # 0
    BY <1>1, AcceptedIsInNucleus DEF RowInv, CutoffInv
  <1>3. Nucleus' = Nucleus
    BY <1>1 DEF Nucleus
  <1>4. InputInv' /\ RangesInv' /\ CutoffInv'
    BY <1>1, WeightsStay
  <1> QED
    BY <1>1, <1>2, <1>3, <1>4 DEF RowInv, MassInv, CandidateInv, OutputInv

\* The cutoff rises to where what is above it still reaches top_p.
LEMMA RaisingKeepsRowInv ==
  ASSUME RowInv, pc = "judge", pc' = "draw", NEW bound \in Nat, NEW top \in Nat,
         UNCHANGED <<logits, param, ranges, histograms, cutoff, row, target>>,
         low' = bound, high' = top,
         threadMass' = [t \in Threads |-> MassAbove(row, bound, Mine(t))],
         Reaches(MassAbove(row, bound, Tokens))
  PROVE  RowInv'
  <1>1. /\ InputInv' /\ RangesInv' /\ CutoffInv'
        /\ row' = [i \in Tokens |-> Weight(i)']
        /\ target' = Stored(param'.topP) * Sum(row', Tokens)
        /\ \A m : Reaches(m)' <=> Reaches(m)
    BY WeightsStay
  <1>2. MassInv'
    BY <1>1 DEF MassInv, Reaches
  <1> QED
    BY <1>1, <1>2 DEF RowInv, CandidateInv, OutputInv

\* Pivot and midpoint are weights.
LEMMA BoundsAreNat ==
  ASSUME RowInv, pc = "judge"
  PROVE  Pivot \in Nat /\ Midpoint \in Nat /\ high \in Nat
  <1>1. candidate \in Tokens /\ row \in [Tokens -> Nat] /\ high \in Nat
    BY RowIsNat DEF RowInv, CandidateInv, MassInv
  <1>2. PICK s \in Nat : s = Pivot + high
    BY <1>1 DEF Pivot
  <1>3. s \div 2 \in Nat
    OBVIOUS
  <1> QED
    BY <1>1, <1>2, <1>3 DEF Pivot, Midpoint

LEMMA NarrowToPivotKeepsRowInv ==
  ASSUME RowInv, NarrowToPivot
  PROVE  RowInv'
  <1>1. /\ pc = "judge" /\ pc' = "draw" /\ ~Accepted
        /\ UNCHANGED <<logits, param, ranges, histograms, cutoff, row, target>>
        /\ low' = Pivot /\ high' = Midpoint
        /\ threadMass' = [t \in Threads |-> MassAbove(row, Pivot, Mine(t))]
    BY DEF NarrowToPivot
  <1>2. Reaches(MassAbove(row, Pivot, Tokens))
    BY <1>1 DEF Accepted
  <1> QED
    BY <1>1, <1>2, BoundsAreNat, RaisingKeepsRowInv

LEMMA RaiseToMidpointKeepsRowInv ==
  ASSUME RowInv, RaiseToMidpoint
  PROVE  RowInv'
  <1>1. /\ pc = "judge" /\ pc' = "draw"
        /\ UNCHANGED <<logits, param, ranges, histograms, cutoff, row, target>>
        /\ low' = Midpoint /\ high' = high
        /\ threadMass' = [t \in Threads |-> MassAbove(row, Midpoint, Mine(t))]
        /\ Reaches(MassAbove(row, Midpoint, Tokens))
    BY DEF RaiseToMidpoint
  <1> QED
    BY <1>1, BoundsAreNat, RaisingKeepsRowInv

\* Together: the invariant of the row.
LEMMA RowInvIsInductive ==
  ASSUME RowInv, [Next]_vars
  PROVE  RowInv'
  <1>1. CASE UNCHANGED vars
    <2>1. UNCHANGED <<pc, logits, param, ranges, histograms, cutoff, row, low, high,
                      threadMass, target, candidate, output>>
      BY <1>1 DEF vars
    <2>2. InputInv' /\ RangesInv'
      BY <2>1 DEF RowInv, InputInv, RangesInv, LogitsAreBits, ParamIsServed, RangesAreMerged,
                  HistogramsAreCounts, UsesTopK, TileHistogram, MergeRange
    <2>3. Best' = Best
      BY <2>1 DEF Best, MergeRange
    <2>4. CutoffInv'
      BY <2>1, <2>3 DEF RowInv, CutoffInv, CutoffKeeps, KeptByTopK
    <2>5. MassInv'
      BY <2>1, <2>3 DEF RowInv, MassInv, Weight, Reaches
    <2>6. CandidateInv' /\ OutputInv'
      BY <2>1 DEF RowInv, CandidateInv, OutputInv, Nucleus
    <2> QED
      BY <2>2, <2>4, <2>5, <2>6 DEF RowInv
  <1>2. CASE Next
    BY <1>2, PrepareLogitsKeepsRowInv, GreedyRowKeepsRowInv, SelectCutoffKeepsRowInv,
       WeighRowKeepsRowInv, DrawTokenKeepsRowInv, ReturnTokenKeepsRowInv,
       NarrowToPivotKeepsRowInv, RaiseToMidpointKeepsRowInv DEF Next
  <1> QED
    BY <1>1, <1>2

LEMMA RowInvHolds == Spec => []RowInv
  <1>1. RowInv /\ [Next]_vars => RowInv'
    BY RowInvIsInductive
  <1> QED
    BY <1>1, InitRowInv, PTL DEF Spec

\* For every vocabulary, tile and digit size: when tokens are drawn from the
\* row, a token has its logit's weight if fewer than top_k logits are larger,
\* ties at the boundary included, and none otherwise, as sampler.cu:214 says.
THEOREM RowTopKIsExact == Spec => []TopKIsExact
  <1>1. ASSUME RowInv PROVE TopKIsExact
    <2> SUFFICES ASSUME pc \in {"draw", "judge"}, NEW i \in Tokens
                 PROVE  row[i] = IF i \in KeptByTopK
                                 THEN Exp(Max({Value(logits[j]) : j \in Tokens})
                                            - Value(logits[i]))
                                 ELSE 0
      BY DEF TopKIsExact
    <2>1. LogitsAreBits /\ RangesAreMerged /\ CutoffKeeps(cutoff)
      BY <1>1 DEF RowInv, InputInv, RangesInv, CutoffInv
    <2>2. row[i] = IF i \in KeptByTopK
                   THEN Exp(Value(logits[Best]) - Value(logits[i]))
                   ELSE 0
      BY <1>1, <2>1, RowIsNat, WeightsOfTopK
    <2> DEFINE values == {Value(logits[j]) : j \in Tokens}
               best == Value(logits[Best])
    <2>3. best \in values /\ \A x \in values : x \in Int /\ best >= x
      BY <2>1, BestIsLargest, LogitsHaveValues
    <2>4. Max(values) = best
      <3> HIDE DEF values, best
      <3>1. Max(values) \in values /\ \A y \in values : Max(values) >= y
        BY <2>3 DEF Max
      <3> QED
        BY <2>3, <3>1
    <2> QED
      BY <2>2, <2>4
  <1> QED
    BY <1>1, RowInvHolds, PTL

\* For every row, top_p and sequence of draws, rejection (sampler.cu:296) never
\* excludes a token of the nucleus and returns one of the nucleus; a greedy row
\* returns a largest logit.
THEOREM RowNucleusIsSampled == Spec => []NucleusIsSampled
  <1>1. ASSUME RowInv PROVE NucleusIsSampled
    <2>1. ASSUME pc \in {"draw", "judge"}, NEW i \in Nucleus
          PROVE  row[i] > low
      <3>1. /\ i \in Tokens /\ row[i] > 0
            /\ MassAbove(row, row[i], Tokens) * TopPOne < Stored(param.topP) * Sum(row, Tokens)
        BY DEF Nucleus
      <3>2. /\ row \in [Tokens -> Nat] /\ low \in Nat
            /\ target = Stored(param.topP) * Sum(row, Tokens)
            /\ low = 0 \/ Reaches(MassAbove(row, low, Tokens))
        BY <1>1, <2>1, RowIsNat DEF RowInv, MassInv
      <3>3. CASE low = 0
        BY <3>1, <3>3
      <3>4. CASE low # 0
        <4>1. PICK m, n \in Nat : /\ m = MassAbove(row, row[i], Tokens)
                                  /\ n = MassAbove(row, low, Tokens)
          BY <3>1, <3>2, MassesAreBounded
        <4>2. row[i] <= low => n <= m
          BY <3>1, <3>2, <4>1, MassesAreBounded
        <4>3. n * TopPOne >= target /\ m * TopPOne < target
          BY <3>1, <3>2, <3>4, <4>1 DEF Reaches
        <4>4. target \in Nat
          BY <1>1, <3>2, MassesAreBounded, ParamsAreNumbers DEF RowInv, InputInv
        <4>5. ~ (n <= m)
          <5>1. n <= m => n * TopPOne <= m * TopPOne
            BY Sizes
          <5>2. n * TopPOne \in Nat /\ m * TopPOne \in Nat
            BY Sizes
          <5> QED
            BY <4>3, <4>4, <5>1, <5>2
        <4> QED
          BY <3>1, <3>2, <4>2, <4>5
      <3> QED
        BY <3>3, <3>4
    <2> QED
      BY <1>1, <2>1 DEF NucleusIsSampled, RowInv, OutputInv
  <1> QED
    BY <1>1, RowInvHolds, PTL

-----------------------------------------------------------------------------
(***************************************************************************)
(* The draw.  A token's groups lie one round apart, so one thread's bucket *)
(* deals out exactly its own tokens, each before the later ones.           *)
(***************************************************************************)

\* The groups dealt out of bucket b are those thread b loads, one a round.
LEMMA GroupsAreRounds ==
  ASSUME NEW b \in Threads, NEW n \in Nat
  PROVE  /\ Group(b, n) \in Nat /\ Group(b, n) >= n
         /\ Group(b, n) \div NumThreads = n
         /\ Group(b, n) % NumThreads = b
  <1>1. PICK r \in 0 .. NumThreads - 1, q \in Nat :
            r = n % NumThreads /\ q = n \div NumThreads /\ n = NumThreads * q + r
    BY Sizes, Quotient
  <1>2. b \in Nat /\ b < NumThreads
    BY Sizes DEF Threads
  <1>3. PICK m \in Nat : m = NumThreads * n
    BY Sizes
  <1>4. Group(b, n) = b + m
    <2>1. Group(b, n) = b + r * NumThreads + q * NumThreads * NumThreads
      BY <1>1 DEF Group
    <2>2. r \in Nat
      BY <1>1, Sizes
    <2>3. NumThreads * (NumThreads * q + r) = r * NumThreads + q * NumThreads * NumThreads
      BY <1>1, <2>2, Sizes
    <2>4. r * NumThreads \in Nat /\ q * NumThreads * NumThreads \in Nat
      BY <1>1, <2>2, Sizes
    <2> QED
      BY <1>1, <1>2, <1>3, <2>1, <2>3, <2>4
  <1>5. m >= n
    <2>1. PICK k \in Nat : NumThreads = k + 1
      <3>1. NumThreads - 1 \in Nat /\ NumThreads = (NumThreads - 1) + 1
        BY Sizes
      <3> QED
        BY <3>1
    <2>2. m = k * n + n /\ k * n \in Nat
      BY <1>3, <2>1
    <2> QED
      BY <1>3, <2>2
  <1>6. PICK g \in Nat : g = b + m
    BY <1>2, <1>3
  <1>7. g \div NumThreads = n
    BY <1>2, <1>3, <1>6, Sizes, QuotientIs
  <1>8. g % NumThreads = b
    <2>1. PICK x \in 0 .. NumThreads - 1 :
            x = g % NumThreads /\ g = NumThreads * (g \div NumThreads) + x
      BY Sizes, Quotient
    <2>2. g = m + x
      BY <1>3, <1>7, <2>1
    <2> QED
      BY <1>2, <1>3, <1>6, <2>1, <2>2, Sizes
  <1> QED
    BY <1>2, <1>3, <1>4, <1>5, <1>6, <1>7, <1>8

\* Every group is dealt out of one bucket, in one place.
LEMMA EveryGroupIsDealt ==
  ASSUME NEW g \in Nat
  PROVE  /\ g % NumThreads \in Threads /\ g \div NumThreads \in Nat
         /\ g = Group(g % NumThreads, g \div NumThreads)
         /\ g \div NumThreads <= g
  <1>1. PICK b \in Threads, n \in Nat :
            /\ b = g % NumThreads /\ n = g \div NumThreads
            /\ g = NumThreads * n + b
    BY Sizes, Quotient DEF Threads
  <1>2. PICK r \in 0 .. NumThreads - 1, q \in Nat :
            r = n % NumThreads /\ q = n \div NumThreads /\ n = NumThreads * q + r
    BY Sizes, Quotient
  <1>3. Group(b, n) = b + r * NumThreads + q * NumThreads * NumThreads
    BY <1>2 DEF Group
  <1>4. r \in Nat /\ b \in Nat
    BY <1>2, Sizes DEF Threads
  <1>5. g = b + r * NumThreads + q * NumThreads * NumThreads
    <2>1. NumThreads * (NumThreads * q + r) = r * NumThreads + q * NumThreads * NumThreads
      BY <1>2, <1>4, Sizes
    <2>2. r * NumThreads \in Nat /\ q * NumThreads * NumThreads \in Nat
      BY <1>2, <1>4, Sizes
    <2> QED
      BY <1>1, <1>2, <1>4, <2>1, <2>2
  <1>6. n <= g
    BY <1>1, <1>3, <1>5, GroupsAreRounds
  <1> QED
    BY <1>1, <1>3, <1>5, <1>6

\* What is dealt before a token of thread t is thread t's, and not the token.
LEMMA EarlierIsOwn ==
  ASSUME row \in [Tokens -> Nat], low \in Nat, NEW i \in Tokens, row[i] > low,
         NEW t \in Threads, NEW n \in Nat, i \div Vec = Group(t, n)
  PROVE  /\ Before(t, n, i) \in Nat
         /\ Before(t, n, i) + row[i] <= MassAbove(row, low, Mine(t))
  <1> DEFINE E == {j \in Live : \/ (j \div Vec) \in {Group(t, m) : m \in 0 .. n - 1}
                                \/ (j \div Vec) = Group(t, n) /\ j < i}
             B == {j \in Mine(t) : row[j] > low}
  <1>1. Group(t, n) \div NumThreads = n /\ Group(t, n) % NumThreads = t
    BY GroupsAreRounds
  <1>2. i \in B
    BY <1>1 DEF Mine
  <1>3. ASSUME NEW j \in E PROVE j \in B /\ j # i
    <2>1. j \in Tokens /\ row[j] > low
      BY DEF Live
    <2>2. CASE (j \div Vec) = Group(t, n) /\ j < i
      <3>1. j \in Mine(t)
        BY <1>1, <2>1, <2>2 DEF Mine
      <3> QED
        BY <2>1, <2>2, <3>1, SetsAreFinite
    <2>3. CASE (j \div Vec) \in {Group(t, m) : m \in 0 .. n - 1}
      <3>1. PICK m \in 0 .. n - 1 : (j \div Vec) = Group(t, m)
        BY <2>3
      <3>2. m \in Nat /\ m # n
        OBVIOUS
      <3>3. Group(t, m) \div NumThreads = m /\ Group(t, m) % NumThreads = t
        BY <3>2, GroupsAreRounds
      <3>4. j \in Mine(t)
        BY <2>1, <3>1, <3>3 DEF Mine
      <3> QED
        BY <1>1, <2>1, <3>1, <3>2, <3>3, <3>4
    <2> QED
      BY <2>2, <2>3
  <1>4. B \in SUBSET Tokens
    BY DEF Mine
  <1>5. E \in SUBSET B /\ i \notin E
    BY <1>3
  <1>6. Before(t, n, i) = Sum(row, E)
    BY DEF Before
  <1>7. MassAbove(row, low, Mine(t)) = Sum(row, B)
    BY DEF MassAbove
  <1> HIDE DEF E, B
  <1>8. IsFiniteSet(B) /\ \A x \in B : row[x] \in Nat
    BY <1>4, SetsAreFinite, FS_Subset
  <1>9. Sum(row, E) \in Nat /\ Sum(row, E) + row[i] <= Sum(row, B)
    BY <1>2, <1>5, <1>8, SumOfPart
  <1> QED
    BY <1>6, <1>7, <1>9

\* The threads' shares lie one after the other.
LEMMA SharesAreApart ==
  ASSUME threadMass \in [Threads -> Nat], NEW t \in Threads
  PROVE  /\ Prefix(t) \in Nat /\ Total \in Nat
         /\ Prefix(t) + threadMass[t] <= Total
  <1> DEFINE first == 0 .. t - 1
  <1>1. first \in SUBSET Threads /\ t \notin first
    BY Sizes DEF Threads
  <1>2. IsFiniteSet(Threads) /\ \A x \in Threads : threadMass[x] \in Nat
    BY SetsAreFinite
  <1>3. Prefix(t) = Sum(threadMass, first) /\ Total = Sum(threadMass, Threads)
    BY DEF Prefix, Total
  <1> HIDE DEF first
  <1> QED
    BY <1>1, <1>2, <1>3, SumOfPart

\* A token's numbers are one interval, as long as its weight.
LEMMA ShareOfToken ==
  ASSUME row \in [Tokens -> Nat], low \in Nat,
         threadMass = [t \in Threads |-> MassAbove(row, low, Mine(t))],
         NEW i \in Tokens, row[i] > low
  PROVE  \E a \in Nat :
            {u \in 0 .. Total - 1 : i \in Drawn(u)} = a .. a + row[i] - 1
  <1> DEFINE g == i \div Vec
             t == g % NumThreads
             n == g \div NumThreads
  <1>1. g \in Nat /\ g <= VocabSize \div Vec
    <2>1. i \in Nat /\ i <= VocabSize /\ VocabSize \in Nat /\ Vec \in Nat \ {0}
      BY Sizes DEF Tokens
    <2> QED
      BY <2>1, Quotient, QuotientGrows
  <1>2. /\ t \in Threads /\ n \in Nat /\ n <= g /\ g = Group(t, n)
    <2> HIDE DEF g
    <2> QED
      BY <1>1, EveryGroupIsDealt
  <1>3. n \in Groups
    <2>1. VocabSize \div Vec \in Nat
      BY Sizes, Quotient
    <2> HIDE DEF g, n
    <2> QED
      BY <1>1, <1>2, <2>1 DEF Groups
  <1> HIDE DEF t, n
  <1>4. threadMass \in [Threads -> Nat]
    <2>1. ASSUME NEW b \in Threads PROVE MassAbove(row, low, Mine(b)) \in Nat
      <3>1. Mine(b) \in SUBSET Tokens
        BY DEF Mine
      <3> QED
        BY <3>1, MassesAreBounded
    <2> QED
      BY <2>1
  <1>5. PICK prefix, mass, before, weight \in Nat :
            /\ prefix = Prefix(t) /\ mass = threadMass[t]
            /\ before = Before(t, n, i) /\ weight = row[i]
    BY <1>2, <1>4, EarlierIsOwn, SharesAreApart
  <1>6. before + weight <= mass
    BY <1>2, <1>5, EarlierIsOwn
  <1>7. Total \in Nat /\ prefix + mass <= Total
    BY <1>2, <1>4, <1>5, SharesAreApart
  <1>8. ASSUME NEW b \in Threads, NEW m \in Groups, g = Group(b, m)
        PROVE  b = t /\ m = n
    <2>1. m \in Nat
      BY Sizes, Quotient DEF Groups
    <2> QED
      BY <1>2, <1>8, <2>1, GroupsAreRounds
  <1>9. ASSUME NEW u \in 0 .. Total - 1
        PROVE  i \in Drawn(u) <=> prefix + before <= u /\ u < prefix + before + weight
    <2>1. ASSUME i \in Drawn(u)
          PROVE  prefix + before <= u /\ u < prefix + before + weight
      <3>1. PICK b \in Buckets(u) : i \in Hits(b, u)
        BY <2>1 DEF Drawn
      <3>2. PICK m \in Groups : /\ g = Group(b, m)
                                /\ u - Prefix(b) - Before(b, m, i) >= 0
                                /\ u - Prefix(b) - Before(b, m, i) < row[i]
        BY <3>1 DEF Hits
      <3>3. b = t /\ m = n
        BY <1>8, <3>1, <3>2 DEF Buckets
      <3>4. u - prefix - before >= 0 /\ u - prefix - before < weight
        BY <1>5, <3>2, <3>3
      <3> QED
        BY <3>4
    <2>2. ASSUME prefix + before <= u, u < prefix + before + weight
          PROVE  i \in Drawn(u)
      <3>1. prefix <= u /\ u < prefix + mass
        BY <1>6, <2>2
      <3>2. t \in Buckets(u)
        BY <1>2, <1>5, <3>1 DEF Buckets
      <3>3. u - prefix - before >= 0 /\ u - prefix - before < weight
        BY <2>2
      <3>4. i \in Hits(t, u)
        BY <1>2, <1>3, <1>5, <3>3 DEF Hits, Live
      <3> QED
        BY <3>2, <3>4 DEF Drawn
    <2> QED
      BY <2>1, <2>2
  <1> DEFINE a == prefix + before
  <1>10. {u \in 0 .. Total - 1 : i \in Drawn(u)} = a .. a + weight - 1
    <2>1. ASSUME NEW u \in a .. a + weight - 1 PROVE u \in 0 .. Total - 1 /\ i \in Drawn(u)
      <3>1. u \in 0 .. Total - 1 /\ prefix + before <= u /\ u < prefix + before + weight
        BY <1>6, <1>7, <2>1
      <3> QED
        BY <1>9, <3>1
    <2>2. ASSUME NEW u \in 0 .. Total - 1, i \in Drawn(u) PROVE u \in a .. a + weight - 1
      <3>1. prefix + before <= u /\ u < prefix + before + weight
        BY <1>9, <2>2
      <3> QED
        BY <1>7, <3>1
    <2> HIDE DEF a
    <2> QED
      BY <2>1, <2>2
  <1> QED
    BY <1>5, <1>10

\* For every number of threads and vector width, the block's draw returns each
\* token above the cutoff for as many numbers as its weight, no other for any.
THEOREM RowDrawIsProportional == Spec => []DrawIsProportional
  <1>1. ASSUME RowInv PROVE DrawIsProportional
    <2> DEFINE hits(i) == {u \in 0 .. Total - 1 : i \in Drawn(u)}
    <2>1. ASSUME pc = "draw", NEW i \in Tokens
          PROVE  Cardinality(hits(i)) = IF row[i] > low THEN row[i] ELSE 0
      <3>1. /\ row \in [Tokens -> Nat] /\ low \in Nat
            /\ threadMass = [t \in Threads |-> MassAbove(row, low, Mine(t))]
        BY <1>1, <2>1, RowIsNat DEF RowInv, MassInv
      <3>2. CASE row[i] > low
        <4>1. PICK a \in Nat : hits(i) = a .. a + row[i] - 1
          BY <3>1, <3>2, ShareOfToken
        <4>2. PICK r \in Nat \ {0} : r = row[i]
          BY <3>1, <3>2
        <4>3. Cardinality(a .. a + r - 1) = r
          <5>1. PICK b \in Int : b = a + r - 1
            OBVIOUS
          <5>2. Cardinality(a .. b) = IF a > b THEN 0 ELSE b - a + 1
            BY FS_Interval
          <5> QED
            BY <5>1, <5>2
        <4> QED
          BY <3>2, <4>1, <4>2, <4>3
      <3>3. CASE ~ (row[i] > low)
        <4>1. \A u : i \notin Drawn(u)
          BY <3>3 DEF Drawn, Hits, Live
        <4>2. hits(i) = {}
          BY <4>1
        <4>3. Cardinality(hits(i)) = 0
          <5> HIDE DEF hits
          <5> QED
            BY <4>2, FS_EmptySet
        <4> QED
          BY <3>3, <4>3
      <3> QED
        BY <3>2, <3>3
    <2> SUFFICES ASSUME pc = "draw", NEW i \in Tokens
                 PROVE  LET drawn == [u \in 0 .. Total - 1 |-> Drawn(u)]
                        IN  Cardinality({u \in DOMAIN drawn : i \in drawn[u]})
                              = IF row[i] > low THEN row[i] ELSE 0
      BY DEF DrawIsProportional
    <2> DEFINE drawn == [u \in 0 .. Total - 1 |-> Drawn(u)]
    <2>2. {u \in DOMAIN drawn : i \in drawn[u]} = hits(i)
      OBVIOUS
    <2> QED
      BY <2>1, <2>2
  <1> QED
    BY <1>1, RowInvHolds, PTL
==============================================================================
