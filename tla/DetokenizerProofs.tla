------------------------- MODULE DetokenizerProofs -------------------------
(***************************************************************************)
(* The incremental detokenizer returns the one decode of a completion, for *)
(* every vocabulary, prompt, number of kept tokens and way to cut the      *)
(* completion into pushes.                                                 *)
(*                                                                         *)
(* First the decoder: bytes that do not end inside a character (Closed)    *)
(* are read the same whatever follows, and what follows is read as if it   *)
(* stood alone; bytes whose last character is whole are such bytes.  Then  *)
(* the window of push: it is text and Closed (Window), so the window's     *)
(* decode and the decode of the window and more differ by the text of      *)
(* more alone, and a first space is dropped of both or of neither.         *)
(***************************************************************************)
EXTENDS Detokenizer, CommonFacts, SequenceTheorems, TLAPS

\* How three lists are bracketed does not matter.
Regroups(p, q, r) == (p \o q) \o r = p \o (q \o r)

LEMMA ListsRegroup ==
  ASSUME NEW S, NEW p \in Seq(S), NEW q \in Seq(S), NEW r \in Seq(S)
  PROVE  Regroups(p, q, r)
  BY ConcatAssociative DEF Regroups

-----------------------------------------------------------------------------
(***************************************************************************)
(* The bytes of a list of tokens.                                          *)
(***************************************************************************)

\* f has the bytes of the first tokens of q, for every number of them.
Joins(f, q, S) ==
    /\ f \in [0 .. Len(q) -> Seq(S)]
    /\ f[0] = <<>>
    /\ \A k \in 1 .. Len(q) : f[k] = f[k - 1] \o q[k]

\* FlattenSeq joins the tokens one by one.
LEMMA FlattenJoins ==
  ASSUME NEW S, NEW q \in Seq(Seq(S))
  PROVE  \E f : Joins(f, q, S) /\ FlattenSeq(q) = f[Len(q)]
  <1> DEFINE n == Len(q)
             R == Seq(S)
             step == [k \in 1 .. n |-> [x \in R |-> x \o q[k]]]
  <1>1. n \in Nat /\ \A k \in 1 .. n : q[k] \in R
    BY LenProperties, ElementOfSeq
  <1>2. <<>> \in R /\ \A x, y \in R : x \o y \in R
    BY EmptySeq, ConcatProperties
  <1>3. PICK f : Follows(f, n, R, <<>>, step)
    <2>1. step \in [1 .. n -> [R -> R]]
      <3> HIDE DEF R, n
      <3> QED
        BY <1>1, <1>2
    <2> HIDE DEF step, R, n
    <2> QED
      BY <1>1, <1>2, <2>1, StepByStep
  <1>4. /\ f \in [0 .. n -> R] /\ f[0] = <<>>
        /\ \A k \in 1 .. n : f[k] = f[k - 1] \o q[k]
    <2>1. /\ f \in [0 .. n -> R] /\ f[0] = <<>>
          /\ \A k \in 1 .. n : f[k] = step[k][f[k - 1]]
      BY <1>3 DEF Follows
    <2>2. ASSUME NEW k \in 1 .. n PROVE f[k - 1] \in R
      <3> HIDE DEF R, n
      <3> QED
        BY <1>1, <2>1
    <2> HIDE DEF R, n
    <2>3. \A k \in 1 .. n : step[k][f[k - 1]] = f[k - 1] \o q[k]
      BY <2>2 DEF step
    <2> QED
      BY <2>1, <2>3
  <1>5. Joins(f, q, S)
    BY <1>4 DEF Joins
  <1>6. FlattenSeq(q) = f[n]
    <2>1. CASE n = 0
      <3>1. FlattenSeq(q) = q /\ q = <<>>
        BY <2>1, EmptySeq DEF FlattenSeq
      <3> QED
        BY <1>4, <2>1, <3>1
    <2>2. CASE n # 0
      <3> DEFINE Rec(g) == g = [i \in 1 .. n |-> IF i = 1 THEN q[i] ELSE g[i - 1] \o q[i]]
                 g0 == [i \in 1 .. n |-> f[i]]
                 flatten == CHOOSE g : Rec(g)
      <3>0. f[1] = q[1]
        <4>1. PICK i \in 1 .. n : i = 1 /\ i - 1 = 0
          BY <1>1, <2>2
        <4>2. f[i] = <<>> \o q[i] /\ q[i] \in Seq(S)
          BY <1>1, <1>4, <4>1
        <4>3. <<>> \o q[i] = q[i]
          BY <4>2, ConcatEmptySeq
        <4> QED
          BY <4>1, <4>2, <4>3
      <3>1. FlattenSeq(q) = flatten[n]
        BY <2>2 DEF FlattenSeq
      <3>2. Rec(g0)
        <4>1. ASSUME NEW i \in 1 .. n
              PROVE  f[i] = IF i = 1 THEN q[i] ELSE g0[i - 1] \o q[i]
          <5>1. CASE i = 1
            BY <3>0, <5>1
          <5>2. CASE i # 1
            <6>1. i - 1 \in 1 .. n /\ g0[i - 1] = f[i - 1]
              BY <1>1, <5>2
            <6> QED
              BY <1>4, <5>2, <6>1
          <5> QED
            BY <5>1, <5>2
        <4> QED
          BY <4>1
      <3>3. Rec(flatten)
        <4> HIDE DEF Rec
        <4> QED
          BY <3>2
      <3> HIDE DEF flatten
      <3>4. \A i \in 1 .. n : flatten[i] = IF i = 1 THEN q[i] ELSE flatten[i - 1] \o q[i]
        BY <3>3
      <3> DEFINE T == {k \in 0 .. n : k = 0 \/ flatten[k] = f[k]}
      <3>5. \A k \in 0 .. n : k \in T
        <4>1. 0 \in T
          BY <1>1
        <4>2. ASSUME NEW k \in 0 .. n - 1, k \in T PROVE k + 1 \in T
          <5>1. PICK j \in 1 .. n : j = k + 1 /\ j - 1 = k
            BY <1>1
          <5>2. CASE j = 1
            <6>1. flatten[j] = q[j]
              BY <3>4, <5>2
            <6>2. flatten[j] = f[j]
              BY <3>0, <5>2, <6>1
            <6> QED
              BY <5>1, <6>2
          <5>3. CASE j # 1
            <6>1. flatten[j - 1] = f[j - 1]
              BY <4>2, <5>1, <5>3
            <6>2. flatten[j] = f[j]
              BY <1>4, <3>4, <5>3, <6>1
            <6> QED
              BY <5>1, <6>2
          <5> QED
            BY <5>2, <5>3
        <4> HIDE DEF T, n
        <4> QED
          BY <1>1, <4>1, <4>2, UpTo
      <3>6. flatten[n] = f[n]
        <4>1. n \in 0 .. n
          BY <1>1
        <4> HIDE DEF n
        <4> QED
          BY <2>2, <3>5, <4>1
      <3> QED
        BY <3>1, <3>6
    <2> QED
      BY <2>1, <2>2
  <1> QED
    BY <1>5, <1>6

\* Token lists one after the other are their bytes one after the other.
LEMMA FlattenConcat ==
  ASSUME NEW S, NEW p \in Seq(Seq(S)), NEW q \in Seq(Seq(S))
  PROVE  FlattenSeq(p \o q) = FlattenSeq(p) \o FlattenSeq(q)
  <1> DEFINE m == Len(p)
             n == Len(q)
             R == Seq(S)
             pq == p \o q
  <1>1. m \in Nat /\ n \in Nat
    BY LenProperties
  <1>2. /\ pq \in Seq(Seq(S)) /\ Len(pq) = m + n
        /\ \A i \in 1 .. m + n : pq[i] = IF i <= m THEN p[i] ELSE q[i - m]
    BY ConcatProperties
  <1> HIDE DEF pq
  <1>3. PICK f : Joins(f, p, S) /\ FlattenSeq(p) = f[m]
    BY FlattenJoins
  <1>4. PICK g : Joins(g, q, S) /\ FlattenSeq(q) = g[n]
    BY FlattenJoins
  <1>5. PICK h : Joins(h, pq, S) /\ FlattenSeq(pq) = h[m + n]
    BY <1>2, FlattenJoins
  <1>6. /\ f \in [0 .. m -> R] /\ f[0] = <<>> /\ \A k \in 1 .. m : f[k] = f[k - 1] \o p[k]
        /\ g \in [0 .. n -> R] /\ g[0] = <<>> /\ \A k \in 1 .. n : g[k] = g[k - 1] \o q[k]
        /\ h \in [0 .. m + n -> R] /\ h[0] = <<>>
        /\ \A k \in 1 .. m + n : h[k] = h[k - 1] \o pq[k]
    BY <1>2, <1>3, <1>4, <1>5 DEF Joins
  <1>7. (\A k \in 1 .. n : q[k] \in R) /\ (\A k \in 1 .. m : p[k] \in R)
    BY ElementOfSeq
  <1> HIDE DEF m, n, R
  <1> DEFINE T == {k \in 0 .. m : h[k] = f[k]}
  <1>8. \A k \in 0 .. m : k \in T
    <2>1. 0 \in T
      BY <1>1, <1>6
    <2>2. ASSUME NEW k \in 0 .. m - 1, k \in T PROVE k + 1 \in T
      <3>1. PICK j \in 1 .. m : j = k + 1 /\ j - 1 = k /\ j \in 1 .. m + n /\ j \in 0 .. m
        BY <1>1
      <3>2. pq[j] = p[j]
        BY <1>1, <1>2, <3>1
      <3>3. h[j] = f[j]
        BY <1>6, <2>2, <3>1, <3>2
      <3> QED
        BY <3>1, <3>3
    <2> HIDE DEF T
    <2> QED
      BY <1>1, <2>1, <2>2, UpTo
  <1>9. h[m] = f[m] /\ f[m] \in R
    BY <1>1, <1>6, <1>8
  <1> DEFINE U == {k \in 0 .. n : h[m + k] = f[m] \o g[k]}
  <1>10. \A k \in 0 .. n : k \in U
    <2>1. 0 \in U
      <3>1. f[m] \o <<>> = f[m]
        BY <1>9, ConcatEmptySeq DEF R
      <3>2. m + 0 = m /\ 0 \in 0 .. n
        BY <1>1
      <3>3. f[m] \o g[0] = f[m]
        BY <1>6, <3>1
      <3>4. h[m + 0] = f[m] \o g[0]
        BY <1>9, <3>2, <3>3
      <3> QED
        BY <3>2, <3>4
    <2>2. ASSUME NEW k \in 0 .. n - 1, k \in U PROVE k + 1 \in U
      <3>1. PICK j \in 1 .. n : j = k + 1 /\ j - 1 = k /\ j \in 0 .. n /\ k \in 0 .. n
        BY <1>1
      <3>2. PICK i \in 1 .. m + n : i = m + j /\ i - 1 = m + k /\ ~ (i <= m) /\ i - m = j
        BY <1>1, <3>1
      <3>3. pq[i] = q[j] /\ q[j] \in R /\ g[k] \in R
        BY <1>2, <1>6, <1>7, <3>1, <3>2
      <3>4. h[i] = (f[m] \o g[k]) \o q[j]
        BY <1>6, <2>2, <3>2, <3>3
      <3>5. (f[m] \o g[k]) \o q[j] = f[m] \o (g[k] \o q[j])
        <4>1. f[m] \in Seq(S) /\ g[k] \in Seq(S) /\ q[j] \in Seq(S)
          BY <1>9, <3>3 DEF R
        <4>2. Regroups(f[m], g[k], q[j])
          BY <4>1, ListsRegroup
        <4> QED
          BY <4>2 DEF Regroups
      <3>6. g[j] = g[k] \o q[j]
        BY <1>6, <3>1
      <3>7. h[m + j] = f[m] \o g[j]
        BY <3>2, <3>4, <3>5, <3>6
      <3> QED
        BY <3>1, <3>7
    <2> HIDE DEF U
    <2> QED
      BY <1>1, <2>1, <2>2, UpTo
  <1>11. h[m + n] = f[m] \o g[n]
    <2>1. n \in 0 .. n
      BY <1>1
    <2> QED
      BY <1>10, <2>1
  <1> QED
    BY <1>3, <1>4, <1>5, <1>11 DEF pq

-----------------------------------------------------------------------------
(***************************************************************************)
(* The characters of a list of bytes.                                      *)
(***************************************************************************)
Bytes == {"a", " ", "2", "3", "c"}
Symbols == Bytes \cup {"?"}

\* f has the characters that begin in the first bytes of s.
Reads(f, s) ==
    /\ f \in [0 .. Len(s) -> Seq(Symbols)]
    /\ f[0] = <<>>
    /\ \A k \in 1 .. Len(s) :
          f[k] = IF Continues(s, k) THEN f[k - 1] ELSE Append(f[k - 1], CharacterAt(s, k))

\* No character of s wants more bytes than s has.
Closed(s) ==
    \A j \in 1 .. Len(s) :
        s[j] # "c" /\ (\A k \in j + 1 .. Len(s) : s[k] = "c")
            => j + Continuations(s[j]) <= Len(s)

\* How many bytes a lead wants.
LEMMA ContinuationsAre ==
  /\ \A b : Continuations(b) \in Nat
  /\ Continuations("c") = 0
  BY DEF Continuations

\* Characters reads the bytes one by one.
LEMMA CharactersRead ==
  ASSUME NEW s \in Seq(Bytes)
  PROVE  \E f : Reads(f, s) /\ Characters(s) = f[Len(s)]
  <1> DEFINE n == Len(s)
             R == Seq(Symbols)
             next(k, x) == IF Continues(s, k) THEN x ELSE Append(x, CharacterAt(s, k))
             step == [k \in 1 .. n |-> [x \in R |-> next(k, x)]]
  <1>1. n \in Nat /\ <<>> \in R
    BY LenProperties, EmptySeq
  <1>2. ASSUME NEW k \in 1 .. n, NEW x \in R PROVE next(k, x) \in R
    <2>1. CharacterAt(s, k) \in Symbols
      <3>1. s[k] \in Bytes
        BY ElementOfSeq
      <3> QED
        BY <3>1 DEF CharacterAt, Symbols
    <2> QED
      BY <2>1, AppendProperties
  <1> HIDE DEF next
  <1>3. PICK f : Follows(f, n, R, <<>>, step)
    <2>1. step \in [1 .. n -> [R -> R]]
      <3> HIDE DEF R, n
      <3> QED
        BY <1>2
    <2> HIDE DEF step, R, n
    <2> QED
      BY <1>1, <2>1, StepByStep
  <1>4. /\ f \in [0 .. n -> R] /\ f[0] = <<>>
        /\ \A k \in 1 .. n : f[k] = next(k, f[k - 1])
    <2>1. /\ f \in [0 .. n -> R] /\ f[0] = <<>>
          /\ \A k \in 1 .. n : f[k] = step[k][f[k - 1]]
      BY <1>3 DEF Follows
    <2>2. ASSUME NEW k \in 1 .. n PROVE f[k - 1] \in R
      <3> HIDE DEF R, n
      <3> QED
        BY <1>1, <2>1
    <2> HIDE DEF R, n
    <2>3. \A k \in 1 .. n : step[k][f[k - 1]] = next(k, f[k - 1])
      BY <2>2 DEF step
    <2> QED
      BY <2>1, <2>3
  <1>5. Reads(f, s)
    BY <1>4 DEF Reads, next
  <1> DEFINE Rec(g) == g = [k \in 0 .. n |-> IF k = 0 THEN <<>> ELSE next(k, g[k - 1])]
             upTo == CHOOSE g : Rec(g)
  <1>6. Characters(s) = upTo[n]
    BY DEF Characters, next
  <1>7. Rec(f)
    <2>1. f = [k \in 0 .. n |-> f[k]]
      BY <1>4
    <2>2. ASSUME NEW k \in 0 .. n PROVE f[k] = IF k = 0 THEN <<>> ELSE next(k, f[k - 1])
      <3>1. k = 0 \/ k \in 1 .. n
        OBVIOUS
      <3> QED
        BY <1>4, <3>1
    <2> QED
      BY <2>1, <2>2
  <1>8. Rec(upTo)
    <2> HIDE DEF Rec
    <2> QED
      BY <1>7
  <1> HIDE DEF upTo
  <1>9. \A k \in 0 .. n : upTo[k] = IF k = 0 THEN <<>> ELSE next(k, upTo[k - 1])
    BY <1>8
  <1> DEFINE T == {k \in 0 .. n : upTo[k] = f[k]}
  <1>10. \A k \in 0 .. n : k \in T
    <2>1. 0 \in T
      BY <1>1, <1>4, <1>9
    <2>2. ASSUME NEW k \in 0 .. n - 1, k \in T PROVE k + 1 \in T
      <3>1. PICK j \in 1 .. n : j = k + 1 /\ j - 1 = k /\ j # 0 /\ j \in 0 .. n
        BY <1>1
      <3>2. upTo[j] = f[j]
        BY <1>4, <1>9, <2>2, <3>1
      <3> QED
        BY <3>1, <3>2
    <2> HIDE DEF T, n
    <2> QED
      BY <1>1, <2>1, <2>2, UpTo
  <1>11. upTo[n] = f[n]
    <2>1. n \in 0 .. n
      BY <1>1
    <2> QED
      BY <1>10, <2>1
  <1> QED
    BY <1>5, <1>6, <1>11

\* What does not reach past its end is read the same before other bytes, and
\* these are read as if they stood alone.
LEMMA CharactersStay ==
  ASSUME NEW x \in Seq(Bytes), NEW y \in Seq(Bytes), Closed(x)
  PROVE  /\ \A k \in 1 .. Len(x) :
               /\ Continues(x \o y, k) <=> Continues(x, k)
               /\ CharacterAt(x \o y, k) = CharacterAt(x, k)
         /\ \A k \in 1 .. Len(y) :
               /\ Continues(x \o y, Len(x) + k) <=> Continues(y, k)
               /\ CharacterAt(x \o y, Len(x) + k) = CharacterAt(y, k)
  <1> DEFINE m == Len(x)
             n == Len(y)
             xy == x \o y
  <1>1. m \in Nat /\ n \in Nat
    BY LenProperties
  <1>2. /\ xy \in Seq(Bytes) /\ Len(xy) = m + n
        /\ \A i \in 1 .. m + n : xy[i] = IF i <= m THEN x[i] ELSE y[i - m]
    BY ConcatProperties
  <1>3. /\ \A i \in 1 .. m : xy[i] = x[i]
        /\ \A i \in 1 .. n : xy[m + i] = y[i]
    <2> HIDE DEF xy, m, n
    <2>1. ASSUME NEW i \in 1 .. m PROVE xy[i] = x[i]
      <3>1. i \in 1 .. m + n /\ i <= m
        BY <1>1
      <3> QED
        BY <1>2, <3>1
    <2>2. ASSUME NEW i \in 1 .. n PROVE xy[m + i] = y[i]
      <3>1. PICK j \in 1 .. m + n : j = m + i /\ ~ (j <= m) /\ j - m = i
        BY <1>1
      <3> QED
        BY <1>2, <3>1
    <2> QED
      BY <2>1, <2>2
  <1>4. \A b : Continuations(b) \in Nat /\ Continuations("c") = 0
    BY ContinuationsAre
  <1> HIDE DEF xy
  <1>5. ASSUME NEW k \in 1 .. m
        PROVE  Continues(xy, k) <=> Continues(x, k)
    <2>1. /\ \A j \in 1 .. k - 1 : xy[j] = x[j]
          /\ \A j \in 1 .. k - 1 : \A i \in j + 1 .. k : xy[i] = x[i]
      BY <1>1, <1>3
    <2> QED
      BY <2>1 DEF Continues
  <1>6. ASSUME NEW k \in 1 .. m
        PROVE  CharacterAt(xy, k) = CharacterAt(x, k)
    <2> DEFINE e == k + Continuations(x[k])
               W(s) == \A i \in k + 1 .. e : i <= Len(s) /\ s[i] = "c"
    <2>1. xy[k] = x[k] /\ e \in Nat
      BY <1>3, <1>4
    <2>2. ASSUME x[k] # "c" PROVE W(xy) <=> W(x)
      <3>1. CASE e <= m
        BY <1>1, <1>2, <1>3, <2>1, <3>1
      <3>2. CASE ~ (e <= m)
        <4>1. PICK i \in k + 1 .. m : x[i] # "c"
          BY <2>2, <3>2 DEF Closed
        <4>2. i \in k + 1 .. e /\ xy[i] = x[i]
          BY <1>1, <1>3, <2>1, <3>2, <4>1
        <4> QED
          BY <4>1, <4>2
      <3> QED
        BY <3>1, <3>2
    <2> QED
      BY <2>1, <2>2 DEF CharacterAt
  <1>7. ASSUME NEW k \in 1 .. n
        PROVE  Continues(xy, m + k) <=> Continues(y, k)
    <2>1. ASSUME Continues(y, k) PROVE Continues(xy, m + k)
      <3>1. PICK j \in 1 .. k - 1 : /\ k - j <= Continuations(y[j])
                                    /\ \A i \in j + 1 .. k : y[i] = "c"
        BY <2>1 DEF Continues
      <3>2. PICK l \in 1 .. m + k - 1 : l = m + j /\ m + k - l = k - j /\ l - m = j
        BY <1>1, <3>1
      <3>3. xy[l] = y[j]
        <4>1. j \in 1 .. n
          BY <1>1, <3>1
        <4> QED
          BY <1>3, <3>2, <4>1
      <3>4. ASSUME NEW i \in l + 1 .. m + k PROVE xy[i] = "c"
        <4>1. PICK h \in j + 1 .. k : i = m + h /\ h \in 1 .. n
          <5>1. i - m \in j + 1 .. k /\ i = m + (i - m) /\ i - m \in 1 .. n
            BY <1>1, <3>1, <3>2, <3>4
          <5> QED
            BY <5>1
        <4> QED
          BY <1>3, <3>1, <4>1
      <3> QED
        BY <3>1, <3>2, <3>3, <3>4 DEF Continues
    <2>2. ASSUME Continues(xy, m + k) PROVE Continues(y, k)
      <3>1. PICK l \in 1 .. m + k - 1 : /\ m + k - l <= Continuations(xy[l])
                                        /\ \A i \in l + 1 .. m + k : xy[i] = "c"
        BY <2>2 DEF Continues
      <3>2. CASE l <= m
        <4>1. l \in 1 .. m /\ xy[l] = x[l]
          BY <1>1, <1>3, <3>1, <3>2
        <4>2. x[l] # "c"
          BY <1>1, <1>4, <3>1, <3>2, <4>1
        <4>3. \A i \in l + 1 .. m : x[i] = "c"
          BY <1>1, <1>3, <3>1, <4>1
        <4>4. l + Continuations(x[l]) <= m
          BY <4>1, <4>2, <4>3 DEF Closed
        <4> QED
          BY <1>1, <1>4, <3>1, <4>1, <4>4
      <3>3. CASE ~ (l <= m)
        <4>1. PICK j \in 1 .. k - 1 : l = m + j /\ m + k - l = k - j
          <5>1. l - m \in 1 .. k - 1 /\ l = m + (l - m) /\ m + k - l = k - (l - m)
            BY <1>1, <3>1, <3>3
          <5> QED
            BY <5>1
        <4>2. xy[l] = y[j]
          <5>1. j \in 1 .. n
            BY <1>1, <4>1
          <5> QED
            BY <1>3, <4>1, <5>1
        <4>3. ASSUME NEW i \in j + 1 .. k PROVE y[i] = "c"
          <5>1. m + i \in l + 1 .. m + k /\ i \in 1 .. n
            BY <1>1, <4>1, <4>3
          <5> QED
            BY <1>3, <3>1, <5>1
        <4> QED
          BY <3>1, <4>1, <4>2, <4>3 DEF Continues
      <3> QED
        BY <3>2, <3>3
    <2> QED
      BY <2>1, <2>2
  <1>8. ASSUME NEW k \in 1 .. n
        PROVE  CharacterAt(xy, m + k) = CharacterAt(y, k)
    <2> DEFINE d == Continuations(y[k])
    <2>1. xy[m + k] = y[k] /\ d \in Nat
      BY <1>3, <1>4
    <2> HIDE DEF d
    <2>2. (\A i \in m + k + 1 .. m + k + d : i <= Len(xy) /\ xy[i] = "c")
             <=> (\A i \in k + 1 .. k + d : i <= Len(y) /\ y[i] = "c")
      <3>1. ASSUME \A i \in m + k + 1 .. m + k + d : i <= Len(xy) /\ xy[i] = "c",
                   NEW i \in k + 1 .. k + d
            PROVE  i <= Len(y) /\ y[i] = "c"
        <4>1. m + i \in m + k + 1 .. m + k + d
          BY <1>1, <2>1, <3>1
        <4>2. m + i <= m + n /\ xy[m + i] = "c"
          BY <1>2, <3>1, <4>1
        <4>3. i \in 1 .. n
          BY <1>1, <2>1, <3>1, <4>2
        <4> QED
          BY <1>3, <4>2, <4>3
      <3>2. ASSUME \A i \in k + 1 .. k + d : i <= Len(y) /\ y[i] = "c",
                   NEW i \in m + k + 1 .. m + k + d
            PROVE  i <= Len(xy) /\ xy[i] = "c"
        <4>1. PICK h \in k + 1 .. k + d : i = m + h
          <5>1. i - m \in k + 1 .. k + d /\ i = m + (i - m)
            BY <1>1, <2>1, <3>2
          <5> QED
            BY <5>1
        <4>2. h <= n /\ y[h] = "c"
          BY <3>2, <4>1
        <4>3. h \in 1 .. n
          BY <1>1, <2>1, <4>1, <4>2
        <4> QED
          BY <1>1, <1>2, <1>3, <4>1, <4>2, <4>3
      <3> QED
        BY <3>1, <3>2
    <2> QED
      BY <2>1, <2>2 DEF CharacterAt, d
  <1> QED
    BY <1>5, <1>6, <1>7, <1>8 DEF xy

\* No bytes, no characters.
LEMMA CharactersOfEmpty == Characters(<<>>) = <<>>
  <1>1. <<>> \in Seq(Bytes) /\ Len(<<>>) = 0
    BY EmptySeq
  <1>2. PICK f : Reads(f, <<>>) /\ Characters(<<>>) = f[Len(<<>>)]
    BY <1>1, CharactersRead
  <1> QED
    BY <1>1, <1>2 DEF Reads

\* What is read are the characters named, or U+FFFD.
LEMMA CharactersAreSymbols ==
  ASSUME NEW s \in Seq(Bytes)
  PROVE  Characters(s) \in Seq(Symbols)
  <1>1. Len(s) \in Nat
    BY LenProperties
  <1>2. PICK f : Reads(f, s) /\ Characters(s) = f[Len(s)]
    BY CharactersRead
  <1>3. Len(s) \in 0 .. Len(s)
    BY <1>1
  <1> QED
    BY <1>2, <1>3 DEF Reads

\* Text is read piece by piece, if no piece ends inside a character.
LEMMA CharactersConcat ==
  ASSUME NEW x \in Seq(Bytes), NEW y \in Seq(Bytes), Closed(x)
  PROVE  Characters(x \o y) = Characters(x) \o Characters(y)
  <1> DEFINE m == Len(x)
             n == Len(y)
             R == Seq(Symbols)
             xy == x \o y
  <1>1. m \in Nat /\ n \in Nat
    BY LenProperties
  <1>2. xy \in Seq(Bytes) /\ Len(xy) = m + n
    BY ConcatProperties
  <1>3. /\ \A k \in 1 .. m : /\ Continues(xy, k) <=> Continues(x, k)
                             /\ CharacterAt(xy, k) = CharacterAt(x, k)
        /\ \A k \in 1 .. n : /\ Continues(xy, m + k) <=> Continues(y, k)
                             /\ CharacterAt(xy, m + k) = CharacterAt(y, k)
    BY CharactersStay
  <1>4. \A k \in 1 .. n : CharacterAt(y, k) \in Symbols
    <2>1. \A k \in 1 .. n : y[k] \in Bytes
      BY ElementOfSeq
    <2> QED
      BY <2>1 DEF CharacterAt, Symbols
  <1> HIDE DEF xy
  <1>5. PICK f : Reads(f, x) /\ Characters(x) = f[m]
    BY CharactersRead
  <1>6. PICK g : Reads(g, y) /\ Characters(y) = g[n]
    BY CharactersRead
  <1>7. PICK h : Reads(h, xy) /\ Characters(xy) = h[m + n]
    BY <1>2, CharactersRead
  <1>8. /\ f \in [0 .. m -> R] /\ f[0] = <<>>
        /\ \A k \in 1 .. m : f[k] = IF Continues(x, k) THEN f[k - 1]
                                    ELSE Append(f[k - 1], CharacterAt(x, k))
        /\ g \in [0 .. n -> R] /\ g[0] = <<>>
        /\ \A k \in 1 .. n : g[k] = IF Continues(y, k) THEN g[k - 1]
                                    ELSE Append(g[k - 1], CharacterAt(y, k))
        /\ h \in [0 .. m + n -> R] /\ h[0] = <<>>
        /\ \A k \in 1 .. m + n : h[k] = IF Continues(xy, k) THEN h[k - 1]
                                        ELSE Append(h[k - 1], CharacterAt(xy, k))
    BY <1>2, <1>5, <1>6, <1>7 DEF Reads
  <1> HIDE DEF m, n, R
  <1> DEFINE T == {k \in 0 .. m : h[k] = f[k]}
  <1>9. \A k \in 0 .. m : k \in T
    <2>1. 0 \in T
      BY <1>1, <1>8
    <2>2. ASSUME NEW k \in 0 .. m - 1, k \in T PROVE k + 1 \in T
      <3>1. PICK j \in 1 .. m : j = k + 1 /\ j - 1 = k /\ j \in 1 .. m + n /\ j \in 0 .. m
        BY <1>1
      <3>2. h[j] = f[j]
        BY <1>3, <1>8, <2>2, <3>1
      <3> QED
        BY <3>1, <3>2
    <2> HIDE DEF T
    <2> QED
      BY <1>1, <2>1, <2>2, UpTo
  <1>10. h[m] = f[m] /\ f[m] \in R
    BY <1>1, <1>8, <1>9
  <1> DEFINE U == {k \in 0 .. n : h[m + k] = f[m] \o g[k]}
  <1>11. \A k \in 0 .. n : k \in U
    <2>1. 0 \in U
      <3>1. f[m] \o <<>> = f[m]
        BY <1>10, ConcatEmptySeq DEF R
      <3>2. m + 0 = m /\ 0 \in 0 .. n
        BY <1>1
      <3>3. f[m] \o g[0] = f[m]
        BY <1>8, <3>1
      <3>4. h[m + 0] = f[m] \o g[0]
        BY <1>10, <3>2, <3>3
      <3> QED
        BY <3>2, <3>4
    <2>2. ASSUME NEW k \in 0 .. n - 1, k \in U PROVE k + 1 \in U
      <3>1. PICK j \in 1 .. n : j = k + 1 /\ j - 1 = k /\ j \in 0 .. n /\ k \in 0 .. n
        BY <1>1
      <3>2. PICK i \in 1 .. m + n : i = m + j /\ i - 1 = m + k
        BY <1>1, <3>1
      <3>3. h[m + k] = f[m] \o g[k]
        BY <2>2
      <3>4. /\ Continues(xy, i) <=> Continues(y, j)
            /\ CharacterAt(xy, i) = CharacterAt(y, j)
        BY <1>3, <3>2
      <3>5. CASE Continues(y, j)
        <4>1. h[i] = h[m + k] /\ g[j] = g[k]
          BY <1>8, <3>1, <3>2, <3>4, <3>5
        <4>2. h[m + j] = f[m] \o g[j]
          BY <3>2, <3>3, <4>1
        <4> QED
          BY <3>1, <4>2
      <3>6. CASE ~ Continues(y, j)
        <4>1. PICK a \in Seq(Symbols), b \in Seq(Symbols), c \in Symbols :
                 a = f[m] /\ b = g[k] /\ c = CharacterAt(y, j)
          BY <1>4, <1>8, <1>10, <3>1 DEF R
        <4>2. h[i] = Append(a \o b, c) /\ g[j] = Append(b, c)
          BY <1>8, <3>1, <3>2, <3>3, <3>4, <3>6, <4>1
        <4>3. Append(a \o b, c) = a \o Append(b, c)
          <5> DEFINE one == <<c>>
          <5>1. a \o b \in Seq(Symbols) /\ one \in Seq(Symbols)
            BY ConcatProperties
          <5>2. Append(a \o b, c) = (a \o b) \o one
            BY <5>1, AppendIsConcat
          <5>3. Append(b, c) = b \o one
            BY AppendIsConcat
          <5> HIDE DEF one
          <5>4. Regroups(a, b, one)
            BY <5>1, ListsRegroup
          <5> QED
            BY <5>2, <5>3, <5>4 DEF Regroups
        <4>4. h[m + j] = f[m] \o g[j]
          BY <3>2, <4>1, <4>2, <4>3
        <4> QED
          BY <3>1, <4>4
      <3> QED
        BY <3>5, <3>6
    <2> HIDE DEF U
    <2> QED
      BY <1>1, <2>1, <2>2, UpTo
  <1>12. h[m + n] = f[m] \o g[n]
    <2>1. n \in 0 .. n
      BY <1>1
    <2> QED
      BY <1>11, <2>1
  <1> QED
    BY <1>5, <1>6, <1>7, <1>12 DEF xy

\* Text that ends with a character ends where the character does.
LEMMA ClosedIfWhole ==
  ASSUME NEW s \in Seq(Bytes), Characters(s) # <<>>, Last(Characters(s)) # "?"
  PROVE  Closed(s)
  <1> DEFINE n == Len(s)
  <1>1. n \in Nat /\ \A b : Continuations(b) \in Nat
    BY LenProperties, ContinuationsAre
  <1>2. PICK f : Reads(f, s) /\ Characters(s) = f[n]
    BY CharactersRead
  <1>3. /\ f \in [0 .. n -> Seq(Symbols)]
        /\ \A k \in 1 .. n : f[k] = IF Continues(s, k) THEN f[k - 1]
                                    ELSE Append(f[k - 1], CharacterAt(s, k))
    BY <1>2 DEF Reads
  <1>4. ASSUME NEW j \in 1 .. n, s[j] # "c", \A k \in j + 1 .. n : s[k] = "c",
               ~ (j + Continuations(s[j]) <= n)
        PROVE  FALSE
    <2>1. ~ Continues(s, j)
      BY <1>4 DEF Continues
    <2>2. CharacterAt(s, j) = "?"
      <3>1. n + 1 \in j + 1 .. j + Continuations(s[j]) /\ ~ (n + 1 <= n)
        BY <1>1, <1>4
      <3> QED
        BY <3>1 DEF CharacterAt
    <2>3. f[j] = Append(f[j - 1], "?") /\ f[j - 1] \in Seq(Symbols)
      <3>1. j - 1 \in 0 .. n
        BY <1>1
      <3> QED
        BY <1>3, <2>1, <2>2, <3>1
    <2>4. ASSUME NEW k \in 1 .. n, k > j PROVE f[k] = f[k - 1]
      <3>1. k - j <= Continuations(s[j]) /\ j \in 1 .. k - 1 /\ \A i \in j + 1 .. k : s[i] = "c"
        BY <1>1, <1>4, <2>4
      <3>2. Continues(s, k)
        BY <3>1 DEF Continues
      <3> QED
        BY <1>3, <3>2
    <2> HIDE DEF n
    <2> DEFINE T == {k \in 0 .. n : k < j \/ f[k] = f[j]}
    <2>5. \A k \in 0 .. n : k \in T
      <3>1. 0 \in T
        BY <1>1
      <3>2. ASSUME NEW k \in 0 .. n - 1, k \in T PROVE k + 1 \in T
        <4>1. PICK l \in 1 .. n : l = k + 1 /\ l - 1 = k
          BY <1>1
        <4>2. CASE l > j
          <5>1. f[l] = f[k] /\ ~ (k < j)
            BY <1>1, <2>4, <4>1, <4>2
          <5>2. f[l] = f[j]
            BY <3>2, <5>1
          <5> QED
            BY <4>1, <5>2
        <4>3. CASE ~ (l > j)
          BY <1>1, <4>1, <4>3
        <4> QED
          BY <4>2, <4>3
      <3> HIDE DEF T
      <3> QED
        BY <1>1, <3>1, <3>2, UpTo
    <2>6. f[n] = f[j]
      <3>1. n \in 0 .. n /\ ~ (n < j)
        BY <1>1
      <3> QED
        BY <2>5, <3>1
    <2>7. Last(f[n]) = "?"
      <3>1. PICK e \in Seq(Symbols) : e = f[j - 1]
        BY <2>3
      <3>2. Len(Append(e, "?")) = Len(e) + 1 /\ Append(e, "?")[Len(e) + 1] = "?"
        BY AppendProperties DEF Symbols
      <3> QED
        BY <2>3, <2>6, <3>1, <3>2 DEF Last
    <2> QED
      BY <1>2, <2>7
  <1> QED
    BY <1>4 DEF Closed

\* Bytes joined end inside a character only if their last part does.
LEMMA ClosedConcat ==
  ASSUME NEW x \in Seq(Bytes), NEW y \in Seq(Bytes)
  PROVE  /\ Closed(x) /\ Closed(y) => Closed(x \o y)
         /\ Closed(x \o y) => Closed(y)
  <1> DEFINE m == Len(x)
             n == Len(y)
             xy == x \o y
  <1>1. m \in Nat /\ n \in Nat /\ \A b : Continuations(b) \in Nat
    BY LenProperties, ContinuationsAre
  <1>2. /\ xy \in Seq(Bytes) /\ Len(xy) = m + n
        /\ \A i \in 1 .. m + n : xy[i] = IF i <= m THEN x[i] ELSE y[i - m]
    BY ConcatProperties
  <1> HIDE DEF xy
  <1>3. /\ \A i \in 1 .. m : xy[i] = x[i]
        /\ \A i \in 1 .. n : xy[m + i] = y[i] /\ m + i \in 1 .. m + n
    <2> HIDE DEF m, n
    <2>1. ASSUME NEW i \in 1 .. m PROVE xy[i] = x[i]
      <3>1. i \in 1 .. m + n /\ i <= m
        BY <1>1
      <3> QED
        BY <1>2, <3>1
    <2>2. ASSUME NEW i \in 1 .. n PROVE xy[m + i] = y[i] /\ m + i \in 1 .. m + n
      <3>1. PICK j \in 1 .. m + n : j = m + i /\ ~ (j <= m) /\ j - m = i
        BY <1>1
      <3> QED
        BY <1>2, <3>1
    <2> QED
      BY <2>1, <2>2
  <1>4. ASSUME Closed(x), Closed(y) PROVE Closed(xy)
    <2> SUFFICES ASSUME NEW l \in 1 .. m + n, xy[l] # "c", \A k \in l + 1 .. m + n : xy[k] = "c"
                 PROVE  l + Continuations(xy[l]) <= m + n
      BY <1>2 DEF Closed
    <2>1. CASE l <= m
      <3>1. l \in 1 .. m /\ xy[l] = x[l]
        BY <1>1, <1>3, <2>1
      <3>2. \A k \in l + 1 .. m : x[k] = "c"
        BY <1>1, <1>3, <3>1
      <3>3. l + Continuations(x[l]) <= m
        BY <1>4, <3>1, <3>2 DEF Closed
      <3> QED
        BY <1>1, <3>1, <3>3
    <2>2. CASE ~ (l <= m)
      <3>1. PICK j \in 1 .. n : l = m + j
        <4>1. l - m \in 1 .. n /\ l = m + (l - m)
          BY <1>1, <2>2
        <4> QED
          BY <4>1
      <3>2. xy[l] = y[j]
        BY <1>3, <3>1
      <3>3. ASSUME NEW k \in j + 1 .. n PROVE y[k] = "c"
        <4>1. k \in 1 .. n /\ m + k \in l + 1 .. m + n
          BY <1>1, <3>1
        <4> QED
          BY <1>3, <4>1
      <3>4. j + Continuations(y[j]) <= n
        BY <1>4, <3>2, <3>3 DEF Closed
      <3> QED
        BY <1>1, <3>1, <3>2, <3>4
    <2> QED
      BY <2>1, <2>2
  <1>5. ASSUME Closed(xy) PROVE Closed(y)
    <2> SUFFICES ASSUME NEW j \in 1 .. n, y[j] # "c", \A k \in j + 1 .. n : y[k] = "c"
                 PROVE  j + Continuations(y[j]) <= n
      BY DEF Closed
    <2>1. PICK l \in 1 .. m + n : l = m + j /\ xy[l] = y[j]
      BY <1>3
    <2>2. ASSUME NEW k \in l + 1 .. m + n PROVE xy[k] = "c"
      <3>1. PICK i \in j + 1 .. n : k = m + i /\ i \in 1 .. n
        <4>1. k - m \in j + 1 .. n /\ k = m + (k - m) /\ k - m \in 1 .. n
          BY <1>1, <2>1
        <4> QED
          BY <4>1
      <3> QED
        BY <1>3, <3>1
    <2>3. l + Continuations(xy[l]) <= m + n
      BY <1>2, <1>5, <2>1, <2>2 DEF Closed
    <2> QED
      BY <1>1, <2>1, <2>3
  <1> QED
    BY <1>4, <1>5 DEF xy

-----------------------------------------------------------------------------
(***************************************************************************)
(* Tokens and their text.                                                  *)
(***************************************************************************)
Text(tokens) == Characters(FlattenSeq(tokens))

\* A list of tokens that does not end inside a character.
ClosedTokens(tokens) == Closed(FlattenSeq(tokens))

\* A token is bytes, and a list of tokens a list of those.
LEMMA TokensAreBytes ==
  /\ Vocabulary \subseteq Seq(Bytes)
  /\ \A q \in Seq(Vocabulary) : q \in Seq(Seq(Bytes))
  <1>1. Vocabulary \subseteq Seq(Bytes)
    BY DetokenizerAssumption DEF Bytes
  <1> DEFINE B == Seq(Bytes)
  <1>2. ASSUME NEW q \in Seq(Vocabulary) PROVE q \in Seq(B)
    <2> HIDE DEF B
    <2>1. Vocabulary \subseteq B
      BY <1>1 DEF B
    <2> QED
      BY <2>1, SeqMonotonic
  <1> QED
    BY <1>1, <1>2

\* So the bytes of tokens are bytes, and their text characters.
LEMMA FlattenIsBytes ==
  ASSUME NEW q \in Seq(Vocabulary)
  PROVE  FlattenSeq(q) \in Seq(Bytes) /\ Text(q) \in Seq(Symbols)
  <1>1. q \in Seq(Seq(Bytes))
    BY TokensAreBytes
  <1>2. PICK f : Joins(f, q, Bytes) /\ FlattenSeq(q) = f[Len(q)]
    BY <1>1, FlattenJoins
  <1>3. Len(q) \in 0 .. Len(q)
    BY LenProperties
  <1>4. FlattenSeq(q) \in Seq(Bytes)
    BY <1>2, <1>3 DEF Joins
  <1> QED
    BY <1>4, CharactersAreSymbols DEF Text

\* Without tokens there is no text.
LEMMA TextOfNothing == Text(<<>>) = <<>> /\ ClosedTokens(<<>>)
  <1>1. FlattenSeq(<<>>) = <<>>
    BY EmptySeq DEF FlattenSeq
  <1>2. Closed(<<>>)
    BY EmptySeq DEF Closed
  <1> QED
    BY <1>1, <1>2, CharactersOfEmpty DEF Text, ClosedTokens

\* The text of tokens joined is their texts joined, if the first end where a
\* character does.
LEMMA TextConcat ==
  ASSUME NEW p \in Seq(Vocabulary), NEW q \in Seq(Vocabulary)
  PROVE  /\ p \o q \in Seq(Vocabulary)
         /\ ClosedTokens(p) => Text(p \o q) = Text(p) \o Text(q)
         /\ ClosedTokens(p) /\ ClosedTokens(q) => ClosedTokens(p \o q)
         /\ ClosedTokens(p \o q) => ClosedTokens(q)
  <1>1. p \o q \in Seq(Vocabulary)
    BY ConcatProperties
  <1>2. FlattenSeq(p \o q) = FlattenSeq(p) \o FlattenSeq(q)
    BY TokensAreBytes, FlattenConcat
  <1>3. FlattenSeq(p) \in Seq(Bytes) /\ FlattenSeq(q) \in Seq(Bytes)
    BY FlattenIsBytes
  <1> QED
    BY <1>1, <1>2, <1>3, CharactersConcat, ClosedConcat DEF Text, ClosedTokens

\* Decoding drops no more than a first space.
LEMMA DecodeText ==
  ASSUME NEW q \in Seq(Vocabulary)
  PROVE  /\ Decode(q) = IF strips /\ Text(q) # <<>> /\ Text(q)[1] = " "
                        THEN Tail(Text(q)) ELSE Text(q)
         /\ Decode(q) \in Seq(Symbols)
         /\ Decode(q) # <<>> => Text(q) # <<>> /\ Last(Decode(q)) = Last(Text(q))
  <1> DEFINE t == Text(q)
  <1>1. t \in Seq(Symbols)
    BY FlattenIsBytes
  <1>2. Decode(q) = IF strips /\ t # <<>> /\ t[1] = " " THEN Tail(t) ELSE t
    BY DEF Decode, Text
  <1> HIDE DEF t
  <1>3. CASE strips /\ t # <<>> /\ t[1] = " "
    <2>1. /\ Tail(t) \in Seq(Symbols) /\ Len(Tail(t)) = Len(t) - 1 /\ Len(t) \in Nat
          /\ \A i \in 1 .. Len(Tail(t)) : Tail(t)[i] = t[i + 1]
      BY <1>1, <1>3, HeadTailProperties, LenProperties
    <2>2. ASSUME Tail(t) # <<>> PROVE Last(Tail(t)) = Last(t)
      <3>1. Len(Tail(t)) \in Nat \ {0}
        BY <2>1, <2>2, EmptySeq
      <3>2. Len(Tail(t)) \in 1 .. Len(Tail(t)) /\ Len(Tail(t)) + 1 = Len(t)
        BY <2>1, <3>1
      <3> QED
        BY <2>1, <3>2 DEF Last
    <2> QED
      BY <1>2, <1>3, <2>1, <2>2 DEF t
  <1>4. CASE ~ (strips /\ t # <<>> /\ t[1] = " ")
    BY <1>1, <1>2, <1>4 DEF t
  <1> QED
    BY <1>3, <1>4

\* What follows a text is decoded as if it stood alone, first space and all.
LEMMA DecodeConcat ==
  ASSUME NEW p \in Seq(Vocabulary), NEW q \in Seq(Vocabulary),
         ClosedTokens(p), Text(p) # <<>>
  PROVE  Decode(p \o q) = Decode(p) \o Text(q)
  <1> DEFINE u == Text(p)
             v == Text(q)
  <1>1. u \in Seq(Symbols) /\ v \in Seq(Symbols) /\ u # <<>>
    BY FlattenIsBytes
  <1>2. Text(p \o q) = u \o v /\ p \o q \in Seq(Vocabulary)
    BY TextConcat
  <1>3. /\ Decode(p) = IF strips /\ u # <<>> /\ u[1] = " " THEN Tail(u) ELSE u
        /\ Decode(p \o q) = IF strips /\ (u \o v) # <<>> /\ (u \o v)[1] = " "
                            THEN Tail(u \o v) ELSE u \o v
    BY <1>2, DecodeText
  <1> HIDE DEF u, v
  <1>4. /\ u \o v \in Seq(Symbols) /\ Len(u \o v) = Len(u) + Len(v)
        /\ \A i \in 1 .. Len(u) + Len(v) : (u \o v)[i] = IF i <= Len(u) THEN u[i] ELSE v[i - Len(u)]
    BY <1>1, ConcatProperties
  <1>5. Len(u) \in Nat \ {0} /\ Len(v) \in Nat
    BY <1>1, EmptySeq, LenProperties
  <1>6. (u \o v)[1] = u[1] /\ u \o v # <<>>
    <2>1. 1 \in 1 .. Len(u) + Len(v) /\ 1 <= Len(u)
      BY <1>5
    <2>2. u \o v # <<>>
      BY <1>1, ConcatEqualIffEmpty
    <2> QED
      BY <1>4, <2>1, <2>2
  <1>7. Tail(u \o v) = Tail(u) \o v
    <2> DEFINE w == u \o v
               z == Tail(u)
    <2>1. /\ Tail(w) \in Seq(Symbols) /\ Len(Tail(w)) = Len(u) + Len(v) - 1
          /\ \A i \in 1 .. Len(Tail(w)) : Tail(w)[i] = w[i + 1]
      <3> HIDE DEF w
      <3>1. w \in Seq(Symbols) /\ w # <<>> /\ Len(w) = Len(u) + Len(v)
        BY <1>4, <1>6 DEF w
      <3> QED
        BY <3>1, HeadTailProperties
    <2>2. /\ z \in Seq(Symbols) /\ Len(z) = Len(u) - 1
          /\ \A i \in 1 .. Len(z) : z[i] = u[i + 1]
      BY <1>1, HeadTailProperties
    <2> HIDE DEF z
    <2>3. /\ z \o v \in Seq(Symbols) /\ Len(z \o v) = Len(z) + Len(v)
          /\ \A i \in 1 .. Len(z) + Len(v) : (z \o v)[i] = IF i <= Len(z) THEN z[i] ELSE v[i - Len(z)]
      BY <1>1, <2>2, ConcatProperties
    <2>4. ASSUME NEW i \in 1 .. Len(Tail(w)) PROVE Tail(w)[i] = (z \o v)[i]
      <3>1. PICK j \in 1 .. Len(u) + Len(v) : /\ j = i + 1 /\ i \in 1 .. Len(z) + Len(v)
                                              /\ j - Len(u) = i - Len(z)
                                              /\ j <= Len(u) <=> i <= Len(z)
        BY <1>5, <2>1, <2>2
      <3>2. Tail(w)[i] = w[j]
        BY <2>1, <3>1
      <3>3. CASE i <= Len(z)
        <4>1. w[j] = u[j]
          BY <1>4, <3>1, <3>3
        <4>2. i \in 1 .. Len(z)
          BY <2>2, <1>5, <3>1, <3>3
        <4> QED
          BY <2>2, <2>3, <3>1, <3>2, <3>3, <4>1, <4>2
      <3>4. CASE ~ (i <= Len(z))
        BY <1>4, <2>3, <3>1, <3>2, <3>4
      <3> QED
        BY <3>3, <3>4
    <2>5. Len(Tail(w)) = Len(z \o v)
      BY <1>5, <2>1, <2>2, <2>3
    <2> HIDE DEF w
    <2>6. Tail(w) = z \o v
      BY <2>1, <2>3, <2>4, <2>5, SeqEqual
    <2> QED
      BY <2>6 DEF w, z
  <1>8. Decode(p \o q) = Decode(p) \o v
    BY <1>1, <1>3, <1>6, <1>7
  <1> QED
    BY <1>8 DEF v

\* A text that ends with a whole character does not end inside one.
LEMMA WholeTextIsClosed ==
  ASSUME NEW q \in Seq(Vocabulary), Text(q) # <<>>, Last(Text(q)) # "?"
  PROVE  ClosedTokens(q)
  BY FlattenIsBytes, ClosedIfWhole DEF Text, ClosedTokens

\* What follows a list in a longer one.
LEMMA RestOf ==
  ASSUME NEW S, NEW a \in Seq(S), NEW b \in Seq(S)
  PROVE  /\ SubSeq(a \o b, Len(a) + 1, Len(a \o b)) = b
         /\ \A h \in Nat : h <= Len(a) => SubSeq(a \o b, 1, h) = SubSeq(a, 1, h)
  <1> DEFINE ab == a \o b
             l == Len(a) + 1
             n == Len(ab)
             x == SubSeq(ab, l, n)
  <1>1. Len(a) \in Nat /\ Len(b) \in Nat
    BY LenProperties
  <1>2. /\ ab \in Seq(S) /\ Len(ab) = Len(a) + Len(b)
        /\ \A i \in 1 .. Len(a) + Len(b) : ab[i] = IF i <= Len(a) THEN a[i] ELSE b[i - Len(a)]
    BY ConcatProperties
  <1> HIDE DEF ab
  <1>3. \A i \in 1 .. Len(ab) : ab[i] \in S
    BY <1>2, ElementOfSeq
  <1>4. x = b
    <2>1. l \in Int /\ n \in Int /\ l <= n + 1 /\ n - l + 1 = Len(b) /\ \A i \in l .. n : ab[i] \in S
      BY <1>1, <1>2, <1>3
    <2> HIDE DEF l, n
    <2>2. /\ x \in Seq(S) /\ Len(x) = IF l <= n THEN n - l + 1 ELSE 0
          /\ \A i \in 1 .. n - l + 1 : x[i] = ab[l + i - 1]
      BY <2>1, SubSeqProperties
    <2> HIDE DEF x
    <2>3. Len(x) = Len(b)
      BY <1>1, <2>1, <2>2
    <2>4. ASSUME NEW i \in 1 .. Len(b) PROVE x[i] = b[i]
      <3>1. PICK j \in 1 .. Len(a) + Len(b) : j = l + i - 1 /\ ~ (j <= Len(a)) /\ j - Len(a) = i
        BY <1>1 DEF l
      <3> QED
        BY <1>2, <2>1, <2>2, <3>1
    <2> QED
      BY <2>2, <2>3, <2>4, SeqEqual
  <1>5. ASSUME NEW h \in Nat, h <= Len(a) PROVE SubSeq(ab, 1, h) = SubSeq(a, 1, h)
    <2> DEFINE y == SubSeq(ab, 1, h)
               z == SubSeq(a, 1, h)
    <2>1. /\ \A i \in 1 .. h : a[i] \in S /\ ab[i] \in S /\ ab[i] = a[i]
          /\ h \in Int /\ 1 \in Int
      <3>1. \A i \in 1 .. Len(a) : a[i] \in S
        BY ElementOfSeq
      <3> QED
        BY <1>1, <1>2, <1>3, <1>5, <3>1
    <2>2. /\ y \in Seq(S) /\ Len(y) = (IF 1 <= h THEN h - 1 + 1 ELSE 0)
          /\ \A i \in 1 .. h - 1 + 1 : y[i] = ab[1 + i - 1]
      BY <2>1, SubSeqProperties
    <2>3. /\ z \in Seq(S) /\ Len(z) = (IF 1 <= h THEN h - 1 + 1 ELSE 0)
          /\ \A i \in 1 .. h - 1 + 1 : z[i] = a[1 + i - 1]
      BY <2>1, SubSeqProperties
    <2> HIDE DEF y, z
    <2>4. Len(y) = Len(z) /\ Len(y) = h
      BY <1>5, <2>2, <2>3
    <2>5. ASSUME NEW i \in 1 .. Len(y) PROVE y[i] = z[i]
      <3>1. i \in 1 .. h /\ i \in 1 .. h - 1 + 1 /\ 1 + i - 1 = i
        BY <2>4
      <3> QED
        BY <2>1, <2>2, <2>3, <3>1
    <2>6. y = z
      BY <2>2, <2>3, <2>4, <2>5, SeqEqual
    <2> QED
      BY <2>6 DEF y, z
  <1> QED
    BY <1>4, <1>5 DEF ab

\* Two lists joined end as the second does.
LEMMA LastOfConcat ==
  ASSUME NEW S, NEW a \in Seq(S), NEW b \in Seq(S), b # <<>>
  PROVE  Last(a \o b) = Last(b)
  <1>1. /\ Len(a \o b) = Len(a) + Len(b)
        /\ \A i \in 1 .. Len(a) + Len(b) :
              (a \o b)[i] = IF i <= Len(a) THEN a[i] ELSE b[i - Len(a)]
    BY ConcatProperties
  <1>2. Len(a) \in Nat /\ Len(b) \in Nat \ {0}
    BY LenProperties, EmptySeq
  <1>3. PICK j \in 1 .. Len(a) + Len(b) :
           j = Len(a) + Len(b) /\ ~ (j <= Len(a)) /\ j - Len(a) = Len(b)
    BY <1>2
  <1>4. (a \o b)[j] = b[Len(b)]
    BY <1>1, <1>3
  <1> QED
    BY <1>1, <1>3, <1>4 DEF Last

\* The middle and the end of three lists joined.
LEMMA PartsOf ==
  ASSUME NEW S, NEW a \in Seq(S), NEW b \in Seq(S), NEW c \in Seq(S),
         NEW abc, abc = (a \o b) \o c
  PROVE  /\ SubSeq(abc, Len(a) + 1, Len(a) + Len(b)) = b
         /\ SubSeq(abc, Len(a) + 1, Len(abc)) = b \o c
  <1> DEFINE ab == a \o b
             bc == b \o c
  <1>1. Len(a) \in Nat /\ Len(b) \in Nat
    BY LenProperties
  <1>2. /\ ab \in Seq(S) /\ Len(ab) = Len(a) + Len(b)
        /\ \A i \in 1 .. Len(a) + Len(b) : ab[i] = IF i <= Len(a) THEN a[i] ELSE b[i - Len(a)]
    BY ConcatProperties
  <1>3. bc \in Seq(S) /\ ab \o c = a \o bc
    BY ConcatProperties, ConcatAssociative
  <1>6. abc = ab \o c
    OBVIOUS
  <1> HIDE DEF ab, bc
  <1>4. SubSeq(abc, Len(a) + 1, Len(abc)) = bc
    <2>1. SubSeq(a \o bc, Len(a) + 1, Len(a \o bc)) = bc
      BY <1>3, RestOf
    <2> QED
      BY <1>6, <1>3, <2>1
  <1>5. SubSeq(abc, Len(a) + 1, Len(a) + Len(b)) = b
    <2>0. /\ ab \o c \in Seq(S) /\ Len(ab \o c) = Len(ab) + Len(c)
          /\ \A i \in 1 .. Len(ab) + Len(c) :
                (ab \o c)[i] = IF i <= Len(ab) THEN ab[i] ELSE c[i - Len(ab)]
      <3>1. PICK e \in Seq(S) : e = ab
        BY <1>2
      <3>2. /\ e \o c \in Seq(S) /\ Len(e \o c) = Len(e) + Len(c)
            /\ \A i \in 1 .. Len(e) + Len(c) :
                  (e \o c)[i] = IF i <= Len(e) THEN e[i] ELSE c[i - Len(e)]
        BY ConcatProperties
      <3> QED
        BY <3>1, <3>2
    <2> DEFINE l == Len(a) + 1
               h == Len(a) + Len(b)
               x == SubSeq(abc, l, h)
    <2>1. /\ abc \in Seq(S) /\ Len(abc) = Len(ab) + Len(c)
          /\ \A i \in 1 .. Len(ab) + Len(c) : abc[i] = IF i <= Len(ab) THEN ab[i] ELSE c[i - Len(ab)]
      BY <1>6, <2>0
    <2>2. /\ l \in Int /\ h \in Int /\ h - l + 1 = Len(b) /\ Len(c) \in Nat
          /\ (l <= h <=> Len(b) # 0)
      BY <1>1, LenProperties
    <2>3. \A i \in l .. h : abc[i] \in S
      <3>1. \A i \in 1 .. Len(abc) : abc[i] \in S
        BY <2>1, ElementOfSeq
      <3>2. \A i \in l .. h : i \in 1 .. Len(abc)
        BY <1>1, <1>2, <2>1, <2>2
      <3> QED
        BY <3>1, <3>2
    <2>4. ASSUME NEW i \in 1 .. Len(b) PROVE abc[l + i - 1] = b[i]
      <3>1. PICK j \in 1 .. Len(a) + Len(b) : j = l + i - 1 /\ ~ (j <= Len(a)) /\ j - Len(a) = i
        <4>1. l + i - 1 = Len(a) + i
          BY <1>1
        <4>2. Len(a) + i \in 1 .. Len(a) + Len(b) /\ ~ (Len(a) + i <= Len(a)) /\ Len(a) + i - Len(a) = i
          BY <1>1
        <4> QED
          BY <4>1, <4>2
      <3>2. j \in 1 .. Len(ab) + Len(c) /\ j <= Len(ab)
        BY <1>1, <1>2, <2>2, <3>1
      <3>3. abc[j] = ab[j]
        BY <2>1, <3>2
      <3> QED
        BY <1>2, <3>1, <3>3
    <2> HIDE DEF l, h
    <2>5. /\ x \in Seq(S) /\ Len(x) = IF l <= h THEN h - l + 1 ELSE 0
          /\ \A i \in 1 .. h - l + 1 : x[i] = abc[l + i - 1]
      <3>1. PICK t \in Seq(S), m \in Int, n \in Int : t = abc /\ m = l /\ n = h
        BY <2>1, <2>2
      <3>2. \A i \in m .. n : t[i] \in S
        BY <2>3, <3>1
      <3>3. /\ SubSeq(t, m, n) \in Seq(S)
            /\ Len(SubSeq(t, m, n)) = IF m <= n THEN n - m + 1 ELSE 0
            /\ \A i \in 1 .. n - m + 1 : SubSeq(t, m, n)[i] = t[m + i - 1]
        BY <3>2, SubSeqProperties
      <3> QED
        BY <3>1, <3>3
    <2> HIDE DEF x
    <2>6. Len(x) = Len(b)
      BY <1>1, <2>2, <2>5
    <2>7. ASSUME NEW i \in 1 .. Len(b) PROVE x[i] = b[i]
      BY <2>2, <2>4, <2>5
    <2>8. x = b
      BY <2>5, <2>6, <2>7, SeqEqual
    <2> QED
      BY <2>8 DEF x, l, h
  <1> QED
    BY <1>4, <1>5 DEF bc

-----------------------------------------------------------------------------
(***************************************************************************)
(* The window of push.                                                     *)
(***************************************************************************)

\* The end of the prompt that the detokenizer keeps.
Kept == SubSeq(prompt, IF Len(prompt) > PromptContext
                       THEN Len(prompt) - PromptContext + 1 ELSE 1, Len(prompt))

\* The tokens of a completion so far are those whose text was returned and
\* those that wait.  The window of push begins with the tokens read last, which
\* are text and end where a character does; what waits has no text or ends
\* inside a character.
Window(read, tail, before, window) ==
    /\ accepted = read \o tail
    /\ Kept \o read = before \o window
    /\ prefixOffset = Len(before)
    /\ readOffset = Len(before) + Len(window)
    /\ ClosedTokens(read) /\ ClosedTokens(window)
    /\ Text(window) # <<>>
    /\ Text(tail) = <<>> \/ Last(Text(tail)) = "?"
    /\ written \in Seq(Symbols)
    /\ Decode(prompt \o read) = Decode(prompt) \o written

\* PromptIsText in terms of the prompt alone, which no step changes.
PromptHasText ==
    /\ Decode(prompt) # <<>> /\ Last(Decode(prompt)) # "?"
    /\ Decode(Kept) # <<>>

TokenInv ==
    /\ strips \in BOOLEAN
    /\ prompt \in Seq(Vocabulary)
    /\ Kept \in Seq(Vocabulary)
    /\ accepted \in Seq(Vocabulary)
    /\ tokenIds = Kept \o accepted

WindowInv ==
    PromptHasText =>
        \E read, tail, before, window \in Seq(Vocabulary) : Window(read, tail, before, window)

DetokenizerInv == TokenInv /\ WindowInv

\* What push keeps begins inside the prompt and ends where it does, so the
\* prompt and what is kept of it are text that ends where a character does.
LEMMA KeptText ==
  ASSUME TokenInv
  PROVE  /\ PromptIsText <=> PromptHasText
         /\ PromptHasText => ClosedTokens(prompt) /\ Text(prompt) # <<>> /\ Text(Kept) # <<>>
  <1>1. SubSeq(tokenIds, 1, Len(tokenIds) - Len(accepted)) = Kept
    <2> DEFINE k == Kept
    <2>1. k \in Seq(Vocabulary) /\ accepted \in Seq(Vocabulary) /\ tokenIds = k \o accepted
      BY DEF TokenInv
    <2> HIDE DEF k
    <2>2. Len(k) \in Nat /\ Len(accepted) \in Nat /\ Len(k \o accepted) = Len(k) + Len(accepted)
      BY <2>1, LenProperties, ConcatProperties
    <2>3. Len(tokenIds) - Len(accepted) = Len(k)
      BY <2>1, <2>2
    <2>4. SubSeq(k \o accepted, 1, Len(k)) = SubSeq(k, 1, Len(k))
      BY <2>1, <2>2, RestOf
    <2>5. SubSeq(k, 1, Len(k)) = k
      BY <2>1, SubSeqFull
    <2> QED
      BY <2>1, <2>3, <2>4, <2>5 DEF k
  <1>2. PromptIsText <=> PromptHasText
    BY <1>1 DEF PromptIsText, PromptHasText
  <1>3. prompt \in Seq(Vocabulary) /\ Kept \in Seq(Vocabulary)
    BY DEF TokenInv
  <1>4. ASSUME PromptHasText
        PROVE  ClosedTokens(prompt) /\ Text(prompt) # <<>> /\ Text(Kept) # <<>>
    <2>1. Text(prompt) # <<>> /\ Last(Text(prompt)) # "?"
      BY <1>3, <1>4, DecodeText DEF PromptHasText
    <2>2. Text(Kept) # <<>>
      BY <1>3, <1>4, DecodeText DEF PromptHasText
    <2> QED
      BY <1>3, <2>1, <2>2, WholeTextIsClosed
  <1> QED
    BY <1>2, <1>4

\* What push compares when new comes after the window: the window's text, and
\* the text of the window and all after it.
Before(before, window, new) ==
    LET ids == (before \o window) \o new
    IN  Decode(SubSeq(ids, Len(before) + 1, Len(before) + Len(window)))

After(before, window, new) ==
    LET ids == (before \o window) \o new
    IN  Decode(SubSeq(ids, Len(before) + 1, Len(ids)))

\* They differ by the new text, first space and all.
LEMMA PushedText ==
  ASSUME NEW before \in Seq(Vocabulary), NEW window \in Seq(Vocabulary),
         NEW new \in Seq(Vocabulary), ClosedTokens(window), Text(window) # <<>>
  PROVE  LET prefix == Before(before, window, new)
             text == After(before, window, new)
         IN  /\ Withheld(prefix, text) <=> Text(new) = <<>> \/ Last(Text(new)) = "?"
             /\ SubSeq(text, Len(prefix) + 1, Len(text)) = Text(new)
  <1> DEFINE prefix == Before(before, window, new)
             text == After(before, window, new)
  <1>1. prefix = Decode(window) /\ text = Decode(window \o new)
    <2>1. PICK ids : ids = (before \o window) \o new
      OBVIOUS
    <2>2. /\ SubSeq(ids, Len(before) + 1, Len(before) + Len(window)) = window
          /\ SubSeq(ids, Len(before) + 1, Len(ids)) = window \o new
      BY <2>1, PartsOf
    <2> QED
      BY <2>1, <2>2 DEF Before, After
  <1> HIDE DEF prefix, text
  <1> DEFINE v == Text(new)
  <1>2. prefix \in Seq(Symbols) /\ v \in Seq(Symbols) /\ text = prefix \o v
    BY <1>1, DecodeText, DecodeConcat, FlattenIsBytes
  <1> HIDE DEF v
  <1>3. SubSeq(prefix \o v, Len(prefix) + 1, Len(prefix \o v)) = v
    BY <1>2, RestOf
  <1>4. /\ Len(text) = Len(prefix) + Len(v) /\ Len(prefix) \in Nat /\ Len(v) \in Nat
        /\ (Len(v) = 0 <=> v = <<>>)
        /\ v # <<>> => Last(text) = Last(v)
    <2>1. Len(prefix \o v) = Len(prefix) + Len(v)
      BY <1>2, ConcatProperties
    <2>2. Len(prefix) \in Nat /\ Len(v) \in Nat /\ (Len(v) = 0 <=> v = <<>>)
      BY <1>2, LenProperties, EmptySeq
    <2>3. v # <<>> => Last(prefix \o v) = Last(v)
      BY <1>2, LastOfConcat
    <2> QED
      BY <1>2, <2>1, <2>2, <2>3
  <1>5. Withheld(prefix, text) <=> v = <<>> \/ Last(v) = "?"
    <2>1. Len(text) <= Len(prefix) <=> v = <<>>
      BY <1>4
    <2> QED
      BY <1>4, <2>1 DEF Withheld
  <1> QED
    BY <1>2, <1>3, <1>5 DEF v, prefix, text

\* STOP drops the last token that push is given.
LEMMA CountedTokens ==
  ASSUME NEW new \in SeqOf(Vocabulary, 2) \ {<<>>}, NEW reason
  PROVE  Counted(new, reason) \in Seq(Vocabulary)
  <1>1. PICK m \in 0 .. 2 : new \in [1 .. m -> Vocabulary]
    BY DEF SeqOf
  <1>2. new \in Seq(Vocabulary)
    BY <1>1, SeqDef
  <1>3. Len(new) \in Nat \ {0} /\ \A i \in 1 .. Len(new) : new[i] \in Vocabulary
    BY <1>2, LenProperties, EmptySeq, ElementOfSeq
  <1>4. Front(new) \in Seq(Vocabulary)
    <2> DEFINE h == Len(new) - 1
    <2>1. 1 \in Int /\ h \in Int /\ \A i \in 1 .. h : new[i] \in Vocabulary
      BY <1>3
    <2>2. Front(new) = SubSeq(new, 1, h)
      BY DEF Front
    <2> HIDE DEF h
    <2> QED
      BY <2>1, <2>2, SubSeqProperties
  <1> QED
    BY <1>2, <1>4 DEF Counted

\* At first the window is what was kept of the prompt.
LEMMA DetokenizerInit == Init => DetokenizerInv
  <1> SUFFICES ASSUME Init PROVE DetokenizerInv
    OBVIOUS
  <1> DEFINE n == Len(prompt)
             l == IF n > PromptContext THEN n - PromptContext + 1 ELSE 1
  <1>1. prompt \in Seq(Vocabulary) /\ prompt # <<>> /\ PromptContext \in Nat \ {0}
    BY DetokenizerAssumption DEF Init
  <1>2. n \in Nat \ {0} /\ \A i \in 1 .. n : prompt[i] \in Vocabulary
    BY <1>1, LenProperties, EmptySeq, ElementOfSeq
  <1>3. l \in 1 .. n
    BY <1>1, <1>2
  <1>4. Kept = SubSeq(prompt, l, n)
    BY DEF Kept
  <1>5. Kept \in Seq(Vocabulary)
    <2>1. l \in Int /\ n \in Int /\ \A i \in l .. n : prompt[i] \in Vocabulary
      BY <1>2, <1>3
    <2> HIDE DEF l, n
    <2>2. SubSeq(prompt, l, n) \in Seq(Vocabulary)
      BY <2>1, SubSeqProperties
    <2> QED
      BY <1>4, <2>2
  <1>6. /\ tokenIds = Kept /\ accepted = <<>> /\ written = <<>> /\ strips \in BOOLEAN
        /\ prefixOffset = 0 /\ readOffset = Len(tokenIds)
    BY <1>4 DEF Init
  <1>7. <<>> \in Seq(Vocabulary) /\ <<>> \in Seq(Symbols) /\ Len(<<>>) = 0
    BY EmptySeq
  <1>8. Kept \o <<>> = Kept /\ <<>> \o Kept = Kept /\ prompt \o <<>> = prompt
    BY <1>1, <1>5, ConcatEmptySeq
  <1>9. TokenInv
    BY <1>1, <1>5, <1>6, <1>7, <1>8 DEF TokenInv
  <1>10. ASSUME PromptHasText PROVE Window(<<>>, <<>>, <<>>, Kept)
    <2>1. ClosedTokens(prompt) /\ Text(Kept) # <<>>
      BY <1>9, <1>10, KeptText
    <2>2. ClosedTokens(Kept)
      <3> DEFINE dropped == SubSeq(prompt, 1, l - 1)
      <3>1. dropped \o SubSeq(prompt, l, n) = prompt /\ dropped \in Seq(Vocabulary)
        <4>1. PICK k \in 0 .. n : k = l - 1 /\ l = k + 1
          BY <1>3
        <4>2. SubSeq(prompt, 1, k) \o SubSeq(prompt, k + 1, n) = SubSeq(prompt, 1, n)
          <5>1. 1 \in 1 .. Len(prompt) + 1 /\ k \in 1 - 1 .. Len(prompt) /\ n \in k .. Len(prompt)
            BY <1>2, <4>1
          <5> HIDE DEF n
          <5> QED
            BY <1>1, <5>1, ConcatAdjacentSubSeq
        <4>3. SubSeq(prompt, 1, n) = prompt
          BY <1>1, SubSeqFull
        <4>4. SubSeq(prompt, 1, k) \in Seq(Vocabulary)
          <5>1. 1 \in Int /\ k \in Int /\ \A i \in 1 .. k : prompt[i] \in Vocabulary
            BY <1>2, <4>1
          <5> QED
            BY <5>1, SubSeqProperties
        <4> HIDE DEF n, l
        <4> QED
          BY <4>1, <4>2, <4>3, <4>4
      <3> HIDE DEF dropped
      <3>2. dropped \o Kept = prompt
        BY <1>4, <3>1
      <3> QED
        BY <1>5, <2>1, <3>1, <3>2, TextConcat
    <2>3. Decode(prompt \o <<>>) = Decode(prompt) \o written
      <3>1. Decode(prompt) \o <<>> = Decode(prompt)
        BY <1>1, DecodeText, ConcatEmptySeq
      <3> QED
        BY <1>6, <1>8, <3>1
    <2>4. /\ accepted = <<>> \o <<>> /\ Kept \o <<>> = <<>> \o Kept
          /\ prefixOffset = Len(<<>>) /\ readOffset = Len(<<>>) + Len(Kept)
      <3>1. <<>> \o <<>> = <<>>
        BY <1>7, ConcatEmptySeq
      <3>2. Len(Kept) \in Nat
        BY <1>5, LenProperties
      <3> QED
        BY <1>6, <1>7, <1>8, <3>1, <3>2
    <2>5. ClosedTokens(<<>>) /\ Text(<<>>) = <<>> /\ written \in Seq(Symbols)
      BY <1>6, <1>7, TextOfNothing
    <2> QED
      BY <2>1, <2>2, <2>3, <2>4, <2>5 DEF Window
  <1>11. WindowInv
    BY <1>5, <1>7, <1>10 DEF WindowInv
  <1> QED
    BY <1>9, <1>11 DEF DetokenizerInv

\* What follows the prompt and whole characters is decoded as if it stood alone.
LEMMA DecodeAfterPrompt ==
  ASSUME TokenInv, PromptHasText, NEW read \in Seq(Vocabulary), NEW more \in Seq(Vocabulary),
         ClosedTokens(read)
  PROVE  Decode(prompt \o (read \o more)) = Decode(prompt \o read) \o Text(more)
  <1> DEFINE start == prompt \o read
  <1>1. prompt \in Seq(Vocabulary) /\ ClosedTokens(prompt) /\ Text(prompt) # <<>>
    BY KeptText DEF TokenInv
  <1>2. start \in Seq(Vocabulary) /\ ClosedTokens(start) /\ Text(start) # <<>>
    <2>1. start \in Seq(Vocabulary) /\ ClosedTokens(start) /\ Text(start) = Text(prompt) \o Text(read)
      BY <1>1, TextConcat
    <2>2. Text(prompt) \in Seq(Symbols) /\ Text(read) \in Seq(Symbols)
      BY <1>1, FlattenIsBytes
    <2>3. Text(prompt) \o Text(read) # <<>>
      BY <1>1, <2>2, ConcatEqualIffEmpty
    <2> QED
      BY <2>1, <2>3
  <1>3. prompt \o (read \o more) = start \o more
    <2>1. prompt \in Seq(Vocabulary) /\ read \in Seq(Vocabulary) /\ more \in Seq(Vocabulary)
      BY <1>1
    <2>2. Regroups(prompt, read, more)
      BY <2>1, ListsRegroup
    <2> QED
      BY <2>2 DEF Regroups
  <1> HIDE DEF start
  <1>4. Decode(start \o more) = Decode(start) \o Text(more)
    BY <1>2, DecodeConcat
  <1> QED
    BY <1>3, <1>4 DEF start

\* A push that returns nothing lets its tokens wait; one that returns text moves
\* the window: what was waiting becomes the window, as it is text and ends with a
\* whole character.
LEMMA PushKeeps ==
  ASSUME DetokenizerInv, NEW new \in SeqOf(Vocabulary, 2) \ {<<>>}, NEW reason,
         Push(new, reason)
  PROVE  DetokenizerInv'
  <1> DEFINE c == Counted(new, reason)
             ids == tokenIds \o c
             prefix == Decode(SubSeq(ids, prefixOffset + 1, readOffset))
             text == Decode(SubSeq(ids, prefixOffset + 1, Len(ids)))
  <1>1. c \in Seq(Vocabulary)
    BY CountedTokens
  <1>2. /\ accepted' = accepted \o c /\ tokenIds' = ids /\ UNCHANGED <<strips, prompt>>
        /\ IF Withheld(prefix, text)
           THEN UNCHANGED <<prefixOffset, readOffset, written>>
           ELSE /\ written' = written \o SubSeq(text, Len(prefix) + 1, Len(text))
                /\ prefixOffset' = readOffset
                /\ readOffset' = Len(ids)
    BY DEF Push
  <1> HIDE DEF c, prefix, text
  <1>3. /\ Kept' = Kept /\ \A q : Decode(q)' = Decode(q)
        /\ PromptHasText' <=> PromptHasText
    BY <1>2 DEF Kept, Decode, PromptHasText
  <1>4. /\ strips \in BOOLEAN /\ prompt \in Seq(Vocabulary) /\ Kept \in Seq(Vocabulary)
        /\ accepted \in Seq(Vocabulary) /\ tokenIds = Kept \o accepted
    BY DEF DetokenizerInv, TokenInv
  <1>5. TokenInv'
    <2>1. accepted \o c \in Seq(Vocabulary)
      BY <1>1, <1>4, ConcatProperties
    <2>2. Regroups(Kept, accepted, c)
      BY <1>1, <1>4, ListsRegroup
    <2> QED
      BY <1>2, <1>3, <1>4, <2>1, <2>2 DEF TokenInv, Regroups
  <1>6. ASSUME PromptHasText
        PROVE  \E read, tail, before, window \in Seq(Vocabulary) :
                  Window(read, tail, before, window)'
    <2>1. PICK read, tail, before, window \in Seq(Vocabulary) : Window(read, tail, before, window)
      BY <1>6 DEF DetokenizerInv, WindowInv
    <2>2. /\ accepted = read \o tail /\ Kept \o read = before \o window
          /\ prefixOffset = Len(before) /\ readOffset = Len(before) + Len(window)
          /\ ClosedTokens(read) /\ ClosedTokens(window) /\ Text(window) # <<>>
          /\ Text(tail) = <<>> \/ Last(Text(tail)) = "?"
          /\ written \in Seq(Symbols)
          /\ Decode(prompt \o read) = Decode(prompt) \o written
      BY <2>1 DEF Window
    <2> DEFINE more == tail \o c
    <2>3. /\ more \in Seq(Vocabulary) /\ read \o more \in Seq(Vocabulary)
          /\ accepted \o c = read \o more
      <3>1. more \in Seq(Vocabulary)
        BY <1>1, ConcatProperties
      <3>2. read \o more \in Seq(Vocabulary)
        <4> HIDE DEF more
        <4> QED
          BY <3>1, ConcatProperties
      <3>3. Regroups(read, tail, c)
        BY <1>1, ListsRegroup
      <3> QED
        BY <2>2, <3>1, <3>2, <3>3 DEF Regroups
    <2> HIDE DEF more
    <2>4. ids = (before \o window) \o more
      <3>1. Kept \o (read \o more) = (Kept \o read) \o more
        <4>1. Kept \in Seq(Vocabulary) /\ read \in Seq(Vocabulary) /\ more \in Seq(Vocabulary)
          BY <1>4, <2>3
        <4>2. Regroups(Kept, read, more)
          BY <4>1, ListsRegroup
        <4> QED
          BY <4>2 DEF Regroups
      <3>2. (Kept \o accepted) \o c = Kept \o (accepted \o c)
        <4>1. Kept \in Seq(Vocabulary) /\ accepted \in Seq(Vocabulary) /\ c \in Seq(Vocabulary)
          BY <1>1, <1>4
        <4>2. Regroups(Kept, accepted, c)
          BY <4>1, ListsRegroup
        <4> QED
          BY <4>2 DEF Regroups
      <3> QED
        BY <1>4, <2>2, <2>3, <3>1, <3>2
    <2>5. /\ Withheld(prefix, text) <=> Text(more) = <<>> \/ Last(Text(more)) = "?"
          /\ SubSeq(text, Len(prefix) + 1, Len(text)) = Text(more)
      <3> HIDE DEF ids
      <3>1. ids = (before \o window) \o more
        BY <2>4
      <3>2. /\ prefix = Decode(SubSeq(ids, Len(before) + 1, Len(before) + Len(window)))
            /\ text = Decode(SubSeq(ids, Len(before) + 1, Len(ids)))
        BY <2>2 DEF prefix, text
      <3> QED
        <4>1. prefix = Before(before, window, more) /\ text = After(before, window, more)
          BY <3>1, <3>2 DEF Before, After
        <4>2. ClosedTokens(window) /\ Text(window) # <<>> /\ more \in Seq(Vocabulary)
          BY <2>2, <2>3
        <4> QED
          BY <4>1, <4>2, PushedText
    <2>6. CASE Withheld(prefix, text)
      <3>1. Window(read, more, before, window)'
        BY <1>2, <1>3, <2>2, <2>3, <2>5, <2>6 DEF Window
      <3> QED
        BY <2>3, <3>1
    <2>7. CASE ~ Withheld(prefix, text)
      <3> DEFINE all == read \o more
                 first == before \o window
      <3>1. Text(more) # <<>> /\ Last(Text(more)) # "?"
        BY <2>5, <2>7
      <3>2. ClosedTokens(more) /\ ClosedTokens(all)
        BY <2>2, <2>3, <3>1, WholeTextIsClosed, TextConcat
      <3>3. first \in Seq(Vocabulary) /\ Len(first) = Len(before) + Len(window)
        BY ConcatProperties
      <3>4. Len(ids) = Len(first) + Len(more)
        <4> HIDE DEF first, ids
        <4>1. ids = first \o more
          BY <2>4 DEF first
        <4>2. Len(first \o more) = Len(first) + Len(more)
          BY <2>3, <3>3, ConcatProperties
        <4> QED
          BY <4>1, <4>2
      <3>5. /\ written \o Text(more) \in Seq(Symbols)
            /\ Decode(prompt \o all) = Decode(prompt) \o (written \o Text(more))
        <4> DEFINE v == Text(more)
        <4>1. Decode(prompt \o all) = Decode(prompt \o read) \o v
          BY <1>6, <2>2, <2>3, DecodeAfterPrompt DEF DetokenizerInv
        <4>2. v \in Seq(Symbols) /\ Decode(prompt) \in Seq(Symbols)
          BY <1>4, <2>3, FlattenIsBytes, DecodeText
        <4> HIDE DEF v
        <4>3. /\ (Decode(prompt) \o written) \o v = Decode(prompt) \o (written \o v)
              /\ written \o v \in Seq(Symbols)
          <5>1. Decode(prompt) \in Seq(Symbols) /\ written \in Seq(Symbols) /\ v \in Seq(Symbols)
            BY <2>2, <4>2
          <5>2. Regroups(Decode(prompt), written, v)
            BY <5>1, ListsRegroup
          <5>3. written \o v \in Seq(Symbols)
            BY <5>1, ConcatProperties
          <5> QED
            BY <5>2, <5>3 DEF Regroups
        <4> HIDE DEF all
        <4> QED
          BY <2>2, <4>1, <4>3 DEF v
      <3>6. all \o <<>> = all /\ Text(<<>>) = <<>> /\ <<>> \in Seq(Vocabulary)
        BY <2>3, ConcatEmptySeq, TextOfNothing, EmptySeq
      <3>7. Kept \o all = first \o more
        <4>1. Kept \o (read \o more) = (Kept \o read) \o more
          <5>1. Kept \in Seq(Vocabulary) /\ read \in Seq(Vocabulary) /\ more \in Seq(Vocabulary)
            BY <1>4, <2>3
          <5>2. Regroups(Kept, read, more)
            BY <5>1, ListsRegroup
          <5> QED
            BY <5>2 DEF Regroups
        <4> QED
          BY <2>2, <4>1
      <3>8. /\ accepted' = all \o <<>> /\ Kept' \o all = first \o more
            /\ prefixOffset' = Len(first) /\ readOffset' = Len(first) + Len(more)
            /\ written' = written \o Text(more)
        BY <1>2, <1>3, <2>2, <2>3, <2>5, <2>7, <3>3, <3>4, <3>6, <3>7
      <3> HIDE DEF all, first
      <3>9. Window(all, <<>>, first, more)'
        BY <1>2, <1>3, <3>1, <3>2, <3>5, <3>6, <3>8 DEF Window
      <3> QED
        BY <2>3, <3>3, <3>6, <3>9 DEF all
    <2> QED
      BY <2>6, <2>7
  <1>7. WindowInv'
    BY <1>3, <1>6 DEF WindowInv
  <1> QED
    BY <1>5, <1>7 DEF DetokenizerInv

\* Every step keeps the invariant.
LEMMA DetokenizerStep == DetokenizerInv /\ [Next]_vars => DetokenizerInv'
  <1> SUFFICES ASSUME DetokenizerInv, [Next]_vars PROVE DetokenizerInv'
    OBVIOUS
  <1>1. CASE Next
    <2>1. PICK new \in SeqOf(Vocabulary, 2) \ {<<>>}, reason \in {"running", "stop", "length"} :
             Push(new, reason)
      BY <1>1 DEF Next
    <2> QED
      BY <2>1, PushKeeps
  <1>2. CASE UNCHANGED vars
    <2>1. UNCHANGED <<strips, prompt, tokenIds, prefixOffset, readOffset, accepted, written>>
      BY <1>2 DEF vars
    <2>2. Kept' = Kept /\ (PromptHasText' <=> PromptHasText) /\ \A q : Decode(q)' = Decode(q)
      BY <2>1 DEF Kept, Decode, PromptHasText
    <2>3. TokenInv'
      BY <2>1, <2>2 DEF DetokenizerInv, TokenInv
    <2>4. ASSUME PromptHasText
          PROVE  \E read, tail, before, window \in Seq(Vocabulary) :
                    Window(read, tail, before, window)'
      <3>1. PICK read, tail, before, window \in Seq(Vocabulary) : Window(read, tail, before, window)
        BY <2>4 DEF DetokenizerInv, WindowInv
      <3>2. Window(read, tail, before, window)'
        BY <2>1, <2>2, <3>1 DEF Window
      <3> QED
        BY <3>2
    <2> QED
      BY <2>2, <2>3, <2>4 DEF DetokenizerInv, WindowInv
  <1> QED
    BY <1>1, <1>2

\* The completion is what was returned and the text of what waits.
LEMMA WindowIsCompletion == DetokenizerInv => StreamIsCompletion
  <1> SUFFICES ASSUME DetokenizerInv, PromptIsText
               PROVE  /\ IsPrefix(written, Completion)
                      /\ Completion = <<>> \/ Last(Completion) = "?" \/ written = Completion
    BY DEF StreamIsCompletion
  <1>1. TokenInv /\ PromptHasText
    BY KeptText DEF DetokenizerInv
  <1>2. PICK read, tail, before, window \in Seq(Vocabulary) : Window(read, tail, before, window)
    BY <1>1 DEF DetokenizerInv, WindowInv
  <1>3. /\ accepted = read \o tail /\ ClosedTokens(read)
        /\ Text(tail) = <<>> \/ Last(Text(tail)) = "?"
        /\ written \in Seq(Symbols)
        /\ Decode(prompt \o read) = Decode(prompt) \o written
    BY <1>2 DEF Window
  <1> DEFINE v == Text(tail)
             d == Decode(prompt)
  <1>4. v \in Seq(Symbols) /\ d \in Seq(Symbols)
    <2>1. prompt \in Seq(Vocabulary)
      BY <1>1 DEF TokenInv
    <2> QED
      BY <2>1, FlattenIsBytes, DecodeText
  <1>5. Decode(prompt \o accepted) = (d \o written) \o v
    BY <1>1, <1>3, DecodeAfterPrompt
  <1> HIDE DEF v, d
  <1> DEFINE all == written \o v
  <1>6. all \in Seq(Symbols) /\ (d \o written) \o v = d \o all
    <2>1. d \in Seq(Symbols) /\ written \in Seq(Symbols) /\ v \in Seq(Symbols)
      BY <1>3, <1>4
    <2>2. Regroups(d, written, v)
      BY <2>1, ListsRegroup
    <2>3. written \o v \in Seq(Symbols)
      BY <2>1, ConcatProperties
    <2> QED
      BY <2>2, <2>3 DEF Regroups
  <1>7. Completion = all
    <2> HIDE DEF all
    <2>1. SubSeq(d \o all, Len(d) + 1, Len(d \o all)) = all
      BY <1>4, <1>6, RestOf
    <2> QED
      BY <1>5, <1>6, <2>1 DEF Completion, d
  <1>8. IsPrefix(written, all)
    <2>1. Len(written) \in Nat /\ Len(v) \in Nat /\ Len(all) = Len(written) + Len(v)
      BY <1>3, <1>4, LenProperties, ConcatProperties
    <2>2. SubSeq(all, 1, Len(written)) = SubSeq(written, 1, Len(written))
      BY <1>3, <1>4, <2>1, RestOf
    <2> HIDE DEF all
    <2> QED
      BY <2>1, <2>2 DEF IsPrefix
  <1>9. Last(all) = "?" \/ written = all
    <2>1. CASE v = <<>>
      BY <1>3, <2>1, ConcatEmptySeq
    <2>2. CASE v # <<>>
      <3>1. Last(all) = Last(v)
        BY <1>3, <1>4, <2>2, LastOfConcat
      <3> QED
        BY <1>3, <2>2, <3>1 DEF v
    <2> QED
      BY <2>1, <2>2
  <1> QED
    BY <1>7, <1>8, <1>9

\* StreamIsCompletion for every vocabulary, prompt and way to cut a completion
\* into pushes: what a client of stream() has read is a beginning of the one
\* decode of everything, and all of it once the last character is complete
\* (IncrementalDetokenizer.push).
THEOREM DetokenizerStreamIsCompletion == Spec => []StreamIsCompletion
  <1>1. Init => DetokenizerInv
    BY DetokenizerInit
  <1>2. DetokenizerInv /\ [Next]_vars => DetokenizerInv'
    BY DetokenizerStep
  <1>3. DetokenizerInv => StreamIsCompletion
    BY WindowIsCompletion
  <1> QED
    BY <1>1, <1>2, <1>3, PTL DEF Spec
=============================================================================
