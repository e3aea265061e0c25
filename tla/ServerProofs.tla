---------------------------- MODULE ServerProofs ----------------------------
(***************************************************************************)
(* The engine client and the server over it, for any requests, any number  *)
(* of outputs, bodies and pipes of any size.                               *)
(*                                                                         *)
(* First the client with any user: what close() leaves behind, who is      *)
(* still waited for, when the engine is through with a request, and that   *)
(* it never works for nobody.  Then the server: it is such a user, a       *)
(* handler that ends leaves nothing behind, and a peer that stays gets a   *)
(* whole answer.  The server's invariant says, for each place of a         *)
(* handler, where its call stands, what it has sent and what it still has  *)
(* to.                                                                     *)
(***************************************************************************)
EXTENDS Server, SequenceTheorems, FiniteSetTheorems, TLAPS

-----------------------------------------------------------------------------
(***************************************************************************)
(* The engine client.                                                      *)
(***************************************************************************)

-----------------------------------------------------------------------------
(* Pipes: queues that get, and lose, one message at a time *)

\* m is in q no more than once.
Once(q, m) == \A i, j \in DOMAIN q : q[i] = m /\ q[j] = m => i = j

\* Behind every a in q comes a b.
Followed(q, a, b) == \A i \in DOMAIN q : q[i] = a => \E j \in i + 1 .. Len(q) : q[j] = b

\* w is q without its k-th message.
Deleted(q, w, k) ==
    /\ k \in DOMAIN q /\ Len(w) + 1 = Len(q)
    /\ \A i \in 1 .. Len(w) : w[i] = IF i < k THEN q[i] ELSE q[i + 1]

\* The elements of a queue, by their places.
LEMMA ElementsOf ==
    ASSUME NEW S, NEW q \in Seq(S)
    PROVE  /\ Elements(q) \subseteq S
           /\ DOMAIN q = 1 .. Len(q) /\ Len(q) \in Nat
           /\ \A i \in 1 .. Len(q) : q[i] \in Elements(q) /\ q[i] \in S
           /\ \A x \in Elements(q) : \E i \in 1 .. Len(q) : q[i] = x
  BY DEF Elements

\* The empty queue.
LEMMA ElementsOfEmpty == Elements(<<>>) = {}
  BY DEF Elements

\* A queue with one more at its end.
LEMMA AppendFacts ==
    ASSUME NEW S, NEW q \in Seq(S), NEW m \in S
    PROVE  /\ Append(q, m) \in Seq(S) /\ Len(Append(q, m)) = Len(q) + 1
           /\ \A i \in 1 .. Len(q) : Append(q, m)[i] = q[i]
           /\ Append(q, m)[Len(q) + 1] = m
           /\ DOMAIN Append(q, m) = 1 .. Len(q) + 1
           /\ Elements(Append(q, m)) = Elements(q) \cup {m}
  <1>1. /\ Append(q, m) \in Seq(S) /\ Len(Append(q, m)) = Len(q) + 1
        /\ \A i \in 1 .. Len(q) : Append(q, m)[i] = q[i]
        /\ Append(q, m)[Len(q) + 1] = m
        /\ Len(q) \in Nat
    OBVIOUS
  <1>2. DOMAIN Append(q, m) = 1 .. Len(q) + 1 /\ DOMAIN q = 1 .. Len(q)
    BY <1>1
  <1> DEFINE w == Append(q, m)
  <1> HIDE DEF w
  <1>3. Elements(w) = Elements(q) \cup {m}
    <2>1. \A i \in 1 .. Len(q) + 1 : i \in 1 .. Len(q) \/ i = Len(q) + 1
      BY <1>1
    <2>2. \A i \in 1 .. Len(q) : i \in 1 .. Len(q) + 1
      BY <1>1
    <2>3. Len(q) + 1 \in 1 .. Len(q) + 1
      BY <1>1
    <2> QED
      BY <1>1, <1>2, <2>1, <2>2, <2>3 DEF Elements, w
  <1> QED
    BY <1>1, <1>2, <1>3 DEF w

\* What sending a message does to the messages under way.
LEMMA SendFacts ==
    ASSUME NEW S, NEW q \in Seq(S), NEW m \in S
    PROVE  /\ \A x : Once(q, x) /\ (x = m => x \notin Elements(q)) => Once(Append(q, m), x)
           /\ \A a, b : Followed(q, a, b) /\ m # a => Followed(Append(q, m), a, b)
           /\ \A a : a # m => Followed(Append(q, m), a, m)
  <1> DEFINE w == Append(q, m)
             n == Len(q) + 1
  <1>1. /\ Len(w) = n /\ DOMAIN w = 1 .. n /\ DOMAIN q = 1 .. Len(q) /\ Len(q) \in Nat
        /\ \A i \in 1 .. Len(q) : w[i] = q[i] /\ q[i] \in Elements(q)
        /\ w[n] = m
    BY AppendFacts, ElementsOf
  <1>2. \A i \in 1 .. n : i = n \/ i \in 1 .. Len(q)
    BY <1>1
  <1>3. n \in 1 .. n /\ \A i \in 1 .. Len(q) : n \in i + 1 .. n
    BY <1>1
  <1>4. \A i \in 1 .. Len(q) : \A j \in i + 1 .. Len(q) : j \in i + 1 .. n /\ j \in 1 .. Len(q)
    BY <1>1
  <1> HIDE DEF w, n
  <1>5. ASSUME NEW x, Once(q, x), x = m => x \notin Elements(q)
        PROVE  Once(w, x)
    BY <1>1, <1>2, <1>5 DEF Once
  <1>6. ASSUME NEW a, NEW b, Followed(q, a, b), m # a PROVE Followed(w, a, b)
    <2> SUFFICES ASSUME NEW i \in 1 .. n, w[i] = a
                 PROVE  \E j \in i + 1 .. n : w[j] = b
      BY <1>1 DEF Followed
    <2>1. i \in 1 .. Len(q) /\ q[i] = a
      BY <1>1, <1>2, <1>6
    <2>2. PICK j \in i + 1 .. Len(q) : q[j] = b
      BY <1>1, <1>6, <2>1 DEF Followed
    <2>3. j \in i + 1 .. n /\ w[j] = b
      BY <1>1, <1>4, <2>1, <2>2
    <2> QED
      BY <2>3
  <1>7. ASSUME NEW a, a # m PROVE Followed(w, a, m)
    BY <1>1, <1>2, <1>3, <1>7 DEF Followed
  <1> QED
    BY <1>5, <1>6, <1>7 DEF w

\* What taking a message away does to the others.
LEMMA DeletedFacts ==
    ASSUME NEW S, NEW q \in Seq(S), NEW w \in Seq(S), NEW k, Deleted(q, w, k)
    PROVE  /\ Elements(w) \subseteq Elements(q)
           /\ \A x \in Elements(q) : x # q[k] => x \in Elements(w)
           /\ Once(q, q[k]) => q[k] \notin Elements(w)
           /\ \A x : Once(q, x) => Once(w, x)
           /\ \A a, b : Followed(q, a, b) /\ (q[k] # b \/ k = 1) => Followed(w, a, b)
  <1> DEFINE n == Len(w)
             At(i) == IF i < k THEN i ELSE i + 1
  <1>1. /\ n \in Nat /\ Len(q) = n + 1 /\ k \in 1 .. n + 1
        /\ DOMAIN q = 1 .. n + 1 /\ DOMAIN w = 1 .. n
    BY DEF Deleted
  <1>2. \A i \in 1 .. n : At(i) \in 1 .. n + 1 /\ At(i) # k
    BY <1>1
  <1>3. \A i \in 1 .. n : w[i] = q[At(i)]
    BY DEF Deleted
  <1>4. \A i, j \in 1 .. n : /\ At(i) = At(j) => i = j
                             /\ i < j <=> At(i) < At(j)
    BY <1>1
  <1>5. \A i \in 1 .. n + 1 : i # k => \E j \in 1 .. n : At(j) = i
    <2> SUFFICES ASSUME NEW i \in 1 .. n + 1, i # k PROVE \E j \in 1 .. n : At(j) = i
      OBVIOUS
    <2>1. CASE i < k
      BY <1>1, <2>1
    <2>2. CASE i > k
      <3>1. i - 1 \in 1 .. n /\ At(i - 1) = i
        BY <1>1, <2>2
      <3> QED
        BY <3>1
    <2> QED
      BY <1>1, <2>1, <2>2
  <1>6. \A i \in 1 .. n : k = 1 => k < At(i)
    BY <1>1
  <1> HIDE DEF n, At
  <1>7. Elements(w) \subseteq Elements(q)
    BY <1>1, <1>2, <1>3 DEF Elements
  <1>8. ASSUME NEW x \in Elements(q), x # q[k] PROVE x \in Elements(w)
    <2>1. PICK i \in 1 .. n + 1 : q[i] = x
      BY <1>1 DEF Elements
    <2>2. PICK j \in 1 .. n : At(j) = i
      BY <1>5, <1>8, <2>1
    <2> QED
      BY <1>1, <1>3, <2>1, <2>2 DEF Elements
  <1>9. ASSUME Once(q, q[k]) PROVE q[k] \notin Elements(w)
    BY <1>1, <1>2, <1>3, <1>9 DEF Once, Elements
  <1>10. ASSUME NEW x, Once(q, x) PROVE Once(w, x)
    BY <1>1, <1>2, <1>3, <1>4, <1>10 DEF Once
  <1>11. ASSUME NEW a, NEW b, Followed(q, a, b), q[k] # b \/ k = 1
         PROVE  Followed(w, a, b)
    <2> SUFFICES ASSUME NEW i \in 1 .. n, w[i] = a
                 PROVE  \E j \in i + 1 .. n : w[j] = b
      BY <1>1 DEF Followed, n
    <2>1. q[At(i)] = a /\ At(i) \in 1 .. n + 1
      BY <1>2, <1>3
    <2>2. PICK l \in At(i) + 1 .. n + 1 : q[l] = b
      BY <1>1, <1>11, <2>1 DEF Followed
    <2>3. l \in 1 .. n + 1 /\ At(i) < l
      BY <1>1, <2>1
    <2>4. l # k
      <3>1. k = 1 => k < l
        BY <1>1, <1>6, <2>1, <2>3
      <3>2. k = 1 => l # k
        BY <1>1, <2>3, <3>1
      <3> QED
        BY <1>11, <2>2, <3>2
    <2>5. PICK j \in 1 .. n : At(j) = l
      BY <1>5, <2>3, <2>4
    <2>6. i < j
      BY <1>4, <2>3, <2>5
    <2>7. j \in i + 1 .. n
      BY <1>1, <2>6
    <2> QED
      BY <1>3, <2>2, <2>5, <2>7
  <1> QED
    BY <1>7, <1>8, <1>9, <1>10, <1>11

\* The head of a queue is its first message.
LEMMA TailFacts ==
    ASSUME NEW S, NEW q \in Seq(S), q # <<>>
    PROVE  /\ Tail(q) \in Seq(S) /\ Head(q) \in S /\ Head(q) = q[1]
           /\ Head(q) \in Elements(q) /\ Deleted(q, Tail(q), 1)
           /\ Len(q) \in Nat \ {0} /\ Len(Tail(q)) = Len(q) - 1
           /\ \A i \in 1 .. Len(q) - 1 : Tail(q)[i] = q[i + 1]
  <1>1. /\ Len(q) \in Nat \ {0} /\ Head(q) = q[1] /\ Tail(q) \in Seq(S)
        /\ Len(Tail(q)) = Len(q) - 1
        /\ \A i \in 1 .. Len(q) - 1 : Tail(q)[i] = q[i + 1]
    BY EmptySeq
  <1>2. 1 \in DOMAIN q /\ Head(q) \in S
    BY <1>1
  <1>3. Head(q) \in Elements(q)
    BY <1>1, <1>2 DEF Elements
  <1>4. Deleted(q, Tail(q), 1)
    BY <1>1, <1>2 DEF Deleted
  <1> QED
    BY <1>1, <1>2, <1>3, <1>4

\* A queue with two ends keeps the last one.
LEMMA LastFacts ==
    ASSUME NEW S, NEW q \in Seq(S), q # <<>>, Head(q) # q[Len(q)]
    PROVE  Tail(q) # <<>> /\ Tail(q)[Len(Tail(q))] = q[Len(q)]
  <1> DEFINE n == Len(q) - 1
             t == Tail(q)
  <1>1. /\ Len(q) \in Nat \ {0} /\ Head(q) = q[1] /\ Len(t) = n
        /\ \A i \in 1 .. n : t[i] = q[i + 1]
    BY TailFacts
  <1>2. Len(q) # 1
    BY <1>1
  <1>3. n \in 1 .. n /\ n + 1 = Len(q) /\ n # 0
    BY <1>1, <1>2
  <1> HIDE DEF n, t
  <1>4. t[n] = q[Len(q)]
    BY <1>1, <1>3
  <1>5. t # <<>>
    BY <1>1, <1>3
  <1> QED
    BY <1>1, <1>4, <1>5 DEF t

\* Withdrawing a message takes away one that waits, or nothing.
LEMMA RemoveFacts ==
    ASSUME NEW S, NEW q \in Seq(S), NEW m
    PROVE  /\ Remove(q, m) \in Seq(S)
           /\ m \notin Elements(q) => Remove(q, m) = q
           /\ m \in Elements(q) => \E k \in DOMAIN q : q[k] = m /\ Deleted(q, Remove(q, m), k)
  <1>1. CASE m \notin Elements(q)
    BY <1>1 DEF Remove
  <1>2. CASE m \in Elements(q)
    <2> DEFINE k == CHOOSE i \in DOMAIN q : q[i] = m
               w == [i \in 1 .. Len(q) - 1 |-> IF i < k THEN q[i] ELSE q[i + 1]]
    <2>1. k \in DOMAIN q /\ q[k] = m
      BY <1>2 DEF Elements
    <2>2. Remove(q, m) = w
      BY <1>2 DEF Remove
    <2>3. DOMAIN q = 1 .. Len(q) /\ Len(q) \in Nat \ {0} /\ \A i \in 1 .. Len(q) : q[i] \in S
      <3>1. DOMAIN q = 1 .. Len(q) /\ Len(q) \in Nat /\ \A i \in 1 .. Len(q) : q[i] \in S
        OBVIOUS
      <3> QED
        BY <2>1, <3>1
    <2> HIDE DEF k
    <2>4. \A i \in 1 .. Len(q) - 1 : (IF i < k THEN q[i] ELSE q[i + 1]) \in S
      BY <2>3
    <2>5. w \in Seq(S) /\ Len(w) = Len(q) - 1
      <3>1. Len(q) - 1 \in Nat
        BY <2>3
      <3>2. w \in [1 .. Len(q) - 1 -> S]
        BY <2>4
      <3> HIDE DEF w
      <3> QED
        BY <3>1, <3>2, SeqDef, LenProperties
    <2>6. Deleted(q, w, k)
      BY <2>1, <2>3, <2>5 DEF Deleted
    <2> QED
      BY <1>2, <2>1, <2>2, <2>5, <2>6
  <1> QED
    BY <1>1, <1>2

\* One pipe after another.
LEMMA ConcatFacts ==
    ASSUME NEW S, NEW p \in Seq(S), NEW q \in Seq(S)
    PROVE  /\ p \o q \in Seq(S) /\ Len(p \o q) = Len(p) + Len(q)
           /\ \A i \in 1 .. Len(p) : (p \o q)[i] = p[i]
           /\ \A i \in 1 .. Len(q) : (p \o q)[Len(p) + i] = q[i]
           /\ Elements(p \o q) = Elements(p) \cup Elements(q)
           /\ p \o <<>> = p /\ <<>> \o q = q
  <1> DEFINE s == p \o q
  <1>1. /\ s \in Seq(S) /\ Len(s) = Len(p) + Len(q)
        /\ \A i \in 1 .. Len(p) : s[i] = p[i]
        /\ \A i \in Len(p) + 1 .. Len(p) + Len(q) : s[i] = q[i - Len(p)]
        /\ Len(p) \in Nat /\ Len(q) \in Nat
    BY ConcatProperties
  <1>2. \A i \in 1 .. Len(s) : \/ i \in 1 .. Len(p)
                               \/ i - Len(p) \in 1 .. Len(q) /\ i = Len(p) + (i - Len(p))
    BY <1>1
  <1>3. \A i \in 1 .. Len(q) : Len(p) + i \in 1 .. Len(s) /\ s[Len(p) + i] = q[i]
    <2> TAKE i \in 1 .. Len(q)
    <2>1. Len(p) + i \in Len(p) + 1 .. Len(p) + Len(q) /\ (Len(p) + i) - Len(p) = i
      BY <1>1
    <2>2. Len(p) + i \in 1 .. Len(s)
      BY <1>1
    <2> QED
      BY <1>1, <2>1, <2>2
  <1>4. \A i \in 1 .. Len(p) : i \in 1 .. Len(s)
    BY <1>1
  <1>5. DOMAIN s = 1 .. Len(s) /\ DOMAIN p = 1 .. Len(p) /\ DOMAIN q = 1 .. Len(q)
    BY <1>1
  <1> HIDE DEF s
  <1>6. Elements(s) = Elements(p) \cup Elements(q)
    <2>1. ASSUME NEW x \in Elements(s) PROVE x \in Elements(p) \cup Elements(q)
      <3>1. PICK i \in 1 .. Len(s) : s[i] = x
        BY <1>1, ElementsOf
      <3>2. CASE i \in 1 .. Len(p)
        BY <1>1, <3>1, <3>2, ElementsOf
      <3>3. CASE i \notin 1 .. Len(p)
        <4> DEFINE j == i - Len(p)
        <4>1. j \in 1 .. Len(q) /\ i = Len(p) + j
          BY <1>2, <3>3
        <4> HIDE DEF j
        <4> QED
          BY <1>3, <3>1, <4>1, ElementsOf
      <3> QED
        BY <3>2, <3>3
    <2>2. Elements(p) \subseteq Elements(s)
      BY <1>1, <1>4, <1>5 DEF Elements
    <2>3. ASSUME NEW x \in Elements(q) PROVE x \in Elements(s)
      <3>1. PICK j \in 1 .. Len(q) : q[j] = x
        BY ElementsOf
      <3> DEFINE i == Len(p) + j
      <3>2. i \in 1 .. Len(s) /\ s[i] = x
        BY <1>3, <3>1
      <3> HIDE DEF i
      <3> QED
        BY <1>1, <3>2, ElementsOf
    <2> QED
      BY <2>1, <2>2, <2>3
  <1>7. p \o <<>> = p /\ <<>> \o q = q
    BY ConcatEmptySeq
  <1> QED
    BY <1>1, <1>3, <1>6, <1>7 DEF s

\* A message before a queue.
LEMMA ConsFacts ==
    ASSUME NEW S, NEW h \in S, NEW u \in Seq(S)
    PROVE  /\ <<h>> \in Seq(S) /\ <<h>> \o u \in Seq(S) /\ Len(<<h>> \o u) = 1 + Len(u)
           /\ (<<h>> \o u)[1] = h
           /\ \A i \in 1 .. Len(u) : (<<h>> \o u)[1 + i] = u[i]
  <1> DEFINE one == <<h>>
  <1>1. one \in Seq(S) /\ Len(one) = 1 /\ one[1] = h
    OBVIOUS
  <1> HIDE DEF one
  <1>2. /\ one \o u \in Seq(S) /\ Len(one \o u) = Len(one) + Len(u)
        /\ \A i \in 1 .. Len(one) : (one \o u)[i] = one[i]
        /\ \A i \in 1 .. Len(u) : (one \o u)[Len(one) + i] = u[i]
    <2>1. \A p \in Seq(S) :
              /\ p \o u \in Seq(S) /\ Len(p \o u) = Len(p) + Len(u)
              /\ \A i \in 1 .. Len(p) : (p \o u)[i] = p[i]
              /\ \A i \in 1 .. Len(u) : (p \o u)[Len(p) + i] = u[i]
      BY ConcatFacts
    <2> QED
      BY <1>1, <2>1
  <1>3. 1 \in 1 .. 1
    OBVIOUS
  <1>4. /\ Len(one \o u) = 1 + Len(u)
        /\ (one \o u)[1] = one[1]
        /\ \A i \in 1 .. Len(u) : (one \o u)[1 + i] = u[i]
    BY <1>1, <1>2, <1>3
  <1> QED
    BY <1>1, <1>2, <1>4 DEF one

\* What happens to one pipe happens to both, one after the other.
LEMMA ConcatSteps ==
    ASSUME NEW S, NEW p \in Seq(S), NEW q \in Seq(S)
    PROVE  /\ \A m \in S : Append(p \o q, m) = p \o Append(q, m)
           /\ q # <<>> => Append(p, Head(q)) \o Tail(q) = p \o q
           /\ p # <<>> => Tail(p \o q) = Tail(p) \o q /\ Head(p \o q) = Head(p) /\ p \o q # <<>>
           /\ \A w \in Seq(S) : \A k : Deleted(q, w, k) => Deleted(p \o q, p \o w, Len(p) + k)
  <1>1. Len(p) \in Nat /\ Len(q) \in Nat
    OBVIOUS
  <1>2. ASSUME NEW m \in S PROVE Append(p \o q, m) = p \o Append(q, m)
    <2> DEFINE one == <<m>>
    <2>1. one \in Seq(S)
      OBVIOUS
    <2>2. Append(p \o q, m) = (p \o q) \o one /\ Append(q, m) = q \o one
      BY ConcatFacts, AppendIsConcat
    <2> HIDE DEF one
    <2> QED
      BY <2>1, <2>2, ConcatAssociative
  <1>3. ASSUME NEW t \in Seq(S), t # <<>>
        PROVE  LET one == <<Head(t)>>
               IN  one \in Seq(S) /\ t = one \o Tail(t) /\ Head(t) \in S /\ Tail(t) \in Seq(S)
    <2> DEFINE h == Head(t)
               one == <<h>>
               u == Tail(t)
    <2>1. h \in S /\ h = t[1] /\ u \in Seq(S) /\ Len(t) \in Nat \ {0} /\ Len(u) = Len(t) - 1
          /\ \A i \in 1 .. Len(t) - 1 : u[i] = t[i + 1]
      BY <1>3, TailFacts
    <2> HIDE DEF h, u
    <2>2. one \in Seq(S) /\ one \o u \in Seq(S) /\ Len(one \o u) = 1 + Len(u)
          /\ (one \o u)[1] = h
          /\ \A i \in 1 .. Len(u) : (one \o u)[1 + i] = u[i]
      BY <2>1, ConsFacts
    <2> HIDE DEF one
    <2>3. Len(one \o u) = Len(t)
      BY <2>1, <2>2
    <2>4. \A i \in 1 .. Len(t) : (one \o u)[i] = t[i]
      <3> TAKE i \in 1 .. Len(t)
      <3>1. CASE i = 1
        BY <2>1, <2>2, <3>1
      <3>2. CASE i # 1
        <4> DEFINE j == i - 1
        <4>1. j \in 1 .. Len(u) /\ i = 1 + j /\ i = j + 1 /\ j \in 1 .. Len(t) - 1
          BY <2>1, <3>2
        <4> HIDE DEF j
        <4> QED
          BY <2>1, <2>2, <4>1
      <3> QED
        BY <3>1, <3>2
    <2>5. t = one \o u
      BY <2>2, <2>3, <2>4, SeqEqual
    <2> QED
      BY <2>1, <2>2, <2>5 DEF one, u, h
  <1>4. ASSUME q # <<>> PROVE Append(p, Head(q)) \o Tail(q) = p \o q
    <2> DEFINE one == <<Head(q)>>
               u == Tail(q)
    <2>1. one \in Seq(S) /\ q = one \o u /\ Head(q) \in S /\ u \in Seq(S)
      BY <1>3, <1>4
    <2>2. Append(p, Head(q)) = p \o one
      BY <2>1, AppendIsConcat
    <2> HIDE DEF one, u
    <2>3. (p \o one) \o u = p \o (one \o u)
      BY <2>1, ConcatAssociative
    <2> QED
      BY <2>1, <2>2, <2>3 DEF u
  <1>5. ASSUME p # <<>>
        PROVE  Tail(p \o q) = Tail(p) \o q /\ Head(p \o q) = Head(p) /\ p \o q # <<>>
    <2> DEFINE h == Head(p)
               one == <<h>>
               u == Tail(p)
               v == u \o q
    <2>1. one \in Seq(S) /\ p = one \o u /\ h \in S /\ u \in Seq(S)
      BY <1>3, <1>5
    <2>2. p \o q = one \o v /\ v \in Seq(S)
      <3>0. one \in Seq(S) /\ u \in Seq(S)
        BY <2>1
      <3> HIDE DEF one, u
      <3>1. (one \o u) \o q = one \o (u \o q)
        BY SMTT(60), <3>0, ConcatAssociative
      <3> QED
        BY <2>1, <3>1, ConcatFacts
    <2> HIDE DEF v, u, h
    <2> DEFINE s == one \o v
    <2>3. s \in Seq(S) /\ Len(s) = 1 + Len(v) /\ s[1] = h
          /\ \A i \in 1 .. Len(v) : s[1 + i] = v[i]
      BY <2>1, <2>2, ConsFacts
    <2> HIDE DEF s
    <2>4. Len(v) \in Nat
      BY <2>2
    <2>5. s # <<>>
      BY <2>3, <2>4
    <2>6. Tail(s) \in Seq(S) /\ Len(Tail(s)) = Len(v) /\ Head(s) = h
          /\ \A i \in 1 .. Len(v) : Tail(s)[i] = s[i + 1]
      <3>1. Len(s) - 1 = Len(v)
        BY <2>3, <2>4
      <3> QED
        BY <2>3, <2>5, <3>1, TailFacts
    <2>7. \A i \in 1 .. Len(v) : Tail(s)[i] = v[i]
      <3> TAKE i \in 1 .. Len(v)
      <3>1. i + 1 = 1 + i
        OBVIOUS
      <3> QED
        BY <2>3, <2>6, <3>1
    <2>8. Tail(s) = v
      BY <2>2, <2>6, <2>7, SeqEqual
    <2> QED
      BY <2>2, <2>5, <2>6, <2>8 DEF s, v, u, h
  <1>6. ASSUME NEW w \in Seq(S), NEW k, Deleted(q, w, k)
        PROVE  Deleted(p \o q, p \o w, Len(p) + k)
    <2> DEFINE n == Len(p)
               a == p \o q
               b == p \o w
    <2>1. /\ n \in Nat /\ Len(w) \in Nat /\ Len(q) = Len(w) + 1 /\ k \in 1 .. Len(q)
          /\ \A i \in 1 .. Len(w) : w[i] = IF i < k THEN q[i] ELSE q[i + 1]
      BY <1>1, <1>6 DEF Deleted
    <2>2. /\ a \in Seq(S) /\ Len(a) = n + Len(q)
          /\ \A i \in 1 .. n : a[i] = p[i]
          /\ \A i \in 1 .. Len(q) : a[n + i] = q[i]
      BY ConcatFacts
    <2>3. /\ b \in Seq(S) /\ Len(b) = n + Len(w)
          /\ \A i \in 1 .. n : b[i] = p[i]
          /\ \A i \in 1 .. Len(w) : b[n + i] = w[i]
      BY ConcatFacts
    <2> HIDE DEF n, a, b
    <2>4. Len(b) + 1 = Len(a) /\ n + k \in 1 .. Len(a) /\ DOMAIN a = 1 .. Len(a)
      BY <2>1, <2>2, <2>3
    <2>5. \A i \in 1 .. Len(b) : b[i] = IF i < n + k THEN a[i] ELSE a[i + 1]
      <3> TAKE i \in 1 .. Len(b)
      <3>1. CASE i <= n
        <4>1. i \in 1 .. n /\ i < n + k
          BY <2>1, <3>1
        <4> QED
          BY <2>2, <2>3, <4>1
      <3>2. CASE i > n
        <4> DEFINE j == i - n
        <4>1. j \in 1 .. Len(w) /\ i = n + j /\ j \in 1 .. Len(q) /\ j + 1 \in 1 .. Len(q)
          BY <2>1, <2>3, <3>2
        <4>2. i < n + k <=> j < k
          BY <2>1, <4>1
        <4>3. i + 1 = n + (j + 1)
          BY <2>1, <4>1
        <4> HIDE DEF j
        <4>4. b[i] = w[j] /\ a[i] = q[j] /\ a[i + 1] = q[j + 1]
          BY <2>2, <2>3, <4>1, <4>3
        <4> QED
          BY <2>1, <4>1, <4>2, <4>4
      <3> QED
        BY <2>1, <3>1, <3>2
    <2> QED
      BY <2>4, <2>5 DEF Deleted, a, b, n
  <1> QED
    BY <1>2, <1>4, <1>5, <1>6

-----------------------------------------------------------------------------
(* What the variables hold *)

OutItems == [type : {"output"}, n : Nat, last : BOOLEAN]
Items == OutItems \cup {Died, None}
Sends == {Add(r) : r \in Requests} \cup {Abort(r) : r \in Requests} \cup {Shutdown}
Entries == UNION {[batch -> OutItems] : batch \in SUBSET Requests}
EngineMessages == {Ready, Bad} \cup {Outputs(entries) : entries \in Entries}
Calls == {"new", "sending", "streaming", "aborting"} \cup Ended

PipeTypes ==
    /\ sends \in Seq(Sends) /\ input \in Seq(Sends) /\ output \in Seq(EngineMessages)

CallTypes ==
    /\ call \in [Requests -> Calls]
    /\ queue \in [Requests -> Seq(Items)]
    /\ delivered \in [Requests -> Seq(OutItems)]

ControlTypes ==
    /\ registered \subseteq Requests /\ serving \subseteq Requests
    /\ produced \in [Requests -> Nat]
    /\ ready \in {"pending", "done", "failed"}
    /\ error \in BOOLEAN /\ closing \in BOOLEAN /\ exited \in BOOLEAN
    /\ closer \in {"none", "shutdown", "exiting", "closed"}
    /\ engine \in {"loading", "running", "stopping", "dead"}

ClientTypes == PipeTypes /\ CallTypes /\ ControlTypes

\* No two kinds of message are taken for each other.
LEMMA MessagesDiffer ==
    /\ \A r, s : /\ Add(r) = Add(s) => r = s
                 /\ Abort(r) = Abort(s) => r = s
                 /\ Add(r) # Abort(s)
    /\ \A r : /\ Add(r) # Shutdown /\ Abort(r) # Shutdown
              /\ Add(r).type = "ADD" /\ Add(r).req = r
              /\ Abort(r).type = "ABORT" /\ Abort(r).req = r
    /\ Shutdown.type \notin {"ADD", "ABORT"}
  <1>1. \A r : Add(r).type = "ADD" /\ Add(r).req = r /\ Abort(r).type = "ABORT" /\ Abort(r).req = r
    BY DEF Add, Abort
  <1>2. Shutdown.type = "SHUTDOWN"
    BY DEF Shutdown
  <1> QED
    BY <1>1, <1>2

\* Nor are two kinds of item of a queue.
LEMMA ItemsDiffer ==
    /\ Died # None
    /\ \A i \in OutItems : i.type = "output" /\ i # Died /\ i # None
    /\ Died.type # "output" /\ None.type # "output"
  <1>1. Died.type = "died" /\ None.type = "none"
    BY DEF Died, None
  <1> QED
    BY <1>1 DEF OutItems

\* A sent message is the last of those under way.
LEMMA SendTypes ==
    ASSUME PipeTypes, NEW left \in Seq(Sends), NEW m \in Sends, SendAfter(left, m)
    PROVE  /\ sends' \in Seq(Sends) /\ input' \in Seq(Sends)
           /\ Outbound' = Append(input \o left, m)
  <1>1. CASE input' = Append(input, m) /\ sends' = left /\ left = <<>>
    <2>1. Outbound' = Append(input, m) \o <<>> /\ input \o left = input
      BY <1>1, ConcatEmptySeq DEF Outbound, PipeTypes
    <2>2. Append(input, m) \in Seq(Sends)
      BY DEF PipeTypes
    <2> QED
      BY <1>1, <2>1, <2>2, ConcatEmptySeq
  <1>2. CASE input' = input /\ sends' = Append(left, m)
    BY <1>2, ConcatSteps DEF Outbound, PipeTypes
  <1> QED
    BY <1>1, <1>2 DEF SendAfter

\* What the client can send.
LEMMA SendsAre ==
    /\ \A r \in Requests : Add(r) \in Sends /\ Abort(r) \in Sends
    /\ Shutdown \in Sends
  BY DEF Sends

\* The messages of the engine, by their kinds.
LEMMA EngineMessageFacts ==
    /\ Ready \in EngineMessages /\ Bad \in EngineMessages
    /\ \A e \in Entries : /\ Outputs(e) \in EngineMessages
                          /\ Outputs(e).type = "OUTPUTS" /\ Outputs(e).entries = e
                          /\ \A r \in DOMAIN e : r \in Requests /\ e[r] \in OutItems
    /\ \A m \in EngineMessages : m.type = "OUTPUTS" =>
          /\ m.entries \in Entries
          /\ \A r \in DOMAIN m.entries : r \in Requests /\ m.entries[r] \in OutItems
    /\ Ready.type # "OUTPUTS" /\ Bad.type # "OUTPUTS"
  <1>1. /\ Ready.type = "READY" /\ Bad.type = "BAD"
        /\ \A e : Outputs(e).type = "OUTPUTS" /\ Outputs(e).entries = e
    BY DEF Ready, Bad, Outputs
  <1>2. \A e \in Entries : \A r \in DOMAIN e : r \in Requests /\ e[r] \in OutItems
    BY DEF Entries
  <1> QED
    BY <1>1, <1>2 DEF EngineMessages

\* Of the engine's last messages, some still arrive.
LEMMA EngineEndsFacts ==
    ASSUME PipeTypes, EngineEnds
    PROVE  /\ output' \in Seq(EngineMessages) /\ Elements(output)' \subseteq Elements(output)
           /\ input' = <<>> /\ input' \in Seq(Sends)
           /\ engine' = "dead" /\ serving' = {} /\ produced' = produced
           /\ \A i \in 1 .. Len(output') : output'[i] = output[i] /\ i \in 1 .. Len(output)
  <1>1. PICK k \in 0 .. Len(output) : output' = SubSeq(output, 1, k)
    BY DEF EngineEnds
  <1>2. /\ output \in Seq(EngineMessages) /\ Len(output) \in Nat /\ k \in Nat
        /\ \A i \in 1 .. k : i \in 1 .. Len(output) /\ output[i] \in EngineMessages
        /\ (k - 1) + 1 = k /\ \A i \in 1 .. k : (1 + i) - 1 = i
    BY DEF PipeTypes
  <1>3. /\ SubSeq(output, 1, k) \in Seq(EngineMessages)
        /\ Len(SubSeq(output, 1, k)) = IF 1 <= k THEN k - 1 + 1 ELSE 0
        /\ \A i \in 1 .. k - 1 + 1 : SubSeq(output, 1, k)[i] = output[1 + i - 1]
    BY <1>2, SubSeqProperties
  <1>4. Len(SubSeq(output, 1, k)) = k
    BY <1>2, <1>3
  <1>5. output' \in Seq(EngineMessages) /\ \A i \in 1 .. Len(output') : output'[i] = output[i] /\ i \in 1 .. Len(output)
    BY <1>1, <1>2, <1>3, <1>4
  <1>6. Elements(output)' \subseteq Elements(output)
    BY <1>2, <1>5, ElementsOf
  <1> QED
    BY <1>5, <1>6 DEF EngineEnds

\* What the errors that end requests do: each request that is known is told.
LEMMA FailFacts ==
    ASSUME CallTypes, FailRequests
    PROVE  /\ queue' \in [Requests -> Seq(Items)] /\ registered' = {}
           /\ \A r \in Requests : queue'[r] = IF r \in registered THEN Append(queue[r], Died)
                                                                  ELSE queue[r]
  <1>1. Died \in Items
    BY DEF Items
  <1>2. \A r \in Requests : (IF r \in registered THEN Append(queue[r], Died) ELSE queue[r]) \in Seq(Items)
    BY <1>1 DEF CallTypes
  <1> QED
    BY <1>2 DEF FailRequests

\* The first error ends all requests; a later one changes nothing.
LEMMA DeadFacts ==
    ASSUME CallTypes, ControlTypes, MarkDead
    PROVE  /\ queue' \in [Requests -> Seq(Items)] /\ registered' \subseteq Requests
           /\ ready' \in {"pending", "done", "failed"} /\ error' = TRUE
           /\ error => registered' = registered /\ queue' = queue /\ ready' = ready
           /\ ~error => /\ registered' = {} /\ FailRequests
                        /\ ready' = "pending" => ready = "pending"
  BY FailFacts DEF CallTypes, ControlTypes, MarkDead

\* What a step that only forgets r, and says so, leaves of the types.
LEMMA SetCallTypes ==
    ASSUME CallTypes, NEW r \in Requests, NEW where \in Calls, SetCall(r, where)
    PROVE  /\ call' \in [Requests -> Calls] /\ call'[r] = where
           /\ \A s \in Requests : s # r => call'[s] = call[s]
  BY DEF CallTypes, SetCall

\* The queue that abort() leaves.
LEMMA ForgottenTypes ==
    ASSUME CallTypes, NEW r \in Requests
    PROVE  [queue EXCEPT ![r] = <<None>>] \in [Requests -> Seq(Items)]
  <1>1. None \in Items
    BY DEF Items
  <1>2. <<None>> \in Seq(Items)
    BY <1>1
  <1> QED
    BY <1>2 DEF CallTypes

\* An engine that loads, and no call.
LEMMA InitTypes == Init => ClientTypes
  <1> SUFFICES ASSUME Init PROVE ClientTypes
    OBVIOUS
  <1>1. \A S : <<>> \in Seq(S)
    BY EmptySeq
  <1>2. PipeTypes
    BY <1>1 DEF Init, PipeTypes
  <1>3. CallTypes
    <2>1. "new" \in Calls
      BY DEF Calls
    <2> QED
      BY <1>1, <2>1 DEF Init, CallTypes
  <1>4. ControlTypes
    BY DEF Init, ControlTypes
  <1> QED
    BY <1>2, <1>3, <1>4 DEF ClientTypes

\* Every step keeps the types.
LEMMA TypesAreInvariant == ClientTypes /\ [Next]_vars => ClientTypes'
  <1> SUFFICES ASSUME ClientTypes, [Next]_vars PROVE ClientTypes'
    OBVIOUS
  <1> USE DEF callVars, clientVars, engineVars
  <1>0. PipeTypes /\ CallTypes /\ ControlTypes
    BY DEF ClientTypes
  <1>1. ASSUME NEW r \in Requests, Start(r) PROVE ClientTypes'
    <2>1. CallTypes'
      <3>1. \E where \in {"sending", "refused"} : SetCall(r, where)
        BY <1>1 DEF Start
      <3>2. {"sending", "refused"} \subseteq Calls
        BY DEF Calls, Ended
      <3> QED
        BY <1>0, <1>1, <3>1, <3>2, SetCallTypes DEF Start, CallTypes
    <2>2. PipeTypes'
      BY <1>0, <1>1, SendTypes, SendsAre DEF Start, PipeTypes
    <2>3. ControlTypes'
      BY <1>0, <1>1 DEF Start, ControlTypes
    <2> QED
      BY <2>1, <2>2, <2>3 DEF ClientTypes
  <1>2. ASSUME NEW r \in Requests, FinishSend(r) PROVE ClientTypes'
    <2>1. CallTypes'
      <3>1. \E where \in {"died", "streaming"} : SetCall(r, where)
        BY <1>2 DEF FinishSend
      <3>2. {"died", "streaming"} \subseteq Calls
        BY DEF Calls, Ended
      <3> QED
        BY <1>0, <1>2, <3>1, <3>2, SetCallTypes DEF FinishSend, CallTypes
    <2>2. PipeTypes'
      BY <1>0, <1>2, RemoveFacts DEF FinishSend, PipeTypes
    <2>3. ControlTypes'
      BY <1>0, <1>2 DEF FinishSend, ControlTypes
    <2> QED
      BY <2>1, <2>2, <2>3 DEF ClientTypes
  <1>3. ASSUME NEW r \in Requests, Get(r) PROVE ClientTypes'
    <2> DEFINE item == Head(queue[r])
    <2>1. queue[r] \in Seq(Items) /\ queue[r] # <<>> /\ delivered[r] \in Seq(OutItems)
      BY <1>0, <1>3 DEF Get, CallTypes
    <2>2. item \in Items /\ Tail(queue[r]) \in Seq(Items)
      BY <2>1, TailFacts
    <2>3. item \notin {Died, None} => item \in OutItems /\ Append(delivered[r], item) \in Seq(OutItems)
      BY <2>1, <2>2 DEF Items
    <2> HIDE DEF item
    <2>4. call' \in [Requests -> Calls]
      <3>1. \E where \in {"died", "aborted", "finished", "streaming"} : SetCall(r, where)
        BY <1>3 DEF Get
      <3>2. {"died", "aborted", "finished", "streaming"} \subseteq Calls
        BY DEF Calls, Ended
      <3> QED
        BY <1>0, <3>1, <3>2, SetCallTypes
    <2>5. queue' \in [Requests -> Seq(Items)]
      BY <1>0, <1>3, <2>2 DEF Get, CallTypes
    <2>6. delivered' \in [Requests -> Seq(OutItems)] /\ registered' \subseteq Requests
      <3>1. CASE item \in {Died, None}
        BY <1>0, <1>3, <3>1 DEF Get, CallTypes, ControlTypes, item
      <3>2. CASE item \notin {Died, None}
        <4>1. /\ delivered' = [delivered EXCEPT ![r] = Append(delivered[r], item)]
              /\ registered' = IF item.last THEN registered \ {r} ELSE registered
          BY <1>3, <3>2 DEF Get, item
        <4> QED
          BY <1>0, <2>3, <3>2, <4>1 DEF CallTypes, ControlTypes
      <3> QED
        BY <3>1, <3>2
    <2>7. PipeTypes' /\ ControlTypes'
      BY <1>0, <1>3, <2>6 DEF Get, PipeTypes, ControlTypes
    <2> QED
      BY <2>4, <2>5, <2>6, <2>7 DEF ClientTypes, CallTypes
  <1>4. ASSUME NEW r \in Requests, Cancel(r) PROVE ClientTypes'
    <2> DEFINE left == IF call[r] = "sending" THEN Remove(sends, Add(r)) ELSE sends
    <2>1. left \in Seq(Sends)
      BY <1>0, RemoveFacts DEF PipeTypes
    <2>2. \/ SetCall(r, "aborting") /\ SendAfter(left, Abort(r))
          \/ SetCall(r, "cancelled") /\ sends' = left /\ UNCHANGED input
      BY <1>4 DEF Cancel
    <2> HIDE DEF left
    <2>3. CallTypes'
      <3>1. \E where \in {"aborting", "cancelled"} : SetCall(r, where)
        BY <2>2
      <3>2. {"aborting", "cancelled"} \subseteq Calls
        BY DEF Calls, Ended
      <3> QED
        BY <1>0, <1>4, <3>1, <3>2, SetCallTypes, ForgottenTypes DEF Cancel, CallTypes
    <2>4. PipeTypes'
      BY <1>0, <1>4, <2>1, <2>2, SendTypes, SendsAre DEF Cancel, PipeTypes
    <2>5. ControlTypes'
      BY <1>0, <1>4 DEF Cancel, ControlTypes
    <2> QED
      BY <2>3, <2>4, <2>5 DEF ClientTypes
  <1>5. ASSUME NEW r \in Requests, FinishAbort(r) PROVE ClientTypes'
    <2>1. CallTypes'
      <3>1. \E where \in {"died", "cancelled"} : SetCall(r, where)
        BY <1>5 DEF FinishAbort
      <3>2. {"died", "cancelled"} \subseteq Calls
        BY DEF Calls, Ended
      <3> QED
        BY <1>0, <1>5, <3>1, <3>2, SetCallTypes DEF FinishAbort, CallTypes
    <2>2. PipeTypes'
      BY <1>0, <1>5, RemoveFacts DEF FinishAbort, PipeTypes
    <2>3. ControlTypes'
      BY <1>0, <1>5 DEF FinishAbort, ControlTypes
    <2> QED
      BY <2>1, <2>2, <2>3 DEF ClientTypes
  <1>6. ASSUME NEW r \in Requests, AbortByOther(r) PROVE ClientTypes'
    <2>1. CallTypes'
      BY <1>0, <1>6, ForgottenTypes DEF AbortByOther, CallTypes
    <2>2. PipeTypes'
      BY <1>0, <1>6, SendTypes, SendsAre DEF AbortByOther, PipeTypes
    <2>3. ControlTypes'
      BY <1>0, <1>6 DEF AbortByOther, ControlTypes
    <2> QED
      BY <2>1, <2>2, <2>3 DEF ClientTypes
  <1>7. ASSUME NEW r \in Requests, WithdrawAbort(r) PROVE ClientTypes'
    BY <1>0, <1>7, RemoveFacts DEF WithdrawAbort, ClientTypes, PipeTypes, CallTypes, ControlTypes
  <1>8. ASSUME ReadReady PROVE ClientTypes'
    <2>1. output' \in Seq(EngineMessages)
      BY <1>0, <1>8, TailFacts DEF Arrived, ReadReady, PipeTypes
    <2> QED
      BY <1>0, <1>8, <2>1 DEF ReadReady, ClientTypes, PipeTypes, CallTypes, ControlTypes
  <1>9. ASSUME ReadOutputs PROVE ClientTypes'
    <2> DEFINE entries == Head(output).entries
    <2>1. output' \in Seq(EngineMessages) /\ Head(output) \in EngineMessages
      BY <1>0, <1>9, TailFacts DEF Arrived, ReadOutputs, PipeTypes
    <2>2. \A r \in DOMAIN entries : entries[r] \in Items
      BY <1>9, <2>1, EngineMessageFacts DEF ReadOutputs, Items
    <2>3. queue' = [r \in Requests |-> IF r \in DOMAIN entries \cap Receivers
                                       THEN Append(queue[r], entries[r]) ELSE queue[r]]
      BY <1>9 DEF ReadOutputs
    <2> HIDE DEF entries
    <2>4. queue' \in [Requests -> Seq(Items)]
      BY <1>0, <2>2, <2>3 DEF CallTypes
    <2> QED
      BY <1>0, <1>9, <2>1, <2>4 DEF ReadOutputs, ClientTypes, PipeTypes, CallTypes, ControlTypes
  <1>10. ASSUME ReaderFails PROVE ClientTypes'
    <2>1. output' \in Seq(EngineMessages)
      BY <1>0, <1>10, TailFacts DEF Arrived, ReaderFails, PipeTypes
    <2> QED
      BY <1>0, <1>10, <2>1, DeadFacts DEF ReaderFails, ClientTypes, PipeTypes, CallTypes, ControlTypes
  <1>11. ASSUME OnExit PROVE ClientTypes'
    BY <1>0, <1>11, DeadFacts DEF OnExit, ClientTypes, PipeTypes, CallTypes, ControlTypes
  <1>12. ASSUME Close PROVE ClientTypes'
    <2>1. PipeTypes'
      BY <1>0, <1>12, SendTypes, SendsAre DEF Close, PipeTypes
    <2> QED
      BY <1>0, <1>12, <2>1, FailFacts DEF Close, ClientTypes, CallTypes, ControlTypes
  <1>13. ASSUME CloseTimeout PROVE ClientTypes'
    BY <1>0, <1>13, EngineEndsFacts, RemoveFacts
       DEF CloseTimeout, ClientTypes, PipeTypes, CallTypes, ControlTypes
  <1>14. ASSUME TearDown PROVE ClientTypes'
    <2>1. sends' \in Seq(Sends)
      BY <1>14, EmptySeq DEF TearDown
    <2>2. call' \in [Requests -> Calls]
      <3>1. "cancelled" \in Calls
        BY DEF Calls, Ended
      <3> QED
        BY <1>0, <1>14, <3>1 DEF TearDown, CallTypes
    <2> QED
      BY <1>0, <1>14, <2>1, <2>2 DEF TearDown, ClientTypes, PipeTypes, CallTypes, ControlTypes
  <1>15. ASSUME Transmit PROVE ClientTypes'
    <2>1. input' \in Seq(Sends) /\ sends' \in Seq(Sends)
      BY <1>0, <1>15, TailFacts DEF Transmit, PipeTypes
    <2> QED
      BY <1>0, <1>15, <2>1 DEF Transmit, ClientTypes, PipeTypes, CallTypes, ControlTypes
  <1>16. ASSUME EngineReady PROVE ClientTypes'
    <2>1. output' \in Seq(EngineMessages)
      BY <1>0, <1>16, EngineMessageFacts DEF EngineReady, EngineSend, PipeTypes
    <2> QED
      BY <1>0, <1>16, <2>1 DEF EngineReady, ClientTypes, PipeTypes, CallTypes, ControlTypes
  <1>17. ASSUME EngineReceive PROVE ClientTypes'
    <2> DEFINE m == Head(input)
    <2>1. input' \in Seq(Sends) /\ m \in Sends
      BY <1>0, <1>17, TailFacts DEF EngineReceive, PipeTypes
    <2>2. m.type = "ADD" => m.req \in Requests
      BY <2>1, MessagesDiffer DEF Sends
    <2>3. /\ engine' = IF m = Shutdown THEN "stopping" ELSE engine
          /\ serving' = CASE m.type = "ADD" -> serving \cup {m.req}
                          [] m.type = "ABORT" -> serving \ {m.req}
                          [] OTHER -> serving
      BY <1>17 DEF EngineReceive
    <2> HIDE DEF m
    <2>4. serving' \subseteq Requests
      BY <1>0, <2>2, <2>3 DEF ControlTypes
    <2> QED
      BY <1>0, <1>17, <2>1, <2>3, <2>4
         DEF EngineReceive, ClientTypes, PipeTypes, CallTypes, ControlTypes
  <1>18. ASSUME NEW batch \in SUBSET serving, NEW done \in SUBSET batch, EngineStep(batch, done)
         PROVE  ClientTypes'
    <2> DEFINE e == [r \in batch |-> Out(produced[r] + 1, r \in done)]
    <2>1. \A r \in batch : produced[r] + 1 \in Nat /\ r \in Requests
      BY <1>0 DEF ControlTypes
    <2>2. e \in [batch -> OutItems] /\ batch \in SUBSET Requests
      BY <2>1 DEF Out, OutItems
    <2>3. e \in Entries
      BY <2>2 DEF Entries
    <2>4. output' = Append(output, Outputs(e))
      BY <1>18 DEF EngineStep, EngineSend
    <2> HIDE DEF e
    <2>5. output' \in Seq(EngineMessages)
      BY <1>0, <2>3, <2>4, EngineMessageFacts DEF PipeTypes
    <2>6. produced' \in [Requests -> Nat] /\ serving' \subseteq Requests
      BY <1>0, <1>18, <2>1 DEF EngineStep, Unfinished, ControlTypes
    <2> QED
      BY <1>0, <1>18, <2>5, <2>6 DEF EngineStep, ClientTypes, PipeTypes, CallTypes, ControlTypes
  <1>19. ASSUME EngineGarbles PROVE ClientTypes'
    <2>1. output' \in Seq(EngineMessages)
      BY <1>0, <1>19, EngineMessageFacts DEF EngineGarbles, EngineSend, PipeTypes
    <2> QED
      BY <1>0, <1>19, <2>1 DEF EngineGarbles, ClientTypes, PipeTypes, CallTypes, ControlTypes
  <1>20. ASSUME EngineExits PROVE ClientTypes'
    <2>1. <<>> \in Seq(Sends)
      BY EmptySeq
    <2> QED
      BY <1>0, <1>20, <2>1 DEF EngineExits, ClientTypes, PipeTypes, CallTypes, ControlTypes
  <1>21. ASSUME EngineCrashes PROVE ClientTypes'
    BY <1>0, <1>21, EngineEndsFacts
       DEF EngineCrashes, ClientTypes, PipeTypes, CallTypes, ControlTypes
  <1>22. CASE UNCHANGED vars
    BY <1>0, <1>22 DEF vars, ClientTypes, PipeTypes, CallTypes, ControlTypes
  <1> QED
    BY <1>1, <1>2, <1>3, <1>4, <1>5, <1>6, <1>7, <1>8, <1>9, <1>10, <1>11, <1>12, <1>13,
       <1>14, <1>15, <1>16, <1>17, <1>18, <1>19, <1>20, <1>21, <1>22
       DEF Next, ClientStep, UserStep, EngineProgress

-----------------------------------------------------------------------------
(* The messages on their way to the engine *)

\* No ADD of r is new in w.
Fewer(q, w, r) ==
    /\ Add(r) \in Elements(w) => Add(r) \in Elements(q)
    /\ Once(q, Add(r)) => Once(w, Add(r))

\* Nor is an ABORT of r lost, or one that follows its ADD.
Answered(q, w, r) ==
    /\ Fewer(q, w, r)
    /\ Followed(q, Add(r), Abort(r)) => Followed(w, Add(r), Abort(r))
    /\ Abort(r) \in Elements(q) => Abort(r) \in Elements(w)

\* Both pipes, one after the other.
LEMMA OutboundFacts ==
    ASSUME PipeTypes
    PROVE  /\ Outbound \in Seq(Sends)
           /\ Elements(Outbound) = Elements(input) \cup Elements(sends)
  BY ConcatFacts DEF PipeTypes, Outbound

\* To send anything but the ADD of r.
LEMMA SentAnswered ==
    ASSUME NEW q \in Seq(Sends), NEW m \in Sends, NEW r, m # Add(r)
    PROVE  Answered(q, Append(q, m), r)
  <1>1. Elements(Append(q, m)) = Elements(q) \cup {m}
    BY AppendFacts
  <1>2. /\ Once(q, Add(r)) => Once(Append(q, m), Add(r))
        /\ Followed(q, Add(r), Abort(r)) => Followed(Append(q, m), Add(r), Abort(r))
    BY SendFacts
  <1> QED
    BY <1>1, <1>2 DEF Answered, Fewer

\* To withdraw a send.
LEMMA WithdrawnAnswered ==
    ASSUME NEW p \in Seq(Sends), NEW q \in Seq(Sends), NEW m, NEW r
    PROVE  /\ Fewer(p \o q, p \o Remove(q, m), r)
           /\ m # Abort(r) => Answered(p \o q, p \o Remove(q, m), r)
           /\ p \o Remove(q, m) \in Seq(Sends)
  <1> DEFINE w == Remove(q, m)
  <1>1. w \in Seq(Sends) /\ p \o q \in Seq(Sends) /\ p \o w \in Seq(Sends)
    BY RemoveFacts, ConcatFacts
  <1>2. CASE m \notin Elements(q)
    <2>1. w = q
      BY <1>2, RemoveFacts
    <2> QED
      BY <1>1, <2>1 DEF Fewer, Answered
  <1>3. CASE m \in Elements(q)
    <2>1. PICK k \in DOMAIN q : q[k] = m /\ Deleted(q, w, k)
      BY <1>3, RemoveFacts
    <2>2. Deleted(p \o q, p \o w, Len(p) + k)
      BY <1>1, <2>1, ConcatSteps
    <2>3. (p \o q)[Len(p) + k] = m
      <3>1. k \in 1 .. Len(q)
        BY <2>1, ElementsOf
      <3> QED
        BY <2>1, <3>1, ConcatFacts
    <2> DEFINE u == p \o q
               v == p \o w
               l == Len(p) + k
    <2> HIDE DEF u, v, l
    <2>4. u \in Seq(Sends) /\ v \in Seq(Sends) /\ Deleted(u, v, l) /\ u[l] = m
      BY <1>1, <2>2, <2>3 DEF u, v, l
    <2>5. /\ Elements(v) \subseteq Elements(u)
          /\ \A x \in Elements(u) : x # u[l] => x \in Elements(v)
          /\ \A x : Once(u, x) => Once(v, x)
          /\ \A a, b : Followed(u, a, b) /\ u[l] # b => Followed(v, a, b)
      BY <2>4, DeletedFacts
    <2>6. Fewer(u, v, r) /\ (m # Abort(r) => Answered(u, v, r))
      BY <2>4, <2>5 DEF Fewer, Answered
    <2> QED
      BY <1>1, <2>6 DEF u, v
  <1> QED
    BY <1>2, <1>3

\* One change after another.
LEMMA AnsweredTwice ==
    ASSUME NEW q, NEW w, NEW u, NEW r
    PROVE  /\ Answered(q, q, r)
           /\ Answered(q, w, r) /\ Answered(w, u, r) => Answered(q, u, r)
           /\ Answered(q, w, r) => Fewer(q, w, r)
  BY DEF Answered, Fewer

\* The engine takes a message.
LEMMA TakenFewer ==
    ASSUME NEW q \in Seq(Sends), q # <<>>, NEW r
    PROVE  /\ Fewer(q, Tail(q), r)
           /\ Followed(q, Add(r), Abort(r)) => Followed(Tail(q), Add(r), Abort(r))
           /\ Abort(r) \in Elements(q) /\ Head(q) # Abort(r) => Abort(r) \in Elements(Tail(q))
           /\ Head(q) = Add(r) /\ Once(q, Add(r)) => Add(r) \notin Elements(Tail(q))
  <1> DEFINE w == Tail(q)
  <1>1. w \in Seq(Sends) /\ Deleted(q, w, 1) /\ Head(q) = q[1]
    BY TailFacts
  <1> HIDE DEF w
  <1>2. /\ Elements(w) \subseteq Elements(q)
        /\ \A x \in Elements(q) : x # q[1] => x \in Elements(w)
        /\ Once(q, q[1]) => q[1] \notin Elements(w)
        /\ \A x : Once(q, x) => Once(w, x)
        /\ \A a, b : Followed(q, a, b) => Followed(w, a, b)
    BY <1>1, DeletedFacts
  <1> QED
    BY <1>1, <1>2 DEF Fewer, w

-----------------------------------------------------------------------------
(* How the client ends *)

ControlInv ==
    /\ exited => engine = "dead"
    /\ closer = "none" <=> ~closing
    /\ closing \/ error => registered = {}
    /\ registered # {} => ready # "pending"
    /\ closer = "closed" => exited /\ sends = <<>>

\* A client that is not closing.
LEMMA InitControl == Init => ControlInv
  BY DEF Init, ControlInv

\* Every step keeps what is said of the client's end.
LEMMA ControlIsInvariant == ClientTypes /\ ControlInv /\ [Next]_vars => ControlInv'
  <1> SUFFICES ASSUME ClientTypes, ControlInv, [Next]_vars PROVE ControlInv'
    OBVIOUS
  <1> USE DEF callVars, clientVars, engineVars, ControlInv
  <1>0. PipeTypes /\ CallTypes /\ ControlTypes
    BY DEF ClientTypes
  <1>a. \A m : sends = <<>> => Remove(sends, m) = sends /\ m \notin Elements(sends)
    BY ElementsOfEmpty DEF Remove
  <1>1. ASSUME NEW r \in Requests, Start(r) PROVE ControlInv'
    BY <1>0, <1>1 DEF Start, Alive, ControlTypes
  <1>2. ASSUME NEW r \in Requests, FinishSend(r) \/ FinishAbort(r) \/ WithdrawAbort(r)
        PROVE  ControlInv'
    BY <1>2, <1>a DEF FinishSend, FinishAbort, WithdrawAbort
  <1>3. ASSUME NEW r \in Requests, Get(r) PROVE ControlInv'
    <2>1. registered' \subseteq registered
      BY <1>3 DEF Get
    <2> QED
      BY <1>3, <2>1 DEF Get
  <1>4. ASSUME NEW r \in Requests, Cancel(r) PROVE ControlInv'
    <2>1. ~Alive /\ sends = <<>> => sends' = <<>>
      BY <1>4, <1>a DEF Cancel
    <2> QED
      BY <1>0, <1>4, <2>1 DEF Cancel, Alive, ControlTypes
  <1>5. ASSUME NEW r \in Requests, AbortByOther(r) PROVE ControlInv'
    BY <1>0, <1>5 DEF AbortByOther, Alive, ControlTypes
  <1>6. ASSUME ReadReady PROVE ControlInv'
    BY <1>6 DEF ReadReady
  <1>7. ASSUME ReadOutputs PROVE ControlInv'
    BY <1>7 DEF ReadOutputs
  <1>8. ASSUME ReaderFails PROVE ControlInv'
    BY <1>0, <1>8, DeadFacts DEF ReaderFails
  <1>9. ASSUME OnExit PROVE ControlInv'
    BY <1>0, <1>9, DeadFacts DEF OnExit
  <1>10. ASSUME Close PROVE ControlInv'
    BY <1>0, <1>10, FailFacts DEF Close, ControlTypes
  <1>11. ASSUME CloseTimeout PROVE ControlInv'
    BY <1>0, <1>11, EngineEndsFacts DEF CloseTimeout
  <1>12. ASSUME TearDown PROVE ControlInv'
    BY <1>0, <1>12 DEF TearDown, MayTearDown, ControlTypes
  <1>13. ASSUME Transmit PROVE ControlInv'
    BY <1>13 DEF Transmit
  <1>14. ASSUME EngineReady \/ EngineReceive \/ EngineGarbles \/ EngineExits PROVE ControlInv'
    BY <1>14 DEF EngineReady, EngineReceive, EngineGarbles, EngineExits
  <1>15. ASSUME NEW batch, NEW done, EngineStep(batch, done) PROVE ControlInv'
    BY <1>15 DEF EngineStep
  <1>16. ASSUME EngineCrashes PROVE ControlInv'
    BY <1>0, <1>16, EngineEndsFacts DEF EngineCrashes
  <1>17. CASE UNCHANGED vars
    BY <1>17 DEF vars
  <1> QED
    BY <1>1, <1>2, <1>3, <1>4, <1>5, <1>6, <1>7, <1>8, <1>9, <1>10, <1>11, <1>12, <1>13,
       <1>14, <1>15, <1>16, <1>17 DEF Next, ClientStep, UserStep, EngineProgress

\* close() leaves a dead process, no request, and nobody who waits to send.
THEOREM ClientClosedMeansStopped == Spec => []ClosedMeansStopped
  <1>1. ClientTypes /\ ControlInv => ClosedMeansStopped
    BY DEF ClientTypes, ControlTypes, ControlInv, ClosedMeansStopped
  <1> QED
    BY <1>1, InitTypes, TypesAreInvariant, InitControl, ControlIsInvariant, PTL DEF Spec

-----------------------------------------------------------------------------
(* Who is still waited for *)

\* A step that forgets a request puts its end in its queue.
LEMMA NobodyForgottenStep == ClientTypes /\ NobodyForgotten /\ [Next]_vars => NobodyForgotten'
  <1> SUFFICES ASSUME ClientTypes, NobodyForgotten, [Next]_vars,
                      NEW r \in Requests, call'[r] \in {"sending", "streaming"}, r \notin registered'
               PROVE  queue'[r] # <<>> /\ queue'[r][Len(queue'[r])] \in {Died, None}
    BY DEF NobodyForgotten
  <1> DEFINE Told == queue'[r] # <<>> /\ queue'[r][Len(queue'[r])] \in {Died, None}
  <1> USE DEF callVars, clientVars, engineVars
  <1>0. PipeTypes /\ CallTypes /\ ControlTypes /\ queue[r] \in Seq(Items)
    BY DEF ClientTypes, CallTypes
  <1>a. ASSUME call[r] \in {"sending", "streaming"}, r \notin registered, queue'[r] = queue[r]
        PROVE  Told
    BY <1>a DEF NobodyForgotten
  <1>b. ASSUME queue'[r] = <<None>> PROVE Told
    BY <1>b
  <1>c. ASSUME queue'[r] = Append(queue[r], Died) PROVE Told
    <2>1. queue[r] \in Seq(Items) /\ Died \in Items
      BY <1>0 DEF Items
    <2>2. Append(queue[r], Died) # <<>>
          /\ Append(queue[r], Died)[Len(Append(queue[r], Died))] = Died
      BY <2>1
    <2> QED
      BY <1>c, <2>2
  <1>d. ASSUME FailRequests, call' = call PROVE Told
    BY <1>0, <1>a, <1>c, <1>d, FailFacts
  <1>e. ASSUME MarkDead, call' = call PROVE Told
    BY <1>0, <1>a, <1>d, <1>e, DeadFacts
  <1> HIDE DEF Told
  <1>1. ASSUME NEW s \in Requests, Start(s) PROVE Told
    BY <1>0, <1>1, <1>a, SetCallTypes DEF Start, SetCall, CallTypes
  <1>2. ASSUME NEW s \in Requests, FinishSend(s) \/ FinishAbort(s) PROVE Told
    BY <1>0, <1>2, <1>a DEF FinishSend, FinishAbort, SetCall, CallTypes
  <1>3. ASSUME NEW s \in Requests, Get(s) PROVE Told
    <2>1. CASE s # r
      BY <1>0, <1>3, <1>a, <2>1 DEF Get, SetCall, CallTypes
    <2>2. CASE s = r
      <3> DEFINE item == Head(queue[r])
      <3>1. queue[r] # <<>> /\ call[r] = "streaming" /\ queue'[r] = Tail(queue[r])
        BY <1>0, <1>3, <2>2 DEF Get, CallTypes
      <3>2. item \notin {Died, None} /\ ~item.last /\ r \notin registered
        BY <1>0, <1>3, <2>2 DEF Get, SetCall, CallTypes
      <3>3. queue[r][Len(queue[r])] \in {Died, None}
        BY <3>1, <3>2 DEF NobodyForgotten
      <3>4. Tail(queue[r]) # <<>> /\ Tail(queue[r])[Len(Tail(queue[r]))] = queue[r][Len(queue[r])]
        BY <1>0, <3>1, <3>2, <3>3, LastFacts
      <3> QED
        BY <3>1, <3>3, <3>4 DEF Told
    <2> QED
      BY <2>1, <2>2
  <1>4. ASSUME NEW s \in Requests, Cancel(s) PROVE Told
    BY <1>0, <1>4, <1>a DEF Cancel, SetCall, CallTypes
  <1>5. ASSUME NEW s \in Requests, AbortByOther(s) PROVE Told
    BY <1>0, <1>5, <1>a, <1>b DEF AbortByOther, CallTypes
  <1>6. ASSUME NEW s \in Requests, WithdrawAbort(s) PROVE Told
    BY <1>6, <1>a DEF WithdrawAbort
  <1>7. ASSUME ReadReady PROVE Told
    BY <1>7, <1>a DEF ReadReady
  <1>8. ASSUME ReadOutputs PROVE Told
    BY <1>0, <1>8, <1>a DEF ReadOutputs, Receivers, CallTypes
  <1>9. ASSUME ReaderFails PROVE Told
    BY <1>9, <1>e DEF ReaderFails
  <1>10. ASSUME OnExit PROVE Told
    BY <1>10, <1>a, <1>e DEF OnExit
  <1>11. ASSUME Close PROVE Told
    BY <1>11, <1>d DEF Close
  <1>12. ASSUME CloseTimeout PROVE Told
    BY <1>12, <1>a DEF CloseTimeout
  <1>13. ASSUME TearDown PROVE Told
    BY <1>0, <1>13, <1>a DEF TearDown, CallTypes
  <1>14. ASSUME Transmit PROVE Told
    BY <1>14, <1>a DEF Transmit
  <1>15. ASSUME \/ EngineReady \/ EngineReceive \/ EngineGarbles \/ EngineExits \/ EngineCrashes
                \/ \E batch \in SUBSET serving : \E done \in SUBSET batch : EngineStep(batch, done)
         PROVE  Told
    BY <1>15, <1>a DEF EngineReady, EngineReceive, EngineGarbles, EngineExits, EngineCrashes, EngineStep
  <1>16. ASSUME UNCHANGED vars PROVE Told
    BY <1>16, <1>a DEF vars
  <1>17. Told
    BY <1>1, <1>2, <1>3, <1>4, <1>5, <1>6, <1>7, <1>8, <1>9, <1>10, <1>11, <1>12, <1>13,
       <1>14, <1>15, <1>16 DEF Next, ClientStep, UserStep, EngineProgress
  <1> QED
    BY <1>17 DEF Told

\* A task that waits for an item is known to the client, or its end is in its
\* queue.
THEOREM ClientForgetsNobody == Spec => []NobodyForgotten
  <1>1. Init => NobodyForgotten
    BY DEF Init, NobodyForgotten
  <1> QED
    BY <1>1, InitTypes, TypesAreInvariant, NobodyForgottenStep, PTL DEF Spec

-----------------------------------------------------------------------------
(* What a step does to the messages on their way to the engine *)

\* To withdraw a send that waits.
LEMMA RemoveTraffic ==
    ASSUME PipeTypes, NEW r, NEW m, input' = input, sends' = Remove(sends, m)
    PROVE  /\ Fewer(Outbound, Outbound', r)
           /\ m # Abort(r) => Answered(Outbound, Outbound', r)
  BY WithdrawnAnswered DEF PipeTypes, Outbound

\* To withdraw one, or none, and to send another.
LEMMA SendTraffic ==
    ASSUME PipeTypes, NEW r, NEW left, NEW m \in Sends, m # Add(r), SendAfter(left, m),
           left = sends \/ \E s : left = Remove(sends, Add(s))
    PROVE  Answered(Outbound, Outbound', r)
  <1>1. /\ left \in Seq(Sends) /\ input \o left \in Seq(Sends)
        /\ Answered(Outbound, input \o left, r)
    BY WithdrawnAnswered, AnsweredTwice, OutboundFacts, MessagesDiffer DEF PipeTypes, Outbound
  <1>2. Outbound' = Append(input \o left, m)
    BY <1>1, SendTypes
  <1>3. Answered(input \o left, Append(input \o left, m), r)
    BY <1>1, SentAnswered
  <1> QED
    BY <1>1, <1>2, <1>3, AnsweredTwice

\* Only generate(r) sends the ADD of r; while the engine lives and the client
\* does, no ABORT is lost but to the engine.
LEMMA Traffic ==
    ASSUME ClientTypes, ControlInv, [Next]_vars, NEW r \in Requests, ~(Start(r) /\ Alive)
    PROVE  /\ Add(r) \in Elements(Outbound)' => Add(r) \in Elements(Outbound)
           /\ engine' # "dead" => engine # "dead" /\ Fewer(Outbound, Outbound', r)
           /\ engine' # "dead" /\ ~error' /\ ~EngineReceive => Answered(Outbound, Outbound', r)
  <1> DEFINE Less == Add(r) \in Elements(Outbound)' => Add(r) \in Elements(Outbound)
             Few == engine' # "dead" => engine # "dead" /\ Fewer(Outbound, Outbound', r)
             Kept == engine' # "dead" /\ ~error' /\ ~EngineReceive => Answered(Outbound, Outbound', r)
             Goal == Less /\ Few /\ Kept
  <1> USE DEF callVars, clientVars, engineVars
  <1>0. PipeTypes /\ (exited => engine = "dead")
    BY DEF ClientTypes, ControlInv
  <1>a. ASSUME Outbound' = Outbound, engine' # "dead" => engine # "dead" PROVE Goal
    BY <1>a, AnsweredTwice
  <1>b. ASSUME Answered(Outbound, Outbound', r), engine' = engine PROVE Goal
    <2>1. Fewer(Outbound, Outbound', r) /\ Less
      BY <1>b DEF Answered, Fewer
    <2> QED
      BY <1>b, <2>1
  <1>c. ASSUME Fewer(Outbound, Outbound', r), engine' = engine, error' = TRUE PROVE Goal
    BY <1>c DEF Fewer
  <1>d. ASSUME engine' = "dead", input' = <<>>, Elements(sends)' \subseteq Elements(sends) PROVE Goal
    <2>1. Elements(Outbound)' \subseteq Elements(Outbound)
      <3>1. PipeTypes'
        BY TypesAreInvariant DEF ClientTypes
      <3>2. Elements(Outbound)' = Elements(input)' \cup Elements(sends)'
        BY <3>1, ConcatFacts DEF PipeTypes, Outbound
      <3> QED
        BY <1>0, <1>d, <3>2, ElementsOfEmpty, OutboundFacts
    <2> QED
      BY <1>d, <2>1
  <1>e. ASSUME input' = input, sends' = sends, engine' # "dead" => engine # "dead" PROVE Goal
    BY <1>a, <1>e DEF Outbound
  <1> HIDE DEF Goal
  <1>1. ASSUME NEW s \in Requests, Start(s) PROVE Goal
    <2>1. CASE Alive
      <3>1. s # r
        BY <1>1, <2>1
      <3>2. SendAfter(sends, Add(s)) /\ engine' = engine
        BY <1>1, <2>1 DEF Start
      <3> QED
        BY <1>0, <1>b, <3>1, <3>2, SendTraffic, SendsAre, MessagesDiffer
    <2>2. CASE ~Alive
      BY <1>1, <1>e, <2>2 DEF Start
    <2> QED
      BY <2>1, <2>2
  <1>2. ASSUME NEW s \in Requests, FinishSend(s) PROVE Goal
    <2>1. CASE error
      BY <1>0, <1>2, <1>b, <2>1, RemoveTraffic, MessagesDiffer DEF FinishSend
    <2>2. CASE ~error
      BY <1>2, <1>e, <2>2 DEF FinishSend
    <2> QED
      BY <2>1, <2>2
  <1>3. ASSUME NEW s \in Requests, FinishAbort(s) PROVE Goal
    <2>1. CASE error
      BY <1>0, <1>3, <1>c, <2>1, RemoveTraffic DEF FinishAbort
    <2>2. CASE ~error
      BY <1>3, <1>e, <2>2 DEF FinishAbort
    <2> QED
      BY <2>1, <2>2
  <1>4. ASSUME NEW s \in Requests, WithdrawAbort(s) PROVE Goal
    BY <1>0, <1>4, <1>c, RemoveTraffic DEF WithdrawAbort
  <1>5. ASSUME NEW s \in Requests, Cancel(s) PROVE Goal
    <2> DEFINE left == IF call[s] = "sending" THEN Remove(sends, Add(s)) ELSE sends
    <2>1. CASE s \in registered /\ Alive
      <3>1. SendAfter(left, Abort(s)) /\ engine' = engine
        BY <1>5, <2>1 DEF Cancel
      <3> HIDE DEF left
      <3>2. left = sends \/ \E t : left = Remove(sends, Add(t))
        BY DEF left
      <3> QED
        BY <1>0, <1>b, <3>1, <3>2, SendTraffic, SendsAre, MessagesDiffer
    <2>2. CASE ~(s \in registered /\ Alive)
      <3>1. sends' = left /\ input' = input /\ engine' = engine
        BY <1>5, <2>2 DEF Cancel
      <3>2. CASE call[s] = "sending"
        BY <1>0, <1>b, <3>1, <3>2, RemoveTraffic, MessagesDiffer
      <3>3. CASE call[s] # "sending"
        BY <1>e, <3>1, <3>3
      <3> QED
        BY <3>2, <3>3
    <2> QED
      BY <2>1, <2>2
  <1>6. ASSUME NEW s \in Requests, AbortByOther(s) PROVE Goal
    <2>1. CASE Alive
      <3>1. SendAfter(sends, Abort(s)) /\ engine' = engine
        BY <1>6, <2>1 DEF AbortByOther
      <3> QED
        BY <1>0, <1>b, <3>1, SendTraffic, SendsAre, MessagesDiffer
    <2>2. CASE ~Alive
      BY <1>6, <1>e, <2>2 DEF AbortByOther
    <2> QED
      BY <2>1, <2>2
  <1>7. ASSUME Close PROVE Goal
    <2>1. CASE engine # "dead"
      <3>1. SendAfter(sends, Shutdown) /\ engine' = engine
        BY <1>7, <2>1 DEF Close
      <3> QED
        BY <1>0, <1>b, <3>1, SendTraffic, SendsAre, MessagesDiffer
    <2>2. CASE engine = "dead"
      BY <1>7, <1>e, <2>2 DEF Close
    <2> QED
      BY <2>1, <2>2
  <1>8. ASSUME CloseTimeout PROVE Goal
    <2>1. Elements(sends)' \subseteq Elements(sends)
      <3>1. sends' = Remove(sends, Shutdown) /\ sends \in Seq(Sends)
        BY <1>0, <1>8 DEF CloseTimeout, PipeTypes
      <3> QED
        BY <3>1, RemoveFacts, DeletedFacts
    <2> QED
      BY <1>0, <1>8, <1>d, <2>1, EngineEndsFacts DEF CloseTimeout
  <1>9. ASSUME TearDown PROVE Goal
    <2>1. engine = "dead" /\ engine' = "dead" /\ sends' = <<>> /\ input' = input
      BY <1>0, <1>9 DEF TearDown, MayTearDown
    <2>2. Outbound' = input
      BY <1>0, <2>1, ConcatFacts DEF Outbound, PipeTypes
    <2>3. Elements(Outbound)' \subseteq Elements(Outbound)
      BY <1>0, <2>2, OutboundFacts
    <2> QED
      BY <2>1, <2>3 DEF Goal
  <1>10. ASSUME Transmit PROVE Goal
    <2>1. Outbound' = Append(input, Head(sends)) \o Tail(sends)
      BY <1>10 DEF Transmit, Outbound
    <2>2. Outbound' = Outbound
      BY <1>0, <1>10, <2>1, ConcatSteps DEF Transmit, Outbound, PipeTypes
    <2> QED
      BY <1>10, <1>a, <2>2 DEF Transmit
  <1>11. ASSUME EngineReceive PROVE Goal
    <2>1. input # <<>> /\ input' = Tail(input) /\ sends' = sends /\ engine # "dead"
      BY <1>11 DEF EngineReceive
    <2>2. Outbound' = Tail(Outbound) /\ Outbound # <<>>
      BY <1>0, <2>1, ConcatSteps DEF PipeTypes, Outbound
    <2>3. Fewer(Outbound, Outbound', r)
      BY <1>0, <2>2, TakenFewer, OutboundFacts
    <2>4. Less
      BY <2>3 DEF Fewer
    <2> QED
      BY <1>11, <2>1, <2>3, <2>4 DEF Goal
  <1>12. ASSUME EngineExits \/ EngineCrashes PROVE Goal
    <2>1. engine' = "dead" /\ input' = <<>> /\ sends' = sends
      BY <1>0, <1>12, EngineEndsFacts DEF EngineExits, EngineCrashes
    <2> QED
      BY <1>d, <2>1
  <1>13. ASSUME \/ EngineReady \/ EngineGarbles
                \/ \E batch \in SUBSET serving : \E done \in SUBSET batch : EngineStep(batch, done)
         PROVE  Goal
    BY <1>13, <1>e DEF EngineReady, EngineGarbles, EngineStep
  <1>14. ASSUME \/ ReadReady \/ ReadOutputs \/ ReaderFails \/ OnExit
                \/ \E s \in Requests : Get(s)
         PROVE  Goal
    BY <1>14, <1>e DEF ReadReady, ReadOutputs, ReaderFails, OnExit, Get
  <1>15. ASSUME UNCHANGED vars PROVE Goal
    BY <1>15, <1>e DEF vars
  <1>16. Goal
    BY <1>1, <1>2, <1>3, <1>4, <1>5, <1>6, <1>7, <1>8, <1>9, <1>10, <1>11, <1>12, <1>13,
       <1>14, <1>15 DEF Next, ClientStep, UserStep, EngineProgress
  <1> QED
    BY <1>16 DEF Goal

-----------------------------------------------------------------------------
(* When the engine is through with a request *)

LastQueued(r) == \E i \in Elements(queue[r]) : i.type = "output" /\ i.last
LastInPipe(r) ==
    \E m \in Elements(output) : m.type = "OUTPUTS" /\ r \in DOMAIN m.entries /\ m.entries[r].last

\* The last output of r is made, and not yielded yet.
LastSeen(r) == LastQueued(r) \/ LastInPipe(r)

\* The engine neither has r nor will have it.
Through(r) == r \notin serving /\ Add(r) \notin Elements(Outbound)

\* The life of a request at the engine: added once, and never again after its
\* last output.
LifeInv(r) ==
    /\ call[r] = "new" => r \notin registered /\ Through(r) /\ ~LastSeen(r) /\ delivered[r] = <<>>
    /\ r \in serving => Add(r) \notin Elements(Outbound)
    /\ LastSeen(r) => Through(r)
    /\ call[r] = "finished" =>
          Through(r) /\ delivered[r] # <<>> /\ delivered[r][Len(delivered[r])].last
    /\ \A i \in Elements(delivered[r]) : i.last => call[r] = "finished"
    /\ engine # "dead" => Once(Outbound, Add(r))

EndInv == \A r \in Requests : LifeInv(r)

\* Calls that have not begun.
LEMMA InitEnd == Init => EndInv
  <1> SUFFICES ASSUME Init, NEW r \in Requests PROVE LifeInv(r)
    BY DEF EndInv
  <1>1. Outbound = <<>>
    BY ConcatEmptySeq, EmptySeq DEF Init, Outbound
  <1>2. Once(Outbound, Add(r))
    BY <1>1 DEF Once
  <1>3. /\ serving = {} /\ registered = {} /\ queue[r] = <<>> /\ output = <<>>
        /\ delivered[r] = <<>> /\ call[r] = "new"
    BY DEF Init
  <1> QED
    BY <1>1, <1>2, <1>3, ElementsOfEmpty DEF LifeInv, LastSeen, LastQueued, LastInPipe, Through

\* Whatever leaves r's place with the engine and its outputs alone.
LEMMA LifeGoesOn ==
    ASSUME ClientTypes, ControlInv, [Next]_vars, NEW r \in Requests, LifeInv(r),
           ~(Start(r) /\ Alive),
           r \in serving' => r \in serving,
           LastSeen(r)' => LastSeen(r),
           delivered'[r] = delivered[r],
           \/ call'[r] = call[r]
           \/ call[r] # "finished" /\ call'[r] \notin {"new", "finished"},
           call'[r] = "new" => r \notin registered'
    PROVE  LifeInv(r)'
  <1>1. /\ Add(r) \in Elements(Outbound)' => Add(r) \in Elements(Outbound)
        /\ engine' # "dead" => engine # "dead" /\ (Once(Outbound, Add(r)) => Once(Outbound, Add(r))')
    BY Traffic DEF Fewer
  <1>2. Through(r) => Through(r)'
    BY <1>1 DEF Through
  <1>3. r \in serving' => Add(r) \notin Elements(Outbound)'
    BY <1>1 DEF LifeInv
  <1>4. engine' # "dead" => Once(Outbound, Add(r))'
    BY <1>1 DEF LifeInv
  <1>5. \A i \in Elements(delivered[r])' : i.last => call'[r] = "finished"
    BY DEF LifeInv
  <1>6. call'[r] = "finished" =>
           Through(r)' /\ delivered'[r] # <<>> /\ delivered'[r][Len(delivered'[r])].last
    BY <1>2 DEF LifeInv
  <1>7. call'[r] = "new" => r \notin registered' /\ Through(r)' /\ ~LastSeen(r)' /\ delivered'[r] = <<>>
    BY <1>2 DEF LifeInv
  <1>8. LastSeen(r)' => Through(r)'
    BY <1>2 DEF LifeInv
  <1> QED
    BY <1>3, <1>4, <1>5, <1>6, <1>7, <1>8 DEF LifeInv

\* The queue gets an end, or nothing: no last output.
LEMMA NoLastQueued ==
    ASSUME CallTypes, NEW r \in Requests,
           queue'[r] \in {queue[r], <<None>>, Append(queue[r], Died)}
    PROVE  LastQueued(r)' => LastQueued(r)
  <1>1. queue[r] \in Seq(Items) /\ Died \in Items
    BY DEF CallTypes, Items
  <1>2. \A i \in Elements(queue'[r]) : i \in Elements(queue[r]) \/ i = None \/ i = Died
    <2>1. Elements(<<None>>) = {None}
      BY DEF Elements
    <2>2. Elements(Append(queue[r], Died)) = Elements(queue[r]) \cup {Died}
      BY <1>1, AppendFacts
    <2>3. Elements(queue'[r]) \in {Elements(queue[r]), {None}, Elements(queue[r]) \cup {Died}}
      BY <2>1, <2>2
    <2> QED
      BY <2>3
  <1> QED
    BY <1>2, ItemsDiffer DEF LastQueued

\* A message that is no output is no last output.
LEMMA NoLastInPipe ==
    ASSUME NEW r, Elements(output)' \subseteq Elements(output) \cup {Ready, Bad}
    PROVE  LastInPipe(r)' => LastInPipe(r)
  BY EngineMessageFacts DEF LastInPipe

\* The reader takes a message.
LEMMA TakenFromPipe ==
    ASSUME PipeTypes, output # <<>>, output' = Tail(output)
    PROVE  Elements(output)' \subseteq Elements(output) /\ Head(output) \in Elements(output)
  <1>1. output \in Seq(EngineMessages)
    BY DEF PipeTypes
  <1>2. /\ Tail(output) \in Seq(EngineMessages) /\ Head(output) \in Elements(output)
        /\ Deleted(output, Tail(output), 1)
    BY <1>1, TailFacts
  <1>3. Elements(Tail(output)) \subseteq Elements(output)
    BY <1>1, <1>2, DeletedFacts
  <1> QED
    BY <1>2, <1>3

\* Every step keeps the life of every request.
LEMMA EndIsInvariant == ClientTypes /\ ControlInv /\ EndInv /\ [Next]_vars => EndInv'
  <1> SUFFICES ASSUME ClientTypes, ControlInv, EndInv, [Next]_vars, NEW r \in Requests
               PROVE  LifeInv(r)'
    BY DEF EndInv
  <1> DEFINE Goal == LifeInv(r)'
  <1> USE DEF callVars, clientVars, engineVars
  <1>0. /\ PipeTypes /\ CallTypes /\ ControlTypes /\ LifeInv(r)
        /\ queue[r] \in Seq(Items) /\ delivered[r] \in Seq(OutItems)
    BY DEF ClientTypes, EndInv, CallTypes
  <1>a. ASSUME ~(Start(r) /\ Alive),
               r \in serving' => r \in serving,
               LastSeen(r)' => LastSeen(r),
               delivered'[r] = delivered[r],
               \/ call'[r] = call[r]
               \/ call[r] # "finished" /\ call'[r] \notin {"new", "finished"},
               call'[r] = "new" => r \notin registered'
        PROVE  Goal
    BY <1>0, <1>a, LifeGoesOn
  <1>b. LifeInv(r) /\ call[r] = "new" => r \notin registered
    BY DEF LifeInv
  <1> HIDE DEF Goal
  <1>1. ASSUME NEW s \in Requests, Start(s) PROVE Goal
    <2>1. /\ queue' = queue /\ delivered' = delivered /\ output' = output /\ serving' = serving
          /\ engine' = engine
      BY <1>1 DEF Start
    <2>2. LastSeen(r)' <=> LastSeen(r)
      BY <2>1 DEF LastSeen, LastQueued, LastInPipe
    <2>3. CASE s # r \/ ~Alive
      <3>1. \/ call'[r] = call[r]
            \/ call[r] = "new" /\ call'[r] = "refused"
        BY <1>0, <1>1, <2>3 DEF Start, SetCall, CallTypes
      <3>2. call'[r] = "new" => r \notin registered'
        BY <1>0, <1>1, <1>b, <2>3, <3>1 DEF Start
      <3>3. ~(Start(r) /\ Alive)
        <4>1. CASE ~Alive
          BY <4>1
        <4>2. CASE s # r /\ Alive
          <5>1. call'[r] = call[r]
            BY <1>0, <1>1, <4>2 DEF Start, SetCall, CallTypes
          <5>2. Start(r) => call[r] = "new" /\ call'[r] = "sending"
            BY <1>0, <4>2 DEF Start, SetCall, CallTypes
          <5> QED
            BY <5>1, <5>2
        <4> QED
          BY <2>3, <4>1, <4>2
      <3> QED
        BY <1>a, <2>1, <2>2, <3>1, <3>2, <3>3
    <2>4. CASE s = r /\ Alive
      <3>1. /\ call[r] = "new" /\ call'[r] = "sending" /\ SendAfter(sends, Add(r))
        BY <1>0, <1>1, <2>4 DEF Start, SetCall, CallTypes
      <3>2. /\ Through(r) /\ ~LastSeen(r) /\ delivered[r] = <<>>
            /\ engine # "dead" => Once(Outbound, Add(r))
        BY <1>0, <3>1 DEF LifeInv
      <3>3. Outbound' = Append(Outbound, Add(r)) /\ Outbound \in Seq(Sends)
        BY <1>0, <3>1, SendTypes, SendsAre, OutboundFacts DEF PipeTypes, Outbound
      <3>4. engine # "dead" => Once(Outbound, Add(r))'
        BY <3>2, <3>3, SendFacts, SendsAre DEF Through
      <3>5. Elements(delivered'[r]) = {}
        BY <2>1, <3>2, ElementsOfEmpty
      <3> QED
        BY <2>1, <2>2, <3>1, <3>2, <3>4, <3>5 DEF LifeInv, Through, Goal
    <2> QED
      BY <2>3, <2>4
  <1>2. ASSUME NEW s \in Requests, FinishSend(s) \/ FinishAbort(s) \/ WithdrawAbort(s) PROVE Goal
    <2>1. /\ queue' = queue /\ delivered' = delivered /\ output' = output /\ serving' = serving
          /\ registered' = registered
      BY <1>2 DEF FinishSend, FinishAbort, WithdrawAbort
    <2>2. LastSeen(r)' <=> LastSeen(r)
      BY <2>1 DEF LastSeen, LastQueued, LastInPipe
    <2>3. \/ call'[r] = call[r]
          \/ call[r] # "finished" /\ call'[r] \notin {"new", "finished"}
      BY <1>0, <1>2 DEF FinishSend, FinishAbort, WithdrawAbort, SetCall, CallTypes
    <2>4. ~Start(r)
      BY <1>0, <1>2 DEF Start, FinishSend, FinishAbort, WithdrawAbort, SetCall, CallTypes
    <2>5. call'[r] = "new" => r \notin registered'
      BY <1>0, <1>b, <2>1, <2>3
    <2> QED
      BY <1>a, <2>1, <2>2, <2>3, <2>4, <2>5
  <1>c. ASSUME NEW s \in Requests, call[s] # "new", \A t \in Requests : t # s => call'[t] = call[t],
               call'[s] = "sending" => call[s] = "sending"
        PROVE  ~Start(r)
    BY <1>0, <1>c DEF Start, SetCall, CallTypes
  <1>d. ASSUME call' = call PROVE ~Start(r)
    BY <1>0, <1>d DEF Start, SetCall, CallTypes
  <1>e. ASSUME queue'[r] \in {queue[r], <<None>>, Append(queue[r], Died)},
               Elements(output)' \subseteq Elements(output) \cup {Ready, Bad}
        PROVE  LastSeen(r)' => LastSeen(r)
    BY <1>0, <1>e, NoLastQueued, NoLastInPipe DEF LastSeen
  <1>f. ASSUME queue'[r] \in {queue[r], <<None>>, Append(queue[r], Died)},
               Elements(output)' \subseteq Elements(output) \cup {Ready, Bad},
               call' = call, registered' \subseteq registered, delivered' = delivered,
               serving' \subseteq serving
        PROVE  Goal
    <2>1. LastSeen(r)' => LastSeen(r)
      BY <1>e, <1>f
    <2>2. ~Start(r)
      BY <1>d, <1>f
    <2>3. call'[r] = "new" => r \notin registered'
      BY <1>0, <1>b, <1>f
    <2> QED
      BY <1>a, <1>f, <2>1, <2>2, <2>3
  <1>g. /\ FailRequests => queue'[r] \in {queue[r], <<None>>, Append(queue[r], Died)}
                           /\ registered' \subseteq registered
        /\ MarkDead => queue'[r] \in {queue[r], <<None>>, Append(queue[r], Died)}
                       /\ registered' \subseteq registered
    BY <1>0, FailFacts, DeadFacts
  <1>3. ASSUME NEW s \in Requests, Cancel(s) PROVE Goal
    <2>1. /\ call[s] \in {"sending", "streaming"} /\ call'[s] \in {"aborting", "cancelled"}
          /\ \A t \in Requests : t # s => call'[t] = call[t]
      BY <1>0, <1>3 DEF Cancel, SetCall, CallTypes
    <2>2. /\ queue'[r] \in {queue[r], <<None>>} /\ output' = output /\ delivered' = delivered
          /\ serving' = serving /\ registered' \subseteq registered
      BY <1>0, <1>3 DEF Cancel, CallTypes
    <2>3. LastSeen(r)' => LastSeen(r)
      BY <1>e, <2>2
    <2>4. ~Start(r)
      BY <1>c, <2>1
    <2>5. \/ call'[r] = call[r]
          \/ call[r] # "finished" /\ call'[r] \notin {"new", "finished"}
      BY <2>1
    <2>6. call'[r] = "new" => r \notin registered'
      BY <1>0, <1>b, <2>2, <2>5
    <2> QED
      BY <1>a, <2>2, <2>3, <2>4, <2>5, <2>6
  <1>4. ASSUME NEW s \in Requests, AbortByOther(s) PROVE Goal
    <2>1. /\ queue'[r] \in {queue[r], <<None>>} /\ output' = output /\ delivered' = delivered
          /\ serving' = serving /\ registered' \subseteq registered /\ call' = call
      BY <1>0, <1>4 DEF AbortByOther, CallTypes
    <2> QED
      BY <1>f, <2>1
  <1>5. ASSUME NEW s \in Requests, Get(s) PROVE Goal
    <2>1. /\ call[s] = "streaming" /\ call'[s] \in {"died", "aborted", "finished", "streaming"}
          /\ \A t \in Requests : t # s => call'[t] = call[t]
          /\ output' = output /\ serving' = serving /\ registered' \subseteq registered
          /\ input' = input /\ sends' = sends /\ engine' = engine
      BY <1>0, <1>5 DEF Get, SetCall, CallTypes
    <2>2. ~Start(r)
      BY <1>c, <2>1
    <2>3. LastInPipe(r)' <=> LastInPipe(r)
      BY <2>1 DEF LastInPipe
    <2>4. call'[r] = "new" => r \notin registered'
      BY <1>0, <1>b, <2>1
    <2>5. CASE s # r
      <3>1. queue'[r] = queue[r] /\ delivered'[r] = delivered[r]
        BY <1>0, <1>5, <2>5 DEF Get, CallTypes
      <3>2. LastSeen(r)' => LastSeen(r)
        BY <2>3, <3>1 DEF LastSeen, LastQueued
      <3> QED
        BY <1>a, <2>1, <2>2, <2>4, <2>5, <3>1, <3>2
    <2>6. CASE s = r
      <3> DEFINE item == Head(queue[r])
      <3>1. queue[r] # <<>> /\ queue'[r] = Tail(queue[r])
        BY <1>0, <1>5, <2>6 DEF Get, CallTypes
      <3>2. /\ item \in Elements(queue[r]) /\ item \in Items
            /\ Elements(queue'[r]) \subseteq Elements(queue[r])
        <4>1. /\ item \in Elements(queue[r]) /\ item \in Items
              /\ Tail(queue[r]) \in Seq(Items) /\ Deleted(queue[r], Tail(queue[r]), 1)
          BY <1>0, <3>1, TailFacts
        <4>2. Elements(Tail(queue[r])) \subseteq Elements(queue[r])
          BY <1>0, <4>1, DeletedFacts
        <4> QED
          BY <3>1, <4>1, <4>2
      <3>3. LastQueued(r)' => LastQueued(r)
        BY <3>2 DEF LastQueued
      <3>4. LastSeen(r)' => LastSeen(r)
        BY <2>3, <3>3 DEF LastSeen
      <3>5. CASE item \in {Died, None}
        <4>1. delivered'[r] = delivered[r] /\ call'[r] \in {"died", "aborted"}
          BY <1>0, <1>5, <2>6, <3>5 DEF Get, SetCall, CallTypes
        <4> QED
          BY <1>a, <2>1, <2>2, <2>4, <2>6, <3>4, <4>1
      <3>6. CASE item \notin {Died, None}
        <4>1. /\ delivered'[r] = Append(delivered[r], item)
              /\ call'[r] = IF item.last THEN "finished" ELSE "streaming"
          BY <1>0, <1>5, <2>6, <3>6 DEF Get, SetCall, CallTypes
        <4>2. item \in OutItems /\ item.type = "output" /\ item.last \in BOOLEAN
          BY <3>2, <3>6, ItemsDiffer DEF Items, OutItems
        <4>3. item.last => Through(r)
          BY <1>0, <3>2, <4>2 DEF LifeInv, LastSeen, LastQueued
        <4>4. \A i \in Elements(delivered[r]) : ~i.last
          BY <1>0, <2>1, <2>6 DEF LifeInv
        <4> HIDE DEF item
        <4>5. /\ Elements(delivered'[r]) = Elements(delivered[r]) \cup {item}
              /\ Len(delivered'[r]) = Len(delivered[r]) + 1
              /\ delivered'[r][Len(delivered[r]) + 1] = item
              /\ Len(delivered[r]) \in Nat
          BY <1>0, <4>1, <4>2, AppendFacts
        <4>6. delivered'[r] # <<>>
          BY <4>5
        <4>7. Outbound' = Outbound
          BY <2>1 DEF Outbound
        <4>8. Through(r)' <=> Through(r)
          BY <2>1, <4>7 DEF Through
        <4>9. \A i \in Elements(delivered'[r]) : i.last => call'[r] = "finished"
          BY <4>1, <4>4, <4>5
        <4>10. call'[r] = "finished" =>
                  Through(r)' /\ delivered'[r] # <<>> /\ delivered'[r][Len(delivered'[r])].last
          BY <4>1, <4>3, <4>5, <4>6, <4>8
        <4>11. LastSeen(r)' => Through(r)'
          BY <1>0, <3>4, <4>8 DEF LifeInv
        <4>12. /\ r \in serving' => Add(r) \notin Elements(Outbound)'
               /\ engine' # "dead" => Once(Outbound, Add(r))'
          BY <1>0, <2>1, <4>7 DEF LifeInv
        <4> QED
          BY <4>1, <4>9, <4>10, <4>11, <4>12 DEF LifeInv, Goal
      <3> QED
        BY <3>5, <3>6
    <2> QED
      BY <2>5, <2>6
  <1>6. ASSUME ReadReady PROVE Goal
    <2>1. Elements(output)' \subseteq Elements(output)
      BY <1>0, <1>6, TakenFromPipe DEF Arrived, ReadReady
    <2> QED
      BY <1>6, <1>f, <2>1 DEF ReadReady
  <1>7. ASSUME ReadOutputs PROVE Goal
    <2> DEFINE m == Head(output)
    <2>1. Elements(output)' \subseteq Elements(output) /\ m \in Elements(output) /\ m.type = "OUTPUTS"
      BY <1>0, <1>7, TakenFromPipe DEF Arrived, ReadOutputs
    <2>2. \/ queue'[r] = queue[r]
          \/ r \in DOMAIN m.entries /\ queue'[r] = Append(queue[r], m.entries[r])
      BY <1>7 DEF ReadOutputs
    <2>3. m \in EngineMessages
      BY <1>0, <1>7, TailFacts DEF Arrived, ReadOutputs, PipeTypes
    <2> HIDE DEF m
    <2>4. LastQueued(r)' => LastSeen(r)
      <3>1. CASE queue'[r] = queue[r]
        BY <3>1 DEF LastQueued, LastSeen
      <3>2. CASE r \in DOMAIN m.entries /\ queue'[r] = Append(queue[r], m.entries[r])
        <4>1. m.entries[r] \in Items
          BY <2>1, <2>3, <3>2, EngineMessageFacts DEF Items
        <4>2. Elements(queue'[r]) = Elements(queue[r]) \cup {m.entries[r]}
          BY <1>0, <3>2, <4>1, AppendFacts
        <4> QED
          BY <2>1, <3>2, <4>2 DEF LastQueued, LastSeen, LastInPipe
      <3> QED
        BY <2>2, <3>1, <3>2
    <2>5. LastInPipe(r)' => LastInPipe(r)
      BY <2>1 DEF LastInPipe
    <2>6. LastSeen(r)' => LastSeen(r)
      BY <2>4, <2>5 DEF LastSeen
    <2>7. /\ call' = call /\ delivered' = delivered /\ registered' = registered /\ serving' = serving
      BY <1>7 DEF ReadOutputs
    <2>8. ~Start(r) /\ (call'[r] = "new" => r \notin registered')
      BY <1>0, <1>b, <1>d, <2>7
    <2> QED
      BY <1>a, <2>6, <2>7, <2>8
  <1>8. ASSUME ReaderFails PROVE Goal
    <2>1. Elements(output)' \subseteq Elements(output)
      BY <1>0, <1>8, TakenFromPipe DEF Arrived, ReaderFails
    <2> QED
      BY <1>8, <1>f, <1>g, <2>1 DEF ReaderFails
  <1>9. ASSUME OnExit PROVE Goal
    BY <1>9, <1>f, <1>g DEF OnExit
  <1>10. ASSUME Close PROVE Goal
    BY <1>10, <1>f, <1>g DEF Close
  <1>11. ASSUME CloseTimeout PROVE Goal
    BY <1>0, <1>11, <1>f, EngineEndsFacts DEF CloseTimeout
  <1>12. ASSUME TearDown PROVE Goal
    <2>1. /\ queue' = queue /\ delivered' = delivered /\ output' = output /\ serving' = serving
          /\ registered' = registered
      BY <1>12 DEF TearDown
    <2>2. LastSeen(r)' <=> LastSeen(r)
      BY <2>1 DEF LastSeen, LastQueued, LastInPipe
    <2>3. \A t \in Requests : \/ call'[t] = call[t]
                              \/ call[t] \in {"sending", "aborting"} /\ call'[t] = "cancelled"
      BY <1>0, <1>12 DEF TearDown, CallTypes
    <2>4. ~Start(r)
      BY <1>0, <2>3 DEF Start, SetCall, CallTypes
    <2>5. call'[r] = "new" => r \notin registered'
      BY <1>0, <1>b, <2>1, <2>3
    <2> QED
      BY <1>a, <2>1, <2>2, <2>3, <2>4, <2>5
  <1>13. ASSUME Transmit PROVE Goal
    BY <1>13, <1>f DEF Transmit
  <1>14. ASSUME EngineReady \/ EngineGarbles PROVE Goal
    <2>1. output' = Append(output, Ready) \/ output' = Append(output, Bad)
      BY <1>14 DEF EngineReady, EngineGarbles, EngineSend
    <2>2. \A m \in EngineMessages : Elements(Append(output, m)) = Elements(output) \cup {m}
      BY <1>0, AppendFacts DEF PipeTypes
    <2>3. Elements(output)' \subseteq Elements(output) \cup {Ready, Bad}
      <3>1. Ready \in EngineMessages /\ Bad \in EngineMessages
        BY EngineMessageFacts
      <3>2. Elements(output)' \in {Elements(output) \cup {Ready}, Elements(output) \cup {Bad}}
        BY <2>1, <2>2, <3>1
      <3> QED
        BY <3>2
    <2> QED
      BY <1>14, <1>f, <2>3 DEF EngineReady, EngineGarbles
  <1>15. ASSUME EngineReceive PROVE Goal
    <2> DEFINE m == Head(input)
    <2>1. /\ input # <<>> /\ input' = Tail(input) /\ sends' = sends /\ engine # "dead"
          /\ queue' = queue /\ delivered' = delivered /\ output' = output
          /\ registered' = registered /\ call' = call
          /\ serving' = CASE m.type = "ADD" -> serving \cup {m.req}
                          [] m.type = "ABORT" -> serving \ {m.req}
                          [] OTHER -> serving
      BY <1>15 DEF EngineReceive
    <2>2. m \in Sends
      BY <1>0, <2>1, TailFacts DEF PipeTypes
    <2>3. /\ Outbound' = Tail(Outbound) /\ Outbound # <<>> /\ Head(Outbound) = m
          /\ Outbound \in Seq(Sends)
      BY <1>0, <2>1, ConcatSteps, OutboundFacts DEF PipeTypes, Outbound
    <2> HIDE DEF m
    <2>4. CASE m = Add(r)
      <3>1. serving' = serving \cup {r}
        BY <2>1, <2>4, MessagesDiffer
      <3>2. Add(r) \in Elements(Outbound)
        BY <2>3, <2>4, TailFacts
      <3>3. ~Through(r) /\ Once(Outbound, Add(r))
        BY <1>0, <2>1, <3>2 DEF Through, LifeInv
      <3>4. /\ call[r] \notin {"new", "finished"} /\ ~LastSeen(r)
            /\ \A i \in Elements(delivered[r]) : ~i.last
        BY <1>0, <3>3 DEF LifeInv
      <3>5. LastSeen(r)' <=> LastSeen(r)
        BY <2>1 DEF LastSeen, LastQueued, LastInPipe
      <3>6. Add(r) \notin Elements(Outbound)' /\ Once(Outbound, Add(r))'
        BY <2>3, <2>4, <3>3, TakenFewer DEF Fewer
      <3> QED
        BY <2>1, <3>4, <3>5, <3>6 DEF LifeInv, Goal
    <2>5. CASE m # Add(r)
      <3>1. r \in serving' => r \in serving
        BY <2>1, <2>2, <2>5, MessagesDiffer DEF Sends
      <3>2. LastSeen(r)' <=> LastSeen(r)
        BY <2>1 DEF LastSeen, LastQueued, LastInPipe
      <3>3. ~Start(r) /\ (call'[r] = "new" => r \notin registered')
        BY <1>0, <1>b, <1>d, <2>1
      <3> QED
        BY <1>a, <2>1, <3>1, <3>2, <3>3
    <2> QED
      BY <2>4, <2>5
  <1>16. ASSUME NEW batch \in SUBSET serving, NEW done \in SUBSET batch, EngineStep(batch, done)
         PROVE  Goal
    <2> DEFINE e == [s \in batch |-> Out(produced[s] + 1, s \in done)]
    <2>1. /\ serving' = serving \ done /\ call' = call /\ queue' = queue /\ delivered' = delivered
          /\ registered' = registered /\ input' = input /\ sends' = sends /\ engine' = engine
          /\ output' = Append(output, Outputs(e))
      BY <1>16 DEF EngineStep, EngineSend, Unfinished
    <2>2. DOMAIN e = batch /\ \A s \in batch : e[s].last = (s \in done)
      BY DEF Out
    <2>3. e \in [batch -> OutItems] /\ batch \in SUBSET Requests
      <3>1. \A s \in batch : produced[s] + 1 \in Nat /\ s \in Requests
        BY <1>0 DEF ControlTypes
      <3> QED
        BY <3>1 DEF Out, OutItems
    <2>4. e \in Entries
      BY <2>3 DEF Entries
    <2> HIDE DEF e
    <2>5. Elements(output)' = Elements(output) \cup {Outputs(e)}
      BY <1>0, <2>1, <2>4, AppendFacts, EngineMessageFacts DEF PipeTypes
    <2>6. LastSeen(r)' => LastSeen(r) \/ r \in done
      <3>1. LastQueued(r)' <=> LastQueued(r)
        BY <2>1 DEF LastQueued
      <3>2. LastInPipe(r)' => LastInPipe(r) \/ r \in done
        BY <2>2, <2>4, <2>5, EngineMessageFacts DEF LastInPipe
      <3> QED
        BY <3>1, <3>2 DEF LastSeen
    <2>7. Outbound' = Outbound
      BY <2>1 DEF Outbound
    <2>8. CASE r \in done
      <3>1. r \in serving /\ Add(r) \notin Elements(Outbound)
        BY <1>0, <2>8 DEF LifeInv
      <3>2. Through(r)'
        BY <2>1, <2>7, <2>8, <3>1 DEF Through
      <3>3. /\ call[r] \notin {"new", "finished"}
            /\ \A i \in Elements(delivered[r]) : ~i.last
        BY <1>0, <3>1 DEF LifeInv, Through
      <3>4. engine' # "dead" => Once(Outbound, Add(r))'
        BY <1>0, <2>1, <2>7 DEF LifeInv
      <3> QED
        BY <2>1, <2>7, <3>1, <3>2, <3>3, <3>4 DEF LifeInv, Goal
    <2>9. CASE r \notin done
      <3>1. ~Start(r) /\ (call'[r] = "new" => r \notin registered')
        BY <1>0, <1>b, <1>d, <2>1
      <3> QED
        BY <1>a, <2>1, <2>6, <2>9, <3>1
    <2> QED
      BY <2>8, <2>9
  <1>17. ASSUME EngineExits PROVE Goal
    BY <1>17, <1>f DEF EngineExits
  <1>18. ASSUME EngineCrashes PROVE Goal
    BY <1>0, <1>18, <1>f, EngineEndsFacts DEF EngineCrashes
  <1>19. ASSUME UNCHANGED vars PROVE Goal
    BY <1>19, <1>f DEF vars
  <1>20. Goal
    BY <1>1, <1>2, <1>3, <1>4, <1>5, <1>6, <1>7, <1>8, <1>9, <1>10, <1>11, <1>12, <1>13,
       <1>14, <1>15, <1>16, <1>17, <1>18, <1>19 DEF Next, ClientStep, UserStep, EngineProgress
  <1> QED
    BY <1>20 DEF Goal

\* generate() returns normally only with a last output, and then the engine
\* neither has the request nor will.
THEOREM ClientFinishesForGood == Spec => []FinishedForGood
  <1>1. ASSUME ClientTypes, EndInv PROVE FinishedForGood
    <2> SUFFICES ASSUME NEW r \in Requests
                 PROVE  /\ call[r] = "finished" <=>
                              delivered[r] # <<>> /\ delivered[r][Len(delivered[r])].last
                        /\ call[r] = "finished" =>
                              r \notin serving /\ Add(r) \notin Elements(sends \o input)
      BY DEF FinishedForGood
    <2>1. LifeInv(r) /\ PipeTypes /\ delivered[r] \in Seq(OutItems)
      BY <1>1 DEF EndInv, ClientTypes, CallTypes
    <2>2. delivered[r] # <<>> => delivered[r][Len(delivered[r])] \in Elements(delivered[r])
      <3>1. delivered[r] # <<>> => Len(delivered[r]) \in 1 .. Len(delivered[r])
        BY <2>1, EmptySeq
      <3> QED
        BY <2>1, <3>1, ElementsOf
    <2>3. Elements(sends \o input) = Elements(Outbound)
      <3>1. Elements(sends \o input) = Elements(sends) \cup Elements(input)
        BY <2>1, ConcatFacts DEF PipeTypes
      <3> QED
        BY <2>1, <3>1, OutboundFacts
    <2> QED
      BY <2>1, <2>2, <2>3 DEF LifeInv, Through
  <1> QED
    BY <1>1, InitTypes, TypesAreInvariant, InitControl, ControlIsInvariant, InitEnd, EndIsInvariant,
       PTL DEF Spec

-----------------------------------------------------------------------------
(* The engine never works for nobody *)

Orphan(r) == r \notin registered /\ ~error /\ ~closing /\ engine # "dead"

\* What an orphan is promised.
AbortComes(r) ==
    /\ r \in serving => Abort(r) \in Elements(Outbound)
    /\ Followed(Outbound, Add(r), Abort(r))

\* The property in these words.
LEMMA OrphansAre ==
    ASSUME PipeTypes
    PROVE  NoOrphans <=> \A r \in Requests : Orphan(r) => AbortComes(r)
  <1>1. DOMAIN Outbound = 1 .. Len(Outbound)
    BY OutboundFacts
  <1> QED
    BY <1>1 DEF NoOrphans, Orphan, AbortComes, Followed

\* A request that is no orphan becomes one only when its ABORT is sent, or
\* when the engine is through with it.
LEMMA BecomesOrphan ==
    ASSUME ClientTypes, ControlInv, EndInv, Next, NEW r \in Requests, r \in registered, Orphan(r)'
    PROVE  AbortComes(r)'
  <1>0. /\ PipeTypes /\ CallTypes /\ ControlTypes /\ LifeInv(r) /\ queue[r] \in Seq(Items)
        /\ Outbound \in Seq(Sends)
    BY OutboundFacts DEF ClientTypes, EndInv, CallTypes
  <1> USE DEF callVars, clientVars, engineVars
  <1>a. ~closing' /\ ~error' /\ engine' # "dead" /\ r \notin registered'
    BY DEF Orphan
  <1>b. ASSUME NEW left \in Seq(Sends), SendAfter(left, Abort(r)) PROVE AbortComes(r)'
    <2>1. Outbound' = Append(input \o left, Abort(r)) /\ input \o left \in Seq(Sends)
      BY <1>0, <1>b, SendTypes, SendsAre, ConcatFacts DEF PipeTypes
    <2>2. Followed(Outbound, Add(r), Abort(r))'
      BY <2>1, SendFacts, SendsAre, MessagesDiffer
    <2>3. Abort(r) \in Elements(Outbound)'
      <3>1. \A q \in Seq(Sends), m \in Sends : m \in Elements(Append(q, m))
        BY AppendFacts
      <3> QED
        BY <2>1, <3>1, SendsAre
    <2> QED
      BY <2>2, <2>3 DEF AbortComes
  <1>1. \/ \E s \in Requests : Get(s) \/ Cancel(s) \/ AbortByOther(s)
        \/ FailRequests /\ Close
        \/ MarkDead /\ (ReaderFails \/ OnExit)
    <2> SUFFICES ASSUME registered' # registered,
                        ~ \E s \in Requests : Get(s) \/ Cancel(s) \/ AbortByOther(s)
                 PROVE  \/ FailRequests /\ Close
                        \/ MarkDead /\ (ReaderFails \/ OnExit)
      BY <1>a
    <2>1. ~ \E s \in Requests : Start(s)
      BY <1>a DEF Start
    <2> QED
      BY <2>1 DEF Next, ClientStep, UserStep, EngineProgress, FinishSend, FinishAbort, WithdrawAbort,
         ReadReady, ReadOutputs, ReaderFails, OnExit, TearDown, Close, Transmit, CloseTimeout,
         EngineReady, EngineReceive, EngineExits, EngineStep, EngineGarbles, EngineCrashes
  <1>2. ~(FailRequests /\ Close)
    BY <1>a DEF Close
  <1>3. ~(MarkDead /\ (ReaderFails \/ OnExit))
    BY <1>0, <1>a, DeadFacts
  <1>4. ASSUME NEW s \in Requests, Get(s) PROVE AbortComes(r)'
    <2> DEFINE item == Head(queue[r])
    <2>1. /\ s = r /\ queue[r] # <<>> /\ item \notin {Died, None} /\ item.last
          /\ input' = input /\ sends' = sends /\ serving' = serving
      BY <1>4, <1>a DEF Get
    <2>2. item \in Elements(queue[r]) /\ item \in Items
      BY <1>0, <2>1, TailFacts
    <2>3. item.type = "output"
      BY <2>1, <2>2, ItemsDiffer DEF Items
    <2>4. Through(r)
      BY <1>0, <2>1, <2>2, <2>3 DEF LifeInv, LastSeen, LastQueued
    <2>5. Outbound' = Outbound
      BY <2>1 DEF Outbound
    <2>6. \A i \in DOMAIN Outbound : Outbound[i] # Add(r)
      BY <2>4 DEF Through, Elements
    <2> QED
      BY <2>1, <2>4, <2>5, <2>6 DEF AbortComes, Through, Followed
  <1>5. r \in registered /\ ~closing /\ ~error /\ engine # "dead" => Alive
    BY <1>0 DEF ControlInv, Alive
  <1>6. ASSUME NEW s \in Requests, Cancel(s) \/ AbortByOther(s) PROVE AbortComes(r)'
    <2>1. s = r /\ Alive
      BY <1>0, <1>5, <1>6, <1>a DEF Cancel, AbortByOther
    <2>2. Remove(sends, Add(r)) \in Seq(Sends) /\ sends \in Seq(Sends)
      BY <1>0, RemoveFacts DEF PipeTypes
    <2>3. SendAfter(sends, Abort(r)) \/ SendAfter(Remove(sends, Add(r)), Abort(r))
      BY <1>6, <2>1 DEF Cancel, AbortByOther
    <2> QED
      BY <1>b, <2>2, <2>3
  <1> QED
    BY <1>1, <1>2, <1>3, <1>4, <1>6

\* Every step keeps the promise to the orphans.
LEMMA NoOrphansStep ==
    ASSUME ClientTypes, ControlInv, EndInv, NoOrphans, [Next]_vars
    PROVE  NoOrphans'
  <1>0. PipeTypes /\ PipeTypes' /\ ControlTypes
    BY TypesAreInvariant DEF ClientTypes
  <1>s. DOMAIN Outbound' = 1 .. Len(Outbound')
    <2>1. Outbound' \in Seq(Sends)
      BY <1>0, ConcatFacts DEF PipeTypes, Outbound
    <2> QED
      BY <2>1
  <1> SUFFICES ASSUME NEW r \in Requests, Orphan(r)' PROVE AbortComes(r)'
    BY <1>s DEF NoOrphans, Orphan, AbortComes, Followed
  <1> USE DEF callVars, clientVars, engineVars
  <1>1. CASE UNCHANGED vars
    <2>1. Orphan(r) /\ Outbound' = Outbound /\ serving' = serving
      BY <1>1 DEF vars, Orphan, Outbound
    <2> QED
      BY <1>0, <2>1, OrphansAre DEF AbortComes
  <1>2. CASE Next /\ r \in registered
    BY <1>2, BecomesOrphan
  <1>3. CASE Next /\ r \notin registered
    <2>1. ~closing /\ ~error /\ engine # "dead"
      <3>1. engine' # "dead" => engine # "dead"
        BY <1>3, EngineEndsFacts, <1>0 DEF Next, ClientStep, UserStep, EngineProgress,
           Start, FinishSend, Get, Cancel, FinishAbort, AbortByOther, WithdrawAbort,
           ReadReady, ReadOutputs, ReaderFails, OnExit, TearDown, Close, Transmit, CloseTimeout,
           EngineReady, EngineReceive, EngineExits, EngineStep, EngineGarbles, EngineCrashes
      <3>2. closing => closing'
        BY <1>3 DEF Next, ClientStep, UserStep, EngineProgress,
           Start, FinishSend, Get, Cancel, FinishAbort, AbortByOther, WithdrawAbort,
           ReadReady, ReadOutputs, ReaderFails, OnExit, TearDown, Close, Transmit, CloseTimeout,
           EngineReady, EngineReceive, EngineExits, EngineStep, EngineGarbles, EngineCrashes
      <3>3. error => error'
        BY <1>3 DEF Next, ClientStep, UserStep, EngineProgress, MarkDead,
           Start, FinishSend, Get, Cancel, FinishAbort, AbortByOther, WithdrawAbort,
           ReadReady, ReadOutputs, ReaderFails, OnExit, TearDown, Close, Transmit, CloseTimeout,
           EngineReady, EngineReceive, EngineExits, EngineStep, EngineGarbles, EngineCrashes
      <3> QED
        BY <3>1, <3>2, <3>3 DEF Orphan
    <2>2. AbortComes(r)
      BY <1>0, <1>3, <2>1, OrphansAre DEF Orphan
    <2>3. ~(Start(r) /\ Alive) /\ engine' # "dead" /\ ~error'
      BY DEF Start, Orphan
    <2>4. CASE EngineReceive
      <3> DEFINE m == Head(input)
      <3>1. /\ input # <<>> /\ input' = Tail(input) /\ sends' = sends
            /\ serving' = CASE m.type = "ADD" -> serving \cup {m.req}
                            [] m.type = "ABORT" -> serving \ {m.req}
                            [] OTHER -> serving
        BY <2>4 DEF EngineReceive
      <3>2. m \in Sends
        BY <1>0, <3>1, TailFacts DEF PipeTypes
      <3>3. /\ Outbound' = Tail(Outbound) /\ Outbound # <<>> /\ Head(Outbound) = m
            /\ Outbound \in Seq(Sends)
        BY <1>0, <3>1, ConcatSteps, OutboundFacts DEF PipeTypes, Outbound
      <3> HIDE DEF m
      <3>4. Followed(Outbound, Add(r), Abort(r))'
        BY <2>2, <3>3, TakenFewer DEF AbortComes
      <3>5. ASSUME r \in serving' PROVE Abort(r) \in Elements(Outbound)'
        <4>1. m # Abort(r)
          BY <3>1, <3>5, MessagesDiffer
        <4>2. r \in serving \/ m = Add(r)
          BY <3>1, <3>2, <3>5, MessagesDiffer DEF Sends
        <4>3. m = Add(r) => Abort(r) \in Elements(Outbound)
          <5> SUFFICES ASSUME m = Add(r) PROVE Abort(r) \in Elements(Outbound)
            OBVIOUS
          <5>1. /\ Outbound[1] = Add(r) /\ DOMAIN Outbound = 1 .. Len(Outbound)
                /\ Len(Outbound) \in Nat \ {0}
            BY <3>3, TailFacts
          <5>2. 1 \in DOMAIN Outbound
            BY <5>1
          <5>3. PICK j \in 1 + 1 .. Len(Outbound) : Outbound[j] = Abort(r)
            BY <2>2, <5>1, <5>2 DEF AbortComes, Followed
          <5>4. j \in DOMAIN Outbound
            BY <5>1
          <5> QED
            BY <5>3, <5>4 DEF Elements
        <4>4. Abort(r) \in Elements(Outbound)
          BY <2>2, <4>2, <4>3 DEF AbortComes
        <4> QED
          BY <3>3, <4>1, <4>4, TakenFewer
      <3> QED
        BY <3>4, <3>5 DEF AbortComes
    <2>5. CASE ~EngineReceive
      <3>1. Answered(Outbound, Outbound', r)
        BY <2>3, <2>5, Traffic
      <3>2. r \in serving' => r \in serving
        BY <1>0, <1>3, <2>5, EngineEndsFacts DEF Next, ClientStep, UserStep, EngineProgress, Unfinished,
           Start, FinishSend, Get, Cancel, FinishAbort, AbortByOther, WithdrawAbort,
           ReadReady, ReadOutputs, ReaderFails, OnExit, TearDown, Close, Transmit, CloseTimeout,
           EngineReady, EngineExits, EngineStep, EngineGarbles, EngineCrashes
      <3> QED
        BY <2>2, <3>1, <3>2 DEF AbortComes, Answered
    <2> QED
      BY <2>4, <2>5
  <1> QED
    BY <1>1, <1>2, <1>3

\* The engine never works for nobody: a request it has, or will have, that the
\* client no longer knows is followed by its ABORT.
THEOREM ClientLeavesNoOrphans == Spec => []NoOrphans
  <1>1. Init => NoOrphans
    <2> SUFFICES ASSUME Init PROVE NoOrphans
      OBVIOUS
    <2>1. Outbound = <<>> /\ serving = {}
      BY EmptySeq, ConcatEmptySeq DEF Init, Outbound
    <2> QED
      BY <2>1 DEF NoOrphans
  <1>2. ClientTypes /\ ControlInv /\ EndInv /\ NoOrphans /\ [Next]_vars => NoOrphans'
    BY NoOrphansStep
  <1> QED
    BY <1>1, <1>2, InitTypes, TypesAreInvariant, InitControl, ControlIsInvariant, InitEnd,
       EndIsInvariant, PTL DEF Spec

-----------------------------------------------------------------------------
(* The outputs of a request, from the engine to generate() *)

\* Where the outputs of r are in a pipe p, and their numbers.
Places(p, r) == {i \in 1 .. Len(p) : p[i].type = "OUTPUTS" /\ r \in DOMAIN p[i].entries}
NumberAt(p, r, i) == p[i].entries[r].n

\* They go up from next, without a gap, and not over top.
Gapless(p, r, next, top) ==
    /\ \A i, j \in Places(p, r) : i < j => NumberAt(p, r, i) < NumberAt(p, r, j)
    /\ \A i \in Places(p, r) :
          /\ next <= NumberAt(p, r, i) /\ NumberAt(p, r, i) <= top
          /\ \A v \in next .. NumberAt(p, r, i) :
                \E j \in Places(p, r) : j <= i /\ NumberAt(p, r, j) = v

\* Those from next to top are all there.
Complete(p, r, next, top) ==
    \A v \in next .. top : \E i \in Places(p, r) : NumberAt(p, r, i) = v

\* What is found at these places.
LEMMA PlacesFacts ==
    ASSUME NEW p \in Seq(EngineMessages), NEW r
    PROVE  \A i \in Places(p, r) :
              i \in 1 .. Len(p) /\ p[i].entries[r] \in OutItems /\ NumberAt(p, r, i) \in Nat
  <1> SUFFICES ASSUME NEW i \in Places(p, r)
               PROVE  i \in 1 .. Len(p) /\ p[i].entries[r] \in OutItems /\ NumberAt(p, r, i) \in Nat
    OBVIOUS
  <1>1. i \in 1 .. Len(p) /\ p[i].type = "OUTPUTS" /\ r \in DOMAIN p[i].entries
    BY DEF Places
  <1>2. p[i] \in EngineMessages
    BY <1>1
  <1>3. p[i].entries[r] \in OutItems
    BY <1>1, <1>2, EngineMessageFacts
  <1> QED
    BY <1>1, <1>3 DEF NumberAt, OutItems

\* A beginning of a gapless pipe is gapless.
LEMMA PrefixGapless ==
    ASSUME NEW p \in Seq(EngineMessages), NEW w \in Seq(EngineMessages), NEW r,
           \A i \in 1 .. Len(w) : w[i] = p[i] /\ i \in 1 .. Len(p)
    PROVE  /\ \A next, top : Gapless(p, r, next, top) => Gapless(w, r, next, top)
           /\ Places(w, r) \subseteq Places(p, r)
  <1>1. \A i \in Places(w, r) : i \in Places(p, r) /\ NumberAt(w, r, i) = NumberAt(p, r, i)
    BY DEF Places, NumberAt
  <1>2. \A i \in Places(w, r) : \A j \in Places(p, r) : j <= i => j \in Places(w, r)
    <2> SUFFICES ASSUME NEW i \in Places(w, r), NEW j \in Places(p, r), j <= i
                 PROVE  j \in Places(w, r)
      OBVIOUS
    <2>1. i \in 1 .. Len(w) /\ j \in 1 .. Len(p) /\ Len(w) \in Nat
      BY DEF Places
    <2>2. j \in 1 .. Len(w)
      BY <2>1
    <2> QED
      BY <2>2 DEF Places
  <1>3. ASSUME NEW next, NEW top, Gapless(p, r, next, top) PROVE Gapless(w, r, next, top)
    <2>1. \A i, j \in Places(w, r) : i < j => NumberAt(w, r, i) < NumberAt(w, r, j)
      BY <1>1, <1>3 DEF Gapless
    <2>2. ASSUME NEW i \in Places(w, r)
          PROVE  /\ next <= NumberAt(w, r, i) /\ NumberAt(w, r, i) <= top
                 /\ \A v \in next .. NumberAt(w, r, i) :
                       \E j \in Places(w, r) : j <= i /\ NumberAt(w, r, j) = v
      BY <1>1, <1>2, <1>3, <2>2 DEF Gapless
    <2> QED
      BY <2>1, <2>2 DEF Gapless
  <1> QED
    BY <1>1, <1>3

\* The engine sends something that is not for r.
LEMMA SentToOthers ==
    ASSUME NEW p \in Seq(EngineMessages), NEW m \in EngineMessages, NEW r,
           m.type = "OUTPUTS" => r \notin DOMAIN m.entries
    PROVE  /\ Places(Append(p, m), r) = Places(p, r)
           /\ \A next, top : /\ Gapless(p, r, next, top) => Gapless(Append(p, m), r, next, top)
                             /\ Complete(p, r, next, top) => Complete(Append(p, m), r, next, top)
  <1> DEFINE w == Append(p, m)
  <1>1. /\ Len(w) = Len(p) + 1 /\ \A i \in 1 .. Len(p) : w[i] = p[i]
        /\ w[Len(p) + 1] = m /\ Len(p) \in Nat
    BY AppendFacts
  <1>2. /\ \A i \in 1 .. Len(p) + 1 : i = Len(p) + 1 \/ i \in 1 .. Len(p)
        /\ \A i \in 1 .. Len(p) : i \in 1 .. Len(p) + 1
    BY <1>1
  <1> HIDE DEF w
  <1>3. Places(w, r) = Places(p, r)
    BY <1>1, <1>2 DEF Places
  <1>4. \A i \in Places(p, r) : NumberAt(w, r, i) = NumberAt(p, r, i)
    BY <1>1 DEF Places, NumberAt
  <1>5. \A next, top : /\ Gapless(p, r, next, top) => Gapless(w, r, next, top)
                       /\ Complete(p, r, next, top) => Complete(w, r, next, top)
    BY <1>3, <1>4 DEF Gapless, Complete
  <1> QED
    BY <1>3, <1>5 DEF w

\* The engine sends the next output of r.
LEMMA SentToRequest ==
    ASSUME NEW p \in Seq(EngineMessages), NEW m \in EngineMessages, NEW r,
           NEW next \in Nat, NEW top \in Nat, next <= top + 1,
           m.type = "OUTPUTS", r \in DOMAIN m.entries, m.entries[r].n = top + 1,
           Gapless(p, r, next, top), Complete(p, r, next, top)
    PROVE  Gapless(Append(p, m), r, next, top + 1) /\ Complete(Append(p, m), r, next, top + 1)
  <1> DEFINE w == Append(p, m)
             l == Len(p) + 1
  <1>1. /\ Len(w) = l /\ \A i \in 1 .. Len(p) : w[i] = p[i]
        /\ w[l] = m /\ Len(p) \in Nat
    BY AppendFacts
  <1>2. /\ \A i \in 1 .. l : i = l \/ i \in 1 .. Len(p)
        /\ \A i \in 1 .. Len(p) : i \in 1 .. l /\ i < l /\ i # l
        /\ l \in 1 .. l
    BY <1>1
  <1> HIDE DEF w, l
  <1>3. Places(w, r) = Places(p, r) \cup {l}
    BY <1>1, <1>2 DEF Places
  <1>4. /\ \A i \in Places(p, r) : /\ NumberAt(w, r, i) = NumberAt(p, r, i)
                                   /\ NumberAt(p, r, i) \in Nat /\ i \in Nat /\ i < l
        /\ NumberAt(w, r, l) = top + 1 /\ l \in Nat
    <2>1. \A i \in Places(p, r) : i \in 1 .. Len(p)
      BY DEF Places
    <2>2. \A i \in Places(p, r) : NumberAt(w, r, i) = NumberAt(p, r, i)
      BY <1>1, <2>1 DEF NumberAt
    <2>3. NumberAt(w, r, l) = top + 1
      BY <1>1 DEF NumberAt
    <2> QED
      BY <1>2, <2>1, <2>2, <2>3, PlacesFacts DEF l
  <1>5. \A v \in next .. top + 1 : v = top + 1 \/ v \in next .. top
    OBVIOUS
  <1>6. Complete(w, r, next, top + 1)
    <2> SUFFICES ASSUME NEW v \in next .. top + 1
                 PROVE  \E i \in Places(w, r) : NumberAt(w, r, i) = v
      BY DEF Complete
    <2>1. CASE v = top + 1
      BY <1>3, <1>4, <2>1
    <2>2. CASE v \in next .. top
      BY <1>3, <1>4, <2>2 DEF Complete
    <2> QED
      BY <1>5, <2>1, <2>2
  <1>7. \A i, j \in Places(w, r) : i < j => NumberAt(w, r, i) < NumberAt(w, r, j)
    <2> SUFFICES ASSUME NEW i \in Places(w, r), NEW j \in Places(w, r), i < j
                 PROVE  NumberAt(w, r, i) < NumberAt(w, r, j)
      OBVIOUS
    <2>1. i # l
      BY <1>3, <1>4
    <2>2. i \in Places(p, r) /\ NumberAt(p, r, i) <= top
      BY <1>3, <2>1 DEF Gapless
    <2>3. CASE j = l
      BY <1>4, <2>2, <2>3
    <2>4. CASE j # l
      BY <1>3, <1>4, <2>2, <2>4 DEF Gapless
    <2> QED
      BY <2>3, <2>4
  <1>8. ASSUME NEW i \in Places(w, r)
        PROVE  /\ next <= NumberAt(w, r, i) /\ NumberAt(w, r, i) <= top + 1
               /\ \A v \in next .. NumberAt(w, r, i) :
                     \E j \in Places(w, r) : j <= i /\ NumberAt(w, r, j) = v
    <2>1. CASE i = l
      <3>1. \A j \in Places(w, r) : j <= l
        BY <1>3, <1>4
      <3> QED
        BY <1>4, <1>6, <2>1, <3>1 DEF Complete
    <2>2. CASE i # l
      <3>1. /\ i \in Places(p, r) /\ next <= NumberAt(p, r, i) /\ NumberAt(p, r, i) <= top
            /\ \A v \in next .. NumberAt(p, r, i) :
                  \E j \in Places(p, r) : j <= i /\ NumberAt(p, r, j) = v
        BY <1>3, <1>8, <2>2 DEF Gapless
      <3>2. NumberAt(w, r, i) = NumberAt(p, r, i) /\ NumberAt(p, r, i) <= top + 1
        BY <1>4, <3>1
      <3> QED
        BY <1>3, <1>4, <3>1, <3>2
    <2> QED
      BY <2>1, <2>2
  <1> QED
    BY <1>6, <1>7, <1>8 DEF Gapless, w

\* The reader takes the head of the pipe: the next output of r, or none of r's.
LEMMA TakenByReader ==
    ASSUME NEW p \in Seq(EngineMessages), p # <<>>, NEW r, NEW next \in Nat, NEW top \in Nat
    PROVE  /\ Places(p, r) = {} => Places(Tail(p), r) = {}
           /\ 1 \notin Places(p, r) =>
                 /\ Gapless(p, r, next, top) => Gapless(Tail(p), r, next, top)
                 /\ Complete(p, r, next, top) => Complete(Tail(p), r, next, top)
           /\ 1 \in Places(p, r) /\ Gapless(p, r, next, top) =>
                 /\ Head(p).entries[r].n = next /\ next <= top
                 /\ Gapless(Tail(p), r, next + 1, top)
                 /\ Complete(p, r, next, top) => Complete(Tail(p), r, next + 1, top)
           /\ 1 \in Places(p, r) <=> Head(p).type = "OUTPUTS" /\ r \in DOMAIN Head(p).entries
  <1> DEFINE w == Tail(p)
  <1>1. /\ w \in Seq(EngineMessages) /\ Head(p) = p[1] /\ Len(p) \in Nat \ {0}
        /\ Len(w) = Len(p) - 1 /\ \A i \in 1 .. Len(p) - 1 : w[i] = p[i + 1]
    BY TailFacts
  <1> HIDE DEF w
  <1>2. \A i \in Places(w, r) : /\ i \in Nat /\ i + 1 \in Places(p, r) /\ i + 1 # 1
                                /\ NumberAt(w, r, i) = NumberAt(p, r, i + 1)
    <2> SUFFICES ASSUME NEW i \in Places(w, r)
                 PROVE  /\ i \in Nat /\ i + 1 \in Places(p, r) /\ i + 1 # 1
                        /\ NumberAt(w, r, i) = NumberAt(p, r, i + 1)
      OBVIOUS
    <2>1. i \in 1 .. Len(w)
      BY DEF Places
    <2>2. i \in 1 .. Len(p) - 1 /\ i + 1 \in 1 .. Len(p) /\ i \in Nat /\ i + 1 # 1
      BY <1>1, <2>1
    <2>3. w[i] = p[i + 1]
      BY <1>1, <2>2
    <2> QED
      BY <2>2, <2>3 DEF Places, NumberAt
  <1>3. \A j \in Places(p, r) : j # 1 => /\ j \in Nat /\ j - 1 \in Places(w, r)
                                         /\ NumberAt(w, r, j - 1) = NumberAt(p, r, j)
    <2> SUFFICES ASSUME NEW j \in Places(p, r), j # 1
                 PROVE  /\ j \in Nat /\ j - 1 \in Places(w, r)
                        /\ NumberAt(w, r, j - 1) = NumberAt(p, r, j)
      OBVIOUS
    <2>1. j \in 1 .. Len(p)
      BY DEF Places
    <2>2. j - 1 \in 1 .. Len(p) - 1 /\ j - 1 \in 1 .. Len(w) /\ (j - 1) + 1 = j /\ j \in Nat
      BY <1>1, <2>1
    <2>3. w[j - 1] = p[j]
      BY <1>1, <2>2
    <2> QED
      BY <2>2, <2>3 DEF Places, NumberAt
  <1>4. 1 \in Places(p, r) <=> Head(p).type = "OUTPUTS" /\ r \in DOMAIN Head(p).entries
    <2>1. 1 \in 1 .. Len(p)
      BY <1>1
    <2> QED
      BY <1>1, <2>1 DEF Places
  <1>5. Places(p, r) = {} => Places(w, r) = {}
    BY <1>2
  <1>6. ASSUME Gapless(p, r, next, top)
        PROVE  \A i, j \in Places(w, r) : i < j => NumberAt(w, r, i) < NumberAt(w, r, j)
    <2> SUFFICES ASSUME NEW i \in Places(w, r), NEW j \in Places(w, r), i < j
                 PROVE  NumberAt(w, r, i) < NumberAt(w, r, j)
      OBVIOUS
    <2>1. i + 1 < j + 1
      BY <1>2
    <2> QED
      BY <1>2, <1>6, <2>1 DEF Gapless
  <1>7. \A i \in Places(w, r), j \in Places(p, r) : j <= i + 1 => j - 1 <= i
    BY <1>2, <1>3
  <1>8. ASSUME 1 \notin Places(p, r)
        PROVE  /\ Gapless(p, r, next, top) => Gapless(w, r, next, top)
               /\ Complete(p, r, next, top) => Complete(w, r, next, top)
    <2>1. \A j \in Places(p, r) : j - 1 \in Places(w, r) /\ NumberAt(w, r, j - 1) = NumberAt(p, r, j)
      BY <1>3, <1>8
    <2>2. ASSUME Gapless(p, r, next, top), NEW i \in Places(w, r)
          PROVE  /\ next <= NumberAt(w, r, i) /\ NumberAt(w, r, i) <= top
                 /\ \A v \in next .. NumberAt(w, r, i) :
                       \E j \in Places(w, r) : j <= i /\ NumberAt(w, r, j) = v
      <3>1. /\ next <= NumberAt(p, r, i + 1) /\ NumberAt(p, r, i + 1) <= top
            /\ \A v \in next .. NumberAt(p, r, i + 1) :
                  \E j \in Places(p, r) : j <= i + 1 /\ NumberAt(p, r, j) = v
        BY <1>2, <2>2 DEF Gapless
      <3> QED
        BY <1>2, <1>7, <2>1, <3>1
    <2>3. Complete(p, r, next, top) => Complete(w, r, next, top)
      BY <2>1 DEF Complete
    <2> QED
      BY <1>6, <2>2, <2>3 DEF Gapless
  <1>9. ASSUME 1 \in Places(p, r), Gapless(p, r, next, top)
        PROVE  /\ Head(p).entries[r].n = next /\ next <= top
               /\ Gapless(w, r, next + 1, top)
               /\ Complete(p, r, next, top) => Complete(w, r, next + 1, top)
    <2>1. NumberAt(p, r, 1) = next /\ next <= top
      <3>1. /\ next <= NumberAt(p, r, 1) /\ NumberAt(p, r, 1) <= top /\ NumberAt(p, r, 1) \in Nat
            /\ \A v \in next .. NumberAt(p, r, 1) :
                  \E j \in Places(p, r) : j <= 1 /\ NumberAt(p, r, j) = v
        BY <1>9, PlacesFacts DEF Gapless
      <3>2. next \in next .. NumberAt(p, r, 1)
        BY <3>1
      <3>3. PICK j \in Places(p, r) : j <= 1 /\ NumberAt(p, r, j) = next
        BY <3>1, <3>2
      <3>4. j = 1
        <4>1. j \in 1 .. Len(p)
          BY DEF Places
        <4> QED
          BY <1>1, <3>3, <4>1
      <3> QED
        BY <3>1, <3>3, <3>4
    <2>2. \A j \in Places(p, r) : NumberAt(p, r, j) # next => j # 1
      BY <2>1
    <2>3. ASSUME NEW i \in Places(w, r)
          PROVE  /\ next + 1 <= NumberAt(w, r, i) /\ NumberAt(w, r, i) <= top
                 /\ \A v \in next + 1 .. NumberAt(w, r, i) :
                       \E j \in Places(w, r) : j <= i /\ NumberAt(w, r, j) = v
      <3>1. /\ NumberAt(p, r, i + 1) <= top /\ NumberAt(p, r, i + 1) \in Nat
            /\ \A v \in next .. NumberAt(p, r, i + 1) :
                  \E j \in Places(p, r) : j <= i + 1 /\ NumberAt(p, r, j) = v
        BY <1>2, <1>9, PlacesFacts DEF Gapless
      <3>2. NumberAt(p, r, 1) < NumberAt(p, r, i + 1)
        <4>1. 1 < i + 1
          <5>1. i \in 1 .. Len(w)
            BY DEF Places
          <5> QED
            BY <5>1
        <4> QED
          BY <1>2, <1>9, <4>1 DEF Gapless
      <3>3. next + 1 <= NumberAt(p, r, i + 1)
        BY <2>1, <3>1, <3>2
      <3>4. ASSUME NEW v \in next + 1 .. NumberAt(p, r, i + 1)
            PROVE  \E j \in Places(w, r) : j <= i /\ NumberAt(w, r, j) = v
        <4>1. v \in next .. NumberAt(p, r, i + 1) /\ v # next
          OBVIOUS
        <4>2. PICK j \in Places(p, r) : j <= i + 1 /\ NumberAt(p, r, j) = v
          BY <3>1, <4>1
        <4>3. j - 1 \in Places(w, r) /\ NumberAt(w, r, j - 1) = v
          BY <1>3, <2>2, <4>1, <4>2
        <4>4. j - 1 <= i
          BY <1>7, <4>2
        <4> QED
          BY <4>3, <4>4
      <3> QED
        BY <1>2, <3>1, <3>3, <3>4
    <2>4. ASSUME Complete(p, r, next, top) PROVE Complete(w, r, next + 1, top)
      <3> SUFFICES ASSUME NEW v \in next + 1 .. top
                   PROVE  \E i \in Places(w, r) : NumberAt(w, r, i) = v
        BY DEF Complete
      <3>1. v \in next .. top /\ v # next
        OBVIOUS
      <3>2. PICK j \in Places(p, r) : NumberAt(p, r, j) = v
        BY <2>4, <3>1 DEF Complete
      <3> QED
        BY <1>3, <2>2, <3>1, <3>2
    <2>5. Head(p).entries[r].n = next
      BY <1>1, <2>1 DEF NumberAt
    <2> QED
      BY <1>6, <1>9, <2>1, <2>3, <2>4, <2>5 DEF Gapless
  <1> QED
    BY <1>4, <1>5, <1>8, <1>9 DEF w

\* Where a request's next output belongs.
Awaited(r) == Len(delivered[r]) + Len(queue[r]) + 1

\* The outputs of r: those yielded, those that wait (behind which may be how
\* the call ends), and those on their way.
OutputInv(r) ==
    /\ \A k \in DOMAIN delivered[r] : delivered[r][k].n = k
    /\ \A k \in DOMAIN queue[r] :
          /\ queue[r][k].type = "output" => queue[r][k].n = Len(delivered[r]) + k
          /\ queue[r][k].type # "output" => k = Len(queue[r]) /\ r \notin registered
    /\ call[r] = "new" => /\ produced[r] = 0 /\ Places(output, r) = {}
                          /\ queue[r] = <<>> /\ delivered[r] = <<>>
    /\ r \in registered =>
          /\ Awaited(r) <= produced[r] + 1
          /\ Gapless(output, r, Awaited(r), produced[r])
          /\ engine # "dead" => Complete(output, r, Awaited(r), produced[r])

StreamInv == \A r \in Requests : OutputInv(r)

\* Before the first output.
LEMMA InitStream == Init => StreamInv
  <1> SUFFICES ASSUME Init, NEW r \in Requests PROVE OutputInv(r)
    BY DEF StreamInv
  <1>1. /\ output = <<>> /\ queue[r] = <<>> /\ delivered[r] = <<>> /\ produced[r] = 0
        /\ registered = {}
    BY DEF Init
  <1>2. Places(output, r) = {}
    BY <1>1 DEF Places
  <1> QED
    BY <1>1, <1>2 DEF OutputInv

\* A step that moves none of r's outputs.
LEMMA OutputsStay ==
    ASSUME NEW r \in Requests, OutputInv(r), Awaited(r) \in Nat, produced[r] \in Nat,
           delivered'[r] = delivered[r], queue'[r] = queue[r], produced'[r] = produced[r],
           call'[r] = "new" => call[r] = "new",
           r \in registered' => r \in registered,
           engine' # "dead" => engine # "dead",
           Places(output, r) = {} => Places(output', r) = {},
           \A next, top \in Nat : Gapless(output, r, next, top) => Gapless(output', r, next, top),
           engine' # "dead" =>
               \A next, top \in Nat : Complete(output, r, next, top) => Complete(output', r, next, top)
    PROVE  OutputInv(r)'
  <1>1. Awaited(r)' = Awaited(r)
    BY DEF Awaited
  <1>2. /\ \A k \in DOMAIN delivered'[r] : delivered'[r][k].n = k
        /\ \A k \in DOMAIN queue'[r] :
              /\ queue'[r][k].type = "output" => queue'[r][k].n = Len(delivered'[r]) + k
              /\ queue'[r][k].type # "output" => k = Len(queue'[r]) /\ r \notin registered'
    BY DEF OutputInv
  <1>3. call'[r] = "new" => /\ produced'[r] = 0 /\ Places(output, r)' = {}
                            /\ queue'[r] = <<>> /\ delivered'[r] = <<>>
    BY DEF OutputInv
  <1>4. r \in registered' =>
          /\ Awaited(r) <= produced[r] + 1
          /\ Gapless(output', r, Awaited(r), produced[r])
          /\ engine' # "dead" => Complete(output', r, Awaited(r), produced[r])
    BY DEF OutputInv
  <1> QED
    BY <1>1, <1>2, <1>3, <1>4 DEF OutputInv

\* A step by which the client stops waiting for r.
LEMMA OutputsEnd ==
    ASSUME CallTypes, NEW r \in Requests, OutputInv(r), r \in registered, r \notin registered',
           delivered'[r] = delivered[r], call'[r] # "new",
           queue'[r] \in {<<None>>, Append(queue[r], Died)}
    PROVE  OutputInv(r)'
  <1>0. queue[r] \in Seq(Items) /\ Died \in Items
    BY DEF CallTypes, Items
  <1>1. /\ \A k \in DOMAIN delivered'[r] : delivered'[r][k].n = k
    BY DEF OutputInv
  <1>2. ASSUME NEW k \in DOMAIN queue'[r]
        PROVE  /\ queue'[r][k].type = "output" => queue'[r][k].n = Len(delivered'[r]) + k
               /\ queue'[r][k].type # "output" => k = Len(queue'[r]) /\ r \notin registered'
    <2>1. CASE queue'[r] = <<None>>
      <3>1. k = 1 /\ queue'[r][k] = None /\ Len(queue'[r]) = 1
        BY <1>2, <2>1
      <3> QED
        BY <3>1, ItemsDiffer
    <2>2. CASE queue'[r] = Append(queue[r], Died)
      <3> DEFINE q == queue[r]
                 w == queue'[r]
      <3>1. /\ DOMAIN w = 1 .. Len(q) + 1 /\ Len(w) = Len(q) + 1 /\ Len(q) \in Nat
            /\ \A i \in 1 .. Len(q) : w[i] = q[i] /\ i \in DOMAIN q
            /\ w[Len(q) + 1] = Died
        BY <1>0, <2>2, AppendFacts
      <3>2. \A i \in DOMAIN q : q[i].type = "output" /\ q[i].n = Len(delivered[r]) + i
        BY DEF OutputInv
      <3> HIDE DEF q, w
      <3>3. k = Len(q) + 1 \/ k \in 1 .. Len(q)
        BY <1>2, <3>1 DEF w
      <3>4. CASE k = Len(q) + 1
        BY <3>1, <3>4, ItemsDiffer DEF w
      <3>5. CASE k \in 1 .. Len(q)
        BY <3>1, <3>2, <3>5 DEF w
      <3> QED
        BY <3>3, <3>4, <3>5
    <2> QED
      BY <2>1, <2>2
  <1> QED
    BY <1>1, <1>2 DEF OutputInv

\* Every step keeps every request's outputs in order.
LEMMA StreamIsInvariant ==
    ClientTypes /\ ControlInv /\ EndInv /\ StreamInv /\ [Next]_vars => StreamInv'
  <1> SUFFICES ASSUME ClientTypes, ControlInv, EndInv, StreamInv, [Next]_vars, NEW r \in Requests
               PROVE  OutputInv(r)'
    BY DEF StreamInv
  <1> DEFINE Goal == OutputInv(r)'
             Same == \A next, top \in Nat :
                        /\ Gapless(output, r, next, top) => Gapless(output', r, next, top)
                        /\ Complete(output, r, next, top) => Complete(output', r, next, top)
             Still == delivered'[r] = delivered[r] /\ queue'[r] = queue[r] /\ produced'[r] = produced[r]
             Ends == r \in registered /\ r \notin registered' /\ delivered'[r] = delivered[r]
                     /\ queue'[r] \in {<<None>>, Append(queue[r], Died)}
  <1> USE DEF callVars, clientVars, engineVars
  <1>0. /\ PipeTypes /\ CallTypes /\ ControlTypes /\ LifeInv(r) /\ OutputInv(r)
        /\ queue[r] \in Seq(Items) /\ delivered[r] \in Seq(OutItems) /\ output \in Seq(EngineMessages)
        /\ produced[r] \in Nat /\ Awaited(r) \in Nat
    BY DEF ClientTypes, PipeTypes, ControlTypes, EndInv, StreamInv, CallTypes, Awaited
  <1>a. ASSUME Still, call'[r] = "new" => call[r] = "new", r \in registered' => r \in registered,
               engine' # "dead" => engine # "dead", Same,
               Places(output, r) = {} => Places(output', r) = {}
        PROVE  Goal
    BY <1>0, <1>a, OutputsStay
  <1>b. ASSUME Still, call'[r] = "new" => call[r] = "new", r \in registered' => r \in registered,
               engine' # "dead" => engine # "dead", output' = output
        PROVE  Goal
    BY <1>a, <1>b
  <1>c. ASSUME Ends, call'[r] # "new" PROVE Goal
    BY <1>0, <1>c, OutputsEnd
  <1>d. r \in registered => call[r] # "new"
    BY <1>0 DEF LifeInv
  <1>e. ASSUME call' = call, registered' \subseteq registered, engine' = engine,
               FailRequests \/ MarkDead, delivered' = delivered, produced' = produced,
               Same, Places(output, r) = {} => Places(output', r) = {}
        PROVE  Goal
    <2>1. \/ queue'[r] = queue[r]
          \/ r \in registered /\ r \notin registered' /\ queue'[r] = Append(queue[r], Died)
      BY <1>0, <1>e, FailFacts, DeadFacts
    <2>2. CASE queue'[r] = queue[r]
      BY <1>a, <1>e, <2>2
    <2>3. CASE r \in registered /\ r \notin registered' /\ queue'[r] = Append(queue[r], Died)
      BY <1>c, <1>d, <1>e, <2>3
    <2> QED
      BY <2>1, <2>2, <2>3
  <1> HIDE DEF Goal
  <1>1. ASSUME NEW s \in Requests, Start(s) PROVE Goal
    <2>1. Still /\ output' = output /\ engine' = engine
      BY <1>1 DEF Start
    <2>2. CASE s # r \/ ~Alive
      <3>1. /\ call'[r] = "new" => call[r] = "new"
            /\ r \in registered' => r \in registered
        BY <1>0, <1>1, <2>2 DEF Start, SetCall, CallTypes
      <3> QED
        BY <1>b, <2>1, <3>1
    <2>3. CASE s = r /\ Alive
      <3>1. call[r] = "new" /\ call'[r] = "sending"
        BY <1>0, <1>1, <2>3 DEF Start, SetCall, CallTypes
      <3>2. produced[r] = 0 /\ Places(output, r) = {} /\ queue[r] = <<>> /\ delivered[r] = <<>>
        BY <1>0, <3>1 DEF OutputInv
      <3>3. Awaited(r)' = 1 /\ produced'[r] = 0
        BY <2>1, <3>2 DEF Awaited
      <3>4. Gapless(output', r, 1, 0) /\ Complete(output', r, 1, 0)
        BY <2>1, <3>2 DEF Gapless, Complete
      <3>5. DOMAIN queue'[r] = {} /\ DOMAIN delivered'[r] = {}
        BY <2>1, <3>2
      <3> QED
        BY <3>1, <3>3, <3>4, <3>5 DEF OutputInv, Goal
    <2> QED
      BY <2>2, <2>3
  <1>2. ASSUME NEW s \in Requests, FinishSend(s) \/ FinishAbort(s) \/ WithdrawAbort(s) PROVE Goal
    <2>1. Still /\ output' = output /\ engine' = engine /\ registered' = registered
      BY <1>2 DEF FinishSend, FinishAbort, WithdrawAbort
    <2>2. call'[r] = "new" => call[r] = "new"
      BY <1>0, <1>2 DEF FinishSend, FinishAbort, WithdrawAbort, SetCall, CallTypes
    <2> QED
      BY <1>b, <2>1, <2>2
  <1>3. ASSUME NEW s \in Requests, Cancel(s) \/ AbortByOther(s) PROVE Goal
    <2>1. /\ delivered' = delivered /\ produced' = produced /\ output' = output /\ engine' = engine
          /\ registered' = registered \ {s}
          /\ queue' = queue \/ queue' = [queue EXCEPT ![s] = <<None>>]
          /\ s \notin registered => queue' = queue
          /\ s \in registered => queue' = [queue EXCEPT ![s] = <<None>>]
      BY <1>3 DEF Cancel, AbortByOther
    <2>2. call'[r] = "new" => call[r] = "new"
      BY <1>0, <1>3 DEF Cancel, AbortByOther, SetCall, CallTypes
    <2>3. CASE s = r /\ r \in registered
      <3>1. Ends
        BY <1>0, <2>1, <2>3 DEF CallTypes
      <3> QED
        BY <1>c, <1>d, <2>2, <2>3, <3>1
    <2>4. CASE ~(s = r /\ r \in registered)
      <3>1. Still
        BY <1>0, <2>1, <2>4 DEF CallTypes
      <3> QED
        BY <1>b, <2>1, <2>2, <3>1
    <2> QED
      BY <2>3, <2>4
  <1>4. ASSUME NEW s \in Requests, Get(s) PROVE Goal
    <2>1. /\ produced' = produced /\ output' = output /\ engine' = engine
          /\ call[s] = "streaming" /\ call'[s] \in {"died", "aborted", "finished", "streaming"}
          /\ \A t \in Requests : t # s => call'[t] = call[t]
          /\ registered' = registered \/ registered' = registered \ {s}
      BY <1>0, <1>4 DEF Get, SetCall, CallTypes
    <2>2. CASE s # r
      <3>1. Still
        BY <1>0, <1>4, <2>1, <2>2 DEF Get, CallTypes
      <3> QED
        BY <1>b, <2>1, <2>2, <3>1
    <2>3. CASE s = r
      <3> DEFINE item == Head(queue[r])
                 q == queue[r]
                 w == queue'[r]
                 n == Len(delivered[r])
      <3>1. queue[r] # <<>> /\ queue'[r] = Tail(queue[r])
        BY <1>0, <1>4, <2>3 DEF Get, CallTypes
      <3>2. /\ item = q[1] /\ item \in Items /\ Len(q) \in Nat \ {0} /\ n \in Nat
            /\ Len(w) = Len(q) - 1 /\ w \in Seq(Items) /\ \A i \in 1 .. Len(q) - 1 : w[i] = q[i + 1]
        BY <1>0, <3>1, TailFacts
      <3>3. DOMAIN w = 1 .. Len(q) - 1 /\ DOMAIN q = 1 .. Len(q)
            /\ \A i \in 1 .. Len(q) - 1 : i + 1 \in 1 .. Len(q) /\ i \in Nat
            /\ 1 \in 1 .. Len(q)
        BY <1>0, <3>2
      <3>4. \A k \in 1 .. Len(q) :
              /\ q[k].type = "output" => q[k].n = n + k
              /\ q[k].type # "output" => k = Len(q) /\ r \notin registered
        BY <1>0, <3>3 DEF OutputInv
      <3> HIDE DEF item, q, w, n
      <3>5. \A k \in 1 .. Len(q) - 1 :
              /\ w[k].type = "output" => w[k].n = n + (k + 1)
              /\ w[k].type # "output" => k + 1 = Len(q) /\ r \notin registered
        <4> TAKE k \in 1 .. Len(q) - 1
        <4>1. w[k] = q[k + 1] /\ k + 1 \in 1 .. Len(q)
          BY <3>2, <3>3
        <4> QED
          BY <3>4, <4>1
      <3>6. CASE item \in {Died, None}
        <4>1. item.type # "output"
          BY <3>6, ItemsDiffer
        <4>2. 1 = Len(q) /\ r \notin registered
          BY <3>2, <3>3, <3>4, <4>1
        <4>3. DOMAIN w = {}
          <5>1. Len(q) - 1 = 0 /\ 1 .. 0 = {}
            BY <4>2
          <5> QED
            BY <3>3, <5>1
        <4>4. delivered' = delivered /\ registered' = registered /\ call'[r] # "new"
          BY <1>4, <2>1, <2>3, <3>6 DEF Get, item
        <4>5. \A k \in DOMAIN delivered[r] : delivered[r][k].n = k
          BY <1>0 DEF OutputInv
        <4>6. DOMAIN queue'[r] = {}
          BY <4>3 DEF w
        <4> QED
          BY <4>2, <4>4, <4>5, <4>6 DEF OutputInv, Goal
      <3>7. CASE item \notin {Died, None}
        <4>1. /\ delivered'[r] = Append(delivered[r], item)
              /\ item \in OutItems /\ item.type = "output"
          BY <1>0, <1>4, <2>3, <3>2, <3>7, ItemsDiffer DEF Get, CallTypes, Items, item
        <4> DEFINE d == delivered[r]
                   e == delivered'[r]
        <4>2. /\ Len(e) = n + 1 /\ DOMAIN e = 1 .. n + 1 /\ DOMAIN d = 1 .. n
              /\ \A k \in 1 .. n : e[k] = d[k] /\ e[n + 1] = item
              /\ e[n + 1] = item
          BY <1>0, <4>1, AppendFacts DEF n
        <4>3. \A k \in 1 .. n : d[k].n = k
          BY <1>0, <4>2 DEF OutputInv
        <4>4. item.n = n + 1
          BY <3>2, <3>3, <3>4, <4>1
        <4> HIDE DEF d, e
        <4>5. \A k \in DOMAIN e : e[k].n = k
          <5>1. \A k \in 1 .. n + 1 : k = n + 1 \/ k \in 1 .. n
            BY <3>2
          <5> QED
            BY <4>2, <4>3, <4>4, <5>1
        <4>6. ASSUME NEW k \in DOMAIN w
              PROVE  /\ w[k].type = "output" => w[k].n = Len(e) + k
                     /\ w[k].type # "output" => k = Len(w) /\ r \notin registered'
          <5>1. k \in 1 .. Len(q) - 1 /\ n + (k + 1) = Len(e) + k
            BY <3>2, <3>3, <4>2
          <5>2. k + 1 = Len(q) => k = Len(w)
            BY <3>2, <5>1
          <5>3. r \notin registered => r \notin registered'
            BY <2>1
          <5> QED
            BY <3>5, <5>1, <5>2, <5>3
        <4>7. Awaited(r)' = Awaited(r)
          <5>1. Awaited(r) = n + Len(q) + 1
            BY DEF Awaited, n, q
          <5>2. Awaited(r)' = Len(e) + Len(w) + 1
            BY DEF Awaited, e, w
          <5> QED
            BY <3>2, <4>2, <5>1, <5>2
        <4>8. r \in registered' =>
                /\ Awaited(r) <= produced[r] + 1
                /\ Gapless(output, r, Awaited(r), produced[r])
                /\ engine # "dead" => Complete(output, r, Awaited(r), produced[r])
          BY <1>0, <2>1 DEF OutputInv
        <4>9. call'[r] # "new"
          BY <2>1, <2>3
        <4>10. /\ \A k \in DOMAIN delivered'[r] : delivered'[r][k].n = k
               /\ \A k \in DOMAIN queue'[r] :
                     /\ queue'[r][k].type = "output" => queue'[r][k].n = Len(delivered'[r]) + k
                     /\ queue'[r][k].type # "output" => k = Len(queue'[r]) /\ r \notin registered'
          BY <4>5, <4>6 DEF e, w
        <4> QED
          BY <2>1, <4>7, <4>8, <4>9, <4>10 DEF OutputInv, Goal
      <3> QED
        BY <3>6, <3>7
    <2> QED
      BY <2>2, <2>3
  <1>f. ASSUME output # <<>>, output' = Tail(output),
               Head(output).type = "OUTPUTS" => r \notin DOMAIN Head(output).entries
        PROVE  /\ Places(output, r) = {} => Places(output', r) = {}
               /\ Same
    BY <1>0, <1>f, TakenByReader
  <1>5. ASSUME ReadReady PROVE Goal
    <2>1. output # <<>> /\ output' = Tail(output) /\ Head(output).type # "OUTPUTS"
      BY <1>5, EngineMessageFacts DEF Arrived, ReadReady
    <2> QED
      BY <1>5, <1>a, <1>f, <2>1 DEF ReadReady
  <1>6. ASSUME ReadOutputs PROVE Goal
    <2> DEFINE m == Head(output)
    <2>1. /\ output # <<>> /\ output' = Tail(output) /\ m.type = "OUTPUTS"
          /\ call' = call /\ delivered' = delivered /\ registered' = registered
          /\ engine' = engine /\ produced' = produced
          /\ queue'[r] = IF r \in DOMAIN m.entries /\ r \in registered
                         THEN Append(queue[r], m.entries[r]) ELSE queue[r]
      BY <1>6 DEF Arrived, ReadOutputs, Receivers
    <2>2. m \in EngineMessages
      BY <1>0, <2>1, TailFacts
    <2>3. CASE r \notin DOMAIN m.entries
      BY <1>a, <1>f, <2>1, <2>3
    <2>4. CASE r \notin registered
      <3>1. Places(output, r) = {} => Places(output', r) = {}
        BY <1>0, <2>1, TakenByReader
      <3>2. Still
        BY <2>1, <2>4
      <3> HIDE DEF m
      <3>3. call'[r] = "new" => Places(output, r)' = {} /\ produced'[r] = 0
                                /\ queue'[r] = <<>> /\ delivered'[r] = <<>>
        BY <1>0, <2>1, <3>1, <3>2 DEF OutputInv
      <3>4. /\ \A k \in DOMAIN delivered'[r] : delivered'[r][k].n = k
            /\ \A k \in DOMAIN queue'[r] :
                  /\ queue'[r][k].type = "output" => queue'[r][k].n = Len(delivered'[r]) + k
                  /\ queue'[r][k].type # "output" => k = Len(queue'[r]) /\ r \notin registered'
        BY <1>0, <2>1, <3>2 DEF OutputInv
      <3> QED
        BY <2>1, <2>4, <3>3, <3>4 DEF OutputInv, Goal
    <2>5. CASE r \in DOMAIN m.entries /\ r \in registered
      <3> DEFINE q == queue[r]
                 w == queue'[r]
                 n == Len(delivered[r])
                 item == m.entries[r]
                 next == Awaited(r)
                 top == produced[r]
      <3>1. /\ next <= top + 1 /\ Gapless(output, r, next, top)
            /\ engine # "dead" => Complete(output, r, next, top)
        BY <1>0, <2>5 DEF OutputInv
      <3>2. 1 \in Places(output, r)
        BY <1>0, <2>1, <2>5, TakenByReader
      <3>3. /\ item.n = next /\ next <= top
            /\ Gapless(output', r, next + 1, top)
            /\ engine # "dead" => Complete(output', r, next + 1, top)
        BY <1>0, <2>1, <3>1, <3>2, TakenByReader
      <3>4. item \in OutItems /\ item \in Items /\ item.type = "output"
        BY <2>1, <2>2, <2>5, EngineMessageFacts, ItemsDiffer DEF Items
      <3>5. w = Append(q, item)
        BY <2>1, <2>5
      <3>6. /\ Len(w) = Len(q) + 1 /\ DOMAIN w = 1 .. Len(q) + 1 /\ w[Len(q) + 1] = item
            /\ \A i \in 1 .. Len(q) : w[i] = q[i]
            /\ Len(q) \in Nat /\ n \in Nat /\ DOMAIN q = 1 .. Len(q)
        BY <1>0, <3>4, <3>5, AppendFacts
      <3>7. \A i \in DOMAIN q : q[i].type = "output" /\ q[i].n = n + i
        BY <1>0, <2>5 DEF OutputInv
      <3>8. next = n + (Len(q) + 1)
        <4>1. \A a, b \in Nat : (a + b) + 1 = a + (b + 1)
          OBVIOUS
        <4>2. Len(q) \in Nat /\ n \in Nat
          BY <3>6
        <4> QED
          BY <4>1, <4>2 DEF Awaited
      <3> HIDE DEF m, item, q, w, n, next, top
      <3>9. \A i \in DOMAIN w : w[i].type = "output" /\ w[i].n = n + i
        <4>1. \A i \in 1 .. Len(q) + 1 : i = Len(q) + 1 \/ i \in 1 .. Len(q)
          BY <3>6
        <4> QED
          BY <3>3, <3>4, <3>6, <3>7, <3>8, <4>1
      <3>10. Awaited(r)' = next + 1 /\ next + 1 <= top + 1
        <4>1. Awaited(r)' = n + Len(w) + 1
          BY <2>1 DEF Awaited, n, w
        <4>2. next \in Nat /\ top \in Nat
          BY <1>0 DEF next, top
        <4> QED
          BY <3>3, <3>6, <3>8, <4>1, <4>2
      <3>11. r \in registered' =>
               /\ Awaited(r)' <= produced'[r] + 1
               /\ Gapless(output', r, Awaited(r)', produced'[r])
               /\ engine' # "dead" => Complete(output', r, Awaited(r)', produced'[r])
        BY <2>1, <3>3, <3>10 DEF top
      <3>12. call'[r] # "new"
        BY <1>d, <2>1, <2>5
      <3>13. /\ \A k \in DOMAIN delivered'[r] : delivered'[r][k].n = k
             /\ \A k \in DOMAIN queue'[r] :
                   /\ queue'[r][k].type = "output" => queue'[r][k].n = Len(delivered'[r]) + k
                   /\ queue'[r][k].type # "output" => k = Len(queue'[r]) /\ r \notin registered'
        BY <1>0, <2>1, <3>9 DEF OutputInv, w, n
      <3> QED
        BY <3>11, <3>12, <3>13 DEF OutputInv, Goal
    <2> QED
      BY <2>3, <2>4, <2>5
  <1>7. ASSUME ReaderFails PROVE Goal
    <2>1. output # <<>> /\ output' = Tail(output)
      BY <1>7 DEF Arrived, ReaderFails
    <2>2. /\ call' = call /\ delivered' = delivered /\ produced' = produced /\ engine' = engine
          /\ MarkDead
      BY <1>7 DEF ReaderFails
    <2>3. Places(output, r) = {} => Places(output', r) = {}
      BY <1>0, <2>1, TakenByReader
    <2>4. registered' = {}
      BY <1>0, <2>2, DeadFacts DEF ControlInv
    <2>5. \/ queue'[r] = queue[r]
          \/ r \in registered /\ queue'[r] = Append(queue[r], Died)
      BY <1>0, <2>2, FailFacts, DeadFacts
    <2>6. CASE r \in registered /\ queue'[r] = Append(queue[r], Died)
      BY <1>c, <1>d, <2>2, <2>4, <2>6
    <2>7. CASE queue'[r] = queue[r]
      <3>1. /\ \A k \in DOMAIN delivered'[r] : delivered'[r][k].n = k
            /\ \A k \in DOMAIN queue'[r] :
                  /\ queue'[r][k].type = "output" => queue'[r][k].n = Len(delivered'[r]) + k
                  /\ queue'[r][k].type # "output" => k = Len(queue'[r]) /\ r \notin registered'
        BY <1>0, <2>2, <2>4, <2>7 DEF OutputInv
      <3>2. call'[r] = "new" => Places(output, r)' = {} /\ produced'[r] = 0
                                /\ queue'[r] = <<>> /\ delivered'[r] = <<>>
        BY <1>0, <2>2, <2>3, <2>7 DEF OutputInv
      <3> QED
        BY <2>4, <3>1, <3>2 DEF OutputInv, Goal
    <2> QED
      BY <2>5, <2>6, <2>7
  <1>8. ASSUME OnExit PROVE Goal
    <2>1. /\ call' = call /\ delivered' = delivered /\ produced' = produced /\ engine' = engine
          /\ output' = output
          /\ MarkDead \/ UNCHANGED <<registered, queue>>
      BY <1>8 DEF OnExit
    <2>2. CASE MarkDead
      <3>1. registered' \subseteq registered
        BY <1>0, <2>2, DeadFacts
      <3> QED
        BY <1>e, <2>1, <2>2, <3>1
    <2>3. CASE UNCHANGED <<registered, queue>>
      BY <1>b, <2>1, <2>3
    <2> QED
      BY <2>1, <2>2, <2>3
  <1>9. ASSUME Close PROVE Goal
    <2>1. /\ call' = call /\ delivered' = delivered /\ produced' = produced /\ engine' = engine
          /\ output' = output /\ FailRequests
      BY <1>9 DEF Close
    <2>2. registered' \subseteq registered
      BY <1>0, <2>1, FailFacts
    <2> QED
      BY <1>e, <2>1, <2>2
  <1>10. ASSUME CloseTimeout \/ EngineCrashes PROVE Goal
    <2>1. EngineEnds /\ Still /\ call' = call /\ registered' = registered
      BY <1>10 DEF CloseTimeout, EngineCrashes, EngineEnds
    <2>2. /\ output' \in Seq(EngineMessages) /\ engine' = "dead"
          /\ \A i \in 1 .. Len(output') : output'[i] = output[i] /\ i \in 1 .. Len(output)
      BY <1>0, <2>1, EngineEndsFacts
    <2>3. /\ \A next, top : Gapless(output, r, next, top) => Gapless(output', r, next, top)
          /\ Places(output', r) \subseteq Places(output, r)
      BY <1>0, <2>2, PrefixGapless
    <2> QED
      BY <1>0, <2>1, <2>2, <2>3, OutputsStay DEF Goal
  <1>11. ASSUME TearDown PROVE Goal
    <2>1. Still /\ output' = output /\ engine' = engine /\ registered' = registered
      BY <1>11 DEF TearDown
    <2>2. call'[r] = "new" => call[r] = "new"
      BY <1>0, <1>11 DEF TearDown, CallTypes
    <2> QED
      BY <1>b, <2>1, <2>2
  <1>12. ASSUME Transmit PROVE Goal
    BY <1>12, <1>b DEF Transmit
  <1>13. ASSUME EngineReady \/ EngineGarbles PROVE Goal
    <2>1. PICK m \in {Ready, Bad} : output' = Append(output, m)
      BY <1>13 DEF EngineReady, EngineGarbles, EngineSend
    <2>2. Same /\ Places(output', r) = Places(output, r)
      <3>1. m \in EngineMessages /\ m.type # "OUTPUTS"
        BY EngineMessageFacts
      <3> QED
        BY <1>0, <2>1, <3>1, SentToOthers
    <2>3. Still /\ call' = call /\ registered' = registered /\ engine # "dead"
      BY <1>13 DEF EngineReady, EngineGarbles
    <2> QED
      BY <1>a, <2>2, <2>3
  <1>14. ASSUME EngineReceive \/ EngineExits PROVE Goal
    <2>1. Still /\ call' = call /\ registered' = registered /\ output' = output /\ engine # "dead"
      BY <1>14 DEF EngineReceive, EngineExits
    <2> QED
      BY <1>b, <2>1
  <1>15. ASSUME NEW batch \in SUBSET serving, NEW done \in SUBSET batch, EngineStep(batch, done)
         PROVE  Goal
    <2> DEFINE e == [s \in batch |-> Out(produced[s] + 1, s \in done)]
    <2>1. /\ call' = call /\ queue' = queue /\ delivered' = delivered
          /\ registered' = registered /\ engine' = engine /\ engine # "dead"
          /\ output' = Append(output, Outputs(e))
          /\ produced'[r] = IF r \in batch THEN produced[r] + 1 ELSE produced[r]
      BY <1>15 DEF EngineStep, EngineSend
    <2>2. e \in [batch -> OutItems] /\ batch \in SUBSET Requests
      <3>1. \A s \in batch : produced[s] + 1 \in Nat /\ s \in Requests
        BY <1>0 DEF ControlTypes
      <3> QED
        BY <3>1 DEF Out, OutItems
    <2>3. e \in Entries
      BY <2>2 DEF Entries
    <2>4. DOMAIN e = batch /\ (r \in batch => e[r].n = produced[r] + 1)
      BY DEF Out
    <2> HIDE DEF e
    <2> DEFINE m == Outputs(e)
    <2>5. m \in EngineMessages /\ m.type = "OUTPUTS" /\ m.entries = e
      BY <2>3, EngineMessageFacts
    <2> HIDE DEF m
    <2>6. output' = Append(output, m)
      BY <2>1 DEF m
    <2>7. CASE r \notin batch
      <3>1. Same /\ Places(output', r) = Places(output, r)
        BY <1>0, <2>4, <2>5, <2>6, <2>7, SentToOthers
      <3> QED
        BY <1>a, <2>1, <2>7, <3>1
    <2>8. CASE r \in batch
      <3>1. call[r] # "new"
        BY <1>0, <2>8 DEF LifeInv, Through
      <3>2. Awaited(r)' = Awaited(r) /\ produced'[r] = produced[r] + 1
        BY <2>1, <2>8 DEF Awaited
      <3>3. ASSUME r \in registered
            PROVE  /\ Awaited(r)' <= produced'[r] + 1
                   /\ Gapless(output', r, Awaited(r)', produced'[r])
                   /\ Complete(output', r, Awaited(r)', produced'[r])
        <4>1. /\ Awaited(r) <= produced[r] + 1
              /\ Gapless(output, r, Awaited(r), produced[r])
              /\ Complete(output, r, Awaited(r), produced[r])
          BY <1>0, <2>1, <3>3 DEF OutputInv
        <4>2. /\ Gapless(output', r, Awaited(r), produced[r] + 1)
              /\ Complete(output', r, Awaited(r), produced[r] + 1)
          BY <1>0, <2>4, <2>5, <2>6, <2>8, <4>1, SentToRequest
        <4>3. Awaited(r) <= (produced[r] + 1) + 1
          BY <1>0, <4>1
        <4> QED
          BY <3>2, <4>2, <4>3
      <3>4. /\ \A k \in DOMAIN delivered'[r] : delivered'[r][k].n = k
            /\ \A k \in DOMAIN queue'[r] :
                  /\ queue'[r][k].type = "output" => queue'[r][k].n = Len(delivered'[r]) + k
                  /\ queue'[r][k].type # "output" => k = Len(queue'[r]) /\ r \notin registered'
        BY <1>0, <2>1 DEF OutputInv
      <3> QED
        BY <2>1, <3>1, <3>3, <3>4 DEF OutputInv, Goal
    <2> QED
      BY <2>7, <2>8
  <1>16. ASSUME UNCHANGED vars PROVE Goal
    BY <1>16, <1>b DEF vars
  <1>17. Goal
    BY <1>1, <1>2, <1>3, <1>4, <1>5, <1>6, <1>7, <1>8, <1>9, <1>10, <1>11, <1>12, <1>13,
       <1>14, <1>15, <1>16 DEF Next, ClientStep, UserStep, EngineProgress
  <1> QED
    BY <1>17 DEF Goal

\* generate() yields the engine's outputs in order, none lost, none twice.
THEOREM ClientLosesOrRepeatsNothing == Spec => []NothingLostOrRepeated
  <1>1. ASSUME ClientTypes, StreamInv PROVE NothingLostOrRepeated
    <2> SUFFICES ASSUME NEW r \in Requests
                 PROVE  /\ \A k \in DOMAIN delivered[r] : delivered[r][k].n = k
                        /\ \A k \in DOMAIN queue[r] :
                              queue[r][k].type = "output" => queue[r][k].n = Len(delivered[r]) + k
                        /\ r \in registered /\ engine # "dead" =>
                              /\ \A i, j \in InPipe(r) : i < j => Number(r, i) < Number(r, j)
                              /\ {Number(r, i) : i \in InPipe(r)} = Awaited(r) .. produced[r]
      BY DEF NothingLostOrRepeated, Awaited
    <2>1. /\ OutputInv(r) /\ output \in Seq(EngineMessages)
          /\ produced[r] \in Nat /\ Awaited(r) \in Nat
      BY <1>1 DEF StreamInv, ClientTypes, PipeTypes, CallTypes, ControlTypes, Awaited
    <2>2. InPipe(r) = Places(output, r) /\ \A i : Number(r, i) = NumberAt(output, r, i)
      BY <2>1 DEF InPipe, Places, Number, NumberAt
    <2>3. ASSUME r \in registered, engine # "dead"
          PROVE  /\ \A i, j \in InPipe(r) : i < j => Number(r, i) < Number(r, j)
                 /\ {Number(r, i) : i \in InPipe(r)} = Awaited(r) .. produced[r]
      <3>1. /\ Gapless(output, r, Awaited(r), produced[r])
            /\ Complete(output, r, Awaited(r), produced[r])
        BY <2>1, <2>3 DEF OutputInv
      <3>2. ASSUME NEW i \in Places(output, r) PROVE NumberAt(output, r, i) \in Awaited(r) .. produced[r]
        BY <2>1, <3>1, PlacesFacts DEF Gapless
      <3>3. \A v \in Awaited(r) .. produced[r] :
               \E i \in Places(output, r) : NumberAt(output, r, i) = v
        BY <3>1 DEF Complete
      <3>4. {Number(r, i) : i \in InPipe(r)} = Awaited(r) .. produced[r]
        BY <2>2, <3>2, <3>3
      <3> QED
        BY <2>2, <3>1, <3>4 DEF Gapless
    <2> QED
      BY <2>1, <2>3 DEF OutputInv
  <1> QED
    BY <1>1, InitTypes, TypesAreInvariant, InitControl, ControlIsInvariant, InitEnd, EndIsInvariant,
       InitStream, StreamIsInvariant, PTL DEF Spec

-----------------------------------------------------------------------------
(***************************************************************************)
(* The server.                                                             *)
(***************************************************************************)

-----------------------------------------------------------------------------
(* What the client's state says of one call *)

\* A call the client knows has begun and not ended; an ADD that waits is its
\* call's, which waits for it, and it is the only one.
CallInv(r) ==
    /\ r \in registered => call[r] \in {"sending", "streaming"}
    /\ Add(r) \in Elements(sends) => call[r] = "sending"
    /\ Once(sends, Add(r))

\* A dead process serves nobody.
KnownInv ==
    /\ engine = "dead" => serving = {}
    /\ \A r \in Requests : CallInv(r)

\* The client's own invariants, which its proofs keep.
ClientInv == ClientTypes /\ ControlInv /\ EndInv /\ StreamInv /\ NoOrphans

\* They hold in the server as well, because its steps are the client's.
LEMMA InitClient == Init => ClientInv
  <1>1. Init => NoOrphans
    <2> SUFFICES ASSUME Init PROVE NoOrphans
      OBVIOUS
    <2>1. Outbound = <<>> /\ serving = {}
      BY EmptySeq, ConcatEmptySeq DEF Init, Outbound
    <2> QED
      BY <2>1 DEF NoOrphans
  <1> QED
    BY <1>1, InitTypes, InitControl, InitEnd, InitStream DEF ClientInv

LEMMA ClientIsInvariant == ClientInv /\ [Next]_vars => ClientInv'
  BY TypesAreInvariant, ControlIsInvariant, EndIsInvariant, StreamIsInvariant, NoOrphansStep
     DEF ClientInv

\* A handler, and the rest of the server, only does what the client lets any
\* of its users do.
LEMMA HandlersUseClient ==
    ASSUME NEW r \in Requests, Handler(r)
    PROVE  [Next]_vars
  <1> USE DEF Next, ClientStep, UserStep
  <1>1. CASE Accept(r)
    BY <1>1 DEF Accept
  <1>2. CASE Open(r)
    BY <1>2 DEF Open, BeginStream
  <1>3. CASE RequestSent(r) \/ TakeOutput(r)
    BY <1>3 DEF RequestSent, TakeOutput
  <1>4. CASE Write(r)
    BY <1>4 DEF Write, BeginStream
  <1>5. CASE Disconnect(r) \/ CancelHandler(r) \/ SendCancelled(r)
    BY <1>5 DEF Disconnect, CancelHandler, SendCancelled, Interrupt, CloseOutputs
  <1>6. CASE EndHandler(r)
    BY <1>6 DEF EndHandler
  <1> QED
    BY <1>1, <1>2, <1>3, <1>4, <1>5, <1>6 DEF Handler

LEMMA StepsUseClient == [ServerNext]_all => [Next]_vars
  <1> SUFFICES ASSUME [ServerNext]_all PROVE [Next]_vars
    OBVIOUS
  <1>1. CASE \E r \in Requests : Handler(r)
    BY <1>1, HandlersUseClient
  <1>2. CASE Serve \/ StartFails \/ Signal \/ Watchdog \/ Drained \/ DrainTimeout \/ Exit
    BY <1>2 DEF Serve, StartFails, Signal, Watchdog, Drained, DrainTimeout, Exit
  <1>3. CASE CloseEngine
    BY <1>3 DEF CloseEngine, Next, UserStep
  <1>4. CASE Background
    BY <1>4 DEF Background, Next, ClientStep
  <1>5. CASE Elsewhere
    BY <1>5 DEF Elsewhere, Next
  <1>6. CASE UNCHANGED all
    BY <1>6 DEF all
  <1> QED
    BY <1>1, <1>2, <1>3, <1>4, <1>5, <1>6 DEF ServerNext

\* Seen from the client, the server is one of its users: whatever holds of
\* every use of the client holds in the server.
THEOREM ServerUsesClient == ServerSpec => Spec
  <1>1. ServerInit => Init
    BY DEF ServerInit
  <1> QED
    BY <1>1, StepsUseClient, PTL DEF ServerSpec, Spec

\* What a send does to the sends that wait, for the ADD of r.
LEMMA AddsWaiting ==
    ASSUME PipeTypes, NEW r \in Requests, NEW m \in Sends, NEW p \in Seq(Sends),
           Once(p, Add(r)), m = Add(r) => Add(r) \notin Elements(p),
           SendAfter(p, m)
    PROVE  /\ Once(sends', Add(r))
           /\ Add(r) \in Elements(sends') => Add(r) \in Elements(p) \/ m = Add(r)
  <1>1. Once(Append(p, m), Add(r)) /\ Elements(Append(p, m)) = Elements(p) \cup {m}
    BY AppendFacts, SendFacts
  <1> QED
    BY <1>1 DEF SendAfter

\* To withdraw a send does not add one; the ADD of r occurs once at most.
LEMMA AddsWithdrawn ==
    ASSUME NEW r \in Requests, NEW m, NEW p \in Seq(Sends), Once(p, Add(r))
    PROVE  /\ Remove(p, m) \in Seq(Sends) /\ Once(Remove(p, m), Add(r))
           /\ Elements(Remove(p, m)) \subseteq Elements(p)
           /\ m = Add(r) => Add(r) \notin Elements(Remove(p, m))
  <1>1. CASE m \notin Elements(p)
    BY <1>1, RemoveFacts
  <1>2. CASE m \in Elements(p)
    <2>1. PICK k \in DOMAIN p : p[k] = m /\ Deleted(p, Remove(p, m), k)
      BY <1>2, RemoveFacts
    <2>2. Remove(p, m) \in Seq(Sends)
      BY RemoveFacts
    <2> QED
      BY <2>1, <2>2, DeletedFacts
  <1> QED
    BY <1>1, <1>2

\* What another's step may do to r: forget it, and withdraw or add sends that
\* are not its ADD.
LEMMA CallStays ==
    ASSUME NEW r \in Requests, CallInv(r), call'[r] = call[r],
           r \in registered' => r \in registered,
           Add(r) \in Elements(sends)' => Add(r) \in Elements(sends),
           Once(sends', Add(r))
    PROVE  CallInv(r)'
  BY DEF CallInv

LEMMA InitKnown == Init => KnownInv
  <1> SUFFICES ASSUME Init PROVE KnownInv
    OBVIOUS
  <1>1. sends = <<>> /\ registered = {} /\ serving = {}
    BY DEF Init
  <1> QED
    BY <1>1, ElementsOfEmpty DEF KnownInv, CallInv, Once

\* Every step keeps who is known.
LEMMA KnownIsInvariant == ClientInv /\ KnownInv /\ [Next]_vars => KnownInv'
  <1> SUFFICES ASSUME ClientInv, KnownInv, [Next]_vars PROVE KnownInv'
    OBVIOUS
  <1> USE DEF callVars, clientVars, engineVars
  <1>0. PipeTypes /\ CallTypes /\ ControlTypes /\ ControlInv
    BY DEF ClientInv, ClientTypes
  <1>1. engine' = "dead" => serving' = {}
    <2>1. CASE EngineEnds
      BY <2>1 DEF EngineEnds
    <2>2. CASE EngineReady \/ EngineReceive \/ EngineExits \/ EngineGarbles
      BY <2>2 DEF EngineReady, EngineReceive, EngineExits, EngineGarbles
    <2>3. ASSUME NEW batch, NEW done, EngineStep(batch, done) PROVE engine' # "dead"
      BY <2>3 DEF EngineStep
    <2>4. CASE UNCHANGED engineVars
      BY <2>4 DEF KnownInv
    <2>5. ClientStep \/ UserStep \/ Transmit \/ UNCHANGED vars => UNCHANGED engineVars
      BY DEF ClientStep, UserStep, Transmit, vars, Start, FinishSend, Get, Cancel, FinishAbort,
             AbortByOther, WithdrawAbort, ReadReady, ReadOutputs, ReaderFails, OnExit, Close, TearDown
    <2>6. CloseTimeout \/ EngineCrashes => EngineEnds
      BY DEF CloseTimeout, EngineCrashes
    <2> QED
      BY <2>1, <2>2, <2>3, <2>4, <2>5, <2>6 DEF Next, EngineProgress
  <1> SUFFICES ASSUME NEW r \in Requests PROVE CallInv(r)'
    BY <1>1 DEF KnownInv
  <1>2. /\ CallInv(r) /\ LifeInv(r) /\ OutputInv(r) /\ sends \in Seq(Sends)
        /\ \A s \in Requests : Add(s) \in Sends /\ Abort(s) \in Sends
        /\ Shutdown \in Sends
    BY <1>0, SendsAre DEF KnownInv, ClientInv, EndInv, StreamInv, PipeTypes
  <1>3. call[r] = "new" => r \notin registered /\ Add(r) \notin Elements(sends)
    BY <1>0, <1>2, OutboundFacts DEF LifeInv, Through
  <1>4. \A m \in Sends \ {Add(r)} : SendAfter(sends, m) =>
           /\ Add(r) \in Elements(sends)' => Add(r) \in Elements(sends)
           /\ Once(sends', Add(r))
    BY <1>0, <1>2, AddsWaiting DEF CallInv
  <1>5. \A m : sends' = Remove(sends, m) =>
           /\ Add(r) \in Elements(sends)' => Add(r) \in Elements(sends)
           /\ Once(sends', Add(r))
           /\ m = Add(r) => Add(r) \notin Elements(sends)'
    BY <1>2, AddsWithdrawn DEF CallInv
  <1>6. UNCHANGED sends =>
           /\ Add(r) \in Elements(sends)' => Add(r) \in Elements(sends)
           /\ Once(sends', Add(r))
    BY <1>2 DEF CallInv
  <1>11. ASSUME NEW s \in Requests, Start(s) PROVE CallInv(r)'
    <2>1. CASE s # r
      <3>1. Add(s) \in Sends \ {Add(r)}
        BY <1>2, <2>1, MessagesDiffer
      <3>2. call'[r] = call[r] /\ (r \in registered' => r \in registered)
        BY <1>0, <1>11, <2>1 DEF Start, SetCall, CallTypes
      <3> QED
        BY <1>2, <1>4, <1>6, <1>11, <3>1, <3>2, CallStays DEF Start
    <2>2. CASE s = r /\ Alive
      <3>1. /\ call[r] = "new" /\ SendAfter(sends, Add(r)) /\ call'[r] = "sending"
            /\ registered' = registered \cup {r}
        BY <1>0, <1>11, <2>2 DEF Start, SetCall, CallTypes
      <3>2. Once(sends', Add(r))
        BY <1>0, <1>2, <1>3, <3>1, AddsWaiting DEF CallInv
      <3> QED
        BY <3>1, <3>2 DEF CallInv
    <2>3. CASE s = r /\ ~Alive
      <3>1. call[r] = "new" /\ registered' = registered /\ sends' = sends
        BY <1>11, <2>3 DEF Start
      <3> QED
        BY <1>2, <1>3, <3>1 DEF CallInv
    <2> QED
      BY <2>1, <2>2, <2>3
  <1>12. ASSUME NEW s \in Requests, FinishSend(s) PROVE CallInv(r)'
    <2>1. CASE s # r
      <3>1. call'[r] = call[r] /\ registered' = registered
        BY <1>0, <1>12, <2>1 DEF FinishSend, SetCall, CallTypes
      <3> QED
        BY <1>2, <1>5, <1>6, <1>12, <3>1, CallStays DEF FinishSend
    <2>2. CASE s = r /\ error
      <3>1. registered' = {} /\ sends' = Remove(sends, Add(r))
        BY <1>0, <1>12, <2>2 DEF FinishSend, ControlInv
      <3> QED
        BY <1>5, <3>1 DEF CallInv
    <2>3. CASE s = r /\ ~error
      <3>1. sends' = sends /\ Add(r) \notin Elements(sends) /\ call'[r] = "streaming"
        BY <1>0, <1>12, <2>3 DEF FinishSend, SetCall, CallTypes
      <3> QED
        BY <1>2, <3>1 DEF CallInv
    <2> QED
      BY <2>1, <2>2, <2>3
  <1>13. ASSUME NEW s \in Requests, Get(s) PROVE CallInv(r)'
    <2> DEFINE item == Head(queue[s])
    <2>1. queue[s] \in Seq(Items) /\ queue[s] # <<>>
      BY <1>0, <1>13 DEF Get, CallTypes
    <2>2. item = queue[s][1] /\ item \in Items /\ 1 \in DOMAIN queue[s]
      BY <2>1, TailFacts, ElementsOf
    <2>3. /\ sends' = sends /\ call[s] = "streaming"
          /\ \/ item \in {Died, None} /\ registered' = registered
             \/ item \notin {Died, None} /\ item.last /\ registered' = registered \ {s}
             \/ item \notin {Died, None} /\ ~item.last /\ registered' = registered /\ SetCall(s, "streaming")
      BY <1>13, <2>2 DEF Get
    <2>4. CASE s # r
      <3>1. call'[r] = call[r]
        BY <1>0, <1>13, <2>4 DEF Get, SetCall, CallTypes
      <3> QED
        BY <1>2, <1>6, <2>3, <3>1, CallStays
    <2>5. CASE s = r
      <3>1. Add(r) \notin Elements(sends)
        BY <1>2, <2>3, <2>5 DEF CallInv
      <3>2. item \in {Died, None} => r \notin registered
        BY <1>2, <2>2, <2>5, ItemsDiffer DEF OutputInv
      <3>3. r \in registered' => call'[r] = "streaming"
        BY <1>0, <2>3, <2>5, <3>2 DEF SetCall, CallTypes
      <3> QED
        BY <1>2, <2>3, <3>1, <3>3 DEF CallInv
    <2> QED
      BY <2>4, <2>5
  <1>14. ASSUME NEW s \in Requests, Cancel(s) PROVE CallInv(r)'
    <2> DEFINE p == IF call[s] = "sending" THEN Remove(sends, Add(s)) ELSE sends
    <2>1. /\ p \in Seq(Sends) /\ Once(p, Add(r)) /\ Elements(p) \subseteq Elements(sends)
          /\ s = r => Add(r) \notin Elements(p)
      BY <1>2, <1>14, AddsWithdrawn DEF CallInv, Cancel
    <2>2. /\ SendAfter(p, Abort(s)) \/ sends' = p
          /\ registered' = registered \ {s}
          /\ s # r => call'[r] = call[r]
      BY <1>0, <1>14 DEF Cancel, SetCall, CallTypes
    <2> HIDE DEF p
    <2>3. Abort(s) # Add(r)
      BY MessagesDiffer
    <2>4. Once(sends', Add(r)) /\ (Add(r) \in Elements(sends)' => Add(r) \in Elements(p))
      BY <1>0, <1>2, <2>1, <2>2, <2>3, AddsWaiting
    <2> QED
      BY <1>2, <2>1, <2>2, <2>4 DEF CallInv
  <1>15. ASSUME NEW s \in Requests, FinishAbort(s) PROVE CallInv(r)'
    <2>1. /\ registered' = registered /\ call[s] = "aborting"
          /\ s # r => call'[r] = call[r]
      BY <1>0, <1>15 DEF FinishAbort, SetCall, CallTypes
    <2>2. Once(sends', Add(r)) /\ (Add(r) \in Elements(sends)' => Add(r) \in Elements(sends))
      BY <1>5, <1>6, <1>15 DEF FinishAbort
    <2> QED
      BY <1>2, <2>1, <2>2 DEF CallInv
  <1>16. ASSUME NEW s \in Requests, AbortByOther(s) \/ WithdrawAbort(s) PROVE CallInv(r)'
    <2>1. Abort(s) \in Sends \ {Add(r)}
      BY <1>2, MessagesDiffer
    <2>2. call' = call /\ registered' \subseteq registered
      BY <1>16 DEF AbortByOther, WithdrawAbort
    <2>3. Once(sends', Add(r)) /\ (Add(r) \in Elements(sends)' => Add(r) \in Elements(sends))
      BY <1>4, <1>5, <1>6, <1>16, <2>1 DEF AbortByOther, WithdrawAbort
    <2> QED
      BY <1>2, <2>2, <2>3, CallStays
  <1>17. ASSUME Close PROVE CallInv(r)'
    <2>1. Shutdown \in Sends \ {Add(r)}
      BY <1>2, MessagesDiffer
    <2>2. call' = call /\ registered' = {}
      BY <1>17 DEF Close, FailRequests
    <2>3. Once(sends', Add(r)) /\ (Add(r) \in Elements(sends)' => Add(r) \in Elements(sends))
      BY <1>4, <1>6, <1>17, <2>1 DEF Close
    <2> QED
      BY <1>2, <2>2, <2>3, CallStays
  <1>18. ASSUME TearDown PROVE CallInv(r)'
    <2>1. sends' = <<>> /\ registered' = {}
      BY <1>0, <1>18 DEF TearDown, MayTearDown, ControlInv
    <2> QED
      BY <2>1, ElementsOfEmpty DEF CallInv, Once
  <1>19. ASSUME CloseTimeout PROVE CallInv(r)'
    BY <1>2, <1>5, <1>19, CallStays DEF CloseTimeout
  <1>20. ASSUME Transmit PROVE CallInv(r)'
    <2>1. sends # <<>> /\ sends' = Tail(sends) /\ call' = call /\ registered' = registered
      BY <1>20 DEF Transmit
    <2>2. Tail(sends) \in Seq(Sends) /\ Deleted(sends, Tail(sends), 1)
      BY <1>2, <2>1, TailFacts
    <2>3. Elements(Tail(sends)) \subseteq Elements(sends) /\ Once(Tail(sends), Add(r))
      BY <1>2, <2>2, DeletedFacts DEF CallInv
    <2> QED
      BY <1>2, <2>1, <2>3, CallStays
  <1>21. ASSUME ReaderFails \/ OnExit PROVE CallInv(r)'
    <2>1. call' = call /\ sends' = sends /\ registered' \subseteq registered
      BY <1>21 DEF ReaderFails, OnExit, MarkDead, FailRequests
    <2> QED
      BY <1>2, <1>6, <2>1, CallStays
  <1>22. ASSUME call' = call /\ sends' = sends /\ registered' = registered PROVE CallInv(r)'
    BY <1>2, <1>6, <1>22, CallStays
  <1>23. \/ ReadReady \/ ReadOutputs \/ EngineReady \/ EngineReceive \/ EngineExits
         \/ EngineGarbles \/ EngineCrashes \/ UNCHANGED vars
         => call' = call /\ sends' = sends /\ registered' = registered
    BY DEF ReadReady, ReadOutputs, EngineReady, EngineReceive, EngineExits, EngineGarbles,
           EngineCrashes, vars
  <1>24. ASSUME NEW batch, NEW done, EngineStep(batch, done) PROVE CallInv(r)'
    BY <1>22, <1>24 DEF EngineStep
  <1> QED
    BY <1>11, <1>12, <1>13, <1>14, <1>15, <1>16, <1>17, <1>18, <1>19, <1>20, <1>21, <1>22, <1>23,
       <1>24 DEF Next, ClientStep, UserStep, EngineProgress

-----------------------------------------------------------------------------
(* What a handler has written, and will, at each place *)

Chunks == {"503", "200", "role", "text", "final", "usage", "error", "done"}
Stations == {"none", "opening", "writing", "waiting", "cleanup", "ended"}

HandlerTypes ==
    /\ http \in [Requests -> Stations]
    /\ pending \in [Requests -> Seq(Chunks)]
    /\ written \in [Requests -> Seq(Chunks)]
    /\ counted \in [Requests -> Nat]
    /\ broken \subseteq Requests

\* Counted in these chunks: the roles, texts, finish reasons, errors and ends of
\* a stream, which never is the answer that refuses.
Sent(w, role, text, final, errors, done) ==
    /\ Count("role", w) = role /\ Count("text", w) = text /\ Count("final", w) = final
    /\ Count("error", w) = errors /\ Count("done", w) = done
    /\ "503" \notin Elements(w)

Role(r) == IF body[r].kind = "chat" THEN 1 ELSE 0
SentSoFar(r, text, final, errors, done) == Sent(written[r], Role(r), text, final, errors, done)

Failed(r) == call[r] \in {"refused", "died"}

\* The handler has not asked the engine, nor written.
Fresh(r) ==
    /\ http[r] \in {"none", "opening"} /\ call[r] = "new" /\ written[r] = <<>>
    /\ http[r] = "opening" => Streamed(r)

\* It waits for the engine.
Awaiting(r) ==
    /\ http[r] = "waiting" /\ call[r] \in {"sending", "streaming", "cancelled"}
    /\ IF Streamed(r) THEN SentSoFar(r, Len(delivered[r]), 0, 0, 0) ELSE written[r] = <<>>

\* It writes an answer in one piece, or the first chunk of a chat.
WritingFirst(r) ==
    /\ http[r] = "writing" /\ written[r] = <<>>
    /\ \/ pending[r] = <<"503">> /\ call[r] = "new"
       \/ pending[r] = <<"503">> /\ call[r] = "died" /\ ~Streamed(r)
       \/ pending[r] = <<"200">> /\ call[r] = "finished" /\ ~Streamed(r)
       \/ pending[r] = <<"role">> /\ call[r] = "new" /\ body[r].kind = "chat"

\* It writes an output that is not the last.
WritingText(r) ==
    /\ http[r] = "writing" /\ pending[r] = <<"text">>
    /\ Streamed(r) /\ call[r] = "streaming" /\ delivered[r] # <<>>
    /\ SentSoFar(r, Len(delivered[r]) - 1, 0, 0, 0)

\* It ends a stream whose engine died.
WritingFailure(r) ==
    /\ http[r] = "writing" /\ Streamed(r) /\ Failed(r)
    /\ \/ pending[r] = <<"error", "done">> /\ SentSoFar(r, Len(delivered[r]), 0, 0, 0)
       \/ pending[r] = <<"done">> /\ SentSoFar(r, Len(delivered[r]), 0, 1, 0)

\* It ends a stream with the last output.
WritingEnd(r) ==
    /\ http[r] = "writing" /\ Streamed(r) /\ call[r] = "finished" /\ delivered[r] # <<>>
    /\ \/ /\ pending[r] = <<"final", "usage", "done">>
          /\ SentSoFar(r, Len(delivered[r]) - 1, 0, 0, 0)
       \/ pending[r] = <<"usage", "done">> /\ SentSoFar(r, Len(delivered[r]) - 1, 1, 0, 0)
       \/ pending[r] = <<"done">> /\ SentSoFar(r, Len(delivered[r]) - 1, 1, 0, 0)

\* Its client has been sent all of it.
Whole(r) ==
    /\ http[r] \in {"cleanup", "ended"}
    /\ \/ written[r] = <<"503">> /\ call[r] = "new"
       \/ written[r] = <<"503">> /\ call[r] = "died" /\ ~Streamed(r)
       \/ written[r] = <<"200">> /\ call[r] = "finished" /\ ~Streamed(r)
       \/ /\ Streamed(r) /\ written[r] # <<>> /\ written[r][Len(written[r])] = "done"
          /\ \/ Failed(r) /\ SentSoFar(r, Len(delivered[r]), 0, 1, 1)
             \/ /\ call[r] = "finished" /\ delivered[r] # <<>>
                /\ SentSoFar(r, Len(delivered[r]) - 1, 1, 0, 1)

\* It was torn off.
Broken(r) ==
    /\ r \in broken
    /\ \/ http[r] = "cleanup" /\ call[r] \in Ended \cup {"new", "aborting"}
       \/ http[r] = "ended" /\ call[r] \in Ended \cup {"new"}

HandlerInv(r) ==
    /\ \/ Broken(r)
       \/ /\ r \notin broken
          /\ \/ Fresh(r) \/ Awaiting(r)
             \/ WritingFirst(r) \/ WritingText(r) \/ WritingFailure(r) \/ WritingEnd(r)
             \/ Whole(r)
    /\ http[r] \in {"none"} \cup Live => None \notin Elements(queue[r])
    /\ counted[r] = Len(delivered[r])

AnswerInv == \A r \in Requests : HandlerInv(r)

-----------------------------------------------------------------------------
(* Counting chunks *)

\* Short sequences of chunks.
LEMMA ShortSequences ==
    /\ \A a : Len(<<a>>) = 1 /\ Head(<<a>>) = a /\ Append(<<>>, a) = <<a>>
    /\ \A a, b : Len(<<a, b>>) = 2 /\ Head(<<a, b>>) = a /\ Tail(<<a, b>>) = <<b>>
    /\ \A a, b, c : Len(<<a, b, c>>) = 3 /\ Head(<<a, b, c>>) = a /\ Tail(<<a, b, c>>) = <<b, c>>
    /\ \A a, b : <<a>> = <<b>> => a = b
  <1>1. \A a : Len(<<a>>) = 1 /\ Head(<<a>>) = a /\ Append(<<>>, a) = <<a>>
    OBVIOUS
  <1>2. \A a, b : Len(<<a, b>>) = 2 /\ Head(<<a, b>>) = a /\ Tail(<<a, b>>) = <<b>>
    OBVIOUS
  <1>3. \A a, b, c : Len(<<a, b, c>>) = 3 /\ Head(<<a, b, c>>) = a /\ Tail(<<a, b, c>>) = <<b, c>>
    OBVIOUS
  <1>4. \A a, b : <<a>> = <<b>> => a = b
    OBVIOUS
  <1> QED
    BY <1>1, <1>2, <1>3, <1>4

\* Nothing is in what has not begun.
LEMMA CountEmpty ==
    ASSUME NEW c
    PROVE  Count(c, <<>>) = 0 /\ c \notin Elements(<<>>)
  <1>1. {i \in DOMAIN <<>> : <<>>[i] = c} = {}
    OBVIOUS
  <1> QED
    BY <1>1, FS_EmptySet, ElementsOfEmpty DEF Count

\* One more chunk counts for its kind.
LEMMA CountAppend ==
    ASSUME NEW S, NEW w \in Seq(S), NEW x \in S, NEW c
    PROVE  /\ Count(c, w) \in Nat
           /\ Count(c, Append(w, x)) = IF x = c THEN Count(c, w) + 1 ELSE Count(c, w)
  <1> DEFINE v == Append(w, x)
             n == Len(w)
             W == {i \in DOMAIN w : w[i] = c}
             V == {i \in DOMAIN v : v[i] = c}
  <1>1. /\ n \in Nat /\ DOMAIN w = 1 .. n /\ DOMAIN v = 1 .. n + 1
        /\ \A i \in 1 .. n : v[i] = w[i]
        /\ v[n + 1] = x
    BY AppendFacts, ElementsOf
  <1> HIDE DEF v, n
  <1>2. IsFiniteSet(W) /\ Cardinality(W) \in Nat
    <2>1. W \subseteq 1 .. n /\ IsFiniteSet(1 .. n)
      BY <1>1, FS_Interval
    <2> QED
      BY <2>1, FS_Subset, FS_CardinalityType
  <1>3. n + 1 \notin W /\ n + 1 \in 1 .. n + 1 /\ \A i \in 1 .. n + 1 : i = n + 1 \/ i \in 1 .. n
    BY <1>1
  <1>4. CASE x = c
    <2>1. V = W \cup {n + 1}
      BY <1>1, <1>3, <1>4
    <2>2. Cardinality(V) = Cardinality(W) + 1
      BY <1>2, <1>3, <2>1, FS_AddElement
    <2> QED
      BY <1>2, <1>4, <2>2 DEF Count, v
  <1>5. CASE x # c
    <2>1. V = W
      BY <1>1, <1>3, <1>5
    <2> QED
      BY <1>2, <1>5, <2>1 DEF Count, v
  <1> QED
    BY <1>4, <1>5

\* A chunk more in what was sent.
LEMMA SentEmpty == Sent(<<>>, 0, 0, 0, 0, 0)
  BY CountEmpty DEF Sent

LEMMA SentAppend ==
    ASSUME NEW w \in Seq(Chunks), NEW x \in Chunks,
           NEW role, NEW text, NEW final, NEW errors, NEW done,
           Sent(w, role, text, final, errors, done)
    PROVE  LET v == Append(w, x) IN
           /\ v \in Seq(Chunks) /\ v # <<>> /\ v[Len(v)] = x
           /\ x = "role" => Sent(v, role + 1, text, final, errors, done)
           /\ x = "text" => Sent(v, role, text + 1, final, errors, done)
           /\ x = "final" => Sent(v, role, text, final + 1, errors, done)
           /\ x = "usage" => Sent(v, role, text, final, errors, done)
           /\ x = "error" => Sent(v, role, text, final, errors + 1, done)
           /\ x = "done" => Sent(v, role, text, final, errors, done + 1)
  <1> DEFINE v == Append(w, x)
  <1>1. /\ v \in Seq(Chunks) /\ Len(v) = Len(w) + 1 /\ v[Len(w) + 1] = x
        /\ Elements(v) = Elements(w) \cup {x} /\ Len(w) \in Nat
    BY AppendFacts, ElementsOf
  <1>2. v # <<>> /\ v[Len(v)] = x
    BY <1>1
  <1>3. \A c : Count(c, v) = IF x = c THEN Count(c, w) + 1 ELSE Count(c, w)
    BY CountAppend
  <1> HIDE DEF v
  <1>4. x # "503" => "503" \notin Elements(v)
    BY <1>1 DEF Sent
  <1>5. /\ x = "role" => Sent(v, role + 1, text, final, errors, done)
        /\ x = "text" => Sent(v, role, text + 1, final, errors, done)
        /\ x = "final" => Sent(v, role, text, final + 1, errors, done)
    BY <1>3, <1>4 DEF Sent
  <1>6. /\ x = "usage" => Sent(v, role, text, final, errors, done)
        /\ x = "error" => Sent(v, role, text, final, errors + 1, done)
        /\ x = "done" => Sent(v, role, text, final, errors, done + 1)
    BY <1>3, <1>4 DEF Sent
  <1> QED
    BY <1>1, <1>2, <1>5, <1>6 DEF v

-----------------------------------------------------------------------------
(* What the client does to a request's call *)

\* A step that is not r's handler leaves its call alone, unless it ends it
\* from below; nobody puts None into its queue.
Undisturbed(r) ==
    /\ delivered'[r] = delivered[r]
    /\ \/ call'[r] = call[r]
       \/ call[r] = "sending" /\ call'[r] = "cancelled"
       \/ call[r] = "aborting" /\ call'[r] \in {"cancelled", "died"}
    /\ None \in Elements(queue'[r]) => None \in Elements(queue[r])

\* The end of a call, and an output, are put behind what waits.
LEMMA NoneQueued ==
    ASSUME CallTypes, NEW r \in Requests, NEW item \in Items, item # None,
           queue'[r] = queue[r] \/ queue'[r] = Append(queue[r], item)
    PROVE  None \in Elements(queue'[r]) => None \in Elements(queue[r])
  <1>1. queue[r] \in Seq(Items)
    BY DEF CallTypes
  <1>2. Elements(Append(queue[r], item)) = Elements(queue[r]) \cup {item}
    BY <1>1, AppendFacts
  <1> QED
    BY <1>2

\* What a handler's calls do is about its own request.
LEMMA OthersUndisturbed ==
    ASSUME CallTypes, NEW r \in Requests, NEW s \in Requests, s # r,
           \/ Start(s) \/ FinishSend(s) \/ Get(s) \/ Cancel(s) \/ AbortByOther(s) \/ UNCHANGED vars
    PROVE  Undisturbed(r)
  <1>1. CASE Start(s) \/ FinishSend(s)
    BY <1>1 DEF Start, FinishSend, SetCall, CallTypes, Undisturbed
  <1>2. CASE Get(s)
    BY <1>2 DEF Get, SetCall, CallTypes, Undisturbed
  <1>3. CASE Cancel(s)
    BY <1>3 DEF Cancel, SetCall, CallTypes, Undisturbed
  <1>4. CASE AbortByOther(s)
    BY <1>4 DEF AbortByOther, CallTypes, Undisturbed
  <1>5. CASE UNCHANGED vars
    BY <1>5 DEF vars, callVars, Undisturbed
  <1> QED
    BY <1>1, <1>2, <1>3, <1>4, <1>5

\* Nor do the client's own tasks, the pipe and the engine disturb a call.
LEMMA TasksUndisturbed ==
    ASSUME ClientTypes, NEW r \in Requests,
           \/ \E s \in Requests : FinishAbort(s) \/ WithdrawAbort(s)
           \/ ReadReady \/ ReadOutputs \/ ReaderFails \/ OnExit \/ TearDown \/ CloseTimeout
           \/ Close \/ Transmit \/ EngineProgress \/ EngineGarbles \/ EngineCrashes
    PROVE  Undisturbed(r)
  <1> USE DEF callVars, clientVars, engineVars
  <1>0. CallTypes /\ ControlTypes /\ output \in Seq(EngineMessages)
    BY DEF ClientTypes, PipeTypes
  <1>d. Died \in Items /\ Died # None
    BY ItemsDiffer DEF Items
  <1>a. ASSUME UNCHANGED callVars PROVE Undisturbed(r)
    BY <1>a DEF Undisturbed
  <1>b. ASSUME delivered' = delivered, call' = call, FailRequests \/ queue' = queue
        PROVE  Undisturbed(r)
    <2>1. queue'[r] = queue[r] \/ queue'[r] = Append(queue[r], Died)
      BY <1>0, <1>b, FailFacts
    <2> QED
      BY <1>0, <1>b, <1>d, <2>1, NoneQueued DEF Undisturbed
  <1>1. ASSUME NEW s \in Requests, FinishAbort(s) PROVE Undisturbed(r)
    BY <1>0, <1>1 DEF FinishAbort, SetCall, CallTypes, Undisturbed
  <1>2. ASSUME NEW s \in Requests, WithdrawAbort(s) PROVE Undisturbed(r)
    BY <1>2, <1>a DEF WithdrawAbort
  <1>3. CASE ReadReady
    BY <1>3, <1>a DEF ReadReady
  <1>4. CASE ReadOutputs
    <2> DEFINE entries == Head(output).entries
    <2>1. Head(output) \in EngineMessages
      BY <1>0, <1>4, TailFacts DEF Arrived, ReadOutputs
    <2>2. entries \in Entries
      BY <1>4, <2>1, EngineMessageFacts DEF ReadOutputs
    <2>3. r \in DOMAIN entries => entries[r] \in OutItems
      BY <2>2 DEF Entries
    <2>4. queue'[r] = queue[r] \/ (r \in DOMAIN entries /\ queue'[r] = Append(queue[r], entries[r]))
      BY <1>4 DEF ReadOutputs
    <2> HIDE DEF entries
    <2>5. \A i \in OutItems : i \in Items /\ i # None
      BY ItemsDiffer DEF Items
    <2>6. None \in Elements(queue'[r]) => None \in Elements(queue[r])
      BY <1>0, <1>d, <2>3, <2>4, <2>5, NoneQueued
    <2> QED
      BY <1>4, <2>6 DEF ReadOutputs, Undisturbed
  <1>5. CASE ReaderFails \/ OnExit
    BY <1>5, <1>b DEF ReaderFails, OnExit, MarkDead
  <1>6. CASE TearDown
    BY <1>0, <1>6 DEF TearDown, CallTypes, Undisturbed
  <1>7. CASE CloseTimeout
    BY <1>7, <1>a DEF CloseTimeout
  <1>8. CASE Close
    BY <1>8, <1>b DEF Close
  <1>9. CASE Transmit \/ EngineGarbles \/ EngineCrashes \/ EngineReady \/ EngineReceive \/ EngineExits
    BY <1>9, <1>a DEF Transmit, EngineGarbles, EngineCrashes, EngineReady, EngineReceive, EngineExits
  <1>10. ASSUME NEW batch, NEW done, EngineStep(batch, done) PROVE Undisturbed(r)
    BY <1>10, <1>a DEF EngineStep
  <1> QED
    BY <1>1, <1>2, <1>3, <1>4, <1>5, <1>6, <1>7, <1>8, <1>9, <1>10 DEF EngineProgress

-----------------------------------------------------------------------------
(* Each step of a handler goes from one place to the next *)

\* The step is not r's handler's.
Unmoved(r) ==
    /\ http'[r] = http[r] /\ pending'[r] = pending[r] /\ written'[r] = written[r]
    /\ counted'[r] = counted[r] /\ (r \in broken' <=> r \in broken)
    /\ body' = body

\* Then nothing changes for its client.
LEMMA HandlerStays ==
    ASSUME NEW r \in Requests, HandlerInv(r), Unmoved(r), Undisturbed(r)
    PROVE  HandlerInv(r)'
  <1> USE DEF Unmoved, Undisturbed
  <1>1. Streamed(r)' = Streamed(r) /\ Role(r)' = Role(r)
    BY DEF Streamed, Role
  <1>2. CASE Broken(r)
    <2>1. Broken(r)'
      BY <1>2 DEF Broken, Ended
    <2> QED
      BY <1>2, <2>1 DEF HandlerInv, Broken, Live
  <1>3. ASSUME r \notin broken, Fresh(r)' \/ Awaiting(r)' \/ WritingFirst(r)' \/ WritingText(r)'
                  \/ WritingFailure(r)' \/ WritingEnd(r)' \/ Whole(r)'
        PROVE  HandlerInv(r)'
    BY <1>3 DEF HandlerInv
  <1>4. CASE r \notin broken /\ Fresh(r)
    BY <1>1, <1>3, <1>4 DEF Fresh
  <1>5. CASE r \notin broken /\ Awaiting(r)
    BY <1>1, <1>3, <1>5 DEF Awaiting, SentSoFar
  <1>6. CASE r \notin broken /\ WritingFirst(r)
    BY <1>1, <1>3, <1>6 DEF WritingFirst
  <1>7. CASE r \notin broken /\ WritingText(r)
    BY <1>1, <1>3, <1>7 DEF WritingText, SentSoFar
  <1>8. CASE r \notin broken /\ WritingFailure(r)
    BY <1>1, <1>3, <1>8 DEF WritingFailure, Failed, SentSoFar
  <1>9. CASE r \notin broken /\ WritingEnd(r)
    BY <1>1, <1>3, <1>9 DEF WritingEnd, SentSoFar
  <1>10. CASE r \notin broken /\ Whole(r)
    BY <1>1, <1>3, <1>10 DEF Whole, Failed, SentSoFar
  <1> QED
    BY <1>2, <1>4, <1>5, <1>6, <1>7, <1>8, <1>9, <1>10 DEF HandlerInv

\* What an output, or the engine's death in its place, makes of a call that
\* nobody aborts.
LEMMA OutputTaken ==
    ASSUME HandlerTypes, CallTypes, NEW r \in Requests, HandlerInv(r), TakeOutput(r)
    PROVE  /\ Awaiting(r) /\ r \notin broken /\ call[r] = "streaming"
           /\ None \notin Elements(queue'[r])
           /\ counted'[r] = Len(delivered'[r])
           /\ \/ /\ call'[r] = "died" /\ delivered' = delivered
                 /\ WriteNext(r, Failure(r))
              \/ /\ call'[r] \in {"finished", "streaming"}
                 /\ delivered'[r] # <<>> /\ Len(delivered'[r]) = Len(delivered[r]) + 1
                 /\ call'[r] = "finished" => WriteNext(r, Ending(r))
                 /\ call'[r] = "streaming" /\ Streamed(r) => WriteNext(r, <<"text">>)
                 /\ call'[r] = "streaming" /\ ~Streamed(r) => http' = http /\ pending' = pending
  <1> DEFINE item == Head(queue[r])
  <1>1. Get(r) /\ http[r] = "waiting"
    BY DEF TakeOutput
  <1>2. Awaiting(r) /\ r \notin broken
    BY <1>1 DEF HandlerInv, Broken, Fresh, WritingFirst, WritingText, WritingFailure, WritingEnd, Whole
  <1>3. /\ queue[r] \in Seq(Items) /\ queue[r] # <<>> /\ delivered[r] \in Seq(OutItems)
        /\ call[r] = "streaming" /\ queue'[r] = Tail(queue[r])
    BY <1>1 DEF Get, CallTypes
  <1>4. /\ item \in Items /\ item \in Elements(queue[r])
        /\ Tail(queue[r]) \in Seq(Items) /\ Deleted(queue[r], Tail(queue[r]), 1)
    BY <1>3, TailFacts
  <1>5. None \notin Elements(queue[r])
    BY <1>1 DEF HandlerInv, Live
  <1>6. None \notin Elements(queue'[r]) /\ item # None
    <2>1. Elements(Tail(queue[r])) \subseteq Elements(queue[r])
      <3> DEFINE u == queue[r]
                 v == Tail(queue[r])
      <3>1. u \in Seq(Items) /\ v \in Seq(Items) /\ Deleted(u, v, 1)
        BY <1>3, <1>4
      <3> HIDE DEF u, v
      <3>2. Elements(v) \subseteq Elements(u)
        BY <3>1, DeletedFacts
      <3> QED
        BY <3>2 DEF u, v
    <2> QED
      BY <1>3, <1>4, <1>5, <2>1
  <1>7. counted[r] = Len(delivered[r]) /\ Len(delivered[r]) \in Nat
    BY <1>3 DEF HandlerInv
  <1>8. CASE item = Died
    <2>1. SetCall(r, "died") /\ delivered' = delivered
      BY <1>1, <1>8, ItemsDiffer DEF Get
    <2>2. call'[r] = "died"
      BY <2>1 DEF SetCall, CallTypes
    <2>3. counted'[r] = counted[r] /\ WriteNext(r, Failure(r))
      BY <2>2 DEF TakeOutput, HandlerTypes
    <2> QED
      BY <1>2, <1>3, <1>6, <1>7, <2>1, <2>2, <2>3
  <1>9. CASE item # Died
    <2>1. item \in OutItems
      BY <1>4, <1>6, <1>9 DEF Items
    <2>2. /\ delivered' = [delivered EXCEPT ![r] = Append(delivered[r], item)]
          /\ SetCall(r, IF item.last THEN "finished" ELSE "streaming")
      BY <1>1, <1>6, <1>9 DEF Get
    <2>3. delivered'[r] = Append(delivered[r], item)
      BY <2>2 DEF CallTypes
    <2>4. /\ Len(delivered'[r]) = Len(delivered[r]) + 1 /\ delivered'[r] \in Seq(OutItems)
      BY <1>3, <2>1, <2>3, AppendFacts
    <2>5. delivered'[r] # <<>>
      BY <1>7, <2>4
    <2>6. call'[r] \in {"finished", "streaming"}
      BY <2>2 DEF SetCall, CallTypes
    <2>7. counted'[r] = counted[r] + 1
      BY <2>6 DEF TakeOutput, HandlerTypes
    <2>8. /\ call'[r] = "finished" => WriteNext(r, Ending(r))
          /\ call'[r] = "streaming" /\ Streamed(r) => WriteNext(r, <<"text">>)
          /\ call'[r] = "streaming" /\ ~Streamed(r) => http' = http /\ pending' = pending
      BY DEF TakeOutput
    <2> QED
      BY <1>2, <1>3, <1>6, <1>7, <2>4, <2>5, <2>6, <2>7, <2>8
  <1> QED
    BY <1>8, <1>9

\* A handler's step concerns its own request only.
LEMMA HandlersApart ==
    ASSUME HandlerTypes, ClientTypes, NEW r \in Requests, NEW s \in Requests, s # r, Handler(s),
           HandlerInv(s)
    PROVE  Unmoved(r) /\ Undisturbed(r)
  <1> USE DEF HandlerTypes, WriteNext, SetHttp, BeginStream
  <1>0. CallTypes
    BY DEF ClientTypes
  <1>1. CASE Accept(s)
    BY <1>0, <1>1, OthersUndisturbed DEF Accept, Unmoved
  <1>2. CASE Open(s)
    BY <1>0, <1>2, OthersUndisturbed DEF Open, Unmoved
  <1>3. CASE RequestSent(s)
    BY <1>0, <1>3, OthersUndisturbed DEF RequestSent, Unmoved
  <1>4. CASE TakeOutput(s)
    <2>1. Get(s) /\ Undisturbed(r)
      BY <1>0, <1>4, OthersUndisturbed DEF TakeOutput
    <2>2. http'[r] = http[r] /\ pending'[r] = pending[r]
      <3>1. \/ \E chunks \in {Failure(s), Ending(s), <<"text">>} : WriteNext(s, chunks)
            \/ http' = http /\ pending' = pending
        BY <1>0, <1>4, OutputTaken
      <3> QED
        BY <3>1
    <2> QED
      BY <1>4, <2>1, <2>2 DEF TakeOutput, Unmoved
  <1>5. CASE Write(s)
    BY <1>0, <1>5, OthersUndisturbed DEF Write, Unmoved
  <1>6. CASE Disconnect(s) \/ CancelHandler(s) \/ SendCancelled(s)
    BY <1>0, <1>6, OthersUndisturbed
       DEF Disconnect, CancelHandler, SendCancelled, Interrupt, CloseOutputs, Unmoved
  <1>7. CASE EndHandler(s)
    BY <1>0, <1>7, OthersUndisturbed DEF EndHandler, Unmoved
  <1> QED
    BY <1>1, <1>2, <1>3, <1>4, <1>5, <1>6, <1>7 DEF Handler

\* Where a handler is, by what it has to write.
LEMMA HandlerPlaces ==
    ASSUME NEW r \in Requests, HandlerInv(r)
    PROVE  /\ http[r] \in {"none", "opening"} => r \notin broken /\ Fresh(r)
           /\ http[r] = "waiting" => r \notin broken /\ Awaiting(r)
           /\ http[r] = "writing" =>
                 /\ r \notin broken
                 /\ WritingFirst(r) \/ WritingText(r) \/ WritingFailure(r) \/ WritingEnd(r)
           /\ http[r] = "cleanup" => Broken(r) \/ (r \notin broken /\ Whole(r))
           /\ http[r] = "ended" => Broken(r) \/ (r \notin broken /\ Whole(r))
  BY DEF HandlerInv, Broken, Fresh, Awaiting, WritingFirst, WritingText, WritingFailure,
         WritingEnd, Whole

\* A handler that goes on in one of these places.
LEMMA HandlerGoesOn ==
    ASSUME NEW r \in Requests, r \notin broken',
           \/ Fresh(r)' \/ Awaiting(r)' \/ WritingFirst(r)' \/ WritingText(r)'
           \/ WritingFailure(r)' \/ WritingEnd(r)' \/ Whole(r)',
           None \notin Elements(queue'[r]) \/ http'[r] \in {"cleanup", "ended"},
           counted'[r] = Len(delivered'[r])
    PROVE  HandlerInv(r)'
  <1>1. http'[r] \in {"cleanup", "ended"} => http'[r] \notin {"none"} \cup Live
    BY DEF Live
  <1> QED
    BY <1>1 DEF HandlerInv

\* The engine is asked, or is dead already.
LEMMA StreamBegins ==
    ASSUME HandlerTypes, CallTypes, NEW r \in Requests, BeginStream(r), Streamed(r),
           body' = body, Sent(written'[r], Role(r), 0, 0, 0, 0), delivered[r] = <<>>,
           call'[r] # "refused" => pending' = pending
    PROVE  /\ Awaiting(r)' \/ WritingFailure(r)'
           /\ queue' = queue /\ delivered' = delivered
  <1>1. Start(r) /\ queue' = queue /\ delivered' = delivered
    BY DEF BeginStream, Start
  <1>2. call'[r] \in {"sending", "refused"}
    BY <1>1 DEF Start, SetCall, CallTypes
  <1>3. Streamed(r)' = Streamed(r) /\ Role(r)' = Role(r)
    BY DEF Streamed, Role
  <1>4. Len(delivered'[r]) = 0
    BY <1>1
  <1>5. CASE call'[r] = "refused"
    <2>1. WriteNext(r, <<"error", "done">>)
      BY <1>5 DEF BeginStream, Failure
    <2>2. http'[r] = "writing" /\ pending'[r] = <<"error", "done">>
      BY <2>1 DEF WriteNext, SetHttp, HandlerTypes
    <2> QED
      BY <1>1, <1>3, <1>4, <1>5, <2>2 DEF WritingFailure, Failed, SentSoFar
  <1>6. CASE call'[r] = "sending"
    <2>1. http'[r] = "waiting"
      BY <1>6 DEF BeginStream, SetHttp, HandlerTypes
    <2> QED
      BY <1>1, <1>3, <1>4, <1>6, <2>1 DEF Awaiting, SentSoFar
  <1> QED
    BY <1>1, <1>2, <1>5, <1>6

\* A request arrives.
LEMMA AcceptStep ==
    ASSUME HandlerTypes, CallTypes, NEW r \in Requests, HandlerInv(r), Accept(r)
    PROVE  HandlerInv(r)'
  <1>1. /\ http[r] = "none" /\ Fresh(r) /\ r \notin broken' /\ None \notin Elements(queue[r])
        /\ counted'[r] = Len(delivered[r]) /\ written'[r] = <<>>
    BY HandlerPlaces DEF Accept, HandlerInv, Fresh
  <1>2. Streamed(r)' = Streamed(r)
    BY DEF Accept, Streamed
  <1>3. CASE ~Alive
    <2>1. WriteNext(r, <<"503">>) /\ UNCHANGED vars
      BY <1>3 DEF Accept
    <2>2. WritingFirst(r)'
      BY <1>1, <2>1 DEF WriteNext, SetHttp, HandlerTypes, WritingFirst, vars, callVars, Fresh
    <2> QED
      BY <1>1, <2>1, <2>2, HandlerGoesOn DEF vars, callVars
  <1>4. CASE Alive /\ Streamed(r)
    <2>1. SetHttp(r, "opening") /\ UNCHANGED vars
      BY <1>4 DEF Accept
    <2>2. Fresh(r)'
      BY <1>1, <1>2, <1>4, <2>1 DEF SetHttp, HandlerTypes, Fresh, vars, callVars
    <2> QED
      BY <1>1, <2>1, <2>2, HandlerGoesOn DEF vars, callVars
  <1>5. CASE Alive /\ ~Streamed(r)
    <2>1. SetHttp(r, "waiting") /\ Start(r)
      BY <1>5 DEF Accept
    <2>2. call'[r] = "sending" /\ queue' = queue /\ delivered' = delivered
      BY <1>5, <2>1 DEF Start, SetCall, CallTypes
    <2>3. Awaiting(r)'
      BY <1>1, <1>2, <1>5, <2>1, <2>2 DEF SetHttp, HandlerTypes, Awaiting
    <2> QED
      BY <1>1, <2>2, <2>3, HandlerGoesOn
  <1> QED
    BY <1>3, <1>4, <1>5

\* The response begins.
LEMMA OpenStep ==
    ASSUME HandlerTypes, CallTypes, StreamInv, NEW r \in Requests, HandlerInv(r), Open(r)
    PROVE  HandlerInv(r)'
  <1>1. /\ http[r] = "opening" /\ Fresh(r) /\ r \notin broken' /\ None \notin Elements(queue[r])
        /\ counted'[r] = Len(delivered[r]) /\ written'[r] = <<>> /\ Streamed(r) /\ body' = body
    BY HandlerPlaces DEF Open, HandlerInv, Fresh, Live
  <1>2. delivered[r] = <<>>
    BY <1>1 DEF StreamInv, OutputInv, Fresh
  <1>3. CASE body[r].kind = "chat"
    <2>1. WriteNext(r, <<"role">>) /\ UNCHANGED vars
      BY <1>3 DEF Open
    <2>2. WritingFirst(r)'
      BY <1>1, <1>3, <2>1 DEF WriteNext, SetHttp, HandlerTypes, WritingFirst, vars, callVars, Fresh
    <2> QED
      BY <1>1, <2>1, <2>2, HandlerGoesOn DEF vars, callVars
  <1>4. CASE body[r].kind # "chat"
    <2>1. BeginStream(r) /\ (call'[r] # "refused" => pending' = pending)
      BY <1>4 DEF Open, BeginStream
    <2>2. Sent(written'[r], Role(r), 0, 0, 0, 0)
      BY <1>1, <1>4, SentEmpty DEF Role
    <2> QED
      BY <1>1, <1>2, <2>1, <2>2, StreamBegins, HandlerGoesOn
  <1> QED
    BY <1>3, <1>4

\* The engine has the request, or is dead.
LEMMA RequestSentStep ==
    ASSUME HandlerTypes, CallTypes, NEW r \in Requests, HandlerInv(r), RequestSent(r)
    PROVE  HandlerInv(r)'
  <1>1. /\ http[r] = "waiting" /\ Awaiting(r) /\ r \notin broken' /\ None \notin Elements(queue[r])
        /\ counted'[r] = Len(delivered[r]) /\ written'[r] = written[r] /\ body' = body
    BY HandlerPlaces DEF RequestSent, HandlerInv, Live
  <1>2. Streamed(r)' = Streamed(r) /\ Role(r)' = Role(r)
    BY <1>1 DEF Streamed, Role
  <1>3. queue' = queue /\ delivered' = delivered /\ call'[r] \in {"died", "streaming"}
    BY DEF RequestSent, FinishSend, SetCall, CallTypes
  <1>4. CASE call'[r] = "died"
    <2>1. http'[r] = "writing" /\ pending'[r] = Failure(r)
      BY <1>4 DEF RequestSent, WriteNext, SetHttp, HandlerTypes
    <2>2. CASE Streamed(r)
      <3>1. WritingFailure(r)'
        BY <1>1, <1>2, <1>3, <1>4, <2>1, <2>2
           DEF Failure, WritingFailure, Failed, Awaiting, SentSoFar
      <3> QED
        BY <1>1, <1>3, <3>1, HandlerGoesOn
    <2>3. CASE ~Streamed(r)
      <3>1. WritingFirst(r)'
        BY <1>1, <1>2, <1>4, <2>1, <2>3 DEF Failure, WritingFirst, Awaiting
      <3> QED
        BY <1>1, <1>3, <3>1, HandlerGoesOn
    <2> QED
      BY <2>2, <2>3
  <1>5. CASE call'[r] = "streaming"
    <2>1. http' = http
      BY <1>5 DEF RequestSent
    <2>2. Awaiting(r)'
      BY <1>1, <1>2, <1>3, <1>5, <2>1 DEF Awaiting, SentSoFar
    <2> QED
      BY <1>1, <1>3, <2>2, HandlerGoesOn
  <1> QED
    BY <1>3, <1>4, <1>5

\* An output, or the engine's death, arrives.
LEMMA TakeOutputStep ==
    ASSUME HandlerTypes, CallTypes, NEW r \in Requests, HandlerInv(r), TakeOutput(r)
    PROVE  HandlerInv(r)'
  <1>1. /\ Awaiting(r) /\ r \notin broken' /\ None \notin Elements(queue'[r])
        /\ counted'[r] = Len(delivered'[r]) /\ written'[r] = written[r] /\ body' = body
        /\ http[r] = "waiting" /\ Len(delivered[r]) \in Nat
    <2>1. /\ Awaiting(r) /\ r \notin broken /\ None \notin Elements(queue'[r])
          /\ counted'[r] = Len(delivered'[r])
      BY OutputTaken
    <2>2. broken' = broken /\ written' = written /\ body' = body /\ http[r] = "waiting"
      BY DEF TakeOutput
    <2>3. Len(delivered[r]) \in Nat
      BY DEF CallTypes
    <2> QED
      BY <2>1, <2>2, <2>3
  <1>2. Streamed(r)' = Streamed(r) /\ Role(r)' = Role(r)
    BY <1>1 DEF Streamed, Role
  <1>g. ASSUME WritingFirst(r)' \/ WritingText(r)' \/ WritingFailure(r)' \/ WritingEnd(r)' \/ Awaiting(r)'
        PROVE  HandlerInv(r)'
    BY <1>1, <1>g, HandlerGoesOn
  <1>3. CASE call'[r] = "died"
    <2>1. delivered' = delivered /\ WriteNext(r, Failure(r))
      BY <1>3, OutputTaken
    <2>2. http'[r] = "writing" /\ pending'[r] = Failure(r)
      BY <2>1 DEF WriteNext, SetHttp, HandlerTypes
    <2>3. CASE Streamed(r)
      BY <1>1, <1>2, <1>3, <1>g, <2>1, <2>2, <2>3
         DEF Failure, WritingFailure, Failed, Awaiting, SentSoFar
    <2>4. CASE ~Streamed(r)
      BY <1>1, <1>2, <1>3, <1>g, <2>2, <2>4 DEF Failure, WritingFirst, Awaiting
    <2> QED
      BY <2>3, <2>4
  <1>4. CASE call'[r] \in {"finished", "streaming"}
    <2>1. /\ delivered'[r] # <<>> /\ Len(delivered'[r]) = Len(delivered[r]) + 1
          /\ call'[r] = "finished" => WriteNext(r, Ending(r))
          /\ call'[r] = "streaming" /\ Streamed(r) => WriteNext(r, <<"text">>)
          /\ call'[r] = "streaming" /\ ~Streamed(r) => http' = http /\ pending' = pending
      BY <1>4, OutputTaken
    <2>2. Len(delivered'[r]) - 1 = Len(delivered[r])
      BY <1>1, <2>1
    <2>3. CASE call'[r] = "finished"
      <3>1. http'[r] = "writing" /\ pending'[r] = Ending(r)
        BY <2>1, <2>3 DEF WriteNext, SetHttp, HandlerTypes
      <3>2. CASE Streamed(r)
        BY <1>1, <1>2, <1>g, <2>1, <2>2, <2>3, <3>1, <3>2 DEF Ending, WritingEnd, Awaiting, SentSoFar
      <3>3. CASE ~Streamed(r)
        BY <1>1, <1>2, <1>g, <2>3, <3>1, <3>3 DEF Ending, WritingFirst, Awaiting
      <3> QED
        BY <3>2, <3>3
    <2>4. CASE call'[r] = "streaming" /\ Streamed(r)
      <3>1. http'[r] = "writing" /\ pending'[r] = <<"text">>
        BY <2>1, <2>4 DEF WriteNext, SetHttp, HandlerTypes
      <3> QED
        BY <1>1, <1>2, <1>g, <2>1, <2>2, <2>4, <3>1 DEF WritingText, Awaiting, SentSoFar
    <2>5. CASE call'[r] = "streaming" /\ ~Streamed(r)
      BY <1>1, <1>2, <1>g, <2>1, <2>5 DEF Awaiting
    <2> QED
      BY <1>4, <2>3, <2>4, <2>5
  <1> QED
    BY <1>3, <1>4, OutputTaken

\* The client is sent a chunk.
LEMMA WriteStep ==
    ASSUME HandlerTypes, CallTypes, StreamInv, NEW r \in Requests, HandlerInv(r), Write(r)
    PROVE  HandlerInv(r)'
  <1> DEFINE w == written[r]
             p == pending[r]
  <1>1. /\ http[r] = "writing" /\ r \notin broken' /\ r \notin broken /\ None \notin Elements(queue[r])
        /\ counted'[r] = Len(delivered[r]) /\ body' = body
        /\ written'[r] = Append(w, Head(p)) /\ w \in Seq(Chunks) /\ Len(delivered[r]) \in Nat
        /\ WritingFirst(r) \/ WritingText(r) \/ WritingFailure(r) \/ WritingEnd(r)
    <2>1. http[r] = "writing" /\ body' = body /\ broken' = broken /\ counted' = counted
      BY DEF Write
    <2>2. /\ r \notin broken
          /\ WritingFirst(r) \/ WritingText(r) \/ WritingFailure(r) \/ WritingEnd(r)
      BY <2>1, HandlerPlaces
    <2>3. written'[r] = Append(w, Head(p)) /\ w \in Seq(Chunks) /\ Len(delivered[r]) \in Nat
      BY DEF Write, HandlerTypes, CallTypes
    <2>4. None \notin Elements(queue[r]) /\ counted[r] = Len(delivered[r])
      BY <2>1 DEF HandlerInv, Live
    <2> QED
      BY <2>1, <2>2, <2>3, <2>4
  <1>2. Streamed(r)' = Streamed(r) /\ Role(r)' = Role(r)
    BY <1>1 DEF Streamed, Role
  <1>g. ASSUME UNCHANGED vars,
               WritingFailure(r)' \/ WritingEnd(r)' \/ Awaiting(r)' \/ Whole(r)'
        PROVE  HandlerInv(r)'
    BY <1>1, <1>g, HandlerGoesOn DEF vars, callVars
  <1>h. "role" \in Chunks /\ "text" \in Chunks /\ "final" \in Chunks /\ "usage" \in Chunks
        /\ "error" \in Chunks /\ "done" \in Chunks
    BY DEF Chunks
  <1>i. \A x \in {"503", "200", "done"} : p = <<x>> =>
           /\ http'[r] = "cleanup" /\ UNCHANGED vars /\ Head(p) = x
    BY ShortSequences DEF Write, SetHttp, HandlerTypes
  <1>j. Len(p) > 1 => http'[r] = "writing" /\ pending'[r] = Tail(p) /\ UNCHANGED vars
    <2> SUFFICES ASSUME Len(p) > 1
                 PROVE  http'[r] = "writing" /\ pending'[r] = Tail(p) /\ UNCHANGED vars
      OBVIOUS
    <2>1. p # <<"role">> /\ p # <<"text">>
      BY ShortSequences
    <2>2. WriteNext(r, Tail(p)) /\ UNCHANGED vars
      BY <2>1 DEF Write
    <2> QED
      BY <2>2 DEF WriteNext, SetHttp, HandlerTypes
  <1>3. CASE WritingFirst(r) /\ p = <<"role">>
    <2>1. BeginStream(r) /\ (call'[r] # "refused" => pending' = pending)
      BY <1>3, ShortSequences DEF Write
    <2>2. delivered[r] = <<>> /\ Streamed(r) /\ Role(r) = 1
      BY <1>3, ShortSequences DEF WritingFirst, StreamInv, OutputInv, Streamed, Role
    <2>3. w = <<>> /\ Head(p) = "role" /\ 0 + 1 = 1
      BY <1>3, ShortSequences DEF WritingFirst
    <2>4. Sent(Append(w, "role"), 0 + 1, 0, 0, 0, 0)
      <3>1. Sent(w, 0, 0, 0, 0, 0)
        BY <2>3, SentEmpty
      <3> QED
        BY <1>1, <1>h, <3>1, SentAppend
    <2>5. Sent(written'[r], Role(r), 0, 0, 0, 0)
      BY <1>1, <2>2, <2>3, <2>4
    <2> QED
      BY <1>1, <2>1, <2>2, <2>5, StreamBegins, HandlerGoesOn
  <1>4. CASE WritingFirst(r) /\ p # <<"role">>
    <2>1. PICK x \in {"503", "200"} : p = <<x>>
      BY <1>4 DEF WritingFirst
    <2>2. http'[r] = "cleanup" /\ UNCHANGED vars /\ Head(p) = x
      BY <1>i, <2>1
    <2>3. written'[r] = <<x>>
      BY <1>1, <1>4, <2>2, ShortSequences DEF WritingFirst
    <2>4. Whole(r)'
      BY <1>2, <1>4, <2>1, <2>2, <2>3, ShortSequences DEF WritingFirst, Whole, vars, callVars
    <2> QED
      BY <1>g, <2>2, <2>4
  <1>5. CASE WritingText(r)
    <2> DEFINE n == Len(delivered[r]) - 1
    <2>1. http'[r] = "waiting" /\ UNCHANGED vars /\ Head(p) = "text"
      BY <1>5, ShortSequences DEF WritingText, Write, SetHttp, HandlerTypes
    <2>2. Sent(Append(w, "text"), Role(r), n + 1, 0, 0, 0) /\ n + 1 = Len(delivered[r])
      BY <1>1, <1>5, <1>h, SentAppend DEF WritingText, SentSoFar
    <2>3. Awaiting(r)'
      BY <1>1, <1>2, <1>5, <2>1, <2>2 DEF WritingText, Awaiting, SentSoFar, vars, callVars
    <2> QED
      BY <1>g, <2>1, <2>3
  <1>6. CASE WritingFailure(r)
    <2> DEFINE n == Len(delivered[r])
    <2>1. CASE p = <<"error", "done">> /\ SentSoFar(r, n, 0, 0, 0)
      <3>1. /\ http'[r] = "writing" /\ pending'[r] = <<"done">> /\ UNCHANGED vars
            /\ Head(p) = "error"
        BY <1>j, <2>1, ShortSequences
      <3>2. Sent(Append(w, "error"), Role(r), n, 0, 0 + 1, 0) /\ 0 + 1 = 1
        BY <1>1, <1>h, <2>1, SentAppend DEF SentSoFar
      <3>3. WritingFailure(r)'
        BY <1>1, <1>2, <1>6, <3>1, <3>2 DEF WritingFailure, Failed, SentSoFar, vars, callVars
      <3> QED
        BY <1>g, <3>1, <3>3
    <2>2. CASE p = <<"done">> /\ SentSoFar(r, n, 0, 1, 0)
      <3>1. http'[r] = "cleanup" /\ UNCHANGED vars /\ Head(p) = "done"
        BY <1>i, <2>2
      <3>2. /\ Sent(Append(w, "done"), Role(r), n, 0, 1, 0 + 1) /\ 0 + 1 = 1
            /\ Append(w, "done") # <<>> /\ Append(w, "done")[Len(Append(w, "done"))] = "done"
        BY <1>1, <1>h, <2>2, SentAppend DEF SentSoFar
      <3>3. Whole(r)'
        BY <1>1, <1>2, <1>6, <3>1, <3>2 DEF WritingFailure, Whole, Failed, SentSoFar, vars, callVars
      <3> QED
        BY <1>g, <3>1, <3>3
    <2> QED
      BY <1>6, <2>1, <2>2 DEF WritingFailure
  <1>7. CASE WritingEnd(r)
    <2> DEFINE n == Len(delivered[r]) - 1
    <2>1. CASE p = <<"final", "usage", "done">> /\ SentSoFar(r, n, 0, 0, 0)
      <3>1. /\ http'[r] = "writing" /\ pending'[r] = <<"usage", "done">> /\ UNCHANGED vars
            /\ Head(p) = "final"
        BY <1>j, <2>1, ShortSequences
      <3>2. Sent(Append(w, "final"), Role(r), n, 0 + 1, 0, 0) /\ 0 + 1 = 1
        BY <1>1, <1>h, <2>1, SentAppend DEF SentSoFar
      <3>3. WritingEnd(r)'
        BY <1>1, <1>2, <1>7, <3>1, <3>2 DEF WritingEnd, SentSoFar, vars, callVars
      <3> QED
        BY <1>g, <3>1, <3>3
    <2>2. CASE p = <<"usage", "done">> /\ SentSoFar(r, n, 1, 0, 0)
      <3>1. /\ http'[r] = "writing" /\ pending'[r] = <<"done">> /\ UNCHANGED vars
            /\ Head(p) = "usage"
        BY <1>j, <2>2, ShortSequences
      <3>2. Sent(Append(w, "usage"), Role(r), n, 1, 0, 0)
        BY <1>1, <1>h, <2>2, SentAppend DEF SentSoFar
      <3>3. WritingEnd(r)'
        BY <1>1, <1>2, <1>7, <3>1, <3>2 DEF WritingEnd, SentSoFar, vars, callVars
      <3> QED
        BY <1>g, <3>1, <3>3
    <2>3. CASE p = <<"done">> /\ SentSoFar(r, n, 1, 0, 0)
      <3>1. http'[r] = "cleanup" /\ UNCHANGED vars /\ Head(p) = "done"
        BY <1>i, <2>3
      <3>2. /\ Sent(Append(w, "done"), Role(r), n, 1, 0, 0 + 1) /\ 0 + 1 = 1
            /\ Append(w, "done") # <<>> /\ Append(w, "done")[Len(Append(w, "done"))] = "done"
        BY <1>1, <1>h, <2>3, SentAppend DEF SentSoFar
      <3>3. Whole(r)'
        BY <1>1, <1>2, <1>7, <3>1, <3>2 DEF WritingEnd, Whole, SentSoFar, vars, callVars
      <3> QED
        BY <1>g, <3>1, <3>3
    <2> QED
      BY <1>7, <2>1, <2>2, <2>3 DEF WritingEnd
  <1> QED
    BY <1>1, <1>3, <1>4, <1>5, <1>6, <1>7

\* The handler is torn off.
LEMMA InterruptStep ==
    ASSUME HandlerTypes, CallTypes, NEW r \in Requests, HandlerInv(r), Interrupt(r)
    PROVE  HandlerInv(r)'
  <1>1. /\ http[r] \in Live /\ http'[r] = "cleanup" /\ r \in broken'
        /\ counted'[r] = Len(delivered[r])
    BY DEF Interrupt, SetHttp, HandlerTypes, HandlerInv
  <1>2. delivered' = delivered /\ call'[r] \in Ended \cup {"new", "aborting"}
    <2>1. CASE call[r] \in {"sending", "streaming"}
      <3>1. Cancel(r)
        BY <2>1 DEF Interrupt, CloseOutputs
      <3> QED
        BY <3>1 DEF Cancel, SetCall, CallTypes, Ended
    <2>2. CASE call[r] \notin {"sending", "streaming"}
      <3>1. UNCHANGED vars
        BY <2>2 DEF Interrupt, CloseOutputs
      <3>2. call[r] \in Ended \cup {"new"}
        BY <1>1, <2>2, HandlerPlaces DEF Live, Fresh, Awaiting, WritingFirst, WritingText,
           WritingFailure, Failed, WritingEnd, Ended
      <3> QED
        BY <3>1, <3>2 DEF vars, callVars
    <2> QED
      BY <2>1, <2>2
  <1>3. Broken(r)'
    BY <1>1, <1>2 DEF Broken
  <1>4. http'[r] \notin {"none"} \cup Live
    BY <1>1 DEF Live
  <1> QED
    BY <1>1, <1>2, <1>3, <1>4 DEF HandlerInv

\* cleanup() has nothing left to abort.
LEMMA EndHandlerStep ==
    ASSUME HandlerTypes, CallTypes, NEW r \in Requests, HandlerInv(r), CallInv(r), EndHandler(r)
    PROVE  HandlerInv(r)'
  <1>1. r \notin registered
    BY DEF EndHandler, CallInv, Ended
  <1>2. UNCHANGED vars /\ http'[r] = "ended" /\ call[r] \in Ended \cup {"new"} /\ http[r] = "cleanup"
    BY <1>1 DEF EndHandler, SetHttp, HandlerTypes
  <1>3. body' = body /\ written' = written /\ broken' = broken /\ counted' = counted
    BY DEF EndHandler
  <1>4. Streamed(r)' = Streamed(r) /\ Role(r)' = Role(r)
    BY <1>3 DEF Streamed, Role
  <1>5. counted'[r] = Len(delivered'[r]) /\ http'[r] \notin {"none"} \cup Live
    BY <1>2, <1>3 DEF HandlerInv, vars, callVars, Live
  <1>6. CASE Broken(r)
    <2>1. Broken(r)'
      BY <1>2, <1>3, <1>6 DEF Broken, vars, callVars
    <2> QED
      BY <1>5, <2>1 DEF HandlerInv
  <1>7. CASE r \notin broken /\ Whole(r)
    <2>1. Whole(r)'
      BY <1>2, <1>3, <1>4, <1>7 DEF Whole, Failed, SentSoFar, vars, callVars
    <2> QED
      BY <1>3, <1>5, <1>7, <2>1 DEF HandlerInv
  <1> QED
    BY <1>2, <1>6, <1>7, HandlerPlaces

\* Every handler's step keeps its place.
LEMMA HandlerMoves ==
    ASSUME HandlerTypes, CallTypes, StreamInv, NEW r \in Requests, HandlerInv(r), CallInv(r),
           Handler(r)
    PROVE  HandlerInv(r)'
  BY AcceptStep, OpenStep, RequestSentStep, TakeOutputStep, WriteStep, InterruptStep, EndHandlerStep
     DEF Handler, Disconnect, CancelHandler, SendCancelled

\* What is written is a sequence of chunks.
LEMMA HandlerTypesStep ==
    ASSUME HandlerTypes, CallTypes, AnswerInv, [ServerNext]_all
    PROVE  HandlerTypes'
  <1>1. ASSUME NEW r \in Requests, NEW chunks \in Seq(Chunks), WriteNext(r, chunks)
        PROVE  http' \in [Requests -> Stations] /\ pending' \in [Requests -> Seq(Chunks)]
    BY <1>1 DEF WriteNext, SetHttp, HandlerTypes, Stations
  <1>2. ASSUME NEW r \in Requests, NEW where \in Stations, SetHttp(r, where)
        PROVE  http' \in [Requests -> Stations]
    BY <1>2 DEF SetHttp, HandlerTypes
  <1>3. /\ \A r : Failure(r) \in Seq(Chunks) /\ Ending(r) \in Seq(Chunks)
        /\ <<"503">> \in Seq(Chunks) /\ <<"role">> \in Seq(Chunks) /\ <<"text">> \in Seq(Chunks)
    <2>1. /\ <<"503">> \in Seq(Chunks) /\ <<"role">> \in Seq(Chunks) /\ <<"text">> \in Seq(Chunks)
          /\ <<"error", "done">> \in Seq(Chunks) /\ <<"200">> \in Seq(Chunks)
          /\ <<"final", "usage", "done">> \in Seq(Chunks)
      BY DEF Chunks
    <2> QED
      BY <2>1 DEF Failure, Ending
  <1>4. {"opening", "waiting", "cleanup", "ended"} \subseteq Stations
    BY DEF Stations
  <1>5. ASSUME NEW r \in Requests, BeginStream(r), call'[r] # "refused" => pending' = pending
        PROVE  http' \in [Requests -> Stations] /\ pending' \in [Requests -> Seq(Chunks)]
    BY <1>1, <1>2, <1>3, <1>4, <1>5 DEF BeginStream, HandlerTypes
  <1>6. ASSUME NEW r \in Requests, Accept(r) PROVE HandlerTypes'
    BY <1>1, <1>2, <1>3, <1>4, <1>6 DEF Accept, HandlerTypes
  <1>7. ASSUME NEW r \in Requests, Open(r) PROVE HandlerTypes'
    <2>1. http' \in [Requests -> Stations] /\ pending' \in [Requests -> Seq(Chunks)]
      BY <1>1, <1>3, <1>5, <1>7 DEF Open, BeginStream
    <2> QED
      BY <1>7, <2>1 DEF Open, HandlerTypes
  <1>8. ASSUME NEW r \in Requests, RequestSent(r) PROVE HandlerTypes'
    BY <1>1, <1>3, <1>8 DEF RequestSent, HandlerTypes
  <1>9. ASSUME NEW r \in Requests, TakeOutput(r) PROVE HandlerTypes'
    <2>1. HandlerInv(r)
      BY DEF AnswerInv
    <2>2. \/ \E chunks \in {Failure(r), Ending(r), <<"text">>} : WriteNext(r, chunks)
          \/ http' = http /\ pending' = pending
      BY <1>9, <2>1, OutputTaken
    <2>3. http' \in [Requests -> Stations] /\ pending' \in [Requests -> Seq(Chunks)]
      BY <1>1, <1>3, <2>2 DEF HandlerTypes
    <2>4. counted' \in [Requests -> Nat] /\ written' = written /\ broken' = broken
      BY <1>9 DEF TakeOutput, HandlerTypes
    <2> QED
      BY <2>3, <2>4 DEF HandlerTypes
  <1>10. ASSUME NEW r \in Requests, Write(r) PROVE HandlerTypes'
    <2>1. /\ pending[r] \in Seq(Chunks) /\ pending[r] # <<>> /\ written[r] \in Seq(Chunks)
      <3>1. HandlerInv(r) /\ http[r] = "writing"
        BY <1>10 DEF AnswerInv, Write
      <3>2. \A x, y, z : <<x>> # <<>> /\ <<x, y>> # <<>> /\ <<x, y, z>> # <<>>
        OBVIOUS
      <3>3. pending[r] # <<>>
        BY <3>1, <3>2, HandlerPlaces DEF WritingFirst, WritingText, WritingFailure, WritingEnd
      <3> QED
        BY <3>3 DEF HandlerTypes
    <2>2. Head(pending[r]) \in Chunks /\ Tail(pending[r]) \in Seq(Chunks)
      BY <2>1, TailFacts
    <2>3. Append(written[r], Head(pending[r])) \in Seq(Chunks)
      BY <2>1, <2>2, AppendFacts
    <2>4. http' \in [Requests -> Stations] /\ pending' \in [Requests -> Seq(Chunks)]
      <3>1. \/ WriteNext(r, Tail(pending[r]))
            \/ BeginStream(r) /\ (call'[r] # "refused" => pending' = pending)
            \/ (SetHttp(r, "waiting") \/ SetHttp(r, "cleanup")) /\ pending' = pending
        BY <1>10 DEF Write
      <3> QED
        BY <1>1, <1>2, <1>4, <1>5, <2>2, <3>1 DEF HandlerTypes
    <2>5. written' \in [Requests -> Seq(Chunks)] /\ counted' = counted /\ broken' = broken
      BY <1>10, <2>3 DEF Write, HandlerTypes
    <2> QED
      BY <2>4, <2>5 DEF HandlerTypes
  <1>11. ASSUME NEW r \in Requests, Interrupt(r) PROVE HandlerTypes'
    BY <1>2, <1>4, <1>11 DEF Interrupt, HandlerTypes
  <1>12. ASSUME NEW r \in Requests, EndHandler(r) PROVE HandlerTypes'
    BY <1>2, <1>4, <1>12 DEF EndHandler, HandlerTypes
  <1>13. ASSUME UNCHANGED <<http, pending, written, counted, broken>> PROVE HandlerTypes'
    BY <1>13 DEF HandlerTypes
  <1>14. \/ Serve \/ StartFails \/ Signal \/ Watchdog \/ Drained \/ DrainTimeout \/ CloseEngine
         \/ Exit \/ Background \/ Elsewhere \/ UNCHANGED all
         => UNCHANGED <<http, pending, written, counted, broken>>
    BY DEF Serve, StartFails, Signal, Watchdog, Drained, DrainTimeout, CloseEngine, Exit,
           Background, Elsewhere, SetServer, serverVars, all
  <1> QED
    BY <1>6, <1>7, <1>8, <1>9, <1>10, <1>11, <1>12, <1>13, <1>14
       DEF ServerNext, Handler, Disconnect, CancelHandler, SendCancelled

-----------------------------------------------------------------------------
(* The server's properties *)

ServerInv == ClientInv /\ KnownInv /\ HandlerTypes /\ AnswerInv

LEMMA InitServer == ServerInit => ServerInv
  <1> SUFFICES ASSUME ServerInit PROVE ServerInv
    OBVIOUS
  <1>1. Init
    BY DEF ServerInit
  <1>2. ClientInv /\ KnownInv
    BY <1>1, InitClient, InitKnown
  <1>3. HandlerTypes
    <2>1. <<>> \in Seq(Chunks) /\ "none" \in Stations
      BY EmptySeq DEF Stations
    <2> QED
      BY <2>1 DEF ServerInit, HandlerTypes
  <1>4. ASSUME NEW r \in Requests PROVE HandlerInv(r)
    <2>1. /\ http[r] = "none" /\ call[r] = "new" /\ written[r] = <<>> /\ counted[r] = 0
          /\ queue[r] = <<>> /\ delivered[r] = <<>> /\ r \notin broken
      BY DEF ServerInit, Init
    <2>2. Len(delivered[r]) = 0 /\ None \notin Elements(queue[r])
      BY <2>1, ElementsOfEmpty
    <2> QED
      BY <2>1, <2>2 DEF HandlerInv, Fresh
  <1> QED
    BY <1>2, <1>3, <1>4 DEF ServerInv, AnswerInv

\* Every step of the server keeps its invariant.
LEMMA ServerIsInvariant == ServerInv /\ [ServerNext]_all => ServerInv'
  <1> SUFFICES ASSUME ServerInv, [ServerNext]_all PROVE ServerInv'
    OBVIOUS
  <1>0. ClientInv /\ KnownInv /\ HandlerTypes /\ AnswerInv /\ ClientTypes /\ CallTypes /\ StreamInv
    BY DEF ServerInv, ClientInv, ClientTypes
  <1>1. ClientInv' /\ KnownInv'
    BY <1>0, StepsUseClient, ClientIsInvariant, KnownIsInvariant
  <1>2. HandlerTypes'
    BY <1>0, HandlerTypesStep
  <1>3. ASSUME NEW r \in Requests PROVE HandlerInv(r)'
    <2>1. HandlerInv(r) /\ CallInv(r)
      BY <1>0 DEF AnswerInv, KnownInv
    <2>2. CASE Handler(r)
      BY <1>0, <2>1, <2>2, HandlerMoves
    <2>3. ASSUME NEW s \in Requests, s # r, Handler(s) PROVE HandlerInv(r)'
      <3>1. HandlerInv(s)
        BY <1>0 DEF AnswerInv
      <3> QED
        BY <1>0, <2>1, <2>3, <3>1, HandlersApart, HandlerStays
    <2>4. CASE Serve \/ StartFails \/ Signal \/ Watchdog \/ Drained \/ DrainTimeout \/ Exit
               \/ UNCHANGED all
      <3>1. Unmoved(r) /\ UNCHANGED vars
        BY <2>4 DEF Serve, StartFails, Signal, Watchdog, Drained, DrainTimeout, Exit, SetServer,
           all, serverVars, Unmoved
      <3>2. Undisturbed(r)
        BY <3>1 DEF vars, callVars, Undisturbed
      <3> QED
        BY <2>1, <3>1, <3>2, HandlerStays
    <2>5. CASE CloseEngine \/ Background \/ Elsewhere
      <3>1. Unmoved(r)
        BY <2>5 DEF CloseEngine, Background, Elsewhere, serverVars, Unmoved
      <3>2. Undisturbed(r)
        BY <1>0, <2>5, TasksUndisturbed DEF CloseEngine, Background, Elsewhere
      <3> QED
        BY <2>1, <3>1, <3>2, HandlerStays
    <2> QED
      BY <2>2, <2>3, <2>4, <2>5 DEF ServerNext
  <1> QED
    BY <1>1, <1>2, <1>3 DEF ServerInv, AnswerInv

\* However a handler ends, no request runs on for a client that is gone:
\* nobody knows it, nobody still sends it, and the engine is told of its end.
THEOREM ServerHandlersLeaveNothing == ServerSpec => []HandlersLeaveNothing
  <1>1. ASSUME ServerInv PROVE HandlersLeaveNothing
    <2> SUFFICES ASSUME NEW r \in Requests, http[r] = "ended"
                 PROVE  /\ r \notin registered
                        /\ Add(r) \notin Elements(sends)
                        /\ r \in serving /\ ~error /\ ~closing => Abort(r) \in Elements(Outbound)
      BY DEF HandlersLeaveNothing
    <2>1. /\ HandlerInv(r) /\ CallInv(r) /\ NoOrphans /\ (engine = "dead" => serving = {})
      BY <1>1 DEF ServerInv, AnswerInv, KnownInv, ClientInv
    <2>2. call[r] \in Ended \cup {"new"}
      BY <2>1, HandlerPlaces DEF Broken, Whole, Failed, Ended
    <2>3. r \notin registered /\ Add(r) \notin Elements(sends)
      BY <2>1, <2>2 DEF CallInv, Ended
    <2> QED
      BY <2>1, <2>3 DEF NoOrphans
  <1> QED
    BY <1>1, InitServer, ServerIsInvariant, PTL DEF ServerSpec

\* A client that stays gets a whole answer: one response, or a stream with its
\* outputs counted, its one ending and its one [DONE].
THEOREM ServerAnswersAreWhole == ServerSpec => []AnswersAreWhole
  <1>1. ASSUME ServerInv PROVE AnswersAreWhole
    <2> DEFINE w(r) == written[r]
    <2>1. ASSUME NEW r \in Requests, http[r] = "ended", r \notin broken
          PROVE  /\ Whole(r) /\ counted[r] = Len(delivered[r]) /\ w(r) \in Seq(Chunks)
                 /\ Len(delivered[r]) \in Nat
      <3>1. HandlerInv(r) /\ HandlerTypes /\ delivered[r] \in Seq(OutItems)
        BY <1>1 DEF ServerInv, AnswerInv, ClientInv, ClientTypes, CallTypes
      <3> QED
        BY <2>1, <3>1, HandlerPlaces DEF HandlerInv, HandlerTypes, Broken
    <2>2. \A x : <<x>> # <<>> /\ <<x>>[1] = x
      OBVIOUS
    <2>3. ASSUME NEW r \in Requests, http[r] = "ended", r \notin broken
          PROVE  /\ w(r) # <<>>
                 /\ (w(r)[1] = "503" \/ ~Streamed(r)) =>
                       w(r) = IF call[r] = "finished" THEN <<"200">> ELSE <<"503">>
                 /\ (w(r)[1] # "503" /\ Streamed(r)) =>
                       /\ w(r)[Len(w(r))] = "done" /\ Count("done", w(r)) = 1
                       /\ Count("final", w(r)) + Count("error", w(r)) = 1
                       /\ Count("final", w(r)) = 1 <=> call[r] = "finished"
                       /\ Count("text", w(r)) + Count("final", w(r)) = Len(delivered[r])
                       /\ Count("role", w(r)) = 1 <=> body[r].kind = "chat"
                 /\ counted[r] = Len(delivered[r])
      <3>1. CASE ~Streamed(r) \/ w(r) = <<"503">>
        BY <2>1, <2>2, <2>3, <3>1 DEF Whole
      <3>2. CASE Streamed(r) /\ w(r) # <<"503">>
        <4>1. /\ w(r) # <<>> /\ w(r)[Len(w(r))] = "done"
              /\ \/ Failed(r) /\ SentSoFar(r, Len(delivered[r]), 0, 1, 1)
                 \/ call[r] = "finished" /\ SentSoFar(r, Len(delivered[r]) - 1, 1, 0, 1)
          BY <2>1, <2>3, <3>2 DEF Whole
        <4>2. w(r)[1] \in Elements(w(r))
          <5>1. 1 \in 1 .. Len(w(r))
            BY <2>1, <2>3, <4>1, EmptySeq
          <5> QED
            BY <2>1, <2>3, <5>1, ElementsOf
        <4>3. w(r)[1] # "503"
          BY <4>1, <4>2 DEF SentSoFar, Sent
        <4>4. CASE Failed(r) /\ SentSoFar(r, Len(delivered[r]), 0, 1, 1)
          BY <2>1, <2>3, <3>2, <4>1, <4>3, <4>4 DEF Failed, SentSoFar, Sent, Role
        <4>5. CASE call[r] = "finished" /\ SentSoFar(r, Len(delivered[r]) - 1, 1, 0, 1)
          BY <2>1, <2>3, <3>2, <4>1, <4>3, <4>5 DEF SentSoFar, Sent, Role
        <4> QED
          BY <4>1, <4>4, <4>5
      <3> QED
        BY <3>1, <3>2
    <2> QED
      BY <2>3 DEF AnswersAreWhole
  <1> QED
    BY <1>1, InitServer, ServerIsInvariant, PTL DEF ServerSpec
=============================================================================
