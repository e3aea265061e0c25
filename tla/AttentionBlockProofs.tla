------------------------ MODULE AttentionBlockProofs ------------------------
(***************************************************************************)
(* One block of the attention kernel, for any number and size of warps,    *)
(* tiles and copies, and any scores.                                       *)
(***************************************************************************)
EXTENDS AttentionBlock, CommonFacts, SequenceTheorems, FiniteSetTheorems, TLAPS

-----------------------------------------------------------------------------
(* Types *)

KvRows == 0 .. KvTile - 1

\* What is on its way, to any rows.
Sources == {"zero", "query", "key", "value"} \X Nat
Partial == UNION {[rows -> Sources] : rows \in SUBSET Nat}
Groups == [tile : {"A", "B"}, rows : Partial]

InputInv ==
    /\ seqLen \in Nat \ {0} /\ queryLen \in Nat \ {0} /\ queryLen <= seqLen
    /\ first \in Nat /\ first < NumRows
    /\ score \in [0 .. seqLen - 1 -> Scores]

TypeInv ==
    /\ InputInv
    /\ DOMAIN pc = Warps /\ kvStart \in [Warps -> Nat]
    /\ groups \in [Warps -> Seq(Groups)]
    /\ DOMAIN tileA = 0 .. Larger(TileRows, KvTile) - 1
    /\ DOMAIN tileB = KvRows
    /\ DOMAIN q = Warps /\ DOMAIN mRef = Warps /\ DOMAIN p = Warps
    /\ DOMAIN l = Warps /\ DOMAIN acc = Warps
    /\ DOMAIN output = 0 .. NumRows - 1

-----------------------------------------------------------------------------
(* What the shared memory holds *)

\* What a tile is to hold: the block's queries, and the keys and values of
\* the tile at k.
Queries == [y \in TileIndices |-> QuerySource(y)]
Keys(k) == [y \in KvRows |-> IF k + y < BlockKvLen THEN Key(k + y) ELSE Zero]
Values(k) == [y \in KvRows |-> IF k + y < BlockKvLen THEN Value(k + y) ELSE Zero]

\* These rows of a tile are there.
Here(mem, rows, source) == \A y \in rows : mem[y] = source[y]

\* Those of a warp's share that are not on their way are there.
Filling(mem, tile, g, share, source) ==
    /\ g.tile = tile
    /\ DOMAIN g.rows \subseteq share
    /\ Here(g.rows, DOMAIN g.rows, source)
    /\ Here(mem, share \ DOMAIN g.rows, source)

Together(k, where) == \A w \in Warps : kvStart[w] = k /\ pc[w] \in where

\* Between two barriers all warps are in one of these segments, at one tile k
\* of keys.
LoadingQueries(k) ==
    /\ k = 0 /\ Together(k, {"loadQ", "waitQ", "syncQ"})
    /\ \A w \in Warps :
          /\ pc[w] = "loadQ" => groups[w] = <<>>
          /\ pc[w] = "waitQ" =>
                /\ Len(groups[w]) = 1
                /\ Filling(tileA, "A", groups[w][1], Share(w, TileIndices), Queries)
          /\ pc[w] = "syncQ" =>
                groups[w] = <<>> /\ Here(tileA, Share(w, TileIndices), Queries)

ReadingQueries(k) ==
    /\ k = 0 /\ Together(k, {"readQ", "syncRead"})
    /\ \A w \in Warps : groups[w] = <<>>
    /\ Here(tileA, TileIndices, Queries)

LoadingKeys(k) ==
    /\ k < BlockKvLen /\ Together(k, {"loop", "waitK", "syncK"})
    /\ \A w \in Warps : LET share == Share(w, KvRows) IN
          /\ pc[w] = "loop" => groups[w] = <<>>
          /\ pc[w] = "waitK" =>
                /\ Len(groups[w]) = 2
                /\ Filling(tileA, "A", groups[w][1], share, Keys(k))
                /\ Filling(tileB, "B", groups[w][2], share, Values(k))
          /\ pc[w] = "syncK" =>
                /\ Len(groups[w]) = 1
                /\ Here(tileA, share, Keys(k))
                /\ Filling(tileB, "B", groups[w][1], share, Values(k))

Scoring(k) ==
    /\ k < BlockKvLen /\ Together(k, {"scores", "waitV", "syncV"})
    /\ Here(tileA, KvRows, Keys(k))
    /\ \A w \in Warps : LET share == Share(w, KvRows) IN
          /\ pc[w] \in {"scores", "waitV"} =>
                Len(groups[w]) = 1 /\ Filling(tileB, "B", groups[w][1], share, Values(k))
          /\ pc[w] = "syncV" => groups[w] = <<>> /\ Here(tileB, share, Values(k))

Summing(k) ==
    /\ k < BlockKvLen
    /\ Here(tileB, KvRows, Values(k))
    /\ \A w \in Warps :
          /\ groups[w] = <<>>
          /\ \/ pc[w] = "values" /\ kvStart[w] = k
             \/ pc[w] = "syncTile" /\ kvStart[w] = k + KvTile

\* What a warp stages for its rows.
Staged(w) == \A y \in WarpTile(w) : tileA[y] = <<"output", acc[w][y], l[w][y]>>

Storing(k) ==
    /\ k >= BlockKvLen /\ Together(k, {"loop", "syncO"})
    /\ \A w \in Warps : groups[w] = <<>> /\ (pc[w] = "syncO" => Staged(w))

Writing(k) ==
    /\ k >= BlockKvLen /\ Together(k, {"writeBack", "done"})
    /\ \A w \in Warps :
          /\ groups[w] = <<>> /\ Staged(w)
          /\ pc[w] = "done" =>
                \A row \in DOMAIN output :
                    row - first \in Share(w, TileIndices) => output[row] = tileA[row - first]

TileInv ==
    \E k \in Nat :
        \/ LoadingQueries(k) \/ ReadingQueries(k) \/ LoadingKeys(k) \/ Scoring(k)
        \/ Summing(k) \/ Storing(k) \/ Writing(k)

-----------------------------------------------------------------------------
(* What a row adds up *)

Real(y) == first + y < NumRows
ScoreAt(y, pos) == IF Real(y) THEN score[pos] ELSE 0

\* How many keys row y sees, and how many of them are among the first k.
Own(y) ==
    LET seen == PrefixLen + (first + y) \div GroupSize
    IN  IF seen < BlockKvLen THEN seen + 1 ELSE BlockKvLen
Among(y, k) == IF k < Own(y) THEN k ELSE Own(y)

\* The first n keys under reference m: their weights, and their values.
Weights(y, n, m) == [i \in 1 .. n |-> [key |-> Key(i - 1), exponent |-> ScoreAt(y, i - 1) - m]]
Sums(y, n, m) ==
    [i \in 1 .. n |-> [key |-> Key(i - 1), value |-> Value(i - 1),
                       exponent |-> ScoreAt(y, i - 1) - m]]

\* The weights of the tile at k.
TileWeights(y, k, m) ==
    [i \in 1 .. Among(y, k + KvTile) - Among(y, k) |->
        [column |-> i - 1, key |-> Key(k + i - 1), exponent |-> ScoreAt(y, k + i - 1) - m]]

\* A reference that was the largest score, and may have been left behind.
Reference(y, n, m) ==
    /\ IF Real(y) THEN m \in Scores ELSE m = 0
    /\ \A pos \in 0 .. n - 1 : ScoreAt(y, pos) <= m + MaxExponentGap
    /\ \E pos \in 0 .. n - 1 : ScoreAt(y, pos) >= m

RowInv(w, y) ==
    LET k == kvStart[w]
        m == mRef[w][y]
    IN  /\ pc[w] \notin {"loadQ", "waitQ", "syncQ", "readQ"} => q[w][y] = QuerySource(y)
        /\ acc[w][y] = Sums(y, Among(y, k), m)
        /\ IF pc[w] \in {"waitV", "syncV", "values"}
           THEN /\ l[w][y] = Weights(y, Among(y, k + KvTile), m)
                /\ p[w][y] = TileWeights(y, k, m)
                /\ Reference(y, Among(y, k + KvTile), m)
           ELSE /\ l[w][y] = Weights(y, Among(y, k), m)
                /\ p[w][y] = <<>>
                /\ k > 0 => Reference(y, Among(y, k), m)

SumInv == \A w \in Warps : \A y \in WarpTile(w) : RowInv(w, y)
-----------------------------------------------------------------------------
(* The split of rows among warps *)

LEMMA Sizes ==
    /\ GroupSize \in Nat \ {0} /\ WarpRows \in Nat \ {0} /\ NumWarps \in Nat \ {0}
    /\ KvTile \in Nat \ {0} /\ CopyRows \in Nat \ {0} /\ MaxExponentGap \in Nat
    /\ TileRows \in Nat \ {0} /\ 0 \in Warps
    /\ TileIndices \in SUBSET Nat /\ KvRows \in SUBSET Nat
    /\ \A w \in Warps : w \in Nat /\ w < NumWarps
    /\ TileIndices \subseteq 0 .. Larger(TileRows, KvTile) - 1
    /\ KvRows \subseteq 0 .. Larger(TileRows, KvTile) - 1
  <1>1. TileRows \in Nat \ {0}
    BY PagedAttentionAssumption DEF TileRows
  <1> QED
    BY <1>1, PagedAttentionAssumption, AttentionBlockAssumption
    DEF Warps, TileIndices, KvRows, Larger

\* Every row of a tile is copied by one warp.
LEMMA SharesSplit ==
    ASSUME NEW rows \in SUBSET Nat
    PROVE  /\ \A y \in rows : \E w \in Warps : y \in Share(w, rows)
           /\ \A w \in Warps : Share(w, rows) \subseteq rows
           /\ \A v, w \in Warps : v # w => Share(v, rows) \cap Share(w, rows) = {}
  <1>1. ASSUME NEW y \in rows PROVE (y \div CopyRows) % NumWarps \in Warps
    <2>1. y \in Nat /\ y \div CopyRows \in Nat
      BY Sizes, Quotient
    <2> QED
      BY <2>1, Sizes, Quotient DEF Warps
  <1> QED
    BY <1>1 DEF Share

\* Every row of the block's is computed by a warp.
LEMMA RowsOfWarps ==
    /\ \A w \in Warps : WarpTile(w) \subseteq TileIndices
    /\ \A y \in TileIndices : \E w \in Warps : y \in WarpTile(w)
    /\ \A v, w \in Warps : v # w => WarpTile(v) \cap WarpTile(w) = {}
  <1>1. ASSUME NEW w \in Warps PROVE WarpTile(w) \subseteq TileIndices
    <2>1. w + 1 <= NumWarps /\ w \in Nat /\ w + 1 \in Nat
      BY Sizes
    <2>2. (w + 1) * WarpRows <= NumWarps * WarpRows /\ (w + 1) * WarpRows = w * WarpRows + WarpRows
      BY <2>1, Sizes
    <2>3. w * WarpRows \in Nat
      BY <2>1, Sizes
    <2> QED
      BY <2>2, <2>3, Sizes DEF WarpTile, TileIndices, TileRows
  <1>2. ASSUME NEW y \in TileIndices PROVE \E w \in Warps : y \in WarpTile(w)
    <2>1. y \in Nat /\ y < NumWarps * WarpRows
      BY Sizes DEF TileIndices, TileRows
    <2>2. y \div WarpRows \in Nat /\ y % WarpRows \in 0 .. WarpRows - 1
          /\ y = WarpRows * (y \div WarpRows) + (y % WarpRows)
      BY <2>1, Sizes, Quotient
    <2>3. y \div WarpRows < NumWarps
      BY <2>1, Sizes, QuotientBelow
    <2>4. y \div WarpRows \in Warps
      BY <2>2, <2>3, Sizes DEF Warps
    <2>5. y \in WarpTile(y \div WarpRows)
      BY <2>1, <2>2, Sizes DEF WarpTile
    <2> QED
      BY <2>4, <2>5
  <1>3. ASSUME NEW v \in Warps, NEW w \in Warps, v < w PROVE WarpTile(v) \cap WarpTile(w) = {}
    <2>1. v \in Nat /\ w \in Nat /\ v + 1 <= w
      BY <1>3, Sizes
    <2>2. v * WarpRows + WarpRows <= w * WarpRows /\ v * WarpRows \in Nat /\ w * WarpRows \in Nat
      BY <2>1, Sizes
    <2> QED
      BY <2>2, Sizes DEF WarpTile
  <1>4. \A v, w \in Warps : v # w => v < w \/ w < v
    BY Sizes
  <1> QED
    BY <1>1, <1>2, <1>3, <1>4

\* How many keys the block walks.
LEMMA BlockLength ==
    ASSUME InputInv
    PROVE  /\ NumRows \in Nat /\ PrefixLen \in Nat
           /\ BlockKvLen \in Nat \ {0} /\ BlockKvLen <= seqLen
           /\ BlockKvLen <= PrefixLen + (first + TileRows - 1) \div GroupSize + 1
           /\ \/ BlockKvLen = seqLen
              \/ BlockKvLen = PrefixLen + (first + TileRows - 1) \div GroupSize + 1
  <1>1. NumRows \in Nat /\ PrefixLen \in Nat /\ first + TileRows - 1 \in Nat
    BY Sizes DEF InputInv, NumRows, PrefixLen
  <1>2. (first + TileRows - 1) \div GroupSize \in Nat
    BY <1>1, Sizes, Quotient
  <1> QED
    BY <1>1, <1>2, Sizes DEF InputInv, BlockKvLen, KvLen

-----------------------------------------------------------------------------
(* Types are kept *)

LEMMA IsGroup ==
    ASSUME NEW tile \in {"A", "B"}, NEW rows \in SUBSET Nat, NEW f \in [rows -> Sources]
    PROVE  Group(tile, f) \in Groups
  <1>1. f \in Partial
    BY DEF Partial
  <1> QED
    BY <1>1 DEF Group, Groups

LEMMA OfGroup ==
    ASSUME NEW g \in Groups
    PROVE  /\ g.tile \in {"A", "B"} /\ g = [tile |-> g.tile, rows |-> g.rows]
           /\ DOMAIN g.rows \in SUBSET Nat /\ g.rows \in [DOMAIN g.rows -> Sources]
  <1>1. g.rows \in Partial /\ g.tile \in {"A", "B"} /\ g = [tile |-> g.tile, rows |-> g.rows]
    BY DEF Groups
  <1>2. PICK rows \in SUBSET Nat : g.rows \in [rows -> Sources]
    BY <1>1 DEF Partial
  <1>3. DOMAIN g.rows = rows
    BY <1>2
  <1> QED
    BY <1>1, <1>2, <1>3

\* Where rows are copied from.
LEMMA SourceTypes ==
    ASSUME TypeInv, NEW w \in Warps, NEW y \in Nat
    PROVE  /\ QuerySource(y) \in Sources
           /\ KeySource(w, y) \in Sources /\ ValueSource(w, y) \in Sources
  <1>1. first + y \in Nat /\ kvStart[w] + y \in Nat
    BY DEF TypeInv, InputInv
  <1>2. Zero \in Sources /\ Query(first + y) \in Sources
        /\ Key(kvStart[w] + y) \in Sources /\ Value(kvStart[w] + y) \in Sources
    BY <1>1 DEF Query, Key, Value, Zero, Sources
  <1> QED
    BY <1>2 DEF QuerySource, KeySource, ValueSource

\* A group once row y has arrived.
Without(g, y) == [g EXCEPT !.rows = [z \in DOMAIN g.rows \ {y} |-> g.rows[z]]]

\* What the arrival of a row changes.
LEMMA LandEffect ==
    ASSUME TypeInv, NEW w \in Warps, NEW i, NEW y, Land(w, i, y)
    PROVE  LET g == groups[w][i] IN
           /\ i \in 1 .. Len(groups[w]) /\ g \in Groups /\ y \in DOMAIN g.rows
           /\ Without(g, y) \in Groups
           /\ groups'[w] \in Seq(Groups) /\ Len(groups'[w]) = Len(groups[w])
           /\ groups'[w][i] = Without(g, y)
           /\ \A j \in 1 .. Len(groups[w]) : j # i => groups'[w][j] = groups[w][j]
           /\ groups' \in [Warps -> Seq(Groups)]
           /\ \A v \in Warps : v # w => groups'[v] = groups[v]
           /\ \/ g.tile = "A" /\ tileA' = [tileA EXCEPT ![y] = g.rows[y]] /\ tileB' = tileB
              \/ g.tile = "B" /\ tileB' = [tileB EXCEPT ![y] = g.rows[y]] /\ tileA' = tileA
  <1> DEFINE g == groups[w][i]
             old == groups[w]
             new == [old EXCEPT ![i] = Without(g, y)]
  <1>1. old \in Seq(Groups) /\ groups \in [Warps -> Seq(Groups)]
    BY DEF TypeInv
  <1>2. i \in 1 .. Len(old) /\ y \in DOMAIN g.rows
    BY <1>1 DEF Land
  <1>3. g \in Groups
    BY <1>1, <1>2
  <1>4. Without(g, y) \in Groups
    <2>1. [z \in DOMAIN g.rows \ {y} |-> g.rows[z]] \in [DOMAIN g.rows \ {y} -> Sources]
      BY <1>3, OfGroup
    <2>2. DOMAIN g.rows \ {y} \in SUBSET Nat /\ g.tile \in {"A", "B"}
      BY <1>3, OfGroup
    <2>3. Without(g, y) = Group(g.tile, [z \in DOMAIN g.rows \ {y} |-> g.rows[z]])
      BY <1>3, OfGroup DEF Without, Group
    <2> QED
      BY <2>1, <2>2, <2>3, IsGroup
  <1>5. groups' = [groups EXCEPT ![w] = new]
    BY DEF Land, Without
  <1>6. /\ new \in Seq(Groups) /\ Len(new) = Len(old) /\ new[i] = Without(g, y)
        /\ \A j \in 1 .. Len(old) : j # i => new[j] = old[j]
    BY <1>1, <1>2, <1>4, ExceptSeq
  <1>7. /\ groups' \in [Warps -> Seq(Groups)] /\ groups'[w] = new
        /\ \A v \in Warps : v # w => groups'[v] = groups[v]
    <2> HIDE DEF new
    <2> QED
      BY <1>1, <1>5, <1>6
  <1>8. \/ g.tile = "A" /\ tileA' = [tileA EXCEPT ![y] = g.rows[y]] /\ tileB' = tileB
        \/ g.tile = "B" /\ tileB' = [tileB EXCEPT ![y] = g.rows[y]] /\ tileA' = tileA
    BY <1>3, OfGroup DEF Land
  <1> QED
    BY <1>2, <1>3, <1>4, <1>6, <1>7, <1>8

\* What a wait leaves on its way: the newest groups.
LEMMA WaitEffect ==
    ASSUME TypeInv, NEW w \in Warps, NEW at, NEW to, NEW n \in Nat,
           n <= Len(groups[w]), Wait(w, at, n, to)
    PROVE  /\ groups' \in [Warps -> Seq(Groups)]
           /\ Len(groups'[w]) = n
           /\ \A i \in 1 .. n : groups'[w][i] = groups[w][Len(groups[w]) - n + i]
           /\ \A v \in Warps : v # w => groups'[v] = groups[v]
  <1> DEFINE old == groups[w]
             new == SubSeq(old, Len(old) - n + 1, Len(old))
  <1>1. old \in Seq(Groups) /\ groups \in [Warps -> Seq(Groups)]
    BY DEF TypeInv
  <1>2. /\ new \in Seq(Groups) /\ Len(new) = n
        /\ \A i \in 1 .. n : new[i] = old[Len(old) - n + i]
    <2>1. Len(old) \in Nat /\ Len(old) - n + 1 \in 1 .. Len(old) + 1
      BY <1>1
    <2> HIDE DEF old
    <2> QED
      BY <1>1, <2>1, SubSeqProperties
  <1>3. groups' = [groups EXCEPT ![w] = new]
    BY DEF Wait
  <1> HIDE DEF new
  <1> QED
    BY <1>1, <1>2, <1>3

LEMMA InitTypes == Init => TypeInv
  <1> SUFFICES ASSUME Init PROVE TypeInv
    OBVIOUS
  <1>1. NumRows \in Nat /\ InputInv
    BY AttentionBlockAssumption, Sizes DEF Init, InputInv, NumRows
  <1>2. groups \in [Warps -> Seq(Groups)]
    BY DEF Init
  <1>3. kvStart \in [Warps -> Nat]
    BY DEF Init
  <1> QED
    BY <1>1, <1>2, <1>3 DEF Init, TypeInv, Registers, KvRows

\* The request is not changed.
LEMMA InputsStay ==
    ASSUME UNCHANGED inputVars
    PROVE  /\ InputInv' <=> InputInv
           /\ NumRows' = NumRows /\ PrefixLen' = PrefixLen /\ BlockKvLen' = BlockKvLen
           /\ Queries' = Queries
           /\ \A k : Keys(k)' = Keys(k) /\ Values(k)' = Values(k)
           /\ \A y : QuerySource(y)' = QuerySource(y)
  BY DEF inputVars, InputInv, NumRows, PrefixLen, BlockKvLen, Queries, Keys, Values, QuerySource

LEMMA NextTypes == TypeInv /\ TileInv /\ [Next]_vars => TypeInv'
  <1> SUFFICES ASSUME TypeInv, TileInv, [Next]_vars PROVE TypeInv'
    OBVIOUS
  <1>1. UNCHANGED inputVars
    BY DEF Next, vars, Copying, Land, Barrier, Run, LoadQ, LoadKV, ReadQ, ComputeScores,
           ComputeValues, Store, WriteBack, Wait
  <1>2. InputInv' /\ NumRows' = NumRows
    BY <1>1, InputsStay DEF TypeInv
  <1>3. ASSUME groups' \in [Warps -> Seq(Groups)], kvStart' \in [Warps -> Nat],
               DOMAIN pc' = DOMAIN pc, DOMAIN tileA' = DOMAIN tileA, DOMAIN tileB' = DOMAIN tileB,
               DOMAIN q' = DOMAIN q, DOMAIN mRef' = DOMAIN mRef, DOMAIN p' = DOMAIN p,
               DOMAIN l' = DOMAIN l, DOMAIN acc' = DOMAIN acc, DOMAIN output' = DOMAIN output
        PROVE  TypeInv'
    BY <1>2, <1>3 DEF TypeInv
  <1> USE DEF Goto, regVars
  <1>4. CASE Copying
    <2>1. PICK w \in Warps, i \in 1 .. 2, y \in DOMAIN tileA : Land(w, i, y)
      BY <1>4 DEF Copying
    <2>2. /\ groups' \in [Warps -> Seq(Groups)]
          /\ DOMAIN tileA' = DOMAIN tileA /\ DOMAIN tileB' = DOMAIN tileB
      BY <2>1, LandEffect
    <2> QED
      BY <1>3, <2>1, <2>2 DEF Land, TypeInv
  <1>5. CASE Barrier
    BY <1>3, <1>5 DEF Barrier, TypeInv
  <1>6. ASSUME NEW w \in Warps, Run(w) PROVE TypeInv'
    <2>1. CASE LoadQ(w)
      <3>1. [y \in Share(w, TileIndices) |-> QuerySource(y)]
                \in [Share(w, TileIndices) -> Sources]
        BY SourceTypes DEF Share, TileIndices
      <3>2. Group("A", [y \in Share(w, TileIndices) |-> QuerySource(y)]) \in Groups
        BY <3>1, IsGroup DEF Share, TileIndices
      <3>3. groups' \in [Warps -> Seq(Groups)]
        BY <2>1, <3>2 DEF LoadQ, TypeInv
      <3> QED
        BY <1>3, <2>1, <3>3 DEF LoadQ, TypeInv
    <2>2. CASE LoadKV(w)
      <3> DEFINE rows == Share(w, 0 .. KvTile - 1)
                 keys == Group("A", [y \in rows |-> KeySource(w, y)])
                 values == Group("B", [y \in rows |-> ValueSource(w, y)])
      <3>1. rows \in SUBSET Nat
        BY DEF Share
      <3>2. keys \in Groups /\ values \in Groups
        <4>1. /\ [y \in rows |-> KeySource(w, y)] \in [rows -> Sources]
              /\ [y \in rows |-> ValueSource(w, y)] \in [rows -> Sources]
          BY <3>1, SourceTypes
        <4> QED
          BY <3>1, <4>1, IsGroup
      <3>3. groups' = [groups EXCEPT ![w] = @ \o <<keys, values>>]
        BY <2>2 DEF LoadKV
      <3>4. groups' \in [Warps -> Seq(Groups)]
        <4> HIDE DEF keys, values
        <4>1. <<keys, values>> \in Seq(Groups)
          BY <3>2
        <4>2. groups[w] \o <<keys, values>> \in Seq(Groups)
          BY <4>1, ConcatProperties DEF TypeInv
        <4> QED
          BY <3>3, <4>2 DEF TypeInv
      <3> QED
        BY <1>3, <2>2, <3>4 DEF LoadKV, TypeInv
    <2>3. CASE ReadQ(w)
      BY <1>3, <2>3 DEF ReadQ, TypeInv
    <2>4. CASE ComputeScores(w)
      BY <1>3, <2>4 DEF ComputeScores, TypeInv
    <2>5. CASE ComputeValues(w)
      <3>1. kvStart' \in [Warps -> Nat]
        <4>1. kvStart' = [kvStart EXCEPT ![w] = kvStart[w] + KvTile]
          BY <2>5 DEF ComputeValues
        <4>2. kvStart \in [Warps -> Nat] /\ kvStart[w] + KvTile \in Nat
          BY Sizes DEF TypeInv
        <4> QED
          BY <4>1, <4>2
      <3> QED
        BY <1>3, <2>5, <3>1 DEF ComputeValues, TypeInv
    <2>6. CASE Store(w)
      BY <1>3, <2>6 DEF Store, TypeInv
    <2>7. CASE WriteBack(w)
      BY <1>3, <2>7 DEF WriteBack, TypeInv
    <2>8. ASSUME NEW at, NEW to, NEW n \in Nat, n <= Len(groups[w]), Wait(w, at, n, to)
          PROVE  TypeInv'
      <3>1. groups' \in [Warps -> Seq(Groups)]
        BY <2>8, WaitEffect
      <3> QED
        BY <1>3, <2>8, <3>1 DEF Wait, TypeInv
    <2>9. CASE Wait(w, "waitQ", 0, "syncQ")
      <3>1. Len(groups[w]) \in Nat
        BY DEF TypeInv
      <3> QED
        BY <2>8, <2>9, <3>1
    <2>10. CASE Wait(w, "waitK", 1, "syncK")
      <3>1. 1 <= Len(groups[w])
        BY <2>10 DEF Wait, TileInv, LoadingQueries, ReadingQueries, LoadingKeys, Scoring, Summing,
                     Storing, Writing, Together
      <3> QED
        BY <2>8, <2>10, <3>1
    <2>11. CASE Wait(w, "waitV", 0, "syncV")
      <3>1. Len(groups[w]) \in Nat
        BY DEF TypeInv
      <3> QED
        BY <2>8, <2>11, <3>1
    <2> QED
      BY <1>6, <2>1, <2>2, <2>3, <2>4, <2>5, <2>6, <2>7, <2>9, <2>10, <2>11 DEF Run
  <1>7. CASE UNCHANGED vars
    BY <1>3, <1>7 DEF vars, TypeInv
  <1> QED
    BY <1>4, <1>5, <1>6, <1>7 DEF Next

-----------------------------------------------------------------------------
(* The shared memory, step by step *)

LEMMA InitTiles == Init => TileInv
  <1> SUFFICES ASSUME Init PROVE TileInv
    OBVIOUS
  <1>1. LoadingQueries(0)
    BY DEF Init, LoadingQueries, Together
  <1> QED
    BY <1>1 DEF TileInv

LEMMA LoadQTiles ==
    ASSUME TypeInv, TileInv, NEW w \in Warps, LoadQ(w)
    PROVE  TileInv'
  <1> DEFINE share == Share(w, TileIndices)
             g == Group("A", [y \in share |-> QuerySource(y)])
  <1>1. PICK k \in Nat : LoadingQueries(k)
    BY DEF LoadQ, TileInv, LoadingQueries, ReadingQueries, LoadingKeys, Scoring, Summing,
           Storing, Writing, Together
  <1>2. groups[w] = <<>> /\ groups' = [groups EXCEPT ![w] = Append(@, g)]
    BY <1>1 DEF LoadQ, LoadingQueries
  <1>3. Len(groups'[w]) = 1 /\ groups'[w][1] = g /\ \A v \in Warps : v # w => groups'[v] = groups[v]
    <2> HIDE DEF g
    <2> QED
      BY <1>2 DEF TypeInv
  <1>4. UNCHANGED inputVars /\ tileA' = tileA /\ kvStart' = kvStart
        /\ pc'[w] = "waitQ" /\ \A v \in Warps : v # w => pc'[v] = pc[v]
    BY DEF LoadQ, Goto, TypeInv
  <1>5. Filling(tileA', "A", g, share, Queries)
    <2>1. g.tile = "A" /\ g.rows = [y \in share |-> QuerySource(y)]
      BY DEF Group
    <2>2. share \in SUBSET TileIndices
      BY DEF Share
    <2> QED
      BY <2>1, <2>2 DEF Filling, Here, Queries
  <1>6. LoadingQueries(k)'
    <2> HIDE DEF g, share
    <2>1. Queries' = Queries
      BY <1>4, InputsStay
    <2>2. ASSUME NEW v \in Warps
          PROVE  /\ kvStart'[v] = k /\ pc'[v] \in {"loadQ", "waitQ", "syncQ"}
                 /\ pc'[v] = "loadQ" => groups'[v] = <<>>
                 /\ pc'[v] = "waitQ" =>
                       /\ Len(groups'[v]) = 1
                       /\ Filling(tileA', "A", groups'[v][1], Share(v, TileIndices), Queries)
                 /\ pc'[v] = "syncQ" =>
                       groups'[v] = <<>> /\ Here(tileA', Share(v, TileIndices), Queries)
      BY <1>1, <1>3, <1>4, <1>5 DEF LoadingQueries, Together, share
    <2> QED
      BY <1>1, <2>1, <2>2 DEF LoadingQueries, Together
  <1> QED
    BY <1>6 DEF TileInv

LEMMA WaitQTiles ==
    ASSUME TypeInv, TileInv, NEW w \in Warps, Wait(w, "waitQ", 0, "syncQ")
    PROVE  TileInv'
  <1>1. PICK k \in Nat : LoadingQueries(k)
    BY DEF Wait, TileInv, LoadingQueries, ReadingQueries, LoadingKeys, Scoring, Summing,
           Storing, Writing, Together
  <1>2. Len(groups[w]) = 1 /\ Filling(tileA, "A", groups[w][1], Share(w, TileIndices), Queries)
    BY <1>1 DEF Wait, LoadingQueries
  <1>3. /\ groups'[w] \in Seq(Groups) /\ Len(groups'[w]) = 0
        /\ \A v \in Warps : v # w => groups'[v] = groups[v]
    BY <1>2, WaitEffect
  <1>4. groups'[w] = <<>>
    BY <1>3, EmptySeq
  <1>5. UNCHANGED inputVars /\ tileA' = tileA /\ kvStart' = kvStart
        /\ pc'[w] = "syncQ" /\ \A v \in Warps : v # w => pc'[v] = pc[v]
    BY DEF Wait, Goto, TypeInv
  <1>6. Here(tileA, Share(w, TileIndices), Queries)
    <2>1. DOMAIN groups[w][1].rows = {}
      BY <1>2 DEF Wait, Arrived
    <2> QED
      BY <1>2, <2>1 DEF Filling, Here
  <1>7. LoadingQueries(k)'
    <2>1. Queries' = Queries
      BY <1>5, InputsStay
    <2>2. ASSUME NEW v \in Warps
          PROVE  /\ kvStart'[v] = k /\ pc'[v] \in {"loadQ", "waitQ", "syncQ"}
                 /\ pc'[v] = "loadQ" => groups'[v] = <<>>
                 /\ pc'[v] = "waitQ" =>
                       /\ Len(groups'[v]) = 1
                       /\ Filling(tileA', "A", groups'[v][1], Share(v, TileIndices), Queries)
                 /\ pc'[v] = "syncQ" =>
                       groups'[v] = <<>> /\ Here(tileA', Share(v, TileIndices), Queries)
      BY <1>1, <1>3, <1>4, <1>5, <1>6 DEF LoadingQueries, Together
    <2> QED
      BY <1>1, <2>1, <2>2 DEF LoadingQueries, Together
  <1> QED
    BY <1>7 DEF TileInv

LEMMA ReadQTiles ==
    ASSUME TypeInv, TileInv, NEW w \in Warps, ReadQ(w)
    PROVE  TileInv'
  <1>1. PICK k \in Nat : ReadingQueries(k)
    BY DEF ReadQ, TileInv, LoadingQueries, ReadingQueries, LoadingKeys, Scoring, Summing,
           Storing, Writing, Together
  <1>2. UNCHANGED inputVars /\ tileA' = tileA /\ kvStart' = kvStart /\ groups' = groups
        /\ pc'[w] = "syncRead" /\ \A v \in Warps : v # w => pc'[v] = pc[v]
    BY DEF ReadQ, Goto, TypeInv
  <1>3. ReadingQueries(k)'
    <2>1. Queries' = Queries
      BY <1>2, InputsStay
    <2> QED
      BY <1>1, <1>2, <2>1 DEF ReadingQueries, Together
  <1> QED
    BY <1>3 DEF TileInv

LEMMA LoadKVTiles ==
    ASSUME TypeInv, TileInv, NEW w \in Warps, LoadKV(w)
    PROVE  TileInv'
  <1> DEFINE share == Share(w, KvRows)
             keys == Group("A", [y \in share |-> KeySource(w, y)])
             values == Group("B", [y \in share |-> ValueSource(w, y)])
  <1>1. PICK k \in Nat : LoadingKeys(k)
    <2>1. PICK k \in Nat : LoadingKeys(k) \/ Storing(k)
      BY DEF LoadKV, TileInv, LoadingQueries, ReadingQueries, LoadingKeys, Scoring, Summing,
             Storing, Writing, Together
    <2>2. ~Storing(k)
      <3>1. InputInv
        BY DEF TypeInv
      <3> QED
        BY <3>1, BlockLength DEF LoadKV, InLoop, Storing, Together
    <2> QED
      BY <2>1, <2>2
  <1>2. kvStart[w] = k /\ groups[w] = <<>> /\ groups' = [groups EXCEPT ![w] = @ \o <<keys, values>>]
    BY <1>1 DEF LoadKV, LoadingKeys, Together, KvRows
  <1>3. /\ Len(groups'[w]) = 2 /\ groups'[w][1] = keys /\ groups'[w][2] = values
        /\ \A v \in Warps : v # w => groups'[v] = groups[v]
    <2> HIDE DEF keys, values
    <2> QED
      BY <1>2 DEF TypeInv
  <1>4. UNCHANGED inputVars /\ tileA' = tileA /\ tileB' = tileB /\ kvStart' = kvStart
        /\ pc'[w] = "waitK" /\ \A v \in Warps : v # w => pc'[v] = pc[v]
    BY DEF LoadKV, Goto, TypeInv
  <1>5. Filling(tileA, "A", keys, share, Keys(k)) /\ Filling(tileB, "B", values, share, Values(k))
    <2>1. /\ keys.tile = "A" /\ keys.rows = [y \in share |-> KeySource(w, y)]
          /\ values.tile = "B" /\ values.rows = [y \in share |-> ValueSource(w, y)]
      BY DEF Group
    <2>2. share \in SUBSET KvRows
      BY DEF Share
    <2>3. \A y \in share : KeySource(w, y) = Keys(k)[y] /\ ValueSource(w, y) = Values(k)[y]
      BY <1>2, <2>2 DEF Keys, Values, KeySource, ValueSource
    <2> QED
      BY <2>1, <2>2, <2>3 DEF Filling, Here
  <1>6. LoadingKeys(k)'
    <2> HIDE DEF keys, values, share
    <2>1. BlockKvLen' = BlockKvLen /\ Keys(k)' = Keys(k) /\ Values(k)' = Values(k)
      BY <1>4, InputsStay
    <2>2. ASSUME NEW v \in Warps
          PROVE  /\ kvStart'[v] = k /\ pc'[v] \in {"loop", "waitK", "syncK"}
                 /\ pc'[v] = "loop" => groups'[v] = <<>>
                 /\ pc'[v] = "waitK" =>
                       /\ Len(groups'[v]) = 2
                       /\ Filling(tileA', "A", groups'[v][1], Share(v, KvRows), Keys(k))
                       /\ Filling(tileB', "B", groups'[v][2], Share(v, KvRows), Values(k))
                 /\ pc'[v] = "syncK" =>
                       /\ Len(groups'[v]) = 1
                       /\ Here(tileA', Share(v, KvRows), Keys(k))
                       /\ Filling(tileB', "B", groups'[v][1], Share(v, KvRows), Values(k))
      BY <1>1, <1>3, <1>4, <1>5 DEF LoadingKeys, Together, share
    <2> QED
      BY <1>1, <2>1, <2>2 DEF LoadingKeys, Together
  <1> QED
    BY <1>6 DEF TileInv

LEMMA WaitKTiles ==
    ASSUME TypeInv, TileInv, NEW w \in Warps, Wait(w, "waitK", 1, "syncK")
    PROVE  TileInv'
  <1> DEFINE share == Share(w, KvRows)
  <1>1. PICK k \in Nat : LoadingKeys(k)
    BY DEF Wait, TileInv, LoadingQueries, ReadingQueries, LoadingKeys, Scoring, Summing,
           Storing, Writing, Together
  <1>2. /\ Len(groups[w]) = 2
        /\ Filling(tileA, "A", groups[w][1], share, Keys(k))
        /\ Filling(tileB, "B", groups[w][2], share, Values(k))
    BY <1>1 DEF Wait, LoadingKeys
  <1>3. /\ Len(groups'[w]) = 1 /\ groups'[w][1] = groups[w][2]
        /\ \A v \in Warps : v # w => groups'[v] = groups[v]
    <2>1. /\ Len(groups'[w]) = 1 /\ \A v \in Warps : v # w => groups'[v] = groups[v]
          /\ \A i \in 1 .. 1 : groups'[w][i] = groups[w][Len(groups[w]) - 1 + i]
      <3>1. ASSUME NEW n \in Nat, n = 1
            PROVE  /\ Len(groups'[w]) = n /\ \A v \in Warps : v # w => groups'[v] = groups[v]
                   /\ \A i \in 1 .. n : groups'[w][i] = groups[w][Len(groups[w]) - n + i]
        <4>1. n <= Len(groups[w]) /\ Wait(w, "waitK", n, "syncK")
          BY <1>2, <3>1
        <4> QED
          BY <4>1, WaitEffect
      <3> QED
        BY <3>1
    <2>2. Len(groups[w]) - 1 + 1 = 2 /\ 1 \in 1 .. 1
      BY <1>2
    <2> QED
      BY <2>1, <2>2
  <1>4. UNCHANGED inputVars /\ tileA' = tileA /\ tileB' = tileB /\ kvStart' = kvStart
        /\ pc'[w] = "syncK" /\ \A v \in Warps : v # w => pc'[v] = pc[v]
    BY DEF Wait, Goto, TypeInv
  <1>5. Here(tileA, share, Keys(k))
    <2>1. DOMAIN groups[w][1].rows = {}
      BY <1>2 DEF Wait, Arrived
    <2> QED
      BY <1>2, <2>1 DEF Filling, Here
  <1>6. LoadingKeys(k)'
    <2> HIDE DEF share
    <2>1. BlockKvLen' = BlockKvLen /\ Keys(k)' = Keys(k) /\ Values(k)' = Values(k)
      BY <1>4, InputsStay
    <2>2. ASSUME NEW v \in Warps
          PROVE  /\ kvStart'[v] = k /\ pc'[v] \in {"loop", "waitK", "syncK"}
                 /\ pc'[v] = "loop" => groups'[v] = <<>>
                 /\ pc'[v] = "waitK" =>
                       /\ Len(groups'[v]) = 2
                       /\ Filling(tileA', "A", groups'[v][1], Share(v, KvRows), Keys(k))
                       /\ Filling(tileB', "B", groups'[v][2], Share(v, KvRows), Values(k))
                 /\ pc'[v] = "syncK" =>
                       /\ Len(groups'[v]) = 1
                       /\ Here(tileA', Share(v, KvRows), Keys(k))
                       /\ Filling(tileB', "B", groups'[v][1], Share(v, KvRows), Values(k))
      BY <1>1, <1>2, <1>3, <1>4, <1>5 DEF LoadingKeys, Together, share
    <2> QED
      BY <1>1, <2>1, <2>2 DEF LoadingKeys, Together
  <1> QED
    BY <1>6 DEF TileInv

LEMMA ScoresTiles ==
    ASSUME TypeInv, TileInv, NEW w \in Warps, ComputeScores(w)
    PROVE  TileInv'
  <1>1. PICK k \in Nat : Scoring(k)
    BY DEF ComputeScores, TileInv, LoadingQueries, ReadingQueries, LoadingKeys, Scoring, Summing,
           Storing, Writing, Together
  <1>2. UNCHANGED inputVars /\ tileA' = tileA /\ tileB' = tileB /\ kvStart' = kvStart
        /\ groups' = groups
        /\ pc[w] = "scores" /\ pc'[w] = "waitV" /\ \A v \in Warps : v # w => pc'[v] = pc[v]
    BY DEF ComputeScores, Goto, TypeInv
  <1>3. Scoring(k)'
    <2>1. BlockKvLen' = BlockKvLen /\ Keys(k)' = Keys(k) /\ Values(k)' = Values(k)
      BY <1>2, InputsStay
    <2>2. ASSUME NEW v \in Warps
          PROVE  /\ kvStart'[v] = k /\ pc'[v] \in {"scores", "waitV", "syncV"}
                 /\ pc'[v] \in {"scores", "waitV"} =>
                       /\ Len(groups'[v]) = 1
                       /\ Filling(tileB', "B", groups'[v][1], Share(v, KvRows), Values(k))
                 /\ pc'[v] = "syncV" =>
                       groups'[v] = <<>> /\ Here(tileB', Share(v, KvRows), Values(k))
      BY <1>1, <1>2 DEF Scoring, Together
    <2> QED
      BY <1>1, <1>2, <2>1, <2>2 DEF Scoring, Together
  <1> QED
    BY <1>3 DEF TileInv

LEMMA WaitVTiles ==
    ASSUME TypeInv, TileInv, NEW w \in Warps, Wait(w, "waitV", 0, "syncV")
    PROVE  TileInv'
  <1> DEFINE share == Share(w, KvRows)
  <1>1. PICK k \in Nat : Scoring(k)
    BY DEF Wait, TileInv, LoadingQueries, ReadingQueries, LoadingKeys, Scoring, Summing,
           Storing, Writing, Together
  <1>2. Len(groups[w]) = 1 /\ Filling(tileB, "B", groups[w][1], share, Values(k))
    BY <1>1 DEF Wait, Scoring
  <1>3. /\ groups'[w] \in Seq(Groups) /\ Len(groups'[w]) = 0
        /\ \A v \in Warps : v # w => groups'[v] = groups[v]
    BY <1>2, WaitEffect
  <1>4. groups'[w] = <<>>
    BY <1>3, EmptySeq
  <1>5. UNCHANGED inputVars /\ tileA' = tileA /\ tileB' = tileB /\ kvStart' = kvStart
        /\ pc'[w] = "syncV" /\ \A v \in Warps : v # w => pc'[v] = pc[v]
    BY DEF Wait, Goto, TypeInv
  <1>6. Here(tileB, share, Values(k))
    <2>1. DOMAIN groups[w][1].rows = {}
      BY <1>2 DEF Wait, Arrived
    <2> QED
      BY <1>2, <2>1 DEF Filling, Here
  <1>7. Scoring(k)'
    <2> HIDE DEF share
    <2>1. BlockKvLen' = BlockKvLen /\ Keys(k)' = Keys(k) /\ Values(k)' = Values(k)
      BY <1>5, InputsStay
    <2>2. ASSUME NEW v \in Warps
          PROVE  /\ kvStart'[v] = k /\ pc'[v] \in {"scores", "waitV", "syncV"}
                 /\ pc'[v] \in {"scores", "waitV"} =>
                       /\ Len(groups'[v]) = 1
                       /\ Filling(tileB', "B", groups'[v][1], Share(v, KvRows), Values(k))
                 /\ pc'[v] = "syncV" =>
                       groups'[v] = <<>> /\ Here(tileB', Share(v, KvRows), Values(k))
      BY <1>1, <1>3, <1>4, <1>5, <1>6 DEF Scoring, Together, share
    <2> QED
      BY <1>1, <1>5, <2>1, <2>2 DEF Scoring, Together
  <1> QED
    BY <1>7 DEF TileInv

LEMMA ValuesTiles ==
    ASSUME TypeInv, TileInv, NEW w \in Warps, ComputeValues(w)
    PROVE  TileInv'
  <1>1. PICK k \in Nat : Summing(k)
    BY DEF ComputeValues, TileInv, LoadingQueries, ReadingQueries, LoadingKeys, Scoring, Summing,
           Storing, Writing, Together
  <1>2. /\ UNCHANGED inputVars /\ tileB' = tileB /\ groups' = groups
        /\ pc[w] = "values" /\ pc'[w] = "syncTile" /\ kvStart'[w] = kvStart[w] + KvTile
        /\ \A v \in Warps : v # w => pc'[v] = pc[v] /\ kvStart'[v] = kvStart[v]
    BY DEF ComputeValues, Goto, TypeInv, AfterValues
  <1>3. Summing(k)'
    <2>1. BlockKvLen' = BlockKvLen /\ Values(k)' = Values(k)
      BY <1>2, InputsStay
    <2>2. ASSUME NEW v \in Warps
          PROVE  /\ groups'[v] = <<>>
                 /\ \/ pc'[v] = "values" /\ kvStart'[v] = k
                    \/ pc'[v] = "syncTile" /\ kvStart'[v] = k + KvTile
      BY <1>1, <1>2 DEF Summing
    <2> QED
      BY <1>1, <1>2, <2>1, <2>2 DEF Summing
  <1> QED
    BY <1>3 DEF TileInv

LEMMA StoreTiles ==
    ASSUME TypeInv, TileInv, NEW w \in Warps, Store(w)
    PROVE  TileInv'
  <1>1. PICK k \in Nat : Storing(k)
    <2>1. PICK k \in Nat : LoadingKeys(k) \/ Storing(k)
      BY DEF Store, TileInv, LoadingQueries, ReadingQueries, LoadingKeys, Scoring, Summing,
             Storing, Writing, Together
    <2>2. ~LoadingKeys(k)
      BY DEF Store, InLoop, LoadingKeys, Together
    <2> QED
      BY <2>1, <2>2
  <1>2. UNCHANGED inputVars /\ groups' = groups /\ kvStart' = kvStart /\ acc' = acc /\ l' = l
        /\ pc'[w] = "syncO" /\ \A v \in Warps : v # w => pc'[v] = pc[v]
    BY DEF Store, Goto, TypeInv, regVars
  <1>3. ASSUME NEW v \in Warps, pc'[v] = "syncO" PROVE Staged(v)'
    <2>1. WarpTile(v) \subseteq DOMAIN tileA
      BY RowsOfWarps, Sizes DEF TypeInv
    <2>2. CASE v = w
      BY <1>2, <2>1, <2>2 DEF Store, Staged
    <2>3. CASE v # w
      <3>1. Staged(v)
        BY <1>1, <1>2, <1>3, <2>3 DEF Storing
      <3>2. \A y \in WarpTile(v) : y \notin WarpTile(w)
        BY <2>3, RowsOfWarps
      <3> QED
        BY <1>2, <2>1, <3>1, <3>2 DEF Store, Staged
    <2> QED
      BY <2>2, <2>3
  <1>4. Storing(k)'
    <2>1. BlockKvLen' = BlockKvLen
      BY <1>2, InputsStay
    <2>2. ASSUME NEW v \in Warps
          PROVE  kvStart'[v] = k /\ pc'[v] \in {"loop", "syncO"} /\ groups'[v] = <<>>
      BY <1>1, <1>2 DEF Storing, Together
    <2> QED
      BY <1>1, <1>3, <2>1, <2>2 DEF Storing, Together
  <1> QED
    BY <1>4 DEF TileInv

LEMMA WriteBackTiles ==
    ASSUME TypeInv, TileInv, NEW w \in Warps, WriteBack(w)
    PROVE  TileInv'
  <1>1. PICK k \in Nat : Writing(k)
    BY DEF WriteBack, TileInv, LoadingQueries, ReadingQueries, LoadingKeys, Scoring, Summing,
           Storing, Writing, Together
  <1>2. UNCHANGED inputVars /\ groups' = groups /\ kvStart' = kvStart /\ acc' = acc /\ l' = l
        /\ tileA' = tileA /\ DOMAIN output' = DOMAIN output
        /\ pc'[w] = "done" /\ \A v \in Warps : v # w => pc'[v] = pc[v]
    BY DEF WriteBack, Goto, TypeInv, regVars
  <1>3. ASSUME NEW v \in Warps, pc'[v] = "done", NEW row \in DOMAIN output,
               row - first \in Share(v, TileIndices)
        PROVE  output'[row] = tileA[row - first]
    <2>1. CASE v = w
      BY <1>3, <2>1 DEF WriteBack
    <2>2. CASE v # w
      <3>1. output[row] = tileA[row - first]
        BY <1>1, <1>2, <1>3, <2>2 DEF Writing
      <3> QED
        BY <1>3, <3>1 DEF WriteBack
    <2> QED
      BY <2>1, <2>2
  <1>4. Writing(k)'
    <2>1. BlockKvLen' = BlockKvLen /\ first' = first
      BY <1>2, InputsStay DEF inputVars
    <2>2. ASSUME NEW v \in Warps
          PROVE  kvStart'[v] = k /\ pc'[v] \in {"writeBack", "done"} /\ groups'[v] = <<>>
                 /\ Staged(v)'
      BY <1>1, <1>2 DEF Writing, Together, Staged
    <2> QED
      BY <1>1, <1>2, <1>3, <2>1, <2>2 DEF Writing, Together
  <1> QED
    BY <1>4 DEF TileInv

\* All warps wait at one barrier, and so the next segment begins for all.
LEMMA BarrierTiles ==
    ASSUME TypeInv, TileInv, Barrier
    PROVE  TileInv'
  <1>1. /\ UNCHANGED inputVars /\ tileA' = tileA /\ tileB' = tileB /\ kvStart' = kvStart
        /\ groups' = groups /\ acc' = acc /\ l' = l /\ output' = output
        /\ \A w \in Warps : pc'[w] = Behind[pc[w]]
        /\ \A w \in Warps : pc[w] \in {"syncQ", "syncRead", "syncK", "syncV", "syncTile", "syncO"}
    BY DEF Barrier, Behind, regVars
  <1>2. /\ Behind["syncQ"] = "readQ" /\ Behind["syncRead"] = "loop" /\ Behind["syncK"] = "scores"
        /\ Behind["syncV"] = "values" /\ Behind["syncTile"] = "loop"
        /\ Behind["syncO"] = "writeBack"
    BY DEF Behind
  <1>3. /\ BlockKvLen' = BlockKvLen /\ Queries' = Queries
        /\ \A k : Keys(k)' = Keys(k) /\ Values(k)' = Values(k)
    BY <1>1, InputsStay
  <1>4. BlockKvLen \in Nat \ {0}
    BY BlockLength DEF TypeInv
  <1>5. PICK k \in Nat :
            \/ LoadingQueries(k) \/ ReadingQueries(k) \/ LoadingKeys(k) \/ Scoring(k)
            \/ Summing(k) \/ Storing(k) \/ Writing(k)
    BY DEF TileInv
  <1>6. CASE LoadingQueries(k)
    <2>1. \A w \in Warps : pc[w] = "syncQ" /\ kvStart[w] = k /\ k = 0
      BY <1>1, <1>6 DEF LoadingQueries, Together
    <2>2. Here(tileA, TileIndices, Queries)
      <3>1. ASSUME NEW y \in TileIndices PROVE tileA[y] = Queries[y]
        <4>1. PICK w \in Warps : y \in Share(w, TileIndices)
          BY Sizes, SharesSplit
        <4> QED
          BY <1>6, <2>1, <4>1 DEF LoadingQueries, Here
      <3> QED
        BY <3>1 DEF Here
    <2>3. ReadingQueries(0)'
      BY <1>1, <1>2, <1>3, <1>6, <2>1, <2>2 DEF LoadingQueries, ReadingQueries, Together
    <2> QED
      BY <2>3 DEF TileInv
  <1>7. CASE ReadingQueries(k)
    <2>1. \A w \in Warps : pc[w] = "syncRead" /\ kvStart[w] = 0 /\ groups[w] = <<>>
      BY <1>1, <1>7 DEF ReadingQueries, Together
    <2>2. LoadingKeys(0)'
      BY <1>1, <1>2, <1>3, <1>4, <2>1 DEF LoadingKeys, Together
    <2> QED
      BY <2>2 DEF TileInv
  <1>8. CASE LoadingKeys(k)
    <2>1. \A w \in Warps : pc[w] = "syncK" /\ kvStart[w] = k
      BY <1>1, <1>8 DEF LoadingKeys, Together
    <2>2. \A w \in Warps : /\ Len(groups[w]) = 1
                           /\ Here(tileA, Share(w, KvRows), Keys(k))
                           /\ Filling(tileB, "B", groups[w][1], Share(w, KvRows), Values(k))
      BY <1>8, <2>1 DEF LoadingKeys
    <2>3. Here(tileA, KvRows, Keys(k))
      <3>1. ASSUME NEW y \in KvRows PROVE tileA[y] = Keys(k)[y]
        <4>1. PICK w \in Warps : y \in Share(w, KvRows)
          BY Sizes, SharesSplit
        <4> QED
          BY <2>2, <4>1 DEF Here
      <3> QED
        BY <3>1 DEF Here
    <2>4. Scoring(k)'
      BY <1>1, <1>2, <1>3, <1>8, <2>1, <2>2, <2>3 DEF LoadingKeys, Scoring, Together
    <2> QED
      BY <2>4 DEF TileInv
  <1>9. CASE Scoring(k)
    <2>1. \A w \in Warps : pc[w] = "syncV" /\ kvStart[w] = k
      BY <1>1, <1>9 DEF Scoring, Together
    <2>2. \A w \in Warps : groups[w] = <<>> /\ Here(tileB, Share(w, KvRows), Values(k))
      BY <1>9, <2>1 DEF Scoring
    <2>3. Here(tileB, KvRows, Values(k))
      <3>1. ASSUME NEW y \in KvRows PROVE tileB[y] = Values(k)[y]
        <4>1. PICK w \in Warps : y \in Share(w, KvRows)
          BY Sizes, SharesSplit
        <4> QED
          BY <2>2, <4>1 DEF Here
      <3> QED
        BY <3>1 DEF Here
    <2>4. Summing(k)'
      BY <1>1, <1>2, <1>3, <1>9, <2>1, <2>2, <2>3 DEF Scoring, Summing
    <2> QED
      BY <2>4 DEF TileInv
  <1>10. CASE Summing(k)
    <2>1. \A w \in Warps : pc[w] = "syncTile" /\ kvStart[w] = k + KvTile /\ groups[w] = <<>>
      BY <1>1, <1>10 DEF Summing
    <2>2. k + KvTile \in Nat
      BY Sizes
    <2>3. LoadingKeys(k + KvTile)' \/ Storing(k + KvTile)'
      <3>1. k + KvTile < BlockKvLen \/ k + KvTile >= BlockKvLen
        BY <1>4, <2>2
      <3> QED
        BY <1>1, <1>2, <1>3, <2>1, <3>1 DEF LoadingKeys, Storing, Together
    <2> QED
      BY <2>2, <2>3 DEF TileInv
  <1>11. CASE Storing(k)
    <2>1. \A w \in Warps : pc[w] = "syncO" /\ kvStart[w] = k /\ groups[w] = <<>>
      BY <1>1, <1>11 DEF Storing, Together
    <2>2. \A w \in Warps : Staged(w)'
      BY <1>1, <1>11, <2>1 DEF Storing, Staged
    <2>3. Writing(k)'
      BY <1>1, <1>2, <1>3, <1>11, <2>1, <2>2 DEF Storing, Writing, Together
    <2> QED
      BY <2>3 DEF TileInv
  <1>12. CASE Writing(k)
    BY <1>1, <1>12, Sizes DEF Writing, Together
  <1> QED
    BY <1>5, <1>6, <1>7, <1>8, <1>9, <1>10, <1>11, <1>12

\* A row that arrives in a warp's share is as it is to be.
LEMMA FillingLands ==
    ASSUME NEW mem, NEW tile, NEW g \in Groups, NEW share, NEW source,
           Filling(mem, tile, g, share, source), share \subseteq DOMAIN mem,
           NEW y \in DOMAIN g.rows
    PROVE  /\ y \in share
           /\ Filling([mem EXCEPT ![y] = g.rows[y]], tile, Without(g, y), share, source)
  <1> DEFINE rest == [z \in DOMAIN g.rows \ {y} |-> g.rows[z]]
  <1>1. Without(g, y).tile = g.tile /\ Without(g, y).rows = rest
    BY OfGroup DEF Without
  <1> QED
    BY <1>1 DEF Filling, Here

\* It leaves the shares of the other warps alone.
LEMMA OthersStay ==
    ASSUME NEW mem, NEW share, NEW y, share \subseteq DOMAIN mem, y \notin share, NEW e
    PROVE  /\ \A source : Here(mem, share, source) => Here([mem EXCEPT ![y] = e], share, source)
           /\ \A tile, g, source : Filling(mem, tile, g, share, source)
                  => Filling([mem EXCEPT ![y] = e], tile, g, share, source)
  BY DEF Here, Filling

LEMMA LandTiles ==
    ASSUME TypeInv, TileInv, NEW w \in Warps, NEW i, NEW y, Land(w, i, y)
    PROVE  TileInv'
  <1> DEFINE g == groups[w][i]
  <1>1. /\ UNCHANGED inputVars /\ pc' = pc /\ kvStart' = kvStart
    BY DEF Land
  <1>2. /\ BlockKvLen' = BlockKvLen /\ Queries' = Queries
        /\ \A k : Keys(k)' = Keys(k) /\ Values(k)' = Values(k)
    BY <1>1, InputsStay
  <1>3. /\ i \in 1 .. Len(groups[w]) /\ g \in Groups /\ y \in DOMAIN g.rows
        /\ Len(groups'[w]) = Len(groups[w]) /\ groups'[w][i] = Without(g, y)
        /\ \A j \in 1 .. Len(groups[w]) : j # i => groups'[w][j] = groups[w][j]
        /\ \A v \in Warps : v # w => groups'[v] = groups[v]
        /\ \/ g.tile = "A" /\ tileA' = [tileA EXCEPT ![y] = g.rows[y]] /\ tileB' = tileB
           \/ g.tile = "B" /\ tileB' = [tileB EXCEPT ![y] = g.rows[y]] /\ tileA' = tileA
    BY LandEffect
  <1>4. groups[w] # <<>>
    BY <1>3
  <1>5. PICK k \in Nat : LoadingQueries(k) \/ LoadingKeys(k) \/ Scoring(k)
    BY <1>4 DEF TileInv, ReadingQueries, Summing, Storing, Writing
  <1>6. \A v \in Warps : /\ Share(v, TileIndices) \subseteq DOMAIN tileA
                         /\ Share(v, KvRows) \subseteq DOMAIN tileA
                         /\ Share(v, KvRows) \subseteq DOMAIN tileB
    BY Sizes DEF Share, TypeInv
  <1>7. \A v \in Warps : v # w =>
            /\ y \in Share(w, TileIndices) => y \notin Share(v, TileIndices)
            /\ y \in Share(w, KvRows) => y \notin Share(v, KvRows)
    BY Sizes, SharesSplit
  <1>8. ASSUME NEW mem, NEW tile, NEW share, NEW source,
               Filling(mem, tile, g, share, source), share \subseteq DOMAIN mem
        PROVE  /\ y \in share
               /\ Filling([mem EXCEPT ![y] = g.rows[y]], tile, groups'[w][i], share, source)
    <2>1. g \in Groups /\ y \in DOMAIN g.rows /\ groups'[w][i] = Without(g, y)
      BY <1>3
    <2>2. /\ y \in share
          /\ Filling([mem EXCEPT ![y] = g.rows[y]], tile, Without(g, y), share, source)
      BY <1>8, <2>1, FillingLands
    <2> QED
      BY <2>1, <2>2
  <1> HIDE DEF g
  <1>9. CASE LoadingQueries(k)
    <2>1. Len(groups[w]) = 1 /\ i = 1 /\ pc[w] = "waitQ"
          /\ Filling(tileA, "A", g, Share(w, TileIndices), Queries)
      BY <1>3, <1>4, <1>9 DEF LoadingQueries, Together, g
    <2>2. tileA' = [tileA EXCEPT ![y] = g.rows[y]]
      BY <1>3, <2>1 DEF Filling
    <2>3. y \in Share(w, TileIndices)
          /\ Filling(tileA', "A", groups'[w][1], Share(w, TileIndices), Queries)
      BY <1>6, <1>8, <2>1, <2>2
    <2>4. ASSUME NEW v \in Warps
          PROVE  /\ pc[v] = "loadQ" => groups'[v] = <<>>
                 /\ pc[v] = "waitQ" =>
                       /\ Len(groups'[v]) = 1
                       /\ Filling(tileA', "A", groups'[v][1], Share(v, TileIndices), Queries)
                 /\ pc[v] = "syncQ" =>
                       groups'[v] = <<>> /\ Here(tileA', Share(v, TileIndices), Queries)
      <3>1. CASE v = w
        BY <1>3, <2>1, <2>3, <3>1
      <3>2. CASE v # w
        <4>1. y \notin Share(v, TileIndices) /\ groups'[v] = groups[v]
          BY <1>3, <1>7, <2>3, <3>2
        <4> QED
          BY <1>6, <1>9, <2>2, <4>1, OthersStay DEF LoadingQueries
      <3> QED
        BY <3>1, <3>2
    <2>5. LoadingQueries(k)'
      BY <1>1, <1>2, <1>9, <2>4 DEF LoadingQueries, Together
    <2> QED
      BY <2>5 DEF TileInv
  <1>10. ASSUME NEW v \in Warps, v # w, y \in Share(w, KvRows)
         PROVE  /\ groups'[v] = groups[v]
                /\ \A source : /\ Here(tileA, Share(v, KvRows), source)
                                  => Here(tileA', Share(v, KvRows), source)
                               /\ Here(tileB, Share(v, KvRows), source)
                                  => Here(tileB', Share(v, KvRows), source)
                /\ \A h, source : /\ Filling(tileA, "A", h, Share(v, KvRows), source)
                                     => Filling(tileA', "A", h, Share(v, KvRows), source)
                                  /\ Filling(tileB, "B", h, Share(v, KvRows), source)
                                     => Filling(tileB', "B", h, Share(v, KvRows), source)
    <2>1. y \notin Share(v, KvRows)
      BY <1>7, <1>10
    <2>2. CASE g.tile = "A" /\ tileA' = [tileA EXCEPT ![y] = g.rows[y]] /\ tileB' = tileB
      BY <1>3, <1>6, <1>10, <2>1, <2>2, OthersStay
    <2>3. CASE g.tile = "B" /\ tileB' = [tileB EXCEPT ![y] = g.rows[y]] /\ tileA' = tileA
      BY <1>3, <1>6, <1>10, <2>1, <2>3, OthersStay
    <2> QED
      BY <1>3, <2>2, <2>3
  <1>11. CASE LoadingKeys(k)
    <2>1. pc[w] \in {"waitK", "syncK"}
      BY <1>4, <1>11 DEF LoadingKeys, Together
    <2>2. /\ y \in Share(w, KvRows)
          /\ pc[w] = "waitK" =>
                /\ Len(groups'[w]) = 2
                /\ Filling(tileA', "A", groups'[w][1], Share(w, KvRows), Keys(k))
                /\ Filling(tileB', "B", groups'[w][2], Share(w, KvRows), Values(k))
          /\ pc[w] = "syncK" =>
                /\ Len(groups'[w]) = 1
                /\ Here(tileA', Share(w, KvRows), Keys(k))
                /\ Filling(tileB', "B", groups'[w][1], Share(w, KvRows), Values(k))
      <3>1. CASE pc[w] = "waitK"
        <4>1. /\ Len(groups[w]) = 2
              /\ Filling(tileA, "A", groups[w][1], Share(w, KvRows), Keys(k))
              /\ Filling(tileB, "B", groups[w][2], Share(w, KvRows), Values(k))
          BY <1>11, <3>1 DEF LoadingKeys
        <4>2. CASE i = 1
          <5>1. Filling(tileA, "A", g, Share(w, KvRows), Keys(k)) /\ groups'[w][2] = groups[w][2]
            BY <1>3, <4>1, <4>2 DEF g
          <5>2. tileA' = [tileA EXCEPT ![y] = g.rows[y]] /\ tileB' = tileB
            BY <1>3, <5>1 DEF Filling
          <5>3. y \in Share(w, KvRows)
                /\ Filling(tileA', "A", groups'[w][1], Share(w, KvRows), Keys(k))
            BY <1>6, <1>8, <4>2, <5>1, <5>2
          <5> QED
            BY <1>3, <3>1, <4>1, <5>1, <5>2, <5>3
        <4>3. CASE i = 2
          <5>1. Filling(tileB, "B", g, Share(w, KvRows), Values(k)) /\ groups'[w][1] = groups[w][1]
            BY <1>3, <4>1, <4>3 DEF g
          <5>2. tileB' = [tileB EXCEPT ![y] = g.rows[y]] /\ tileA' = tileA
            BY <1>3, <5>1 DEF Filling
          <5>3. y \in Share(w, KvRows)
                /\ Filling(tileB', "B", groups'[w][2], Share(w, KvRows), Values(k))
            BY <1>6, <1>8, <4>3, <5>1, <5>2
          <5> QED
            BY <1>3, <3>1, <4>1, <5>1, <5>2, <5>3
        <4> QED
          BY <1>3, <4>1, <4>2, <4>3
      <3>2. CASE pc[w] = "syncK"
        <4>1. /\ Len(groups[w]) = 1
              /\ Here(tileA, Share(w, KvRows), Keys(k))
              /\ Filling(tileB, "B", groups[w][1], Share(w, KvRows), Values(k))
          BY <1>11, <3>2 DEF LoadingKeys
        <4>2. i = 1 /\ Filling(tileB, "B", g, Share(w, KvRows), Values(k))
          BY <1>3, <4>1 DEF g
        <4>3. tileB' = [tileB EXCEPT ![y] = g.rows[y]] /\ tileA' = tileA
          BY <1>3, <4>2 DEF Filling
        <4>4. y \in Share(w, KvRows)
              /\ Filling(tileB', "B", groups'[w][1], Share(w, KvRows), Values(k))
          BY <1>6, <1>8, <4>2, <4>3
        <4> QED
          BY <1>3, <3>2, <4>1, <4>3, <4>4
      <3> QED
        BY <2>1, <3>1, <3>2
    <2>3. ASSUME NEW v \in Warps, v # w
          PROVE  /\ pc[v] = "loop" => groups'[v] = <<>>
                 /\ pc[v] = "waitK" =>
                       /\ Len(groups'[v]) = 2
                       /\ Filling(tileA', "A", groups'[v][1], Share(v, KvRows), Keys(k))
                       /\ Filling(tileB', "B", groups'[v][2], Share(v, KvRows), Values(k))
                 /\ pc[v] = "syncK" =>
                       /\ Len(groups'[v]) = 1
                       /\ Here(tileA', Share(v, KvRows), Keys(k))
                       /\ Filling(tileB', "B", groups'[v][1], Share(v, KvRows), Values(k))
      BY <1>10, <1>11, <2>2, <2>3 DEF LoadingKeys
    <2>4. ASSUME NEW v \in Warps
          PROVE  /\ pc[v] = "loop" => groups'[v] = <<>>
                 /\ pc[v] = "waitK" =>
                       /\ Len(groups'[v]) = 2
                       /\ Filling(tileA', "A", groups'[v][1], Share(v, KvRows), Keys(k))
                       /\ Filling(tileB', "B", groups'[v][2], Share(v, KvRows), Values(k))
                 /\ pc[v] = "syncK" =>
                       /\ Len(groups'[v]) = 1
                       /\ Here(tileA', Share(v, KvRows), Keys(k))
                       /\ Filling(tileB', "B", groups'[v][1], Share(v, KvRows), Values(k))
      <3>1. CASE v = w
        BY <2>1, <2>2, <3>1
      <3> QED
        BY <2>3, <3>1
    <2>5. LoadingKeys(k)'
      BY <1>1, <1>2, <1>11, <2>4 DEF LoadingKeys, Together
    <2> QED
      BY <2>5 DEF TileInv
  <1>12. CASE Scoring(k)
    <2>1. /\ pc[w] \in {"scores", "waitV"} /\ Len(groups[w]) = 1 /\ i = 1
          /\ Filling(tileB, "B", g, Share(w, KvRows), Values(k))
      BY <1>3, <1>4, <1>12 DEF Scoring, Together, g
    <2>2. tileB' = [tileB EXCEPT ![y] = g.rows[y]] /\ tileA' = tileA
      BY <1>3, <2>1 DEF Filling
    <2>3. y \in Share(w, KvRows)
          /\ Filling(tileB', "B", groups'[w][1], Share(w, KvRows), Values(k))
      BY <1>6, <1>8, <2>1, <2>2
    <2>4. ASSUME NEW v \in Warps
          PROVE  /\ pc[v] \in {"scores", "waitV"} =>
                       /\ Len(groups'[v]) = 1
                       /\ Filling(tileB', "B", groups'[v][1], Share(v, KvRows), Values(k))
                 /\ pc[v] = "syncV" =>
                       groups'[v] = <<>> /\ Here(tileB', Share(v, KvRows), Values(k))
      <3>1. CASE v = w
        BY <1>3, <2>1, <2>3, <3>1
      <3>2. CASE v # w
        BY <1>10, <1>12, <2>3, <3>2 DEF Scoring
      <3> QED
        BY <3>1, <3>2
    <2>5. Scoring(k)'
      BY <1>1, <1>2, <1>12, <2>2, <2>4 DEF Scoring, Together
    <2> QED
      BY <2>5 DEF TileInv
  <1> QED
    BY <1>5, <1>9, <1>11, <1>12

LEMMA NextTiles == TypeInv /\ TileInv /\ [Next]_vars => TileInv'
  <1> SUFFICES ASSUME TypeInv, TileInv, [Next]_vars PROVE TileInv'
    OBVIOUS
  <1>1. CASE Copying
    BY <1>1, LandTiles DEF Copying
  <1>2. CASE Barrier
    BY <1>2, BarrierTiles
  <1>3. ASSUME NEW w \in Warps, Run(w) PROVE TileInv'
    BY <1>3, LoadQTiles, LoadKVTiles, ReadQTiles, ScoresTiles, ValuesTiles, StoreTiles,
       WriteBackTiles, WaitQTiles, WaitKTiles, WaitVTiles DEF Run
  <1>4. CASE UNCHANGED vars
    <2>1. UNCHANGED inputVars
      BY <1>4 DEF vars
    <2>2. /\ BlockKvLen' = BlockKvLen /\ Queries' = Queries /\ first' = first
          /\ \A k : Keys(k)' = Keys(k) /\ Values(k)' = Values(k)
      BY <2>1, InputsStay DEF inputVars
    <2>3. \A k : Together(k, {"loadQ", "waitQ", "syncQ"})' = Together(k, {"loadQ", "waitQ", "syncQ"})
      BY <1>4 DEF vars, Together
    <2> QED
      BY <1>4, <2>2 DEF vars, regVars, TileInv, LoadingQueries, ReadingQueries, LoadingKeys,
         Scoring, Summing, Storing, Writing, Together, Staged
  <1> QED
    BY <1>1, <1>2, <1>3, <1>4 DEF Next

LEMMA WholeFromTiles == TypeInv /\ TileInv => TilesAreWhole
  <1> SUFFICES ASSUME TypeInv, TileInv, NEW w \in Warps
               PROVE  /\ pc[w] = "readQ" =>
                            \A y \in WarpTile(w) : tileA[y] = QuerySource(y)
                      /\ pc[w] = "scores" =>
                            \A y \in 0 .. KvTile - 1 : tileA[y] = KeySource(w, y)
                      /\ pc[w] = "values" =>
                            \A y \in 0 .. KvTile - 1 : tileB[y] = ValueSource(w, y)
                      /\ pc[w] = "writeBack" =>
                            \A y \in Share(w, TileIndices) : tileA[y][1] = "output"
    BY DEF TilesAreWhole
  <1>1. CASE pc[w] = "readQ"
    <2>1. PICK k \in Nat : ReadingQueries(k)
      BY <1>1 DEF TileInv, LoadingQueries, ReadingQueries, LoadingKeys, Scoring, Summing,
             Storing, Writing, Together
    <2>2. WarpTile(w) \subseteq TileIndices
      BY RowsOfWarps
    <2> QED
      BY <1>1, <2>1, <2>2 DEF ReadingQueries, Here, Queries
  <1>2. CASE pc[w] = "scores"
    <2>1. PICK k \in Nat : Scoring(k)
      BY <1>2 DEF TileInv, LoadingQueries, ReadingQueries, LoadingKeys, Scoring, Summing,
             Storing, Writing, Together
    <2> QED
      BY <1>2, <2>1 DEF Scoring, Together, Here, Keys, KeySource, KvRows
  <1>3. CASE pc[w] = "values"
    <2>1. PICK k \in Nat : Summing(k)
      BY <1>3 DEF TileInv, LoadingQueries, ReadingQueries, LoadingKeys, Scoring, Summing,
             Storing, Writing, Together
    <2> QED
      BY <1>3, <2>1 DEF Summing, Here, Values, ValueSource, KvRows
  <1>4. CASE pc[w] = "writeBack"
    <2>1. PICK k \in Nat : Writing(k)
      BY <1>4 DEF TileInv, LoadingQueries, ReadingQueries, LoadingKeys, Scoring, Summing,
             Storing, Writing, Together
    <2>2. ASSUME NEW y \in Share(w, TileIndices) PROVE tileA[y][1] = "output"
      <3>1. PICK v \in Warps : y \in WarpTile(v)
        BY RowsOfWarps DEF Share
      <3> QED
        BY <2>1, <3>1 DEF Writing, Staged
    <2> QED
      BY <1>4, <2>2
  <1> QED
    BY <1>1, <1>2, <1>3, <1>4

-----------------------------------------------------------------------------
(* The keys of a row *)

LEMMA OwnKeys ==
    ASSUME InputInv, NEW y \in Nat
    PROVE  /\ Own(y) \in Nat \ {0} /\ Own(y) <= BlockKvLen
           /\ \A pos \in Nat : pos < Own(y) <=>
                 pos <= PrefixLen + (first + y) \div GroupSize /\ pos < BlockKvLen
           /\ Among(y, 0) = 0
           /\ \A k \in Nat : /\ Among(y, k) \in Nat /\ Among(y, k) <= Own(y) /\ Among(y, k) <= k
                             /\ Among(y, k) <= Among(y, k + KvTile)
                             /\ Among(y, k + KvTile) - Among(y, k) <= KvTile
                             /\ Among(y, k) < Among(y, k + KvTile) => Among(y, k) = k
                             /\ k >= BlockKvLen => Among(y, k) = Own(y)
  <1>1. first + y \in Nat /\ (first + y) \div GroupSize \in Nat
    <2>1. first + y \in Nat /\ GroupSize \in Nat \ {0}
      BY Sizes DEF InputInv
    <2> QED
      BY <2>1, Quotient
  <1>2. BlockKvLen \in Nat \ {0} /\ PrefixLen \in Nat
    BY BlockLength
  <1>3. /\ Own(y) \in Nat \ {0} /\ Own(y) <= BlockKvLen
        /\ \A pos \in Nat : pos < Own(y) <=>
              pos <= PrefixLen + (first + y) \div GroupSize /\ pos < BlockKvLen
    <2> DEFINE seen == PrefixLen + (first + y) \div GroupSize
    <2>1. seen \in Nat
      BY <1>1, <1>2
    <2>2. Own(y) = IF seen < BlockKvLen THEN seen + 1 ELSE BlockKvLen
      BY DEF Own
    <2> HIDE DEF seen
    <2>3. /\ Own(y) \in Nat \ {0} /\ Own(y) <= BlockKvLen
          /\ \A pos \in Nat : pos < Own(y) <=> pos <= seen /\ pos < BlockKvLen
      BY <1>2, <2>1, <2>2
    <2> QED
      BY <2>3 DEF seen
  <1> QED
    BY <1>2, <1>3, Sizes DEF Among

\* A row of a warp is a natural number, not before the warp's first.
LEMMA RowOfWarp ==
    ASSUME NEW w \in Warps, NEW y \in WarpTile(w)
    PROVE  y \in Nat /\ y \in TileIndices /\ w * WarpRows \in Nat /\ w * WarpRows <= y
  BY Sizes, RowsOfWarps DEF WarpTile

\* A tile of keys that is not masked is seen by every row of the warp.
LEMMA ColumnsOfRow ==
    ASSUME TypeInv, NEW w \in Warps, NEW y \in WarpTile(w)
    PROVE  LET k == kvStart[w]
               n == Among(y, k + KvTile) - Among(y, k)
           IN  /\ k \in Nat /\ n \in Nat
               /\ Columns(w, y) = 0 .. n - 1
               /\ \A c \in 0 .. n - 1 : c \in KvRows /\ k + c < Own(y) /\ Among(y, k) = k
  <1> DEFINE k == kvStart[w]
             n == Among(y, k + KvTile) - Among(y, k)
             seen == PrefixLen + (first + y) \div GroupSize
             warpSeen == PrefixLen + (first + w * WarpRows) \div GroupSize
  <1>1. InputInv /\ k \in Nat /\ y \in Nat /\ first \in Nat
    BY RowOfWarp DEF TypeInv, InputInv
  <1>2. /\ Own(y) \in Nat /\ Among(y, k) \in Nat /\ Among(y, k + KvTile) \in Nat /\ n \in Nat
        /\ Among(y, k) < Among(y, k + KvTile) => Among(y, k) = k
        /\ Among(y, k + KvTile) <= Own(y) /\ Among(y, k + KvTile) <= k + KvTile
    <2>1. k + KvTile \in Nat
      BY <1>1, Sizes
    <2>2. Own(y) \in Nat /\ \A j \in Nat : Among(y, j) \in Nat /\ Among(y, j) <= Own(y) /\ Among(y, j) <= j
      BY <1>1, OwnKeys
    <2>3. /\ Among(y, k) <= Among(y, k + KvTile)
          /\ Among(y, k) < Among(y, k + KvTile) => Among(y, k) = k
      BY <1>1, OwnKeys
    <2> HIDE DEF k
    <2> QED
      BY <1>1, <2>1, <2>2, <2>3
  <1>3. \A c \in KvRows : k + c < Own(y) <=> c < n
    BY <1>1, <1>2, Sizes DEF Among, KvRows
  <1>4. warpSeen <= seen /\ seen \in Nat /\ warpSeen \in Nat
    <2>1. first + w * WarpRows \in Nat /\ first + y \in Nat /\ first + w * WarpRows <= first + y
      BY <1>1, RowOfWarp
    <2>2. (first + w * WarpRows) \div GroupSize <= (first + y) \div GroupSize
      BY <2>1, Sizes, QuotientGrows
    <2>3. /\ (first + w * WarpRows) \div GroupSize \in Nat /\ (first + y) \div GroupSize \in Nat
          /\ PrefixLen \in Nat
      BY <1>1, <2>1, Sizes, Quotient, BlockLength
    <2> QED
      BY <2>2, <2>3
  <1>5. \A c \in KvRows : k + c < Own(y) <=> k + c <= seen /\ k + c < BlockKvLen
    <2>1. \A c \in KvRows : k + c \in Nat
      BY <1>1 DEF KvRows
    <2> QED
      BY <1>1, <2>1, OwnKeys
  <1>6. NeedsMask(first + w * WarpRows, k, PrefixLen, BlockKvLen)
           <=> warpSeen < k + KvTile \/ k + KvTile > BlockKvLen
    BY DEF NeedsMask
  <1>7. ~NeedsMask(first + w * WarpRows, k, PrefixLen, BlockKvLen)
           => \A c \in KvRows : k + c <= seen /\ k + c < BlockKvLen
    <2>1. BlockKvLen \in Nat
      BY <1>1, BlockLength
    <2> HIDE DEF seen, warpSeen, k
    <2> QED
      BY <1>1, <1>4, <1>6, <2>1, Sizes DEF KvRows
  <1>8. Columns(w, y) = {c \in KvRows : k + c < Own(y)}
    <2>1. Columns(w, y) = {c \in KvRows :
              NeedsMask(first + w * WarpRows, k, PrefixLen, BlockKvLen)
                  => k + c <= seen /\ k + c < BlockKvLen}
      BY DEF Columns, KvRows
    <2> HIDE DEF seen, k
    <2> QED
      BY <1>5, <1>7, <2>1
  <1>9. n <= KvTile
    BY <1>1, OwnKeys
  <1>10. Columns(w, y) = 0 .. n - 1
    <2> HIDE DEF n, k
    <2>1. \A c : c \in KvRows /\ c < n <=> c \in 0 .. n - 1
      BY <1>2, <1>9, Sizes DEF KvRows
    <2> QED
      BY <1>3, <1>8, <2>1
  <1>11. ASSUME NEW c \in 0 .. n - 1 PROVE c \in KvRows /\ k + c < Own(y) /\ Among(y, k) = k
    <2>1. c \in KvRows /\ c < n
      BY <1>2, <1>9, Sizes DEF KvRows
    <2> QED
      BY <1>2, <1>3, <2>1
  <1> QED
    BY <1>1, <1>2, <1>10, <1>11

LEMMA AscendingPrefix ==
    ASSUME NEW n \in Nat
    PROVE  Ascending(0 .. n - 1) = [i \in 1 .. n |-> i - 1]
  <1> DEFINE cols == 0 .. n - 1
  <1>1. Cardinality(cols) = n
    BY FS_Interval
  <1>2. \A c \in cols : Cardinality({d \in cols : d < c}) = c
    <2> SUFFICES ASSUME NEW c \in cols PROVE Cardinality({d \in cols : d < c}) = c
      OBVIOUS
    <2>1. {d \in cols : d < c} = 0 .. c - 1
      OBVIOUS
    <2>2. 0 \in Int /\ c - 1 \in Int /\ c \in Nat
      OBVIOUS
    <2>3. Cardinality(0 .. c - 1) = c
      <3>1. Cardinality(0 .. c - 1) = IF 0 > c - 1 THEN 0 ELSE c - 1 - 0 + 1
        BY <2>2, FS_Interval
      <3> QED
        BY <2>2, <3>1
    <2> QED
      BY <2>1, <2>3
  <1>3. ASSUME NEW i \in 1 .. n
        PROVE  (CHOOSE c \in cols : Cardinality({d \in cols : d < c}) = i - 1) = i - 1
    <2>1. i - 1 \in cols
      OBVIOUS
    <2> HIDE DEF cols
    <2> QED
      BY <1>2, <2>1
  <1> QED
    BY <1>1, <1>3 DEF Ascending

-----------------------------------------------------------------------------
(* Sums as sequences *)

\* The first n of a list and the next j are its first n + j.
LEMMA ConcatPrefix ==
    ASSUME NEW S, NEW f \in [Nat -> S], NEW n \in Nat, NEW j \in Nat
    PROVE  [i \in 1 .. n |-> f[i]] \o [i \in 1 .. j |-> f[n + i]] = [i \in 1 .. n + j |-> f[i]]
  <1> DEFINE s == [i \in 1 .. n |-> f[i]]
             t == [i \in 1 .. j |-> f[n + i]]
             u == [i \in 1 .. n + j |-> f[i]]
  <1>1. s \in Seq(S) /\ t \in Seq(S) /\ u \in Seq(S)
    OBVIOUS
  <1>2. Len(s) = n /\ Len(t) = j /\ Len(u) = n + j
    OBVIOUS
  <1>3. /\ s \o t \in Seq(S) /\ Len(s \o t) = n + j
        /\ \A i \in 1 .. n + j : (s \o t)[i] = IF i <= n THEN s[i] ELSE t[i - n]
    <2> HIDE DEF s, t
    <2> QED
      BY <1>1, <1>2, ConcatProperties
  <1>4. \A i \in 1 .. n + j : (s \o t)[i] = u[i]
    <2> SUFFICES ASSUME NEW i \in 1 .. n + j PROVE (s \o t)[i] = u[i]
      OBVIOUS
    <2>1. (s \o t)[i] = IF i <= n THEN s[i] ELSE t[i - n]
      BY <1>3
    <2>2. CASE i <= n
      BY <2>1, <2>2
    <2>3. CASE i > n
      <3>1. i - n \in 1 .. j /\ n + (i - n) = i
        BY <2>3
      <3> QED
        BY <2>1, <2>3, <3>1
    <2> QED
      BY <2>2, <2>3
  <1> HIDE DEF s, t, u
  <1> QED
    BY <1>1, <1>2, <1>3, <1>4, SeqEqual

\* The j keys behind the first n.
MoreWeights(y, n, j, m) ==
    [i \in 1 .. j |-> [key |-> Key(n + i - 1), exponent |-> ScoreAt(y, n + i - 1) - m]]
MoreSums(y, n, j, m) ==
    [i \in 1 .. j |-> [key |-> Key(n + i - 1), value |-> Value(n + i - 1),
                       exponent |-> ScoreAt(y, n + i - 1) - m]]

LEMMA ConcatWeights ==
    ASSUME NEW y \in Nat, NEW n \in Nat, NEW j \in Nat, NEW m \in Int
    PROVE  Weights(y, n, m) \o MoreWeights(y, n, j, m) = Weights(y, n + j, m)
  <1> DEFINE term(i) == [key |-> Key(i - 1), exponent |-> ScoreAt(y, i - 1) - m]
             S == {term(i) : i \in Nat}
             f == [i \in Nat |-> term(i)]
  <1>1. f \in [Nat -> S]
    OBVIOUS
  <1>2. [i \in 1 .. n |-> f[i]] \o [i \in 1 .. j |-> f[n + i]] = [i \in 1 .. n + j |-> f[i]]
    <2> HIDE DEF f, S
    <2> QED
      BY <1>1, ConcatPrefix
  <1>3. [i \in 1 .. n |-> f[i]] = Weights(y, n, m) /\ [i \in 1 .. n + j |-> f[i]] = Weights(y, n + j, m)
    BY DEF Weights
  <1>4. [i \in 1 .. j |-> f[n + i]] = MoreWeights(y, n, j, m)
    <2>1. \A i \in 1 .. j : n + i \in Nat
      OBVIOUS
    <2> QED
      BY <2>1 DEF MoreWeights
  <1> QED
    BY <1>2, <1>3, <1>4

LEMMA ConcatSums ==
    ASSUME NEW y \in Nat, NEW n \in Nat, NEW j \in Nat, NEW m \in Int
    PROVE  Sums(y, n, m) \o MoreSums(y, n, j, m) = Sums(y, n + j, m)
  <1> DEFINE term(i) == [key |-> Key(i - 1), value |-> Value(i - 1),
                         exponent |-> ScoreAt(y, i - 1) - m]
             S == {term(i) : i \in Nat}
             f == [i \in Nat |-> term(i)]
  <1>1. f \in [Nat -> S]
    OBVIOUS
  <1>2. [i \in 1 .. n |-> f[i]] \o [i \in 1 .. j |-> f[n + i]] = [i \in 1 .. n + j |-> f[i]]
    <2> HIDE DEF f, S
    <2> QED
      BY <1>1, ConcatPrefix
  <1>3. [i \in 1 .. n |-> f[i]] = Sums(y, n, m) /\ [i \in 1 .. n + j |-> f[i]] = Sums(y, n + j, m)
    BY DEF Sums
  <1>4. [i \in 1 .. j |-> f[n + i]] = MoreSums(y, n, j, m)
    <2>1. \A i \in 1 .. j : n + i \in Nat
      OBVIOUS
    <2> QED
      BY <2>1 DEF MoreSums
  <1> QED
    BY <1>2, <1>3, <1>4

LEMMA ScoreTypes ==
    ASSUME InputInv, NEW y \in Nat, NEW pos \in 0 .. seqLen - 1
    PROVE  /\ ScoreAt(y, pos) \in Nat
           /\ Real(y) => ScoreAt(y, pos) \in Scores
           /\ ~Real(y) => ScoreAt(y, pos) = 0
  BY AttentionBlockAssumption DEF InputInv, ScoreAt

\* To rescale is to move the reference.
LEMMA RescaledSums ==
    ASSUME InputInv, NEW y \in Nat, NEW n \in Nat, n <= seqLen, NEW m \in Int, NEW by \in Int
    PROVE  /\ Rescaled(Sums(y, n, m), by) = Sums(y, n, m + by)
           /\ Rescaled(Weights(y, n, m), by) = Weights(y, n, m + by)
  <1>1. \A i \in 1 .. n : ScoreAt(y, i - 1) \in Int
    <2> SUFFICES ASSUME NEW i \in 1 .. n PROVE ScoreAt(y, i - 1) \in Int
      OBVIOUS
    <2>1. i - 1 \in 0 .. seqLen - 1
      BY DEF InputInv
    <2> QED
      BY <2>1, ScoreTypes
  <1>2. \A i \in 1 .. n : (ScoreAt(y, i - 1) - m) - by = ScoreAt(y, i - 1) - (m + by)
    BY <1>1
  <1>3. Rescaled(Sums(y, n, m), by) = Sums(y, n, m + by)
    BY <1>2 DEF Rescaled, Sums
  <1>4. Rescaled(Weights(y, n, m), by) = Weights(y, n, m + by)
    BY <1>2 DEF Rescaled, Weights
  <1> QED
    BY <1>3, <1>4

\* Without keys nothing depends on the reference.
LEMMA NoSums ==
    ASSUME NEW y, NEW m, NEW n
    PROVE  Sums(y, 0, m) = Sums(y, 0, n) /\ Weights(y, 0, m) = Weights(y, 0, n)
           /\ Sums(y, 0, m) = <<>> /\ Weights(y, 0, m) = <<>>
           /\ \A by : Rescaled(Sums(y, 0, m), by) = Sums(y, 0, n)
                      /\ Rescaled(Weights(y, 0, m), by) = Weights(y, 0, n)
  <1>1. 1 .. 0 = {}
    OBVIOUS
  <1>2. Sums(y, 0, m) = Sums(y, 0, n) /\ Weights(y, 0, m) = Weights(y, 0, n)
    BY <1>1 DEF Sums, Weights
  <1>3. Sums(y, 0, m) = <<>> /\ Weights(y, 0, m) = <<>>
    BY <1>1 DEF Sums, Weights
  <1>4. \A by : Rescaled(<<>>, by) = <<>>
    BY DEF Rescaled
  <1> QED
    BY <1>2, <1>3, <1>4

-----------------------------------------------------------------------------
(* One tile of keys *)

\* The keys of a tile that a row sees, and how many.
Fresh(w, y) == Among(y, kvStart[w] + KvTile) - Among(y, kvStart[w])

LEMMA TileScores ==
    ASSUME TypeInv, TileInv, NEW w \in Warps, NEW y \in WarpTile(w),
           RowInv(w, y), pc[w] = "scores"
    PROVE  \A c \in 0 .. Fresh(w, y) - 1 :
               /\ tileA[c] = Key(kvStart[w] + c)
               /\ ScoreOf(q[w][y], tileA[c]) = ScoreAt(y, kvStart[w] + c)
  <1> SUFFICES ASSUME NEW c \in 0 .. Fresh(w, y) - 1
               PROVE  /\ tileA[c] = Key(kvStart[w] + c)
                      /\ ScoreOf(q[w][y], tileA[c]) = ScoreAt(y, kvStart[w] + c)
    OBVIOUS
  <1>1. c \in KvRows /\ kvStart[w] + c < Own(y) /\ kvStart[w] \in Nat
    BY ColumnsOfRow DEF Fresh
  <1>2. InputInv /\ y \in Nat
    BY RowOfWarp DEF TypeInv
  <1>3. kvStart[w] + c < BlockKvLen
    <2>1. kvStart[w] + c \in Nat
      BY <1>1 DEF KvRows
    <2>2. Own(y) \in Nat /\ Own(y) <= BlockKvLen /\ BlockKvLen \in Nat
      BY <1>2, OwnKeys, BlockLength
    <2> QED
      BY <1>1, <2>1, <2>2
  <1>4. tileA[c] = KeySource(w, c)
    BY <1>1, WholeFromTiles DEF TilesAreWhole, KvRows
  <1>5. tileA[c] = Key(kvStart[w] + c)
    BY <1>3, <1>4 DEF KeySource
  <1>6. q[w][y] = QuerySource(y)
    BY DEF RowInv
  <1>7. ScoreOf(QuerySource(y), Key(kvStart[w] + c)) = ScoreAt(y, kvStart[w] + c)
    BY DEF ScoreOf, QuerySource, Query, Key, Zero, ScoreAt, Real
  <1> QED
    BY <1>5, <1>6, <1>7

LEMMA TileMaxIs ==
    ASSUME TypeInv, TileInv, NEW w \in Warps, NEW y \in WarpTile(w),
           RowInv(w, y), pc[w] = "scores"
    PROVE  /\ Fresh(w, y) \in Nat
           /\ Fresh(w, y) = 0 => TileMax(w, y) = MinusInfinity
           /\ Fresh(w, y) > 0 =>
                 /\ TileMax(w, y) \in Nat
                 /\ IF Real(y) THEN TileMax(w, y) \in Scores ELSE TileMax(w, y) = 0
                 /\ \A c \in 0 .. Fresh(w, y) - 1 :
                       ScoreAt(y, kvStart[w] + c) <= TileMax(w, y)
                 /\ \E c \in 0 .. Fresh(w, y) - 1 :
                       ScoreAt(y, kvStart[w] + c) = TileMax(w, y)
  <1> DEFINE k == kvStart[w]
             n == Fresh(w, y)
             at(c) == ScoreAt(y, k + c)
             s == {at(c) : c \in 0 .. n - 1}
  <1>1. n \in Nat /\ k \in Nat /\ Columns(w, y) = 0 .. n - 1
    BY ColumnsOfRow DEF Fresh
  <1>2. s = {ScoreOf(q[w][y], tileA[c]) : c \in Columns(w, y)}
    BY <1>1, TileScores
  <1>3. TileMax(w, y) = IF s = {} THEN MinusInfinity ELSE CHOOSE m \in s : \A i \in s : i <= m
    <2> HIDE DEF s
    <2> QED
      BY <1>2 DEF TileMax
  <1>4. InputInv /\ y \in Nat
    BY RowOfWarp DEF TypeInv
  <1>5. \A c \in 0 .. n - 1 : k + c \in 0 .. seqLen - 1
    <2> SUFFICES ASSUME NEW c \in 0 .. n - 1 PROVE k + c \in 0 .. seqLen - 1
      OBVIOUS
    <2>1. k + c < Own(y)
      BY ColumnsOfRow DEF Fresh
    <2>2. Own(y) \in Nat /\ BlockKvLen \in Nat /\ Own(y) <= BlockKvLen /\ BlockKvLen <= seqLen
          /\ seqLen \in Nat
      BY <1>4, OwnKeys, BlockLength DEF InputInv
    <2> QED
      BY <1>1, <2>1, <2>2
  <1>6. \A c \in 0 .. n - 1 : /\ at(c) \in Nat
                              /\ Real(y) => at(c) \in Scores
                              /\ ~Real(y) => at(c) = 0
    BY <1>4, <1>5, ScoreTypes
  <1> HIDE DEF k, n, at
  <1>7. CASE n = 0
    <2>1. s = {}
      BY <1>7
    <2> QED
      BY <1>1, <1>3, <1>7, <2>1 DEF n
  <1>8. CASE n > 0
    <2>1. \E i \in 0 .. n - 1 : \A j \in 0 .. n - 1 : at(j) <= at(i)
      <3> DEFINE f == [c \in 0 .. n - 1 |-> at(c)]
      <3>1. f \in [0 .. n - 1 -> Nat] /\ n \in Nat \ {0}
        BY <1>1, <1>6, <1>8
      <3>2. \E i \in 0 .. n - 1 : \A j \in 0 .. n - 1 : f[j] <= f[i]
        <4> HIDE DEF f
        <4> QED
          BY <3>1, LargestValue
      <3> QED
        BY <3>2
    <2>2. \E m \in s : \A i \in s : i <= m
      BY <2>1
    <2>3. TileMax(w, y) \in s /\ \A i \in s : i <= TileMax(w, y)
      <3> HIDE DEF s
      <3> QED
        BY <1>3, <2>2
    <2> QED
      BY <1>1, <1>6, <1>8, <2>3 DEF n, at, k
  <1> QED
    BY <1>1, <1>7, <1>8 DEF n

LEMMA ReferenceIsNat ==
    ASSUME NEW y, NEW n, NEW m, Reference(y, n, m)
    PROVE  m \in Nat /\ m \in Int
  <1>1. \A s \in Scores : s \in Nat
    BY AttentionBlockAssumption
  <1>2. m \in Scores \/ m = 0
    BY DEF Reference
  <1>3. CASE m \in Scores
    <2>1. m \in Nat
      BY <1>1, <1>3
    <2> QED
      BY <2>1
  <1>4. CASE m = 0
    BY <1>4
  <1> QED
    BY <1>2, <1>3, <1>4

\* The new reference is one of the scores so far, and none is far above it.
LEMMA NewReference ==
    ASSUME TypeInv, TileInv, NEW w \in Warps, NEW y \in WarpTile(w),
           RowInv(w, y), pc[w] = "scores"
    PROVE  /\ Reference(y, Among(y, kvStart[w] + KvTile), NewRef(w, y))
           /\ NewRef(w, y) \in Int
           /\ kvStart[w] > 0 => mRef[w][y] \in Int /\ ScaleOf(w, y) = NewRef(w, y) - mRef[w][y]
  <1> DEFINE k == kvStart[w]
             n == Among(y, k)
             n2 == Among(y, k + KvTile)
             m == mRef[w][y]
             top == TileMax(w, y)
             at(pos) == ScoreAt(y, pos)
  <1>1. /\ InputInv /\ y \in Nat /\ k \in Nat /\ n \in Nat /\ n2 \in Nat /\ n <= n2
        /\ Own(y) \in Nat \ {0} /\ Own(y) <= BlockKvLen /\ BlockKvLen \in Nat
        /\ BlockKvLen <= seqLen /\ seqLen \in Nat
        /\ n2 <= Own(y)
        /\ n < n2 => n = k
    <2>1. InputInv /\ y \in Nat /\ k \in Nat /\ k + KvTile \in Nat
      BY RowOfWarp, Sizes DEF TypeInv
    <2> QED
      BY <2>1, OwnKeys, BlockLength DEF InputInv
  <1>2. Fresh(w, y) = n2 - n /\ Fresh(w, y) \in Nat
    BY <1>1 DEF Fresh
  <1>3. \A pos \in 0 .. n2 - 1 : at(pos) \in Nat
    <2>1. \A pos \in 0 .. n2 - 1 : pos \in 0 .. seqLen - 1
      BY <1>1
    <2> QED
      BY <1>1, <2>1, ScoreTypes
  <1>4. n < n2 =>
            /\ top \in Nat /\ IF Real(y) THEN top \in Scores ELSE top = 0
            /\ \A pos \in n .. n2 - 1 : at(pos) <= top
            /\ \E pos \in n .. n2 - 1 : at(pos) = top
    <2> SUFFICES ASSUME n < n2
                 PROVE  /\ top \in Nat /\ IF Real(y) THEN top \in Scores ELSE top = 0
                        /\ \A pos \in n .. n2 - 1 : at(pos) <= top
                        /\ \E pos \in n .. n2 - 1 : at(pos) = top
      OBVIOUS
    <2>1. n = k /\ Fresh(w, y) > 0
      BY <1>1, <1>2
    <2>2. /\ top \in Nat /\ IF Real(y) THEN top \in Scores ELSE top = 0
          /\ \A c \in 0 .. Fresh(w, y) - 1 : at(k + c) <= top
          /\ \E c \in 0 .. Fresh(w, y) - 1 : at(k + c) = top
      BY <2>1, TileMaxIs
    <2>3. ASSUME NEW pos \in n .. n2 - 1 PROVE at(pos) <= top
      <3>1. pos - k \in 0 .. Fresh(w, y) - 1 /\ k + (pos - k) = pos
        BY <1>1, <1>2, <2>1
      <3>2. at(k + (pos - k)) <= top
        BY <2>2, <3>1
      <3> QED
        BY <3>1, <3>2
    <2>4. PICK c \in 0 .. Fresh(w, y) - 1 : at(k + c) = top
      BY <2>2
    <2>5. k + c \in n .. n2 - 1
      BY <1>1, <1>2, <2>1
    <2> QED
      BY <2>2, <2>3, <2>4, <2>5
  <1>5. k > 0 => Reference(y, n, m)
    BY DEF RowInv
  <1>6. Reference(y, n, m) => m \in Nat
    BY ReferenceIsNat
  <1>7. MaxExponentGap \in Nat /\ KvTile \in Nat \ {0}
    BY Sizes
  <1>8. n = n2 => top = MinusInfinity
    BY <1>1, <1>2, TileMaxIs
  <1>9. Rescales(w, y) <=> top > m + MaxExponentGap
    BY DEF Rescales
  <1>10. NewRef(w, y) = IF k = 0 \/ Rescales(w, y) THEN top ELSE m
    BY DEF NewRef
  <1> HIDE DEF k, n, n2, m, top, at
  <1>11. CASE k = 0
    <2>1. n = 0 /\ n2 > 0
      <3>1. n = 0
        BY <1>1, <1>11, OwnKeys DEF n
      <3>2. n2 = IF KvTile < Own(y) THEN KvTile ELSE Own(y)
        BY <1>7, <1>11 DEF n2, Among
      <3> QED
        BY <1>1, <1>7, <3>1, <3>2
    <2>2. NewRef(w, y) = top
      BY <1>10, <1>11
    <2>3. /\ \A pos \in 0 .. n2 - 1 : at(pos) <= top + MaxExponentGap
          /\ \E pos \in 0 .. n2 - 1 : at(pos) >= top
      BY <1>1, <1>3, <1>4, <1>7, <2>1
    <2>4. Reference(y, n2, top) /\ top \in Int
      BY <1>1, <1>4, <2>1, <2>3 DEF Reference, at
    <2> QED
      BY <1>11, <2>2, <2>4 DEF k, n2
  <1>12. CASE k > 0 /\ Rescales(w, y)
    <2>1. Reference(y, n, m) /\ m \in Nat
      BY <1>5, <1>6, <1>12
    <2>2. top > m + MaxExponentGap
      BY <1>9, <1>12
    <2>3. n < n2
      BY <1>1, <1>7, <1>8, <2>1, <2>2 DEF MinusInfinity
    <2>4. ASSUME NEW pos \in 0 .. n2 - 1 PROVE at(pos) <= top + MaxExponentGap
      <3>1. CASE pos \in 0 .. n - 1
        <4>1. at(pos) <= m + MaxExponentGap
          BY <2>1, <3>1 DEF Reference, at
        <4> QED
          BY <1>3, <1>4, <1>7, <2>1, <2>2, <2>3, <4>1
      <3>2. CASE pos \in n .. n2 - 1
        BY <1>3, <1>4, <1>7, <2>3, <3>2
      <3> QED
        BY <1>1, <3>1, <3>2
    <2>5. \E pos \in 0 .. n2 - 1 : at(pos) >= top
      <3>1. PICK pos \in n .. n2 - 1 : at(pos) = top
        BY <1>4, <2>3
      <3>2. pos \in 0 .. n2 - 1 /\ at(pos) >= top
        BY <1>1, <1>4, <2>3, <3>1
      <3> QED
        BY <3>2
    <2>6. Reference(y, n2, top) /\ top \in Int
      BY <1>4, <2>3, <2>4, <2>5 DEF Reference, at
    <2> QED
      BY <1>1, <1>10, <1>12, <2>1, <2>6 DEF k, n2, m, ScaleOf
  <1>13. CASE k > 0 /\ ~Rescales(w, y)
    <2>1. Reference(y, n, m) /\ m \in Nat
      BY <1>5, <1>6, <1>13
    <2>2. NewRef(w, y) = m
      BY <1>10, <1>13
    <2>3. ASSUME NEW pos \in 0 .. n2 - 1 PROVE at(pos) <= m + MaxExponentGap
      <3>1. CASE pos \in 0 .. n - 1
        BY <2>1, <3>1 DEF Reference, at
      <3>2. CASE pos \in n .. n2 - 1
        <4>1. n < n2
          BY <1>1, <3>2
        <4>2. at(pos) <= top /\ top \in Nat /\ top <= m + MaxExponentGap
          BY <1>4, <1>7, <1>9, <1>13, <2>1, <3>2, <4>1
        <4> QED
          BY <1>3, <1>7, <2>1, <4>2
      <3> QED
        BY <1>1, <3>1, <3>2
    <2>4. \E pos \in 0 .. n2 - 1 : at(pos) >= m
      <3>1. PICK pos \in 0 .. n - 1 : at(pos) >= m
        BY <2>1 DEF Reference, at
      <3> QED
        BY <1>1, <3>1
    <2>5. Reference(y, n2, m)
      BY <2>1, <2>3, <2>4 DEF Reference, at
    <2> QED
      BY <1>1, <1>13, <2>1, <2>2, <2>5 DEF k, n2, m, ScaleOf
  <1> QED
    BY <1>1, <1>11, <1>12, <1>13

\* What a row adds up is of the request.
LEMMA SumsStay ==
    ASSUME UNCHANGED inputVars
    PROVE  /\ \A y : Own(y)' = Own(y) /\ Real(y)' = Real(y) /\ QuerySource(y)' = QuerySource(y)
           /\ \A y, k : Among(y, k)' = Among(y, k)
           /\ \A y, n, m : /\ Sums(y, n, m)' = Sums(y, n, m) /\ Weights(y, n, m)' = Weights(y, n, m)
                           /\ TileWeights(y, n, m)' = TileWeights(y, n, m)
                           /\ Reference(y, n, m)' = Reference(y, n, m)
  BY DEF inputVars, Own, Real, QuerySource, NumRows, PrefixLen, BlockKvLen, Among, Sums, Weights,
         TileWeights, Reference, ScoreAt

\* Most steps leave a row's registers alone.
LEMMA RowStays ==
    ASSUME NEW w \in Warps, NEW y \in WarpTile(w), RowInv(w, y), UNCHANGED inputVars,
           kvStart'[w] = kvStart[w], q'[w] = q[w], mRef'[w] = mRef[w], p'[w] = p[w],
           l'[w] = l[w], acc'[w] = acc[w],
           pc'[w] \notin {"loadQ", "waitQ", "syncQ", "readQ"}
               => pc[w] \notin {"loadQ", "waitQ", "syncQ", "readQ"},
           pc'[w] \in {"waitV", "syncV", "values"} <=> pc[w] \in {"waitV", "syncV", "values"}
    PROVE  RowInv(w, y)'
  BY SumsStay DEF RowInv

LEMMA ScoresRow ==
    ASSUME TypeInv, TileInv, NEW w \in Warps, NEW y \in WarpTile(w), RowInv(w, y),
           ComputeScores(w)
    PROVE  RowInv(w, y)'
  <1> DEFINE k == kvStart[w]
             j == Fresh(w, y)
             n == Among(y, k)
             n2 == Among(y, k + KvTile)
             m == NewRef(w, y)
             by == ScaleOf(w, y)
             tileWeights == [i \in 1 .. j |->
                 [column |-> i - 1, key |-> tileA[i - 1],
                  exponent |-> ScoreOf(q[w][y], tileA[i - 1]) - m]]
             terms == [i \in 1 .. j |-> [key |-> tileWeights[i].key,
                                         exponent |-> tileWeights[i].exponent]]
  <1>1. pc[w] = "scores" /\ pc'[w] = "waitV" /\ UNCHANGED inputVars /\ kvStart' = kvStart /\ q' = q
    BY DEF ComputeScores, Goto, TypeInv
  <1>2. /\ InputInv /\ y \in Nat /\ k \in Nat /\ k + KvTile \in Nat /\ n \in Nat /\ n2 \in Nat
        /\ j \in Nat /\ n + j = n2 /\ n2 <= seqLen
    <2>1. InputInv /\ y \in Nat /\ k \in Nat /\ k + KvTile \in Nat
      BY RowOfWarp, Sizes DEF TypeInv
    <2>2. /\ n \in Nat /\ n2 \in Nat /\ n <= n2 /\ n2 <= Own(y) /\ Own(y) \in Nat
          /\ Own(y) <= BlockKvLen
      BY <2>1, OwnKeys
    <2>3. BlockKvLen \in Nat /\ BlockKvLen <= seqLen /\ seqLen \in Nat
      BY <2>1, BlockLength DEF InputInv
    <2>4. j = n2 - n
      BY DEF Fresh
    <2> HIDE DEF j, n, n2, k
    <2> QED
      BY <2>1, <2>2, <2>3, <2>4
  <1>3. Columns(w, y) = 0 .. j - 1 /\ Ascending(Columns(w, y)) = [i \in 1 .. j |-> i - 1]
    <2>1. Columns(w, y) = 0 .. j - 1
      BY ColumnsOfRow DEF Fresh
    <2> HIDE DEF j
    <2> QED
      BY <1>2, <2>1, AscendingPrefix
  <1>4. /\ mRef'[w][y] = m
        /\ p'[w][y] = tileWeights
        /\ acc'[w][y] = Rescaled(acc[w][y], by)
        /\ l'[w][y] = Rescaled(l[w][y], by) \o terms
    <2> DEFINE cols(z) == Ascending(Columns(w, z))
               weights(z) == [i \in DOMAIN cols(z) |->
                   [column |-> cols(z)[i], key |-> tileA[cols(z)[i]],
                    exponent |-> ScoreOf(q[w][z], tileA[cols(z)[i]]) - NewRef(w, z)]]
               term(x) == [key |-> x.key, exponent |-> x.exponent]
    <2>1. weights(y) = tileWeights
      BY <1>3
    <2>2. [i \in DOMAIN weights(y) |-> term(weights(y)[i])] = terms
      <3> HIDE DEF weights
      <3>1. DOMAIN tileWeights = 1 .. j
        OBVIOUS
      <3> QED
        BY <2>1, <3>1
    <2>3. /\ mRef' = [mRef EXCEPT ![w] = [z \in WarpTile(w) |-> NewRef(w, z)]]
          /\ p' = [p EXCEPT ![w] = [z \in WarpTile(w) |-> weights(z)]]
          /\ acc' = [acc EXCEPT ![w] = [z \in WarpTile(w) |-> Rescaled(acc[w][z], ScaleOf(w, z))]]
          /\ l' = [l EXCEPT ![w] = [z \in WarpTile(w) |-> Rescaled(l[w][z], ScaleOf(w, z))
                      \o [i \in DOMAIN weights(z) |-> term(weights(z)[i])]]]
      BY DEF ComputeScores
    <2>4. DOMAIN mRef = Warps /\ DOMAIN p = Warps /\ DOMAIN acc = Warps /\ DOMAIN l = Warps
      BY DEF TypeInv
    <2>5. p'[w][y] = weights(y) /\ l'[w][y] = Rescaled(l[w][y], ScaleOf(w, y))
                      \o [i \in DOMAIN weights(y) |-> term(weights(y)[i])]
      <3> HIDE DEF weights
      <3> QED
        BY <2>3, <2>4
    <2> HIDE DEF weights, tileWeights, terms
    <2> QED
      BY <2>1, <2>2, <2>3, <2>4, <2>5
  <1>5. \A i \in 1 .. j : /\ tileA[i - 1] = Key(k + i - 1)
                          /\ ScoreOf(q[w][y], tileA[i - 1]) = ScoreAt(y, k + i - 1)
                          /\ n = k
    <2> SUFFICES ASSUME NEW i \in 1 .. j
                 PROVE  /\ tileA[i - 1] = Key(k + i - 1)
                        /\ ScoreOf(q[w][y], tileA[i - 1]) = ScoreAt(y, k + i - 1)
                        /\ n = k
      OBVIOUS
    <2>1. i - 1 \in 0 .. j - 1 /\ k + (i - 1) = k + i - 1
      BY <1>2
    <2>2. tileA[i - 1] = Key(k + (i - 1))
          /\ ScoreOf(q[w][y], tileA[i - 1]) = ScoreAt(y, k + (i - 1))
      BY <1>1, <2>1, TileScores
    <2>3. n = k
      BY <2>1, ColumnsOfRow DEF Fresh
    <2> QED
      BY <2>1, <2>2, <2>3
  <1>6. tileWeights = TileWeights(y, k, m)
    BY <1>2, <1>5 DEF TileWeights, Fresh
  <1>7. terms = MoreWeights(y, n, j, m)
    BY <1>5 DEF MoreWeights
  <1>8. acc[w][y] = Sums(y, n, mRef[w][y]) /\ l[w][y] = Weights(y, n, mRef[w][y])
    BY <1>1 DEF RowInv
  <1>9. Rescaled(acc[w][y], by) = Sums(y, n, m) /\ Rescaled(l[w][y], by) = Weights(y, n, m)
    <2>1. CASE k = 0
      <3>1. n = 0
        BY <1>2, <2>1, OwnKeys
      <3> HIDE DEF by, m
      <3> QED
        BY <1>8, <3>1, NoSums
    <2>2. CASE k > 0
      <3>1. mRef[w][y] \in Int /\ m \in Int /\ by = m - mRef[w][y]
        BY <1>1, <2>2, NewReference
      <3>2. n <= seqLen /\ seqLen \in Nat
        BY <1>2 DEF InputInv
      <3> HIDE DEF by, m, n
      <3>3. by \in Int /\ mRef[w][y] + by = m
        BY <3>1
      <3>4. ASSUME NEW a \in Int, NEW b \in Int
            PROVE  /\ Rescaled(Sums(y, n, a), b) = Sums(y, n, a + b)
                   /\ Rescaled(Weights(y, n, a), b) = Weights(y, n, a + b)
        <4>1. InputInv /\ y \in Nat /\ n \in Nat /\ n <= seqLen
          BY <1>2, <3>2
        <4> QED
          BY <4>1, RescaledSums
      <3> QED
        BY <1>8, <3>1, <3>3, <3>4
    <2> QED
      BY <1>2, <2>1, <2>2
  <1>10. l'[w][y] = Weights(y, n2, m)
    <2> HIDE DEF n, n2, j, m, terms, by
    <2>1. Weights(y, n, m) \o MoreWeights(y, n, j, m) = Weights(y, n + j, m)
      <3>1. m \in Int
        BY <1>1, NewReference DEF m
      <3>2. y \in Nat /\ n \in Nat /\ j \in Nat
        BY <1>2
      <3> QED
        BY <3>1, <3>2, ConcatWeights
    <2>2. l'[w][y] = Weights(y, n, m) \o terms
      BY <1>4, <1>9
    <2>3. l'[w][y] = Weights(y, n + j, m)
      BY <1>7, <2>1, <2>2
    <2> QED
      BY <1>2, <2>3
  <1>11. Reference(y, n2, m)
    BY <1>1, NewReference
  <1>12. q[w][y] = QuerySource(y)
    BY <1>1 DEF RowInv
  <1> HIDE DEF m, tileWeights, by, terms
  <1> QED
    BY <1>1, <1>4, <1>6, <1>9, <1>10, <1>11, <1>12, SumsStay DEF RowInv

LEMMA ValuesRow ==
    ASSUME TypeInv, TileInv, NEW w \in Warps, NEW y \in WarpTile(w), RowInv(w, y),
           ComputeValues(w)
    PROVE  RowInv(w, y)'
  <1> DEFINE k == kvStart[w]
             j == Fresh(w, y)
             n == Among(y, k)
             n2 == Among(y, k + KvTile)
             m == mRef[w][y]
             added == [i \in DOMAIN p[w][y] |->
                 [key |-> p[w][y][i].key, value |-> tileB[p[w][y][i].column],
                  exponent |-> p[w][y][i].exponent]]
  <1>1. /\ pc[w] = "values" /\ pc'[w] = "syncTile" /\ UNCHANGED inputVars
        /\ kvStart'[w] = k + KvTile /\ q' = q /\ mRef' = mRef /\ l' = l
    BY DEF ComputeValues, Goto, TypeInv, AfterValues
  <1>2. /\ InputInv /\ y \in Nat /\ k \in Nat /\ k + KvTile \in Nat /\ n \in Nat /\ n2 \in Nat
        /\ j \in Nat /\ n + j = n2 /\ j = n2 - n /\ k + KvTile > 0
    <2>1. InputInv /\ y \in Nat /\ k \in Nat /\ k + KvTile \in Nat /\ k + KvTile > 0
      BY RowOfWarp, Sizes DEF TypeInv
    <2>2. n \in Nat /\ n2 \in Nat /\ n <= n2
      BY <2>1, OwnKeys
    <2>3. j = n2 - n
      BY DEF Fresh
    <2> HIDE DEF j, n, n2, k
    <2> QED
      BY <2>1, <2>2, <2>3
  <1>3. \A c \in KvRows : tileB[c] = ValueSource(w, c)
    BY <1>1, WholeFromTiles DEF TilesAreWhole, KvRows
  <1>4. ~ \E c \in DOMAIN tileB : tileB[c] = Junk
    <2>1. \A pos : Value(pos) # Junk /\ Zero # Junk
      BY DEF Value, Zero, Junk
    <2>2. \A c : ValueSource(w, c) # Junk
      BY <2>1 DEF ValueSource
    <2> QED
      BY <1>3, <2>2 DEF TypeInv
  <1>5. acc'[w][y] = acc[w][y] \o added \o <<>> /\ p'[w][y] = <<>>
    <2>1. DOMAIN acc = Warps /\ DOMAIN p = Warps
      BY DEF TypeInv
    <2> QED
      BY <1>4, <2>1 DEF ComputeValues
  <1>6. /\ acc[w][y] = Sums(y, n, m) /\ l[w][y] = Weights(y, n2, m)
        /\ p[w][y] = TileWeights(y, k, m) /\ Reference(y, n2, m) /\ q[w][y] = QuerySource(y)
    BY <1>1 DEF RowInv
  <1>7. \A i \in 1 .. j : tileB[i - 1] = Value(n + i - 1) /\ n = k
    <2> SUFFICES ASSUME NEW i \in 1 .. j PROVE tileB[i - 1] = Value(n + i - 1) /\ n = k
      OBVIOUS
    <2>1. i - 1 \in 0 .. j - 1
      BY <1>2
    <2>2. i - 1 \in KvRows /\ k + (i - 1) < Own(y) /\ n = k
      BY <2>1, ColumnsOfRow DEF Fresh
    <2>3. Own(y) \in Nat /\ BlockKvLen \in Nat /\ Own(y) <= BlockKvLen
      BY <1>2, OwnKeys, BlockLength
    <2>4. k + (i - 1) < BlockKvLen /\ k + (i - 1) = n + i - 1
      BY <1>2, <2>2, <2>3
    <2> QED
      BY <1>3, <2>2, <2>4 DEF ValueSource
  <1>8. added = MoreSums(y, n, j, m)
    <2>1. p[w][y] = [i \in 1 .. j |-> [column |-> i - 1, key |-> Key(k + i - 1),
                                       exponent |-> ScoreAt(y, k + i - 1) - m]]
      BY <1>2, <1>6 DEF TileWeights
    <2> QED
      BY <1>7, <2>1 DEF MoreSums
  <1>9. acc'[w][y] = Sums(y, n2, m)
    <2>1. acc[w][y] \o added = Sums(y, n2, m)
      <3> HIDE DEF added, n, n2, j, m
      <3>1. Sums(y, n, m) \o MoreSums(y, n, j, m) = Sums(y, n + j, m)
        <4>1. m \in Int
          BY <1>6, ReferenceIsNat
        <4>2. y \in Nat /\ n \in Nat /\ j \in Nat
          BY <1>2
        <4> QED
          BY <4>1, <4>2, ConcatSums
      <3>2. acc[w][y] \o added = Sums(y, n + j, m)
        BY <1>6, <1>8, <3>1
      <3> QED
        BY <1>2, <3>2
    <2>2. Sums(y, n2, m) \o <<>> = Sums(y, n2, m)
      <3> HIDE DEF n2, m
      <3> DEFINE term(i) == [key |-> Key(i - 1), value |-> Value(i - 1),
                             exponent |-> ScoreAt(y, i - 1) - m]
                 S == {term(i) : i \in 1 .. n2}
      <3>1. Sums(y, n2, m) \in Seq(S)
        <4>1. Sums(y, n2, m) = [i \in 1 .. n2 |-> term(i)]
          BY DEF Sums
        <4>2. [i \in 1 .. n2 |-> term(i)] \in [1 .. n2 -> S]
          OBVIOUS
        <4> HIDE DEF S
        <4> QED
          BY <1>2, <4>1, <4>2
      <3> HIDE DEF S
      <3> QED
        BY <3>1, ConcatEmptySeq
    <2> HIDE DEF added
    <2> QED
      BY <1>5, <2>1, <2>2
  <1> HIDE DEF added
  <1>10. /\ acc'[w][y] = Sums(y, Among(y, kvStart'[w]), mRef'[w][y])
         /\ l'[w][y] = Weights(y, Among(y, kvStart'[w]), mRef'[w][y])
         /\ Reference(y, Among(y, kvStart'[w]), mRef'[w][y])
    BY <1>1, <1>6, <1>9
  <1> QED
    BY <1>1, <1>5, <1>6, <1>10, SumsStay DEF RowInv

LEMMA InitSums == Init => SumInv
  <1> SUFFICES ASSUME Init, NEW w \in Warps, NEW y \in WarpTile(w) PROVE RowInv(w, y)
    BY DEF SumInv
  <1>1. InputInv /\ y \in Nat
    BY InitTypes, RowOfWarp DEF TypeInv
  <1>2. Among(y, 0) = 0
    BY <1>1, OwnKeys
  <1>3. /\ pc[w] = "loadQ" /\ kvStart[w] = 0 /\ acc[w][y] = <<>> /\ l[w][y] = <<>> /\ p[w][y] = <<>>
    BY DEF Init, Registers
  <1> QED
    BY <1>2, <1>3, NoSums DEF RowInv

LEMMA NextSums == TypeInv /\ TileInv /\ SumInv /\ [Next]_vars => SumInv'
  <1> SUFFICES ASSUME TypeInv, TileInv, SumInv, [Next]_vars, NEW v \in Warps, NEW y \in WarpTile(v)
               PROVE  RowInv(v, y)'
    BY DEF SumInv
  <1>1. RowInv(v, y)
    BY DEF SumInv
  <1> USE DEF Goto, regVars
  <1>2. CASE Copying
    BY <1>1, <1>2, RowStays DEF Copying, Land
  <1>3. CASE Barrier
    <2>1. /\ pc[v] \in {"syncQ", "syncRead", "syncK", "syncV", "syncTile", "syncO"}
          /\ pc'[v] = Behind[pc[v]]
      BY <1>3 DEF Barrier, Behind
    <2>2. /\ Behind["syncQ"] = "readQ" /\ Behind["syncRead"] = "loop" /\ Behind["syncK"] = "scores"
          /\ Behind["syncV"] = "values" /\ Behind["syncTile"] = "loop"
          /\ Behind["syncO"] = "writeBack"
      BY DEF Behind
    <2> QED
      BY <1>1, <1>3, <2>1, <2>2, RowStays DEF Barrier
  <1>4. ASSUME NEW w \in Warps, Run(w) PROVE RowInv(v, y)'
    <2>1. DOMAIN pc = Warps
      BY DEF TypeInv
    <2>2. CASE LoadQ(w)
      BY <1>1, <2>1, <2>2, RowStays DEF LoadQ
    <2>3. CASE LoadKV(w)
      BY <1>1, <2>1, <2>3, RowStays DEF LoadKV
    <2>4. CASE ReadQ(w)
      <3>1. CASE v = w
        <4>1. q'[w][y] = QuerySource(y) /\ pc[w] = "readQ" /\ pc'[w] = "syncRead"
          BY <2>1, <2>4, <3>1, WholeFromTiles DEF ReadQ, TilesAreWhole, TypeInv
        <4> QED
          BY <1>1, <2>4, <3>1, <4>1, SumsStay DEF ReadQ, RowInv
      <3>2. CASE v # w
        <4>1. q'[v] = q[v] /\ pc'[v] = pc[v]
          BY <2>4, <3>2 DEF ReadQ, TypeInv
        <4> QED
          BY <1>1, <2>4, <4>1, RowStays DEF ReadQ
      <3> QED
        BY <3>1, <3>2
    <2>5. CASE ComputeScores(w)
      <3>1. CASE v = w
        BY <1>1, <2>5, <3>1, ScoresRow
      <3>2. CASE v # w
        <4>1. /\ mRef'[v] = mRef[v] /\ p'[v] = p[v] /\ l'[v] = l[v] /\ acc'[v] = acc[v]
              /\ pc'[v] = pc[v]
          BY <2>5, <3>2 DEF ComputeScores, TypeInv
        <4> QED
          BY <1>1, <2>5, <4>1, RowStays DEF ComputeScores
      <3> QED
        BY <3>1, <3>2
    <2>6. CASE ComputeValues(w)
      <3>1. CASE v = w
        BY <1>1, <2>6, <3>1, ValuesRow
      <3>2. CASE v # w
        <4>1. p'[v] = p[v] /\ acc'[v] = acc[v] /\ pc'[v] = pc[v] /\ kvStart'[v] = kvStart[v]
          BY <2>6, <3>2 DEF ComputeValues, TypeInv
        <4> QED
          BY <1>1, <2>6, <4>1, RowStays DEF ComputeValues
      <3> QED
        BY <3>1, <3>2
    <2>7. CASE Store(w)
      BY <1>1, <2>1, <2>7, RowStays DEF Store
    <2>8. CASE WriteBack(w)
      BY <1>1, <2>1, <2>8, RowStays DEF WriteBack
    <2>9. CASE Wait(w, "waitQ", 0, "syncQ")
      BY <1>1, <2>1, <2>9, RowStays DEF Wait
    <2>10. CASE Wait(w, "waitK", 1, "syncK")
      BY <1>1, <2>1, <2>10, RowStays DEF Wait
    <2>11. CASE Wait(w, "waitV", 0, "syncV")
      BY <1>1, <2>1, <2>11, RowStays DEF Wait
    <2> QED
      BY <1>4, <2>2, <2>3, <2>4, <2>5, <2>6, <2>7, <2>8, <2>9, <2>10, <2>11 DEF Run
  <1>5. CASE UNCHANGED vars
    BY <1>1, <1>5, RowStays DEF vars
  <1> QED
    BY <1>2, <1>3, <1>4, <1>5 DEF Next

-----------------------------------------------------------------------------
(* The theorems *)

LEMMA SpecSums == Spec => [](TypeInv /\ TileInv /\ SumInv)
  BY InitTypes, InitTiles, InitSums, NextTypes, NextTiles, NextSums, PTL DEF Spec

\* Warps that wait at barriers wait at one and the same.
OneBarrier ==
    \A v, w \in Warps : pc[v] \in DOMAIN Behind /\ pc[w] \in DOMAIN Behind => pc[v] = pc[w]

LEMMA OneBarrierFromTiles == TypeInv /\ TileInv => OneBarrier
  <1> SUFFICES ASSUME TypeInv, TileInv, NEW v \in Warps, NEW w \in Warps,
                      pc[v] \in DOMAIN Behind, pc[w] \in DOMAIN Behind
               PROVE  pc[v] = pc[w]
    BY DEF OneBarrier
  <1>1. {pc[v], pc[w]} \subseteq {"syncQ", "syncRead", "syncK", "syncV", "syncTile", "syncO"}
    BY DEF Behind
  <1> QED
    BY <1>1 DEF TileInv, LoadingQueries, ReadingQueries, LoadingKeys, Scoring, Summing, Storing,
           Writing, Together

\* __syncthreads counts arrivals and does not look at where they come from:
\* the warps of a block, padding or not, never arrive at different ones.
THEOREM BlockMeetsAtOneBarrier == Spec => []OneBarrier
  BY SpecSums, OneBarrierFromTiles, PTL

\* Copies by all warps, barriers and the reuse of memory for something else:
\* for any number of warps and any shares of the copies, a warp never reads a
\* row of shared memory that has not arrived or has been overwritten.
THEOREM BlockTilesAreWhole == Spec => []TilesAreWhole
  BY SpecSums, WholeFromTiles, PTL

LEMMA BoundedFromSums == TypeInv /\ TileInv /\ SumInv => WeightsAreBounded
  <1> SUFFICES ASSUME TypeInv, TileInv, SumInv, NEW w \in Warps, NEW y \in WarpTile(w),
                      NEW i \in DOMAIN l[w][y]
               PROVE  /\ l[w][y][i].exponent <= MaxExponentGap
                      /\ \E j \in DOMAIN l[w][y] : l[w][y][j].exponent >= 0
    BY DEF WeightsAreBounded
  <1> DEFINE m == mRef[w][y]
  <1>1. InputInv /\ y \in Nat /\ kvStart[w] \in Nat /\ kvStart[w] + KvTile \in Nat
    BY RowOfWarp, Sizes DEF TypeInv
  <1>2. RowInv(w, y)
    BY DEF SumInv
  <1>3. PICK n \in Nat : /\ n <= Own(y) /\ l[w][y] = Weights(y, n, m)
                         /\ n > 0 => Reference(y, n, m)
    <2>1. CASE pc[w] \in {"waitV", "syncV", "values"}
      <3>1. /\ l[w][y] = Weights(y, Among(y, kvStart[w] + KvTile), m)
            /\ Reference(y, Among(y, kvStart[w] + KvTile), m)
        BY <1>2, <2>1 DEF RowInv
      <3>2. /\ Among(y, kvStart[w] + KvTile) \in Nat
            /\ Among(y, kvStart[w] + KvTile) <= Own(y)
        BY <1>1, OwnKeys
      <3> QED
        BY <3>1, <3>2
    <2>2. CASE pc[w] \notin {"waitV", "syncV", "values"}
      <3>1. /\ l[w][y] = Weights(y, Among(y, kvStart[w]), m)
            /\ kvStart[w] > 0 => Reference(y, Among(y, kvStart[w]), m)
        BY <1>2, <2>2 DEF RowInv
      <3>2. /\ Among(y, kvStart[w]) \in Nat /\ Among(y, kvStart[w]) <= Own(y)
            /\ Among(y, kvStart[w]) <= kvStart[w]
        BY <1>1, OwnKeys
      <3>3. Among(y, kvStart[w]) > 0 => Reference(y, Among(y, kvStart[w]), m)
        BY <1>1, <3>1, <3>2
      <3> QED
        BY <3>1, <3>2, <3>3
    <2> QED
      BY <2>1, <2>2
  <1>4. DOMAIN l[w][y] = 1 .. n
        /\ \A j \in 1 .. n : l[w][y][j].exponent = ScoreAt(y, j - 1) - m
    BY <1>3 DEF Weights
  <1>5. i \in 1 .. n /\ n > 0 /\ Reference(y, n, m)
    BY <1>3, <1>4
  <1>6. m \in Int
    BY <1>5, ReferenceIsNat
  <1>7. \A pos \in 0 .. n - 1 : ScoreAt(y, pos) \in Nat
    <2>1. Own(y) \in Nat /\ Own(y) <= BlockKvLen /\ BlockKvLen \in Nat /\ BlockKvLen <= seqLen
          /\ seqLen \in Nat
      BY <1>1, OwnKeys, BlockLength DEF InputInv
    <2>2. \A pos \in 0 .. n - 1 : pos \in 0 .. seqLen - 1
      BY <1>3, <2>1
    <2> QED
      BY <1>1, <2>2, ScoreTypes
  <1> HIDE DEF m
  <1>8. l[w][y][i].exponent <= MaxExponentGap
    <2>1. i - 1 \in 0 .. n - 1
      BY <1>5
    <2>2. ScoreAt(y, i - 1) <= m + MaxExponentGap /\ ScoreAt(y, i - 1) \in Nat
      BY <1>5, <1>7, <2>1 DEF Reference
    <2>3. l[w][y][i].exponent = ScoreAt(y, i - 1) - m
      BY <1>4, <1>5
    <2>4. MaxExponentGap \in Nat
      BY Sizes
    <2> QED
      BY <1>6, <2>2, <2>3, <2>4
  <1>9. \E j \in DOMAIN l[w][y] : l[w][y][j].exponent >= 0
    <2>1. PICK pos \in 0 .. n - 1 : ScoreAt(y, pos) >= m
      BY <1>5 DEF Reference
    <2>2. pos + 1 \in 1 .. n /\ (pos + 1) - 1 = pos /\ ScoreAt(y, pos) \in Nat
      BY <1>7, <2>1
    <2>3. l[w][y][pos + 1].exponent = ScoreAt(y, pos) - m
      BY <1>4, <2>2
    <2>4. l[w][y][pos + 1].exponent >= 0
      BY <1>6, <2>1, <2>2, <2>3
    <2> QED
      BY <1>4, <2>2, <2>4
  <1> QED
    BY <1>8, <1>9

\* A row that is one of the request's sees its prefix and itself.
LEMMA OwnOfReal ==
    ASSUME InputInv, NEW y \in TileIndices, Real(y)
    PROVE  Own(y) = PrefixLen + (first + y) \div GroupSize + 1
  <1> DEFINE seen == (first + y) \div GroupSize
             last == (first + TileRows - 1) \div GroupSize
  <1>1. /\ first \in Nat /\ y \in Nat /\ first + y \in Nat /\ first + TileRows - 1 \in Nat
        /\ first + y <= first + TileRows - 1 /\ first + y < queryLen * GroupSize
        /\ queryLen \in Nat /\ seqLen \in Nat
    BY Sizes DEF InputInv, TileIndices, Real, NumRows
  <1>2. seen \in Nat /\ last \in Nat
    BY <1>1, Sizes, Quotient
  <1>3. seen <= last
    BY <1>1, Sizes, QuotientGrows
  <1>4. seen < queryLen
    BY <1>1, Sizes, QuotientBelow
  <1>5. /\ PrefixLen \in Nat /\ PrefixLen = seqLen - queryLen
        /\ BlockKvLen = seqLen \/ BlockKvLen = PrefixLen + last + 1
    BY BlockLength DEF PrefixLen
  <1>6. Own(y) = IF PrefixLen + seen < BlockKvLen THEN PrefixLen + seen + 1 ELSE BlockKvLen
    BY DEF Own
  <1> HIDE DEF seen, last
  <1>7. PrefixLen + seen < BlockKvLen
    BY <1>1, <1>2, <1>3, <1>4, <1>5
  <1> QED
    BY <1>6, <1>7 DEF seen

LEMMA AttentionFromSums == TypeInv /\ TileInv /\ SumInv => OutputIsAttention
  <1> SUFFICES ASSUME TypeInv, TileInv, SumInv, NEW row \in 0 .. NumRows - 1,
                      row - first \in TileIndices, \A w \in Warps : pc[w] = "done"
               PROVE  \E m \in Scores :
                          LET n == PrefixLen + row \div GroupSize + 1
                              sum == [i \in 1 .. n |-> [key |-> Key(i - 1), value |-> Value(i - 1),
                                                        exponent |-> Exponent(i - 1, m)]]
                              weight == [i \in 1 .. n |-> [key |-> Key(i - 1),
                                                           exponent |-> Exponent(i - 1, m)]]
                          IN  output[row] = <<"output", sum, weight>>
    BY DEF OutputIsAttention
  <1> DEFINE y == row - first
  <1>1. PICK k \in Nat : Writing(k)
    BY Sizes DEF TileInv, LoadingQueries, ReadingQueries, LoadingKeys, Scoring, Summing,
           Storing, Writing, Together
  <1>2. /\ InputInv /\ y \in TileIndices /\ y \in Nat /\ first + y = row /\ Real(y)
        /\ NumRows \in Nat /\ first \in Nat /\ row \in DOMAIN output
    <2>1. InputInv /\ NumRows \in Nat /\ first \in Nat
      BY BlockLength DEF TypeInv, InputInv
    <2> QED
      BY <2>1, Sizes DEF TypeInv, Real
  <1>3. PICK v \in Warps : y \in Share(v, TileIndices)
    BY <1>2, Sizes, SharesSplit
  <1>4. PICK w \in Warps : y \in WarpTile(w)
    BY <1>2, RowsOfWarps
  <1>5. output[row] = <<"output", acc[w][y], l[w][y]>>
    BY <1>1, <1>2, <1>3, <1>4 DEF Writing, Staged
  <1>6. kvStart[w] = k /\ k >= BlockKvLen /\ k > 0
    <2>1. BlockKvLen \in Nat \ {0}
      BY <1>2, BlockLength
    <2> QED
      BY <1>1, <2>1 DEF Writing, Together
  <1>7. RowInv(w, y)
    BY <1>4 DEF SumInv
  <1> DEFINE m == mRef[w][y]
             n == Own(y)
  <1>8. Among(y, k) = n /\ n \in Nat
    BY <1>2, <1>6, OwnKeys
  <1>9. acc[w][y] = Sums(y, n, m) /\ l[w][y] = Weights(y, n, m) /\ m \in Scores
    <2>1. pc[w] = "done"
      BY <1>4
    <2>2. /\ acc[w][y] = Sums(y, Among(y, k), m) /\ l[w][y] = Weights(y, Among(y, k), m)
          /\ Reference(y, Among(y, k), m)
      BY <1>6, <1>7, <2>1 DEF RowInv
    <2> QED
      BY <1>2, <1>8, <2>2 DEF Reference
  <1>10. n = PrefixLen + row \div GroupSize + 1
    BY <1>2, OwnOfReal
  <1>11. /\ Sums(y, n, m) = [i \in 1 .. n |-> [key |-> Key(i - 1), value |-> Value(i - 1),
                                               exponent |-> Exponent(i - 1, m)]]
         /\ Weights(y, n, m) = [i \in 1 .. n |-> [key |-> Key(i - 1),
                                                  exponent |-> Exponent(i - 1, m)]]
    BY <1>2 DEF Sums, Weights, ScoreAt, Exponent
  <1>12. output[row] = <<"output",
             [i \in 1 .. n |-> [key |-> Key(i - 1), value |-> Value(i - 1),
                                exponent |-> Exponent(i - 1, m)]],
             [i \in 1 .. n |-> [key |-> Key(i - 1), exponent |-> Exponent(i - 1, m)]]>>
    BY <1>5, <1>9, <1>11
  <1> HIDE DEF m, n, y
  <1> QED
    BY <1>9, <1>10, <1>12

\* The lazy rescale of the online softmax: for any scores and any gap, no
\* weight exceeds 2^MaxExponentGap, and one is not below 1.
THEOREM BlockWeightsAreBounded == Spec => []WeightsAreBounded
  BY SpecSums, BoundedFromSums, PTL

\* Causal mask, unmasked tiles, padding, lazy rescale, staging and the write
\* back by shares, all together: for any group size, warps, tiles, prefix and
\* scores, each row of the output is the attention of its query over its keys
\* from the first to its own, each once and under its own weight.
THEOREM BlockOutputIsAttention == Spec => []OutputIsAttention
  BY SpecSums, AttentionFromSums, PTL

=============================================================================
