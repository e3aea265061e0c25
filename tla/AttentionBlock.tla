--------------------------- MODULE AttentionBlock ---------------------------
(***************************************************************************)
(* One thread block of the attention kernel (ops/paged_attention.cu): its  *)
(* warps share a few tiles of memory that are filled by asynchronous       *)
(* copies and used again for something else before the warps are done, so  *)
(* that barriers and waits are all that keeps a warp from reading what is  *)
(* not there yet, or no longer.                                            *)
(*                                                                         *)
(* A warp runs from barrier to barrier on its own.  Each copies a share of *)
(* every tile, waits for its own copies, and reads the whole tile after    *)
(* the barrier.  The keys lie where the queries were, the output where the *)
(* keys were; the values are still on their way while the scores are       *)
(* computed.  PagedAttention says which rows and keys are the block's.     *)
(*                                                                         *)
(* A row of shared memory is what was copied there.  A score is an integer *)
(* power of two, the same for all queries; an accumulator is the sequence  *)
(* of what was added to it, each with the exponent it now has.             *)
(***************************************************************************)
EXTENDS PagedAttention, Sequences, FiniteSets

CONSTANTS
    CopyRows,         \* rows a warp copies in one round: 32 threads, 16 bytes each
    MaxExponentGap,   \* kMaxExponentGap
    Scores,           \* bound: the scores of keys
    SeqLens,          \* bound: tokens of the request, with its prefix
    QueryLens         \* bound: tokens of the request to compute

ASSUME AttentionBlockAssumption ==
    /\ CopyRows \in Nat \ {0}
    /\ MaxExponentGap \in Nat
    /\ Scores \subseteq Nat
    /\ SeqLens \subseteq Nat \ {0}
    /\ QueryLens \subseteq Nat \ {0}

Warps == 0 .. NumWarps - 1
TileIndices == 0 .. TileRows - 1
Larger(m, n) == IF m > n THEN m ELSE n

VARIABLES
    seqLen,    \* seq_len
    queryLen,  \* query_len
    first,     \* q_start_idx: the first of the rows of the block
    score,     \* the scores of the keys, by position
    pc,        \* where each warp is
    kvStart,   \* kv_start_idx of each warp
    groups,    \* the committed copies of each warp that have not all arrived
    tileA,     \* smem_q, smem_k and smem_o, one over the other
    tileB,     \* smem_v
    q,         \* q_reg: the rows of each warp
    mRef,      \* m_ref, by warp and row
    p,         \* acc_s after the softmax, without its zeros
    l,         \* l
    acc,       \* acc_o
    output     \* the rows of O

inputVars == <<seqLen, queryLen, first, score>>
regVars == <<q, mRef, p, l, acc>>
vars == <<inputVars, pc, kvStart, groups, tileA, tileB, regVars, output>>

Junk == <<"junk", 0>>
Zero == <<"zero", 0>>
Query(row) == <<"query", row>>
Key(pos) == <<"key", pos>>
Value(pos) == <<"value", pos>>

NumRows == queryLen * GroupSize
PrefixLen == seqLen - queryLen
BlockKvLen == KvLen(first, PrefixLen, seqLen)
MinusInfinity == -1000

\* The shares of the warps are alike in every copy: round after round, each
\* takes the next rows.
Share(w, rows) == {y \in rows : (y \div CopyRows) % NumWarps = w}

\* The block's own rows that a warp computes, by their index in the tile.
WarpTile(w) == w * WarpRows .. w * WarpRows + WarpRows - 1

Registers(v) == [w \in Warps |-> [y \in WarpTile(w) |-> v]]

\* A block past the request's last row returns at once, and is left out.
Init ==
    /\ seqLen \in SeqLens
    /\ queryLen \in {n \in QueryLens : n <= seqLen}
    /\ first \in {row \in 0 .. NumRows - 1 : row % TileRows = 0}
    /\ score \in [0 .. seqLen - 1 -> Scores]
    /\ pc = [w \in Warps |-> "loadQ"]
    /\ kvStart = [w \in Warps |-> 0]
    /\ groups = [w \in Warps |-> <<>>]
    /\ tileA = [y \in 0 .. Larger(TileRows, KvTile) - 1 |-> Junk]
    /\ tileB = [y \in 0 .. KvTile - 1 |-> Junk]
    /\ q = Registers(Junk)
    /\ mRef = Registers(MinusInfinity)
    /\ p = Registers(<<>>)
    /\ l = Registers(<<>>)
    /\ acc = Registers(<<>>)
    /\ output = [row \in 0 .. NumRows - 1 |-> Junk]

Goto(w, to) == pc' = [pc EXCEPT ![w] = to]

-----------------------------------------------------------------------------
(* Asynchronous copies *)

\* A group: what the rows of a tile will be that are still to arrive.
Group(tile, rows) == [tile |-> tile, rows |-> rows]

\* load_q_async: rows past the request's are filled with zeros.
QuerySource(y) == IF first + y < NumRows THEN Query(first + y) ELSE Zero

\* load_kv_async, of keys or of values.
KeySource(w, y) == IF kvStart[w] + y < BlockKvLen THEN Key(kvStart[w] + y) ELSE Zero
ValueSource(w, y) == IF kvStart[w] + y < BlockKvLen THEN Value(kvStart[w] + y) ELSE Zero

LoadQ(w) ==
    /\ pc[w] = "loadQ"
    /\ groups' = [groups EXCEPT ![w] =
           Append(@, Group("A", [y \in Share(w, TileIndices) |-> QuerySource(y)]))]
    /\ Goto(w, "waitQ")
    /\ UNCHANGED <<inputVars, kvStart, tileA, tileB, regVars, output>>

\* Mutant: a warp without rows of its own leaves the loop at once.
InLoop_PerWarp(w) ==
    /\ kvStart[w] < BlockKvLen
    /\ first + w * WarpRows < NumRows

\* The loop over the keys, the same for all warps.
InLoop(w) == kvStart[w] < BlockKvLen

LoadKV(w) ==
    /\ pc[w] = "loop"
    /\ InLoop(w)
    /\ LET rows == Share(w, 0 .. KvTile - 1) IN
       groups' = [groups EXCEPT ![w] = @ \o
           <<Group("A", [y \in rows |-> KeySource(w, y)]),
             Group("B", [y \in rows |-> ValueSource(w, y)])>>]
    /\ Goto(w, "waitK")
    /\ UNCHANGED <<inputVars, kvStart, tileA, tileB, regVars, output>>

\* One row of a copy arrives, in any order.
Land(w, i, y) ==
    /\ i \in DOMAIN groups[w]
    /\ y \in DOMAIN groups[w][i].rows
    /\ LET g == groups[w][i] IN
       /\ tileA' = IF g.tile = "A" THEN [tileA EXCEPT ![y] = g.rows[y]] ELSE tileA
       /\ tileB' = IF g.tile = "B" THEN [tileB EXCEPT ![y] = g.rows[y]] ELSE tileB
       /\ groups' = [groups EXCEPT ![w][i].rows =
              [z \in DOMAIN g.rows \ {y} |-> g.rows[z]]]
    /\ UNCHANGED <<inputVars, pc, kvStart, regVars, output>>

\* cp_async_wait_group<n> returns: all but the newest n groups have arrived.
Arrived(w, n) ==
    \A i \in 1 .. Len(groups[w]) - n : DOMAIN groups[w][i].rows = {}

\* A warp waits for its own copies, then for the other warps.
Wait(w, at, n, to) ==
    /\ pc[w] = at
    /\ Arrived(w, n)
    /\ groups' = [groups EXCEPT ![w] = SubSeq(@, Len(@) - n + 1, Len(@))]
    /\ Goto(w, to)
    /\ UNCHANGED <<inputVars, kvStart, tileA, tileB, regVars, output>>

-----------------------------------------------------------------------------
(* __syncthreads *)

\* Where a warp goes from each barrier.
Behind ==
    [syncQ |-> "readQ", syncRead |-> "loop", syncK |-> "scores",
     syncV |-> "values", syncTile |-> "loop", syncO |-> "writeBack"]

\* The hardware counts arrivals; it does not look at which barrier they are.
Barrier ==
    /\ \A w \in Warps : pc[w] \in DOMAIN Behind
    /\ pc' = [w \in Warps |-> Behind[pc[w]]]
    /\ UNCHANGED <<inputVars, kvStart, groups, tileA, tileB, regVars, output>>

-----------------------------------------------------------------------------
(* What a warp computes *)

\* load_mma_tile_q_s2r
ReadQ(w) ==
    /\ pc[w] = "readQ"
    /\ q' = [q EXCEPT ![w] = [y \in WarpTile(w) |-> tileA[y]]]
    /\ Goto(w, "syncRead")
    /\ UNCHANGED <<inputVars, kvStart, groups, tileA, tileB, mRef, p, l, acc, output>>

\* The columns of the tile of keys that are not masked for row y.
Columns(w, y) ==
    LET pos(c) == kvStart[w] + c
        seen == PrefixLen + (first + y) \div GroupSize
    IN  {c \in 0 .. KvTile - 1 :
            NeedsMask(first + w * WarpRows, kvStart[w], PrefixLen, BlockKvLen)
                => pos(c) <= seen /\ pos(c) < BlockKvLen}

\* A padding row has scores as well: zero.
ScoreOf(query, key) ==
    IF query[1] = "query" /\ key[1] = "key" THEN score[key[2]] ELSE 0

TileMax(w, y) ==
    LET s == {ScoreOf(q[w][y], tileA[c]) : c \in Columns(w, y)}
    IN  IF s = {} THEN MinusInfinity ELSE CHOOSE m \in s : \A n \in s : n <= m

\* Mutant: the reference stays that of the first tile.
Rescales_Never(w, y) == FALSE

\* The reference is moved only when the maximum has left it far behind.
Rescales(w, y) == TileMax(w, y) > mRef[w][y] + MaxExponentGap

NewRef(w, y) ==
    IF kvStart[w] = 0 \/ Rescales(w, y) THEN TileMax(w, y) ELSE mRef[w][y]

\* Mutant: what was added before keeps its exponent when the reference moves.
Rescaled_Kept(sum, by) == sum

Rescaled(sum, by) == [i \in DOMAIN sum |-> [sum[i] EXCEPT !.exponent = @ - by]]

\* How far the sums so far have to be scaled down for row y.
ScaleOf(w, y) == IF kvStart[w] = 0 THEN 0 ELSE NewRef(w, y) - mRef[w][y]

\* The columns in ascending order.
Ascending(cols) ==
    [i \in 1 .. Cardinality(cols) |->
        CHOOSE c \in cols : Cardinality({d \in cols : d < c}) = i - 1]

\* Q K^T, the mask and the online softmax of one tile of keys.
ComputeScores(w) ==
    /\ pc[w] = "scores"
    /\ mRef' = [mRef EXCEPT ![w] = [y \in WarpTile(w) |-> NewRef(w, y)]]
    /\ LET weights(y) ==
               LET cols == Ascending(Columns(w, y))
               IN  [i \in DOMAIN cols |->
                       [column |-> cols[i], key |-> tileA[cols[i]],
                        exponent |-> ScoreOf(q[w][y], tileA[cols[i]]) - NewRef(w, y)]]
           term(x) == [key |-> x.key, exponent |-> x.exponent]
       IN  /\ p' = [p EXCEPT ![w] = [y \in WarpTile(w) |-> weights(y)]]
           /\ acc' = [acc EXCEPT ![w] =
                  [y \in WarpTile(w) |-> Rescaled(acc[w][y], ScaleOf(w, y))]]
           /\ l' = [l EXCEPT ![w] =
                  [y \in WarpTile(w) |-> Rescaled(l[w][y], ScaleOf(w, y))
                      \o [i \in DOMAIN weights(y) |-> term(weights(y)[i])]]]
    /\ Goto(w, "waitV")
    /\ UNCHANGED <<inputVars, kvStart, groups, tileA, tileB, q, output>>

\* Mutant: no barrier behind the last use of a tile.
AfterValues_Runs == "loop"

AfterValues == "syncTile"

\* P V: a weight of zero does not take away a value that is not a number, as
\* memory nobody wrote may hold.
ComputeValues(w) ==
    /\ pc[w] = "values"
    /\ LET added(y) == [i \in DOMAIN p[w][y] |->
               [key |-> p[w][y][i].key, value |-> tileB[p[w][y][i].column],
                exponent |-> p[w][y][i].exponent]]
           poison == IF \E c \in DOMAIN tileB : tileB[c] = Junk
                     THEN <<[key |-> Junk, value |-> Junk, exponent |-> 0]>> ELSE <<>>
       IN  acc' = [acc EXCEPT ![w] =
               [y \in WarpTile(w) |-> acc[w][y] \o added(y) \o poison]]
    /\ p' = [p EXCEPT ![w] = [y \in WarpTile(w) |-> <<>>]]
    /\ kvStart' = [kvStart EXCEPT ![w] = @ + KvTile]
    /\ Goto(w, AfterValues)
    /\ UNCHANGED <<inputVars, groups, tileA, tileB, q, mRef, l, output>>

\* The rows are divided by l and staged in shared memory.
Store(w) ==
    /\ pc[w] = "loop"
    /\ ~InLoop(w)
    /\ tileA' = [y \in DOMAIN tileA |->
           IF y \in WarpTile(w) THEN <<"output", acc[w][y], l[w][y]>> ELSE tileA[y]]
    /\ Goto(w, "syncO")
    /\ UNCHANGED <<inputVars, kvStart, groups, tileB, regVars, output>>

\* The warps write the rows back in shares as they copy, so most rows are
\* written by another warp than the one that computed them.
WriteBack(w) ==
    /\ pc[w] = "writeBack"
    /\ output' = [row \in DOMAIN output |->
           IF row - first \in Share(w, TileIndices) THEN tileA[row - first] ELSE output[row]]
    /\ Goto(w, "done")
    /\ UNCHANGED <<inputVars, kvStart, groups, tileA, tileB, regVars>>

-----------------------------------------------------------------------------

Copying == \E w \in Warps, i \in 1 .. 2, y \in DOMAIN tileA : Land(w, i, y)

Run(w) ==
    \/ LoadQ(w) \/ LoadKV(w) \/ ReadQ(w) \/ ComputeScores(w) \/ ComputeValues(w)
    \/ Store(w) \/ WriteBack(w)
    \/ Wait(w, "waitQ", 0, "syncQ")
    \* the values may still be on their way
    \/ Wait(w, "waitK", 1, "syncK")
    \/ Wait(w, "waitV", 0, "syncV")

Next == Copying \/ Barrier \/ \E w \in Warps : Run(w)

\* Copies arrive, and the warps of a block all make progress.
Fairness == WF_vars(Copying) /\ WF_vars(Barrier) /\ \A w \in Warps : WF_vars(Run(w))

Spec == Init /\ [][Next]_vars /\ Fairness

-----------------------------------------------------------------------------
(* Properties *)

\* What a warp reads from shared memory is there, whole, and stays until the
\* warp is through with it: its queries, the keys and the values of the tile
\* it is at, and the finished rows it writes back, though each was brought by
\* all warps and the next use of the same memory may come from any of them.
TilesAreWhole ==
    \A w \in Warps :
        /\ pc[w] = "readQ" =>
              \A y \in WarpTile(w) : tileA[y] = QuerySource(y)
        /\ pc[w] = "scores" =>
              \A y \in 0 .. KvTile - 1 : tileA[y] = KeySource(w, y)
        /\ pc[w] = "values" =>
              \A y \in 0 .. KvTile - 1 : tileB[y] = ValueSource(w, y)
        /\ pc[w] = "writeBack" =>
              \A y \in Share(w, TileIndices) : tileA[y][1] = "output"

\* The weight of a row's position under reference m.
Exponent(pos, m) == score[pos] - m

\* The output rows are those of attention: each row adds up its keys, from the
\* first to its own, once each, the value of every key under the weight of
\* that key, all weights and their sum relative to one reference, however
\* often it was moved.
OutputIsAttention ==
    \A row \in 0 .. NumRows - 1 :
        row - first \in TileIndices /\ (\A w \in Warps : pc[w] = "done") =>
            \E m \in Scores :
                LET n == PrefixLen + row \div GroupSize + 1
                    sum == [i \in 1 .. n |-> [key |-> Key(i - 1), value |-> Value(i - 1),
                                              exponent |-> Exponent(i - 1, m)]]
                    weight == [i \in 1 .. n |-> [key |-> Key(i - 1),
                                                 exponent |-> Exponent(i - 1, m)]]
                IN  output[row] = <<"output", sum, weight>>

\* No weight is larger than 2^MaxExponentGap when it is computed, though the
\* reference is moved lazily, and the largest is never vanishingly small: the
\* reference is not above the row's maximum.
WeightsAreBounded ==
    \A w \in Warps : \A y \in WarpTile(w) : \A i \in DOMAIN l[w][y] :
        /\ l[w][y][i].exponent <= MaxExponentGap
        /\ \E j \in DOMAIN l[w][y] : l[w][y][j].exponent >= 0

\* The block ends: no warp waits at a barrier that another one never reaches.
BlockEnds == <>(\A w \in Warps : pc[w] = "done")
=============================================================================
