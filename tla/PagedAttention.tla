--------------------------- MODULE PagedAttention ---------------------------
(***************************************************************************)
(* The work split of the attention kernel (ops/paged_attention.cu).        *)
(*                                                                         *)
(* A request has GroupSize rows for each of its query tokens, one for each *)
(* query head that shares a key-value head.  The rows of all requests are  *)
(* cut into tiles, the grid has one thread block for each tile, and a      *)
(* block finds its request by binary search over query_start_loc: there is *)
(* no table of tiles.  A block walks the keys in tiles of KvTile and masks *)
(* the ones a row must not see only where a whole warp may need it.        *)
(*                                                                         *)
(* starts is query_start_loc: starts[r] for r in 0 .. numReqs.             *)
(***************************************************************************)
EXTENDS Integers

CONSTANTS
    GroupSize,   \* query heads for each key-value head
    WarpRows,    \* kMmaM: rows of a warp
    NumWarps,    \* warps of a thread block
    KvTile       \* kBc: keys loaded at a time

ASSUME PagedAttentionAssumption ==
    /\ GroupSize \in Nat \ {0}
    /\ WarpRows \in Nat \ {0}
    /\ NumWarps \in Nat \ {0}
    /\ KvTile \in Nat \ {0}

TileRows == NumWarps * WarpRows

\* Mutant: the last request has no tile for its last rows.
GridSize_NoSpare(numTokens, numReqs) == (numTokens * GroupSize) \div TileRows

\* One tile more than the whole ones for each request.
GridSize(numTokens, numReqs) == (numTokens * GroupSize) \div TileRows + numReqs

\* b(r): the first tile of request r.
FirstTile(starts, r) == (starts[r] * GroupSize) \div TileRows + r

\* The request of a tile: the last one whose first tile is not behind it.
RequestOf(starts, numReqs, tile) ==
    LET ends == 0 .. numReqs
        search[range \in ends \X ends] ==
            LET lo == range[1]
                hi == range[2]
                mid == (lo + hi) \div 2
            IN  IF lo + 1 >= hi THEN lo
                ELSE IF FirstTile(starts, mid) <= tile THEN search[<<mid, hi>>]
                ELSE search[<<lo, mid>>]
    IN  search[<<0, numReqs>>]

QueryLen(starts, r) == starts[r + 1] - starts[r]

\* The first row of a tile, among the rows of its request.
FirstRow(starts, numReqs, tile) ==
    LET r == RequestOf(starts, numReqs, tile)
    IN  (tile - FirstTile(starts, r)) * TileRows

\* The rows a tile computes and writes back; none if it is a spare one.
RowsOf(starts, numReqs, tile) ==
    LET first == FirstRow(starts, numReqs, tile)
        rows == QueryLen(starts, RequestOf(starts, numReqs, tile)) * GroupSize
    IN  {row \in first .. first + TileRows - 1 : row < rows}

\* How many keys a tile loads: up to the last position its rows may see.
KvLen(first, prefixLen, seqLen) ==
    LET last == prefixLen + (first + TileRows - 1) \div GroupSize + 1
    IN  IF seqLen < last THEN seqLen ELSE last

\* Whether a warp masks a tile of keys.
NeedsMask(warpFirst, kvFirst, prefixLen, kvLen) ==
    \/ prefixLen + warpFirst \div GroupSize < kvFirst + KvTile
    \/ kvFirst + KvTile > kvLen

\* The positions whose keys a row of the tile that starts at row first sees.
Seen(row, first, prefixLen, seqLen) ==
    LET kvLen == KvLen(first, prefixLen, seqLen)
        warpFirst == first + ((row - first) \div WarpRows) * WarpRows
        kvFirst(col) == (col \div KvTile) * KvTile
    IN  {col \in 0 .. kvLen + KvTile - 1 :
            /\ kvFirst(col) < kvLen
            /\ NeedsMask(warpFirst, kvFirst(col), prefixLen, kvLen)
                 => col <= prefixLen + row \div GroupSize /\ col < kvLen}
=============================================================================
