--------------------------- MODULE KVCacheManager ---------------------------
(***************************************************************************)
(* scheduler/kv_cache_manager.cpp: which request holds which block of the  *)
(* kv cache, and which blocks can be found again under the hash of the     *)
(* tokens they were computed from.  The operations are state changes that  *)
(* Scheduler.tla makes part of its own actions, as schedule(), update()    *)
(* and abort_requests() call them.                                         *)
(*                                                                         *)
(* The chained 64-bit hash of a block stands for all the tokens from the   *)
(* request's first to the block's last, and is modelled as that sequence:  *)
(* two different prefixes never have the same hash.  <<>> is the hash of a *)
(* block whose hash_valid is false (the code never reads it).  The free    *)
(* list is its abstract queue, which FreeList.tla implements.              *)
(***************************************************************************)
EXTENDS Lists

CONSTANTS
    NumBlocks,             \* KVCacheConfig::num_blocks
    BlockSize,             \* KVCacheConfig::num_block_slots
    PrefixCaching,         \* the settings of KVCacheConfig::enable_prefix_caching
    MaxRequests,           \* bound: requests the frontend ever sends
    Tokens                 \* token ids

ASSUME KVCacheAssumption ==
    /\ NumBlocks \in Nat \ {0}
    /\ BlockSize \in Nat \ {0}
    /\ PrefixCaching \in (SUBSET BOOLEAN) \ {{}}
    /\ MaxRequests \in Nat

BlockIds == 0 .. NumBlocks - 1

\* A request is named by its place in the order of arrival.
Requests == 1 .. MaxRequests

VARIABLES
    prefixCaching, \* enable_prefix_caching_
    free,       \* the free list, the next block to evict first
    refCount,   \* Block::ref_count
    table,      \* req_to_allocated_blocks_, <<>> for a request without entry
    hash,       \* Block::hash, <<>> while hash_valid is false
    cached,     \* Block::cached
    blockOf     \* hash_to_block_

kvVars == <<prefixCaching, free, refCount, table, hash, cached, blockOf>>

KVInit ==
    /\ prefixCaching \in PrefixCaching
    /\ free = [i \in 1 .. NumBlocks |-> i - 1]
    /\ refCount = [b \in BlockIds |-> 0]
    /\ table = [r \in Requests |-> <<>>]
    /\ hash = [b \in BlockIds |-> <<>>]
    /\ cached = [b \in BlockIds |-> FALSE]
    /\ blockOf = <<>>

\* The elements of q outside the set out, in the order of q.
Excluding(q, out) == Subsequence(q, {i \in DOMAIN q : q[i] \notin out})

BlocksFor(numSlots) == (numSlots + BlockSize - 1) \div BlockSize

-----------------------------------------------------------------------------
(* cache_full_blocks and insert_hash.  hs, ca, bo and refs are the hashes, *)
(* the cached flags, the index and the counts the call starts from, toks   *)
(* and comp the request's token_ids and num_computed_tokens, tbl its       *)
(* blocks.                                                                 *)

\* Mutant: the last block is published before it is full.
NumFull_RoundsUp(tbl, comp) == Least(Len(tbl), BlocksFor(comp))

NumFull(tbl, comp) == Least(Len(tbl), comp \div BlockSize)

\* The loop starts after the leading blocks whose hash is valid.
NumHashed(hs, tbl, comp) ==
    Cardinality({i \in 1 .. NumFull(tbl, comp) :
                    \A j \in 1 .. i : hs[tbl[j]] # <<>>})

\* insert_hash lets a block into the index when the hash is new to it, or
\* when the block found there is free and may be evicted any time.
Supersedes(bo, refs, h) == h \notin DOMAIN bo \/ refs[bo[h]] = 0

CacheFullBlocks(hs, ca, bo, refs, toks, comp, tbl) ==
    LET first == NumHashed(hs, tbl, comp)
        new == IF prefixCaching
               THEN first + 1 .. NumFull(tbl, comp)
               ELSE {}
        parent == IF first = 0 THEN <<>> ELSE hs[tbl[first]]
        Prefix(i) ==
            parent \o SubSeq(toks, first * BlockSize + 1, i * BlockSize)
        inserted == {i \in new : Supersedes(bo, refs, Prefix(i))}
        displaced == {b \in BlockIds : \E i \in inserted :
                         Prefix(i) \in DOMAIN bo /\ bo[Prefix(i)] = b}
    IN  /\ hash' = [b \in BlockIds |->
                       IF \E i \in new : tbl[i] = b
                       THEN Prefix(CHOOSE i \in new : tbl[i] = b)
                       ELSE hs[b]]
        /\ cached' = [b \in BlockIds |->
                         IF \E i \in inserted : tbl[i] = b THEN TRUE
                         ELSE IF b \in displaced THEN FALSE
                         ELSE ca[b]]
        /\ blockOf' = [h \in DOMAIN bo \cup {Prefix(i) : i \in inserted} |->
                          IF \E i \in inserted : Prefix(i) = h
                          THEN tbl[CHOOSE i \in inserted : Prefix(i) = h]
                          ELSE bo[h]]
        /\ UNCHANGED prefixCaching

-----------------------------------------------------------------------------
(* reuse_prefix *)

\* The blocks a lookup may share: the last token is always computed anew.
NumShared(toks) == (Len(toks) - 1) \div BlockSize

\* The number of leading blocks of toks the index knows, up to the first miss.
NumMatched(toks) ==
    Cardinality({i \in 1 .. NumShared(toks) :
                    \A j \in 1 .. i : SubSeq(toks, 1, j * BlockSize) \in DOMAIN blockOf})

Matched(toks) ==
    IF prefixCaching
    THEN [i \in 1 .. NumMatched(toks) |-> blockOf[SubSeq(toks, 1, i * BlockSize)]]
    ELSE <<>>

NumReused(toks) == Len(Matched(toks)) * BlockSize

\* Mutant: a block that was free is counted but stays in the free list.
ReusePrefix_StaysFree(r, toks) ==
    /\ refCount' = [b \in BlockIds |->
           IF b \in Elements(Matched(toks)) THEN refCount[b] + 1 ELSE refCount[b]]
    /\ table' = [table EXCEPT ![r] = @ \o Matched(toks)]
    /\ UNCHANGED <<prefixCaching, free, hash, cached, blockOf>>

\* hold_block on every match: a free one leaves the free list, wherever it is.
ReusePrefix(r, toks) ==
    /\ free' = Excluding(free, Elements(Matched(toks)))
    /\ refCount' = [b \in BlockIds |->
           IF b \in Elements(Matched(toks)) THEN refCount[b] + 1 ELSE refCount[b]]
    /\ table' = [table EXCEPT ![r] = @ \o Matched(toks)]
    /\ UNCHANGED <<prefixCaching, hash, cached, blockOf>>

-----------------------------------------------------------------------------
(* allocate_slots *)

NumNewBlocks(r, comp, n) == BlocksFor(comp + n) - Len(table[r])

\* Mutant: the last free block is never handed out.
CanAllocate_Strict(r, comp, n) == NumNewBlocks(r, comp, n) < Len(free)

\* allocate_slots returns false, and changes nothing, without this.
CanAllocate(r, comp, n) == NumNewBlocks(r, comp, n) <= Len(free)

\* Mutant: take_block leaves the evicted block's hash in the index.
Unindexed_Keeps(taken) == blockOf

\* take_block removes what it evicts from the index.
Unindexed(taken) ==
    [h \in DOMAIN blockOf \ {hash[b] : b \in {c \in taken : cached[c]}} |-> blockOf[h]]

\* The new blocks are taken from the front of the free list, whatever was
\* cached in them is forgotten, then the full blocks are published.
AllocateSlots(r, toks, comp, n) ==
    LET k == NumNewBlocks(r, comp, n)
        new == SubSeq(free, 1, k)
        taken == Elements(new)
        refs == [b \in BlockIds |-> IF b \in taken THEN 1 ELSE refCount[b]]
    IN  /\ free' = SubSeq(free, k + 1, Len(free))
        /\ refCount' = refs
        /\ table' = [table EXCEPT ![r] = @ \o new]
        /\ CacheFullBlocks([b \in BlockIds |-> IF b \in taken THEN <<>> ELSE hash[b]],
                           [b \in BlockIds |-> b \notin taken /\ cached[b]],
                           Unindexed(taken), refs, toks, comp, table[r] \o new)

-----------------------------------------------------------------------------
(* release_blocks *)

\* Mutant: every block of the table is freed, shared or not.
ReleaseBlocks_FreesShared(r, toks, comp) ==
    /\ refCount' = [b \in BlockIds |->
           IF b \in Elements(table[r]) THEN 0 ELSE refCount[b]]
    /\ free' = free \o table[r]
    /\ table' = [table EXCEPT ![r] = <<>>]
    /\ CacheFullBlocks(hash, cached, blockOf, refCount, toks, comp, table[r])

\* The full blocks are published first; then every block loses a reference,
\* and those that lose the last one join the free list in table order.
ReleaseBlocks(r, toks, comp) ==
    /\ refCount' = [b \in BlockIds |->
           IF b \in Elements(table[r]) THEN refCount[b] - 1 ELSE refCount[b]]
    /\ free' = free \o Excluding(table[r], {b \in BlockIds : refCount[b] # 1})
    /\ table' = [table EXCEPT ![r] = <<>>]
    /\ CacheFullBlocks(hash, cached, blockOf, refCount, toks, comp, table[r])

-----------------------------------------------------------------------------
(* Invariants of the manager's own state *)

KVTypeOK ==
    /\ prefixCaching \in PrefixCaching
    /\ free \in Seq(BlockIds)
    /\ refCount \in [BlockIds -> Int]
    /\ table \in [Requests -> Seq(BlockIds)]
    /\ hash \in [BlockIds -> Seq(Tokens)]
    /\ cached \in [BlockIds -> BOOLEAN]
    /\ DOMAIN blockOf \subseteq Seq(Tokens)
    /\ \A h \in DOMAIN blockOf : blockOf[h] \in BlockIds

Holders(b) == {r \in Requests : b \in Elements(table[r])}

\* Every block is counted once for each table that holds it, tables hold no
\* block twice, and the free list is exactly the blocks in no table: no block
\* leaks, and no block in use can be handed out again.
BlocksAccountedFor ==
    /\ \A b \in BlockIds : refCount[b] = Cardinality(Holders(b))
    /\ \A r \in Requests : \A i, j \in DOMAIN table[r] :
          table[r][i] = table[r][j] => i = j
    /\ \A i, j \in DOMAIN free : free[i] = free[j] => i = j
    /\ Elements(free) = {b \in BlockIds : Holders(b) = {}}

\* The index, the cached flags and the hashes are one relation: the index
\* names, for each hash, the one block flagged as cached under it.  A stale
\* entry would let a request read another's kv cache.
IndexMatchesBlocks ==
    /\ \A b \in BlockIds :
          cached[b] <=> (hash[b] \in DOMAIN blockOf /\ blockOf[hash[b]] = b)
    /\ \A h \in DOMAIN blockOf : hash[blockOf[h]] = h
=============================================================================
