------------------------------ MODULE FreeList ------------------------------
(***************************************************************************)
(* The free list of scheduler/kv_cache_manager.cpp: prev_free and          *)
(* next_free are threaded through the blocks themselves, NIL is -1.  The   *)
(* three callers that change it are modelled whole, with the reference     *)
(* count they keep: take_block pops the head, hold_block unlinks a block   *)
(* anywhere in the list, and release_blocks' loop body pushes at the tail. *)
(*                                                                         *)
(* fifo is a history variable: it is read by no action, and remembers the  *)
(* order in which the blocks became free.                                  *)
(***************************************************************************)
EXTENDS Integers, Sequences

CONSTANTS
    NumBlocks,   \* KVCacheConfig::num_blocks
    MaxRefs      \* bound: references one block can have at a time

ASSUME FreeListAssumption ==
    /\ NumBlocks \in Nat \ {0}
    /\ MaxRefs \in Nat \ {0}

BlockIds == 0 .. NumBlocks - 1
NIL == -1

VARIABLES
    head,        \* free_head_
    tail,        \* free_tail_
    numFree,     \* num_free_blocks_
    prev,        \* Block::prev_free
    next,        \* Block::next_free
    refCount,    \* Block::ref_count
    fifo         \* history: the free blocks in the order they became free

list == <<head, tail, numFree, prev, next, fifo>>
vars == <<head, tail, numFree, prev, next, fifo, refCount>>

\* The constructor pushes the blocks in order of their ids.
Init ==
    /\ head = 0
    /\ tail = NumBlocks - 1
    /\ numFree = NumBlocks
    /\ prev = [b \in BlockIds |-> b - 1]
    /\ next = [b \in BlockIds |-> IF b = NumBlocks - 1 THEN NIL ELSE b + 1]
    /\ refCount = [b \in BlockIds |-> 0]
    /\ fifo = [i \in 1 .. NumBlocks |-> i - 1]

-----------------------------------------------------------------------------
(* The three list operations *)

\* Mutant: the block is pushed at the head, where the next eviction finds it.
PushFree_AtHead(b) ==
    /\ next' = [next EXCEPT ![b] = head]
    /\ prev' = [c \in BlockIds |->
                   IF c = b THEN NIL ELSE IF c = head THEN b ELSE prev[c]]
    /\ tail' = IF head = NIL THEN b ELSE tail
    /\ head' = b
    /\ numFree' = numFree + 1

PushFree(b) ==
    /\ prev' = [prev EXCEPT ![b] = tail]
    /\ next' = [c \in BlockIds |->
                   IF c = b THEN NIL ELSE IF c = tail THEN b ELSE next[c]]
    /\ head' = IF tail = NIL THEN b ELSE head
    /\ tail' = b
    /\ numFree' = numFree + 1

\* Mutant: the counter that allocate_slots trusts is left as it was.
PopFree_KeepsCount ==
    /\ head' = next[head]
    /\ tail' = IF next[head] = NIL THEN NIL ELSE tail
    /\ prev' = [c \in BlockIds |->
                   IF c \in {head, next[head]} THEN NIL ELSE prev[c]]
    /\ next' = [next EXCEPT ![head] = NIL]
    /\ UNCHANGED numFree

PopFree ==
    /\ head' = next[head]
    /\ tail' = IF next[head] = NIL THEN NIL ELSE tail
    /\ prev' = [c \in BlockIds |->
                   IF c \in {head, next[head]} THEN NIL ELSE prev[c]]
    /\ next' = [next EXCEPT ![head] = NIL]
    /\ numFree' = numFree - 1

\* Mutant: unlinking the last block of the list leaves free_tail_ on it.
RemoveFree_KeepsTail(b) ==
    /\ head' = IF prev[b] = NIL THEN next[b] ELSE head
    /\ UNCHANGED tail
    /\ next' = [c \in BlockIds |->
                   IF c = b THEN NIL ELSE IF c = prev[b] THEN next[b] ELSE next[c]]
    /\ prev' = [c \in BlockIds |->
                   IF c = b THEN NIL ELSE IF c = next[b] THEN prev[b] ELSE prev[c]]
    /\ numFree' = numFree - 1

RemoveFree(b) ==
    /\ head' = IF prev[b] = NIL THEN next[b] ELSE head
    /\ tail' = IF next[b] = NIL THEN prev[b] ELSE tail
    /\ next' = [c \in BlockIds |->
                   IF c = b THEN NIL ELSE IF c = prev[b] THEN next[b] ELSE next[c]]
    /\ prev' = [c \in BlockIds |->
                   IF c = b THEN NIL ELSE IF c = next[b] THEN prev[b] ELSE prev[c]]
    /\ numFree' = numFree - 1

-----------------------------------------------------------------------------
(* Their callers *)

\* take_block, which allocate_slots calls only while num_free_blocks_ > 0.
TakeBlock ==
    /\ numFree > 0
    /\ PopFree
    /\ fifo' = Tail(fifo)
    /\ refCount' = [refCount EXCEPT ![head] = 1]

\* The list without the block at position k.
WithoutAt(q, k) ==
    [i \in 1 .. Len(q) - 1 |-> IF i < k THEN q[i] ELSE q[i + 1]]

HoldFree(b) ==
    /\ refCount[b] = 0
    /\ RemoveFree(b)
    /\ \E k \in 1 .. Len(fifo) : fifo[k] = b /\ fifo' = WithoutAt(fifo, k)
    /\ refCount' = [refCount EXCEPT ![b] = 1]

HoldUsed(b) ==
    /\ refCount[b] \in 1 .. MaxRefs - 1
    /\ UNCHANGED list
    /\ refCount' = [refCount EXCEPT ![b] = @ + 1]

ReleaseBlock(b) ==
    /\ refCount[b] > 0
    /\ refCount' = [refCount EXCEPT ![b] = @ - 1]
    /\ IF refCount[b] = 1
       THEN PushFree(b) /\ fifo' = Append(fifo, b)
       ELSE UNCHANGED list

Next ==
    \/ TakeBlock
    \/ \E b \in BlockIds : HoldFree(b) \/ HoldUsed(b) \/ ReleaseBlock(b)

Spec == Init /\ [][Next]_vars

-----------------------------------------------------------------------------
(* Properties *)

Links == BlockIds \cup {NIL}

\* The type invariant of the list: every pointer is a block or NIL, the
\* counter is a number of blocks.
TypeOK ==
    /\ head \in Links
    /\ tail \in Links
    /\ numFree \in 0 .. NumBlocks
    /\ prev \in [BlockIds -> Links]
    /\ next \in [BlockIds -> Links]
    /\ refCount \in [BlockIds -> Nat]
    /\ fifo \in Seq(BlockIds)

\* The pointers, the two ends and num_free_blocks_ describe one list, read in
\* either direction: the unreferenced blocks, each once, in the order they
\* became free.  allocate_slots, which trusts the counter alone, therefore
\* never pops an empty list, and pop_free hands out the oldest block.
ListIsConsistent ==
    /\ Len(fifo) = numFree
    /\ head = (IF Len(fifo) = 0 THEN NIL ELSE fifo[1])
    /\ tail = (IF Len(fifo) = 0 THEN NIL ELSE fifo[Len(fifo)])
    /\ \A i, j \in 1 .. Len(fifo) : fifo[i] = fifo[j] => i = j
    /\ \A i \in 1 .. Len(fifo) :
          /\ refCount[fifo[i]] = 0
          /\ prev[fifo[i]] = (IF i = 1 THEN NIL ELSE fifo[i - 1])
          /\ next[fifo[i]] = (IF i = Len(fifo) THEN NIL ELSE fifo[i + 1])
    /\ \A b \in BlockIds :
          refCount[b] = 0 => \E i \in 1 .. Len(fifo) : fifo[i] = b

Pool == INSTANCE BlockPool WITH queue <- fifo

\* The pointer surgery implements the first-in first-out queue of BlockPool:
\* what the pointers hand out is what the queue promises.
ImplementsPool == Pool!Spec
=============================================================================
