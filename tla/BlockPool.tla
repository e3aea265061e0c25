----------------------------- MODULE BlockPool -----------------------------
(***************************************************************************)
(* What the KV cache manager's free list promises: the blocks nobody       *)
(* references stand in one first-in first-out queue, so the block evicted  *)
(* next is the one that has been free the longest.  FreeList.tla is the    *)
(* intrusive doubly linked list of kv_cache_manager.cpp that implements    *)
(* it, and KVCacheManager.tla uses this view of it.                        *)
(***************************************************************************)
EXTENDS Integers, Sequences

CONSTANTS
    NumBlocks,   \* blocks of the kv cache (KVCacheConfig::num_blocks)
    MaxRefs      \* bound: references one block can have at a time

BlockIds == 0 .. NumBlocks - 1

VARIABLES
    queue,       \* the free blocks, in eviction order
    refCount     \* number of requests whose table holds the block

vars == <<queue, refCount>>

\* The queue without the block at position k, which may stand anywhere in it.
WithoutAt(q, k) ==
    [i \in 1 .. Len(q) - 1 |-> IF i < k THEN q[i] ELSE q[i + 1]]

Init ==
    /\ queue = [i \in 1 .. NumBlocks |-> i - 1]
    /\ refCount = [b \in BlockIds |-> 0]

\* An allocation evicts the block that was released first.
Take ==
    /\ queue # <<>>
    /\ queue' = Tail(queue)
    /\ refCount' = [refCount EXCEPT ![Head(queue)] = 1]

\* A prefix match on a free block takes it out of the queue's middle.
Revive(b) ==
    /\ \E k \in 1 .. Len(queue) :
           /\ queue[k] = b
           /\ queue' = WithoutAt(queue, k)
    /\ refCount' = [refCount EXCEPT ![b] = 1]

\* A prefix match on a block in use shares it.
Share(b) ==
    /\ refCount[b] \in 1 .. MaxRefs - 1
    /\ refCount' = [refCount EXCEPT ![b] = @ + 1]
    /\ UNCHANGED queue

\* The last reference puts the block at the back of the queue.
Release(b) ==
    /\ refCount[b] > 0
    /\ refCount' = [refCount EXCEPT ![b] = @ - 1]
    /\ queue' = IF refCount[b] = 1 THEN Append(queue, b) ELSE queue

Next ==
    \/ Take
    \/ \E b \in BlockIds : Revive(b) \/ Share(b) \/ Release(b)

Spec == Init /\ [][Next]_vars
=============================================================================
