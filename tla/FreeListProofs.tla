--------------------------- MODULE FreeListProofs ---------------------------
(***************************************************************************)
(* For every number of blocks: the free list's pointers describe its       *)
(* history queue, and FreeList implements BlockPool.  ListIsConsistent is  *)
(* inductive together with TypeOK; that num_free_blocks_ stays within      *)
(* 0 .. NumBlocks is the pigeonhole principle on the queue.                *)
(***************************************************************************)
EXTENDS FreeList, FiniteSetTheorems, TLAPS

\* TypeOK without the upper bound on the counter, which is a consequence.
Typing ==
    /\ head \in Links
    /\ tail \in Links
    /\ numFree \in Nat
    /\ prev \in [BlockIds -> Links]
    /\ next \in [BlockIds -> Links]
    /\ refCount \in [BlockIds -> Nat]
    /\ fifo \in Seq(BlockIds)

IInv == Typing /\ ListIsConsistent

LEMMA NilIsNoBlock == NIL \notin BlockIds
  BY DEF NIL, BlockIds

-----------------------------------------------------------------------------
(* Each step keeps the pointers and the history together. *)

\* The constructor's pushes link the blocks in order of their ids.
LEMMA InitIInv == Init => IInv
  <1> SUFFICES ASSUME Init PROVE IInv
    OBVIOUS
  <1> USE FreeListAssumption DEF Init, BlockIds, Links, NIL
  <1>1. fifo \in Seq(BlockIds) /\ Len(fifo) = NumBlocks
    OBVIOUS
  <1>2. Typing
    BY <1>1 DEF Typing
  <1>3. ListIsConsistent
    <2>1. Len(fifo) # 0
      BY <1>1
    <2>2. \A b \in BlockIds : fifo[b + 1] = b /\ b + 1 \in 1 .. Len(fifo)
      OBVIOUS
    <2>3. \A i \in 1 .. Len(fifo) :
             /\ refCount[fifo[i]] = 0
             /\ prev[fifo[i]] = (IF i = 1 THEN NIL ELSE fifo[i - 1])
             /\ next[fifo[i]] = (IF i = Len(fifo) THEN NIL ELSE fifo[i + 1])
      BY <1>1
    <2>4. \A i, j \in 1 .. Len(fifo) : fifo[i] = fifo[j] => i = j
      BY <1>1
    <2>5. head = fifo[1] /\ tail = fifo[Len(fifo)]
      BY <1>1
    <2>6. \A b \in BlockIds : \E i \in 1 .. Len(fifo) : fifo[i] = b
      BY <2>2
    <2>7. Len(fifo) = numFree
      BY <1>1
    <2> HIDE DEF Init, BlockIds, Links, NIL
    <2> QED
      BY <2>1, <2>3, <2>4, <2>5, <2>6, <2>7 DEF ListIsConsistent
  <1> QED
    BY <1>2, <1>3 DEF IInv

\* take_block hands out the head, which is the oldest free block.
LEMMA TakeIInv == ASSUME IInv, TakeBlock PROVE IInv'
  <1> USE DEF IInv, TakeBlock, PopFree
  <1>0. fifo \in Seq(BlockIds) /\ Len(fifo) = numFree /\ Len(fifo) > 0
    BY DEF Typing, ListIsConsistent
  <1>1. head = fifo[1] /\ head \in BlockIds
    BY <1>0 DEF ListIsConsistent
  <1>2. next[head] = IF Len(fifo) = 1 THEN NIL ELSE fifo[2]
    BY <1>0, <1>1 DEF ListIsConsistent
  <1>3. /\ fifo' \in Seq(BlockIds)
        /\ Len(fifo') = Len(fifo) - 1
        /\ \A i \in 1 .. Len(fifo') : fifo'[i] = fifo[i + 1]
    BY <1>0
  <1>4. Typing'
    BY <1>0, <1>1, <1>2, <1>3 DEF Typing, Links
  <1>5. ListIsConsistent'
    <2>1. \A i, j \in 1 .. Len(fifo') : fifo'[i] = fifo'[j] => i = j
      BY <1>0, <1>3 DEF ListIsConsistent
    <2>2. \A i \in 1 .. Len(fifo') : fifo'[i] # head /\ fifo'[i] \in BlockIds
      BY <1>0, <1>1, <1>3 DEF ListIsConsistent
    <2>3. \A i \in 1 .. Len(fifo') :
             /\ refCount'[fifo'[i]] = 0
             /\ prev'[fifo'[i]] = (IF i = 1 THEN NIL ELSE fifo'[i - 1])
             /\ next'[fifo'[i]] =
                    (IF i = Len(fifo') THEN NIL ELSE fifo'[i + 1])
      <3> TAKE i \in 1 .. Len(fifo')
      <3>1. fifo'[i] = fifo[i + 1] /\ i + 1 \in 1 .. Len(fifo)
        BY <1>0, <1>3
      <3>2. /\ refCount[fifo[i + 1]] = 0
            /\ prev[fifo[i + 1]] = fifo[i]
            /\ next[fifo[i + 1]] =
                   (IF i + 1 = Len(fifo) THEN NIL ELSE fifo[i + 2])
        BY <3>1 DEF ListIsConsistent
      <3>3. fifo[i + 1] = next[head] <=> i = 1
        BY <1>0, <1>2, <3>1, NilIsNoBlock DEF ListIsConsistent
      <3>4. refCount'[fifo'[i]] = 0
        BY <2>2, <3>1, <3>2 DEF Typing
      <3>5. prev'[fifo'[i]] = (IF i = 1 THEN NIL ELSE fifo'[i - 1])
        <4>1. prev'[fifo'[i]] = IF i = 1 THEN NIL ELSE prev[fifo'[i]]
          BY <2>2, <3>1, <3>3
        <4>2. i # 1 => i - 1 \in 1 .. Len(fifo') /\ fifo'[i - 1] = fifo[i]
          BY <1>0, <1>3
        <4> QED
          BY <3>1, <3>2, <4>1, <4>2
      <3>6. next'[fifo'[i]] = (IF i = Len(fifo') THEN NIL ELSE fifo'[i + 1])
        <4>1. next'[fifo'[i]] = next[fifo'[i]]
          BY <2>2 DEF Typing
        <4>2. i # Len(fifo') => fifo'[i + 1] = fifo[i + 2]
          BY <1>0, <1>3
        <4>3. i = Len(fifo') <=> i + 1 = Len(fifo)
          BY <1>0, <1>3
        <4> QED
          BY <3>1, <3>2, <4>1, <4>2, <4>3
      <3> QED
        BY <3>4, <3>5, <3>6
    <2>a. Len(fifo') = 0 <=> Len(fifo) = 1
      BY <1>0, <1>3
    <2>4. head' = (IF Len(fifo') = 0 THEN NIL ELSE fifo'[1])
      <3>1. Len(fifo) # 1 => fifo'[1] = fifo[2]
        BY <1>0, <1>3
      <3> QED
        BY <1>2, <2>a, <3>1
    <2>5. tail' = (IF Len(fifo') = 0 THEN NIL ELSE fifo'[Len(fifo')])
      <3>1. Len(fifo) # 1 => fifo[2] # NIL /\ next[head] = fifo[2]
        BY <1>0, <1>2, NilIsNoBlock
      <3>2. Len(fifo) # 1 => fifo'[Len(fifo')] = fifo[Len(fifo)]
        BY <1>0, <1>3
      <3>3. tail = fifo[Len(fifo)]
        BY <1>0 DEF ListIsConsistent
      <3> QED
        BY <1>2, <2>a, <3>1, <3>2, <3>3
    <2>6. ASSUME NEW b \in BlockIds, refCount'[b] = 0
          PROVE  \E i \in 1 .. Len(fifo') : fifo'[i] = b
      <3>1. b # head /\ refCount[b] = 0
        BY <2>6, <1>1 DEF Typing
      <3>2. PICK i \in 1 .. Len(fifo) : fifo[i] = b
        BY <3>1 DEF ListIsConsistent
      <3>3. i - 1 \in 1 .. Len(fifo') /\ fifo'[i - 1] = b
        BY <1>0, <1>1, <1>3, <3>1, <3>2
      <3> QED
        BY <3>3
    <2> QED
      BY <1>0, <1>3, <2>1, <2>3, <2>4, <2>5, <2>6 DEF ListIsConsistent
  <1> QED
    BY <1>4, <1>5

\* hold_block unlinks a free block wherever it stands.
LEMMA HoldFreeIInv ==
    ASSUME IInv, NEW b \in BlockIds, HoldFree(b)
    PROVE  IInv'
  <1> USE DEF IInv, HoldFree, RemoveFree
  <1>0. PICK k \in 1 .. Len(fifo) : fifo[k] = b /\ fifo' = WithoutAt(fifo, k)
    OBVIOUS
  <1>1. fifo \in Seq(BlockIds) /\ Len(fifo) = numFree /\ Len(fifo) > 0
    BY DEF Typing, ListIsConsistent
  <1>2. /\ prev[b] = (IF k = 1 THEN NIL ELSE fifo[k - 1])
        /\ next[b] = (IF k = Len(fifo) THEN NIL ELSE fifo[k + 1])
    BY <1>0 DEF ListIsConsistent
  <1>3. /\ fifo' \in Seq(BlockIds)
        /\ Len(fifo') = Len(fifo) - 1
        /\ \A i \in 1 .. Len(fifo') :
              fifo'[i] = (IF i < k THEN fifo[i] ELSE fifo[i + 1])
    <2>1. fifo' = [i \in 1 .. Len(fifo) - 1 |-> IF i < k THEN fifo[i] ELSE fifo[i + 1]]
      BY <1>0 DEF WithoutAt
    <2>2. Len(fifo) - 1 \in Nat
      BY <1>1
    <2>3. \A i \in 1 .. Len(fifo) - 1 :
             (IF i < k THEN fifo[i] ELSE fifo[i + 1]) \in BlockIds
      BY <1>1
    <2>4. fifo' \in Seq(BlockIds) /\ Len(fifo') = Len(fifo) - 1
      BY <2>1, <2>2, <2>3
    <2> QED
      BY <2>1, <2>4
  <1>4. \A i \in 1 .. Len(fifo) : fifo[i] \in BlockIds /\ fifo[i] # NIL
    BY <1>1, NilIsNoBlock
  <1>5. \A i, j \in 1 .. Len(fifo) : fifo[i] = fifo[j] => i = j
    BY DEF ListIsConsistent
  <1>6. Typing'
    BY <1>1, <1>2, <1>3, <1>4 DEF Typing, Links
  <1>7. ListIsConsistent'
    <2>1. \A i, j \in 1 .. Len(fifo') : fifo'[i] = fifo'[j] => i = j
      BY <1>1, <1>3, <1>5
    <2>2. \A i \in 1 .. Len(fifo') : fifo'[i] # b /\ fifo'[i] \in BlockIds
      BY <1>0, <1>1, <1>3, <1>4, <1>5
    <2>3. ASSUME NEW i \in 1 .. Len(fifo')
          PROVE  /\ refCount'[fifo'[i]] = 0
                 /\ prev'[fifo'[i]] = (IF i = 1 THEN NIL ELSE fifo'[i - 1])
                 /\ next'[fifo'[i]] =
                        (IF i = Len(fifo') THEN NIL ELSE fifo'[i + 1])
      <3> DEFINE m == IF i < k THEN i ELSE i + 1
      <3>1. fifo'[i] = fifo[m] /\ m \in 1 .. Len(fifo) /\ m # k
        BY <1>1, <1>3
      <3>2. /\ refCount[fifo[m]] = 0
            /\ prev[fifo[m]] = (IF m = 1 THEN NIL ELSE fifo[m - 1])
            /\ next[fifo[m]] = (IF m = Len(fifo) THEN NIL ELSE fifo[m + 1])
        BY <3>1 DEF ListIsConsistent
      <3>3. refCount'[fifo'[i]] = 0
        BY <2>2, <3>1, <3>2 DEF Typing
      <3>4. fifo[m] = next[b] <=> m = k + 1
        BY <1>1, <1>2, <1>4, <1>5, <3>1
      <3>5. fifo[m] = prev[b] <=> m = k - 1
        BY <1>1, <1>2, <1>4, <1>5, <3>1
      <3>6. prev'[fifo'[i]] = IF m = k + 1 THEN prev[b] ELSE prev[fifo[m]]
        BY <2>2, <3>1, <3>4
      <3>7. next'[fifo'[i]] = IF m = k - 1 THEN next[b] ELSE next[fifo[m]]
        BY <2>2, <3>1, <3>5
      <3>8. prev'[fifo'[i]] = (IF i = 1 THEN NIL ELSE fifo'[i - 1])
        <4>1. i # 1 =>
                 /\ i - 1 \in 1 .. Len(fifo')
                 /\ fifo'[i - 1] =
                        (IF i - 1 < k THEN fifo[i - 1] ELSE fifo[i])
          BY <1>1, <1>3
        <4>2. CASE m = k + 1
          BY <1>1, <1>2, <3>1, <3>6, <4>1, <4>2
        <4>3. CASE m # k + 1
          BY <1>1, <3>1, <3>2, <3>6, <4>1, <4>3
        <4> QED
          BY <4>2, <4>3
      <3>9. next'[fifo'[i]] = (IF i = Len(fifo') THEN NIL ELSE fifo'[i + 1])
        <4>1. i # Len(fifo') =>
                 /\ i + 1 \in 1 .. Len(fifo')
                 /\ fifo'[i + 1] =
                        (IF i + 1 < k THEN fifo[i + 1] ELSE fifo[i + 2])
          BY <1>1, <1>3
        <4>2. CASE m = k - 1
          BY <1>1, <1>2, <1>3, <3>1, <3>7, <4>1, <4>2
        <4>3. CASE m # k - 1
          BY <1>1, <1>3, <3>1, <3>2, <3>7, <4>1, <4>3
        <4> QED
          BY <4>2, <4>3
      <3> QED
        BY <3>3, <3>8, <3>9
    <2>4. head' = (IF Len(fifo') = 0 THEN NIL ELSE fifo'[1])
      <3>1. head = fifo[1]
        BY <1>1 DEF ListIsConsistent
      <3>2. prev[b] = NIL <=> k = 1
        BY <1>0, <1>2, <1>4
      <3>3. Len(fifo') # 0 =>
               fifo'[1] = (IF k = 1 THEN fifo[2] ELSE fifo[1])
        BY <1>1, <1>3
      <3> QED
        BY <1>0, <1>1, <1>2, <1>3, <3>1, <3>2, <3>3
    <2>5. tail' = (IF Len(fifo') = 0 THEN NIL ELSE fifo'[Len(fifo')])
      <3>1. tail = fifo[Len(fifo)]
        BY <1>1 DEF ListIsConsistent
      <3>2. next[b] = NIL <=> k = Len(fifo)
        BY <1>0, <1>2, <1>4
      <3>3. Len(fifo') # 0 =>
               fifo'[Len(fifo')] =
                  (IF k = Len(fifo) THEN fifo[Len(fifo) - 1] ELSE fifo[Len(fifo)])
        BY <1>1, <1>3
      <3> QED
        BY <1>0, <1>1, <1>2, <1>3, <3>1, <3>2, <3>3
    <2>6. ASSUME NEW c \in BlockIds, refCount'[c] = 0
          PROVE  \E i \in 1 .. Len(fifo') : fifo'[i] = c
      <3>1. c # b /\ refCount[c] = 0
        BY <2>6 DEF Typing
      <3>2. PICK i \in 1 .. Len(fifo) : fifo[i] = c
        BY <3>1 DEF ListIsConsistent
      <3>3. CASE i < k
        BY <1>0, <1>1, <1>3, <3>2, <3>3
      <3>4. CASE i > k
        <4>1. i - 1 \in 1 .. Len(fifo') /\ fifo'[i - 1] = fifo[i]
          BY <1>0, <1>1, <1>3, <3>2, <3>4
        <4> QED
          BY <3>2, <4>1
      <3> QED
        BY <1>0, <3>1, <3>2, <3>3, <3>4
    <2>7. Len(fifo') = numFree'
      BY <1>1, <1>3
    <2> QED
      BY <2>1, <2>3, <2>4, <2>5, <2>6, <2>7 DEF ListIsConsistent
  <1> QED
    BY <1>6, <1>7

\* A further reference to a block in use, and one of several dropped, leave
\* the list alone.
LEMMA CountOnlyIInv ==
    ASSUME IInv, NEW b \in BlockIds,
           HoldUsed(b) \/ (ReleaseBlock(b) /\ refCount[b] # 1)
    PROVE  IInv'
  <1>1. /\ UNCHANGED list
        /\ refCount[b] > 0
        /\ \E n \in Nat : n > 0 /\ refCount' = [refCount EXCEPT ![b] = n]
    BY DEF HoldUsed, ReleaseBlock, IInv, Typing
  <1>2. Typing'
    BY <1>1 DEF IInv, Typing, list
  <1>3. \A c \in BlockIds : refCount'[c] = 0 <=> refCount[c] = 0
    BY <1>1 DEF IInv, Typing
  <1>4. \A i \in 1 .. Len(fifo) : fifo[i] \in BlockIds
    BY DEF IInv, Typing
  <1>5. ListIsConsistent'
    BY <1>1, <1>3, <1>4 DEF IInv, ListIsConsistent, list
  <1> QED
    BY <1>2, <1>5 DEF IInv

\* release_blocks puts a block whose last reference it drops at the tail.
LEMMA ReleaseLastIInv ==
    ASSUME IInv, NEW b \in BlockIds, ReleaseBlock(b), refCount[b] = 1
    PROVE  IInv'
  <1> USE DEF IInv
  <1>0. /\ refCount' = [refCount EXCEPT ![b] = 0]
        /\ PushFree(b)
        /\ fifo' = Append(fifo, b)
    BY DEF ReleaseBlock, Typing
  <1>1. fifo \in Seq(BlockIds) /\ Len(fifo) = numFree
    BY DEF Typing, ListIsConsistent
  <1>2. /\ fifo' \in Seq(BlockIds)
        /\ Len(fifo') = Len(fifo) + 1
        /\ \A i \in 1 .. Len(fifo) : fifo'[i] = fifo[i]
        /\ fifo'[Len(fifo) + 1] = b
    BY <1>0, <1>1
  <1>3. \A i \in 1 .. Len(fifo) : fifo[i] \in BlockIds /\ fifo[i] # b
    BY <1>1 DEF ListIsConsistent
  <1>4. tail = IF Len(fifo) = 0 THEN NIL ELSE fifo[Len(fifo)]
    BY DEF ListIsConsistent
  <1>5. tail = NIL <=> Len(fifo) = 0
    BY <1>1, <1>3, <1>4, NilIsNoBlock
  <1>6. Typing'
    BY <1>0, <1>1, <1>2, <1>4 DEF Typing, Links, PushFree
  <1>7. ListIsConsistent'
    <2>1. \A i, j \in 1 .. Len(fifo') : fifo'[i] = fifo'[j] => i = j
      BY <1>1, <1>2, <1>3 DEF ListIsConsistent
    <2>2. ASSUME NEW i \in 1 .. Len(fifo')
          PROVE  /\ refCount'[fifo'[i]] = 0
                 /\ prev'[fifo'[i]] = (IF i = 1 THEN NIL ELSE fifo'[i - 1])
                 /\ next'[fifo'[i]] =
                        (IF i = Len(fifo') THEN NIL ELSE fifo'[i + 1])
      <3>1. CASE i = Len(fifo) + 1
        <4>1. fifo'[i] = b /\ refCount'[b] = 0
          BY <1>0, <1>2, <3>1 DEF Typing
        <4>2. prev'[b] = tail /\ next'[b] = NIL
          BY <1>0 DEF PushFree, Typing
        <4>3. i # 1 => fifo'[i - 1] = fifo[Len(fifo)]
          BY <1>1, <1>2, <3>1
        <4> QED
          BY <1>1, <1>2, <1>4, <3>1, <4>1, <4>2, <4>3
      <3>2. CASE i # Len(fifo) + 1
        <4>1. i \in 1 .. Len(fifo) /\ fifo'[i] = fifo[i] /\ fifo[i] # b
          BY <1>1, <1>2, <1>3, <3>2
        <4>2. /\ refCount[fifo[i]] = 0
              /\ prev[fifo[i]] = (IF i = 1 THEN NIL ELSE fifo[i - 1])
              /\ next[fifo[i]] = (IF i = Len(fifo) THEN NIL ELSE fifo[i + 1])
          BY <4>1 DEF ListIsConsistent
        <4>3. fifo[i] = tail <=> i = Len(fifo)
          BY <1>1, <1>4, <4>1 DEF ListIsConsistent
        <4>4. refCount'[fifo[i]] = 0 /\ prev'[fifo[i]] = prev[fifo[i]]
          BY <1>0, <1>3, <4>1, <4>2 DEF PushFree, Typing
        <4>5. next'[fifo[i]] = IF i = Len(fifo) THEN b ELSE next[fifo[i]]
          BY <1>0, <1>3, <4>1, <4>3 DEF PushFree
        <4>6. i # 1 => fifo'[i - 1] = fifo[i - 1]
          BY <1>1, <1>2, <4>1
        <4>7. fifo'[i + 1] = IF i = Len(fifo) THEN b ELSE fifo[i + 1]
          BY <1>1, <1>2, <4>1
        <4> QED
          BY <1>1, <1>2, <4>1, <4>2, <4>4, <4>5, <4>6, <4>7
      <3> QED
        BY <3>1, <3>2
    <2>3. head' = (IF Len(fifo') = 0 THEN NIL ELSE fifo'[1])
      <3>1. head' = IF Len(fifo) = 0 THEN b ELSE head
        BY <1>0, <1>5 DEF PushFree
      <3>2. Len(fifo) # 0 => head = fifo[1] /\ fifo'[1] = fifo[1]
        BY <1>1, <1>2 DEF ListIsConsistent
      <3> QED
        BY <1>1, <1>2, <3>1, <3>2
    <2>4. tail' = (IF Len(fifo') = 0 THEN NIL ELSE fifo'[Len(fifo')])
      BY <1>0, <1>1, <1>2 DEF PushFree
    <2>5. ASSUME NEW c \in BlockIds, refCount'[c] = 0
          PROVE  \E i \in 1 .. Len(fifo') : fifo'[i] = c
      <3>1. CASE c = b
        BY <1>1, <1>2, <3>1
      <3>2. CASE c # b
        <4>1. PICK i \in 1 .. Len(fifo) : fifo[i] = c
          BY <1>0, <2>5, <3>2 DEF ListIsConsistent, Typing
        <4> QED
          BY <1>1, <1>2, <4>1
      <3> QED
        BY <3>1, <3>2
    <2>6. Len(fifo') = numFree'
      BY <1>0, <1>1, <1>2 DEF PushFree
    <2> QED
      BY <2>1, <2>2, <2>3, <2>4, <2>5, <2>6 DEF ListIsConsistent
  <1> QED
    BY <1>6, <1>7

LEMMA NextIInv == IInv /\ [Next]_vars => IInv'
  <1> SUFFICES ASSUME IInv, [Next]_vars PROVE IInv'
    OBVIOUS
  <1>1. CASE TakeBlock
    BY <1>1, TakeIInv
  <1>2. ASSUME NEW b \in BlockIds, HoldFree(b) PROVE IInv'
    BY <1>2, HoldFreeIInv
  <1>3. ASSUME NEW b \in BlockIds, HoldUsed(b) PROVE IInv'
    BY <1>3, CountOnlyIInv
  <1>4. ASSUME NEW b \in BlockIds, ReleaseBlock(b) PROVE IInv'
    BY <1>4, CountOnlyIInv, ReleaseLastIInv
  <1>5. CASE UNCHANGED vars
    BY <1>5 DEF IInv, Typing, ListIsConsistent, vars
  <1> QED
    BY <1>1, <1>2, <1>3, <1>4, <1>5 DEF Next

-----------------------------------------------------------------------------
(* The theorems *)

\* For any number of blocks, the pointers threaded through the blocks always
\* describe the free blocks in the order they became free.
THEOREM FreeListConsistent == Spec => []ListIsConsistent
  <1>1. IInv => ListIsConsistent
    BY DEF IInv
  <1> QED
    BY <1>1, InitIInv, NextIInv, PTL DEF Spec

\* An injective queue of blocks is no longer than there are blocks.
LEMMA QueueFits == IInv => TypeOK
  <1> SUFFICES ASSUME IInv PROVE numFree \in 0 .. NumBlocks
    BY DEF IInv, Typing, TypeOK
  <1> DEFINE n == Len(fifo)
  <1>1. fifo \in Seq(BlockIds) /\ n = numFree /\ n \in Nat
    BY DEF IInv, Typing, ListIsConsistent
  <1>2. IsFiniteSet(BlockIds) /\ Cardinality(BlockIds) = NumBlocks
    BY FreeListAssumption, FS_Interval DEF BlockIds
  <1>3. IsFiniteSet(1 .. n) /\ Cardinality(1 .. n) = n
    BY <1>1, FS_Interval
  <1>4. fifo \in Injection(1 .. n, BlockIds)
    BY <1>1 DEF IInv, ListIsConsistent, Injection, IsInjective
  <1>5. Cardinality(1 .. n) <= Cardinality(BlockIds)
    BY <1>2, <1>4, FS_Injection DEF ExistsInjection
  <1> QED
    BY <1>1, <1>2, <1>3, <1>5, FreeListAssumption

\* The counter and the pointers keep their types; in particular
\* num_free_blocks_ never leaves 0 .. NumBlocks.
THEOREM FreeListTyped == Spec => []TypeOK
  BY InitIInv, NextIInv, QueueFits, PTL DEF Spec

\* Every operation on the pointers is the operation BlockPool promises: the
\* block taken is the one free the longest, and a block revived or released
\* moves nobody else.
THEOREM FreeListImplementsPool == Spec => ImplementsPool
  <1>1. Init => Pool!Init
    BY DEF Init, Pool!Init, BlockIds, Pool!BlockIds
  <1>2. ASSUME IInv, [Next]_vars PROVE [Pool!Next]_(Pool!vars)
    <2> USE DEF Pool!BlockIds, BlockIds
    <2>1. CASE TakeBlock
      <3>1. fifo # <<>> /\ Head(fifo) = head
        BY <1>2, <2>1 DEF IInv, Typing, ListIsConsistent, TakeBlock
      <3>2. Pool!Take
        BY <2>1, <3>1 DEF TakeBlock, Pool!Take
      <3> QED
        BY <3>2 DEF Pool!Next
    <2>2. ASSUME NEW b \in BlockIds, HoldFree(b) PROVE Pool!Revive(b)
      BY <2>2 DEF HoldFree, Pool!Revive, WithoutAt, Pool!WithoutAt
    <2>3. ASSUME NEW b \in BlockIds, HoldUsed(b) PROVE Pool!Share(b)
      BY <2>3 DEF HoldUsed, Pool!Share, list
    <2>4. ASSUME NEW b \in BlockIds, ReleaseBlock(b) PROVE Pool!Release(b)
      BY <2>4 DEF ReleaseBlock, Pool!Release, list
    <2>5. CASE UNCHANGED vars
      BY <2>5 DEF vars, Pool!vars
    <2> QED
      BY <1>2, <2>1, <2>2, <2>3, <2>4, <2>5 DEF Next, Pool!Next
  <1> QED
    BY <1>1, <1>2, InitIInv, NextIInv, PTL DEF Spec, ImplementsPool, Pool!Spec
=============================================================================
