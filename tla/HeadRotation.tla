---------------------------- MODULE HeadRotation ----------------------------
(***************************************************************************)
(* How the rotary embedding kernels move the elements of one head          *)
(* (ops/rope.cu, ops/qk_norm_rope_fused.cu).  Element d of the first half  *)
(* is rotated together with the one half a head further on, which another  *)
(* lane has: the lanes trade elements by shuffles, compute, trade back and *)
(* put the words of their vector in order again.                           *)
(*                                                                         *)
(* An element is its index in the head.  What a lane computes is a record  *)
(* [x, y, freq, sign] for x * cos(freq) + sign * y * sin(freq).            *)
(***************************************************************************)
EXTENDS Integers

CONSTANT HalfLanes   \* kHalfHeadThreads: a head is 16 times as many elements

\* Lanes are combined by exclusive or, so it is a power of two.
ASSUME HeadRotationAssumption ==
    HalfLanes \in Nat \ {0} /\ \E k \in 0 .. HalfLanes : HalfLanes = 2 ^ k

\* What the embedding is, as the served models define it: elements d and
\* d + half turn together, by angle d of the position's row in RopeCache.
Rotated(d, half) ==
    IF d < half THEN [x |-> d, y |-> d + half, freq |-> d, sign |-> -1]
                ELSE [x |-> d, y |-> d - half, freq |-> d - half, sign |-> 1]

\* lane ^ half: the lane at the same place in the other half of the head.
Peer(lane, half) == IF lane < half THEN lane + half ELSE lane - half

\* The sign of sin for the lane's own elements.
Sign(group) == IF group = 0 THEN -1 ELSE 1

-----------------------------------------------------------------------------
(* bf16_rope_packedqkv: eight elements a lane, each angle computed once *)

Group(lane) == lane \div HalfLanes
GroupLane(lane) == lane % HalfLanes

\* Words 0 to 3 of the lane's vector: those it keeps, then those it trades.
Kept(group) == IF group = 0 THEN <<0, 2, 1, 3>> ELSE <<1, 3, 0, 2>>

\* Element e of b128 before any shuffle.
Loaded(lane, e) == 8 * lane + 2 * Kept(Group(lane))[e \div 2 + 1] + (e % 2)

\* b128 after the first shuffle of its second half.
Traded(lane, e) == IF e < 4 THEN Loaded(lane, e) ELSE Loaded(Peer(lane, HalfLanes), e)

\* cs: two float4, each with the cosine and sine of two frequencies.
Freq(lane, i) == 2 * (4 * GroupLane(lane) + 2 * (i \div 2) + Group(lane)) + (i % 2)

\* self_outputs and peer_outputs.
Computed(lane, e) ==
    LET i == e % 4
        sign == Sign(Group(lane))
    IN  IF e < 4
        THEN [x |-> Traded(lane, i), y |-> Traded(lane, i + 4),
              freq |-> Freq(lane, i), sign |-> sign]
        ELSE [x |-> Traded(lane, i + 4), y |-> Traded(lane, i),
              freq |-> Freq(lane, i), sign |-> -sign]

\* b128 after the second shuffle.
Returned(lane, e) ==
    IF e < 4 THEN Computed(lane, e) ELSE Computed(Peer(lane, HalfLanes), e)

\* Group 1 swaps its halves, and all swap their middle words.
Stored(lane, j) ==
    LET e == 2 * <<0, 2, 1, 3>>[j \div 2 + 1] + (j % 2)
    IN  Returned(lane, IF Group(lane) = 1 THEN (e + 4) % 8 ELSE e)

-----------------------------------------------------------------------------
(* bf16_qk_norm_rope_fused: four elements a lane, peers compute for themselves *)

StoredFused(lane, i) ==
    LET half == 2 * HalfLanes
        group == lane \div half
    IN  [x |-> 4 * lane + i,
         y |-> 4 * Peer(lane, half) + i,
         freq |-> 2 * (2 * (lane % half) + i \div 2) + (i % 2),
         sign |-> Sign(group)]

-----------------------------------------------------------------------------

\* Every element of a head becomes what the embedding makes of it, and stays in
\* its place, whichever of the two kernels Attention::prepare launches.
HeadIsRotated ==
    /\ \A lane \in 0 .. 2 * HalfLanes - 1, j \in 0 .. 7 :
          Stored(lane, j) = Rotated(8 * lane + j, 8 * HalfLanes)
    /\ \A lane \in 0 .. 4 * HalfLanes - 1, i \in 0 .. 3 :
          StoredFused(lane, i) = Rotated(4 * lane + i, 8 * HalfLanes)
=============================================================================
