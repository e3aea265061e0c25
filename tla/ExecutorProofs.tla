--------------------------- MODULE ExecutorProofs ---------------------------
(***************************************************************************)
(* The executor, for every size of model and batch.                        *)
(*                                                                         *)
(* Workspace: the two passes of Workspace::create agree, so that each      *)
(* buffer lies inside the allocation, and the buffers a stage uses at once *)
(* lie apart.  Rotation: after the shuffles, the swaps and the tables' own *)
(* order of angles, each element of a head is where it was and has become  *)
(* what the rotary embedding makes of it.                                  *)
(*                                                                         *)
(* Batches: ExecutorInv says, for the batch whose operations are on the    *)
(* stream, which of them is next and what the ones before it have left in  *)
(* the buffers, and of the kv cache that it holds the exact keys of all    *)
(* positions but those the batch has yet to compute.  From it follow       *)
(* ResultsAreOwn, CacheIsExact and RowsDoNotRace.                          *)
(***************************************************************************)
EXTENDS Executor, CommonFacts, FiniteSetTheorems, SequenceTheorems, TLAPS

-----------------------------------------------------------------------------
(***************************************************************************)
(* The layout of the workspace.                                            *)
(***************************************************************************)

LEMMA AlignUpRounds ==
  ASSUME NEW n \in Nat
  PROVE  AlignUp(n) \in Nat /\ AlignUp(n) >= n /\ AlignUp(n) % 256 = 0
  BY DEF AlignUp

\* A buffer that was placed behind offset.
WellPlaced(region, offset) ==
    /\ region.from \in Nat /\ region.to \in Nat
    /\ region.from % 256 = 0
    /\ offset <= region.from
    /\ region.from <= region.to

\* One buffer: the first pass counts up to where the second one ends.
LEMMA PlaceIsReserve ==
  ASSUME NEW offset \in Nat, NEW bytes \in Nat
  PROVE  /\ WellPlaced(Place(offset, bytes), offset)
         /\ Place(offset, bytes).to = Reserve(offset, bytes)
  BY AlignUpRounds DEF Place, Reserve, WellPlaced

LEMMA ProductIsNat ==
  ASSUME NEW a \in Nat, NEW b \in Nat
  PROVE  a * b \in Nat
  OBVIOUS

LEMMA SizesAreNat ==
  /\ HiddenBytes \in Nat /\ QkvBytes \in Nat /\ AttnOutBytes \in Nat
  /\ GateUpBytes \in Nat /\ RouterBytes \in Nat /\ TopKBytes \in Nat
  /\ CountBytes \in Nat /\ ExpertBytes \in Nat /\ SamplingBytes \in Nat
  /\ LogitsBytes \in Nat
  BY WorkspaceAssumption, ProductIsNat
     DEF HiddenBytes, QkvBytes, AttnOutBytes, GateUpBytes, RouterBytes, TopKBytes,
         CountBytes, ExpertBytes, SamplingBytes, LogitsBytes, WordSize

-----------------------------------------------------------------------------
(* The two passes agree, stage by stage. *)

LEMMA CommonPlaced ==
  /\ WellPlaced(HiddenAt, 0) /\ WellPlaced(ResidualAt, HiddenAt.to)
  /\ LayerOffset \in Nat /\ LayerOffset = ResidualAt.to /\ LayerOffset = Common
  <1>1. WellPlaced(HiddenAt, 0) /\ HiddenAt.to = Reserve(0, HiddenBytes)
    BY SizesAreNat, PlaceIsReserve DEF HiddenAt
  <1>2. HiddenAt.to \in Nat
    BY <1>1 DEF WellPlaced
  <1>3. WellPlaced(ResidualAt, HiddenAt.to) /\ ResidualAt.to = Reserve(HiddenAt.to, HiddenBytes)
    BY <1>2, SizesAreNat, PlaceIsReserve DEF ResidualAt
  <1> QED
    BY <1>1, <1>3 DEF LayerOffset, Common, WellPlaced

LEMMA AttnPlaced ==
  /\ WellPlaced(QkvAt, LayerOffset) /\ WellPlaced(AttnOutAt, QkvAt.to)
  /\ AttnOutAt.to = AttnSize
  <1>1. WellPlaced(QkvAt, LayerOffset) /\ QkvAt.to = Reserve(Common, QkvBytes)
    BY CommonPlaced, SizesAreNat, PlaceIsReserve DEF QkvAt
  <1>2. QkvAt.to \in Nat
    BY <1>1 DEF WellPlaced
  <1>3. WellPlaced(AttnOutAt, QkvAt.to) /\ AttnOutAt.to = Reserve(QkvAt.to, AttnOutBytes)
    BY <1>2, SizesAreNat, PlaceIsReserve DEF AttnOutAt
  <1> QED
    BY <1>1, <1>3 DEF AttnSize

LEMMA MLPPlaced ==
  WellPlaced(GateUpAt, LayerOffset) /\ GateUpAt.to = MLPSize
  BY CommonPlaced, SizesAreNat, PlaceIsReserve DEF GateUpAt, MLPSize

LEMMA MoEPlaced ==
  /\ WellPlaced(RouterAt, LayerOffset) /\ WellPlaced(TopKWeightsAt, RouterAt.to)
  /\ WellPlaced(TopKIdsAt, TopKWeightsAt.to) /\ WellPlaced(CountsAt, TopKIdsAt.to)
  /\ WellPlaced(ExpertsAt, CountsAt.to)
  /\ NumExperts # 0 => ExpertsAt.to = MoESize
  <1>1. WellPlaced(RouterAt, LayerOffset) /\ RouterAt.to = Reserve(Common, RouterBytes)
    BY CommonPlaced, SizesAreNat, PlaceIsReserve DEF RouterAt
  <1>2. /\ WellPlaced(TopKWeightsAt, RouterAt.to)
        /\ TopKWeightsAt.to = Reserve(RouterAt.to, TopKBytes)
    <2>1. RouterAt.to \in Nat
      BY <1>1 DEF WellPlaced
    <2> QED
      BY <2>1, SizesAreNat, PlaceIsReserve DEF TopKWeightsAt
  <1>3. /\ WellPlaced(TopKIdsAt, TopKWeightsAt.to)
        /\ TopKIdsAt.to = Reserve(TopKWeightsAt.to, TopKBytes)
    <2>1. TopKWeightsAt.to \in Nat
      BY <1>2 DEF WellPlaced
    <2> QED
      BY <2>1, SizesAreNat, PlaceIsReserve DEF TopKIdsAt
  <1>4. WellPlaced(CountsAt, TopKIdsAt.to) /\ CountsAt.to = Reserve(TopKIdsAt.to, CountBytes)
    <2>1. TopKIdsAt.to \in Nat
      BY <1>3 DEF WellPlaced
    <2> QED
      BY <2>1, SizesAreNat, PlaceIsReserve DEF CountsAt
  <1>5. WellPlaced(ExpertsAt, CountsAt.to) /\ ExpertsAt.to = Reserve(CountsAt.to, ExpertBytes)
    <2>1. CountsAt.to \in Nat
      BY <1>4 DEF WellPlaced
    <2> QED
      BY <2>1, SizesAreNat, PlaceIsReserve DEF ExpertsAt
  <1> QED
    BY <1>1, <1>2, <1>3, <1>4, <1>5 DEF MoESize

LEMMA LogitsPlaced ==
  /\ WellPlaced(SamplingAt, 0) /\ WellPlaced(LogitsAt, SamplingAt.to)
  /\ LogitsAt.to = LogitsSize
  <1>1. WellPlaced(SamplingAt, 0) /\ SamplingAt.to = Reserve(0, SamplingBytes)
    BY SizesAreNat, PlaceIsReserve DEF SamplingAt
  <1>2. SamplingAt.to \in Nat
    BY <1>1 DEF WellPlaced
  <1>3. WellPlaced(LogitsAt, SamplingAt.to) /\ LogitsAt.to = Reserve(SamplingAt.to, LogitsBytes)
    BY <1>2, SizesAreNat, PlaceIsReserve DEF LogitsAt
  <1> QED
    BY <1>1, <1>3 DEF LogitsSize

-----------------------------------------------------------------------------

\* A buffer ends before the next one begins, and so before all later ones.
Before(a, b) == a.to <= b.from

LEMMA AttnOrder ==
  /\ Before(HiddenAt, ResidualAt) /\ Before(HiddenAt, QkvAt) /\ Before(HiddenAt, AttnOutAt)
  /\ Before(ResidualAt, QkvAt) /\ Before(ResidualAt, AttnOutAt) /\ Before(QkvAt, AttnOutAt)
  BY CommonPlaced, AttnPlaced DEF WellPlaced, Before

LEMMA MLPOrder ==
  Before(HiddenAt, ResidualAt) /\ Before(HiddenAt, GateUpAt) /\ Before(ResidualAt, GateUpAt)
  BY CommonPlaced, MLPPlaced DEF WellPlaced, Before

LEMMA MoEOrder ==
  /\ \A a \in {HiddenAt, ResidualAt} :
        /\ Before(a, RouterAt) /\ Before(a, TopKWeightsAt) /\ Before(a, TopKIdsAt)
        /\ Before(a, CountsAt) /\ Before(a, ExpertsAt)
  /\ Before(HiddenAt, ResidualAt)
  /\ Before(RouterAt, TopKWeightsAt) /\ Before(RouterAt, TopKIdsAt)
  /\ Before(RouterAt, CountsAt) /\ Before(RouterAt, ExpertsAt)
  /\ Before(TopKWeightsAt, TopKIdsAt) /\ Before(TopKWeightsAt, CountsAt)
  /\ Before(TopKWeightsAt, ExpertsAt)
  /\ Before(TopKIdsAt, CountsAt) /\ Before(TopKIdsAt, ExpertsAt)
  /\ Before(CountsAt, ExpertsAt)
  <1>1. /\ HiddenAt.to <= ResidualAt.from /\ ResidualAt.from <= ResidualAt.to
        /\ HiddenAt.to \in Nat /\ ResidualAt.from \in Nat /\ ResidualAt.to \in Nat
        /\ ResidualAt.to <= RouterAt.from
    BY CommonPlaced, MoEPlaced DEF WellPlaced
  <1>2. /\ RouterAt.from <= RouterAt.to /\ RouterAt.to <= TopKWeightsAt.from
        /\ TopKWeightsAt.from <= TopKWeightsAt.to /\ TopKWeightsAt.to <= TopKIdsAt.from
        /\ TopKIdsAt.from <= TopKIdsAt.to /\ TopKIdsAt.to <= CountsAt.from
        /\ CountsAt.from <= CountsAt.to /\ CountsAt.to <= ExpertsAt.from
    BY MoEPlaced DEF WellPlaced
  <1>3. /\ RouterAt.from \in Nat /\ RouterAt.to \in Nat
        /\ TopKWeightsAt.from \in Nat /\ TopKWeightsAt.to \in Nat
        /\ TopKIdsAt.from \in Nat /\ TopKIdsAt.to \in Nat
        /\ CountsAt.from \in Nat /\ CountsAt.to \in Nat /\ ExpertsAt.from \in Nat
    BY MoEPlaced DEF WellPlaced
  <1> QED
    BY <1>1, <1>2, <1>3 DEF Before

\* Buffers in use at once never share a byte, whatever the sizes are
\* (Workspace::create): the stages only overlay what they do not both need.
THEOREM StagesKeepApart ==
  \A stage \in Stages : \A a, b \in stage : a # b => Disjoint(a, b)
  <1>1. \A a, b : Before(a, b) \/ Before(b, a) => Disjoint(a, b)
    BY DEF Before, Disjoint
  <1>2. \A a, b \in AttnStage : a # b => Before(a, b) \/ Before(b, a)
    BY AttnOrder, Zenon DEF AttnStage
  <1>3. \A a, b \in MLPStage : a # b => Before(a, b) \/ Before(b, a)
    BY MLPOrder, Zenon DEF MLPStage
  <1>4. \A a, b \in MoEStage : a # b => Before(a, b) \/ Before(b, a)
    BY MoEOrder, Zenon DEF MoEStage
  <1>5. \A a, b \in LogitsStage : a # b => Before(a, b) \/ Before(b, a)
    <2>1. Before(SamplingAt, LogitsAt)
      BY LogitsPlaced DEF WellPlaced, Before
    <2> QED
      BY <2>1, Zenon DEF LogitsStage
  <1> QED
    BY <1>1, <1>2, <1>3, <1>4, <1>5 DEF Stages

\* Every buffer begins on a multiple of 256 bytes, which the vector loads of
\* the kernels rely on, and ends inside the one allocation: what the first
\* pass of create reserves is enough for what the second one places.
THEOREM WorkspaceFits ==
  \A stage \in Stages : \A a \in stage :
      a.from \in Nat /\ a.from % 256 = 0 /\ a.from <= a.to /\ a.to <= Required
  <1> DEFINE Fits(a) ==
        a.from \in Nat /\ a.from % 256 = 0 /\ a.from <= a.to /\ a.to <= Required
  <1>1. AttnSize \in Nat /\ MLPSize \in Nat /\ LogitsSize \in Nat
    BY AttnPlaced, MLPPlaced, LogitsPlaced DEF WellPlaced
  <1>2. MoESize \in Nat
    BY MoEPlaced DEF WellPlaced, MoESize
  <1>3. /\ AttnSize <= Required /\ MLPSize <= Required
        /\ MoESize <= Required /\ LogitsSize <= Required /\ Required \in Nat
    BY <1>1, <1>2 DEF Required, Larger
  <1>4. Fits(HiddenAt) /\ Fits(ResidualAt) /\ Fits(QkvAt) /\ Fits(AttnOutAt)
    BY <1>3, CommonPlaced, AttnPlaced DEF WellPlaced
  <1>5. Fits(GateUpAt)
    BY <1>3, CommonPlaced, MLPPlaced DEF WellPlaced
  <1>6. NumExperts # 0 =>
           /\ Fits(RouterAt) /\ Fits(TopKWeightsAt) /\ Fits(TopKIdsAt)
           /\ Fits(CountsAt) /\ Fits(ExpertsAt)
    BY <1>3, CommonPlaced, MoEPlaced DEF WellPlaced
  <1>7. Fits(SamplingAt) /\ Fits(LogitsAt)
    BY <1>3, LogitsPlaced DEF WellPlaced
  <1> HIDE DEF Fits
  <1>8. \A stage \in Stages : \A a \in stage : Fits(a)
    <2>1. \A a \in AttnStage : Fits(a)
      BY <1>4, Zenon DEF AttnStage
    <2>2. \A a \in MLPStage : Fits(a)
      BY <1>4, <1>5, Zenon DEF MLPStage
    <2>3. \A a \in MoEStage : Fits(a)
      BY <1>4, <1>6, Zenon DEF MoEStage
    <2>4. \A a \in LogitsStage : Fits(a)
      BY <1>7, Zenon DEF LogitsStage
    <2> QED
      BY <2>1, <2>2, <2>3, <2>4 DEF Stages
  <1> QED
    BY <1>8 DEF Fits

\* compute_logits gathers rows of residual into the start of hidden and only
\* reads residual: a gather of no more rows than a batch has tokens does not
\* write what it has yet to read.
THEOREM GatherLeavesResidual ==
  ASSUME NEW samples \in 0 .. MaxTokens
  PROVE  Disjoint(FirstRows(SamplingAt, samples, HiddenSize * ElementSize), ResidualAt)
  <1>1. SamplingAt.from = HiddenAt.from
    BY DEF SamplingAt, HiddenAt, Place
  <1>2. samples * (HiddenSize * ElementSize) <= HiddenBytes
    <2> DEFINE row == HiddenSize * ElementSize
    <2>1. row \in Nat
      BY WorkspaceAssumption, ProductIsNat
    <2>2. PICK more \in Nat : MaxTokens = samples + more
      <3>1. MaxTokens - samples \in Nat /\ MaxTokens = samples + (MaxTokens - samples)
        BY WorkspaceAssumption
      <3> QED
        BY <3>1
    <2>3. HiddenBytes = MaxTokens * row
      BY WorkspaceAssumption DEF HiddenBytes
    <2>4. MaxTokens * row = samples * row + more * row
      BY <2>1, <2>2
    <2>5. more * row \in Nat /\ samples * row \in Nat
      BY <2>1, ProductIsNat
    <2> QED
      BY <2>3, <2>4, <2>5
  <1>3. HiddenAt.to = HiddenAt.from + HiddenBytes
    BY DEF HiddenAt, Place
  <1>4. samples * (HiddenSize * ElementSize) \in Nat
    BY WorkspaceAssumption, ProductIsNat
  <1> QED
    BY <1>1, <1>2, <1>3, <1>4, CommonPlaced, SizesAreNat
       DEF Disjoint, FirstRows, WellPlaced

-----------------------------------------------------------------------------
(***************************************************************************)
(* The rotary kernels.                                                     *)
(***************************************************************************)

\* The lanes of a head are two groups of HalfLanes; the peer of a lane has
\* the same place in the other one.
LEMMA Lanes ==
  ASSUME NEW half \in Nat \ {0}, NEW lane \in 0 .. 2 * half - 1
  PROVE  /\ Peer(lane, half) \in 0 .. 2 * half - 1
         /\ lane < half => /\ lane \div half = 0 /\ lane % half = lane
                           /\ Peer(lane, half) = lane + half
         /\ lane >= half => /\ lane \div half = 1 /\ lane % half = lane - half
                            /\ Peer(lane, half) = lane - half
  <1>1. CASE lane < half
    <2>1. lane \div half = 0 /\ lane % half = lane
      BY <1>1
    <2> QED
      BY <1>1, <2>1 DEF Peer
  <1>2. CASE lane >= half
    <2>1. lane = half * 1 + (lane - half) /\ lane - half \in 0 .. half - 1
      BY <1>2
    <2>2. lane \div half = 1 /\ lane % half = lane - half
      BY <2>1
    <2> QED
      BY <1>2, <2>2 DEF Peer
  <1> QED
    BY <1>1, <1>2

\* An element's word, and its place in it.
LEMMA Words ==
  /\ 0 \div 2 = 0 /\ 1 \div 2 = 0 /\ 2 \div 2 = 1 /\ 3 \div 2 = 1
  /\ 4 \div 2 = 2 /\ 5 \div 2 = 2 /\ 6 \div 2 = 3 /\ 7 \div 2 = 3
  /\ 0 % 2 = 0 /\ 1 % 2 = 1 /\ 2 % 2 = 0 /\ 3 % 2 = 1
  /\ 4 % 2 = 0 /\ 5 % 2 = 1 /\ 6 % 2 = 0 /\ 7 % 2 = 1
  OBVIOUS

-----------------------------------------------------------------------------
(* bf16_rope_packedqkv *)

\* What a lane holds before the first shuffle: the words it keeps are x and z
\* in the first group, y and w in the second.
LEMMA LoadedAt ==
  ASSUME NEW lane \in 0 .. 2 * HalfLanes - 1
  PROVE  /\ lane < HalfLanes =>
              /\ Loaded(lane, 0) = 8 * lane /\ Loaded(lane, 1) = 8 * lane + 1
              /\ Loaded(lane, 2) = 8 * lane + 4 /\ Loaded(lane, 3) = 8 * lane + 5
              /\ Loaded(lane, 4) = 8 * lane + 2 /\ Loaded(lane, 5) = 8 * lane + 3
              /\ Loaded(lane, 6) = 8 * lane + 6 /\ Loaded(lane, 7) = 8 * lane + 7
         /\ lane >= HalfLanes =>
              /\ Loaded(lane, 0) = 8 * lane + 2 /\ Loaded(lane, 1) = 8 * lane + 3
              /\ Loaded(lane, 2) = 8 * lane + 6 /\ Loaded(lane, 3) = 8 * lane + 7
              /\ Loaded(lane, 4) = 8 * lane /\ Loaded(lane, 5) = 8 * lane + 1
              /\ Loaded(lane, 6) = 8 * lane + 4 /\ Loaded(lane, 7) = 8 * lane + 5
  <1>1. lane < HalfLanes => Kept(Group(lane)) = <<0, 2, 1, 3>>
    BY HeadRotationAssumption, Lanes DEF Kept, Group
  <1>2. lane >= HalfLanes => Kept(Group(lane)) = <<1, 3, 0, 2>>
    BY HeadRotationAssumption, Lanes DEF Kept, Group
  <1> QED
    BY HeadRotationAssumption, <1>1, <1>2, Words DEF Loaded

\* The lane's angles are those of the words it keeps.
LEMMA FreqAt ==
  ASSUME NEW lane \in 0 .. 2 * HalfLanes - 1
  PROVE  /\ lane < HalfLanes =>
              /\ Freq(lane, 0) = 8 * lane /\ Freq(lane, 1) = 8 * lane + 1
              /\ Freq(lane, 2) = 8 * lane + 4 /\ Freq(lane, 3) = 8 * lane + 5
         /\ lane >= HalfLanes =>
              LET base == 8 * (lane - HalfLanes) IN
              /\ Freq(lane, 0) = base + 2 /\ Freq(lane, 1) = base + 3
              /\ Freq(lane, 2) = base + 6 /\ Freq(lane, 3) = base + 7
  <1>1. lane < HalfLanes => Group(lane) = 0 /\ GroupLane(lane) = lane
    BY HeadRotationAssumption, Lanes DEF Group, GroupLane
  <1>2. lane >= HalfLanes => Group(lane) = 1 /\ GroupLane(lane) = lane - HalfLanes
    BY HeadRotationAssumption, Lanes DEF Group, GroupLane
  <1> QED
    BY HeadRotationAssumption, <1>1, <1>2, Words DEF Freq

\* A lane's vector after the second shuffle and the swaps, by word.
LEMMA StoredAt ==
  ASSUME NEW lane \in 0 .. 2 * HalfLanes - 1
  PROVE  /\ lane < HalfLanes =>
              /\ Stored(lane, 0) = Returned(lane, 0) /\ Stored(lane, 1) = Returned(lane, 1)
              /\ Stored(lane, 2) = Returned(lane, 4) /\ Stored(lane, 3) = Returned(lane, 5)
              /\ Stored(lane, 4) = Returned(lane, 2) /\ Stored(lane, 5) = Returned(lane, 3)
              /\ Stored(lane, 6) = Returned(lane, 6) /\ Stored(lane, 7) = Returned(lane, 7)
         /\ lane >= HalfLanes =>
              /\ Stored(lane, 0) = Returned(lane, 4) /\ Stored(lane, 1) = Returned(lane, 5)
              /\ Stored(lane, 2) = Returned(lane, 0) /\ Stored(lane, 3) = Returned(lane, 1)
              /\ Stored(lane, 4) = Returned(lane, 6) /\ Stored(lane, 5) = Returned(lane, 7)
              /\ Stored(lane, 6) = Returned(lane, 2) /\ Stored(lane, 7) = Returned(lane, 3)
  <1>1. /\ lane < HalfLanes => Group(lane) = 0
        /\ lane >= HalfLanes => Group(lane) = 1
    BY HeadRotationAssumption, Lanes DEF Group
  <1> QED
    BY <1>1, Words DEF Stored

\* What lane computes for the words it keeps, and for those it traded.
LEMMA ComputedAt ==
  ASSUME NEW lane \in 0 .. 2 * HalfLanes - 1, NEW i \in 0 .. 3
  PROVE  LET peer == Peer(lane, HalfLanes)
             sign == IF lane < HalfLanes THEN -1 ELSE 1
         IN  /\ Computed(lane, i) = [x |-> Loaded(lane, i), y |-> Loaded(peer, i + 4),
                                    freq |-> Freq(lane, i), sign |-> sign]
             /\ Computed(lane, i + 4) = [x |-> Loaded(peer, i + 4), y |-> Loaded(lane, i),
                                        freq |-> Freq(lane, i), sign |-> -sign]
  <1>1. Sign(Group(lane)) = IF lane < HalfLanes THEN -1 ELSE 1
    BY HeadRotationAssumption, Lanes DEF Sign, Group
  <1>2. i % 4 = i /\ (i + 4) % 4 = i /\ i < 4 /\ ~(i + 4 < 4)
    OBVIOUS
  <1> QED
    BY <1>1, <1>2 DEF Computed, Traded

\* The two shuffles of a lane reach the same peer.
LEMMA PeerOfPeer ==
  ASSUME NEW lane \in 0 .. 2 * HalfLanes - 1
  PROVE  Peer(Peer(lane, HalfLanes), HalfLanes) = lane
  BY HeadRotationAssumption, Lanes DEF Peer

\* An element kept, and one traded, in either half of the head.
LEMMA ReturnedAt ==
  ASSUME NEW lane \in 0 .. 2 * HalfLanes - 1, NEW e \in 0 .. 7
  PROVE  LET peer == Peer(lane, HalfLanes)
             mate == IF e < 4 THEN e + 4 ELSE e - 4
         IN  Returned(lane, e) =
                [x |-> Loaded(lane, e), y |-> Loaded(peer, mate),
                 freq |-> IF e < 4 THEN Freq(lane, e) ELSE Freq(peer, e - 4),
                 sign |-> IF lane < HalfLanes THEN -1 ELSE 1]
  <1> DEFINE peer == Peer(lane, HalfLanes)
  <1>1. peer \in 0 .. 2 * HalfLanes - 1
    BY HeadRotationAssumption, Lanes
  <1>2. CASE e < 4
    BY <1>2, ComputedAt DEF Returned
  <1>3. CASE e >= 4
    <2> DEFINE i == e - 4
    <2>1. i \in 0 .. 3 /\ i + 4 = e /\ ~(e < 4)
      BY <1>3
    <2>2. Returned(lane, e) = Computed(peer, e)
      BY <2>1 DEF Returned
    <2>3. Computed(peer, i + 4) =
             [x |-> Loaded(Peer(peer, HalfLanes), i + 4), y |-> Loaded(peer, i),
              freq |-> Freq(peer, i), sign |-> -(IF peer < HalfLanes THEN -1 ELSE 1)]
      BY <1>1, <2>1, ComputedAt
    <2>4. -(IF peer < HalfLanes THEN -1 ELSE 1) = IF lane < HalfLanes THEN -1 ELSE 1
      BY HeadRotationAssumption, Lanes DEF Peer
    <2> QED
      BY <2>1, <2>2, <2>3, <2>4, PeerOfPeer
  <1> QED
    BY <1>2, <1>3

\* bf16_rope_packedqkv rotates every element of a head and moves none.
LEMMA VectorKernelRotates ==
  ASSUME NEW lane \in 0 .. 2 * HalfLanes - 1, NEW j \in 0 .. 7
  PROVE  Stored(lane, j) = Rotated(8 * lane + j, 8 * HalfLanes)
  <1> DEFINE peer == Peer(lane, HalfLanes)
             Result(x, y, freq, sign) == [x |-> x, y |-> y, freq |-> freq, sign |-> sign]
  <1>1. peer \in 0 .. 2 * HalfLanes - 1 /\ HalfLanes \in Nat /\ lane \in Nat
    BY HeadRotationAssumption, Lanes
  <1>2. CASE lane < HalfLanes
    <2>1. peer = lane + HalfLanes /\ peer >= HalfLanes /\ 8 * lane + j < 8 * HalfLanes
      BY <1>1, <1>2 DEF Peer
    <2>2. Rotated(8 * lane + j, 8 * HalfLanes) =
             Result(8 * lane + j, 8 * peer + j, 8 * lane + j, -1)
      BY <1>1, <2>1 DEF Rotated
    <2> HIDE DEF peer
    <2>3. \A e \in 0 .. 7 : Returned(lane, e) =
             Result(Loaded(lane, e), Loaded(peer, IF e < 4 THEN e + 4 ELSE e - 4),
                    IF e < 4 THEN Freq(lane, e) ELSE Freq(peer, e - 4), -1)
      BY <1>2, ReturnedAt DEF peer
    <2>4. ASSUME j = 0 PROVE Stored(lane, j) = Result(8 * lane + 0, 8 * peer + 0, 8 * lane + 0, -1)
      <3>1. Stored(lane, 0) = Result(Loaded(lane, 0), Loaded(peer, 4), Freq(lane, 0), -1)
        BY <1>2, <2>3, StoredAt
      <3>2. /\ Loaded(lane, 0) = 8 * lane + 0 /\ Loaded(peer, 4) = 8 * peer + 0
            /\ Freq(lane, 0) = 8 * lane + 0
        BY <1>1, <1>2, <2>1, LoadedAt, FreqAt
      <3> QED
        BY <2>4, <3>1, <3>2
    <2>5. ASSUME j = 1 PROVE Stored(lane, j) = Result(8 * lane + 1, 8 * peer + 1, 8 * lane + 1, -1)
      <3>1. Stored(lane, 1) = Result(Loaded(lane, 1), Loaded(peer, 5), Freq(lane, 1), -1)
        BY <1>2, <2>3, StoredAt
      <3>2. /\ Loaded(lane, 1) = 8 * lane + 1 /\ Loaded(peer, 5) = 8 * peer + 1
            /\ Freq(lane, 1) = 8 * lane + 1
        BY <1>1, <1>2, <2>1, LoadedAt, FreqAt
      <3> QED
        BY <2>5, <3>1, <3>2
    <2>6. ASSUME j = 2 PROVE Stored(lane, j) = Result(8 * lane + 2, 8 * peer + 2, 8 * lane + 2, -1)
      <3>1. Stored(lane, 2) = Result(Loaded(lane, 4), Loaded(peer, 0), Freq(peer, 0), -1)
        BY <1>2, <2>3, StoredAt
      <3>2. /\ Loaded(lane, 4) = 8 * lane + 2 /\ Loaded(peer, 0) = 8 * peer + 2
            /\ Freq(peer, 0) = 8 * lane + 2
        BY <1>1, <1>2, <2>1, LoadedAt, FreqAt
      <3> QED
        BY <2>6, <3>1, <3>2
    <2>7. ASSUME j = 3 PROVE Stored(lane, j) = Result(8 * lane + 3, 8 * peer + 3, 8 * lane + 3, -1)
      <3>1. Stored(lane, 3) = Result(Loaded(lane, 5), Loaded(peer, 1), Freq(peer, 1), -1)
        BY <1>2, <2>3, StoredAt
      <3>2. /\ Loaded(lane, 5) = 8 * lane + 3 /\ Loaded(peer, 1) = 8 * peer + 3
            /\ Freq(peer, 1) = 8 * lane + 3
        BY <1>1, <1>2, <2>1, LoadedAt, FreqAt
      <3> QED
        BY <2>7, <3>1, <3>2
    <2>8. ASSUME j = 4 PROVE Stored(lane, j) = Result(8 * lane + 4, 8 * peer + 4, 8 * lane + 4, -1)
      <3>1. Stored(lane, 4) = Result(Loaded(lane, 2), Loaded(peer, 6), Freq(lane, 2), -1)
        BY <1>2, <2>3, StoredAt
      <3>2. /\ Loaded(lane, 2) = 8 * lane + 4 /\ Loaded(peer, 6) = 8 * peer + 4
            /\ Freq(lane, 2) = 8 * lane + 4
        BY <1>1, <1>2, <2>1, LoadedAt, FreqAt
      <3> QED
        BY <2>8, <3>1, <3>2
    <2>9. ASSUME j = 5 PROVE Stored(lane, j) = Result(8 * lane + 5, 8 * peer + 5, 8 * lane + 5, -1)
      <3>1. Stored(lane, 5) = Result(Loaded(lane, 3), Loaded(peer, 7), Freq(lane, 3), -1)
        BY <1>2, <2>3, StoredAt
      <3>2. /\ Loaded(lane, 3) = 8 * lane + 5 /\ Loaded(peer, 7) = 8 * peer + 5
            /\ Freq(lane, 3) = 8 * lane + 5
        BY <1>1, <1>2, <2>1, LoadedAt, FreqAt
      <3> QED
        BY <2>9, <3>1, <3>2
    <2>10. ASSUME j = 6 PROVE Stored(lane, j) = Result(8 * lane + 6, 8 * peer + 6, 8 * lane + 6, -1)
      <3>1. Stored(lane, 6) = Result(Loaded(lane, 6), Loaded(peer, 2), Freq(peer, 2), -1)
        BY <1>2, <2>3, StoredAt
      <3>2. /\ Loaded(lane, 6) = 8 * lane + 6 /\ Loaded(peer, 2) = 8 * peer + 6
            /\ Freq(peer, 2) = 8 * lane + 6
        BY <1>1, <1>2, <2>1, LoadedAt, FreqAt
      <3> QED
        BY <2>10, <3>1, <3>2
    <2>11. ASSUME j = 7 PROVE Stored(lane, j) = Result(8 * lane + 7, 8 * peer + 7, 8 * lane + 7, -1)
      <3>1. Stored(lane, 7) = Result(Loaded(lane, 7), Loaded(peer, 3), Freq(peer, 3), -1)
        BY <1>2, <2>3, StoredAt
      <3>2. /\ Loaded(lane, 7) = 8 * lane + 7 /\ Loaded(peer, 3) = 8 * peer + 7
            /\ Freq(peer, 3) = 8 * lane + 7
        BY <1>1, <1>2, <2>1, LoadedAt, FreqAt
      <3> QED
        BY <2>11, <3>1, <3>2
    <2>12. j = 0 \/ j = 1 \/ j = 2 \/ j = 3 \/ j = 4 \/ j = 5 \/ j = 6 \/ j = 7
      OBVIOUS
    <2> QED
      BY <2>2, <2>4, <2>5, <2>6, <2>7, <2>8, <2>9, <2>10, <2>11, <2>12
  <1>3. CASE lane >= HalfLanes
    <2>1. /\ peer = lane - HalfLanes /\ peer < HalfLanes /\ peer \in Nat
          /\ ~(8 * lane + j < 8 * HalfLanes)
      BY <1>1, <1>3 DEF Peer
    <2>2. Rotated(8 * lane + j, 8 * HalfLanes) =
             Result(8 * lane + j, 8 * peer + j, 8 * peer + j, 1)
      BY <1>1, <2>1 DEF Rotated
    <2> HIDE DEF peer
    <2>3. \A e \in 0 .. 7 : Returned(lane, e) =
             Result(Loaded(lane, e), Loaded(peer, IF e < 4 THEN e + 4 ELSE e - 4),
                    IF e < 4 THEN Freq(lane, e) ELSE Freq(peer, e - 4), 1)
      <3>1. ~(lane < HalfLanes)
        BY <1>1, <1>3
      <3> QED
        BY <3>1, ReturnedAt DEF peer
    <2>4. ASSUME j = 0 PROVE Stored(lane, j) = Result(8 * lane + 0, 8 * peer + 0, 8 * peer + 0, 1)
      <3>1. Stored(lane, 0) = Result(Loaded(lane, 4), Loaded(peer, 0), Freq(peer, 0), 1)
        BY <1>3, <2>3, StoredAt
      <3>2. /\ Loaded(lane, 4) = 8 * lane + 0 /\ Loaded(peer, 0) = 8 * peer + 0
            /\ Freq(peer, 0) = 8 * peer + 0
        BY <1>1, <1>3, <2>1, LoadedAt, FreqAt
      <3> QED
        BY <2>4, <3>1, <3>2
    <2>5. ASSUME j = 1 PROVE Stored(lane, j) = Result(8 * lane + 1, 8 * peer + 1, 8 * peer + 1, 1)
      <3>1. Stored(lane, 1) = Result(Loaded(lane, 5), Loaded(peer, 1), Freq(peer, 1), 1)
        BY <1>3, <2>3, StoredAt
      <3>2. /\ Loaded(lane, 5) = 8 * lane + 1 /\ Loaded(peer, 1) = 8 * peer + 1
            /\ Freq(peer, 1) = 8 * peer + 1
        BY <1>1, <1>3, <2>1, LoadedAt, FreqAt
      <3> QED
        BY <2>5, <3>1, <3>2
    <2>6. ASSUME j = 2 PROVE Stored(lane, j) = Result(8 * lane + 2, 8 * peer + 2, 8 * peer + 2, 1)
      <3>1. Stored(lane, 2) = Result(Loaded(lane, 0), Loaded(peer, 4), Freq(lane, 0), 1)
        BY <1>3, <2>3, StoredAt
      <3>2. /\ Loaded(lane, 0) = 8 * lane + 2 /\ Loaded(peer, 4) = 8 * peer + 2
            /\ Freq(lane, 0) = 8 * peer + 2
        BY <1>1, <1>3, <2>1, LoadedAt, FreqAt
      <3> QED
        BY <2>6, <3>1, <3>2
    <2>7. ASSUME j = 3 PROVE Stored(lane, j) = Result(8 * lane + 3, 8 * peer + 3, 8 * peer + 3, 1)
      <3>1. Stored(lane, 3) = Result(Loaded(lane, 1), Loaded(peer, 5), Freq(lane, 1), 1)
        BY <1>3, <2>3, StoredAt
      <3>2. /\ Loaded(lane, 1) = 8 * lane + 3 /\ Loaded(peer, 5) = 8 * peer + 3
            /\ Freq(lane, 1) = 8 * peer + 3
        BY <1>1, <1>3, <2>1, LoadedAt, FreqAt
      <3> QED
        BY <2>7, <3>1, <3>2
    <2>8. ASSUME j = 4 PROVE Stored(lane, j) = Result(8 * lane + 4, 8 * peer + 4, 8 * peer + 4, 1)
      <3>1. Stored(lane, 4) = Result(Loaded(lane, 6), Loaded(peer, 2), Freq(peer, 2), 1)
        BY <1>3, <2>3, StoredAt
      <3>2. /\ Loaded(lane, 6) = 8 * lane + 4 /\ Loaded(peer, 2) = 8 * peer + 4
            /\ Freq(peer, 2) = 8 * peer + 4
        BY <1>1, <1>3, <2>1, LoadedAt, FreqAt
      <3> QED
        BY <2>8, <3>1, <3>2
    <2>9. ASSUME j = 5 PROVE Stored(lane, j) = Result(8 * lane + 5, 8 * peer + 5, 8 * peer + 5, 1)
      <3>1. Stored(lane, 5) = Result(Loaded(lane, 7), Loaded(peer, 3), Freq(peer, 3), 1)
        BY <1>3, <2>3, StoredAt
      <3>2. /\ Loaded(lane, 7) = 8 * lane + 5 /\ Loaded(peer, 3) = 8 * peer + 5
            /\ Freq(peer, 3) = 8 * peer + 5
        BY <1>1, <1>3, <2>1, LoadedAt, FreqAt
      <3> QED
        BY <2>9, <3>1, <3>2
    <2>10. ASSUME j = 6 PROVE Stored(lane, j) = Result(8 * lane + 6, 8 * peer + 6, 8 * peer + 6, 1)
      <3>1. Stored(lane, 6) = Result(Loaded(lane, 2), Loaded(peer, 6), Freq(lane, 2), 1)
        BY <1>3, <2>3, StoredAt
      <3>2. /\ Loaded(lane, 2) = 8 * lane + 6 /\ Loaded(peer, 6) = 8 * peer + 6
            /\ Freq(lane, 2) = 8 * peer + 6
        BY <1>1, <1>3, <2>1, LoadedAt, FreqAt
      <3> QED
        BY <2>10, <3>1, <3>2
    <2>11. ASSUME j = 7 PROVE Stored(lane, j) = Result(8 * lane + 7, 8 * peer + 7, 8 * peer + 7, 1)
      <3>1. Stored(lane, 7) = Result(Loaded(lane, 3), Loaded(peer, 7), Freq(lane, 3), 1)
        BY <1>3, <2>3, StoredAt
      <3>2. /\ Loaded(lane, 3) = 8 * lane + 7 /\ Loaded(peer, 7) = 8 * peer + 7
            /\ Freq(lane, 3) = 8 * peer + 7
        BY <1>1, <1>3, <2>1, LoadedAt, FreqAt
      <3> QED
        BY <2>11, <3>1, <3>2
    <2>12. j = 0 \/ j = 1 \/ j = 2 \/ j = 3 \/ j = 4 \/ j = 5 \/ j = 6 \/ j = 7
      OBVIOUS
    <2> QED
      BY <2>2, <2>4, <2>5, <2>6, <2>7, <2>8, <2>9, <2>10, <2>11, <2>12
  <1> QED
    BY <1>1, <1>2, <1>3

-----------------------------------------------------------------------------
(* bf16_qk_norm_rope_fused *)

LEMMA FusedKernelRotates ==
  ASSUME NEW lane \in 0 .. 4 * HalfLanes - 1, NEW i \in 0 .. 3
  PROVE  StoredFused(lane, i) = Rotated(4 * lane + i, 8 * HalfLanes)
  <1> DEFINE half == 2 * HalfLanes
  <1>1. half \in Nat \ {0} /\ lane \in 0 .. 2 * half - 1 /\ lane \in Nat /\ HalfLanes \in Nat
    BY HeadRotationAssumption
  <1>2. 2 * (2 * (lane % half) + i \div 2) + (i % 2) = 4 * (lane % half) + i
    <2>1. 2 * (i \div 2) + (i % 2) = i /\ i \div 2 \in Int /\ i % 2 \in Int
      OBVIOUS
    <2>2. lane % half \in Int
      BY <1>1
    <2> QED
      BY <2>1, <2>2
  <1>3. StoredFused(lane, i) =
           [x |-> 4 * lane + i, y |-> 4 * Peer(lane, half) + i,
            freq |-> 4 * (lane % half) + i, sign |-> Sign(lane \div half)]
    BY <1>2 DEF StoredFused
  <1>4. CASE lane < half
    <2>1. /\ lane \div half = 0 /\ lane % half = lane
          /\ 4 * Peer(lane, half) + i = (4 * lane + i) + 8 * HalfLanes
          /\ 4 * lane + i < 8 * HalfLanes
      <3>1. lane \div half = 0 /\ lane % half = lane /\ Peer(lane, half) = lane + half
        BY <1>1, <1>4, Lanes
      <3>2. 4 * (lane + half) + i = (4 * lane + i) + 8 * HalfLanes /\ 4 * lane + i < 8 * HalfLanes
        BY <1>1, <1>4
      <3> QED
        BY <3>1, <3>2
    <2>2. Sign(0) = -1
      BY DEF Sign
    <2>3. StoredFused(lane, i) =
             [x |-> 4 * lane + i, y |-> (4 * lane + i) + 8 * HalfLanes,
              freq |-> 4 * lane + i, sign |-> -1]
      BY <1>3, <2>1, <2>2
    <2> QED
      BY <2>1, <2>3 DEF Rotated
  <1>5. CASE lane >= half
    <2>1. /\ lane \div half = 1
          /\ 4 * (lane % half) + i = (4 * lane + i) - 8 * HalfLanes
          /\ 4 * Peer(lane, half) + i = (4 * lane + i) - 8 * HalfLanes
          /\ ~(4 * lane + i < 8 * HalfLanes)
      <3>1. lane \div half = 1 /\ lane % half = lane - half /\ Peer(lane, half) = lane - half
        BY <1>1, <1>5, Lanes
      <3>2. /\ 4 * (lane - half) + i = (4 * lane + i) - 8 * HalfLanes
            /\ ~(4 * lane + i < 8 * HalfLanes)
        BY <1>1, <1>5
      <3> QED
        BY <3>1, <3>2
    <2>2. Sign(1) = 1
      BY DEF Sign
    <2>3. StoredFused(lane, i) =
             [x |-> 4 * lane + i, y |-> (4 * lane + i) - 8 * HalfLanes,
              freq |-> (4 * lane + i) - 8 * HalfLanes, sign |-> 1]
      BY <1>3, <2>1, <2>2
    <2> QED
      BY <2>1, <2>3 DEF Rotated
  <1> QED
    BY <1>1, <1>4, <1>5

\* Whichever of the two kernels Attention::prepare launches, every element of a
\* head of any size becomes what the rotary embedding makes of it, and stays
\* where it was.
THEOREM HeadsAreRotated == HeadIsRotated
  BY VectorKernelRotates, FusedKernelRotates DEF HeadIsRotated


-----------------------------------------------------------------------------
(***************************************************************************)
(* The tiles of the attention kernel.                                      *)
(***************************************************************************)

\* query_start_loc of n requests, each of which has a token.
Ascending(starts, n) ==
    /\ \A r \in 0 .. n : starts[r] \in Nat
    /\ \A r \in 0 .. n - 1 : starts[r] < starts[r + 1]

LEMMA AscendingOrder ==
  ASSUME NEW n \in Nat, NEW starts, Ascending(starts, n),
         NEW r \in 0 .. n, NEW s \in 0 .. n, r < s
  PROVE  starts[r] < starts[s]
  <1> DEFINE T == {k \in 0 .. n - r : k = 0 \/ starts[r] < starts[r + k]}
  <1>1. n - r \in Nat /\ s - r \in 0 .. n - r /\ s - r # 0 /\ r + (s - r) = s
    OBVIOUS
  <1>2. 0 \in T
    BY <1>1
  <1>3. ASSUME NEW k \in 0 .. n - r - 1, k \in T PROVE k + 1 \in T
    <2>1. r + k \in 0 .. n - 1 /\ r + (k + 1) = r + k + 1 /\ r + k + 1 \in 0 .. n /\ r + k \in 0 .. n
      OBVIOUS
    <2>2. starts[r + k] < starts[r + k + 1]
      BY <2>1 DEF Ascending
    <2>3. starts[r] \in Nat /\ starts[r + k] \in Nat /\ starts[r + k + 1] \in Nat
      BY <2>1 DEF Ascending
    <2>4. starts[r] < starts[r + (k + 1)]
      <3>1. CASE k = 0
        BY <2>1, <2>2, <3>1
      <3>2. CASE starts[r] < starts[r + k]
        BY <2>1, <2>2, <2>3, <3>2
      <3> QED
        BY <1>3, <3>1, <3>2
    <2> QED
      BY <1>1, <2>4
  <1>4. \A k \in 0 .. n - r : k \in T
    <2> HIDE DEF T
    <2> QED
      BY <1>1, <1>2, <1>3, UpTo
  <1> QED
    BY <1>1, <1>4

LEMMA TileRowsIsNat == TileRows \in Nat \ {0}
  BY PagedAttentionAssumption DEF TileRows

\* A later request's tiles are all behind an earlier one's.
LEMMA FirstTileGrows ==
  ASSUME NEW n \in Nat, NEW starts, Ascending(starts, n)
  PROVE  /\ \A r \in 0 .. n : FirstTile(starts, r) \in Nat
         /\ \A r, s \in 0 .. n : r < s => FirstTile(starts, r) < FirstTile(starts, s)
  <1>1. GroupSize \in Nat \ {0}
    BY PagedAttentionAssumption
  <1>2. ASSUME NEW r \in 0 .. n
        PROVE  starts[r] * GroupSize \in Nat /\ (starts[r] * GroupSize) \div TileRows \in Nat
    <2>1. starts[r] \in Nat
      BY DEF Ascending
    <2>2. starts[r] * GroupSize \in Nat
      BY <1>1, <2>1, ProductIsNat
    <2> QED
      BY <2>2, TileRowsIsNat, Quotient
  <1>3. ASSUME NEW r \in 0 .. n, NEW s \in 0 .. n, r < s
        PROVE  FirstTile(starts, r) < FirstTile(starts, s)
    <2>1. starts[r] \in Nat /\ starts[s] \in Nat /\ starts[r] < starts[s]
      BY <1>3, AscendingOrder DEF Ascending
    <2>2. starts[r] * GroupSize <= starts[s] * GroupSize
      BY <1>1, <2>1
    <2>3. (starts[r] * GroupSize) \div TileRows <= (starts[s] * GroupSize) \div TileRows
      BY <1>2, <2>2, TileRowsIsNat, QuotientGrows
    <2> QED
      BY <1>2, <1>3, <2>3 DEF FirstTile
  <1> QED
    BY <1>2, <1>3 DEF FirstTile

\* The binary search of the kernel finds the request whose tiles hold this one.
LEMMA SearchFinds ==
  ASSUME NEW n \in Nat, NEW starts, Ascending(starts, n), NEW r \in 0 .. n - 1,
         NEW tile \in Nat, FirstTile(starts, r) <= tile, tile < FirstTile(starts, r + 1)
  PROVE  RequestOf(starts, n, tile) = r
  <1> DEFINE ends == 0 .. n
             Mid(range) == (range[1] + range[2]) \div 2
             Searches(f) == f =
                [range \in ends \X ends |->
                    LET lo == range[1]
                        hi == range[2]
                        mid == (lo + hi) \div 2
                    IN  IF lo + 1 >= hi THEN lo
                        ELSE IF FirstTile(starts, mid) <= tile THEN f[<<mid, hi>>]
                        ELSE f[<<lo, mid>>]]
             found == [range \in ends \X ends |->
                          IF range[1] + 1 >= range[2] \/ r <= range[1] THEN range[1]
                          ELSE IF r >= range[2] THEN range[2] - 1 ELSE r]
             search == CHOOSE f : Searches(f)
  <1>1. \A m \in ends : FirstTile(starts, m) <= tile <=> m <= r
    <2> TAKE m \in ends
    <2>1. /\ r \in 0 .. n /\ r + 1 \in 0 .. n /\ FirstTile(starts, m) \in Nat
          /\ FirstTile(starts, r) \in Nat /\ FirstTile(starts, r + 1) \in Nat
      BY FirstTileGrows
    <2>2. m < r => FirstTile(starts, m) < FirstTile(starts, r)
      BY <2>1, FirstTileGrows
    <2>3. r + 1 < m => FirstTile(starts, r + 1) < FirstTile(starts, m)
      BY <2>1, FirstTileGrows
    <2>4. m < r \/ m = r \/ m = r + 1 \/ r + 1 < m
      OBVIOUS
    <2>5. CASE m <= r
      <3>1. FirstTile(starts, m) <= tile
        BY <2>1, <2>2, <2>4, <2>5
      <3> QED
        BY <2>5, <3>1
    <2>6. CASE ~(m <= r)
      <3>1. ~(FirstTile(starts, m) <= tile)
        BY <2>1, <2>3, <2>4, <2>6
      <3> QED
        BY <2>6, <3>1
    <2> QED
      BY <2>5, <2>6
  <1>2. ASSUME NEW lo \in ends, NEW hi \in ends, lo + 1 < hi
        PROVE  /\ (lo + hi) \div 2 \in ends
               /\ lo < (lo + hi) \div 2 /\ (lo + hi) \div 2 < hi
    BY <1>2
  <1>3. Searches(found)
    <2>1. ASSUME NEW range \in ends \X ends
          PROVE  found[range] =
                    LET lo == range[1]
                        hi == range[2]
                        mid == (lo + hi) \div 2
                    IN  IF lo + 1 >= hi THEN lo
                        ELSE IF FirstTile(starts, mid) <= tile THEN found[<<mid, hi>>]
                        ELSE found[<<lo, mid>>]
      <3> DEFINE lo == range[1]
                 hi == range[2]
                 mid == (lo + hi) \div 2
      <3>1. lo \in ends /\ hi \in ends /\ range = <<lo, hi>> /\ lo \in Nat /\ hi \in Nat
        OBVIOUS
      <3>2. CASE lo + 1 >= hi
        BY <3>2
      <3>3. CASE lo + 1 < hi
        <4>1. mid \in ends /\ lo < mid /\ mid < hi /\ mid \in Nat
          BY <1>2, <3>1, <3>3
        <4> HIDE DEF mid
        <4>2. <<mid, hi>> \in ends \X ends /\ <<lo, mid>> \in ends \X ends
          BY <3>1, <4>1
        <4>3. found[range] = IF r <= lo THEN lo ELSE IF r >= hi THEN hi - 1 ELSE r
          BY <3>1, <3>3
        <4>4. found[<<mid, hi>>] = IF mid + 1 >= hi \/ r <= mid THEN mid
                                   ELSE IF r >= hi THEN hi - 1 ELSE r
          BY <4>2
        <4>5. found[<<lo, mid>>] = IF lo + 1 >= mid \/ r <= lo THEN lo
                                   ELSE IF r >= mid THEN mid - 1 ELSE r
          BY <4>2
        <4> HIDE DEF found
        <4>6. CASE mid <= r
          <5>1. found[<<mid, hi>>] = IF r >= hi THEN hi - 1 ELSE r
            BY <3>1, <4>1, <4>4, <4>6
          <5>2. found[range] = IF r >= hi THEN hi - 1 ELSE r
            BY <3>1, <4>1, <4>3, <4>6
          <5>3. FirstTile(starts, mid) <= tile /\ ~(lo + 1 >= hi)
            BY <1>1, <3>1, <3>3, <4>1, <4>6
          <5> QED
            BY <5>1, <5>2, <5>3 DEF mid
        <4>7. CASE ~(mid <= r)
          <5>1. found[<<lo, mid>>] = IF r <= lo THEN lo ELSE r
            BY <3>1, <4>1, <4>5, <4>7
          <5>2. found[range] = IF r <= lo THEN lo ELSE r
            BY <3>1, <4>1, <4>3, <4>7
          <5>3. ~(FirstTile(starts, mid) <= tile) /\ ~(lo + 1 >= hi)
            BY <1>1, <3>1, <3>3, <4>1, <4>7
          <5> QED
            BY <5>1, <5>2, <5>3 DEF mid
        <4> QED
          BY <4>6, <4>7
      <3> QED
        BY <3>1, <3>2, <3>3
    <2> QED
      BY <2>1
  <1>4. Searches(search)
    <2> HIDE DEF Searches, found
    <2> QED
      BY <1>3
  <1>5. RequestOf(starts, n, tile) = search[<<0, n>>]
    BY DEF RequestOf
  <1>6. \A lo, hi \in ends :
           search[<<lo, hi>>] =
              IF lo + 1 >= hi THEN lo
              ELSE IF (lo + hi) \div 2 <= r THEN search[<<(lo + hi) \div 2, hi>>]
              ELSE search[<<lo, (lo + hi) \div 2>>]
    <2> HIDE DEF search
    <2> TAKE lo, hi \in ends
    <2>1. <<lo, hi>> \in ends \X ends
      OBVIOUS
    <2>2. search[<<lo, hi>>] =
              IF lo + 1 >= hi THEN lo
              ELSE IF FirstTile(starts, (lo + hi) \div 2) <= tile
                   THEN search[<<(lo + hi) \div 2, hi>>]
              ELSE search[<<lo, (lo + hi) \div 2>>]
      BY <1>4, <2>1
    <2>3. CASE lo + 1 >= hi
      BY <2>2, <2>3
    <2>4. CASE ~(lo + 1 >= hi)
      <3>1. (lo + hi) \div 2 \in ends
        BY <1>2, <2>4
      <3> QED
        BY <1>1, <2>2, <2>4, <3>1
    <2> QED
      BY <2>3, <2>4
  <1> DEFINE T == {d \in 0 .. n : \A lo, hi \in ends :
                     hi - lo <= d /\ lo <= r /\ r < hi => search[<<lo, hi>>] = r}
  <1> HIDE DEF search, Searches, found
  <1>7. 0 \in T
    OBVIOUS
  <1>8. ASSUME NEW d \in 0 .. n - 1, d \in T PROVE d + 1 \in T
    <2>1. ASSUME NEW lo \in ends, NEW hi \in ends, hi - lo <= d + 1, lo <= r, r < hi
          PROVE  search[<<lo, hi>>] = r
      <3> DEFINE mid == (lo + hi) \div 2
      <3>1. CASE lo + 1 >= hi
        <4>1. lo = r
          BY <2>1, <3>1
        <4> QED
          BY <1>6, <3>1, <4>1
      <3>2. CASE lo + 1 < hi
        <4>1. mid \in ends /\ lo < mid /\ mid < hi
          BY <1>2, <3>2
        <4>2. search[<<lo, hi>>] = IF mid <= r THEN search[<<mid, hi>>] ELSE search[<<lo, mid>>]
          BY <1>6, <3>2
        <4> HIDE DEF mid
        <4>3. hi - mid <= d /\ mid - lo <= d
          BY <2>1, <4>1
        <4>4. mid <= r => search[<<mid, hi>>] = r
          BY <1>8, <2>1, <4>1, <4>3
        <4>5. r < mid => search[<<lo, mid>>] = r
          BY <1>8, <2>1, <4>1, <4>3
        <4>6. mid <= r \/ (~(mid <= r) /\ r < mid)
          BY <4>1
        <4> QED
          BY <4>2, <4>4, <4>5, <4>6
      <3> QED
        BY <3>1, <3>2
    <2> QED
      BY <2>1
  <1>9. \A d \in 0 .. n : d \in T
    <2> HIDE DEF T
    <2> QED
      BY <1>7, <1>8, UpTo
  <1>10. n \in T /\ 0 \in ends /\ n \in ends /\ n - 0 <= n /\ 0 <= r /\ r < n
    <2>1. n \in 0 .. n
      OBVIOUS
    <2> QED
      BY <1>9, <2>1
  <1> QED
    BY <1>5, <1>10

\* A difference of quotients.
LEMMA QuotientOfSum ==
  ASSUME NEW a \in Nat, NEW c \in Nat, NEW b \in Nat \ {0}
  PROVE  a \div b + c \div b <= (a + c) \div b
  <1> DEFINE p == a \div b
             q == c \div b
  <1>1. p \in Nat /\ q \in Nat /\ b * p <= a /\ b * q <= c
    <2>1. a = b * p + (a % b) /\ c = b * q + (c % b) /\ a % b \in Nat /\ c % b \in Nat
      BY Quotient
    <2>2. p \in Nat /\ q \in Nat
      BY Quotient
    <2>3. b * p \in Nat /\ b * q \in Nat
      BY <2>2, ProductIsNat
    <2> HIDE DEF p, q
    <2> QED
      BY <2>1, <2>2, <2>3
  <1> HIDE DEF p, q
  <1>2. b * (p + q) <= a + c
    <2>1. b * (p + q) = b * p + b * q
      BY <1>1
    <2>2. b * p \in Nat /\ b * q \in Nat
      BY <1>1, ProductIsNat
    <2> QED
      BY <1>1, <2>1, <2>2
  <1>3. ASSUME (a + c) \div b < p + q PROVE FALSE
    <2> DEFINE s == (a + c) \div b
    <2>1. s \in Nat /\ a + c = b * s + ((a + c) % b) /\ (a + c) % b \in 0 .. b - 1
      <3>1. a + c \in Nat
        OBVIOUS
      <3> QED
        BY <3>1, Quotient
    <2> HIDE DEF s
    <2>2. s + 1 <= p + q
      BY <1>1, <1>3, <2>1 DEF s
    <2>3. PICK m \in Nat : p + q = s + 1 + m
      <3>1. p + q - (s + 1) \in Nat
        BY <1>1, <2>1, <2>2
      <3> QED
        BY <1>1, <2>1, <3>1
    <2>4. b * (p + q) = b * s + b + b * m
      BY <2>1, <2>3
    <2>5. b * m \in Nat /\ b * s \in Nat
      BY <2>1, <2>3, ProductIsNat
    <2> QED
      BY <1>2, <2>1, <2>4, <2>5
  <1>4. (a + c) \div b \in Nat
    BY Quotient
  <1> QED
    BY <1>1, <1>3, <1>4 DEF p, q

\* Row row of request r is in exactly the tile the grid has for it.
LEMMA TileOfRow ==
  ASSUME NEW n \in Nat, NEW starts, Ascending(starts, n), starts[0] = 0, NEW r \in 0 .. n - 1,
         NEW row \in Nat, row < QueryLen(starts, r) * GroupSize
  PROVE  \E t \in 0 .. GridSize(starts[n], n) - 1 :
            RequestOf(starts, n, t) = r /\ row \in RowsOf(starts, n, t)
  <1> DEFINE t == FirstTile(starts, r) + row \div TileRows
  <1>1. /\ TileRows \in Nat \ {0} /\ GroupSize \in Nat \ {0}
        /\ starts[r] \in Nat /\ starts[r + 1] \in Nat /\ starts[r] < starts[r + 1]
        /\ r \in 0 .. n /\ r + 1 \in 0 .. n
    BY PagedAttentionAssumption, TileRowsIsNat DEF Ascending
  <1>2. FirstTile(starts, r) \in Nat /\ FirstTile(starts, r + 1) \in Nat /\ FirstTile(starts, n) \in Nat
    BY <1>1, FirstTileGrows
  <1>3. row \div TileRows \in Nat
    BY <1>1, Quotient
  <1>4. t < FirstTile(starts, r + 1)
    <2> DEFINE a == starts[r] * GroupSize
               c == QueryLen(starts, r) * GroupSize
    <2>1. QueryLen(starts, r) \in Nat /\ starts[r] + QueryLen(starts, r) = starts[r + 1]
      BY <1>1 DEF QueryLen
    <2>2. a \in Nat /\ c \in Nat /\ a + c = starts[r + 1] * GroupSize
      <3>1. a \in Nat /\ c \in Nat
        BY <1>1, <2>1, ProductIsNat
      <3>2. starts[r] * GroupSize + QueryLen(starts, r) * GroupSize = (starts[r] + QueryLen(starts, r)) * GroupSize
        BY <1>1, <2>1
      <3> QED
        BY <2>1, <3>1, <3>2
    <2> HIDE DEF a, c
    <2>3. a \div TileRows + c \div TileRows <= (a + c) \div TileRows
      BY <1>1, <2>2, QuotientOfSum
    <2>4. row \div TileRows <= c \div TileRows
      <3>1. row <= c
        BY <2>2 DEF c
      <3> QED
        BY <1>1, <2>2, <3>1, QuotientGrows
    <2>5. a \div TileRows \in Nat /\ c \div TileRows \in Nat /\ (a + c) \div TileRows \in Nat
      <3>1. a + c \in Nat
        BY <2>2
      <3> QED
        BY <1>1, <2>2, <3>1, Quotient
    <2>6. FirstTile(starts, r) = a \div TileRows + r
      BY DEF FirstTile, a
    <2>7. FirstTile(starts, r + 1) = (a + c) \div TileRows + (r + 1)
      BY <2>2 DEF FirstTile
    <2> QED
      BY <1>3, <2>3, <2>4, <2>5, <2>6, <2>7
  <1>5. t \in Nat /\ FirstTile(starts, r) <= t
    BY <1>2, <1>3
  <1>6. RequestOf(starts, n, t) = r
    <2> HIDE DEF t
    <2> QED
      BY <1>4, <1>5, SearchFinds
  <1>7. row \in RowsOf(starts, n, t)
    <2>1. FirstRow(starts, n, t) = (row \div TileRows) * TileRows
      <3>1. t - FirstTile(starts, r) = row \div TileRows
        BY <1>2, <1>3
      <3> HIDE DEF t
      <3> QED
        BY <1>6, <3>1 DEF FirstRow
    <2>2. row = TileRows * (row \div TileRows) + (row % TileRows) /\ row % TileRows \in 0 .. TileRows - 1
      BY <1>1, Quotient
    <2>3. (row \div TileRows) * TileRows = TileRows * (row \div TileRows)
      BY <1>1, <1>3
    <2>4. (row \div TileRows) * TileRows \in Nat
      BY <1>1, <1>3, ProductIsNat
    <2>5. row \in FirstRow(starts, n, t) .. FirstRow(starts, n, t) + TileRows - 1
      <3> HIDE DEF t
      <3> DEFINE f == (row \div TileRows) * TileRows
      <3>1. f \in Nat /\ row = f + (row % TileRows)
        BY <2>2, <2>3, <2>4
      <3>2. FirstRow(starts, n, t) = f
        BY <2>1
      <3> HIDE DEF f
      <3> QED
        BY <1>1, <2>2, <3>1, <3>2
    <2> HIDE DEF t
    <2> QED
      BY <1>6, <2>5 DEF RowsOf
  <1>8. t < GridSize(starts[n], n)
    <2>1. GridSize(starts[n], n) = FirstTile(starts, n)
      BY DEF GridSize, FirstTile
    <2>2. FirstTile(starts, r + 1) <= FirstTile(starts, n)
      <3>1. r + 1 = n \/ r + 1 < n
        BY <1>1
      <3>2. n \in 0 .. n
        OBVIOUS
      <3>3. r + 1 < n => FirstTile(starts, r + 1) < FirstTile(starts, n)
        BY <1>1, <3>2, FirstTileGrows
      <3> QED
        BY <1>2, <3>1, <3>3
    <2> HIDE DEF t
    <2> QED
      BY <1>2, <1>4, <1>5, <2>1, <2>2
  <1>9. t \in 0 .. GridSize(starts[n], n) - 1
    <2>1. GridSize(starts[n], n) \in Nat
      BY <1>2 DEF GridSize, FirstTile
    <2> HIDE DEF t
    <2> QED
      BY <1>5, <1>8, <2>1
  <1> HIDE DEF t
  <1> QED
    BY <1>6, <1>7, <1>9

\* A row sees the keys up to its own position, whichever tile and warp it is
\* in and whether that warp masks or not.
LEMMA SeenIsPrefix ==
  ASSUME NEW first \in Nat, NEW row \in first .. first + TileRows - 1,
         NEW prefix \in Nat, NEW seq \in Nat, prefix + row \div GroupSize < seq
  PROVE  Seen(row, first, prefix, seq) = 0 .. prefix + row \div GroupSize
  <1> DEFINE pos == prefix + row \div GroupSize
             kvLen == KvLen(first, prefix, seq)
             warpFirst == first + ((row - first) \div WarpRows) * WarpRows
             kvFirst(col) == (col \div KvTile) * KvTile
  <1>1. /\ TileRows \in Nat \ {0} /\ GroupSize \in Nat \ {0} /\ WarpRows \in Nat \ {0}
        /\ KvTile \in Nat \ {0} /\ row \in Nat /\ row - first \in Nat
    BY PagedAttentionAssumption, TileRowsIsNat
  <1>2. pos \in Nat /\ row \div GroupSize \in Nat
    <2>1. row \div GroupSize \in Nat
      BY <1>1, Quotient
    <2> QED
      BY <2>1
  <1>3. kvLen \in Nat /\ pos < kvLen
    <2> DEFINE last == (first + TileRows - 1) \div GroupSize
    <2>1. row <= first + TileRows - 1 /\ first + TileRows - 1 \in Nat
      BY <1>1
    <2>2. row \div GroupSize <= last /\ last \in Nat
      BY <1>1, <2>1, QuotientGrows, Quotient
    <2> HIDE DEF last
    <2>3. kvLen = IF seq < prefix + last + 1 THEN seq ELSE prefix + last + 1
      BY DEF KvLen, last
    <2> HIDE DEF kvLen
    <2> QED
      BY <1>2, <2>2, <2>3
  <1>4. warpFirst \in Nat /\ warpFirst <= row
    <2>1. row - first = WarpRows * ((row - first) \div WarpRows) + ((row - first) % WarpRows)
      BY <1>1, Quotient
    <2>2. (row - first) \div WarpRows \in Nat /\ (row - first) % WarpRows \in 0 .. WarpRows - 1
      BY <1>1, Quotient
    <2> DEFINE q == (row - first) \div WarpRows
    <2>3. q * WarpRows = WarpRows * q /\ q * WarpRows \in Nat
      <3> HIDE DEF q
      <3>1. q \in Nat
        BY <2>2 DEF q
      <3> QED
        BY <1>1, <3>1, ProductIsNat
    <2> HIDE DEF q
    <2>4. q * WarpRows <= row - first
      BY <1>1, <2>1, <2>2, <2>3 DEF q
    <2> QED
      BY <1>1, <2>3, <2>4 DEF q
  <1>5. warpFirst \div GroupSize <= row \div GroupSize /\ warpFirst \div GroupSize \in Nat
    <2> HIDE DEF warpFirst
    <2> QED
      BY <1>1, <1>4, QuotientGrows, Quotient
  <1>6. ASSUME NEW col \in Nat
        PROVE  kvFirst(col) \in Nat /\ kvFirst(col) <= col /\ col < kvFirst(col) + KvTile
    <2> DEFINE q == col \div KvTile
    <2>1. col = KvTile * q + (col % KvTile) /\ col % KvTile \in 0 .. KvTile - 1 /\ q \in Nat
      BY <1>1, Quotient
    <2> HIDE DEF q
    <2>2. KvTile * q = q * KvTile /\ q * KvTile \in Nat
      BY <1>1, <2>1, ProductIsNat
    <2>3. kvFirst(col) = q * KvTile
      BY DEF q
    <2> HIDE DEF kvFirst
    <2> QED
      BY <1>1, <2>1, <2>2, <2>3
  <1>7. Seen(row, first, prefix, seq) =
           {col \in 0 .. kvLen + KvTile - 1 :
               /\ kvFirst(col) < kvLen
               /\ NeedsMask(warpFirst, kvFirst(col), prefix, kvLen) => col <= pos /\ col < kvLen}
    BY DEF Seen
  <1> HIDE DEF kvLen, warpFirst, kvFirst
  <1>8. ASSUME NEW col \in 0 .. pos PROVE col \in Seen(row, first, prefix, seq)
    <2>1. col \in Nat /\ col <= pos /\ col < kvLen /\ col \in 0 .. kvLen + KvTile - 1
      BY <1>1, <1>2, <1>3
    <2>2. kvFirst(col) < kvLen
      BY <1>3, <1>6, <2>1
    <2> QED
      BY <1>7, <2>1, <2>2
  <1>9. ASSUME NEW col \in Seen(row, first, prefix, seq) PROVE col \in 0 .. pos
    <2>1. col \in 0 .. kvLen + KvTile - 1
      BY <1>7
    <2>2. col \in Nat
      BY <1>1, <1>3, <2>1
    <2>3. CASE NeedsMask(warpFirst, kvFirst(col), prefix, kvLen)
      <3>1. col <= pos
        BY <1>7, <2>3
      <3> QED
        BY <1>2, <2>2, <3>1
    <2>4. CASE ~NeedsMask(warpFirst, kvFirst(col), prefix, kvLen)
      <3>1. ~(prefix + warpFirst \div GroupSize < kvFirst(col) + KvTile)
        BY <2>4 DEF NeedsMask
      <3>2. col < kvFirst(col) + KvTile /\ kvFirst(col) \in Nat
        BY <1>6, <2>2
      <3> QED
        BY <1>1, <1>2, <1>5, <2>2, <3>1, <3>2
    <2> QED
      BY <2>3, <2>4
  <1> QED
    BY <1>8, <1>9

-----------------------------------------------------------------------------
(***************************************************************************)
(* A batch.                                                                *)
(***************************************************************************)

\* What run_model may be given for each request.
Entry ==
    [req : Requests, offset : Nat, len : Nat \ {0}, blocks : Seq(Blocks),
     needsSampling : BOOLEAN]

\* The rows of a batch.
Size(b) == Starts(b)[Len(b)]

\* starts is a function by recursion: it has its equations because there is one.
LEMMA StartsOf ==
  ASSUME NEW b, Len(b) \in Nat, \A k \in 1 .. Len(b) : b[k].len \in Nat
  PROVE  /\ Starts(b) \in [0 .. Len(b) -> Nat]
         /\ Starts(b)[0] = 0
         /\ \A k \in 1 .. Len(b) : Starts(b)[k] = Starts(b)[k - 1] + b[k].len
  <1> DEFINE n == Len(b)
             step == [k \in 1 .. n |-> [x \in Nat |-> x + b[k].len]]
             Sums(f) == f = [k \in 0 .. Len(b) |-> IF k = 0 THEN 0 ELSE f[k - 1] + b[k].len]
             sum == CHOOSE f : Sums(f)
  <1>1. step \in [1 .. n -> [Nat -> Nat]]
    OBVIOUS
  <1>2. PICK f : Follows(f, n, Nat, 0, step)
    <2>1. n \in Nat /\ 0 \in Nat
      OBVIOUS
    <2> HIDE DEF step, n
    <2> QED
      BY <1>1, <2>1, StepByStep
  <1>20. /\ f \in [0 .. n -> Nat] /\ f[0] = 0
         /\ \A k \in 1 .. n : f[k] = step[k][f[k - 1]]
    BY <1>2 DEF Follows
  <1>3. ASSUME NEW k \in 1 .. n PROVE f[k] = f[k - 1] + b[k].len
    <2>1. k - 1 \in 0 .. n
      OBVIOUS
    <2>2. f[k - 1] \in Nat
      BY <1>20, <2>1
    <2>3. step[k][f[k - 1]] = f[k - 1] + b[k].len
      BY <2>2
    <2> QED
      BY <1>20, <2>3
  <1>4. Sums(f)
    <2>1. ASSUME NEW k \in 0 .. n PROVE f[k] = IF k = 0 THEN 0 ELSE f[k - 1] + b[k].len
      <3>1. k = 0 \/ k \in 1 .. n
        OBVIOUS
      <3> QED
        BY <1>20, <1>3, <3>1
    <2>2. f = [k \in 0 .. n |-> f[k]]
      BY <1>20
    <2> QED
      BY <2>1, <2>2
  <1>5. Sums(sum)
    <2> HIDE DEF Sums
    <2> QED
      BY <1>4
  <1>6. Starts(b) = sum
    BY DEF Starts
  <1> HIDE DEF sum
  <1>7. /\ sum = [k \in 0 .. n |-> sum[k]]
        /\ sum[0] = 0
        /\ \A k \in 1 .. n : sum[k] = sum[k - 1] + b[k].len
    <2>1. sum = [k \in 0 .. n |-> IF k = 0 THEN 0 ELSE sum[k - 1] + b[k].len]
      BY <1>5
    <2>2. sum[0] = 0
      BY <2>1
    <2>3. \A k \in 1 .. n : sum[k] = sum[k - 1] + b[k].len
      <3> HIDE DEF Sums
      <3> QED
        BY <2>1
    <2> QED
      BY <2>1, <2>2, <2>3
  <1> DEFINE T == {k \in 0 .. n : sum[k] \in Nat}
  <1>8. \A k \in 0 .. n : k \in T
    <2>1. 0 \in T
      BY <1>7
    <2>2. ASSUME NEW k \in 0 .. n - 1, k \in T PROVE k + 1 \in T
      <3>1. k + 1 \in 1 .. n
        OBVIOUS
      <3>2. PICK j \in 1 .. n : j = k + 1
        BY <3>1
      <3>3. sum[j] = sum[j - 1] + b[j].len
        BY <1>7
      <3>4. b[j].len \in Nat /\ j - 1 = k /\ j \in 0 .. n
        BY <3>2
      <3>5. sum[j - 1] \in Nat
        BY <2>2, <3>4
      <3>6. sum[j] \in Nat
        BY <3>3, <3>4, <3>5
      <3> QED
        BY <3>2, <3>4, <3>6
    <2> HIDE DEF T
    <2> QED
      BY <2>1, <2>2, UpTo
  <1>9. sum \in [0 .. n -> Nat]
    BY <1>7, <1>8
  <1> QED
    BY <1>6, <1>7, <1>9

\* A batch without an empty entry.
IsBatch(b) ==
    /\ b \in Seq(Entry)
    /\ b # <<>>

LEMMA BatchEntries ==
  ASSUME NEW b, IsBatch(b)
  PROVE  /\ Len(b) \in Nat \ {0} /\ DOMAIN b = 1 .. Len(b)
         /\ \A k \in 1 .. Len(b) :
               /\ b[k].req \in Requests /\ b[k].offset \in Nat
               /\ b[k].len \in Nat \ {0} /\ b[k].blocks \in Seq(Blocks)
               /\ b[k].needsSampling \in BOOLEAN
  <1>1. Len(b) \in Nat \ {0} /\ DOMAIN b = 1 .. Len(b)
    BY DEF IsBatch
  <1>2. \A k \in 1 .. Len(b) : b[k] \in Entry
    BY <1>1 DEF IsBatch
  <1> QED
    BY <1>1, <1>2 DEF Entry

LEMMA BatchStarts ==
  ASSUME NEW b, IsBatch(b)
  PROVE  /\ Starts(b) \in [0 .. Len(b) -> Nat] /\ Starts(b)[0] = 0
         /\ \A k \in 1 .. Len(b) : Starts(b)[k] = Starts(b)[k - 1] + b[k].len
         /\ Ascending(Starts(b), Len(b))
         /\ Size(b) \in Nat \ {0}
         /\ \A k \in 0 .. Len(b) : Starts(b)[k] <= Size(b)
         /\ Len(b) <= Size(b)
  <1>1. /\ Len(b) \in Nat \ {0}
        /\ \A k \in 1 .. Len(b) : b[k].len \in Nat /\ b[k].len # 0
    BY BatchEntries
  <1>2. /\ Starts(b) \in [0 .. Len(b) -> Nat] /\ Starts(b)[0] = 0
        /\ \A k \in 1 .. Len(b) : Starts(b)[k] = Starts(b)[k - 1] + b[k].len
    BY <1>1, StartsOf
  <1>3. Ascending(Starts(b), Len(b))
    <2>1. ASSUME NEW r \in 0 .. Len(b) - 1 PROVE Starts(b)[r] < Starts(b)[r + 1]
      <3>1. r + 1 \in 1 .. Len(b) /\ r + 1 - 1 = r /\ r \in 0 .. Len(b)
        BY <1>1
      <3>2. Starts(b)[r + 1] = Starts(b)[r] + b[r + 1].len
        BY <1>2, <3>1
      <3>3. Starts(b)[r] \in Nat /\ b[r + 1].len \in Nat /\ b[r + 1].len # 0
        BY <1>1, <1>2, <3>1
      <3> QED
        BY <3>2, <3>3
    <2>2. \A r \in 0 .. Len(b) : Starts(b)[r] \in Nat
      BY <1>2
    <2> QED
      BY <2>1, <2>2 DEF Ascending
  <1>4. \A k \in 0 .. Len(b) : Starts(b)[k] <= Size(b)
    <2> TAKE k \in 0 .. Len(b)
    <2>1. k = Len(b) \/ k < Len(b)
      BY <1>1
    <2>2. Len(b) \in 0 .. Len(b) /\ Starts(b)[k] \in Nat /\ Starts(b)[Len(b)] \in Nat
      BY <1>1, <1>2
    <2>3. CASE k < Len(b)
      <3>1. Starts(b)[k] < Starts(b)[Len(b)]
        BY <1>1, <1>3, <2>2, <2>3, AscendingOrder
      <3> QED
        BY <2>2, <3>1 DEF Size
    <2>4. CASE k = Len(b)
      BY <2>2, <2>4 DEF Size
    <2> QED
      BY <2>1, <2>3, <2>4
  <1> DEFINE T == {k \in 0 .. Len(b) : k <= Starts(b)[k]}
  <1>5. \A k \in 0 .. Len(b) : k \in T
    <2>1. 0 \in T
      BY <1>1, <1>2
    <2>2. ASSUME NEW k \in 0 .. Len(b) - 1, k \in T PROVE k + 1 \in T
      <3>1. Starts(b)[k] < Starts(b)[k + 1] /\ k + 1 \in 0 .. Len(b) /\ k \in 0 .. Len(b)
        BY <1>1, <1>3 DEF Ascending
      <3>2. Starts(b)[k] \in Nat /\ Starts(b)[k + 1] \in Nat
        BY <1>2, <3>1
      <3> QED
        BY <2>2, <3>1, <3>2
    <2> HIDE DEF T
    <2> QED
      BY <1>1, <2>1, <2>2, UpTo
  <1>6. Len(b) <= Size(b) /\ Size(b) \in Nat
    <2>1. Len(b) \in 0 .. Len(b)
      BY <1>1
    <2> QED
      BY <1>2, <1>5, <2>1 DEF Size
  <1>7. Size(b) \in Nat \ {0}
    BY <1>1, <1>6
  <1> QED
    BY <1>2, <1>3, <1>4, <1>6, <1>7

\* Each row belongs to one entry.
LEMMA RowsOfEntries ==
  ASSUME NEW b, IsBatch(b)
  PROVE  /\ \A k \in 1 .. Len(b) : \A i \in Starts(b)[k - 1] .. Starts(b)[k] - 1 :
               /\ i \in 0 .. Size(b) - 1 /\ EntryOf(b, i) = k
               /\ PositionOf(b, i) = b[k].offset + i - Starts(b)[k - 1]
         /\ \A i \in 0 .. Size(b) - 1 :
               /\ EntryOf(b, i) \in 1 .. Len(b)
               /\ i \in Starts(b)[EntryOf(b, i) - 1] .. Starts(b)[EntryOf(b, i)] - 1
               /\ PositionOf(b, i) \in
                     b[EntryOf(b, i)].offset
                     .. b[EntryOf(b, i)].offset + b[EntryOf(b, i)].len - 1
  <1>1. /\ Len(b) \in Nat \ {0} /\ DOMAIN b = 1 .. Len(b)
        /\ \A k \in 1 .. Len(b) : b[k].len \in Nat /\ b[k].offset \in Nat
    BY BatchEntries
  <1>2. /\ \A k \in 0 .. Len(b) : Starts(b)[k] \in Nat /\ Starts(b)[k] <= Size(b)
        /\ Starts(b)[0] = 0 /\ Ascending(Starts(b), Len(b)) /\ Size(b) \in Nat
        /\ \A k \in 1 .. Len(b) : Starts(b)[k] = Starts(b)[k - 1] + b[k].len
    BY BatchStarts
  <1>3. ASSUME NEW k \in 1 .. Len(b), NEW i \in Starts(b)[k - 1] .. Starts(b)[k] - 1
        PROVE  /\ i \in 0 .. Size(b) - 1 /\ EntryOf(b, i) = k
    <2>1. k - 1 \in 0 .. Len(b) /\ k \in 0 .. Len(b)
      BY <1>1
    <2>2. i \in Nat /\ i \in 0 .. Size(b) - 1 /\ i >= Starts(b)[k - 1] /\ i < Starts(b)[k]
      BY <1>2, <2>1
    <2>3. ASSUME NEW m \in 1 .. Len(b), i >= Starts(b)[m - 1], i < Starts(b)[m]
          PROVE  m = k
      <3>1. m - 1 \in 0 .. Len(b) /\ m \in 0 .. Len(b)
        BY <1>1
      <3>2. CASE m < k
        <4>1. m = k - 1 \/ m < k - 1
          BY <3>2
        <4>2. Starts(b)[m] <= Starts(b)[k - 1]
          BY <1>1, <1>2, <2>1, <3>1, <4>1, AscendingOrder
        <4> QED
          BY <1>2, <2>1, <2>2, <2>3, <3>1, <4>2
      <3>3. CASE k < m
        <4>1. k = m - 1 \/ k < m - 1
          BY <3>3
        <4>2. Starts(b)[k] <= Starts(b)[m - 1]
          BY <1>1, <1>2, <2>1, <3>1, <4>1, AscendingOrder
        <4> QED
          BY <1>2, <2>1, <2>2, <2>3, <3>1, <4>2
      <3> QED
        BY <3>2, <3>3
    <2>4. EntryOf(b, i) = k
      <3>1. EntryOf(b, i) = CHOOSE m \in 1 .. Len(b) : i >= Starts(b)[m - 1] /\ i < Starts(b)[m]
        BY <1>1 DEF EntryOf
      <3> QED
        BY <2>2, <2>3, <3>1
    <2> QED
      BY <2>2, <2>4
  <1>4. ASSUME NEW i \in 0 .. Size(b) - 1
        PROVE  \E k \in 1 .. Len(b) : i \in Starts(b)[k - 1] .. Starts(b)[k] - 1
    <2> DEFINE T == {k \in 0 .. Len(b) : i < Starts(b)[k]}
    <2>1. Len(b) \in T /\ T \in SUBSET Nat /\ 0 \notin T
      BY <1>1, <1>2 DEF Size
    <2>2. PICK k \in T : \A y \in T : k <= y
      <3> HIDE DEF T
      <3> QED
        BY <2>1, LeastIndex
    <2>3. k \in 0 .. Len(b) /\ i < Starts(b)[k]
      OBVIOUS
    <2>4. k # 0
      <3> HIDE DEF T
      <3> QED
        BY <2>1
    <2>5. k \in 1 .. Len(b) /\ k - 1 \in 0 .. Len(b) /\ ~(k <= k - 1)
      BY <1>1, <2>3, <2>4
    <2>6. k - 1 \notin T
      <3> HIDE DEF T
      <3> QED
        BY <2>2, <2>5
    <2>7. Starts(b)[k - 1] <= i
      BY <1>2, <2>5, <2>6
    <2>8. Starts(b)[k - 1] \in Nat /\ Starts(b)[k] \in Nat
      BY <1>2, <2>3, <2>5
    <2> HIDE DEF T
    <2> QED
      BY <2>3, <2>5, <2>7, <2>8
  <1>5. ASSUME NEW k \in 1 .. Len(b), NEW i \in Starts(b)[k - 1] .. Starts(b)[k] - 1
        PROVE  /\ PositionOf(b, i) = b[k].offset + i - Starts(b)[k - 1]
               /\ PositionOf(b, i) \in b[k].offset .. b[k].offset + b[k].len - 1
    <2>1. EntryOf(b, i) = k
      BY <1>3
    <2>2. PositionOf(b, i) = b[k].offset + i - Starts(b)[k - 1]
      BY <2>1 DEF PositionOf
    <2>3. k - 1 \in 0 .. Len(b) /\ k \in 0 .. Len(b)
      BY <1>1
    <2>4. Starts(b)[k - 1] \in Nat /\ b[k].len \in Nat /\ b[k].offset \in Nat
          /\ Starts(b)[k] = Starts(b)[k - 1] + b[k].len
      BY <1>1, <1>2, <2>3
    <2> QED
      BY <2>2, <2>4
  <1> QED
    BY <1>3, <1>4, <1>5

NumSamples(b) == Len(Sampling(b))

\* Entry j of those that are sampled, 0-based as the arrays are.
Sampled(b, j) == b[Sampling(b)[j + 1]]

LEMMA SamplingFacts ==
  ASSUME NEW b, IsBatch(b)
  PROVE  /\ NumSamples(b) \in 0 .. Len(b)
         /\ \A j \in 1 .. NumSamples(b) :
               /\ Sampling(b)[j] \in 1 .. Len(b)
               /\ b[Sampling(b)[j]].needsSampling
  <1> DEFINE q == [k \in DOMAIN b |-> k]
             at == {k \in DOMAIN b : b[k].needsSampling}
  <1>1. Len(b) \in Nat /\ DOMAIN b = 1 .. Len(b)
    BY BatchEntries
  <1>2. q \in Seq(1 .. Len(b)) /\ Len(q) = Len(b) /\ \A k \in 1 .. Len(b) : q[k] = k
    BY <1>1
  <1>3. at \in SUBSET (1 .. Len(q)) /\ at \in SUBSET (1 .. Len(b))
    BY <1>1, <1>2
  <1>4. Sampling(b) = Subsequence(q, at)
    BY DEF Sampling
  <1>5. /\ NumSamples(b) \in 0 .. Len(q)
        /\ \A k \in 1 .. NumSamples(b) : \E i \in at : Sampling(b)[k] = q[i]
    <2> DEFINE S == 1 .. Len(b)
    <2>1. q \in Seq(S)
      BY <1>2
    <2> HIDE DEF q, at, S
    <2>2. /\ Len(Subsequence(q, at)) \in 0 .. Len(q)
          /\ \A k \in 1 .. Len(Subsequence(q, at)) : \E i \in at : Subsequence(q, at)[k] = q[i]
      BY <2>1, <1>3, SubsequenceElements, ZenonT(60)
    <2> QED
      BY <1>4, <2>2 DEF NumSamples
  <1>6. ASSUME NEW j \in 1 .. NumSamples(b)
        PROVE  Sampling(b)[j] \in 1 .. Len(b) /\ b[Sampling(b)[j]].needsSampling
    <2>1. PICK i \in at : Sampling(b)[j] = q[i]
      BY <1>5
    <2> QED
      BY <1>1, <1>2, <2>1
  <1> QED
    BY <1>2, <1>5, <1>6

\* The tables of a batch fit in the columns that are copied.
LEMMA StrideFacts ==
  ASSUME NEW b, IsBatch(b), \A k \in 1 .. Len(b) : Len(b[k].blocks) <= TableWidth
  PROVE  /\ HostStride(b) \in 0 .. TableWidth
         /\ \A k \in 1 .. Len(b) : Len(b[k].blocks) <= HostStride(b)
  <1> DEFINE f == [k \in 0 .. Len(b) - 1 |-> Len(b[k + 1].blocks)]
             Fits(n) == /\ \A k \in DOMAIN b : Len(b[k].blocks) <= n
                        /\ n = 0 \/ \E k \in DOMAIN b : Len(b[k].blocks) = n
  <1>1. /\ Len(b) \in Nat \ {0} /\ DOMAIN b = 1 .. Len(b)
        /\ \A k \in 1 .. Len(b) : Len(b[k].blocks) \in Nat
    BY BatchEntries
  <1>2. f \in [0 .. Len(b) - 1 -> Nat]
    <2>1. \A k \in 0 .. Len(b) - 1 : k + 1 \in 1 .. Len(b)
      BY <1>1
    <2> QED
      BY <1>1, <2>1
  <1>3. PICK i \in 0 .. Len(b) - 1 : \A j \in 0 .. Len(b) - 1 : f[j] <= f[i]
    <2> HIDE DEF f
    <2> QED
      BY <1>1, <1>2, LargestValue
  <1> DEFINE n == Len(b[i + 1].blocks)
  <1>4. i + 1 \in 1 .. Len(b)
    BY <1>1
  <1>5. ASSUME NEW k \in 1 .. Len(b) PROVE Len(b[k].blocks) <= n
    <2>1. k - 1 \in 0 .. Len(b) - 1 /\ k - 1 + 1 = k
      BY <1>1
    <2>2. f[k - 1] = Len(b[k].blocks) /\ f[i] = n
      BY <2>1
    <2> HIDE DEF f, n
    <2> QED
      BY <1>3, <2>1, <2>2
  <1>6. n \in 0 .. TableWidth
    <2>1. n \in Nat /\ n <= TableWidth
      BY <1>1, <1>4
    <2>2. TableWidth \in Int
      BY ExecutorAssumption DEF TableWidth
    <2> HIDE DEF n
    <2> QED
      BY <2>1, <2>2
  <1>7. Fits(n)
    BY <1>1, <1>4, <1>5
  <1>8. HostStride(b) = CHOOSE m \in 0 .. TableWidth : Fits(m)
    BY DEF HostStride
  <1> HIDE DEF n
  <1>9. HostStride(b) \in 0 .. TableWidth /\ Fits(HostStride(b))
    <2> HIDE DEF Fits
    <2> QED
      BY <1>6, <1>7, <1>8
  <1> QED
    BY <1>1, <1>9

\* There is a bucket for each batch.
LEMMA BucketFacts ==
  ASSUME NEW n \in 1 .. MaxTokens
  PROVE  BucketSize(n) \in n .. MaxTokens
  <1> DEFINE T == {c \in Buckets : c >= n}
             IsNext(c) == c >= n /\ \A d \in Buckets : d >= n => c <= d
  <1>1. Buckets \in SUBSET (1 .. MaxTokens) /\ MaxTokens \in Buckets
    BY WorkspaceAssumption DEF Buckets
  <1>2. T \in SUBSET Nat /\ MaxTokens \in T
    <2>1. \A c \in 1 .. MaxTokens : c \in Nat
      OBVIOUS
    <2>2. MaxTokens >= n
      BY WorkspaceAssumption
    <2> QED
      BY <1>1, <2>1, <2>2
  <1>3. PICK c \in T : \A d \in T : c <= d
    <2> HIDE DEF T
    <2> QED
      BY <1>2, LeastIndex
  <1>4. c \in Buckets /\ IsNext(c)
    BY <1>3
  <1>5. BucketSize(n) = CHOOSE d \in Buckets : IsNext(d)
    BY DEF BucketSize
  <1>6. BucketSize(n) \in Buckets /\ IsNext(BucketSize(n))
    <2> HIDE DEF IsNext
    <2> QED
      BY <1>4, <1>5
  <1>7. BucketSize(n) \in 1 .. MaxTokens /\ BucketSize(n) >= n
    BY <1>1, <1>6
  <1> QED
    BY <1>7, WorkspaceAssumption

-----------------------------------------------------------------------------
(***************************************************************************)
(* The program: what run_model puts on the stream for a batch.             *)
(***************************************************************************)

\* The rows the kernels are launched for.
RowCount(b) == IF graphs THEN BucketSize(Size(b)) ELSE Size(b)

\* All operations of a step, by their place: the copy, the embedding, four for
\* each layer, and three for the samples.  With the graphs and without them
\* they are the same ones.
NumOps(b) == 4 * NumLayers + 2 + (IF NumSamples(b) = 0 THEN 0 ELSE 3)

OpAt(b, i) ==
    IF i = 1 THEN Copy(RowCount(b), Len(b), NumSamples(b), HostStride(b))
    ELSE IF i = 2 THEN Embed(RowCount(b))
    ELSE IF i = 4 * NumLayers + 3 THEN Gather(NumSamples(b))
    ELSE IF i = 4 * NumLayers + 4 THEN Sample(NumSamples(b))
    ELSE IF i = 4 * NumLayers + 5 THEN Download(NumSamples(b))
    ELSE IF i % 4 = 3 THEN Prepare((i + 1) \div 4, RowCount(b), "final")
    ELSE IF i % 4 = 0 THEN Attend(i \div 4, Size(b), Len(b))
    ELSE IF i % 4 = 1 THEN Combine(RowCount(b))
    ELSE FeedForward(RowCount(b))

\* What is left of them after the first done ones.
Left(b, done) == [i \in 1 .. NumOps(b) - done |-> OpAt(b, done + i)]

LEMMA LayersAreNat == NumLayers \in Nat \ {0}
  BY ExecutorAssumption

LEMMA NumOpsIsNat ==
  ASSUME NEW b, IsBatch(b)
  PROVE  /\ NumOps(b) \in Nat
         /\ NumSamples(b) = 0 => NumOps(b) = 4 * NumLayers + 2
         /\ NumSamples(b) # 0 => NumOps(b) = 4 * NumLayers + 5
  BY LayersAreNat DEF NumOps

LEMMA OpsAtEnds ==
  ASSUME NEW b
  PROVE  /\ OpAt(b, 1) = Copy(RowCount(b), Len(b), NumSamples(b), HostStride(b))
         /\ OpAt(b, 2) = Embed(RowCount(b))
         /\ OpAt(b, 4 * NumLayers + 3) = Gather(NumSamples(b))
         /\ OpAt(b, 4 * NumLayers + 4) = Sample(NumSamples(b))
         /\ OpAt(b, 4 * NumLayers + 5) = Download(NumSamples(b))
  BY LayersAreNat DEF OpAt

LEMMA OpsOfLayer ==
  ASSUME NEW b, NEW l \in Layers
  PROVE  /\ OpAt(b, 4 * l - 1) = Prepare(l, RowCount(b), "final")
         /\ OpAt(b, 4 * l) = Attend(l, Size(b), Len(b))
         /\ OpAt(b, 4 * l + 1) = Combine(RowCount(b))
         /\ OpAt(b, 4 * l + 2) = FeedForward(RowCount(b))
  <1>1. l \in Nat \ {0} /\ l <= NumLayers /\ NumLayers \in Nat
    BY LayersAreNat DEF Layers
  <1>2. (4 * l - 1) % 4 = 3 /\ (4 * l - 1 + 1) \div 4 = l
    BY <1>1
  <1>3. (4 * l) % 4 = 0 /\ (4 * l) \div 4 = l /\ (4 * l + 1) % 4 = 1 /\ (4 * l + 2) % 4 = 2
    BY <1>1
  <1>4. OpAt(b, 4 * l - 1) = Prepare(l, RowCount(b), "final")
    BY <1>1, <1>2 DEF OpAt
  <1>5. OpAt(b, 4 * l) = Attend(l, Size(b), Len(b))
    BY <1>1, <1>3 DEF OpAt
  <1>6. OpAt(b, 4 * l + 1) = Combine(RowCount(b))
    BY <1>1, <1>3 DEF OpAt
  <1>7. OpAt(b, 4 * l + 2) = FeedForward(RowCount(b))
    BY <1>1, <1>3 DEF OpAt
  <1> QED
    BY <1>4, <1>5, <1>6, <1>7

\* The device takes one operation after the other.
LEMMA Leftover ==
  ASSUME NEW b, IsBatch(b), NEW done \in 0 .. NumOps(b) - 1
  PROVE  /\ Left(b, done) # <<>>
         /\ Head(Left(b, done)) = OpAt(b, done + 1)
         /\ Tail(Left(b, done)) = Left(b, done + 1)
  <1> DEFINE n == NumOps(b) - done
             rest == NumOps(b) - (done + 1)
  <1>1. n \in Nat \ {0} /\ rest \in Nat /\ n = rest + 1
    BY NumOpsIsNat
  <1> DEFINE S == {OpAt(b, done + i) : i \in 1 .. n}
  <1>2. Left(b, done) = [i \in 1 .. n |-> OpAt(b, done + i)]
    BY DEF Left
  <1>3. Left(b, done + 1) = [i \in 1 .. rest |-> OpAt(b, done + 1 + i)]
    BY DEF Left
  <1> HIDE DEF n, rest
  <1>40. \A i \in 1 .. n : OpAt(b, done + i) \in S
    OBVIOUS
  <1> HIDE DEF S
  <1>4. Left(b, done) \in Seq(S) /\ Len(Left(b, done)) = n
    BY <1>1, <1>2, <1>40
  <1>5. Head(Left(b, done)) = OpAt(b, done + 1) /\ Left(b, done) # <<>>
    BY <1>1, <1>2, <1>4
  <1>6. ASSUME NEW i \in 1 .. rest PROVE Tail(Left(b, done))[i] = OpAt(b, done + 1 + i)
    <2>1. i + 1 \in 1 .. n /\ done + (i + 1) = done + 1 + i /\ i \in 1 .. Len(Left(b, done)) - 1
      BY <1>1, <1>4
    <2>2. Tail(Left(b, done))[i] = Left(b, done)[i + 1]
      BY <1>4, <1>5, <2>1, HeadTailProperties
    <2>3. Left(b, done)[i + 1] = OpAt(b, done + (i + 1))
      BY <1>2, <2>1
    <2> QED
      BY <2>1, <2>2, <2>3
  <1>7. Tail(Left(b, done)) \in Seq(S) /\ Len(Tail(Left(b, done))) = rest
    BY <1>1, <1>4, <1>5, HeadTailProperties
  <1>8. Tail(Left(b, done)) = [i \in 1 .. rest |-> Tail(Left(b, done))[i]]
    <2> DEFINE t == Tail(Left(b, done))
    <2>1. t \in Seq(S) /\ Len(t) = rest
      BY <1>7
    <2> HIDE DEF t
    <2>2. t = [i \in 1 .. rest |-> t[i]]
      BY <1>1, <2>1
    <2> QED
      BY <2>2 DEF t
  <1>9. Tail(Left(b, done)) = Left(b, done + 1)
    BY <1>3, <1>6, <1>8
  <1> QED
    BY <1>5, <1>9

LEMMA NothingLeft ==
  ASSUME NEW b, IsBatch(b)
  PROVE  Left(b, NumOps(b)) = <<>>
  <1>1. NumOps(b) - NumOps(b) = 0
    BY NumOpsIsNat
  <1>2. Left(b, NumOps(b)) = [i \in 1 .. 0 |-> OpAt(b, NumOps(b) + i)]
    BY <1>1 DEF Left
  <1> QED
    BY <1>2

-----------------------------------------------------------------------------
(* Sequences put together from their beginnings. *)

Begin(s, m) == [i \in 1 .. m |-> s[i]]

LEMMA ConcatByIndex ==
  ASSUME NEW S, NEW p \in Seq(S), NEW q \in Seq(S), NEW r \in Seq(S),
         Len(r) = Len(p) + Len(q),
         \A i \in 1 .. Len(p) : r[i] = p[i],
         \A i \in 1 .. Len(q) : r[Len(p) + i] = q[i]
  PROVE  p \o q = r
  <1>1. p \o q \in Seq(S) /\ Len(p \o q) = Len(p) + Len(q)
    OBVIOUS
  <1>2. ASSUME NEW i \in 1 .. Len(r) PROVE (p \o q)[i] = r[i]
    <2>1. CASE i <= Len(p)
      BY <2>1
    <2>2. CASE ~(i <= Len(p))
      <3>1. PICK j \in 1 .. Len(q) : i = Len(p) + j
        <4>1. i - Len(p) \in 1 .. Len(q) /\ i = Len(p) + (i - Len(p))
          BY <2>2
        <4> QED
          BY <4>1
      <3>2. (p \o q)[i] = q[j]
        BY <2>2, <3>1
      <3> QED
        BY <3>1, <3>2
    <2> QED
      BY <2>1, <2>2
  <1> QED
    BY <1>1, <1>2

LEMMA BeginGrows ==
  ASSUME NEW s, NEW m \in Nat
  PROVE  /\ Begin(s, m) \o <<s[m + 1]>> = Begin(s, m + 1)
         /\ Begin(s, m) \o <<s[m + 1], s[m + 2]>> = Begin(s, m + 2)
         /\ Begin(s, m) \o <<s[m + 1], s[m + 2], s[m + 3]>> = Begin(s, m + 3)
         /\ Begin(s, m) \o <<s[m + 1], s[m + 2], s[m + 3], s[m + 4]>> = Begin(s, m + 4)
         /\ <<s[1]>> \o [i \in 1 .. m |-> s[1 + i]] = Begin(s, m + 1)
  <1> DEFINE S == {s[i] : i \in 1 .. m + 4}
  <1>1. \A k \in 0 .. m + 4 : Begin(s, k) \in Seq(S) /\ Len(Begin(s, k)) = k
                            /\ \A i \in 1 .. k : Begin(s, k)[i] = s[i]
    <2> TAKE k \in 0 .. m + 4
    <2>1. \A i \in 1 .. k : s[i] \in S
      OBVIOUS
    <2> HIDE DEF S
    <2> QED
      BY <2>1 DEF Begin
  <1>2. s[m + 1] \in S /\ s[m + 2] \in S /\ s[m + 3] \in S /\ s[m + 4] \in S /\ s[1] \in S
    OBVIOUS
  <1>3. m \in 0 .. m + 4 /\ m + 1 \in 0 .. m + 4 /\ m + 2 \in 0 .. m + 4 /\ m + 3 \in 0 .. m + 4 /\ m + 4 \in 0 .. m + 4
    OBVIOUS
  <1>4. [i \in 1 .. m |-> s[1 + i]] \in Seq(S) /\ Len([i \in 1 .. m |-> s[1 + i]]) = m
    <2>1. \A i \in 1 .. m : s[1 + i] \in S
      OBVIOUS
    <2> HIDE DEF S
    <2> QED
      BY <2>1
  <1> HIDE DEF S
  <1>5. Begin(s, m) \o <<s[m + 1]>> = Begin(s, m + 1)
    <2> DEFINE q == <<s[m + 1]>>
    <2>1. q \in Seq(S) /\ Len(q) = 1 /\ \A i \in 1 .. 1 : q[i] = s[m + i]
      BY <1>2
    <2> HIDE DEF q
    <2>2. \A i \in 1 .. 1 : Begin(s, m + 1)[m + i] = q[i]
      BY <1>1, <1>3, <2>1
    <2>3. \A i \in 1 .. m : Begin(s, m + 1)[i] = Begin(s, m)[i]
      BY <1>1, <1>3
    <2>4. /\ Begin(s, m) \in Seq(S) /\ Len(Begin(s, m)) = m
          /\ Begin(s, m + 1) \in Seq(S) /\ Len(Begin(s, m + 1)) = Len(Begin(s, m)) + Len(q)
          /\ \A i \in 1 .. Len(Begin(s, m)) : Begin(s, m + 1)[i] = Begin(s, m)[i]
          /\ \A i \in 1 .. Len(q) : Begin(s, m + 1)[Len(Begin(s, m)) + i] = q[i]
      BY <1>1, <1>3, <2>1, <2>2, <2>3
    <2>5. Begin(s, m) \o q = Begin(s, m + 1)
      BY <2>1, <2>4, ConcatByIndex
    <2> QED
      BY <2>5 DEF q
  <1>50. Begin(s, m) \o <<s[m + 1], s[m + 2]>> = Begin(s, m + 2)
    <2> DEFINE q == <<s[m + 1], s[m + 2]>>
    <2>1. q \in Seq(S) /\ Len(q) = 2 /\ \A i \in 1 .. 2 : q[i] = s[m + i]
      BY <1>2
    <2> HIDE DEF q
    <2>2. \A i \in 1 .. 2 : Begin(s, m + 2)[m + i] = q[i]
      BY <1>1, <1>3, <2>1
    <2>3. \A i \in 1 .. m : Begin(s, m + 2)[i] = Begin(s, m)[i]
      BY <1>1, <1>3
    <2>4. /\ Begin(s, m) \in Seq(S) /\ Len(Begin(s, m)) = m
          /\ Begin(s, m + 2) \in Seq(S) /\ Len(Begin(s, m + 2)) = Len(Begin(s, m)) + Len(q)
          /\ \A i \in 1 .. Len(Begin(s, m)) : Begin(s, m + 2)[i] = Begin(s, m)[i]
          /\ \A i \in 1 .. Len(q) : Begin(s, m + 2)[Len(Begin(s, m)) + i] = q[i]
      BY <1>1, <1>3, <2>1, <2>2, <2>3
    <2>5. Begin(s, m) \o q = Begin(s, m + 2)
      BY <2>1, <2>4, ConcatByIndex
    <2> QED
      BY <2>5 DEF q
  <1>6. Begin(s, m) \o <<s[m + 1], s[m + 2], s[m + 3]>> = Begin(s, m + 3)
    <2> DEFINE q == <<s[m + 1], s[m + 2], s[m + 3]>>
    <2>1. q \in Seq(S) /\ Len(q) = 3 /\ \A i \in 1 .. 3 : q[i] = s[m + i]
      BY <1>2
    <2> HIDE DEF q
    <2>2. \A i \in 1 .. 3 : Begin(s, m + 3)[m + i] = q[i]
      BY <1>1, <1>3, <2>1
    <2>3. \A i \in 1 .. m : Begin(s, m + 3)[i] = Begin(s, m)[i]
      BY <1>1, <1>3
    <2>4. /\ Begin(s, m) \in Seq(S) /\ Len(Begin(s, m)) = m
          /\ Begin(s, m + 3) \in Seq(S) /\ Len(Begin(s, m + 3)) = Len(Begin(s, m)) + Len(q)
          /\ \A i \in 1 .. Len(Begin(s, m)) : Begin(s, m + 3)[i] = Begin(s, m)[i]
          /\ \A i \in 1 .. Len(q) : Begin(s, m + 3)[Len(Begin(s, m)) + i] = q[i]
      BY <1>1, <1>3, <2>1, <2>2, <2>3
    <2>5. Begin(s, m) \o q = Begin(s, m + 3)
      BY <2>1, <2>4, ConcatByIndex
    <2> QED
      BY <2>5 DEF q
  <1>7. Begin(s, m) \o <<s[m + 1], s[m + 2], s[m + 3], s[m + 4]>> = Begin(s, m + 4)
    <2> DEFINE q == <<s[m + 1], s[m + 2], s[m + 3], s[m + 4]>>
    <2>1. q \in Seq(S) /\ Len(q) = 4 /\ \A i \in 1 .. 4 : q[i] = s[m + i]
      BY <1>2
    <2> HIDE DEF q
    <2>2. \A i \in 1 .. 4 : Begin(s, m + 4)[m + i] = q[i]
      BY <1>1, <1>3, <2>1
    <2>3. \A i \in 1 .. m : Begin(s, m + 4)[i] = Begin(s, m)[i]
      BY <1>1, <1>3
    <2>4. /\ Begin(s, m) \in Seq(S) /\ Len(Begin(s, m)) = m
          /\ Begin(s, m + 4) \in Seq(S) /\ Len(Begin(s, m + 4)) = Len(Begin(s, m)) + Len(q)
          /\ \A i \in 1 .. Len(Begin(s, m)) : Begin(s, m + 4)[i] = Begin(s, m)[i]
          /\ \A i \in 1 .. Len(q) : Begin(s, m + 4)[Len(Begin(s, m)) + i] = q[i]
      BY <1>1, <1>3, <2>1, <2>2, <2>3
    <2>5. Begin(s, m) \o q = Begin(s, m + 4)
      BY <2>1, <2>4, ConcatByIndex
    <2> QED
      BY <2>5 DEF q
  <1>8. <<s[1]>> \o [i \in 1 .. m |-> s[1 + i]] = Begin(s, m + 1)
    <2> DEFINE p == <<s[1]>>
               q == [i \in 1 .. m |-> s[1 + i]]
    <2>1. p \in Seq(S) /\ Len(p) = 1 /\ p[1] = s[1]
      BY <1>2
    <2>2. q \in Seq(S) /\ Len(q) = m /\ \A i \in 1 .. m : q[i] = s[1 + i]
      BY <1>4
    <2> HIDE DEF p, q
    <2>3. \A i \in 1 .. Len(p) : Begin(s, m + 1)[i] = p[i]
      BY <1>1, <1>3, <2>1
    <2>4. \A i \in 1 .. m : Begin(s, m + 1)[1 + i] = q[i]
      <3>1. \A k \in 1 .. m + 1 : Begin(s, m + 1)[k] = s[k]
        BY <1>1, <1>3
      <3>2. \A i \in 1 .. m : 1 + i \in 1 .. m + 1
        OBVIOUS
      <3> QED
        BY <2>2, <3>1, <3>2
    <2>5. /\ Begin(s, m + 1) \in Seq(S) /\ Len(Begin(s, m + 1)) = Len(p) + Len(q)
          /\ \A i \in 1 .. Len(q) : Begin(s, m + 1)[Len(p) + i] = q[i]
      BY <1>1, <1>3, <2>1, <2>2, <2>4
    <2>6. p \o q = Begin(s, m + 1)
      BY <2>1, <2>2, <2>3, <2>5, ConcatByIndex
    <2> QED
      BY <2>6 DEF p, q
  <1> QED
    BY <1>5, <1>50, <1>6, <1>7, <1>8

\* The operations behind the copy.
Work(b) == [i \in 1 .. 4 * NumLayers + 4 |-> OpAt(b, 1 + i)]

LEMMA TuplesJoin ==
  ASSUME NEW x, NEW y, NEW z
  PROVE  /\ <<x>> \o <<y>> = <<x, y>>
         /\ <<x, y>> \o <<z>> = <<x, y, z>>
         /\ <<x>> \o <<>> = <<x>>
         /\ <<x, y>> \o <<>> = <<x, y>>
         /\ <<>> \o <<x>> = <<x>>
  <1> DEFINE S == {x, y, z}
             one == <<x>>
             two == <<x, y>>
             second == <<y>>
             third == <<z>>
             three == <<x, y, z>>
  <1>1. x \in S /\ y \in S /\ z \in S
    OBVIOUS
  <1> HIDE DEF S
  <1>2. /\ one \in Seq(S) /\ Len(one) = 1 /\ one[1] = x
        /\ two \in Seq(S) /\ Len(two) = 2 /\ two[1] = x /\ two[2] = y
        /\ second \in Seq(S) /\ Len(second) = 1 /\ second[1] = y
        /\ third \in Seq(S) /\ Len(third) = 1 /\ third[1] = z
        /\ three \in Seq(S) /\ Len(three) = 3 /\ three[1] = x /\ three[2] = y /\ three[3] = z
    BY <1>1
  <1> HIDE DEF one, two, second, third, three
  <1>3. one \o second = two
    <2>1. \A i \in 1 .. Len(one) : two[i] = one[i]
      BY <1>2
    <2>2. \A i \in 1 .. Len(second) : two[Len(one) + i] = second[i]
      BY <1>2
    <2>3. Len(two) = Len(one) + Len(second)
      BY <1>2
    <2> QED
      BY <1>2, <2>1, <2>2, <2>3, ConcatByIndex
  <1>4. two \o third = three
    <2>1. \A i \in 1 .. Len(two) : three[i] = two[i]
      BY <1>2
    <2>2. \A i \in 1 .. Len(third) : three[Len(two) + i] = third[i]
      BY <1>2
    <2>3. Len(three) = Len(two) + Len(third)
      BY <1>2
    <2> QED
      BY <1>2, <2>1, <2>2, <2>3, ConcatByIndex
  <1>5. one \o <<>> = one /\ two \o <<>> = two /\ <<>> \o one = one
    BY <1>2
  <1> QED
    BY <1>3, <1>4, <1>5 DEF one, two, second, third, three

LEMMA WorkOps ==
  ASSUME NEW b
  PROVE  /\ Begin(Work(b), 1) = <<Embed(RowCount(b))>>
         /\ \A k \in 0 .. NumLayers - 1 :
               /\ Work(b)[4 * k + 2] = Prepare(k + 1, RowCount(b), "final")
               /\ Work(b)[4 * k + 3] = Attend(k + 1, Size(b), Len(b))
               /\ Work(b)[4 * k + 4] = Combine(RowCount(b))
               /\ Work(b)[4 * k + 5] = FeedForward(RowCount(b))
         /\ Work(b)[4 * NumLayers + 2] = Gather(NumSamples(b))
         /\ Work(b)[4 * NumLayers + 3] = Sample(NumSamples(b))
         /\ Work(b)[4 * NumLayers + 4] = Download(NumSamples(b))
  <1>1. \A i \in 1 .. 4 * NumLayers + 4 : Work(b)[i] = OpAt(b, 1 + i)
    BY DEF Work
  <1>2. ASSUME NEW k \in 0 .. NumLayers - 1
        PROVE  /\ Work(b)[4 * k + 2] = Prepare(k + 1, RowCount(b), "final")
               /\ Work(b)[4 * k + 3] = Attend(k + 1, Size(b), Len(b))
               /\ Work(b)[4 * k + 4] = Combine(RowCount(b))
               /\ Work(b)[4 * k + 5] = FeedForward(RowCount(b))
    <2>1. k + 1 \in Layers
      BY LayersAreNat DEF Layers
    <2>2. /\ 4 * k + 2 \in 1 .. 4 * NumLayers + 4 /\ 4 * k + 3 \in 1 .. 4 * NumLayers + 4
          /\ 4 * k + 4 \in 1 .. 4 * NumLayers + 4 /\ 4 * k + 5 \in 1 .. 4 * NumLayers + 4
      BY LayersAreNat
    <2>3. /\ 1 + (4 * k + 2) = 4 * (k + 1) - 1 /\ 1 + (4 * k + 3) = 4 * (k + 1)
          /\ 1 + (4 * k + 4) = 4 * (k + 1) + 1 /\ 1 + (4 * k + 5) = 4 * (k + 1) + 2
      BY LayersAreNat
    <2>4. /\ OpAt(b, 4 * (k + 1) - 1) = Prepare(k + 1, RowCount(b), "final")
          /\ OpAt(b, 4 * (k + 1)) = Attend(k + 1, Size(b), Len(b))
          /\ OpAt(b, 4 * (k + 1) + 1) = Combine(RowCount(b))
          /\ OpAt(b, 4 * (k + 1) + 2) = FeedForward(RowCount(b))
      BY <2>1, OpsOfLayer
    <2> QED
      BY <1>1, <2>2, <2>3, <2>4
  <1>3. /\ Work(b)[4 * NumLayers + 2] = Gather(NumSamples(b))
        /\ Work(b)[4 * NumLayers + 3] = Sample(NumSamples(b))
        /\ Work(b)[4 * NumLayers + 4] = Download(NumSamples(b))
    <2>1. /\ 4 * NumLayers + 2 \in 1 .. 4 * NumLayers + 4
          /\ 4 * NumLayers + 3 \in 1 .. 4 * NumLayers + 4
          /\ 4 * NumLayers + 4 \in 1 .. 4 * NumLayers + 4
          /\ 1 + (4 * NumLayers + 2) = 4 * NumLayers + 3
          /\ 1 + (4 * NumLayers + 3) = 4 * NumLayers + 4
          /\ 1 + (4 * NumLayers + 4) = 4 * NumLayers + 5
      BY LayersAreNat
    <2> QED
      BY <1>1, <2>1, OpsAtEnds
  <1>4. Begin(Work(b), 1) = <<Embed(RowCount(b))>>
    <2>1. 1 \in 1 .. 4 * NumLayers + 4 /\ 1 + 1 = 2
      BY LayersAreNat
    <2>2. Work(b)[1] = Embed(RowCount(b))
      BY <1>1, <2>1, OpsAtEnds
    <2> QED
      BY <2>2 DEF Begin
  <1> QED
    BY <1>2, <1>3, <1>4

LEMMA EagerIsWork ==
  ASSUME NEW b, RowCount(b) = Size(b)
  PROVE  Eager(Size(b), Len(b)) = Begin(Work(b), 4 * NumLayers + 1)
  <1> DEFINE n == Size(b)
             Adds(f) == f =
                [k \in 0 .. NumLayers |->
                    IF k = 0 THEN <<Embed(n)>>
                    ELSE f[k - 1] \o
                         <<Prepare(k, n, "final"), Attend(k, n, Len(b)), Combine(n), FeedForward(n)>>]
             layers == CHOOSE f : Adds(f)
             w == [k \in 0 .. NumLayers |-> Begin(Work(b), 4 * k + 1)]
  <1>1. ASSUME NEW k \in 1 .. NumLayers
        PROVE  Begin(Work(b), 4 * k + 1) = Begin(Work(b), 4 * (k - 1) + 1) \o
                  <<Prepare(k, n, "final"), Attend(k, n, Len(b)), Combine(n), FeedForward(n)>>
    <2>1. PICK j \in 0 .. NumLayers - 1 : k = j + 1
      <3>1. k - 1 \in 0 .. NumLayers - 1 /\ k = (k - 1) + 1
        BY LayersAreNat
      <3> QED
        BY <3>1
    <2>2. /\ 4 * (k - 1) + 1 = 4 * j + 1 /\ 4 * k + 1 = 4 * j + 1 + 4 /\ 4 * j + 1 \in Nat
          /\ 4 * j + 1 + 1 = 4 * j + 2 /\ 4 * j + 1 + 2 = 4 * j + 3
          /\ 4 * j + 1 + 3 = 4 * j + 4 /\ 4 * j + 1 + 4 = 4 * j + 5
      BY <2>1
    <2>3. Begin(Work(b), 4 * j + 1) \o
             <<Work(b)[4 * j + 1 + 1], Work(b)[4 * j + 1 + 2],
               Work(b)[4 * j + 1 + 3], Work(b)[4 * j + 1 + 4]>>
             = Begin(Work(b), 4 * j + 1 + 4)
      BY <2>2, BeginGrows
    <2>4. /\ Work(b)[4 * j + 2] = Prepare(k, n, "final")
          /\ Work(b)[4 * j + 3] = Attend(k, n, Len(b))
          /\ Work(b)[4 * j + 4] = Combine(n)
          /\ Work(b)[4 * j + 5] = FeedForward(n)
      BY <2>1, WorkOps
    <2> QED
      BY <2>2, <2>3, <2>4
  <1>2. Adds(w)
    <2>1. ASSUME NEW k \in 0 .. NumLayers
          PROVE  w[k] = IF k = 0 THEN <<Embed(n)>>
                        ELSE w[k - 1] \o
                             <<Prepare(k, n, "final"), Attend(k, n, Len(b)), Combine(n), FeedForward(n)>>
      <3>1. CASE k = 0
        <4>1. w[k] = Begin(Work(b), 1)
          BY <3>1
        <4> QED
          BY <3>1, <4>1, WorkOps
      <3>2. CASE k # 0
        <4>1. k \in 1 .. NumLayers /\ k - 1 \in 0 .. NumLayers
          BY <3>2, LayersAreNat
        <4>2. w[k] = Begin(Work(b), 4 * k + 1) /\ w[k - 1] = Begin(Work(b), 4 * (k - 1) + 1)
          BY <4>1
        <4> HIDE DEF w
        <4> QED
          BY <1>1, <3>2, <4>1, <4>2
      <3> QED
        BY <3>1, <3>2
    <2> QED
      BY <2>1
  <1>3. Adds(layers)
    <2> HIDE DEF Adds, w
    <2> QED
      BY <1>2
  <1>4. Eager(n, Len(b)) = layers[NumLayers]
    BY DEF Eager
  <1> HIDE DEF layers
  <1>5. /\ layers[0] = <<Embed(n)>>
        /\ \A k \in 1 .. NumLayers : layers[k] = layers[k - 1] \o
              <<Prepare(k, n, "final"), Attend(k, n, Len(b)), Combine(n), FeedForward(n)>>
    <2>1. ASSUME NEW k \in 0 .. NumLayers
          PROVE  layers[k] = IF k = 0 THEN <<Embed(n)>> ELSE layers[k - 1] \o
              <<Prepare(k, n, "final"), Attend(k, n, Len(b)), Combine(n), FeedForward(n)>>
      BY <1>3
    <2>2. 0 \in 0 .. NumLayers /\ \A k \in 1 .. NumLayers : k \in 0 .. NumLayers /\ k # 0
      BY LayersAreNat
    <2> HIDE DEF Adds, n
    <2> QED
      BY <2>1, <2>2
  <1> DEFINE T == {k \in 0 .. NumLayers : layers[k] = Begin(Work(b), 4 * k + 1)}
  <1> HIDE DEF Adds, n
  <1>6. 0 \in T
    <2>1. 4 * 0 + 1 = 1 /\ 0 \in 0 .. NumLayers
      BY LayersAreNat
    <2>2. layers[0] = Begin(Work(b), 1)
      BY <1>5, WorkOps DEF n
    <2> QED
      BY <2>1, <2>2
  <1>7. ASSUME NEW k \in 0 .. NumLayers - 1, k \in T PROVE k + 1 \in T
    <2>1. k + 1 \in 1 .. NumLayers
      BY LayersAreNat
    <2>2. PICK j \in 1 .. NumLayers : j = k + 1
      BY <2>1
    <2>3. j - 1 = k /\ layers[k] = Begin(Work(b), 4 * k + 1) /\ j \in 0 .. NumLayers
      BY <1>7, <2>2
    <2>4. layers[j] = Begin(Work(b), 4 * j + 1)
      BY <1>1, <1>5, <2>3
    <2> QED
      BY <2>2, <2>3, <2>4
  <1>8. NumLayers \in T
    <2>1. NumLayers \in Nat /\ NumLayers \in 0 .. NumLayers
      BY LayersAreNat
    <2> HIDE DEF T
    <2>2. \A k \in 0 .. NumLayers : k \in T
      BY <1>6, <1>7, <2>1, UpTo
    <2> QED
      BY <2>1, <2>2
  <1> QED
    BY <1>4, <1>8 DEF n

LEMMA ReplayIsWork ==
  ASSUME NEW b, RowCount(b) = BucketSize(Size(b)), captured = "final"
  PROVE  Replay(Size(b), Len(b)) = Begin(Work(b), 4 * NumLayers + 1)
  <1> DEFINE n == Size(b)
             rows == RowCount(b)
             End(k) == IF k < NumLayers THEN 4 * k + 2 ELSE 4 * k + 1
             Adds(f) == f =
                [k \in 0 .. NumLayers |->
                    IF k = 0 THEN Segment(0, BucketSize(n), captured)
                    ELSE f[k - 1] \o <<Attend(k, n, Len(b))>> \o Segment(k, BucketSize(n), captured)]
             replay == CHOOSE f : Adds(f)
             w == [k \in 0 .. NumLayers |-> Begin(Work(b), End(k))]
  <1>0. Segment(0, rows, "final") = Begin(Work(b), End(0))
    <2>1. Segment(0, rows, "final") = <<Embed(rows)>> \o <<Prepare(1, rows, "final")>>
      <3>1. Segment(0, rows, "final") = <<Embed(rows)>> \o <<Prepare(0 + 1, rows, "final")>>
        <4>1. 0 < NumLayers
          BY LayersAreNat
        <4> QED
          BY <4>1, Zenon DEF Segment
      <3>2. 0 + 1 = 1
        OBVIOUS
      <3> QED
        BY <3>1, <3>2
    <2>2. 0 \in 0 .. NumLayers - 1 /\ 4 * 0 + 2 = 2 /\ 0 + 1 = 1
      BY LayersAreNat
    <2>3. Work(b)[2] = Prepare(1, rows, "final")
      <3>1. Work(b)[4 * 0 + 2] = Prepare(0 + 1, rows, "final")
        BY <2>2, WorkOps
      <3> QED
        BY <2>2, <3>1
    <2>4. Begin(Work(b), 1) \o <<Work(b)[1 + 1]>> = Begin(Work(b), 1 + 1)
      BY BeginGrows
    <2>5. End(0) = 2
      BY <2>2, LayersAreNat
    <2>6. 1 + 1 = 2 /\ Begin(Work(b), 1) = <<Embed(rows)>>
      BY WorkOps
    <2> HIDE DEF rows, End
    <2> QED
      BY <2>1, <2>3, <2>4, <2>5, <2>6
  <1>1. ASSUME NEW k \in 1 .. NumLayers
        PROVE  Begin(Work(b), End(k)) =
                  Begin(Work(b), End(k - 1)) \o <<Attend(k, n, Len(b))>> \o Segment(k, rows, "final")
    <2>1. PICK j \in 0 .. NumLayers - 1 : k = j + 1
      <3>1. k - 1 \in 0 .. NumLayers - 1 /\ k = (k - 1) + 1
        BY LayersAreNat
      <3> QED
        BY <3>1
    <2>2. /\ End(k - 1) = 4 * j + 2 /\ 4 * j + 2 \in Nat /\ 4 * j + 3 \in Nat
          /\ 4 * j + 2 + 1 = 4 * j + 3 /\ 4 * j + 3 + 1 = 4 * j + 4
          /\ 4 * j + 3 + 2 = 4 * j + 5 /\ 4 * j + 3 + 3 = 4 * j + 6
      BY <2>1, LayersAreNat
    <2>3. Begin(Work(b), End(k - 1)) \o <<Attend(k, n, Len(b))>> = Begin(Work(b), 4 * j + 3)
      <3>1. Begin(Work(b), 4 * j + 2) \o <<Work(b)[4 * j + 2 + 1]>> = Begin(Work(b), 4 * j + 2 + 1)
        BY <2>2, BeginGrows
      <3>2. Work(b)[4 * j + 3] = Attend(k, n, Len(b))
        BY <2>1, WorkOps
      <3> QED
        BY <2>2, <3>1, <3>2
    <2>4. Work(b)[4 * j + 4] = Combine(rows) /\ Work(b)[4 * j + 5] = FeedForward(rows)
      BY <2>1, WorkOps
    <2>5. CASE k < NumLayers
      <3>1. Segment(k, rows, "final") =
               <<Combine(rows), FeedForward(rows)>> \o <<Prepare(k + 1, rows, "final")>>
        BY <2>5 DEF Segment
      <3>2. <<Combine(rows), FeedForward(rows)>> \o <<Prepare(k + 1, rows, "final")>>
               = <<Combine(rows), FeedForward(rows), Prepare(k + 1, rows, "final")>>
        BY TuplesJoin, Zenon
      <3>3. k \in 0 .. NumLayers - 1 /\ 4 * k + 2 = 4 * j + 6 /\ End(k) = 4 * k + 2
        BY <2>1, <2>5, LayersAreNat
      <3>4. Work(b)[4 * j + 6] = Prepare(k + 1, rows, "final")
        <4>1. Work(b)[4 * k + 2] = Prepare(k + 1, rows, "final")
          BY <3>3, WorkOps
        <4> QED
          BY <3>3, <4>1
      <3>5. Begin(Work(b), 4 * j + 3) \o
               <<Work(b)[4 * j + 3 + 1], Work(b)[4 * j + 3 + 2], Work(b)[4 * j + 3 + 3]>>
               = Begin(Work(b), 4 * j + 3 + 3)
        BY <2>2, BeginGrows
      <3> HIDE DEF rows, End, n
      <3> QED
        BY <2>2, <2>3, <2>4, <3>1, <3>2, <3>3, <3>4, <3>5
    <2>6. CASE k = NumLayers
      <3>1. Segment(k, rows, "final") = <<Combine(rows), FeedForward(rows)>> \o <<>>
        <4>1. k # 0 /\ ~(k < NumLayers)
          BY <2>6, LayersAreNat
        <4> QED
          BY <4>1, Zenon DEF Segment
      <3>2. <<Combine(rows), FeedForward(rows)>> \o <<>> = <<Combine(rows), FeedForward(rows)>>
        BY TuplesJoin, Zenon
      <3>3. End(k) = 4 * j + 5
        BY <2>1, <2>6, LayersAreNat
      <3>5. Begin(Work(b), 4 * j + 3) \o <<Work(b)[4 * j + 3 + 1], Work(b)[4 * j + 3 + 2]>>
               = Begin(Work(b), 4 * j + 3 + 2)
        BY <2>2, BeginGrows
      <3> HIDE DEF rows, End, n
      <3> QED
        BY <2>2, <2>3, <2>4, <3>1, <3>2, <3>3, <3>5
    <2>7. k < NumLayers \/ k = NumLayers
      BY LayersAreNat
    <2> QED
      BY <2>5, <2>6, <2>7
  <1>2. Adds(w)
    <2>1. ASSUME NEW k \in 0 .. NumLayers
          PROVE  w[k] = IF k = 0 THEN Segment(0, BucketSize(n), captured)
                        ELSE w[k - 1] \o <<Attend(k, n, Len(b))>> \o Segment(k, BucketSize(n), captured)
      <3>1. CASE k = 0
        <4>1. w[k] = Begin(Work(b), End(0))
          BY <3>1
        <4> HIDE DEF w, End
        <4> QED
          BY <1>0, <3>1, <4>1
      <3>2. CASE k # 0
        <4>1. k \in 1 .. NumLayers /\ k - 1 \in 0 .. NumLayers
          BY <3>2, LayersAreNat
        <4>2. w[k] = Begin(Work(b), End(k)) /\ w[k - 1] = Begin(Work(b), End(k - 1))
          BY <4>1
        <4> HIDE DEF w, End
        <4> QED
          BY <1>1, <3>2, <4>1, <4>2
      <3> QED
        BY <3>1, <3>2
    <2> QED
      BY <2>1
  <1>3. Adds(replay)
    <2> HIDE DEF Adds, w
    <2> QED
      BY <1>2
  <1>4. Replay(n, Len(b)) = replay[NumLayers]
    BY DEF Replay
  <1> HIDE DEF replay
  <1>5. /\ replay[0] = Segment(0, rows, "final")
        /\ \A k \in 1 .. NumLayers :
              replay[k] = replay[k - 1] \o <<Attend(k, n, Len(b))>> \o Segment(k, rows, "final")
    <2>1. ASSUME NEW k \in 0 .. NumLayers
          PROVE  replay[k] = IF k = 0 THEN Segment(0, rows, "final")
                    ELSE replay[k - 1] \o <<Attend(k, n, Len(b))>> \o Segment(k, rows, "final")
      BY <1>3
    <2>2. 0 \in 0 .. NumLayers /\ \A k \in 1 .. NumLayers : k \in 0 .. NumLayers /\ k # 0
      BY LayersAreNat
    <2> HIDE DEF Adds, n, rows
    <2> QED
      BY <2>1, <2>2
  <1> DEFINE T == {k \in 0 .. NumLayers : replay[k] = Begin(Work(b), End(k))}
  <1> HIDE DEF Adds, n, rows, w
  <1>6. 0 \in T
    <2>1. 0 \in 0 .. NumLayers
      BY LayersAreNat
    <2> HIDE DEF End
    <2> QED
      BY <1>0, <1>5, <2>1
  <1>7. ASSUME NEW k \in 0 .. NumLayers - 1, k \in T PROVE k + 1 \in T
    <2>1. k + 1 \in 1 .. NumLayers
      BY LayersAreNat
    <2>2. PICK j \in 1 .. NumLayers : j = k + 1
      BY <2>1
    <2>3. j - 1 = k /\ j \in 0 .. NumLayers
      BY <2>2
    <2> HIDE DEF End
    <2>4. replay[k] = Begin(Work(b), End(k))
      BY <1>7
    <2>5. replay[j] = Begin(Work(b), End(j))
      BY <1>1, <1>5, <2>3, <2>4
    <2> QED
      BY <2>2, <2>3, <2>5
  <1>8. NumLayers \in T
    <2>1. NumLayers \in Nat /\ NumLayers \in 0 .. NumLayers
      BY LayersAreNat
    <2> HIDE DEF T
    <2>2. \A k \in 0 .. NumLayers : k \in T
      BY <1>6, <1>7, <2>1, UpTo
    <2> QED
      BY <2>1, <2>2
  <1>9. End(NumLayers) = 4 * NumLayers + 1
    BY LayersAreNat
  <1> HIDE DEF End
  <1> QED
    BY <1>4, <1>8, <1>9 DEF n

\* The stream holds the whole program when run_model returns.
LEMMA ProgramIsPut ==
  ASSUME NEW b, IsBatch(b), graphs \in BOOLEAN, graphs => captured = "final"
  PROVE  <<>> \o <<Copy(RowCount(b), Len(b), NumSamples(b), HostStride(b))>>
            \o (IF graphs THEN Replay(Size(b), Len(b)) ELSE Eager(Size(b), Len(b)))
            \o Tokens(NumSamples(b))
         = Left(b, 0)
  <1> DEFINE s == [i \in 1 .. 4 * NumLayers + 5 |-> OpAt(b, i)]
             m == 4 * NumLayers + 1
             copy == Copy(RowCount(b), Len(b), NumSamples(b), HostStride(b))
             body == IF graphs THEN Replay(Size(b), Len(b)) ELSE Eager(Size(b), Len(b))
             ops == [i \in 1 .. m |-> s[1 + i]]
  <1>1. body = Begin(Work(b), m)
    <2>1. CASE graphs
      BY <2>1, ReplayIsWork DEF RowCount
    <2>2. CASE ~graphs
      BY <2>2, EagerIsWork DEF RowCount
    <2> QED
      BY <2>1, <2>2
  <1>2. m \in Nat /\ \A i \in 1 .. m : i \in 1 .. 4 * NumLayers + 4 /\ 1 + i \in 1 .. 4 * NumLayers + 5
    BY LayersAreNat
  <1>3. body = ops
    <2>1. \A i \in 1 .. m : Work(b)[i] = s[1 + i]
      BY <1>2 DEF Work
    <2> HIDE DEF body, s, m
    <2> QED
      BY <1>1, <2>1 DEF Begin
  <1>4. s[1] = copy
    BY LayersAreNat, OpsAtEnds
  <1> HIDE DEF body, copy
  <1>5. <<copy>> \o body = Begin(s, m + 1)
    <2> HIDE DEF s, m
    <2>1. <<s[1]>> \o ops = Begin(s, m + 1)
      BY <1>2, BeginGrows
    <2> HIDE DEF ops
    <2> QED
      BY <1>3, <1>4, <2>1
  <1>6. Left(b, 0) = [i \in 1 .. NumOps(b) |-> OpAt(b, i)]
    <2>1. NumOps(b) - 0 = NumOps(b) /\ \A i \in 1 .. NumOps(b) : 0 + i = i
      BY NumOpsIsNat
    <2>2. Left(b, 0) = [i \in 1 .. NumOps(b) - 0 |-> OpAt(b, 0 + i)]
      BY DEF Left
    <2> QED
      BY <2>1, <2>2
  <1>7. NumOps(b) \in 1 .. 4 * NumLayers + 5
    BY NumOpsIsNat, LayersAreNat
  <1>8. Left(b, 0) = Begin(s, NumOps(b))
    <2>1. \A i \in 1 .. NumOps(b) : i \in 1 .. 4 * NumLayers + 5
      <3>1. NumOps(b) \in Nat /\ NumOps(b) <= 4 * NumLayers + 5
        BY <1>7
      <3> QED
        BY <3>1, LayersAreNat
    <2>2. \A i \in 1 .. NumOps(b) : s[i] = OpAt(b, i)
      BY <2>1
    <2> HIDE DEF s
    <2> QED
      BY <1>6, <2>2 DEF Begin
  <1>9. CASE NumSamples(b) = 0
    <2>1. NumOps(b) = m + 1
      BY <1>9, NumOpsIsNat, LayersAreNat
    <2>2. Tokens(NumSamples(b)) = <<>>
      BY <1>9 DEF Tokens
    <2>3. <<copy>> \o body \o <<>> = <<copy>> \o body
      <3> DEFINE S == {s[i] : i \in 1 .. m + 1}
      <3>1. \A i \in 1 .. m + 1 : s[i] \in S
        OBVIOUS
      <3> HIDE DEF S, s
      <3>2. m + 1 \in Nat
        BY <1>2
      <3> HIDE DEF m
      <3>3. Begin(s, m + 1) \in Seq(S)
        BY <3>1, <3>2 DEF Begin
      <3> QED
        BY <1>5, <3>3
    <2>4. <<>> \o <<copy>> = <<copy>>
      OBVIOUS
    <2> HIDE DEF s, m
    <2> QED
      BY <1>5, <1>8, <2>1, <2>2, <2>3, <2>4 DEF body, copy
  <1>10. CASE NumSamples(b) # 0
    <2>1. /\ NumOps(b) = m + 1 + 3 /\ m + 1 \in Nat
          /\ m + 1 + 1 = 4 * NumLayers + 3 /\ m + 1 + 2 = 4 * NumLayers + 4
          /\ m + 1 + 3 = 4 * NumLayers + 5
      BY <1>10, NumOpsIsNat, LayersAreNat
    <2>2. Tokens(NumSamples(b)) =
             <<Gather(NumSamples(b)), Sample(NumSamples(b)), Download(NumSamples(b))>>
      BY <1>10 DEF Tokens
    <2>3. /\ s[m + 1 + 1] = Gather(NumSamples(b)) /\ s[m + 1 + 2] = Sample(NumSamples(b))
          /\ s[m + 1 + 3] = Download(NumSamples(b))
      <3>1. /\ 4 * NumLayers + 3 \in 1 .. 4 * NumLayers + 5
            /\ 4 * NumLayers + 4 \in 1 .. 4 * NumLayers + 5
            /\ 4 * NumLayers + 5 \in 1 .. 4 * NumLayers + 5
        BY LayersAreNat
      <3> QED
        BY <2>1, <3>1, OpsAtEnds
    <2> HIDE DEF s, m
    <2>4. Begin(s, m + 1) \o <<s[m + 1 + 1], s[m + 1 + 2], s[m + 1 + 3]>> = Begin(s, m + 1 + 3)
      BY <2>1, BeginGrows
    <2>5. <<>> \o <<copy>> = <<copy>>
      OBVIOUS
    <2> QED
      BY <1>5, <1>8, <2>1, <2>2, <2>3, <2>4, <2>5 DEF body, copy
  <1> QED
    BY <1>9, <1>10

-----------------------------------------------------------------------------
(***************************************************************************)
(* The invariant.                                                          *)
(***************************************************************************)

\* The batch b is the scheduler's, and is counted: what is on the stream is
\* about these requests, and nobody else gets their blocks before it is done.
Taken(b) ==
    /\ IsBatch(b) /\ Len(b) <= MaxSeqs /\ Size(b) <= MaxTokens
    /\ \A j, k \in 1 .. Len(b) : b[j].req = b[k].req => j = k
    /\ \A k \in 1 .. Len(b) :
          /\ b[k].blocks = table[b[k].req]
          /\ b[k].offset + b[k].len = computed[b[k].req]
          /\ b[k].needsSampling => computed[b[k].req] = numTokens[b[k].req]

TokenAt(b, i) == Tok(b[EntryOf(b, i)].req, PositionOf(b, i))

\* The arrays of a batch buffer, as far as a step reads them, are those of b.
RowsAre(buf, b) ==
    /\ \A i \in 0 .. Size(b) - 1 :
          /\ buf.tokens[i] = TokenAt(b, i)
          /\ buf.positions[i] = PositionOf(b, i)
          /\ buf.slots[i] = SlotOf(b[EntryOf(b, i)].blocks, PositionOf(b, i))
    /\ \A i \in Size(b) .. RowCount(b) - 1 : buf.slots[i] = -1
    /\ buf.count = Size(b)
EntriesAre(buf, b) ==
    /\ \A k \in 0 .. Len(b) : buf.starts[k] = Starts(b)[k]
    /\ \A k \in 1 .. Len(b) :
          /\ buf.seqLens[k - 1] = b[k].offset + b[k].len
          /\ \A c \in 1 .. Len(b[k].blocks) : buf.tables[k - 1][c - 1] = b[k].blocks[c]
SamplesAre(buf, b) ==
    \A j \in 0 .. NumSamples(b) - 1 :
        /\ buf.logitsIndices[j] = Starts(b)[Sampling(b)[j + 1]] - 1
        /\ buf.params[j] = Sampled(b, j).req
Holds(buf, b) == RowsAre(buf, b) /\ EntriesAre(buf, b) /\ SamplesAre(buf, b)

\* The key of position p of r in layer l is the exact one.
KeyIs(l, r, p) == kv[l][SlotOf(table[r], p)] = Exact(Tok(r, p), p, KeyAt(l))

\* Position p of r is one of those that b computes.
NewKey(b, r, p) == \E k \in 1 .. Len(b) : b[k].req = r /\ b[k].offset <= p

\* All keys but those that b has yet to compute, from layer l on.
KeysTo(b, l) ==
    \A m \in Layers, r \in Requests : \A p \in 0 .. computed[r] - 1 :
        m < l \/ ~NewKey(b, r, p) => KeyIs(m, r, p)

AllKeys == \A r \in Requests, l \in Layers : \A p \in 0 .. computed[r] - 1 : KeyIs(l, r, p)

\* What the rows of the workspace are.
ResidualIs(b, at) ==
    \A i \in 0 .. Size(b) - 1 : residual[i] = Exact(TokenAt(b, i), 0, at)
HiddenIs(b, at) ==
    \A i \in 0 .. Size(b) - 1 : hidden[i] = Exact(TokenAt(b, i), 0, at)
QkvIs(b, at) ==
    \A i \in 0 .. Size(b) - 1 : qkv[i] = Exact(TokenAt(b, i), PositionOf(b, i), at)
AttnOutIs(b, at) ==
    \A i \in 0 .. Size(b) - 1, h \in Heads :
        attnOut[i][h] = Exact(TokenAt(b, i), PositionOf(b, i), at)

\* Layer l's four operations.
BeforeLayer(b, l) ==
    /\ stream = Left(b, 4 * l - 2) /\ Holds(device, b) /\ KeysTo(b, l)
    /\ ResidualIs(b, 4 * l - 4)
BeforeAttend(b, l) ==
    /\ stream = Left(b, 4 * l - 1) /\ Holds(device, b) /\ KeysTo(b, l + 1)
    /\ ResidualIs(b, 4 * l - 4) /\ QkvIs(b, 4 * l - 3)
BeforeProject(b, l) ==
    /\ stream = Left(b, 4 * l) /\ Holds(device, b) /\ KeysTo(b, l + 1)
    /\ ResidualIs(b, 4 * l - 4) /\ AttnOutIs(b, 4 * l - 2)
BeforeFeedForward(b, l) ==
    /\ stream = Left(b, 4 * l + 1) /\ Holds(device, b) /\ KeysTo(b, l + 1)
    /\ ResidualIs(b, 4 * l - 2) /\ HiddenIs(b, 4 * l - 1)

BeforeSample(b) ==
    /\ stream = Left(b, 4 * NumLayers + 3) /\ Holds(device, b) /\ KeysTo(b, NumLayers + 1)
    /\ \A j \in 0 .. NumSamples(b) - 1 :
          hidden[j] = Exact(Tok(Sampled(b, j).req, Sampled(b, j).offset + Sampled(b, j).len - 1),
                            0, 4 * NumLayers + 1)

NextToken(e) == Tok(e.req, e.offset + e.len)

BeforeDownload(b) ==
    /\ stream = Left(b, 4 * NumLayers + 4) /\ KeysTo(b, NumLayers + 1)
    /\ \A j \in 0 .. NumSamples(b) - 1 : device.tokens[j] = NextToken(Sampled(b, j))

\* The device is somewhere in the program of b, and all before it is done.
Running(b) ==
    \/ stream = Left(b, 0) /\ Holds(pinned, b) /\ KeysTo(b, 1)
    \/ stream = Left(b, 1) /\ Holds(device, b) /\ KeysTo(b, 1)
    \/ \E l \in Layers : BeforeLayer(b, l)
    \/ \E l \in Layers : BeforeAttend(b, l)
    \/ \E l \in Layers : BeforeProject(b, l)
    \/ \E l \in Layers : BeforeFeedForward(b, l)
    \/ NumSamples(b) # 0 /\ BeforeLayer(b, NumLayers + 1)
    \/ NumSamples(b) # 0 /\ BeforeSample(b)
    \/ NumSamples(b) # 0 /\ BeforeDownload(b)

\* The next token of every request that run_model sampled for is in its place.
Delivered ==
    /\ inflight \in Seq(Requests)
    /\ \A j \in 1 .. Len(inflight) : pinned.tokens[j - 1] = Tok(inflight[j], numTokens[inflight[j]])

InflightIs(b) == inflight = [j \in 1 .. NumSamples(b) |-> Sampled(b, j - 1).req]

Done == stream = <<>> /\ AllKeys /\ Delivered
Serving(b) == Taken(b) /\ InflightIs(b) /\ Running(b)

WaitInv == host = "waiting" => Done \/ \E b : Serving(b)

\* No block is in two tables, or twice in one.
TablesInv ==
    /\ table \in [Requests -> Seq(Blocks)]
    /\ \A r \in Requests :
          computed[r] <= Len(table[r]) * BlockSize /\ Len(table[r]) <= TableWidth
    /\ \A r, s \in Requests :
          \A i \in 1 .. Len(table[r]), j \in 1 .. Len(table[s]) :
             table[r][i] = table[s][j] => r = s /\ i = j

ReqInv ==
    /\ numTokens \in [Requests -> Nat]
    /\ computed \in [Requests -> Nat]
    /\ numBlocks \in Nat
    /\ TablesInv

HostInv ==
    /\ graphs \in BOOLEAN
    /\ host \in {"loading", "loaded", "refused", "idle", "waiting"}
    /\ host \in {"loading", "loaded", "refused"} =>
          /\ stream = <<>> /\ inflight = <<>> /\ results = <<>>
          /\ \A r \in Requests : computed[r] = 0 /\ table[r] = <<>>
    /\ host = "idle" => stream = <<>> /\ inflight = <<>> /\ AllKeys /\ ResultsAreOwn
    /\ host \in {"idle", "waiting"} => DOMAIN kv = Layers /\ (graphs => captured = "final")
    /\ "tokens" \in DOMAIN pinned /\ "tokens" \in DOMAIN device

ExecutorInv == ReqInv /\ HostInv /\ WaitInv

-----------------------------------------------------------------------------
(* What holds of the rows and the slots of a batch. *)

\* The slots of the positions that are computed lie in the cache, and no two
\* of them are the same.
LEMMA SlotFacts ==
  ASSUME ReqInv
  PROVE  /\ \A r \in Requests : \A p \in 0 .. computed[r] - 1 :
               /\ p \div BlockSize + 1 \in 1 .. Len(table[r])
               /\ SlotOf(table[r], p) \in Slots
         /\ \A r, s \in Requests : \A p \in 0 .. computed[r] - 1, q \in 0 .. computed[s] - 1 :
               SlotOf(table[r], p) = SlotOf(table[s], q) => r = s /\ p = q
  <1>1. BlockSize \in Nat \ {0} /\ numBlocks \in Nat
    BY ExecutorAssumption DEF ReqInv
  <1>2. ASSUME NEW r \in Requests, NEW p \in 0 .. computed[r] - 1
        PROVE  /\ p \in Nat /\ p \div BlockSize + 1 \in 1 .. Len(table[r])
               /\ p % BlockSize \in 0 .. BlockSize - 1
               /\ p = BlockSize * (p \div BlockSize) + (p % BlockSize)
               /\ table[r][p \div BlockSize + 1] \in 0 .. numBlocks - 1
    <2>1. p \in Nat /\ Len(table[r]) \in Nat /\ p < Len(table[r]) * BlockSize
          /\ table[r] \in Seq(Blocks)
      <3>1. table[r] \in Seq(Blocks) /\ computed[r] \in Nat /\ computed[r] <= Len(table[r]) * BlockSize
        BY DEF ReqInv, TablesInv
      <3>2. Len(table[r]) \in Nat
        BY <3>1
      <3>3. Len(table[r]) * BlockSize \in Nat
        BY <1>1, <3>2, ProductIsNat
      <3> QED
        BY <3>1, <3>2, <3>3
    <2>2. p \div BlockSize < Len(table[r])
      BY <1>1, <2>1, QuotientBelow
    <2>3. p \div BlockSize \in Nat
      BY <1>1, <2>1, Quotient
    <2>4. p \div BlockSize + 1 \in 1 .. Len(table[r])
      BY <2>1, <2>2, <2>3
    <2>5. table[r][p \div BlockSize + 1] \in Blocks
      BY <2>1, <2>4
    <2> QED
      BY <1>1, <2>1, <2>4, <2>5, Quotient DEF Blocks
  <1>3. ASSUME NEW x \in 0 .. numBlocks - 1, NEW o \in 0 .. BlockSize - 1
        PROVE  x * BlockSize \in Nat /\ x * BlockSize + o \in Slots
    <2>1. x * BlockSize \in Nat
      BY <1>1, ProductIsNat
    <2>2. PICK m \in Nat : numBlocks = x + 1 + m
      <3>1. numBlocks - x - 1 \in Nat /\ numBlocks = x + 1 + (numBlocks - x - 1)
        BY <1>1
      <3> QED
        BY <3>1
    <2>3. numBlocks * BlockSize = x * BlockSize + BlockSize + m * BlockSize
      BY <1>1, <2>2
    <2>4. m * BlockSize \in Nat
      BY <1>1, <2>2, ProductIsNat
    <2> QED
      BY <1>1, <2>1, <2>3, <2>4 DEF Slots
  <1>4. ASSUME NEW x \in 0 .. numBlocks - 1, NEW o \in 0 .. BlockSize - 1,
               NEW y \in 0 .. numBlocks - 1, NEW u \in 0 .. BlockSize - 1,
               x * BlockSize + o = y * BlockSize + u
        PROVE  x = y /\ o = u
    <2>1. (x * BlockSize + o) \div BlockSize = x
      <3>1. x * BlockSize \in Nat /\ BlockSize * x = x * BlockSize /\ x \in Nat
        BY <1>1, ProductIsNat
      <3> QED
        BY <1>1, <3>1, QuotientIs
    <2>2. (y * BlockSize + u) \div BlockSize = y
      <3>1. y * BlockSize \in Nat /\ BlockSize * y = y * BlockSize /\ y \in Nat
        BY <1>1, ProductIsNat
      <3> QED
        BY <1>1, <3>1, QuotientIs
    <2>3. x = y
      BY <1>4, <2>1, <2>2
    <2>4. x * BlockSize \in Nat /\ y * BlockSize = x * BlockSize
      BY <1>3, <2>3
    <2> QED
      BY <1>1, <1>4, <2>3, <2>4
  <1>5. ASSUME NEW r \in Requests, NEW p \in 0 .. computed[r] - 1
        PROVE  SlotOf(table[r], p) \in Slots
    BY <1>2, <1>3 DEF SlotOf
  <1>6. ASSUME NEW r \in Requests, NEW s \in Requests,
               NEW p \in 0 .. computed[r] - 1, NEW q \in 0 .. computed[s] - 1,
               SlotOf(table[r], p) = SlotOf(table[s], q)
        PROVE  r = s /\ p = q
    <2>1. /\ table[r][p \div BlockSize + 1] \in 0 .. numBlocks - 1
          /\ table[s][q \div BlockSize + 1] \in 0 .. numBlocks - 1
          /\ p % BlockSize \in 0 .. BlockSize - 1 /\ q % BlockSize \in 0 .. BlockSize - 1
      BY <1>2
    <2>2. table[r][p \div BlockSize + 1] = table[s][q \div BlockSize + 1] /\ p % BlockSize = q % BlockSize
      BY <1>4, <1>6, <2>1 DEF SlotOf
    <2>3. r = s /\ p \div BlockSize + 1 = q \div BlockSize + 1
      BY <1>2, <2>2 DEF ReqInv, TablesInv
    <2>4. p \div BlockSize = q \div BlockSize
      <3>1. p \div BlockSize \in Nat /\ q \div BlockSize \in Nat
        BY <1>1, <1>2, Quotient
      <3> QED
        BY <2>3, <3>1
    <2>5. p = BlockSize * (p \div BlockSize) + (p % BlockSize) /\ q = BlockSize * (q \div BlockSize) + (q % BlockSize)
      BY <1>2
    <2> QED
      BY <2>2, <2>3, <2>4, <2>5
  <1> QED
    BY <1>2, <1>5, <1>6

\* A place in a range of places, by its distance from where the range begins.
LEMMA Shifted ==
  ASSUME NEW from \in Nat, NEW o \in Nat, NEW w \in Nat, NEW p \in Nat, o <= p, p < o + w,
         NEW to, to = from + w
  PROVE  \E i \in from .. to - 1 : o + i - from = p
  <1>1. PICK d \in Nat : p = o + d
    <2>1. p - o \in Nat /\ p = o + (p - o)
      OBVIOUS
    <2> QED
      BY <2>1
  <1>2. from + d \in from .. to - 1 /\ o + (from + d) - from = p
    BY <1>1
  <1> QED
    BY <1>2

\* The request whose row this is.
RowReq(b, i) == b[EntryOf(b, i)].req

LEMMA RowFacts ==
  ASSUME ReqInv, NEW b, Taken(b)
  PROVE  /\ \A i \in 0 .. Size(b) - 1 :
               /\ EntryOf(b, i) \in 1 .. Len(b)
               /\ RowReq(b, i) \in Requests
               /\ PositionOf(b, i) \in 0 .. computed[RowReq(b, i)] - 1
               /\ b[EntryOf(b, i)].blocks = table[RowReq(b, i)]
               /\ NewKey(b, RowReq(b, i), PositionOf(b, i))
         /\ \A i, j \in 0 .. Size(b) - 1 :
               RowReq(b, i) = RowReq(b, j) /\ PositionOf(b, i) = PositionOf(b, j) => i = j
         /\ \A r \in Requests : \A p \in 0 .. computed[r] - 1 :
               NewKey(b, r, p) =>
                  \E i \in 0 .. Size(b) - 1 : RowReq(b, i) = r /\ PositionOf(b, i) = p
  <1>1. IsBatch(b) /\ \A r \in Requests : computed[r] \in Nat
    BY DEF Taken, ReqInv
  <1>2. /\ Len(b) \in Nat \ {0}
        /\ \A k \in 1 .. Len(b) :
              /\ b[k].req \in Requests /\ b[k].offset \in Nat /\ b[k].len \in Nat \ {0}
              /\ b[k].offset + b[k].len = computed[b[k].req]
              /\ b[k].blocks = table[b[k].req]
    BY <1>1, BatchEntries DEF Taken
  <1>3. \A k \in 0 .. Len(b) : Starts(b)[k] \in Nat
    BY <1>1, BatchStarts
  <1>4. \A k \in 1 .. Len(b) : Starts(b)[k] = Starts(b)[k - 1] + b[k].len
    BY <1>1, BatchStarts
  <1>5. ASSUME NEW i \in 0 .. Size(b) - 1
        PROVE  /\ EntryOf(b, i) \in 1 .. Len(b)
               /\ i \in Nat /\ Starts(b)[EntryOf(b, i) - 1] \in Nat
               /\ PositionOf(b, i) = b[EntryOf(b, i)].offset + i - Starts(b)[EntryOf(b, i) - 1]
               /\ PositionOf(b, i) \in
                     b[EntryOf(b, i)].offset .. b[EntryOf(b, i)].offset + b[EntryOf(b, i)].len - 1
    <2>1. /\ EntryOf(b, i) \in 1 .. Len(b)
          /\ i \in Starts(b)[EntryOf(b, i) - 1] .. Starts(b)[EntryOf(b, i)] - 1
          /\ PositionOf(b, i) \in
                     b[EntryOf(b, i)].offset .. b[EntryOf(b, i)].offset + b[EntryOf(b, i)].len - 1
      BY <1>1, RowsOfEntries
    <2>2. EntryOf(b, i) - 1 \in 0 .. Len(b) /\ EntryOf(b, i) \in 0 .. Len(b)
      BY <1>2, <2>1
    <2>3. PositionOf(b, i) = b[EntryOf(b, i)].offset + i - Starts(b)[EntryOf(b, i) - 1]
      BY <1>1, <2>1, RowsOfEntries
    <2>4. i \in Nat /\ Starts(b)[EntryOf(b, i) - 1] \in Nat
      BY <1>3, <2>1, <2>2
    <2> QED
      BY <2>1, <2>3, <2>4
  <1>6. ASSUME NEW i \in 0 .. Size(b) - 1
        PROVE  /\ EntryOf(b, i) \in 1 .. Len(b)
               /\ RowReq(b, i) \in Requests
               /\ PositionOf(b, i) \in 0 .. computed[RowReq(b, i)] - 1
               /\ b[EntryOf(b, i)].blocks = table[RowReq(b, i)]
               /\ NewKey(b, RowReq(b, i), PositionOf(b, i))
    <2> DEFINE k == EntryOf(b, i)
    <2>1. k \in 1 .. Len(b) /\ PositionOf(b, i) \in b[k].offset .. b[k].offset + b[k].len - 1
      BY <1>5
    <2>2. /\ b[k].req \in Requests /\ b[k].offset \in Nat /\ b[k].len \in Nat
          /\ b[k].offset + b[k].len = computed[b[k].req] /\ b[k].blocks = table[b[k].req]
      BY <1>2, <2>1
    <2>3. PositionOf(b, i) \in 0 .. computed[b[k].req] - 1 /\ b[k].offset <= PositionOf(b, i)
      BY <2>1, <2>2
    <2> QED
      BY <2>1, <2>2, <2>3 DEF RowReq, NewKey
  <1>7. ASSUME NEW i \in 0 .. Size(b) - 1, NEW j \in 0 .. Size(b) - 1,
               RowReq(b, i) = RowReq(b, j), PositionOf(b, i) = PositionOf(b, j)
        PROVE  i = j
    <2>1. EntryOf(b, i) = EntryOf(b, j)
      BY <1>5, <1>7 DEF RowReq, Taken
    <2>2. /\ i \in Nat /\ j \in Nat /\ Starts(b)[EntryOf(b, i) - 1] \in Nat
          /\ b[EntryOf(b, i)].offset \in Nat
          /\ PositionOf(b, i) = b[EntryOf(b, i)].offset + i - Starts(b)[EntryOf(b, i) - 1]
          /\ PositionOf(b, j) = b[EntryOf(b, j)].offset + j - Starts(b)[EntryOf(b, j) - 1]
      BY <1>2, <1>5
    <2>3. b[EntryOf(b, i)].offset + i - Starts(b)[EntryOf(b, i) - 1]
             = b[EntryOf(b, i)].offset + j - Starts(b)[EntryOf(b, i) - 1]
      BY <1>7, <2>1, <2>2
    <2> QED
      BY <2>2, <2>3
  <1>8. ASSUME NEW r \in Requests, NEW p \in 0 .. computed[r] - 1, NewKey(b, r, p)
        PROVE  \E i \in 0 .. Size(b) - 1 : RowReq(b, i) = r /\ PositionOf(b, i) = p
    <2>1. PICK k \in 1 .. Len(b) : b[k].req = r /\ b[k].offset <= p
      BY <1>8 DEF NewKey
    <2>2. k - 1 \in 0 .. Len(b) /\ k \in 0 .. Len(b)
      BY <1>2
    <2>3. /\ Starts(b)[k - 1] \in Nat /\ Starts(b)[k] = Starts(b)[k - 1] + b[k].len
          /\ b[k].offset \in Nat /\ b[k].len \in Nat /\ b[k].offset + b[k].len = computed[r]
          /\ computed[r] \in Nat /\ p \in Nat /\ p < computed[r]
      BY <1>1, <1>2, <1>3, <1>4, <2>1, <2>2
    <2>4. PICK i \in Starts(b)[k - 1] .. Starts(b)[k] - 1 : b[k].offset + i - Starts(b)[k - 1] = p
      <3>1. b[k].offset <= p /\ p < b[k].offset + b[k].len
        BY <2>1, <2>3
      <3>2. /\ Starts(b)[k - 1] \in Nat /\ b[k].offset \in Nat /\ b[k].len \in Nat /\ p \in Nat
            /\ Starts(b)[k] = Starts(b)[k - 1] + b[k].len
        BY <2>3
      <3> DEFINE from == Starts(b)[k - 1]
                 to == Starts(b)[k]
                 o == b[k].offset
                 w == b[k].len
      <3>3. from \in Nat /\ o \in Nat /\ w \in Nat /\ p \in Nat
        BY <3>2
      <3>4. o <= p /\ p < o + w /\ to = from + w
        BY <3>1, <3>2
      <3> HIDE DEF from, to, o, w
      <3>5. \E i \in from .. to - 1 : o + i - from = p
        BY <3>3, <3>4, Shifted
      <3> QED
        BY <3>5, Zenon DEF from, to, o
    <2>5. /\ i \in 0 .. Size(b) - 1 /\ EntryOf(b, i) = k
          /\ PositionOf(b, i) = b[k].offset + i - Starts(b)[k - 1]
      BY <1>1, <2>4, RowsOfEntries
    <2> QED
      BY <2>1, <2>4, <2>5 DEF RowReq
  <1> QED
    BY <1>6, <1>7, <1>8

\* What a kernel that works on the rows of the launch finds on the device.
LEMMA DeviceRows ==
  ASSUME ReqInv, graphs \in BOOLEAN, NEW b, Taken(b), RowsAre(device, b)
  PROVE  /\ Size(b) \in 1 .. MaxTokens
         /\ RowCount(b) \in Size(b) .. MaxTokens
         /\ \A i \in 0 .. Size(b) - 1 : i \in Rows /\ i < RowCount(b) /\ i \in Counted(RowCount(b))
         /\ Counted(RowCount(b)) = 0 .. Size(b) - 1
         /\ Writers(RowCount(b)) = 0 .. Size(b) - 1
         /\ \A i, j \in 0 .. Size(b) - 1 : device.slots[i] = device.slots[j] => i = j
  <1>1. MaxTokens \in Nat
    BY WorkspaceAssumption
  <1>2. Size(b) \in 1 .. MaxTokens
    <2>1. Size(b) \in Nat \ {0} /\ Size(b) <= MaxTokens
      BY BatchStarts DEF Taken
    <2> QED
      BY <1>1, <2>1
  <1>3. RowCount(b) \in Size(b) .. MaxTokens
    <2>1. CASE graphs
      BY <1>2, <2>1, BucketFacts DEF RowCount
    <2>2. CASE ~graphs
      BY <1>1, <1>2, <2>2 DEF RowCount
    <2> QED
      BY <2>1, <2>2
  <1>4. device.count = Size(b)
    BY DEF RowsAre
  <1>5. \A i \in Rows : i \in Nat
    BY <1>1 DEF Rows
  <1>6. \A i \in 0 .. Size(b) - 1 : i \in Rows /\ i < RowCount(b)
    BY <1>1, <1>2, <1>3 DEF Rows
  <1>7. Counted(RowCount(b)) = 0 .. Size(b) - 1
    <2>1. \A i \in 0 .. Size(b) - 1 : i \in Counted(RowCount(b))
      BY <1>2, <1>4, <1>6 DEF Counted
    <2>2. \A i \in Counted(RowCount(b)) : i \in 0 .. Size(b) - 1
      BY <1>2, <1>4, <1>5 DEF Counted
    <2> QED
      BY <2>1, <2>2
  <1>8. ASSUME NEW i \in 0 .. Size(b) - 1
        PROVE  /\ device.slots[i] = SlotOf(table[RowReq(b, i)], PositionOf(b, i))
               /\ device.slots[i] \in Slots /\ device.slots[i] >= 0
    <2>1. device.slots[i] = SlotOf(table[RowReq(b, i)], PositionOf(b, i))
      BY RowFacts DEF RowsAre
    <2>2. device.slots[i] \in Slots
      BY <2>1, RowFacts, SlotFacts
    <2>3. numBlocks * BlockSize - 1 \in Int
      BY ExecutorAssumption DEF ReqInv
    <2>4. device.slots[i] >= 0
      BY <2>2, <2>3 DEF Slots
    <2> QED
      BY <2>1, <2>2, <2>4
  <1>9. Writers(RowCount(b)) = 0 .. Size(b) - 1
    <2>1. \A i \in 0 .. Size(b) - 1 : i \in Writers(RowCount(b))
      BY <1>6, <1>8 DEF Writers
    <2>2. ASSUME NEW i \in Writers(RowCount(b)) PROVE i \in 0 .. Size(b) - 1
      <3>1. i \in Nat /\ i < RowCount(b) /\ device.slots[i] >= 0
        BY <1>5 DEF Writers
      <3>2. ASSUME ~(i < Size(b)) PROVE FALSE
        <4>1. i \in Size(b) .. RowCount(b) - 1
          BY <1>2, <1>3, <3>1, <3>2
        <4>2. device.slots[i] = -1
          BY <4>1 DEF RowsAre
        <4> QED
          BY <3>1, <4>2
      <3> QED
        BY <1>2, <3>1, <3>2
    <2> QED
      BY <2>1, <2>2
  <1>10. ASSUME NEW i \in 0 .. Size(b) - 1, NEW j \in 0 .. Size(b) - 1,
                device.slots[i] = device.slots[j]
         PROVE  i = j
    <2>1. SlotOf(table[RowReq(b, i)], PositionOf(b, i)) = SlotOf(table[RowReq(b, j)], PositionOf(b, j))
      BY <1>8, <1>10
    <2>2. /\ RowReq(b, i) \in Requests /\ PositionOf(b, i) \in 0 .. computed[RowReq(b, i)] - 1
          /\ RowReq(b, j) \in Requests /\ PositionOf(b, j) \in 0 .. computed[RowReq(b, j)] - 1
      BY RowFacts
    <2>3. RowReq(b, i) = RowReq(b, j) /\ PositionOf(b, i) = PositionOf(b, j)
      BY <2>1, <2>2, SlotFacts
    <2> QED
      BY <2>3, RowFacts
  <1> QED
    BY <1>2, <1>3, <1>6, <1>7, <1>9, <1>10

\* The next operation is op, and after it those from done on are left.
TakesNext(b, op, done) == stream # <<>> /\ Head(stream) = op /\ Tail(stream) = Left(b, done)

LEMMA StreamAt ==
  ASSUME NEW b, IsBatch(b), NEW done \in 0 .. NumOps(b) - 1, stream = Left(b, done)
  PROVE  TakesNext(b, OpAt(b, done + 1), done + 1)
  BY Leftover DEF TakesNext

LEMMA LayerStages ==
  ASSUME NEW b, IsBatch(b), NEW l \in Layers
  PROVE  /\ stream = Left(b, 4 * l - 2) => TakesNext(b, Prepare(l, RowCount(b), "final"), 4 * l - 1)
         /\ stream = Left(b, 4 * l - 1) => TakesNext(b, Attend(l, Size(b), Len(b)), 4 * l)
         /\ stream = Left(b, 4 * l) => TakesNext(b, Combine(RowCount(b)), 4 * l + 1)
         /\ stream = Left(b, 4 * l + 1) => TakesNext(b, FeedForward(RowCount(b)), 4 * l + 2)
  <1>1. l \in Nat \ {0} /\ l <= NumLayers /\ NumLayers \in Nat
    BY LayersAreNat DEF Layers
  <1>2. NumOps(b) \in Nat /\ 4 * NumLayers + 2 <= NumOps(b)
    BY <1>1, NumOpsIsNat
  <1>3. /\ 4 * l - 2 \in 0 .. NumOps(b) - 1 /\ 4 * l - 1 \in 0 .. NumOps(b) - 1
        /\ 4 * l \in 0 .. NumOps(b) - 1 /\ 4 * l + 1 \in 0 .. NumOps(b) - 1
        /\ 4 * l - 2 + 1 = 4 * l - 1 /\ 4 * l - 1 + 1 = 4 * l /\ 4 * l + 1 + 1 = 4 * l + 2
    BY <1>1, <1>2
  <1>4. stream = Left(b, 4 * l - 2) => TakesNext(b, OpAt(b, 4 * l - 1), 4 * l - 1)
    BY <1>3, StreamAt
  <1>5. stream = Left(b, 4 * l - 1) => TakesNext(b, OpAt(b, 4 * l), 4 * l)
    BY <1>3, StreamAt
  <1>6. stream = Left(b, 4 * l) => TakesNext(b, OpAt(b, 4 * l + 1), 4 * l + 1)
    BY <1>3, StreamAt
  <1>7. stream = Left(b, 4 * l + 1) => TakesNext(b, OpAt(b, 4 * l + 2), 4 * l + 2)
    BY <1>3, StreamAt
  <1> QED
    BY <1>4, <1>5, <1>6, <1>7, OpsOfLayer

LEMMA EndStages ==
  ASSUME NEW b, IsBatch(b)
  PROVE  /\ stream = Left(b, 0) =>
               TakesNext(b, Copy(RowCount(b), Len(b), NumSamples(b), HostStride(b)), 1)
         /\ stream = Left(b, 1) => TakesNext(b, Embed(RowCount(b)), 2)
         /\ NumSamples(b) # 0 =>
               /\ stream = Left(b, 4 * NumLayers + 2) =>
                     TakesNext(b, Gather(NumSamples(b)), 4 * NumLayers + 3)
               /\ stream = Left(b, 4 * NumLayers + 3) =>
                     TakesNext(b, Sample(NumSamples(b)), 4 * NumLayers + 4)
               /\ stream = Left(b, 4 * NumLayers + 4) =>
                     TakesNext(b, Download(NumSamples(b)), 4 * NumLayers + 5)
  <1>1. /\ NumLayers \in Nat \ {0} /\ NumOps(b) \in Nat /\ 4 * NumLayers + 2 <= NumOps(b)
        /\ NumSamples(b) # 0 => NumOps(b) = 4 * NumLayers + 5
    BY LayersAreNat, NumOpsIsNat
  <1>2. /\ 0 \in 0 .. NumOps(b) - 1 /\ 1 \in 0 .. NumOps(b) - 1
        /\ 0 + 1 = 1 /\ 1 + 1 = 2
    BY <1>1
  <1>3. stream = Left(b, 0) => TakesNext(b, OpAt(b, 1), 1)
    BY <1>2, StreamAt
  <1>4. stream = Left(b, 1) => TakesNext(b, OpAt(b, 2), 2)
    BY <1>2, StreamAt
  <1>5. ASSUME NumSamples(b) # 0
        PROVE  /\ stream = Left(b, 4 * NumLayers + 2) =>
                     TakesNext(b, OpAt(b, 4 * NumLayers + 3), 4 * NumLayers + 3)
               /\ stream = Left(b, 4 * NumLayers + 3) =>
                     TakesNext(b, OpAt(b, 4 * NumLayers + 4), 4 * NumLayers + 4)
               /\ stream = Left(b, 4 * NumLayers + 4) =>
                     TakesNext(b, OpAt(b, 4 * NumLayers + 5), 4 * NumLayers + 5)
    <2>1. /\ 4 * NumLayers + 2 \in 0 .. NumOps(b) - 1 /\ 4 * NumLayers + 3 \in 0 .. NumOps(b) - 1
          /\ 4 * NumLayers + 4 \in 0 .. NumOps(b) - 1
          /\ 4 * NumLayers + 2 + 1 = 4 * NumLayers + 3 /\ 4 * NumLayers + 3 + 1 = 4 * NumLayers + 4
          /\ 4 * NumLayers + 4 + 1 = 4 * NumLayers + 5
      BY <1>1, <1>5
    <2>2. stream = Left(b, 4 * NumLayers + 2) => TakesNext(b, OpAt(b, 4 * NumLayers + 3), 4 * NumLayers + 3)
      BY <2>1, StreamAt
    <2>3. stream = Left(b, 4 * NumLayers + 3) => TakesNext(b, OpAt(b, 4 * NumLayers + 4), 4 * NumLayers + 4)
      BY <2>1, StreamAt
    <2>4. stream = Left(b, 4 * NumLayers + 4) => TakesNext(b, OpAt(b, 4 * NumLayers + 5), 4 * NumLayers + 5)
      BY <2>1, StreamAt
    <2> QED
      BY <2>2, <2>3, <2>4
  <1> QED
    BY <1>3, <1>4, <1>5, OpsAtEnds

\* The operation the device takes next tells where in the program it is.
LEMMA HeadTellsStage ==
  ASSUME NEW b, IsBatch(b), Running(b)
  PROVE  /\ stream # <<>>
         /\ Head(stream).op = "copy" =>
               /\ stream = Left(b, 0) /\ Holds(pinned, b) /\ KeysTo(b, 1)
               /\ TakesNext(b, Copy(RowCount(b), Len(b), NumSamples(b), HostStride(b)), 1)
         /\ Head(stream).op = "embed" =>
               /\ stream = Left(b, 1) /\ Holds(device, b) /\ KeysTo(b, 1)
               /\ TakesNext(b, Embed(RowCount(b)), 2)
         /\ Head(stream).op = "prepare" =>
               \E l \in Layers : BeforeLayer(b, l) /\ TakesNext(b, Prepare(l, RowCount(b), "final"), 4 * l - 1)
         /\ Head(stream).op = "attend" =>
               \E l \in Layers : BeforeAttend(b, l) /\ TakesNext(b, Attend(l, Size(b), Len(b)), 4 * l)
         /\ Head(stream).op = "project" =>
               \E l \in Layers : BeforeProject(b, l) /\ TakesNext(b, Combine(RowCount(b)), 4 * l + 1)
         /\ Head(stream).op = "ffn" =>
               \E l \in Layers : BeforeFeedForward(b, l) /\ TakesNext(b, FeedForward(RowCount(b)), 4 * l + 2)
         /\ Head(stream).op = "gather" =>
               /\ NumSamples(b) # 0 /\ BeforeLayer(b, NumLayers + 1)
               /\ TakesNext(b, Gather(NumSamples(b)), 4 * NumLayers + 3)
         /\ Head(stream).op = "sample" =>
               /\ NumSamples(b) # 0 /\ BeforeSample(b)
               /\ TakesNext(b, Sample(NumSamples(b)), 4 * NumLayers + 4)
         /\ Head(stream).op = "download" =>
               /\ NumSamples(b) # 0 /\ BeforeDownload(b)
               /\ TakesNext(b, Download(NumSamples(b)), 4 * NumLayers + 5)
  <1> DEFINE Op(s) == stream # <<>> /\ Head(stream).op = s
  <1>1. CASE stream = Left(b, 0) /\ Holds(pinned, b) /\ KeysTo(b, 1)
    <2>1. TakesNext(b, Copy(RowCount(b), Len(b), NumSamples(b), HostStride(b)), 1)
      BY <1>1, EndStages
    <2>2. Op("copy")
      BY <2>1 DEF TakesNext, Copy
    <2> QED
      BY <1>1, <2>1, <2>2
  <1>2. CASE stream = Left(b, 1) /\ Holds(device, b) /\ KeysTo(b, 1)
    <2>1. TakesNext(b, Embed(RowCount(b)), 2)
      BY <1>2, EndStages
    <2>2. Op("embed")
      BY <2>1 DEF TakesNext, Embed
    <2> QED
      BY <1>2, <2>1, <2>2
  <1>3. CASE \E l \in Layers : BeforeLayer(b, l)
    <2>1. PICK l \in Layers : BeforeLayer(b, l)
      BY <1>3
    <2>2. TakesNext(b, Prepare(l, RowCount(b), "final"), 4 * l - 1)
      BY <2>1, LayerStages DEF BeforeLayer
    <2>3. Op("prepare")
      BY <2>2 DEF TakesNext, Prepare
    <2> QED
      BY <2>1, <2>2, <2>3
  <1>4. CASE \E l \in Layers : BeforeAttend(b, l)
    <2>1. PICK l \in Layers : BeforeAttend(b, l)
      BY <1>4
    <2>2. TakesNext(b, Attend(l, Size(b), Len(b)), 4 * l)
      BY <2>1, LayerStages DEF BeforeAttend
    <2>3. Op("attend")
      BY <2>2 DEF TakesNext, Attend
    <2> QED
      BY <2>1, <2>2, <2>3
  <1>5. CASE \E l \in Layers : BeforeProject(b, l)
    <2>1. PICK l \in Layers : BeforeProject(b, l)
      BY <1>5
    <2>2. TakesNext(b, Combine(RowCount(b)), 4 * l + 1)
      BY <2>1, LayerStages DEF BeforeProject
    <2>3. Op("project")
      BY <2>2 DEF TakesNext, Combine
    <2> QED
      BY <2>1, <2>2, <2>3
  <1>6. CASE \E l \in Layers : BeforeFeedForward(b, l)
    <2>1. PICK l \in Layers : BeforeFeedForward(b, l)
      BY <1>6
    <2>2. TakesNext(b, FeedForward(RowCount(b)), 4 * l + 2)
      BY <2>1, LayerStages DEF BeforeFeedForward
    <2>3. Op("ffn")
      BY <2>2 DEF TakesNext, FeedForward
    <2> QED
      BY <2>1, <2>2, <2>3
  <1>7. CASE NumSamples(b) # 0 /\ BeforeLayer(b, NumLayers + 1)
    <2>1. 4 * (NumLayers + 1) - 2 = 4 * NumLayers + 2
      BY LayersAreNat
    <2>2. TakesNext(b, Gather(NumSamples(b)), 4 * NumLayers + 3)
      BY <1>7, <2>1, EndStages DEF BeforeLayer
    <2>3. Op("gather")
      BY <2>2 DEF TakesNext, Gather
    <2> QED
      BY <1>7, <2>2, <2>3
  <1>8. CASE NumSamples(b) # 0 /\ BeforeSample(b)
    <2>1. TakesNext(b, Sample(NumSamples(b)), 4 * NumLayers + 4)
      BY <1>8, EndStages DEF BeforeSample
    <2>2. Op("sample")
      BY <2>1 DEF TakesNext, Sample
    <2> QED
      BY <1>8, <2>1, <2>2
  <1>9. CASE NumSamples(b) # 0 /\ BeforeDownload(b)
    <2>1. TakesNext(b, Download(NumSamples(b)), 4 * NumLayers + 5)
      BY <1>9, EndStages DEF BeforeDownload
    <2>2. Op("download")
      BY <2>1 DEF TakesNext, Download
    <2> QED
      BY <1>9, <2>1, <2>2
  <1> QED
    BY <1>1, <1>2, <1>3, <1>4, <1>5, <1>6, <1>7, <1>8, <1>9 DEF Running

-----------------------------------------------------------------------------
(***************************************************************************)
(* The device's steps.                                                     *)
(***************************************************************************)

\* What no step of the device changes.
HostStays ==
    /\ UNCHANGED reqVars
    /\ UNCHANGED <<host, graphs, captured, numBlocks, inflight, results>>

LEMMA BatchStays ==
  ASSUME HostStays, NEW b
  PROVE  /\ RowCount(b)' = RowCount(b) /\ \A k : Left(b, k)' = Left(b, k)
         /\ Taken(b)' <=> Taken(b)
         /\ InflightIs(b)' <=> InflightIs(b)
         /\ \A r, p : NewKey(b, r, p)' <=> NewKey(b, r, p)
  <1>1. graphs' = graphs /\ numBlocks' = numBlocks /\ inflight' = inflight
        /\ computed' = computed /\ table' = table /\ numTokens' = numTokens
    BY DEF HostStays, reqVars
  <1>2. RowCount(b)' = RowCount(b)
    BY <1>1 DEF RowCount
  <1>3. ASSUME NEW k PROVE Left(b, k)' = Left(b, k)
    BY <1>2 DEF Left, OpAt, NumOps
  <1>4. Taken(b)' <=> Taken(b)
    BY <1>1 DEF Taken, IsBatch, Entry, Blocks
  <1>5. InflightIs(b)' <=> InflightIs(b)
    BY <1>1 DEF InflightIs
  <1>6. ASSUME NEW r, NEW p PROVE NewKey(b, r, p)' <=> NewKey(b, r, p)
    BY DEF NewKey
  <1> QED
    BY <1>2, <1>3, <1>4, <1>5, <1>6

\* A step of the device is one in the program of the batch it serves, and
\* leads to the next stage of it, or to the end.
LEMMA DeviceServes ==
  ASSUME ExecutorInv, stream # <<>>
  PROVE  /\ host = "waiting" /\ graphs \in BOOLEAN /\ DOMAIN kv = Layers
         /\ \E b : Serving(b)
  <1>1. host = "waiting"
    BY DEF ExecutorInv, HostInv
  <1>2. ~Done
    BY DEF Done
  <1> QED
    BY <1>1, <1>2 DEF ExecutorInv, HostInv, WaitInv

LEMMA DeviceSettles ==
  ASSUME ExecutorInv, stream # <<>>, HostStays, DOMAIN kv' = DOMAIN kv,
         "tokens" \in DOMAIN pinned', "tokens" \in DOMAIN device',
         Done' \/ \E b : Serving(b)'
  PROVE  ExecutorInv'
  <1>1. host = "waiting" /\ host' = "waiting"
    BY DeviceServes DEF HostStays
  <1>2. ReqInv'
    BY DEF ExecutorInv, ReqInv, TablesInv, HostStays, reqVars, Blocks
  <1>3. HostInv'
    <2>1. graphs' = graphs /\ captured' = captured
      BY DEF HostStays
    <2>2. host \in {"idle", "waiting"} => DOMAIN kv = Layers /\ (graphs => captured = "final")
      BY DEF ExecutorInv, HostInv
    <2>3. graphs \in BOOLEAN
      BY DEF ExecutorInv, HostInv
    <2> QED
      BY <1>1, <2>1, <2>2, <2>3 DEF HostInv
  <1>4. WaitInv'
    BY DEF WaitInv
  <1> QED
    BY <1>2, <1>3, <1>4 DEF ExecutorInv

\* The copies bring the batch to the device.
LEMMA CopyHolds ==
  ASSUME ReqInv, graphs \in BOOLEAN, NEW b, Taken(b), Holds(pinned, b), HostStays,
         device' = Copied(pinned, Copy(RowCount(b), Len(b), NumSamples(b), HostStride(b)))
  PROVE  Holds(device, b)'
  <1> DEFINE n == Size(b)
             rows == RowCount(b)
  <1>1. MaxTokens \in Nat /\ MaxSeqs \in Nat /\ TableWidth \in Int
    BY WorkspaceAssumption, ExecutorAssumption DEF TableWidth
  <1>2. /\ Size(b) \in 1 .. MaxTokens /\ rows \in n .. MaxTokens
    <2>1. Size(b) \in Nat \ {0} /\ Size(b) <= MaxTokens
      BY BatchStarts DEF Taken
    <2>2. CASE graphs
      BY <1>1, <2>1, <2>2, BucketFacts DEF RowCount
    <2>3. CASE ~graphs
      BY <1>1, <2>1, <2>3 DEF RowCount
    <2> QED
      BY <1>1, <2>1, <2>2, <2>3
  <1>3. IsBatch(b) /\ Len(b) \in Nat \ {0} /\ Len(b) <= MaxSeqs /\ NumSamples(b) \in 0 .. Len(b)
        /\ \A k \in 1 .. Len(b) : b[k].blocks \in Seq(Blocks)
    BY BatchEntries, SamplingFacts DEF Taken
  <1>4. \A k \in 1 .. Len(b) : Len(b[k].blocks) <= TableWidth
    BY BatchEntries DEF Taken, ReqInv, TablesInv
  <1>5. /\ HostStride(b) \in 0 .. TableWidth
        /\ \A k \in 1 .. Len(b) : Len(b[k].blocks) <= HostStride(b)
    BY <1>3, <1>4, StrideFacts
  <1> HIDE DEF n, rows
  <1>6. /\ device'.tokens = [i \in Rows |-> IF i < rows THEN pinned.tokens[i] ELSE device.tokens[i]]
        /\ device'.positions =
              [i \in Rows |-> IF i < rows THEN pinned.positions[i] ELSE device.positions[i]]
        /\ device'.slots = [i \in Rows |-> IF i < rows THEN pinned.slots[i] ELSE device.slots[i]]
        /\ device'.starts =
              [k \in 0 .. MaxSeqs |-> IF k <= Len(b) THEN pinned.starts[k] ELSE device.starts[k]]
        /\ device'.seqLens =
              [k \in 0 .. MaxSeqs - 1 |-> IF k < Len(b) THEN pinned.seqLens[k] ELSE device.seqLens[k]]
        /\ device'.tables =
              [k \in 0 .. MaxSeqs - 1 |-> [c \in 0 .. TableWidth - 1 |->
                 IF k < Len(b) /\ c < HostStride(b) THEN pinned.tables[k][c] ELSE device.tables[k][c]]]
        /\ device'.logitsIndices =
              [j \in 0 .. MaxSeqs - 1 |->
                 IF j < NumSamples(b) THEN pinned.logitsIndices[j] ELSE device.logitsIndices[j]]
        /\ device'.params =
              [j \in 0 .. MaxSeqs - 1 |-> IF j < NumSamples(b) THEN pinned.params[j] ELSE device.params[j]]
        /\ device'.count = pinned.count
    BY DEF Copied, Copy, rows
  <1>7. \A i \in 0 .. rows - 1 :
           /\ device'.tokens[i] = pinned.tokens[i]
           /\ device'.positions[i] = pinned.positions[i]
           /\ device'.slots[i] = pinned.slots[i]
    <2>1. \A i \in 0 .. rows - 1 : i \in Rows /\ i < rows
      BY <1>1, <1>2 DEF Rows
    <2> QED
      BY <1>6, <2>1
  <1>8. RowsAre(device, b)'
    <2>1. RowCount(b)' = rows
      BY BatchStays DEF rows
    <2>2. \A i \in 0 .. Size(b) - 1 : i \in 0 .. rows - 1
      BY <1>2 DEF n
    <2>3. \A i \in Size(b) .. rows - 1 : i \in 0 .. rows - 1
      BY <1>2 DEF n
    <2>4. /\ \A i \in 0 .. Size(b) - 1 :
                /\ pinned.tokens[i] = TokenAt(b, i)
                /\ pinned.positions[i] = PositionOf(b, i)
                /\ pinned.slots[i] = SlotOf(b[EntryOf(b, i)].blocks, PositionOf(b, i))
          /\ \A i \in Size(b) .. rows - 1 : pinned.slots[i] = -1
          /\ pinned.count = Size(b)
      BY DEF Holds, RowsAre, rows
    <2>5. /\ \A i \in 0 .. Size(b) - 1 :
                /\ device'.tokens[i] = TokenAt(b, i)
                /\ device'.positions[i] = PositionOf(b, i)
                /\ device'.slots[i] = SlotOf(b[EntryOf(b, i)].blocks, PositionOf(b, i))
          /\ \A i \in Size(b) .. rows - 1 : device'.slots[i] = -1
          /\ device'.count = Size(b)
      BY <1>6, <1>7, <2>2, <2>3, <2>4
    <2> QED
      BY <2>1, <2>5 DEF RowsAre
  <1>9. EntriesAre(device, b)'
    <2>1. /\ \A k \in 0 .. Len(b) : pinned.starts[k] = Starts(b)[k]
          /\ \A k \in 1 .. Len(b) :
                /\ pinned.seqLens[k - 1] = b[k].offset + b[k].len
                /\ \A c \in 1 .. Len(b[k].blocks) : pinned.tables[k - 1][c - 1] = b[k].blocks[c]
      BY DEF Holds, EntriesAre
    <2>2. \A k \in 0 .. Len(b) : device'.starts[k] = pinned.starts[k]
      <3>1. \A k \in 0 .. Len(b) : k \in 0 .. MaxSeqs /\ k <= Len(b)
        BY <1>1, <1>3
      <3> QED
        BY <1>6, <3>1
    <2>3. ASSUME NEW k \in 1 .. Len(b)
          PROVE  /\ device'.seqLens[k - 1] = pinned.seqLens[k - 1]
                 /\ \A c \in 1 .. Len(b[k].blocks) :
                       device'.tables[k - 1][c - 1] = pinned.tables[k - 1][c - 1]
      <3>1. PICK m \in 0 .. MaxSeqs - 1 : m = k - 1 /\ m < Len(b)
        BY <1>1, <1>3
      <3>2. device'.seqLens[m] = pinned.seqLens[m]
        BY <1>6, <3>1
      <3>3. ASSUME NEW c \in 1 .. Len(b[k].blocks)
            PROVE  device'.tables[m][c - 1] = pinned.tables[m][c - 1]
        <4>1. PICK d \in 0 .. TableWidth - 1 : d = c - 1 /\ d < HostStride(b)
          <5>1. Len(b[k].blocks) \in Nat /\ Len(b[k].blocks) <= HostStride(b)
            BY <1>3, <1>5
          <5>2. c - 1 \in 0 .. TableWidth - 1 /\ c - 1 < HostStride(b)
            BY <1>1, <1>5, <5>1
          <5> QED
            BY <5>2
        <4>2. device'.tables[m][d] = pinned.tables[m][d]
          BY <1>6, <3>1, <4>1
        <4> QED
          BY <4>1, <4>2
      <3> QED
        BY <3>1, <3>2, <3>3
    <2> QED
      BY <2>1, <2>2, <2>3 DEF EntriesAre
  <1>10. SamplesAre(device, b)'
    <2>1. \A j \in 0 .. NumSamples(b) - 1 :
             /\ pinned.logitsIndices[j] = Starts(b)[Sampling(b)[j + 1]] - 1
             /\ pinned.params[j] = Sampled(b, j).req
      BY DEF Holds, SamplesAre
    <2>2. \A j \in 0 .. NumSamples(b) - 1 : j \in 0 .. MaxSeqs - 1 /\ j < NumSamples(b)
      BY <1>1, <1>3
    <2>3. \A j \in 0 .. NumSamples(b) - 1 :
             device'.logitsIndices[j] = pinned.logitsIndices[j] /\ device'.params[j] = pinned.params[j]
      BY <1>6, <2>2
    <2> QED
      BY <2>1, <2>3 DEF SamplesAre
  <1> QED
    BY <1>8, <1>9, <1>10 DEF Holds

LEMMA KeysStay ==
  ASSUME HostStays, kv' = kv, NEW b, NEW l, KeysTo(b, l)
  PROVE  KeysTo(b, l)'
  <1>1. computed' = computed /\ table' = table
    BY DEF HostStays, reqVars
  <1>2. \A r, p : NewKey(b, r, p)' <=> NewKey(b, r, p)
    BY BatchStays
  <1>3. \A m, r, p : KeyIs(m, r, p)' <=> KeyIs(m, r, p)
    BY <1>1 DEF KeyIs
  <1> QED
    BY <1>1, <1>2, <1>3 DEF KeysTo

LEMMA HoldsStays ==
  ASSUME HostStays, device' = device, NEW b, Holds(device, b)
  PROVE  Holds(device, b)'
  <1>1. RowCount(b)' = RowCount(b)
    BY BatchStays
  <1>2. RowsAre(device, b)'
    BY <1>1 DEF Holds, RowsAre
  <1>3. EntriesAre(device, b)'
    BY DEF Holds, EntriesAre
  <1>4. SamplesAre(device, b)'
    BY DEF Holds, SamplesAre
  <1> QED
    BY <1>2, <1>3, <1>4 DEF Holds

\* The next stage of the batch's program keeps the invariant.
LEMMA ServesOn ==
  ASSUME ExecutorInv, stream # <<>>, HostStays, kv' = kv, pinned' = pinned, device' = device,
         NEW b, Serving(b), Running(b)'
  PROVE  ExecutorInv'
  <1>1. Serving(b)'
    BY BatchStays DEF Serving
  <1>2. "tokens" \in DOMAIN pinned' /\ "tokens" \in DOMAIN device'
    BY DEF ExecutorInv, HostInv
  <1> QED
    BY <1>1, <1>2, DeviceSettles

LEMMA CopyStep ==
  ASSUME ExecutorInv, RunCopy
  PROVE  ExecutorInv'
  <1>1. stream # <<>> /\ Head(stream).op = "copy" /\ stream' = Tail(stream)
    BY DEF RunCopy, Take
  <1>2. /\ HostStays /\ pinned' = pinned /\ kv' = kv
        /\ device' = Copied(pinned, Head(stream))
    BY DEF RunCopy, HostStays, hostVars, workVars
  <1>3. PICK b : Serving(b)
    BY <1>1, DeviceServes
  <1>4. Taken(b) /\ IsBatch(b) /\ Running(b)
    BY <1>3 DEF Serving, Taken
  <1>5. /\ Holds(pinned, b) /\ KeysTo(b, 1)
        /\ TakesNext(b, Copy(RowCount(b), Len(b), NumSamples(b), HostStride(b)), 1)
    BY <1>1, <1>4, HeadTellsStage
  <1>6. stream' = Left(b, 1)'
    BY <1>1, <1>2, <1>5, BatchStays DEF TakesNext
  <1>7. Holds(device, b)'
    <2>1. device' = Copied(pinned, Copy(RowCount(b), Len(b), NumSamples(b), HostStride(b)))
      BY <1>2, <1>5 DEF TakesNext
    <2>2. ReqInv /\ graphs \in BOOLEAN
      BY DEF ExecutorInv, HostInv
    <2> QED
      BY <1>2, <1>4, <1>5, <2>1, <2>2, CopyHolds
  <1>8. KeysTo(b, 1)'
    BY <1>2, <1>5, KeysStay
  <1>9. Serving(b)'
    <2>1. Running(b)'
      BY <1>6, <1>7, <1>8 DEF Running
    <2> QED
      BY <1>2, <1>3, <2>1, BatchStays DEF Serving
  <1>10. "tokens" \in DOMAIN pinned' /\ "tokens" \in DOMAIN device'
    <2>1. "tokens" \in DOMAIN device'
      BY <1>2 DEF Copied
    <2> QED
      BY <1>2, <2>1 DEF ExecutorInv, HostInv
  <1> QED
    BY <1>1, <1>2, <1>9, <1>10, DeviceSettles

LEMMA EmbedStep ==
  ASSUME ExecutorInv, RunEmbed
  PROVE  ExecutorInv'
  <1>1. stream # <<>> /\ Head(stream).op = "embed" /\ stream' = Tail(stream)
    BY DEF RunEmbed, Take
  <1>2. HostStays /\ pinned' = pinned /\ device' = device /\ kv' = kv
    BY DEF RunEmbed, HostStays, hostVars
  <1>3. PICK b : Serving(b)
    BY <1>1, DeviceServes
  <1>4. Taken(b) /\ IsBatch(b) /\ Running(b)
    BY <1>3 DEF Serving, Taken
  <1>5. Holds(device, b) /\ KeysTo(b, 1) /\ TakesNext(b, Embed(RowCount(b)), 2)
    BY <1>1, <1>4, HeadTellsStage
  <1>6. 4 * 1 - 2 = 2 /\ 4 * 1 - 4 = 0 /\ 1 \in Layers
    BY LayersAreNat DEF Layers
  <1>7. stream' = Left(b, 4 * 1 - 2)'
    BY <1>1, <1>2, <1>5, <1>6, BatchStays DEF TakesNext
  <1>8. ResidualIs(b, 4 * 1 - 4)'
    <2>1. Head(stream).rows = RowCount(b)
      BY <1>5 DEF TakesNext, Embed
    <2>2. \A i \in 0 .. Size(b) - 1 : i \in Rows /\ i \in Counted(RowCount(b))
      <3>1. ReqInv /\ graphs \in BOOLEAN /\ RowsAre(device, b)
        BY <1>5 DEF ExecutorInv, HostInv, Holds
      <3> QED
        BY <1>4, <3>1, DeviceRows
    <2>3. ASSUME NEW i \in 0 .. Size(b) - 1 PROVE residual'[i] = Exact(TokenAt(b, i), 0, 0)
      <3>1. device.tokens[i] = TokenAt(b, i)
        BY <1>5 DEF Holds, RowsAre
      <3>2. residual'[i] = [tok |-> device.tokens[i], pos |-> 0, at |-> 0, exact |-> TRUE]
        BY <2>1, <2>2 DEF RunEmbed
      <3> QED
        BY <3>1, <3>2 DEF Exact
    <2> QED
      BY <1>6, <2>3 DEF ResidualIs
  <1>9. BeforeLayer(b, 1)'
    BY <1>2, <1>5, <1>7, <1>8, HoldsStays, KeysStay DEF BeforeLayer
  <1>10. Running(b)'
    BY <1>6, <1>9 DEF Running
  <1> QED
    BY <1>1, <1>2, <1>3, <1>10, ServesOn

\* A layer's kv cache update: the rows' keys get to their slots, and no other
\* key of any request is written over.
LEMMA UpdateAddsKeys ==
  ASSUME ReqInv, graphs \in BOOLEAN, DOMAIN kv = Layers, HostStays,
         NEW b, Taken(b), RowsAre(device, b), NEW l \in Layers, KeysTo(b, l),
         NEW x, \A i \in 0 .. Size(b) - 1 :
                   x[i] = Exact(TokenAt(b, i), PositionOf(b, i), KeyAt(l)),
         kv' = [kv EXCEPT ![l] = CacheUpdate(@, x, RowCount(b))]
  PROVE  KeysTo(b, l + 1)' /\ DOMAIN kv' = DOMAIN kv
  <1> DEFINE new == CacheUpdate(kv[l], x, RowCount(b))
  <1>1. kv'[l] = new /\ \A m \in Layers : m # l => kv'[m] = kv[m]
    BY DEF Layers
  <1>2. computed' = computed /\ table' = table
    BY DEF HostStays, reqVars
  <1>3. Writers(RowCount(b)) = 0 .. Size(b) - 1
        /\ \A i, j \in 0 .. Size(b) - 1 : device.slots[i] = device.slots[j] => i = j
    BY DeviceRows
  <1>4. \A s \in Slots :
           new[s] = IF \E i \in 0 .. Size(b) - 1 : device.slots[i] = s
                    THEN x[CHOOSE i \in 0 .. Size(b) - 1 : device.slots[i] = s]
                    ELSE kv[l][s]
    BY <1>3 DEF CacheUpdate
  <1> HIDE DEF new
  <1>5. \A i \in 0 .. Size(b) - 1 :
           device.slots[i] = SlotOf(table[RowReq(b, i)], PositionOf(b, i))
    BY RowFacts DEF RowsAre
  <1>6. ASSUME NEW r \in Requests, NEW p \in 0 .. computed[r] - 1, NewKey(b, r, p)
        PROVE  new[SlotOf(table[r], p)] = Exact(Tok(r, p), p, KeyAt(l))
    <2>1. PICK i \in 0 .. Size(b) - 1 : RowReq(b, i) = r /\ PositionOf(b, i) = p
      BY <1>6, RowFacts
    <2>2. SlotOf(table[r], p) \in Slots /\ device.slots[i] = SlotOf(table[r], p)
      BY <1>5, <2>1, SlotFacts
    <2>3. (CHOOSE j \in 0 .. Size(b) - 1 : device.slots[j] = SlotOf(table[r], p)) = i
      BY <1>3, <2>2
    <2>4. new[SlotOf(table[r], p)] = x[i]
      BY <1>4, <2>2, <2>3
    <2> QED
      BY <2>1, <2>4 DEF TokenAt, RowReq
  <1>7. ASSUME NEW r \in Requests, NEW p \in 0 .. computed[r] - 1, ~NewKey(b, r, p)
        PROVE  new[SlotOf(table[r], p)] = kv[l][SlotOf(table[r], p)]
    <2>1. SlotOf(table[r], p) \in Slots
      BY SlotFacts
    <2>2. ASSUME NEW i \in 0 .. Size(b) - 1, device.slots[i] = SlotOf(table[r], p)
          PROVE  FALSE
      <3>1. /\ RowReq(b, i) \in Requests /\ PositionOf(b, i) \in 0 .. computed[RowReq(b, i)] - 1
            /\ NewKey(b, RowReq(b, i), PositionOf(b, i))
        BY RowFacts
      <3>2. SlotOf(table[RowReq(b, i)], PositionOf(b, i)) = SlotOf(table[r], p)
        BY <1>5, <2>2
      <3>3. RowReq(b, i) = r /\ PositionOf(b, i) = p
        BY <3>1, <3>2, SlotFacts
      <3> QED
        BY <1>7, <3>1, <3>3
    <2> QED
      BY <1>4, <2>1, <2>2
  <1>8. ASSUME NEW m \in Layers, NEW r \in Requests, NEW p \in 0 .. computed[r] - 1,
               m < l + 1 \/ ~NewKey(b, r, p)
        PROVE  kv'[m][SlotOf(table[r], p)] = Exact(Tok(r, p), p, KeyAt(m))
    <2>1. m \in Nat /\ l \in Nat
      BY DEF Layers
    <2>2. CASE m = l
      <3>1. CASE NewKey(b, r, p)
        BY <1>1, <1>6, <2>2, <3>1
      <3>2. CASE ~NewKey(b, r, p)
        <4>1. KeyIs(l, r, p)
          BY <3>2 DEF KeysTo
        <4> QED
          BY <1>1, <1>7, <2>2, <3>2, <4>1 DEF KeyIs
      <3> QED
        BY <3>1, <3>2
    <2>3. CASE m # l
      <3>1. m < l \/ ~NewKey(b, r, p)
        BY <1>8, <2>1, <2>3
      <3>2. KeyIs(m, r, p)
        BY <3>1 DEF KeysTo
      <3> QED
        BY <1>1, <2>3, <3>2 DEF KeyIs
    <2> QED
      BY <2>2, <2>3
  <1>9. KeysTo(b, l + 1)'
    <2>1. \A r, p : NewKey(b, r, p)' <=> NewKey(b, r, p)
      BY BatchStays
    <2>2. \A m, r, p : KeyIs(m, r, p)' <=> kv'[m][SlotOf(table[r], p)] = Exact(Tok(r, p), p, KeyAt(m))
      BY <1>2 DEF KeyIs
    <2> QED
      BY <1>2, <1>8, <2>1, <2>2 DEF KeysTo
  <1>10. DOMAIN kv' = DOMAIN kv
    OBVIOUS
  <1> QED
    BY <1>9, <1>10

LEMMA PassedExact ==
  ASSUME NEW tok, NEW pos, NEW at, NEW to, at + 1 = to
  PROVE  Passed(Exact(tok, pos, at)) = Exact(tok, pos, to)
  <1>1. ASSUME NEW f, f = Passed(Exact(tok, pos, at)) PROVE f = Exact(tok, pos, to)
    BY <1>1 DEF Passed, Exact
  <1> QED
    BY <1>1

LEMMA PrepareStep ==
  ASSUME ExecutorInv, RunPrepare
  PROVE  ExecutorInv'
  <1>1. stream # <<>> /\ Head(stream).op = "prepare" /\ stream' = Tail(stream)
    BY DEF RunPrepare, Take
  <1>2. HostStays /\ pinned' = pinned /\ device' = device /\ residual' = residual
    BY DEF RunPrepare, HostStays, hostVars
  <1>3. PICK b : Serving(b)
    BY <1>1, DeviceServes
  <1>4. Taken(b) /\ IsBatch(b) /\ Running(b)
    BY <1>3 DEF Serving, Taken
  <1>5. PICK l \in Layers :
           BeforeLayer(b, l) /\ TakesNext(b, Prepare(l, RowCount(b), "final"), 4 * l - 1)
    BY <1>1, <1>4, HeadTellsStage
  <1>6. Holds(device, b) /\ KeysTo(b, l) /\ ResidualIs(b, 4 * l - 4)
    BY <1>5 DEF BeforeLayer
  <1>7. stream' = Left(b, 4 * l - 1)'
    BY <1>1, <1>2, <1>5, BatchStays DEF TakesNext
  <1>8. ReqInv /\ graphs \in BOOLEAN /\ DOMAIN kv = Layers /\ RowsAre(device, b)
    BY <1>1, <1>6, DeviceServes DEF ExecutorInv, Holds
  <1> DEFINE rows == RowCount(b)
             normed == RmsNorm(residual, hidden, rows)
             rotated == Rotate(Project(normed, qkv, rows), rows)
  <1>9. /\ qkv' = rotated
        /\ kv' = [kv EXCEPT ![l] = CacheUpdate(@, rotated, rows)]
    <2>1. /\ Head(stream).rows = RowCount(b) /\ Head(stream).layer = l
          /\ Head(stream).cache = "final"
      BY <1>5 DEF TakesNext, Prepare
    <2> QED
      BY <2>1 DEF RunPrepare
  <1>10. ASSUME NEW i \in 0 .. Size(b) - 1
         PROVE  rotated[i] = Exact(TokenAt(b, i), PositionOf(b, i), 4 * l - 3)
    <2>1. i \in Rows /\ i < rows /\ i \in Counted(rows)
      BY <1>4, <1>8, DeviceRows
    <2>2. residual[i] = Exact(TokenAt(b, i), 0, 4 * l - 4)
      BY <1>6 DEF ResidualIs
    <2>3. 4 * l - 4 + 1 = 4 * l - 3
      BY DEF Layers
    <2>4. Passed(residual[i]) = Exact(TokenAt(b, i), 0, 4 * l - 3)
      BY <2>2, <2>3, PassedExact
    <2>5. normed[i] = Exact(TokenAt(b, i), 0, 4 * l - 3)
      BY <2>1, <2>4 DEF RmsNorm
    <2>6. Project(normed, qkv, rows)[i] = Exact(TokenAt(b, i), 0, 4 * l - 3)
      <3> HIDE DEF normed
      <3> QED
        BY <2>1, <2>5 DEF Project
    <2>7. device.positions[i] = PositionOf(b, i)
      BY <1>8 DEF RowsAre
    <2>8. rotated[i] = [Exact(TokenAt(b, i), 0, 4 * l - 3) EXCEPT !.pos = PositionOf(b, i)]
      <3> HIDE DEF normed
      <3> QED
        BY <2>1, <2>6, <2>7, HeadsAreRotated DEF Rotate
    <2> QED
      BY <2>8 DEF Exact
  <1> HIDE DEF rotated
  <1>11. KeyAt(l) = 4 * l - 3
    BY DEF KeyAt, Layers
  <1>12. KeysTo(b, l + 1)' /\ DOMAIN kv' = DOMAIN kv
    <2>1. \A i \in 0 .. Size(b) - 1 : rotated[i] = Exact(TokenAt(b, i), PositionOf(b, i), KeyAt(l))
      BY <1>10, <1>11
    <2>2. kv' = [kv EXCEPT ![l] = CacheUpdate(@, rotated, RowCount(b))]
      BY <1>9
    <2> QED
      BY <1>2, <1>4, <1>6, <1>8, <2>1, <2>2, UpdateAddsKeys
  <1>13. QkvIs(b, 4 * l - 3)' /\ ResidualIs(b, 4 * l - 4)'
    BY <1>2, <1>6, <1>9, <1>10 DEF QkvIs, ResidualIs
  <1>14. BeforeAttend(b, l)'
    BY <1>2, <1>6, <1>7, <1>12, <1>13, HoldsStays DEF BeforeAttend
  <1>15. Serving(b)'
    <2>1. Running(b)'
      BY <1>14 DEF Running
    <2> QED
      BY <1>2, <1>3, <2>1, BatchStays DEF Serving
  <1>16. "tokens" \in DOMAIN pinned' /\ "tokens" \in DOMAIN device'
    BY <1>2 DEF ExecutorInv, HostInv
  <1> QED
    BY <1>1, <1>2, <1>12, <1>15, <1>16, DeviceSettles

\* Each tile of the grid lies in one request.
LEMMA TileIsOfRequest ==
  ASSUME NEW n \in Nat \ {0}, NEW starts, Ascending(starts, n), starts[0] = 0,
         NEW t \in 0 .. GridSize(starts[n], n) - 1
  PROVE  RequestOf(starts, n, t) \in 0 .. n - 1 /\ FirstRow(starts, n, t) \in Nat
  <1> DEFINE T == {r \in 0 .. n : t < FirstTile(starts, r)}
  <1>1. \A r \in 0 .. n : FirstTile(starts, r) \in Nat
    BY FirstTileGrows
  <1>2. GridSize(starts[n], n) = FirstTile(starts, n) /\ n \in 0 .. n /\ 0 \in 0 .. n
    BY DEF GridSize, FirstTile
  <1>3. t \in Nat /\ t < FirstTile(starts, n)
    BY <1>1, <1>2
  <1>4. n \in T /\ T \in SUBSET Nat
    BY <1>2, <1>3
  <1>5. PICK r \in T : \A y \in T : r <= y
    <2> HIDE DEF T
    <2> QED
      BY <1>4, LeastIndex
  <1>6. r \in 0 .. n /\ t < FirstTile(starts, r)
    OBVIOUS
  <1>7. r # 0
    <2>1. FirstTile(starts, 0) = 0
      <3>1. 0 * GroupSize = 0 /\ 0 \div TileRows = 0
        BY PagedAttentionAssumption, TileRowsIsNat
      <3> QED
        BY <3>1 DEF FirstTile
    <2> QED
      BY <1>3, <1>6, <2>1
  <1>8. PICK s \in 0 .. n - 1 : r = s + 1
    <2>1. r - 1 \in 0 .. n - 1 /\ r = r - 1 + 1
      BY <1>6, <1>7
    <2> QED
      BY <2>1
  <1>9. FirstTile(starts, s) <= t
    <2>1. s \in 0 .. n /\ ~(r <= s)
      BY <1>8
    <2>2. s \notin T
      <3> HIDE DEF T
      <3> QED
        BY <1>5, <2>1
    <2> QED
      BY <1>1, <1>3, <2>1, <2>2
  <1>10. RequestOf(starts, n, t) = s
    BY <1>3, <1>6, <1>8, <1>9, SearchFinds
  <1>11. FirstRow(starts, n, t) \in Nat
    <2>1. s \in 0 .. n
      OBVIOUS
    <2>2. t - FirstTile(starts, s) \in Nat
      BY <1>1, <1>3, <1>9, <2>1
    <2> QED
      BY <1>10, <2>2, TileRowsIsNat, ProductIsNat DEF FirstRow
  <1> QED
    BY <1>10, <1>11

LEMMA RowBelow ==
  ASSUME NEW g \in Nat \ {0}, NEW x \in Nat, NEW y \in Nat, x < y, NEW h \in 0 .. g - 1
  PROVE  x * g + h \in Nat /\ x * g + h < y * g /\ (x * g + h) \div g = x
  <1>1. PICK m \in Nat : y = x + 1 + m
    <2>1. y - x - 1 \in Nat /\ y = x + 1 + (y - x - 1)
      OBVIOUS
    <2> QED
      BY <2>1
  <1>2. y * g = x * g + g + m * g
    BY <1>1
  <1>3. x * g \in Nat /\ m * g \in Nat /\ g * x = x * g
    BY <1>1, ProductIsNat
  <1>4. x * g + h \in Nat /\ x * g + h < y * g
    BY <1>2, <1>3
  <1>5. g * x <= x * g + h /\ x * g + h < g * x + g
    BY <1>3
  <1>6. (x * g + h) \div g = x
    BY <1>4, <1>5, QuotientIs
  <1> QED
    BY <1>4, <1>6

\* What the attention kernel finds on the device for row i: its request, and
\* the bounds of the tile, whichever it is.
LEMMA TilesOfBatch ==
  ASSUME NEW b, Taken(b), EntriesAre(device, b), NEW i \in 0 .. Size(b) - 1, NEW h \in Heads
  PROVE  /\ \E r \in 0 .. Len(b) - 1, t \in 0 .. GridSize(Size(b), Len(b)) - 1 :
               /\ i \in device.starts[r] .. device.starts[r + 1] - 1
               /\ RequestOf(device.starts, Len(b), t) = r
               /\ (i - device.starts[r]) * GroupSize + h \in RowsOf(device.starts, Len(b), t)
         /\ \A r \in 0 .. Len(b) - 1 :
               i \in device.starts[r] .. device.starts[r + 1] - 1 =>
                  /\ r + 1 = EntryOf(b, i)
                  /\ device.seqLens[r] = b[r + 1].offset + b[r + 1].len
                  /\ \E t \in 0 .. GridSize(Size(b), Len(b)) - 1 :
                        /\ RequestOf(device.starts, Len(b), t) = r
                        /\ (i - device.starts[r]) * GroupSize + h \in RowsOf(device.starts, Len(b), t)
                  /\ \A t \in 0 .. GridSize(Size(b), Len(b)) - 1 :
                        (i - device.starts[r]) * GroupSize + h \in RowsOf(device.starts, Len(b), t) =>
                           Seen((i - device.starts[r]) * GroupSize + h,
                                FirstRow(device.starts, Len(b), t),
                                device.seqLens[r] - QueryLen(device.starts, r),
                                device.seqLens[r]) = 0 .. PositionOf(b, i)
  <1> DEFINE starts == device.starts
             n == Len(b)
             grid == GridSize(Size(b), n)
  <1>1. IsBatch(b) /\ n \in Nat \ {0}
        /\ \A k \in 1 .. n : b[k].offset \in Nat /\ b[k].len \in Nat \ {0}
    BY BatchEntries DEF Taken
  <1>2. \A k \in 0 .. n : starts[k] = Starts(b)[k]
    BY DEF EntriesAre
  <1>3. /\ Starts(b)[0] = 0 /\ Ascending(Starts(b), n)
        /\ \A k \in 0 .. n : Starts(b)[k] \in Nat
        /\ \A k \in 1 .. n : Starts(b)[k] = Starts(b)[k - 1] + b[k].len
    BY <1>1, BatchStarts
  <1>4. Ascending(starts, n) /\ starts[0] = 0 /\ starts[n] = Size(b)
    <2>1. \A k \in 0 .. n - 1 : k \in 0 .. n /\ k + 1 \in 0 .. n
      BY <1>1
    <2>2. 0 \in 0 .. n /\ n \in 0 .. n
      BY <1>1
    <2> HIDE DEF starts, n
    <2>3. Ascending(starts, n)
      BY <1>2, <1>3, <2>1 DEF Ascending
    <2> QED
      BY <1>2, <1>3, <2>2, <2>3 DEF Size, n
  <1>5. GroupSize \in Nat \ {0} /\ h \in 0 .. GroupSize - 1
    BY PagedAttentionAssumption DEF Heads
  <1> HIDE DEF starts, n
  <1>6. ASSUME NEW r \in 0 .. n - 1, i \in starts[r] .. starts[r + 1] - 1
        PROVE  /\ r + 1 = EntryOf(b, i)
               /\ device.seqLens[r] = b[r + 1].offset + b[r + 1].len
               /\ \E t \in 0 .. grid - 1 :
                     /\ RequestOf(starts, n, t) = r
                     /\ (i - starts[r]) * GroupSize + h \in RowsOf(starts, n, t)
               /\ \A t \in 0 .. grid - 1 :
                     (i - starts[r]) * GroupSize + h \in RowsOf(starts, n, t) =>
                        Seen((i - starts[r]) * GroupSize + h, FirstRow(starts, n, t),
                             device.seqLens[r] - QueryLen(starts, r),
                             device.seqLens[r]) = 0 .. PositionOf(b, i)
    <2>1. PICK k \in 1 .. n : k = r + 1 /\ k - 1 = r
      BY <1>1
    <2>2. r \in 0 .. n /\ k \in 0 .. n
      BY <1>1, <2>1
    <2>3. /\ starts[r] \in Nat /\ starts[r + 1] = starts[r] + b[k].len
          /\ starts[r] = Starts(b)[k - 1] /\ starts[r + 1] = Starts(b)[k]
          /\ b[k].offset \in Nat /\ b[k].len \in Nat
      BY <1>1, <1>2, <1>3, <2>1, <2>2
    <2>4. /\ EntryOf(b, i) = k
          /\ PositionOf(b, i) = b[k].offset + i - Starts(b)[k - 1]
      BY <1>1, <1>6, <2>3, RowsOfEntries DEF n
    <2>5. device.seqLens[r] = b[k].offset + b[k].len
      BY <2>1 DEF EntriesAre, n
    <2> DEFINE x == i - starts[r]
               row == x * GroupSize + h
    <2>6. QueryLen(starts, r) = b[k].len /\ x \in Nat /\ x < b[k].len
      BY <1>6, <2>3 DEF QueryLen
    <2>7. PositionOf(b, i) = b[k].offset + x
      BY <2>3, <2>4, <2>6
    <2> HIDE DEF x
    <2>8. row \in Nat /\ row < QueryLen(starts, r) * GroupSize /\ row \div GroupSize = x
      BY <1>5, <2>3, <2>6, RowBelow
    <2>9. \E t \in 0 .. grid - 1 : RequestOf(starts, n, t) = r /\ row \in RowsOf(starts, n, t)
      <3> HIDE DEF row
      <3>1. \E t \in 0 .. GridSize(starts[n], n) - 1 :
               RequestOf(starts, n, t) = r /\ row \in RowsOf(starts, n, t)
        BY <1>1, <1>4, <2>8, TileOfRow
      <3> QED
        BY <1>4, <3>1
    <2>10. ASSUME NEW t \in 0 .. grid - 1, row \in RowsOf(starts, n, t)
           PROVE  Seen(row, FirstRow(starts, n, t), device.seqLens[r] - QueryLen(starts, r),
                       device.seqLens[r]) = 0 .. PositionOf(b, i)
      <3>1. FirstRow(starts, n, t) \in Nat
        BY <1>1, <1>4, TileIsOfRequest
      <3> HIDE DEF row
      <3>2. row \in FirstRow(starts, n, t) .. FirstRow(starts, n, t) + TileRows - 1
        BY <2>10 DEF RowsOf
      <3>3. /\ device.seqLens[r] - QueryLen(starts, r) = b[k].offset
            /\ device.seqLens[r] \in Nat
            /\ b[k].offset + row \div GroupSize < device.seqLens[r]
        BY <2>3, <2>5, <2>6, <2>8
      <3>4. Seen(row, FirstRow(starts, n, t), b[k].offset, device.seqLens[r])
               = 0 .. b[k].offset + row \div GroupSize
        BY <2>3, <3>1, <3>2, <3>3, SeenIsPrefix
      <3> QED
        BY <2>7, <2>8, <3>3, <3>4
    <2> QED
      BY <2>1, <2>4, <2>5, <2>9, <2>10 DEF x
  <1>7. \E r \in 0 .. n - 1 : i \in starts[r] .. starts[r + 1] - 1
    <2>1. EntryOf(b, i) \in 1 .. n
          /\ i \in Starts(b)[EntryOf(b, i) - 1] .. Starts(b)[EntryOf(b, i)] - 1
      BY <1>1, RowsOfEntries DEF n
    <2>2. PICK r \in 0 .. n - 1 : r = EntryOf(b, i) - 1 /\ r + 1 = EntryOf(b, i)
      BY <1>1, <2>1
    <2>3. r \in 0 .. n /\ r + 1 \in 0 .. n
      BY <1>1
    <2> QED
      BY <1>2, <2>1, <2>2, <2>3
  <1>8. \E r \in 0 .. n - 1, t \in 0 .. grid - 1 :
               /\ i \in starts[r] .. starts[r + 1] - 1
               /\ RequestOf(starts, n, t) = r
               /\ (i - starts[r]) * GroupSize + h \in RowsOf(starts, n, t)
    BY <1>6, <1>7
  <1> QED
    BY <1>6, <1>8 DEF starts, n

\* An exact query that sees the exact keys up to its own position is exact
\* behind attention.
LEMMA AttendedExact ==
  ASSUME ReqInv, NEW b, Taken(b), EntriesAre(device, b), NEW l \in Layers, KeysTo(b, l + 1),
         NEW i \in 0 .. Size(b) - 1,
         qkv[i] = Exact(TokenAt(b, i), PositionOf(b, i), 4 * l - 3)
  PROVE  Attended(qkv[i], l, EntryOf(b, i) - 1, 0 .. PositionOf(b, i))
            = Exact(TokenAt(b, i), PositionOf(b, i), 4 * l - 2)
  <1> DEFINE k == EntryOf(b, i)
             pos == PositionOf(b, i)
             req == RowReq(b, i)
             q == qkv[i]
             key(p) == kv[l][device.tables[k - 1][p \div BlockSize] * BlockSize + (p % BlockSize)]
  <1>1. /\ k \in 1 .. Len(b) /\ req \in Requests /\ pos \in 0 .. computed[req] - 1
        /\ b[k].blocks = table[req]
    BY RowFacts
  <1>2. q = Exact(Tok(req, pos), pos, 4 * l - 3)
    BY DEF TokenAt, RowReq
  <1>3. q.tok = Tok(req, pos) /\ q.pos = pos /\ q.exact = TRUE /\ q.tok[1] = req
    BY <1>2 DEF Exact, Tok
  <1>4. ASSUME NEW p \in 0 .. pos PROVE key(p) = Exact(Tok(req, p), p, KeyAt(l))
    <2>1. p \in 0 .. computed[req] - 1 /\ computed[req] \in Nat
      <3>1. computed[req] \in Nat
        BY <1>1 DEF ReqInv
      <3> QED
        BY <1>1, <3>1
    <2>2. KeyIs(l, req, p)
      <3>1. l < l + 1
        BY DEF Layers
      <3> QED
        BY <1>1, <2>1, <3>1 DEF KeysTo
    <2>3. p \div BlockSize + 1 \in 1 .. Len(table[req])
      BY <1>1, <2>1, SlotFacts
    <2>4. PICK d \in Nat : d = p \div BlockSize
      <3>1. p \div BlockSize \in Nat
        <4>1. p \in Nat /\ BlockSize \in Nat \ {0}
          BY <2>1, ExecutorAssumption
        <4> QED
          BY <4>1, Quotient
      <3> QED
        BY <3>1
    <2>5. device.tables[k - 1][d] = table[req][d + 1]
      <3>1. \A c \in 1 .. Len(b[k].blocks) : device.tables[k - 1][c - 1] = b[k].blocks[c]
        BY <1>1 DEF EntriesAre
      <3>2. d + 1 \in 1 .. Len(b[k].blocks) /\ d + 1 - 1 = d
        BY <1>1, <2>3, <2>4
      <3> HIDE DEF k, req
      <3>3. device.tables[k - 1][d + 1 - 1] = b[k].blocks[d + 1]
        BY <3>1, <3>2
      <3> QED
        BY <1>1, <3>2, <3>3
    <2>6. key(p) = kv[l][SlotOf(table[req], p)]
      <3>1. key(p) = kv[l][device.tables[k - 1][d] * BlockSize + (p % BlockSize)]
        BY <2>4
      <3>2. SlotOf(table[req], p) = table[req][d + 1] * BlockSize + (p % BlockSize)
        BY <2>4 DEF SlotOf
      <3> HIDE DEF key, k, req
      <3> QED
        BY <2>5, <3>1, <3>2
    <2> HIDE DEF key
    <2> QED
      BY <2>2, <2>6 DEF KeyIs
  <1> HIDE DEF k, pos, req, q, key
  <1>5. Passed(q) = Exact(Tok(req, pos), pos, 4 * l - 2)
    <2>1. 4 * l - 3 + 1 = 4 * l - 2
      BY DEF Layers
    <2> QED
      BY <1>2, <2>1, PassedExact
  <1>6. /\ q.exact /\ q.tok = Tok(q.tok[1], q.pos) /\ 0 .. pos = 0 .. q.pos
        /\ \A p \in 0 .. pos : key(p) = Exact(Tok(q.tok[1], p), p, KeyAt(l))
    BY <1>3, <1>4
  <1>7. Attended(q, l, k - 1, 0 .. pos) =
           [Passed(q) EXCEPT !.exact =
              /\ q.exact /\ q.tok = Tok(q.tok[1], q.pos) /\ 0 .. pos = 0 .. q.pos
              /\ \A p \in 0 .. pos : key(p) = Exact(Tok(q.tok[1], p), p, KeyAt(l))]
    BY DEF Attended, key
  <1>8. Attended(q, l, k - 1, 0 .. pos) = [Passed(q) EXCEPT !.exact = TRUE]
    BY <1>6, <1>7
  <1>9. Attended(q, l, k - 1, 0 .. pos) = Exact(Tok(req, pos), pos, 4 * l - 2)
    <2>1. ASSUME NEW f, f = [Exact(Tok(req, pos), pos, 4 * l - 2) EXCEPT !.exact = TRUE]
          PROVE  f = Exact(Tok(req, pos), pos, 4 * l - 2)
      BY <2>1 DEF Exact
    <2> QED
      BY <1>5, <1>8, <2>1
  <1> QED
    BY <1>9 DEF k, pos, req, q, TokenAt, RowReq

LEMMA AttendStep ==
  ASSUME ExecutorInv, RunAttend
  PROVE  ExecutorInv'
  <1>1. stream # <<>> /\ Head(stream).op = "attend" /\ stream' = Tail(stream)
    BY DEF RunAttend, Take
  <1>2. /\ HostStays /\ pinned' = pinned /\ device' = device /\ residual' = residual
        /\ kv' = kv
    BY DEF RunAttend, HostStays, hostVars
  <1>3. PICK b : Serving(b)
    BY <1>1, DeviceServes
  <1>4. Taken(b) /\ IsBatch(b) /\ Running(b)
    BY <1>3 DEF Serving, Taken
  <1>5. PICK l \in Layers : BeforeAttend(b, l) /\ TakesNext(b, Attend(l, Size(b), Len(b)), 4 * l)
    BY <1>1, <1>4, HeadTellsStage
  <1>6. /\ Holds(device, b) /\ KeysTo(b, l + 1) /\ ResidualIs(b, 4 * l - 4)
        /\ QkvIs(b, 4 * l - 3)
    BY <1>5 DEF BeforeAttend
  <1>7. stream' = Left(b, 4 * l)'
    BY <1>1, <1>2, <1>5, BatchStays DEF TakesNext
  <1>8. ReqInv /\ graphs \in BOOLEAN /\ RowsAre(device, b) /\ EntriesAre(device, b)
    BY <1>1, <1>6, DeviceServes DEF ExecutorInv, Holds
  <1>9. /\ Head(stream).layer = l /\ Head(stream).n = Size(b) /\ Head(stream).reqs = Len(b)
    BY <1>5 DEF TakesNext, Attend
  <1> DEFINE starts == device.starts
             n == Len(b)
             grid == GridSize(Size(b), n)
             Of(r, row, t) == RequestOf(starts, n, t) = r /\ row \in RowsOf(starts, n, t)
  <1>10. attnOut' = [i \in Rows |-> [h \in Heads |->
           IF \E r \in 0 .. n - 1, t \in 0 .. grid - 1 :
                 /\ i \in starts[r] .. starts[r + 1] - 1
                 /\ Of(r, (i - starts[r]) * GroupSize + h, t)
           THEN LET r == CHOOSE k \in 0 .. n - 1 : i \in starts[k] .. starts[k + 1] - 1
                    row == (i - starts[r]) * GroupSize + h
                    t == CHOOSE k \in 0 .. grid - 1 : Of(r, row, k)
                IN  Attended(qkv[i], l, r,
                             Seen(row, FirstRow(starts, n, t),
                                  device.seqLens[r] - QueryLen(starts, r),
                                  device.seqLens[r]))
           ELSE attnOut[i][h]]]
    <2> DEFINE Out(layer, tokens, reqs) == [i \in Rows |-> [h \in Heads |->
           IF \E r \in 0 .. reqs - 1, t \in 0 .. GridSize(tokens, reqs) - 1 :
                 /\ i \in starts[r] .. starts[r + 1] - 1
                 /\ RequestOf(starts, reqs, t) = r
                 /\ (i - starts[r]) * GroupSize + h \in RowsOf(starts, reqs, t)
           THEN LET r == CHOOSE k \in 0 .. reqs - 1 : i \in starts[k] .. starts[k + 1] - 1
                    row == (i - starts[r]) * GroupSize + h
                    t == CHOOSE k \in 0 .. GridSize(tokens, reqs) - 1 :
                            RequestOf(starts, reqs, k) = r /\ row \in RowsOf(starts, reqs, k)
                IN  Attended(qkv[i], layer, r,
                             Seen(row, FirstRow(starts, reqs, t),
                                  device.seqLens[r] - QueryLen(starts, r),
                                  device.seqLens[r]))
           ELSE attnOut[i][h]]]
    <2>1. attnOut' = Out(Head(stream).layer, Head(stream).n, Head(stream).reqs)
      BY DEF RunAttend
    <2>2. attnOut' = Out(l, Size(b), Len(b))
      <3> HIDE DEF Out
      <3> QED
        BY <1>9, <2>1
    <2> QED
      BY <2>2
  <1>11. ASSUME NEW i \in 0 .. Size(b) - 1, NEW h \in Heads
         PROVE  attnOut'[i][h] = Exact(TokenAt(b, i), PositionOf(b, i), 4 * l - 2)
    <2> DEFINE r == CHOOSE k \in 0 .. n - 1 : i \in starts[k] .. starts[k + 1] - 1
               row == (i - starts[r]) * GroupSize + h
               t == CHOOSE k \in 0 .. grid - 1 : Of(r, row, k)
    <2>1. i \in Rows
      BY <1>4, <1>8, DeviceRows
    <2>2. \E s \in 0 .. n - 1, u \in 0 .. grid - 1 :
             /\ i \in starts[s] .. starts[s + 1] - 1
             /\ Of(s, (i - starts[s]) * GroupSize + h, u)
      BY <1>4, <1>8, TilesOfBatch
    <2>3. attnOut'[i][h] =
             Attended(qkv[i], l, r,
                      Seen(row, FirstRow(starts, n, t),
                           device.seqLens[r] - QueryLen(starts, r), device.seqLens[r]))
      <3> HIDE DEF Of, grid
      <3> QED
        BY <1>10, <2>1, <2>2
    <2>4. r \in 0 .. n - 1 /\ i \in starts[r] .. starts[r + 1] - 1
      <3> HIDE DEF Of, grid, starts
      <3> QED
        BY <2>2
    <2> HIDE DEF r
    <2>5. /\ r + 1 = EntryOf(b, i)
          /\ \E u \in 0 .. grid - 1 : Of(r, row, u)
          /\ \A u \in 0 .. grid - 1 : row \in RowsOf(starts, n, u) =>
                Seen(row, FirstRow(starts, n, u), device.seqLens[r] - QueryLen(starts, r),
                     device.seqLens[r]) = 0 .. PositionOf(b, i)
      BY <1>4, <1>8, <2>4, TilesOfBatch
    <2> HIDE DEF row
    <2>6. t \in 0 .. grid - 1 /\ row \in RowsOf(starts, n, t)
      <3>1. t \in 0 .. grid - 1 /\ Of(r, row, t)
        <4> HIDE DEF Of, grid
        <4> QED
          BY <2>5
      <3> QED
        BY <3>1
    <2> HIDE DEF t, grid, starts
    <2>7. attnOut'[i][h] = Attended(qkv[i], l, r, 0 .. PositionOf(b, i))
      BY <2>3, <2>5, <2>6
    <2>8. r = EntryOf(b, i) - 1
      BY <2>4, <2>5 DEF n
    <2>9. qkv[i] = Exact(TokenAt(b, i), PositionOf(b, i), 4 * l - 3)
      BY <1>6 DEF QkvIs
    <2> QED
      BY <1>4, <1>6, <1>8, <2>7, <2>8, <2>9, AttendedExact
  <1>12. AttnOutIs(b, 4 * l - 2)' /\ ResidualIs(b, 4 * l - 4)'
    BY <1>2, <1>6, <1>11 DEF AttnOutIs, ResidualIs
  <1>13. BeforeProject(b, l)'
    BY <1>2, <1>6, <1>7, <1>12, HoldsStays, KeysStay DEF BeforeProject
  <1>14. Running(b)'
    BY <1>13 DEF Running
  <1> QED
    BY <1>1, <1>2, <1>3, <1>14, ServesOn

LEMMA JoinedExact ==
  ASSUME NEW heads, NEW tok, NEW pos, NEW at,
         \A h \in Heads : heads[h] = Exact(tok, pos, at)
  PROVE  Joined(heads) = Exact(tok, 0, at)
  <1>1. 0 \in Heads
    BY PagedAttentionAssumption DEF Heads
  <1>2. \A h \in Heads : heads[h].exact /\ heads[h].tok = heads[0].tok
    BY <1>1 DEF Exact
  <1>3. Joined(heads) = [heads[0] EXCEPT !.pos = 0, !.exact = TRUE]
    BY <1>2 DEF Joined
  <1>4. ASSUME NEW f, f = [Exact(tok, pos, at) EXCEPT !.pos = 0, !.exact = TRUE]
        PROVE  f = Exact(tok, 0, at)
    BY <1>4 DEF Exact
  <1> QED
    BY <1>1, <1>3, <1>4

\* What a layer made of a row two kernels ago comes back to it.
LEMMA AddedExact ==
  ASSUME NEW x, NEW rows, NEW i \in Rows, i \in Counted(rows), NEW tok, NEW at \in Int, NEW to,
         to = at + 2, residual[i] = Exact(tok, 0, at), x[i] = Exact(tok, 0, to)
  PROVE  Added(x, rows)[i] = Exact(tok, 0, to)
  <1>1. Added(x, rows)[i] =
           [tok |-> residual[i].tok, pos |-> 0, at |-> x[i].at,
            exact |-> /\ residual[i].exact /\ x[i].exact
                      /\ residual[i].tok = x[i].tok
                      /\ x[i].at = residual[i].at + 2]
    BY DEF Added
  <1>2. /\ residual[i].tok = tok /\ residual[i].at = at /\ residual[i].exact = TRUE
        /\ x[i].tok = tok /\ x[i].at = to /\ x[i].exact = TRUE
    BY DEF Exact
  <1>3. (/\ residual[i].exact /\ x[i].exact
         /\ residual[i].tok = x[i].tok
         /\ x[i].at = residual[i].at + 2) = TRUE
    BY <1>2
  <1>4. Added(x, rows)[i] = [tok |-> tok, pos |-> 0, at |-> to, exact |-> TRUE]
    BY <1>1, <1>2, <1>3
  <1> QED
    BY <1>4 DEF Exact

LEMMA ProjectStep ==
  ASSUME ExecutorInv, RunProject
  PROVE  ExecutorInv'
  <1>1. stream # <<>> /\ Head(stream).op = "project" /\ stream' = Tail(stream)
    BY DEF RunProject, Take
  <1>2. HostStays /\ pinned' = pinned /\ device' = device /\ kv' = kv
    BY DEF RunProject, HostStays, hostVars
  <1>3. PICK b : Serving(b)
    BY <1>1, DeviceServes
  <1>4. Taken(b) /\ IsBatch(b) /\ Running(b)
    BY <1>3 DEF Serving, Taken
  <1>5. PICK l \in Layers : BeforeProject(b, l) /\ TakesNext(b, Combine(RowCount(b)), 4 * l + 1)
    BY <1>1, <1>4, HeadTellsStage
  <1>6. /\ Holds(device, b) /\ KeysTo(b, l + 1) /\ ResidualIs(b, 4 * l - 4)
        /\ AttnOutIs(b, 4 * l - 2)
    BY <1>5 DEF BeforeProject
  <1>7. stream' = Left(b, 4 * l + 1)'
    BY <1>1, <1>2, <1>5, BatchStays DEF TakesNext
  <1>8. ReqInv /\ graphs \in BOOLEAN /\ RowsAre(device, b)
    BY <1>1, <1>6, DeviceServes DEF ExecutorInv, Holds
  <1> DEFINE rows == RowCount(b)
             joined == [i \in Rows |-> Joined(attnOut[i])]
             out == Project(joined, hidden, rows)
  <1>9. residual' = Added(out, rows) /\ hidden' = RmsNorm(residual', out, rows)
    <2>1. Head(stream).rows = rows
      BY <1>5 DEF TakesNext, Combine
    <2> QED
      BY <2>1 DEF RunProject
  <1>10. ASSUME NEW i \in 0 .. Size(b) - 1
         PROVE  /\ residual'[i] = Exact(TokenAt(b, i), 0, 4 * l - 2)
                /\ hidden'[i] = Exact(TokenAt(b, i), 0, 4 * l - 1)
    <2>1. i \in Rows /\ i < rows /\ i \in Counted(rows)
      BY <1>4, <1>8, DeviceRows
    <2>2. joined[i] = Exact(TokenAt(b, i), 0, 4 * l - 2)
      <3>1. \A h \in Heads : attnOut[i][h] = Exact(TokenAt(b, i), PositionOf(b, i), 4 * l - 2)
        BY <1>6 DEF AttnOutIs
      <3>2. Joined(attnOut[i]) = Exact(TokenAt(b, i), 0, 4 * l - 2)
        BY <3>1, JoinedExact
      <3> QED
        BY <2>1, <3>2
    <2> HIDE DEF joined
    <2>3. out[i] = Exact(TokenAt(b, i), 0, 4 * l - 2)
      BY <2>1, <2>2 DEF Project
    <2>4. residual[i] = Exact(TokenAt(b, i), 0, 4 * l - 4)
      BY <1>6 DEF ResidualIs
    <2>5. 4 * l - 4 \in Int /\ 4 * l - 2 = 4 * l - 4 + 2 /\ 4 * l - 2 + 1 = 4 * l - 1
      BY DEF Layers
    <2> HIDE DEF out, rows
    <2>6. residual'[i] = Exact(TokenAt(b, i), 0, 4 * l - 2)
      BY <1>9, <2>1, <2>3, <2>4, <2>5, AddedExact
    <2>7. hidden'[i] = Passed(residual'[i])
      BY <1>9, <2>1 DEF RmsNorm
    <2> QED
      BY <2>5, <2>6, <2>7, PassedExact
  <1>11. ResidualIs(b, 4 * l - 2)' /\ HiddenIs(b, 4 * l - 1)'
    BY <1>10 DEF ResidualIs, HiddenIs
  <1>12. BeforeFeedForward(b, l)'
    BY <1>2, <1>6, <1>7, <1>11, HoldsStays, KeysStay DEF BeforeFeedForward
  <1>13. Running(b)'
    BY <1>12 DEF Running
  <1> QED
    BY <1>1, <1>2, <1>3, <1>13, ServesOn

\* Behind the last layer all keys are there.
LEMMA LastKeys ==
  ASSUME NEW b, KeysTo(b, NumLayers + 1)
  PROVE  AllKeys
  <1>1. \A l \in Layers : l < NumLayers + 1
    BY LayersAreNat DEF Layers
  <1> QED
    BY <1>1 DEF KeysTo, AllKeys

LEMMA FeedForwardStep ==
  ASSUME ExecutorInv, RunFeedForward
  PROVE  ExecutorInv'
  <1>1. stream # <<>> /\ Head(stream).op = "ffn" /\ stream' = Tail(stream)
    BY DEF RunFeedForward, Take
  <1>2. HostStays /\ pinned' = pinned /\ device' = device /\ kv' = kv
    BY DEF RunFeedForward, HostStays, hostVars
  <1>3. PICK b : Serving(b)
    BY <1>1, DeviceServes
  <1>4. Taken(b) /\ IsBatch(b) /\ Running(b) /\ InflightIs(b)
    BY <1>3 DEF Serving, Taken
  <1>5. PICK l \in Layers :
           BeforeFeedForward(b, l) /\ TakesNext(b, FeedForward(RowCount(b)), 4 * l + 2)
    BY <1>1, <1>4, HeadTellsStage
  <1>6. /\ Holds(device, b) /\ KeysTo(b, l + 1) /\ ResidualIs(b, 4 * l - 2)
        /\ HiddenIs(b, 4 * l - 1)
    BY <1>5 DEF BeforeFeedForward
  <1>7. stream' = Left(b, 4 * l + 2)'
    BY <1>1, <1>2, <1>5, BatchStays DEF TakesNext
  <1>8. ReqInv /\ graphs \in BOOLEAN /\ RowsAre(device, b)
    BY <1>1, <1>6, DeviceServes DEF ExecutorInv, Holds
  <1> DEFINE rows == RowCount(b)
  <1>9. /\ residual' = Added(hidden', rows)
        /\ hidden' = [i \in Rows |->
              IF i < rows THEN Passed(GateAndUp(hidden, rows)[i]) ELSE hidden[i]]
    <2>1. Head(stream).rows = rows
      BY <1>5 DEF TakesNext, FeedForward
    <2> QED
      BY <2>1 DEF RunFeedForward
  <1>10. l \in Nat \ {0} /\ l <= NumLayers /\ NumLayers \in Nat
    BY LayersAreNat DEF Layers
  <1>11. ASSUME NEW i \in 0 .. Size(b) - 1
         PROVE  residual'[i] = Exact(TokenAt(b, i), 0, 4 * l)
    <2>1. i \in Rows /\ i < rows /\ i \in Counted(rows)
      BY <1>4, <1>8, DeviceRows
    <2>2. hidden[i] = Exact(TokenAt(b, i), 0, 4 * l - 1)
      BY <1>6 DEF HiddenIs
    <2>3. GateAndUp(hidden, rows)[i] = hidden[i]
      BY <2>1 DEF GateAndUp
    <2> HIDE DEF rows
    <2>4. hidden'[i] = Passed(hidden[i])
      BY <1>9, <2>1, <2>3
    <2>5. 4 * l - 1 + 1 = 4 * l /\ 4 * l - 2 \in Int /\ 4 * l = 4 * l - 2 + 2
      BY <1>10
    <2>6. hidden'[i] = Exact(TokenAt(b, i), 0, 4 * l)
      BY <2>2, <2>4, <2>5, PassedExact
    <2>7. residual[i] = Exact(TokenAt(b, i), 0, 4 * l - 2)
      BY <1>6 DEF ResidualIs
    <2> QED
      BY <1>9, <2>1, <2>5, <2>6, <2>7, AddedExact
  <1>12. KeysTo(b, l + 1)' /\ Holds(device, b)'
    BY <1>2, <1>6, KeysStay, HoldsStays
  <1>13. BeforeLayer(b, l + 1)'
    <2>1. 4 * (l + 1) - 4 = 4 * l /\ 4 * (l + 1) - 2 = 4 * l + 2
      BY <1>10
    <2>2. ResidualIs(b, 4 * (l + 1) - 4)'
      BY <1>11, <2>1 DEF ResidualIs
    <2>3. stream' = Left(b, 4 * (l + 1) - 2)'
      BY <1>7, <2>1
    <2> QED
      BY <1>12, <2>2, <2>3 DEF BeforeLayer
  <1>14. CASE l < NumLayers
    <2>1. l + 1 \in Layers
      BY <1>10, <1>14 DEF Layers
    <2>2. Running(b)'
      BY <1>13, <2>1 DEF Running
    <2> QED
      BY <1>1, <1>2, <1>3, <2>2, ServesOn
  <1>15. CASE l = NumLayers /\ NumSamples(b) # 0
    <2>1. Running(b)'
      BY <1>13, <1>15 DEF Running
    <2> QED
      BY <1>1, <1>2, <1>3, <2>1, ServesOn
  <1>16. CASE l = NumLayers /\ NumSamples(b) = 0
    <2>1. stream' = <<>>
      <3>1. NumOps(b) = 4 * l + 2
        BY <1>4, <1>16, NumOpsIsNat
      <3>2. Left(b, 4 * l + 2)' = Left(b, NumOps(b))
        BY <1>2, <3>1, BatchStays
      <3> QED
        BY <1>4, <1>7, <3>2, NothingLeft
    <2>2. AllKeys'
      <3>1. KeysTo(b, NumLayers + 1)
        BY <1>6, <1>16
      <3>2. AllKeys
        BY <3>1, LastKeys
      <3>3. computed' = computed /\ table' = table
        BY <1>2 DEF HostStays, reqVars
      <3> QED
        BY <1>2, <3>2, <3>3 DEF AllKeys, KeyIs
    <2>3. Delivered'
      <3>1. inflight = <<>>
        BY <1>4, <1>16 DEF InflightIs
      <3>2. inflight' = <<>>
        BY <1>2, <3>1 DEF HostStays
      <3> QED
        BY <3>2 DEF Delivered
    <2>4. "tokens" \in DOMAIN pinned' /\ "tokens" \in DOMAIN device'
      BY <1>2 DEF ExecutorInv, HostInv
    <2> QED
      BY <1>1, <1>2, <2>1, <2>2, <2>3, <2>4, DeviceSettles DEF Done
  <1> QED
    BY <1>10, <1>14, <1>15, <1>16

\* The logits lie behind the rows that are gathered for them.
LEMMA LogitsLeaveSamples ==
  ASSUME NEW rows, NEW bytes, NEW j \in 0 .. MaxSeqs - 1
  PROVE  Disjoint(FirstRows(LogitsAt, rows, bytes), RowAt(HiddenAt, j, HiddenRow))
  <1>1. SamplingAt.from = HiddenAt.from /\ SamplingAt.to = SamplingAt.from + SamplingBytes
    BY DEF SamplingAt, HiddenAt, Place
  <1>2. /\ HiddenRow \in Nat /\ SamplingBytes = MaxSeqs * HiddenRow
    BY WorkspaceAssumption, ProductIsNat DEF HiddenRow, SamplingBytes
  <1>3. (j + 1) * HiddenRow <= SamplingBytes /\ (j + 1) * HiddenRow \in Nat
    <2>1. PICK more \in Nat : MaxSeqs = j + 1 + more
      <3>1. MaxSeqs - j - 1 \in Nat /\ MaxSeqs = j + 1 + (MaxSeqs - j - 1)
        BY WorkspaceAssumption
      <3> QED
        BY <3>1
    <2>2. MaxSeqs * HiddenRow = (j + 1) * HiddenRow + more * HiddenRow
      BY <1>2, <2>1
    <2>3. more * HiddenRow \in Nat /\ (j + 1) * HiddenRow \in Nat
      <3>1. j + 1 \in Nat
        OBVIOUS
      <3> QED
        BY <1>2, <3>1, ProductIsNat
    <2> QED
      BY <1>2, <2>2, <2>3
  <1>4. SamplingAt.to <= LogitsAt.from /\ LogitsAt.from \in Nat
        /\ HiddenAt.from \in Nat
    BY LogitsPlaced, CommonPlaced DEF WellPlaced
  <1>5. RowAt(HiddenAt, j, HiddenRow).to <= FirstRows(LogitsAt, rows, bytes).from
    BY <1>1, <1>2, <1>3, <1>4, SizesAreNat DEF RowAt, FirstRows
  <1> QED
    BY <1>5 DEF Disjoint

\* The entries that are sampled are entries of the batch, and their last rows
\* are rows of it.
LEMMA SampledRows ==
  ASSUME NEW b, Taken(b)
  PROVE  /\ NumSamples(b) \in 0 .. Len(b) /\ NumSamples(b) <= MaxSeqs
         /\ NumSamples(b) <= Size(b) /\ Size(b) <= MaxTokens
         /\ \A j \in 0 .. NumSamples(b) - 1 :
               /\ j \in 0 .. MaxSeqs - 1 /\ j \in Rows
               /\ Sampling(b)[j + 1] \in 1 .. Len(b)
               /\ Sampled(b, j).req \in Requests
               /\ Sampled(b, j).offset \in Nat /\ Sampled(b, j).len \in Nat \ {0}
               /\ Sampled(b, j).offset + Sampled(b, j).len = numTokens[Sampled(b, j).req]
               /\ Starts(b)[Sampling(b)[j + 1]] - 1 \in 0 .. Size(b) - 1
               /\ TokenAt(b, Starts(b)[Sampling(b)[j + 1]] - 1)
                     = Tok(Sampled(b, j).req, Sampled(b, j).offset + Sampled(b, j).len - 1)
  <1>1. IsBatch(b) /\ Len(b) \in Nat \ {0} /\ Len(b) <= MaxSeqs /\ Size(b) <= MaxTokens
        /\ MaxSeqs \in Nat /\ MaxTokens \in Nat /\ Size(b) \in Nat /\ Len(b) <= Size(b)
    BY BatchEntries, BatchStarts, WorkspaceAssumption DEF Taken
  <1>2. NumSamples(b) \in 0 .. Len(b)
    BY <1>1, SamplingFacts
  <1>3. ASSUME NEW j \in 0 .. NumSamples(b) - 1
        PROVE  /\ j \in 0 .. MaxSeqs - 1 /\ j \in Rows
               /\ Sampling(b)[j + 1] \in 1 .. Len(b)
               /\ Sampled(b, j).req \in Requests
               /\ Sampled(b, j).offset \in Nat /\ Sampled(b, j).len \in Nat \ {0}
               /\ Sampled(b, j).offset + Sampled(b, j).len = numTokens[Sampled(b, j).req]
               /\ Starts(b)[Sampling(b)[j + 1]] - 1 \in 0 .. Size(b) - 1
               /\ TokenAt(b, Starts(b)[Sampling(b)[j + 1]] - 1)
                     = Tok(Sampled(b, j).req, Sampled(b, j).offset + Sampled(b, j).len - 1)
    <2>1. j \in 0 .. MaxSeqs - 1 /\ j \in Rows
      BY <1>1, <1>2 DEF Rows
    <2>2. PICK s \in 1 .. NumSamples(b) : s = j + 1
      <3>1. j + 1 \in 1 .. NumSamples(b)
        BY <1>2
      <3> QED
        BY <3>1
    <2>3. PICK k \in 1 .. Len(b) : k = Sampling(b)[s] /\ b[k].needsSampling
      BY <1>1, SamplingFacts
    <2>4. Sampled(b, j) = b[k] /\ Sampling(b)[j + 1] = k
      BY <2>2, <2>3 DEF Sampled
    <2>5. /\ b[k].req \in Requests /\ b[k].offset \in Nat /\ b[k].len \in Nat \ {0}
          /\ b[k].offset + b[k].len = numTokens[b[k].req]
      BY <1>1, <2>3, BatchEntries DEF Taken
    <2>6. /\ Starts(b)[k] = Starts(b)[k - 1] + b[k].len
          /\ Starts(b)[k] \in Nat /\ Starts(b)[k - 1] \in Nat
      <3>1. k - 1 \in 0 .. Len(b) /\ k \in 0 .. Len(b)
        BY <1>1
      <3> QED
        BY <1>1, <3>1, BatchStarts
    <2>7. Starts(b)[k] - 1 \in Starts(b)[k - 1] .. Starts(b)[k] - 1
      BY <2>5, <2>6
    <2>8. /\ Starts(b)[k] - 1 \in 0 .. Size(b) - 1 /\ EntryOf(b, Starts(b)[k] - 1) = k
          /\ PositionOf(b, Starts(b)[k] - 1) = b[k].offset + (Starts(b)[k] - 1) - Starts(b)[k - 1]
      BY <1>1, <2>7, RowsOfEntries
    <2>9. PositionOf(b, Starts(b)[k] - 1) = b[k].offset + b[k].len - 1
      BY <2>5, <2>6, <2>8
    <2> QED
      BY <2>1, <2>4, <2>5, <2>8, <2>9 DEF TokenAt
  <1> QED
    BY <1>1, <1>2, <1>3

LEMMA GatherStep ==
  ASSUME ExecutorInv, RunGather
  PROVE  ExecutorInv'
  <1>1. stream # <<>> /\ Head(stream).op = "gather" /\ stream' = Tail(stream)
    BY DEF RunGather, Take
  <1>2. HostStays /\ pinned' = pinned /\ device' = device /\ kv' = kv
    BY DEF RunGather, HostStays, hostVars
  <1>3. PICK b : Serving(b)
    BY <1>1, DeviceServes
  <1>4. Taken(b) /\ IsBatch(b) /\ Running(b)
    BY <1>3 DEF Serving, Taken
  <1>5. /\ NumSamples(b) # 0 /\ BeforeLayer(b, NumLayers + 1)
        /\ TakesNext(b, Gather(NumSamples(b)), 4 * NumLayers + 3)
    BY <1>1, <1>4, HeadTellsStage
  <1>6. Holds(device, b) /\ KeysTo(b, NumLayers + 1) /\ ResidualIs(b, 4 * NumLayers)
    <2>1. 4 * (NumLayers + 1) - 4 = 4 * NumLayers
      BY LayersAreNat
    <2> QED
      BY <1>5, <2>1 DEF BeforeLayer
  <1>7. stream' = Left(b, 4 * NumLayers + 3)'
    BY <1>1, <1>2, <1>5, BatchStays DEF TakesNext
  <1> DEFINE samples == NumSamples(b)
             logits == FirstRows(LogitsAt, samples, VocabSize * ElementSize)
             gathered == [j \in Rows |->
               IF j < samples THEN Passed(residual[device.logitsIndices[j]]) ELSE hidden[j]]
  <1>8. hidden' = Overlaid(gathered, HiddenAt, HiddenRow, logits)
    <2>1. Head(stream).samples = samples
      BY <1>5 DEF TakesNext, Gather
    <2> QED
      BY <2>1 DEF RunGather
  <1>9. ASSUME NEW j \in 0 .. NumSamples(b) - 1
        PROVE  hidden'[j] = Exact(Tok(Sampled(b, j).req, Sampled(b, j).offset + Sampled(b, j).len - 1),
                                  0, 4 * NumLayers + 1)
    <2> DEFINE i == Starts(b)[Sampling(b)[j + 1]] - 1
    <2>1. /\ j \in 0 .. MaxSeqs - 1 /\ j \in Rows /\ i \in 0 .. Size(b) - 1
          /\ TokenAt(b, i) = Tok(Sampled(b, j).req, Sampled(b, j).offset + Sampled(b, j).len - 1)
      BY <1>4, SampledRows
    <2>2. device.logitsIndices[j] = i
      BY <1>6 DEF Holds, SamplesAre
    <2> HIDE DEF i
    <2>3. residual[i] = Exact(TokenAt(b, i), 0, 4 * NumLayers)
      BY <1>6, <2>1 DEF ResidualIs
    <2>4. j < samples
      BY <1>4, SampledRows
    <2>5. gathered[j] = Passed(residual[i])
      BY <2>1, <2>2, <2>4
    <2>6. gathered[j] = Exact(TokenAt(b, i), 0, 4 * NumLayers + 1)
      BY <2>3, <2>5, PassedExact
    <2>7. ~Lost(j, HiddenAt, HiddenRow, logits)
      BY <2>1, LogitsLeaveSamples DEF Lost
    <2> HIDE DEF gathered, logits
    <2>8. hidden'[j] = gathered[j]
      BY <1>8, <2>1, <2>7 DEF Overlaid
    <2> QED
      BY <2>1, <2>6, <2>8
  <1>10. BeforeSample(b)'
    BY <1>2, <1>6, <1>7, <1>9, HoldsStays, KeysStay DEF BeforeSample
  <1>11. Running(b)'
    BY <1>5, <1>10 DEF Running
  <1> QED
    BY <1>1, <1>2, <1>3, <1>11, ServesOn

LEMMA SampleStep ==
  ASSUME ExecutorInv, RunSample
  PROVE  ExecutorInv'
  <1>1. stream # <<>> /\ Head(stream).op = "sample" /\ stream' = Tail(stream)
    BY DEF RunSample, Take
  <1>2. HostStays /\ pinned' = pinned /\ kv' = kv
    BY DEF RunSample, HostStays, hostVars, workVars
  <1>3. PICK b : Serving(b)
    BY <1>1, DeviceServes
  <1>4. Taken(b) /\ IsBatch(b) /\ Running(b)
    BY <1>3 DEF Serving, Taken
  <1>5. /\ NumSamples(b) # 0 /\ BeforeSample(b)
        /\ TakesNext(b, Sample(NumSamples(b)), 4 * NumLayers + 4)
    BY <1>1, <1>4, HeadTellsStage
  <1>6. stream' = Left(b, 4 * NumLayers + 4)'
    BY <1>1, <1>2, <1>5, BatchStays DEF TakesNext
  <1>7. /\ "tokens" \in DOMAIN device'
        /\ device'.tokens = [i \in Rows |->
              IF i < NumSamples(b)
              THEN IF /\ hidden[i] = Exact(hidden[i].tok, 0, 4 * NumLayers + 1)
                      /\ device.params[i] = hidden[i].tok[1]
                   THEN Tok(hidden[i].tok[1], hidden[i].tok[2] + 1) ELSE Pad
              ELSE device.tokens[i]]
    <2>1. Head(stream).samples = NumSamples(b)
      BY <1>5 DEF TakesNext, Sample
    <2>2. "tokens" \in DOMAIN device
      BY DEF ExecutorInv, HostInv
    <2> QED
      BY <2>1, <2>2 DEF RunSample
  <1>8. ASSUME NEW j \in 0 .. NumSamples(b) - 1
        PROVE  device'.tokens[j] = NextToken(Sampled(b, j))
    <2> DEFINE e == Sampled(b, j)
    <2>1. j \in Rows /\ j < NumSamples(b) /\ e.offset \in Nat /\ e.len \in Nat
      BY <1>4, SampledRows
    <2>2. hidden[j] = Exact(Tok(e.req, e.offset + e.len - 1), 0, 4 * NumLayers + 1)
      BY <1>5 DEF BeforeSample
    <2>3. device.params[j] = e.req
      BY <1>5 DEF BeforeSample, Holds, SamplesAre
    <2> HIDE DEF e
    <2>4. /\ hidden[j].tok = Tok(e.req, e.offset + e.len - 1)
          /\ hidden[j].tok[1] = e.req /\ hidden[j].tok[2] = e.offset + e.len - 1
      BY <2>2 DEF Exact, Tok
    <2>5. device'.tokens[j] = Tok(hidden[j].tok[1], hidden[j].tok[2] + 1)
      BY <1>7, <2>1, <2>2, <2>3, <2>4
    <2>6. hidden[j].tok[2] + 1 = e.offset + e.len
      BY <2>1, <2>4
    <2> QED
      BY <2>4, <2>5, <2>6 DEF NextToken, e
  <1>9. BeforeDownload(b)'
    BY <1>2, <1>5, <1>6, <1>8, KeysStay DEF BeforeDownload, BeforeSample
  <1>10. Serving(b)'
    <2>1. Running(b)'
      BY <1>5, <1>9 DEF Running
    <2> QED
      BY <1>2, <1>3, <2>1, BatchStays DEF Serving
  <1>11. "tokens" \in DOMAIN pinned'
    BY <1>2 DEF ExecutorInv, HostInv
  <1> QED
    BY <1>1, <1>2, <1>7, <1>10, <1>11, DeviceSettles

LEMMA DownloadStep ==
  ASSUME ExecutorInv, RunDownload
  PROVE  ExecutorInv'
  <1>1. stream # <<>> /\ Head(stream).op = "download" /\ stream' = Tail(stream)
    BY DEF RunDownload, Take
  <1>2. HostStays /\ device' = device /\ kv' = kv
    BY DEF RunDownload, HostStays, workVars
  <1>3. PICK b : Serving(b)
    BY <1>1, DeviceServes
  <1>4. Taken(b) /\ IsBatch(b) /\ Running(b) /\ InflightIs(b)
    BY <1>3 DEF Serving, Taken
  <1>5. /\ NumSamples(b) # 0 /\ BeforeDownload(b)
        /\ TakesNext(b, Download(NumSamples(b)), 4 * NumLayers + 5)
    BY <1>1, <1>4, HeadTellsStage
  <1>6. stream' = <<>>
    <2>1. NumOps(b) = 4 * NumLayers + 5
      BY <1>4, <1>5, NumOpsIsNat
    <2> QED
      BY <1>1, <1>4, <1>5, <2>1, NothingLeft DEF TakesNext
  <1>7. AllKeys'
    <2>1. AllKeys
      BY <1>5, LastKeys DEF BeforeDownload
    <2>2. computed' = computed /\ table' = table
      BY <1>2 DEF HostStays, reqVars
    <2> QED
      BY <1>2, <2>1, <2>2 DEF AllKeys, KeyIs
  <1>8. /\ "tokens" \in DOMAIN pinned'
        /\ pinned'.tokens = [i \in Rows |->
              IF i < NumSamples(b) THEN device.tokens[i] ELSE pinned.tokens[i]]
    <2>1. Head(stream).samples = NumSamples(b)
      BY <1>5 DEF TakesNext, Download
    <2>2. "tokens" \in DOMAIN pinned
      BY DEF ExecutorInv, HostInv
    <2> QED
      BY <2>1, <2>2 DEF RunDownload
  <1>9. Delivered'
    <2>1. inflight' = inflight /\ numTokens' = numTokens
      BY <1>2 DEF HostStays, reqVars
    <2>2. NumSamples(b) \in Nat
      BY <1>4, SampledRows
    <2>3. ASSUME NEW j \in 1 .. NumSamples(b)
          PROVE  /\ inflight[j] \in Requests
                 /\ pinned'.tokens[j - 1] = Tok(inflight[j], numTokens[inflight[j]])
      <3>1. PICK i \in 0 .. NumSamples(b) - 1 : i = j - 1
        BY <2>2
      <3>2. inflight[j] = Sampled(b, i).req
        BY <1>4, <3>1 DEF InflightIs
      <3>3. /\ i \in Rows /\ i < NumSamples(b) /\ Sampled(b, i).req \in Requests
            /\ Sampled(b, i).offset + Sampled(b, i).len = numTokens[Sampled(b, i).req]
        BY <1>4, SampledRows
      <3>4. pinned'.tokens[i] = NextToken(Sampled(b, i))
        BY <1>5, <1>8, <3>3 DEF BeforeDownload
      <3> QED
        BY <3>1, <3>2, <3>3, <3>4 DEF NextToken
    <2>4. inflight \in Seq(Requests) /\ Len(inflight) = NumSamples(b)
      <3>1. inflight = [j \in 1 .. NumSamples(b) |-> inflight[j]]
        BY <1>4 DEF InflightIs
      <3> QED
        BY <2>2, <2>3, <3>1
    <2> QED
      BY <2>1, <2>3, <2>4 DEF Delivered
  <1>10. "tokens" \in DOMAIN device'
    BY <1>2 DEF ExecutorInv, HostInv
  <1> QED
    BY <1>1, <1>2, <1>6, <1>7, <1>8, <1>9, <1>10, DeviceSettles DEF Done

-----------------------------------------------------------------------------
(***************************************************************************)
(* The host's steps.                                                       *)
(***************************************************************************)

LEMMA InitInv == Init => ExecutorInv
  <1> SUFFICES ASSUME Init PROVE ExecutorInv
    OBVIOUS
  <1>1. NumRequests \in Nat \ {0} /\ PromptLen \in [Requests -> 1 .. MaxModelLen - 1] /\ MaxModelLen \in Nat
        /\ BlockSize \in Nat \ {0}
    BY ExecutorAssumption
  <1>2. TableWidth \in Nat
    <2>1. MaxModelLen + BlockSize - 1 \in Nat
      BY <1>1
    <2> QED
      BY <1>1, <2>1, Quotient DEF TableWidth
  <1>3. ReqInv
    <2>1. numTokens \in [Requests -> Nat]
      <3>1. \A n \in 1 .. MaxModelLen - 1 : n \in Nat
        BY <1>1
      <3> QED
        BY <1>1, <3>1 DEF Init
    <2>2. computed \in [Requests -> Nat] /\ numBlocks \in Nat
      BY DEF Init
    <2>3. table = [r \in Requests |-> <<>>] /\ computed = [r \in Requests |-> 0]
      BY DEF Init
    <2>4. TablesInv
      <3>1. \A r \in Requests : table[r] = <<>> /\ computed[r] = 0
        BY <2>3
      <3>2. 0 * BlockSize = 0 /\ 0 <= TableWidth
        BY <1>1, <1>2
      <3>3. table \in [Requests -> Seq(Blocks)]
        BY <2>3
      <3>4. \A r \in Requests : Len(table[r]) = 0
        BY <3>1
      <3> QED
        BY <3>1, <3>2, <3>3, <3>4 DEF TablesInv
    <2> QED
      BY <2>1, <2>2, <2>4 DEF ReqInv
  <1>4. HostInv
    <2>1. /\ graphs \in BOOLEAN /\ host = "loading"
          /\ stream = <<>> /\ inflight = <<>> /\ results = <<>>
          /\ \A r \in Requests : computed[r] = 0 /\ table[r] = <<>>
      BY DEF Init
    <2>2. "tokens" \in DOMAIN pinned /\ "tokens" \in DOMAIN device
      BY DEF Init, Fields
    <2> QED
      BY <2>1, <2>2 DEF HostInv
  <1>5. WaitInv
    BY DEF Init, WaitInv
  <1> QED
    BY <1>3, <1>4, <1>5 DEF ExecutorInv

\* When context.synchronize() returns, the whole program is done.
LEMMA SynchronizedIsDone ==
  ASSUME ExecutorInv, host = "waiting", stream = <<>>
  PROVE  Done
  <1>1. ASSUME NEW b, Serving(b) PROVE FALSE
    <2>1. IsBatch(b) /\ Running(b)
      BY <1>1 DEF Serving, Taken
    <2> QED
      BY <2>1, HeadTellsStage
  <1> QED
    BY <1>1 DEF ExecutorInv, WaitInv

LEMMA FinishKeeps ==
  ASSUME ExecutorInv, FinishStep
  PROVE  ExecutorInv'
  <1>1. /\ host = "waiting" /\ stream = <<>> /\ host' = "idle" /\ stream' = <<>> /\ inflight' = <<>>
        /\ results' = [j \in DOMAIN inflight |-> [req |-> inflight[j], token |-> pinned.tokens[j - 1]]]
        /\ numTokens' = [r \in Requests |->
              IF r \in Elements(inflight) THEN numTokens[r] + 1 ELSE numTokens[r]]
        /\ computed' = computed /\ table' = table /\ graphs' = graphs /\ captured' = captured
        /\ numBlocks' = numBlocks /\ pinned' = pinned /\ device' = device /\ kv' = kv
    BY DEF FinishStep, Synchronized, workVars
  <1>2. AllKeys /\ Delivered
    BY <1>1, SynchronizedIsDone DEF Done
  <1>3. ReqInv'
    <2>1. numTokens \in [Requests -> Nat]
      BY DEF ExecutorInv, ReqInv
    <2>2. numTokens' \in [Requests -> Nat]
      BY <1>1, <2>1
    <2>3. TablesInv'
      BY <1>1 DEF ExecutorInv, ReqInv, TablesInv, Blocks
    <2> QED
      BY <1>1, <2>2, <2>3 DEF ExecutorInv, ReqInv
  <1>4. ResultsAreOwn'
    <2>1. ASSUME NEW i \in DOMAIN results'
          PROVE  results'[i].token = Tok(results'[i].req, numTokens'[results'[i].req] - 1)
      <3>1. i \in 1 .. Len(inflight) /\ i \in DOMAIN inflight
        BY <1>1, <1>2 DEF Delivered
      <3>2. /\ inflight[i] \in Requests /\ inflight[i] \in Elements(inflight)
            /\ pinned.tokens[i - 1] = Tok(inflight[i], numTokens[inflight[i]])
        BY <1>2, <3>1 DEF Delivered, Elements
      <3>3. numTokens[inflight[i]] \in Nat
        BY <3>2 DEF ExecutorInv, ReqInv
      <3>4. numTokens'[inflight[i]] - 1 = numTokens[inflight[i]]
        BY <1>1, <3>2, <3>3
      <3>5. results'[i].req = inflight[i] /\ results'[i].token = pinned.tokens[i - 1]
        BY <1>1, <3>1
      <3> QED
        BY <3>2, <3>4, <3>5
    <2> QED
      BY <2>1 DEF ResultsAreOwn
  <1>5. AllKeys'
    BY <1>1, <1>2 DEF AllKeys, KeyIs
  <1>6. HostInv'
    <2>1. /\ graphs \in BOOLEAN /\ DOMAIN kv = Layers /\ (graphs => captured = "final")
          /\ "tokens" \in DOMAIN pinned /\ "tokens" \in DOMAIN device
      BY <1>1 DEF ExecutorInv, HostInv
    <2> QED
      BY <1>1, <1>4, <1>5, <2>1 DEF HostInv
  <1>7. WaitInv'
    BY <1>1 DEF WaitInv
  <1> QED
    BY <1>3, <1>6, <1>7 DEF ExecutorInv

LEMMA ReleaseKeeps ==
  ASSUME ExecutorInv, NEW r \in Requests, Release(r)
  PROVE  ExecutorInv'
  <1>1. /\ host = "idle" /\ host' = "idle" /\ stream' = stream /\ inflight' = inflight
        /\ results' = results /\ numTokens' = numTokens
        /\ graphs' = graphs /\ captured' = captured /\ numBlocks' = numBlocks
        /\ pinned' = pinned /\ device' = device /\ kv' = kv
        /\ table' = [table EXCEPT ![r] = <<>>] /\ computed' = [computed EXCEPT ![r] = 0]
    BY DEF Release, hostVars, workVars
  <1>2. /\ numTokens \in [Requests -> Nat] /\ computed \in [Requests -> Nat]
        /\ numBlocks \in Nat /\ table \in [Requests -> Seq(Blocks)] /\ TablesInv
    BY DEF ExecutorInv, ReqInv, TablesInv
  <1>3. /\ computed' \in [Requests -> Nat] /\ computed'[r] = 0
        /\ \A s \in Requests : s # r => computed'[s] = computed[s]
        /\ table' \in [Requests -> Seq(Blocks)] /\ table'[r] = <<>>
        /\ \A s \in Requests : s # r => table'[s] = table[s]
    BY <1>1, <1>2
  <1>4. TablesInv'
    <2>1. Len(table'[r]) = 0 /\ 0 * BlockSize = 0 /\ 0 <= TableWidth
      <3>1. TableWidth \in Nat
        <4>1. MaxModelLen + BlockSize - 1 \in Nat /\ BlockSize \in Nat \ {0}
          BY ExecutorAssumption
        <4> QED
          BY <4>1, Quotient DEF TableWidth
      <3> QED
        BY <1>3, <3>1, ExecutorAssumption
    <2>2. ASSUME NEW s \in Requests
          PROVE  computed'[s] <= Len(table'[s]) * BlockSize /\ Len(table'[s]) <= TableWidth
      <3>1. CASE s = r
        BY <1>3, <2>1, <3>1
      <3>2. CASE s # r
        <4>1. computed[s] <= Len(table[s]) * BlockSize /\ Len(table[s]) <= TableWidth
          BY <1>2 DEF TablesInv
        <4> QED
          BY <1>3, <3>2, <4>1, Zenon
      <3> QED
        BY <3>1, <3>2
    <2>3. ASSUME NEW s \in Requests, NEW t \in Requests, NEW i \in 1 .. Len(table'[s]),
                 NEW j \in 1 .. Len(table'[t]), table'[s][i] = table'[t][j]
          PROVE  s = t /\ i = j
      <3>1. s # r /\ t # r
        BY <2>1
      <3> QED
        BY <1>2, <1>3, <2>3, <3>1 DEF TablesInv
    <2>4. table' \in [Requests -> Seq(Blocks')]
      BY <1>1, <1>3 DEF Blocks
    <2> QED
      BY <2>2, <2>3, <2>4 DEF TablesInv
  <1>5. ReqInv'
    BY <1>1, <1>2, <1>3, <1>4 DEF ReqInv
  <1>6. AllKeys'
    <2>1. AllKeys
      BY <1>1 DEF ExecutorInv, HostInv
    <2>2. ASSUME NEW s \in Requests, NEW l \in Layers, NEW p \in 0 .. computed'[s] - 1
          PROVE  KeyIs(l, s, p)'
      <3>1. s # r
        BY <1>3
      <3> QED
        BY <1>1, <1>3, <2>1, <3>1 DEF AllKeys, KeyIs
    <2> QED
      BY <2>2 DEF AllKeys
  <1>7. HostInv'
    BY <1>1, <1>6 DEF ExecutorInv, HostInv, ResultsAreOwn
  <1>8. WaitInv'
    BY <1>1 DEF WaitInv
  <1> QED
    BY <1>5, <1>7, <1>8 DEF ExecutorInv

\* Before the first step nothing is on the stream, and no request has a block.
LEMMA StartKeeps ==
  ASSUME ExecutorInv, host \in {"loading", "loaded"},
         host' \in {"loaded", "refused", "idle"}, UNCHANGED <<reqVars, graphs, inflight, results, stream>>,
         numBlocks' \in Nat, host' = "idle" => DOMAIN kv' = Layers /\ (graphs => captured' = "final"),
         "tokens" \in DOMAIN pinned', "tokens" \in DOMAIN device'
  PROVE  ExecutorInv'
  <1>1. /\ numTokens' = numTokens /\ computed' = computed /\ table' = table
        /\ graphs' = graphs /\ inflight' = inflight /\ results' = results /\ stream' = stream
    BY DEF reqVars
  <1>2. /\ graphs \in BOOLEAN /\ stream = <<>> /\ inflight = <<>> /\ results = <<>>
        /\ \A r \in Requests : computed[r] = 0 /\ table[r] = <<>>
    BY DEF ExecutorInv, HostInv
  <1>3. TablesInv'
    <2>1. TablesInv
      BY DEF ExecutorInv, ReqInv
    <2>2. table' \in [Requests -> Seq(Blocks')]
      <3>1. table = [r \in Requests |-> table[r]]
        BY <2>1 DEF TablesInv
      <3>2. \A r \in Requests : table[r] \in Seq(Blocks')
        <4> DEFINE S == Blocks'
        <4>1. <<>> \in Seq(S)
          <5> HIDE DEF S
          <5> QED
            OBVIOUS
        <4> QED
          BY <1>2, <4>1, Zenon
      <3> QED
        BY <1>1, <3>1, <3>2
    <2> QED
      BY <1>1, <2>1, <2>2 DEF TablesInv
  <1>4. ReqInv'
    BY <1>1, <1>3 DEF ExecutorInv, ReqInv
  <1>5. AllKeys'
    BY <1>1, <1>2 DEF AllKeys
  <1>6. ResultsAreOwn'
    BY <1>1, <1>2 DEF ResultsAreOwn
  <1>7. HostInv'
    BY <1>1, <1>2, <1>5, <1>6 DEF HostInv
  <1>8. WaitInv'
    BY DEF WaitInv
  <1> QED
    BY <1>4, <1>7, <1>8 DEF ExecutorInv

LEMMA CaptureKeepsFields ==
  ASSUME ExecutorInv, NEW cache, Capture(cache)
  PROVE  /\ "tokens" \in DOMAIN pinned' /\ "tokens" \in DOMAIN device'
         /\ graphs => captured' = cache
  <1>1. CASE graphs
    <2>1. pinned' = Filled(<<>>, 0, MaxTokens) /\ captured' = cache
          /\ device' = Copied(pinned', Copy(MaxTokens, 0, 0, 0))
      BY <1>1 DEF Capture
    <2>2. "tokens" \in DOMAIN pinned'
      BY <2>1 DEF Filled
    <2>3. "tokens" \in DOMAIN device'
      BY <2>1 DEF Copied
    <2> QED
      BY <2>1, <2>2, <2>3
  <1>2. CASE ~graphs
    BY <1>2 DEF Capture, ExecutorInv, HostInv
  <1> QED
    BY <1>1, <1>2

LEMMA LoadKeeps ==
  ASSUME ExecutorInv, LoadModel
  PROVE  ExecutorInv'
  <1>1. /\ host = "loading" /\ host' = "loaded" /\ Capture("profiling")
        /\ UNCHANGED <<reqVars, graphs, inflight, results, stream>> /\ numBlocks' = numBlocks
    BY DEF LoadModel
  <1>2. "tokens" \in DOMAIN pinned' /\ "tokens" \in DOMAIN device'
    BY <1>1, CaptureKeepsFields
  <1>3. numBlocks' \in Nat
    BY <1>1 DEF ExecutorInv, ReqInv
  <1> QED
    BY <1>1, <1>2, <1>3, StartKeeps

LEMMA RefuseKeeps ==
  ASSUME ExecutorInv, RefuseToStart
  PROVE  ExecutorInv'
  <1>1. /\ host = "loaded" /\ host' = "refused"
        /\ UNCHANGED <<reqVars, graphs, inflight, results, stream>> /\ numBlocks' = numBlocks
        /\ pinned' = pinned /\ device' = device
    BY DEF RefuseToStart
  <1>2. "tokens" \in DOMAIN pinned' /\ "tokens" \in DOMAIN device'
    BY <1>1 DEF ExecutorInv, HostInv
  <1>3. numBlocks' \in Nat
    BY <1>1 DEF ExecutorInv, ReqInv
  <1> QED
    BY <1>1, <1>2, <1>3, StartKeeps

LEMMA AllocateKeeps ==
  ASSUME ExecutorInv, AllocateKVCache
  PROVE  ExecutorInv'
  <1>1. /\ host = "loaded" /\ host' = "idle" /\ Capture("final")
        /\ UNCHANGED <<reqVars, graphs, inflight, results, stream>>
    BY DEF AllocateKVCache, Recapture
  <1>2. PICK n \in 0 .. MaxBlocks :
           /\ numBlocks' = n
           /\ kv' = [l \in Layers |-> [s \in 0 .. n * BlockSize - 1 |-> Garbage]]
    BY DEF AllocateKVCache
  <1>3. numBlocks' \in Nat /\ DOMAIN kv' = Layers
    BY <1>2, ExecutorAssumption
  <1>4. /\ "tokens" \in DOMAIN pinned' /\ "tokens" \in DOMAIN device'
        /\ graphs => captured' = "final"
    BY <1>1, CaptureKeepsFields
  <1> QED
    BY <1>1, <1>3, <1>4, StartKeeps

-----------------------------------------------------------------------------
(***************************************************************************)
(* The batches the scheduler may hand over.                                *)
(***************************************************************************)

\* The rows of the entries before k, and those of entry k.
Ends(rs) ==
    LET len[k \in 0 .. Len(rs)] ==
            IF k = 0 THEN 0
            ELSE len[k - 1] + Least(numTokens[rs[k]] - computed[rs[k]], MaxTokens - len[k - 1])
    IN  len
Width(rs, k) == Ends(rs)[k] - Ends(rs)[k - 1]

\* Blocks for r to compute n tokens with: those it has, and then free ones.
Grows(s, r, n) ==
    /\ s \in Seq(Blocks)
    /\ Len(table[r]) <= Len(s) /\ Len(s) <= TableWidth
    /\ computed[r] + n <= Len(s) * BlockSize
    /\ \A i \in 1 .. Len(table[r]) : s[i] = table[r][i]
    /\ \A i \in 1 .. Len(s) : i > Len(table[r]) => s[i] \in Free
    /\ \A i, j \in 1 .. Len(s) : s[i] = s[j] => i = j

LEMMA BatchesAre ==
  ASSUME NEW rs, NEW b \in BatchesOf(rs)
  PROVE  \E f :
            /\ b = [k \in DOMAIN rs |->
                      [req |-> rs[k], offset |-> computed[rs[k]], len |-> Width(rs, k),
                       blocks |-> f[k],
                       needsSampling |-> Width(rs, k) = numTokens[rs[k]] - computed[rs[k]]]]
            /\ \A k \in DOMAIN rs :
                  Width(rs, k) > 0 /\ f[k] \in TablesFor(rs[k], Width(rs, k), Free)
            /\ \A j, k \in DOMAIN rs : j # k => Elements(f[j]) \cap Elements(f[k]) = {}
  BY Zenon DEF BatchesOf, Width, Ends

LEMMA EndsOf ==
  ASSUME NEW rs, Len(rs) \in Nat, \A k \in 1 .. Len(rs) : numTokens[rs[k]] - computed[rs[k]] \in Int
  PROVE  /\ Ends(rs) \in [0 .. Len(rs) -> Int]
         /\ Ends(rs)[0] = 0
         /\ \A k \in 1 .. Len(rs) :
               Ends(rs)[k] = Ends(rs)[k - 1]
                             + Least(numTokens[rs[k]] - computed[rs[k]], MaxTokens - Ends(rs)[k - 1])
  <1> DEFINE n == Len(rs)
             lack(k) == numTokens[rs[k]] - computed[rs[k]]
             step == [k \in 1 .. n |-> [x \in Int |-> x + Least(lack(k), MaxTokens - x)]]
             Sums(f) == f = [k \in 0 .. Len(rs) |->
                               IF k = 0 THEN 0
                               ELSE f[k - 1] + Least(numTokens[rs[k]] - computed[rs[k]],
                                                     MaxTokens - f[k - 1])]
             sum == CHOOSE f : Sums(f)
  <1>0. MaxTokens \in Int /\ \A k \in 1 .. n : lack(k) \in Int
    BY WorkspaceAssumption
  <1>1. step \in [1 .. n -> [Int -> Int]]
    <2> HIDE DEF lack
    <2>1. \A k \in 1 .. n : \A x \in Int : x + Least(lack(k), MaxTokens - x) \in Int
      BY <1>0 DEF Least
    <2> QED
      BY <2>1
  <1>2. PICK f : Follows(f, n, Int, 0, step)
    <2>1. n \in Nat /\ 0 \in Int
      OBVIOUS
    <2> HIDE DEF step, n
    <2> QED
      BY <1>1, <2>1, StepByStep
  <1>20. /\ f \in [0 .. n -> Int] /\ f[0] = 0
         /\ \A k \in 1 .. n : f[k] = step[k][f[k - 1]]
    BY <1>2 DEF Follows
  <1>3. ASSUME NEW k \in 1 .. n
        PROVE  f[k] = f[k - 1] + Least(lack(k), MaxTokens - f[k - 1])
    <2>1. k - 1 \in 0 .. n
      OBVIOUS
    <2>2. f[k - 1] \in Int
      BY <1>20, <2>1
    <2>3. step[k][f[k - 1]] = f[k - 1] + Least(lack(k), MaxTokens - f[k - 1])
      BY <2>2
    <2> QED
      BY <1>20, <2>3
  <1>4. Sums(f)
    <2>1. ASSUME NEW k \in 0 .. n
          PROVE  f[k] = IF k = 0 THEN 0 ELSE f[k - 1] + Least(lack(k), MaxTokens - f[k - 1])
      <3>1. k = 0 \/ k \in 1 .. n
        OBVIOUS
      <3> HIDE DEF lack
      <3> QED
        BY <1>20, <1>3, <3>1
    <2>2. f = [k \in 0 .. n |-> f[k]]
      BY <1>20
    <2> QED
      BY <2>1, <2>2
  <1>5. Sums(sum)
    <2> HIDE DEF Sums
    <2> QED
      BY <1>4
  <1>6. Ends(rs) = sum
    BY DEF Ends
  <1> HIDE DEF sum
  <1>7. /\ sum = [k \in 0 .. n |-> sum[k]]
        /\ sum[0] = 0
        /\ \A k \in 1 .. n : sum[k] = sum[k - 1] + Least(lack(k), MaxTokens - sum[k - 1])
    <2>1. sum = [k \in 0 .. n |-> IF k = 0 THEN 0 ELSE sum[k - 1] + Least(lack(k), MaxTokens - sum[k - 1])]
      BY <1>5
    <2> HIDE DEF Sums, lack
    <2>2. sum[0] = 0
      BY <2>1
    <2>3. \A k \in 1 .. n : sum[k] = sum[k - 1] + Least(lack(k), MaxTokens - sum[k - 1])
      BY <2>1
    <2> QED
      BY <2>1, <2>2, <2>3
  <1> DEFINE T == {k \in 0 .. n : sum[k] \in Int}
  <1>8. \A k \in 0 .. n : k \in T
    <2>1. 0 \in T
      BY <1>7
    <2>2. ASSUME NEW k \in 0 .. n - 1, k \in T PROVE k + 1 \in T
      <3>1. k + 1 \in 1 .. n
        OBVIOUS
      <3>2. PICK j \in 1 .. n : j = k + 1
        BY <3>1
      <3>3. sum[j] = sum[j - 1] + Least(lack(j), MaxTokens - sum[j - 1])
        BY <1>7
      <3>4. lack(j) \in Int /\ j - 1 = k /\ j \in 0 .. n
        BY <1>0, <3>2
      <3>5. sum[j - 1] \in Int
        BY <2>2, <3>4
      <3> HIDE DEF lack
      <3>6. sum[j] \in Int
        BY <1>0, <3>3, <3>4, <3>5 DEF Least
      <3> QED
        BY <3>2, <3>4, <3>6
    <2> HIDE DEF T
    <2> QED
      BY <2>1, <2>2, UpTo
  <1>9. sum \in [0 .. n -> Int]
    BY <1>7, <1>8
  <1> QED
    BY <1>6, <1>7, <1>9

\* A table that is filled up from the free blocks.
LEMMA TablesGrow ==
  ASSUME ReqInv, NEW r \in Requests, NEW n \in Nat, computed[r] + n <= MaxModelLen,
         NEW s \in TablesFor(r, n, Free)
  PROVE  Grows(s, r, n)
  <1> DEFINE have == Len(table[r])
             blocks == (computed[r] + n + BlockSize - 1) \div BlockSize
             more == blocks - have
  <1>1. /\ BlockSize \in Nat \ {0} /\ MaxModelLen \in Nat /\ computed[r] \in Nat
        /\ table[r] \in Seq(Blocks) /\ have \in Nat /\ TablesInv
    <2>1. BlockSize \in Nat \ {0} /\ MaxModelLen \in Nat
      BY ExecutorAssumption
    <2>2. TablesInv /\ computed[r] \in Nat
      BY DEF ReqInv
    <2>3. table[r] \in Seq(Blocks)
      BY <2>2 DEF TablesInv
    <2>4. have \in Nat
      BY <2>3
    <2> QED
      BY <2>1, <2>2, <2>3, <2>4
  <1>2. PICK t \in [1 .. more -> Free] :
           s = table[r] \o t /\ \A i, j \in 1 .. more : t[i] = t[j] => i = j
    BY DEF TablesFor
  <1> HIDE DEF have
  <1>3. PICK c \in Nat : c = computed[r] + n + BlockSize - 1 /\ c <= MaxModelLen + BlockSize - 1
    <2>1. PICK m \in Nat : m = computed[r] + n
      BY <1>1
    <2>2. m + BlockSize - 1 \in Nat /\ m <= MaxModelLen
      <3>1. BlockSize \in Nat \ {0}
        BY <1>1
      <3>2. m + BlockSize - 1 \in Nat
        BY ONLY m \in Nat, <3>1
      <3> QED
        BY <2>1, <3>2
    <2>3. m + BlockSize - 1 <= MaxModelLen + BlockSize - 1
      BY <1>1, <2>2
    <2> QED
      BY <2>1, <2>2, <2>3
  <1>4. blocks = c \div BlockSize
    BY <1>3
  <1>5. /\ blocks \in Nat /\ blocks <= TableWidth
        /\ computed[r] + n <= blocks * BlockSize
    <2>1. MaxModelLen + BlockSize - 1 \in Nat
      BY <1>1
    <2>2. c \div BlockSize \in Nat /\ c \div BlockSize <= TableWidth
      BY <1>1, <1>3, <2>1, Quotient, QuotientGrows DEF TableWidth
    <2>3. c % BlockSize \in 0 .. BlockSize - 1 /\ c = BlockSize * (c \div BlockSize) + (c % BlockSize)
      BY <1>1, <1>3, Quotient
    <2>4. PICK q \in Nat : q = c \div BlockSize
      BY <2>2
    <2>5. PICK m \in Nat : m = BlockSize * q /\ q * BlockSize = m
      <3>1. BlockSize * q \in Nat /\ q * BlockSize = BlockSize * q
        BY <1>1, ProductIsNat
      <3> QED
        BY <3>1
    <2>6. computed[r] + n <= m
      <3>1. PICK a \in Nat : a = computed[r] + n
        BY <1>1
      <3>2. PICK o \in 0 .. BlockSize - 1 : c = m + o
        BY <2>3, <2>4, <2>5
      <3>3. c = a + BlockSize - 1
        BY <1>3, <3>1
      <3>4. a <= m
        BY <1>1, <3>2, <3>3
      <3> QED
        BY <3>1, <3>4
    <2> QED
      BY <1>4, <2>2, <2>4, <2>5, <2>6
  <1> HIDE DEF blocks
  <1> DEFINE grown == IF more > 0 THEN more ELSE 0
  <1>6. more \in Int /\ grown \in Nat /\ 1 .. more = 1 .. grown
    BY <1>1, <1>5
  <1>7. Free \subseteq Blocks
    BY DEF Free
  <1>8. t \in Seq(Blocks) /\ Len(t) = grown
    <2>1. t \in [1 .. grown -> Blocks]
      <3> HIDE DEF grown, more
      <3> QED
        BY <1>2, <1>6, <1>7
    <2> HIDE DEF grown
    <2> QED
      BY <1>6, <2>1
  <1>9. /\ s \in Seq(Blocks) /\ Len(s) = have + grown
        /\ \A i \in 1 .. have : s[i] = table[r][i]
        /\ \A i \in have + 1 .. Len(s) : s[i] = t[i - have]
    <2> DEFINE B == Blocks
               u == table[r]
    <2>1. u \in Seq(B) /\ t \in Seq(B) /\ have = Len(u) /\ s = u \o t
      BY <1>1, <1>2, <1>8 DEF have
    <2> HIDE DEF B, u, more
    <2>2. s \in Seq(B) /\ Len(s) = Len(u) + Len(t)
      BY <2>1
    <2>5. Len(s) = have + grown
      BY <1>8, <2>1, <2>2
    <2>3. \A i \in 1 .. have : s[i] = u[i]
      BY <2>1
    <2>4. \A i \in have + 1 .. Len(s) : s[i] = t[i - have]
      BY <2>1, <2>2, <1>8, <1>6
    <2> QED
      BY <2>2, <2>3, <2>4, <2>5 DEF B, u
  <1>10. ASSUME NEW i \in 1 .. Len(s), i > have PROVE i - have \in 1 .. more /\ s[i] = t[i - have]
    <2>1. i \in have + 1 .. Len(s) /\ i - have \in 1 .. grown
      BY <1>1, <1>6, <1>9, <1>10
    <2> HIDE DEF grown, more
    <2> QED
      BY <1>6, <1>9, <2>1
  <1>11. ASSUME NEW i \in 1 .. Len(s), i > have PROVE s[i] \in Free
    <2> HIDE DEF more
    <2> QED
      BY <1>2, <1>10, <1>11
  <1>12. ASSUME NEW i \in 1 .. Len(s), ~ (i > have)
         PROVE  i \in 1 .. have /\ s[i] = table[r][i] /\ s[i] \in Elements(table[r])
    <2>1. i \in 1 .. have
      BY <1>1, <1>9, <1>12
    <2>2. DOMAIN table[r] = 1 .. have
      BY <1>1 DEF have
    <2> QED
      BY <1>9, <2>1, <2>2 DEF Elements
  <1>13. ASSUME NEW i \in 1 .. Len(s), NEW j \in 1 .. Len(s), s[i] = s[j] PROVE i = j
    <2>1. CASE i > have /\ j > have
      <3>1. i - have \in 1 .. more /\ j - have \in 1 .. more /\ t[i - have] = t[j - have]
        BY <1>10, <1>13, <2>1
      <3>2. i - have = j - have
        <4> HIDE DEF more
        <4> QED
          BY <1>2, <3>1
      <3> QED
        BY <1>1, <1>9, <3>2
    <2>2. CASE ~ (i > have) /\ ~ (j > have)
      BY <1>1, <1>12, <1>13, <2>2 DEF TablesInv, have
    <2>3. CASE i > have /\ ~ (j > have)
      BY <1>11, <1>12, <1>13, <2>3 DEF Free
    <2>4. CASE ~ (i > have) /\ j > have
      BY <1>11, <1>12, <1>13, <2>4 DEF Free
    <2> QED
      BY <2>1, <2>2, <2>3, <2>4
  <1>14. have <= Len(s) /\ Len(s) <= TableWidth
    <2>1. have <= TableWidth /\ TableWidth \in Int
      BY <1>1, ExecutorAssumption DEF TablesInv, have, TableWidth
    <2> QED
      BY <1>1, <1>5, <1>6, <1>9, <2>1
  <1>15. computed[r] + n <= Len(s) * BlockSize
    <2>1. CASE more > 0
      <3>1. Len(s) = blocks
        BY <1>1, <1>5, <1>9, <2>1
      <3> QED
        BY <1>5, <3>1
    <2>2. CASE ~ (more > 0)
      <3>1. Len(s) = have /\ blocks <= have
        BY <1>1, <1>5, <1>9, <2>2
      <3>2. PICK d \in Nat : have = blocks + d
        <4>1. have - blocks \in Nat /\ have = blocks + (have - blocks)
          BY <1>1, <1>5, <3>1
        <4> QED
          BY <4>1
      <3>3. have * BlockSize = blocks * BlockSize + d * BlockSize
        BY <1>1, <1>5, <3>2
      <3>4. d * BlockSize \in Nat /\ blocks * BlockSize \in Nat
        BY <1>1, <1>5, <3>2, ProductIsNat
      <3> QED
        BY <1>1, <1>5, <3>1, <3>3, <3>4
    <2> QED
      BY <2>1, <2>2
  <1> QED
    BY <1>9, <1>11, <1>13, <1>14, <1>15 DEF Grows, have

\* What is known of a batch of the scheduler's, before it is counted.
Planned(b) ==
    /\ IsBatch(b) /\ Len(b) <= MaxSeqs /\ Size(b) <= MaxTokens
    /\ \A j, k \in 1 .. Len(b) : b[j].req = b[k].req => j = k
    /\ \A k \in 1 .. Len(b) :
          /\ b[k].offset = computed[b[k].req]
          /\ b[k].needsSampling => b[k].offset + b[k].len = numTokens[b[k].req]
          /\ Grows(b[k].blocks, b[k].req, b[k].len)
    /\ \A j, k \in 1 .. Len(b) :
          j # k => Elements(b[j].blocks) \cap Elements(b[k].blocks) = {}

LEMMA LinesAre ==
  ASSUME ReqInv, NEW rs \in Lines
  PROVE  /\ Len(rs) \in Nat /\ Len(rs) <= MaxSeqs /\ DOMAIN rs = 1 .. Len(rs)
         /\ rs \in Seq(Requests) /\ (Len(rs) = 0 => rs = <<>>)
         /\ \A k \in 1 .. Len(rs) :
               /\ rs[k] \in Requests
               /\ numTokens[rs[k]] \in Nat /\ numTokens[rs[k]] < MaxModelLen
               /\ computed[rs[k]] \in Nat
         /\ \A j, k \in 1 .. Len(rs) : rs[j] = rs[k] => j = k
  <1>1. PICK n \in 0 .. Least(MaxSeqs, NumRequests) :
           rs \in [1 .. n -> {r \in Requests : Unfinished(r)}]
    BY DEF Lines
  <1>2. n \in Nat /\ n <= MaxSeqs
    BY <1>1, WorkspaceAssumption, ExecutorAssumption DEF Least
  <1>3. rs \in [1 .. n -> Requests] /\ \A k \in 1 .. n : Unfinished(rs[k])
    BY <1>1
  <1>4. rs \in Seq(Requests) /\ Len(rs) = n /\ DOMAIN rs = 1 .. n /\ (n = 0 => rs = <<>>)
    BY <1>2, <1>3
  <1>5. \A j, k \in DOMAIN rs : rs[j] = rs[k] => j = k
    BY DEF Lines
  <1>6. \A k \in 1 .. n : /\ rs[k] \in Requests
                          /\ numTokens[rs[k]] \in Nat /\ numTokens[rs[k]] < MaxModelLen
                          /\ computed[rs[k]] \in Nat
    BY <1>3 DEF Unfinished, ReqInv
  <1> QED
    BY <1>2, <1>4, <1>5, <1>6

LEMMA BatchIsPlanned ==
  ASSUME ReqInv, NEW rs \in Lines, NEW b \in BatchesOf(rs), b # <<>>
  PROVE  Planned(b)
  <1>1. PICK f :
            /\ b = [k \in DOMAIN rs |->
                      [req |-> rs[k], offset |-> computed[rs[k]], len |-> Width(rs, k),
                       blocks |-> f[k],
                       needsSampling |-> Width(rs, k) = numTokens[rs[k]] - computed[rs[k]]]]
            /\ \A k \in DOMAIN rs :
                  Width(rs, k) > 0 /\ f[k] \in TablesFor(rs[k], Width(rs, k), Free)
            /\ \A j, k \in DOMAIN rs : j # k => Elements(f[j]) \cap Elements(f[k]) = {}
    BY BatchesAre
  <1>2. /\ Len(rs) \in Nat /\ Len(rs) <= MaxSeqs /\ DOMAIN rs = 1 .. Len(rs)
        /\ \A k \in 1 .. Len(rs) :
               /\ rs[k] \in Requests
               /\ numTokens[rs[k]] \in Nat /\ numTokens[rs[k]] < MaxModelLen
               /\ computed[rs[k]] \in Nat
        /\ \A j, k \in 1 .. Len(rs) : rs[j] = rs[k] => j = k
    BY LinesAre
  <1>3. /\ Ends(rs) \in [0 .. Len(rs) -> Int] /\ Ends(rs)[0] = 0
        /\ \A k \in 1 .. Len(rs) :
               Ends(rs)[k] = Ends(rs)[k - 1]
                             + Least(numTokens[rs[k]] - computed[rs[k]], MaxTokens - Ends(rs)[k - 1])
    <2>1. \A k \in 1 .. Len(rs) : numTokens[rs[k]] - computed[rs[k]] \in Int
      BY <1>2
    <2> QED
      BY <1>2, <2>1, EndsOf
  <1>4. MaxTokens \in Nat \ {0} /\ MaxModelLen \in Nat
    BY WorkspaceAssumption, ExecutorAssumption
  <1>5. ASSUME NEW k \in 1 .. Len(rs)
        PROVE  /\ Width(rs, k) \in Nat \ {0}
               /\ Ends(rs)[k] = Ends(rs)[k - 1] + Width(rs, k)
               /\ Ends(rs)[k] <= MaxTokens
               /\ computed[rs[k]] + Width(rs, k) <= numTokens[rs[k]]
    <2>1. PICK x \in Int : x = Ends(rs)[k - 1]
      <3>1. k - 1 \in 0 .. Len(rs)
        BY <1>2
      <3> QED
        BY <1>3, <3>1
    <2>2. PICK y \in Int : y = Ends(rs)[k]
      <3>1. k \in 0 .. Len(rs)
        BY <1>2
      <3> QED
        BY <1>3, <3>1
    <2>3. Width(rs, k) = y - x /\ y - x > 0
      BY <1>1, <1>2, <2>1, <2>2 DEF Width
    <2>4. y = x + Least(numTokens[rs[k]] - computed[rs[k]], MaxTokens - x)
      BY <1>3, <2>1, <2>2
    <2>5. y <= x + (numTokens[rs[k]] - computed[rs[k]]) /\ y <= MaxTokens
      BY <1>2, <1>4, <2>4 DEF Least
    <2>6. computed[rs[k]] + (y - x) <= numTokens[rs[k]]
      BY <1>2, <2>5
    <2> QED
      BY <2>1, <2>2, <2>3, <2>5, <2>6
  <1>6. Len(b) = Len(rs) /\ DOMAIN b = 1 .. Len(rs)
    BY <1>1, <1>2
  <1>70. ASSUME NEW k \in 1 .. Len(rs)
         PROVE  \E z \in BOOLEAN :
                   /\ b[k] = [req |-> rs[k], offset |-> computed[rs[k]], len |-> Width(rs, k),
                              blocks |-> f[k], needsSampling |-> z]
                   /\ z => Width(rs, k) = numTokens[rs[k]] - computed[rs[k]]
    <2> DEFINE z == Width(rs, k) = numTokens[rs[k]] - computed[rs[k]]
    <2>1. b[k] = [req |-> rs[k], offset |-> computed[rs[k]], len |-> Width(rs, k), blocks |-> f[k],
                  needsSampling |-> z]
      BY <1>1, <1>2
    <2>2. z \in BOOLEAN
      OBVIOUS
    <2>3. z => Width(rs, k) = numTokens[rs[k]] - computed[rs[k]]
      OBVIOUS
    <2> HIDE DEF z
    <2> QED
      BY <2>1, <2>2, <2>3
  <1>7. ASSUME NEW k \in 1 .. Len(rs)
        PROVE  /\ b[k].req = rs[k] /\ b[k].offset = computed[rs[k]] /\ b[k].len = Width(rs, k)
               /\ b[k].blocks = f[k]
               /\ b[k].needsSampling => Width(rs, k) = numTokens[rs[k]] - computed[rs[k]]
    <2>1. PICK z \in BOOLEAN :
             /\ b[k] = [req |-> rs[k], offset |-> computed[rs[k]], len |-> Width(rs, k),
                        blocks |-> f[k], needsSampling |-> z]
             /\ z => Width(rs, k) = numTokens[rs[k]] - computed[rs[k]]
      BY <1>70
    <2> QED
      BY <2>1
  <1>8. ASSUME NEW k \in 1 .. Len(rs)
        PROVE  Grows(b[k].blocks, b[k].req, b[k].len)
    <2>1. computed[rs[k]] + Width(rs, k) <= MaxModelLen
      BY <1>2, <1>4, <1>5
    <2>2. f[k] \in TablesFor(rs[k], Width(rs, k), Free)
      BY <1>1, <1>2
    <2>3. rs[k] \in Requests /\ Width(rs, k) \in Nat
      BY <1>2, <1>5
    <2>4. Grows(f[k], rs[k], Width(rs, k))
      BY <2>1, <2>2, <2>3, TablesGrow
    <2> QED
      BY <1>7, <2>4
  <1>9. IsBatch(b)
    <2>1. ASSUME NEW k \in 1 .. Len(rs) PROVE b[k] \in Entry
      <3>1. b[k].blocks \in Seq(Blocks)
        BY <1>8 DEF Grows
      <3>2. b[k].req \in Requests /\ b[k].offset \in Nat /\ b[k].len \in Nat \ {0}
        BY <1>2, <1>5, <1>7
      <3>3. PICK z \in BOOLEAN :
               b[k] = [req |-> rs[k], offset |-> computed[rs[k]], len |-> Width(rs, k),
                       blocks |-> f[k], needsSampling |-> z]
        BY <1>70
      <3>4. /\ rs[k] \in Requests /\ computed[rs[k]] \in Nat /\ Width(rs, k) \in Nat \ {0}
            /\ f[k] \in Seq(Blocks)
        BY <1>7, <3>1, <3>2
      <3> QED
        BY <3>3, <3>4 DEF Entry
    <2>2. b \in [1 .. Len(rs) -> Entry]
      BY <1>1, <1>2, <2>1
    <2> QED
      BY <1>2, <2>2 DEF IsBatch
  <1>10. Size(b) <= MaxTokens
    <2>1. /\ Starts(b)[0] = 0 /\ Len(b) \in Nat \ {0}
          /\ \A k \in 1 .. Len(b) : Starts(b)[k] = Starts(b)[k - 1] + b[k].len
      BY <1>9, BatchStarts, BatchEntries
    <2> DEFINE n == Len(b)
               T == {k \in 0 .. n : Starts(b)[k] = Ends(rs)[k]}
    <2>2. \A k \in 0 .. n : k \in T
      <3>1. 0 \in T
        BY <1>3, <2>1
      <3>2. ASSUME NEW k \in 0 .. n - 1, k \in T PROVE k + 1 \in T
        <4>1. PICK j \in 1 .. n : j = k + 1 /\ j - 1 = k /\ j \in 0 .. n
          BY <2>1
        <4>2. Starts(b)[j] = Starts(b)[j - 1] + b[j].len
          BY <2>1
        <4>3. b[j].len = Width(rs, j) /\ Ends(rs)[j] = Ends(rs)[j - 1] + Width(rs, j)
          BY <1>5, <1>6, <1>7
        <4>4. Starts(b)[j - 1] = Ends(rs)[j - 1]
          BY <3>2, <4>1
        <4>5. Starts(b)[j] = Ends(rs)[j]
          BY <4>2, <4>3, <4>4
        <4> QED
          BY <4>1, <4>5
      <3>3. n \in Nat
        BY <2>1
      <3> HIDE DEF T, n
      <3> QED
        BY <3>1, <3>2, <3>3, UpTo
    <2>3. n \in 1 .. n /\ n \in 0 .. n
      BY <2>1
    <2>4. Starts(b)[n] = Ends(rs)[n] /\ Ends(rs)[n] <= MaxTokens
      BY <1>5, <1>6, <2>2, <2>3
    <2> QED
      BY <2>4 DEF Size
  <1>11. ASSUME NEW j \in 1 .. Len(b), NEW k \in 1 .. Len(b), b[j].req = b[k].req PROVE j = k
    BY <1>2, <1>6, <1>7, <1>11
  <1>12. ASSUME NEW k \in 1 .. Len(b)
         PROVE  /\ b[k].offset = computed[b[k].req]
                /\ b[k].needsSampling => b[k].offset + b[k].len = numTokens[b[k].req]
                /\ Grows(b[k].blocks, b[k].req, b[k].len)
    <2>1. k \in 1 .. Len(rs)
      BY <1>6
    <2>2. Width(rs, k) \in Nat /\ numTokens[rs[k]] \in Nat /\ computed[rs[k]] \in Nat
      BY <1>2, <1>5, <2>1
    <2>3. b[k].needsSampling => computed[rs[k]] + Width(rs, k) = numTokens[rs[k]]
      <3> SUFFICES ASSUME b[k].needsSampling
                   PROVE  computed[rs[k]] + Width(rs, k) = numTokens[rs[k]]
        OBVIOUS
      <3>1. Width(rs, k) = numTokens[rs[k]] - computed[rs[k]]
        BY <1>7, <2>1
      <3> QED
        BY <2>2, <3>1
    <2> QED
      BY <1>7, <1>8, <2>1, <2>3
  <1>13. ASSUME NEW j \in 1 .. Len(b), NEW k \in 1 .. Len(b), j # k
         PROVE  Elements(b[j].blocks) \cap Elements(b[k].blocks) = {}
    BY <1>1, <1>2, <1>6, <1>7, <1>13
  <1> QED
    BY <1>2, <1>6, <1>9, <1>10, <1>11, <1>12, <1>13 DEF Planned

\* The scheduler counts the tokens of the batch and holds its blocks.
Counts(b) ==
    /\ computed' = [r \in Requests |->
           IF \E k \in DOMAIN b : b[k].req = r
           THEN LET e == b[CHOOSE k \in DOMAIN b : b[k].req = r]
                IN  e.offset + e.len
           ELSE computed[r]]
    /\ table' = [r \in Requests |->
           IF \E k \in DOMAIN b : b[k].req = r
           THEN b[CHOOSE k \in DOMAIN b : b[k].req = r].blocks
           ELSE table[r]]
    /\ numTokens' = numTokens /\ numBlocks' = numBlocks

LEMMA CountedRequests ==
  ASSUME NEW b, Planned(b), Counts(b)
  PROVE  /\ \A k \in 1 .. Len(b) :
               /\ table'[b[k].req] = b[k].blocks
               /\ computed'[b[k].req] = b[k].offset + b[k].len
         /\ \A r \in Requests : ~ (\E k \in 1 .. Len(b) : b[k].req = r) =>
               table'[r] = table[r] /\ computed'[r] = computed[r]
         /\ DOMAIN table' = Requests /\ DOMAIN computed' = Requests
         /\ table' = [r \in Requests |-> table'[r]]
         /\ computed' = [r \in Requests |-> computed'[r]]
  <1>1. /\ DOMAIN b = 1 .. Len(b)
        /\ \A k \in 1 .. Len(b) : b[k].req \in Requests
    BY BatchEntries DEF Planned
  <1>2. ASSUME NEW k \in 1 .. Len(b)
        PROVE  (CHOOSE j \in DOMAIN b : b[j].req = b[k].req) = k
    <2> DEFINE c == CHOOSE j \in DOMAIN b : b[j].req = b[k].req
    <2>1. c \in 1 .. Len(b) /\ b[c].req = b[k].req
      BY <1>1
    <2> HIDE DEF c
    <2> QED
      BY <2>1 DEF Planned
  <1>3. ASSUME NEW k \in 1 .. Len(b)
        PROVE  /\ table'[b[k].req] = b[k].blocks
               /\ computed'[b[k].req] = b[k].offset + b[k].len
    <2>1. PICK r \in Requests : r = b[k].req
      BY <1>1
    <2>2. \E j \in DOMAIN b : b[j].req = r
      BY <1>1, <2>1
    <2>3. (CHOOSE j \in DOMAIN b : b[j].req = r) = k
      BY <1>2, <2>1
    <2>4. table'[r] = b[CHOOSE j \in DOMAIN b : b[j].req = r].blocks
      BY <2>2 DEF Counts
    <2>5. computed'[r] = b[CHOOSE j \in DOMAIN b : b[j].req = r].offset
                         + b[CHOOSE j \in DOMAIN b : b[j].req = r].len
      BY <2>2 DEF Counts
    <2> QED
      BY <2>1, <2>3, <2>4, <2>5
  <1>4. ASSUME NEW r \in Requests, ~ (\E k \in 1 .. Len(b) : b[k].req = r)
        PROVE  table'[r] = table[r] /\ computed'[r] = computed[r]
    BY <1>1, <1>4 DEF Counts
  <1>5. /\ DOMAIN table' = Requests /\ DOMAIN computed' = Requests
        /\ table' = [r \in Requests |-> table'[r]]
        /\ computed' = [r \in Requests |-> computed'[r]]
    BY DEF Counts
  <1> QED
    BY <1>3, <1>4, <1>5

\* What a request may have after the batch was counted.
LEMMA CountedTables ==
  ASSUME ReqInv, NEW b, Planned(b), Counts(b), NEW r \in Requests
  PROVE  /\ table'[r] \in Seq(Blocks)
         /\ computed'[r] \in Nat
         /\ computed'[r] <= Len(table'[r]) * BlockSize /\ Len(table'[r]) <= TableWidth
         /\ Len(table[r]) <= Len(table'[r])
         /\ \A i \in 1 .. Len(table[r]) : table'[r][i] = table[r][i]
         /\ \A i \in 1 .. Len(table'[r]) : i > Len(table[r]) => table'[r][i] \in Free
         /\ \A i, j \in 1 .. Len(table'[r]) : table'[r][i] = table'[r][j] => i = j
  <1>1. CASE \E k \in 1 .. Len(b) : b[k].req = r
    <2>1. PICK k \in 1 .. Len(b) : b[k].req = r
      BY <1>1
    <2>2. table'[r] = b[k].blocks /\ computed'[r] = b[k].offset + b[k].len
      BY <2>1, CountedRequests
    <2>3. Grows(b[k].blocks, r, b[k].len) /\ b[k].offset = computed[r]
      BY <2>1 DEF Planned
    <2>4. b[k].len \in Nat /\ computed[r] \in Nat
      BY BatchEntries DEF Planned, ReqInv
    <2>5. computed'[r] = computed[r] + b[k].len
      BY <2>2, <2>3
    <2>6. Grows(table'[r], r, b[k].len)
      BY <2>2, <2>3
    <2>7. computed'[r] \in Nat
      BY <2>4, <2>5
    <2>8. computed'[r] <= Len(table'[r]) * BlockSize
      BY <2>5, <2>6 DEF Grows
    <2> QED
      BY <2>6, <2>7, <2>8, Zenon DEF Grows
  <1>2. CASE ~ \E k \in 1 .. Len(b) : b[k].req = r
    <2>1. table'[r] = table[r] /\ computed'[r] = computed[r]
      BY <1>2, CountedRequests
    <2>2. table[r] \in Seq(Blocks) /\ computed[r] \in Nat
      BY DEF ReqInv, TablesInv
    <2>3. Len(table[r]) \in Nat
      BY <2>2
    <2>4. computed[r] <= Len(table[r]) * BlockSize /\ Len(table[r]) <= TableWidth
      BY DEF ReqInv, TablesInv
    <2>5. \A i, j \in 1 .. Len(table[r]) : table[r][i] = table[r][j] => i = j
      BY DEF ReqInv, TablesInv
    <2>6. \A i \in 1 .. Len(table[r]) : ~ (i > Len(table[r]))
      BY <2>3
    <2> QED
      BY <2>1, <2>2, <2>3, <2>4, <2>5, <2>6
  <1> QED
    BY <1>1, <1>2

LEMMA CountedReqInv ==
  ASSUME ReqInv, NEW b, Planned(b), Counts(b)
  PROVE  ReqInv'
  <1>1. numTokens' \in [Requests -> Nat] /\ numBlocks' \in Nat /\ Blocks' = Blocks
    BY DEF Counts, ReqInv, Blocks
  <1>2. computed' \in [Requests -> Nat]
    BY CountedTables, CountedRequests
  <1>3. table' \in [Requests -> Seq(Blocks')]
    <2>1. \A r \in Requests : table'[r] \in Seq(Blocks)
      BY CountedTables
    <2>2. table' = [r \in Requests |-> table'[r]]
      BY CountedRequests
    <2> QED
      BY <1>1, <2>1, <2>2
  <1>4. ASSUME NEW r \in Requests, NEW s \in Requests, r # s,
               NEW i \in 1 .. Len(table'[r]), NEW j \in 1 .. Len(table'[s])
        PROVE  table'[r][i] # table'[s][j]
    <2>0. /\ table'[r] \in Seq(Blocks) /\ table'[s] \in Seq(Blocks)
          /\ table[r] \in Seq(Blocks) /\ table[s] \in Seq(Blocks)
      BY CountedTables DEF ReqInv, TablesInv
    <2>1. CASE i \in 1 .. Len(table[r]) /\ j \in 1 .. Len(table[s])
      <3>1. table[r][i] # table[s][j]
        BY <1>4, <2>1 DEF ReqInv, TablesInv
      <3> QED
        BY <2>1, <3>1, CountedTables
    <2>2. ASSUME NEW u \in Requests, NEW v \in Requests,
                 NEW k \in 1 .. Len(table'[u]), NEW l \in 1 .. Len(table[v]),
                 k > Len(table[u])
          PROVE  table'[u][k] # table'[v][l]
      <3>1. table'[u][k] \in Free /\ table'[v][l] = table[v][l]
        BY <2>2, CountedTables
      <3>2. table[v][l] \in Elements(table[v])
        <4>1. DOMAIN table[v] = 1 .. Len(table[v])
          BY DEF ReqInv, TablesInv
        <4> QED
          BY <4>1 DEF Elements
      <3> QED
        BY <3>1, <3>2 DEF Free
    <2>3. CASE i > Len(table[r]) /\ j > Len(table[s])
      <3>1. ASSUME NEW u \in Requests, NEW k \in 1 .. Len(table'[u]), k > Len(table[u])
            PROVE  \E e \in 1 .. Len(b) : b[e].req = u
        <4> SUFFICES ASSUME ~ \E e \in 1 .. Len(b) : b[e].req = u PROVE FALSE
          OBVIOUS
        <4>1. table'[u] = table[u]
          BY CountedRequests
        <4>2. table[u] \in Seq(Blocks)
          BY DEF ReqInv, TablesInv
        <4> QED
          BY <3>1, <4>1, <4>2
      <3>2. \E k \in 1 .. Len(b) : b[k].req = r
        BY <2>3, <3>1
      <3>3. \E k \in 1 .. Len(b) : b[k].req = s
        BY <2>3, <3>1
      <3>4. PICK k \in 1 .. Len(b), l \in 1 .. Len(b) : b[k].req = r /\ b[l].req = s
        BY <3>2, <3>3
      <3>5. table'[r] = b[k].blocks /\ table'[s] = b[l].blocks
        BY <3>4, CountedRequests
      <3>6. k # l
        BY <1>4, <3>4
      <3>7. Elements(b[k].blocks) \cap Elements(b[l].blocks) = {}
        BY <3>6 DEF Planned
      <3>8. table'[r][i] \in Elements(table'[r]) /\ table'[s][j] \in Elements(table'[s])
        <4>1. DOMAIN table'[r] = 1 .. Len(table'[r]) /\ DOMAIN table'[s] = 1 .. Len(table'[s])
          BY <2>0
        <4> QED
          BY <4>1 DEF Elements
      <3> QED
        BY <3>5, <3>7, <3>8
    <2>4. CASE i > Len(table[r]) /\ j \in 1 .. Len(table[s])
      BY <2>2, <2>4
    <2>5. CASE i \in 1 .. Len(table[r]) /\ j > Len(table[s])
      BY <2>2, <2>5
    <2>6. (i > Len(table[r]) \/ i \in 1 .. Len(table[r])) /\ (j > Len(table[s]) \/ j \in 1 .. Len(table[s]))
      BY <2>0
    <2> QED
      BY <2>1, <2>3, <2>4, <2>5, <2>6
  <1>5. TablesInv'
    <2>1. \A r \in Requests :
             computed'[r] <= Len(table'[r]) * BlockSize /\ Len(table'[r]) <= TableWidth
      BY CountedTables
    <2>2. ASSUME NEW r \in Requests, NEW s \in Requests,
                 NEW i \in 1 .. Len(table'[r]), NEW j \in 1 .. Len(table'[s]),
                 table'[r][i] = table'[s][j]
          PROVE  r = s /\ i = j
      <3>1. r = s
        BY <1>4, <2>2
      <3> QED
        BY <2>2, <3>1, CountedTables
    <2> QED
      BY <1>3, <2>1, <2>2 DEF TablesInv
  <1> QED
    BY <1>1, <1>2, <1>5 DEF ReqInv

LEMMA CountedIsTaken ==
  ASSUME ReqInv, NEW b, Planned(b), Counts(b)
  PROVE  Taken(b)'
  <1>1. IsBatch(b)'
    BY DEF Planned, IsBatch, Entry, Blocks, Counts
  <1>2. /\ Len(b) <= MaxSeqs /\ Size(b) <= MaxTokens
        /\ \A j, k \in 1 .. Len(b) : b[j].req = b[k].req => j = k
    BY DEF Planned
  <1>3. ASSUME NEW k \in 1 .. Len(b)
        PROVE  /\ b[k].blocks = table'[b[k].req]
               /\ b[k].offset + b[k].len = computed'[b[k].req]
               /\ b[k].needsSampling => computed'[b[k].req] = numTokens'[b[k].req]
    BY CountedRequests DEF Planned, Counts
  <1> QED
    BY <1>1, <1>2, <1>3 DEF Taken

\* The positions that were computed before keep their slots.
LEMMA CountedKeys ==
  ASSUME ReqInv, NEW b, Planned(b), Counts(b), kv' = kv, AllKeys
  PROVE  KeysTo(b, 1)'
  <1>1. ASSUME NEW m \in Layers, NEW r \in Requests, NEW p \in 0 .. computed'[r] - 1,
               m < 1 \/ ~NewKey(b, r, p)
        PROVE  KeyIs(m, r, p)'
    <2>1. ~NewKey(b, r, p)
      BY <1>1, LayersAreNat DEF Layers
    <2>2. p \in 0 .. computed[r] - 1
      <3>1. CASE \E k \in 1 .. Len(b) : b[k].req = r
        <4>1. PICK k \in 1 .. Len(b) : b[k].req = r
          BY <3>1
        <4>2. ~ (b[k].offset <= p) /\ b[k].offset = computed[r]
          BY <2>1, <4>1 DEF NewKey, Planned
        <4>3. computed[r] \in Nat /\ computed'[r] \in Nat
          BY CountedTables DEF ReqInv
        <4> QED
          BY <4>2, <4>3
      <3>2. CASE ~ \E k \in 1 .. Len(b) : b[k].req = r
        BY <3>2, CountedRequests
      <3> QED
        BY <3>1, <3>2
    <2>3. KeyIs(m, r, p)
      BY <2>2 DEF AllKeys
    <2>4. p \div BlockSize + 1 \in 1 .. Len(table[r])
      BY <2>2, SlotFacts
    <2>5. table'[r][p \div BlockSize + 1] = table[r][p \div BlockSize + 1]
      BY <2>4, CountedTables
    <2>6. SlotOf(table'[r], p) = SlotOf(table[r], p)
      BY <2>5 DEF SlotOf
    <2> QED
      BY <2>3, <2>6 DEF KeyIs
  <1>2. \A r, p : NewKey(b, r, p)' <=> NewKey(b, r, p)
    BY DEF NewKey
  <1> QED
    BY <1>1, <1>2 DEF KeysTo

\* upload writes the batch into the pinned buffer.
LEMMA FilledHolds ==
  ASSUME graphs \in BOOLEAN, graphs' = graphs,
         NEW b, IsBatch(b), Len(b) <= MaxSeqs, Size(b) <= MaxTokens,
         \A k \in 1 .. Len(b) : Len(b[k].blocks) <= TableWidth,
         pinned' = Filled(b, Size(b), RowCount(b))
  PROVE  Holds(pinned, b)'
  <1> DEFINE n == Size(b)
             rows == RowCount(b)
  <1>1. MaxTokens \in Nat /\ MaxSeqs \in Nat /\ TableWidth \in Int
    BY WorkspaceAssumption, ExecutorAssumption DEF TableWidth
  <1>2. /\ n \in 1 .. MaxTokens /\ rows \in n .. MaxTokens
    <2>1. Size(b) \in Nat \ {0} /\ Size(b) <= MaxTokens
      BY BatchStarts
    <2>2. CASE graphs
      BY <1>1, <2>1, <2>2, BucketFacts DEF RowCount
    <2>3. CASE ~graphs
      BY <1>1, <2>1, <2>3 DEF RowCount
    <2> QED
      BY <1>1, <2>1, <2>2, <2>3
  <1>3. Len(b) \in Nat \ {0} /\ NumSamples(b) \in 0 .. Len(b)
        /\ \A k \in 1 .. Len(b) : b[k].blocks \in Seq(Blocks)
    BY BatchEntries, SamplingFacts
  <1>5. /\ HostStride(b) \in 0 .. TableWidth
        /\ \A k \in 1 .. Len(b) : Len(b[k].blocks) <= HostStride(b)
    BY StrideFacts
  <1>50. n = Size(b) /\ rows = RowCount(b)
    OBVIOUS
  <1> HIDE DEF n, rows
  <1>6. /\ pinned'.tokens = [i \in Rows |->
              IF i < n THEN Tok(b[EntryOf(b, i)].req, PositionOf(b, i))
              ELSE IF i < rows THEN Pad ELSE pinned.tokens[i]]
        /\ pinned'.positions = [i \in Rows |->
              IF i < n THEN PositionOf(b, i) ELSE IF i < rows THEN 0 ELSE pinned.positions[i]]
        /\ pinned'.slots = [i \in Rows |->
              IF i < n THEN SlotOf(b[EntryOf(b, i)].blocks, PositionOf(b, i))
              ELSE IF i < rows THEN PaddingSlot(i) ELSE pinned.slots[i]]
        /\ pinned'.starts = [k \in 0 .. MaxSeqs |->
              IF k <= Len(b) THEN Starts(b)[k] ELSE pinned.starts[k]]
        /\ pinned'.seqLens = [k \in 0 .. MaxSeqs - 1 |->
              IF k < Len(b) THEN b[k + 1].offset + b[k + 1].len ELSE pinned.seqLens[k]]
        /\ pinned'.tables = [k \in 0 .. MaxSeqs - 1 |-> [c \in 0 .. TableWidth - 1 |->
              IF k < Len(b) /\ c < HostStride(b)
              THEN IF c < Len(b[k + 1].blocks) THEN b[k + 1].blocks[c + 1] ELSE 0
              ELSE pinned.tables[k][c]]]
        /\ pinned'.logitsIndices = [j \in 0 .. MaxSeqs - 1 |->
              IF j < NumSamples(b) THEN Starts(b)[Sampling(b)[j + 1]] - 1
              ELSE pinned.logitsIndices[j]]
        /\ pinned'.params = [j \in 0 .. MaxSeqs - 1 |->
              IF j < NumSamples(b) THEN b[Sampling(b)[j + 1]].req ELSE pinned.params[j]]
        /\ pinned'.count = n
    BY <1>50 DEF Filled, NumSamples
  <1>8. RowsAre(pinned, b)'
    <2>1. RowCount(b)' = rows
      BY <1>50 DEF RowCount
    <2>2. \A i \in 0 .. n - 1 : i \in Rows /\ i < n
      BY <1>1, <1>2 DEF Rows
    <2>3. \A i \in n .. rows - 1 : i \in Rows /\ ~ (i < n) /\ i < rows
      BY <1>1, <1>2 DEF Rows
    <2>4. \A i \in 0 .. n - 1 :
             /\ pinned'.tokens[i] = TokenAt(b, i)
             /\ pinned'.positions[i] = PositionOf(b, i)
             /\ pinned'.slots[i] = SlotOf(b[EntryOf(b, i)].blocks, PositionOf(b, i))
      BY <1>6, <2>2, Zenon DEF TokenAt
    <2>5. \A i \in n .. rows - 1 : pinned'.slots[i] = -1
      BY <1>6, <2>3 DEF PaddingSlot
    <2> QED
      BY <1>6, <1>50, <2>1, <2>4, <2>5 DEF RowsAre
  <1>9. EntriesAre(pinned, b)'
    <2>2. \A k \in 0 .. Len(b) : pinned'.starts[k] = Starts(b)[k]
      <3>1. \A k \in 0 .. Len(b) : k \in 0 .. MaxSeqs /\ k <= Len(b)
        BY <1>1, <1>3
      <3> QED
        BY <1>6, <3>1
    <2>3. ASSUME NEW k \in 1 .. Len(b)
          PROVE  /\ pinned'.seqLens[k - 1] = b[k].offset + b[k].len
                 /\ \A c \in 1 .. Len(b[k].blocks) : pinned'.tables[k - 1][c - 1] = b[k].blocks[c]
      <3>1. PICK m \in 0 .. MaxSeqs - 1 : m = k - 1 /\ m < Len(b) /\ m + 1 = k
        BY <1>1, <1>3
      <3>2. pinned'.seqLens[m] = b[k].offset + b[k].len
        BY <1>6, <3>1
      <3>3. ASSUME NEW c \in 1 .. Len(b[k].blocks)
            PROVE  pinned'.tables[m][c - 1] = b[k].blocks[c]
        <4>0. Len(b[k].blocks) \in Nat /\ Len(b[k].blocks) <= HostStride(b)
          BY <1>3, <1>5
        <4>1. PICK d \in 0 .. TableWidth - 1 :
                 d = c - 1 /\ d < HostStride(b) /\ d < Len(b[k].blocks) /\ d + 1 = c
          <5>2. c - 1 \in 0 .. TableWidth - 1 /\ c - 1 < HostStride(b) /\ c - 1 < Len(b[k].blocks)
                /\ c - 1 + 1 = c
            BY <1>1, <1>5, <4>0
          <5> QED
            BY <5>2
        <4>2. pinned'.tables[m] = [x \in 0 .. TableWidth - 1 |->
                 IF m < Len(b) /\ x < HostStride(b)
                 THEN IF x < Len(b[m + 1].blocks) THEN b[m + 1].blocks[x + 1] ELSE 0
                 ELSE pinned.tables[m][x]]
          BY <1>6
        <4>3. pinned'.tables[m][d] = b[m + 1].blocks[d + 1]
          BY <3>1, <4>1, <4>2
        <4> QED
          BY <3>1, <4>1, <4>3
      <3> QED
        BY <3>1, <3>2, <3>3
    <2> QED
      BY <2>2, <2>3 DEF EntriesAre
  <1>10. SamplesAre(pinned, b)'
    <2>2. \A j \in 0 .. NumSamples(b) - 1 : j \in 0 .. MaxSeqs - 1 /\ j < NumSamples(b)
      BY <1>1, <1>3
    <2>3. \A j \in 0 .. NumSamples(b) - 1 :
             /\ pinned'.logitsIndices[j] = Starts(b)[Sampling(b)[j + 1]] - 1
             /\ pinned'.params[j] = Sampled(b, j).req
      BY <1>6, <2>2 DEF Sampled
    <2> QED
      BY <2>3 DEF SamplesAre
  <1> QED
    BY <1>8, <1>9, <1>10 DEF Holds

LEMMA EmptyKeeps ==
  ASSUME ExecutorInv, RunModel(<<>>)
  PROVE  ExecutorInv'
  <1>1. /\ host = "idle" /\ host' = "waiting"
        /\ inflight' = inflight /\ pinned' = pinned /\ stream' = stream
        /\ numTokens' = numTokens /\ graphs' = graphs /\ captured' = captured
        /\ numBlocks' = numBlocks /\ results' = results /\ device' = device /\ kv' = kv
    BY DEF RunModel, workVars
  <1>2. /\ computed \in [Requests -> Nat] /\ DOMAIN table = Requests
        /\ computed = [r \in Requests |-> computed[r]] /\ table = [r \in Requests |-> table[r]]
    BY DEF ExecutorInv, ReqInv, TablesInv
  <1>3. computed' = computed /\ table' = table
    <2>1. \A r \in Requests : ~ \E k \in DOMAIN <<>> : <<>>[k].req = r
      OBVIOUS
    <2>2. computed' = [r \in Requests |-> computed[r]]
      BY <2>1 DEF RunModel
    <2>3. table' = [r \in Requests |-> table[r]]
      BY <2>1 DEF RunModel
    <2> QED
      BY <1>2, <2>2, <2>3
  <1>4. stream = <<>> /\ inflight = <<>> /\ AllKeys
    BY <1>1 DEF ExecutorInv, HostInv
  <1>5. Done'
    <2>1. AllKeys'
      BY <1>1, <1>3, <1>4 DEF AllKeys, KeyIs
    <2>2. Delivered'
      BY <1>1, <1>4 DEF Delivered
    <2> QED
      BY <1>1, <1>4, <2>1, <2>2 DEF Done
  <1>6. ReqInv'
    BY <1>1, <1>3 DEF ExecutorInv, ReqInv, TablesInv, Blocks
  <1>7. HostInv'
    BY <1>1 DEF ExecutorInv, HostInv
  <1>8. WaitInv'
    BY <1>5 DEF WaitInv
  <1> QED
    BY <1>6, <1>7, <1>8 DEF ExecutorInv

LEMMA StepKeeps ==
  ASSUME ExecutorInv, NEW rs \in Lines, NEW b \in BatchesOf(rs), RunModel(b)
  PROVE  ExecutorInv'
  <1>1. CASE b = <<>>
    BY <1>1, EmptyKeeps
  <1>2. CASE b # <<>>
    <2>1. ReqInv /\ HostInv
      BY DEF ExecutorInv
    <2>2. Planned(b) /\ IsBatch(b)
      BY <1>2, <2>1, BatchIsPlanned DEF Planned
    <2>3. /\ host = "idle" /\ host' = "waiting"
          /\ pinned' = Filled(b, Size(b), RowCount(b))
          /\ stream' = stream \o <<Copy(RowCount(b), Len(b), NumSamples(b), HostStride(b))>>
                       \o (IF graphs THEN Replay(Size(b), Len(b)) ELSE Eager(Size(b), Len(b)))
                       \o Tokens(NumSamples(b))
          /\ inflight' = [j \in 1 .. NumSamples(b) |-> b[Sampling(b)[j]].req]
          /\ numTokens' = numTokens /\ graphs' = graphs /\ captured' = captured
          /\ numBlocks' = numBlocks /\ device' = device /\ kv' = kv
      BY <1>2 DEF RunModel, RowCount, Size, NumSamples, workVars
    <2>4. Counts(b)
      BY <2>3 DEF RunModel, Counts
    <2>5. /\ stream = <<>> /\ AllKeys /\ graphs \in BOOLEAN /\ DOMAIN kv = Layers
          /\ graphs => captured = "final"
          /\ "tokens" \in DOMAIN device
      BY <2>1, <2>3 DEF HostInv
    <2>6. ReqInv' /\ Taken(b)' /\ KeysTo(b, 1)'
      BY <2>1, <2>2, <2>3, <2>4, <2>5, CountedReqInv, CountedIsTaken, CountedKeys
    <2>7. stream' = Left(b, 0)'
      <3>1. stream' = Left(b, 0)
        BY <2>2, <2>3, <2>5, ProgramIsPut
      <3>2. RowCount(b)' = RowCount(b)
        BY <2>3 DEF RowCount
      <3>3. Left(b, 0)' = Left(b, 0)
        BY <3>2 DEF Left, OpAt, NumOps
      <3> QED
        BY <3>1, <3>3
    <2>8. Holds(pinned, b)'
      <3>1. \A k \in 1 .. Len(b) : Len(b[k].blocks) <= TableWidth
        BY <2>2 DEF Planned, Grows
      <3>2. Len(b) <= MaxSeqs /\ Size(b) <= MaxTokens
        BY <2>2 DEF Planned
      <3> QED
        BY <2>2, <2>3, <2>5, <3>1, <3>2, FilledHolds
    <2>9. InflightIs(b)'
      <3>1. ASSUME NEW j \in 1 .. NumSamples(b) PROVE b[Sampling(b)[j]] = Sampled(b, j - 1)
        <4>1. NumSamples(b) \in Nat
          BY <2>2, SamplingFacts, BatchEntries
        <4>2. j - 1 + 1 = j
          BY <4>1
        <4> QED
          BY <4>2 DEF Sampled
      <3>2. inflight' = [j \in 1 .. NumSamples(b) |-> Sampled(b, j - 1).req]
        BY <2>3, <3>1
      <3> QED
        BY <3>2 DEF InflightIs
    <2>10. Serving(b)'
      BY <2>6, <2>7, <2>8, <2>9 DEF Serving, Running
    <2>11. "tokens" \in DOMAIN pinned'
      BY <2>3 DEF Filled
    <2>12. HostInv'
      BY <2>3, <2>5, <2>11 DEF HostInv
    <2>13. WaitInv'
      BY <2>10 DEF WaitInv
    <2> QED
      BY <2>6, <2>12, <2>13 DEF ExecutorInv
  <1> QED
    BY <1>1, <1>2

-----------------------------------------------------------------------------
(***************************************************************************)
(* The theorems.                                                           *)
(***************************************************************************)

LEMMA DeviceKeeps ==
  ASSUME ExecutorInv, Device
  PROVE  ExecutorInv'
  BY CopyStep, EmbedStep, PrepareStep, AttendStep, ProjectStep, FeedForwardStep,
     GatherStep, SampleStep, DownloadStep DEF Device

LEMMA StutterKeeps ==
  ASSUME ExecutorInv, UNCHANGED vars
  PROVE  ExecutorInv'
  <1>1. /\ numTokens' = numTokens /\ computed' = computed /\ table' = table
        /\ host' = host /\ graphs' = graphs /\ captured' = captured /\ numBlocks' = numBlocks
        /\ inflight' = inflight /\ results' = results /\ pinned' = pinned
        /\ device' = device /\ stream' = stream
        /\ residual' = residual /\ qkv' = qkv /\ attnOut' = attnOut /\ hidden' = hidden /\ kv' = kv
    BY DEF vars, reqVars, hostVars, workVars
  <1>2. HostStays /\ AllKeys' = AllKeys /\ Delivered' = Delivered /\ ResultsAreOwn' = ResultsAreOwn
    BY <1>1 DEF HostStays, reqVars, AllKeys, KeyIs, Delivered, ResultsAreOwn
  <1>3. ReqInv'
    BY <1>1 DEF ExecutorInv, ReqInv, TablesInv, Blocks
  <1>4. HostInv'
    BY <1>1, <1>2 DEF ExecutorInv, HostInv
  <1>5. WaitInv'
    <2> SUFFICES ASSUME host = "waiting" PROVE Done' \/ \E b : Serving(b)'
      BY <1>1 DEF WaitInv
    <2>1. CASE Done
      BY <1>1, <1>2, <2>1 DEF Done
    <2>2. ASSUME NEW b, Serving(b) PROVE Serving(b)'
      <3>1. Taken(b)' /\ InflightIs(b)' /\ RowCount(b)' = RowCount(b)
        BY <1>2, <2>2, BatchStays DEF Serving
      <3>2. \A k : Left(b, k)' = Left(b, k)
        BY <1>2, BatchStays
      <3>3. \A l : KeysTo(b, l) => KeysTo(b, l)'
        BY <1>1, <1>2, KeysStay
      <3>4. Holds(device, b) => Holds(device, b)'
        BY <1>1, <1>2, HoldsStays
      <3>5. Holds(pinned, b) => Holds(pinned, b)'
        BY <1>1, <3>1 DEF Holds, RowsAre, EntriesAre, SamplesAre
      <3>6. \A l : BeforeLayer(b, l) => BeforeLayer(b, l)'
        BY <1>1, <3>2, <3>3, <3>4 DEF BeforeLayer, ResidualIs
      <3>7. \A l : BeforeAttend(b, l) => BeforeAttend(b, l)'
        BY <1>1, <3>2, <3>3, <3>4 DEF BeforeAttend, ResidualIs, QkvIs
      <3>8. \A l : BeforeProject(b, l) => BeforeProject(b, l)'
        BY <1>1, <3>2, <3>3, <3>4 DEF BeforeProject, ResidualIs, AttnOutIs
      <3>9. \A l : BeforeFeedForward(b, l) => BeforeFeedForward(b, l)'
        BY <1>1, <3>2, <3>3, <3>4 DEF BeforeFeedForward, ResidualIs, HiddenIs
      <3>10. BeforeSample(b) => BeforeSample(b)'
        BY <1>1, <3>2, <3>3, <3>4 DEF BeforeSample
      <3>11. BeforeDownload(b) => BeforeDownload(b)'
        BY <1>1, <3>2, <3>3 DEF BeforeDownload
      <3>12. Running(b)'
        <4>1. Running(b)
          BY <2>2 DEF Serving
        <4> QED
          BY <1>1, <3>2, <3>3, <3>4, <3>5, <3>6, <3>7, <3>8, <3>9, <3>10, <3>11, <4>1, Zenon DEF Running
      <3> QED
        BY <3>1, <3>12 DEF Serving
    <2> QED
      BY <2>1, <2>2 DEF ExecutorInv, WaitInv
  <1> QED
    BY <1>3, <1>4, <1>5 DEF ExecutorInv

LEMMA NextKeeps == ExecutorInv /\ [Next]_vars => ExecutorInv'
  <1> SUFFICES ASSUME ExecutorInv, [Next]_vars PROVE ExecutorInv'
    OBVIOUS
  <1>1. CASE Step
    BY <1>1, StepKeeps DEF Step
  <1>2. CASE \E r \in Requests : Release(r)
    BY <1>2, ReleaseKeeps
  <1>3. CASE Refused
    BY <1>3, StutterKeeps DEF Refused
  <1>4. CASE LoadModel \/ RefuseToStart \/ AllocateKVCache \/ FinishStep
    BY <1>4, LoadKeeps, RefuseKeeps, AllocateKeeps, FinishKeeps
  <1>5. CASE Device
    BY <1>5, DeviceKeeps
  <1>6. CASE UNCHANGED vars
    BY <1>6, StutterKeeps
  <1> QED
    BY <1>1, <1>2, <1>3, <1>4, <1>5, <1>6 DEF Next

LEMMA ExecutorIsInv == Spec => []ExecutorInv
  <1>1. Init => ExecutorInv
    BY InitInv
  <1>2. ExecutorInv /\ [Next]_vars => ExecutorInv'
    BY NextKeeps
  <1> QED
    BY <1>1, <1>2, PTL DEF Spec

\* Whatever batches the scheduler composes, with the graphs or without them,
\* each sampled request gets the token that is sampled from its own last row,
\* with its own parameters: upload, forward, compute_logits, sample and finish
\* never give it what another request, another step or the padding left behind.
THEOREM ExecutorResultsAreOwn == Spec => []ResultsAreOwn
  <1>1. ExecutorInv => ResultsAreOwn
    BY DEF ExecutorInv, HostInv, ResultsAreOwn
  <1> QED
    BY <1>1, ExecutorIsInv, PTL

\* Between two steps, every key and value of every token that counts as
\* computed is in its slot of the paged cache, in every layer: no step, no row
\* a graph is padded with and no other request's block has written over it.
THEOREM ExecutorCacheIsExact == Spec => []CacheIsExact
  <1>1. ExecutorInv => CacheIsExact
    BY DEF ExecutorInv, HostInv, AllKeys, KeyIs, CacheIsExact
  <1> QED
    BY <1>1, ExecutorIsInv, PTL

\* No two rows of a launch of unified_kv_cache_update write one slot, and the
\* gather of compute_logits does not write over rows that it still has to read,
\* so that the order in which the blocks of a kernel run is of no matter.
THEOREM ExecutorRowsDoNotRace == Spec => []RowsDoNotRace
  <1>1. ExecutorInv => RowsDoNotRace
    <2> SUFFICES ASSUME ExecutorInv, stream # <<>>
                 PROVE  /\ Head(stream).op = "prepare" =>
                              \A i, j \in Writers(Head(stream).rows) :
                                 device.slots[i] = device.slots[j] => i = j
                        /\ Head(stream).op = "gather" =>
                              Disjoint(FirstRows(SamplingAt, Head(stream).samples, HiddenRow),
                                       ResidualAt)
      BY DEF RowsDoNotRace
    <2>1. PICK b : Serving(b)
      BY DeviceServes
    <2>2. Taken(b) /\ IsBatch(b) /\ Running(b) /\ ReqInv /\ graphs \in BOOLEAN
      BY <2>1 DEF Serving, Taken, ExecutorInv, HostInv
    <2>3. ASSUME Head(stream).op = "prepare",
                 NEW i \in Writers(Head(stream).rows), NEW j \in Writers(Head(stream).rows),
                 device.slots[i] = device.slots[j]
          PROVE  i = j
      <3>1. PICK l \in Layers :
               BeforeLayer(b, l) /\ TakesNext(b, Prepare(l, RowCount(b), "final"), 4 * l - 1)
        BY <2>2, <2>3, HeadTellsStage
      <3>2. Head(stream).rows = RowCount(b) /\ RowsAre(device, b)
        BY <3>1 DEF TakesNext, Prepare, BeforeLayer, Holds
      <3>3. /\ Writers(RowCount(b)) = 0 .. Size(b) - 1
            /\ \A x, y \in 0 .. Size(b) - 1 : device.slots[x] = device.slots[y] => x = y
        BY <2>2, <3>2, DeviceRows
      <3> QED
        BY <2>3, <3>2, <3>3
    <2>4. ASSUME Head(stream).op = "gather"
          PROVE  Disjoint(FirstRows(SamplingAt, Head(stream).samples, HiddenRow), ResidualAt)
      <3>1. TakesNext(b, Gather(NumSamples(b)), 4 * NumLayers + 3)
        BY <2>2, <2>4, HeadTellsStage
      <3>2. Head(stream).samples = NumSamples(b)
        BY <3>1 DEF TakesNext, Gather
      <3>3. NumSamples(b) \in 0 .. MaxTokens
        <4>1. NumSamples(b) \in 0 .. Len(b) /\ Len(b) \in Nat
          BY <2>2, SamplingFacts, BatchEntries
        <4>2. Size(b) \in Nat /\ Len(b) <= Size(b) /\ Size(b) <= MaxTokens
          BY <2>2, BatchStarts DEF Taken
        <4> QED
          BY <4>1, <4>2, WorkspaceAssumption
      <3> QED
        BY <3>2, <3>3, GatherLeavesResidual DEF HiddenRow
    <2> QED
      BY <2>3, <2>4
  <1> QED
    BY <1>1, ExecutorIsInv, PTL
=============================================================================
