----------------------------- MODULE Workspace -----------------------------
(***************************************************************************)
(* The activation buffers of the forward pass (executor/workspace.cpp):    *)
(* one allocation that the stages of a step use again and again.  create   *)
(* goes through the buffers twice, to add up what each stage needs and to  *)
(* place them; the stages of a layer share hidden and residual and put the *)
(* rest of theirs behind, over each other; the logits begin anew at the    *)
(* start.  A region is a record of its first byte and the one past it.     *)
(* Numbers do not wrap: the code counts bytes in size_t, and its few       *)
(* products of ints stay far below 2^31 at any size a model has.           *)
(***************************************************************************)
EXTENDS Integers

CONSTANTS
    MaxTokens,          \* Config::max_num_scheduled_tokens
    MaxSeqs,            \* Config::max_num_seqs
    ElementSize,        \* bytes of ModelConfig::dtype
    HiddenSize,         \* ModelConfig::hidden_size
    QuerySize,          \* num_attention_heads * head_dim
    KeySize,            \* num_kv_heads * head_dim
    Intermediate,       \* ModelConfig::intermediate_size
    VocabSize,          \* ModelConfig::vocab_size
    NumExperts,         \* MoEConfig::num_experts, 0 without ModelConfig::moe
    ExpertsPerToken,    \* MoEConfig::top_k
    ExpertIntermediate  \* MoEConfig::intermediate_size

ASSUME WorkspaceAssumption ==
    /\ MaxTokens \in Nat \ {0}
    /\ MaxSeqs \in Nat \ {0}
    /\ ElementSize \in Nat \ {0}
    /\ HiddenSize \in Nat \ {0}
    /\ QuerySize \in Nat \ {0}
    /\ KeySize \in Nat \ {0}
    /\ Intermediate \in Nat \ {0}
    /\ VocabSize \in Nat \ {0}
    /\ NumExperts \in Nat
    /\ ExpertsPerToken \in Nat
    /\ ExpertIntermediate \in Nat

\* fp32 and int32
WordSize == 4

HiddenBytes == MaxTokens * HiddenSize * ElementSize
QkvBytes == MaxTokens * (QuerySize + 2 * KeySize) * ElementSize
AttnOutBytes == MaxTokens * QuerySize * ElementSize
GateUpBytes == MaxTokens * (2 * Intermediate) * ElementSize
RouterBytes == MaxTokens * NumExperts * ElementSize
TopKBytes == MaxTokens * ExpertsPerToken * WordSize
CountBytes == NumExperts * WordSize
ExpertBytes == MaxTokens * ExpertsPerToken * (2 * ExpertIntermediate) * ElementSize
SamplingBytes == MaxSeqs * HiddenSize * ElementSize
LogitsBytes == MaxSeqs * VocabSize * ElementSize

\* align_up<kAlignment>
AlignUp(n) == ((n + 255) \div 256) * 256

-----------------------------------------------------------------------------
(* The first pass: how much a stage needs *)

\* reserve_tensor_bytes
Reserve(offset, bytes) == AlignUp(offset) + bytes

Common == Reserve(Reserve(0, HiddenBytes), HiddenBytes)
AttnSize == Reserve(Reserve(Common, QkvBytes), AttnOutBytes)
MLPSize == Reserve(Common, GateUpBytes)
MoESize ==
    IF NumExperts = 0 THEN 0
    ELSE Reserve(Reserve(Reserve(Reserve(Reserve(Common, RouterBytes),
             TopKBytes), TopKBytes), CountBytes), ExpertBytes)
LogitsSize == Reserve(Reserve(0, SamplingBytes), LogitsBytes)

Larger(a, b) == IF a < b THEN b ELSE a

\* required_byte_size
Required == Larger(Larger(AttnSize, MLPSize), Larger(MoESize, LogitsSize))

-----------------------------------------------------------------------------
(* The second pass: where the buffers are *)

\* place_view_2d and place_view_1d
Place(offset, bytes) == [from |-> AlignUp(offset), to |-> AlignUp(offset) + bytes]

HiddenAt == Place(0, HiddenBytes)
ResidualAt == Place(HiddenAt.to, HiddenBytes)

\* mlp_workspace_size and moe_workspace_size start from here, as qkv does.
LayerOffset == ResidualAt.to

QkvAt == Place(LayerOffset, QkvBytes)
AttnOutAt == Place(QkvAt.to, AttnOutBytes)
GateUpAt == Place(LayerOffset, GateUpBytes)
RouterAt == Place(LayerOffset, RouterBytes)
TopKWeightsAt == Place(RouterAt.to, TopKBytes)
TopKIdsAt == Place(TopKWeightsAt.to, TopKBytes)
CountsAt == Place(TopKIdsAt.to, CountBytes)
ExpertsAt == Place(CountsAt.to, ExpertBytes)
SamplingAt == Place(0, SamplingBytes)
LogitsAt == Place(SamplingAt.to, LogitsBytes)

\* The buffers of a stage, which are all in use at once.
AttnStage == {HiddenAt, ResidualAt, QkvAt, AttnOutAt}
MLPStage == {HiddenAt, ResidualAt, GateUpAt}
MoEStage ==
    IF NumExperts = 0 THEN {}
    ELSE {HiddenAt, ResidualAt, RouterAt, TopKWeightsAt, TopKIdsAt, CountsAt, ExpertsAt}
LogitsStage == {SamplingAt, LogitsAt}

Stages == {AttnStage, MLPStage, MoEStage, LogitsStage}

-----------------------------------------------------------------------------
(* What lies over what *)

Disjoint(a, b) == a.to <= b.from \/ b.to <= a.from

\* WorkspaceView: the first rows of a buffer, and one of them, of a buffer
\* whose rows have that many bytes.
FirstRows(region, rows, bytes) == [from |-> region.from, to |-> region.from + rows * bytes]
RowAt(region, row, bytes) ==
    [from |-> region.from + row * bytes, to |-> region.from + (row + 1) * bytes]
=============================================================================
