------------------------------ MODULE Executor ------------------------------
(***************************************************************************)
(* The model runner (executor/model_runner.cpp) and what it drives: the    *)
(* batch buffer, the CUDA graphs, the forward pass over the workspace and  *)
(* the kv cache, and the sampled tokens' way back.                         *)
(*                                                                         *)
(* The host only puts operations on one CUDA stream and later waits for    *)
(* all of them; the device takes them in order, at any time in between,    *)
(* and reads memory as it is then.  All buffers live across steps, so what *)
(* a step does not overwrite is left from an earlier, longer one.          *)
(*                                                                         *)
(* Numbers are abstracted to what they are the value of: Tok(r, p) is the  *)
(* token of request r at position p.  A row of activations is the token it *)
(* was computed from, the kernels of the residual stream it has been       *)
(* through, four a layer, and whether it is exact: what the model computes *)
(* there from that request's own tokens up to that one, and nothing else.  *)
(* The buffers lie where Workspace.tla puts them.  Those a stage uses at   *)
(* once lie apart (ExecutorProofs); what another stage left under a write *)
(* is garbage.                                                             *)
(*                                                                         *)
(* The requests and their batches are the scheduler's (Scheduler.tla),     *)
(* here as loose as run_model may see them.                                *)
(***************************************************************************)
EXTENDS PagedAttention, Workspace, HeadRotation, Lists

CONSTANTS
    NumRequests,   \* bound: requests the engine serves
    PromptLen,     \* length of each request's prompt
    MaxModelLen,   \* ModelConfig::max_model_len
    BlockSize,     \* Config::block_size
    MaxBlocks,     \* bound: blocks of the kv cache the free memory may hold
    NumLayers      \* ModelConfig::num_hidden_layers

Requests == 1 .. NumRequests

ASSUME ExecutorAssumption ==
    /\ NumRequests \in Nat \ {0}
    /\ MaxModelLen \in Nat
    /\ PromptLen \in [Requests -> 1 .. MaxModelLen - 1]
    /\ BlockSize \in Nat \ {0}
    /\ MaxBlocks \in Nat
    /\ NumLayers \in Nat \ {0}

VARIABLES
    numTokens,   \* tokens of each request: prompt and sampled ones
    computed,    \* how many of them were computed
    table,       \* the blocks of each request
    host,        \* "loading", "loaded" or "refused" at first, then "idle", or
                 \* "waiting" between run_model and finish
    graphs,      \* whether there is a CudaGraphRunner
    captured,    \* the kv cache whose addresses the graphs hold: "none",
                 \* "profiling" for the one of the first capture, "final"
    numBlocks,   \* blocks of the kv cache
    inflight,    \* ModelRunner::Impl::inflight
    results,     \* what the last finish() returned
    pinned,      \* BatchBuffer::pinned_, by field
    device,      \* BatchBuffer::device_, by field
    stream,      \* the operations the device has yet to do
    residual,    \* workspace residual, by row
    qkv,         \* workspace qkv, by row
    attnOut,     \* workspace attn_out, by row and query head
    hidden,      \* workspace hidden and, at its start, sampling_hidden
    kv           \* the kv cache, by layer and slot

reqVars == <<numTokens, computed, table>>
hostVars == <<host, graphs, captured, numBlocks, inflight, results, pinned>>
workVars == <<residual, qkv, attnOut, hidden, kv>>
vars == <<reqVars, hostVars, device, stream, workVars>>

Blocks == 0 .. numBlocks - 1
Slots == 0 .. numBlocks * BlockSize - 1
Rows == 0 .. MaxTokens - 1
Heads == 0 .. GroupSize - 1
Layers == 1 .. NumLayers
TableWidth == (MaxModelLen + BlockSize - 1) \div BlockSize

Tok(r, p) == <<r, p>>
Pad == <<0, 0>>     \* token id 0, or memory nobody wrote
Garbage == [tok |-> Pad, pos |-> 0, at |-> 0, exact |-> FALSE]

\* The batch buffer as it is allocated: nobody cleared the slots.
Fields ==
    [tokens |-> [i \in Rows |-> Pad],
     positions |-> [i \in Rows |-> 0],
     slots |-> [i \in Rows |-> 0],
     starts |-> [r \in 0 .. MaxSeqs |-> 0],
     seqLens |-> [r \in 0 .. MaxSeqs - 1 |-> 0],
     tables |-> [r \in 0 .. MaxSeqs - 1 |-> [c \in 0 .. TableWidth - 1 |-> 0]],
     logitsIndices |-> [r \in 0 .. MaxSeqs - 1 |-> 0],
     params |-> [r \in 0 .. MaxSeqs - 1 |-> 0],
     count |-> 0]

Init ==
    /\ numTokens = PromptLen
    /\ computed = [r \in Requests |-> 0]
    /\ table = [r \in Requests |-> <<>>]
    /\ host = "loading" /\ graphs \in BOOLEAN /\ captured = "none"
    /\ numBlocks = 0
    /\ inflight = <<>> /\ results = <<>>
    /\ pinned = Fields /\ device = Fields
    /\ stream = <<>>
    /\ residual = [i \in Rows |-> Garbage]
    /\ qkv = [i \in Rows |-> Garbage]
    /\ attnOut = [i \in Rows |-> [h \in Heads |-> Garbage]]
    /\ hidden = [i \in Rows |-> Garbage]
    /\ kv = <<>>

-----------------------------------------------------------------------------
(* The graph runner's buckets *)

\* The constructor's sizes: the powers of two below the budget, and the budget.
Buckets == {n \in 1 .. MaxTokens : n = MaxTokens \/ \E k \in 0 .. n : n = 2 ^ k}

\* bucket_size: the first bucket that is not smaller than the batch.
BucketSize(n) ==
    CHOOSE b \in Buckets : b >= n /\ \A c \in Buckets : c >= n => b <= c

-----------------------------------------------------------------------------
(* BatchBuffer::upload *)

\* A batch is a sequence of [req, offset, len, blocks, needsSampling].
\* First row of entry k of the batch, 0-based; of its end for k = Len(batch).
Starts(batch) ==
    LET sum[k \in 0 .. Len(batch)] ==
            IF k = 0 THEN 0 ELSE sum[k - 1] + batch[k].len
    IN  sum

\* The entry that holds row i.
EntryOf(batch, i) ==
    CHOOSE k \in DOMAIN batch : i >= Starts(batch)[k - 1] /\ i < Starts(batch)[k]

PositionOf(batch, i) ==
    LET k == EntryOf(batch, i) IN batch[k].offset + i - Starts(batch)[k - 1]

SlotOf(blocks, p) == blocks[p \div BlockSize + 1] * BlockSize + (p % BlockSize)

\* The entries to sample, by their index, in order.
Sampling(batch) ==
    Subsequence([k \in DOMAIN batch |-> k], {k \in DOMAIN batch : batch[k].needsSampling})

HostStride(batch) ==
    CHOOSE n \in 0 .. TableWidth :
        /\ \A k \in DOMAIN batch : Len(batch[k].blocks) <= n
        /\ n = 0 \/ \E k \in DOMAIN batch : Len(batch[k].blocks) = n

\* Mutant: the slots of the padding rows keep what an earlier step left there.
PaddingSlot_Stale(i) == pinned.slots[i]

\* No slot: the kv cache update skips the row.
PaddingSlot(i) == -1

\* What upload writes into the pinned buffer; the rest of it stays.
Filled(batch, n, padded) ==
    LET lasts == Sampling(batch) IN
    [tokens |-> [i \in Rows |->
        IF i < n THEN Tok(batch[EntryOf(batch, i)].req, PositionOf(batch, i))
        ELSE IF i < padded THEN Pad ELSE pinned.tokens[i]],
     positions |-> [i \in Rows |->
        IF i < n THEN PositionOf(batch, i)
        ELSE IF i < padded THEN 0 ELSE pinned.positions[i]],
     slots |-> [i \in Rows |->
        IF i < n THEN SlotOf(batch[EntryOf(batch, i)].blocks, PositionOf(batch, i))
        ELSE IF i < padded THEN PaddingSlot(i) ELSE pinned.slots[i]],
     starts |-> [k \in 0 .. MaxSeqs |->
        IF k <= Len(batch) THEN Starts(batch)[k] ELSE pinned.starts[k]],
     seqLens |-> [k \in 0 .. MaxSeqs - 1 |->
        IF k < Len(batch) THEN batch[k + 1].offset + batch[k + 1].len
        ELSE pinned.seqLens[k]],
     tables |-> [k \in 0 .. MaxSeqs - 1 |-> [c \in 0 .. TableWidth - 1 |->
        IF k < Len(batch) /\ c < HostStride(batch)
        THEN IF c < Len(batch[k + 1].blocks) THEN batch[k + 1].blocks[c + 1] ELSE 0
        ELSE pinned.tables[k][c]]],
     logitsIndices |-> [j \in 0 .. MaxSeqs - 1 |->
        IF j < Len(lasts) THEN Starts(batch)[lasts[j + 1]] - 1
        ELSE pinned.logitsIndices[j]],
     params |-> [j \in 0 .. MaxSeqs - 1 |->
        IF j < Len(lasts) THEN batch[lasts[j + 1]].req ELSE pinned.params[j]],
     count |-> n]

-----------------------------------------------------------------------------
(* The operations on the stream *)

Copy(padded, reqs, samples, stride) ==
    [op |-> "copy", padded |-> padded, reqs |-> reqs, samples |-> samples,
     stride |-> stride]
Embed(rows) == [op |-> "embed", rows |-> rows]
Prepare(layer, rows, cache) ==
    [op |-> "prepare", layer |-> layer, rows |-> rows, cache |-> cache]
Attend(layer, n, reqs) == [op |-> "attend", layer |-> layer, n |-> n, reqs |-> reqs]
Combine(rows) == [op |-> "project", rows |-> rows]
FeedForward(rows) == [op |-> "ffn", rows |-> rows]
Gather(samples) == [op |-> "gather", samples |-> samples]
Sample(samples) == [op |-> "sample", samples |-> samples]
Download(samples) == [op |-> "download", samples |-> samples]

\* forward_graph_segment: what lies between one attention and the next, for
\* the rows and the kv cache it was captured with.
Segment(k, rows, cache) ==
    (IF k = 0 THEN <<Embed(rows)>> ELSE <<Combine(rows), FeedForward(rows)>>)
    \o (IF k < NumLayers THEN <<Prepare(k + 1, rows, cache)>> ELSE <<>>)

\* CudaGraphRunner::forward: attention is launched for the batch, between
\* the segments of its bucket.
Replay(n, reqs) ==
    LET replay[k \in 0 .. NumLayers] ==
            IF k = 0 THEN Segment(0, BucketSize(n), captured)
            ELSE replay[k - 1] \o <<Attend(k, n, reqs)>> \o Segment(k, BucketSize(n), captured)
    IN  replay[NumLayers]

\* CausalLM::forward.
Eager(n, reqs) ==
    LET layers[k \in 0 .. NumLayers] ==
            IF k = 0 THEN <<Embed(n)>>
            ELSE layers[k - 1] \o
                 <<Prepare(k, n, "final"), Attend(k, n, reqs), Combine(n), FeedForward(n)>>
    IN  layers[NumLayers]

\* compute_logits, sample and the download, none of them without a sample.
Tokens(samples) ==
    IF samples = 0 THEN <<>>
    ELSE <<Gather(samples), Sample(samples), Download(samples)>>

\* What the copies of upload leave on the device.
\* device_ holds the sampled tokens in the place of token_ids, as pinned_ does.
Copied(from, c) ==
    [tokens |-> [i \in Rows |-> IF i < c.padded THEN from.tokens[i] ELSE device.tokens[i]],
     positions |-> [i \in Rows |->
         IF i < c.padded THEN from.positions[i] ELSE device.positions[i]],
     slots |-> [i \in Rows |-> IF i < c.padded THEN from.slots[i] ELSE device.slots[i]],
     starts |-> [k \in 0 .. MaxSeqs |->
         IF k <= c.reqs THEN from.starts[k] ELSE device.starts[k]],
     seqLens |-> [k \in 0 .. MaxSeqs - 1 |->
         IF k < c.reqs THEN from.seqLens[k] ELSE device.seqLens[k]],
     tables |-> [k \in 0 .. MaxSeqs - 1 |-> [b \in 0 .. TableWidth - 1 |->
         IF k < c.reqs /\ b < c.stride THEN from.tables[k][b] ELSE device.tables[k][b]]],
     logitsIndices |-> [j \in 0 .. MaxSeqs - 1 |->
         IF j < c.samples THEN from.logitsIndices[j] ELSE device.logitsIndices[j]],
     params |-> [j \in 0 .. MaxSeqs - 1 |->
         IF j < c.samples THEN from.params[j] ELSE device.params[j]],
     count |-> from.count]

-----------------------------------------------------------------------------
(* The host: start-up *)

\* CudaGraphRunner::capture: the empty batch it is given is uploaded, padded
\* to the largest bucket, and the graphs hold the addresses of this cache.
\* Its warm-up runs without a token, on a workspace set to zero.
Capture(cache) ==
    IF graphs
    THEN /\ captured' = cache
         /\ pinned' = Filled(<<>>, 0, MaxTokens)
         /\ device' = Copied(pinned', Copy(MaxTokens, 0, 0, 0))
    ELSE UNCHANGED <<captured, pinned, device>>

\* The constructor captures against a cache of one block, to learn what the
\* graphs take of the memory, and frees that cache.
LoadModel ==
    /\ host = "loading"
    /\ host' = "loaded"
    /\ Capture("profiling")
    /\ UNCHANGED <<reqVars, graphs, numBlocks, inflight, results, stream, workVars>>

\* initialize_kv_cache refuses memory that cannot hold the longest request.
RefuseToStart ==
    /\ host = "loaded"
    /\ \E n \in 0 .. MaxBlocks : n * BlockSize < MaxModelLen
    /\ host' = "refused"
    /\ UNCHANGED <<reqVars, graphs, captured, numBlocks, inflight, results, pinned,
                   device, stream, workVars>>

\* Mutant: the graphs of the constructor are kept.
Recapture_Skipped == UNCHANGED <<captured, pinned, device>>

\* The graphs are captured again for the addresses of the final cache.
Recapture == Capture("final")

AllocateKVCache ==
    /\ host = "loaded"
    /\ host' = "idle"
    /\ \E n \in 0 .. MaxBlocks :
          /\ n * BlockSize >= MaxModelLen
          /\ numBlocks' = n
          /\ kv' = [l \in Layers |-> [s \in 0 .. n * BlockSize - 1 |-> Garbage]]
    /\ Recapture
    /\ UNCHANGED <<reqVars, graphs, inflight, results, stream, residual, qkv, attnOut, hidden>>

-----------------------------------------------------------------------------
(* The host: run_model and finish *)

\* The tables with which r can compute n tokens, on top of the blocks it has.
TablesFor(r, n, free) ==
    LET more == (computed[r] + n + BlockSize - 1) \div BlockSize - Len(table[r])
    IN  {table[r] \o t : t \in {s \in [1 .. more -> free] :
            \A i, j \in 1 .. more : s[i] = s[j] => i = j}}

Free == {b \in Blocks : \A r \in Requests : b \notin Elements(table[r])}

\* What the scheduler may hand over for the requests in the sequence rs: for
\* each as many tokens as the budget left allows, with the blocks for them.
BatchesOf(rs) ==
    LET len[k \in 0 .. Len(rs)] ==
            IF k = 0 THEN 0
            ELSE len[k - 1] + Least(numTokens[rs[k]] - computed[rs[k]],
                                    MaxTokens - len[k - 1])
        n(k) == len[k] - len[k - 1]
        tables == {f \in [DOMAIN rs -> UNION {TablesFor(rs[k], n(k), Free) : k \in DOMAIN rs}] :
                      /\ \A k \in DOMAIN rs : n(k) > 0 /\ f[k] \in TablesFor(rs[k], n(k), Free)
                      /\ \A j, k \in DOMAIN rs :
                            j # k => Elements(f[j]) \cap Elements(f[k]) = {}}
    IN  {[k \in DOMAIN rs |->
             [req |-> rs[k], offset |-> computed[rs[k]], len |-> n(k), blocks |-> f[k],
              needsSampling |-> n(k) = numTokens[rs[k]] - computed[rs[k]]]] : f \in tables}

\* run_model: everything is put on the stream; nothing is, for an empty batch.
RunModel(batch) ==
    /\ host = "idle"
    /\ LET n == Starts(batch)[Len(batch)]
           reqs == Len(batch)
           samples == Len(Sampling(batch))
           rows == IF graphs THEN BucketSize(n) ELSE n
       IN  IF batch = <<>>
           THEN UNCHANGED <<inflight, pinned, stream>>
           ELSE /\ pinned' = Filled(batch, n, rows)
                /\ stream' = stream \o <<Copy(rows, reqs, samples, HostStride(batch))>>
                             \o (IF graphs THEN Replay(n, reqs) ELSE Eager(n, reqs))
                             \o Tokens(samples)
                /\ inflight' = [j \in 1 .. samples |-> batch[Sampling(batch)[j]].req]
    /\ host' = "waiting"
    \* the scheduler counts the tokens and holds the blocks
    /\ computed' = [r \in Requests |->
           IF \E k \in DOMAIN batch : batch[k].req = r
           THEN LET e == batch[CHOOSE k \in DOMAIN batch : batch[k].req = r]
                IN  e.offset + e.len
           ELSE computed[r]]
    /\ table' = [r \in Requests |->
           IF \E k \in DOMAIN batch : batch[k].req = r
           THEN batch[CHOOSE k \in DOMAIN batch : batch[k].req = r].blocks
           ELSE table[r]]
    /\ UNCHANGED <<numTokens, graphs, captured, numBlocks, results, device, workVars>>

\* context.synchronize() returns.
Synchronized == stream = <<>>

\* finish, and the scheduler's update with what it returns.
FinishStep ==
    /\ host = "waiting"
    /\ Synchronized
    /\ host' = "idle"
    /\ results' = [j \in DOMAIN inflight |->
                      [req |-> inflight[j], token |-> pinned.tokens[j - 1]]]
    /\ inflight' = <<>>
    /\ numTokens' = [r \in Requests |->
           IF r \in Elements(inflight) THEN numTokens[r] + 1 ELSE numTokens[r]]
    /\ UNCHANGED <<computed, table, graphs, captured, numBlocks, pinned, device, stream, workVars>>

\* A request leaves, or is preempted and starts over, between two steps.
Release(r) ==
    /\ host = "idle"
    /\ table[r] # <<>>
    /\ table' = [table EXCEPT ![r] = <<>>]
    /\ computed' = [computed EXCEPT ![r] = 0]
    /\ UNCHANGED <<numTokens, hostVars, device, stream, workVars>>

-----------------------------------------------------------------------------
(* The device: one operation after the other *)

Take(op) ==
    /\ stream # <<>>
    /\ Head(stream).op = op
    /\ stream' = Tail(stream)

\* The device reads the pinned buffer now.
RunCopy ==
    /\ Take("copy")
    /\ device' = Copied(pinned, Head(stream))
    /\ UNCHANGED <<reqVars, hostVars, workVars>>

\* The rows a kernel works on that looks at num_tokens_device.
Counted(rows) == {i \in Rows : i < rows /\ i < device.count}

RunEmbed ==
    /\ Take("embed")
    /\ residual' = [i \in Rows |->
           IF i \in Counted(Head(stream).rows)
           THEN [tok |-> device.tokens[i], pos |-> 0, at |-> 0, exact |-> TRUE]
           ELSE residual[i]]
    /\ UNCHANGED <<reqVars, hostVars, device, qkv, attnOut, hidden, kv>>

Passed(v) == [v EXCEPT !.at = @ + 1]

\* rms_norm, row by row.
RmsNorm(from, to, rows) ==
    [i \in Rows |-> IF i \in Counted(rows) THEN Passed(from[i]) ELSE to[i]]

\* Linear::forward: a matrix product takes all rows it is given, those
\* without a token too.
Project(from, to, rows) == [i \in Rows |-> IF i < rows THEN from[i] ELSE to[i]]

\* qk_norm_rope and rope: queries and keys are rotated by their position, if
\* the lanes of a head trade its elements right (HeadRotation.tla).
Rotate(x, rows) ==
    [i \in Rows |->
        IF i \in Counted(rows) /\ HeadIsRotated
        THEN [x[i] EXCEPT !.pos = device.positions[i]] ELSE x[i]]

\* The rows whose key and value go to the cache: padding has no slot, and
\* nothing else keeps a row of the bucket from being written.
Writers(rows) == {i \in Rows : i < rows /\ device.slots[i] >= 0}

\* unified_kv_cache_update of one layer.
CacheUpdate(cache, x, rows) ==
    [s \in Slots |->
        IF \E i \in Writers(rows) : device.slots[i] = s
        THEN x[CHOOSE i \in Writers(rows) : device.slots[i] = s]
        ELSE cache[s]]

\* pre_attention: the norm, then Attention::prepare.  A graph that was captured
\* for another cache writes to memory that is none any more.
RunPrepare ==
    /\ Take("prepare")
    /\ LET rows == Head(stream).rows
           layer == Head(stream).layer
           normed == RmsNorm(residual, hidden, rows)
           rotated == Rotate(Project(normed, qkv, rows), rows)
       IN  /\ hidden' = normed
           /\ qkv' = rotated
           /\ kv' = IF Head(stream).cache = "final"
                    THEN [kv EXCEPT ![layer] = CacheUpdate(@, rotated, rows)]
                    ELSE kv
    /\ UNCHANGED <<reqVars, hostVars, device, residual, attnOut>>

\* How far the rows are that a layer's keys and values are made of.
KeyAt(layer) == 4 * (layer - 1) + 1

Exact(tok, pos, at) == [tok |-> tok, pos |-> pos, at |-> at, exact |-> TRUE]

\* What attention makes of query q: exact if it is, and if the keys it sees
\* are the exact ones of its request, at all positions up to its own.
Attended(q, layer, r, seen) ==
    LET key(p) == kv[layer][device.tables[r][p \div BlockSize] * BlockSize + (p % BlockSize)] IN
    [Passed(q) EXCEPT !.exact =
        /\ q.exact
        /\ q.tok = Tok(q.tok[1], q.pos)
        /\ seen = 0 .. q.pos
        /\ \A p \in seen : key(p) = Exact(Tok(q.tok[1], p), p, KeyAt(layer))]

\* The tiles of one attention launch; a row that no tile has keeps its value.
RunAttend ==
    /\ Take("attend")
    /\ LET a == Head(stream)
           starts == device.starts
           grid == GridSize(a.n, a.reqs)
           of(r, row, t) == /\ RequestOf(starts, a.reqs, t) = r
                            /\ row \in RowsOf(starts, a.reqs, t)
       IN
       attnOut' = [i \in Rows |-> [h \in Heads |->
           IF \E r \in 0 .. a.reqs - 1, t \in 0 .. grid - 1 :
                 /\ i \in starts[r] .. starts[r + 1] - 1
                 /\ of(r, (i - starts[r]) * GroupSize + h, t)
           THEN LET r == CHOOSE k \in 0 .. a.reqs - 1 : i \in starts[k] .. starts[k + 1] - 1
                    row == (i - starts[r]) * GroupSize + h
                    t == CHOOSE k \in 0 .. grid - 1 : of(r, row, k)
                IN  Attended(qkv[i], a.layer, r,
                             Seen(row, FirstRow(starts, a.reqs, t),
                                  device.seqLens[r] - QueryLen(starts, r),
                                  device.seqLens[r]))
           ELSE attnOut[i][h]]]
    /\ UNCHANGED <<reqVars, hostVars, device, residual, qkv, hidden, kv>>

\* A row of attn_out, all its heads together.
Joined(heads) ==
    [heads[0] EXCEPT
        !.pos = 0,
        !.exact = \A h \in Heads : heads[h].exact /\ heads[h].tok = heads[0].tok]

\* residual_add, and the sum in residual_rms_norm_fused: what the layer made
\* of a row two kernels ago comes back to it.
Added(x, rows) ==
    [i \in Rows |->
        IF i \in Counted(rows)
        THEN [tok |-> residual[i].tok, pos |-> 0, at |-> x[i].at,
              exact |-> /\ residual[i].exact /\ x[i].exact
                        /\ residual[i].tok = x[i].tok
                        /\ x[i].at = residual[i].at + 2]
        ELSE residual[i]]

\* Attention::project and residual_rms_norm_fused.
RunProject ==
    /\ Take("project")
    /\ LET rows == Head(stream).rows
           out == Project([i \in Rows |-> Joined(attnOut[i])], hidden, rows)
       IN  /\ residual' = Added(out, rows)
           /\ hidden' = RmsNorm(residual', out, rows)
    /\ UNCHANGED <<reqVars, hostVars, device, qkv, attnOut, kv>>

\* gate_up and swiglu in place, which leaves rows without a token half done.
GateAndUp(x, rows) ==
    [i \in Rows |->
        IF i \in Counted(rows) THEN x[i] ELSE IF i < rows THEN Garbage ELSE x[i]]

HiddenRow == HiddenSize * ElementSize
QkvRow == (QuerySize + 2 * KeySize) * ElementSize
AttnOutRow == QuerySize * ElementSize

\* Row i of a buffer lies under a write to some other one.
Lost(i, region, bytes, write) == ~Disjoint(write, RowAt(region, i, bytes))

Overlaid(x, region, bytes, write) ==
    [i \in Rows |-> IF Lost(i, region, bytes, write) THEN Garbage ELSE x[i]]

AttnOutOverlaid(write) ==
    [i \in Rows |-> IF Lost(i, AttnOutAt, AttnOutRow, write)
                    THEN [h \in Heads |-> Garbage] ELSE attnOut[i]]

\* DenseMLP::forward, over gate_up, and residual_add.
RunFeedForward ==
    /\ Take("ffn")
    /\ LET rows == Head(stream).rows
           gateUp == FirstRows(GateUpAt, rows, 2 * Intermediate * ElementSize)
       IN
       /\ hidden' = [i \in Rows |->
              IF i < rows THEN Passed(GateAndUp(hidden, rows)[i]) ELSE hidden[i]]
       /\ residual' = Added(hidden', rows)
       /\ qkv' = Overlaid(qkv, QkvAt, QkvRow, gateUp)
       /\ attnOut' = AttnOutOverlaid(gateUp)
    /\ UNCHANGED <<reqVars, hostVars, device, kv>>

\* compute_logits: the rows to sample are gathered in sampling_hidden, which
\* begins where hidden does, and normed in place; then the logits are written.
RunGather ==
    /\ Take("gather")
    /\ LET samples == Head(stream).samples
           logits == FirstRows(LogitsAt, samples, VocabSize * ElementSize)
           gathered == [j \in Rows |->
               IF j < samples THEN Passed(residual[device.logitsIndices[j]]) ELSE hidden[j]]
       IN  /\ hidden' = Overlaid(gathered, HiddenAt, HiddenRow, logits)
           /\ residual' = Overlaid(residual, ResidualAt, HiddenRow, logits)
           /\ qkv' = Overlaid(qkv, QkvAt, QkvRow, logits)
           /\ attnOut' = AttnOutOverlaid(logits)
    /\ UNCHANGED <<reqVars, hostVars, device, kv>>

\* The token sampled from an exact row, with its own request's parameters, is
\* that request's next one.
RunSample ==
    /\ Take("sample")
    /\ device' = [device EXCEPT !.tokens = [i \in Rows |->
           IF i < Head(stream).samples
           THEN LET tok == hidden[i].tok IN
                IF /\ hidden[i] = Exact(tok, 0, 4 * NumLayers + 1)
                   /\ device.params[i] = tok[1]
                THEN Tok(tok[1], tok[2] + 1) ELSE Pad
           ELSE device.tokens[i]]]
    /\ UNCHANGED <<reqVars, hostVars, workVars>>

RunDownload ==
    /\ Take("download")
    /\ pinned' = [pinned EXCEPT !.tokens = [i \in Rows |->
           IF i < Head(stream).samples THEN device.tokens[i] ELSE pinned.tokens[i]]]
    /\ UNCHANGED <<reqVars, host, graphs, captured, numBlocks, inflight, results, device, workVars>>

-----------------------------------------------------------------------------

\* finish_reason ends a request at the latest here.
Unfinished(r) == numTokens[r] < MaxModelLen

\* The requests of one step, in the order of the batch.
Lines == {s \in UNION {[1 .. n -> {r \in Requests : Unfinished(r)}] :
                       n \in 0 .. Least(MaxSeqs, NumRequests)} :
             \A i, j \in DOMAIN s : s[i] = s[j] => i = j}

Step == \E line \in Lines : \E batch \in BatchesOf(line) : RunModel(batch)

Device ==
    \/ RunCopy \/ RunEmbed \/ RunPrepare \/ RunAttend \/ RunProject \/ RunFeedForward
    \/ RunGather \/ RunSample \/ RunDownload

\* The process has ended.
Refused == host = "refused" /\ UNCHANGED vars

Next ==
    \/ LoadModel \/ RefuseToStart \/ AllocateKVCache \/ Refused
    \/ Step \/ FinishStep
    \/ \E r \in Requests : Release(r)
    \/ Device

Spec == Init /\ [][Next]_vars

-----------------------------------------------------------------------------
(* Properties *)

\* Each sampled request gets the token sampled, with its own parameters, from
\* that request's last row, computed from its own tokens alone, whatever the batch it
\* was in, the steps before it, and what they left in the buffers.
ResultsAreOwn ==
    host = "idle" =>
        \A i \in DOMAIN results :
            results[i].token = Tok(results[i].req, numTokens[results[i].req] - 1)

\* After a step, the kv cache holds the exact keys and values of every token
\* a request counts as computed, in every layer: no later step, and no row a
\* graph was padded with, writes over them.
CacheIsExact ==
    host = "idle" =>
        \A r \in Requests, l \in Layers : \A p \in 0 .. computed[r] - 1 :
            kv[l][SlotOf(table[r], p)] = Exact(Tok(r, p), p, KeyAt(l))

\* Rows of one kernel run in any order: no two of them write the same slot of
\* the kv cache, and the rows the gather writes do not lie over residual, which
\* it reads.
RowsDoNotRace ==
    stream # <<>> =>
        /\ Head(stream).op = "prepare" =>
              \A i, j \in Writers(Head(stream).rows) :
                  device.slots[i] = device.slots[j] => i = j
        /\ Head(stream).op = "gather" =>
              Disjoint(FirstRows(SamplingAt, Head(stream).samples, HiddenRow), ResidualAt)
=============================================================================
