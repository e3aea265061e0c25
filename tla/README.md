# cuInfer in TLA+

cuInfer is a small inference server for large language models: an HTTP frontend
in Python, an engine process in C++ that schedules requests over a paged kv
cache, and a CUDA executor. This directory models the parts whose correctness
depends on the order of events, on state that outlives a step, or on the
boundaries of an algorithm; TLC checks the models on small instances and TLAPS
proves the theorems listed below for every value of the constants.

## 1. The system

```
 HTTP clients                                engine process (one thread)
     |                                    +-----------------------------------+
 server.py  complete/stream               | engine_core.cpp   step loop        |
     |      (one asyncio task each)       |   drain inputs -> schedule ->      |
 engine.py  EngineClient  == ZMQ pipes ==>|   run_model -> finish -> update -> |
     |      reader task, exit callback  <=|   send outputs                     |
 __main__.py  serve(), watchdog           | scheduler.cpp   three queues       |
                                          |   kv_cache_manager.cpp  blocks     |
                                          | executor/   pinned and device      |
                                          |   buffers, CUDA graphs, one stream |
                                          |   model/, ops/   kernels           |
                                          +-----------------------------------+
```

| component | state | operations | what makes it correct |
|---|---|---|---|
| KV cache manager (`scheduler/kv_cache_manager.*`) | blocks with a reference count, a hash and free list links; the index from hashes to blocks; per request block table and hashes | reuse a prefix, allocate slots, cache full blocks, release | every block is free or held by exactly the requests that count it; the index, the hashes and what the blocks contain agree |
| Scheduler (`scheduler/scheduler.*`) | running, preempted and waiting queue; per request tokens, progress, status | add, abort, schedule (two passes), update | requests are served in order of arrival; the batch stays within the executor's buffers; preemption and caching change no result |
| Engine core (`engine/*`) | the step loop, the pipes' engine ends | size the kv cache, receive, step, send, shut down | every request ends once; the loop ends on SHUTDOWN; a cache too small for one request is refused |
| Engine client (`engine.py`, `protocol.py`) | one queue per call, the error if dead, pipe ends, the process handle | generate, abort, read, mark dead, close | no output is lost, repeated or given to the wrong call; no request is left behind in the engine; every call ends |
| HTTP server (`server.py`) | one handler per request, its stream | complete, stream, cleanup | an answer is whole or ends in one error; a handler that ends leaves nothing |
| Process (`__main__.py`) | server, watchdog, client | start, signal, drain, close | the process always ends, with the right code |
| Tokenizer (`tokenizer.py`) | text not yet emitted | decode incrementally | the pieces join to the text of the tokens |
| Model runner, batch buffer, CUDA graphs, workspace, kv cache storage (`executor/*`) | pinned and device buffers that nobody clears, captured graphs, one stream, one batch in flight | load, capture, allocate, run_model, finish | results are those of the request; only its own slots are written; the graphs hold the addresses of the cache in use |
| Forward pass and kernels (`model/*`, `ops/*`) | workspace rows | embedding, layers, attention, gather, sampling | rows do not race; attention reads exactly the request's prefix; warps and lanes share memory without reading it too early or too late; sampling follows the stated distribution |
| Loading, wrappers, bindings, logging, build | files, handles | start-up | - |

What is hard here: two queues of messages between processes that can each be
full, while one side blocks and the other must not; `await` at every step of a
call that can also be cancelled, outlived by its engine, or closed; blocks that
several requests share, that stay valid after they are free, and that are taken
back in the middle of scheduling; buffers that are reused without clearing on a
stream that runs behind the host; kernels that divide rows over blocks and warps
with boundaries that never coincide, and whose warps share memory that is filled
by asynchronous copies and used for something else before the kernel ends. `PROJECT.json` lists these hazards one by
one, each at its line, with the property that would notice it going wrong.

## 2. Modules and the code

| module | models | notes |
|---|---|---|
| `BlockPool` | what the free list promises: a queue of free blocks from which any can be revived | abstract |
| `FreeList` | `push_free`, `pop_free`, `remove_free` and their callers on `prev`, `next`, head, tail and counter | implements `BlockPool`; the queue is kept beside it as a history variable (`fifo`) |
| `KVCacheManager` | `reuse_prefix`, `can_allocate`, `allocate_slots`, `cache_full_blocks`, `release_blocks`, the index | no actions of its own: operators on its variables, called by `Scheduler` in the code's order; the free list is the queue that `FreeList` implements |
| `GenerationService` | what a frontend is promised: tokens are appended to a request until it stops, reaches its length or is aborted | abstract |
| `Scheduler` | the queues, both scheduling passes iteration by iteration, the forward pass as writes to slots, `update`, removal, and the order of the step loop (`pc`) | extends `KVCacheManager`, implements `GenerationService` |
| `EngineClient` | the client's coroutines between their awaits, the reader, the exit callback, both pipes and the engine as a process that may block, garble, exit, crash or hang | the engine's scheduling is reduced to "any of the requests it serves gets a token" |
| `Server` | the HTTP handlers, and `serve()` with watchdog and shutdown | extends `EngineClient`; its actions call the client's |
| `Detokenizer` | `IncrementalDetokenizer.push` over a decoder of tokens that may end anywhere in a character | the decoder is a library's, modelled from its use |
| `PagedAttention` | which tile of query rows a thread block takes, which request it belongs to, which keys are walked and masked | constant-level operators |
| `AttentionBlock` | one thread block of that kernel: the copies of each warp and their groups, the barriers, shared memory in its three uses, the running softmax | extends `PagedAttention` |
| `Workspace` | `Workspace::create`: what each stage needs, and where its buffers are, in bytes | constant-level operators |
| `HeadRotation` | how the lanes of the two rotary kernels trade, compute and reorder the elements of a head | constant-level operators |
| `Executor` | start-up with both captures, `run_model` and `finish` over the pinned and the device buffers, the stream, the buckets of the CUDA graphs, the kernels row by row | extends `PagedAttention`, `Workspace` and `HeadRotation` |
| `SampleRow` | one row through the sampler's two kernels: tile maxima, radix cutoff, weights, the two-level draw, top-p rejection | |
| `MCScheduler`, `MCEngineClient`, `MCServer`, `MCExecutor`, `MCDetokenizer` | constants a cfg cannot write | |
| `Lists` | lists that several models build: elements, and the elements at some indices | |
| `CommonFacts` | the facts about numbers and lists that several proofs need: the least element of a set of numbers, counting up, a function built step by step, quotients, the elements `Subsequence` takes | |
| `FreeListProofs` | theorems about `FreeList` | |
| `SchedulerProofs` | theorems about `Scheduler` and its cache: queues; the cache's operations; both together; limits, content and the service | |
| `ServerProofs` | theorems about the client with any user, then about the server over it | |
| `ExecutorProofs` | theorems about the workspace, the rotation, and the executor's batches | |
| `AttentionBlockProofs`, `SampleRowProofs`, `DetokenizerProofs` | theorems about the module each is named after | |

How state and actions correspond to the code:

* **KVCacheManager, Scheduler.** A block's hash is the chain of all tokens up to
  its end (`<<>>` for "not valid"), so equal hashes mean equal content; this is
  the code's own reliance on a 64-bit hash without collisions, made an
  assumption. `kv` is a ghost of the kv cache: at each slot, the token sequence
  whose keys and values the forward pass wrote there. One iteration of each loop
  of `schedule()` is a step (`ScheduleRunning`, `PreemptNewest`, `Admit`,
  `Refuse`), because the properties are about the states in between; aborts and
  additions arrive only where the loop drains its input (`pc = "inputs"`). The
  sampled token is any member of `Tokens`. `enable_prefix_caching` is a variable
  chosen in the first state.
* **EngineClient.** An action is the code between two awaits. `call[r]` says
  where `generate` stands; `sends` holds the sends that wait for room, which
  cancellation and death withdraw; `input` and `output` are the two pipes,
  bounded by `InputCap` and `OutputCap`. The engine's one thread blocks in `send`
  while `output` is full: the message it has computed is then the last of
  `output`, one more than the pipe holds (`Blocked`), and until the client reads
  the engine neither takes input nor computes. Process death, the callback about it and the reading of
  what is still in the pipe are separate actions in every order.
  Reading a message and `MarkDead` each do all that the code does before its
  next await.
* **Server.** `http[r]` is the position of a handler; what its client was sent is `written[r]`,
  by kind of chunk. A client may vanish at any time (`Disconnect`) or never read,
  so no fairness is assumed for `Write`. `Elsewhere` lets the composed modules
  keep each other's variables.
* **Executor.** Numbers are abstracted to their provenance: a row of activations
  carries the token it came from, how many kernels of the residual stream it has
  been through, and whether everything that went into it is the request's own; a
  stale row of another layer or step is thereby told from the right one. Each
  kernel is an operator on rows (`RmsNorm`, `Project`, `Rotate`, `CacheUpdate`,
  `Added`, `GateAndUp`), some of which look at the token count and some do not.
  A row of a buffer that lies under a write to another one, by the byte offsets
  of `Workspace`, becomes garbage (`Overlaid`). `LoadModel` captures the graphs
  against a cache that is then freed, `AllocateKVCache` allocates the final one,
  of any size the memory may allow, and captures again; a graph keeps the cache
  it was captured for, and writes nowhere useful with another (`captured`).
  `RunModel` fills the pinned buffer field by field and queues the copies and
  the kernels, either as `Replay` of the bucket's segments around an attention
  launched for the batch, or `Eager`; the device takes them one at a time.
  Attention runs per query head tile and per warp, on the cache as it is at that
  moment. With graphs, the rows of a step are padded to the bucket and the
  padding rows keep whatever is there, as in the code.
* **AttentionBlock.** A warp runs from barrier to barrier on its own; its copies
  are committed in groups and land row by row in any order (`Land`), and a wait
  returns when the older groups have arrived (`Arrived`). `tileA` is the memory
  of queries, keys and output, `tileB` that of values. A score is an integer
  power of two per key, so that the running softmax can be exact: an accumulator
  is the sequence of its terms with their exponents, and rescaling shifts them.
* **HeadRotation.** An element is its index in the head; what a lane computes is
  which two elements it combines, by which angle and with which sign.
* **Detokenizer.** Bytes are taken by their class in UTF-8, so that tokens can end
  in characters of two and three bytes, begin with their rest, or have no text.
* **SampleRow.** Logits are bit patterns of a tiny float format with a sign, so
  that both zeros and negative values meet the order-preserving keys; the random
  numbers are free choices. Weights are integers, so the fp32 rounding of sums is
  not modelled; the narrowing of `top_p` to a float is (`Stored`), by the step
  `FloatStep` of the representable values.

## 3. The runs

Each `.cfg` states its bounds. All passing runs end within five minutes.

| run | instance | shows |
|---|---|---|
| `FreeList` | 5 blocks, 2 references | the pointers always describe one list of distinct free blocks, and the list is `BlockPool`. With five blocks a list has both ends, an inside, and can be empty, of one or of two blocks |
| `SchedulerSharing` | 3 requests over two prompts, 3 blocks of 2 slots, budget 2, 2 running | cache accounting, index, content, order of service, limits, sampling only at the end, progress of every step, and refinement of `GenerationService`. The cache holds one request at its longest, so two requests always compete; the prompts have equal second blocks after different first ones |
| `SchedulerLive` | 3 requests of prompts of 1 and 4 tokens, budget 2, 3 running, with and without prefix caching, `FairSpec` | every request leaves the engine, and attention reads its own context where chunks of a prefill run beside decoding requests |
| `SchedulerReuse` | two requests that outgrow the cache | violation, see Findings |
| `EngineClient` | 2 calls of up to 2 tokens and 1, both pipes of 1, `RunningSpec` | outputs arrive once and in order, a finished call stays finished, no orphan request, nobody waits unregistered, a closed client has a stopped engine; and if the engine does not hang, every call ends. Pipes this small are full most of the time, which is the interesting case; two calls are enough for one to hold the pipe another waits for. The instance reaches the state in which both pipes are full, the engine is blocked in `send` with a second output, and an ADD, or an ABORT, waits for the input that the engine does not take; the client's reader, which waits for no send, is what resolves it. A reader that shares a lock with the sends leaves them all waiting (the mutant of `EveryCallEnds`) |
| `EngineClientLive` | 2 calls of 1 token, both pipes of 1, `HangingSpec` | with an engine that may stop doing anything, `close()` ends, and death ends every call |
| `Server` | a chat and a JSON request together, and each of chat, text and JSON alone with 2 tokens | whole answers, nothing left behind, and the process always ends once it is told to or its engine dies |
| `Detokenizer` | completions of 4 tokens out of 8, pushed by one or two, after 7 prompts of which 4 tokens are kept | what the client read is the beginning of the one decode, and all of it when the last character is complete. The context of 4 is longer than the longest character, as in the code |
| `Executor` | 2 requests (prompts 4 and 1), buckets 1, 2, 4, up to 3 blocks of 2, 2 layers, 2 query heads per kv head, 2 warps of 2 rows, the sizes of Qwen3-0.6B over 8 | results and cache are exact, rows do not race, with and without graphs, or the engine refuses to start. A tile holds two tokens, so requests begin inside one; 3 tokens are padded to 4; 3 blocks force reuse; 2 layers show what a layer leaves to the next; the model's proportions lay the buffers over each other as the real ones do |
| `AttentionBlock` | 2 warps of 2 rows, 5 keys in tiles of 2, requests of 1 and 3 tokens to compute, scores 0, 2, 3, a gap of 2 | no warp reads a tile too early or too late, the output is attention, weights stay bounded, the block ends. Three tiles use each buffer again twice, the last one half filled; one warp may have only padding; scores 0 and 3 are more than the gap apart, 0 and 2 are not |
| `SampleRow` | 5 logits over 4 patterns (both zeros, one larger, one negative), tiles of 2, 2 threads, `top_k` 0, 1, 3, three `top_p` | the radix cutoff is exact, the draw proportional, the nucleus is not lost, the loop ends. Five logits leave the last tile and the last round of threads partly empty |
| `SampleRowTinyTopP` | as above, `top_p` below the float's first step | violation, see Findings |

### Properties

*Scheduler and cache.* `BlocksAccountedFor`: reference counts are the numbers of
tables that hold a block, and the free blocks are those at zero.
`IndexMatchesBlocks`: the index and the valid hashes are inverse to each other.
`HashTellsContent` and `ContextIsOwn`: a published block contains what its hash
says, and attention reads the request's own tokens, whoever wrote them.
`WritesArePrivate`: a forward pass writes each slot once, and only in a block
that is neither shared nor published. `FirstComeFirstServed`,
`BatchIsHeadOfLine`: no request is overtaken or skipped. `WithinLimits`:
the sizes the executor allocated. `SampledAtTheEnd`: no token is sampled from an
inner chunk or for a request that left. `StepComputes`: a step over live
requests is never empty. `ImplementsService`: preemption, chunking and reuse are
invisible outside. `EveryRequestLeaves`: the promise of `protocol.h:69-71`.

*Client and server.* `NothingLostOrRepeated`, `FinishedForGood`, `NoOrphans`,
`NobodyForgotten`, `ClosedMeansStopped`, `EveryCallEnds`, `CloseEnds`,
`DeathEndsEveryCall`; `AnswersAreWhole`, `HandlersLeaveNothing`,
`ShutdownCompletes`. Each is stated in words above its definition.

*Executor and sampling.* `ResultsAreOwn`: what `finish()` returns is sampled from
the last token of each request that samples, exact and in order. `CacheIsExact`:
a slot counted as computed holds exactly that token's keys and values.
`RowsDoNotRace`: no kernel writes a row or a slot from two places, or over what
another row still reads. `TopKIsExact`, `DrawIsProportional`, `NucleusIsSampled`,
`RowIsSampled` for one row of logits. `TilesAreWhole`: shared memory holds what a
warp reads of it, whole, while it reads it. `OutputIsAttention`: each row sums
each of its keys once, under one reference, however often that was moved.
`WeightsAreBounded`: no weight exceeds the threshold that moves the reference,
and none of a row's largest vanishes. `BlockEnds`: the barriers meet.

*Detokenizer.* `StreamIsCompletion`: the pieces are a beginning of the decode of
the whole, nothing repeated or taken back, and all of it at every complete
character. It supposes that the prompt's end can be told from the completion: a
prompt that ends inside a character (which only a client sending token ids
produces) loses the completed character. What it does not claim: a push that
ends inside a character withholds its whole text, and if the request ends there
the complete characters of that push are not sent either.

### Fairness

* `Scheduler!FairSpec`: weak fairness of the engine's own step, a thread that
  never waits for anything but the device. Nothing is assumed of arrivals and aborts.
* `EngineClient!ClientFairness`: the asyncio loop runs every task that is ready,
  each task for itself. `HangingSpec` adds the close timer and nothing of the
  engine. `RunningSpec`, for `EveryCallEnds` alone, adds `EngineFairness`: the
  engine's loop and the library that moves messages. It asks nothing of an engine
  blocked in `send`, whose actions are all disabled then: only the client's
  reader makes room.
  No call is ever obliged to be cancelled, no engine obliged to crash.
* `ServerSpec`: each handler's runnable continuations, `serve()` and the tasks of
  the client behind it; not `Write`, since a client need not read, and not the
  engine, since it may hang.
* `SampleRow!Spec`: a running kernel runs on. Termination does not rely on the
  draws: every rejected candidate narrows the range.
* `AttentionBlock!Fairness`: copies that were started arrive, and every warp of a
  block is scheduled (`cp.async` and independent warps promise no more).
* `FreeList`, `Executor` and `Detokenizer` have safety properties only.

### Deadlock

Checked for `FreeList` and for `Executor`, whose refused start stutters by itself
(`Refused`). The scheduler's runs stop when all
bounded requests came and went, the client's when it is closed and all calls
have ended, the server's when the process exited, the sampler's when the row is
done, the attention block's when its warps are, the detokenizer's at the bound on
its tokens. Deadlock checking is off there; but for the detokenizer, which waits
for nothing, the liveness properties cover it.

## 4. The proofs

`FreeListProofs` (for every number of blocks and references):

* `FreeListConsistent`: `Spec => []ListIsConsistent`.
* `FreeListTyped`: `Spec => []TypeOK`, in which the bound on the counter is the
  pigeonhole principle: the queue has no repetitions, so it is not longer than
  there are blocks.
* `FreeListImplementsPool`: `Spec => ImplementsPool`, each step of the list
  being a step of `BlockPool`.

The inductive invariant is typing together with `ListIsConsistent`, which says
of every position of the history queue what the links of its block must be. The
pointers alone would not do: after an unlink, that the neighbours' links are
right follows only from their positions in one queue without repetitions.

`SchedulerProofs` (for every cache, budget, prompts and number of requests):

* `SchedulerFirstComeFirstServed`: `Spec => []FirstComeFirstServed`.
* `SchedulerStatusNamesQueue`: the status of a request names its queue, on which
  `remove_request` relies.

`FirstComeFirstServed` speaks of the concatenation of three queues; the
inductive invariant says the same of its parts (`Ordered`: each queue increases,
each stands before the next, together they hold the live requests), since
preemption and admission move one element across a boundary. Removal needs
`StatusOfElements`, because the code looks only in the queue the status names.
The content of the cache is not needed: whatever `can_allocate` answers, the
order is kept.

Of the scheduler and its cache together (for every number and size of blocks,
every budget, prompts and number of requests):

* `SchedulerTypeOK`: `Spec => []TypeOK`.
* `SchedulerBlocksAccountedFor`: `Spec => []BlocksAccountedFor`; no block leaks or
  is handed out twice.
* `SchedulerIndexMatchesBlocks`: `Spec => []IndexMatchesBlocks`; no entry of the
  prefix index is stale.
* `SchedulerBatchIsHeadOfLine`: `Spec => []BatchIsHeadOfLine`.

The cache is a part without actions, so it is proved of each of its
operations what it needs and what it keeps, and then of each action of
the scheduler that it calls them where they may be called. The invariant is
`EngineInv`, of four parts. `IInv` is that of the queues, above. `CacheInv` adds
to the two properties of the cache what they cannot be kept without: a table is
exactly as long as its request's computed tokens need; its hashed blocks come
first and carry the request's own prefixes, since reuse and `cache_full_blocks`
both walk from the first block and stop; and a block that two requests share is
published. The last is what makes it right to take back a block from one
request without looking at others, and to write only to blocks without a hash.
`RunInv` says who may hold blocks at all: running requests, and the one
being admitted. `BatchInv` lays the batch along the running queue, which pass 1 reads
while preemption shortens it from the other end. Reference counts are proved as
cardinalities of the set of tables that hold a block.

Of what requests get (under the same assumptions):

* `SchedulerImplementsService`: `Spec => ImplementsService`; every step of the
  engine is one of `GenerationService`, or invisible to a frontend.
* `SchedulerWithinLimits`: `Spec => []WithinLimits`; what the executor allocated
  is enough.
* `SchedulerSamplesAtTheEnd`: `Spec => []SampledAtTheEnd`.
* `SchedulerStepComputes`: `Spec => []StepComputes`; a step over live requests is
  never empty, so the loop cannot spin with nothing to do.
* `SchedulerWritesArePrivate`: `Spec => []WritesArePrivate`.
* `SchedulerContextIsOwn`: `Spec => []ContextIsOwn`.
* `SchedulerHashTellsContent`: `Spec => []HashTellsContent`.

Beside `EngineInv` they need `LimitInv`, that no live request has reached its
limits, and `StepInv`, again of named parts. `EntryInv` says of each entry of the
batch where it stands in its request, `ProgressInv` how far each request has come:
a running one either still prefills or has exactly its last token left, and all
tokens are computed only while the sampled one is on its way. `BudgetInv` counts
the tokens of the batch against the budget spent. `WorkInv` is for
`StepComputes`: as long as the batch is empty the budget is whole, and if nobody
runs any more in pass 1, nobody was preempted in this step: a request that runs
alone finds its blocks. The argument that then the head of the line is admitted is `FitsAlone`: nobody else
holds a block, and the cache is at least as large as the longest request. This is
where the engine's refusal to start with a smaller cache
(`MaxModelLen <= NumBlocks * BlockSize` in `SchedulerAssumption`) is used.
`ContentInv` joins `ContextIsOwn` and `HashTellsContent`, because neither is
inductive alone: a request reads blocks others wrote because their hash tells
the content, and a hash tells the content because the request that published the
block had computed it from its own. That a write disturbs neither is
`WritesArePrivate`.

`ServerProofs`, of the client with any user (for every set of requests, number of
outputs and sizes of the pipes; no assumption on the constants is used):

* `ClientClosedMeansStopped`: `Spec => []ClosedMeansStopped`.
* `ClientForgetsNobody`: `Spec => []NobodyForgotten`.
* `ClientFinishesForGood`: `Spec => []FinishedForGood`.
* `ClientLeavesNoOrphans`: `Spec => []NoOrphans`.
* `ClientLosesOrRepeatsNothing`: `Spec => []NothingLostOrRepeated`.

`ControlInv` orders what ends the client: error, closing and the exit of the
process. `NoOrphans` is about two messages that may be anywhere on their way:
the ADD of a request nobody waits for must be followed by its ABORT. The proof
therefore reads both pipes' worth of input, what the engine can take and what still
waits for room, as one queue (`Outbound`), of which coroutines append to the end,
cancellation and death delete from within, and the engine takes the head; `Followed`
and `Once` are kept by each of these. That a last output means the engine is
through with a request for good is `EndInv`, with the ADD occurring once.
`StreamInv` follows the outputs of one request over three places, what was yielded,
its queue, and the pipe: yielded and queued ones are numbered without a gap, those in
the pipe go on where the queue ends, and while the engine lives they reach to
the last one it made (`Gapless`, `Complete`). After a death only the beginning
need be there, and it still has no gap.

`ServerProofs`, of the server (for every set of requests and bodies):

* `ServerUsesClient`: `ServerSpec => Spec`; the server is one of the client's users,
  so every theorem above holds in it.
* `ServerHandlersLeaveNothing`: `ServerSpec => []HandlersLeaveNothing`.
* `ServerAnswersAreWhole`: `ServerSpec => []AnswersAreWhole`.

Both properties speak of the end of a handler, and what is true there was
settled at many awaits before. `AnswerInv` therefore names the places at which a
handler can be (`Fresh`, `Awaiting`, `WritingFirst`, `WritingText`,
`WritingFailure`, `WritingEnd`, `Whole`, `Broken`) and says for each where its call
stands, how many chunks of each kind it has sent, and what it still has to send.
It needs the client's invariants: that a queue ends with its last output
(`StreamInv`) is why a stream that ends has sent everything. `KnownInv` adds that a
call the client knows is being made, which is what a handler's cleanup relies on.

`ExecutorProofs`, of the layout (for every model, mixture of experts included, and all limits):

* `StagesKeepApart`: two buffers of one stage never share a byte.
* `WorkspaceFits`: every buffer the second pass of `Workspace::create` places is
  aligned and ends within what the first pass asked for.
* `GatherLeavesResidual`: the rows gathered for sampling, which begin where
  `hidden` does, do not reach `residual`.

The two passes are written separately in the code and must agree. The argument
follows them buffer by buffer: each is placed where the sum of the first pass
stands (`AttnPlaced`, `MLPPlaced`, `MoEPlaced`, `LogitsPlaced`), rounding up is
monotone, and a buffer before another one ends before it. `Executor` may
therefore treat the buffers of a stage as separate and needs the layout only for
what other stages left.

`ExecutorProofs`, of the rotation (for every power of two of lanes to half a head):

* `HeadsAreRotated`: after both shuffles and the swaps, each element is in its
  place and was combined with its partner, by its angle and with its sign. The
  proof follows one element through `LoadedAt`, `FreqAt`,
  `ComputedAt`, `ReturnedAt` and `StoredAt`, for each half of the head.

`ExecutorProofs`, of batches (for every number of layers, heads, requests and
blocks, every limit and bucket, and with or without graphs):

* `ExecutorResultsAreOwn`: `Spec => []ResultsAreOwn`; what `finish()` returns for
  a request is sampled from its own last token, in order.
* `ExecutorCacheIsExact`: `Spec => []CacheIsExact`.
* `ExecutorRowsDoNotRace`: `Spec => []RowsDoNotRace`.

What is on the stream is always the rest of one batch's program: `Left(b, k)` are
its operations after the first `k`, and it is proved that `Replay` and `Eager`
queue the same program. `Serving(b)` says which operation is next and what those
before it have left in the workspace (`BeforeLayer`, `BeforeAttend`,
`BeforeProject`, `BeforeFeedForward`, `BeforeSample`, `BeforeDownload`), row by row
and for the rows of the batch only: padding rows are never spoken of, which is
the point. Of the cache it says that all keys are exact but those the batch has
yet to compute, from the present layer on (`KeysTo`); a kernel's writes keep the
rest because no block is in two tables (`TablesInv`). Where a buffer lies
over another, the offsets of `Workspace` decide what is lost, so the theorems of the layout are
used here. That attention reads the request's whole prefix rests on the lemmas
about `PagedAttention`: the tiles of a batch cover each row once, and those of
a row walk each key of its prefix once. `AllKeys` holds whenever the device is idle.

`AttentionBlockProofs` (for any number and size of warps, rows, tiles and copies,
any lengths and any scores):

* `BlockTilesAreWhole`: `Spec => []TilesAreWhole`.
* `BlockWeightsAreBounded`: `Spec => []WeightsAreBounded`.
* `BlockOutputIsAttention`: `Spec => []OutputIsAttention`.
* `BlockMeetsAtOneBarrier`: no two warps wait at different barriers.

A warp's counter alone says nothing of the others. `TileInv` cuts the kernel at
its barriers into seven segments; all warps are in the same one, at one tile `k` of
keys, and for each it says which rows of shared memory are there and which are on
their way in which group of copies, of which warp's share. That the shares split
a tile among the warps is a lemma about `Share`. Only `Summing` lets a warp
run ahead, into the next turn of the loop before the others have left this one.
`SumInv` says what each row has added up: `acc` and `l` are the terms
of the first keys the row may see, all under one reference, which was some score
and which no score exceeds by more than the gap; so moving it late loses nothing.
The mask leaves a beginning of each tile (`Among`), which is why a tile's weights are a list
that continues the row's.

`SampleRowProofs` (for any vocabulary, tiles, threads, digits, logits and parameters):

* `RowTopKIsExact`: `Spec => []TopKIsExact`; two radix digits find the k-th
  largest value, ties and both zeros included.
* `RowDrawIsProportional`: `Spec => []DrawIsProportional`.
* `RowNucleusIsSampled`: `Spec => []NucleusIsSampled`; rejection returns a token
  of the nucleus and never excludes one.

`RowInv` follows the stages: `RangesInv` and `CutoffInv` what the first kernel left,
`MassInv` that the threads' masses are those above the present cutoff, and that the
cutoff was only raised where the mass above it still reaches `top_p`;
without the last, a raised cutoff could exclude the nucleus. Sums over sets are defined by
picking elements, so that a sum may be split, that it does not depend on the
order, and that it grows with the set are proved for the smallest set they could
fail for. The draw is proportional because a thread's share and a
token's share within it are adjacent intervals of one line.

`DetokenizerProofs` (for any vocabulary, prompts, number of kept tokens and way a
completion is cut into tokens and pushes):

* `DetokenizerStreamIsCompletion`: `Spec => []StreamIsCompletion`.

Bytes are `Closed` if they do not end inside a character. Such bytes are read the
same whatever follows, and what follows is read as if it stood alone
(`CharactersConcat`); text whose last character is whole comes from such bytes
(`ClosedIfWhole`). The invariant names four parts (`Window`): the tokens whose
text was returned and those that wait; what lies before the window of push and
what is in it. The window has text and is closed, so the two decodes that push
compares differ by the new text alone, and a leading space is dropped from both or from
neither (`PushedText`). A window without text would break this, which is why the
property supposes that what is kept of the prompt has some.

The proofs assume the `...Assumption` of each module (sizes are positive naturals,
`top_p` is between zero and one, the least cache fits the longest request and the
like), which TLC evaluates in the runs.

Proved are thus all invariants of the passing runs and both refinements. Only
model-checked are the liveness properties: `EveryRequestLeaves`, `EveryCallEnds`,
`CloseEnds`, `DeathEndsEveryCall`, `ShutdownCompletes`, `BlockEnds` and
`RowIsSampled`. They need fairness, and TLAPS does not reason about `ENABLED`.
Recursive functions are definitions by `CHOOSE` to the prover; the lemmas show
that a function with the equations exists (`StepByStep`) and compare the two by a
least difference (`UpTo`), in place of the induction theorems, whose operator
parameters the available provers cannot instantiate.

## 5. Findings

* `SchedulerReuse` (a disagreement of code and comment): the lookup of a prefix
  counts as reused prompt tokens also what a preempted request had decoded, so
  the reuse counters can exceed the prompt (`kv_cache_manager.h`).
* `SampleRowTinyTopP` (a defect): `top_p` is accepted by the frontend as any
  double above zero and stored as a float, so a tiny one becomes zero; the
  rejection loop then never accepts (`mass > pivot` against a target of zero) and
  does not end, against `protocol.h:69-71`.

## 6. Assumptions and what is not modelled

* No two token sequences have one 64-bit hash; request ids are unique (uuid4).
* The cleanup of a handler is not itself cancelled.
* fp32 rounding of sums and the arithmetic inside kernels are left out, as are
  tensor-core layouts, the swizzle of shared memory and vectorised loads.
  `AttentionBlock` takes exponents as exact, with one score for a key whatever
  the query. The sizes of the workspace are numbers without overflow.
* How much memory the profile at start-up measures is a free choice; the CUDA
  calls of a capture and its warm-up are left out.
* Requests that validation refuses with status 400 never reach the modelled part.
* The tokenizer's `encode`, the chat template and the loading of its files are calls
  of a library; a failing decoder is an interrupted handler in `Server`.
* The expert layer (`moe.cpp`): its forward pass is a TODO that launches the
  gating kernel and drops its result, so there is no answer to be right; its
  buffers are a stage of `Workspace`. The vectorised fused kernel at
  `qk_norm_rope_fused.cu:144` is never launched.
* `checkpoint.cpp` and `model_config.cpp` parse files once, in one thread, and
  either fail or fill constants; `CudaDeviceBuffer`, `PinnedBuffer` and
  `CudaContext` own one handle each, whose life is that of their C++ scope; bindings
  and logging keep no protocol state. A unit test reaches all of it.

## 7. Order of work

Done, in order: free list and pool; cache manager, scheduler and service; client;
attention and executor; sampler; server; proofs for free list and scheduler;
attention block; detokenizer; workspace layout with its proofs, start-up and
capture in the executor; rotary kernels with their proof; proofs of the cache's
operations, of scheduler and cache together, of the service and the content of
the cache, of the client, of the server, of the attention block, of the
executor's batches, of the sampler and of the detokenizer.

What could follow: the liveness properties as leads-to chains over the proved
invariants, once a prover with `ENABLED` is at hand; the expert layer, when its forward
pass is written.
