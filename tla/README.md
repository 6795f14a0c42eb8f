# Helios GLM-5.3-Flash: a verification project

TLA+ specifications of the Helios inference engine (C++23/CUDA, one 4-bit GLM-5.3-Flash model on two
GPUs), the TLC configurations that check them on small instances, and TLAPS proofs about the prefix
cache and its copies, the slots and the loading of experts, the server and its scripts, the work buffers, the forward pass, and the sums of products and experts. Paths below are relative to the repository; line numbers are those of the modelled commit.
`PROJECT.json` maps every definition to the lines it stands for.

    tlc -config context.cfg MCContext        # one run; section 3 lists them
    tlapm ContextProofs.tla                  # proofs; also in ExpertPoolProofs, ServingProofs, KernelProofs,
                                             # MoeKernel, ImageCache, Loader and SnapStreams: section 5

## 1. The system

A server process answers OpenAI-style HTTP requests. GPU 0 holds attention, the recurrent layers and the
KV planes; GPU 1 holds a pool of slots for routed experts, which are streamed from host memory on demand.
One engine (`Runner`) serves one request at a time; what it keeps between requests is what makes it fast,
and most of what can go wrong.

| Component | State it keeps | Operations | What is hard |
|---|---|---|---|
| prefix-cache policy (`engine/prefix.hpp`, `image_prefix_limit` in `core/vision.cpp`) | none | `prefix_plan`, `prefix_checkpoint_before`, `prefix_discard_suffix` | recurrent state cannot be cut back, planes can; images change under equal tokens |
| runner (`engine/runner.cpp`) | `hist_`, image spans, `pos_`, KV planes, KDA states, logits, snapshot ring `snap_*`, counters | `reset`, `prefix_begin`, `prefill` (chunk-major and layer-major), `final_head`, `decode`, `generate`, `snap_capture/restore/drain` | long series of overlapping requests; capture and restore are asynchronous copies on two streams |
| expert slot pool (`engine/slotmgr.cpp`, `moe_ffn`) | `slots_`, `map_`, pins, busy/used marks, clock, hot set | `find`, `reserve`, `acquire`, `force_resident`, `evict_one`, `sync_copies`, `begin_step`, `end_step`, `note_request` | fewer slots than experts a layer needs; DMA in flight while eviction decides |
| expert census (`slotmgr.cpp`) | counters in memory, file and temporary file | load, `save_census` | killed between any two steps; a full disk |
| output parser (`core/chat.cpp`) | pending text, state, tool call being read | `feed`, `finish`, `drain`, `holdback_len` | markers cut anywhere by token boundaries |
| UTF-8 streaming (`engine/utf8.hpp`, `Utf8Streamer`) | bytes seen, length emitted | `push`, `utf8_sanitize` | characters cut by token boundaries, bytes that are none |
| response driver (`engine/server.cpp` `generate`, handlers) | text, stop strings, client connection | per-token callback, `finish_reason` | stop, length, end and a client that leaves coincide |
| sparse attention index (`cuda/attn/attn.cu` `kpool_write`, `indexer_score`, `pool_expand_row`; ring in `engine/cache.cpp`) | ring of raw keys, pooled keys per layer | one call of the forward pass; the rows a query attends to | the ring keeps little more than one call; a pool may begin in one call and end in another, or be rolled back |
| top-k selection (`cuda/aux/dsa_topk.cu`) | none | `dsa_topk`: one block, or spans and a merge | ties, digits, rows shorter than k, the end of a span |
| HTTP front (`server.cpp`, httplib's pool) | `gen_mu`, runner figures read after a generation | handlers, workers | one mutex, several workers, clients that leave, an encoder that fails |
| image cache (`core/vision.cpp`) | LRU list, byte count | `get`, `put` | budget met exactly, entries of another size under one key |
| forward pass (`runner.cpp` `run_chunk`, `layer_step`, `moe_ffn`, `final_head`) | buffers allocated once, for every layer and call; a stream per GPU and one for copies of experts | embed, attend, experts, head | the host runs ahead of two devices, and every buffer is used again |
| work buffers (`Runner::init`, `Cache::init`) | their sizes | a call of any rows at any position | layers of other widths share buffers, scores are made in blocks, a context ends inside a pool |
| sampler (`engine/sampler.cpp`) | what was said lately | `sample` | three filters cut one ranking, with ties |
| shared matrix product (`cuda/quant/exl3_gemm_inner.cuh`) | one lock per output column, outliving launches; a ring of stages and a place for sums in a block's shared memory | slices, `async_load_gl`, `wait_stage`, `load_frags`, `reduce`, `barrier_acquire/release` | order of float sums; locks that never match; stages filled while others are read |
| product of few rows (`exl3_gemv_kernel.cuh`) | ring of registers per warp, shared memory, one barrier of the grid | rotate rows, take slices, sum, rotate columns | groups of columns use shared memory again |
| quantized layouts (`pack.cu`, `exl3_dq.cuh`, `reconstruct.cu`) | none | pack, and six ways of finding a weight | 16 bits of a ring of words, at another place for every number of bits |
| rotations (`hadamard_inner.cuh`, `reconstruct_had_kernel`) | a square in shared memory | rotate a vector, a square from both sides | quads lie in an order of their row's own; warps take columns, then rows |
| norms (`norm.cu`) | shared memory of a block | norm a row, in place, added to another, or gated | rows of more columns than threads are read twice |
| expert router (`cuda/aux/routing.cu`) | shared memory of a block | scores, choice of 8 of 288 experts | warps deal their candidates out among each other through the memory they write |
| fused expert kernel (`exl3_moe_kernel.cuh`, `moe_permute`, `moe_reduce_sorted`) | ticket counter, group barriers, sorted rows | draw, group barrier, retire; count, scatter, reduce | groups race for experts; cursors in any order; state that outlives the launch |
| recurrent layers (`cuda/aux/gdn.cu`) | window of the convolution, state of the delta rule, per layer | one call over rows, or one row | four warps share a head; six phases per row and no barrier after the last |
| latent attention (mla kernels of `cuda/attn/attn.cu`) | shared memory of a block | sparse rows of a list, or all rows | running maxima of warps that saw few rows, or holes only |
| hyper-connections (`cuda/aux/hc_mix.cu`) | partial sums in a workspace | mix the streams, apply the layer's output | fewer rows are cut into more blocks; columns dealt to threads of warps that leave early |
| tokenizer (`core/tokenizer.cpp`) | merges, vocabulary | `encode`, `pretokenize`, `bpe_piece`, `decode` | a hand-written scan of bytes stands for an expression over characters |
| chat template (`render_chat` in `core/chat.cpp`) | none | the prompt of a conversation | a prompt must go on where the last one ended, or the prefix cache is lost |
| model loader (`Loader` in `core/model.cpp`) | job counter, buffers and events of each worker, two streams per GPU | sort, workers, verification | buffers are filled again while copies out of them are in flight |
| expert layout (`core/expert_layout.cpp`, `Loader::load`, `start_copy`) | widths, offsets and base of each layer, stride of a slot | plan the arena, fill it, copy a slab to a slot, point a kernel to its parts | layers of other widths share slots, and are read at offsets of their own |
| launcher scripts (`scripts/*_server.sh`) | lock files, a process id file per launcher | start, stop, restart | two launchers on one port that may hold different locks for it, scripts that are interrupted, servers that die or have not yet opened the port |
| devices, vision process, command line, element-wise kernels | | | not modelled, section 9 |

Interactions: the HTTP handlers call `Runner::generate` under `gen_mu`; it calls `prefix_begin` (policy),
`prefill`, `decode`; each layer of a forward pass calls `moe_ffn`, which asks the slot pool for the experts of
the routed tokens, launches the permutation, the fused kernel and the reduction on GPU 1, and brings the sum
back. Tokens return through the response driver: detokenized bytes to the UTF-8 streamer, text to the
parser, deltas to the stream. An MLA layer writes the index keys of its rows, scores the pools, selects the best 512 and
attends to their rows (`runner.cpp` 514-696). Snapshot copies run on their own stream beside the forward pass. The loader fills
devices and arena before all of this; the census connects one process to the next, and the launcher scripts start and stop the processes.

What makes each part correct, in one line each:

- *Runner*: planes, recurrent state, snapshots, position and logits always describe the resident sequence, and
  every request is answered as if nothing had been cached.
- *Slot pool*: a kernel reads its own layer's experts, completely copied, and nothing it reads is evicted before
  the step ends; pins, map and marks agree; a layer always finishes.
- *Loader*: what the devices hold when `load()` returns is what the checkpoint holds. (It is, but for one kind of chunk: finding 7.)
- *Expert layout*: tensors share no byte of the arena, and a slot holds the whole expert where its layer looks for it.
- *Launcher*: where all scripts hold the port's lock and none is interrupted, one server at a time; a stop leaves none.
- *Census*: a restart sees exactly the last completed save.
- *Text path*: only whole characters leave; how the output is cut into tokens is invisible; nothing emitted is
  withdrawn; the reported finish reason is the real one. Tokens decode to the text they were made of, cut as the tokenizer's
  expression cuts it; a follow-up prompt extends what was said before.
- *Sampler*: a token is drawn only from what the filters have to leave.
- *Front*: the engine and the encoder are never shared; answers carry their own figures; everyone is answered.
- *Index*: the key of every pool that may be seen is that of its rows as they are; the selection is the exact top k; no
  row is lost while everything fits.
- *Kernels*: the router's choice is the exact top k; sums are added in one order whatever the blocks do; nothing waits for ever; the words in device
  memory serve the next launch. A recurrent state consumes every row once, in order; attention is the softmax of its list; every column of
  the streams is mixed once; a norm and a rotation are those of the whole row; every kernel finds for every weight the state it was packed to.
- *Forward pass*: nothing is made of what is half written, of another step, or written over meanwhile.
- *Work buffers*: no call touches more than was allocated.

## 2. Modules

| Module | Models | State and actions |
|---|---|---|
| `Cacheless` | the promise: an engine that keeps nothing between requests | begin, answer, generate, end |
| `PrefixCache` | `Runner`: resident sequence, prefill, decode, snapshot ring; at its head what a forward pass reads and writes (a row is the token, image and position it was computed from, a recurrent state the sequence of rows consumed), and `prefix.hpp` and `image_prefix_limit` as operators: where the resident sequence may be reused, which snapshot is best, which snapshots survive | `BeginExtension`, `BeginSnapshot`, `BeginRestart` (the branches of `prefix_begin`), `PrefillChunk`, `PrefillHead`, `PrefillDrop`, `Decode`, `Stop`; in `LayerMajorSpec` of `MCContext`, as far as positions, `SuperChunk`, `SuperHead` |
| `ExpertWeights` | the promise of the slot pool: a layer begins, runs on its own experts, ends | begin, launch, end |
| `SlotMgr` | `slotmgr.cpp` with its use in `moe_ffn` and the copies in flight | `BeginStep`, `RequestHit/Miss/Drain/Exhausted`, `Resolve`, `ForceResident`, `Tabulate`, `Launch`, `EndStep`, `SyncCopies`, `CopyDone` |
| `SnapStreams` | snapshot copies as commands on two CUDA streams with two events; lemmas | `Forward`, `Capture`, `Restore`, `Reset`, and the streams executing |
| `Census` | the census file; in `DiskFullSpec` with `fclose` that fails | `Start`, `Count`, the steps of `save_census`, `Killed` |
| `Delivery` | the incremental parser over symbolic markers, by itself (`ParserSpec`) and with the driver of a generation around it | `Feed`, `Finish`; `Token`, `EndOfText`, `ContextFull`, `ClientLeaves`, `Respond` |
| `Utf8Stream` | `Utf8Streamer` and its helpers over byte classes | `Push`, `End` |
| `Server` | handlers as phases around `gen_mu` and httplib's workers | one action per phase of a handler |
| `Loader` | workers that read a checkpoint through buffers of their own, and the streams they queue copies on; a theorem | `Take`, `ReadHost`, `LoadChunk`, `LoadSmall`, `LoadBias`, `Synchronize`, `EndWorker`, `Copy`, `Refuse`, `Verify` |
| `ExpertArena` | where the tensors of experts lie, in bytes: the layouts of the layers, the arena, the slots | `Plan` (`PlanDense`, `PlanExperts`, `RefuseLayout`), `LoadExperts`, `StartCopy` |
| `Launcher` | the scripts of both checkpoints as shells, the lock each holds (the port's, or another, or none), and the server processes they start | one action per step of `start`, `stop`; `Interrupt`, `Listen`, `Die` |
| `ImageCache` | `ImageEmbeddingCache`; lemmas | `Hit`, `Put` |
| `SplitK` | the product that blocks share through column locks | `Acquire`, `ReadSum`, `WriteSum`, `Release`, `Leave`, `GridSync` |
| `TilePipeline` | the threads of one block of that product: asynchronous copies, fragments, the reduction in shared memory | `Start`, `Fill`, `Read`, `Multiply`, `Store`, `Add`, `Write`, `Rotate`, `Clear`, `Sync` |
| `RoutingTopK` | the router's choice, warp by warp | `Deal`, `Round`, `Barrier` |
| `MoeKernel` | permutation, fused expert kernel, reduction | `CountTokens`, `Scatter`, `LaunchKernel`, one action per step of a block, `Reduce` |
| `DeltaRule` | convolution and gated delta rule, warp by warp | `Convolve`, `Norms`, `Normalize`, `Recall`, `SumMemory`, `Update`, `SumOutput`, `EndCall`, `Reset` |
| `LatentAttention` | one query and head, shared by warps | `AttendSparse`, `AttendDense` |
| `Forward` | one host thread, the streams of two devices and one for copies, over calls and layers | `Queue`, `Synchronize`, `HostRead`, `AcquireSlot`, `Launch`, `NextLayer`, `Finish`, `NextCall`, `Begin`, `End`; what the host does is a list per layer, in the order of the source |
| `WorkBuffers` | sizes of buffers, and what a call touches of them | `RunChunk`, `Resume` |
| `SmallProduct` | the product of few rows, warp by warp | `RotateRows`, `Prefetch`, `TakeSlice`, `Store`, `Sum`, `Leave`, `RotateColumns`, `SyncThreads`, `GridSync` |
| `Trellis` | packing, and each way a kernel finds the state of a weight, bit by bit | `Pack`, `Decode` |
| `Hadamard` | a warp's rotation of a vector, and the rotation of a square from both sides | `RotateVector`, `Dequantize`, `RotateColumns`, `RotateRows`, `SyncThreads` |
| `RowNorm` | `rms_norm` in its three modes and `gated_rms_norm` in two | `Square`, `Sync`, `Scale` |
| `Sampler` | `sampler.cpp` | `SampleGreedily`, `Sample` |
| `HyperMix` | the three kernels around every layer, and their workspace | `MixAndApply` |
| `Tokenizer` | `tokenizer.cpp` over byte classes | `Tokenize` |
| `ChatTemplate` | `render_chat`, and a client that sends the conversation again with every request | `Ask`, `Results`, `Answer` |
| `SparseIndex` | ring of raw keys, pools, rows of a query | `Forward`, `Resume`; operators from visibility to `RawIdx` |
| `IndexTopK` | the radix select and the merge of spans as operators, and one call of `dsa_topk` on any row | `SelectRow` |

Four modules compose them:

| Module | Parts |
|---|---|
| `ContextState` | `PrefixCache`, `SnapStreams`, `SparseIndex`, `IndexTopK` |
| `ExpertPool` | `ExpertArena`, `Loader`, `SlotMgr`, `Census` |
| `Serving` | `Launcher`, `Server`, `ImageCache`, `Utf8Stream`, `Delivery` (its parser by itself, and the driver with one), `Tokenizer`, `ChatTemplate`, `Sampler` |
| `Kernels` | `Forward`, `WorkBuffers`, `SplitK`, `TilePipeline`, `SmallProduct`, `Trellis`, `Hadamard`, `RowNorm`, `RoutingTopK`, `MoeKernel`, `DeltaRule`, `LatentAttention`, `HyperMix` |

Theorems about them stand in `ContextProofs`, `ExpertPoolProofs`, `ServingProofs` and `KernelProofs`. Lemmas and theorems of a part that is used as an instance
(`SnapStreams`, `ImageCache`, `Loader`, `MoeKernel`) stand at the end of the part's own module: there they are about its own variables, and the composition's proofs cite them through the instance.

Their parts are *side by side*: a variable (`part`, `kernel`) says which of them moves in a behaviour, and the others stay at one of
their beginnings. The parts of one composition share no variable in the code while one of them works, or take what another
does for one step; the head of each composition gives the argument. So nothing is lost by not interleaving
them, one configuration checks many of them (in `ContextState` the constant `Moving` names those), and the assumptions on their constants (named `ASSUME`s) stand in the composition.
The `MC...` modules only give the constants values.

### How data is abstracted

- A token is a model value; a row of a KV plane is *what it was computed from* (tokens, image content, position), and a
  recurrent state is the sequence of the rows it consumed. Two planes are equal in the model exactly when the
  same computation would fill them; a stale row is a row computed from something else.
- A copy of an expert is its layer and number, half-copied, or another's.
- A marker of the chat format is a short symbolic text whose proper prefixes are shared the way the real ones are
  (`<`, `</`, `<|`), because hold-back is about prefixes.
- A byte is the first of its UTF-8 class. The classes are those that either the scan of `utf8.hpp` or the table of RFC 3629 tells apart: leads that are always
  overlong (C0) or beyond Unicode (F5) are classes of their own, as are E0, ED, F0 and F4, which do not take every continuation, and there are three classes of continuations.
- An argument of a call is a string in quotes, data with or without loose blanks, or plain text. The client has it from `args_to_json`, which drops the quotes, writes the data its own way and keeps one value per key,
  and sends that back (`ArgsToJson`); what was written otherwise is rendered otherwise, and the prompt after it does not repeat what the model said (`Repeated`, a condition of `PromptExtends`).
- A sum of floats is the sequence of its terms, since addition is commutative but not
  associative: equal sequences are equal bits, different ones need not be.
- In `LatentAttention` a weight is its exponent and a sum of weighted terms the function from terms to exponents, so that scaling
  a sum adds to all of them. In `HyperMix` columns of the streams are numbers, and what matters is which of them is read and
  written, how often, by whom.
- In `Forward` a value is the step, a call and a layer, it was computed for; what is read while another stream writes it, or
  written over while it is read, is `Mixed`. In `SmallProduct` and `RowNorm` a value is the term it was computed by, sums in their order.
- In `Trellis` a bit of memory is the set of bits of weights that were or-ed to it. In `Hadamard` an input is one at one place: rotations
  are linear. In `WorkBuffers` an extent is the number of elements up to the last one touched.
- In `Sampler` scores are integers at temperature 1, a weight is a power of two and a fraction is in percent: equal weights are ties and
  nothing is rounded; the draw `next_f` is any of some percents.
- A byte of the tokenizer is its class in the expression; U+3000, a space of three bytes, stands for characters of several bytes.
- Counters of the census and the hot set keep their saturation at a small maximum.

## 3. Runs

| Run | Module, cfg | Question | Result |
|---|---|---|---|
| `context` | MCContext | Whatever series of prompts with overlaps, images and decodes: are planes, recurrent state, restorable snapshots and logits those of the resident sequence, and does the engine answer like one that keeps nothing (`AnswersLikeCold`, refinement of `Cacheless`)? Whatever calls wrote and rolled back the rows: are the pool keys those of the rows and is no row lost to attention (`IndexSound`), is the selection the exact top k on both paths? | holds, 292k states |
| `snapshots` | MCContext | With the code's pool of 4: are interval and tail checkpoints captured, is the newest snapshot never overwritten, does every prefill end? In every interleaving of the two streams: do kernels consume whole states, is the staging buffer kept until it is stored, is every settled slot what the host believes? | holds, 1.0M states |
| `experts` | MCExperts | Whichever worker takes which tensor: does everything arrive but the last chunk a large tensor has in buffer 0 where there is a bias, and, whatever widths the layers have, apart in the arena and whole in a slot (`TensorsArrive`)? With fewer slots than experts and copies that complete at any moment: does each kernel read its own, complete experts (refinement of `ExpertWeights`), are reservations kept until the step ends, map and pins exact, and does each layer end? Killed between any two steps of a save: is a restart's ranking the last completed save? | holds, 262k states |
| `serving` | MCServing | Two shells with either launcher and servers that die: where all scripts hold the port's lock and none is interrupted, one server, and a stop that leaves none? Four requests of every kind, two workers, clients that leave, an encoder that fails: exclusive engine, own figures where the prompt is not empty, everyone answered; the image cache within its budget and LRU; bytes of every class, texts and responses cut in every way: whole characters only, and what the JSON serializer accepts as long as the model writes valid text; cuts invisible, nothing withdrawn, streams complete, `length` means truncated, a client that left ends decoding, and a delta that ends with a stop string ends it too? Is the token drawn one that the filters have to leave? Texts: do tokens decode to the text, are pieces those of the expression, does a prompt extend the conversation before it? | holds, 422k states |
| `kernels` | MCKernels | Every interleaving of blocks and warps, and two launches in a row: one order of sums (`SumsInFixedOrder`: products of any rows, the experts' sums, the tiles of a block), the router's top k, no endless wait? However far the host is ahead: do groups stay in step, is nothing of another step or half written read (`NothingRunsAhead`)? Do the warps of a recurrent layer, of attention, of the mixing, of a norm and of a rotated square compute what one thread would, and does every kernel find the weights (`AsByOneThread`)? Does every call fit its buffers (`FitsItsRoom`)? | holds, 305k states |
| `layer_major` | MCContext | `CachesHoldHistory` | violated, section 7 |
| `census_disk_full` | Census | `SurvivesRestarts` | violated, section 7 |
| `partials_overflow` | MCKernels | `FitsItsRoom` | violated, section 7 |
| `second_server` | MCServing | `NeverSecondServer` | violated, section 7 |
| `loader_bias` | MCExperts | `EveryTensorArrives` | violated, section 7 |
| `routing_race` | MCKernels | `RoutesTopK`, with candidates of more than one warp | violated, section 7 |
| `index_tail` | MCContext | `AttendsEachRowOnce` | violated, section 7 |

Every module has one type invariant where its state is not plain. A run checks that of the runner; those of the slot pool and the server are proved (section 5),
and hold on the instances above when they are named in their configurations.

### Bounds, and why they are enough

- `context`, runner: capacity 5, prompts up to 6 tokens, chunks of 3, pool of 2, two snapshots, interval 3, two tokens of
  text and images at two places, the first with two contents. Every branch of `prefix_plan` is taken: extension, each snapshot in the ring, roll-back
  to a snapshot under a longer resident sequence, restart; prompts longer than the capacity; the ring wraps. One
  more token of prompt only lengthens the same branches.
- `context`, index: six rows, pools of 2, calls of up to 3 rows, two pools selected of three: calls begin and end inside pools, the
  ring of 5 wraps, a query sees fewer pools than it may take, as many, and more.
- `context`, selection: all rows of four keys of two binary digits and all of five of three keys, every k, two and three spans:
  ties inside, at and across the threshold and the digits, fewer scores than k, empty and short spans.
- `snapshots`, runner: the pool size of the code (4), capacity 12, prompts up to 13, chunks of 5, interval 6: the cuts at
  interval and tail, which depend on the alignment of pool, chunk and interval, all fall differently.
- `experts`: 2 layers of 3 experts, 2 slots, one of them pinnable: a layer may need more experts than slots exist
  (zero slab, forced residency), and a pinned slot may be the only one left. Three counters up to 2; a save may stop
  after any of them.
- `experts`, loader: two workers, so that one's copies are in flight while the other synchronizes the stream they share; a tensor
  of three or four chunks comes back to the first buffer while its copy may be there; every kind of tensor, on both devices, and a missing one. Two of the lists have a large tensor
  and router biases behind it, as every checkpoint of the model has, on the large tensor's device and on the other.
- `experts`, layout: two experts of 32 by 16 weights, two slots, six checkpoints: the widest layer first, between and last, a dense one among
  them, projections of other widths; experts that differ, 7 bits, and a tensor that is missing. Every slot is filled over every other expert.
- `snapshots`, streams: two recurrent states per sequence, two ring slots, four queued commands, ten identities.
- `serving`, scripts: two shells, both launchers, room for two processes, and one mishap: an interrupted script, or one that holds another lock than the port's or
  cannot ask whether the port is taken.
- `serving`: as many requests as there are kinds of handler, a completion with an empty prompt among them, two workers, so that one waits for the other; an image
  budget of four units with sizes one to five, four calls; texts of 6 characters contain every marker with something before and
  after; responses of 4 tokens with room for 3 make budget, context and end coincide; tokens of one byte of every class and some of two, up to 4 bytes, which hold every character whole, broken and cut anywhere;
  every text of up to 4 characters of 9 kinds reaches every rule of the scan with something before and after it, and merges compete for a symbol;
  conversations of up to 7 messages hold two calls, their results, and a question after them.
- `kernels`: products of up to 4 x 2 tiles on up to 3 blocks (5 x 2 on 4), so a block has a part of a column, exactly
  one, several, or none; 5 to 8 experts in two warps of 4 with every pattern of ties, whose candidates fit one warp, so that the second stage is one warp's choice and the merge between
  warps is not reached (`routing_race` reaches it); 3 experts for
  2 groups of 2 blocks, so that one group draws twice, and launches with more and with fewer experts one after the other;
  5 rows in calls of up to 4 with a window of 3, so that windows reach over one and over two calls; lists of up to 5 of 3 rows and holes for
  two warps, so that a warp sees holes only, or nothing; up to 384 columns of streams, so that threads take several groups of four, one, and none;
  slices of 1 to 6 tiles of columns of 1 to 3, from every tile, through rings of 3 and 4 stages (`exl3_moe_common.cuh` 14, `exl3_kernel_map.cuh` 69),
  so that stages are filled again and a slice begins, ends and turns at every row; two lanes read each other's parts.
- `kernels`, forward pass: three calls through a dense layer and two of experts, two slots: a slot is used again by another layer while
  the first device may still work on the layer before, and every buffer by the next layer and the next call.
- `kernels`, work buffers: chunks of 1, 8 and 40 rows, contexts of 6, 41 and 64 rows, blocks of 16 and 24 scored rows: contexts shorter than a
  chunk and no multiple of a pool, calls that are clamped, every position. At these dimensions partial sums of a shorter call never need more than a chunk's; `partials_overflow` has the dimensions at which they do.
- `kernels`, product of few rows: 23 slices for two warps (rings used three times over), 5 slices for three warps, of which each has a
  different number, two groups for one block (shared memory used again) and for two.
- `kernels`, layouts: all eight widths, two tiles side by side, all 256 weights of a tile. Rotations: warps of 8 lanes and squares of 32 by 32, two warps,
  a one at every place of a vector and at four of a square. Norms: 1 to 9 columns for 2 lanes and at most 4 threads: one warp, two, and rows read twice.
- `serving`, sampler: three tokens with every pattern of scores of three values, each filter by itself and with others, what was said up
  to two tokens, with windows shorter than that.
- `partials_overflow`: the engine's shape with 16 times fewer columns and threads, which gives the same numbers of blocks.
- `routing_race`: three warps of 4 whose six candidates need two warps again, as the 72 candidates of the engine need three.

Every bound is a named constant (`Max...`, `Cap`, `Room`, `Budget`) and appears in a guard of the module.

### Fairness

- `snapshots` (`PrefillEnds`): weak fairness of the chunk loop, which is straight-line code.
- `experts` (`StepEnds`): weak fairness of the host thread and of the copies: the DMA engine completes what was queued.
- `serving` (`EveryRequestAnswered`): weak fairness of the workers and of each handler's own steps. `gen_mu` is handed out in any
  order; that no waiter starves needs no more, because there are finitely many requests. Clients owe nothing.
  A handler that has started the encoder's process also waits for it without a limit (`vision.cpp:103`): its fairness assumes that this process exits, successfully or not.
- `kernels`: weak fairness of the host and the streams of `Forward`: each stream executes what was queued. Weak fairness of every block: cooperative launches put all blocks of a product on multiprocessors at once
  (`exl3_gemm.cu` 197-216), and `exl3_moe.cu` 111-127 sizes the grid so that all fit. Of the threads of a block
  (`TilePipeline`) only that some go on: they cannot go on for ever.
- `context` and the violation runs check safety; in `context` a state without a successor would be reported, and there is none.

## 4. The properties, and the hazards they are for

The hazards are listed at their lines in `PROJECT.json`. The main ones and what answers them:

- *A snapshot of one conversation restored for another*: `SnapshotsSound`, `AnswersLikeCold`.
- *An image swapped under an equal token prefix*: `AnswersLikeCold` with two contents of one image.
- *A prompt wholly resident*: the last token has to be run again; `ServingSound` relates the logits a token is sampled from
  to the last row of the current prompt.
- *A miss evicts what the same step resolved before*: `StepHoldsItsSlots`, an action property over every step between
  resolving an expert and the end of the kernel.
- *Copies that race*: `ServesExperts` (slabs) and `KernelsConsumeWholeStates`, `StageKeptUntilStored` (snapshots).
- *Buffers filled again under a copy*: `TensorsArrive` compares chunks on the device with the file, for every order of
  jobs, copies and checks: all chunks, save the one that a bias may spoil (`LastThere`).
- *Layers of other widths in one slot*: `TensorsArrive` looks, at the addresses of the pointer tables, for every tensor of the expert copied last,
  whatever was in the slot and is in those beside it.
- *Two launchers, a server that does not listen yet, a process id whose process has died*: `OneServer`, `StopMeansStopped`, which say for which scripts they hold: every script holds the lock of the port (and
  `OneServer`: none was interrupted).
- *A marker or a character cut by a token boundary*: `ChunkingInvisible` compares with the parse of the whole text,
  stated independently of the parser's own hold-back; `EmitsSafeText` states without the scan that sequences are whole whatever
  the model writes, and well-formed by RFC 3629 as long as it writes valid text.
- *A pool begun by one call and completed by another, or cut back between*: `IndexSound` compares with the rows as they
  are now, through every series of calls and roll-backs.
- *Where pools end and the tail begins*: `IndexSound` wants every row attended to while all pools fit.
- *Ties, digits, short rows*: `SelectsTheBest` and `RoutesTopK` state the k best by counting who is better.
- *A call that ends inside a convolution window, a warp a phase ahead*: `AsByOneThread` compares with one pass over the sequence (`ConsumesEachRow`).
- *Maxima that rise late, holes*: it states the softmax over the rows of the list (`AttentionIsSoftmax`).
- *Warps of a norm in place, of a rotated square*: it states the norm of the row as it was (`NormsWholeRow`) and the matrix of Sylvester
  (`RotatesBySylvester`), not the butterflies.
- *Six ways of finding a weight*: it states the 16 bits a weight was packed to (`EachWeightItsState`), as they follow from the order of the
  weights alone; a comment of `test_reconstruct.cpp` (312) calls the equivalence of the layouts untested.
- *How many blocks a row is cut into*: it counts every column (`EachColumnOnce`), and `FitsItsRoom` the room for partial sums.
- *A host ahead of two devices*: `NothingRunsAhead`: no memory ever holds what was made of another step's operands.
- *A stop string cut by tokens or by a tool call*: `StopsAtDeltaEnd`, an action property over the deltas so far.
- *Filters that cut one ranking*: `DrawsFromNucleus` states the set by counting what is likelier, without the ranking, and that what is likelier than the token drawn does not reach
  the fraction that was drawn, so that the likeliest is never dropped.
- *A scan that stands for an expression*: `EncodesText` states the expression by its alternatives.
- *A follow-up that does not extend the resident sequence*: `PromptExtends`, an action property over two requests and the answer between.
- *The order of float sums*: `SumsInFixedOrder`; `docs/benchmarks/determinism-report.md` measures what
  these state for every schedule.

## 5. What is proved

Theorems stand in four modules beside the compositions the runs check, and are about the specifications the runs use: `ContextProofs`
(`ContextSpec`), `ExpertPoolProofs` (`PoolSpec`), `ServingProofs` (`ServingSpec`), `KernelProofs` (`KernelsSpec`). What is needed of a part that is an instance of a module of its own
is proved at the end of that module (`SnapStreams`, `ImageCache`, `Loader`, `MoeKernel`; what is needed of `ExpertArena`, in `ExpertPoolProofs`) and cited through the instance. A theorem holds for every
value of the constants that satisfies the named assumptions, which stand in the compositions and are evaluated by TLC on every run:
`ImageAssumption` (the budget is a natural number, an image has at least one byte), `CacheAssumption` (capacity, chunk size and interval are positive, the number of snapshots is a natural number, prompts are sequences of tokens,
an image has a start and a number of rows, `NoReq` is no request), `PoolAssumption` (pools have at least one row), `CopyAssumption` (recurrent states
exist), `IndexAssumption` (sizes of the index; the planes hold whole pools), `SlotAssumption` (sizes of the pool and of its counters, which also keep slots, experts and the marks for none apart), `CensusAssumption`, `ArenaAssumption` (experts have weights
in whole tiles), `LoaderAssumption` (there is a worker; lists hold tensors), `ServerAssumption`, `LauncherAssumption`,
`TextAssumption` (pieces, tokens, stop strings and markers are strings; a marker has at least two characters, none of the three that are searched for outside a call begins with another,
and none has the end of a turn inside a proper beginning of it),
`MoeAssumption` (sizes are positive; the routes of a launch are experts, as many per token, and no expert has more of them than its buffer has rows, which is the size of the largest call, `runner.cpp:154`; all groups fit the device), `ForwardAssumption` (there are layers, each dense or of
experts, slots, which are memory of their own, and calls), `SplitKAssumption` (tiles, blocks and passes are positive).

| Module | Theorem | States, for every size | Property of a run |
|---|---|---|---|
| `ContextProofs` | `Inductive` | the invariant `IInv` below | |
| | `TypeCorrect` | types of the runner | `TypeOK` |
| | `CachesAreResident` | planes, recurrent state, position describe the resident sequence | `ResidentSound` |
| | `SnapshotsAreSound` | a restorable snapshot is the state of a pool-aligned prefix of the resident sequence | `SnapshotsSound` |
| | `ServesItsRequest` | the resident sequence is the prompt, and logits are those of its last row | `ServingSound` |
| | `CheckpointsAreKept` | the newest snapshot is never lost, and an answered prompt has left its tail in a slot that is not the next to be overwritten | `CheckpointsKept` |
| | `Refinement` | the cached engine implements the one that keeps nothing | `AnswersLikeCold` |
| | `DeviceHoldsTheBelieved` | what the device holds when nothing is queued | `SettledAsBelieved` |
| | `KernelsFindWholeStates` | no kernel meets half a copy | `KernelsConsumeWholeStates` |
| | `StageStaysUntilStored` | the staging buffer waits for its copy to the host | `StageKeptUntilStored` |
| | `PoolsAreTheirRows` | the key of every pool a query may see was made of that pool's rows, whatever the calls were cut into (where the planes hold whole pools: a last pool in part is section 8's) | part of `IndexSound` |
| `ExpertPoolProofs` | `TypeCorrect` | types of the slot pool | |
| | `SlotsNeverLeak` | map and slots agree, nothing stays reserved, the pin counter is exact and capped | `SlotsAccounted` |
| | `NoSlotLostInStep` | what a step has looked up stays its until the step ends | `StepHoldsItsSlots` |
| | `ReadsOwnWeights` | every kernel reads the experts its layer chose, completely copied | `ServesExperts` |
| | `CensusSurvives` | a restart sees the last completed save | `SurvivesRestarts` |
| | `ArenaSound`, `SlotsSound` | the two halves of `ExpertsStayWhole`, of `ExpertArena` by itself | |
| | `ExpertsStayWhole` | tensors lie apart in the arena, and whole in a slot of whatever layer | part of `TensorsArrive` |
| | `WhatIsCleanArrives` | of any list of jobs every chunk arrives, save the last one a large tensor has in buffer 0 where there is a bias (finding 7) | `TensorsArrive` |
| `ServingProofs` | `ServerTypes` | types of the server | |
| | `OneAtATime` | engine and encoder work for the holder of `gen_mu` alone | `EngineIsExclusive` |
| | `FiguresAreOwn` | an answer carries the figures of its own generation, unless its prompt is empty (section 7, README.md:356) | `UsageIsOwn` |
| | `AtMostOneServer` | while every script holds the port's lock, can ask for the port and is not interrupted, there is one server at most (otherwise finding 6, and the row `helios_glm53_server.sh:45` of section 7) | `OneServer` |
| | `StopsMeanStopped` | where every script holds the port's lock, a stop that looked for strays has left no server, whatever was interrupted before, and one that did not none of its kind, if none was | `StopMeansStopped` |
| | `LengthIsTruncation` | an answer without a call is reported as `length` exactly if its budget or its context ran out | `LengthMeansTruncated` |
| | `GoneClientStopsDecoding` | the token at which a client turns out to be gone is the last one decoded | `GoneClientEndsDecoding` |
| | `PiecesDoNotShow` | for every text, any cuts and any markers, the parser emits what the reference reads in the whole text | `ChunkingInvisible` |
| | `EmittedIsCertain` | what the parser has emitted begins what every continuation is read to; what waits begins a marker | `EmitsWhatIsCertain` |
| | `StopsWhereStringEnds` | no token is sampled after a delta that ended the answer with a stop string | `StopsAtDeltaEnd` |
| | `ClientGetsEverything` | a client that stays gets every delta the parser made, in order, unless a stop string ended the answer | `StreamIsWhole` |
| | `RecentImagesStay` | the image cache counts exactly, stays within its budget, answers with what was stored last, and lets the least recently used go first | `KeepsTheRecent` |
| `KernelProofs` | `WaitsForWhatItNeeds` | no block is past its group's barrier before the group; every operation on a stream finds what was made for it | `NothingRunsAhead` |
| | `OneOrderOfSums` | an ended product is in every column the sum of all its tiles in the one order of its shape, and the locks are free | part of `SumsInFixedOrder` |
| | `EveryTokenItsExperts` | a launch of the experts gives every token the contributions of its own experts to this launch, in the order of its routing | part of `SumsInFixedOrder` |
| | `RoomSafe` | no call touches more of a buffer than was allocated for it | part of `FitsItsRoom` |

### The arguments

*The runner.* No single invariant is inductive: restoring a snapshot needs `SnapshotsSound` to re-establish
`ResidentSound`; cutting the resident sequence back needs `ResidentSound` up to the cut to keep `SnapshotsSound` of what
`prefix_discard_suffix` leaves; and a prefill in progress needs to know that what is already resident is a prefix of the prompt
it serves, images included. `IInv` joins the four. The lemmas under it are about the policy (`prefix_plan` only reuses where
tokens and images agree; a discarded suffix leaves exactly the snapshots at or before the cut), about rows (rows of a prefix
are a prefix of the rows), and then one per action of `Next`, which `NextInv` joins. `Refinement` maps the cached
state to that of `Cacheless` and shows every step to be one of its steps or a stutter.

*Checkpoints.* `CheckpointsKept` is not inductive by itself: it speaks of the end of a prefill, and what it says there was decided chunks before. `KeptInv` adds that the
newest snapshot is in a slot at any time (`NewestKept`), and that from the tail checkpoint on a slot holds it which is not the next to be overwritten (`TailKept`). The chunk loop stops
at every pool-aligned point it has to (`ChunkStops`), and after the tail's there is at most one more to come before the prompt ends, less than a pool further (`TailFacts`);
with one slot only, this needs an interval longer than a pool (`Roomy`), or else the prefill's last checkpoint takes the tail's place.

*Pools.* The ring of raw rows is shorter than the context: a call overwrites rows of the calls before it. `IndexInv` says that the rows of the pool that has only begun are still in it (`RingInv`) and that every
complete pool has its key of its own rows (`PoolsInv`). A call appends at most `MaxChunk` rows, and positions less than `MaxChunk + POOL_TOKENS` apart have slots of their own (`OwnRemainder`): so the rows a
call needs of the one before, at most a pool's, outlive its own.

*Two streams.* What the device will hold is not a function of what it holds now: commands are queued. `StreamInv` says that there *is* a sequence of contents, one before each
queued command, that leads from the contents of the device to the one the host believes in, such that each command finds what it was given to consume (`IsTrace`),
and that a capture is in one of three places (`Capturing`): none is under way; its copies to the stage are queued, in order and with nothing but kernels behind them, so that the contents at
each is what is to be captured (`Staging`); or the snapshot stream is moving the stage to the slot while only kernels run (`Storing`). The first action of each command drops the first
of the sequence (`ShiftTrace`), each action of the host adds to its end (`AppendTrace`). Without `snap_drain`'s wait (`Drained`) a restore could be queued in `Storing`, where its slot is half written.

*Slots.* `SlotsAccounted`, between steps, needs to know within a step that slots in use are exactly those marked busy, each for an expert that was requested (`StepIsHeld`), where the host
stands (`HostOK`), and that the pointer table agrees with the map (`TableFits`). `CopiesFit` relates memory to the map through the copies in flight: a slot holds its expert's slab or a copy is queued
that brings it, and as slots in use are never evicted, no queued copy is for another expert than the slot's present one. `KernelReadsItsExperts` takes from it that a kernel, launched after the copies were
synchronized, reads its own experts; that it refines `ExpertWeights` is then one step for each action. A by-product: `force_resident` (`runner.cpp:816`) never finds a slot to evict. It is called
only for experts whose request failed, and `StepIsHeld` says that all slots are then in use by the step (`ForceKeeps`).

*Census.* The temporary file is a prefix of the counters as they were saved, the file is whole at any step, and `rename` replaces it only by what was closed (`CensusInv`). `fclose` does not fail here: where it does, finding 2.

*Loader.* That everything has arrived at the end needs that every chunk of a job that was taken has arrived, is in flight or has a worker still to queue it (`ChunksOK`), and that a copy in flight finds in its
buffer what it was queued for (`CopiesOK`). The second is false once a bias is in the list: its conversion writes to the first buffer without waiting (finding 7). But a worker that brings a large tensor waits for a
buffer's event before it fills the buffer again, so all but the last chunk in it have been copied out before the worker can take another job (`Returns`, `LeftBehind`), and a bias is written to buffer 0 only.
What is exposed is therefore one chunk of each large tensor, the last one in buffer 0 (`LastThere`); `CopiesOK` and the theorem are about all others, of any list, and about all chunks where there is no bias.

*Arena and slots.* `ArenaInv` says that the layers that are planned end before the next one begins and within the arena; `PlanKeeps` shows it for a
layer that is appended, whatever its widths. That tensors are apart follows at three levels (`TensorsApart`): two layers by the invariant, two experts of
a layer because their slabs are of one length (`ProductSteps`), two tensors of an expert because each piece begins where the one before ends and
padding only adds (`TensorsFollow`). For the slots (`PlacesInv`) the stride of a slot is at least that of every layer planned, so a copy writes to no other slot, and a layer's offsets
are aligned (`OffsetsAligned`), so that the 16-byte loads of a kernel begin where the tensor does.

*Server.* A request is between taking and leaving `gen_mu` exactly if it holds it (`LockInv`); from its prefill on the runner's figures are its own (`FiguresInv`); and a connection is once in the list of
the workers (`JobsOnce`), without which two workers could be in one handler.

*Scripts.* A shell holds the lock of the port, or another, or none; the port's is held by one shell (`PortLock`), so as long as no script lapsed one script runs at a time. Where besides none was interrupted, what a
script knows of the servers at each of its places (`Attended`) holds: between scripts every server serves and is on file (`Settled`). An interruption breaks just this, which is what `second_server` shows, and a script under another lock makes
`PortLock` useless (section 7); `LauncherInv` therefore claims it only while there was neither (`Quiet`). What survives interruptions is `StopMeansStopped` of a stop that looks for strays:
it sees all processes, and while it holds the port's lock nobody starts one.

*Responses.* `LengthMeansTruncated` speaks of the end of an answer, when the reason is already a word. `CauseInv` says at each place of a generation
why it would end there: while it decodes, nothing has ended it and the budget has room for a token; after it, which of the ends was met first. The order in which `server.cpp`
asks matters, since several can be met by one token.

*Deliveries.* What the delivery checks for stop strings is not the text it has sent: the visible text grows by a delta's characters, and the stop strings are searched for in its tail only. `HeardInv` says that while a response
decodes the visible text is the content of all deltas so far, and none of them met a stop string; that the tail is long enough to meet any stop string that ends in the new characters is an induction over the characters of a delta,
and over the deltas of a piece. `SentInv` relates what was sent to what was told: an end of a turn is told and not sent, and it can only be the last delta of a piece
(`FeedStopsLast`), after which nothing is fed; `finish` tells no end of a turn (`FinishEndsNoTurn`), as the text it empties the buffer of holds none. So what was sent is what was told without the ends of turns (`WithoutStops`).

*Images.* `KeepsTheRecent` names the last use of each url by `CHOOSE`; `Recent` says the same so that a step can keep it: an entry is some use of its url, after which the url was not used again, and all that was
used after it is in front of it. That the list has each url once (`Once`) is what lets `find_if` stop at the first. `get` and `put` do one thing to the list (`Renewed`): a new front, behind it the former entries without
the one of that url, or a beginning of them, and `RenewedKeeps` follows where each entry came from. The count is a sum over the list, a recursive function known by `CHOOSE`, so its recursion is proved first (`TotalIs`);
then what an erased entry takes from it (`TotalWithout`) and a new one adds (`TotalInFront`), and that evicting ends at a list that leaves room, the empty one at the latest (`EvictedIs`).

*Parser.* What was emitted says nothing of a marker that has only begun. `TextInv` therefore relates the text fed so far to the buffer by *all* continuations: whatever text may follow, the reference reads in the whole what
was emitted followed by what it reads from the buffer on (`Accounts`). A piece only turns part of the continuation into buffer (`PieceArrives`). Then the parser drains: one pass of `drain`
either emits a delta and moves on as the reference does, or stops with a buffer that begins a marker (`IterationGoes`). The reference looks at one position at a time and the parser searches all of its buffer,
so the lemma needs that the first marker found is the one the reference meets first, which is so because none begins with another (`Window...`), and that what is held back contains each marker a cut may have gone through.
That the passes end, and what they add up to, is an induction over the length of the buffer (`DrainIterates`, `DrainGoes`); `finish` empties it (`FinishGoes`).
Recursive functions are only known by `CHOOSE`: that `Scan` and `Drain` satisfy their recursion is proved first (`ScanReads`, `DrainIterates`). As the provers cannot instantiate an operator,
induction is stated over *sets* of numbers (`Reaches`, `Downward`) and applied to the set of those for which the claim holds.

*Buffers.* `RoomInv` adds to `CallsFit` that the position is within the context. A call that is clamped has no more rows
than there is room for and ends within the context; then each buffer fits by itself (`ExtentsFit`): most are products in which one factor is
smaller (`ProductMonotone`), the scores need that the pools begun by the rows of a context are no more than `cap / 4 + 2` (`PoolsFit`). Without
the clamp of `run_chunk` (978) it is false. `FitsItsRoom`, which the run checks, states it together with the room for partial sums,
which is *not* enough for every chunk (finding 3), so it cannot be proved as a whole.

*The forward pass.* The host is several operations ahead of both devices, so `ReadsItsOwn`, which looks at an operation as it starts, follows from nothing that holds in the same state. Programs of the host are therefore
read as instructions, and a *place* is where they lead: what the named buffers will hold once all that is queued is done, the one stream that may have work, whether the layer has its slot. `Runs` says that a program gets from one place to
another with every operation finding what it is for, `Leads` that it does so from each place of a set. Each piece of a layer's program leads on to the next (`AttendLeads` to `ApplyLeads`), so a layer leads from where any layer may begin to where any may
begin (`LayerLeads`), dense or of experts, whatever the slot held. `WayInv` then says at every moment that at most one stream has work, which leads from the memory as it is to what the host believes in (`BringsTo`), and that the program that is left runs on from
there. A step of a stream drops the first of the queue, a step of the host takes an instruction off the program; a wait is where the place changes streams, and without it `WayInv` fails.

*The experts' barrier.* Blocks of a group leave a barrier one after the other, and the first may come to the next before the last has left. `GroupInv` says that there are a number of rounds, an expert and a phase such that each block either is in that
phase or has still to do the step that leads there (`Fits`), that the barrier counts those who came (`Counts`), and that the last one resets the count and turns the sense only when all others wait for just that. The sense has two values
only, but no block can be two rounds behind, as it is counted. A group's next expert is read from its slot by each block by itself; that they read the same is because the slot is written in the fifth phase only,
when nobody has the old one to read (`MoeDraws`). Around kernels the counts are 0 (`MoeLaunches`, `MoeRetires`), which the engine's reuse of them depends on.

*The experts' sums.* A ticket stands for the active expert of that rank, and `Claimed` finds it by a scan that a block resumes at its last expert; so tickets have to rise in a group, and no two may be for one expert
(`RankOnce`, `TicketsHaveExperts`). `RunInv` says of a running kernel that every active expert is complete, in the hand of a group (which works on it, or has drawn its ticket in the last phase), or not drawn yet, and then every group
still works and will come for a next ticket: so when all blocks have ended, every expert is complete. Complete means that each row of its span has the contribution of the route that was sorted there. A block has written its own share of the rows when it leaves the
last phase, so the expert is complete when the barrier opens behind it (`RunFlips`), and nobody overwrites it, as spans of two experts are apart (`SpansApart`). The last group to end resets the counter and the count of groups (`SchedOK`), without which
the next launch would skip experts. Before the kernel, every cursor is past the rows of its expert that are taken (`Cursors`) and within its span, so each route has a row to itself (`Placed`), which the reduction finds it by.

*A product's sums.* `SumsInOneOrder` looks at an ended product only; `SumInv` says what holds on the way. Blocks pass through a column in rounds, one per 16 rows, and without a barrier one block may be a round
ahead of another, which is when a lock left wrong would let it in too early. In every column there is therefore a round such that each block with a segment there has added it in this round if the lock has come up to its segment (`Upto`),
and in the round before if not (`ColumnOK`). Nobody holds a column but the block whose turn it is (`Alone`), because two segments have two turns; while nobody is between its
write and its release, the output is the chain of the segments up to the lock (`SumUpto`), and those of the rounds before are complete. That the turns make one chain over the whole
column is arithmetic of the deal: slices follow each other (`SlicesInOrder`), so the turns of two segments are apart (`OneFirst`), and some segment ends the column (`OneLast`).

TLC checked each invariant on the instance of its run before it was proved.

### Only model-checked

- Liveness (`PrefillEnds`, `StepEnds`, `EveryRequestAnswered`, `LaunchesEnd`): the proof system used here has no rules for fairness of actions (`ENABLED`).
- What other recursive computations yield for every input: UTF-8, tokenizer, chat template, sampler, the top-k selections, convolution, softmax and norms
  compare a scan or a fold with a definition by quantifiers. The induction theorems of the library have an operator as a parameter, which the provers cannot instantiate; the induction over sets
  of numbers with which the parser's is done would serve for these too, at some hundred steps each. Where the definition is a fold of the community modules, their parameter is an operator as well, and TLC is all there is.
- What the other kernels compute: of `SumsInFixedOrder` the tiles of a block and the product of few rows, which are folds; `RoutesTopK`; `AsByOneThread`; and of `FitsItsRoom` the room for partial sums.
- The half of `IndexSound` that is about short contexts (it counts with a fold).

## 6. Reading the models against the code

- One action is one atomic piece of the code as other actors see it. `prefill` is split at its chunks because captures and the
  context limit happen between them; a handler is split where it takes and leaves `gen_mu`; a kernel block is split at every
  access to memory that other blocks write.
- `PrefixCache` executes captures and restores at once; that the asynchronous copies of the code amount to this is what
  `SnapStreams` shows (`SettledAsBelieved`).
- `SlotMgr` models the CUDA copy of a slab as two halves that arrive at any moment until the event is synchronized.
- In `MoeKernel` the read of the barrier's sense and the arrival are one step: the sense cannot change before this block has
  arrived.
- Definitions marked as mutants in the modules are deliberate errors (a dropped guard, an off-by-one, a missing reset); none
  is used by a specification. Each shows that a property can fail.

## 7. Findings

Each is shown by a run that TLC ends with a counterexample.

1. `layer_major` (`runner.cpp:1505`): the layer-major prefill adds the rows already done twice, so the second super-chunk
   is written too far. The path is off by default (`HELIOS_LAYER_MAJOR`).
2. `census_disk_full` (`slotmgr.cpp:109`): `fclose`'s result is ignored; on a full disk a truncated census replaces the good one
   and is loaded without a word.
3. `partials_overflow` (`runner.cpp:136`): the workspace of partial sums is sized for a call of `--chunk` rows, but a call of fewer rows is
   cut into more blocks. With `--chunk 384` there is room for 384 * 1 * 32 floats, and 8 rows write 8 * 64 * 25, over `hc_post` and `hc_comb`
   behind it. By the same formula 9-12, 17-18, 24, 129-132, 171-199 and 257-398 are affected; the defaults are not.
4. `routing_race` (`routing.cu:268`): where the candidates of all warps do not fit one warp, each warp reads its share from
   shared memory and writes its best to the same memory without a barrier between. Warp 1 writes positions 8 to 15 and warp 2
   positions 16 to 23, which warp 0 may not have read yet. The engine's shape (288 experts, 8 of them per token: 72 candidates, three
   warps) takes this path. With up to four warps of 8 candidates it does not (`kernels` checks that shape).
5. `index_tail` (`attn.cu:318`): the last four rows are always attended to, and those of the last complete pools once more when
   these are selected; no mask drops the second one, as `attn.cuh:58` says one does.
6. `second_server` (`helios_glm53_server.sh:213`): a script that is interrupted after it has started a server and before the
   process id is in the file leaves a server nobody knows of; until that one listens, the check of the port sees nothing, and the next
   start starts a second, though line 211 says never to.
7. `loader_bias` (`model.cpp:529`): a router's bias is converted into the worker's first pinned buffer without waiting for its event, so the last chunk a large tensor left there may be overwritten before it is copied out.
   Nothing orders the copy and the write; in the checkpoints, whose large tensors come long before the biases, it takes a copy that is very late.

Statements of the sources that the code does not keep, met while modelling and not given a run of their own; the formulas
stand at the end of the modules named, and can be checked by naming them in the configuration of the module's run:

| Where | The source says | The code does | Formula |
|---|---|---|---|
| `prefix.hpp:16` | a resume must be a multiple of POOL_TOKENS | an extension resumes at any position (`prefix.hpp:56`); harmless, since the caches hold every row | `ResumeAligned` |
| README.md:337 | a repeated prompt replays 1-4 tokens | a prompt that extends the resident sequence past its own last boundary leaves no snapshot there (`runner.cpp:1456`), so resending it replays more | `ResendReplaysOnePool` |
| `runner.cpp:1468` | periodic aligned checkpoints | a prefill that resumes off the boundary beyond a due checkpoint captures nothing before its tail (`runner.cpp:1453`) | `PeriodicCheckpoints` |
| README.md:356 | responses report the reused prefix | an empty completion prompt returns before the figures are set (`runner.cpp:1539`), so it is answered with those of the request before it (`server.cpp:558`): `cached_tokens` above `prompt_tokens`, or `length` | `EveryUsageIsOwn` |
| `helios_glm53_server.sh:211` | never to start a second server on the same port | this launcher names its lock file from `PORT` of the environment (45) before it reads `--port` (68-100), the other one after its arguments (`helios_glm53flash_abl_server.sh:82`), and without `flock` there is no lock (185): two starts on one port may hold different locks and both find it free while a model loads, without any interruption. In the model this is a *lapse* | `NeverSecondServer` with `Mishaps` of `<<0, 0>>` and `<<0, 1>>` |
| `utf8.hpp:26` | always safe to put in a JSON string | the scan looks at the length a lead promises and the top bits of what follows (`utf8.hpp:18`, 37), so overlong sequences, surrogates and leads beyond Unicode leave as characters, and the serializer throws on them. As long as the model writes valid UTF-8 what leaves is valid (`EmitsSafeText`) | `AlwaysSafeInJson` |
| `slotmgr.cpp:196` | admission is two-touch | `moe_ffn` looks an expert up again in the step that streamed it in (`runner.cpp:811`), and that pins it | |
| `test_chat.cpp:140` | anything after a turn boundary must end the generation | a boundary inside a tool call is swallowed into the call (`chat.cpp:321`) | `BoundaryEndsTurn` |
| `server.cpp:227` | the caller can tell truncation from a natural end | an answer cut off inside a tool call reports `tool_calls` (`server.cpp:408`) | `TruncationIsReported` |
| `test_chat.cpp:112` | streaming gives the same aggregate | the delta that completes a stop string is in the response and not in the stream (`server.cpp:304`) | `StreamEqualsResponse` |
| `server.cpp:288` | text is kept for stop matching | a stop string that ends inside a delta is not seen (`server.cpp:302`) | `StopStringStops` |
| `server.cpp:80` | held bytes are emitted once their continuations arrive | a byte that starts no character holds everything after it (`utf8.hpp:33`) | `HeldMayComplete` |
| `utf8.hpp:45` | every malformed byte is replaced | a lead byte near the end takes the well-formed bytes after it along (`utf8.hpp:55`) | `SanitizeKeepsAscii` |
| `server.cpp:314` | a truncated final character must be replaced | the bytes held back when a generation ends are dropped (`server.cpp:316`) | `TailIsReplaced` |
| `tokenizer.cpp:1` | matches HF tokenizers output | `\s+(?!\S)` leaves a byte, not a character, to the next piece: a space of several bytes before a digit or punctuation is cut (`tokenizer.cpp:191`) | `MatchesHF` |
| `server.cpp:10` | httplib still serves other connections | as many waiting requests as workers leave `/health` waiting (`server.cpp:432`) | `ServesOthers` |
| `dsa_topk.cu:592` | tie order matches the legacy kernel exactly | rows whose spans hold exactly k scores are copied in the order of the row, not of the keys; unreachable from the engine, which passes `t_seq` (`runner.cpp:622`) | `MergeKeepsOrder` |
| `cache.cpp:10` | resume positions are pool-aligned, so a chunk never starts mid-group | an extension starts anywhere; harmless, since the ring has a pool of rows more than a chunk, which `IndexSound` needs | |
| `exl3_gemm_inner.cuh:58` | the static assertions admit every TILESIZE_K that is a multiple of 16 | with three or four groups of threads along k a group stores its sums (line 410 or 417) where another may still be taking the ones before: no barrier follows `add`. Unreachable: the kernels built have one or two groups (`exl3_kernel_map.cuh:73`, `exl3_moe_common.cuh:12`), which `PipelineAssumption` states | |
| `exl3_gemm.cu:218` | the kernels contain no grid-wide synchronisation, so a plain launch is a valid fallback | `exl3_gemm_kernel.cuh` 29 and 49 call `grid.sync()`, as the head of the same file says (12) | |

## 8. Limits of the models

- Arithmetic of the network is not modelled: a row, a sum and a logit are what they were computed from.
- CUDA is modelled by its documented ordering: in-order streams, events, asynchronous copies that may complete at any moment
  before a synchronization. Memory is sequentially consistent except for copies in flight.
- A machine crash (unsynced file data) is not modelled, only a killed process.
- `Forward` leaves out the dense fallback (`HELIOS_MOE_DENSE`), profiling and debugging switches, which add synchronizations; `WorkBuffers` has
  the buffers whose size is not that of one call by its form, and counts elements, not bytes.
- `SmallProduct` is always launched cooperatively; which of its configurations is taken, or whether the product goes to `SplitK`, is not modelled, and
  so is the plain launch that `exl3_gemm.cu` falls back to.
- `WorkBuffers` does not have what a call only reads: when the context is full and no multiple of 4, the scores kernel reads the key of the pool
  that was begun one row past its plane (`attn.cu:199`) and masks its score (`attn.cu:253`).
- `ExpertArena` has the width of a trellis and takes its other dimensions, and those of the scales, to be the layer's; a tensor that is missing or of another type
  has width 0. Copies are whole when they are seen: copies in flight are `SlotMgr`'s and `Loader`'s.
- Requests are decoded fields; refusing a malformed one is a nondeterministic choice.

## 9. Plan

Done: the runner and its prefix cache with proofs, the slot pool, the snapshot streams, the loader, the census, the text path, the
launcher scripts, the server, tokenizer, chat template and sampler, the forward pass and its buffers, the layout of the experts, the index of the sparse attention, the kernels whose blocks or warps wait for
each other, the recurrent layers, latent attention, hyper-connections, norms, rotations and the layouts of quantized weights. Next, in this order:

1. *Proofs*. Done: the runner with its snapshots, streams and refinement; the slot pool, census, arena and loader; server, launcher, responses, deliveries, parser and image cache; the pools of the index; the room of the buffers; the forward pass, the experts' barrier, tickets and sums, and the product of any rows. Next: `TilePipeline` (a stage that is read is whole, for every ring),
   `DeltaRule`; then the scans: UTF-8, tokenizer, top-k.
2. *The safetensors index* of the loader.
3. *Edges of the server*: parsing of requests (`server.cpp` 97-220), the pools of a device.

Not modelled and not planned: the arithmetic of the kernels, activations and element-wise kernels (no element takes part in another), the codebook of the trellis, the vision
encoder's process, third-party code, benchmarks and tests.
