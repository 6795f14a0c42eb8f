------------------------------- MODULE Kernels -------------------------------
(***************************************************************************)
(* The kernels of a layer: the matrix product (SplitK) and what a block of   *)
(* it does in its slice (TilePipeline), the product of a few rows             *)
(* (SmallProduct), where a quantized weight is found (Trellis), the rotations *)
(* (Hadamard), the norms (RowNorm), the choice of the experts (RoutingTopK),  *)
(* their fused kernel (MoeKernel), the recurrent layer (DeltaRule), attention *)
(* over rows (LatentAttention) and the mixing of the streams around every     *)
(* layer (HyperMix); and what the host launches on which stream and waits for *)
(* (Forward), and the room operands have (WorkBuffers).  A stream runs its    *)
(* kernels one after another, so one of them moves in each behaviour; the     *)
(* memory they keep between launches (DevCtx's locks, the recurrent state) is *)
(* disjoint.                                                                  *)
(***************************************************************************)
EXTENDS SplitK, FiniteSetsExt

CONSTANTS
  Lanes, NTop, KeyRows,     \* those of RoutingTopK
  Plans, TopK, NExperts, MaxTokens, SMs, Concurrency, Width, MaxWidth,  \* those of MoeKernel
  K, Parts, MaxRows, MaxCall,   \* those of DeltaRule
  NWarps, Scores, Lists,        \* those of LatentAttention
  Dims, Rows, MaxChunks,        \* those of HyperMix
  Slices, Torn,                 \* those of TilePipeline
  Layers, Slots, Calls,         \* those of Forward
  Chunks, Caps, IdxBlocks, Groups,  \* those of WorkBuffers
  Products, Unrotated,          \* those of SmallProduct
  Widths, Tiles,                \* those of Trellis
  HadLanes, Ones,               \* those of Hadamard
  NormCalls, NormLanes, NormThreads  \* those of RowNorm

\* What routing_ds3_launch asks of a launch; a warp writes its candidates with
\* as many lanes.
ASSUME RoutingAssumption ==
  /\ NTop \in 1..Lanes
  /\ \A r \in KeyRows :
       LET n == Cardinality(DOMAIN r) IN NTop <= n /\ r \in [0..(n - 1) -> Nat]

ASSUME DeltaAssumption == {K, Parts, MaxRows, MaxCall} \subseteq Nat \ {0}

\* An index list holds rows that are there, and -1.
ASSUME AttentionAssumption ==
  /\ NWarps \in Nat \ {0}
  /\ \A s \in Scores : DOMAIN s = 0..(Cardinality(DOMAIN s) - 1)
  /\ \A l \in Lists, s \in Scores : \A i \in DOMAIN l : l[i] \in DOMAIN s \union {-1}

\* hc_mix.cu takes four columns at a time, and finalize has warps to lose.
ASSUME MixAssumption ==
  /\ Rows \union MaxChunks \subseteq Nat \ {0}
  /\ \A d \in Dims : d.width % 4 = 0 /\ d.threads % d.warp = 0 /\ d.warp < d.threads

\* cp_async_wait leaves a copy to wait for; threadblock_reduce() is of two groups
\* (exl3_kernel_map.cuh:68, exl3_moe_common.cuh:12).
ASSUME PipelineAssumption ==
  \A s \in Slices : s.stages > 2 /\ s.frags > 1 /\ s.subs \in 1..2 /\ s.beg < s.k /\ s.len > 0

\* Every launcher script starts the engine with a chunk of some rows.
ASSUME RoomAssumption ==
  /\ Chunks \subseteq Nat \ {0} /\ Caps \subseteq Nat /\ IdxBlocks \subseteq Int
  /\ Groups \in Nat \ {0}

\* exl3_gemv_try_launch: a segment is rotated whole; FOLD divides PF.
ASSUME SmallAssumption ==
  \A p \in Products :
    /\ {p.slices, p.groups, p.rows, p.cols, p.warps, p.resident} \subseteq Nat \ {0}
    /\ p.ring % p.fold = 0
    /\ (p.groups * p.cols) % p.out_segment = 0

\* Two tiles of two bits are loaded at a time.
ASSUME TrellisAssumption == Widths \subseteq 1..8 /\ Tiles % 2 = 0 /\ Tiles > 0

\* Warps of a power of two, to squares of whole tiles.
ASSUME HadamardAssumption ==
  /\ HadLanes \in {4, 8, 16, 32}
  /\ Ones \subseteq (0..(4 * HadLanes - 1)) \X (0..(4 * HadLanes - 1))

\* norm.cu's blocks have as many warps as a warp has threads; a gated norm is not
\* done in place.
ASSUME NormAssumption ==
  /\ NormLanes \in Nat \ {0} /\ NormThreads = NormLanes * NormLanes
  /\ \A n \in NormCalls : n.columns \in Nat \ {0} /\ (n.mode \in {"gate_first", "gate_last"} => ~n.in_place)

VARIABLES
  kernel,       \* the kernel that runs: one of KernelNames
  keys, choice, ncand, sh, held, step,  \* those of RoutingTopK
  plan, stage, launches, ids, cursor, place, row, contrib, y, next, retired, slot,
  arrived, sense, block,  \* those of MoeKernel
  consumed, window, conv, progress, red, shared, partial, dot1, dot2, recurrent, core,
                        \* those of DeltaRule
  score, list, output,  \* those of LatentAttention
  dims, max_chunk, rows, site,  \* those of HyperMix
  slice, at, left, copies, ring, frags, acc, sh_c, summed,  \* those of TilePipeline
  call, layer, todo, queue, running, memory, map,   \* those of Forward
  max_rows, cap, idx_block, pos, extent,            \* those of WorkBuffers
  product, warps, columns, regs, rotated, sh_red, sums, final,  \* those of SmallProduct
  bits, path, words, states,                        \* those of Trellis
  form, one, phase, stile, rotation,                \* those of Hadamard
  norm, within_norm, mem, x4, norm_sums             \* those of RowNorm

Routing   == INSTANCE RoutingTopK WITH stage <- choice
Moe       == INSTANCE MoeKernel
Delta     == INSTANCE DeltaRule WITH rows <- consumed, keys <- shared, out <- core
Attention == INSTANCE LatentAttention
Mix       == INSTANCE HyperMix
Pipeline  == INSTANCE TilePipeline
Way       == INSTANCE Forward
Work      == INSTANCE WorkBuffers WITH MaxChunks <- Chunks
Small     == INSTANCE SmallProduct WITH pc <- warps, group <- columns, c <- sums
Tile      == INSTANCE Trellis
Rotation  == INSTANCE Hadamard WITH rotated <- rotation
Row       == INSTANCE RowNorm WITH pc <- within_norm, sums <- norm_sums

\* The routes of a launch are TopK per token, and an expert has no more of them than
\* its buffer has rows (runner.cpp:154).  exl3_moe.cu:115: a launch with every group
\* fits the device.
ASSUME MoeAssumption == Moe!SizesAssumed

\* The first token is embedded on every device's way through some layer; the pool
\* is memory of its own.
ASSUME ForwardAssumption ==
  /\ Layers \in Seq({"dense", "moe"}) /\ Layers # <<>> /\ Slots # {} /\ Calls \in Nat \ {0}
  /\ Slots \intersect Way!Named = {}

KernelNames == {"gemm", "routing", "moe", "delta", "attention", "mixing", "pipeline",
                "forward", "room", "small", "trellis", "hadamard", "norm"}

routing == <<keys, choice, ncand, sh, held, step>>
moe == <<plan, stage, launches, ids, cursor, place, row, contrib, y, next, retired, slot,
         arrived, sense, block>>
delta == <<consumed, window, conv, progress, red, shared, partial, dot1, dot2, recurrent, core>>
attention == <<score, list, output>>
mixing == <<dims, max_chunk, rows, site>>
pipeline == <<slice, at, left, copies, ring, frags, acc, sh_c, summed>>
forward == <<call, layer, todo, queue, running, memory, map>>
room == <<max_rows, cap, idx_block, pos, extent>>
within == <<splitk, routing, moe, delta, attention, mixing, pipeline>>
small == <<product, warps, columns, regs, rotated, sh_red, sums, final>>
trellis == <<bits, path, words, states>>
hadamard == <<form, one, phase, stile, rotation>>
rownorm == <<norm, within_norm, mem, x4, norm_sums>>
around == <<forward, room, small, trellis, hadamard, rownorm>>
kernels == <<kernel, within, around>>

\* Those that do not run are at any of their beginnings.
KernelsInit ==
  /\ kernel \in KernelNames
  /\ SplitKInit          /\ (kernel # "gemm" => shape = CHOOSE s \in Shapes : TRUE)
  /\ Routing!RoutingInit /\ (kernel # "routing" => keys = CHOOSE r \in KeyRows : TRUE)
  /\ Moe!MoeInit         /\ (kernel # "moe" => plan = CHOOSE p \in Plans : TRUE)
  /\ Delta!DeltaInit
  /\ Attention!AttentionInit /\ (kernel # "attention" => score = CHOOSE s \in Scores : TRUE)
  /\ Mix!MixInit /\ (kernel # "mixing" =>
       dims = (CHOOSE d \in Dims : TRUE) /\ max_chunk = Max(MaxChunks) /\ rows = Min(Rows))
  /\ Pipeline!PipelineInit /\ (kernel # "pipeline" => slice = CHOOSE s \in Slices : TRUE)
  /\ Way!ForwardInit
  /\ Work!RoomInit /\ (kernel # "room" =>
       max_rows = Min(Chunks) /\ cap = Min(Caps) /\ idx_block = Min(Chunks))
  /\ Small!SmallInit /\ (kernel # "small" => product = CHOOSE p \in Products : TRUE)
  /\ Tile!TrellisInit /\ (kernel # "trellis" => bits = Min(Widths) /\ path = "unpack")
  /\ Rotation!HadInit /\ (kernel # "hadamard" => form = "vector" /\ one = <<0, 0>>)
  /\ Row!NormInit /\ (kernel # "norm" => norm = CHOOSE n \in NormCalls : TRUE)

Gemm(A) ==
  /\ kernel = "gemm" /\ A
  /\ UNCHANGED <<kernel, routing, moe, delta, attention, mixing, pipeline, around>>
Routes(A) ==
  /\ kernel = "routing" /\ A
  /\ UNCHANGED <<kernel, splitk, moe, delta, attention, mixing, pipeline, around>>
Experts(A) ==
  /\ kernel = "moe" /\ A
  /\ UNCHANGED <<kernel, splitk, routing, delta, attention, mixing, pipeline, around>>
Recurs(A) ==
  /\ kernel = "delta" /\ A
  /\ UNCHANGED <<kernel, splitk, routing, moe, attention, mixing, pipeline, around>>
Attends(A) ==
  /\ kernel = "attention" /\ A
  /\ UNCHANGED <<kernel, splitk, routing, moe, delta, mixing, pipeline, around>>
Mixes(A) ==
  /\ kernel = "mixing" /\ A
  /\ UNCHANGED <<kernel, splitk, routing, moe, delta, attention, pipeline, around>>
Fills(A) ==
  /\ kernel = "pipeline" /\ A
  /\ UNCHANGED <<kernel, splitk, routing, moe, delta, attention, mixing, around>>
Passes(A) ==
  /\ kernel = "forward" /\ A /\ UNCHANGED <<kernel, within, room, small, trellis, hadamard, rownorm>>
Works(A) ==
  /\ kernel = "room" /\ A /\ UNCHANGED <<kernel, within, forward, small, trellis, hadamard, rownorm>>
Multiplies(A) ==
  /\ kernel = "small" /\ A /\ UNCHANGED <<kernel, within, forward, room, trellis, hadamard, rownorm>>
Decodes(A) ==
  /\ kernel = "trellis" /\ A /\ UNCHANGED <<kernel, within, forward, room, small, hadamard, rownorm>>
Rotates(A) ==
  /\ kernel = "hadamard" /\ A /\ UNCHANGED <<kernel, within, forward, room, small, trellis, rownorm>>
Scales(A) ==
  /\ kernel = "norm" /\ A /\ UNCHANGED <<kernel, within, forward, room, small, trellis, hadamard>>

KernelsNext ==
  \/ Gemm(SplitKNext)
  \/ Routes(Routing!RoutingNext)
  \/ Experts(Moe!MoeNext)
  \/ Recurs(Delta!DeltaNext)
  \/ Attends(Attention!AttentionNext)
  \/ Mixes(Mix!MixNext)
  \/ Fills(Pipeline!PipelineNext)
  \/ Passes(Way!ForwardNext)
  \/ Works(Work!RoomNext)
  \/ Multiplies(Small!SmallNext)
  \/ Decodes(Tile!TrellisNext)
  \/ Rotates(Rotation!HadNext)
  \/ Scales(Row!NormNext)

\* Every block of a launch has a multiprocessor and runs, and so does the host;
\* a device runs what is on its streams.
KernelsFairness ==
  /\ WF_kernels(Gemm(GridSync))
  /\ \A b \in 0..7 : WF_kernels(Gemm(b \in Blocks /\ BlockStep(b)))
  /\ WF_kernels(Experts(Moe!MoeHost))
  /\ \A g \in 0..(Concurrency - 1), b \in 0..(MaxWidth - 1) : WF_kernels(Experts(Moe!BlockStep(g, b)))
  /\ WF_kernels(Fills(Pipeline!PipelineNext))
  /\ WF_kernels(Passes(Way!HostStep))
  /\ \A s \in Way!Streams : WF_kernels(Passes(Way!Begin(s) \/ Way!End(s)))
  /\ WF_kernels(Multiplies(Small!SmallNext))

KernelsSpec == KernelsInit /\ [][KernelsNext]_kernels /\ KernelsFairness

-----------------------------------------------------------------------------
(* Properties: what the kernels say of their states and of their ends.      *)

\* Blocks that race each other add up a column, and the experts of a token, in
\* one order in every run; so do the threads of a block the tiles of its slice,
\* each once and whole.
SumsInFixedOrder ==
  /\ kernel = "gemm" => SumsInOneOrder
  /\ kernel = "moe" => Moe!SumsInRoutingOrder
  /\ kernel = "pipeline" => Pipeline!SumsItsTiles
  /\ kernel = "small" => Small!SumsItsSlices

\* The experts of a token are the best, in order.
RoutesTopK == kernel = "routing" => Routing!RoutesTopK

\* Nothing goes ahead of what it needs: a block goes through the group barrier only
\* with its group; an operation on a stream finds what was made for it, in buffers
\* that nobody else is at, however far the host is ahead of the devices.
NothingRunsAhead ==
  /\ kernel = "moe" => Moe!GroupInStep
  /\ kernel = "forward" => Way!ReadsItsOwn

\* What warps and threads do together is what one of them would do alone: each
\* part of the recurrent state consumes each row once, in order; the online
\* softmax over rows shared by warps is the softmax; each column of the streams is
\* summed and written once; every lane finds the weights of a tile; a rotation is
\* the same matrix on every vector, and a row is scaled by its whole sum.
AsByOneThread ==
  /\ kernel = "delta" => Delta!ConsumesEachRow
  /\ kernel = "attention" => Attention!AttentionIsSoftmax
  /\ kernel = "mixing" => Mix!EachColumnOnce
  /\ kernel = "trellis" => Tile!EachWeightItsState
  /\ kernel = "hadamard" => Rotation!RotatesBySylvester
  /\ kernel = "norm" => Row!NormsWholeRow

\* No call touches more of a buffer than was allocated for it when the engine was
\* started.
FitsItsRoom ==
  /\ kernel = "mixing" => Mix!PartialsFit
  /\ kernel = "room" => Work!CallsFit

\* Every launch ends.  A block that waits for a column waits for blocks that run,
\* with and without barriers between passes; the scheduler and the barriers of a
\* launch of the experts serve the next one; the threads of a block come to the
\* same barriers, none waits alone; and the host never waits for a stream that has
\* nothing to do.
LaunchesEnd ==
  <>(/\ kernel = "gemm" => ProductEnded
     /\ kernel = "moe" => Moe!LaunchesEnded
     /\ kernel = "pipeline" => Pipeline!PipelineEnded
     /\ kernel = "forward" => Way!ForwardEnded
     /\ kernel = "small" => Small!SmallEnded)
=============================================================================
