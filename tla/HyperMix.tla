------------------------------ MODULE HyperMix ------------------------------
(***************************************************************************)
(* The hyper-connections around every layer (hc_mix.cu): hc_mix reduces all  *)
(* streams of a row to a few factors and mixes the streams by them into what *)
(* the layer sees, hc_apply adds what the layer made of it to the streams.   *)
(* Three kernels cut the columns of a row among blocks and threads, four at  *)
(* a time; how many blocks depends on the number of rows.                   *)
(*                                                                         *)
(* A sum is the sequence of its terms, or, in the butterflies of a warp, the *)
(* set of its two halves.                                                  *)
(***************************************************************************)
EXTENDS SequencesExt, Integers

CONSTANTS
  Dims,         \* shapes: [width, threadsA, threads, warp, blocksA, workA,
                \* blocksC, workC], the last four the limits of a grid
  Rows,         \* numbers of rows
  MaxChunks     \* --chunk, the most rows of a call

VARIABLES
  dims,         \* of the engine
  max_chunk,
  rows,         \* of the call
  site          \* what one site of a layer summed and wrote, or NoSite

mixing == <<dims, max_chunk, rows, site>>

NoSite  == <<>>
Vec     == 4                \* float4
Streams == 4                \* H
Factors == 2 * Streams + Streams * Streams

AtLeast(a, b) == IF a < b THEN b ELSE a
AtMost(a, b)  == IF a < b THEN a ELSE b
CeilDiv(a, b) == (a + b - 1) \div b
RoundUp(a, b) == CeilDiv(a, b) * b

RowLen(d) == Streams * d.width

\* Columns of a block: hc_mix_launch, hc_mix_num_chunks, hc_apply.
ColumnsA(d, chunks) == RoundUp(RowLen(d) \div chunks, Vec * d.threadsA)
ColumnsC(d, r) ==
  RoundUp(d.width \div AtMost(d.blocksC, AtLeast(1, d.workC \div r)), Vec * d.threads)

NumChunks(d, r) ==
  CeilDiv(RowLen(d), ColumnsA(d, AtMost(d.blocksA, AtLeast(1, d.workA \div r))))

ChunkColumns(d, r) == ColumnsA(d, NumChunks(d, r))
ChunksA(d, r)      == CeilDiv(RowLen(d), ChunkColumns(d, r))
ChunksC(d, r)      == CeilDiv(d.width, ColumnsC(d, r))

\* A loop from first below end.
Strided(first, step, end) ==
  [k \in 1..CeilDiv(AtLeast(end - first, 0), step) |-> first + step * (k - 1)]

\* What thread t of n takes of the columns of block b.
Share(b, columns, all, t, n) ==
  Strided((b * columns) \div Vec + t, n, AtMost((b + 1) * columns, all) \div Vec)

\* What all threads (warps, blocks) take, one after the other.
Together(shares) ==
  FlattenSeq([k \in 1..Cardinality(DOMAIN shares) |-> shares[k - 1]])

-----------------------------------------------------------------------------
(* hc_mix_partials_kernel and the head of hc_mix_finalize_kernel.           *)

Partial(d, r, b) ==
  Together([t \in 0..(d.threadsA - 1) |->
              Share(b, ChunkColumns(d, r), RowLen(d), t, d.threadsA)])

\* Every warp adds up every so-manieth partial sum, then they are added.
PartialsInOrder(d, r) ==
  LET warps == d.threads \div d.warp
  IN  Together([w \in 0..(warps - 1) |-> Strided(w, warps, ChunksA(d, r))])

Reduced(d, r) ==
  LET order == PartialsInOrder(d, r)
  IN  FlattenSeq([i \in DOMAIN order |-> Partial(d, r, order[i])])

\* Mutant: those that stand in for the first warp keep their stride.
KeepsStride(d, b) == d.threads

\* In the first block the first warp has left for the normalization.
Others(d, b) == IF b = 0 THEN d.threads - d.warp ELSE d.threads

Collapse(d, r, b) ==
  LET gone == IF b = 0 THEN d.warp ELSE 0
  IN  Together([t \in 0..(d.threads - 1) |->
        IF t < gone THEN <<>> ELSE Share(b, ColumnsC(d, r), d.width, t - gone, Others(d, b))])

Apply(d, r, b) ==
  Together([t \in 0..(d.threads - 1) |-> Share(b, ColumnsC(d, r), d.width, t, d.threads)])

\* __shfl_xor_sync over some strides: lane 4 * i + j holds element i, j.
Butterfly(strides) ==
  LET Partner(lane, o) == IF (lane \div o) % 2 = 0 THEN lane + o ELSE lane - o
      Exchange(v, o) == [lane \in DOMAIN v |-> {v[lane], v[Partner(lane, o)]}]
  IN  FoldLeft(Exchange, [lane \in 0..(Streams * Streams - 1) |-> {lane}], strides)

StridesOfRow    == <<1, 2>>
StridesOfColumn == <<4, 8>>

-----------------------------------------------------------------------------

MixInit ==
  /\ dims \in Dims /\ max_chunk \in MaxChunks
  /\ rows \in {r \in Rows : r <= max_chunk}
  /\ site = NoSite

\* Floats that Runner::init allocates: 32 for each partial sum of a whole chunk.
Workspace == RoundUp(max_chunk * NumChunks(dims, max_chunk) * 32, 64)

\* hc_mix, which refuses when there are more partial sums than it was told,
\* the layer, and hc_apply.
MixAndApply ==
  LET blocks == 0..(ChunksC(dims, rows) - 1)
  IN /\ site = NoSite
     /\ ChunksA(dims, rows) <= NumChunks(dims, rows)
     /\ site' = [written   |-> rows * ChunksA(dims, rows) * (Factors + 1),
                 reduced   |-> Reduced(dims, rows),
                 collapsed |-> Together([b \in blocks |-> Collapse(dims, rows, b)]),
                 applied   |-> Together([b \in blocks |-> Apply(dims, rows, b)]),
                 rowSum    |-> Butterfly(StridesOfRow),
                 columnSum |-> Butterfly(StridesOfColumn)]
     /\ UNCHANGED <<dims, max_chunk, rows>>

MixNext == MixAndApply

MixSpec == MixInit /\ [][MixNext]_mixing

-----------------------------------------------------------------------------
(* Properties.                                                             *)

OnceEach(seq, n) == ToSet(seq) = 0..(n - 1) /\ Len(seq) = n

\* For every number of rows, and so of blocks: each column of each stream is
\* reduced once, each column of what the layer sees is written once although a
\* warp has left, each column of the streams is updated once in place, and all
\* lanes of a row (of a column) of the mixing matrix hold one sum, bit for bit.
EachColumnOnce ==
  site # NoSite =>
    /\ OnceEach(site.reduced, RowLen(dims) \div Vec)
    /\ OnceEach(site.collapsed, dims.width \div Vec)
    /\ OnceEach(site.applied, dims.width \div Vec)
    /\ \A l, m \in DOMAIN site.rowSum :
         /\ (site.rowSum[l] = site.rowSum[m]) <=> (l \div Streams = m \div Streams)
         /\ (site.columnSum[l] = site.columnSum[m]) <=> (l % Streams = m % Streams)

\* hc_mix.cuh:9 "the caller sizes the partials workspace to R * chunks * (M + 1)
\* floats": no call of up to max_chunk rows writes more than there is room for.
PartialsFit == site # NoSite => site.written <= Workspace
=============================================================================
