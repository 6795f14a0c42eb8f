----------------------------- MODULE WorkBuffers -----------------------------
(***************************************************************************)
(* The room a call has to work in (Runner::init and run_chunk in              *)
(* src/engine/runner.cpp, Cache::init in src/engine/cache.cpp).  Buffers are *)
(* allocated once, for the largest call and the whole context; layers of     *)
(* different widths share them, the scores of the index are made for a block *)
(* of rows at a time, and run_chunk cuts a call that the context has no room *)
(* for.  The room for the partial sums of hc_mix is HyperMix's.              *)
(*                                                                         *)
(* An extent is the number of elements from the beginning of a buffer to the *)
(* last one that is touched.                                               *)
(***************************************************************************)
EXTENDS Integers

CONSTANTS
  MaxChunks,    \* --chunk, the most rows of a call
  Caps,         \* --cap, the rows of the context
  IdxBlocks,    \* HELIOS_IDX_BLOCK: rows scored at a time
  Groups        \* moe_plan_.concurrency: experts that are worked on at a time

VARIABLES
  max_rows, cap, idx_block,     \* as the engine was started
  pos,          \* pos_
  extent        \* buffer -> extent of the last call

room == <<max_rows, cap, idx_block, pos, extent>>

LeastOf(a, b) == IF a < b THEN a ELSE b
MostOf(a, b)  == IF a < b THEN b ELSE a

POOL     == 4
TopPools == 512         \* pools a query takes
OwnExperts == 8           \* experts of a token
Hidden   == 4096
Heads    == 64
Latent   == 512

\* Columns of the widest product a buffer is used for.
Qkv   == 24576          \* kda_layer; mla_layer has 1536 and 512
AHad  == 16384          \* the output projection of mla_layer
Dense == 12288          \* dense_mlp; the shared expert has 2048

\* The scores of a row: pools begun by rows that are written.
NPools(rows) == (rows + POOL - 1) \div POOL

\* Elements allocated, of the buffers whose size is not the extent of one call of
\* max_rows rows by its form.
Room ==
  [qkv       |-> max_rows * 24576,
   a_had     |-> max_rows * 24576,
   mlp       |-> max_rows * 12288,
   scores    |-> idx_block * (cap \div POOL + 2),
   topk_idx  |-> max_rows * 512,
   raw_idx   |-> max_rows * (512 * POOL + 4),
   ckv       |-> cap * Latent,
   pool_k    |-> cap \div POOL,
   sorted    |-> max_rows * 8,
   moe_state |-> Groups * (max_rows * Hidden),
   streams   |-> 4 * (max_rows * Hidden)]

\* What a call of n rows at position at touches.  Rows are scored in blocks of
\* idx_block; an expert has no more rows than the call, and each group has a
\* place for the rows of one.
Extents(n, at) ==
  [qkv       |-> n * Qkv,
   a_had     |-> n * AHad,
   mlp       |-> n * Dense,
   scores    |-> LeastOf(n, idx_block) * NPools(at + n),
   topk_idx  |-> n * TopPools,
   raw_idx   |-> n * (TopPools * POOL + POOL),
   ckv       |-> (at + n) * Latent,
   pool_k    |-> (at + n) \div POOL,
   sorted    |-> n * OwnExperts,
   moe_state |-> (Groups - 1) * (max_rows * Hidden) + n * Hidden,
   streams   |-> 4 * (n * Hidden)]

NoCall == [b \in DOMAIN Room |-> 0]

-----------------------------------------------------------------------------

RoomInit ==
  /\ max_rows \in MaxChunks /\ cap \in Caps
  /\ \E b \in IdxBlocks : idx_block = LeastOf(MostOf(b, 16), max_rows)
  /\ pos = 0
  /\ extent = NoCall

\* Mutant: the caller is trusted.
ClampedNever(n) == n

\* run_chunk: the rows that are left of the context, of those that are asked for.
Clamped(n) == IF pos + n > cap THEN cap - pos ELSE n

RunChunk(n) ==
  /\ pos < cap
  /\ extent' = Extents(Clamped(n), pos)
  /\ pos' = pos + Clamped(n)
  /\ UNCHANGED <<max_rows, cap, idx_block>>

\* prefix_begin: the next request cuts the rows back to where it differs.
Resume(at) ==
  /\ pos' = at /\ extent' = NoCall
  /\ UNCHANGED <<max_rows, cap, idx_block>>

RoomNext ==
  \/ \E n \in 1..max_rows : RunChunk(n)
  \/ \E at \in 0..(pos - 1) : Resume(at)

RoomSpec == RoomInit /\ [][RoomNext]_room

-----------------------------------------------------------------------------
(* Properties.                                                             *)

\* runner.cpp:978 "writing there corrupts memory rather than failing cleanly": no
\* call touches more of a buffer than was allocated, however many rows it has,
\* wherever it begins and however little the context has left, with a context
\* that ends inside a pool and scores that are made in blocks.
CallsFit == \A b \in DOMAIN Room : extent[b] <= Room[b]
=============================================================================
