----------------------------- MODULE SparseIndex -----------------------------
(***************************************************************************)
(* The rows a query of the sparse attention looks at (src/cuda/attn/attn.cu, *)
(* Cache in src/engine/cache.cpp).  Every POOL rows of indexer keys are      *)
(* folded into the key of a pool when the last of them is written; the rows  *)
(* themselves live in a ring that keeps little more than one call's.  A      *)
(* query scores the pools it may see, takes the best, and attends to their   *)
(* rows and to its own surroundings.                                        *)
(*                                                                         *)
(* A row is the token at its position; the key of a pool is the rows it was  *)
(* computed from.                                                          *)
(***************************************************************************)
EXTENDS Integers, Sequences, SequencesExt

CONSTANTS
  Token,
  POOL,         \* rows per pool: 4
  MaxChunk,     \* rows per call
  Cap,          \* rows of the context
  TopPools,     \* pools a query takes: 512
  Keys,         \* the keys of the scores of pools that may be seen
  NegInf,       \* the key of those that may not
  Select(_, _), \* dsa_topk: the best of a row of keys, by their places
  Stale         \* what memory holds before it is written

VARIABLES
  hist,         \* the tokens whose rows the planes hold
  ring,         \* idx_ring
  pools         \* pool_k_nt: the rows a pool's key was computed from

index == <<hist, ring, pools>>

-----------------------------------------------------------------------------
(* The ring and the pools.                                                 *)

\* Mutant: no room for the rows of a group that a call finds begun.
RawRowsTight == MaxChunk

\* raw_ring_rows; its least size of 16 only matters to tiny chunks.
RawRows == MaxChunk + POOL

Pools == 0..(Cap \div POOL - 1)

Row(h, pos) == <<pos, h[pos + 1]>>

Members(p) == [i \in 1..POOL |-> p * POOL + i - 1]

IndexInit ==
  /\ hist = <<>>
  /\ ring = [slot \in 0..(RawRows - 1) |-> Stale]
  /\ pools = [p \in Pools |-> [i \in 1..POOL |-> Stale]]

\* Mutant: a group is computed by the call that writes its first row.
CompletesEarly(p, from, to) == p * POOL \in from..to

\* kpool_write: the call that writes the last row of a group.
Completes(p, from, to) == p * POOL + POOL - 1 \in from..to

\* One call of the forward pass: its rows, and then the pools it completes.
Forward(new) ==
  LET h    == hist \o new
      from == Len(hist)
      to   == Len(h) - 1
  IN /\ to < Cap
     /\ hist' = h
     /\ ring' = [slot \in DOMAIN ring |->
                   IF \E pos \in from..to : pos % RawRows = slot
                   THEN Row(h, CHOOSE pos \in from..to : pos % RawRows = slot)
                   ELSE ring[slot]]
     /\ pools' = [p \in Pools |->
                    IF Completes(p, from, to)
                    THEN [i \in 1..POOL |-> ring'[Members(p)[i] % RawRows]]
                    ELSE pools[p]]

\* Mutant: the next request may begin inside a group.
ResumesAnywhere == 0..(Len(hist) - 1)

\* Where the next request may cut the rows back to: a snapshot's position, or
\* nothing at all.
Resumes == {pos \in 0..(Len(hist) - 1) : pos % POOL = 0}

Resume(pos) ==
  /\ hist' = SubSeq(hist, 1, pos)
  /\ UNCHANGED <<ring, pools>>

IndexNext ==
  \/ \E n \in 1..MaxChunk : \E new \in [1..n -> Token] : Forward(new)
  \/ \E pos \in Resumes : Resume(pos)

IndexSpec == IndexInit /\ [][IndexNext]_index
-----------------------------------------------------------------------------
(* A query.                                                                *)

NPools == (Len(hist) + POOL - 1) \div POOL

\* Mutant: a pool is seen with its first row.
VisibleEarly(p, cur) == p * POOL <= cur

\* indexer_score: a pool is seen once its last row is.
Visible(p, cur) == p * POOL + POOL - 1 <= cur

VisiblePools(cur) == {p \in 0..(NPools - 1) : Visible(p, cur)}

\* The scores the indexer gives at cur, whatever the weights make of them.
ScoreRows(cur) ==
  {row \in [1..NPools -> Keys \union {NegInf}] :
     \A p \in 0..(NPools - 1) : row[p + 1] # NegInf <=> Visible(p, cur)}

\* Mutant: the incomplete group only, and not its last row.
TailRowsOpen(cur) == [i \in 1..(cur % POOL) |-> cur - (cur % POOL) + i - 1]

\* The last POOL rows, forced in.
TailRows(cur) == LET n == Min({POOL, cur + 1}) IN [i \in 1..n |-> cur - n + i]

\* pool_expand_row: the rows of the pools that were selected, then the tail.
RawIdx(cur, row) ==
  LET best == Select(row, Min({TopPools, NPools}))
      rows == FlattenSeq([j \in DOMAIN best |-> Members(best[j] - 1)])
  IN SelectSeq(rows, LAMBDA tok : tok <= cur) \o TailRows(cur)

-----------------------------------------------------------------------------
(* Properties.                                                             *)

\* The key of every pool a query may see was computed from its own rows, as
\* they are now: whatever calls wrote them, wherever those began and ended, and
\* whatever longer or other sequence the ring and the pools have held before.
PoolKeysAreTheirRows ==
  \A p \in VisiblePools(Len(hist) - 1) :
    pools[p] = [i \in 1..POOL |-> Row(hist, Members(p)[i])]

\* A query attends to no row after it, and as long as it takes every pool it
\* may see, to every row up to its own: none is lost between the last complete
\* pool and the tail.
DenseWhenShort ==
  \A cur \in 0..(Len(hist) - 1) : \A row \in ScoreRows(cur) :
    LET rows == ToSet(RawIdx(cur, row))
    IN /\ rows \subseteq 0..cur
       /\ Cardinality(VisiblePools(cur)) <= TopPools => rows = 0..cur

\* attn.cuh:58 "tail tokens forced in (dedup handled by attention masking via
\* -1 markers)", and DESIGN-IMPL.md:25, where the tail is what the complete
\* pools leave: no row has two entries, each of which would weigh in the
\* softmax.
AttendsEachRowOnce ==
  \A cur \in 0..(Len(hist) - 1) : \A row \in ScoreRows(cur) : IsInjective(RawIdx(cur, row))
=============================================================================
