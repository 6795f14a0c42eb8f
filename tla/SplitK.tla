------------------------------- MODULE SplitK -------------------------------
(***************************************************************************)
(* The matrix product that thread blocks share without a barrier           *)
(* (exl3_gemm_kernel_inner in src/cuda/quant/exl3_gemm_inner.cuh).  The     *)
(* tiles of the weights are dealt out in one run per block, column after   *)
(* column, so a column is cut into segments of several blocks; one lock    *)
(* per column makes them add their parts up in one order, the last rows    *)
(* first.  Blocks repeat this for every 16 rows of input, in some kernels  *)
(* with a barrier of the whole grid between and in some without.           *)
(*                                                                         *)
(* A tile stands for its number of the row of tiles it is in, and a sum for *)
(* the sequence of the segments added into it: an addition of floats is    *)
(* commutative and not associative, the order decides the result.          *)
(***************************************************************************)
EXTENDS Integers, Sequences, FiniteSets

CONSTANTS
  Shapes,     \* [k, n: tiles, blocks, passes, barrier between passes]
  Stale       \* what the output holds before: it is not zeroed

ASSUME SplitKAssumption ==
  \A s \in Shapes : {s.k, s.n, s.blocks, s.passes} \subseteq Nat \ {0} /\ s.barrier \in BOOLEAN

VARIABLES
  shape,      \* of the product
  pc,         \* where each block is
  pass,       \* the pass each block is in
  col,        \* the column each block is in
  frag,       \* the sum each block has in its registers
  locks,      \* per column
  out         \* the output: a sum per pass and column

splitk == <<shape, pc, pass, col, frag, locks, out>>

Blocks == 0..(shape.blocks - 1)

-----------------------------------------------------------------------------
(* Slices.                                                                 *)

SliceBeg(b) == (shape.k * shape.n * b) \div shape.blocks
SliceEnd(b) == SliceBeg(b + 1)

Idle(b) == SliceBeg(b) = SliceEnd(b)

FirstCol(b) == SliceBeg(b) \div shape.k
LastCol(b)  == (SliceEnd(b) - 1) \div shape.k

\* The rows of tiles of the segment a block has in a column.
SegBeg(b, n) == IF n = FirstCol(b) THEN SliceBeg(b) % shape.k ELSE 0
SegEnd(b, n) == IF n = LastCol(b) THEN (SliceEnd(b) - 1) % shape.k ELSE shape.k - 1

Segment(b, n) == [from |-> SegBeg(b, n), to |-> SegEnd(b, n)]

\* What the lock counts up to before this segment, and by how much it does then.
LockI(b, n) == shape.k - SegEnd(b, n) - 1

LockD(b, n) == SegEnd(b, n) - SegBeg(b, n) + 1

IsFirst(b, n) == LockI(b, n) = 0

IsLast(b, n) == LockI(b, n) + LockD(b, n) = shape.k

-----------------------------------------------------------------------------
(* Steps of a block.                                                       *)

\* A block without tiles returns at once, and still takes part in barriers.
Entry(b) == IF Idle(b) THEN "leaves" ELSE "multiplies"

SplitKInit ==
  /\ shape \in Shapes
  /\ pc = [b \in Blocks |-> Entry(b)] /\ pass = [b \in Blocks |-> 1]
  /\ col = [b \in Blocks |-> FirstCol(b)] /\ frag = [b \in Blocks |-> <<>>]
  /\ locks = [n \in 0..(shape.n - 1) |-> 0]
  /\ out = [p \in 1..shape.passes |-> [n \in 0..(shape.n - 1) |-> <<Stale>>]]

Goes(b, from, to) == pc[b] = from /\ pc' = [pc EXCEPT ![b] = to]

\* Mutant: a segment that waits for any other before it, not for all.
IsTurnEarly(b) == locks[col[b]] > 0 \/ IsFirst(b, col[b])

IsTurn(b) == locks[col[b]] = LockI(b, col[b])

\* barrier_acquire(): the segment is multiplied, and the lock has come to it.
Acquire(b) ==
  /\ Goes(b, "multiplies", "reads") /\ IsTurn(b)
  /\ frag' = [frag EXCEPT ![b] = <<Segment(b, col[b])>>]
  /\ UNCHANGED <<shape, pass, col, locks, out>>

\* read_sum_gl(): all but the first add what is there.
ReadSum(b) ==
  /\ Goes(b, "reads", "writes")
  /\ frag' = IF IsFirst(b, col[b]) THEN frag
             ELSE [frag EXCEPT ![b] = out[pass[b]][col[b]] \o @]
  /\ UNCHANGED <<shape, pass, col, locks, out>>

WriteSum(b) ==
  /\ Goes(b, "writes", "releases")
  /\ out' = [out EXCEPT ![pass[b]][col[b]] = frag[b]]
  /\ UNCHANGED <<shape, pass, col, frag, locks>>

\* Mutant: the last segment counts on.
ReleasedOn(b, n) == locks[n] + LockD(b, n)

\* The lock after this segment: the last one leaves it as it was at first.
Released(b, n) == IF IsLast(b, n) THEN 0 ELSE locks[n] + LockD(b, n)

\* barrier_release(), and on to the next column.
Release(b) ==
  /\ Goes(b, "releases", IF col[b] < LastCol(b) THEN "multiplies" ELSE "leaves")
  /\ locks' = [locks EXCEPT ![col[b]] = Released(b, col[b])]
  /\ col' = [col EXCEPT ![b] = IF @ < LastCol(b) THEN @ + 1 ELSE @]
  /\ UNCHANGED <<shape, pass, frag, out>>

\* The end of a pass, and of the last one.
NextPass(bs) ==
  /\ pc' = [b \in Blocks |-> IF b \notin bs THEN pc[b]
                             ELSE IF pass[b] < shape.passes THEN Entry(b) ELSE "done"]
  /\ pass' = [b \in Blocks |-> IF b \in bs /\ pass[b] < shape.passes THEN pass[b] + 1 ELSE pass[b]]
  /\ col' = [b \in Blocks |-> IF b \in bs THEN FirstCol(b) ELSE col[b]]
  /\ UNCHANGED <<shape, frag, locks, out>>

Leave(b) == ~shape.barrier /\ pc[b] = "leaves" /\ NextPass({b})

\* grid.sync(): all blocks at once.
GridSync == shape.barrier /\ (\A b \in Blocks : pc[b] = "leaves") /\ NextPass(Blocks)

BlockStep(b) == Acquire(b) \/ ReadSum(b) \/ WriteSum(b) \/ Release(b) \/ Leave(b)

SplitKNext == GridSync \/ \E b \in Blocks : BlockStep(b)

\* The launch is cooperative: every block is on a multiprocessor and runs.
SplitKFairness == WF_splitk(GridSync) /\ \A b \in 0..7 : WF_splitk(b \in Blocks /\ BlockStep(b))

SplitKSpec == SplitKInit /\ [][SplitKNext]_splitk /\ SplitKFairness

-----------------------------------------------------------------------------
(* Properties.                                                             *)

ProductEnded == \A b \in Blocks : pc[b] = "done"

\* The blocks that have a segment in a column.
Sharers(n) == {b \in Blocks : ~Idle(b) /\ FirstCol(b) <= n /\ n <= LastCol(b)}

\* The sum of a column, its last rows first, stated by what the segments are
\* and not by how they are dealt out: they cover the column, without overlap.
Complete(n, s) ==
  /\ Len(s) = Cardinality(Sharers(n))
  /\ s[1].to = shape.k - 1 /\ s[Len(s)].from = 0
  /\ \A i \in 1..(Len(s) - 1) : s[i].from = s[i + 1].to + 1

\* docs/benchmarks/determinism-report.md: results are bitwise reproducible.  When
\* a product ends, every column of every pass is the sum of all its tiles, added
\* in the one order the shape gives, whatever the blocks did to each other; and
\* the locks are what the next launch, and the next pass, expects.
SumsInOneOrder ==
  ProductEnded => /\ \A p \in 1..shape.passes, n \in 0..(shape.n - 1) : Complete(n, out[p][n])
           /\ \A n \in DOMAIN locks : locks[n] = 0
=============================================================================
