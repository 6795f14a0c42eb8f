---------------------------- MODULE SmallProduct ----------------------------
(***************************************************************************)
(* The product of a few rows (exl3_gemv_kernel.cuh, launched by               *)
(* exl3_gemv_try_launch).  The warps of all blocks rotate the rows; a block   *)
(* takes a group of columns, its warps a part of the slices each, through a   *)
(* ring of registers that is filled ahead, and the parts are added up in      *)
(* shared memory, which the next group uses again; at last the warps of all   *)
(* blocks rotate the columns.                                              *)
(*                                                                         *)
(* A warp moves in lockstep.  A sum is the sequence of the slices in it.     *)
(***************************************************************************)
EXTENDS SequencesExt, Integers

CONSTANTS
  Products,     \* [slices, groups, rows, cols, warps, ring, fold, resident,
                \* in_segment, out_segment]: slices and columns of a segment that is
                \* rotated; blocks that fit the device at once
  Unrotated     \* a slice of a row that was not rotated once

VARIABLES
  product,      \* one of Products
  pc, group,    \* block -> warp -> where it is, and the columns it is at
  regs,         \* block -> warp -> registers: slices taken, the ring, half and full sums
  rotated,      \* segment of the rows -> how often it was rotated
  sh_red,       \* block -> warp -> sum
  c,            \* <<row, column>> -> sum
  final         \* segment of the columns -> the sums that were rotated

small == <<product, pc, group, regs, rotated, sh_red, c, final>>

NoSum == <<>>

AtMost(a, b)  == IF a < b THEN a ELSE b
CeilDiv(a, b) == (a + b - 1) \div b

WarpSet(p) == 0..(p.warps - 1)
Columns(p) == p.groups * p.cols

\* exl3_gemv_try_launch: no more blocks than are resident together.
Grid(p) == AtMost(p.groups, p.resident)

InSegments(p)  == CeilDiv(p.slices, p.in_segment)
OutSegments(p) == Columns(p) \div p.out_segment

-----------------------------------------------------------------------------
(* The registers of a warp.                                                 *)

\* Slices of a warp: myn of them from ks0 on.
Chunk(p)   == CeilDiv(p.slices, p.warps)
Mine(p, w) == IF w * Chunk(p) >= p.slices THEN 0 ELSE AtMost(Chunk(p), p.slices - w * Chunk(p))

\* Mutant: a register is filled with the slice that comes next.
RefilledEarly(p, i) == i + p.ring - 1

\* What the register that slice i was taken from is filled with.
Refilled(p, i) == i + p.ring

\* Slice i of all rows, of the columns of group g, as a warp finds it.
Slice(g, i) ==
  IF \A r \in 0..(product.rows - 1) :
       rotated[r * InSegments(product) + i \div product.in_segment] = 1
  THEN <<g, i>> ELSE Unrotated

EmptyRing(p) == [i |-> 0, pf |-> [d \in 0..(p.ring - 1) |-> d], half |-> <<>>, sum |-> NoSum]

-----------------------------------------------------------------------------

SmallInit ==
  /\ product \in Products
  /\ pc = [b \in 0..(Grid(product) - 1) |-> [w \in WarpSet(product) |-> "rotate"]]
  /\ group = [b \in DOMAIN pc |-> [w \in WarpSet(product) |-> b]]
  /\ regs = [b \in DOMAIN pc |-> [w \in WarpSet(product) |-> EmptyRing(product)]]
  /\ rotated = [s \in 0..(product.rows * InSegments(product) - 1) |-> 0]
  /\ sh_red = [b \in DOMAIN pc |-> [w \in WarpSet(product) |-> NoSum]]
  /\ c = [at \in (0..(product.rows - 1)) \X (0..(Columns(product) - 1)) |-> NoSum]
  /\ final = [s \in 0..(product.rows * OutSegments(product) - 1) |-> NoSum]

\* What a warp takes of n segments: a loop strided by the warps of all blocks.
Strided(b, w, n) ==
  {s \in 0..(n - 1) : s % (Grid(product) * product.warps) = b * product.warps + w}

Go(b, w, to) == pc' = [pc EXCEPT ![b][w] = to]

\* had_hf_r_128_inner on the rows.
RotateRows(b, w) ==
  /\ pc[b][w] = "rotate" /\ Go(b, w, "rotated")
  /\ rotated' = [s \in DOMAIN rotated |->
                   IF s \in Strided(b, w, product.rows * InSegments(product))
                   THEN rotated[s] + 1 ELSE rotated[s]]
  /\ UNCHANGED <<product, group, regs, sh_red, c, final>>

\* A group of columns: the ring is filled.
Prefetch(b, w) ==
  /\ pc[b][w] = "group" /\ group[b][w] < product.groups
  /\ regs' = [regs EXCEPT ![b][w] = EmptyRing(product)]
  /\ Go(b, w, "slices")
  /\ UNCHANGED <<product, group, rotated, sh_red, c, final>>

\* The next slice is taken, and its register filled again; products are half sums
\* until they are folded into the sum.
TakeSlice(b, w) ==
  LET n     == Mine(product, w)
      r     == regs[b][w]
      d     == r.i % product.ring
      half  == Append(r.half, Slice(group[b][w], w * Chunk(product) + r.pf[d]))
      folds == (d + 1) % product.fold = 0 \/ r.i + 1 = n
      later == Refilled(product, r.i)
  IN /\ pc[b][w] = "slices" /\ r.i < n
     /\ regs' = [regs EXCEPT ![b][w] =
          [i    |-> r.i + 1,
           pf   |-> IF later < n THEN [r.pf EXCEPT ![d] = later] ELSE r.pf,
           half |-> IF folds THEN <<>> ELSE half,
           sum  |-> IF folds THEN r.sum \o half ELSE r.sum]]
     /\ UNCHANGED <<product, pc, group, rotated, sh_red, c, final>>

\* The warp's part goes to shared memory.
Store(b, w) ==
  /\ pc[b][w] = "slices" /\ regs[b][w].i = Mine(product, w)
  /\ sh_red' = [sh_red EXCEPT ![b][w] = regs[b][w].sum]
  /\ Go(b, w, "stored")
  /\ UNCHANGED <<product, group, regs, rotated, c, final>>

\* Every thread adds up the parts of some columns of some rows, warp by warp.
Sum(b, w) ==
  LET g   == group[b][w]
      All == FlattenSeq([j \in 1..product.warps |-> sh_red[b][j - 1]])
      At(idx) == <<idx \div product.cols, g * product.cols + (idx % product.cols)>>
      mine == {idx \in 0..(product.rows * product.cols - 1) : idx % product.warps = w}
  IN /\ pc[b][w] = "sum"
     /\ c' = [at \in DOMAIN c |-> IF \E idx \in mine : At(idx) = at THEN All ELSE c[at]]
     /\ Go(b, w, "summed")
     /\ UNCHANGED <<product, group, regs, rotated, sh_red, final>>

Leave(b, w) ==
  /\ pc[b][w] = "group" /\ group[b][w] >= product.groups
  /\ Go(b, w, "left")
  /\ UNCHANGED <<product, group, regs, rotated, sh_red, c, final>>

\* Mutant: no barrier after the sums.
GoOnWhenSummed(b, at) ==
  LET there == {w \in WarpSet(product) : pc[b][w] = at}
  IN  IF at = "summed" \/ there = WarpSet(product) THEN there ELSE {}

\* __syncthreads: the warps of a block that go on.
GoOn(b, at) ==
  LET there == {w \in WarpSet(product) : pc[b][w] = at}
  IN  IF there = WarpSet(product) THEN there ELSE {}

SyncThreads(b) ==
  \E at \in {"stored", "summed"} :
    LET ws == GoOn(b, at)
    IN /\ ws # {}
       /\ pc' = [pc EXCEPT ![b] = [w \in WarpSet(product) |->
            IF w \in ws THEN (IF at = "stored" THEN "sum" ELSE "group") ELSE @[w]]]
       /\ group' = [group EXCEPT ![b] = [w \in WarpSet(product) |->
            IF w \in ws /\ at = "summed" THEN @[w] + Grid(product) ELSE @[w]]]
       /\ UNCHANGED <<product, regs, rotated, sh_red, c, final>>

\* grid.sync, of all blocks.
GridSync ==
  \E at \in {"rotated", "left"} :
    /\ \A b \in DOMAIN pc, w \in WarpSet(product) : pc[b][w] = at
    /\ pc' = [b \in DOMAIN pc |->
                [w \in WarpSet(product) |-> IF at = "rotated" THEN "group" ELSE "columns"]]
    /\ UNCHANGED <<product, group, regs, rotated, sh_red, c, final>>

\* The columns of a segment of a row.
Segment(s) ==
  LET first == (s % OutSegments(product)) * product.out_segment
  IN  [i \in 1..product.out_segment |-> <<s \div OutSegments(product), first + i - 1>>]

\* had_ff_r_128_inner, or had_hf, on the columns, in place.
RotateColumns(b, w) ==
  LET mine == Strided(b, w, product.rows * OutSegments(product))
  IN /\ pc[b][w] = "columns" /\ Go(b, w, "ended")
     /\ final' = [s \in DOMAIN final |->
          IF s \in mine
          THEN final[s] \o [i \in 1..product.out_segment |-> c[Segment(s)[i]]] ELSE final[s]]
     /\ UNCHANGED <<product, group, regs, rotated, sh_red, c>>

WarpStep(b, w) ==
  \/ RotateRows(b, w)
  \/ Prefetch(b, w) \/ TakeSlice(b, w) \/ Store(b, w) \/ Sum(b, w) \/ Leave(b, w)
  \/ RotateColumns(b, w)

SmallNext ==
  \/ \E b \in DOMAIN pc : SyncThreads(b) \/ \E w \in WarpSet(product) : WarpStep(b, w)
  \/ GridSync

SmallSpec == SmallInit /\ [][SmallNext]_small /\ WF_small(SmallNext)

-----------------------------------------------------------------------------
(* Properties.                                                             *)

SmallEnded == \A b \in DOMAIN pc, w \in WarpSet(product) : pc[b][w] = "ended"

\* Every column of every row is the sum of all slices of that row, each once, in
\* one order whichever warp is ahead, of rows that were rotated; and is whole when
\* the segment it is in is rotated, once.
SumsItsSlices ==
  SmallEnded =>
    \A s \in DOMAIN final :
      final[s] = [i \in 1..product.out_segment |->
                    [k \in 1..product.slices |-> <<Segment(s)[i][2] \div product.cols, k - 1>>]]
=============================================================================
