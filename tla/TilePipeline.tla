---------------------------- MODULE TilePipeline ----------------------------
(***************************************************************************)
(* One block of the shared matrix product on its way through its slice      *)
(* (the pipes of exl3_gemm_kernel_inner in                                  *)
(* src/cuda/quant/exl3_gemm_inner.cuh): tiles are copied to a ring of       *)
(* stages in shared memory while earlier ones are read into registers and   *)
(* multiplied.  The threads meet at barriers only; a copy is there when the *)
(* thread that issued it has waited for it.  Of the groups of threads that  *)
(* share a tile along k (sub_k) the first copies for all, and adds up.      *)
(*                                                                         *)
(* A step is what a thread does between two barriers.  Each thread copies   *)
(* its part of a tile and reads all parts.  How the segments of several     *)
(* blocks make a column is SplitK's: here the lock of a column is free.     *)
(***************************************************************************)
EXTENDS Integers, Sequences, SequencesExt

CONSTANTS
  Slices,     \* [k: tiles of a column, beg, len: slice, lanes, subs: threads,
              \*  stages, frags: SH_STAGES and FRAG_STAGES, rotates: shmem_out_had]
  Torn        \* what is read where a copy is under way, or of several tiles

VARIABLES
  slice,      \* what the block runs
  at,         \* [next, waits] per thread: its next step, and if it waits at a barrier
  left,       \* [load, read, multiply] per thread: tiles before each of its pipes
  copies,     \* per thread: groups of copies not waited for, the oldest first
  ring,       \* per stage and lane: the tile whose part is there
  frags,      \* per thread: the tile in each buffer of fragments
  acc,        \* per thread: the sum in its registers, as what was added in order
  sh_c,       \* per place of the sums' shared memory: a sum
  summed      \* per column and lane: what the block brings to the output

pipeline == <<slice, at, left, copies, ring, frags, acc, sh_c, summed>>

LaneSet == 0..(slice.lanes - 1)
Threads == LaneSet \X (0..(slice.subs - 1))

IsFirstSub(x) == x[2] = 0

\* The tile a pipe is at when that many are left.
TileAt(n) == LET i == slice.beg + slice.len - n IN [k |-> i % slice.k, n |-> i \div slice.k]

Columns == {TileAt(n).n : n \in 1..slice.len}

PipelineInit ==
  /\ slice \in Slices
  /\ at = [x \in Threads |-> [next |-> "start", waits |-> FALSE]]
  /\ left = [x \in Threads |-> [load |-> slice.len, read |-> slice.len, multiply |-> slice.len]]
  /\ copies = [x \in Threads |-> <<>>]
  /\ ring = [s \in 0..(slice.stages - 1) |-> [t \in LaneSet |-> Torn]]
  /\ frags = [x \in Threads |-> [b \in 0..(slice.frags - 1) |-> Torn]]
  /\ acc = [x \in Threads |-> <<>>]
  /\ sh_c = [t \in LaneSet |-> <<>>]
  /\ summed = [n \in Columns |-> [t \in LaneSet |-> <<>>]]

\* Mutant: barrier_acquire() makes only the first thread wait.
SyncsButAtLock(next) == next \in {"multiply", "fill", "add", "rotate", "clear"}

\* The steps a thread begins only when all have come to it.
Syncs(next) == next \in {"multiply", "fill", "add", "write", "rotate", "clear"}

Step(x, from) == at[x] = [next |-> from, waits |-> FALSE]

Goes(x, next) == at' = [at EXCEPT ![x] = [next |-> next, waits |-> Syncs(next)]]

\* __syncthreads()
Sync ==
  /\ \A x \in Threads : at[x].waits
  /\ at' = [x \in Threads |-> [at[x] EXCEPT !.waits = FALSE]]
  /\ UNCHANGED <<slice, left, copies, ring, frags, acc, sh_c, summed>>

-----------------------------------------------------------------------------
(* Pipe 0: from global to shared memory.                                   *)

\* async_load_gl(): the group a thread commits when so many tiles are left to load.
Group(x, n) ==
  IF IsFirstSub(x) /\ n > 0 THEN {[stage |-> n % slice.stages, tile |-> TileAt(n)]} ELSE {}

\* Mutant: as many groups as were committed ahead.
AllowedAll == slice.stages - 1

\* cp_async_wait: the groups that may be pending.
Allowed == slice.stages - 2

\* A part of a stage that was filled, or is being filled.
Filled(part, s, arrived, pending) ==
  IF \E c \in pending : c.stage = s THEN Torn
  ELSE IF \E c \in arrived : c.stage = s THEN (CHOOSE c \in arrived : c.stage = s).tile
  ELSE part

\* count times async_load_gl(), then wait_stage().
Load(x, count) ==
  LET all     == copies[x] \o [i \in 1..count |-> Group(x, left[x].load - i + 1)]
      done    == IF Len(all) > Allowed THEN Len(all) - Allowed ELSE 0
      pending == SubSeq(all, done + 1, Len(all))
      arrived == UNION ToSet(SubSeq(all, 1, done))
  IN /\ copies' = [copies EXCEPT ![x] = pending]
     /\ left' = [left EXCEPT ![x].load = IF ~IsFirstSub(x) THEN @ ELSE IF @ > count THEN @ - count ELSE 0]
     /\ ring' = [s \in DOMAIN ring |->
                   [ring[s] EXCEPT ![x[1]] = Filled(@, s, arrived, UNION ToSet(pending))]]
     /\ UNCHANGED <<slice, frags, acc, sh_c, summed>>

\* The pipeline is filled; fragments of the first tile follow the barrier.
Start(x) ==
  /\ Step(x, "start") /\ Load(x, slice.stages - 1)
  /\ at' = [at EXCEPT ![x] = [next |-> "read", waits |-> TRUE]]

Fill(x) == Step(x, "fill") /\ Load(x, 1) /\ Goes(x, "multiply")

-----------------------------------------------------------------------------
(* Pipe 1: from shared memory to registers.                                *)

\* What a thread reads of a stage.
InStage(s) == IF \A t \in LaneSet : ring[s][t] = ring[s][0] THEN ring[s][0] ELSE Torn

Buffer(n) == (slice.len - n) % slice.frags

\* load_frags().  It runs one tile ahead of the sums and the loop ends with them:
\* one is always left, its early return is never taken.
Read(x) ==
  /\ Step(x, "read") /\ Goes(x, "fill")
  /\ left[x].read > 0
  /\ frags' = [frags EXCEPT ![x][Buffer(left[x].read)] = InStage(left[x].read % slice.stages)]
  /\ left' = [left EXCEPT ![x].read = @ - 1]
  /\ UNCHANGED <<slice, copies, ring, acc, sh_c, summed>>

-----------------------------------------------------------------------------
(* Pipe 2: sums.                                                           *)

EndsSegment(n) == TileAt(n).k = slice.k - 1 \/ n = 1

\* advance2(), and the next turn of the loop.
Advance(x) ==
  /\ left' = [left EXCEPT ![x].multiply = @ - 1]
  /\ Goes(x, IF left[x].multiply = 1 THEN "done" ELSE "read")

\* matmul()
Multiply(x) ==
  /\ Step(x, "multiply")
  /\ acc' = [acc EXCEPT ![x] = Append(@, <<frags[x][Buffer(left[x].multiply)], x[2]>>)]
  /\ IF EndsSegment(left[x].multiply)
     THEN Goes(x, IF slice.subs = 1 THEN "write" ELSE "store") /\ UNCHANGED left
     ELSE Advance(x)
  /\ UNCHANGED <<slice, copies, ring, frags, sh_c, summed>>

\* threadblock_reduce() of two: one puts its sums where the other takes them.
Store(x) ==
  /\ Step(x, "store") /\ Goes(x, "add")
  /\ sh_c' = IF IsFirstSub(x) THEN sh_c ELSE [sh_c EXCEPT ![x[1]] = acc[x]]
  /\ UNCHANGED <<slice, left, copies, ring, frags, acc, summed>>

\* ... and then barrier_acquire().
Add(x) ==
  /\ Step(x, "add") /\ Goes(x, "write")
  /\ acc' = IF IsFirstSub(x) THEN [acc EXCEPT ![x] = @ \o sh_c[x[1]]] ELSE acc
  /\ UNCHANGED <<slice, left, copies, ring, frags, sh_c, summed>>

\* The segment goes down to the first tile of its column: no block adds to it.
IsLastOfColumn(n) == TileAt(slice.len).k = 0 \/ TileAt(slice.len).n # TileAt(n).n

\* A tile of sums by rows lies across what the threads had as fragments.
ByRows(t) == (t + 1) % slice.lanes

\* A sum goes to the output from registers; a complete one that is rotated from
\* shared memory.
Write(x) ==
  /\ Step(x, "write")
  /\ LET n == left[x].multiply  rotated == slice.rotates /\ IsLastOfColumn(n)
     IN /\ Goes(x, IF rotated THEN "rotate" ELSE "clear")
        /\ sh_c' = IF IsFirstSub(x) /\ rotated THEN [sh_c EXCEPT ![ByRows(x[1])] = acc[x]] ELSE sh_c
        /\ summed' = IF IsFirstSub(x) /\ ~rotated THEN [summed EXCEPT ![TileAt(n).n][x[1]] = acc[x]] ELSE summed
  /\ UNCHANGED <<slice, left, copies, ring, frags, acc>>

\* output_had_sh_gl(): a row takes the sums of all lanes.
Rotate(x) ==
  /\ Step(x, "rotate") /\ Goes(x, "clear")
  /\ summed' = IF IsFirstSub(x)
               THEN [summed EXCEPT ![TileAt(left[x].multiply).n][x[1]] =
                       IF \A t \in LaneSet : sh_c[t] = sh_c[0] THEN sh_c[0] ELSE <<Torn>>]
               ELSE summed
  /\ UNCHANGED <<slice, left, copies, ring, frags, acc, sh_c>>

\* barrier_release(), clear_frag_c()
Clear(x) ==
  /\ Step(x, "clear") /\ Advance(x)
  /\ acc' = [acc EXCEPT ![x] = <<>>]
  /\ UNCHANGED <<slice, copies, ring, frags, sh_c, summed>>

ThreadStep(x) ==
  Start(x) \/ Fill(x) \/ Read(x) \/ Multiply(x) \/ Store(x) \/ Add(x) \/ Write(x) \/ Rotate(x) \/ Clear(x)

PipelineNext == Sync \/ \E x \in Threads : ThreadStep(x)

-----------------------------------------------------------------------------
(* Properties.                                                             *)

PipelineEnded == \A x \in Threads : at[x].next = "done"

\* The tiles of the slice in a column, in order, as one group of threads adds them.
Terms(n, sub) ==
  LET ks == {k \in 0..(slice.k - 1) : \E m \in 1..slice.len : TileAt(m) = [n |-> n, k |-> k]}
  IN [i \in 1..Cardinality(ks) |->
       <<[n |-> n, k |-> (CHOOSE k \in ks : \A o \in ks : k <= o) + i - 1], sub>>]

\* exl3_gemm_inner.cuh:630: a stage is read when it "has finished loading".  What a
\* block brings to a column are the tiles its slice has in it, each once and whole,
\* however its threads run between the barriers: no stage is read too early or
\* filled too early, and no sum in shared memory is overwritten before it is taken.
SumsItsTiles ==
  PipelineEnded =>
    \A n \in Columns, t \in LaneSet :
      summed[n][t] = Terms(n, 0) \o (IF slice.subs = 2 THEN Terms(n, 1) ELSE <<>>)
=============================================================================
