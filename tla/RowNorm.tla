------------------------------- MODULE RowNorm -------------------------------
(***************************************************************************)
(* The norm of a row (norm.cu): a block's threads square and add up the      *)
(* columns, four numbers each, the warps add up their sums in shared memory,  *)
(* and every thread scales its columns by the sum.  A row of more columns     *)
(* than threads is read twice; the row may be scaled in place, and added to   *)
(* another one before or after.                                             *)
(*                                                                         *)
(* A warp moves in lockstep between barriers.  A value is written as the term *)
(* it was computed by, a sum of squares as the sequence of the values in it.  *)
(***************************************************************************)
EXTENDS SequencesExt, Integers

CONSTANTS
  NormCalls,    \* [columns, mode, in_place]; mode is RES_NONE, RES_POST or RES_IN of
                \* rms_norm, or where gated_rms_norm applies its gate
  NormLanes,    \* threads of a warp
  NormThreads   \* NUM_THREADS, as many warps as a warp has threads

VARIABLES
  norm,         \* one of NormCalls
  pc,           \* warp -> where it is
  mem,          \* "x", "r", "g" and "y" -> column -> value
  x4,           \* warp -> the values its threads keep in registers
  sums          \* warp -> sum

rownorm == <<norm, pc, mem, x4, sums>>

Modes == {"none", "post", "in", "gate_first", "gate_last"}
Gated == norm.mode \in {"gate_first", "gate_last"}

Plus(v, u)  == <<"plus", v, u>>
Gate(v, g)  == <<"gated", v, g>>
Norm(v, sum) == <<"norm", v, sum>>

ColumnSet == 0..(norm.columns - 1)

\* rms_norm_impl: whole warps, as many as the columns need; gated_rms_norm: one
\* warp for rows of two columns a thread, all for others.
Threads ==
  LET needed == ((norm.columns + NormLanes - 1) \div NormLanes) * NormLanes
  IN  IF Gated THEN (IF norm.columns <= 2 * NormLanes THEN NormLanes ELSE NormThreads)
      ELSE IF needed < NormThreads THEN needed ELSE NormThreads

WarpsOf == 0..(Threads \div NormLanes - 1)

\* Every value stays in a register.
Single == ~Gated /\ norm.columns <= Threads

\* The columns of a warp: a loop strided by the threads.
Mine(w) == {c \in ColumnSet : (c % Threads) \div NormLanes = w}

Y == IF norm.in_place THEN "x" ELSE "y"

NormInit ==
  /\ norm \in NormCalls
  /\ pc = [w \in WarpsOf |-> "read"]
  /\ mem = [b \in {"x", "r", "g", "y"} |-> [c \in ColumnSet |-> <<b, c>>]]
  /\ x4 = [w \in WarpsOf |-> <<>>]
  /\ sums = [w \in WarpsOf |-> <<>>]

\* x, with what it is added to (add_resid_in) or gated by.
Read(c) ==
  CASE norm.mode = "in"         -> Plus(mem["x"][c], mem["r"][c])
    [] norm.mode = "gate_first" -> Gate(mem["x"][c], mem["g"][c])
    [] OTHER                    -> mem["x"][c]

\* A warp reads its columns and stores its sum; the sum in r is kept.
Square(w) ==
  /\ pc[w] = "read"
  /\ x4' = [x4 EXCEPT ![w] = IF Single THEN [c \in Mine(w) |-> Read(c)] ELSE <<>>]
  /\ mem' = IF norm.mode # "in" THEN mem
            ELSE [mem EXCEPT !["r"] = [c \in ColumnSet |-> IF c \in Mine(w) THEN Read(c) ELSE @[c]]]
  /\ LET order == SetToSortSeq(Mine(w), LAMBDA i, j : i < j)
     IN  sums' = [sums EXCEPT ![w] = [k \in DOMAIN order |-> Read(order[k])]]
  /\ pc' = [pc EXCEPT ![w] = IF WarpsOf = {0} THEN "write" ELSE "stored"]
  /\ UNCHANGED norm

\* __syncthreads in reduce and reduce_dyn.
Sync ==
  /\ \A w \in WarpsOf : pc[w] = "stored"
  /\ pc' = [w \in WarpsOf |-> "write"]
  /\ UNCHANGED <<norm, mem, x4, sums>>

\* Mutant: what was added up in r is added up again.
AddsAgain(c) ==
  CASE norm.mode = "in"         -> Plus(mem["x"][c], mem["r"][c])
    [] norm.mode = "gate_first" -> Gate(mem["x"][c], mem["g"][c])
    [] OTHER                    -> mem["x"][c]

\* The value that is scaled, when it was not kept.
ReadAgain(c) ==
  CASE norm.mode = "in"         -> mem["r"][c]
    [] norm.mode = "gate_first" -> Gate(mem["x"][c], mem["g"][c])
    [] OTHER                    -> mem["x"][c]

\* apply_out.
Out(w, c) ==
  LET sum    == FlattenSeq([j \in 1..Cardinality(WarpsOf) |-> sums[j - 1]])
      normed == Norm(IF Single THEN x4[w][c] ELSE ReadAgain(c), sum)
  IN  CASE norm.mode = "post"      -> Plus(normed, mem[Y][c])
        [] norm.mode = "gate_last" -> Gate(normed, mem["g"][c])
        [] OTHER                   -> normed

Scale(w) ==
  /\ pc[w] = "write"
  /\ mem' = [mem EXCEPT ![Y] = [c \in ColumnSet |-> IF c \in Mine(w) THEN Out(w, c) ELSE @[c]]]
  /\ pc' = [pc EXCEPT ![w] = "ended"]
  /\ UNCHANGED <<norm, x4, sums>>

NormNext == Sync \/ \E w \in WarpsOf : Square(w) \/ Scale(w)

NormSpec == NormInit /\ [][NormNext]_rownorm

-----------------------------------------------------------------------------
(* Properties.                                                             *)

\* What a column is normed as.
Value(c) ==
  CASE norm.mode = "in"         -> Plus(<<"x", c>>, <<"r", c>>)
    [] norm.mode = "gate_first" -> Gate(<<"x", c>>, <<"g", c>>)
    [] OTHER                    -> <<"x", c>>

\* norm.cu:174 "Can operate in-place if y == x": every column is scaled by the sum of
\* all columns as they were, each once, and is added to what it has to be once, in
\* place too, and in rows that are read twice.
NormsWholeRow ==
  (\A w \in WarpsOf : pc[w] = "ended") =>
    \E sum \in {LET first == mem[Y][0]
                IN  IF norm.mode \in {"post", "gate_last"} THEN first[2][3] ELSE first[3]} :
      /\ Len(sum) = norm.columns /\ ToSet(sum) = {Value(c) : c \in ColumnSet}
      /\ \A c \in ColumnSet :
           LET normed == Norm(Value(c), sum)
           IN  mem[Y][c] = CASE norm.mode = "post"      -> Plus(normed, <<Y, c>>)
                             [] norm.mode = "gate_last" -> Gate(normed, <<"g", c>>)
                             [] OTHER                   -> normed
      /\ norm.mode = "in" => \A c \in ColumnSet : mem["r"][c] = Value(c)
=============================================================================
