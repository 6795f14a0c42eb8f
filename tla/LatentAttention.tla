---------------------------- MODULE LatentAttention ----------------------------
(***************************************************************************)
(* One query and one head of the attention over latent rows (attn.cu): the   *)
(* warps of a block share the rows among them, keep a running maximum and    *)
(* sums relative to it, and merge these at the end.  The sparse kernels read *)
(* the rows of a list, with holes; the dense one reads all rows up to the    *)
(* query.                                                                  *)
(*                                                                         *)
(* A weight is the exponential of its exponent, and a sum of weighted terms  *)
(* is the function from its terms to their exponents: scaling a sum adds to  *)
(* all of them, and two sums are equal when they have the same terms.        *)
(***************************************************************************)
EXTENDS SequencesExt, Integers

CONSTANTS
  NWarps,       \* 8
  Scores,       \* functions from rows to q . row
  Lists         \* lists of rows, with holes: raw_idx

VARIABLES
  score,
  list,         \* what is attended to
  output        \* lat_out, or NoOutput

attention == <<score, list, output>>

Hole     == -1
Lowest   == -1000           \* -INFINITY, below every score
NoOutput == <<>>
NoTerms  == <<>>

AttentionInit == score \in Scores /\ list = <<>> /\ output = NoOutput

Scaled(sum, by) == [i \in DOMAIN sum |-> sum[i] + by]

\* Mutant: the sum of the weights is not scaled when the maximum rises.
ScalesOnlyTerms(s, x) == [s EXCEPT !.acc = Scaled(@, s.m - x), !.m = x]

\* A score above the maximum: everything so far is relative to the new one.
Raised(s, x) == [m |-> x, l |-> Scaled(s.l, s.m - x), acc |-> Scaled(s.acc, s.m - x)]

\* Row rows[i] joins the sums; a hole takes part in nothing.
Join(rows, s, i) ==
  LET x == score[rows[i]]
      r == IF x > s.m THEN Raised(s, x) ELSE s
  IN IF rows[i] = Hole THEN s
     ELSE [r EXCEPT !.l = @ @@ (i :> x - r.m), !.acc = @ @@ (i :> x - r.m)]

\* Warp w takes the positions w, w + NWarps, ...
Turns(rows, w) == [k \in 1..((Len(rows) - w) \div NWarps + 1) |-> w + NWarps * (k - 1)]

Warp(rows, w) ==
  LET JoinRow(s, i) == Join(rows, s, i)
  IN  FoldLeft(JoinRow, [m |-> Lowest, l |-> NoTerms, acc |-> NoTerms], Turns(rows, w))

\* The sums of all warps, relative to the greatest maximum; a warp that saw
\* holes only adds nothing.
Merged(rows) ==
  LET warps == [w \in 1..NWarps |-> Warp(rows, w)]
      top   == Max({warps[w].m : w \in 1..NWarps})
      Add(sums, s) ==
        IF s.m = Lowest THEN sums
        ELSE [l |-> sums.l @@ Scaled(s.l, s.m - top), acc |-> sums.acc @@ Scaled(s.acc, s.m - top)]
  IN FoldLeft(Add, [l |-> NoTerms, acc |-> NoTerms], warps)

Attend(rows) ==
  /\ output = NoOutput
  /\ list' = rows /\ output' = Merged(rows)
  /\ UNCHANGED score

\* mla_sparse_decode, the rows of a list.
AttendSparse == \E rows \in Lists : Attend(rows)

\* mla_dense_prefill, all rows up to and with that of the query.
AttendDense ==
  \E pos_start \in DOMAIN score, q \in DOMAIN score :
    /\ pos_start + q \in DOMAIN score
    /\ Attend([i \in 1..(pos_start + q + 1) |-> i - 1])

AttentionNext == AttendSparse \/ AttendDense

AttentionSpec == AttentionInit /\ [][AttentionNext]_attention

-----------------------------------------------------------------------------
(* Properties.                                                             *)

Real    == {i \in DOMAIN list : list[i] # Hole}
Softmax == LET top == Max({score[list[i]] : i \in Real})
           IN  [i \in Real |-> score[list[i]] - top]

\* The online softmax is the softmax: whatever rows and holes fall to which
\* warp, and in whichever order scores rise and fall, every row that is no hole
\* is summed once with the exponential of its score less the greatest of all,
\* its weight counts the same in the divisor, and a query without rows gets
\* nothing.
AttentionIsSoftmax ==
  output # NoOutput =>
    /\ output.l = output.acc
    /\ output.acc = IF Real = {} THEN NoTerms ELSE Softmax
=============================================================================
