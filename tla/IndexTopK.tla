------------------------------ MODULE IndexTopK ------------------------------
(***************************************************************************)
(* The selection of the k best scores of a row (dsa_topk in                  *)
(* src/cuda/aux/dsa_topk.cu): a radix select in two histograms, compacted in  *)
(* the order of the row, and the variant that cuts a long row into spans and  *)
(* merges their best; one row of scores through both launches of it, with    *)
(* one block, as the engine asks for, and with spans that are merged, which   *)
(* runner.cpp:623 rules out by passing t_seq.                              *)
(*                                                                         *)
(* A score is its ordered key, of two digits; the scans of a block, which    *)
(* give every element the place its index has, are the order of the row.    *)
(***************************************************************************)
EXTENDS Integers, Sequences, SequencesExt

CONSTANTS
  Radix,        \* values of a digit of a key: 256
  NegInf,       \* KEY_NEG_INF: keys up to it are not scores
  Align,        \* spans are multiples of it: 8
  Scores        \* the rows of keys

-----------------------------------------------------------------------------
(* Radix select.                                                           *)

High(key) == key \div Radix
Low(key)  == key % Radix

Finite(s) == {i \in DOMAIN s : s[i] > NegInf}

\* The histogram of the high digit.
HighHist(s) == [b \in 0..(Radix - 1) |-> Cardinality({i \in Finite(s) : High(s[i]) = b})]

\* Mutant: the second pass counts every key.
LowHistOfAll(s, b1) ==
  [b \in 0..(Radix - 1) |-> Cardinality({i \in Finite(s) : Low(s[i]) = b})]

\* The histogram of the low digit, under a high one.
LowHist(s, b1) ==
  [b \in 0..(Radix - 1) |-> Cardinality({i \in Finite(s) : High(s[i]) = b1 /\ Low(s[i]) = b})]

CountAbove(hist, b) == SumFunctionOnSet(hist, {c \in DOMAIN hist : c > b})

\* The bucket in which the count from above reaches the target.
Crosses(hist, b, target) ==
  CountAbove(hist, b) < target /\ target <= CountAbove(hist, b) + hist[b]

Buckets(hist, target) == {b \in DOMAIN hist : Crosses(hist, b, target)}

\* The key of the last one selected, and how many with that key are.
Threshold(s, n) ==
  IF Buckets(HighHist(s), n) = {} THEN [key |-> NegInf, ties |-> 0]
  ELSE LET b1   == CHOOSE b \in Buckets(HighHist(s), n) : TRUE
           rest == n - CountAbove(HighHist(s), b1)
           b0   == CHOOSE b \in Buckets(LowHist(s, b1), rest) : TRUE
       IN [key |-> b1 * Radix + b0, ties |-> rest - CountAbove(LowHist(s, b1), b0)]

InOrder(S) == SetToSortSeq(S, <)

\* Everything above the threshold, then as many at it as are missing.
Select(s, n) ==
  LET cut  == Threshold(s, n)
      ties == {i \in Finite(s) : s[i] = cut.key}
  IN InOrder({i \in Finite(s) : s[i] > cut.key})
       \o SubSeq(InOrder(ties), 1, Min({cut.ties, Cardinality(ties)}))

-----------------------------------------------------------------------------
(* Spans and their merge.                                                  *)

CeilDiv(x, y) == (x + y - 1) \div y

SpanLength(len, parts) == CeilDiv(CeilDiv(len, parts), Align) * Align

\* The selection of span g, as indices of the row.
SpanSelect(s, n, parts, g) ==
  LET length == SpanLength(Len(s), parts)
      beg    == g * length
      best   == Select(SubSeq(s, beg + 1, Min({beg + length, Len(s)})), n)
  IN [j \in DOMAIN best |-> beg + best[j]]

Candidates(s, n, parts) == FlattenSeq([g \in 1..parts |-> SpanSelect(s, n, parts, g - 1)])

Merge(s, n, candidates) ==
  IF Len(candidates) > n
  THEN LET best == Select([j \in DOMAIN candidates |-> s[candidates[j]]], n)
       IN [j \in DOMAIN best |-> candidates[best[j]]]
  ELSE candidates

-----------------------------------------------------------------------------
(* One row.                                                                *)

VARIABLES
  scores,       \* the row
  k,            \* how many are selected
  spans,        \* into how many spans the row is cut
  selected,     \* what dsa_topk_kernel writes
  merged        \* what dsa_topk_merge_kernel writes

topk == <<scores, k, spans, selected, merged>>

None == <<>>

TopKInit ==
  /\ scores \in Scores
  /\ k \in 1..Len(scores) /\ spans \in 2..3
  /\ selected = None /\ merged = None

\* Both launches of dsa_topk.
SelectRow ==
  /\ selected' = Select(scores, k)
  /\ merged' = Merge(scores, k, Candidates(scores, k, spans))
  /\ UNCHANGED <<scores, k, spans>>

TopKNext == SelectRow

-----------------------------------------------------------------------------
(* Properties.                                                             *)

\* The k best: no more than k - 1 others are better, or as good and before.
Best(s, n) ==
  {i \in Finite(s) :
     Cardinality({j \in Finite(s) : s[j] > s[i] \/ (s[j] = s[i] /\ j < i)}) < n}

\* dsa_topk.cu:16 "pin down the exact k-th threshold value": the two
\* histograms select exactly the k best of every row, or all there are, each
\* once, wherever ties, digits and the end of the row fall; and the best of the
\* spans' best are the same ones.
SelectsTheBest ==
  selected # None =>
    \A out \in {selected, merged} :
      ToSet(out) = Best(scores, k) /\ Len(out) = Cardinality(Best(scores, k))

-----------------------------------------------------------------------------
(* A statement of the source that the code does not keep.                  *)

\* dsa_topk.cu:592 "tie order matches the legacy kernel exactly": no two rows
\* whose spans hold exactly k scores come out in different orders.
MergeKeepsOrder == selected = merged
=============================================================================
