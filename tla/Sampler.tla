------------------------------- MODULE Sampler -------------------------------
(***************************************************************************)
(* The choice of a token from the scores the model gave (sampler.cpp): what   *)
(* was said lately is made less likely, the most likely are ranked, the tail   *)
(* is cut by count (top-k), by mass (top-p) and by ratio (min-p), and one of   *)
(* the rest is drawn.                                                       *)
(*                                                                         *)
(* Scores are integers at temperature 1, a weight is a power of two, and a     *)
(* fraction is in percent; exponentials are not rounded.                     *)
(***************************************************************************)
EXTENDS FiniteSetsExt, SequencesExt, Integers

CONSTANTS
  Scores,       \* score vectors: 0..(vocabulary - 1) -> Int
  Params,       \* [greedy, top_k, top_p, min_p, penalty, window]
  Lately,       \* what was said, the prompt included
  Percents      \* of next_f, in 0..99

VARIABLES
  params, recent,
  scores,       \* that the token was drawn from, or NotDrawn
  fraction,     \* that next_f gave
  drawn

sampler == <<params, recent, scores, fraction, drawn>>

NotDrawn == <<>>

SamplerInit ==
  /\ params \in Params /\ recent \in Lately
  /\ scores = NotDrawn /\ fraction = 0 /\ drawn = -1

\* Mutant: the first of what was said.
FirstSaid == SubSeq(recent, 1, IF Len(recent) < params.window THEN Len(recent) ELSE params.window)

\* The last window tokens.
Window ==
  LET from == IF Len(recent) < params.window THEN 0 ELSE Len(recent) - params.window
  IN  SubSeq(recent, from + 1, Len(recent))

\* Once for every time it was said; with penalty 1 nothing is changed.
Penalised(s) ==
  FoldLeft(LAMBDA buf, id :
             [buf EXCEPT ![id] = IF @ > 0 THEN @ \div params.penalty ELSE @ * params.penalty],
           s, Window)

Weight(x) == 2 ^ (x + 16)

\* The ids by weight; std::sort and partial_sort leave equal ones in any order.
Rankings(buf) ==
  {order \in [1..Cardinality(DOMAIN buf) -> DOMAIN buf] :
     /\ IsInjective(order)
     /\ \A i \in DOMAIN order \ {1} : buf[order[i - 1]] >= buf[order[i]]}

TopK(n) == IF params.top_k > 0 /\ params.top_k < n THEN params.top_k ELSE n

Mass(ids, buf) == MapThenSumSet(LAMBDA id : Weight(buf[id]), ids)

\* A token of weight w, after tokens of weight acc, is not kept, unless it is the first.
Cut(acc, w, most, sum) ==
  \/ params.min_p > 0 /\ 100 * w < params.min_p * most
  \/ params.top_p < 100 /\ 100 * acc >= params.top_p * sum

\* What is kept of a ranking: up to the first token that is cut.
Kept(order, buf) ==
  LET top  == 1..TopK(Len(order))
      sum  == Mass({order[i] : i \in top}, buf)
      most == Weight(buf[order[1]])
      cut  == {i \in top \ {1} : Cut(Mass({order[j] : j \in 1..(i - 1)}, buf), Weight(buf[order[i]]), most, sum)}
  IN  SubSeq(order, 1, IF cut = {} THEN Cardinality(top) ELSE Min(cut) - 1)

\* Mutant: compared before the weight is added.
ReachedLate(kept, buf, r) == {i \in DOMAIN kept : r <= 100 * Mass({kept[j] : j \in 1..(i - 1)}, buf)}

\* The places of what is kept up to which the weights reach r.
Reached(kept, buf, r) == {i \in DOMAIN kept : r <= 100 * Mass({kept[j] : j \in 1..i}, buf)}

SampleGreedily ==
  /\ scores = NotDrawn /\ params.greedy
  /\ \E s \in Scores :
       /\ scores' = s
       /\ drawn' = Min({id \in DOMAIN s : \A other \in DOMAIN s : s[id] >= s[other]})
  /\ UNCHANGED <<params, recent, fraction>>

Sample ==
  /\ scores = NotDrawn /\ ~params.greedy
  /\ \E s \in Scores, u \in Percents : \E buf \in {Penalised(s)} : \E order \in Rankings(buf) :
       \E kept \in {Kept(order, buf)} :
         LET reached == Reached(kept, buf, u * Mass(ToSet(kept), buf))
         IN  /\ scores' = s /\ fraction' = u
             /\ drawn' = kept[IF reached = {} THEN Len(kept) ELSE Min(reached)]
  /\ UNCHANGED <<params, recent>>

SamplerNext == SampleGreedily \/ Sample

SamplerSpec == SamplerInit /\ [][SamplerNext]_sampler

-----------------------------------------------------------------------------
(* Properties.                                                             *)

\* The weight of a token that was said n times lately.
LaterWeight(x, n) ==
  Weight(IF x > 0 THEN x \div (params.penalty ^ n) ELSE x * (params.penalty ^ n))

\* sampler.hpp:2 "temperature / top-k / top-p / min-p / repetition penalty": a token is
\* drawn only when fewer than top_k tokens are likelier, when these are not yet top_p
\* of the mass of the top_k, and when it is min_p as likely as the likeliest, at odds
\* that count each time it was said in the window; the likelier ones do not reach the
\* fraction that was drawn, so that none of the likeliest is ever dropped; greedily it
\* is the first of the best.
DrawsFromNucleus ==
  scores # NotDrawn =>
    LET last(n) == SubSeq(recent, (IF Len(recent) < n THEN 0 ELSE Len(recent) - n) + 1, Len(recent))
        weight == [id \in DOMAIN scores |->
                    LaterWeight(scores[id], Len(SelectSeq(last(params.window), LAMBDA r : r = id)))]
        likelier == {id \in DOMAIN weight : weight[id] > weight[drawn]}
        Sum(ids) == MapThenSumSet(LAMBDA id : weight[id], ids)
        k == IF params.top_k = 0 THEN Cardinality(DOMAIN weight) ELSE params.top_k
        top == {ids \in SUBSET DOMAIN weight :
                  /\ Cardinality(ids) = (IF k < Cardinality(DOMAIN weight) THEN k ELSE Cardinality(DOMAIN weight))
                  /\ \A i \in ids, j \in DOMAIN weight \ ids : weight[i] >= weight[j]}
    IN  IF params.greedy
        THEN \A id \in DOMAIN scores :
               scores[id] <= scores[drawn] /\ (id < drawn => scores[id] < scores[drawn])
        ELSE /\ Cardinality(likelier) < k
             /\ params.top_p < 100 /\ likelier # {} =>
                  \A ids \in top : 100 * Sum(likelier) < params.top_p * Sum(ids)
             /\ likelier # {} => \A ids \in top : 100 * Sum(likelier) < fraction * Sum(ids)
             /\ \A id \in likelier : 100 * weight[drawn] >= params.min_p * weight[id]
=============================================================================
