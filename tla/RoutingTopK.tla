----------------------------- MODULE RoutingTopK -----------------------------
(***************************************************************************)
(* The choice of a token's experts (routing_ds3_nogroup_topk_kernel in       *)
(* src/cuda/aux/routing.cu): every warp of the block picks the best of its   *)
(* lanes again and again; the candidates of all warps are dealt out to       *)
(* fewer warps until one warp holds them all.                               *)
(*                                                                         *)
(* Between two barriers the warps run in any order.  A key is what the bias  *)
(* makes of a score; the weight that goes with it is not looked at.         *)
(***************************************************************************)
EXTENDS Integers, FiniteSets

CONSTANTS
  Lanes,        \* of a warp: 32
  NTop,         \* K: experts per token, 8 in the engine
  KeyRows       \* rows of keys, by expert from 0: 288 of them in the engine

VARIABLES
  keys,         \* the row: scores with their bias
  stage,        \* "score", "merge", "last", "done"
  ncand,        \* num_candidates
  sh,           \* shared memory: position -> candidate
  held,         \* warp -> lane -> candidate in its registers, Nothing before
  step          \* warp -> rounds of the stage it has done

routing == <<keys, stage, ncand, sh, held, step>>

Gone    == -1           \* -1.0e30f, below every key
Nothing == <<>>
NoOne   == [key |-> Gone, expert |-> -1]

NumExperts == Cardinality(DOMAIN keys)
NumWarps == (NumExperts + Lanes - 1) \div Lanes
Warps    == 0..(NumWarps - 1)
LaneIds  == 0..(Lanes - 1)

\* The warps a stage needs: the others wait at its barrier.
StageWarps ==
  CASE stage = "score" -> Warps
    [] stage = "merge" -> 0..((ncand + Lanes - 1) \div Lanes - 1)
    [] stage = "last"  -> {0}
    [] OTHER           -> {}

RoutingInit ==
  /\ keys \in KeyRows
  /\ stage = "score" /\ ncand = 0
  /\ sh = [i \in 0..(NumWarps * NTop - 1) |-> NoOne]
  /\ held = [w \in Warps |-> Nothing] /\ step = [w \in Warps |-> 0]

\* What lane l of warp w starts the stage with.
Dealt(w, l) ==
  LET t == w * Lanes + l
  IN IF stage = "score"
     THEN IF t \in DOMAIN keys THEN [key |-> keys[t], expert |-> t] ELSE NoOne
     ELSE IF t < ncand THEN sh[t] ELSE NoOne

Deal(w) ==
  /\ w \in StageWarps /\ held[w] = Nothing
  /\ held' = [held EXCEPT ![w] = [l \in LaneIds |-> Dealt(w, l)]]
  /\ UNCHANGED <<keys, stage, ncand, sh, step>>

\* Mutant: the highest of the tied lanes.
LastBest(hand) ==
  CHOOSE l \in LaneIds : \A o \in LaneIds :
    hand[o].key < hand[l].key \/ (hand[o].key = hand[l].key /\ o <= l)

\* warp_reduce_best_f32: the lowest of the tied lanes.
BestLane(hand) ==
  CHOOSE l \in LaneIds : \A o \in LaneIds :
    hand[o].key < hand[l].key \/ (hand[o].key = hand[l].key /\ l <= o)

\* One round of the loop over k: the best goes to shared memory, and every lane
\* that holds the same expert gives its key up.
Round(w) ==
  LET best == held[w][BestLane(held[w])]
  IN /\ w \in StageWarps /\ held[w] # Nothing /\ step[w] < NTop
     /\ sh' = [sh EXCEPT ![w * NTop + step[w]] = best]
     /\ held' = [held EXCEPT ![w] = [l \in LaneIds |->
                   IF held[w][l].expert = best.expert
                   THEN [held[w][l] EXCEPT !.key = Gone] ELSE held[w][l]]]
     /\ step' = [step EXCEPT ![w] = @ + 1]
     /\ UNCHANGED <<keys, stage, ncand>>

\* __syncthreads at the end of a stage, and the choice of the next one.
Barrier ==
  /\ stage # "done" /\ \A w \in StageWarps : step[w] = NTop
  /\ ncand' = Cardinality(StageWarps) * NTop
  /\ stage' = IF stage = "last" THEN "done" ELSE IF ncand' > Lanes THEN "merge" ELSE "last"
  /\ held' = [w \in Warps |-> Nothing] /\ step' = [w \in Warps |-> 0]
  /\ UNCHANGED <<keys, sh>>

WarpStep(w) == w \in Warps /\ (Deal(w) \/ Round(w))

RoutingNext == Barrier \/ \E w \in Warps : WarpStep(w)

RoutingSpec == RoutingInit /\ [][RoutingNext]_routing

-----------------------------------------------------------------------------
(* Properties.                                                             *)

\* How many come before expert e: with a larger key, or the same and a lower
\* index.
Rank(e) == Cardinality({o \in DOMAIN keys : keys[o] > keys[e] \/ (keys[o] = keys[e] /\ o < e)})

\* routing.cuh:44 "indices are ordered by the biased key, largest first": the
\* experts that come out are the K best of the row in their order, whichever
\* warps were ahead of the others at any time.
RoutesTopK ==
  stage = "done" => \A e \in DOMAIN keys : Rank(e) < NTop => sh[Rank(e)].expert = e
=============================================================================
