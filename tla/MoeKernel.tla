------------------------------ MODULE MoeKernel ------------------------------
(***************************************************************************)
(* The fused kernel of the routed experts (exl3_moe_kernel.cuh) between the *)
(* permutation that sorts the tokens by expert and the reduction that sums  *)
(* their contributions (moe_permute, moe_reduce_sorted in glue2.cu).        *)
(*                                                                         *)
(* Groups of thread blocks draw the experts they work on from a counter in  *)
(* memory, and keep in step with a barrier of their own; the counter, the   *)
(* barriers and the ticket of a group outlive the launch.  Rows are sorted  *)
(* by atomic cursors, in an order that differs from run to run.  What the   *)
(* launches compute must not: docs/benchmarks/determinism-report.md.        *)
(*                                                                         *)
(* A route is a token and a rank in its list of experts; routes are         *)
(* numbered from 1, token after token.  A contribution says what it was     *)
(* computed from, and a sum is the sequence of its terms.                   *)
(*                                                                         *)
(* The lemmas at the end are of the blocks of a group, which have been through *)
(* its barrier as often, or have a step to do to have been (MoeInv), and of    *)
(* the experts, each of which is complete, in the hand of a group, or not yet  *)
(* drawn while every group still works (ExpertsInv); KernelProofs cites them. *)
(***************************************************************************)
EXTENDS Integers, Sequences, FiniteSets, FiniteSetsExt, FiniteSetTheorems, WellFoundedInduction,
        TLAPS

CONSTANTS
  Plans,         \* launches one after another: the expert of each route, for each
  TopK,          \* routes per token
  NExperts,      \* experts per layer
  MaxTokens,     \* max_tokens_per_expert
  SMs, Concurrency, Width, MaxWidth,   \* num_sms, concurrency, MOE_SMS_PER_EXPERT, MOE_MAX_...
  Stale          \* a contribution of an earlier launch

VARIABLES
  plan,        \* the launches of this behaviour
  stage,       \* of the launch: "idle", "sorts" or "runs"
  launches,    \* how many there were
  ids,         \* the routing of this launch
  cursor,      \* per expert: the next row of its span
  place,       \* route_to_sorted: the row of each route sorted so far
  row,         \* token_sorted and weight_sorted: the route of each row
  contrib,     \* sorted_contributions: per row
  y,           \* per token, the sum of the last launch
  next, retired, slot,   \* the scheduler: the next ticket, groups that retired, a ticket per group
  arrived, sense,        \* the barrier of each group
  block        \* per group and block of the launch: what it does

sched   == <<next, retired, slot>>
barrier == <<arrived, sense>>
sorting == <<ids, cursor, place, row>>
moe     == <<plan, stage, launches, sorting, contrib, y, sched, barrier, block>>

-----------------------------------------------------------------------------
(* The shape of a launch.                                                  *)

Routes   == DOMAIN ids
Token(i) == (i - 1) \div TopK

Count(e)  == Cardinality({i \in Routes : ids[i] = e})
Offset(e) == Cardinality({i \in Routes : ids[i] < e})

\* The experts with tokens, and no more of them than fit the buffers.
IsActive(e) == Count(e) # 0 /\ Count(e) <= MaxTokens
Active      == {e \in 1..NExperts : IsActive(e)}

NumGroups == Min({Concurrency, Cardinality(Active)})
GroupSize == Min({SMs \div NumGroups, MaxWidth})

\* The grid of the launch: gridDim.z and gridDim.x.
num_groups == Cardinality(DOMAIN block)
group_size == Cardinality(DOMAIN block[0])

\* The expert a ticket stands for, seen by a block that has scanned the experts
\* before `from`; 0 when the scan ends without it.
Claimed(ticket, from) ==
  LET found == {e \in Active : e >= from /\ Cardinality({f \in Active : f < e}) = ticket}
  IN IF found = {} THEN 0 ELSE CHOOSE e \in found : TRUE

\* What a block does with its ticket: the first phase of an expert, or it ends;
\* block 0 retires its group first.
Enter(b, ticket, from, shares) ==
  LET e == Claimed(ticket, from)
  IN [at |-> IF e # 0 THEN "works" ELSE IF b = 0 THEN "retires" ELSE "ended",
      expert |-> e, phase |-> 1, seen |-> 0, shares |-> shares]

-----------------------------------------------------------------------------
(* Before the kernel: count, offsets, scatter.                             *)

MoeInit ==
  /\ plan \in Plans /\ stage = "idle" /\ launches = 0
  /\ ids = <<>> /\ cursor = <<>> /\ place = <<>> /\ row = <<>> /\ contrib = <<>> /\ y = <<>>
  /\ next = 0 /\ retired = 0
  /\ slot = [g \in 0..(Concurrency - 1) |-> 0]
  /\ arrived = [g \in 0..(Concurrency - 1) |-> 0] /\ sense = [g \in 0..(Concurrency - 1) |-> 0]
  /\ block = <<>>

\* moe_count and moe_offset: the cursor of an expert starts at its span.  The
\* rows of contributions hold what earlier launches left there.
CountTokens ==
  /\ stage = "idle" /\ launches < Len(plan)
  /\ ids' = plan[launches + 1]
  /\ cursor' = [e \in 1..NExperts |-> Cardinality({i \in DOMAIN ids' : ids'[i] < e}) + 1]
  /\ place' = [i \in {} |-> 0] /\ row' = [p \in {} |-> 0]
  /\ contrib' = [p \in DOMAIN ids' |-> Stale] /\ y' = <<>>
  /\ stage' = "sorts" /\ launches' = launches + 1
  /\ UNCHANGED <<plan, sched, barrier, block>>

\* moe_scatter, one route: the threads of the kernel in any order.
Scatter(i) ==
  /\ stage = "sorts" /\ i \notin DOMAIN place
  /\ place' = [j \in DOMAIN place \union {i} |-> IF j = i THEN cursor[ids[i]] ELSE place[j]]
  /\ row' = [p \in DOMAIN row \union {cursor[ids[i]]} |-> IF p = cursor[ids[i]] THEN i ELSE row[p]]
  /\ cursor' = [cursor EXCEPT ![ids[i]] = @ + 1]
  /\ UNCHANGED <<plan, stage, launches, ids, contrib, y, sched, barrier, block>>

\* moe_grouped: every block starts with the ticket of its group's number.
LaunchKernel ==
  /\ stage = "sorts" /\ DOMAIN place = Routes /\ Active # {}
  /\ block' = [g \in 0..(NumGroups - 1) |-> [b \in 0..(GroupSize - 1) |-> Enter(b, g, 1, 0)]]
  /\ stage' = "runs"
  /\ UNCHANGED <<plan, launches, sorting, contrib, y, sched, barrier>>

-----------------------------------------------------------------------------
(* Steps of a block.                                                       *)

At(g, b, step) == stage = "runs" /\ g \in DOMAIN block /\ b \in DOMAIN block[g] /\ block[g][b].at = step

Becomes(g, b, r) == block' = [block EXCEPT ![g][b] = r]

NextPhase(x) == [x EXCEPT !.phase = @ + 1, !.at = "works"]

\* The rows of an expert, of which a block writes its share.
SortedRows(e) == Offset(e) + 1 .. Offset(e) + Count(e)
Share(e, b)   == {p \in SortedRows(e) : (p - Offset(e) - 1) % group_size = b}
Contribution(p, e) == [expert |-> e, route |-> row[p]]

\* A share of the five phases: gather, gate and up, activation, down, and the
\* output; the last one writes contributions.
Work(g, b) ==
  LET x == block[g][b] IN
  /\ At(g, b, "works")
  /\ Becomes(g, b, [x EXCEPT !.at = IF x.phase = 5 /\ b = 0 THEN "draws" ELSE "arrives", !.shares = @ + 1])
  /\ contrib' = IF x.phase # 5 THEN contrib
                ELSE [p \in DOMAIN contrib |->
                        IF p \in Share(x.expert, b) THEN Contribution(p, x.expert) ELSE contrib[p]]
  /\ UNCHANGED <<plan, stage, launches, sorting, y, sched, barrier>>

\* Mutant: tickets that begin at 0 again.
DrawnFromZero == next

\* The tickets of the groups' own numbers are taken from the start.
Drawn == num_groups + next

\* atomicAdd(&sched[0], 1), by block 0 of the group, after an expert.
Draw(g) ==
  /\ At(g, 0, "draws")
  /\ slot' = [slot EXCEPT ![g] = Drawn] /\ next' = next + 1
  /\ Becomes(g, 0, [block[g][0] EXCEPT !.at = "arrives"])
  /\ UNCHANGED <<plan, stage, launches, sorting, contrib, y, retired, barrier>>

\* Mutant: the old count and not the new one.
IsLastByOld(g) == arrived[g] = group_size

IsLastToArrive(g) == arrived[g] = group_size - 1

\* group_barrier(): a block notes the sense and arrives, and is the last or waits.
\* The sense cannot change between the two, for want of this block.
Arrive(g, b) ==
  /\ At(g, b, "arrives")
  /\ arrived' = [arrived EXCEPT ![g] = @ + 1]
  /\ Becomes(g, b, [block[g][b] EXCEPT !.seen = sense[g],
                      !.at = IF IsLastToArrive(g) THEN "resets" ELSE "waits"])
  /\ UNCHANGED <<plan, stage, launches, sorting, contrib, y, sched, sense>>

\* Past the barrier: the next phase, or the next expert by the group's ticket.
Passed(g, b) ==
  LET x == block[g][b]
  IN IF x.phase < 5 THEN NextPhase(x)
     ELSE [x EXCEPT !.at = "reads"]

Reset(g, b) ==
  /\ At(g, b, "resets")
  /\ arrived' = [arrived EXCEPT ![g] = 0]
  /\ Becomes(g, b, [block[g][b] EXCEPT !.at = "flips"])
  /\ UNCHANGED <<plan, stage, launches, sorting, contrib, y, sched, sense>>

Flip(g, b) ==
  /\ At(g, b, "flips")
  /\ sense' = [sense EXCEPT ![g] = 1 - block[g][b].seen]
  /\ Becomes(g, b, Passed(g, b))
  /\ UNCHANGED <<plan, stage, launches, sorting, contrib, y, sched, arrived>>

\* Mutant: any block that arrived goes on.
MayPassAtOnce(g, b) == TRUE

MayPass(g, b) == sense[g] # block[g][b].seen

Pass(g, b) ==
  /\ At(g, b, "waits") /\ MayPass(g, b)
  /\ Becomes(g, b, Passed(g, b))
  /\ UNCHANGED <<plan, stage, launches, sorting, contrib, y, sched, barrier>>

\* The ticket of the group, which another expert's end must not have replaced.
ReadTicket(g, b) ==
  /\ At(g, b, "reads")
  /\ Becomes(g, b, Enter(b, slot[g], block[g][b].expert + 1, block[g][b].shares))
  /\ UNCHANGED <<plan, stage, launches, sorting, contrib, y, sched, barrier>>

\* Mutant: no group is the last one.
NoLastGroup == FALSE

IsLastGroup == retired = num_groups - 1

\* The last group to retire resets the scheduler for the next launch.
Retire(g) ==
  /\ At(g, 0, "retires")
  /\ retired' = IF IsLastGroup THEN 0 ELSE retired + 1
  /\ next' = IF IsLastGroup THEN 0 ELSE next
  /\ Becomes(g, 0, [block[g][0] EXCEPT !.at = "ended"])
  /\ UNCHANGED <<plan, stage, launches, sorting, contrib, y, slot, barrier>>

BlockStep(g, b) ==
  \/ Work(g, b) \/ (b = 0 /\ Draw(g)) \/ Arrive(g, b) \/ Reset(g, b) \/ Flip(g, b)
  \/ Pass(g, b) \/ ReadTicket(g, b) \/ (b = 0 /\ Retire(g))

-----------------------------------------------------------------------------
(* After the kernel.                                                       *)

KernelEnded ==
  stage = "runs" /\ \A g \in DOMAIN block : \A b \in DOMAIN block[g] : block[g][b].at = "ended"

\* Mutant: the rows of a token in the order they are sorted in.
SummedAsSorted(t, j) ==
  LET mine == {p \in DOMAIN row : Token(row[p]) = t}
  IN contrib[CHOOSE p \in mine : Cardinality({q \in mine : q < p}) = j - 1]

\* The term of rank j, found through route_to_sorted.
Summed(t, j) == contrib[place[t * TopK + j]]

\* moe_reduce_sorted, in the stream after the kernel.
Reduce ==
  /\ KernelEnded
  /\ y' = [t \in {Token(i) : i \in Routes} |-> [j \in 1..TopK |-> Summed(t, j)]]
  /\ stage' = "idle" /\ block' = <<>>
  /\ UNCHANGED <<plan, launches, sorting, contrib, sched, barrier>>

MoeHost == CountTokens \/ (\E i \in Routes : Scatter(i)) \/ LaunchKernel \/ Reduce

MoeNext == MoeHost \/ \E g \in DOMAIN block : \E b \in DOMAIN block[g] : BlockStep(g, b)

\* Every block is on a multiprocessor of its own and runs.
MoeFairness ==
  /\ WF_moe(MoeHost)
  /\ \A g \in 0..(Concurrency - 1), b \in 0..(MaxWidth - 1) : WF_moe(BlockStep(g, b))

MoeSpec == MoeInit /\ [][MoeNext]_moe /\ MoeFairness

-----------------------------------------------------------------------------
(* Properties.                                                             *)

\* docs/benchmarks/determinism-report.md:19: one owner per contribution, and the
\* sum in the order of the routing, whatever the cursors did.  Every token's sum
\* is the contributions of its own experts to this launch, computed for it with
\* its own weights, in the order of their ranks; none is missing, none is left
\* from an earlier launch, whatever groups drew which experts.
SumsInRoutingOrder ==
  stage = "idle" =>
    \A t \in DOMAIN y : \A j \in 1..TopK :
      y[t][j] = [expert |-> ids[t * TopK + j], route |-> t * TopK + j]

\* The blocks of a group share its buffers, which the next phase overwrites: no
\* block works on a phase that another has not finished the one before of, and
\* blocks in the same phase are in it for the same expert.
GroupInStep ==
  stage = "runs" =>
    \A g \in DOMAIN block : \A b, c \in DOMAIN block[g] :
      LET x == block[g][b]  z == block[g][c] IN
      x.at = "works" => /\ z.shares >= x.shares
                        /\ z.at = "works" /\ z.shares = x.shares => z.expert = x.expert

LaunchesEnded == launches = Len(plan) /\ stage = "idle"

-----------------------------------------------------------------------------
(* Proofs.  What is assumed of the sizes, and of the launches: routes are   *)
(* experts, as many per token, and the rows of a call fit an expert's buffer *)
(* (runner.cpp:154), since a token names an expert once.                     *)

SizesAssumed ==
  /\ {TopK, NExperts, MaxTokens, SMs, Concurrency, Width, MaxWidth} \subseteq Nat \ {0}
  /\ \A p \in Plans : p \in Seq(Seq(1..NExperts)) /\ \A l \in DOMAIN p :
       /\ Len(p[l]) % TopK = 0
       /\ \A e \in 1..NExperts : Cardinality({i \in DOMAIN p[l] : p[l][i] = e}) <= MaxTokens
  /\ Concurrency * Width <= SMs

LEMMA DivMod ==
  ASSUME NEW a \in Nat, NEW d \in Nat \ {0}
  PROVE  a \div d \in Nat /\ (a % d) \in 0..(d - 1) /\ a = d * (a \div d) + (a % d)
OBVIOUS

LEMMA Times ==
  ASSUME NEW a \in Nat, NEW b \in Nat
  PROVE  a * b \in Nat /\ a * b = b * a
OBVIOUS

LEMMA TimesMore ==
  ASSUME NEW d \in Nat, NEW a \in Nat, NEW b \in Nat, a < b
  PROVE  d * a + d <= d * b
<1>1. b - a - 1 \in Nat
  OBVIOUS
<1>2. d * (b - a - 1) >= 0
  BY <1>1
<1>3. d * (b - a - 1) = d * b - d * a - d
  OBVIOUS
<1> QED
  BY <1>2, <1>3

LEMMA Counted ==
  ASSUME NEW S \in SUBSET Nat, 0 \in S, \A n \in S : n + 1 \in S
  PROVE  S = Nat
<1> SUFFICES ASSUME Nat \ S # {} PROVE FALSE
  OBVIOUS
<1>1. \E x \in Nat \ S : \A z \in Nat \ S : ~(<<z, x>> \in OpToRel(<, Nat))
  BY NatLessThanWellFounded, WFMin
<1>2. PICK x \in Nat \ S : \A z \in Nat \ S : ~(z < x)
  BY <1>1 DEF OpToRel
<1>3. x # 0 /\ x - 1 \in Nat /\ x - 1 < x /\ x - 1 + 1 = x
  BY <1>2
<1>4. x - 1 \in S
  BY <1>2, <1>3
<1> QED
  BY <1>2, <1>3, <1>4

-----------------------------------------------------------------------------
(* The experts: the groups of blocks and their barriers.                   *)

Stops  == {"works", "draws", "arrives", "waits", "resets", "flips", "reads", "retires", "ended"}
States == [at : Stops, expert : Nat, phase : 1..5, seen : {0, 1}, shares : Nat]

\* At the barrier, which has not opened for it; and past it, without having moved.
Came(g, x)   == x.at \in {"resets", "flips"} \/ (x.at = "waits" /\ x.seen = sense[g])
Behind(g, x) == x.at = "reads" \/ (x.at = "waits" /\ x.seen # sense[g])

Come(g) == {b \in DOMAIN block[g] : Came(g, block[g][b])}

\* The barrier counts who came; the last one opens it when all the others wait.
Counts(g) ==
  /\ arrived[g] = IF \E b \in DOMAIN block[g] : block[g][b].at = "flips" THEN 0 ELSE Cardinality(Come(g))
  /\ \A b \in DOMAIN block[g] : block[g][b].at \in {"resets", "flips"} =>
       /\ block[g][b].seen = sense[g]
       /\ \A c \in DOMAIN block[g] \ {b} : block[g][c].at = "waits" /\ block[g][c].seen = sense[g]

\* The group has been through its barrier `rounds` times, to a phase of an expert:
\* a block is in it, or has what leads there.
Fits(g, x, rounds, expert, nth) ==
  /\ x.shares = IF x.at \in {"draws", "arrives"} \/ Came(g, x) THEN rounds + 1 ELSE rounds
  /\ x.at \in {"works", "draws", "arrives"} \/ Came(g, x) => x.expert = expert /\ x.phase = nth
  /\ x.at = "draws" => nth = 5
  /\ x.at = "reads" => x.phase = 5
  /\ x.at \in {"retires", "ended"} => expert = 0 /\ nth = 1
  /\ Behind(g, x) /\ x.phase < 5 => expert = x.expert /\ nth = x.phase + 1
  /\ Behind(g, x) /\ x.phase = 5 => expert = Claimed(slot[g], x.expert + 1) /\ nth = 1

Together(g, rounds, expert, nth) == \A b \in DOMAIN block[g] : Fits(g, block[g][b], rounds, expert, nth)

GroupInv(g) ==
  Counts(g) /\ \E rounds \in Nat, expert \in Nat, nth \in 1..5 : Together(g, rounds, expert, nth)

MoeTypes ==
  /\ next \in Nat /\ retired \in Nat
  /\ slot \in [0..(Concurrency - 1) -> Nat] /\ arrived \in [0..(Concurrency - 1) -> Nat]
  /\ sense \in [0..(Concurrency - 1) -> {0, 1}]
  /\ stage = "runs" => \E n \in 1..Concurrency, size \in Nat \ {0} :
                         block \in [0..(n - 1) -> [0..(size - 1) -> States]]

MoeInv ==
  /\ MoeTypes
  /\ \A g \in 0..(Concurrency - 1) : stage # "runs" \/ g \notin DOMAIN block => arrived[g] = 0
  /\ stage = "runs" => \A g \in DOMAIN block : GroupInv(g)

LEMMA MinOfTwo ==
  ASSUME NEW a \in Int, NEW b \in Int
  PROVE  Min({a, b}) \in {a, b} /\ Min({a, b}) <= a /\ Min({a, b}) <= b
<1> DEFINE S == {a, b}
<1>1. \E x \in S : \A z \in S : x =< z
  OBVIOUS
<1>2. Min(S) \in S /\ \A z \in S : Min(S) =< z
  <2> HIDE DEF S
  <2> QED
    BY <1>1 DEF Min
<1> QED
  BY <1>2

\* What a group's blocks are, when the kernel runs.
LEMMA ShapeOfGrid ==
  ASSUME SizesAssumed, MoeTypes, stage = "runs", NEW g \in DOMAIN block
  PROVE  /\ g \in 0..(Concurrency - 1) /\ g \in Nat
         /\ IsFiniteSet(DOMAIN block[g]) /\ block[g] \in [DOMAIN block[g] -> States]
         /\ DOMAIN block[g] # {} => group_size = Cardinality(DOMAIN block[g])
<1>1. PICK n \in 1..Concurrency, size \in Nat \ {0} : block \in [0..(n - 1) -> [0..(size - 1) -> States]]
  BY DEF MoeTypes
<1>2. Concurrency \in Nat
  BY DEF SizesAssumed
<1>3. DOMAIN block = 0..(n - 1) /\ 0 \in DOMAIN block /\ DOMAIN block[0] = 0..(size - 1) /\ DOMAIN block[g] = 0..(size - 1)
  BY <1>1, <1>2
<1>4. IsFiniteSet(0..(size - 1))
  BY FS_Interval, <1>1
<1>5. g \in 0..(Concurrency - 1) /\ g \in Nat
  BY <1>1, <1>2, <1>3
<1>6. block[g] \in [DOMAIN block[g] -> States]
  BY <1>1, <1>3
<1>7. group_size = Cardinality(DOMAIN block[g])
  <2>1. DOMAIN block[0] = DOMAIN block[g]
    BY <1>3
  <2> QED
    BY <2>1 DEF group_size
<1> QED
  BY <1>3, <1>4, <1>5, <1>6, <1>7

\* The ticket stands for the same expert as long as the routing is.
LEMMA SameClaims ==
  ASSUME UNCHANGED ids
  PROVE  \A t, f : Claimed(t, f)' = Claimed(t, f)
BY DEF Claimed, Active, IsActive, Count, Routes

LEMMA ClaimedTyped ==
  ASSUME SizesAssumed, NEW t, NEW f
  PROVE  Claimed(t, f) \in Nat
<1>1. PICK found : found = {e \in Active : e >= f /\ Cardinality({d \in Active : d < e}) = t}
  OBVIOUS
<1>2. Claimed(t, f) = IF found = {} THEN 0 ELSE CHOOSE e \in found : TRUE
  BY <1>1 DEF Claimed
<1>3. found \in SUBSET Nat
  BY <1>1 DEF Active, SizesAssumed
<1>4. PICK e : e = CHOOSE d \in found : TRUE
  OBVIOUS
<1>5. found # {} => e \in found
  BY <1>4
<1>6. Claimed(t, f) = IF found = {} THEN 0 ELSE e
  BY <1>2, <1>4
<1>7. CASE found = {}
  BY <1>6, <1>7
<1>8. CASE found # {}
  <2>1. e \in Nat
    BY <1>3, <1>5, <1>8
  <2> QED
    BY <1>6, <1>8, <2>1
<1> QED
  BY <1>7, <1>8

\* A step of a block of one group: the others are as they were.
LEMMA GroupMoves ==
  ASSUME SizesAssumed, MoeInv, stage = "runs", NEW g \in DOMAIN block, NEW b \in DOMAIN block[g], NEW r \in States,
         block' = [block EXCEPT ![g][b] = r], UNCHANGED <<stage, ids>>,
         next' \in Nat, retired' \in Nat,
         slot' \in [0..(Concurrency - 1) -> Nat], arrived' \in [0..(Concurrency - 1) -> Nat],
         sense' \in [0..(Concurrency - 1) -> {0, 1}],
         \A h \in 0..(Concurrency - 1) : h # g => slot'[h] = slot[h] /\ arrived'[h] = arrived[h] /\ sense'[h] = sense[h],
         GroupInv(g)'
  PROVE  MoeInv'
<1>1. MoeTypes
  BY DEF MoeInv
<1>2. PICK n \in 1..Concurrency, size \in Nat \ {0} : block \in [0..(n - 1) -> [0..(size - 1) -> States]]
  BY <1>1 DEF MoeTypes
<1>3. block' \in [0..(n - 1) -> [0..(size - 1) -> States]] /\ DOMAIN block' = DOMAIN block
      /\ \A h \in DOMAIN block : h # g => block'[h] = block[h]
  BY <1>2
<1>4. MoeTypes'
  BY <1>2, <1>3 DEF MoeTypes
<1>5. ASSUME NEW h \in DOMAIN block' PROVE GroupInv(h)'
  <2>1. CASE h = g
    BY <2>1
  <2>2. CASE h # g
    <3>1. h \in DOMAIN block /\ h \in 0..(Concurrency - 1) /\ block'[h] = block[h] /\ GroupInv(h)
      BY <1>1, <1>3, <1>5, <2>2, ShapeOfGrid DEF MoeInv
    <3>2. slot'[h] = slot[h] /\ arrived'[h] = arrived[h] /\ sense'[h] = sense[h]
      BY <2>2, <3>1
    <3>3. \A x : Came(h, x)' = Came(h, x) /\ Behind(h, x)' = Behind(h, x)
      BY <3>2 DEF Came, Behind
    <3>4. Counts(h)'
      <4>1. Come(h)' = Come(h)
        BY <3>1, <3>2 DEF Come, Came
      <4> QED
        BY <3>1, <3>2, <4>1 DEF GroupInv, Counts
    <3>5. PICK rounds \in Nat, expert \in Nat, nth \in 1..5 : Together(h, rounds, expert, nth)
      BY <3>1 DEF GroupInv
    <3>6. Together(h, rounds, expert, nth)'
      <4>1. \A t, f : Claimed(t, f)' = Claimed(t, f)
        BY SameClaims
      <4> QED
        BY <3>1, <3>2, <3>5, <4>1 DEF Together, Fits, Came, Behind
    <3> QED
      BY <3>4, <3>5, <3>6 DEF GroupInv
  <2> QED
    BY <2>1, <2>2
<1>6. \A h \in 0..(Concurrency - 1) : stage' # "runs" \/ h \notin DOMAIN block' => arrived'[h] = 0
  BY <1>3 DEF MoeInv
<1> QED
  BY <1>4, <1>5, <1>6 DEF MoeInv

\* A step of a block, from where its group stands.
LEMMA BlockSteps ==
  ASSUME SizesAssumed, MoeInv, NEW g, NEW b, NEW stop, At(g, b, stop)
  PROVE  /\ MoeTypes /\ stage = "runs" /\ g \in DOMAIN block /\ b \in DOMAIN block[g]
         /\ block[g][b] \in States /\ block[g][b].at = stop /\ GroupInv(g)
         /\ g \in 0..(Concurrency - 1) /\ sense[g] \in {0, 1} /\ arrived[g] \in Nat
<1>1. MoeTypes /\ stage = "runs" /\ g \in DOMAIN block /\ b \in DOMAIN block[g] /\ block[g][b].at = stop
  BY DEF MoeInv, At
<1>2. g \in 0..(Concurrency - 1) /\ block[g][b] \in States
  BY <1>1, ShapeOfGrid
<1> QED
  BY <1>1, <1>2 DEF MoeInv, MoeTypes

\* A block of a group changes, the others do not.
LEMMA OneChanges ==
  ASSUME MoeTypes, stage = "runs", NEW g \in DOMAIN block, NEW b \in DOMAIN block[g], NEW r,
         Becomes(g, b, r)
  PROVE  /\ DOMAIN block'[g] = DOMAIN block[g] /\ block'[g][b] = r
         /\ \A c \in DOMAIN block[g] : c # b => block'[g][c] = block[g][c]
         /\ block' = [block EXCEPT ![g][b] = r]
<1>1. PICK n \in 1..Concurrency, size \in Nat \ {0} : block \in [0..(n - 1) -> [0..(size - 1) -> States]]
  BY DEF MoeTypes
<1> QED
  BY <1>1 DEF Becomes

\* Where the others stand does not depend on it.
LEMMA OneFits ==
  ASSUME MoeTypes, stage = "runs", NEW g \in DOMAIN block, NEW b \in DOMAIN block[g], NEW r,
         Becomes(g, b, r), NEW rounds, NEW expert, NEW nth, Together(g, rounds, expert, nth),
         UNCHANGED ids, slot'[g] = slot[g], sense'[g] = sense[g], Fits(g, r, rounds, expert, nth)
  PROVE  Together(g, rounds, expert, nth)'
<1>1. \A t, f : Claimed(t, f)' = Claimed(t, f)
  BY SameClaims
<1>2. \A x : Fits(g, x, rounds, expert, nth) => Fits(g, x, rounds, expert, nth)'
  BY <1>1 DEF Fits, Came, Behind
<1> QED
  BY <1>2, OneChanges DEF Together

\* Who is not at the barrier, before or after, leaves its count alone.
LEMMA OneWalks ==
  ASSUME MoeTypes, stage = "runs", NEW g \in DOMAIN block, NEW b \in DOMAIN block[g], NEW r,
         Becomes(g, b, r), Counts(g), ~Came(g, block[g][b]), ~Came(g, r),
         arrived'[g] = arrived[g], sense'[g] = sense[g]
  PROVE  Counts(g)'
<1>1. /\ DOMAIN block'[g] = DOMAIN block[g] /\ block'[g][b] = r
      /\ \A c \in DOMAIN block[g] : c # b => block'[g][c] = block[g][c]
  BY OneChanges
<1>2. \A x : Came(g, x)' = Came(g, x)
  BY DEF Came
<1>3. Come(g)' = Come(g)
  BY <1>1, <1>2 DEF Come
<1>4. (\E c \in DOMAIN block[g] : block[g][c].at = "flips")
        <=> (\E c \in DOMAIN block'[g] : block'[g][c].at = "flips")
  BY <1>1 DEF Came
<1>5. \A c \in DOMAIN block[g] : block[g][c].at \notin {"resets", "flips"}
  BY DEF Counts, Came
<1>6. \A c \in DOMAIN block'[g] : block'[g][c].at \notin {"resets", "flips"}
  BY <1>1, <1>5 DEF Came
<1> QED
  BY <1>3, <1>4, <1>6 DEF Counts

LEMMA MoeWorks ==
  ASSUME SizesAssumed, MoeInv, NEW g, NEW b, Work(g, b)
  PROVE  MoeInv'
<1>1. /\ At(g, b, "works") /\ UNCHANGED <<stage, ids, next, retired, slot, arrived, sense>>
  BY DEF Work, sorting, sched, barrier
<1>2. /\ MoeTypes /\ stage = "runs" /\ g \in DOMAIN block /\ b \in DOMAIN block[g]
      /\ block[g][b] \in States /\ block[g][b].at = "works" /\ GroupInv(g) /\ g \in 0..(Concurrency - 1)
  BY <1>1, BlockSteps
<1>3. PICK x : x = block[g][b]
  OBVIOUS
<1>4. PICK stop : stop = IF x.phase = 5 /\ b = 0 THEN "draws" ELSE "arrives"
  OBVIOUS
<1> DEFINE r == [x EXCEPT !.at = stop, !.shares = @ + 1]
<1>5. Becomes(g, b, r)
  BY <1>3, <1>4 DEF Work
<1>6. r \in States /\ r.at \in {"draws", "arrives"} /\ (r.at = "draws" => x.phase = 5)
      /\ r.expert = x.expert /\ r.phase = x.phase /\ r.shares = x.shares + 1
  <2>1. stop \in Stops /\ stop \in {"draws", "arrives"} /\ (stop = "draws" => x.phase = 5)
    BY <1>4 DEF Stops
  <2>2. x \in States
    BY <1>2, <1>3
  <2>3. r.at = stop /\ r.expert = x.expert /\ r.phase = x.phase /\ r.seen = x.seen /\ r.shares = x.shares + 1
    BY <2>2 DEF States
  <2>4. x.shares + 1 \in Nat
    BY <2>2 DEF States
  <2>5. r \in States
    BY <2>1, <2>2, <2>4 DEF States
  <2> QED
    BY <2>1, <2>3, <2>5
<1> HIDE DEF r
<1>7. ~Came(g, x) /\ ~Came(g, r) /\ ~Behind(g, r)
  BY <1>2, <1>3, <1>6 DEF Came, Behind
<1>8. Counts(g)'
  BY <1>1, <1>2, <1>3, <1>5, <1>7, OneWalks DEF GroupInv
<1>9. PICK rounds \in Nat, expert \in Nat, nth \in 1..5 : Together(g, rounds, expert, nth)
  BY <1>2 DEF GroupInv
<1>10. Fits(g, x, rounds, expert, nth)
  BY <1>2, <1>3, <1>9 DEF Together
<1>11. Fits(g, r, rounds, expert, nth)
  BY <1>2, <1>3, <1>6, <1>7, <1>10 DEF Fits
<1>12. Together(g, rounds, expert, nth)'
  BY <1>1, <1>2, <1>5, <1>9, <1>11, OneFits
<1>13. GroupInv(g)'
  BY <1>8, <1>9, <1>12 DEF GroupInv
<1>14. block' = [block EXCEPT ![g][b] = r]
  BY <1>2, <1>5, OneChanges
<1> QED
  BY <1>1, <1>2, <1>6, <1>13, <1>14, GroupMoves DEF MoeTypes

LEMMA PassedOn ==
  ASSUME NEW g, NEW b, NEW x \in States, x = block[g][b], NEW r, r = Passed(g, b)
  PROVE  /\ r \in States /\ r.expert = x.expert /\ r.shares = x.shares
         /\ IF x.phase < 5 THEN r.at = "works" /\ r.phase = x.phase + 1 ELSE r.at = "reads" /\ r.phase = 5
<1>1. CASE x.phase < 5
  <2>1. r = [x EXCEPT !.phase = x.phase + 1, !.at = "works"]
    BY <1>1 DEF Passed, NextPhase
  <2>2. x.phase + 1 \in 1..5
    BY <1>1 DEF States
  <2>3. r.expert = x.expert /\ r.shares = x.shares /\ r.at = "works" /\ r.phase = x.phase + 1
    BY <2>1 DEF States
  <2>4. r \in States
    BY <2>1, <2>2 DEF States, Stops
  <2> QED
    BY <1>1, <2>3, <2>4
<1>2. CASE ~(x.phase < 5)
  <2>1. r = [x EXCEPT !.at = "reads"]
    BY <1>2 DEF Passed
  <2>2. r.expert = x.expert /\ r.shares = x.shares /\ r.at = "reads" /\ r.phase = x.phase
    BY <2>1 DEF States
  <2>3. x.phase = 5
    BY <1>2 DEF States
  <2>4. r \in States
    BY <2>1 DEF States, Stops
  <2> QED
    BY <1>2, <2>2, <2>3, <2>4
<1> QED
  BY <1>1, <1>2

LEMMA Entered ==
  ASSUME SizesAssumed, NEW b, NEW t, NEW f, NEW n \in Nat, NEW r, r = Enter(b, t, f, n)
  PROVE  /\ r \in States /\ r.expert = Claimed(t, f) /\ r.phase = 1 /\ r.seen = 0 /\ r.shares = n
         /\ r.at \in {"works", "retires", "ended"} /\ (r.at \in {"retires", "ended"} <=> Claimed(t, f) = 0)
<1>1. PICK e : e = Claimed(t, f)
  OBVIOUS
<1>2. e \in Nat
  BY <1>1, ClaimedTyped
<1>3. PICK stop : stop = IF e # 0 THEN "works" ELSE IF b = 0 THEN "retires" ELSE "ended"
  OBVIOUS
<1>4. stop \in Stops /\ stop \in {"works", "retires", "ended"} /\ (stop \in {"retires", "ended"} <=> e = 0)
  BY <1>3 DEF Stops
<1>5. r = [at |-> stop, expert |-> e, phase |-> 1, seen |-> 0, shares |-> n]
  BY <1>1, <1>3 DEF Enter
<1> QED
  BY <1>1, <1>2, <1>4, <1>5 DEF States

LEMMA MoePasses ==
  ASSUME SizesAssumed, MoeInv, NEW g, NEW b, Pass(g, b)
  PROVE  MoeInv'
<1>1. At(g, b, "waits") /\ UNCHANGED <<stage, ids, slot, arrived, sense>> /\ next' \in Nat /\ retired' \in Nat
  BY DEF Pass, sorting, sched, barrier, MoeInv, MoeTypes
<1>2. /\ MoeTypes /\ stage = "runs" /\ g \in DOMAIN block /\ b \in DOMAIN block[g]
      /\ block[g][b] \in States /\ block[g][b].at = "waits" /\ GroupInv(g) /\ g \in 0..(Concurrency - 1)
  BY <1>1, BlockSteps
<1>3. PICK x : x = block[g][b]
  OBVIOUS
<1>4. PICK rounds \in Nat, expert \in Nat, nth \in 1..5 : Together(g, rounds, expert, nth)
  BY <1>2 DEF GroupInv
<1>5. Fits(g, x, rounds, expert, nth) /\ x \in States /\ x.at = "waits"
  BY <1>2, <1>3, <1>4 DEF Together
<1>6. PICK r : Becomes(g, b, r) /\ r = Passed(g, b)
  BY DEF Pass
<1>7. r \in States /\ r.expert = x.expert /\ r.shares = x.shares
      /\ IF x.phase < 5 THEN r.at = "works" /\ r.phase = x.phase + 1 ELSE r.at = "reads" /\ r.phase = 5
  BY <1>3, <1>5, <1>6, PassedOn
<1>8. ~Came(g, r) /\ Fits(g, r, rounds, expert, nth)
  <2>1. sense[g] # x.seen
    BY <1>3 DEF Pass, MayPass
  <2>2. Behind(g, x) /\ ~Came(g, x)
    BY <1>5, <2>1 DEF Behind, Came
  <2>3. ~Came(g, r) /\ (Behind(g, r) <=> r.at = "reads")
    BY <1>7 DEF Behind, Came
  <2>4. CASE x.phase < 5
    BY <1>5, <1>7, <2>2, <2>3, <2>4 DEF Fits
  <2>5. CASE x.phase = 5
    BY <1>5, <1>7, <2>2, <2>3, <2>5 DEF Fits
  <2> QED
    BY <1>5, <2>3, <2>4, <2>5 DEF States
<1>9. ~Came(g, x)
  <2>1. sense[g] # x.seen
    BY <1>3 DEF Pass, MayPass
  <2> QED
    BY <1>5, <2>1 DEF Came
<1>10. Counts(g)'
  BY <1>1, <1>2, <1>3, <1>6, <1>8, <1>9, OneWalks DEF GroupInv
<1>11. Together(g, rounds, expert, nth)'
  BY <1>1, <1>2, <1>4, <1>6, <1>8, OneFits
<1>12. GroupInv(g)'
  BY <1>4, <1>10, <1>11 DEF GroupInv
<1>13. block' = [block EXCEPT ![g][b] = r]
  BY <1>2, <1>6, OneChanges
<1> QED
  BY <1>1, <1>2, <1>7, <1>12, <1>13, GroupMoves DEF MoeTypes

LEMMA MoeReadsTicket ==
  ASSUME SizesAssumed, MoeInv, NEW g, NEW b, ReadTicket(g, b)
  PROVE  MoeInv'
<1>1. At(g, b, "reads") /\ UNCHANGED <<stage, ids, slot, arrived, sense>> /\ next' \in Nat /\ retired' \in Nat
  BY DEF ReadTicket, sorting, sched, barrier, MoeInv, MoeTypes
<1>2. /\ MoeTypes /\ stage = "runs" /\ g \in DOMAIN block /\ b \in DOMAIN block[g]
      /\ block[g][b] \in States /\ block[g][b].at = "reads" /\ GroupInv(g) /\ g \in 0..(Concurrency - 1)
  BY <1>1, BlockSteps
<1>3. PICK x : x = block[g][b]
  OBVIOUS
<1>4. PICK rounds \in Nat, expert \in Nat, nth \in 1..5 : Together(g, rounds, expert, nth)
  BY <1>2 DEF GroupInv
<1>5. Fits(g, x, rounds, expert, nth) /\ x \in States /\ x.at = "reads"
  BY <1>2, <1>3, <1>4 DEF Together
<1>6. PICK r : Becomes(g, b, r) /\ r = Enter(b, slot[g], x.expert + 1, x.shares)
  BY <1>3 DEF ReadTicket
<1>7. r \in States /\ r.expert = Claimed(slot[g], x.expert + 1) /\ r.phase = 1 /\ r.shares = x.shares
      /\ r.at \in {"works", "retires", "ended"}
      /\ (r.at \in {"retires", "ended"} => Claimed(slot[g], x.expert + 1) = 0)
  <2>1. PICK t : t = slot[g]
    OBVIOUS
  <2>2. PICK f : f = x.expert + 1
    OBVIOUS
  <2>3. PICK n : n = x.shares
    OBVIOUS
  <2>4. n \in Nat
    BY <1>5, <2>3 DEF States
  <2>5. r = Enter(b, t, f, n)
    BY <1>6, <2>1, <2>2, <2>3
  <2>6. r \in States /\ r.expert = Claimed(t, f) /\ r.phase = 1 /\ r.shares = n
        /\ r.at \in {"works", "retires", "ended"} /\ (r.at \in {"retires", "ended"} => Claimed(t, f) = 0)
    BY <2>4, <2>5, Entered
  <2> QED
    BY <2>1, <2>2, <2>3, <2>6
<1>8. ~Came(g, r) /\ Fits(g, r, rounds, expert, nth)
  <2>1. Behind(g, x) /\ ~Came(g, x) /\ ~Came(g, r) /\ ~Behind(g, r)
    BY <1>5, <1>7 DEF Behind, Came
  <2> QED
    BY <1>5, <1>7, <2>1 DEF Fits
<1>9. ~Came(g, x)
  BY <1>5 DEF Came
<1>10. Counts(g)'
  BY <1>1, <1>2, <1>3, <1>6, <1>8, <1>9, OneWalks DEF GroupInv
<1>11. Together(g, rounds, expert, nth)'
  BY <1>1, <1>2, <1>4, <1>6, <1>8, OneFits
<1>12. GroupInv(g)'
  BY <1>4, <1>10, <1>11 DEF GroupInv
<1>13. block' = [block EXCEPT ![g][b] = r]
  BY <1>2, <1>6, OneChanges
<1> QED
  BY <1>1, <1>2, <1>7, <1>12, <1>13, GroupMoves DEF MoeTypes

LEMMA MoeRetires ==
  ASSUME SizesAssumed, MoeInv, NEW g, NEW b, b = 0, Retire(g)
  PROVE  MoeInv'
<1>1. At(g, b, "retires") /\ UNCHANGED <<stage, ids, slot, arrived, sense>> /\ next' \in Nat /\ retired' \in Nat
  BY DEF Retire, sorting, sched, barrier, MoeInv, MoeTypes
<1>2. /\ MoeTypes /\ stage = "runs" /\ g \in DOMAIN block /\ b \in DOMAIN block[g]
      /\ block[g][b] \in States /\ block[g][b].at = "retires" /\ GroupInv(g) /\ g \in 0..(Concurrency - 1)
  BY <1>1, BlockSteps
<1>3. PICK x : x = block[g][b]
  OBVIOUS
<1>4. PICK rounds \in Nat, expert \in Nat, nth \in 1..5 : Together(g, rounds, expert, nth)
  BY <1>2 DEF GroupInv
<1>5. Fits(g, x, rounds, expert, nth) /\ x \in States /\ x.at = "retires"
  BY <1>2, <1>3, <1>4 DEF Together
<1>6. PICK r : Becomes(g, b, r) /\ r = [x EXCEPT !.at = "ended"]
  BY <1>3 DEF Retire
<1>7. r \in States /\ r.at = "ended" /\ r.shares = x.shares
  BY <1>5, <1>6 DEF States, Stops
<1>8. ~Came(g, r) /\ Fits(g, r, rounds, expert, nth)
  <2>1. ~Came(g, x) /\ ~Came(g, r) /\ ~Behind(g, r)
    BY <1>5, <1>7 DEF Behind, Came
  <2> QED
    BY <1>5, <1>7, <2>1 DEF Fits
<1>9. ~Came(g, x)
  BY <1>5 DEF Came
<1>10. Counts(g)'
  BY <1>1, <1>2, <1>3, <1>6, <1>8, <1>9, OneWalks DEF GroupInv
<1>11. Together(g, rounds, expert, nth)'
  BY <1>1, <1>2, <1>4, <1>6, <1>8, OneFits
<1>12. GroupInv(g)'
  BY <1>4, <1>10, <1>11 DEF GroupInv
<1>13. block' = [block EXCEPT ![g][b] = r]
  BY <1>2, <1>6, OneChanges
<1> QED
  BY <1>1, <1>2, <1>7, <1>12, <1>13, GroupMoves DEF MoeTypes

\* A ticket is drawn in the last phase: nobody still has the old one to read.
LEMMA MoeDraws ==
  ASSUME SizesAssumed, MoeInv, NEW g, Draw(g)
  PROVE  MoeInv'
<1>1. /\ At(g, 0, "draws") /\ UNCHANGED <<stage, ids, retired, arrived, sense>>
      /\ slot' = [slot EXCEPT ![g] = Drawn] /\ next' = next + 1
  BY DEF Draw, sorting, barrier
<1>2. /\ MoeTypes /\ stage = "runs" /\ g \in DOMAIN block /\ 0 \in DOMAIN block[g]
      /\ block[g][0] \in States /\ block[g][0].at = "draws" /\ GroupInv(g) /\ g \in 0..(Concurrency - 1)
  BY <1>1, BlockSteps
<1>3. PICK x : x = block[g][0]
  OBVIOUS
<1>4. PICK rounds \in Nat, expert \in Nat, nth \in 1..5 : Together(g, rounds, expert, nth)
  BY <1>2 DEF GroupInv
<1>5. Fits(g, x, rounds, expert, nth) /\ x \in States /\ x.at = "draws" /\ nth = 5
  BY <1>2, <1>3, <1>4 DEF Together, Fits
<1>6. PICK r : Becomes(g, 0, r) /\ r = [x EXCEPT !.at = "arrives"]
  BY <1>3 DEF Draw
<1>7. r \in States /\ r.at = "arrives" /\ r.shares = x.shares /\ r.expert = x.expert /\ r.phase = x.phase
  BY <1>5, <1>6 DEF States, Stops
<1>8. ~Came(g, x) /\ ~Came(g, r) /\ ~Behind(g, r)
  BY <1>5, <1>7 DEF Came, Behind
<1>9. Counts(g)'
  BY <1>1, <1>2, <1>3, <1>6, <1>8, OneWalks DEF GroupInv
<1>10. /\ DOMAIN block'[g] = DOMAIN block[g] /\ block'[g][0] = r
       /\ \A c \in DOMAIN block[g] : c # 0 => block'[g][c] = block[g][c]
       /\ block' = [block EXCEPT ![g][0] = r]
  BY <1>2, <1>6, OneChanges
<1>11. Together(g, rounds, expert, nth)'
  <2> SUFFICES ASSUME NEW c \in DOMAIN block'[g] PROVE Fits(g, block[g][c], rounds, expert, nth)'
    BY DEF Together
  <2>1. Fits(g, r, rounds, expert, nth)'
    <3>1. ~Came(g, r)' /\ ~Behind(g, r)'
      BY <1>7 DEF Came, Behind
    <3> QED
      BY <1>5, <1>7, <1>8, <3>1 DEF Fits
  <2>2. CASE c = 0
    BY <1>10, <2>1, <2>2
  <2>3. CASE c # 0
    <3>1. PICK z : z = block[g][c]
      OBVIOUS
    <3>2. block'[g][c] = z /\ Fits(g, z, rounds, expert, nth) /\ z \in States
      BY <1>2, <1>4, <1>10, <2>3, <3>1, ShapeOfGrid DEF Together
    <3>3. Came(g, z)' = Came(g, z) /\ Behind(g, z)' = Behind(g, z)
      BY <1>1 DEF Came, Behind
    <3>4. ~(Behind(g, z) /\ z.phase = 5)
      BY <1>5, <3>2 DEF Fits
    <3>5. Fits(g, z, rounds, expert, nth)'
      BY <3>2, <3>3, <3>4 DEF Fits
    <3> QED
      BY <3>2, <3>5
  <2> QED
    BY <2>2, <2>3
<1>12. GroupInv(g)'
  BY <1>4, <1>9, <1>11 DEF GroupInv
<1>13. Drawn \in Nat
  <2>1. PICK n \in 1..Concurrency, size \in Nat \ {0} : block \in [0..(n - 1) -> [0..(size - 1) -> States]]
    BY <1>2 DEF MoeTypes
  <2>2. DOMAIN block = 0..(n - 1) /\ n \in Nat
    BY <2>1 DEF SizesAssumed
  <2>3. num_groups = n
    <3>1. Cardinality(0..(n - 1)) = n
      BY <2>1, <2>2, FS_Interval
    <3> QED
      BY <2>2, <3>1 DEF num_groups
  <2> QED
    BY <1>2, <2>2, <2>3 DEF Drawn, MoeTypes
<1>14. slot' \in [0..(Concurrency - 1) -> Nat] /\ next' \in Nat /\ retired' \in Nat
       /\ \A h \in 0..(Concurrency - 1) : h # g => slot'[h] = slot[h]
  BY <1>1, <1>2, <1>13 DEF MoeTypes
<1>15. /\ arrived' \in [0..(Concurrency - 1) -> Nat] /\ sense' \in [0..(Concurrency - 1) -> {0, 1}]
       /\ \A h \in 0..(Concurrency - 1) : arrived'[h] = arrived[h] /\ sense'[h] = sense[h]
  BY <1>1, <1>2 DEF MoeTypes
<1>16. \A h \in 0..(Concurrency - 1) : h # g => slot'[h] = slot[h] /\ arrived'[h] = arrived[h] /\ sense'[h] = sense[h]
  BY <1>14, <1>15
<1>17. /\ MoeInv /\ stage = "runs" /\ g \in DOMAIN block /\ 0 \in DOMAIN block[g] /\ r \in States
       /\ block' = [block EXCEPT ![g][0] = r] /\ UNCHANGED <<stage, ids>> /\ GroupInv(g)'
  BY <1>1, <1>2, <1>7, <1>10, <1>12
<1> QED
  BY <1>14, <1>15, <1>16, <1>17, GroupMoves

\* The block whose arrival the count was waiting for finds all the others there.
LEMMA MoeArrives ==
  ASSUME SizesAssumed, MoeInv, NEW g, NEW b, Arrive(g, b)
  PROVE  MoeInv'
<1>1. /\ At(g, b, "arrives") /\ UNCHANGED <<stage, ids, next, retired, slot, sense>>
      /\ arrived' = [arrived EXCEPT ![g] = @ + 1]
  BY DEF Arrive, sorting, sched
<1>2. /\ MoeTypes /\ stage = "runs" /\ g \in DOMAIN block /\ b \in DOMAIN block[g]
      /\ block[g][b] \in States /\ block[g][b].at = "arrives" /\ GroupInv(g) /\ g \in 0..(Concurrency - 1)
      /\ sense[g] \in {0, 1} /\ arrived[g] \in Nat
  BY <1>1, BlockSteps
<1>3. PICK x : x = block[g][b]
  OBVIOUS
<1>4. PICK rounds \in Nat, expert \in Nat, nth \in 1..5 : Together(g, rounds, expert, nth)
  BY <1>2 DEF GroupInv
<1>5. Fits(g, x, rounds, expert, nth) /\ x \in States /\ x.at = "arrives"
  BY <1>2, <1>3, <1>4 DEF Together
<1>6. PICK stop : stop = IF IsLastToArrive(g) THEN "resets" ELSE "waits"
  OBVIOUS
<1>7. PICK r : Becomes(g, b, r) /\ r = [x EXCEPT !.seen = sense[g], !.at = stop]
  BY <1>3, <1>6 DEF Arrive
<1>8. r \in States /\ r.at = stop /\ r.seen = sense[g]
      /\ r.shares = x.shares /\ r.expert = x.expert /\ r.phase = x.phase
  <2>1. stop \in Stops
    BY <1>6 DEF Stops
  <2> QED
    BY <1>2, <1>5, <1>7, <2>1 DEF States
<1>9. ~Came(g, x) /\ Came(g, r) /\ ~Behind(g, r)
  BY <1>5, <1>6, <1>8 DEF Came, Behind
<1>10. /\ DOMAIN block'[g] = DOMAIN block[g] /\ block'[g][b] = r
       /\ \A c \in DOMAIN block[g] : c # b => block'[g][c] = block[g][c]
       /\ block' = [block EXCEPT ![g][b] = r]
  BY <1>2, <1>7, OneChanges
<1>11. \A c \in DOMAIN block[g] : block[g][c].at \notin {"resets", "flips"}
  BY <1>2 DEF GroupInv, Counts
<1>12. arrived[g] = Cardinality(Come(g)) /\ b \notin Come(g) /\ Come(g) \subseteq DOMAIN block[g]
  BY <1>2, <1>3, <1>9, <1>11 DEF GroupInv, Counts, Come
<1>13. IsFiniteSet(DOMAIN block[g]) /\ group_size = Cardinality(DOMAIN block[g])
  BY <1>2, ShapeOfGrid
<1>14. Come(g)' = Come(g) \union {b}
  BY <1>1, <1>2, <1>9, <1>10 DEF Come, Came
<1>15. IsFiniteSet(Come(g)) /\ Cardinality(Come(g) \union {b}) = arrived[g] + 1
  BY <1>12, <1>13, FS_Subset, FS_AddElement
<1>16. stop = "resets" => \A c \in DOMAIN block[g] \ {b} : block[g][c].at = "waits" /\ block[g][c].seen = sense[g]
  <2> SUFFICES ASSUME stop = "resets", NEW c \in DOMAIN block[g] \ {b}
               PROVE  block[g][c].at = "waits" /\ block[g][c].seen = sense[g]
    OBVIOUS
  <2>1. arrived[g] = Cardinality(DOMAIN block[g]) - 1
    BY <1>6, <1>13 DEF IsLastToArrive
  <2>2. PICK others : others = DOMAIN block[g] \ {b}
    OBVIOUS
  <2>3. IsFiniteSet(others) /\ Cardinality(others) = Cardinality(DOMAIN block[g]) - 1
    BY <1>2, <1>13, <2>2, FS_RemoveElement
  <2>4. Come(g) \in SUBSET others
    BY <1>12, <2>2
  <2>5. others = Come(g)
    BY <1>12, <2>1, <2>3, <2>4, FS_Subset
  <2>6. Came(g, block[g][c])
    BY <2>2, <2>5 DEF Come
  <2> QED
    BY <1>11, <2>6 DEF Came
<1>17. Counts(g)'
  <2>1. arrived'[g] = Cardinality(Come(g)')
    BY <1>1, <1>2, <1>14, <1>15 DEF MoeTypes
  <2>2. \A c \in DOMAIN block'[g] : block'[g][c].at # "flips"
    BY <1>6, <1>8, <1>10, <1>11
  <2>3. ASSUME NEW d \in DOMAIN block'[g], block'[g][d].at \in {"resets", "flips"}
        PROVE  /\ block'[g][d].seen = sense'[g]
               /\ \A c \in DOMAIN block'[g] \ {d} : block'[g][c].at = "waits" /\ block'[g][c].seen = sense'[g]
    <3>1. d = b
      BY <1>10, <1>11, <2>3
    <3>2. stop = "resets"
      BY <1>6, <1>8, <1>10, <2>3, <3>1
    <3> QED
      BY <1>1, <1>8, <1>10, <1>16, <3>1, <3>2
  <2> QED
    BY <2>1, <2>2, <2>3 DEF Counts
<1>18. Fits(g, r, rounds, expert, nth)
  BY <1>5, <1>6, <1>8, <1>9 DEF Fits
<1>19. Together(g, rounds, expert, nth)'
  BY <1>1, <1>2, <1>4, <1>7, <1>18, OneFits
<1>20. GroupInv(g)'
  BY <1>4, <1>17, <1>19 DEF GroupInv
<1>21. arrived' \in [0..(Concurrency - 1) -> Nat] /\ \A h \in 0..(Concurrency - 1) : h # g => arrived'[h] = arrived[h]
  BY <1>1, <1>2 DEF MoeTypes
<1>22. /\ next' \in Nat /\ retired' \in Nat /\ slot' \in [0..(Concurrency - 1) -> Nat]
       /\ sense' \in [0..(Concurrency - 1) -> {0, 1}]
       /\ \A h \in 0..(Concurrency - 1) : slot'[h] = slot[h] /\ sense'[h] = sense[h]
  BY <1>1, <1>2 DEF MoeTypes
<1>23. \A h \in 0..(Concurrency - 1) : h # g => slot'[h] = slot[h] /\ arrived'[h] = arrived[h] /\ sense'[h] = sense[h]
  BY <1>21, <1>22
<1>24. /\ MoeInv /\ stage = "runs" /\ g \in DOMAIN block /\ b \in DOMAIN block[g] /\ r \in States
       /\ block' = [block EXCEPT ![g][b] = r] /\ UNCHANGED <<stage, ids>> /\ GroupInv(g)'
  BY <1>1, <1>2, <1>8, <1>10, <1>20
<1> QED
  BY <1>21, <1>22, <1>23, <1>24, GroupMoves

LEMMA MoeResets ==
  ASSUME SizesAssumed, MoeInv, NEW g, NEW b, Reset(g, b)
  PROVE  MoeInv'
<1>1. /\ At(g, b, "resets") /\ UNCHANGED <<stage, ids, next, retired, slot, sense>>
      /\ arrived' = [arrived EXCEPT ![g] = 0]
  BY DEF Reset, sorting, sched
<1>2. /\ MoeTypes /\ stage = "runs" /\ g \in DOMAIN block /\ b \in DOMAIN block[g]
      /\ block[g][b] \in States /\ block[g][b].at = "resets" /\ GroupInv(g) /\ g \in 0..(Concurrency - 1)
      /\ arrived[g] \in Nat
  BY <1>1, BlockSteps
<1>3. PICK x : x = block[g][b]
  OBVIOUS
<1>4. PICK rounds \in Nat, expert \in Nat, nth \in 1..5 : Together(g, rounds, expert, nth)
  BY <1>2 DEF GroupInv
<1>5. Fits(g, x, rounds, expert, nth) /\ x \in States /\ x.at = "resets"
  BY <1>2, <1>3, <1>4 DEF Together
<1>6. PICK r : Becomes(g, b, r) /\ r = [x EXCEPT !.at = "flips"]
  BY <1>3 DEF Reset
<1>7. r \in States /\ r.at = "flips" /\ r.seen = x.seen /\ r.shares = x.shares /\ r.expert = x.expert /\ r.phase = x.phase
  BY <1>5, <1>6 DEF States, Stops
<1>8. Came(g, x) /\ Came(g, r) /\ ~Behind(g, r) /\ ~Behind(g, x)
  BY <1>5, <1>7 DEF Came, Behind
<1>9. /\ DOMAIN block'[g] = DOMAIN block[g] /\ block'[g][b] = r
      /\ \A c \in DOMAIN block[g] : c # b => block'[g][c] = block[g][c]
      /\ block' = [block EXCEPT ![g][b] = r]
  BY <1>2, <1>6, OneChanges
<1>10. x.seen = sense[g]
       /\ \A c \in DOMAIN block[g] \ {b} : block[g][c].at = "waits" /\ block[g][c].seen = sense[g]
  BY <1>2, <1>3 DEF GroupInv, Counts
<1>11. Counts(g)'
  <2>1. arrived'[g] = 0
    BY <1>1, <1>2 DEF MoeTypes
  <2>2. \E c \in DOMAIN block'[g] : block'[g][c].at = "flips"
    BY <1>2, <1>7, <1>9
  <2>3. ASSUME NEW d \in DOMAIN block'[g], block'[g][d].at \in {"resets", "flips"}
        PROVE  /\ block'[g][d].seen = sense'[g]
               /\ \A c \in DOMAIN block'[g] \ {d} : block'[g][c].at = "waits" /\ block'[g][c].seen = sense'[g]
    <3>1. d = b
      BY <1>9, <1>10, <2>3
    <3> QED
      BY <1>1, <1>7, <1>9, <1>10, <3>1
  <2> QED
    BY <2>1, <2>2, <2>3 DEF Counts
<1>12. Fits(g, r, rounds, expert, nth)
  BY <1>5, <1>7, <1>8 DEF Fits
<1>13. Together(g, rounds, expert, nth)'
  BY <1>1, <1>2, <1>4, <1>6, <1>12, OneFits
<1>14. GroupInv(g)'
  BY <1>4, <1>11, <1>13 DEF GroupInv
<1>15. arrived' \in [0..(Concurrency - 1) -> Nat] /\ \A h \in 0..(Concurrency - 1) : h # g => arrived'[h] = arrived[h]
  BY <1>1, <1>2 DEF MoeTypes
<1>16. /\ next' \in Nat /\ retired' \in Nat /\ slot' \in [0..(Concurrency - 1) -> Nat]
       /\ sense' \in [0..(Concurrency - 1) -> {0, 1}]
       /\ \A h \in 0..(Concurrency - 1) : slot'[h] = slot[h] /\ sense'[h] = sense[h]
  BY <1>1, <1>2 DEF MoeTypes
<1>17. \A h \in 0..(Concurrency - 1) : h # g => slot'[h] = slot[h] /\ arrived'[h] = arrived[h] /\ sense'[h] = sense[h]
  BY <1>15, <1>16
<1>18. /\ MoeInv /\ stage = "runs" /\ g \in DOMAIN block /\ b \in DOMAIN block[g] /\ r \in States
       /\ block' = [block EXCEPT ![g][b] = r] /\ UNCHANGED <<stage, ids>> /\ GroupInv(g)'
  BY <1>1, <1>2, <1>7, <1>9, <1>14
<1> QED
  BY <1>15, <1>16, <1>17, <1>18, GroupMoves

\* The barrier opens: those who wait have only to see it.
LEMMA MoeFlips ==
  ASSUME SizesAssumed, MoeInv, NEW g, NEW b, Flip(g, b)
  PROVE  MoeInv'
<1>1. /\ At(g, b, "flips") /\ UNCHANGED <<stage, ids, next, retired, slot, arrived>>
      /\ sense' = [sense EXCEPT ![g] = 1 - block[g][b].seen]
  BY DEF Flip, sorting, sched
<1>2. /\ MoeTypes /\ stage = "runs" /\ g \in DOMAIN block /\ b \in DOMAIN block[g]
      /\ block[g][b] \in States /\ block[g][b].at = "flips" /\ GroupInv(g) /\ g \in 0..(Concurrency - 1)
      /\ sense[g] \in {0, 1} /\ arrived[g] \in Nat
  BY <1>1, BlockSteps
<1>3. PICK x : x = block[g][b]
  OBVIOUS
<1>4. PICK rounds \in Nat, expert \in Nat, nth \in 1..5 : Together(g, rounds, expert, nth)
  BY <1>2 DEF GroupInv
<1>5. Fits(g, x, rounds, expert, nth) /\ x \in States /\ x.at = "flips"
  BY <1>2, <1>3, <1>4 DEF Together
<1>6. x.shares = rounds + 1 /\ x.expert = expert /\ x.phase = nth
  BY <1>5 DEF Fits, Came
<1>7. PICK r : Becomes(g, b, r) /\ r = Passed(g, b)
  BY DEF Flip
<1>8. r \in States /\ r.expert = x.expert /\ r.shares = x.shares
      /\ IF x.phase < 5 THEN r.at = "works" /\ r.phase = x.phase + 1 ELSE r.at = "reads" /\ r.phase = 5
  BY <1>3, <1>5, <1>7, PassedOn
<1>9. /\ DOMAIN block'[g] = DOMAIN block[g] /\ block'[g][b] = r
      /\ \A c \in DOMAIN block[g] : c # b => block'[g][c] = block[g][c]
      /\ block' = [block EXCEPT ![g][b] = r]
  BY <1>2, <1>7, OneChanges
<1>10. /\ x.seen = sense[g] /\ arrived[g] = 0
       /\ \A c \in DOMAIN block[g] \ {b} : block[g][c].at = "waits" /\ block[g][c].seen = sense[g]
  BY <1>2, <1>3 DEF GroupInv, Counts
<1>11. sense' \in [0..(Concurrency - 1) -> {0, 1}] /\ sense'[g] # sense[g]
       /\ \A h \in 0..(Concurrency - 1) : h # g => sense'[h] = sense[h]
  <2>1. 1 - x.seen \in {0, 1} /\ 1 - x.seen # sense[g]
    BY <1>2, <1>10
  <2> QED
    BY <1>1, <1>2, <1>3, <2>1 DEF MoeTypes
<1>12. \A c \in DOMAIN block'[g] : block'[g][c].at \notin {"resets", "flips"} /\ ~Came(g, block[g][c])'
  <2> SUFFICES ASSUME NEW c \in DOMAIN block'[g]
               PROVE  block'[g][c].at \notin {"resets", "flips"} /\ ~Came(g, block[g][c])'
    OBVIOUS
  <2>1. CASE c = b
    BY <1>8, <1>9, <2>1 DEF Came
  <2>2. CASE c # b
    BY <1>9, <1>10, <1>11, <2>2 DEF Came
  <2> QED
    BY <2>1, <2>2
<1>13. Counts(g)'
  <2>1. Come(g)' = {}
    BY <1>12 DEF Come
  <2>2. Cardinality(Come(g)') = 0
    BY <2>1, FS_EmptySet
  <2> QED
    BY <1>1, <1>10, <1>12, <2>2 DEF Counts
<1>14. PICK e : e = IF nth < 5 THEN expert ELSE Claimed(slot[g], expert + 1)
  OBVIOUS
<1>15. PICK p : p = IF nth < 5 THEN nth + 1 ELSE 1
  OBVIOUS
<1>16. PICK t : t = rounds + 1
  OBVIOUS
<1>17. e \in Nat /\ p \in 1..5 /\ t \in Nat
  <2>1. Claimed(slot[g], expert + 1) \in Nat
    BY ClaimedTyped
  <2> QED
    BY <1>14, <1>15, <1>16, <2>1
<1>18. Together(g, t, e, p)'
  <2> SUFFICES ASSUME NEW c \in DOMAIN block'[g] PROVE Fits(g, block[g][c], t, e, p)'
    BY DEF Together
  <2>1. Claimed(slot[g], expert + 1)' = Claimed(slot[g], expert + 1)
    <3>1. \A u, f : Claimed(u, f)' = Claimed(u, f)
      BY <1>1, SameClaims
    <3> QED
      BY <1>1, <3>1
  <2>2. CASE c = b
    <3>1. Fits(g, r, t, e, p)'
      <4>1. CASE nth < 5
        <5>1. r.at = "works" /\ r.phase = p /\ r.expert = e /\ r.shares = t
          BY <1>6, <1>8, <1>14, <1>15, <1>16, <4>1
        <5> QED
          BY <5>1 DEF Fits, Came, Behind
      <4>2. CASE ~(nth < 5)
        <5>1. r.at = "reads" /\ r.phase = 5 /\ r.expert = expert /\ p = 1 /\ e = Claimed(slot[g], expert + 1)
              /\ r.shares = t
          BY <1>6, <1>8, <1>14, <1>15, <1>16, <4>2
        <5> QED
          BY <2>1, <5>1 DEF Fits, Came, Behind
      <4> QED
        BY <4>1, <4>2
    <3> QED
      BY <1>9, <2>2, <3>1
  <2>3. CASE c # b
    <3>1. PICK z : z = block[g][c]
      OBVIOUS
    <3>2. block'[g][c] = z /\ Fits(g, z, rounds, expert, nth) /\ z \in States /\ z.at = "waits" /\ z.seen = sense[g]
      BY <1>2, <1>4, <1>9, <1>10, <2>3, <3>1, ShapeOfGrid DEF Together
    <3>3. z.shares = t /\ z.expert = expert /\ z.phase = nth
      BY <1>16, <3>2 DEF Fits, Came
    <3>4. ~Came(g, z)' /\ z.at = "waits"
      BY <1>11, <3>2 DEF Came
    <3>5. Fits(g, z, t, e, p)'
      <4>1. CASE nth < 5
        BY <1>14, <1>15, <3>3, <3>4, <4>1 DEF Fits
      <4>2. CASE ~(nth < 5)
        BY <1>14, <1>15, <2>1, <3>3, <3>4, <4>2 DEF Fits
      <4> QED
        BY <4>1, <4>2
    <3> QED
      BY <3>2, <3>5
  <2> QED
    BY <2>2, <2>3
<1>19. GroupInv(g)'
  BY <1>13, <1>17, <1>18 DEF GroupInv
<1>20. /\ next' \in Nat /\ retired' \in Nat /\ slot' \in [0..(Concurrency - 1) -> Nat]
       /\ arrived' \in [0..(Concurrency - 1) -> Nat]
       /\ \A h \in 0..(Concurrency - 1) : slot'[h] = slot[h] /\ arrived'[h] = arrived[h]
  BY <1>1, <1>2 DEF MoeTypes
<1>21. \A h \in 0..(Concurrency - 1) : h # g => slot'[h] = slot[h] /\ arrived'[h] = arrived[h] /\ sense'[h] = sense[h]
  BY <1>11, <1>20
<1>22. /\ MoeInv /\ stage = "runs" /\ g \in DOMAIN block /\ b \in DOMAIN block[g] /\ r \in States
       /\ block' = [block EXCEPT ![g][b] = r] /\ UNCHANGED <<stage, ids>> /\ GroupInv(g)'
  BY <1>1, <1>2, <1>8, <1>9, <1>19
<1> QED
  BY <1>11, <1>20, <1>21, <1>22, GroupMoves

\* The grid fits the device, and every group starts together.
\* The grid of a launch: no more groups than experts with tokens.
LEMMA GridSizes ==
  ASSUME SizesAssumed, Active # {}
  PROVE  NumGroups \in 1..Concurrency /\ NumGroups <= Cardinality(Active) /\ GroupSize \in Nat \ {0}
<1>3. Concurrency \in Nat \ {0} /\ SMs \in Nat \ {0} /\ MaxWidth \in Nat \ {0} /\ NExperts \in Nat \ {0}
  BY DEF SizesAssumed
<1>4. PICK n : n = NumGroups
  OBVIOUS
<1>5. PICK size : size = GroupSize
  OBVIOUS
<1>6. n \in 1..Concurrency /\ n <= Cardinality(Active)
  <2>1. PICK active : active = Cardinality(Active)
    OBVIOUS
  <2>2. active \in Nat /\ active # 0
    <3>1. IsFiniteSet(1..NExperts)
      BY <1>3, FS_Interval
    <3>2. Active \in SUBSET (1..NExperts)
      BY DEF Active
    <3>3. IsFiniteSet(Active)
      BY <3>1, <3>2, FS_Subset
    <3> QED
      BY <2>1, <3>3, FS_CardinalityType, FS_EmptySet
  <2>3. n = Min({Concurrency, active})
    BY <1>4, <2>1 DEF NumGroups
  <2> QED
    BY <1>3, <2>1, <2>2, <2>3, MinOfTwo
<1>7. size \in Nat \ {0}
  <2>1. PICK most : most = SMs \div n
    OBVIOUS
  <2>2. most \in Nat /\ (SMs % n) \in 0..(n - 1) /\ SMs = n * most + (SMs % n)
    <3>1. SMs \in Nat /\ n \in Nat \ {0}
      BY <1>3, <1>6
    <3> QED
      BY <2>1, <3>1, DivMod
  <2>3. n <= SMs
    <3>1. Width \in Nat \ {0} /\ Concurrency * Width <= SMs
      BY DEF SizesAssumed
    <3>2. Concurrency * (Width - 1) >= 0 /\ Concurrency * Width = Concurrency * (Width - 1) + Concurrency
      BY <1>3, <3>1
    <3> QED
      BY <1>3, <1>6, <3>1, <3>2
  <2>4. most # 0
    <3>1. most = 0 => n * most = 0
      BY <1>6
    <3> QED
      BY <1>3, <1>6, <2>2, <2>3, <3>1
  <2>5. size = Min({most, MaxWidth})
    BY <1>4, <1>5, <2>1 DEF GroupSize
  <2>6. Min({most, MaxWidth}) \in {most, MaxWidth}
    <3>1. most \in Int /\ MaxWidth \in Int
      BY <1>3, <2>2
    <3> QED
      BY <3>1, MinOfTwo
  <2> QED
    BY <1>3, <2>2, <2>4, <2>5, <2>6
<1> QED
  BY <1>4, <1>5, <1>6, <1>7

LEMMA MoeLaunches ==
  ASSUME SizesAssumed, MoeInv, LaunchKernel
  PROVE  MoeInv'
<1>1. /\ stage = "sorts" /\ stage' = "runs" /\ Active # {} /\ UNCHANGED <<ids, next, retired, slot, arrived, sense>>
      /\ block' = [g \in 0..(NumGroups - 1) |-> [b \in 0..(GroupSize - 1) |-> Enter(b, g, 1, 0)]]
  BY DEF LaunchKernel, sorting, sched, barrier
<1>2. MoeTypes /\ \A g \in 0..(Concurrency - 1) : arrived[g] = 0
  BY <1>1 DEF MoeInv
<1>3. Concurrency \in Nat \ {0}
  BY DEF SizesAssumed
<1>4. PICK n : n = NumGroups
  OBVIOUS
<1>5. PICK size : size = GroupSize
  OBVIOUS
<1>6. n \in 1..Concurrency
  BY <1>1, <1>4, GridSizes
<1>7. size \in Nat \ {0}
  BY <1>1, <1>5, GridSizes
<1>8. block' = [g \in 0..(n - 1) |-> [b \in 0..(size - 1) |-> Enter(b, g, 1, 0)]]
  BY <1>1, <1>4, <1>5
<1>9. \A b, g : /\ Enter(b, g, 1, 0) \in States /\ Enter(b, g, 1, 0).expert = Claimed(g, 1)
                /\ Enter(b, g, 1, 0).phase = 1 /\ Enter(b, g, 1, 0).shares = 0
                /\ Enter(b, g, 1, 0).at \in {"works", "retires", "ended"}
                /\ (Enter(b, g, 1, 0).at \in {"retires", "ended"} => Claimed(g, 1) = 0)
  <2> TAKE b, g
  <2>1. PICK z : z = 0
    OBVIOUS
  <2>2. PICK f : f = 1
    OBVIOUS
  <2>3. PICK r : r = Enter(b, g, f, z)
    OBVIOUS
  <2>4. z \in Nat
    BY <2>1
  <2>5. /\ r \in States /\ r.expert = Claimed(g, f) /\ r.phase = 1 /\ r.shares = z
        /\ r.at \in {"works", "retires", "ended"} /\ (r.at \in {"retires", "ended"} => Claimed(g, f) = 0)
    BY <2>3, <2>4, Entered
  <2> QED
    BY <2>1, <2>2, <2>3, <2>5
<1>10. block' \in [0..(n - 1) -> [0..(size - 1) -> States]]
  BY <1>8, <1>9
<1>11. MoeTypes'
  BY <1>1, <1>2, <1>6, <1>7, <1>10 DEF MoeTypes
<1>12. ASSUME NEW g \in DOMAIN block' PROVE GroupInv(g)'
  <2>1. g \in 0..(n - 1) /\ g \in 0..(Concurrency - 1)
    BY <1>3, <1>6, <1>10
  <2>2. \A b \in DOMAIN block'[g] :
          /\ block'[g][b].at \in {"works", "retires", "ended"} /\ block'[g][b].shares = 0
          /\ block'[g][b].expert = Claimed(g, 1) /\ block'[g][b].phase = 1
          /\ (block'[g][b].at \in {"retires", "ended"} => Claimed(g, 1) = 0)
    BY <1>8, <1>9, <2>1
  <2>3. \A b \in DOMAIN block'[g] : ~Came(g, block[g][b])'
    BY <2>2 DEF Came
  <2>4. Counts(g)'
    <3>1. Come(g)' = {}
      BY <2>3 DEF Come
    <3>2. Cardinality(Come(g)') = 0
      BY <3>1, FS_EmptySet
    <3>3. arrived'[g] = 0
      BY <1>1, <1>2, <2>1
    <3>4. \A b \in DOMAIN block'[g] : block'[g][b].at \notin {"resets", "flips"}
      BY <2>2
    <3> QED
      BY <3>2, <3>3, <3>4 DEF Counts
  <2>5. PICK e : e = Claimed(g, 1)
    OBVIOUS
  <2>6. e \in Nat
    BY <2>5, ClaimedTyped
  <2>7. Together(g, 0, e, 1)'
    <3> SUFFICES ASSUME NEW b \in DOMAIN block'[g] PROVE Fits(g, block[g][b], 0, e, 1)'
      BY DEF Together
    <3>1. PICK z : z = block'[g][b]
      OBVIOUS
    <3>2. z.at \in {"works", "retires", "ended"} /\ z.shares = 0 /\ z.expert = e /\ z.phase = 1
          /\ (z.at \in {"retires", "ended"} => e = 0)
      BY <2>2, <2>5, <3>1
    <3>3. Fits(g, z, 0, e, 1)'
      BY <3>2 DEF Fits, Came, Behind
    <3> QED
      BY <3>1, <3>3
  <2> QED
    BY <2>4, <2>6, <2>7 DEF GroupInv
<1>13. \A g \in 0..(Concurrency - 1) : arrived'[g] = 0
  BY <1>1, <1>2
<1> QED
  BY <1>11, <1>12, <1>13 DEF MoeInv

\* Around the kernel no group has blocks.
LEMMA MoeSorts ==
  ASSUME MoeInv, stage # "runs", stage' # "runs", UNCHANGED <<next, retired, slot, arrived, sense>>
  PROVE  MoeInv'
BY DEF MoeInv, MoeTypes

LEMMA MoeReduces ==
  ASSUME MoeInv, Reduce
  PROVE  MoeInv'
<1>1. /\ stage = "runs" /\ stage' = "idle" /\ UNCHANGED <<next, retired, slot, arrived, sense>>
      /\ \A g \in DOMAIN block : \A b \in DOMAIN block[g] : block[g][b].at = "ended"
  BY DEF Reduce, KernelEnded, sched, barrier
<1>2. ASSUME NEW g \in 0..(Concurrency - 1) PROVE arrived[g] = 0
  <2>1. CASE g \notin DOMAIN block
    BY <2>1 DEF MoeInv
  <2>2. CASE g \in DOMAIN block
    <3>1. Come(g) = {}
      BY <1>1, <2>2 DEF Come, Came
    <3>2. Cardinality(Come(g)) = 0
      BY <3>1, FS_EmptySet
    <3>3. Counts(g)
      BY <1>1, <2>2 DEF MoeInv, GroupInv
    <3> QED
      BY <1>1, <2>2, <3>2, <3>3 DEF Counts
  <2> QED
    BY <2>1, <2>2
<1> QED
  BY <1>1, <1>2 DEF MoeInv, MoeTypes

LEMMA MoeBegins ==
  ASSUME SizesAssumed, MoeInit
  PROVE  MoeInv
<1>1. Concurrency \in Nat \ {0}
  BY DEF SizesAssumed
<1> QED
  BY <1>1 DEF MoeInit, MoeInv, MoeTypes

LEMMA MoeKeeps ==
  ASSUME SizesAssumed, MoeInv, [MoeNext]_moe
  PROVE  MoeInv'
<1>1. CASE UNCHANGED moe
  <2>1. UNCHANGED <<stage, ids, next, retired, slot, arrived, sense, block>>
    BY <1>1 DEF moe, sorting, sched, barrier
  <2>2. MoeTypes'
    BY <2>1 DEF MoeInv, MoeTypes
  <2>3. ASSUME NEW g \in DOMAIN block, GroupInv(g) PROVE GroupInv(g)'
    <3>1. Counts(g)'
      <4>1. Come(g)' = Come(g)
        BY <2>1 DEF Come, Came
      <4> QED
        BY <2>1, <2>3, <4>1 DEF GroupInv, Counts
    <3>2. PICK rounds \in Nat, expert \in Nat, nth \in 1..5 : Together(g, rounds, expert, nth)
      BY <2>3 DEF GroupInv
    <3>3. Together(g, rounds, expert, nth)'
      <4>1. \A t, f : Claimed(t, f)' = Claimed(t, f)
        BY <2>1, SameClaims
      <4> QED
        BY <2>1, <3>2, <4>1 DEF Together, Fits, Came, Behind
    <3> QED
      BY <3>1, <3>2, <3>3 DEF GroupInv
  <2> QED
    BY <2>1, <2>2, <2>3 DEF MoeInv
<1>2. CASE MoeHost
  <2>1. CASE CountTokens
    BY <2>1, MoeSorts DEF CountTokens, sched, barrier
  <2>2. CASE \E i \in Routes : Scatter(i)
    BY <2>2, MoeSorts DEF Scatter, sched, barrier
  <2> QED
    BY <1>2, <2>1, <2>2, MoeLaunches, MoeReduces DEF MoeHost
<1>3. CASE \E g \in DOMAIN block : \E b \in DOMAIN block[g] : BlockStep(g, b)
  BY <1>3, MoeWorks, MoeDraws, MoeArrives, MoeResets, MoeFlips, MoePasses, MoeReadsTicket, MoeRetires
     DEF BlockStep
<1> QED
  BY <1>1, <1>2, <1>3 DEF MoeNext

LEMMA MoeSound ==
  ASSUME MoeInv
  PROVE  GroupInStep
<1> SUFFICES ASSUME stage = "runs", NEW g \in DOMAIN block, NEW b \in DOMAIN block[g], NEW c \in DOMAIN block[g],
                    block[g][b].at = "works"
             PROVE  /\ block[g][c].shares >= block[g][b].shares
                    /\ block[g][c].at = "works" /\ block[g][c].shares = block[g][b].shares
                         => block[g][c].expert = block[g][b].expert
  BY DEF GroupInStep
<1>1. PICK rounds \in Nat, expert \in Nat, nth \in 1..5 : Together(g, rounds, expert, nth)
  BY DEF MoeInv, GroupInv
<1>2. PICK x : x = block[g][b]
  OBVIOUS
<1>3. PICK z : z = block[g][c]
  OBVIOUS
<1>4. Fits(g, x, rounds, expert, nth) /\ Fits(g, z, rounds, expert, nth)
  BY <1>1, <1>2, <1>3 DEF Together
<1>5. x.shares = rounds /\ x.expert = expert
  BY <1>2, <1>4 DEF Fits, Came
<1>6. z.shares \in {rounds, rounds + 1} /\ (z.at = "works" => z.expert = expert)
  BY <1>4 DEF Fits
<1> QED
  BY <1>2, <1>3, <1>5, <1>6

Rank(e) == Cardinality({f \in Active : f < e})

LEMMA ActiveFinite ==
  ASSUME SizesAssumed
  PROVE  /\ Active \in SUBSET (1..NExperts) /\ Active \in SUBSET Nat /\ IsFiniteSet(Active)
         /\ \A S \in SUBSET Active : IsFiniteSet(S) /\ Cardinality(S) \in Nat
         /\ \A e : Rank(e) \in Nat
<1>1. NExperts \in Nat \ {0}
  BY DEF SizesAssumed
<1>2. IsFiniteSet(1..NExperts)
  BY <1>1, FS_Interval
<1>3. Active \in SUBSET (1..NExperts)
  BY DEF Active
<1>4. IsFiniteSet(Active)
  BY <1>2, <1>3, FS_Subset
<1>5. \A S \in SUBSET Active : IsFiniteSet(S) /\ Cardinality(S) \in Nat
  BY <1>4, FS_Subset, FS_CardinalityType
<1>6. \A e : Rank(e) \in Nat
  <2> TAKE e
  <2>1. {f \in Active : f < e} \in SUBSET Active
    OBVIOUS
  <2> QED
    BY <1>5, <2>1 DEF Rank
<1>7. Active \in SUBSET Nat
  BY <1>1, <1>3
<1> QED
  BY <1>3, <1>4, <1>5, <1>6, <1>7

LEMMA RanksRise ==
  ASSUME SizesAssumed, NEW e \in Nat, NEW f \in Nat, e <= f
  PROVE  Rank(e) <= Rank(f)
<1>1. PICK A : A = Active
  OBVIOUS
<1>2. A \in SUBSET Nat /\ \A Z \in SUBSET A : IsFiniteSet(Z)
  BY <1>1, ActiveFinite
<1>3. PICK S, T : S = {d \in A : d < e} /\ T = {d \in A : d < f}
  OBVIOUS
<1>4. \A d \in A : d < e => d < f
  BY <1>2
<1>5. S \in SUBSET T /\ T \in SUBSET A
  BY <1>3, <1>4
<1>6. Cardinality(S) <= Cardinality(T)
  BY <1>2, <1>5, FS_Subset
<1>7. Rank(e) = Cardinality(S) /\ Rank(f) = Cardinality(T)
  BY <1>1, <1>3 DEF Rank
<1> QED
  BY <1>6, <1>7

\* One expert of a rank.
LEMMA RankOnce ==
  ASSUME SizesAssumed, NEW e \in Active, NEW f \in Active, Rank(e) = Rank(f)
  PROVE  e = f
<1>1. ASSUME NEW a \in Active, NEW b \in Active, a < b PROVE Rank(a) < Rank(b)
  <2>1. PICK A : A = Active
    OBVIOUS
  <2>2. A \in SUBSET Nat /\ \A Z \in SUBSET A : IsFiniteSet(Z) /\ Cardinality(Z) \in Nat
    BY <2>1, ActiveFinite
  <2>3. PICK S, T : S = {d \in A : d < a} /\ T = {d \in A : d < b}
    OBVIOUS
  <2>4. a \in Nat /\ b \in Nat /\ a \in A
    BY <2>1, <2>2
  <2>5. \A d \in A : d < a => d < b
    BY <1>1, <2>2, <2>4
  <2>6. S \union {a} \in SUBSET T /\ a \notin S /\ S \in SUBSET A /\ T \in SUBSET A
    <3>1. a \in T /\ a \notin S
      BY <1>1, <2>3, <2>4
    <3>2. S \in SUBSET T /\ S \in SUBSET A /\ T \in SUBSET A
      BY <2>3, <2>5
    <3> QED
      BY <3>1, <3>2
  <2>7. Cardinality(S \union {a}) = Cardinality(S) + 1 /\ Cardinality(S) \in Nat /\ IsFiniteSet(T)
    BY <2>2, <2>6, FS_AddElement
  <2>8. Cardinality(S \union {a}) <= Cardinality(T) /\ Cardinality(T) \in Nat
    BY <2>2, <2>6, FS_Subset
  <2>9. Rank(a) = Cardinality(S) /\ Rank(b) = Cardinality(T)
    BY <2>1, <2>3 DEF Rank
  <2> QED
    BY <2>7, <2>8, <2>9
<1>2. e \in Nat /\ f \in Nat /\ Rank(e) \in Nat /\ Rank(f) \in Nat
  BY ActiveFinite
<1>3. ~(e < f) /\ ~(f < e)
  BY <1>1, <1>2
<1> QED
  BY <1>2, <1>3

LEMMA GreatestOf ==
  ASSUME NEW n \in Nat, NEW S \in SUBSET (0..n), S # {}
  PROVE  \E a \in S : \A d \in S : d <= a
<1> DEFINE T == {m \in Nat : \E d \in S : m = n - d}
<1>1. T # {} /\ T \in SUBSET Nat
  <2>1. PICK d \in S : TRUE
    OBVIOUS
  <2>2. d \in 0..n /\ n - d \in Nat
    BY <2>1
  <2>3. n - d \in T
    BY <2>1, <2>2
  <2> QED
    BY <2>3
<1>2. \E m \in T : \A d \in T : ~(<<d, m>> \in OpToRel(<, Nat))
  <2> HIDE DEF T
  <2> QED
    BY <1>1, NatLessThanWellFounded, WFMin
<1>3. PICK m \in T : \A d \in T : ~(d < m)
  BY <1>2 DEF OpToRel
<1>4. PICK a \in S : m = n - a
  BY <1>3
<1>5. ASSUME NEW d \in S PROVE d <= a
  <2>1. n - d \in T
    OBVIOUS
  <2>2. ~(n - d < m)
    BY <1>3, <2>1
  <2> QED
    BY <1>4, <2>2
<1> QED
  BY <1>5

\* The one before is of the rank before.
LEMMA RankBefore ==
  ASSUME SizesAssumed, NEW f \in Nat, Rank(f) # 0
  PROVE  \E e \in Active : Rank(e) = Rank(f) - 1
<1>1. PICK A : A = Active
  OBVIOUS
<1>2. A \in SUBSET Nat /\ \A Z \in SUBSET A : IsFiniteSet(Z)
  BY <1>1, ActiveFinite
<1>3. PICK S : S = {d \in A : d < f}
  OBVIOUS
<1>4. Rank(f) = Cardinality(S)
  BY <1>1, <1>3 DEF Rank
<1>5. S # {}
  BY <1>4, FS_EmptySet
<1>6. S \in SUBSET (0..f)
  <2>1. \A d \in A : d < f => d \in 0..f
    BY <1>2
  <2> QED
    BY <1>3, <2>1
<1>7. PICK e \in S : \A d \in S : d <= e
  BY <1>5, <1>6, GreatestOf
<1>8. e \in A /\ e \in Nat /\ e < f
  BY <1>2, <1>3, <1>7
<1>9. PICK T : T = {d \in A : d < e}
  OBVIOUS
<1>10. Rank(e) = Cardinality(T)
  BY <1>1, <1>9 DEF Rank
<1>11. \A d \in A : d < f <=> d < e \/ d = e
  <2> TAKE d \in A
  <2>1. d \in Nat
    BY <1>2
  <2>2. d < f => d <= e
    BY <1>3, <1>7
  <2> QED
    BY <1>8, <2>1, <2>2
<1>12. S = T \union {e}
  BY <1>3, <1>8, <1>9, <1>11
<1>13. e \notin T /\ T \in SUBSET A
  BY <1>8, <1>9
<1>14. IsFiniteSet(T)
  BY <1>2, <1>13
<1>15. Cardinality(S) = Cardinality(T) + 1
  BY <1>12, <1>13, <1>14, FS_AddElement
<1>16. Rank(e) \in Nat
  BY ActiveFinite
<1>17. Rank(e) = Rank(f) - 1
  BY <1>4, <1>10, <1>15, <1>16
<1> QED
  BY <1>1, <1>8, <1>17

\* No rank is left out.
LEMMA RanksBelow ==
  ASSUME SizesAssumed, NEW f \in Nat, NEW t \in Nat, t < Rank(f)
  PROVE  \E e \in Active : Rank(e) = t
<1> DEFINE S == {m \in Nat : m < Rank(f) => \E e \in Active : Rank(e) = Rank(f) - 1 - m}
<1>1. Rank(f) \in Nat
  BY ActiveFinite
<1>2. 0 \in S
  BY <1>1, RankBefore
<1>3. ASSUME NEW m \in S PROVE m + 1 \in S
  <2>1. CASE m + 1 < Rank(f)
    <3>1. PICK e \in Active : Rank(e) = Rank(f) - 1 - m
      BY <1>1, <2>1
    <3>2. e \in Nat /\ Rank(e) # 0
      BY <1>1, <2>1, <3>1, ActiveFinite
    <3>3. \E d \in Active : Rank(d) = Rank(e) - 1
      BY <3>2, RankBefore
    <3>4. Rank(e) - 1 = Rank(f) - 1 - (m + 1)
      BY <1>1, <3>1
    <3> QED
      BY <3>3, <3>4
  <2>2. CASE ~(m + 1 < Rank(f))
    BY <2>2
  <2> QED
    BY <2>1, <2>2
<1>4. S = Nat
  <2>1. S \in SUBSET Nat
    OBVIOUS
  <2> HIDE DEF S
  <2> QED
    BY <1>2, <1>3, <2>1, Counted
<1>5. PICK m : m = Rank(f) - 1 - t
  OBVIOUS
<1>6. m \in S /\ m < Rank(f) /\ Rank(f) - 1 - m = t
  BY <1>1, <1>4, <1>5
<1> QED
  BY <1>6

\* A ticket less than the number of active experts is one's.
LEMMA TicketsHaveExperts ==
  ASSUME SizesAssumed, NEW t \in Nat, t < Cardinality(Active)
  PROVE  \E e \in Active : Rank(e) = t
<1>1. PICK f : f = NExperts + 1
  OBVIOUS
<1>2. f \in Nat /\ NExperts \in Nat
  BY <1>1 DEF SizesAssumed
<1>3. {d \in Active : d < f} = Active
  <2>1. \A d \in Active : d \in 1..NExperts
    BY ActiveFinite
  <2>2. \A d \in 1..NExperts : d < f
    BY <1>1, <1>2
  <2> QED
    BY <2>1, <2>2
<1>4. Rank(f) = Cardinality(Active)
  BY <1>3 DEF Rank
<1> QED
  BY <1>2, <1>4, RanksBelow

\* What Claimed finds, of experts from f on.
LEMMA ClaimedIs ==
  ASSUME SizesAssumed, NEW t, NEW f
  PROVE  LET c == Claimed(t, f)
         IN  /\ c # 0 => c \in Active /\ c >= f /\ Rank(c) = t
             /\ c = 0 => \A e \in Active : e >= f => Rank(e) # t
<1>1. PICK found : found = {e \in Active : e >= f /\ Cardinality({d \in Active : d < e}) = t}
  OBVIOUS
<1>2. PICK c : c = Claimed(t, f)
  OBVIOUS
<1>3. c = IF found = {} THEN 0 ELSE CHOOSE e \in found : TRUE
  BY <1>1, <1>2 DEF Claimed
<1>4. PICK e : e = CHOOSE d \in found : TRUE
  OBVIOUS
<1>5. found # {} => e \in found
  BY <1>4
<1>6. c = IF found = {} THEN 0 ELSE e
  BY <1>3, <1>4
<1>7. found = {d \in Active : d >= f /\ Rank(d) = t}
  BY <1>1 DEF Rank
<1>8. \A d \in found : d # 0 /\ d \in Active /\ d >= f /\ Rank(d) = t
  <2>1. Active \in SUBSET (1..NExperts) /\ NExperts \in Nat
    BY ActiveFinite DEF SizesAssumed
  <2>2. \A d \in Active : d # 0
    BY <2>1
  <2> QED
    BY <1>7, <2>2
<1>9. CASE found = {}
  <2>1. c = 0
    BY <1>6, <1>9
  <2>2. \A d \in Active : d >= f => Rank(d) # t
    BY <1>7, <1>9
  <2> QED
    BY <1>2, <2>1, <2>2
<1>10. CASE found # {}
  <2>1. c \in found
    BY <1>5, <1>6, <1>10
  <2> QED
    BY <1>2, <1>8, <2>1
<1> QED
  BY <1>9, <1>10

-----------------------------------------------------------------------------
(* Spans of rows. *)

Routed ==
  /\ ids \in Seq(1..NExperts) /\ Len(ids) % TopK = 0
  /\ \A e \in 1..NExperts : Count(e) <= MaxTokens

LEMMA CountsTyped ==
  ASSUME Routed
  PROVE  /\ IsFiniteSet(Routes) /\ Routes = 1..Len(ids) /\ Len(ids) \in Nat
         /\ \A S \in SUBSET Routes : IsFiniteSet(S) /\ Cardinality(S) \in Nat
         /\ \A e : Count(e) \in Nat /\ Offset(e) \in Nat
         /\ \A i \in Routes : ids[i] \in 1..NExperts
<1>1. Routes = 1..Len(ids) /\ Len(ids) \in Nat /\ \A i \in Routes : ids[i] \in 1..NExperts
  <2>1. PICK E : E = 1..NExperts
    OBVIOUS
  <2>2. ids \in Seq(E)
    BY <2>1 DEF Routed
  <2>3. DOMAIN ids = 1..Len(ids) /\ Len(ids) \in Nat /\ \A i \in 1..Len(ids) : ids[i] \in E
    BY <2>2
  <2> QED
    BY <2>1, <2>3 DEF Routes
<1>2. IsFiniteSet(Routes)
  BY <1>1, FS_Interval
<1>3. \A S \in SUBSET Routes : IsFiniteSet(S) /\ Cardinality(S) \in Nat
  BY <1>2, FS_Subset, FS_CardinalityType
<1>4. \A e : Count(e) \in Nat /\ Offset(e) \in Nat
  <2> TAKE e
  <2>1. {i \in Routes : ids[i] = e} \in SUBSET Routes /\ {i \in Routes : ids[i] < e} \in SUBSET Routes
    OBVIOUS
  <2> QED
    BY <1>3, <2>1 DEF Count, Offset
<1> QED
  BY <1>1, <1>2, <1>3, <1>4

LEMMA SpansFollow ==
  ASSUME SizesAssumed, Routed, NEW e \in Nat, NEW f \in Nat, e < f
  PROVE  Offset(e) + Count(e) <= Offset(f)
<1> DEFINE A == {i \in Routes : ids[i] < e}
<1> DEFINE B == {i \in Routes : ids[i] = e}
<1> DEFINE C == {i \in Routes : ids[i] < f}
<1>1. A \in SUBSET Routes /\ B \in SUBSET Routes /\ C \in SUBSET Routes
  OBVIOUS
<1>2. \A i \in Routes : ids[i] \in Nat
  BY CountsTyped DEF SizesAssumed
<1>3. A \intersect B = {} /\ A \union B \in SUBSET C
  BY <1>2
<1>4. Offset(e) = Cardinality(A) /\ Count(e) = Cardinality(B) /\ Offset(f) = Cardinality(C)
  BY DEF Offset, Count
<1>5. IsFiniteSet(A) /\ IsFiniteSet(B) /\ IsFiniteSet(C)
  BY <1>1, CountsTyped
<1>6. Cardinality(A) + Cardinality(B) <= Cardinality(C)
  <2> HIDE DEF A, B, C
  <2>1. Cardinality(A \union B) = Cardinality(A) + Cardinality(B) - Cardinality(A \intersect B)
    BY <1>5, FS_Union
  <2>2. Cardinality(A \intersect B) = 0
    BY <1>3, FS_EmptySet
  <2>3. Cardinality(A \union B) <= Cardinality(C)
    BY <1>3, <1>5, FS_Subset
  <2>4. Cardinality(A) \in Nat /\ Cardinality(B) \in Nat /\ Cardinality(C) \in Nat
    BY <1>5, FS_CardinalityType
  <2> QED
    BY <2>1, <2>2, <2>3, <2>4
<1> QED
  BY <1>4, <1>6

LEMMA SpansApart ==
  ASSUME SizesAssumed, Routed, NEW e \in Nat, NEW f \in Nat, e # f
  PROVE  SortedRows(e) \intersect SortedRows(f) = {}
<1>1. /\ Offset(e) \in Nat /\ Count(e) \in Nat /\ Offset(f) \in Nat /\ Count(f) \in Nat
  BY CountsTyped
<1>2. CASE e < f
  <2>1. Offset(e) + Count(e) <= Offset(f)
    BY <1>2, SpansFollow
  <2> QED
    BY <1>1, <2>1 DEF SortedRows
<1>3. CASE f < e
  <2>1. Offset(f) + Count(f) <= Offset(e)
    BY <1>3, SpansFollow
  <2> QED
    BY <1>1, <2>1 DEF SortedRows
<1> QED
  BY <1>2, <1>3

LEMMA SpansInside ==
  ASSUME SizesAssumed, Routed, NEW e \in Nat
  PROVE  SortedRows(e) \in SUBSET Routes
<1> DEFINE A == {i \in Routes : ids[i] < e}
<1> DEFINE B == {i \in Routes : ids[i] = e}
<1>1. A \in SUBSET Routes /\ B \in SUBSET Routes /\ A \union B \in SUBSET Routes
  OBVIOUS
<1>2. A \intersect B = {}
  BY CountsTyped DEF SizesAssumed
<1>3. Offset(e) = Cardinality(A) /\ Count(e) = Cardinality(B)
  BY DEF Offset, Count
<1>4. IsFiniteSet(A) /\ IsFiniteSet(B) /\ IsFiniteSet(Routes) /\ Routes = 1..Len(ids) /\ Len(ids) \in Nat
  BY <1>1, CountsTyped
<1>5. Cardinality(A) + Cardinality(B) <= Cardinality(Routes)
  <2> HIDE DEF A, B
  <2>1. Cardinality(A \union B) = Cardinality(A) + Cardinality(B) - Cardinality(A \intersect B)
    BY <1>4, FS_Union
  <2>2. Cardinality(A \intersect B) = 0
    BY <1>2, FS_EmptySet
  <2>3. Cardinality(A \union B) <= Cardinality(Routes)
    BY <1>1, <1>4, FS_Subset
  <2>4. Cardinality(A) \in Nat /\ Cardinality(B) \in Nat /\ Cardinality(Routes) \in Nat
    BY <1>4, FS_CardinalityType
  <2> QED
    BY <2>1, <2>2, <2>3, <2>4
<1>6. Cardinality(Routes) = Len(ids)
  <2>1. PICK n \in Nat : n = Len(ids)
    BY <1>4
  <2>2. Cardinality(1..n) = n
    BY FS_Interval
  <2> QED
    BY <1>4, <2>1, <2>2
<1>7. PICK o, c, n : o = Offset(e) /\ c = Count(e) /\ n = Len(ids)
  OBVIOUS
<1>8. o \in Nat /\ c \in Nat /\ n \in Nat /\ o + c <= n
  BY <1>3, <1>4, <1>5, <1>6, <1>7, CountsTyped
<1>9. \A p \in (o + 1)..(o + c) : p \in 1..n
  BY <1>8
<1> QED
  BY <1>4, <1>7, <1>9 DEF SortedRows

\* Every expert of a routing is one that the groups work on.
LEMMA RoutedActive ==
  ASSUME Routed, NEW i \in Routes
  PROVE  ids[i] \in Active
<1>1. ids[i] \in 1..NExperts
  BY CountsTyped
<1>2. PICK e : e = ids[i]
  OBVIOUS
<1> DEFINE B == {j \in Routes : ids[j] = e}
<1>3. B \in SUBSET Routes /\ i \in B
  BY <1>2
<1>4. IsFiniteSet(B) /\ Count(e) = Cardinality(B)
  BY <1>3, CountsTyped DEF Count
<1>5. Cardinality(B) # 0
  <2> HIDE DEF B
  <2> QED
    BY <1>3, <1>4, FS_EmptySet
<1> QED
  BY <1>1, <1>2, <1>4, <1>5 DEF Routed, Active, IsActive

\* A block that has nothing of an expert left to do; the expert its group has come to.
Leaving(g, x) == x.at \in {"retires", "ended"} \/ (Behind(g, x) /\ x.phase = 5)
Sees(g, x) == IF ~Leaving(g, x) THEN x.expert
              ELSE IF Behind(g, x) THEN Claimed(slot[g], x.expert + 1) ELSE 0

\* It has written its share of the contributions, and the group has its next ticket.
Wrote(g, x) == x.phase = 5 /\ (x.at \in {"draws", "arrives"} \/ Came(g, x))
Drew(g, x)  == Wrote(g, x) /\ x.at # "draws"

ExpertOf(g) == Sees(g, block[g][0])
HasDrawn(g) == Drew(g, block[g][0])

Right(p, e)     == contrib[p] = Contribution(p, e)
ShareDone(e, b) == \A p \in Share(e, b) : Right(p, e)
Completed(e)    == \A p \in SortedRows(e) : Right(p, e)

BlockDoes(g, b) ==
  /\ ~Leaving(g, block[g][b]) => block[g][b].expert # 0
  /\ Wrote(g, block[g][b]) => ShareDone(block[g][b].expert, b)

TicketOf(g) ==
  /\ ExpertOf(g) # 0 => ExpertOf(g) \in Active /\ Rank(ExpertOf(g)) < Drawn
  /\ HasDrawn(g) => Rank(ExpertOf(g)) < slot[g] /\ slot[g] < Drawn

InHand(e)  == \E g \in DOMAIN block : ExpertOf(g) = e \/ (HasDrawn(g) /\ slot[g] = Rank(e))
Undrawn(e) == Drawn <= Rank(e) /\ \A g \in DOMAIN block : ExpertOf(g) # 0

Ended   == {g \in DOMAIN block : block[g][0].at = "ended"}
SchedOK == IF Ended = DOMAIN block THEN next = 0 /\ retired = 0 ELSE retired = Cardinality(Ended)

RunInv ==
  /\ \A g \in DOMAIN block : TicketOf(g) /\ \A b \in DOMAIN block[g] : BlockDoes(g, b)
  /\ \A e \in Active : Completed(e) \/ InHand(e) \/ Undrawn(e)
  /\ SchedOK

LEMMA GroupSees ==
  ASSUME NEW g, NEW x \in States, NEW rounds, NEW expert, NEW nth, Fits(g, x, rounds, expert, nth)
  PROVE  /\ Sees(g, x) = expert
         /\ Wrote(g, x) => x.expert = expert /\ nth = 5
         /\ ~Leaving(g, x) => x.expert = expert
<1>1. x.phase \in 1..5 /\ x.at \in Stops
  BY DEF States
<1>2. CASE x.at \in {"retires", "ended"}
  <2>1. Leaving(g, x) /\ ~Behind(g, x) /\ expert = 0 /\ ~Came(g, x)
    BY <1>2 DEF Leaving, Behind, Fits, Came
  <2> QED
    BY <1>2, <2>1 DEF Sees, Wrote
<1>3. CASE Behind(g, x) /\ x.phase = 5
  <2>1. Leaving(g, x) /\ expert = Claimed(slot[g], x.expert + 1)
    BY <1>3 DEF Leaving, Fits
  <2>2. ~Wrote(g, x)
    BY <1>3 DEF Wrote, Behind, Came
  <2> QED
    BY <1>3, <2>1, <2>2 DEF Sees
<1>4. CASE Behind(g, x) /\ x.phase < 5
  <2>1. ~Leaving(g, x) /\ expert = x.expert
    BY <1>4 DEF Leaving, Fits, Behind
  <2> QED
    BY <1>4, <2>1 DEF Sees, Wrote
<1>5. CASE ~Behind(g, x) /\ x.at \notin {"retires", "ended"}
  <2>1. x.at \in {"works", "draws", "arrives"} \/ Came(g, x)
    BY <1>1, <1>5 DEF Stops, Behind, Came
  <2>2. x.expert = expert /\ x.phase = nth /\ ~Leaving(g, x)
    BY <1>5, <2>1 DEF Fits, Leaving
  <2> QED
    BY <2>2 DEF Sees, Wrote
<1> QED
  BY <1>1, <1>2, <1>3, <1>4, <1>5

\* What a running kernel is made of.
LEMMA RunFacts ==
  ASSUME SizesAssumed, MoeInv, stage = "runs"
  PROVE  /\ MoeTypes /\ IsFiniteSet(DOMAIN block) /\ num_groups = Cardinality(DOMAIN block)
         /\ Drawn = num_groups + next /\ num_groups \in Nat \ {0} /\ Drawn \in Nat /\ next \in Nat
         /\ DOMAIN block # {}
         /\ \E n \in Nat \ {0}, size \in Nat \ {0} :
              /\ DOMAIN block = 0..(n - 1) /\ group_size = size /\ num_groups = n
              /\ \A g \in DOMAIN block : DOMAIN block[g] = 0..(size - 1)
         /\ \A g \in DOMAIN block :
              /\ 0 \in DOMAIN block[g] /\ g \in 0..(Concurrency - 1) /\ slot[g] \in Nat /\ ExpertOf(g) \in Nat
              /\ \A b \in DOMAIN block[g] : block[g][b] \in States
<1>1. MoeTypes
  BY DEF MoeInv
<1>2. PICK n \in 1..Concurrency, size \in Nat \ {0} : block \in [0..(n - 1) -> [0..(size - 1) -> States]]
  BY <1>1 DEF MoeTypes
<1>3. Concurrency \in Nat
  BY DEF SizesAssumed
<1>4. n \in Nat \ {0} /\ DOMAIN block = 0..(n - 1) /\ 0 \in DOMAIN block /\ 0 \in 0..(size - 1)
  BY <1>2, <1>3
<1>5. IsFiniteSet(DOMAIN block) /\ Cardinality(DOMAIN block) = n
  <2>1. IsFiniteSet(0..(n - 1)) /\ Cardinality(0..(n - 1)) = n - 1 - 0 + 1
    BY <1>4, FS_Interval
  <2> QED
    BY <1>4, <2>1
<1>6. Cardinality(0..(size - 1)) = size
  <2>1. Cardinality(0..(size - 1)) = size - 1 - 0 + 1
    BY <1>4, FS_Interval
  <2> QED
    BY <2>1
<1>7. \A g \in DOMAIN block : DOMAIN block[g] = 0..(size - 1)
  BY <1>2
<1>8. group_size = size /\ num_groups = n /\ num_groups = Cardinality(DOMAIN block)
  BY <1>4, <1>5, <1>6, <1>7 DEF group_size, num_groups
<1>9. next \in Nat /\ Drawn = num_groups + next
  BY <1>1 DEF MoeTypes, Drawn
<1>10. ASSUME NEW g \in DOMAIN block
       PROVE  /\ 0 \in DOMAIN block[g] /\ g \in 0..(Concurrency - 1) /\ slot[g] \in Nat /\ ExpertOf(g) \in Nat
              /\ \A b \in DOMAIN block[g] : block[g][b] \in States
  <2>1. 0 \in DOMAIN block[g] /\ g \in 0..(Concurrency - 1) /\ \A b \in DOMAIN block[g] : block[g][b] \in States
    BY <1>2, <1>3, <1>4, <1>7
  <2>2. slot[g] \in Nat
    BY <1>1, <2>1 DEF MoeTypes
  <2>3. PICK x : x = block[g][0]
    OBVIOUS
  <2>4. x.expert \in Nat
    BY <2>1, <2>3 DEF States
  <2>5. Claimed(slot[g], x.expert + 1) \in Nat
    BY ClaimedTyped
  <2>6. Sees(g, x) \in Nat
    BY <2>4, <2>5 DEF Sees
  <2> QED
    BY <2>1, <2>2, <2>3, <2>6 DEF ExpertOf
<1> QED
  BY <1>1, <1>4, <1>5, <1>7, <1>8, <1>9, <1>10

\* The blocks of a group see the same expert.
LEMMA GroupAgrees ==
  ASSUME SizesAssumed, MoeInv, stage = "runs", NEW g \in DOMAIN block, NEW b \in DOMAIN block[g]
  PROVE  /\ Sees(g, block[g][b]) = ExpertOf(g)
         /\ Wrote(g, block[g][b]) => block[g][b].expert = ExpertOf(g)
         /\ ~Leaving(g, block[g][b]) => block[g][b].expert = ExpertOf(g)
<1>1. PICK rounds \in Nat, expert \in Nat, nth \in 1..5 : Together(g, rounds, expert, nth)
  BY DEF MoeInv, GroupInv
<1>2. 0 \in DOMAIN block[g] /\ block[g][0] \in States /\ block[g][b] \in States
  BY RunFacts
<1>3. PICK x, z : x = block[g][b] /\ z = block[g][0]
  OBVIOUS
<1>4. Fits(g, x, rounds, expert, nth) /\ Fits(g, z, rounds, expert, nth)
  BY <1>1, <1>2, <1>3 DEF Together
<1>5. x \in States /\ z \in States
  BY <1>2, <1>3
<1>6. Sees(g, x) = expert /\ (Wrote(g, x) => x.expert = expert) /\ (~Leaving(g, x) => x.expert = expert)
  BY <1>4, <1>5, GroupSees
<1>7. Sees(g, z) = expert
  BY <1>4, <1>5, GroupSees
<1> QED
  BY <1>3, <1>6, <1>7 DEF ExpertOf

LEMMA SensesKept ==
  ASSUME NEW h, sense'[h] = sense[h]
  PROVE  \A x : /\ Leaving(h, x)' = Leaving(h, x) /\ Wrote(h, x)' = Wrote(h, x) /\ Drew(h, x)' = Drew(h, x)
                /\ Behind(h, x)' = Behind(h, x)
BY DEF Leaving, Wrote, Drew, Behind, Came

LEMMA SightKept ==
  ASSUME NEW h, sense'[h] = sense[h], slot'[h] = slot[h], UNCHANGED ids
  PROVE  \A x : Sees(h, x)' = Sees(h, x)
<1>1. \A t, f : Claimed(t, f)' = Claimed(t, f)
  BY SameClaims
<1>2. \A x : Leaving(h, x)' = Leaving(h, x) /\ Behind(h, x)' = Behind(h, x)
  BY SensesKept
<1> QED
  BY <1>1, <1>2 DEF Sees

LEMMA RankKept ==
  ASSUME UNCHANGED ids
  PROVE  Active' = Active /\ \A e : Rank(e)' = Rank(e)
<1>1. Active' = Active
  BY DEF Active, IsActive, Count, Routes
<1> QED
  BY <1>1 DEF Rank

LEMMA SpansKept ==
  ASSUME UNCHANGED ids
  PROVE  \A e : SortedRows(e)' = SortedRows(e) /\ Offset(e)' = Offset(e)
BY DEF SortedRows, Offset, Count, Routes

LEMMA DoneKept ==
  ASSUME UNCHANGED ids, group_size' = group_size,
         \A e \in Nat : \A p \in SortedRows(e) : Right(p, e) => Right(p, e)'
  PROVE  \A e \in Nat : /\ Completed(e) => Completed(e)'
                        /\ \A b : ShareDone(e, b) => ShareDone(e, b)'
<1> TAKE e \in Nat
<1>1. SortedRows(e)' = SortedRows(e) /\ Offset(e)' = Offset(e)
  BY SpansKept
<1>2. \A b : Share(e, b)' = Share(e, b) /\ Share(e, b) \in SUBSET SortedRows(e)
  BY <1>1 DEF Share
<1>3. Completed(e) => Completed(e)'
  BY <1>1 DEF Completed
<1>4. \A b : ShareDone(e, b) => ShareDone(e, b)'
  BY <1>2 DEF ShareDone
<1> QED
  BY <1>3, <1>4

\* What a step of one block leaves as it was.
LEMMA GridKept ==
  ASSUME SizesAssumed, MoeInv, stage = "runs", NEW g \in DOMAIN block, NEW b \in DOMAIN block[g], NEW r,
         block' = [block EXCEPT ![g][b] = r]
  PROVE  /\ DOMAIN block' = DOMAIN block /\ group_size' = group_size /\ num_groups' = num_groups
         /\ \A h \in DOMAIN block : DOMAIN block'[h] = DOMAIN block[h]
         /\ \A h \in DOMAIN block : \A c \in DOMAIN block[h] :
              block'[h][c] = IF h = g /\ c = b THEN r ELSE block[h][c]
<1>1. PICK n \in 1..Concurrency, size \in Nat \ {0} : block \in [0..(n - 1) -> [0..(size - 1) -> States]]
  BY DEF MoeInv, MoeTypes
<1>2. /\ DOMAIN block' = DOMAIN block
      /\ \A h \in DOMAIN block : DOMAIN block'[h] = DOMAIN block[h]
      /\ \A h \in DOMAIN block : \A c \in DOMAIN block[h] :
           block'[h][c] = IF h = g /\ c = b THEN r ELSE block[h][c]
  BY <1>1
<1>3. 0 \in DOMAIN block
  <2>1. Concurrency \in Nat
    BY DEF SizesAssumed
  <2> QED
    BY <1>1, <2>1
<1>4. num_groups' = num_groups
  BY <1>2 DEF num_groups
<1>5. group_size' = group_size
  <2>1. DOMAIN block'[0] = DOMAIN block[0]
    BY <1>2, <1>3
  <2> QED
    BY <2>1 DEF group_size
<1> QED
  BY <1>2, <1>4, <1>5

LEMMA StepKeeps ==
  ASSUME SizesAssumed, MoeInv, RunInv, stage = "runs", NEW g \in DOMAIN block, NEW b \in DOMAIN block[g],
         NEW x, x = block[g][b], NEW r, r.expert \in Nat,
         block' = [block EXCEPT ![g][b] = r], UNCHANGED <<ids, sense>>,
         \A e \in Nat : \A p \in SortedRows(e) : Right(p, e) => Right(p, e)',
         \A h \in DOMAIN block : h # g \/ b # 0 => slot'[h] = slot[h],
         b = 0 => Sees(g, r)' = Sees(g, x),
         ~Leaving(g, r) => r.expert # 0,
         Wrote(g, r) => ShareDone(r.expert, b)',
         Drawn' \in Nat, Drawn <= Drawn',
         b = 0 /\ Drew(g, r) => Rank(ExpertOf(g)) < slot'[g] /\ slot'[g] < Drawn',
         b = 0 /\ Drew(g, x) => Drew(g, r) /\ slot'[g] = slot[g],
         Drawn' = Drawn \/ (Drawn' = Drawn + 1 /\ b = 0 /\ Drew(g, r) /\ slot'[g] = Drawn),
         SchedOK'
  PROVE  RunInv'
<1>1. /\ DOMAIN block' = DOMAIN block /\ group_size' = group_size
      /\ \A h \in DOMAIN block : DOMAIN block'[h] = DOMAIN block[h]
      /\ \A h \in DOMAIN block : \A c \in DOMAIN block[h] :
           block'[h][c] = IF h = g /\ c = b THEN r ELSE block[h][c]
  BY GridKept
<1>2. /\ Drawn \in Nat
      /\ \A h \in DOMAIN block : 0 \in DOMAIN block[h] /\ slot[h] \in Nat
           /\ \A c \in DOMAIN block[h] : block[h][c] \in States
  BY RunFacts
<1>3. \A h : \A z : Leaving(h, z)' = Leaving(h, z) /\ Wrote(h, z)' = Wrote(h, z) /\ Drew(h, z)' = Drew(h, z)
  BY SensesKept
<1>4. Active' = Active /\ (\A e : Rank(e)' = Rank(e)) /\ \A e : Rank(e) \in Nat
  BY RankKept, ActiveFinite
<1>5. \A e \in Nat : (Completed(e) => Completed(e)') /\ \A c : ShareDone(e, c) => ShareDone(e, c)'
  BY <1>1, DoneKept
<1>6. ASSUME NEW h \in DOMAIN block PROVE ExpertOf(h)' = ExpertOf(h)
  <2>1. CASE h = g /\ b = 0
    <3>1. block'[h][0] = r
      BY <1>1, <1>2, <2>1
    <3>2. Sees(h, block[h][0])' = Sees(g, x)
      BY <2>1, <3>1
    <3> QED
      BY <2>1, <3>2 DEF ExpertOf
  <2>2. CASE ~(h = g /\ b = 0)
    <3>1. block'[h][0] = block[h][0] /\ slot'[h] = slot[h]
      BY <1>1, <1>2, <2>2
    <3>2. \A z : Sees(h, z)' = Sees(h, z)
      BY <3>1, SightKept
    <3>3. Sees(h, block[h][0])' = Sees(h, block[h][0])
      BY <3>1, <3>2
    <3> QED
      BY <3>3 DEF ExpertOf
  <2> QED
    BY <2>1, <2>2
<1>7. ASSUME NEW h \in DOMAIN block
      PROVE  HasDrawn(h)' = IF h = g /\ b = 0 THEN Drew(g, r) ELSE HasDrawn(h)
  <2>1. block'[h][0] = IF h = g /\ b = 0 THEN r ELSE block[h][0]
    BY <1>1, <1>2
  <2>2. HasDrawn(h)' = Drew(h, block[h][0])'
    BY DEF HasDrawn
  <2>3. CASE h = g /\ b = 0
    BY <1>3, <2>1, <2>2, <2>3
  <2>4. CASE ~(h = g /\ b = 0)
    BY <1>3, <2>1, <2>2, <2>4 DEF HasDrawn
  <2> QED
    BY <2>3, <2>4
<1>8. ASSUME NEW h \in DOMAIN block' PROVE TicketOf(h)'
  <2>1. h \in DOMAIN block /\ TicketOf(h) /\ ExpertOf(h)' = ExpertOf(h)
    BY <1>1, <1>6 DEF RunInv
  <2>2. ExpertOf(h) # 0 => ExpertOf(h) \in Active' /\ Rank(ExpertOf(h)) < Drawn'
    BY <1>2, <1>4, <2>1 DEF TicketOf
  <2>3. Rank(ExpertOf(h))' = Rank(ExpertOf(h))
    <3>1. PICK e : e = ExpertOf(h)
      OBVIOUS
    <3>2. ExpertOf(h)' = e
      BY <2>1, <3>1
    <3>3. Rank(ExpertOf(h))' = Rank(e)'
      BY <3>2 DEF Rank
    <3> QED
      BY <1>4, <3>1, <3>3
  <2>4. ASSUME HasDrawn(h)' PROVE Rank(ExpertOf(h)) < slot'[h] /\ slot'[h] < Drawn'
    <3>1. CASE h = g /\ b = 0
      BY <1>7, <2>1, <2>4, <3>1
    <3>2. CASE ~(h = g /\ b = 0)
      <4>1. HasDrawn(h) /\ slot'[h] = slot[h]
        BY <1>7, <2>1, <2>4, <3>2
      <4>2. Rank(ExpertOf(h)) < slot[h] /\ slot[h] < Drawn
        BY <2>1, <4>1 DEF TicketOf
      <4> QED
        BY <1>2, <2>1, <4>1, <4>2
    <3> QED
      BY <3>1, <3>2
  <2> QED
    BY <2>1, <2>2, <2>3, <2>4 DEF TicketOf
<1>9. ASSUME NEW h \in DOMAIN block', NEW c \in DOMAIN block'[h] PROVE BlockDoes(h, c)'
  <2>1. h \in DOMAIN block /\ c \in DOMAIN block[h] /\ BlockDoes(h, c)
    BY <1>1 DEF RunInv
  <2>2. PICK z : z = block'[h][c]
    OBVIOUS
  <2>3. CASE h = g /\ c = b
    <3>1. z = r
      BY <1>1, <2>1, <2>2, <2>3
    <3>2. /\ ~Leaving(h, z)' => z.expert # 0
          /\ Wrote(h, z)' => ShareDone(z.expert, c)'
      BY <1>3, <2>3, <3>1
    <3> QED
      BY <2>2, <3>2 DEF BlockDoes
  <2>4. CASE ~(h = g /\ c = b)
    <3>1. z = block[h][c] /\ z \in States
      BY <1>1, <1>2, <2>1, <2>2, <2>4
    <3>2. z.expert \in Nat
      BY <3>1 DEF States
    <3>3. (~Leaving(h, z) => z.expert # 0) /\ (Wrote(h, z) => ShareDone(z.expert, c))
      BY <2>1, <3>1 DEF BlockDoes
    <3>4. /\ ~Leaving(h, z)' => z.expert # 0
          /\ Wrote(h, z)' => ShareDone(z.expert, c)'
      BY <1>3, <1>5, <3>2, <3>3
    <3> QED
      BY <2>2, <3>4 DEF BlockDoes
  <2> QED
    BY <2>3, <2>4
<1>10. ASSUME NEW e \in Active' PROVE (Completed(e) \/ InHand(e) \/ Undrawn(e))'
  <2>1. e \in Active /\ e \in Nat /\ Rank(e) \in Nat /\ Rank(e)' = Rank(e)
    BY <1>4, ActiveFinite
  <2>2. CASE Completed(e)
    BY <1>5, <2>1, <2>2
  <2>3. CASE InHand(e)
    <3>1. PICK h \in DOMAIN block : ExpertOf(h) = e \/ (HasDrawn(h) /\ slot[h] = Rank(e))
      BY <2>3 DEF InHand
    <3>2. CASE ExpertOf(h) = e
      <4>1. ExpertOf(h)' = e /\ h \in DOMAIN block'
        BY <1>1, <1>6, <3>2
      <4> QED
        BY <4>1 DEF InHand
    <3>3. CASE HasDrawn(h) /\ slot[h] = Rank(e)
      <4>1. HasDrawn(h)' /\ slot'[h] = slot[h]
        <5>1. CASE h = g /\ b = 0
          BY <1>7, <3>3, <5>1 DEF HasDrawn
        <5>2. CASE ~(h = g /\ b = 0)
          BY <1>7, <3>3, <5>2
        <5> QED
          BY <5>1, <5>2
      <4>2. slot'[h] = Rank(e)' /\ h \in DOMAIN block'
        BY <1>1, <2>1, <3>3, <4>1
      <4> QED
        BY <4>1, <4>2 DEF InHand
    <3> QED
      BY <3>1, <3>2, <3>3
  <2>4. CASE Undrawn(e)
    <3>1. Drawn <= Rank(e) /\ \A h \in DOMAIN block : ExpertOf(h) # 0
      BY <2>4 DEF Undrawn
    <3>2. \A h \in DOMAIN block' : ExpertOf(h)' # 0
      BY <1>1, <1>6, <3>1
    <3>3. CASE Drawn' <= Rank(e)
      BY <2>1, <3>2, <3>3 DEF Undrawn
    <3>4. CASE ~(Drawn' <= Rank(e))
      <4>1. Drawn' = Drawn + 1 /\ b = 0 /\ Drew(g, r) /\ slot'[g] = Drawn
        BY <3>1, <3>4
      <4>2. Rank(e) = Drawn
        BY <1>2, <2>1, <3>1, <3>4, <4>1
      <4>3. HasDrawn(g)' /\ slot'[g] = Rank(e)' /\ g \in DOMAIN block'
        BY <1>1, <1>7, <2>1, <4>1, <4>2
      <4> QED
        BY <4>3 DEF InHand
    <3> QED
      BY <3>3, <3>4
  <2>5. Completed(e) \/ InHand(e) \/ Undrawn(e)
    BY <2>1 DEF RunInv
  <2> QED
    BY <2>2, <2>3, <2>4, <2>5
<1> QED
  BY <1>8, <1>9, <1>10 DEF RunInv

\* Who has ended does not change, and not what was noted of them.
LEMMA EndedKept ==
  ASSUME SizesAssumed, MoeInv, SchedOK, stage = "runs", NEW g \in DOMAIN block, NEW b \in DOMAIN block[g], NEW r,
         block' = [block EXCEPT ![g][b] = r], b = 0 => (block[g][0].at = "ended" <=> r.at = "ended"),
         UNCHANGED retired, next' = next \/ (b = 0 /\ r.at # "ended")
  PROVE  SchedOK'
<1>1. /\ DOMAIN block' = DOMAIN block
      /\ \A h \in DOMAIN block : \A c \in DOMAIN block[h] :
           block'[h][c] = IF h = g /\ c = b THEN r ELSE block[h][c]
  BY GridKept
<1>2. \A h \in DOMAIN block : 0 \in DOMAIN block[h]
  BY RunFacts
<1>3. Ended' = Ended
  <2>1. \A h \in DOMAIN block : block'[h][0].at = "ended" <=> block[h][0].at = "ended"
    BY <1>1, <1>2
  <2> QED
    BY <1>1, <2>1 DEF Ended
<1>4. next' # next => Ended # DOMAIN block
  BY DEF Ended
<1> QED
  BY <1>1, <1>3, <1>4 DEF SchedOK

\* A step that moves a block within what its group is at.
LEMMA QuietKeeps ==
  ASSUME SizesAssumed, MoeInv, RunInv, stage = "runs", NEW g \in DOMAIN block, NEW b \in DOMAIN block[g],
         NEW x, x = block[g][b], NEW r \in States,
         block' = [block EXCEPT ![g][b] = r], UNCHANGED <<ids, row, contrib, slot, sense, next>>,
         Sees(g, r) = Sees(g, x), ~Leaving(g, r) => r.expert # 0,
         Wrote(g, r) => Wrote(g, x) /\ r.expert = x.expert,
         Drew(g, r) <=> Drew(g, x),
         SchedOK'
  PROVE  RunInv'
<1>1. \A e \in Nat : \A p \in SortedRows(e) : Right(p, e) => Right(p, e)'
  BY DEF Right, Contribution
<1>2. group_size' = group_size /\ num_groups' = num_groups
  BY GridKept
<1>3. Drawn' = Drawn /\ Drawn \in Nat /\ x \in States
  BY <1>2, RunFacts DEF Drawn
<1>4. r.expert \in Nat /\ x.expert \in Nat
  BY <1>3 DEF States
<1>5. Sees(g, r)' = Sees(g, x)
  BY SightKept
<1>6. Wrote(g, r) => ShareDone(r.expert, b)'
  <2>1. \A e \in Nat : \A c : ShareDone(e, c) => ShareDone(e, c)'
    BY <1>1, <1>2, DoneKept
  <2>2. Wrote(g, x) => ShareDone(x.expert, b)
    BY DEF RunInv, BlockDoes
  <2> QED
    BY <1>4, <2>1, <2>2
<1>7. b = 0 /\ Drew(g, r) => Rank(ExpertOf(g)) < slot'[g] /\ slot'[g] < Drawn'
  <2>1. b = 0 /\ Drew(g, r) => HasDrawn(g)
    BY DEF HasDrawn
  <2>2. HasDrawn(g) => Rank(ExpertOf(g)) < slot[g] /\ slot[g] < Drawn
    BY DEF RunInv, TicketOf
  <2> QED
    BY <1>3, <2>1, <2>2
<1>8. Drawn <= Drawn'
  BY <1>3
<1> QED
  BY <1>1, <1>3, <1>4, <1>5, <1>6, <1>7, <1>8, StepKeeps

LEMMA RunArrives ==
  ASSUME SizesAssumed, MoeInv, RunInv, NEW g, NEW b, Arrive(g, b)
  PROVE  RunInv'
<1>1. At(g, b, "arrives") /\ UNCHANGED <<stage, ids, row, contrib, slot, sense, next, retired>>
  BY DEF Arrive, sorting, sched
<1>2. /\ MoeTypes /\ stage = "runs" /\ g \in DOMAIN block /\ b \in DOMAIN block[g]
      /\ block[g][b] \in States /\ block[g][b].at = "arrives" /\ sense[g] \in {0, 1}
  BY <1>1, BlockSteps
<1>3. PICK x : x = block[g][b]
  OBVIOUS
<1>4. PICK stop : stop = IF IsLastToArrive(g) THEN "resets" ELSE "waits"
  OBVIOUS
<1>5. PICK r : r = [x EXCEPT !.seen = sense[g], !.at = stop]
  OBVIOUS
<1>6. Becomes(g, b, r)
  BY <1>3, <1>4, <1>5 DEF Arrive
<1>7. x \in States /\ x.at = "arrives"
  BY <1>2, <1>3
<1>8. r \in States /\ r.at = stop /\ r.seen = sense[g] /\ r.expert = x.expert /\ r.phase = x.phase
  BY <1>2, <1>4, <1>5, <1>7 DEF States, Stops
<1>9. block' = [block EXCEPT ![g][b] = r]
  BY <1>2, <1>6, OneChanges
<1>10. Came(g, r) /\ ~Behind(g, r) /\ ~Behind(g, x) /\ r.at \in {"resets", "waits"}
  BY <1>4, <1>7, <1>8 DEF Came, Behind
<1>11. ~Leaving(g, r) /\ ~Leaving(g, x)
  BY <1>7, <1>10 DEF Leaving
<1>12. Sees(g, r) = Sees(g, x)
  BY <1>8, <1>11 DEF Sees
<1>13. r.expert # 0
  BY <1>2, <1>3, <1>8, <1>11 DEF RunInv, BlockDoes
<1>14. (Wrote(g, r) <=> Wrote(g, x)) /\ (Drew(g, r) <=> Drew(g, x))
  BY <1>7, <1>8, <1>10 DEF Wrote, Drew
<1>15. SchedOK'
  <2>1. b = 0 => (block[g][0].at = "ended" <=> r.at = "ended")
    BY <1>3, <1>7, <1>10
  <2> QED
    BY <1>1, <1>2, <1>9, <2>1, EndedKept DEF RunInv
<1> QED
  BY <1>1, <1>2, <1>3, <1>8, <1>9, <1>12, <1>13, <1>14, <1>15, QuietKeeps

LEMMA RunResets ==
  ASSUME SizesAssumed, MoeInv, RunInv, NEW g, NEW b, Reset(g, b)
  PROVE  RunInv'
<1>1. At(g, b, "resets") /\ UNCHANGED <<stage, ids, row, contrib, slot, sense, next, retired>>
  BY DEF Reset, sorting, sched
<1>2. /\ MoeTypes /\ stage = "runs" /\ g \in DOMAIN block /\ b \in DOMAIN block[g]
      /\ block[g][b] \in States /\ block[g][b].at = "resets"
  BY <1>1, BlockSteps
<1>3. PICK x : x = block[g][b]
  OBVIOUS
<1>4. PICK r : r = [x EXCEPT !.at = "flips"]
  OBVIOUS
<1>5. Becomes(g, b, r)
  BY <1>3, <1>4 DEF Reset
<1>6. x \in States /\ x.at = "resets"
  BY <1>2, <1>3
<1>7. r \in States /\ r.at = "flips" /\ r.seen = x.seen /\ r.expert = x.expert /\ r.phase = x.phase
  BY <1>4, <1>6 DEF States, Stops
<1>8. block' = [block EXCEPT ![g][b] = r]
  BY <1>2, <1>5, OneChanges
<1>9. Came(g, r) /\ Came(g, x) /\ ~Behind(g, r) /\ ~Behind(g, x)
  BY <1>6, <1>7 DEF Came, Behind
<1>10. ~Leaving(g, r) /\ ~Leaving(g, x)
  BY <1>6, <1>7, <1>9 DEF Leaving
<1>11. Sees(g, r) = Sees(g, x)
  BY <1>7, <1>10 DEF Sees
<1>12. r.expert # 0
  BY <1>2, <1>3, <1>7, <1>10 DEF RunInv, BlockDoes
<1>13. (Wrote(g, r) <=> Wrote(g, x)) /\ (Drew(g, r) <=> Drew(g, x))
  BY <1>6, <1>7, <1>9 DEF Wrote, Drew
<1>14. SchedOK'
  <2>1. b = 0 => (block[g][0].at = "ended" <=> r.at = "ended")
    BY <1>3, <1>6, <1>7
  <2> QED
    BY <1>1, <1>2, <1>8, <2>1, EndedKept DEF RunInv
<1> QED
  BY <1>1, <1>2, <1>3, <1>7, <1>8, <1>11, <1>12, <1>13, <1>14, QuietKeeps

LEMMA RunPasses ==
  ASSUME SizesAssumed, MoeInv, RunInv, NEW g, NEW b, Pass(g, b)
  PROVE  RunInv'
<1>1. At(g, b, "waits") /\ UNCHANGED <<stage, ids, row, contrib, slot, sense, next, retired>>
  BY DEF Pass, sorting, sched, barrier
<1>2. /\ MoeTypes /\ stage = "runs" /\ g \in DOMAIN block /\ b \in DOMAIN block[g]
      /\ block[g][b] \in States /\ block[g][b].at = "waits"
  BY <1>1, BlockSteps
<1>3. PICK x : x = block[g][b]
  OBVIOUS
<1>4. x \in States /\ x.at = "waits" /\ sense[g] # x.seen
  BY <1>2, <1>3 DEF Pass, MayPass
<1>5. PICK r : Becomes(g, b, r) /\ r = Passed(g, b)
  BY DEF Pass
<1>6. r \in States /\ r.expert = x.expert
      /\ IF x.phase < 5 THEN r.at = "works" /\ r.phase = x.phase + 1 ELSE r.at = "reads" /\ r.phase = 5
  BY <1>3, <1>4, <1>5, PassedOn
<1>7. block' = [block EXCEPT ![g][b] = r]
  BY <1>2, <1>5, OneChanges
<1>8. x.phase \in 1..5 /\ Behind(g, x) /\ ~Came(g, x) /\ ~Came(g, r)
  BY <1>4, <1>6 DEF States, Behind, Came
<1>9. ~Wrote(g, x) /\ ~Wrote(g, r) /\ ~Drew(g, x) /\ ~Drew(g, r)
  BY <1>4, <1>6, <1>8 DEF Wrote, Drew
<1>10. Sees(g, r) = Sees(g, x) /\ (~Leaving(g, r) => r.expert # 0)
  <2>1. CASE x.phase < 5
    <3>1. ~Leaving(g, x) /\ ~Leaving(g, r)
      BY <1>4, <1>6, <2>1 DEF Leaving, Behind
    <3>2. x.expert # 0
      BY <1>2, <1>3, <3>1 DEF RunInv, BlockDoes
    <3> QED
      BY <1>6, <3>1, <3>2 DEF Sees
  <2>2. CASE x.phase = 5
    <3>1. Leaving(g, x) /\ Leaving(g, r) /\ Behind(g, r)
      BY <1>6, <1>8, <2>2 DEF Leaving, Behind
    <3> QED
      BY <1>6, <1>8, <3>1 DEF Sees
  <2> QED
    BY <1>8, <2>1, <2>2
<1>11. SchedOK'
  <2>1. b = 0 => (block[g][0].at = "ended" <=> r.at = "ended")
    BY <1>3, <1>4, <1>6
  <2> QED
    BY <1>1, <1>2, <1>7, <2>1, EndedKept DEF RunInv
<1> QED
  BY <1>1, <1>2, <1>3, <1>6, <1>7, <1>9, <1>10, <1>11, QuietKeeps

LEMMA RunReads ==
  ASSUME SizesAssumed, MoeInv, RunInv, NEW g, NEW b, ReadTicket(g, b)
  PROVE  RunInv'
<1>1. At(g, b, "reads") /\ UNCHANGED <<stage, ids, row, contrib, slot, sense, next, retired>>
  BY DEF ReadTicket, sorting, sched, barrier
<1>2. /\ MoeTypes /\ stage = "runs" /\ g \in DOMAIN block /\ b \in DOMAIN block[g]
      /\ block[g][b] \in States /\ block[g][b].at = "reads" /\ GroupInv(g)
  BY <1>1, BlockSteps
<1>3. PICK x : x = block[g][b]
  OBVIOUS
<1>4. x \in States /\ x.at = "reads" /\ x.phase = 5 /\ x.shares \in Nat
  <2>1. PICK rounds \in Nat, expert \in Nat, nth \in 1..5 : Together(g, rounds, expert, nth)
    BY <1>2 DEF GroupInv
  <2>2. Fits(g, x, rounds, expert, nth) /\ x \in States /\ x.at = "reads"
    BY <1>2, <1>3, <2>1 DEF Together
  <2> QED
    BY <2>2 DEF Fits, States
<1>5. PICK t, f, n : t = slot[g] /\ f = x.expert + 1 /\ n = x.shares
  OBVIOUS
<1>6. PICK r : r = Enter(b, t, f, n)
  OBVIOUS
<1>7. Becomes(g, b, r)
  BY <1>3, <1>5, <1>6 DEF ReadTicket
<1>8. n \in Nat
  BY <1>4, <1>5
<1>9. /\ r \in States /\ r.expert = Claimed(t, f) /\ r.phase = 1
      /\ r.at \in {"works", "retires", "ended"} /\ (r.at \in {"retires", "ended"} <=> Claimed(t, f) = 0)
  BY <1>6, <1>8, Entered
<1>10. b = 0 => r.at # "ended"
  BY <1>6 DEF Enter
<1>11. block' = [block EXCEPT ![g][b] = r]
  BY <1>2, <1>7, OneChanges
<1>12. ~Behind(g, r) /\ Behind(g, x) /\ Leaving(g, x) /\ (Leaving(g, r) <=> r.expert = 0)
  BY <1>4, <1>9 DEF Behind, Leaving
<1>13. Sees(g, x) = Claimed(t, f) /\ Sees(g, r) = Claimed(t, f)
  BY <1>5, <1>9, <1>12 DEF Sees
<1>14. ~Wrote(g, x) /\ ~Wrote(g, r) /\ ~Drew(g, x) /\ ~Drew(g, r)
  BY <1>4, <1>9 DEF Wrote, Drew, Came
<1>15. SchedOK'
  <2>1. b = 0 => (block[g][0].at = "ended" <=> r.at = "ended")
    BY <1>3, <1>4, <1>10
  <2> QED
    BY <1>1, <1>2, <1>11, <2>1, EndedKept DEF RunInv
<1> QED
  BY <1>1, <1>2, <1>3, <1>9, <1>11, <1>12, <1>13, <1>14, <1>15, QuietKeeps

LEMMA RunWorks ==
  ASSUME SizesAssumed, MoeInv, RunInv, Routed, DOMAIN contrib = Routes, NEW g, NEW b, Work(g, b)
  PROVE  RunInv'
<1>1. At(g, b, "works") /\ UNCHANGED <<stage, ids, row, slot, sense, next, retired>>
  BY DEF Work, sorting, sched, barrier
<1>2. /\ MoeTypes /\ stage = "runs" /\ g \in DOMAIN block /\ b \in DOMAIN block[g]
      /\ block[g][b] \in States /\ block[g][b].at = "works"
  BY <1>1, BlockSteps
<1>3. PICK x : x = block[g][b]
  OBVIOUS
<1>4. PICK stop : stop = IF x.phase = 5 /\ b = 0 THEN "draws" ELSE "arrives"
  OBVIOUS
<1>5. PICK r : r = [x EXCEPT !.at = stop, !.shares = @ + 1]
  OBVIOUS
<1>6. Becomes(g, b, r)
  BY <1>3, <1>4, <1>5 DEF Work
<1>7. x \in States /\ x.at = "works" /\ x.expert \in Nat /\ x.phase \in 1..5
  BY <1>2, <1>3 DEF States
<1>8. r.at = stop /\ r.expert = x.expert /\ r.phase = x.phase
  BY <1>5, <1>7 DEF States
<1>9. block' = [block EXCEPT ![g][b] = r]
  BY <1>2, <1>6, OneChanges
<1>10. ~Behind(g, r) /\ ~Behind(g, x) /\ ~Came(g, r) /\ ~Came(g, x)
  BY <1>4, <1>7, <1>8 DEF Came, Behind
<1>11. ~Leaving(g, r) /\ ~Leaving(g, x)
  BY <1>4, <1>7, <1>8, <1>10 DEF Leaving
<1>12. Sees(g, r)' = Sees(g, x)
  <2>1. Sees(g, r)' = Sees(g, r)
    BY <1>1, SightKept
  <2>2. Sees(g, r) = Sees(g, x)
    BY <1>8, <1>11 DEF Sees
  <2> QED
    BY <2>1, <2>2
<1>13. r.expert # 0
  BY <1>2, <1>3, <1>8, <1>11 DEF RunInv, BlockDoes
<1>14. ~Wrote(g, x) /\ ~Drew(g, x) /\ (Wrote(g, r) => x.phase = 5) /\ (b = 0 => ~Drew(g, r))
  BY <1>4, <1>7, <1>8, <1>10 DEF Wrote, Drew
<1>15. PICK e : e = x.expert
  OBVIOUS
<1>16. e \in Nat /\ SortedRows(e) \in SUBSET Routes /\ Share(e, b) \in SUBSET SortedRows(e)
  <2>1. e \in Nat
    BY <1>7, <1>15
  <2>2. SortedRows(e) \in SUBSET Routes
    BY <2>1, SpansInside
  <2>3. Share(e, b) \in SUBSET SortedRows(e)
    BY DEF Share
  <2> QED
    BY <2>1, <2>2, <2>3
<1>17. contrib' = IF x.phase # 5 THEN contrib
                  ELSE [p \in DOMAIN contrib |-> IF p \in Share(e, b) THEN Contribution(p, e) ELSE contrib[p]]
  BY <1>3, <1>15 DEF Work
<1>18. \A p, d : Contribution(p, d)' = Contribution(p, d)
  BY <1>1 DEF Contribution
<1>19. x.phase = 5 => \A p \in Share(e, b) : Right(p, e)'
  <2> SUFFICES ASSUME x.phase = 5, NEW p \in Share(e, b) PROVE Right(p, e)'
    OBVIOUS
  <2>1. p \in DOMAIN contrib
    BY <1>16
  <2>2. contrib'[p] = Contribution(p, e)
    BY <1>17, <2>1
  <2> QED
    BY <1>18, <2>2 DEF Right
<1>20. ASSUME NEW d \in Nat, NEW p \in SortedRows(d), Right(p, d) PROVE Right(p, d)'
  <2>1. CASE x.phase = 5 /\ p \in Share(e, b)
    <3>1. p \in SortedRows(e)
      BY <1>16, <2>1
    <3>2. d = e
      BY <1>16, <1>20, <3>1, SpansApart
    <3> QED
      BY <1>19, <2>1, <3>2
  <2>2. CASE ~(x.phase = 5 /\ p \in Share(e, b))
    <3>1. p \in DOMAIN contrib
      BY <1>20, SpansInside
    <3>2. contrib'[p] = contrib[p]
      BY <1>17, <2>2, <3>1
    <3> QED
      BY <1>18, <1>20, <3>2 DEF Right
  <2> QED
    BY <2>1, <2>2
<1>21. group_size' = group_size /\ num_groups' = num_groups
  BY <1>2, <1>9, GridKept
<1>22. Drawn' = Drawn /\ Drawn \in Nat
  BY <1>1, <1>2, <1>21, RunFacts DEF Drawn
<1>23. Wrote(g, r) => ShareDone(r.expert, b)'
  <2>1. Share(e, b)' = Share(e, b)
    <3>1. \A d : SortedRows(d)' = SortedRows(d) /\ Offset(d)' = Offset(d)
      BY <1>1, SpansKept
    <3> QED
      BY <1>21, <3>1 DEF Share
  <2>2. x.phase = 5 => ShareDone(e, b)'
    BY <1>19, <2>1 DEF ShareDone
  <2> QED
    BY <1>8, <1>14, <1>15, <2>2
<1>24. SchedOK'
  <2>1. b = 0 => (block[g][0].at = "ended" <=> r.at = "ended")
    BY <1>3, <1>4, <1>7, <1>8
  <2> QED
    BY <1>1, <1>2, <1>9, <2>1, EndedKept DEF RunInv
<1>25. r.expert \in Nat /\ Drawn' \in Nat /\ Drawn <= Drawn'
  BY <1>7, <1>8, <1>22
<1> QED
  BY <1>1, <1>2, <1>3, <1>9, <1>12, <1>13, <1>14, <1>20, <1>22, <1>23, <1>24, <1>25, StepKeeps

LEMMA RunDraws ==
  ASSUME SizesAssumed, MoeInv, RunInv, NEW g, Draw(g)
  PROVE  RunInv'
<1>1. At(g, 0, "draws") /\ UNCHANGED <<stage, ids, row, contrib, sense, retired>>
      /\ slot' = [slot EXCEPT ![g] = Drawn] /\ next' = next + 1
  BY DEF Draw, sorting, barrier
<1>2. PICK b : b = 0
  OBVIOUS
<1>3. /\ MoeTypes /\ stage = "runs" /\ g \in DOMAIN block /\ b \in DOMAIN block[g]
      /\ block[g][b] \in States /\ block[g][b].at = "draws" /\ GroupInv(g) /\ g \in 0..(Concurrency - 1)
  BY <1>1, <1>2, BlockSteps
<1>4. PICK x : x = block[g][b]
  OBVIOUS
<1>5. x \in States /\ x.at = "draws" /\ x.phase = 5
  <2>1. PICK rounds \in Nat, expert \in Nat, nth \in 1..5 : Together(g, rounds, expert, nth)
    BY <1>3 DEF GroupInv
  <2>2. Fits(g, x, rounds, expert, nth) /\ x \in States /\ x.at = "draws"
    BY <1>3, <1>4, <2>1 DEF Together
  <2> QED
    BY <2>2 DEF Fits
<1>6. PICK r : r = [x EXCEPT !.at = "arrives"]
  OBVIOUS
<1>7. Becomes(g, b, r)
  BY <1>2, <1>4, <1>6 DEF Draw
<1>8. r.at = "arrives" /\ r.expert = x.expert /\ r.phase = 5 /\ x.expert \in Nat
  BY <1>5, <1>6 DEF States
<1>9. block' = [block EXCEPT ![g][b] = r]
  BY <1>3, <1>7, OneChanges
<1>10. ~Leaving(g, r) /\ ~Leaving(g, x) /\ Wrote(g, r) /\ Wrote(g, x) /\ Drew(g, r) /\ ~Drew(g, x)
  BY <1>5, <1>8 DEF Leaving, Behind, Wrote, Drew
<1>11. ExpertOf(g) = x.expert /\ Sees(g, x) = x.expert
  BY <1>2, <1>4, <1>10 DEF ExpertOf, Sees
<1>12. Sees(g, r)' = Sees(g, x)
  <2>1. ~Leaving(g, r)'
    <3>1. sense'[g] = sense[g]
      BY <1>1
    <3>2. Leaving(g, r)' = Leaving(g, r)
      BY <3>1, SensesKept
    <3> QED
      BY <1>10, <3>2
  <2> QED
    BY <1>8, <1>11, <2>1 DEF Sees
<1>13. x.expert # 0 /\ ShareDone(x.expert, b)
  BY <1>3, <1>4, <1>10 DEF RunInv, BlockDoes
<1>14. \A e \in Nat : \A p \in SortedRows(e) : Right(p, e) => Right(p, e)'
  BY <1>1 DEF Right, Contribution
<1>15. group_size' = group_size /\ num_groups' = num_groups
  BY <1>3, <1>9, GridKept
<1>16. /\ Drawn \in Nat /\ num_groups \in Nat /\ next \in Nat /\ Drawn = num_groups + next
       /\ slot \in [0..(Concurrency - 1) -> Nat]
  BY <1>3, RunFacts DEF MoeTypes
<1>17. Drawn' = num_groups + (next + 1)
  BY <1>1, <1>15 DEF Drawn
<1>18. Drawn' = Drawn + 1 /\ Drawn' \in Nat /\ Drawn <= Drawn'
  BY <1>16, <1>17
<1>19. slot'[g] = Drawn /\ \A h \in DOMAIN block : h # g => slot'[h] = slot[h]
  <2>1. \A h \in DOMAIN block : h \in 0..(Concurrency - 1)
    BY <1>3, RunFacts
  <2> QED
    BY <1>1, <1>3, <1>16, <2>1
<1>20. Rank(ExpertOf(g)) < slot'[g] /\ slot'[g] < Drawn'
  <2>1. Rank(ExpertOf(g)) < Drawn
    BY <1>3, <1>11, <1>13 DEF RunInv, TicketOf
  <2> QED
    BY <1>16, <1>18, <1>19, <2>1
<1>21. ShareDone(r.expert, b)'
  <2>1. \A e \in Nat : \A c : ShareDone(e, c) => ShareDone(e, c)'
    BY <1>1, <1>14, <1>15, DoneKept
  <2> QED
    BY <1>8, <1>13, <2>1
<1>22. SchedOK'
  <2>1. b = 0 => (block[g][0].at = "ended" <=> r.at = "ended")
    BY <1>2, <1>4, <1>5, <1>8
  <2>2. b = 0 /\ r.at # "ended"
    BY <1>2, <1>8
  <2> QED
    BY <1>1, <1>3, <1>9, <2>1, <2>2, EndedKept DEF RunInv
<1>23. r.expert \in Nat /\ r.expert # 0
  BY <1>8, <1>13
<1>24. \A h \in DOMAIN block : h # g \/ b # 0 => slot'[h] = slot[h]
  BY <1>2, <1>19
<1> QED
  BY <1>1, <1>2, <1>3, <1>4, <1>9, <1>10, <1>12, <1>14, <1>18, <1>19, <1>20, <1>21, <1>22, <1>23, <1>24, StepKeeps

LEMMA RunRetires ==
  ASSUME SizesAssumed, MoeInv, RunInv, NEW g, Retire(g)
  PROVE  RunInv'
<1>1. At(g, 0, "retires") /\ UNCHANGED <<stage, ids, row, contrib, slot, sense>>
      /\ retired' = (IF IsLastGroup THEN 0 ELSE retired + 1)
      /\ next' = (IF IsLastGroup THEN 0 ELSE next)
  BY DEF Retire, sorting, barrier
<1>2. PICK b : b = 0
  OBVIOUS
<1>3. /\ MoeTypes /\ stage = "runs" /\ g \in DOMAIN block /\ b \in DOMAIN block[g]
      /\ block[g][b] \in States /\ block[g][b].at = "retires"
  BY <1>1, <1>2, BlockSteps
<1>4. PICK x : x = block[g][b]
  OBVIOUS
<1>5. x \in States /\ x.at = "retires"
  BY <1>3, <1>4
<1>6. PICK r : r = [x EXCEPT !.at = "ended"]
  OBVIOUS
<1>7. Becomes(g, b, r)
  BY <1>2, <1>4, <1>6 DEF Retire
<1>8. r \in States /\ r.at = "ended" /\ r.expert = x.expert /\ r.phase = x.phase
  BY <1>5, <1>6 DEF States, Stops
<1>9. block' = [block EXCEPT ![g][b] = r]
  BY <1>3, <1>7, OneChanges
<1>10. /\ \A z : z.at \in {"retires", "ended"} =>
               \A h : Leaving(h, z) /\ Sees(h, z) = 0 /\ ~Wrote(h, z) /\ ~Drew(h, z)
  BY DEF Leaving, Sees, Behind, Wrote, Drew, Came
<1>11. /\ DOMAIN block' = DOMAIN block
       /\ \A h \in DOMAIN block : DOMAIN block'[h] = DOMAIN block[h]
       /\ \A h \in DOMAIN block : \A c \in DOMAIN block[h] :
            block'[h][c] = IF h = g /\ c = b THEN r ELSE block[h][c]
       /\ group_size' = group_size
  BY <1>3, <1>9, GridKept
<1>12. /\ IsFiniteSet(DOMAIN block) /\ num_groups = Cardinality(DOMAIN block) /\ num_groups \in Nat \ {0}
       /\ \A h \in DOMAIN block : 0 \in DOMAIN block[h] /\ \A c \in DOMAIN block[h] : block[h][c] \in States
  BY <1>3, RunFacts
<1>13. g \notin Ended /\ Ended # DOMAIN block /\ Ended \in SUBSET DOMAIN block
  BY <1>2, <1>3 DEF Ended
<1>14. Ended' = Ended \union {g}
  <2>1. \A h \in DOMAIN block : block'[h][0].at = "ended" <=> h = g \/ block[h][0].at = "ended"
    BY <1>2, <1>8, <1>11, <1>12
  <2>2. Ended' = {h \in DOMAIN block : block'[h][0].at = "ended"}
    BY <1>11 DEF Ended
  <2>3. Ended' = {h \in DOMAIN block : h = g \/ block[h][0].at = "ended"}
    BY <2>1, <2>2
  <2> QED
    BY <1>3, <2>3 DEF Ended
<1>15. PICK S, T : S = Ended /\ T = Ended \union {g}
  OBVIOUS
<1>16. /\ IsFiniteSet(S) /\ IsFiniteSet(T) /\ T \in SUBSET DOMAIN block
       /\ Cardinality(T) = Cardinality(S) + 1 /\ Cardinality(S) \in Nat
       /\ (Cardinality(T) = num_groups <=> T = DOMAIN block)
  <2>1. IsFiniteSet(S) /\ T \in SUBSET DOMAIN block
    BY <1>3, <1>12, <1>13, <1>15, FS_Subset
  <2>2. IsFiniteSet(T) /\ (Cardinality(T) = Cardinality(DOMAIN block) => T = DOMAIN block)
    BY <1>12, <2>1, FS_Subset
  <2>3. Cardinality(T) = Cardinality(S) + 1
    BY <1>13, <1>15, <2>1, FS_AddElement
  <2>4. Cardinality(S) \in Nat
    BY <2>1, FS_CardinalityType
  <2> QED
    BY <1>12, <2>1, <2>2, <2>3, <2>4
<1>17. retired = Cardinality(S)
  BY <1>13, <1>15 DEF RunInv, SchedOK
<1>18. IsLastGroup <=> T = DOMAIN block
  BY <1>12, <1>16, <1>17 DEF IsLastGroup
<1>19. SchedOK'
  <2>1. Ended' = T
    BY <1>14, <1>15
  <2>2. CASE T = DOMAIN block
    BY <1>1, <1>11, <1>18, <2>1, <2>2 DEF SchedOK
  <2>3. CASE T # DOMAIN block
    BY <1>1, <1>11, <1>16, <1>17, <1>18, <2>1, <2>3 DEF SchedOK
  <2> QED
    BY <2>2, <2>3
<1>20. CASE ~IsLastGroup
  <2>1. UNCHANGED next
    BY <1>1, <1>20
  <2>2. Sees(g, r) = Sees(g, x) /\ Leaving(g, r) /\ ~Wrote(g, r) /\ ~Drew(g, r) /\ ~Drew(g, x)
    BY <1>5, <1>8, <1>10
  <2> QED
    BY <1>1, <1>3, <1>4, <1>8, <1>9, <1>19, <2>1, <2>2, QuietKeeps
<1>21. CASE IsLastGroup
  <2>1. \A h \in DOMAIN block : block[h][0].at \in {"retires", "ended"} /\ block'[h][0].at = "ended"
    <3>1. Ended' = DOMAIN block /\ \A h \in DOMAIN block : h = g \/ h \in Ended
      BY <1>14, <1>15, <1>18, <1>21
    <3> QED
      BY <1>2, <1>3, <1>11, <3>1 DEF Ended
  <2>2. \A h \in DOMAIN block : ExpertOf(h) = 0 /\ ~HasDrawn(h)
    BY <1>10, <2>1 DEF ExpertOf, HasDrawn
  <2>3. ASSUME NEW h \in DOMAIN block' PROVE TicketOf(h)'
    <3>1. PICK z : z = block'[h][0]
      OBVIOUS
    <3>2. z.at = "ended"
      BY <1>11, <2>1, <3>1
    <3>3. Sees(h, z)' = 0 /\ ~Drew(h, z)'
      BY <3>2 DEF Leaving, Sees, Behind, Wrote, Drew, Came
    <3>4. ExpertOf(h)' = 0 /\ ~HasDrawn(h)'
      BY <3>1, <3>3 DEF ExpertOf, HasDrawn
    <3> QED
      BY <3>4 DEF TicketOf
  <2>4. \A e \in Nat : \A p \in SortedRows(e) : Right(p, e) => Right(p, e)'
    BY <1>1 DEF Right, Contribution
  <2>5. \A e \in Nat : (Completed(e) => Completed(e)') /\ \A c : ShareDone(e, c) => ShareDone(e, c)'
    BY <1>1, <1>11, <2>4, DoneKept
  <2>6. ASSUME NEW e \in Active' PROVE Completed(e)'
    <3>1. e \in Active /\ e \in Nat /\ e # 0
      <4>1. Active' = Active
        BY <1>1, RankKept
      <4>2. Active \in SUBSET (1..NExperts)
        BY ActiveFinite
      <4> QED
        BY <2>6, <4>1, <4>2 DEF SizesAssumed
    <3>2. ~InHand(e)
      BY <2>2, <3>1 DEF InHand
    <3>3. ~Undrawn(e)
      BY <1>3, <2>2 DEF Undrawn
    <3>4. Completed(e)
      BY <3>1, <3>2, <3>3 DEF RunInv
    <3> QED
      BY <2>5, <3>1, <3>4
  <2>7. ASSUME NEW h \in DOMAIN block', NEW c \in DOMAIN block'[h] PROVE BlockDoes(h, c)'
    <3>1. PICK z : z = block'[h][c]
      OBVIOUS
    <3>2. h \in DOMAIN block /\ c \in DOMAIN block[h] /\ BlockDoes(h, c)
          /\ z = IF h = g /\ c = b THEN r ELSE block[h][c]
      BY <1>11, <3>1 DEF RunInv
    <3>3. Leaving(h, z)' = Leaving(h, z) /\ Wrote(h, z)' = Wrote(h, z)
      BY <1>1, SensesKept
    <3>4. CASE h = g /\ c = b
      <4>1. Leaving(h, z) /\ ~Wrote(h, z)
        BY <1>8, <1>10, <3>2, <3>4
      <4> QED
        BY <3>1, <3>3, <4>1 DEF BlockDoes
    <3>5. CASE ~(h = g /\ c = b)
      <4>1. z = block[h][c] /\ z \in States
        BY <1>12, <3>2, <3>5
      <4>2. z.expert \in Nat /\ (~Leaving(h, z) => z.expert # 0) /\ (Wrote(h, z) => ShareDone(z.expert, c))
        BY <3>2, <4>1 DEF BlockDoes, States
      <4>3. (~Leaving(h, z)' => z.expert # 0) /\ (Wrote(h, z)' => ShareDone(z.expert, c)')
        BY <2>5, <3>3, <4>2
      <4> QED
        BY <3>1, <4>3 DEF BlockDoes
    <3> QED
      BY <3>4, <3>5
  <2> QED
    BY <1>19, <2>3, <2>6, <2>7 DEF RunInv
<1> QED
  BY <1>20, <1>21
\* The last of a group to come to the barrier opens it: the group goes on to the
\* next phase, or has completed its expert and goes on to its ticket's.
LEMMA RunFlips ==
  ASSUME SizesAssumed, MoeInv, RunInv, Routed, NEW g, NEW b, Flip(g, b)
  PROVE  RunInv'
<1>1. /\ At(g, b, "flips") /\ UNCHANGED <<stage, ids, row, contrib, next, retired, slot>>
      /\ sense' = [sense EXCEPT ![g] = 1 - block[g][b].seen]
  BY DEF Flip, sorting, sched
<1>2. /\ MoeTypes /\ stage = "runs" /\ g \in DOMAIN block /\ b \in DOMAIN block[g]
      /\ block[g][b] \in States /\ block[g][b].at = "flips" /\ GroupInv(g) /\ g \in 0..(Concurrency - 1)
      /\ sense[g] \in {0, 1}
  BY <1>1, BlockSteps
<1>3. PICK x : x = block[g][b]
  OBVIOUS
<1>4. x \in States /\ x.at = "flips" /\ x.seen = sense[g]
      /\ \A c \in DOMAIN block[g] \ {b} : block[g][c].at = "waits" /\ block[g][c].seen = sense[g]
  BY <1>2, <1>3 DEF GroupInv, Counts
<1>5. PICK r : Becomes(g, b, r) /\ r = Passed(g, b)
  BY DEF Flip
<1>6. r \in States /\ r.expert = x.expert
      /\ IF x.phase < 5 THEN r.at = "works" /\ r.phase = x.phase + 1 ELSE r.at = "reads" /\ r.phase = 5
  BY <1>3, <1>4, <1>5, PassedOn
<1>7. block' = [block EXCEPT ![g][b] = r]
  BY <1>2, <1>5, OneChanges
<1>8. /\ DOMAIN block' = DOMAIN block /\ group_size' = group_size /\ num_groups' = num_groups
      /\ \A h \in DOMAIN block : DOMAIN block'[h] = DOMAIN block[h]
      /\ \A h \in DOMAIN block : \A c \in DOMAIN block[h] :
           block'[h][c] = IF h = g /\ c = b THEN r ELSE block[h][c]
  BY <1>2, <1>7, GridKept
<1>9. /\ Drawn \in Nat
      /\ \A h \in DOMAIN block : /\ 0 \in DOMAIN block[h] /\ slot[h] \in Nat /\ h \in 0..(Concurrency - 1)
                                 /\ \A c \in DOMAIN block[h] : block[h][c] \in States
  BY <1>2, RunFacts
<1>10. Drawn' = Drawn
  BY <1>1, <1>8 DEF Drawn
<1>11. sense'[g] # sense[g] /\ \A h \in DOMAIN block : h # g => sense'[h] = sense[h]
  <2>1. 1 - x.seen # sense[g]
    BY <1>2, <1>4
  <2>2. sense \in [0..(Concurrency - 1) -> {0, 1}]
    BY <1>2 DEF MoeTypes
  <2> QED
    BY <1>1, <1>2, <1>3, <1>9, <2>1, <2>2
<1>12. PICK e, nth : e = x.expert /\ nth = x.phase
  OBVIOUS
<1>13. ASSUME NEW c \in DOMAIN block[g]
       PROVE  /\ Came(g, block[g][c]) /\ ~Leaving(g, block[g][c])
              /\ block[g][c].expert = e /\ block[g][c].phase = nth /\ ExpertOf(g) = e
  <2>1. PICK rounds \in Nat, expert \in Nat, p \in 1..5 : Together(g, rounds, expert, p)
    BY <1>2 DEF GroupInv
  <2>2. PICK z : z = block[g][c]
    OBVIOUS
  <2>3. Fits(g, x, rounds, expert, p) /\ Fits(g, z, rounds, expert, p)
    BY <1>2, <1>3, <2>1, <2>2 DEF Together
  <2>4. (z.at = "flips" \/ (z.at = "waits" /\ z.seen = sense[g])) /\ Came(g, x)
    BY <1>4, <1>3, <2>2 DEF Came
  <2>5. Came(g, z) /\ ~Leaving(g, z)
    BY <2>4 DEF Came, Leaving, Behind
  <2>6. x.expert = expert /\ x.phase = p /\ z.expert = expert /\ z.phase = p
    BY <2>3, <2>4, <2>5 DEF Fits
  <2>7. Sees(g, z) = z.expert /\ Sees(g, z) = ExpertOf(g)
    <3>1. Sees(g, z) = z.expert
      BY <2>5 DEF Sees
    <3>2. Sees(g, block[g][c]) = ExpertOf(g)
      BY <1>2, GroupAgrees
    <3> QED
      BY <2>2, <3>1, <3>2
  <2> QED
    BY <1>12, <2>2, <2>5, <2>6, <2>7
<1>14. e \in Nat /\ nth \in 1..5 /\ e # 0 /\ ExpertOf(g) = e
  <2>1. x.expert \in Nat /\ x.phase \in 1..5
    BY <1>4 DEF States
  <2>2. ~Leaving(g, x) /\ ExpertOf(g) = e
    BY <1>2, <1>3, <1>13
  <2>3. x.expert # 0
    BY <1>2, <1>3, <2>2 DEF RunInv, BlockDoes
  <2> QED
    BY <1>12, <2>1, <2>2, <2>3
<1>15. e \in Active /\ Rank(e) < Drawn /\ Rank(e) \in Nat
  BY <1>2, <1>14, ActiveFinite DEF RunInv, TicketOf
<1>16. Active' = Active /\ (\A d : Rank(d)' = Rank(d)) /\ \A t, f : Claimed(t, f)' = Claimed(t, f)
  BY <1>1, RankKept, SameClaims
<1>17. \A d \in Nat : (Completed(d) => Completed(d)') /\ \A c : ShareDone(d, c) => ShareDone(d, c)'
  <2>1. \A d \in Nat : \A p \in SortedRows(d) : Right(p, d) => Right(p, d)'
    BY <1>1 DEF Right, Contribution
  <2> QED
    BY <1>1, <1>8, <2>1, DoneKept
<1>18. PICK k : k = Claimed(slot[g], e + 1)
  OBVIOUS
\* What the blocks of the group are at afterwards.
<1>19. ASSUME NEW c \in DOMAIN block[g]
       PROVE  /\ ~Wrote(g, block[g][c])' /\ (~Leaving(g, block[g][c])' => block'[g][c].expert # 0)
              /\ Sees(g, block[g][c])' = IF nth < 5 THEN e ELSE k
  <2>1. PICK z : z = block'[g][c]
    OBVIOUS
  <2>2. CASE c = b
    <3>1. z = r
      BY <1>2, <1>8, <2>1, <2>2
    <3>2. z.expert = e /\ ~Came(g, z)' /\ ~Wrote(g, z)'
          /\ IF nth < 5 THEN z.at = "works" ELSE z.at = "reads" /\ z.phase = 5
      BY <1>6, <1>12, <3>1 DEF Came, Wrote
    <3>3. CASE nth < 5
      <4>1. ~Leaving(g, z)'
        BY <3>2, <3>3 DEF Leaving, Behind
      <4>2. Sees(g, z)' = e
        BY <3>2, <4>1 DEF Sees
      <4> QED
        BY <1>14, <2>1, <3>2, <3>3, <4>1, <4>2
    <3>4. CASE ~(nth < 5)
      <4>1. Leaving(g, z)' /\ Behind(g, z)'
        BY <3>2, <3>4 DEF Leaving, Behind
      <4>2. Sees(g, z)' = Claimed(slot[g], e + 1)'
        BY <3>2, <4>1 DEF Sees
      <4>3. Claimed(slot[g], e + 1)' = k
        BY <1>1, <1>16, <1>18
      <4> QED
        BY <2>1, <3>2, <3>4, <4>1, <4>2, <4>3
    <3> QED
      BY <3>3, <3>4
  <2>3. CASE c # b
    <3>1. z = block[g][c]
      BY <1>2, <1>8, <2>1, <2>3
    <3>2. z.expert = e /\ z.phase = nth /\ z.at = "waits" /\ z.seen = sense[g]
      BY <1>4, <1>13, <2>3, <3>1
    <3>3. ~Came(g, z)' /\ Behind(g, z)' /\ ~Wrote(g, z)'
      BY <1>11, <3>2 DEF Came, Behind, Wrote
    <3>4. CASE nth < 5
      <4>1. ~Leaving(g, z)'
        BY <3>2, <3>4 DEF Leaving
      <4>2. Sees(g, z)' = e
        BY <3>2, <4>1 DEF Sees
      <4> QED
        BY <1>14, <2>1, <3>2, <3>3, <3>4, <4>1, <4>2
    <3>5. CASE ~(nth < 5)
      <4>1. Leaving(g, z)'
        BY <1>14, <3>2, <3>3, <3>5 DEF Leaving
      <4>2. Sees(g, z)' = Claimed(slot[g], e + 1)'
        BY <3>2, <3>3, <4>1 DEF Sees
      <4>3. Claimed(slot[g], e + 1)' = k
        BY <1>1, <1>16, <1>18
      <4> QED
        BY <2>1, <3>2, <3>3, <3>5, <4>1, <4>2, <4>3
    <3> QED
      BY <3>4, <3>5
  <2> QED
    BY <2>2, <2>3
<1>20. ExpertOf(g)' = (IF nth < 5 THEN e ELSE k) /\ ~HasDrawn(g)'
  <2>1. 0 \in DOMAIN block[g]
    BY <1>2, <1>9
  <2>2. ~Wrote(g, block[g][0])' /\ Sees(g, block[g][0])' = IF nth < 5 THEN e ELSE k
    BY <1>19, <2>1
  <2> QED
    BY <2>2 DEF ExpertOf, HasDrawn, Drew
<1>21. ASSUME NEW h \in DOMAIN block, h # g
       PROVE  /\ ExpertOf(h)' = ExpertOf(h) /\ HasDrawn(h)' = HasDrawn(h)
              /\ \A c \in DOMAIN block[h] : BlockDoes(h, c)'
  <2>1. sense'[h] = sense[h] /\ slot'[h] = slot[h] /\ 0 \in DOMAIN block[h]
        /\ \A c \in DOMAIN block[h] : block'[h][c] = block[h][c]
    BY <1>1, <1>8, <1>9, <1>11, <1>21
  <2>2. \A z : /\ Sees(h, z)' = Sees(h, z) /\ Drew(h, z)' = Drew(h, z)
               /\ Leaving(h, z)' = Leaving(h, z) /\ Wrote(h, z)' = Wrote(h, z)
    BY <1>1, <2>1, SightKept, SensesKept
  <2>3. ExpertOf(h)' = ExpertOf(h) /\ HasDrawn(h)' = HasDrawn(h)
    <3>1. PICK z : z = block[h][0]
      OBVIOUS
    <3>2. block'[h][0] = z
      BY <2>1, <3>1
    <3>3. ExpertOf(h)' = Sees(h, z)' /\ HasDrawn(h)' = Drew(h, z)'
      BY <3>2 DEF ExpertOf, HasDrawn
    <3> QED
      BY <2>2, <3>1, <3>3 DEF ExpertOf, HasDrawn
  <2>4. ASSUME NEW c \in DOMAIN block[h] PROVE BlockDoes(h, c)'
    <3>1. PICK z : z = block[h][c]
      OBVIOUS
    <3>2. block'[h][c] = z /\ z \in States
      BY <1>9, <2>1, <3>1
    <3>3. z.expert \in Nat /\ (~Leaving(h, z) => z.expert # 0) /\ (Wrote(h, z) => ShareDone(z.expert, c))
      BY <3>1, <3>2 DEF States, RunInv, BlockDoes
    <3>4. (~Leaving(h, z)' => z.expert # 0) /\ (Wrote(h, z)' => ShareDone(z.expert, c)')
      BY <1>17, <2>2, <3>3
    <3> QED
      BY <3>2, <3>4 DEF BlockDoes
  <2> QED
    BY <2>3, <2>4
\* At the end of the last phase the expert is completed, and the ticket is there.
<1>22. ASSUME nth = 5
       PROVE  Completed(e) /\ HasDrawn(g) /\ Rank(e) < slot[g] /\ slot[g] < Drawn
  <2>1. PICK n \in Nat \ {0}, size \in Nat \ {0} :
          group_size = size /\ \A h \in DOMAIN block : DOMAIN block[h] = 0..(size - 1)
    BY <1>2, RunFacts
  <2>2. \A c \in DOMAIN block[g] : ShareDone(e, c)
    <3> TAKE c \in DOMAIN block[g]
    <3>1. Wrote(g, block[g][c]) /\ block[g][c].expert = e
      BY <1>13, <1>22 DEF Wrote
    <3> QED
      BY <1>2, <3>1 DEF RunInv, BlockDoes
  <2>3. ASSUME NEW p \in SortedRows(e) PROVE Right(p, e)
    <3>1. PICK c : c = (p - Offset(e) - 1) % group_size
      OBVIOUS
    <3>2. c \in DOMAIN block[g]
      <4>1. PICK m : m = p - Offset(e) - 1
        OBVIOUS
      <4>2. m \in Int
        <5>1. Offset(e) \in Nat /\ Count(e) \in Nat
          BY CountsTyped
        <5>2. p \in Int
          BY <2>3, <5>1 DEF SortedRows
        <5> QED
          BY <4>1, <5>1, <5>2
      <4>3. (m % size) \in 0..(size - 1)
        BY <2>1, <4>2
      <4> QED
        BY <1>2, <2>1, <3>1, <4>1, <4>3
    <3>3. p \in Share(e, c)
      BY <3>1 DEF Share
    <3> QED
      BY <2>2, <3>2, <3>3 DEF ShareDone
  <2>4. HasDrawn(g)
    <3>1. 0 \in DOMAIN block[g]
      BY <1>2, <1>9
    <3>2. Came(g, block[g][0]) /\ block[g][0].phase = 5
      BY <1>13, <1>22, <3>1
    <3> QED
      BY <3>2 DEF HasDrawn, Drew, Wrote, Came
  <2>5. Rank(e) < slot[g] /\ slot[g] < Drawn
    BY <1>2, <1>14, <2>4 DEF RunInv, TicketOf
  <2> QED
    BY <2>3, <2>4, <2>5 DEF Completed
\* The ticket's expert, if there is one.
<1>23. /\ k # 0 => k \in Active /\ Rank(k) = slot[g]
       /\ k = 0 => \A d \in Active : d >= e + 1 => Rank(d) # slot[g]
  BY <1>18, ClaimedIs
<1>24. ASSUME nth = 5, NEW d \in Active, Rank(d) = slot[g] PROVE k = d
  <2>1. Rank(e) < Rank(d) /\ d \in Nat /\ Rank(d) \in Nat
    BY <1>22, <1>24, ActiveFinite
  <2>2. ~(d <= e)
    <3>1. d <= e => Rank(d) <= Rank(e)
      BY <1>14, <2>1, RanksRise
    <3> QED
      BY <1>15, <2>1, <3>1
  <2>3. d >= e + 1
    BY <1>14, <2>1, <2>2
  <2>4. k # 0
    BY <1>23, <1>24, <2>3
  <2> QED
    BY <1>23, <1>24, <2>4, RankOnce
<1>25. ASSUME NEW h \in DOMAIN block' PROVE TicketOf(h)'
  <2>1. CASE h # g
    <3>1. h \in DOMAIN block /\ TicketOf(h) /\ ExpertOf(h)' = ExpertOf(h) /\ HasDrawn(h)' = HasDrawn(h)
          /\ slot'[h] = slot[h]
      BY <1>1, <1>8, <1>21, <2>1 DEF RunInv
    <3>2. Rank(ExpertOf(h))' = Rank(ExpertOf(h))
      <4>1. PICK d : d = ExpertOf(h)
        OBVIOUS
      <4>2. ExpertOf(h)' = d
        BY <3>1, <4>1
      <4>3. Rank(ExpertOf(h))' = Rank(d)'
        BY <4>2 DEF Rank
      <4> QED
        BY <1>16, <4>1, <4>3
    <3> QED
      BY <1>10, <1>16, <3>1, <3>2 DEF TicketOf
  <2>2. CASE h = g
    <3>1. PICK d : d = IF nth < 5 THEN e ELSE k
      OBVIOUS
    <3>2. ExpertOf(g)' = d /\ ~HasDrawn(g)'
      BY <1>20, <3>1
    <3>3. Rank(ExpertOf(g))' = Rank(d)
      <4>1. Rank(ExpertOf(g))' = Rank(d)'
        BY <3>2 DEF Rank
      <4> QED
        BY <1>16, <4>1
    <3>4. d # 0 => d \in Active /\ Rank(d) < Drawn
      <4>1. CASE nth < 5
        BY <1>15, <3>1, <4>1
      <4>2. CASE nth = 5
        BY <1>22, <1>23, <3>1, <4>2
      <4> QED
        BY <1>14, <4>1, <4>2
    <3> QED
      BY <1>10, <1>16, <2>2, <3>2, <3>3, <3>4 DEF TicketOf
  <2> QED
    BY <2>1, <2>2
<1>26. ASSUME NEW h \in DOMAIN block', NEW c \in DOMAIN block'[h] PROVE BlockDoes(h, c)'
  <2>1. h \in DOMAIN block /\ c \in DOMAIN block[h]
    BY <1>8
  <2>2. CASE h = g
    BY <1>19, <2>1, <2>2 DEF BlockDoes
  <2>3. CASE h # g
    BY <1>21, <2>1, <2>3
  <2> QED
    BY <2>2, <2>3
<1>27. ASSUME NEW d \in Active' PROVE (Completed(d) \/ InHand(d) \/ Undrawn(d))'
  <2>1. d \in Active /\ d \in Nat /\ d # 0 /\ Rank(d) \in Nat /\ Rank(d)' = Rank(d)
    <3>1. d \in Active /\ Active \in SUBSET (1..NExperts) /\ NExperts \in Nat /\ Rank(d)' = Rank(d)
      BY <1>16, ActiveFinite DEF SizesAssumed
    <3> QED
      BY <3>1, ActiveFinite
  <2>2. Completed(d) \/ InHand(d) \/ Undrawn(d)
    BY <2>1 DEF RunInv
  <2>3. CASE Completed(d)
    BY <1>17, <2>1, <2>3
  <2>4. CASE InHand(d)
    <3>1. PICK h \in DOMAIN block : ExpertOf(h) = d \/ (HasDrawn(h) /\ slot[h] = Rank(d))
      BY <2>4 DEF InHand
    <3>2. CASE h # g
      <4>1. h \in DOMAIN block' /\ (ExpertOf(h)' = d \/ (HasDrawn(h)' /\ slot'[h] = Rank(d)'))
        BY <1>1, <1>8, <1>21, <2>1, <3>1, <3>2
      <4> QED
        BY <4>1 DEF InHand
    <3>3. CASE h = g /\ nth = 5 /\ ExpertOf(g) = d
      <4>1. d = e /\ Completed(e)
        BY <1>14, <1>22, <3>3
      <4> QED
        BY <1>17, <2>1, <4>1
    <3>4. CASE h = g /\ nth = 5 /\ slot[g] = Rank(d)
      <4>1. ExpertOf(g)' = d /\ g \in DOMAIN block'
        BY <1>2, <1>8, <1>20, <1>24, <2>1, <3>4
      <4> QED
        BY <4>1 DEF InHand
    <3>5. CASE h = g /\ nth < 5
      <4>1. ~HasDrawn(g)
        <5>1. 0 \in DOMAIN block[g]
          BY <1>2, <1>9
        <5>2. block[g][0].phase = nth
          BY <1>13, <5>1
        <5> QED
          BY <1>14, <3>5, <5>2 DEF HasDrawn, Drew, Wrote
      <4>2. ExpertOf(g)' = d /\ g \in DOMAIN block'
        BY <1>2, <1>8, <1>14, <1>20, <3>1, <3>5, <4>1
      <4> QED
        BY <4>2 DEF InHand
    <3> QED
      BY <1>14, <3>1, <3>2, <3>3, <3>4, <3>5
  <2>5. CASE Undrawn(d)
    <3>1. Drawn <= Rank(d) /\ \A h \in DOMAIN block : ExpertOf(h) # 0
      BY <2>5 DEF Undrawn
    <3>2. ExpertOf(g)' # 0
      <4>1. CASE nth < 5
        BY <1>14, <1>20, <4>1
      <4>2. CASE nth = 5
        <5>1. slot[g] < Rank(d) /\ slot[g] \in Nat
          BY <1>2, <1>9, <1>22, <2>1, <3>1, <4>2
        <5>2. PICK a \in Active : Rank(a) = slot[g]
          BY <2>1, <5>1, RanksBelow
        <5>3. k = a /\ a \in 1..NExperts
          BY <1>24, <4>2, <5>2, ActiveFinite
        <5> QED
          BY <1>20, <4>2, <5>3
      <4> QED
        BY <1>14, <4>1, <4>2
    <3>3. \A h \in DOMAIN block' : ExpertOf(h)' # 0
      BY <1>8, <1>21, <3>1, <3>2
    <3>4. Drawn' <= Rank(d)'
      BY <1>10, <2>1, <3>1
    <3> QED
      BY <3>3, <3>4 DEF Undrawn
  <2> QED
    BY <2>2, <2>3, <2>4, <2>5
<1>28. SchedOK'
  <2>1. b = 0 => (block[g][0].at = "ended" <=> r.at = "ended")
    BY <1>3, <1>4, <1>6
  <2> QED
    BY <1>1, <1>2, <1>7, <2>1, EndedKept DEF RunInv
<1> QED
  BY <1>25, <1>26, <1>27, <1>28 DEF RunInv
-----------------------------------------------------------------------------
(* The launches: routes are sorted, the kernel runs, the sums are made.    *)

\* A route that is sorted has its row, which is in the span of its expert.
Placed ==
  /\ DOMAIN place \in SUBSET Routes
  /\ \A i \in DOMAIN place : /\ place[i] \in SortedRows(ids[i]) /\ place[i] \in DOMAIN row
                             /\ row[place[i]] = i

SortedOf(e) == {i \in DOMAIN place : ids[i] = e}

Cursors ==
  /\ DOMAIN cursor = 1..NExperts
  /\ \A e \in 1..NExperts : /\ cursor[e] = Offset(e) + 1 + Cardinality(SortedOf(e))
                            /\ \A i \in SortedOf(e) : place[i] < cursor[e]

ExpertsInv ==
  /\ plan \in Plans /\ launches \in Nat
  /\ stage # "idle" => Routed /\ DOMAIN contrib = Routes /\ Placed
  /\ stage = "sorts" => Cursors
  /\ IF stage = "runs" THEN DOMAIN place = Routes /\ RunInv ELSE next = 0 /\ retired = 0
  /\ SumsInRoutingOrder

LEMMA ExpertsBegin ==
  ASSUME MoeInit
  PROVE  ExpertsInv
BY DEF MoeInit, ExpertsInv, SumsInRoutingOrder

LEMMA ExpertsCount ==
  ASSUME SizesAssumed, ExpertsInv, CountTokens
  PROVE  ExpertsInv'
<1>1. /\ stage = "idle" /\ stage' = "sorts" /\ launches < Len(plan) /\ launches' = launches + 1
      /\ UNCHANGED <<plan, next, retired>> /\ ids' = plan[launches + 1]
      /\ cursor' = [e \in 1..NExperts |-> Cardinality({i \in DOMAIN ids' : ids'[i] < e}) + 1]
      /\ place' = [i \in {} |-> 0] /\ contrib' = [p \in DOMAIN ids' |-> Stale]
  BY DEF CountTokens, sched
<1>2. plan \in Plans /\ launches \in Nat /\ next = 0 /\ retired = 0
  BY <1>1 DEF ExpertsInv
<1>3. PICK l : l = launches + 1
  OBVIOUS
<1>4. PICK E : E = Seq(1..NExperts)
  OBVIOUS
<1>5. plan \in Seq(E) /\ \A m \in DOMAIN plan :
         /\ Len(plan[m]) % TopK = 0
         /\ \A e \in 1..NExperts : Cardinality({i \in DOMAIN plan[m] : plan[m][i] = e}) <= MaxTokens
  BY <1>2, <1>4 DEF SizesAssumed
<1>6. l \in DOMAIN plan /\ plan[l] \in E
  BY <1>1, <1>2, <1>3, <1>5
<1>7. ids' = plan[l]
  BY <1>1, <1>3
<1>8. Routed'
  <2>1. \A e \in 1..NExperts : Count(e)' <= MaxTokens
    BY <1>5, <1>6, <1>7 DEF Count, Routes
  <2> QED
    BY <1>4, <1>5, <1>6, <1>7, <2>1 DEF Routed
<1>9. Placed' /\ DOMAIN contrib' = Routes'
  BY <1>1 DEF Placed, Routes
<1>10. Cursors'
  <2>1. \A e : SortedOf(e)' = {}
    BY <1>1 DEF SortedOf
  <2>2. \A e : Offset(e)' \in Nat /\ Offset(e)' = Cardinality({i \in DOMAIN ids' : ids'[i] < e})
    <3> TAKE e
    <3>1. PICK r : r = ids'
      OBVIOUS
    <3>2. DOMAIN r = 1..Len(r) /\ Len(r) \in Nat
      BY <1>4, <1>6, <1>7, <3>1
    <3>3. IsFiniteSet(DOMAIN r)
      BY <3>2, FS_Interval
    <3>4. {i \in DOMAIN r : r[i] < e} \in SUBSET DOMAIN r
      OBVIOUS
    <3>5. Cardinality({i \in DOMAIN r : r[i] < e}) \in Nat
      BY <3>3, <3>4, FS_Subset, FS_CardinalityType
    <3> QED
      BY <3>1, <3>5 DEF Offset, Routes
  <2>3. Cardinality({}) = 0
    BY FS_EmptySet
  <2>4. \A e \in 1..NExperts : cursor'[e] = Offset(e)' + 1 + Cardinality(SortedOf(e))'
    <3> TAKE e \in 1..NExperts
    <3>1. Cardinality(SortedOf(e))' = 0
      BY <2>1, <2>3
    <3>2. cursor'[e] = Offset(e)' + 1
      BY <1>1, <2>2
    <3> QED
      BY <2>2, <3>1, <3>2
  <2> QED
    BY <1>1, <2>1, <2>4 DEF Cursors
<1>11. SumsInRoutingOrder'
  BY <1>1 DEF SumsInRoutingOrder
<1> QED
  BY <1>1, <1>2, <1>8, <1>9, <1>10, <1>11 DEF ExpertsInv

LEMMA ExpertsScatter ==
  ASSUME SizesAssumed, ExpertsInv, NEW i \in Routes, Scatter(i)
  PROVE  ExpertsInv'
<1>1. PICK e, p : e = ids[i] /\ p = cursor[ids[i]]
  OBVIOUS
<1>2. /\ stage = "sorts" /\ i \notin DOMAIN place /\ UNCHANGED <<plan, stage, launches, ids, contrib, next, retired>>
      /\ place' = [j \in DOMAIN place \union {i} |-> IF j = i THEN p ELSE place[j]]
      /\ row' = [q \in DOMAIN row \union {p} |-> IF q = p THEN i ELSE row[q]]
      /\ cursor' = [cursor EXCEPT ![e] = @ + 1] /\ p = cursor[e]
  BY <1>1 DEF Scatter, sched
<1>3. Routed /\ DOMAIN contrib = Routes /\ Placed /\ Cursors
  BY <1>2 DEF ExpertsInv
<1>4. /\ e \in 1..NExperts /\ e \in Nat /\ Offset(e) \in Nat /\ Count(e) \in Nat
      /\ \A S \in SUBSET Routes : IsFiniteSet(S) /\ Cardinality(S) \in Nat
      /\ \A j \in Routes : ids[j] \in 1..NExperts /\ ids[j] \in Nat
  <2>1. NExperts \in Nat
    BY DEF SizesAssumed
  <2> QED
    BY <1>1, <1>3, <2>1, CountsTyped
<1>5. DOMAIN place \in SUBSET Routes /\ i \in Routes
  BY <1>3 DEF Placed
<1>6. PICK S, C : S = SortedOf(e) /\ C = {j \in Routes : ids[j] = e}
  OBVIOUS
<1>7. S \union {i} \in SUBSET C /\ i \notin S /\ C \in SUBSET Routes /\ S \in SUBSET Routes
  BY <1>1, <1>2, <1>5, <1>6 DEF SortedOf
<1>8. Cardinality(S \union {i}) = Cardinality(S) + 1 /\ Cardinality(S) \in Nat
  BY <1>4, <1>7, FS_AddElement
<1>9. Cardinality(S) + 1 <= Count(e)
  <2>1. Cardinality(S \union {i}) <= Cardinality(C)
    BY <1>4, <1>7, FS_Subset
  <2>2. Count(e) = Cardinality(C)
    BY <1>6 DEF Count
  <2> QED
    BY <1>8, <2>1, <2>2
<1>10. p = Offset(e) + 1 + Cardinality(S) /\ \A j \in S : place[j] < p
  BY <1>2, <1>3, <1>4, <1>6 DEF Cursors
<1>11. p \in SortedRows(e) /\ p \in Nat
  BY <1>4, <1>8, <1>9, <1>10 DEF SortedRows
<1>12. \A j \in DOMAIN place : place[j] \in SortedRows(ids[j]) /\ place[j] \in DOMAIN row /\ row[place[j]] = j
  BY <1>3 DEF Placed
<1>13. ASSUME NEW j \in DOMAIN place PROVE place[j] # p
  <2>1. CASE ids[j] = e
    <3>1. j \in S
      BY <1>6, <2>1 DEF SortedOf
    <3> QED
      BY <1>10, <1>11, <3>1
  <2>2. CASE ids[j] # e
    <3>1. ids[j] \in Nat
      BY <1>4, <1>5
    <3>2. SortedRows(ids[j]) \intersect SortedRows(e) = {}
      BY <1>3, <1>4, <2>2, <3>1, SpansApart
    <3> QED
      BY <1>11, <1>12, <3>2
  <2> QED
    BY <2>1, <2>2
<1>14. \A d : SortedRows(d)' = SortedRows(d) /\ Offset(d)' = Offset(d)
  BY <1>2, SpansKept
<1>15. Routes' = Routes /\ Routed' /\ DOMAIN contrib' = Routes'
  BY <1>2, <1>3 DEF Routes, Routed, Count
<1>16. Placed'
  <2>1. DOMAIN place' \in SUBSET Routes'
    BY <1>2, <1>5, <1>15
  <2>2. ASSUME NEW j \in DOMAIN place'
        PROVE  place'[j] \in SortedRows(ids[j]) /\ place'[j] \in DOMAIN row' /\ row'[place'[j]] = j
    <3>1. CASE j = i
      BY <1>1, <1>2, <1>11, <3>1
    <3>2. CASE j # i
      <4>1. j \in DOMAIN place /\ place'[j] = place[j]
        BY <1>2, <3>2
      <4> QED
        BY <1>2, <1>12, <1>13, <4>1
    <3> QED
      BY <3>1, <3>2
  <2>3. \A j \in DOMAIN place' : SortedRows(ids[j])' = SortedRows(ids[j])
    BY <1>2 DEF SortedRows, Offset, Count, Routes
  <2> QED
    BY <2>1, <2>2, <2>3 DEF Placed
<1>17. Cursors'
  <2>1. DOMAIN cursor' = 1..NExperts
    BY <1>2, <1>3 DEF Cursors
  <2>2. ASSUME NEW d \in 1..NExperts
        PROVE  /\ cursor'[d] = Offset(d) + 1 + Cardinality(SortedOf(d)')
               /\ \A j \in SortedOf(d)' : place'[j] < cursor'[d]
    <3>1. SortedOf(d)' = {j \in DOMAIN place \union {i} : ids[j] = d}
      BY <1>2 DEF SortedOf
    <3>2. CASE d = e
      <4>1. SortedOf(d)' = S \union {i}
        BY <1>1, <1>6, <3>1, <3>2 DEF SortedOf
      <4>2. cursor'[d] = p + 1
        BY <1>2, <1>3, <3>2 DEF Cursors
      <4>3. cursor'[d] = Offset(d) + 1 + Cardinality(SortedOf(d)')
        BY <1>4, <1>8, <1>10, <3>2, <4>1, <4>2
      <4>4. ASSUME NEW j \in S \union {i} PROVE place'[j] < cursor'[d]
        <5>1. CASE j = i
          BY <1>2, <1>11, <4>2, <5>1
        <5>2. CASE j # i
          <6>1. j \in DOMAIN place /\ place[j] < p
            BY <1>6, <1>10, <4>4, <5>2 DEF SortedOf
          <6>2. place[j] \in Int
            <7>1. ids[j] = e
              BY <1>6, <4>4, <5>2 DEF SortedOf
            <7>2. place[j] \in SortedRows(e)
              BY <1>12, <6>1, <7>1
            <7> QED
              BY <1>4, <7>2 DEF SortedRows
          <6>3. place'[j] = place[j]
            BY <1>2, <5>2, <6>1
          <6> QED
            BY <1>11, <4>2, <6>1, <6>2, <6>3
        <5> QED
          BY <5>1, <5>2
      <4> QED
        BY <4>1, <4>3, <4>4
    <3>3. CASE d # e
      <4>1. SortedOf(d)' = SortedOf(d) /\ i \notin SortedOf(d)
        BY <1>1, <1>2, <3>1, <3>3 DEF SortedOf
      <4>2. cursor'[d] = cursor[d]
        BY <1>2, <1>3, <3>3 DEF Cursors
      <4>3. \A j \in SortedOf(d) : place'[j] = place[j]
        BY <1>2, <4>1 DEF SortedOf
      <4> QED
        BY <1>3, <4>1, <4>2, <4>3 DEF Cursors
    <3> QED
      BY <3>2, <3>3
  <2>3. \A d \in 1..NExperts : Cardinality(SortedOf(d))' = Cardinality(SortedOf(d)')
    OBVIOUS
  <2> QED
    BY <1>14, <2>1, <2>2 DEF Cursors
<1>18. SumsInRoutingOrder'
  BY <1>2 DEF SumsInRoutingOrder
<1> QED
  BY <1>2, <1>3, <1>15, <1>16, <1>17, <1>18 DEF ExpertsInv

\* Every group starts with the expert of its number, and there are no more groups
\* than experts: the others are for the tickets.
LEMMA ExpertsLaunch ==
  ASSUME SizesAssumed, ExpertsInv, LaunchKernel
  PROVE  ExpertsInv'
<1>1. /\ stage = "sorts" /\ stage' = "runs" /\ DOMAIN place = Routes /\ Active # {}
      /\ UNCHANGED <<plan, launches, ids, cursor, place, row, contrib, next, retired, slot, sense>>
      /\ block' = [g \in 0..(NumGroups - 1) |-> [b \in 0..(GroupSize - 1) |-> Enter(b, g, 1, 0)]]
  BY DEF LaunchKernel, sorting, sched, barrier
<1>2. plan \in Plans /\ launches \in Nat /\ Routed /\ DOMAIN contrib = Routes /\ Placed /\ next = 0 /\ retired = 0
  BY <1>1 DEF ExpertsInv
<1>3. PICK n, size : n = NumGroups /\ size = GroupSize
  OBVIOUS
<1>4. n \in Nat \ {0} /\ n <= Cardinality(Active) /\ size \in Nat \ {0}
  BY <1>1, <1>3, GridSizes DEF SizesAssumed
<1>5. block' = [g \in 0..(n - 1) |-> [b \in 0..(size - 1) |-> Enter(b, g, 1, 0)]]
  BY <1>1, <1>3
<1>6. Active' = Active /\ \A e : Rank(e)' = Rank(e) /\ Rank(e) \in Nat
  BY <1>1, RankKept, ActiveFinite
<1>7. DOMAIN block' = 0..(n - 1) /\ Drawn' = n
  <2>1. DOMAIN block' = 0..(n - 1)
    BY <1>5
  <2>2. Cardinality(0..(n - 1)) = n
    <3>1. 0 \in Int /\ n - 1 \in Int /\ 0 <= n - 1 /\ (n - 1) - 0 + 1 = n
      BY <1>4
    <3> QED
      BY <3>1, FS_Interval
  <2> QED
    BY <1>1, <1>2, <1>4, <2>1, <2>2 DEF Drawn, num_groups
<1>8. ASSUME NEW g \in 0..(n - 1)
      PROVE  /\ Claimed(g, 1) \in Active /\ Claimed(g, 1) # 0 /\ Rank(Claimed(g, 1)) = g
             /\ DOMAIN block'[g] = 0..(size - 1)
             /\ \A b \in 0..(size - 1) : /\ block'[g][b].at = "works" /\ block'[g][b].expert = Claimed(g, 1)
                                         /\ block'[g][b].phase = 1
  <2>1. PICK f : f = 1
    OBVIOUS
  <2>2. PICK c : c = Claimed(g, f)
    OBVIOUS
  <2>3. g \in Nat /\ g < Cardinality(Active)
    <3>1. Cardinality(Active) \in Nat
      BY ActiveFinite
    <3> QED
      BY <1>4, <3>1
  <2>4. PICK e \in Active : Rank(e) = g
    BY <2>3, TicketsHaveExperts
  <2>5. e >= f
    BY <2>1 DEF Active, SizesAssumed
  <2>6. c # 0 /\ c \in Active /\ Rank(c) = g
    BY <2>2, <2>4, <2>5, ClaimedIs
  <2>7. \A b \in 0..(size - 1) : block'[g][b] = Enter(b, g, f, 0)
    BY <1>5, <2>1
  <2>8. ASSUME NEW b \in 0..(size - 1)
        PROVE  block'[g][b].at = "works" /\ block'[g][b].expert = c /\ block'[g][b].phase = 1
    <3>1. PICK r : r = Enter(b, g, f, 0)
      OBVIOUS
    <3>2. PICK z : z = 0
      OBVIOUS
    <3>3. z \in Nat /\ r = Enter(b, g, f, z)
      BY <3>1, <3>2
    <3>4. /\ r.expert = Claimed(g, f) /\ r.phase = 1
          /\ r.at \in {"works", "retires", "ended"} /\ (r.at \in {"retires", "ended"} <=> Claimed(g, f) = 0)
      BY <3>3, Entered
    <3> QED
      BY <2>2, <2>6, <2>7, <3>1, <3>4
  <2>9. DOMAIN block'[g] = 0..(size - 1)
    BY <1>5
  <2> QED
    BY <2>1, <2>2, <2>6, <2>8, <2>9
<1>9. ASSUME NEW g \in 0..(n - 1), NEW b \in 0..(size - 1)
      PROVE  /\ Leaving(g, block[g][b])' = FALSE /\ Wrote(g, block[g][b])' = FALSE
             /\ Sees(g, block[g][b])' = Claimed(g, 1)
  <2>1. PICK z : z = block'[g][b]
    OBVIOUS
  <2>2. z.at = "works" /\ z.expert = Claimed(g, 1) /\ z.phase = 1
    BY <1>8, <2>1
  <2>3. Leaving(g, z)' = FALSE /\ Wrote(g, z)' = FALSE
    BY <2>2 DEF Leaving, Wrote, Came, Behind
  <2>4. Sees(g, z)' = z.expert
    BY <2>3 DEF Sees
  <2> QED
    BY <2>1, <2>2, <2>3, <2>4
<1>10. 0 \in 0..(size - 1)
  BY <1>4
<1>11. ASSUME NEW g \in 0..(n - 1) PROVE ExpertOf(g)' = Claimed(g, 1) /\ HasDrawn(g)' = FALSE /\ g \notin Ended'
  <2>1. ExpertOf(g)' = Claimed(g, 1)
    BY <1>9, <1>10 DEF ExpertOf
  <2>2. HasDrawn(g)' = FALSE
    BY <1>9, <1>10 DEF HasDrawn, Drew
  <2>3. g \notin Ended'
    BY <1>8, <1>10 DEF Ended
  <2> QED
    BY <2>1, <2>2, <2>3
<1>12. ASSUME NEW g \in DOMAIN block' PROVE TicketOf(g)' /\ \A b \in DOMAIN block'[g] : BlockDoes(g, b)'
  <2>1. g \in 0..(n - 1)
    BY <1>7
  <2>2. TicketOf(g)'
    <3>1. ExpertOf(g)' \in Active' /\ Rank(ExpertOf(g))' = g
      BY <1>6, <1>8, <1>11, <2>1 DEF Rank
    <3>2. g < Drawn'
      BY <1>4, <1>7, <2>1
    <3> QED
      BY <1>11, <2>1, <3>1, <3>2 DEF TicketOf
  <2>3. ASSUME NEW b \in DOMAIN block'[g] PROVE BlockDoes(g, b)'
    <3>1. b \in 0..(size - 1)
      BY <1>8, <2>1
    <3> QED
      BY <1>8, <1>9, <2>1, <3>1 DEF BlockDoes
  <2> QED
    BY <2>2, <2>3
<1>13. ASSUME NEW e \in Active' PROVE InHand(e)' \/ Undrawn(e)'
  <2>1. e \in Active /\ Rank(e)' = Rank(e) /\ Rank(e) \in Nat
    BY <1>6
  <2>2. CASE Rank(e) < n
    <3>1. PICK g : g = Rank(e)
      OBVIOUS
    <3>2. g \in 0..(n - 1)
      BY <1>4, <2>1, <2>2, <3>1
    <3>3. PICK c : c = Claimed(g, 1)
      OBVIOUS
    <3>4. c \in Active /\ Rank(c) = Rank(e)
      BY <1>8, <3>1, <3>2, <3>3
    <3>5. c = e
      BY <2>1, <3>4, RankOnce
    <3>6. ExpertOf(g)' = e
      BY <1>11, <3>2, <3>3, <3>5
    <3> QED
      BY <1>7, <3>2, <3>6 DEF InHand
  <2>3. CASE ~(Rank(e) < n)
    <3>1. Drawn' <= Rank(e)'
      BY <1>4, <1>7, <2>1, <2>3
    <3>2. \A g \in DOMAIN block' : ExpertOf(g)' # 0
      BY <1>7, <1>8, <1>11
    <3> QED
      BY <3>1, <3>2 DEF Undrawn
  <2> QED
    BY <2>2, <2>3
<1>14. SchedOK'
  <2>1. Ended' = {}
    BY <1>7, <1>11 DEF Ended
  <2>2. 0 \in DOMAIN block'
    BY <1>4, <1>7
  <2>3. Cardinality({}) = 0
    BY FS_EmptySet
  <2>4. retired' = Cardinality(Ended)' /\ Ended' # DOMAIN block'
    BY <1>1, <1>2, <2>1, <2>2, <2>3
  <2> QED
    BY <2>4 DEF SchedOK
<1>15. RunInv'
  BY <1>12, <1>13, <1>14 DEF RunInv
<1>16. Routes' = Routes /\ Routed' /\ DOMAIN contrib' = Routes' /\ Placed'
  <2>1. Routes' = Routes /\ Routed'
    BY <1>1, <1>2 DEF Routes, Routed, Count
  <2>2. \A e : SortedRows(e)' = SortedRows(e)
    BY <1>1, SpansKept
  <2>3. Placed'
    BY <1>1, <1>2, <2>1, <2>2 DEF Placed
  <2> QED
    BY <1>1, <1>2, <2>1, <2>3
<1>17. SumsInRoutingOrder'
  BY <1>1 DEF SumsInRoutingOrder
<1> QED
  BY <1>1, <1>2, <1>15, <1>16, <1>17 DEF ExpertsInv

\* The ranks of a token are routes of the launch: their number is a multiple of TopK.
LEMMA RanksAreRoutes ==
  ASSUME SizesAssumed, Routed, NEW i \in Routes, NEW j \in 1..TopK
  PROVE  Token(i) * TopK + j \in Routes
<1>1. TopK \in Nat \ {0} /\ Routes = 1..Len(ids) /\ Len(ids) \in Nat /\ Len(ids) % TopK = 0
  BY CountsTyped DEF SizesAssumed, Routed
<1>2. PICK d, n : d = TopK /\ n = Len(ids)
  OBVIOUS
<1>3. PICK m, t : m = n \div d /\ t = Token(i)
  OBVIOUS
<1>4. d \in Nat \ {0} /\ n \in Nat /\ i \in 1..n /\ i - 1 \in Nat
  BY <1>1, <1>2
<1>5. m \in Nat /\ n = d * m
  <2>1. m \in Nat /\ n = d * m + (n % d) /\ (n % d) = 0
    BY <1>1, <1>2, <1>3, <1>4, DivMod
  <2> QED
    BY <1>4, <2>1
<1>6. t \in Nat /\ d * t <= i - 1
  <2>1. PICK a : a = i - 1
    OBVIOUS
  <2>2. a \in Nat /\ t = a \div d
    BY <1>2, <1>3, <1>4, <2>1 DEF Token
  <2>3. t \in Nat /\ (a % d) \in 0..(d - 1) /\ a = d * t + (a % d)
    BY <1>4, <2>2, DivMod
  <2>4. d * t \in Nat
    BY <1>4, <2>3
  <2> QED
    BY <1>4, <2>1, <2>3, <2>4
<1>7. d * t + d <= n
  <2>1. d * t \in Nat /\ d * m \in Nat
    BY <1>4, <1>5, <1>6, Times
  <2>2. t < m
    <3>1. CASE t = m
      BY <1>4, <1>5, <1>6, <2>1, <3>1
    <3>2. CASE m < t
      <4>1. d * m + d <= d * t
        BY <1>4, <1>5, <1>6, <3>2, TimesMore
      <4> QED
        BY <1>4, <1>5, <1>6, <2>1, <4>1
    <3> QED
      BY <1>5, <1>6, <3>1, <3>2
  <2> QED
    BY <1>4, <1>5, <1>6, <2>2, TimesMore
<1>8. t * d = d * t /\ d * t \in Nat /\ j \in 1..d
  BY <1>2, <1>4, <1>6, Times
<1>9. t * d + j \in 1..n
  <2>1. PICK w : w = d * t
    OBVIOUS
  <2>2. w \in Nat /\ w + d <= n /\ j \in 1..d
    BY <1>7, <1>8, <2>1
  <2>3. w + j \in 1..n
    BY <1>4, <2>2
  <2> QED
    BY <1>8, <2>1, <2>3
<1> QED
  BY <1>1, <1>2, <1>3, <1>9

\* When every block has ended, no expert is in a group's hand and no group is left
\* to draw one: they are all complete.
LEMMA ExpertsReduce ==
  ASSUME SizesAssumed, MoeInv, ExpertsInv, Reduce
  PROVE  ExpertsInv'
<1>1. /\ stage = "runs" /\ stage' = "idle" /\ UNCHANGED <<plan, launches, ids, next, retired>>
      /\ \A g \in DOMAIN block : \A b \in DOMAIN block[g] : block[g][b].at = "ended"
      /\ y' = [t \in {Token(i) : i \in Routes} |-> [j \in 1..TopK |-> contrib[place[t * TopK + j]]]]
  BY DEF Reduce, KernelEnded, sorting, sched, Summed
<1>2. plan \in Plans /\ launches \in Nat /\ Routed /\ Placed /\ DOMAIN place = Routes /\ RunInv
  BY <1>1 DEF ExpertsInv
<1>3. DOMAIN block # {} /\ \A g \in DOMAIN block : 0 \in DOMAIN block[g]
  BY <1>1, RunFacts
<1>4. ASSUME NEW g \in DOMAIN block PROVE ExpertOf(g) = 0 /\ ~HasDrawn(g) /\ g \in Ended
  <2>1. block[g][0].at = "ended"
    BY <1>1, <1>3
  <2>2. ExpertOf(g) = 0
    BY <2>1 DEF ExpertOf, Sees, Leaving, Behind
  <2>3. ~HasDrawn(g)
    BY <2>1 DEF HasDrawn, Drew, Wrote, Came
  <2> QED
    BY <2>1, <2>2, <2>3 DEF Ended
<1>5. next = 0 /\ retired = 0
  <2>1. Ended = DOMAIN block
    BY <1>4 DEF Ended
  <2> QED
    BY <1>2, <2>1 DEF RunInv, SchedOK
<1>6. ASSUME NEW e \in Active PROVE Completed(e)
  <2>1. e # 0
    BY DEF Active
  <2>2. ~InHand(e)
    BY <1>4, <2>1 DEF InHand
  <2>3. ~Undrawn(e)
    BY <1>3, <1>4 DEF Undrawn
  <2> QED
    BY <1>2, <2>2, <2>3 DEF RunInv
<1>7. ASSUME NEW i \in Routes, NEW j \in 1..TopK
      PROVE  contrib[place[Token(i) * TopK + j]] = [expert |-> ids[Token(i) * TopK + j], route |-> Token(i) * TopK + j]
  <2>1. PICK q : q = Token(i) * TopK + j
    OBVIOUS
  <2>2. q \in Routes
    BY <1>2, <2>1, RanksAreRoutes
  <2>3. PICK e, p : e = ids[q] /\ p = place[q]
    OBVIOUS
  <2>4. p \in SortedRows(e) /\ row[p] = q
    BY <1>2, <2>2, <2>3 DEF Placed
  <2>5. Completed(e)
    BY <1>2, <1>6, <2>2, <2>3, RoutedActive
  <2>6. contrib[p] = [expert |-> e, route |-> q]
    BY <2>4, <2>5 DEF Completed, Right, Contribution
  <2> QED
    BY <2>1, <2>3, <2>6
<1>8. SumsInRoutingOrder'
  <2> SUFFICES ASSUME NEW t \in DOMAIN y', NEW j \in 1..TopK
               PROVE  y'[t][j] = [expert |-> ids[t * TopK + j], route |-> t * TopK + j]
    BY <1>1 DEF SumsInRoutingOrder
  <2>1. PICK i \in Routes : t = Token(i)
    BY <1>1
  <2>2. y'[t][j] = contrib[place[t * TopK + j]]
    BY <1>1
  <2> QED
    BY <1>7, <2>1, <2>2
<1> QED
  BY <1>1, <1>2, <1>5, <1>8 DEF ExpertsInv

\* A step of a block.
LEMMA ExpertsStep ==
  ASSUME SizesAssumed, MoeInv, ExpertsInv, NEW g, NEW b, BlockStep(g, b)
  PROVE  ExpertsInv'
<1>1. stage = "runs" /\ UNCHANGED <<plan, stage, launches, ids, place, row>>
  BY DEF BlockStep, Work, Draw, Arrive, Reset, Flip, Pass, ReadTicket, Retire, At, sorting
<1>2. /\ plan \in Plans /\ launches \in Nat /\ Routed /\ DOMAIN contrib = Routes /\ Placed
      /\ DOMAIN place = Routes /\ RunInv
  BY <1>1 DEF ExpertsInv
<1>3. RunInv'
  BY <1>2, RunWorks, RunDraws, RunArrives, RunResets, RunFlips, RunPasses, RunReads, RunRetires DEF BlockStep
<1>4. DOMAIN contrib' = DOMAIN contrib
  <2>1. CASE Work(g, b)
    BY <2>1 DEF Work
  <2>2. CASE ~Work(g, b)
    BY <2>2 DEF BlockStep, Draw, Arrive, Reset, Flip, Pass, ReadTicket, Retire
  <2> QED
    BY <2>1, <2>2
<1>5. Routes' = Routes /\ Routed' /\ Placed'
  <2>1. Routes' = Routes /\ Routed'
    BY <1>1, <1>2 DEF Routes, Routed, Count
  <2>2. \A e : SortedRows(e)' = SortedRows(e)
    BY <1>1, SpansKept
  <2> QED
    BY <1>1, <1>2, <2>1, <2>2 DEF Placed
<1>6. SumsInRoutingOrder'
  BY <1>1 DEF SumsInRoutingOrder
<1> QED
  BY <1>1, <1>2, <1>3, <1>4, <1>5, <1>6 DEF ExpertsInv

LEMMA ExpertsKeep ==
  ASSUME SizesAssumed, MoeInv, ExpertsInv, [MoeNext]_moe
  PROVE  ExpertsInv'
<1>1. CASE UNCHANGED moe
  <2>1. UNCHANGED <<plan, stage, launches, ids, cursor, place, row, contrib, y, next, retired, slot, sense, block>>
    BY <1>1 DEF moe, sorting, sched, barrier
  <2>2. Active' = Active /\ \A e : Rank(e)' = Rank(e) /\ SortedRows(e)' = SortedRows(e) /\ Offset(e)' = Offset(e)
    BY <2>1, RankKept, SpansKept
  <2>3. \A g : ExpertOf(g)' = ExpertOf(g) /\ HasDrawn(g)' = HasDrawn(g)
    <3>1. \A g, x : Sees(g, x)' = Sees(g, x) /\ Drew(g, x)' = Drew(g, x)
      BY <2>1, SightKept, SensesKept
    <3> QED
      BY <2>1, <3>1 DEF ExpertOf, HasDrawn
  <2>4. Drawn' = Drawn /\ group_size' = group_size
    BY <2>1 DEF Drawn, num_groups, group_size
  <2>5. stage = "runs" /\ RunInv => RunInv'
    <3> SUFFICES ASSUME RunInv PROVE RunInv'
      OBVIOUS
    <3>1. \A e, p : Right(p, e)' = Right(p, e)
      BY <2>1 DEF Right, Contribution
    <3>2. \A e : Completed(e)' = Completed(e)
      BY <2>2, <3>1 DEF Completed
    <3>3. \A e, c : ShareDone(e, c)' = ShareDone(e, c)
      BY <2>2, <2>4, <3>1 DEF ShareDone, Share
    <3>4. \A g \in DOMAIN block : TicketOf(g)'
      BY <2>1, <2>2, <2>3, <2>4 DEF RunInv, TicketOf, Rank
    <3>5. \A g \in DOMAIN block : \A c \in DOMAIN block[g] : BlockDoes(g, c)'
      <4>1. \A g, x : Leaving(g, x)' = Leaving(g, x) /\ Wrote(g, x)' = Wrote(g, x)
        BY <2>1, SensesKept
      <4> QED
        BY <2>1, <3>3, <4>1 DEF RunInv, BlockDoes
    <3>6. \A e : InHand(e)' = InHand(e) /\ Undrawn(e)' = Undrawn(e)
      BY <2>1, <2>2, <2>3, <2>4 DEF InHand, Undrawn
    <3>7. SchedOK'
      BY <2>1 DEF RunInv, SchedOK, Ended
    <3> QED
      BY <2>1, <2>2, <3>2, <3>4, <3>5, <3>6, <3>7 DEF RunInv
  <2>6. Placed => Placed'
    BY <2>1, <2>2 DEF Placed, Routes
  <2>7. Cursors => Cursors'
    <3>1. \A e : SortedOf(e)' = SortedOf(e)
      BY <2>1 DEF SortedOf
    <3>2. \A e : Cardinality(SortedOf(e))' = Cardinality(SortedOf(e))
      BY <3>1
    <3> QED
      BY <2>1, <2>2, <3>1, <3>2 DEF Cursors
  <2>8. Routes' = Routes /\ (Routed => Routed') /\ (SumsInRoutingOrder => SumsInRoutingOrder')
    BY <2>1 DEF Routes, Routed, Count, SumsInRoutingOrder
  <2> QED
    BY <2>1, <2>5, <2>6, <2>7, <2>8 DEF ExpertsInv
<1>2. CASE MoeHost
  BY <1>2, ExpertsCount, ExpertsScatter, ExpertsLaunch, ExpertsReduce DEF MoeHost
<1>3. CASE \E g \in DOMAIN block : \E b \in DOMAIN block[g] : BlockStep(g, b)
  BY <1>3, ExpertsStep
<1> QED
  BY <1>1, <1>2, <1>3 DEF MoeNext

LEMMA ExpertsSound ==
  ASSUME ExpertsInv
  PROVE  SumsInRoutingOrder
BY DEF ExpertsInv
=============================================================================
