----------------------------- MODULE ExpertArena -----------------------------
(***************************************************************************)
(* Where the tensors of the experts lie (expert_layout.cpp, Loader::load and  *)
(* load_experts in src/core/model.cpp, start_copy in src/engine/slotmgr.cpp,  *)
(* the pointer tables of moe_ffn).  The arena holds the slabs of one layer     *)
(* after the other, as narrow as the widths of the layer allow; a slot has    *)
(* room for the widest, is filled with a slab as it is, and read at the       *)
(* offsets of the layer whose expert is in it.                              *)
(*                                                                         *)
(* A tensor is <<layer, expert, projection, piece>>; memory is the set of the  *)
(* tensors that are whole in it, each with its first byte and its length.     *)
(***************************************************************************)
EXTENDS Integers, Sequences

CONSTANTS
  Checkpoints,  \* layer -> expert -> projection -> bits of a weight, 0 if the
                \* tensor is missing; or Dense for the layer
  PerLayer,     \* n_routed_experts
  Hidden, Intermediate,
  Places        \* slots of the pool

VARIABLES
  checkpoint,
  layer,        \* the next to be planned
  bits,         \* layer -> projection -> bits, once planned
  base,         \* arena_byte_base
  arena_bytes,
  slot_stride,
  arena, slots, \* tensors in memory
  holds,        \* slot -> <<layer, expert>>, or Vacant
  outcome       \* "planning", "refused", "loaded" or "aborted"

slabs == <<checkpoint, layer, bits, base, arena_bytes, slot_stride, arena, slots, holds, outcome>>

Dense  == <<>>
Vacant == <<>>

ExpertSet == 0..(PerLayer - 1)
Projections == 0..2     \* gate, up, down
Pieces == 0..3          \* trellis, suh, svh, mul1

-----------------------------------------------------------------------------
(* expert_layout; b gives the bits of each projection.                      *)

In(p)  == IF p = 2 THEN Intermediate ELSE Hidden
Out(p) == IF p = 2 THEN Hidden ELSE Intermediate

Bytes(b, p, q) ==
  <<(In(p) * Out(p) * b[p]) \div 8, In(p) * 2, Out(p) * 2, 4>>[q + 1]

\* Mutant: projections follow each other as pieces do.
PaddedNever(n) == n
Padded(n) == ((n + 63) \div 64) * 64

\* From the beginning of a projection to a piece of it, and to the next one.
Inner(b, p, q) ==
  (IF q > 0 THEN Bytes(b, p, 0) ELSE 0) + (IF q > 1 THEN Bytes(b, p, 1) ELSE 0)
    + (IF q > 2 THEN Bytes(b, p, 2) ELSE 0)

Whole(b, p) == Padded(Inner(b, p, 3) + Bytes(b, p, 3))
Start(b, p) == (IF p > 0 THEN Whole(b, 0) ELSE 0) + (IF p > 1 THEN Whole(b, 1) ELSE 0)

Off(b, p, q) == Start(b, p) + Inner(b, p, q)
Stride(b)    == Start(b, 2) + Whole(b, 2)

\* All experts of a layer have widths there is a kernel for, and the same.
Accepted(experts) ==
  \A e \in ExpertSet, p \in Projections :
    experts[e][p] \in (2..8) \ {7} /\ experts[e][p] = experts[0][p]

-----------------------------------------------------------------------------

Planned == {l \in 1..(layer - 1) : checkpoint[l] # Dense}

Slab(l, e) == base[l] + e * Stride(bits[l])

Tensor(l, e, p, q) ==
  [of |-> <<l, e, p, q>>, from |-> Slab(l, e) + Off(bits[l], p, q), bytes |-> Bytes(bits[l], p, q)]

Unplanned(c) ==
  /\ checkpoint = c
  /\ layer = 1 /\ bits = <<>> /\ base = <<>>
  /\ arena_bytes = 0 /\ slot_stride = 0
  /\ arena = {} /\ slots = {} /\ holds = [s \in Places |-> Vacant]
  /\ outcome = "planning"

ArenaInit == \E c \in Checkpoints : Unplanned(c)

\* Mutant: the stride of the last layer.
LastStride(n) == n
Widest(n) == IF slot_stride < n THEN n ELSE slot_stride

PlanDense ==
  /\ bits' = Append(bits, Dense) /\ base' = Append(base, 0)
  /\ layer' = layer + 1
  /\ UNCHANGED <<arena_bytes, slot_stride, outcome>>

PlanExperts(b) ==
  /\ bits' = Append(bits, b) /\ base' = Append(base, arena_bytes)
  /\ arena_bytes' = arena_bytes + PerLayer * Stride(b)
  /\ slot_stride' = Widest(Stride(b))
  /\ layer' = layer + 1
  /\ UNCHANGED outcome

RefuseLayout ==
  /\ outcome' = "refused"
  /\ UNCHANGED <<layer, bits, base, arena_bytes, slot_stride>>

Plan ==
  /\ outcome = "planning" /\ layer <= Len(checkpoint)
  /\ LET experts == checkpoint[layer]
     IN  \/ experts = Dense /\ PlanDense
         \/ experts # Dense /\ Accepted(experts) /\ PlanExperts([p \in Projections |-> experts[0][p]])
         \/ experts # Dense /\ ~Accepted(experts) /\ RefuseLayout
  /\ UNCHANGED <<checkpoint, arena, slots, holds>>

\* load_experts; the jobs write in any order.
LoadExperts ==
  /\ outcome = "planning" /\ layer > Len(checkpoint)
  /\ outcome' = "loaded"
  /\ arena' = {Tensor(l, e, p, q) : l \in Planned, e \in ExpertSet, p \in Projections, q \in Pieces}
  /\ UNCHANGED <<checkpoint, layer, bits, base, arena_bytes, slot_stride, slots, holds>>

\* start_copy: n bytes of the arena over those of a slot; what is cut is not whole.
StartCopy(l, e, s) ==
  LET n  == Stride(bits[l])
      to == s * slot_stride
      moved == {[of |-> t.of, from |-> to + t.from - Slab(l, e), bytes |-> t.bytes] :
                  t \in {u \in arena : Slab(l, e) <= u.from /\ u.from + u.bytes <= Slab(l, e) + n}}
      kept == {t \in slots : t.from + t.bytes <= to \/ to + n <= t.from}
  IN /\ outcome = "loaded"
     /\ IF n > slot_stride
        THEN outcome' = "aborted" /\ UNCHANGED <<slots, holds>>
        ELSE /\ slots' = moved \union kept /\ holds' = [holds EXCEPT ![s] = <<l, e>>]
             /\ UNCHANGED outcome
     /\ UNCHANGED <<checkpoint, layer, bits, base, arena_bytes, slot_stride, arena>>

ArenaNext ==
  \/ Plan \/ LoadExperts
  \/ \E l \in Planned, e \in ExpertSet, s \in Places : StartCopy(l, e, s)

ArenaSpec == ArenaInit /\ [][ArenaNext]_slabs

-----------------------------------------------------------------------------
(* Properties.                                                             *)

\* The workers of the loader write slabs in any order: no two tensors have a byte
\* in common, whatever widths the layers have, and all are within the arena.
SlabsApart ==
  \A t \in arena :
    /\ 0 <= t.from /\ t.from + t.bytes <= arena_bytes
    /\ \A u \in arena \ {t} : t.from + t.bytes <= u.from \/ u.from + u.bytes <= t.from

\* expert_layout.hpp:8 "RAM slabs are compact per layer. GPU slots use the largest
\* trunk slab": no slab exceeds a slot, and whatever was in a slot and in those beside
\* it, the pointer tables find every tensor of the expert that was copied last, where
\* 16 bytes can be copied at a time; mul1 is compiled in.
SlotsHoldExperts ==
  /\ outcome # "aborted"
  /\ \A s \in Places : holds[s] # Vacant =>
       \A p \in Projections, q \in Pieces \ {3} :
         LET l  == holds[s][1]
             at == s * slot_stride + Off(bits[l], p, q)
         IN  /\ [of |-> <<l, holds[s][2], p, q>>, from |-> at, bytes |-> Bytes(bits[l], p, q)] \in slots
             /\ at % 16 = 0
=============================================================================
