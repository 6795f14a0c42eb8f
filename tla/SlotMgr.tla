------------------------------- MODULE SlotMgr ------------------------------
(***************************************************************************)
(* The VRAM pool of expert slots (src/engine/slotmgr.cpp) as one MoE layer *)
(* after the other drives it (Runner::moe_ffn in src/engine/runner.cpp).   *)
(*                                                                         *)
(* The host thread handles the experts of a layer one at a time while the  *)
(* DMA engine completes the slab copies it queued; each is an action, so   *)
(* every interleaving of the two is a behaviour.  The clock that orders    *)
(* slots by their last use is kept as that order.                          *)
(***************************************************************************)
EXTENDS Integers, Sequences, FiniteSets

CONSTANTS
  NLayers, NExperts, NSlots,
  MaxPinned,    \* 60 % of the slots in the code
  FreqMax,      \* census counters saturate here, 2^32 - 1 in the code
  HeatMax,      \* slot heat saturates here, 2^16 - 1 in the code
  Zero, None    \* the all-zero slab; no expert

Layers  == 1..NLayers
Experts == 1..NExperts
Slots   == 1..NSlots
Keys    == Layers \X Experts

ASSUME SlotAssumption ==
  /\ NLayers \in Nat \ {0} /\ NExperts \in Nat \ {0} /\ NSlots \in Nat \ {0}
  /\ MaxPinned \in 0..NSlots
  /\ FreqMax \in Nat \ {0} /\ HeatMax \in Nat \ {0}
  /\ None \notin Keys /\ Zero \notin Keys
  /\ None \notin Slots /\ Zero \notin Slots /\ Zero # None

VARIABLES
  slots,        \* slots_: [key, heat, pinned, busy] per slot
  map,          \* map_: key -> slot, None when absent
  older,        \* <<s, t>>: slot s was last used before slot t
  pinnedCount,  \* pinned_count_
  used,         \* used_: slots of the current step
  pending,      \* pending_: slots with copies not yet waited for
  freq,         \* freq_: the census
  hot,          \* hot_: keys ranked in the census top MaxPinned
  dma,          \* copies queued on the DMA stream, in order: <<slot, key>>
  memory,       \* key whose slab a slot's memory holds
  pc,           \* where moe_ffn stands
  layer,        \* L.index
  active,       \* experts with tokens in this step
  todo,         \* experts the current loop has still to visit
  table         \* the kernel's pointer table: expert -> slot, Zero or None

mgr  == <<slots, map, older, pinnedCount, used, pending>>
rank == <<freq, hot>>
gpu  == <<dma, memory>>
host == <<pc, layer, active, todo, table>>
vars == <<mgr, rank, gpu, host>>

-----------------------------------------------------------------------------
(* The census.                                                             *)

\* H is a set recompute_hot may mark: MaxPinned requested keys, or all of them
\* when there are fewer, none with a smaller count than one left out.
IsHotSet(counts, H) ==
  LET asked == {k \in Keys : counts[k] > 0}
  IN  /\ H \subseteq asked
      /\ Cardinality(H) = IF Cardinality(asked) > MaxPinned
                          THEN MaxPinned ELSE Cardinality(asked)
      /\ \A h \in H, k \in asked \ H : counts[k] <= counts[h]

NoteRequest(k) ==
  freq' = [freq EXCEPT ![k] = IF @ < FreqMax THEN @ + 1 ELSE @]

-----------------------------------------------------------------------------
(* Choosing slots.                                                         *)

FreeSlot == [key |-> None, heat |-> 0, pinned |-> FALSE, busy |-> FALSE]

Touched(s) ==
  {p \in older : p[1] # s} \union {<<t, s>> : t \in Slots \ {s}}

\* s was used no later than any slot of C, the lowest index among equals.
IsOldest(s, C) ==
  /\ s \in C
  /\ \A t \in C \ {s} : /\ <<t, s>> \notin older
                        /\ <<s, t>> \in older \/ s < t

Score(sl, s) == IF sl[s].key = None THEN 0 ELSE freq[sl[s].key]

\* s is the slot evict_one takes: the first free one, else the least requested
\* and least used of the unpinned, else the least recently used.
IsVictim(sl, s) ==
  LET idle   == {t \in Slots : ~sl[t].busy}
      free   == {t \in idle : sl[t].key = None}
      loose  == {t \in idle : ~sl[t].pinned}
      Before(t, u) ==
        \/ Score(sl, t) < Score(sl, u)
        \/ Score(sl, t) = Score(sl, u) /\ sl[t].heat < sl[u].heat
        \/ Score(sl, t) = Score(sl, u) /\ sl[t].heat = sl[u].heat /\ t <= u
  IN  IF free # {}  THEN s \in free /\ \A t \in free : s <= t
      ELSE IF loose # {} THEN s \in loose /\ \A t \in loose : Before(s, t)
      ELSE IsOldest(s, idle)

-----------------------------------------------------------------------------
(* Operations.                                                             *)

\* Mutant: one slot more than the budget may be pinned.
StaysPinnedPastBudget(s) ==
  slots[s].key \in hot /\ (slots[s].pinned \/ pinnedCount <= MaxPinned)

\* A slot that is found is pinned exactly while the census ranks its key hot
\* and the pin budget lasts.
StaysPinned(s) ==
  slots[s].key \in hot /\ (slots[s].pinned \/ pinnedCount < MaxPinned)

\* find() of a resident key: it is used now, and its pin is decided anew.
FindHit(s, reserved) ==
  LET pin  == StaysPinned(s)
      heat == slots[s].heat + (IF slots[s].heat < HeatMax THEN 1 ELSE 0)
  IN  /\ older' = Touched(s)
      /\ slots' = [slots EXCEPT ![s] = [key |-> @.key, heat |-> heat,
                                        pinned |-> pin, busy |-> @.busy \/ reserved]]
      /\ pinnedCount' = pinnedCount + (IF pin THEN 1 ELSE 0)
                                    - (IF slots[s].pinned THEN 1 ELSE 0)
      /\ UNCHANGED map

\* Mutant: a resident expert is found but not reserved for the step.
FindUnreserved(k, reserved) ==
  IF map[k] = None
  THEN UNCHANGED <<slots, map, older, pinnedCount>>
  ELSE FindHit(map[k], FALSE)

\* find() and, for an expert of the step, reserve().
Find(k, reserved) ==
  IF map[k] = None
  THEN UNCHANGED <<slots, map, older, pinnedCount>>
  ELSE FindHit(map[k], reserved)

\* Mutant: the evicted key is left in the map.
RemappedKeeping(k, s, gone) == [map EXCEPT ![k] = s]

\* k moves into slot s, whose former key is gone.
Remapped(k, s, gone) ==
  [q \in Keys |-> IF q = k THEN s ELSE IF q = gone THEN None ELSE map[q]]

\* acquire() of an absent key into the slot evict_one takes out of sl.
Acquire(k, sl, pins) ==
  \E s \in Slots :
    /\ IsVictim(sl, s)
    /\ older' = Touched(s)
    /\ slots' = [sl EXCEPT ![s] = [key |-> k, heat |-> 1, pinned |-> FALSE, busy |-> TRUE]]
    /\ pinnedCount' = pins - (IF sl[s].pinned THEN 1 ELSE 0)
    /\ map' = Remapped(k, s, sl[s].key)
    /\ used' = used \union {s}
    /\ pending' = pending \union {s}
    /\ dma' = Append(dma, <<s, k>>)
    /\ UNCHANGED memory

Idle(sl) == {s \in Slots : ~sl[s].busy}

\* Mutant: every waited-for slot is released, the step's own included.
ReleasedAll == pending

\* The slots that sync_copies() releases: those of the step stay busy.
Released == pending \ used

\* sync_copies(): the host waits for the DMA stream.
SyncCopies ==
  /\ dma = <<>>
  /\ slots' = [s \in Slots |-> IF s \in Released
                               THEN [slots[s] EXCEPT !.busy = FALSE] ELSE slots[s]]
  /\ pending' = {}
  /\ UNCHANGED <<map, older, pinnedCount, used, gpu>>

-----------------------------------------------------------------------------
(* One layer of moe_ffn.                                                   *)

Init ==
  /\ slots = [s \in Slots |-> FreeSlot]
  /\ map = [k \in Keys |-> None]
  /\ older = {} /\ pinnedCount = 0 /\ used = {} /\ pending = {}
  /\ freq \in [Keys -> {0, FreqMax}]
  /\ hot \in SUBSET Keys /\ IsHotSet(freq, hot)
  /\ dma = <<>> /\ memory = [s \in Slots |-> None]
  /\ pc = "idle" /\ layer = NLayers /\ active = {} /\ todo = {}
  /\ table = [e \in Experts |-> None]

Key(e) == <<layer, e>>

\* The loops over experts go in ascending order.
IsNext(e) == e \in todo /\ \A f \in todo : e <= f

Visited(e) == todo' = todo \ {e} /\ UNCHANGED <<pc, layer, active>>

BeginStep(A) ==
  /\ pc = "idle"
  /\ pc' = "request" /\ layer' = (layer % NLayers) + 1
  /\ active' = A /\ todo' = A
  /\ used' = {}
  /\ UNCHANGED <<slots, map, older, pinnedCount, pending, rank, gpu, table>>

\* The expert is resident: it is reserved for the step.
RequestHit(e) ==
  /\ pc = "request" /\ IsNext(e) /\ map[Key(e)] # None
  /\ NoteRequest(Key(e))
  /\ Find(Key(e), TRUE)
  /\ used' = used \union {map[Key(e)]}
  /\ Visited(e)
  /\ UNCHANGED <<pending, hot, gpu, table>>

\* The expert is absent: its slab is streamed into a slot.
RequestMiss(e) ==
  /\ pc = "request" /\ IsNext(e) /\ map[Key(e)] = None
  /\ Idle(slots) # {}
  /\ NoteRequest(Key(e))
  /\ Acquire(Key(e), slots, pinnedCount)
  /\ Visited(e)
  /\ UNCHANGED <<hot, table>>

\* Mutant: acquire() waits for the copies and forgets to note it did.
RequestDrainForever(e) ==
  /\ pc = "request" /\ IsNext(e) /\ map[Key(e)] = None
  /\ Idle(slots) = {} /\ pending # {}
  /\ dma = <<>>
  /\ UNCHANGED vars

\* No slot can be had: acquire() waits for the copies and tries again.
RequestDrain(e) ==
  /\ pc = "request" /\ IsNext(e) /\ map[Key(e)] = None
  /\ Idle(slots) = {} /\ pending # {}
  /\ SyncCopies
  /\ UNCHANGED <<rank, host>>

\* The pool is exhausted: acquire() gives up on the expert.
RequestExhausted(e) ==
  /\ pc = "request" /\ IsNext(e) /\ map[Key(e)] = None
  /\ Idle(slots) = {} /\ pending = {}
  /\ NoteRequest(Key(e))
  /\ Visited(e)
  /\ UNCHANGED <<mgr, hot, gpu, table>>

EndRequests ==
  /\ pc = "request" /\ todo = {}
  /\ SyncCopies
  /\ pc' = "resolve" /\ todo' = active
  /\ UNCHANGED <<rank, layer, active, table>>

\* The loops that look every expert of the step up again.
Resolve(e) ==
  /\ pc \in {"resolve", "recount"} /\ IsNext(e)
  /\ Find(Key(e), FALSE)
  /\ Visited(e)
  /\ UNCHANGED <<used, pending, rank, gpu, table>>

\* force_resident(): a missing expert is forced into a slot that the step does
\* not use, pinned or not; there may be none.
ForceResident(e) ==
  /\ pc = "force" /\ IsNext(e)
  /\ IF map[Key(e)] # None
     THEN /\ Find(Key(e), FALSE)
          /\ UNCHANGED <<used, pending, gpu>>
     ELSE IF Slots \ used = {}
     THEN UNCHANGED <<mgr, gpu>>
     ELSE \E b \in Slots :
            /\ IsOldest(b, Slots \ used)
            /\ Acquire(Key(e),
                       [slots EXCEPT ![b].pinned = FALSE, ![b].busy = FALSE],
                       pinnedCount - (IF slots[b].pinned THEN 1 ELSE 0))
  /\ Visited(e)
  /\ UNCHANGED <<rank, table>>

Missing == {e \in active : map[Key(e)] = None}

EndLoop ==
  /\ pc \in {"resolve", "force", "recount"} /\ todo = {}
  /\ pc' = IF pc = "resolve" /\ Missing # {} THEN "force"
           ELSE IF pc = "force" THEN "recount" ELSE "table"
  /\ todo' = IF pc' = "table" THEN Experts ELSE active
  /\ UNCHANGED <<mgr, rank, gpu, layer, active, table>>

\* The kernel's pointer table covers every expert of the layer.
Tabulate(e) ==
  /\ pc = "table" /\ IsNext(e)
  /\ Find(Key(e), FALSE)
  /\ table' = [table EXCEPT ![e] = IF map[Key(e)] = None /\ e \in active
                                   THEN Zero ELSE map[Key(e)]]
  /\ Visited(e)
  /\ UNCHANGED <<used, pending, rank, gpu>>

\* The fused kernel is queued behind the table's upload.
Launch ==
  /\ pc = "table" /\ todo = {}
  /\ pc' = "kernel"
  /\ UNCHANGED <<mgr, rank, gpu, layer, active, todo, table>>

\* The host has waited for the kernel: end_step().  Every few seconds the
\* census is ranked again.
EndStep ==
  /\ pc = "kernel"
  /\ slots' = [s \in Slots |-> IF s \in used /\ slots[s].key # None
                               THEN [slots[s] EXCEPT !.busy = FALSE] ELSE slots[s]]
  /\ used' = {}
  /\ hot' \in SUBSET Keys
  /\ hot' = hot \/ IsHotSet(freq, hot')
  /\ pc' = "idle" /\ active' = {}
  /\ table' = [e \in Experts |-> None]
  /\ UNCHANGED <<map, older, pinnedCount, pending, freq, gpu, layer, todo>>

\* The DMA engine completes the oldest copy.
CopyDone ==
  /\ dma # <<>>
  /\ memory' = [memory EXCEPT ![Head(dma)[1]] = Head(dma)[2]]
  /\ dma' = Tail(dma)
  /\ UNCHANGED <<mgr, rank, host>>

Host ==
  \/ \E e \in Experts :
       \/ RequestHit(e) \/ RequestMiss(e) \/ RequestDrain(e) \/ RequestExhausted(e)
       \/ Resolve(e) \/ ForceResident(e) \/ Tabulate(e)
  \/ EndRequests \/ EndLoop \/ Launch \/ EndStep

Next ==
  \/ \E A \in (SUBSET Experts) \ {{}} : BeginStep(A)
  \/ Host
  \/ CopyDone

Spec == Init /\ [][Next]_vars

\* The host thread runs a layer to its end; queued copies complete.
FairSpec == Spec /\ WF_vars(Host) /\ WF_vars(CopyDone)

-----------------------------------------------------------------------------
(* Properties.                                                             *)

\* Type invariant.
TypeOK ==
  /\ slots \in [Slots -> [key : Keys \union {None}, heat : 0..HeatMax,
                          pinned : BOOLEAN, busy : BOOLEAN]]
  /\ map \in [Keys -> Slots \union {None}]
  /\ older \subseteq Slots \X Slots
  /\ pinnedCount \in 0..NSlots
  /\ used \subseteq Slots /\ pending \subseteq Slots
  /\ freq \in [Keys -> 0..FreqMax] /\ hot \subseteq Keys
  /\ dma \in Seq(Slots \X Keys) /\ memory \in [Slots -> Keys \union {None}]
  /\ pc \in {"idle", "request", "resolve", "force", "recount", "table", "kernel"}
  /\ layer \in Layers /\ active \subseteq Experts /\ todo \subseteq Experts
  /\ table \in [Experts -> Slots \union {Zero, None}]

\* No slot stays busy outside the step that reserved it, and none that the
\* step reads is left unreserved: a leaked slot would never be evicted again.
BusyIsUsed ==
  /\ {s \in Slots : slots[s].busy} = used
  /\ pc = "idle" => used = {} /\ pending = {} /\ dma = <<>>

\* The map, the slots and the step's marks describe the same residency, through
\* evictions, forced evictions and re-use; and the pinned share (slotmgr.hpp:105
\* "cap on the pinned (static) share of the pool") is counted exactly and within
\* the cap, whichever of the unpin paths ran.
SlotsAccounted ==
  /\ \A k \in Keys, s \in Slots : map[k] = s <=> slots[s].key = k
  /\ BusyIsUsed
  /\ pinnedCount = Cardinality({s \in Slots : slots[s].pinned})
  /\ pinnedCount <= MaxPinned
  /\ \A s \in Slots : slots[s].pinned => slots[s].key # None

\* slotmgr.hpp:38: a slot the step will read is not given to another expert
\* before end_step(), whatever the step has still to bring in.
StepHoldsItsSlots == [][\A s \in used : slots'[s].key = slots[s].key]_vars

\* The weights a kernel finds in a slot, None while a copy into it is under way.
Found(s) == IF \E i \in DOMAIN dma : dma[i][1] = s THEN None ELSE memory[s]

\* The step that is being run, and what its kernel reads.
StepRun == IF pc = "idle" THEN [layer |-> 0, active |-> {}]
           ELSE [layer |-> layer, active |-> active]
KernelReads ==
  IF pc = "kernel"
  THEN [e \in active |-> IF table[e] \in Slots THEN Found(table[e]) ELSE table[e]]
  ELSE <<>>

Weights == INSTANCE ExpertWeights WITH step <- StepRun, read <- KernelReads

\* The kernel reads exactly its layer's experts, completely copied; zeros only
\* stand in when the step needs more experts than there are slots.
ServesExperts == Weights!Spec

\* Every MoE layer ends: a full pool, pinned or in flight, never blocks it.
StepEnds == pc = "request" ~> pc = "idle"
=============================================================================
