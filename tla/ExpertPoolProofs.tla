--------------------------- MODULE ExpertPoolProofs ---------------------------
(***************************************************************************)
(* Theorems about the weights of the model (ExpertPool): of the pool of      *)
(* slots (SlotMgr) for every number of layers, experts and slots, every pin  *)
(* budget and every saturation of the counters, and of the census file.     *)
(***************************************************************************)
EXTENDS ExpertPool, FiniteSetTheorems, SequenceTheorems, TLAPS

-----------------------------------------------------------------------------
(* The inductive invariant of the slots.                                    *)

\* Experts of the step that the host has requested already.
Settled == IF pc = "request" THEN active \ todo ELSE active

\* Where the host stands: requests come before everything else of a step, and
\* when they are done the host has waited for every copy.
HostOK ==
  /\ pc = "idle" <=> active = {}
  /\ pc \in {"request", "force"} => todo \subseteq active
  /\ pc = "kernel" => todo = {}
  /\ pc \notin {"idle", "request"} => pending = {} /\ dma = <<>>

\* A slot of the step holds a requested expert, and a requested expert is in a
\* slot of the step; it may be missing only if all slots are of the step.
StepIsHeld ==
  /\ pending \subseteq used
  /\ \A s \in used : \E e \in Settled : slots[s].key = Key(e)
  /\ \A e \in Settled : map[Key(e)] \in used \/ (map[Key(e)] = None /\ used = Slots)

\* A queued copy brings the slab of the key its slot has now, and a slot of
\* which no copy is queued has that slab already.
CopiesFit ==
  /\ \A i \in DOMAIN dma : dma[i][1] \in used /\ dma[i][2] = slots[dma[i][1]].key
  /\ \A s \in Slots : slots[s].key # None =>
       memory[s] = slots[s].key \/ \E i \in DOMAIN dma : dma[i][1] = s

\* The pointer table agrees with the map for every expert that was looked up.
TableFits ==
  pc \in {"table", "kernel"} =>
    \A e \in Experts \ todo :
      table[e] = IF map[Key(e)] = None /\ e \in active THEN Zero ELSE map[Key(e)]

IInv == TypeOK /\ SlotsAccounted /\ HostOK /\ StepIsHeld /\ CopiesFit /\ TableFits

-----------------------------------------------------------------------------
(* Slots and keys.                                                          *)

SlotType == [key : Keys \union {None}, heat : 0..HeatMax, pinned : BOOLEAN, busy : BOOLEAN]

PinnedSlots == {s \in Slots : slots[s].pinned}
BusySlots   == {s \in Slots : slots[s].busy}

LEMMA KeyType ==
  ASSUME TypeOK, NEW e \in Experts
  PROVE  /\ Key(e) \in Keys /\ Key(e) # None
         /\ \A f \in Experts : Key(f) = Key(e) => f = e
BY SlotAssumption DEF TypeOK, Key, Keys

LEMMA SlotsFinite ==
  /\ IsFiniteSet(Slots) /\ Cardinality(Slots) = NSlots
  /\ \A P \in SUBSET Slots : IsFiniteSet(P) /\ Cardinality(P) \in 0..NSlots
<1>1. IsFiniteSet(Slots) /\ Cardinality(Slots) = NSlots
  BY SlotAssumption, FS_Interval DEF Slots
<1>2. ASSUME NEW P \in SUBSET Slots
      PROVE  IsFiniteSet(P) /\ Cardinality(P) \in 0..NSlots
  BY <1>1, FS_Subset, FS_CardinalityType, SlotAssumption
<1> QED
  BY <1>1, <1>2

\* evict_one never takes a slot that a step reads.
LEMMA VictimIdle ==
  ASSUME NEW sl, NEW s \in Slots, IsVictim(sl, s)
  PROVE  ~sl[s].busy
BY DEF IsVictim, IsOldest

\* One slot is unpinned or pinned: the count follows.
LEMMA PinCount ==
  ASSUME NEW P \in SUBSET Slots, NEW s \in Slots, NEW pin \in BOOLEAN
  PROVE  LET Q == (P \ {s}) \union (IF pin THEN {s} ELSE {})
         IN  /\ Q \in SUBSET Slots
             /\ Cardinality(Q) = Cardinality(P) + (IF pin THEN 1 ELSE 0)
                                                - (IF s \in P THEN 1 ELSE 0)
<1> DEFINE R == P \ {s}
<1>1. IsFiniteSet(P) /\ Cardinality(P) \in Nat
  BY SlotsFinite, FS_CardinalityType
<1>2. IsFiniteSet(R) /\ Cardinality(R) = Cardinality(P) - (IF s \in P THEN 1 ELSE 0)
  BY <1>1, FS_RemoveElement
<1>3. Cardinality(R \union {s}) = Cardinality(R) + 1
  BY <1>2, FS_AddElement
<1>4. CASE pin
  BY <1>1, <1>2, <1>3, <1>4
<1>5. CASE ~pin
  BY <1>1, <1>2, <1>5
<1> QED
  BY <1>4, <1>5

-----------------------------------------------------------------------------
(* Operations of the pool.                                                  *)

\* What the slots, the map and the pin count have to do with each other.
Accounted ==
  /\ slots \in [Slots -> SlotType] /\ map \in [Keys -> Slots \union {None}]
  /\ \A k \in Keys, s \in Slots : map[k] = s <=> slots[s].key = k
  /\ pinnedCount \in 0..NSlots /\ pinnedCount = Cardinality(PinnedSlots)
  /\ pinnedCount <= MaxPinned
  /\ \A s \in PinnedSlots : slots[s].key # None

\* The types of everything else.
RestType ==
  /\ older \subseteq Slots \X Slots /\ used \subseteq Slots /\ pending \subseteq Slots
  /\ freq \in [Keys -> 0..FreqMax] /\ hot \subseteq Keys
  /\ dma \in Seq(Slots \X Keys) /\ memory \in [Slots -> Keys \union {None}]
  /\ pc \in {"idle", "request", "resolve", "force", "recount", "table", "kernel"}
  /\ layer \in Layers /\ active \subseteq Experts /\ todo \subseteq Experts
  /\ table \in [Experts -> Slots \union {Zero, None}]

\* The slots whose copies or table entries the step needs are those of the step.
BusyMatches == BusySlots = used /\ (pc = "idle" => used = {} /\ pending = {} /\ dma = <<>>)

LEMMA PartsOfIInv ==
  /\ TypeOK /\ SlotsAccounted <=> Accounted /\ RestType /\ BusyMatches
  /\ (TypeOK /\ SlotsAccounted)' <=> (Accounted /\ RestType /\ BusyMatches)'
BY DEF TypeOK, SlotsAccounted, Accounted, RestType, BusyMatches, BusyIsUsed, BusySlots,
       PinnedSlots, SlotType

LEMMA TouchedType ==
  ASSUME older \subseteq Slots \X Slots, NEW s \in Slots
  PROVE  Touched(s) \subseteq Slots \X Slots
BY DEF Touched

\* find() and reserve() move nothing, and keep count of the pins.
LEMMA FindKeeps ==
  ASSUME Accounted, older \subseteq Slots \X Slots, hot \subseteq Keys,
         NEW k \in Keys, NEW reserved \in BOOLEAN, Find(k, reserved)
  PROVE  /\ Accounted' /\ map' = map /\ older' \subseteq Slots \X Slots
         /\ \A s \in Slots : slots'[s].key = slots[s].key
         /\ BusySlots' = BusySlots \union (IF reserved /\ map[k] # None THEN {map[k]} ELSE {})
<1>1. CASE map[k] = None
  BY <1>1 DEF Find, Accounted, PinnedSlots, BusySlots
<1>2. CASE map[k] # None
  <2> DEFINE s == map[k]
             pin == StaysPinned(s)
  <2>1. s \in Slots /\ slots[s].key = k /\ slots[s] \in SlotType
    BY <1>2 DEF Accounted
  <2>2. FindHit(s, reserved)
    BY <1>2 DEF Find
  <2>3. pin \in BOOLEAN
    BY <2>1 DEF StaysPinned, SlotType
  <2> DEFINE heat == slots[s].heat + (IF slots[s].heat < HeatMax THEN 1 ELSE 0)
             slot == [key |-> k, heat |-> heat, pinned |-> pin, busy |-> slots[s].busy \/ reserved]
  <2>4. /\ slots' = [slots EXCEPT ![s] = slot]
        /\ map' = map /\ older' = Touched(s)
        /\ pinnedCount' = pinnedCount + (IF pin THEN 1 ELSE 0)
                                      - (IF slots[s].pinned THEN 1 ELSE 0)
    BY <2>1, <2>2 DEF FindHit
  <2>5. heat \in 0..HeatMax
    BY <2>1, SlotAssumption DEF SlotType
  <2>6. slots[s].busy \/ reserved \in BOOLEAN
    OBVIOUS
  <2> HIDE DEF heat
  <2>7. slot \in SlotType
    BY <2>1, <2>3, <2>5, <2>6 DEF SlotType
  <2>8. slot.key = k /\ slot.pinned = pin /\ slot.busy = (slots[s].busy \/ reserved)
    OBVIOUS
  <2> HIDE DEF slot
  <2>9. /\ slots' \in [Slots -> SlotType]
        /\ slots'[s] = slot /\ \A t \in Slots \ {s} : slots'[t] = slots[t]
    BY <2>1, <2>4, <2>7 DEF Accounted
  <2>10. \A t \in Slots : slots'[t].key = slots[t].key
    BY <2>1, <2>8, <2>9
  <2>11. BusySlots' = BusySlots \union (IF reserved THEN {s} ELSE {})
    BY <2>1, <2>8, <2>9 DEF BusySlots
  <2>12. /\ PinnedSlots' = (PinnedSlots \ {s}) \union (IF pin THEN {s} ELSE {})
         /\ PinnedSlots \in SUBSET Slots /\ (s \in PinnedSlots <=> slots[s].pinned)
    BY <2>1, <2>8, <2>9 DEF PinnedSlots
  <2>13. /\ Cardinality(PinnedSlots') = Cardinality(PinnedSlots) + (IF pin THEN 1 ELSE 0)
                                          - (IF s \in PinnedSlots THEN 1 ELSE 0)
         /\ PinnedSlots' \in SUBSET Slots
    BY <2>1, <2>3, <2>12, PinCount
  <2>14. pinnedCount' = Cardinality(PinnedSlots') /\ Cardinality(PinnedSlots') \in 0..NSlots
    BY <2>4, <2>12, <2>13, SlotsFinite DEF Accounted
  <2>15. pin => s \in PinnedSlots \/ pinnedCount < MaxPinned
    BY <2>12 DEF pin, StaysPinned
  <2>16. pinnedCount' <= MaxPinned
    BY <2>4, <2>12, <2>15, SlotAssumption DEF Accounted
  <2>17. \A t \in PinnedSlots' : slots'[t].key # None
    BY <2>1, <2>10, <2>12, SlotAssumption DEF Accounted
  <2> QED
    BY <1>2, <2>1, <2>4, <2>9, <2>10, <2>11, <2>14, <2>16, <2>17, TouchedType DEF Accounted, s
<1> QED
  BY <1>1, <1>2

\* acquire() takes an idle slot, and whatever was in it is out of the map.
LEMMA AcquireKeeps ==
  ASSUME Accounted, older \subseteq Slots \X Slots,
         NEW k \in Keys, map[k] = None, Acquire(k, slots, pinnedCount)
  PROVE  /\ Accounted' /\ older' \subseteq Slots \X Slots
         /\ \E s \in Slots \ BusySlots :
              /\ slots'[s].key = k /\ \A t \in Slots \ {s} : slots'[t] = slots[t]
              /\ BusySlots' = BusySlots \union {s}
              /\ \A q \in Keys : map[q] \in BusySlots => map'[q] = map[q]
              /\ map'[k] = s
              /\ used' = used \union {s} /\ pending' = pending \union {s}
              /\ dma' = Append(dma, <<s, k>>) /\ memory' = memory
<1> DEFINE slot == [key |-> k, heat |-> 1, pinned |-> FALSE, busy |-> TRUE]
<1>1. PICK s \in Slots :
        /\ IsVictim(slots, s)
        /\ older' = Touched(s)
        /\ slots' = [slots EXCEPT ![s] = slot]
        /\ pinnedCount' = pinnedCount - (IF slots[s].pinned THEN 1 ELSE 0)
        /\ map' = Remapped(k, s, slots[s].key)
        /\ used' = used \union {s} /\ pending' = pending \union {s}
        /\ dma' = Append(dma, <<s, k>>) /\ memory' = memory
  BY DEF Acquire
<1>2. ~slots[s].busy
  BY <1>1, VictimIdle
<1>3. slot \in SlotType
  BY SlotAssumption DEF SlotType
<1>4. slot.key = k /\ slot.pinned = FALSE /\ slot.busy = TRUE
  OBVIOUS
<1> HIDE DEF slot
<1>5. /\ slots' \in [Slots -> SlotType]
      /\ slots'[s] = slot /\ \A t \in Slots \ {s} : slots'[t] = slots[t]
  BY <1>1, <1>3 DEF Accounted
<1>6. BusySlots' = BusySlots \union {s} /\ s \notin BusySlots
  BY <1>2, <1>4, <1>5 DEF BusySlots
<1>7. /\ PinnedSlots' = PinnedSlots \ {s} /\ PinnedSlots \in SUBSET Slots
      /\ (s \in PinnedSlots <=> slots[s].pinned)
  BY <1>4, <1>5 DEF PinnedSlots
<1>8. /\ Cardinality(PinnedSlots') = Cardinality(PinnedSlots) - (IF s \in PinnedSlots THEN 1 ELSE 0)
      /\ PinnedSlots' \in SUBSET Slots
  BY <1>7, SlotsFinite, FS_RemoveElement
<1>9. /\ pinnedCount' = Cardinality(PinnedSlots') /\ Cardinality(PinnedSlots') \in 0..NSlots
      /\ pinnedCount' <= MaxPinned
  BY <1>1, <1>7, <1>8, SlotsFinite, SlotAssumption DEF Accounted
<1>10. \A t \in PinnedSlots' : slots'[t].key # None
  BY <1>5, <1>7 DEF Accounted
<1>11. /\ map' \in [Keys -> Slots \union {None}]
       /\ \A q \in Keys : map'[q] = IF q = k THEN s ELSE IF q = slots[s].key THEN None ELSE map[q]
  BY <1>1 DEF Remapped, Accounted
<1>12. \A q \in Keys, t \in Slots : map'[q] = t <=> slots'[t].key = q
  BY <1>4, <1>5, <1>11, SlotAssumption DEF Accounted
<1>13. \A q \in Keys : map[q] \in BusySlots => map'[q] = map[q]
  BY <1>6, <1>11, SlotAssumption DEF Accounted, BusySlots
<1> QED
  BY <1>1, <1>4, <1>5, <1>6, <1>9, <1>10, <1>11, <1>12, <1>13, TouchedType DEF Accounted

\* sync_copies() releases no slot, for all that were waited for are the step's.
LEMMA SyncKeeps ==
  ASSUME Accounted, pending \subseteq used, SyncCopies
  PROVE  /\ dma = <<>> /\ slots' = slots /\ pending' = {}
         /\ UNCHANGED <<map, older, pinnedCount, used, dma, memory>>
<1>1. Released = {}
  BY DEF Released
<1> QED
  BY <1>1 DEF SyncCopies, Accounted, gpu

-----------------------------------------------------------------------------
(* Every step keeps the invariant.                                          *)

LEMMA InitSound == Init => IInv
<1> SUFFICES ASSUME Init PROVE IInv
  OBVIOUS
<1>1. /\ slots = [s \in Slots |-> FreeSlot] /\ map = [k \in Keys |-> None]
      /\ older = {} /\ pinnedCount = 0 /\ used = {} /\ pending = {}
      /\ freq \in [Keys -> {0, FreqMax}] /\ hot \in SUBSET Keys
      /\ dma = <<>> /\ memory = [s \in Slots |-> None]
      /\ pc = "idle" /\ layer = NLayers /\ active = {} /\ todo = {}
      /\ table = [e \in Experts |-> None]
  BY DEF Init
<1>2. /\ FreeSlot \in SlotType /\ FreeSlot.key = None
      /\ FreeSlot.pinned = FALSE /\ FreeSlot.busy = FALSE
  BY SlotAssumption DEF FreeSlot, SlotType
<1>3. PinnedSlots = {} /\ BusySlots = {}
  BY <1>1, <1>2 DEF PinnedSlots, BusySlots
<1>4. Accounted
  BY <1>1, <1>2, <1>3, FS_EmptySet, SlotAssumption DEF Accounted
<1>5. RestType
  BY <1>1, SlotAssumption DEF RestType, Layers
<1>6. BusyMatches /\ HostOK /\ StepIsHeld /\ TableFits
  BY <1>1, <1>3 DEF BusyMatches, HostOK, StepIsHeld, TableFits, Settled
<1>7. CopiesFit
  BY <1>1, <1>2 DEF CopiesFit
<1> QED
  BY <1>4, <1>5, <1>6, <1>7, PartsOfIInv DEF IInv

LEMMA BeginKeeps ==
  ASSUME IInv, NEW A \in (SUBSET Experts) \ {{}}, BeginStep(A)
  PROVE  IInv'
<1>1. Accounted /\ RestType /\ BusyMatches /\ HostOK /\ CopiesFit
  BY PartsOfIInv DEF IInv
<1>2. /\ pc = "idle" /\ pc' = "request" /\ layer' = (layer % NLayers) + 1
      /\ active' = A /\ todo' = A /\ used' = {}
      /\ UNCHANGED <<slots, map, older, pinnedCount, pending, freq, hot, dma, memory, table>>
  BY DEF BeginStep, rank, gpu
<1>3. used = {} /\ pending = {} /\ dma = <<>>
  BY <1>1, <1>2 DEF BusyMatches
<1>4. layer' \in Layers
  BY <1>1, <1>2, SlotAssumption DEF RestType, Layers
<1>5. Accounted'
  BY <1>1, <1>2 DEF Accounted, PinnedSlots
<1>6. RestType'
  BY <1>1, <1>2, <1>4 DEF RestType
<1>7. BusyMatches' /\ HostOK' /\ TableFits'
  BY <1>1, <1>2, <1>3 DEF BusyMatches, BusySlots, HostOK, TableFits
<1>8. StepIsHeld' /\ CopiesFit'
  BY <1>1, <1>2, <1>3 DEF StepIsHeld, Settled, CopiesFit
<1> QED
  BY <1>5, <1>6, <1>7, <1>8, PartsOfIInv DEF IInv

\* What the requests of a step have in common: another expert is settled.
LEMMA VisitSettles ==
  ASSUME IInv, NEW e \in Experts, pc = "request", IsNext(e), Visited(e)
  PROVE  /\ pc' = "request" /\ layer' = layer /\ active' = active /\ todo' = todo \ {e}
         /\ e \in todo /\ todo' \subseteq Experts
         /\ Settled' = Settled \union {e} /\ HostOK'
BY DEF IInv, TypeOK, HostOK, IsNext, Visited, Settled

LEMMA RequestHitKeeps ==
  ASSUME IInv, NEW e \in Experts, RequestHit(e)
  PROVE  IInv'
<1> DEFINE k == Key(e)
           s == map[k]
<1>1. Accounted /\ RestType /\ BusyMatches /\ HostOK /\ StepIsHeld /\ CopiesFit /\ TypeOK
  BY PartsOfIInv DEF IInv
<1>2. /\ pc = "request" /\ IsNext(e) /\ map[k] # None
      /\ NoteRequest(k) /\ Find(k, TRUE) /\ used' = used \union {s} /\ Visited(e)
      /\ UNCHANGED <<pending, hot, dma, memory, table>>
  BY DEF RequestHit, gpu
<1>3. /\ pc' = "request" /\ layer' = layer /\ active' = active /\ todo' \subseteq Experts
      /\ Settled' = Settled \union {e} /\ HostOK'
  BY <1>2, VisitSettles
<1>4. k \in Keys /\ s \in Slots /\ slots[s].key = k /\ \A f : Key(f)' = Key(f)
  BY <1>1, <1>2, <1>3, KeyType DEF Accounted, Key
<1>5. /\ Accounted' /\ map' = map /\ older' \subseteq Slots \X Slots
      /\ \A t \in Slots : slots'[t].key = slots[t].key
      /\ BusySlots' = BusySlots \union {s}
  BY <1>1, <1>2, <1>4, FindKeeps DEF RestType
<1> HIDE DEF s, k
<1>6. RestType'
  BY <1>1, <1>2, <1>3, <1>4, <1>5, SlotAssumption DEF RestType, NoteRequest
<1>7. BusyMatches'
  BY <1>1, <1>2, <1>3, <1>5 DEF BusyMatches
<1>8. StepIsHeld'
  <2>1. \A t \in used' : \E f \in Settled' : slots'[t].key = Key(f)'
    BY <1>1, <1>2, <1>3, <1>4, <1>5 DEF StepIsHeld, RestType, k
  <2>2. \A f \in Settled' : map'[Key(f)'] \in used' \/ (map'[Key(f)'] = None /\ used' = Slots)
    BY <1>1, <1>2, <1>3, <1>4, <1>5 DEF StepIsHeld, RestType, s, k
  <2> QED
    BY <1>1, <1>2, <2>1, <2>2 DEF StepIsHeld
<1>9. CopiesFit'
  BY <1>1, <1>2, <1>5 DEF CopiesFit, RestType
<1>10. TableFits'
  BY <1>3 DEF TableFits
<1> QED
  BY <1>3, <1>5, <1>6, <1>7, <1>8, <1>9, <1>10, PartsOfIInv DEF IInv

LEMMA RequestMissKeeps ==
  ASSUME IInv, NEW e \in Experts, RequestMiss(e)
  PROVE  IInv'
<1> DEFINE k == Key(e)
<1>1. Accounted /\ RestType /\ BusyMatches /\ HostOK /\ StepIsHeld /\ CopiesFit /\ TypeOK
  BY PartsOfIInv DEF IInv
<1>2. /\ pc = "request" /\ IsNext(e) /\ map[k] = None
      /\ NoteRequest(k) /\ Acquire(k, slots, pinnedCount) /\ Visited(e)
      /\ UNCHANGED <<hot, table>>
  BY DEF RequestMiss
<1>3. /\ pc' = "request" /\ layer' = layer /\ active' = active /\ todo' \subseteq Experts
      /\ Settled' = Settled \union {e} /\ HostOK'
  BY <1>2, VisitSettles
<1>4. k \in Keys /\ \A f : Key(f)' = Key(f)
  BY <1>1, <1>2, <1>3, KeyType DEF Key
<1>5. /\ Accounted' /\ older' \subseteq Slots \X Slots
      /\ \E t \in Slots \ BusySlots :
           /\ slots'[t].key = k /\ \A u \in Slots \ {t} : slots'[u] = slots[u]
           /\ BusySlots' = BusySlots \union {t}
           /\ \A q \in Keys : map[q] \in BusySlots => map'[q] = map[q]
           /\ map'[k] = t
           /\ used' = used \union {t} /\ pending' = pending \union {t}
           /\ dma' = Append(dma, <<t, k>>) /\ memory' = memory
  BY <1>1, <1>2, <1>4, AcquireKeeps DEF RestType
<1>6. PICK s \in Slots \ used :
        /\ slots'[s].key = k /\ \A t \in Slots \ {s} : slots'[t] = slots[t]
        /\ BusySlots' = used \union {s}
        /\ \A q \in Keys : map[q] \in used => map'[q] = map[q]
        /\ map'[k] = s
        /\ used' = used \union {s} /\ pending' = pending \union {s}
        /\ dma' = Append(dma, <<s, k>>) /\ memory' = memory
  BY <1>1, <1>5 DEF BusyMatches
<1> HIDE DEF k
<1>7. RestType'
  BY <1>1, <1>2, <1>3, <1>4, <1>5, <1>6, SlotAssumption DEF RestType, NoteRequest
<1>8. BusyMatches'
  BY <1>3, <1>6 DEF BusyMatches
<1>9. StepIsHeld'
  <2>1. used # Slots
    BY <1>6
  <2>2. ASSUME NEW f \in Settled
        PROVE  Key(f) \in Keys /\ map[Key(f)] \in used
    BY <1>1, <2>1, KeyType DEF StepIsHeld, Settled, RestType
  <2>3. \A t \in used' : \E f \in Settled' : slots'[t].key = Key(f)'
    BY <1>1, <1>3, <1>4, <1>6 DEF StepIsHeld, RestType, k
  <2>4. \A f \in Settled' : map'[Key(f)'] \in used'
    BY <1>3, <1>4, <1>6, <2>2 DEF k
  <2> QED
    BY <1>1, <1>6, <2>3, <2>4 DEF StepIsHeld
<1>10. CopiesFit'
  <2>1. /\ DOMAIN dma' = DOMAIN dma \union {Len(dma) + 1}
        /\ dma'[Len(dma) + 1] = <<s, k>> /\ \A i \in DOMAIN dma : dma'[i] = dma[i]
    BY <1>1, <1>6 DEF RestType
  <2>2. ASSUME NEW i \in DOMAIN dma'
        PROVE  dma'[i][1] \in used' /\ dma'[i][2] = slots'[dma'[i][1]].key
    <3>1. CASE i \in DOMAIN dma
      <4>1. dma[i] \in Slots \X Keys /\ dma'[i] = dma[i]
        BY <1>1, <2>1, <3>1 DEF RestType
      <4>2. dma[i][1] \in used /\ dma[i][2] = slots[dma[i][1]].key
        BY <1>1, <3>1 DEF CopiesFit
      <4>3. dma[i][1] \in Slots \ {s}
        BY <1>6, <4>1, <4>2
      <4> QED
        BY <1>6, <4>1, <4>2, <4>3
    <3>2. CASE i = Len(dma) + 1
      BY <1>6, <2>1, <3>2
    <3> QED
      BY <2>1, <2>2, <3>1, <3>2
  <2>3. ASSUME NEW t \in Slots, slots'[t].key # None
        PROVE  memory'[t] = slots'[t].key \/ \E i \in DOMAIN dma' : dma'[i][1] = t
    BY <1>1, <1>6, <2>1, <2>3 DEF CopiesFit
  <2> QED
    BY <2>2, <2>3 DEF CopiesFit
<1>11. TableFits'
  BY <1>3 DEF TableFits
<1> QED
  BY <1>3, <1>5, <1>7, <1>8, <1>9, <1>10, <1>11, PartsOfIInv DEF IInv

LEMMA RequestDrainKeeps ==
  ASSUME IInv, NEW e \in Experts, RequestDrain(e)
  PROVE  IInv'
<1>1. Accounted /\ RestType /\ BusyMatches /\ HostOK /\ StepIsHeld /\ CopiesFit /\ TableFits
  BY PartsOfIInv DEF IInv
<1>2. pc = "request" /\ SyncCopies /\ UNCHANGED <<freq, hot, pc, layer, active, todo, table>>
  BY DEF RequestDrain, rank, host
<1>3. /\ slots' = slots /\ pending' = {} /\ dma = <<>>
      /\ UNCHANGED <<map, older, pinnedCount, used, dma, memory>>
  BY <1>1, <1>2, SyncKeeps DEF StepIsHeld
<1>4. Accounted' /\ RestType'
  BY <1>1, <1>2, <1>3 DEF Accounted, PinnedSlots, RestType
<1>5. BusyMatches' /\ HostOK' /\ TableFits'
  BY <1>1, <1>2, <1>3 DEF BusyMatches, BusySlots, HostOK, TableFits
<1>6. StepIsHeld' /\ CopiesFit'
  BY <1>1, <1>2, <1>3 DEF StepIsHeld, Settled, Key, CopiesFit
<1> QED
  BY <1>4, <1>5, <1>6, PartsOfIInv DEF IInv

\* acquire() gives an expert up only when every slot is of the step.
LEMMA RequestExhaustedKeeps ==
  ASSUME IInv, NEW e \in Experts, RequestExhausted(e)
  PROVE  IInv'
<1>1. Accounted /\ RestType /\ BusyMatches /\ HostOK /\ StepIsHeld /\ CopiesFit /\ TypeOK
  BY PartsOfIInv DEF IInv
<1>2. /\ pc = "request" /\ IsNext(e) /\ map[Key(e)] = None /\ Idle(slots) = {}
      /\ NoteRequest(Key(e)) /\ Visited(e)
      /\ UNCHANGED <<slots, map, older, pinnedCount, used, pending, hot, dma, memory, table>>
  BY DEF RequestExhausted, mgr, gpu
<1>3. /\ pc' = "request" /\ layer' = layer /\ active' = active /\ todo' \subseteq Experts
      /\ Settled' = Settled \union {e} /\ HostOK'
  BY <1>2, VisitSettles
<1>4. used = Slots
  BY <1>1, <1>2 DEF Idle, BusyMatches, BusySlots, RestType
<1>5. Accounted'
  BY <1>1, <1>2 DEF Accounted, PinnedSlots
<1>6. RestType'
  BY <1>1, <1>2, <1>3, KeyType, SlotAssumption DEF RestType, NoteRequest
<1>7. BusyMatches' /\ TableFits' /\ CopiesFit'
  BY <1>1, <1>2, <1>3 DEF BusyMatches, BusySlots, TableFits, CopiesFit
<1>8. StepIsHeld'
  BY <1>1, <1>2, <1>3, <1>4 DEF StepIsHeld, Key
<1> QED
  BY <1>3, <1>5, <1>6, <1>7, <1>8, PartsOfIInv DEF IInv

LEMMA EndRequestsKeeps ==
  ASSUME IInv, EndRequests
  PROVE  IInv'
<1>1. Accounted /\ RestType /\ BusyMatches /\ HostOK /\ StepIsHeld /\ CopiesFit
  BY PartsOfIInv DEF IInv
<1>2. /\ pc = "request" /\ todo = {} /\ SyncCopies /\ pc' = "resolve" /\ todo' = active
      /\ UNCHANGED <<freq, hot, layer, active, table>>
  BY DEF EndRequests, rank
<1>3. /\ slots' = slots /\ pending' = {} /\ dma = <<>>
      /\ UNCHANGED <<map, older, pinnedCount, used, dma, memory>>
  BY <1>1, <1>2, SyncKeeps DEF StepIsHeld
<1>4. Accounted' /\ RestType'
  BY <1>1, <1>2, <1>3 DEF Accounted, PinnedSlots, RestType
<1>5. BusyMatches' /\ HostOK' /\ TableFits'
  BY <1>1, <1>2, <1>3 DEF BusyMatches, BusySlots, HostOK, TableFits
<1>6. StepIsHeld' /\ CopiesFit'
  BY <1>1, <1>2, <1>3 DEF StepIsHeld, Settled, Key, CopiesFit
<1> QED
  BY <1>4, <1>5, <1>6, PartsOfIInv DEF IInv

\* An expert is looked up and not reserved, after the requests: nothing moves.
LEMMA LookUpKeeps ==
  ASSUME IInv, NEW e \in Experts, pc \in {"resolve", "force", "recount", "table"}, IsNext(e),
         Find(Key(e), FALSE), Visited(e), UNCHANGED <<used, pending, freq, hot, dma, memory>>,
         table' \in [Experts -> Slots \union {Zero, None}]
  PROVE  /\ Accounted' /\ RestType' /\ BusyMatches' /\ HostOK' /\ StepIsHeld' /\ CopiesFit'
         /\ UNCHANGED <<map, pc, layer, active>> /\ todo' = todo \ {e} /\ e \in todo
<1>1. Accounted /\ RestType /\ BusyMatches /\ HostOK /\ StepIsHeld /\ CopiesFit /\ TypeOK
  BY PartsOfIInv DEF IInv
<1>2. /\ pc' = pc /\ layer' = layer /\ active' = active /\ todo' = todo \ {e} /\ e \in todo
  BY DEF Visited, IsNext
<1>3. /\ Accounted' /\ map' = map /\ older' \subseteq Slots \X Slots
      /\ \A s \in Slots : slots'[s].key = slots[s].key
      /\ BusySlots' = BusySlots
  BY <1>1, KeyType, FindKeeps DEF RestType
<1>4. RestType'
  BY <1>1, <1>2, <1>3 DEF RestType
<1>5. BusyMatches' /\ HostOK'
  BY <1>1, <1>2, <1>3 DEF BusyMatches, HostOK
<1>6. StepIsHeld'
  BY <1>1, <1>2, <1>3 DEF StepIsHeld, Settled, Key, RestType
<1>7. CopiesFit'
  BY <1>1, <1>2, <1>3 DEF CopiesFit, RestType
<1> QED
  BY <1>2, <1>3, <1>4, <1>5, <1>6, <1>7

LEMMA ResolveKeeps ==
  ASSUME IInv, NEW e \in Experts, Resolve(e)
  PROVE  IInv'
<1>1. /\ pc \in {"resolve", "recount"} /\ IsNext(e) /\ Find(Key(e), FALSE) /\ Visited(e)
      /\ UNCHANGED <<used, pending, freq, hot, dma, memory>> /\ table' = table
      /\ table \in [Experts -> Slots \union {Zero, None}]
  BY DEF Resolve, rank, gpu, IInv, TypeOK
<1>2. /\ Accounted' /\ RestType' /\ BusyMatches' /\ HostOK' /\ StepIsHeld' /\ CopiesFit'
      /\ pc' = pc
  BY <1>1, LookUpKeeps
<1>3. TableFits'
  BY <1>1, <1>2 DEF TableFits
<1> QED
  BY <1>2, <1>3, PartsOfIInv DEF IInv

\* force_resident() of an absent expert finds no slot: it was requested, and is
\* absent only because the step has all of them.
LEMMA ForceKeeps ==
  ASSUME IInv, NEW e \in Experts, ForceResident(e)
  PROVE  IInv' /\ UNCHANGED <<map, used>>
<1>1. Accounted /\ RestType /\ BusyMatches /\ HostOK /\ StepIsHeld /\ CopiesFit
  BY PartsOfIInv DEF IInv
<1>2. /\ pc = "force" /\ IsNext(e) /\ Visited(e) /\ UNCHANGED <<freq, hot>> /\ table' = table
  BY DEF ForceResident, rank
<1>3. CASE map[Key(e)] # None
  <2>1. Find(Key(e), FALSE) /\ UNCHANGED <<used, pending, dma, memory>>
    BY <1>3 DEF ForceResident, gpu
  <2>2. /\ Accounted' /\ RestType' /\ BusyMatches' /\ HostOK' /\ StepIsHeld' /\ CopiesFit'
        /\ pc' = pc /\ map' = map
    BY <1>1, <1>2, <2>1, LookUpKeeps DEF RestType
  <2>3. TableFits'
    BY <1>2, <2>2 DEF TableFits
  <2> QED
    BY <2>1, <2>2, <2>3, PartsOfIInv DEF IInv
<1>4. CASE map[Key(e)] = None
  <2>1. e \in Settled
    BY <1>1, <1>2 DEF HostOK, IsNext, Settled
  <2>2. used = Slots
    BY <1>1, <1>4, <2>1, SlotAssumption DEF StepIsHeld, RestType
  <2>3. UNCHANGED <<slots, map, older, pinnedCount, used, pending, dma, memory>>
    BY <1>4, <2>2 DEF ForceResident, mgr, gpu
  <2>4. pc' = pc /\ layer' = layer /\ active' = active /\ todo' = todo \ {e}
    BY <1>2 DEF Visited
  <2>5. Accounted' /\ RestType'
    BY <1>1, <1>2, <2>3, <2>4 DEF Accounted, PinnedSlots, RestType
  <2>6. BusyMatches' /\ HostOK' /\ TableFits'
    BY <1>1, <1>2, <2>3, <2>4 DEF BusyMatches, BusySlots, HostOK, TableFits
  <2>7. StepIsHeld' /\ CopiesFit'
    BY <1>1, <1>2, <2>3, <2>4 DEF StepIsHeld, Settled, Key, CopiesFit
  <2> QED
    BY <2>3, <2>5, <2>6, <2>7, PartsOfIInv DEF IInv
<1> QED
  BY <1>3, <1>4

LEMMA EndLoopKeeps ==
  ASSUME IInv, EndLoop
  PROVE  IInv'
<1>1. Accounted /\ RestType /\ BusyMatches /\ HostOK /\ StepIsHeld /\ CopiesFit
  BY PartsOfIInv DEF IInv
<1>2. /\ pc \in {"resolve", "force", "recount"} /\ pc' \in {"force", "recount", "table"}
      /\ todo' = IF pc' = "table" THEN Experts ELSE active
      /\ UNCHANGED <<slots, map, older, pinnedCount, used, pending, freq, hot, dma, memory,
                     layer, active, table>>
  BY DEF EndLoop, mgr, rank, gpu
<1>3. Accounted' /\ RestType'
  BY <1>1, <1>2 DEF Accounted, PinnedSlots, RestType
<1>4. BusyMatches' /\ HostOK' /\ TableFits'
  BY <1>1, <1>2 DEF BusyMatches, BusySlots, HostOK, TableFits
<1>5. StepIsHeld' /\ CopiesFit'
  BY <1>1, <1>2 DEF StepIsHeld, Settled, Key, CopiesFit
<1> QED
  BY <1>3, <1>4, <1>5, PartsOfIInv DEF IInv

LEMMA TabulateKeeps ==
  ASSUME IInv, NEW e \in Experts, Tabulate(e)
  PROVE  IInv'
<1> DEFINE entry == IF map[Key(e)] = None /\ e \in active THEN Zero ELSE map[Key(e)]
<1>1. Accounted /\ RestType /\ TableFits /\ TypeOK
  BY PartsOfIInv DEF IInv
<1>2. /\ pc = "table" /\ IsNext(e) /\ Find(Key(e), FALSE) /\ Visited(e)
      /\ table' = [table EXCEPT ![e] = entry]
      /\ UNCHANGED <<used, pending, freq, hot, dma, memory>>
  BY DEF Tabulate, rank, gpu
<1>3. entry \in Slots \union {Zero, None}
  BY <1>1, KeyType DEF Accounted
<1>4. table' \in [Experts -> Slots \union {Zero, None}]
  BY <1>1, <1>2, <1>3 DEF RestType
<1>5. /\ Accounted' /\ RestType' /\ BusyMatches' /\ HostOK' /\ StepIsHeld' /\ CopiesFit'
      /\ UNCHANGED <<map, pc, layer, active>> /\ todo' = todo \ {e} /\ e \in todo
  BY <1>2, <1>4, LookUpKeeps
<1>6. TableFits'
  <2>1. \A f \in Experts : Key(f)' = Key(f)
    BY <1>5 DEF Key
  <2>2. \A f \in Experts : f # e => table'[f] = table[f]
    BY <1>1, <1>2 DEF RestType
  <2>3. table'[e] = entry
    BY <1>1, <1>2 DEF RestType
  <2> HIDE DEF entry
  <2>4. \A f \in (Experts \ todo) : table[f] = IF map[Key(f)] = None /\ f \in active THEN Zero ELSE map[Key(f)]
    BY <1>1, <1>2 DEF TableFits
  <2>5. \A f \in (Experts \ todo) \union {e} :
          table'[f] = IF map[Key(f)] = None /\ f \in active THEN Zero ELSE map[Key(f)]
    BY <1>2, <1>5, <2>2, <2>3, <2>4 DEF entry
  <2> QED
    BY <1>5, <2>1, <2>5 DEF TableFits
<1> QED
  BY <1>5, <1>6, PartsOfIInv DEF IInv

LEMMA LaunchKeeps ==
  ASSUME IInv, Launch
  PROVE  IInv'
<1>1. Accounted /\ RestType /\ BusyMatches /\ HostOK /\ StepIsHeld /\ CopiesFit /\ TableFits
  BY PartsOfIInv DEF IInv
<1>2. /\ pc = "table" /\ todo = {} /\ pc' = "kernel"
      /\ UNCHANGED <<slots, map, older, pinnedCount, used, pending, freq, hot, dma, memory,
                     layer, active, todo, table>>
  BY DEF Launch, mgr, rank, gpu
<1>3. Accounted' /\ RestType'
  BY <1>1, <1>2 DEF Accounted, PinnedSlots, RestType
<1>4. BusyMatches' /\ HostOK' /\ TableFits'
  BY <1>1, <1>2 DEF BusyMatches, BusySlots, HostOK, TableFits, Key
<1>5. StepIsHeld' /\ CopiesFit'
  BY <1>1, <1>2 DEF StepIsHeld, Settled, Key, CopiesFit
<1> QED
  BY <1>3, <1>4, <1>5, PartsOfIInv DEF IInv

LEMMA ReleasedSlot ==
  ASSUME NEW r \in SlotType
  PROVE  LET free == [r EXCEPT !.busy = FALSE]
         IN  free \in SlotType /\ free.key = r.key /\ free.pinned = r.pinned /\ free.busy = FALSE
BY DEF SlotType

\* end_step() releases every slot of the step, for all of them hold a key.
LEMMA EndStepKeeps ==
  ASSUME IInv, EndStep
  PROVE  IInv' /\ \A s \in Slots : slots'[s].key = slots[s].key
<1>1. Accounted /\ RestType /\ BusyMatches /\ HostOK /\ StepIsHeld /\ CopiesFit /\ TypeOK
  BY PartsOfIInv DEF IInv
<1>2. /\ pc = "kernel" /\ pc' = "idle" /\ used' = {} /\ active' = {} /\ hot' \in SUBSET Keys
      /\ table' = [e \in Experts |-> None]
      /\ UNCHANGED <<map, older, pinnedCount, pending, freq, dma, memory, layer, todo>>
  BY DEF EndStep, gpu
<1>3. slots' = [s \in Slots |-> IF s \in used /\ slots[s].key # None
                                THEN [slots[s] EXCEPT !.busy = FALSE] ELSE slots[s]]
  BY DEF EndStep
<1>4. ASSUME NEW s \in Slots
      PROVE  /\ slots'[s] \in SlotType /\ slots'[s].key = slots[s].key
             /\ slots'[s].pinned = slots[s].pinned /\ ~slots'[s].busy
  <2>1. slots[s] \in SlotType
    BY <1>1 DEF Accounted
  <2>2. CASE s \in used
    <3>1. \E e \in Experts : slots[s].key = Key(e)
      BY <1>1, <2>2 DEF StepIsHeld, Settled, RestType
    <3>2. slots[s].key # None
      BY <1>1, <3>1, KeyType
    <3> DEFINE free == [slots[s] EXCEPT !.busy = FALSE]
    <3>3. slots'[s] = free
      BY <1>3, <2>2, <3>2
    <3>4. free \in SlotType /\ free.key = slots[s].key /\ free.pinned = slots[s].pinned /\ free.busy = FALSE
      BY <2>1, ReleasedSlot
    <3> QED
      BY <3>3, <3>4
  <2>3. CASE s \notin used
    <3>1. slots'[s] = slots[s]
      BY <1>3, <2>3
    <3>2. ~slots[s].busy
      BY <1>1, <2>3 DEF BusyMatches, BusySlots
    <3> QED
      BY <2>1, <3>1, <3>2
  <2> QED
    BY <2>2, <2>3
<1>5. slots' \in [Slots -> SlotType]
  <2>1. slots' = [s \in Slots |-> slots'[s]]
    BY <1>3
  <2> QED
    BY <1>4, <2>1
<1>6. PinnedSlots' = PinnedSlots /\ BusySlots' = {}
  BY <1>4 DEF PinnedSlots, BusySlots
<1>7. Accounted'
  <2>1. \A k \in Keys, s \in Slots : map'[k] = s <=> slots'[s].key = k
    BY <1>1, <1>2, <1>4 DEF Accounted
  <2>2. \A s \in PinnedSlots : s \in Slots /\ slots'[s].key # None
    BY <1>1, <1>4 DEF Accounted, PinnedSlots
  <2> QED
    BY <1>1, <1>2, <1>5, <1>6, <2>1, <2>2 DEF Accounted
<1>8. RestType'
  BY <1>1, <1>2 DEF RestType
<1>9. BusyMatches' /\ HostOK' /\ TableFits' /\ StepIsHeld'
  BY <1>1, <1>2, <1>6 DEF BusyMatches, HostOK, TableFits, StepIsHeld, Settled
<1>10. CopiesFit'
  BY <1>1, <1>2, <1>4 DEF CopiesFit, HostOK
<1> QED
  BY <1>4, <1>7, <1>8, <1>9, <1>10, PartsOfIInv DEF IInv

\* A copy that ends brings its slot the slab of the key it has.
LEMMA CopyDoneKeeps ==
  ASSUME IInv, CopyDone
  PROVE  IInv'
<1>1. Accounted /\ RestType /\ BusyMatches /\ HostOK /\ StepIsHeld /\ CopiesFit /\ TableFits
  BY PartsOfIInv DEF IInv
<1>2. /\ dma # <<>> /\ memory' = [memory EXCEPT ![Head(dma)[1]] = Head(dma)[2]]
      /\ dma' = Tail(dma)
      /\ UNCHANGED <<slots, map, older, pinnedCount, used, pending, freq, hot,
                     pc, layer, active, todo, table>>
  BY DEF CopyDone, mgr, rank, host
<1>3. /\ dma \in Seq(Slots \X Keys) /\ dma[1] \in Slots \X Keys /\ Head(dma) = dma[1]
      /\ 1 \in DOMAIN dma /\ dma' \in Seq(Slots \X Keys)
  BY <1>1, <1>2 DEF RestType
<1>4. \A i \in DOMAIN dma' : i + 1 \in DOMAIN dma /\ dma'[i] = dma[i + 1]
  BY <1>2, <1>3
<1>5. \A i \in DOMAIN dma : i = 1 \/ (i - 1 \in DOMAIN dma' /\ dma'[i - 1] = dma[i])
  BY <1>2, <1>3
<1>6. Accounted' /\ RestType'
  BY <1>1, <1>2, <1>3 DEF Accounted, PinnedSlots, RestType
<1>7. BusyMatches' /\ HostOK' /\ TableFits' /\ StepIsHeld'
  BY <1>1, <1>2 DEF BusyMatches, BusySlots, HostOK, TableFits, StepIsHeld, Settled, Key
<1>8. CopiesFit'
  <2>1. \A i \in DOMAIN dma' : dma'[i][1] \in used' /\ dma'[i][2] = slots'[dma'[i][1]].key
    BY <1>1, <1>2, <1>4 DEF CopiesFit
  <2>2. ASSUME NEW s \in Slots, slots[s].key # None
        PROVE  memory'[s] = slots[s].key \/ \E i \in DOMAIN dma' : dma'[i][1] = s
    <3>1. CASE s = dma[1][1]
      BY <1>1, <1>2, <1>3, <3>1 DEF CopiesFit, RestType
    <3>2. CASE s # dma[1][1]
      <4>1. memory'[s] = memory[s]
        BY <1>1, <1>2, <1>3, <3>2 DEF RestType
      <4>2. ASSUME NEW i \in DOMAIN dma, dma[i][1] = s
            PROVE  i - 1 \in DOMAIN dma' /\ dma'[i - 1][1] = s
        BY <1>5, <3>2, <4>2
      <4> QED
        BY <1>1, <2>2, <4>1, <4>2 DEF CopiesFit
    <3> QED
      BY <3>1, <3>2
  <2> QED
    BY <1>2, <2>1, <2>2 DEF CopiesFit
<1> QED
  BY <1>6, <1>7, <1>8, PartsOfIInv DEF IInv

LEMMA StutterKeeps ==
  ASSUME IInv, UNCHANGED vars
  PROVE  IInv'
<1>1. UNCHANGED <<slots, map, older, pinnedCount, used, pending, freq, hot, dma, memory,
                  pc, layer, active, todo, table>>
  BY DEF vars, mgr, rank, gpu, host
<1>2. Accounted /\ RestType /\ BusyMatches /\ HostOK /\ StepIsHeld /\ CopiesFit /\ TableFits
  BY PartsOfIInv DEF IInv
<1>3. Accounted' /\ RestType' /\ BusyMatches' /\ HostOK' /\ TableFits'
  BY <1>1, <1>2 DEF Accounted, PinnedSlots, RestType, BusyMatches, BusySlots, HostOK, TableFits, Key
<1>4. StepIsHeld' /\ CopiesFit'
  BY <1>1, <1>2 DEF StepIsHeld, Settled, Key, CopiesFit
<1> QED
  BY <1>3, <1>4, PartsOfIInv DEF IInv

LEMMA NextKeeps ==
  ASSUME IInv, [Next]_vars
  PROVE  IInv'
<1>1. ASSUME NEW e \in Experts,
             \/ RequestHit(e) \/ RequestMiss(e) \/ RequestDrain(e) \/ RequestExhausted(e)
             \/ Resolve(e) \/ ForceResident(e) \/ Tabulate(e)
      PROVE  IInv'
  BY <1>1, RequestHitKeeps, RequestMissKeeps, RequestDrainKeeps, RequestExhaustedKeeps,
     ResolveKeeps, ForceKeeps, TabulateKeeps
<1>2. CASE EndRequests \/ EndLoop \/ Launch \/ EndStep
  BY <1>2, EndRequestsKeeps, EndLoopKeeps, LaunchKeeps, EndStepKeeps
<1>3. CASE CopyDone
  BY <1>3, CopyDoneKeeps
<1>4. CASE \E A \in (SUBSET Experts) \ {{}} : BeginStep(A)
  BY <1>4, BeginKeeps
<1>5. CASE UNCHANGED vars
  BY <1>5, StutterKeeps
<1> QED
  BY <1>1, <1>2, <1>3, <1>4, <1>5 DEF Next, Host

LEMMA Invariance == Spec => []IInv
BY InitSound, NextKeeps, PTL DEF Spec

-----------------------------------------------------------------------------
(* What a step may do to the slots of the step.                             *)

LEMMA StepKeepsKeys ==
  ASSUME IInv, [Next]_vars
  PROVE  \A s \in used : slots'[s].key = slots[s].key
<1>1. /\ Accounted /\ RestType /\ BusyMatches /\ HostOK /\ StepIsHeld /\ TypeOK
  BY PartsOfIInv DEF IInv
<1>2. ASSUME NEW e \in Experts, NEW reserved \in BOOLEAN, Find(Key(e), reserved)
      PROVE  \A s \in Slots : slots'[s].key = slots[s].key
  BY <1>1, <1>2, KeyType, FindKeeps DEF RestType
<1>3. ASSUME NEW e \in Experts, RequestMiss(e)
      PROVE  \A s \in used : slots'[s].key = slots[s].key
  <2>1. map[Key(e)] = None /\ Acquire(Key(e), slots, pinnedCount)
    BY <1>3 DEF RequestMiss
  <2>2. \E t \in Slots \ BusySlots : \A s \in Slots \ {t} : slots'[s] = slots[s]
    BY <1>1, <2>1, KeyType, AcquireKeeps DEF RestType
  <2> QED
    BY <1>1, <2>2 DEF BusyMatches, RestType
<1>4. ASSUME NEW e \in Experts, ForceResident(e)
      PROVE  \A s \in used : slots'[s].key = slots[s].key
  <2>1. CASE map[Key(e)] # None
    BY <1>1, <1>2, <1>4, <2>1 DEF ForceResident, RestType
  <2>2. CASE map[Key(e)] = None
    <3>1. e \in Settled
      BY <1>1, <1>4 DEF HostOK, IsNext, Settled, ForceResident
    <3>2. used = Slots
      BY <1>1, <2>2, <3>1, SlotAssumption DEF StepIsHeld, RestType
    <3>3. UNCHANGED slots
      BY <1>4, <2>2, <3>2 DEF ForceResident, mgr
    <3> QED
      BY <3>3
  <2> QED
    BY <2>1, <2>2
<1>5. ASSUME NEW e \in Experts, RequestHit(e) \/ Resolve(e) \/ Tabulate(e)
      PROVE  \A s \in used : slots'[s].key = slots[s].key
  <2>1. \E reserved \in BOOLEAN : Find(Key(e), reserved)
    BY <1>5 DEF RequestHit, Resolve, Tabulate
  <2> QED
    BY <1>1, <1>2, <2>1 DEF RestType
<1>6. ASSUME SyncCopies
      PROVE  \A s \in used : slots'[s].key = slots[s].key
  BY <1>1, <1>6, SyncKeeps DEF StepIsHeld
<1>7. ASSUME NEW e \in Experts, RequestDrain(e) \/ RequestExhausted(e)
      PROVE  \A s \in used : slots'[s].key = slots[s].key
  BY <1>6, <1>7 DEF RequestDrain, RequestExhausted, mgr
<1>8. CASE EndRequests \/ EndLoop \/ Launch \/ CopyDone \/ UNCHANGED vars
  BY <1>6, <1>8 DEF EndRequests, EndLoop, Launch, CopyDone, mgr, vars
<1>9. CASE EndStep
  BY <1>1, <1>9, EndStepKeeps DEF RestType
<1>10. CASE \E A \in (SUBSET Experts) \ {{}} : BeginStep(A)
  BY <1>10 DEF BeginStep
<1> QED
  BY <1>3, <1>4, <1>5, <1>7, <1>8, <1>9, <1>10 DEF Next, Host

\* A requested expert is missing only if the slots hold as many others of the step.
LEMMA CrowdedOut ==
  ASSUME IInv, NEW e \in Settled, map[Key(e)] = None
  PROVE  Cardinality(Settled) > NSlots
<1>1. Accounted /\ RestType /\ StepIsHeld /\ TypeOK
  BY PartsOfIInv DEF IInv
<1>2. Settled \subseteq Experts /\ IsFiniteSet(Settled)
  <2>1. IsFiniteSet(Experts)
    BY FS_Interval, SlotAssumption DEF Experts
  <2> QED
    BY <1>1, <2>1, FS_Subset DEF Settled, RestType
<1>3. used = Slots
  BY <1>1, SlotAssumption DEF StepIsHeld, RestType
<1> DEFINE others == Settled \ {e}
           holder == [s \in Slots |-> CHOOSE f \in Settled : slots[s].key = Key(f)]
<1>4. ASSUME NEW s \in Slots
      PROVE  holder[s] \in others /\ slots[s].key = Key(holder[s]) /\ map[Key(holder[s])] = s
  <2>1. holder[s] \in Settled /\ slots[s].key = Key(holder[s])
    BY <1>1, <1>3 DEF StepIsHeld
  <2>2. map[Key(holder[s])] = s
    BY <1>1, <1>2, <2>1, KeyType DEF Accounted
  <2> QED
    BY <2>1, <2>2, SlotAssumption
<1>5. holder \in Injection(Slots, others)
  <2>1. holder \in [Slots -> others]
    BY <1>4
  <2>2. ASSUME NEW s \in Slots, NEW t \in Slots, holder[s] = holder[t]
        PROVE  s = t
    BY <1>4, <2>2
  <2> QED
    BY <2>1, <2>2 DEF Injection, IsInjective
<1> HIDE DEF holder
<1>6. IsFiniteSet(others) /\ Cardinality(others) = Cardinality(Settled) - 1
  BY <1>2, FS_RemoveElement
<1> HIDE DEF others
<1>7. Cardinality(Slots) <= Cardinality(others)
  BY <1>5, <1>6, FS_Injection
<1>8. Cardinality(Slots) = NSlots /\ Cardinality(Settled) \in Nat
  BY <1>2, SlotsFinite, FS_CardinalityType
<1> QED
  BY <1>6, <1>7, <1>8, SlotAssumption

-----------------------------------------------------------------------------
(* What the kernel reads is what ExpertWeights promises.                    *)

LEMMA KernelReadsItsExperts ==
  ASSUME IInv, pc = "kernel", NEW e \in active
  PROVE  \/ KernelReads[e] = <<layer, e>>
         \/ KernelReads[e] = Zero /\ Cardinality(active) > NSlots
<1>1. Accounted /\ RestType /\ HostOK /\ StepIsHeld /\ CopiesFit /\ TableFits /\ TypeOK
  BY PartsOfIInv DEF IInv
<1>2. e \in Experts /\ e \in Settled /\ Settled = active /\ dma = <<>> /\ todo = {}
  BY <1>1 DEF RestType, Settled, HostOK
<1>3. /\ KernelReads[e] = IF table[e] \in Slots THEN Found(table[e]) ELSE table[e]
      /\ table[e] = IF map[Key(e)] = None THEN Zero ELSE map[Key(e)]
  BY <1>1, <1>2 DEF KernelReads, TableFits
<1>4. CASE map[Key(e)] = None
  <2>1. KernelReads[e] = Zero
    BY <1>3, <1>4, SlotAssumption
  <2>2. Cardinality(active) > NSlots
    BY <1>2, <1>4, CrowdedOut
  <2> QED
    BY <2>1, <2>2
<1>5. CASE map[Key(e)] # None
  <2> DEFINE s == map[Key(e)]
  <2>1. s \in Slots /\ slots[s].key = Key(e) /\ slots[s].key # None
    BY <1>1, <1>2, <1>5, KeyType DEF Accounted
  <2>2. Found(s) = memory[s]
    BY <1>2 DEF Found
  <2>3. memory[s] = slots[s].key
    BY <1>1, <1>2, <2>1 DEF CopiesFit
  <2> QED
    BY <1>3, <1>5, <2>1, <2>2, <2>3 DEF Key
<1> QED
  BY <1>4, <1>5

\* What ExpertWeights asks of a launch.
KernelServed ==
  pc = "kernel" =>
    \A e \in active : \/ KernelReads[e] = <<layer, e>>
                      \/ KernelReads[e] = Zero /\ Cardinality(active) > NSlots

LEMMA Served == IInv => KernelServed
BY KernelReadsItsExperts DEF KernelServed

LEMMA ServedNext == IInv' => KernelServed'
BY Served, PTL

LEMMA ServesInit == Init => Weights!Init
BY DEF Init, Weights!Init, Weights!NoStep, StepRun, KernelReads

LEMMA ServesStep ==
  ASSUME IInv, IInv', [Next]_vars
  PROVE  [Weights!Next]_<<StepRun, KernelReads>>
<1>1. RestType /\ HostOK /\ RestType' /\ HostOK'
  BY PartsOfIInv DEF IInv
<1>2. ASSUME NEW A \in (SUBSET Experts) \ {{}}, BeginStep(A)
      PROVE  Weights!Next
  <2>1. /\ pc = "idle" /\ pc' = "request" /\ active' = A /\ layer' \in Layers
    BY <1>1, <1>2 DEF BeginStep, RestType
  <2>2. Weights!Begin(layer', A)
    BY <2>1 DEF Weights!Begin, Weights!NoStep, StepRun, KernelReads
  <2> QED
    BY <2>1, <2>2 DEF Weights!Next, Weights!Layers, Weights!Experts, Layers, Experts
<1>3. CASE Launch
  <2>1. /\ pc = "table" /\ pc' = "kernel" /\ layer' = layer /\ active' = active
        /\ layer \in Layers
    BY <1>1, <1>3 DEF Launch, RestType
  <2>2. /\ StepRun = [layer |-> layer, active |-> active] /\ StepRun' = StepRun
        /\ StepRun # Weights!NoStep /\ KernelReads = <<>> /\ DOMAIN KernelReads' = active
        /\ KernelReads' = [e \in active |-> KernelReads'[e]]
    BY <2>1, SlotAssumption DEF StepRun, KernelReads, Weights!NoStep, Layers
  <2>3. \A e \in active : \/ KernelReads'[e] = <<layer, e>>
                          \/ KernelReads'[e] = Zero /\ Cardinality(active) > NSlots
    BY <2>1, ServedNext DEF KernelServed
  <2>4. KernelReads' \in [active -> {<<layer, e>> : e \in active} \union {Zero}]
    BY <2>2, <2>3
  <2>5. Weights!Launch
    <3>1. Weights!Cardinality(active) = Cardinality(active)
      BY DEF Weights!Cardinality, Cardinality
    <3> QED
      BY <2>2, <2>3, <2>4, <3>1 DEF Weights!Launch
  <2> QED
    BY <2>5 DEF Weights!Next
<1>4. CASE EndStep
  <2>1. pc = "kernel" /\ pc' = "idle" /\ active # {}
    BY <1>1, <1>4 DEF EndStep, HostOK
  <2>2. KernelReads # <<>>
    <3>1. DOMAIN KernelReads = active
      BY <2>1 DEF KernelReads
    <3> QED
      BY <2>1, <3>1
  <2>3. Weights!End
    BY <2>1, <2>2 DEF Weights!End, Weights!NoStep, StepRun, KernelReads
  <2> QED
    BY <2>3 DEF Weights!Next
<1>5. ASSUME pc \notin {"idle", "kernel"}, pc' \notin {"idle", "kernel"},
             layer' = layer, active' = active
      PROVE  UNCHANGED <<StepRun, KernelReads>>
  BY <1>5 DEF StepRun, KernelReads
<1>6. ASSUME NEW e \in Experts,
             \/ RequestHit(e) \/ RequestMiss(e) \/ RequestDrain(e) \/ RequestExhausted(e)
             \/ Resolve(e) \/ ForceResident(e) \/ Tabulate(e)
      PROVE  UNCHANGED <<StepRun, KernelReads>>
  <2>1. CASE RequestHit(e) \/ RequestMiss(e) \/ RequestDrain(e) \/ RequestExhausted(e)
    BY <1>5, <2>1 DEF RequestHit, RequestMiss, RequestDrain, RequestExhausted, Visited, host
  <2>2. CASE Resolve(e) \/ Tabulate(e)
    BY <1>5, <2>2 DEF Resolve, Tabulate, Visited
  <2>3. CASE ForceResident(e)
    <3>1. pc = "force" /\ Visited(e)
      BY <2>3 DEF ForceResident
    <3> QED
      BY <1>5, <3>1 DEF Visited
  <2> QED
    BY <1>6, <2>1, <2>2, <2>3
<1>7. CASE EndRequests \/ EndLoop
  BY <1>5, <1>7 DEF EndRequests, EndLoop
<1>8. CASE CopyDone
  <2>1. dma # <<>> /\ UNCHANGED <<pc, layer, active, table>>
    BY <1>8 DEF CopyDone, host
  <2>2. pc # "kernel"
    BY <1>1, <2>1 DEF HostOK
  <2> QED
    BY <2>1, <2>2 DEF StepRun, KernelReads
<1>9. CASE UNCHANGED vars
  BY <1>9 DEF vars, gpu, host, StepRun, KernelReads, Found
<1> QED
  BY <1>2, <1>3, <1>4, <1>6, <1>7, <1>8, <1>9 DEF Next, Host

-----------------------------------------------------------------------------
(* The census.                                                              *)

\* What the file has is what was saved; what is about to be renamed is whole.
CensusInv ==
  /\ Counted!TypeOK
  /\ saved = Counted!Loaded(file)
  /\ process = "rename" => tmp = counters

LEMMA WholeLoads ==
  ASSUME NEW c \in Counted!Whole
  PROVE  c \in Seq(0..MaxCount) /\ Counted!Loaded(c) = c
<1>1. Counted!Entries = 1..NEntries /\ c \in [1..NEntries -> 0..MaxCount]
  BY DEF Counted!Whole, Counted!Entries
<1>2. c \in Seq(0..MaxCount) /\ Len(c) = NEntries
  BY <1>1, CensusAssumption
<1> QED
  BY <1>1, <1>2, CensusAssumption DEF Counted!Loaded

LEMMA LoadedType ==
  ASSUME NEW f \in Seq(0..MaxCount)
  PROVE  Counted!Loaded(f) \in Counted!Whole
BY CensusAssumption DEF Counted!Loaded, Counted!Whole, Counted!Entries

LEMMA CensusInit == Counted!Init => CensusInv
<1> SUFFICES ASSUME Counted!Init PROVE CensusInv
  OBVIOUS
<1>1. Counted!Absent \in Seq(0..MaxCount)
  BY DEF Counted!Absent
<1>2. Counted!Legacy \subseteq Seq(0..MaxCount)
  BY CensusAssumption DEF Counted!Legacy
<1>3. file \in Seq(0..MaxCount) /\ tmp \in Seq(0..MaxCount) /\ saved = Counted!Loaded(file)
  BY <1>1, <1>2 DEF Counted!Init
<1>4. Counted!Zeros \in Counted!Whole
  BY CensusAssumption DEF Counted!Zeros, Counted!Whole
<1> QED
  BY <1>3, <1>4, LoadedType DEF CensusInv, Counted!Init, Counted!TypeOK

LEMMA CensusStep ==
  ASSUME CensusInv, [Counted!Next]_census
  PROVE  CensusInv' /\ (process = "down" /\ process' = "run" => counters' = saved)
<1>1. /\ counters \in Counted!Whole /\ saved \in Counted!Whole
      /\ tmp \in Seq(0..MaxCount) /\ file \in Seq(0..MaxCount)
      /\ saved = Counted!Loaded(file) /\ (process = "rename" => tmp = counters)
      /\ process \in {"down", "run", "write", "close", "rename"}
  BY DEF CensusInv, Counted!TypeOK
<1>2. CASE Counted!Start
  BY <1>1, <1>2 DEF Counted!Start, CensusInv, Counted!TypeOK
<1>3. ASSUME NEW e \in Counted!Entries, Counted!Count(e)
      PROVE  CensusInv' /\ process = "run"
  BY <1>1, <1>3, CensusAssumption DEF Counted!Count, CensusInv, Counted!TypeOK, Counted!Whole
<1>4. CASE Counted!SaveOpen
  <2>1. Counted!Absent \in Seq(0..MaxCount)
    BY DEF Counted!Absent
  <2> QED
    BY <1>1, <1>4, <2>1 DEF Counted!SaveOpen, Counted!Opened, CensusInv, Counted!TypeOK
<1>5. CASE Counted!SaveWrite
  <2>1. PICK n \in 0..NEntries : tmp' = SubSeq(counters, 1, n)
    BY <1>5 DEF Counted!SaveWrite
  <2>2. n \in Int /\ \A i \in 1..n : counters[i] \in 0..MaxCount
    BY <1>1, CensusAssumption DEF Counted!Whole, Counted!Entries
  <2>3. tmp' \in Seq(0..MaxCount)
    BY <2>1, <2>2, SubSeqProperties
  <2> QED
    BY <1>1, <1>5, <2>3 DEF Counted!SaveWrite, CensusInv, Counted!TypeOK
<1>6. CASE Counted!SaveShort
  <2>1. Counted!Absent \in Seq(0..MaxCount)
    BY DEF Counted!Absent
  <2> QED
    BY <1>1, <1>6, <2>1 DEF Counted!SaveShort, CensusInv, Counted!TypeOK
<1>7. CASE Counted!SaveClose
  BY <1>1, <1>7, WholeLoads DEF Counted!SaveClose, CensusInv, Counted!TypeOK
<1>8. CASE Counted!SaveRename
  <2>1. Counted!Absent \in Seq(0..MaxCount)
    BY DEF Counted!Absent
  <2>2. file' = counters /\ saved' = counters /\ process' = "run" /\ process = "rename"
        /\ tmp' = Counted!Absent /\ counters' = counters
    BY <1>1, <1>8 DEF Counted!SaveRename
  <2> QED
    BY <1>1, <2>1, <2>2, WholeLoads DEF CensusInv, Counted!TypeOK
<1>9. CASE Counted!Killed
  <2>1. Counted!Zeros \in Counted!Whole
    BY CensusAssumption DEF Counted!Zeros, Counted!Whole
  <2> QED
    BY <1>1, <1>9, <2>1 DEF Counted!Killed, CensusInv, Counted!TypeOK
<1>10. CASE UNCHANGED census
  BY <1>1, <1>10 DEF census, CensusInv, Counted!TypeOK
<1> QED
  BY <1>2, <1>3, <1>4, <1>5, <1>6, <1>7, <1>8, <1>9, <1>10 DEF Counted!Next

-----------------------------------------------------------------------------
(* Theorems of the whole: each part takes its own steps or rests.           *)

LEMMA PoolParts ==
  /\ PoolInit => Init /\ Counted!Init
  /\ [PoolNext]_pool => [Next]_vars /\ [Counted!Next]_census
BY DEF PoolInit, PoolNext, pool, ArenaMoves, ArenaRests, LoaderMoves, LoaderRests, Slot, Saver

\* Every variable of the slots keeps its type, for any numbers of layers,
\* experts and slots, any pin budget and any saturation of the counters.
THEOREM TypeCorrect == PoolSpec => []TypeOK
<1>1. IInv => TypeOK
  BY DEF IInv
<1> QED
  BY <1>1, InitSound, NextKeeps, PoolParts, PTL DEF PoolSpec

\* map_, slots_, used_ and pinned_count_ (slotmgr.cpp) always describe the same
\* residency: a slot is busy exactly while the step reads it, none leaks out of a
\* step, and the pins are counted exactly and within the budget.
THEOREM SlotsNeverLeak == PoolSpec => []SlotsAccounted
<1>1. IInv => SlotsAccounted
  BY DEF IInv
<1> QED
  BY <1>1, InitSound, NextKeeps, PoolParts, PTL DEF PoolSpec

\* Whatever acquire() and force_resident() evict to bring an expert in, it is no
\* slot that the step already holds.
THEOREM NoSlotLostInStep == PoolSpec => StepHoldsItsSlots
<1>1. IInv /\ [Next]_vars => [\A s \in used : slots'[s].key = slots[s].key]_vars
  BY StepKeepsKeys
<1> QED
  BY <1>1, InitSound, NextKeeps, PoolParts, PTL DEF PoolSpec, StepHoldsItsSlots

\* moe_ffn's kernel reads, for every expert with tokens, that expert's weights of
\* that layer, completely copied, and zeros only when the step needs more experts
\* than there are slots: SlotMgr implements ExpertWeights.
THEOREM ReadsOwnWeights == PoolSpec => ServesExperts
<1>1. IInv /\ IInv' /\ [Next]_vars => [Weights!Next]_<<StepRun, KernelReads>>
  BY ServesStep
<1> QED
  BY <1>1, InitSound, NextKeeps, ServesInit, PoolParts, PTL DEF PoolSpec, ServesExperts, Weights!Spec

\* Wherever save_census() is killed, the next start counts on from the last save
\* that was completed, however many counters there are.
THEOREM CensusSurvives == PoolSpec => SurvivesRestarts
<1>1. CensusInv /\ [Counted!Next]_census => CensusInv'
  BY CensusStep
<1>2. CensusInv /\ [Counted!Next]_census
        => [process = "down" /\ process' = "run" => counters' = saved]_census
  BY CensusStep
<1>3. census = Counted!vars
  BY DEF census, Counted!vars
<1> QED
  BY <1>1, <1>2, <1>3, CensusInit, PoolParts, PTL
     DEF PoolSpec, SurvivesRestarts, Counted!SurvivesRestarts, census, Counted!vars

-----------------------------------------------------------------------------
(* Proof: whatever widths the layers have, however many experts.            *)

SizesAssumed == PerLayer \in Nat \ {0} /\ Hidden \in Nat /\ Intermediate \in Nat

Widths == [Slabs!Projections -> 0..8]

\* Where the slabs of a layer end.
LayerEnd(l) == byte_base[l] + PerLayer * Slabs!Stride(widths[l])

\* Layers lie one behind the other, each with room for its experts.
ArenaInv ==
  /\ planned \in Nat \ {0} /\ arena_bytes \in Nat
  /\ widths \in Seq(Widths \union {Slabs!Dense}) /\ Len(widths) = planned - 1
  /\ byte_base \in Seq(Nat) /\ Len(byte_base) = planned - 1
  /\ \A l \in Slabs!Planned : widths[l] \in Widths /\ LayerEnd(l) <= arena_bytes
  /\ \A l, m \in Slabs!Planned : l < m => LayerEnd(l) <= byte_base[m]
  /\ outcome = "planning" => arena = {}
  /\ Slabs!SlabsApart

LEMMA PaddedGrows ==
  ASSUME NEW n \in Nat
  PROVE  Slabs!Padded(n) \in Nat /\ n <= Slabs!Padded(n)
BY DEF Slabs!Padded

LEMMA BytesNat ==
  ASSUME SizesAssumed, NEW b \in Widths, NEW p \in Slabs!Projections, NEW q \in Slabs!Pieces
  PROVE  Slabs!Bytes(b, p, q) \in Nat
<1>1. Slabs!In(p) \in Nat /\ Slabs!Out(p) \in Nat /\ b[p] \in Nat
  BY DEF SizesAssumed, Slabs!In, Slabs!Out, Widths
<1>2. Slabs!In(p) * Slabs!Out(p) \in Nat
  BY <1>1
<1>3. (Slabs!In(p) * Slabs!Out(p)) * b[p] \in Nat
  BY <1>1, <1>2
<1>4. ((Slabs!In(p) * Slabs!Out(p)) * b[p]) \div 8 \in Nat
  BY <1>3
<1> QED
  BY <1>1, <1>4 DEF Slabs!Bytes, Slabs!Pieces

\* The pieces of a projection follow each other inside of it.
LEMMA PiecesFollow ==
  ASSUME SizesAssumed, NEW b \in Widths, NEW p \in Slabs!Projections
  PROVE  /\ Slabs!Whole(b, p) \in Nat
         /\ \A q \in Slabs!Pieces : /\ Slabs!Inner(b, p, q) \in Nat
                              /\ Slabs!Inner(b, p, q) + Slabs!Bytes(b, p, q) <= Slabs!Whole(b, p)
         /\ \A q, s \in Slabs!Pieces : q < s => Slabs!Inner(b, p, q) + Slabs!Bytes(b, p, q) <= Slabs!Inner(b, p, s)
<1>1. \A q \in Slabs!Pieces : Slabs!Bytes(b, p, q) \in Nat
  BY BytesNat
<1>2. \A q \in Slabs!Pieces : Slabs!Inner(b, p, q) \in Nat
  BY <1>1 DEF Slabs!Inner, Slabs!Pieces
<1>3. \A q, s \in Slabs!Pieces : q < s => Slabs!Inner(b, p, q) + Slabs!Bytes(b, p, q) <= Slabs!Inner(b, p, s)
  BY <1>1 DEF Slabs!Inner, Slabs!Pieces
<1>4. 3 \in Slabs!Pieces /\ \A q \in Slabs!Pieces : q = 3 \/ q < 3
  BY DEF Slabs!Pieces
<1>5. \A q \in Slabs!Pieces :
        Slabs!Inner(b, p, q) + Slabs!Bytes(b, p, q) <= Slabs!Inner(b, p, 3) + Slabs!Bytes(b, p, 3)
  BY <1>1, <1>2, <1>3, <1>4
<1>6. Slabs!Inner(b, p, 3) + Slabs!Bytes(b, p, 3) \in Nat
  BY <1>1, <1>2, <1>4
<1>7. Slabs!Whole(b, p) \in Nat /\ Slabs!Inner(b, p, 3) + Slabs!Bytes(b, p, 3) <= Slabs!Whole(b, p)
  BY <1>6, PaddedGrows DEF Slabs!Whole
<1>8. \A q \in Slabs!Pieces : Slabs!Inner(b, p, q) + Slabs!Bytes(b, p, q) <= Slabs!Whole(b, p)
  BY <1>1, <1>2, <1>5, <1>6, <1>7
<1> QED
  BY <1>2, <1>3, <1>7, <1>8

\* The tensors of an expert are inside its slab, and apart.
LEMMA TensorsFollow ==
  ASSUME SizesAssumed, NEW b \in Widths
  PROVE  /\ Slabs!Stride(b) \in Nat
         /\ \A p \in Slabs!Projections, q \in Slabs!Pieces :
              /\ Slabs!Off(b, p, q) \in Nat /\ Slabs!Bytes(b, p, q) \in Nat
              /\ Slabs!Off(b, p, q) + Slabs!Bytes(b, p, q) <= Slabs!Stride(b)
         /\ \A p, r \in Slabs!Projections, q, s \in Slabs!Pieces : <<p, q>> # <<r, s>> =>
              \/ Slabs!Off(b, p, q) + Slabs!Bytes(b, p, q) <= Slabs!Off(b, r, s)
              \/ Slabs!Off(b, r, s) + Slabs!Bytes(b, r, s) <= Slabs!Off(b, p, q)
<1>1. \A p \in Slabs!Projections : Slabs!Whole(b, p) \in Nat
  BY PiecesFollow
<1>2. \A p \in Slabs!Projections : Slabs!Start(b, p) \in Nat /\ Slabs!Start(b, p) + Slabs!Whole(b, p) <= Slabs!Stride(b)
  BY <1>1 DEF Slabs!Start, Slabs!Stride, Slabs!Projections
<1>3. \A p, r \in Slabs!Projections : p < r => Slabs!Start(b, p) + Slabs!Whole(b, p) <= Slabs!Start(b, r)
  BY <1>1 DEF Slabs!Start, Slabs!Projections
<1>4. Slabs!Stride(b) \in Nat
  BY <1>1 DEF Slabs!Start, Slabs!Stride, Slabs!Projections
<1>5. ASSUME NEW p \in Slabs!Projections, NEW q \in Slabs!Pieces
      PROVE  /\ Slabs!Off(b, p, q) \in Nat /\ Slabs!Bytes(b, p, q) \in Nat
             /\ Slabs!Start(b, p) <= Slabs!Off(b, p, q)
             /\ Slabs!Off(b, p, q) + Slabs!Bytes(b, p, q) <= Slabs!Start(b, p) + Slabs!Whole(b, p)
  BY <1>1, <1>2, BytesNat, PiecesFollow DEF Slabs!Off
<1>6. ASSUME NEW p \in Slabs!Projections, NEW q \in Slabs!Pieces
      PROVE  Slabs!Off(b, p, q) + Slabs!Bytes(b, p, q) <= Slabs!Stride(b)
  BY <1>1, <1>2, <1>4, <1>5
<1>7. ASSUME NEW p \in Slabs!Projections, NEW r \in Slabs!Projections, NEW q \in Slabs!Pieces, NEW s \in Slabs!Pieces,
             p < r
      PROVE  Slabs!Off(b, p, q) + Slabs!Bytes(b, p, q) <= Slabs!Off(b, r, s)
  BY <1>1, <1>2, <1>3, <1>5, <1>7
<1>8. ASSUME NEW p \in Slabs!Projections, NEW q \in Slabs!Pieces, NEW s \in Slabs!Pieces, q < s
      PROVE  Slabs!Off(b, p, q) + Slabs!Bytes(b, p, q) <= Slabs!Off(b, p, s)
  BY <1>2, <1>5, <1>8, BytesNat, PiecesFollow DEF Slabs!Off
<1>9. \A p, r \in Slabs!Projections, q, s \in Slabs!Pieces : <<p, q>> # <<r, s>> =>
        p < r \/ r < p \/ (p = r /\ q < s) \/ (p = r /\ s < q)
  BY DEF Slabs!Projections, Slabs!Pieces
<1> QED
  BY <1>4, <1>5, <1>6, <1>7, <1>8, <1>9

\* Slabs of equal length, one behind the other.
LEMMA ProductSteps ==
  ASSUME NEW a \in Nat, NEW b \in Nat, NEW n \in Nat, a < b
  PROVE  a * n \in Nat /\ b * n \in Nat /\ a * n + n <= b * n
<1>1. b - a - 1 \in Nat
  OBVIOUS
<1>2. (b - a - 1) * n >= 0
  BY <1>1
<1>3. (b - a - 1) * n = b * n - a * n - n
  OBVIOUS
<1>4. a * n \in Nat /\ b * n \in Nat
  OBVIOUS
<1> QED
  BY <1>2, <1>3, <1>4

\* Every tensor is in the part of the arena that is its layer's.
LEMMA TensorInLayer ==
  ASSUME SizesAssumed, ArenaInv, NEW l \in Slabs!Planned, NEW e \in Slabs!ExpertSet,
         NEW p \in Slabs!Projections, NEW q \in Slabs!Pieces, NEW t, t = Slabs!Tensor(l, e, p, q)
  PROVE  /\ t.from \in Nat /\ t.bytes \in Nat /\ byte_base[l] \in Nat
         /\ byte_base[l] <= t.from /\ t.from + t.bytes <= LayerEnd(l)
         /\ t.from = byte_base[l] + e * Slabs!Stride(widths[l]) + Slabs!Off(widths[l], p, q)
         /\ t.bytes = Slabs!Bytes(widths[l], p, q)
<1> DEFINE n == Slabs!Stride(widths[l])
<1>1. widths[l] \in Widths /\ byte_base[l] \in Nat
  BY DEF ArenaInv, Slabs!Planned
<1>2. /\ n \in Nat /\ Slabs!Off(widths[l], p, q) \in Nat /\ Slabs!Bytes(widths[l], p, q) \in Nat
      /\ Slabs!Off(widths[l], p, q) + Slabs!Bytes(widths[l], p, q) <= n
  BY <1>1, TensorsFollow
<1>3. e \in Nat /\ PerLayer \in Nat /\ e < PerLayer
  BY DEF SizesAssumed, Slabs!ExpertSet
<1>4. e * n \in Nat /\ PerLayer * n \in Nat /\ e * n + n <= PerLayer * n
  <2> HIDE DEF n
  <2> QED
    BY <1>2, <1>3, ProductSteps
<1>5. t.from = byte_base[l] + e * n + Slabs!Off(widths[l], p, q) /\ t.bytes = Slabs!Bytes(widths[l], p, q)
  BY DEF Slabs!Tensor, Slabs!Slab
<1>6. LayerEnd(l) = byte_base[l] + PerLayer * n
  BY DEF LayerEnd
<1> HIDE DEF n
<1> QED
  BY <1>1, <1>2, <1>4, <1>5, <1>6 DEF n

\* load_experts: tensors of two layers, of two experts of a layer, of one expert.
LEMMA TensorsApart ==
  ASSUME SizesAssumed, ArenaInv,
         NEW l \in Slabs!Planned, NEW e \in Slabs!ExpertSet, NEW p \in Slabs!Projections, NEW q \in Slabs!Pieces,
         NEW m \in Slabs!Planned, NEW f \in Slabs!ExpertSet, NEW r \in Slabs!Projections, NEW s \in Slabs!Pieces,
         NEW t, NEW u, t = Slabs!Tensor(l, e, p, q), u = Slabs!Tensor(m, f, r, s), t # u
  PROVE  t.from + t.bytes <= u.from \/ u.from + u.bytes <= t.from
<1>1. /\ t.from \in Nat /\ t.bytes \in Nat /\ byte_base[l] \in Nat
      /\ byte_base[l] <= t.from /\ t.from + t.bytes <= LayerEnd(l)
      /\ t.from = byte_base[l] + e * Slabs!Stride(widths[l]) + Slabs!Off(widths[l], p, q)
      /\ t.bytes = Slabs!Bytes(widths[l], p, q)
  BY TensorInLayer
<1>2. /\ u.from \in Nat /\ u.bytes \in Nat /\ byte_base[m] \in Nat
      /\ byte_base[m] <= u.from /\ u.from + u.bytes <= LayerEnd(m)
      /\ u.from = byte_base[m] + f * Slabs!Stride(widths[m]) + Slabs!Off(widths[m], r, s)
      /\ u.bytes = Slabs!Bytes(widths[m], r, s)
  BY TensorInLayer
<1>3. /\ widths[l] \in Widths /\ widths[m] \in Widths /\ l \in Int /\ m \in Int
      /\ l < m => LayerEnd(l) <= byte_base[m]
      /\ m < l => LayerEnd(m) <= byte_base[l]
  BY DEF ArenaInv, Slabs!Planned
<1>4. LayerEnd(l) \in Nat /\ LayerEnd(m) \in Nat
  <2>1. Slabs!Stride(widths[l]) \in Nat /\ Slabs!Stride(widths[m]) \in Nat
    BY <1>3, TensorsFollow
  <2>2. PerLayer * Slabs!Stride(widths[l]) \in Nat /\ PerLayer * Slabs!Stride(widths[m]) \in Nat
    BY <2>1 DEF SizesAssumed
  <2> QED
    BY <1>1, <1>2, <2>2 DEF LayerEnd
<1>5. CASE l # m
  BY <1>1, <1>2, <1>3, <1>4, <1>5
<1>6. CASE l = m
  <2> DEFINE b == widths[l]
             n == Slabs!Stride(b)
  <2>1. /\ n \in Nat
        /\ Slabs!Off(b, p, q) \in Nat /\ Slabs!Bytes(b, p, q) \in Nat /\ Slabs!Off(b, p, q) + Slabs!Bytes(b, p, q) <= n
        /\ Slabs!Off(b, r, s) \in Nat /\ Slabs!Bytes(b, r, s) \in Nat /\ Slabs!Off(b, r, s) + Slabs!Bytes(b, r, s) <= n
        /\ <<p, q>> # <<r, s>> => \/ Slabs!Off(b, p, q) + Slabs!Bytes(b, p, q) <= Slabs!Off(b, r, s)
                                  \/ Slabs!Off(b, r, s) + Slabs!Bytes(b, r, s) <= Slabs!Off(b, p, q)
    BY <1>3, TensorsFollow
  <2>2. /\ t.from = byte_base[l] + e * n + Slabs!Off(b, p, q) /\ t.bytes = Slabs!Bytes(b, p, q)
        /\ u.from = byte_base[l] + f * n + Slabs!Off(b, r, s) /\ u.bytes = Slabs!Bytes(b, r, s)
    BY <1>1, <1>2, <1>6
  <2>3. e \in Nat /\ f \in Nat
    BY DEF SizesAssumed, Slabs!ExpertSet
  <2> HIDE DEF b, n
  <2>4. e * n \in Nat /\ f * n \in Nat
    BY <2>1, <2>3
  <2>5. CASE e < f
    <3>1. e * n + n <= f * n
      BY <2>1, <2>3, <2>5, ProductSteps
    <3> QED
      BY <1>1, <2>1, <2>2, <2>4, <3>1
  <2>6. CASE f < e
    <3>1. f * n + n <= e * n
      BY <2>1, <2>3, <2>6, ProductSteps
    <3> QED
      BY <1>1, <2>1, <2>2, <2>4, <3>1
  <2>7. CASE e = f
    <3>1. <<p, q>> # <<r, s>>
      BY <1>6, <2>7
    <3> QED
      BY <1>1, <2>1, <2>2, <2>4, <2>7, <3>1
  <2> QED
    BY <2>3, <2>5, <2>6, <2>7
<1> QED
  BY <1>5, <1>6

LEMMA UnplannedSound ==
  ASSUME SizesAssumed, NEW c, Slabs!Unplanned(c)
  PROVE  ArenaInv
<1>1. planned = 1 /\ widths = <<>> /\ byte_base = <<>> /\ arena_bytes = 0 /\ arena = {}
  BY DEF Slabs!Unplanned
<1>2. Slabs!Planned = {}
  BY <1>1 DEF Slabs!Planned
<1> QED
  BY <1>1, <1>2 DEF ArenaInv, Slabs!SlabsApart

\* A layer is appended: the layers before it stay where they are.
LEMMA LayerAppended ==
  ASSUME ArenaInv, checkpoint' = checkpoint, planned' = planned + 1,
         NEW b \in Widths \union {Slabs!Dense}, NEW at \in Nat,
         widths' = Append(widths, b), byte_base' = Append(byte_base, at)
  PROVE  /\ planned' \in Nat \ {0}
         /\ widths' \in Seq(Widths \union {Slabs!Dense}) /\ Len(widths') = planned' - 1
         /\ byte_base' \in Seq(Nat) /\ Len(byte_base') = planned' - 1
         /\ widths'[planned] = b /\ byte_base'[planned] = at
         /\ \A l \in Slabs!Planned : /\ widths'[l] = widths[l] /\ byte_base'[l] = byte_base[l]
                               /\ LayerEnd(l)' = LayerEnd(l) /\ l < planned
         /\ Slabs!Planned' = Slabs!Planned \union (IF checkpoint[planned] = Slabs!Dense THEN {} ELSE {planned})
<1>0. /\ planned \in Nat \ {0} /\ arena_bytes \in Nat
      /\ widths \in Seq(Widths \union {Slabs!Dense}) /\ Len(widths) = planned - 1
      /\ byte_base \in Seq(Nat) /\ Len(byte_base) = planned - 1
  BY DEF ArenaInv
<1>1. \A l \in 1..(planned - 1) : widths'[l] = widths[l] /\ byte_base'[l] = byte_base[l]
  BY <1>0
<1>2. widths'[planned] = b /\ byte_base'[planned] = at
  BY <1>0
<1>3. \A l \in Slabs!Planned : l \in 1..(planned - 1)
  BY DEF Slabs!Planned
<1>4. 1..(planned' - 1) = 1..(planned - 1) \union {planned}
  BY <1>0
<1> QED
  BY <1>0, <1>1, <1>2, <1>3, <1>4 DEF Slabs!Planned, LayerEnd

\* A layer is planned.
LEMMA PlanKeeps ==
  ASSUME SizesAssumed, ArenaInv, Slabs!Plan
  PROVE  ArenaInv'
<1>0. /\ outcome = "planning" /\ arena = {} /\ arena' = {} /\ checkpoint' = checkpoint
      /\ planned \in Nat \ {0} /\ arena_bytes \in Nat
      /\ widths \in Seq(Widths \union {Slabs!Dense}) /\ Len(widths) = planned - 1
      /\ byte_base \in Seq(Nat) /\ Len(byte_base) = planned - 1
  BY DEF Slabs!Plan, ArenaInv
<1>1. Slabs!SlabsApart'
  BY <1>0 DEF Slabs!SlabsApart
<1>3. CASE checkpoint[planned] = Slabs!Dense /\ Slabs!PlanDense
  <2>1. /\ planned' = planned + 1 /\ widths' = Append(widths, Slabs!Dense) /\ byte_base' = Append(byte_base, 0)
        /\ UNCHANGED <<arena_bytes, outcome>>
    BY <1>3 DEF Slabs!PlanDense
  <2>2. /\ planned' \in Nat \ {0}
        /\ widths' \in Seq(Widths \union {Slabs!Dense}) /\ Len(widths') = planned' - 1
        /\ byte_base' \in Seq(Nat) /\ Len(byte_base') = planned' - 1
        /\ Slabs!Planned' = Slabs!Planned
        /\ \A l \in Slabs!Planned : /\ widths'[l] = widths[l] /\ byte_base'[l] = byte_base[l]
                              /\ LayerEnd(l)' = LayerEnd(l)
    <3>1. Slabs!Dense \in Widths \union {Slabs!Dense} /\ 0 \in Nat
      OBVIOUS
    <3> QED
      BY <1>0, <1>3, <2>1, <3>1, LayerAppended
  <2>3. \A l \in Slabs!Planned' : widths'[l] \in Widths /\ LayerEnd(l)' <= arena_bytes'
    BY <2>1, <2>2 DEF ArenaInv
  <2>4. \A l, m \in Slabs!Planned' : l < m => LayerEnd(l)' <= byte_base'[m]
    BY <2>2 DEF ArenaInv
  <2> QED
    BY <1>0, <1>1, <2>1, <2>2, <2>3, <2>4 DEF ArenaInv
<1>4. CASE /\ checkpoint[planned] # Slabs!Dense /\ Slabs!Accepted(checkpoint[planned])
           /\ Slabs!PlanExperts([p \in Slabs!Projections |-> checkpoint[planned][0][p]])
  <2> DEFINE b == [p \in Slabs!Projections |-> checkpoint[planned][0][p]]
             n == PerLayer * Slabs!Stride(b)
  <2>1. b \in Widths
    BY <1>4 DEF Slabs!Accepted, Widths, Slabs!ExpertSet, SizesAssumed
  <2>2. /\ planned' = planned + 1 /\ widths' = Append(widths, b) /\ byte_base' = Append(byte_base, arena_bytes)
        /\ arena_bytes' = arena_bytes + n /\ UNCHANGED outcome
    BY <1>4 DEF Slabs!PlanExperts
  <2>3. n \in Nat
    <3>1. Slabs!Stride(b) \in Nat
      BY <2>1, TensorsFollow
    <3> QED
      BY <3>1 DEF SizesAssumed
  <2>4. /\ Slabs!Planned' = Slabs!Planned \union {planned}
        /\ widths'[planned] = b /\ byte_base'[planned] = arena_bytes
        /\ \A l \in Slabs!Planned : /\ widths'[l] = widths[l] /\ byte_base'[l] = byte_base[l]
                              /\ LayerEnd(l)' = LayerEnd(l) /\ l < planned
    BY <1>0, <1>4, <2>1, <2>2, LayerAppended
  <2>5. ASSUME NEW l, l = planned
        PROVE  widths'[l] = b /\ byte_base'[l] = arena_bytes /\ LayerEnd(l)' = arena_bytes'
    BY <2>2, <2>4, <2>5 DEF LayerEnd
  <2>6. /\ planned' \in Nat \ {0} /\ arena_bytes' \in Nat /\ arena_bytes <= arena_bytes'
        /\ widths' \in Seq(Widths \union {Slabs!Dense}) /\ Len(widths') = planned' - 1
        /\ byte_base' \in Seq(Nat) /\ Len(byte_base') = planned' - 1
    BY <1>0, <2>1, <2>2, <2>3, LayerAppended
  <2>7. \A l \in Slabs!Planned : l \in Nat /\ LayerEnd(l) \in Int /\ LayerEnd(l) <= arena_bytes
    <3> SUFFICES ASSUME NEW l \in Slabs!Planned
                 PROVE  l \in Nat /\ LayerEnd(l) \in Int /\ LayerEnd(l) <= arena_bytes
      OBVIOUS
    <3>1. widths[l] \in Widths /\ byte_base[l] \in Nat /\ LayerEnd(l) <= arena_bytes /\ l \in Nat
      BY DEF ArenaInv, Slabs!Planned
    <3>2. Slabs!Stride(widths[l]) \in Nat /\ PerLayer \in Nat
      BY <3>1, TensorsFollow DEF SizesAssumed
    <3> QED
      BY <3>1, <3>2 DEF LayerEnd
  <2> HIDE DEF b, n
  <2>8. ASSUME NEW l \in Slabs!Planned'
        PROVE  widths'[l] \in Widths /\ LayerEnd(l)' <= arena_bytes'
    <3>1. CASE l \in Slabs!Planned
      <4>1. widths[l] \in Widths /\ widths'[l] = widths[l]
        BY <2>4, <3>1 DEF ArenaInv
      <4>2. LayerEnd(l)' = LayerEnd(l) /\ LayerEnd(l) \in Int /\ LayerEnd(l) <= arena_bytes
        BY <2>4, <2>7, <3>1
      <4> QED
        BY <1>0, <2>6, <4>1, <4>2
    <3>2. CASE l = planned
      BY <2>1, <2>5, <2>6, <3>2
    <3> QED
      BY <2>4, <3>1, <3>2
  <2>9. ASSUME NEW l \in Slabs!Planned', NEW m \in Slabs!Planned', l < m
        PROVE  LayerEnd(l)' <= byte_base'[m]
    <3>1. CASE l \in Slabs!Planned /\ m \in Slabs!Planned
      BY <2>4, <2>9, <3>1 DEF ArenaInv
    <3>2. CASE l \in Slabs!Planned /\ m = planned
      BY <2>4, <2>5, <2>7, <3>2
    <3>3. CASE l = planned
      BY <1>0, <2>4, <2>7, <2>9, <3>3
    <3> QED
      BY <2>4, <3>1, <3>2, <3>3
  <2> QED
    BY <1>0, <1>1, <2>2, <2>6, <2>8, <2>9 DEF ArenaInv
<1>5. CASE Slabs!RefuseLayout
  BY <1>0, <1>1, <1>5 DEF Slabs!RefuseLayout, ArenaInv, Slabs!Planned, LayerEnd
<1> QED
  BY <1>3, <1>4, <1>5 DEF Slabs!Plan

LEMMA LoadKeeps ==
  ASSUME SizesAssumed, ArenaInv, Slabs!LoadExperts
  PROVE  ArenaInv'
<1>1. /\ UNCHANGED <<checkpoint, planned, widths, byte_base, arena_bytes>> /\ outcome' = "loaded"
      /\ arena' = {Slabs!Tensor(l, e, p, q) : l \in Slabs!Planned, e \in Slabs!ExpertSet, p \in Slabs!Projections, q \in Slabs!Pieces}
  BY DEF Slabs!LoadExperts
<1>2. ASSUME NEW t \in arena'
      PROVE  0 <= t.from /\ t.from + t.bytes <= arena_bytes
  <2>1. PICK l \in Slabs!Planned, e \in Slabs!ExpertSet, p \in Slabs!Projections, q \in Slabs!Pieces : t = Slabs!Tensor(l, e, p, q)
    BY <1>1, <1>2
  <2>2. t.from \in Nat /\ t.bytes \in Nat /\ byte_base[l] \in Nat /\ t.from + t.bytes <= LayerEnd(l)
    BY <2>1, TensorInLayer
  <2>3. widths[l] \in Widths /\ LayerEnd(l) <= arena_bytes /\ arena_bytes \in Nat
    BY DEF ArenaInv
  <2>4. LayerEnd(l) \in Nat
    <3>1. Slabs!Stride(widths[l]) \in Nat /\ PerLayer \in Nat
      BY <2>3, TensorsFollow DEF SizesAssumed
    <3> QED
      BY <2>2, <3>1 DEF LayerEnd
  <2> QED
    BY <2>2, <2>3, <2>4
<1>3. ASSUME NEW t \in arena', NEW u \in arena', t # u
      PROVE  t.from + t.bytes <= u.from \/ u.from + u.bytes <= t.from
  <2>1. PICK l \in Slabs!Planned, e \in Slabs!ExpertSet, p \in Slabs!Projections, q \in Slabs!Pieces : t = Slabs!Tensor(l, e, p, q)
    BY <1>1, <1>3
  <2>2. PICK m \in Slabs!Planned, f \in Slabs!ExpertSet, r \in Slabs!Projections, s \in Slabs!Pieces : u = Slabs!Tensor(m, f, r, s)
    BY <1>1, <1>3
  <2> QED
    BY <1>3, <2>1, <2>2, TensorsApart
<1>4. Slabs!SlabsApart'
  BY <1>1, <1>2, <1>3 DEF Slabs!SlabsApart
<1>5. Slabs!Planned' = Slabs!Planned /\ \A l : LayerEnd(l)' = LayerEnd(l)
  BY <1>1 DEF Slabs!Planned, LayerEnd
<1> QED
  BY <1>1, <1>4, <1>5 DEF ArenaInv

LEMMA ArenaKeeps ==
  ASSUME SizesAssumed, ArenaInv, [Slabs!ArenaNext]_(Slabs!slabs)
  PROVE  ArenaInv'
<1>1. CASE Slabs!Plan
  BY <1>1, PlanKeeps
<1>2. CASE Slabs!LoadExperts
  BY <1>2, LoadKeeps
<1>3. CASE UNCHANGED <<checkpoint, planned, widths, byte_base, arena_bytes, arena>> /\ outcome # "planning"
           /\ outcome' # "planning"
  BY <1>3 DEF ArenaInv, Slabs!SlabsApart, Slabs!Planned, LayerEnd
<1>4. ASSUME NEW l \in Slabs!Planned, NEW e \in Slabs!ExpertSet, NEW s \in Places, Slabs!StartCopy(l, e, s)
      PROVE  ArenaInv'
  BY <1>3, <1>4 DEF Slabs!StartCopy
<1>5. CASE UNCHANGED Slabs!slabs
  BY <1>5 DEF Slabs!slabs, ArenaInv, Slabs!SlabsApart, Slabs!Planned, LayerEnd
<1> QED
  BY <1>1, <1>2, <1>4, <1>5 DEF Slabs!ArenaNext

\* No two tensors of the arena share a byte, and none is beyond its end, whatever
\* the widths of the layers, the sizes of a tensor and the number of experts.
THEOREM ArenaSound ==
  ASSUME PerLayer \in Nat \ {0}, Hidden \in Nat, Intermediate \in Nat
  PROVE  Slabs!ArenaSpec => []Slabs!SlabsApart
<1>1. SizesAssumed
  BY DEF SizesAssumed
<1>2. Slabs!ArenaInit => ArenaInv
  BY <1>1, UnplannedSound DEF Slabs!ArenaInit
<1>3. ArenaInv /\ [Slabs!ArenaNext]_(Slabs!slabs) => ArenaInv'
  BY <1>1, ArenaKeeps
<1>4. ArenaInv => Slabs!SlabsApart
  BY DEF ArenaInv
<1> QED
  BY <1>2, <1>3, <1>4, PTL DEF Slabs!ArenaSpec

-----------------------------------------------------------------------------
(* Proof: what a slot holds.                                                *)

SizesAligned ==
  /\ SizesAssumed
  /\ \A n \in {Hidden, Intermediate} : \E k \in Nat : n = 16 * k
  /\ \A s \in Places : s \in Nat

Aligned(n) == \E k \in Nat : n = 16 * k

\* Where the pointer tables look for a tensor of the expert in slot s.
Expected(s, p, q) ==
  LET l == holds[s][1]
  IN  [of |-> <<l, holds[s][2], p, q>>, from |-> s * slot_stride + Slabs!Off(widths[l], p, q),
       bytes |-> Slabs!Bytes(widths[l], p, q)]

\* No slab is wider than a slot, every planned tensor is in the arena once it is
\* loaded, and an expert that was copied into a slot is still whole there.
PlacesInv ==
  /\ slot_stride \in Nat /\ Aligned(slot_stride)
  /\ \A l \in Slabs!Planned : Slabs!Stride(widths[l]) <= slot_stride
  /\ outcome \in {"planning", "refused", "loaded"}
  /\ outcome = "loaded" =>
       \A l \in Slabs!Planned, e \in Slabs!ExpertSet, p \in Slabs!Projections, q \in Slabs!Pieces : Slabs!Tensor(l, e, p, q) \in arena
  /\ outcome # "loaded" => \A s \in Places : holds[s] = Slabs!Vacant
  /\ holds \in [Places -> (Slabs!Planned \X Slabs!ExpertSet) \union {Slabs!Vacant}]
  /\ \A s \in Places : holds[s] # Slabs!Vacant =>
       \A p \in Slabs!Projections, q \in Slabs!Pieces : Expected(s, p, q) \in vram

LEMMA AlignedSum ==
  ASSUME NEW m \in Nat, NEW n \in Nat, Aligned(m), Aligned(n)
  PROVE  m + n \in Nat /\ Aligned(m + n)
<1>1. PICK j \in Nat : m = 16 * j
  BY DEF Aligned
<1>2. PICK k \in Nat : n = 16 * k
  BY DEF Aligned
<1>3. j + k \in Nat /\ m + n = 16 * (j + k)
  BY <1>1, <1>2
<1> QED
  BY <1>3 DEF Aligned

LEMMA AlignedTimes ==
  ASSUME NEW s \in Nat, NEW n \in Nat, Aligned(n)
  PROVE  s * n \in Nat /\ Aligned(s * n)
<1>1. PICK k \in Nat : n = 16 * k
  BY DEF Aligned
<1>2. s * k \in Nat /\ s * (16 * k) = 16 * (s * k)
  OBVIOUS
<1> QED
  BY <1>1, <1>2 DEF Aligned

LEMMA AlignedMod ==
  ASSUME NEW n \in Nat, Aligned(n)
  PROVE  n % 16 = 0
BY DEF Aligned

LEMMA PaddedAligned ==
  ASSUME NEW n \in Nat
  PROVE  Slabs!Padded(n) \in Nat /\ Aligned(Slabs!Padded(n))
<1> DEFINE k == (n + 63) \div 64
<1>1. k \in Nat
  OBVIOUS
<1>2. 4 * k \in Nat /\ k * 64 = 16 * (4 * k)
  BY <1>1
<1>3. Slabs!Padded(n) = k * 64
  BY DEF Slabs!Padded
<1> QED
  BY <1>1, <1>2, <1>3 DEF Aligned

\* A trellis, and the scales before and behind it, begin where 16 bytes can be
\* copied at a time.
LEMMA OffsetsAligned ==
  ASSUME SizesAligned, NEW b \in Widths, NEW p \in Slabs!Projections
  PROVE  /\ Slabs!Stride(b) \in Nat /\ Aligned(Slabs!Stride(b))
         /\ \A q \in Slabs!Pieces \ {3} : Slabs!Off(b, p, q) \in Nat /\ Aligned(Slabs!Off(b, p, q))
<1>0. SizesAssumed /\ b[p] \in Nat
  BY DEF SizesAligned, Widths
<1>1. Aligned(0)
  BY DEF Aligned
<1>2. \A r \in Slabs!Projections : Slabs!Whole(b, r) \in Nat /\ Aligned(Slabs!Whole(b, r))
  <2> SUFFICES ASSUME NEW r \in Slabs!Projections
               PROVE  Slabs!Whole(b, r) \in Nat /\ Aligned(Slabs!Whole(b, r))
    OBVIOUS
  <2>1. Slabs!Inner(b, r, 3) + Slabs!Bytes(b, r, 3) \in Nat
    BY <1>0, BytesNat, PiecesFollow DEF Slabs!Pieces
  <2> QED
    BY <2>1, PaddedAligned DEF Slabs!Whole
<1>3. \A r \in Slabs!Projections : Slabs!Start(b, r) \in Nat /\ Aligned(Slabs!Start(b, r))
  <2>1. /\ Slabs!Whole(b, 0) \in Nat /\ Aligned(Slabs!Whole(b, 0))
        /\ Slabs!Whole(b, 1) \in Nat /\ Aligned(Slabs!Whole(b, 1))
    BY <1>2 DEF Slabs!Projections
  <2>2. Slabs!Whole(b, 0) + Slabs!Whole(b, 1) \in Nat /\ Aligned(Slabs!Whole(b, 0) + Slabs!Whole(b, 1))
    BY <2>1, AlignedSum
  <2>3. Slabs!Start(b, 0) = 0 /\ Slabs!Start(b, 1) = Slabs!Whole(b, 0) /\ Slabs!Start(b, 2) = Slabs!Whole(b, 0) + Slabs!Whole(b, 1)
    BY <2>1 DEF Slabs!Start
  <2>4. \A r \in Slabs!Projections : r = 0 \/ r = 1 \/ r = 2
    BY DEF Slabs!Projections
  <2> QED
    BY <1>1, <2>1, <2>2, <2>3, <2>4
<1>4. Slabs!Stride(b) \in Nat /\ Aligned(Slabs!Stride(b))
  <2>1. 2 \in Slabs!Projections
    BY DEF Slabs!Projections
  <2>2. /\ Slabs!Start(b, 2) \in Nat /\ Aligned(Slabs!Start(b, 2))
        /\ Slabs!Whole(b, 2) \in Nat /\ Aligned(Slabs!Whole(b, 2))
    BY <1>2, <1>3, <2>1
  <2> QED
    BY <2>2, AlignedSum DEF Slabs!Stride
<1>5. Slabs!Bytes(b, p, 0) \in Nat /\ Aligned(Slabs!Bytes(b, p, 0))
  <2>1. PICK i \in Nat, o \in Nat : Slabs!In(p) = 16 * i /\ Slabs!Out(p) = 16 * o
    BY DEF SizesAligned, Slabs!In, Slabs!Out
  <2> DEFINE k == i * o * b[p]
  <2>2. i * o \in Nat /\ (16 * i) * (16 * o) = 256 * (i * o)
    OBVIOUS
  <2>3. k \in Nat /\ (256 * (i * o)) * b[p] = 256 * k
    BY <1>0, <2>2
  <2>4. Slabs!Bytes(b, p, 0) = (256 * k) \div 8
    BY <2>1, <2>2, <2>3 DEF Slabs!Bytes
  <2>5. (256 * k) \div 8 = 32 * k /\ 32 * k = 16 * (2 * k) /\ 2 * k \in Nat /\ 32 * k \in Nat
    <3> HIDE DEF k
    <3> QED
      BY <2>3
  <2> HIDE DEF k
  <2> QED
    BY <2>4, <2>5 DEF Aligned
<1>6. Slabs!Bytes(b, p, 1) \in Nat /\ Aligned(Slabs!Bytes(b, p, 1))
  <2>1. PICK i \in Nat : Slabs!In(p) = 16 * i
    BY DEF SizesAligned, Slabs!In
  <2>2. Slabs!Bytes(b, p, 1) = 16 * (2 * i) /\ 2 * i \in Nat
    BY <2>1 DEF Slabs!Bytes
  <2>3. \E k \in Nat : Slabs!Bytes(b, p, 1) = 16 * k
    BY <2>2
  <2>4. Slabs!Bytes(b, p, 1) \in Nat
    BY <2>2
  <2> QED
    BY <2>3, <2>4 DEF Aligned
<1>7. \A q \in Slabs!Pieces \ {3} : Slabs!Inner(b, p, q) \in Nat /\ Aligned(Slabs!Inner(b, p, q))
  <2>1. /\ Slabs!Bytes(b, p, 0) + Slabs!Bytes(b, p, 1) \in Nat
        /\ Aligned(Slabs!Bytes(b, p, 0) + Slabs!Bytes(b, p, 1))
    BY <1>5, <1>6, AlignedSum
  <2>2. /\ Slabs!Inner(b, p, 0) = 0 /\ Slabs!Inner(b, p, 1) = Slabs!Bytes(b, p, 0)
        /\ Slabs!Inner(b, p, 2) = Slabs!Bytes(b, p, 0) + Slabs!Bytes(b, p, 1)
    BY <1>5, <1>6 DEF Slabs!Inner
  <2>3. \A q \in Slabs!Pieces \ {3} : q = 0 \/ q = 1 \/ q = 2
    BY DEF Slabs!Pieces
  <2> QED
    BY <1>1, <1>5, <2>1, <2>2, <2>3
<1>8. \A q \in Slabs!Pieces \ {3} : Slabs!Off(b, p, q) \in Nat /\ Aligned(Slabs!Off(b, p, q))
  <2> SUFFICES ASSUME NEW q \in Slabs!Pieces \ {3}
               PROVE  Slabs!Off(b, p, q) \in Nat /\ Aligned(Slabs!Off(b, p, q))
    OBVIOUS
  <2>1. /\ Slabs!Start(b, p) \in Nat /\ Aligned(Slabs!Start(b, p))
        /\ Slabs!Inner(b, p, q) \in Nat /\ Aligned(Slabs!Inner(b, p, q))
    BY <1>3, <1>7
  <2> QED
    BY <2>1, AlignedSum DEF Slabs!Off
<1> QED
  BY <1>4, <1>8

LEMMA UnplannedPlaces ==
  ASSUME NEW c, Slabs!Unplanned(c)
  PROVE  PlacesInv
<1>1. Slabs!Planned = {}
  BY DEF Slabs!Unplanned, Slabs!Planned
<1>2. slot_stride = 0 /\ Aligned(slot_stride)
  BY DEF Slabs!Unplanned, Aligned
<1> QED
  BY <1>1, <1>2 DEF Slabs!Unplanned, PlacesInv

\* The widest slab so far decides how far apart the slots are.
LEMMA PlanPlaces ==
  ASSUME SizesAligned, ArenaInv, PlacesInv, Slabs!Plan
  PROVE  PlacesInv'
<1>0. /\ outcome = "planning" /\ checkpoint' = checkpoint /\ holds' = holds /\ vram' = vram
      /\ arena' = arena /\ slot_stride \in Nat /\ Aligned(slot_stride)
      /\ \A s \in Places : holds[s] = Slabs!Vacant
      /\ \A l \in Slabs!Planned : Slabs!Stride(widths[l]) <= slot_stride
      /\ holds \in [Places -> (Slabs!Planned \X Slabs!ExpertSet) \union {Slabs!Vacant}]
  BY DEF Slabs!Plan, PlacesInv
<1>1. outcome' \in {"planning", "refused"}
  BY <1>0 DEF Slabs!Plan, Slabs!PlanDense, Slabs!PlanExperts, Slabs!RefuseLayout
<1>2. holds' \in [Places -> (Slabs!Planned' \X Slabs!ExpertSet) \union {Slabs!Vacant}]
  BY <1>0
<1>3. SUFFICES /\ slot_stride' \in Nat /\ Aligned(slot_stride')
               /\ \A l \in Slabs!Planned' : Slabs!Stride(widths'[l]) <= slot_stride'
  BY <1>0, <1>1, <1>2 DEF PlacesInv, Aligned
<1>4. CASE checkpoint[planned] = Slabs!Dense /\ Slabs!PlanDense
  <2>1. /\ planned' = planned + 1 /\ widths' = Append(widths, Slabs!Dense) /\ byte_base' = Append(byte_base, 0)
        /\ slot_stride' = slot_stride
    BY <1>4 DEF Slabs!PlanDense
  <2>2. Slabs!Dense \in Widths \union {Slabs!Dense} /\ 0 \in Nat
    OBVIOUS
  <2>3. Slabs!Planned' = Slabs!Planned /\ \A l \in Slabs!Planned : widths'[l] = widths[l]
    BY <1>0, <1>4, <2>1, <2>2, LayerAppended
  <2> QED
    BY <1>0, <2>1, <2>3
<1>5. CASE /\ checkpoint[planned] # Slabs!Dense /\ Slabs!Accepted(checkpoint[planned])
           /\ Slabs!PlanExperts([p \in Slabs!Projections |-> checkpoint[planned][0][p]])
  <2> DEFINE b == [p \in Slabs!Projections |-> checkpoint[planned][0][p]]
  <2>1. b \in Widths
    BY <1>5 DEF Slabs!Accepted, Widths, Slabs!ExpertSet, SizesAligned, SizesAssumed
  <2>2. /\ planned' = planned + 1 /\ widths' = Append(widths, b) /\ byte_base' = Append(byte_base, arena_bytes)
        /\ slot_stride' = Slabs!Widest(Slabs!Stride(b))
    BY <1>5 DEF Slabs!PlanExperts
  <2>3. arena_bytes \in Nat /\ planned \in Nat
    BY DEF ArenaInv
  <2>4. /\ Slabs!Planned' = Slabs!Planned \union {planned} /\ widths'[planned] = b
        /\ \A l \in Slabs!Planned : widths'[l] = widths[l] /\ l \in Int /\ widths[l] \in Widths
    <3>1. \A l \in Slabs!Planned : l \in Int /\ widths[l] \in Widths
      BY DEF ArenaInv, Slabs!Planned
    <3> QED
      BY <1>0, <1>5, <2>1, <2>2, <2>3, <3>1, LayerAppended
  <2> HIDE DEF b
  <2>5. Slabs!Stride(b) \in Nat /\ Aligned(Slabs!Stride(b))
    <3>1. 0 \in Slabs!Projections
      BY DEF Slabs!Projections
    <3> QED
      BY <2>1, <3>1, OffsetsAligned
  <2>6. /\ slot_stride' \in Nat /\ Aligned(slot_stride')
        /\ slot_stride <= slot_stride' /\ Slabs!Stride(b) <= slot_stride'
    <3>1. CASE slot_stride < Slabs!Stride(b)
      BY <1>0, <2>2, <2>5, <3>1 DEF Slabs!Widest
    <3>2. CASE ~(slot_stride < Slabs!Stride(b))
      BY <1>0, <2>2, <2>5, <3>2 DEF Slabs!Widest
    <3> QED
      BY <3>1, <3>2
  <2>7. ASSUME NEW l \in Slabs!Planned'
        PROVE  Slabs!Stride(widths'[l]) <= slot_stride'
    <3>1. CASE l \in Slabs!Planned
      <4>1. Slabs!Stride(widths[l]) \in Nat
        BY <2>4, <3>1, TensorsFollow DEF SizesAligned
      <4> QED
        BY <1>0, <2>4, <2>6, <3>1, <4>1
    <3>2. CASE l = planned
      BY <2>4, <2>6, <3>2
    <3> QED
      BY <2>4, <3>1, <3>2
  <2> QED
    BY <2>6, <2>7
<1>6. CASE Slabs!RefuseLayout
  BY <1>0, <1>6 DEF Slabs!RefuseLayout, Slabs!Planned
<1> QED
  BY <1>4, <1>5, <1>6 DEF Slabs!Plan

LEMMA LoadPlaces ==
  ASSUME PlacesInv, Slabs!LoadExperts
  PROVE  PlacesInv'
<1>1. /\ outcome = "planning" /\ outcome' = "loaded"
      /\ arena' = {Slabs!Tensor(l, e, p, q) : l \in Slabs!Planned, e \in Slabs!ExpertSet, p \in Slabs!Projections, q \in Slabs!Pieces}
      /\ UNCHANGED <<checkpoint, planned, widths, byte_base, slot_stride, vram, holds>>
  BY DEF Slabs!LoadExperts
<1>2. Slabs!Planned' = Slabs!Planned
  BY <1>1 DEF Slabs!Planned
<1>3. \A l \in Slabs!Planned, e \in Slabs!ExpertSet, p \in Slabs!Projections, q \in Slabs!Pieces :
        Slabs!Tensor(l, e, p, q)' \in arena'
  BY <1>1 DEF Slabs!Tensor, Slabs!Slab
<1> QED
  BY <1>1, <1>2, <1>3 DEF PlacesInv, Aligned

\* A copy brings all tensors of its expert, and touches no other slot.
LEMMA CopyPlaces ==
  ASSUME SizesAligned, ArenaInv, PlacesInv,
         NEW l \in Slabs!Planned, NEW e \in Slabs!ExpertSet, NEW s \in Places, Slabs!StartCopy(l, e, s)
  PROVE  PlacesInv'
<1> DEFINE n     == Slabs!Stride(widths[l])
           to    == s * slot_stride
           moved == {[of |-> t.of, from |-> to + t.from - Slabs!Slab(l, e), bytes |-> t.bytes] :
                       t \in {u \in arena : Slabs!Slab(l, e) <= u.from
                                            /\ u.from + u.bytes <= Slabs!Slab(l, e) + n}}
           kept  == {t \in vram : t.from + t.bytes <= to \/ to + n <= t.from}
<1>1. SizesAssumed /\ widths[l] \in Widths /\ byte_base[l] \in Nat /\ s \in Nat /\ slot_stride \in Nat
  BY DEF SizesAligned, ArenaInv, Slabs!Planned, PlacesInv
<1>2. n \in Nat /\ n <= slot_stride /\ to \in Nat
  BY <1>1, TensorsFollow DEF PlacesInv
<1>3. /\ outcome = "loaded" /\ outcome' = "loaded"
      /\ vram' = moved \union kept /\ holds' = [holds EXCEPT ![s] = <<l, e>>]
      /\ UNCHANGED <<checkpoint, planned, widths, byte_base, slot_stride, arena>>
  <2>1. ~(n > slot_stride)
    BY <1>1, <1>2
  <2> QED
    BY <2>1 DEF Slabs!StartCopy
<1>4. Slabs!Planned' = Slabs!Planned /\ \A m, f, p, q : Slabs!Tensor(m, f, p, q)' = Slabs!Tensor(m, f, p, q)
  BY <1>3 DEF Slabs!Planned, Slabs!Tensor, Slabs!Slab
<1>5. /\ holds' \in [Places -> (Slabs!Planned \X Slabs!ExpertSet) \union {Slabs!Vacant}] /\ holds'[s] = <<l, e>>
      /\ \A r \in Places \ {s} : holds'[r] = holds[r]
  BY <1>3 DEF PlacesInv
<1>6. ASSUME NEW p \in Slabs!Projections, NEW q \in Slabs!Pieces
      PROVE  Expected(s, p, q)' \in vram'
  <2> DEFINE t == Slabs!Tensor(l, e, p, q)
             o == Slabs!Off(widths[l], p, q)
             m == Slabs!Bytes(widths[l], p, q)
  <2>1. t \in arena
    BY <1>3 DEF PlacesInv
  <2>2. t.of = <<l, e, p, q>> /\ t.from = Slabs!Slab(l, e) + o /\ t.bytes = m
    BY DEF Slabs!Tensor
  <2>3. o \in Nat /\ m \in Nat /\ o + m <= n
    BY <1>1, TensorsFollow
  <2>4. Slabs!Slab(l, e) \in Nat
    <3>1. e \in Nat
      BY <1>1 DEF Slabs!ExpertSet, SizesAssumed
    <3>2. e * n \in Nat
      BY <1>2, <3>1
    <3> QED
      BY <1>1, <3>2 DEF Slabs!Slab
  <2>5. Expected(s, p, q)' = [of |-> <<l, e, p, q>>, from |-> to + o, bytes |-> m]
    BY <1>3, <1>5 DEF Expected
  <2> HIDE DEF t, o, m
  <2>6. Slabs!Slab(l, e) <= t.from /\ t.from + t.bytes <= Slabs!Slab(l, e) + n /\ to + t.from - Slabs!Slab(l, e) = to + o
    BY <1>2, <2>2, <2>3, <2>4
  <2>7. Expected(s, p, q)' \in moved
    BY <2>1, <2>2, <2>5, <2>6
  <2> QED
    BY <1>3, <2>7
<1>7. ASSUME NEW r \in Places \ {s}, holds[r] # Slabs!Vacant, NEW p \in Slabs!Projections, NEW q \in Slabs!Pieces
      PROVE  Expected(r, p, q)' \in vram'
  <2> DEFINE t == Expected(r, p, q)
             k == holds[r][1]
             o == Slabs!Off(widths[k], p, q)
             m == Slabs!Bytes(widths[k], p, q)
  <2>1. t \in vram /\ k \in Slabs!Planned
    BY <1>7 DEF PlacesInv
  <2>2. Expected(r, p, q)' = t
    BY <1>3, <1>5 DEF Expected
  <2>3. widths[k] \in Widths /\ Slabs!Stride(widths[k]) <= slot_stride
    BY <2>1 DEF ArenaInv, PlacesInv
  <2>4. Slabs!Stride(widths[k]) \in Nat /\ o \in Nat /\ m \in Nat /\ o + m <= Slabs!Stride(widths[k])
    BY <1>1, <2>3, TensorsFollow
  <2>5. t.from = r * slot_stride + o /\ t.bytes = m /\ r \in Nat
    BY DEF Expected, SizesAligned
  <2>6. o + m <= slot_stride
    BY <1>1, <2>3, <2>4
  <2> HIDE DEF t, k, o, m
  <2>7. CASE r < s
    <3>1. r * slot_stride \in Nat /\ r * slot_stride + slot_stride <= to
      BY <1>1, <2>5, <2>7, ProductSteps
    <3> QED
      <4>1. t.from + t.bytes <= to
        BY <1>1, <1>2, <2>4, <2>5, <2>6, <3>1
      <4> QED
        BY <1>3, <2>1, <2>2, <4>1
  <2>8. CASE s < r
    <3>1. r * slot_stride \in Nat /\ to + slot_stride <= r * slot_stride
      BY <1>1, <2>5, <2>8, ProductSteps
    <3>2. to + n <= t.from
      BY <1>1, <1>2, <2>4, <2>5, <3>1
    <3> QED
      BY <1>3, <2>1, <2>2, <3>2
  <2> QED
    BY <1>1, <2>5, <2>7, <2>8
<1>8. \A r \in Places : holds'[r] # Slabs!Vacant =>
        \A p \in Slabs!Projections, q \in Slabs!Pieces : Expected(r, p, q)' \in vram'
  BY <1>5, <1>6, <1>7
<1> QED
  BY <1>3, <1>4, <1>5, <1>8 DEF PlacesInv, Aligned

LEMMA PlacesKeep ==
  ASSUME SizesAligned, ArenaInv, PlacesInv, [Slabs!ArenaNext]_(Slabs!slabs)
  PROVE  PlacesInv'
<1>1. CASE UNCHANGED Slabs!slabs
  <2>1. Slabs!Planned' = Slabs!Planned
    BY <1>1 DEF Slabs!slabs, Slabs!Planned
  <2>2. \A l, e, s, p, q : Slabs!Tensor(l, e, p, q)' = Slabs!Tensor(l, e, p, q)
                           /\ Expected(s, p, q)' = Expected(s, p, q)
    BY <1>1 DEF Slabs!slabs, Slabs!Tensor, Slabs!Slab, Expected
  <2> QED
    BY <1>1, <2>1, <2>2 DEF Slabs!slabs, PlacesInv, Aligned
<1> QED
  BY <1>1, PlanPlaces, LoadPlaces, CopyPlaces DEF Slabs!ArenaNext

\* The pointer tables find the expert where they look for it.
LEMMA PlacesHold ==
  ASSUME SizesAligned, ArenaInv, PlacesInv
  PROVE  Slabs!SlotsHoldExperts
<1>1. ASSUME NEW s \in Places, holds[s] # Slabs!Vacant, NEW p \in Slabs!Projections, NEW q \in Slabs!Pieces \ {3}
      PROVE  /\ Expected(s, p, q) \in vram
             /\ (s * slot_stride + Slabs!Off(widths[holds[s][1]], p, q)) % 16 = 0
  <2> DEFINE o == Slabs!Off(widths[holds[s][1]], p, q)
  <2>1. Expected(s, p, q) \in vram /\ holds[s][1] \in Slabs!Planned
    BY <1>1 DEF PlacesInv
  <2>2. widths[holds[s][1]] \in Widths
    BY <2>1 DEF ArenaInv
  <2>3. o \in Nat /\ Aligned(o)
    BY <2>2, OffsetsAligned
  <2> HIDE DEF o
  <2>4. s * slot_stride \in Nat /\ Aligned(s * slot_stride)
    BY AlignedTimes DEF PlacesInv, SizesAligned
  <2>5. s * slot_stride + o \in Nat /\ Aligned(s * slot_stride + o)
    BY <2>3, <2>4, AlignedSum
  <2> QED
    BY <2>1, <2>5, AlignedMod DEF o
<1>2. outcome # "aborted"
  BY DEF PlacesInv
<1> QED
  BY <1>1, <1>2 DEF Slabs!SlotsHoldExperts, Expected

\* No slab exceeds a slot, whatever widths the layers have, and after any sequence
\* of copies every occupied slot holds its expert whole, at the offsets of that
\* expert's layer, where 16 bytes can be copied at a time.
THEOREM SlotsSound ==
  ASSUME PerLayer \in Nat \ {0}, Hidden \in Nat, Intermediate \in Nat,
         Hidden % 16 = 0, Intermediate % 16 = 0, \A s \in Places : s \in Nat
  PROVE  Slabs!ArenaSpec => []Slabs!SlotsHoldExperts
<1>1. SizesAligned
  BY DEF SizesAligned, SizesAssumed
<1>2. SizesAssumed
  BY DEF SizesAssumed
<1>3. Slabs!ArenaInit => ArenaInv /\ PlacesInv
  BY <1>2, UnplannedSound, UnplannedPlaces DEF Slabs!ArenaInit
<1>4. ArenaInv /\ PlacesInv /\ [Slabs!ArenaNext]_(Slabs!slabs) => ArenaInv' /\ PlacesInv'
  BY <1>1, <1>2, ArenaKeeps, PlacesKeep
<1>5. ArenaInv /\ PlacesInv => Slabs!SlotsHoldExperts
  BY <1>1, PlacesHold
<1> QED
  BY <1>3, <1>4, <1>5, PTL DEF Slabs!ArenaSpec

-----------------------------------------------------------------------------
(* Theorems of the layout: ExpertArena's, of every behaviour of the whole.    *)

LEMMA ArenaParts ==
  /\ PoolInit => ArenaInv /\ PlacesInv
  /\ [PoolNext]_pool /\ ArenaInv /\ PlacesInv => (ArenaInv /\ PlacesInv)'
<1>1. SizesAligned /\ SizesAssumed
  BY ArenaAssumption DEF SizesAligned, SizesAssumed
<1>2. ASSUME PoolInit
      PROVE  \E c \in Checkpoints \union {<<>>} : Slabs!Unplanned(c)
  BY <1>2 DEF PoolInit, Slabs!ArenaInit
<1>3. ASSUME PoolInit
      PROVE  ArenaInv /\ PlacesInv
  BY <1>1, <1>2, <1>3, UnplannedSound, UnplannedPlaces
<1>4. ASSUME [PoolNext]_pool, ArenaInv, PlacesInv
      PROVE  (ArenaInv /\ PlacesInv)'
  <2>1. [Slabs!ArenaNext]_(Slabs!slabs)
    BY <1>4 DEF PoolNext, pool, ArenaMoves, ArenaRests, LoaderMoves, LoaderRests, Slot, Saver,
                layout, Slabs!slabs
  <2> QED
    BY <1>1, <1>4, <2>1, ArenaKeeps, PlacesKeep
<1> QED
  BY <1>3, <1>4

\* The slabs of the experts have no byte in common and are within the arena, and a
\* slot holds the expert that was copied into it last, whole and where the pointer
\* tables look for it.
THEOREM ExpertsStayWhole == PoolSpec => [](Slabs!SlabsApart /\ Slabs!SlotsHoldExperts)
<1>1. ArenaInv /\ PlacesInv => Slabs!SlabsApart /\ Slabs!SlotsHoldExperts
  <2>1. SizesAligned
    BY ArenaAssumption DEF SizesAligned, SizesAssumed
  <2> QED
    BY <2>1, PlacesHold DEF ArenaInv
<1> QED
  BY <1>1, ArenaParts, PTL DEF PoolSpec

-----------------------------------------------------------------------------
(* Theorems of the loader, and of the property of both.                      *)

LoaderRuns == [Loading!LoaderNext]_(Loading!loader)

LEMMA LoaderParts ==
  /\ PoolInit => Loading!LoaderInv
  /\ [PoolNext]_pool => LoaderRuns
  /\ LoaderRuns /\ Loading!LoaderInv => Loading!LoaderInv'
<1>1. Loading!LoaderAssumed
  BY LoaderAssumption DEF Loading!LoaderAssumed
<1>2. ASSUME PoolInit
      PROVE  Loading!LoaderInv
  <2>1. \E list \in JobLists \union {<<>>} : Loading!Started(list)
    BY <1>2 DEF PoolInit, Loading!LoaderInit
  <2>2. JobLists \union {<<>>} \subseteq Seq(Loading!Tensors)
    <3>1. <<>> \in Seq(Loading!Tensors)
      BY EmptySeq
    <3> QED
      BY <3>1, LoaderAssumption, Zenon
  <2> QED
    BY <1>1, <2>1, <2>2, Loading!StartedSound
<1>3. [PoolNext]_pool => LoaderRuns
  BY DEF PoolNext, pool, ArenaMoves, ArenaRests, LoaderMoves, LoaderRests, Slot, Saver, loading,
         LoaderRuns, Loading!loader
<1>4. LoaderRuns /\ Loading!LoaderInv => Loading!LoaderInv'
  BY <1>1, Loading!LoaderKeeps DEF LoaderRuns
<1> QED
  BY <1>2, <1>3, <1>4

\* Whatever the checkpoint, the workers and the order of the copies: when load() returns,
\* every chunk is where it belongs that no bias can be written over, the tensors of the
\* experts lie apart in the arena, and whole in the slots they are copied to.
THEOREM WhatIsCleanArrives == PoolSpec => []TensorsArrive
<1>1. Loading!LoaderInv => Loading!Delivers
  BY DEF Loading!LoaderInv
<1>2. PoolSpec => []Loading!Delivers
  BY <1>1, LoaderParts, PTL DEF PoolSpec
<1>3. Loading!Delivers /\ Slabs!SlabsApart /\ Slabs!SlotsHoldExperts => TensorsArrive
  BY DEF TensorsArrive
<1> QED
  BY <1>2, <1>3, ExpertsStayWhole, PTL
=============================================================================
