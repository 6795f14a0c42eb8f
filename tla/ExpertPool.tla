------------------------------ MODULE ExpertPool ------------------------------
(***************************************************************************)
(* The weights of the model: where those of the experts lie (ExpertArena),    *)
(* how all are read (Loader), the pool of slots the experts move through      *)
(* while the process runs (SlotMgr), and the file of counters that outlives   *)
(* it (Census), where slots do not matter.                                 *)
(* The arena is planned before a tensor is read, and a copy moves its bytes   *)
(* alike whichever the slot; the pool begins when load() has returned, with   *)
(* every slab as it is in the file; a save reads counters and touches no      *)
(* slot.  So the four are explored side by side, one in each behaviour and    *)
(* the others at one of their beginnings.                                  *)
(***************************************************************************)
EXTENDS SlotMgr

CONSTANTS
  JobLists, NWorkers,                   \* those of Loader
  NEntries, MaxCount,                   \* those of Census
  Checkpoints, PerLayer, Hidden, Intermediate, Places     \* those of ExpertArena

ASSUME CensusAssumption == NEntries \in Nat \ {0} /\ MaxCount \in Nat \ {0}

\* A trellis is stored in tiles of 16 by 16 weights.
ASSUME ArenaAssumption ==
  /\ PerLayer \in Nat \ {0}
  /\ \A s \in Places : s \in Nat
  /\ \A n \in {Hidden, Intermediate} : n \in Nat \ {0} /\ n % 16 = 0

VARIABLES
  part,                                 \* the part that moves
  jobs, counter, task, done, buffers, streams, dst, result,     \* those of Loader
  process, counters, tmp, file, saved,  \* those of Census
  checkpoint, planned, widths, byte_base, arena_bytes, slot_stride,
  arena, vram, holds, outcome           \* those of ExpertArena

Loading == INSTANCE Loader WITH next <- counter
Counted == INSTANCE Census WITH pc <- process, freq <- counters
Slabs   == INSTANCE ExpertArena WITH
             layer <- planned, bits <- widths, base <- byte_base, slots <- vram

ASSUME LoaderAssumption == NWorkers \in Nat \ {0} /\ JobLists \subseteq Seq(Loading!Tensors)

loading == <<jobs, counter, task, done, buffers, streams, dst, result>>
census  == <<process, counters, tmp, file, saved>>
layout  == <<checkpoint, planned, widths, byte_base, arena_bytes, slot_stride,
             arena, vram, holds, outcome>>
pool    == <<part, vars, loading, census, layout>>

PoolInit ==
  /\ part \in {"arena", "loader", "slots", "census"}
  /\ IF part = "arena" THEN Slabs!ArenaInit ELSE Slabs!Unplanned(<<>>)
  /\ IF part = "loader" THEN Loading!LoaderInit ELSE Loading!Started(<<>>)
  /\ Init         /\ (part # "slots" => freq = [k \in Keys |-> 0])
  /\ Counted!Init /\ (part # "census" => file = Counted!Absent)

ArenaMoves(A)  == part = "arena" /\ A /\ UNCHANGED <<part, vars, loading, census>>
LoaderMoves(A) == part = "loader" /\ A /\ UNCHANGED <<part, vars, census, layout>>
Slot(A)        == part = "slots" /\ A /\ UNCHANGED <<part, loading, census, layout>>
Saver(A)       == part = "census" /\ A /\ UNCHANGED <<part, loading, vars, layout>>

\* A loader whose load() has returned, or has refused a layout, is not used again.
LoaderRests == result # "none" /\ LoaderMoves(UNCHANGED loading)
ArenaRests  == outcome = "refused" /\ ArenaMoves(UNCHANGED layout)

PoolNext ==
  \/ ArenaMoves(Slabs!ArenaNext) \/ ArenaRests
  \/ LoaderMoves(Loading!LoaderNext) \/ LoaderRests
  \/ Slot(Next)
  \/ Saver(Counted!Next)

\* Fairness is that of SlotMgr: nothing makes a process count, save or restart.
PoolSpec == PoolInit /\ [][PoolNext]_pool /\ WF_pool(Slot(Host)) /\ WF_pool(Slot(CopyDone))

\* What the parts beside SlotMgr say of their behaviours: whatever no bias can spoil
\* arrives, the tensors of the experts lie apart, and whole in any slot.
TensorsArrive == Loading!Delivers /\ Slabs!SlabsApart /\ Slabs!SlotsHoldExperts

\* README.md:407 "loaders report zero mismatches", biases or not.
EveryTensorArrives == Loading!EveryTensorArrives

\* A restart finds the counters of the last save that was completed.
SurvivesRestarts == Counted!SurvivesRestarts
=============================================================================
