---------------------------- MODULE ExpertWeights ---------------------------
(***************************************************************************)
(* What the expert slot pool promises a MoE layer: the kernel reads, for   *)
(* every expert that has tokens, that expert's own weights of that layer.  *)
(* Zeros stand in for an expert only when one layer's step touches more    *)
(* experts than the pool has slots.                                        *)
(***************************************************************************)
EXTENDS Integers, FiniteSets

CONSTANTS
  NLayers,    \* MoE layers
  NExperts,   \* experts per layer
  NSlots,     \* slots of the VRAM pool
  Zero        \* the all-zero slab

Layers  == 1..NLayers
Experts == 1..NExperts

VARIABLES
  step,       \* [layer, active]: the step being run, or NoStep
  read        \* expert -> weights the running kernel reads

NoStep == [layer |-> 0, active |-> {}]

Init == step = NoStep /\ read = <<>>

Begin(l, A) ==
  /\ step = NoStep
  /\ step' = [layer |-> l, active |-> A]
  /\ UNCHANGED read

Launch ==
  /\ step # NoStep /\ read = <<>>
  /\ read' \in [step.active -> {<<step.layer, e>> : e \in step.active} \union {Zero}]
  /\ \A e \in step.active :
       \/ read'[e] = <<step.layer, e>>
       \/ read'[e] = Zero /\ Cardinality(step.active) > NSlots
  /\ UNCHANGED step

End ==
  /\ read # <<>>
  /\ step' = NoStep /\ read' = <<>>

Next ==
  \/ \E l \in Layers, A \in (SUBSET Experts) \ {{}} : Begin(l, A)
  \/ Launch
  \/ End

Spec == Init /\ [][Next]_<<step, read>>
=============================================================================
