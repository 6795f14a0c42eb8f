------------------------------ MODULE MCExperts ------------------------------
(* An instance of ExpertPool: two layers of three experts and two slots;     *)
(* lists of tensors: a large one of three chunks and one of a single chunk,   *)
(* among small ones for both devices and a slab of the arena; the same with   *)
(* router biases, which follow a large one on its device and on the other;    *)
(* and a checkpoint that lacks one.  Experts of three layouts,                *)
(* the widest before, between and behind the others and a dense layer among   *)
(* them, one whose experts differ and one that is stored in 7 bits.          *)
EXTENDS ExpertPool

J(kind, device, chunks) == [kind |-> kind, device |-> device, chunks |-> chunks]

MCJobLists ==
  {<<J("large", 0, 3), J("small", 0, 1), J("small", 1, 1), J("host", -1, 1), J("large", 0, 1)>>,
   <<J("large", 0, 4), J("bias", 1, 1), J("host", -1, 1), J("bias", 0, 1)>>,
   <<J("large", 1, 3), J("bias", 1, 1), J("small", 1, 1), J("large", 0, 1)>>,
   <<J("small", 0, 1), J("missing", 0, 1)>>}

Width(b)   == [p \in 0..2 |-> b]
Alike(b)   == [e \in 0..1 |-> b]
Uneven     == [p \in 0..2 |-> IF p = 2 THEN 4 ELSE 2]
DenseLayer == <<>>

MCCheckpoints ==
  {<<DenseLayer, Alike(Width(3)), Alike(Uneven)>>,
   <<Alike(Uneven), DenseLayer, Alike(Width(5)), Alike(Width(2))>>,
   <<Alike(Width(5)), Alike(Width(2)), Alike(Width(3))>>,
   <<Alike(Width(2)), [e \in 0..1 |-> Width(2 + e)]>>,
   <<Alike(Width(7))>>,
   <<Alike([Uneven EXCEPT ![1] = 0])>>}
=============================================================================
