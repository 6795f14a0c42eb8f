------------------------------ MODULE DeltaRule ------------------------------
(***************************************************************************)
(* The recurrent layers (Runner::kda_layer): a causal convolution over the   *)
(* last K inputs (conv1d_update_kernel), and the gated delta rule, which     *)
(* consumes the rows of a call one by one                                    *)
(* (cuda_recurrent_gated_delta_rule_kernel_128).  Parts x Parts warps share  *)
(* a head: warp <<part, w>> sees the channels w of a row, and for w = 1 the   *)
(* channels part of the state.                                             *)
(*                                                                         *)
(* The input of a row is its number; what the convolution makes of it is the *)
(* window it saw; a state is the sequence of the windows it consumed, and a  *)
(* sum the sequence of its terms.  A row mixed of two is NoRow.             *)
(***************************************************************************)
EXTENDS Integers, Sequences

CONSTANTS
  K,            \* inputs the convolution sees: 4
  Parts,        \* SUBK, and HEAD_DIM / 32: 4
  MaxRows,      \* bound: rows of a sequence
  MaxCall       \* rows of a call

VARIABLES
  rows,         \* rows that earlier calls consumed
  window,       \* conv_state: the last K inputs
  conv,         \* mixed_qkv: row of the call -> its window
  progress,     \* warp -> phases of the kernel it has done
  red,          \* sh_red: warp -> the row whose sums of squares it holds
  keys,         \* sh_k, sh_q, sh_g: channels -> row
  partial,      \* sh_partial: part -> its term of a sum
  dot1, dot2,   \* sh_dot1, sh_dot2
  recurrent,    \* recurrent_state: part -> state
  out           \* core_attn_out: row of the call -> its sum

delta == <<rows, window, conv, progress, red, keys, partial, dot1, dot2, recurrent, out>>
inputs == <<rows, window, conv>>

NoRow   == <<>>
Zero    == 0                \* an input before the first
PartSet == 1..Parts
Warps   == PartSet \X PartSet
Phases  == 6

Quiet == [w \in Warps |-> 0]

DeltaInit ==
  /\ rows = 0 /\ window = [k \in 1..K |-> Zero] /\ conv = <<>>
  /\ progress = Quiet
  /\ red = [w \in PartSet |-> NoRow] /\ keys = [w \in PartSet |-> NoRow]
  /\ partial = [p \in PartSet |-> <<NoRow, NoRow>>] /\ dot1 = <<>> /\ dot2 = <<>>
  /\ recurrent = [p \in PartSet |-> <<>>] /\ out = <<>>

Running == conv # <<>>

-----------------------------------------------------------------------------
(* The convolution.                                                        *)

\* Mutant: the state keeps a window that ends one input too early.
KeepsOneLess(joined, n) == [k \in 1..K |-> joined[n + k - 1]]

\* src_t = seqlen + k, of the old state and the call's inputs.
KeptInputs(joined, n) == [k \in 1..K |-> joined[n + k]]

\* A channel is one thread's, so a call is one step.
Convolve(n) ==
  LET joined == window \o [s \in 1..n |-> rows + s]
  IN /\ ~Running /\ rows + n <= MaxRows
     /\ conv' = [s \in 1..n |-> SubSeq(joined, s + 1, s + K)]
     /\ window' = KeptInputs(joined, n)
     /\ out' = [s \in 1..n |-> <<>>]
     /\ UNCHANGED <<rows, progress, red, keys, partial, dot1, dot2, recurrent>>

-----------------------------------------------------------------------------
(* The kernel: six phases per row, with __syncthreads() after all but the    *)
(* last.                                                                   *)

Index(w) == (progress[w] \div Phases) + 1
Row(w)   == conv[Index(w)]

\* Mutant: nobody waits before the phase that reads the sum.
SyncsButOne(w) == progress[w] % Phases \in {0, 4} \/ \A v \in Warps : progress[v] >= progress[w]

\* The warp has passed the barrier in front of its phase.
Syncs(w) == progress[w] % Phases = 0 \/ \A v \in Warps : progress[v] >= progress[w]

InPhase(w, phase) ==
  /\ Running /\ Index(w) <= Len(conv) /\ progress[w] % Phases = phase /\ Syncs(w)
  /\ progress' = [progress EXCEPT ![w] = @ + 1]

\* t < V_CHUNK_DIM: the warps that hold a part of the state, and bt == 0.
Holds(w) == w[2] = 1
Leads(w) == w = <<1, 1>>

Norms(w) ==
  /\ InPhase(w, 0)
  /\ red' = [red EXCEPT ![w[2]] = Row(w)]
  /\ UNCHANGED <<inputs, keys, partial, dot1, dot2, recurrent, out>>

Normalize(w) ==
  /\ InPhase(w, 1)
  /\ keys' = [keys EXCEPT ![w[2]] = IF \A v \in PartSet : red[v] = Row(w) THEN Row(w) ELSE NoRow]
  /\ dot1' = (IF Leads(w) THEN <<>> ELSE dot1) /\ dot2' = (IF Leads(w) THEN <<>> ELSE dot2)
  /\ UNCHANGED <<inputs, red, partial, recurrent, out>>

\* What a part of the state remembers under the key.
Recall(w) ==
  /\ InPhase(w, 2)
  /\ partial' = IF Holds(w) THEN [partial EXCEPT ![w[1]] = <<recurrent[w[1]], keys[w[1]]>>] ELSE partial
  /\ UNCHANGED <<inputs, red, keys, dot1, dot2, recurrent, out>>

SumMemory(w) ==
  /\ InPhase(w, 3)
  /\ dot1' = IF Leads(w) THEN dot1 \o partial ELSE dot1
  /\ UNCHANGED <<inputs, red, keys, partial, dot2, recurrent, out>>

\* The row less what was remembered of it: right if every part remembered the
\* same past, under this row's key.
Correction(w) ==
  IF dot1 = [p \in PartSet |-> <<recurrent[w[1]], Row(w)>>] /\ keys[w[1]] = Row(w) THEN Row(w) ELSE NoRow

Update(w) ==
  /\ InPhase(w, 4)
  /\ IF Holds(w)
     THEN LET new == Append(recurrent[w[1]], Correction(w))
          IN /\ recurrent' = [recurrent EXCEPT ![w[1]] = new]
             /\ partial' = [partial EXCEPT ![w[1]] = <<new, keys[w[1]]>>]
     ELSE UNCHANGED <<recurrent, partial>>
  /\ UNCHANGED <<inputs, red, keys, dot1, dot2, out>>

SumOutput(w) ==
  /\ InPhase(w, 5)
  /\ IF Leads(w)
     THEN dot2' = dot2 \o partial /\ out' = [out EXCEPT ![Index(w)] = dot2']
     ELSE UNCHANGED <<dot2, out>>
  /\ UNCHANGED <<inputs, red, keys, partial, dot1, recurrent>>

\* The stream goes on when every warp has seen all rows.
EndCall ==
  /\ Running /\ \A w \in Warps : progress[w] = Phases * Len(conv)
  /\ rows' = rows + Len(conv) /\ conv' = <<>> /\ out' = <<>> /\ progress' = Quiet
  /\ UNCHANGED <<window, red, keys, partial, dot1, dot2, recurrent>>

\* Runner::reset clears both states.
Reset ==
  /\ ~Running
  /\ rows' = 0 /\ window' = [k \in 1..K |-> Zero] /\ recurrent' = [p \in PartSet |-> <<>>]
  /\ UNCHANGED <<conv, progress, red, keys, partial, dot1, dot2, out>>

DeltaNext ==
  \/ \E n \in 1..MaxCall : Convolve(n)
  \/ \E w \in Warps :
       Norms(w) \/ Normalize(w) \/ Recall(w) \/ SumMemory(w) \/ Update(w) \/ SumOutput(w)
  \/ EndCall \/ Reset

DeltaSpec == DeltaInit /\ [][DeltaNext]_delta

-----------------------------------------------------------------------------
(* Properties.                                                             *)

InputsOf(r) == [k \in 1..K |-> IF r - K + k > 0 THEN r - K + k ELSE Zero]
Past(r)     == [i \in 1..r |-> InputsOf(i)]

\* Whatever calls cut a sequence and however warps are scheduled: between calls
\* every part of the state has consumed each row once, in order, as the window
\* of its last K inputs; and the output of a row is the sum, in the order of
\* the parts, of the state that ends with this row.
ConsumesEachRow ==
  /\ ~Running => \A p \in PartSet : recurrent[p] = Past(rows)
  /\ \A s \in DOMAIN out :
       out[s] \in {<<>>, [p \in PartSet |-> <<Past(rows + s), InputsOf(rows + s)>>]}
=============================================================================
