------------------------------ MODULE MCKernels ------------------------------
(* Products of up to four by two tiles on up to three blocks, and one on four; *)
(* rows of five to eight experts in two warps of four, whose candidates fit    *)
(* one warp; launches of the experts for two tokens with three experts between *)
(* them and for one with two, on four multiprocessors; sequences of five rows, *)
(* in calls of up to four, through a recurrent layer of four warps; attention  *)
(* of two warps to lists of up to five of three rows and holes; rows of up to  *)
(* 384 columns of streams in up to four blocks; slices of up to six tiles, of  *)
(* columns of up to three, through rings of three and four stages; three calls *)
(* through a dense layer and two of experts, with two slots between them; and  *)
(* calls of up to 40 rows in contexts that end inside a pool and with one.     *)
(*                                                                         *)
(* Two more specifications take one kernel at another size: the mixing of the  *)
(* engine's streams with sixteen times fewer columns and threads, so that a row *)
(* is cut into as many blocks as in the engine; and the routing of a row of    *)
(* three warps whose candidates, like those of the engine's nine, are of more  *)
(* warps than one and have to be dealt out again.                             *)
EXTENDS Kernels

MCShapes ==
  [k: 1..4, n: 1..2, blocks: 1..3, passes: {2}, barrier: BOOLEAN]
    \union {[k |-> 5, n |-> 2, blocks |-> 4, passes |-> 1, barrier |-> FALSE]}

MCKeyRows == UNION {[0..(n - 1) -> 0..1] : n \in 5..8}

MCPlans == LET three == <<3, 1, 4, 3>>  two == <<2, 4>> IN {<<three, two>>, <<two, three>>}

\* Rows are alike: their scores may as well rise.
MCScores == {s \in [0..2 -> 0..2] : s[0] <= s[1] /\ s[1] <= s[2]}
MCLists  == UNION {[1..n -> -1..2] : n \in 1..5}

MCDims ==
  {[width |-> 16 * w, threadsA |-> 2, threads |-> 4, warp |-> 2,
    blocksA |-> 4, workA |-> 8, blocksC |-> 2, workC |-> 8] : w \in 1..6}

\* The kernels of the experts have three stages and two groups of threads.
MCSlices ==
  {s \in [k: 1..3, beg: 0..2, len: {1, 2, 4, 6}, lanes: {2}, subs: 1..2, stages: 3..4, frags: {3},
          rotates: BOOLEAN] :
     s.beg < s.k /\ (s.rotates <=> s.stages = 4) /\ (~s.rotates => s.subs = 2)}

MCLayers == <<"dense", "moe", "moe">>

\* More slices than a ring twice over; rows of more segments than warps; groups
\* that two blocks share.
MCProducts ==
  {[slices |-> 23, groups |-> 2, rows |-> 1, cols |-> 2, warps |-> 2, ring |-> 4, fold |-> 2,
    resident |-> 1, in_segment |-> 8, out_segment |-> 2],
   [slices |-> 5, groups |-> 2, rows |-> 2, cols |-> 3, warps |-> 3, ring |-> 4, fold |-> 4,
    resident |-> 1, in_segment |-> 2, out_segment |-> 3],
   [slices |-> 5, groups |-> 4, rows |-> 2, cols |-> 1, warps |-> 2, ring |-> 2, fold |-> 2,
    resident |-> 2, in_segment |-> 2, out_segment |-> 2]}

MCOnes == {<<0, 0>>, <<5, 18>>, <<17, 6>>, <<31, 31>>}

MCNorms ==
  {n \in [columns: 1..9, mode: {"none", "post", "in", "gate_first", "gate_last"}, in_place: BOOLEAN] :
     n.mode \in {"gate_first", "gate_last"} => ~n.in_place}

-----------------------------------------------------------------------------

MCEngineDims ==
  {[width |-> 256, threadsA |-> 4, threads |-> 16, warp |-> 2,
    blocksA |-> 128, workA |-> 512, blocksC |-> 32, workC |-> 256]}

MixingSpec == kernel = "mixing" /\ KernelsInit /\ [][KernelsNext]_kernels

\* The best four are those of any one warp.
MCTwelveKeys == {[e \in 0..11 |-> (e + 4 * turn) % 12] : turn \in 0..2}

RouterSpec == kernel = "routing" /\ KernelsInit /\ [][KernelsNext]_kernels
=============================================================================
