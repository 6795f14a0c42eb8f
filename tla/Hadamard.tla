------------------------------- MODULE Hadamard ------------------------------
(***************************************************************************)
(* The rotations (hadamard_inner.cuh, reconstruct_had_kernel of               *)
(* reconstruct.cu).  A warp rotates a vector of four numbers a lane: each     *)
(* lane its four, then lanes with their partners, further off from stage to   *)
(* stage.  reconstruct_had rotates a square of dequantized weights from both  *)
(* sides: it lies in shared memory, quads of a row in an order of that row's  *)
(* own, and the warps take first columns of it, then rows.                   *)
(*                                                                         *)
(* Rotations are linear, so an input is one at one place and zero elsewhere;  *)
(* they are not scaled by 1/sqrt(n), and the vectors they are scaled by before *)
(* and after hold a different number at every place.                         *)
(***************************************************************************)
EXTENDS SequencesExt, Integers

CONSTANTS
  HadLanes,     \* of a warp: a power of two
  Ones          \* places <<row, column>> of the one in a square

VARIABLES
  form,         \* "vector" or "square"
  one,          \* its place
  phase,        \* warp -> where it is
  stile,        \* word of shared memory, once written -> two columns of a row
  rotated       \* row, once stored -> column -> number; a vector is row 0

had == <<form, one, phase, stile, rotated>>

Side == 4 * HadLanes            \* numbers of a vector
Lane == 0..(HadLanes - 1)
Cols == 0..(Side - 1)
Words == 2 * HadLanes           \* words of a row

Suh(i) == i + 1
Svh(i) == 2 * i + 1

-----------------------------------------------------------------------------

\* The bit of weight i, and bitwise exclusive or.
HasBit(l, i) == (l \div i) % 2 = 1
Xor(l, m) ==
  CHOOSE n \in Lane : \A k \in {1, 2, 4, 8, 16} : HasBit(n, k) <=> (HasBit(l, k) # HasBit(m, k))

Butterfly(v) ==
  LET s0 == v[0] + v[1]  d0 == v[0] - v[1]
      s1 == v[2] + v[3]  d1 == v[2] - v[3]
  IN  <<s0 + s1, d0 + d1, s0 - s1, d0 - d1>>

\* Mutant: the lanes without the bit change their sign.
SignOfOthers(l, i) == IF ~HasBit(l, i) THEN -1 ELSE 1

\* sfm: the lanes with the bit of the stage change the sign of their own.
SignOf(l, i) == IF HasBit(l, i) THEN -1 ELSE 1

Strides == [k \in 1..(CHOOSE n \in 0..5 : 2 ^ n = HadLanes) |-> 2 ^ (k - 1)]

\* shuffle_had_*: every lane with the partner at the stage's distance.
Shuffle(h) ==
  FoldLeft(LAMBDA f, i : [l \in Lane |-> SignOf(l, i) * f[l] + f[Xor(l, i)]], h, Strides)

Rotate(v) ==
  LET quad == [l \in Lane |-> Butterfly([e \in 0..3 |-> v[4 * l + e]])]
      had4 == [e \in 1..4 |-> Shuffle([l \in Lane |-> quad[l][e]])]
  IN  [i \in Cols |-> had4[(i % 4) + 1][i \div 4]]

-----------------------------------------------------------------------------

Warps == 0..(Side \div 16 - 1)

HadInit ==
  /\ \/ form = "vector" /\ one \in {<<0, c>> : c \in Cols}
     \/ form = "square" /\ one \in Ones
  /\ phase = [w \in Warps |-> "load"]
  /\ stile = <<>>
  /\ rotated = <<>>

\* The number at a place of the input.
In(R, C) == IF <<R, C>> = one THEN 1 ELSE 0

\* had_hf_r_128_inner, had_ff and had_fh: scaled before and after.
RotateVector ==
  /\ form = "vector" /\ phase[0] = "load"
  /\ LET v == Rotate([i \in Cols |-> In(0, i) * Suh(i)])
     IN  rotated' = [R \in {0} |-> [i \in Cols |-> v[i] * Svh(i)]]
  /\ phase' = [w \in Warps |-> "ended"]
  /\ UNCHANGED <<form, one, stile>>

\* tix: the word of pair p of quad q of row R.
Tix(R, q, p) == R * Words + Xor(q, (R \div 4) % HadLanes) * 2 + p

\* What a warp dequantizes, 16 columns of every 16 rows, in the layout of Trellis:
\* half of the lanes write pairs of columns.
Dequantized(w) ==
  {LET R == 16 * j + 2 * (lane % 4) + (m % 2) + 8 * ((m \div 2) % 2)
       c == 8 * w + lane \div 8 + 4 * (m \div 4)
   IN  [at |-> Tix(R, c \div 2, (lane \div 8) % 2), pair |-> <<In(R, 2 * c), In(R, 2 * c + 1)>>] :
     j \in Warps, lane \in {l \in 0..31 : ~HasBit(l, 4)}, m \in 0..7}

Dequantize(w) ==
  /\ form = "square" /\ phase[w] = "load"
  /\ \E written \in {Dequantized(w)} :
       stile' = [a \in DOMAIN stile \union {d.at : d \in written} |->
         IF \E d \in written : d.at = a THEN (CHOOSE d \in written : d.at = a).pair ELSE stile[a]]
  /\ phase' = [phase EXCEPT ![w] = "loaded"]
  /\ UNCHANGED <<form, one, rotated>>

\* A warp rotates the columns of some quads: a lane has four rows of one order.
RotateColumns(w) ==
  LET mine == {q \in Lane : q \div (HadLanes \div Cardinality(Warps)) = w}
      At(R, q, p) == R * Words + Xor(q, R \div 4) * 2 + p
      new == [q \in mine |-> [p \in 0..1 |-> [d \in 1..2 |->
                Rotate([R \in Cols |-> stile[At(R, q, p)][d]])]]]
  IN /\ phase[w] = "columns"
     /\ stile' = [a \in DOMAIN stile |->
          LET R == a \div Words
              q == Xor((a % Words) \div 2, R \div 4)
          IN  IF q \in mine THEN <<new[q][a % 2][1][R], new[q][a % 2][2][R]>> ELSE stile[a]]
     /\ phase' = [phase EXCEPT ![w] = "rotated"]
     /\ UNCHANGED <<form, one, rotated>>

\* Then some rows, which it stores, scaled.
RotateRows(w) ==
  LET mine == {R \in Cols : R \div (Side \div Cardinality(Warps)) = w}
      Row(R) == Rotate([C \in Cols |->
                  stile[Tix(R, C \div 4, (C \div 2) % 2)][(C % 2) + 1]])
  IN /\ phase[w] = "rows"
     /\ rotated' = [R \in DOMAIN rotated \union mine |->
          IF R \in mine THEN LET row == Row(R) IN [C \in Cols |-> row[C] * Suh(R) * Svh(C)]
          ELSE rotated[R]]
     /\ phase' = [phase EXCEPT ![w] = "ended"]
     /\ UNCHANGED <<form, one, stile>>

\* Mutant: no barrier between columns and rows.
GoOnRotated(w, at) == at = "rotated" \/ \A v \in Warps : phase[v] = at

\* __syncthreads.
GoOn(w, at) == \A v \in Warps : phase[v] = at

SyncThreads ==
  \E at \in {"loaded", "rotated"} :
    LET go == {w \in Warps : phase[w] = at /\ GoOn(w, at)}
    IN /\ go # {}
       /\ phase' = [w \in Warps |-> IF w \notin go THEN phase[w]
                                    ELSE IF at = "loaded" THEN "columns" ELSE "rows"]
       /\ UNCHANGED <<form, one, stile, rotated>>

HadNext ==
  \/ RotateVector
  \/ SyncThreads
  \/ \E w \in Warps : Dequantize(w) \/ RotateColumns(w) \/ RotateRows(w)

HadSpec == HadInit /\ [][HadNext]_had

-----------------------------------------------------------------------------
(* Properties.                                                             *)

\* The matrix of Sylvester: the sign of the bits that i and j share.
Sylvester(i, j) ==
  LET shared == {b \in 0..6 : (i \div 2 ^ b) % 2 = 1 /\ (j \div 2 ^ b) % 2 = 1}
  IN  IF Cardinality(shared) % 2 = 0 THEN 1 ELSE -1

\* exl3 weights are rotated by a symmetric matrix, and rotating twice has to undo it
\* (reconstruct.cu:150 "column-then-row order is H W H"): a warp multiplies its vector
\* by that matrix, and the blocks of a square by it from both sides, wherever the
\* quads of a row lie and whichever warp is ahead.
RotatesBySylvester ==
  (\A w \in Warps : phase[w] = "ended") =>
    \A R \in (IF form = "vector" THEN {0} ELSE Cols), C \in Cols :
      rotated[R][C] =
        Sylvester(R, one[1]) * Sylvester(C, one[2]) * Svh(C) *
          (IF form = "vector" THEN Suh(one[2]) ELSE Suh(R))
=============================================================================
