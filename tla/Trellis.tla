------------------------------- MODULE Trellis -------------------------------
(***************************************************************************)
(* How a quantized weight is stored and found (pack.cu, exl3_dq.cuh,          *)
(* reconstruct.cu and the registers of exl3_gemv_kernel.cuh).  256 weights of *)
(* a tile are packed, a few bits each, into a ring of words; the state that a *)
(* weight is decoded from is 16 bits of the ring, its own bits and those of   *)
(* the weights before it.  A thread takes the states of eight weights; it     *)
(* reads two words at a time, and which two, and how far they are shifted,    *)
(* is worked out anew for every number of bits.                              *)
(*                                                                         *)
(* A bit of a word is the set of the bits <<weight, bit>> that were or-ed to *)
(* it, bit 0 the lowest.                                                   *)
(***************************************************************************)
EXTENDS SequencesExt, Integers

CONSTANTS
  Widths,       \* bits of a weight
  Tiles         \* tiles side by side in memory

VARIABLES
  bits,         \* of a weight
  path,         \* the kernel that reads: one of Paths(bits)
  words,        \* what pack_trellis wrote
  states        \* <<tile, lane>> -> its eight states, or NotRead

trellis == <<bits, path, words, states>>

Weights == 256
LaneCount   == 32
NotRead == <<>>
Zeros   == [b \in 0..31 |-> {}]

-----------------------------------------------------------------------------
(* pack_trellis_kernel: 16 weights of K bits are a whole number of halves.   *)

PackWeight(K, span, i) ==
  LET k   == span.k - K
      buf == [b \in 0..31 |-> span.buf[b] \union (IF b \in k..(k + K - 1) THEN {<<i, b - k>>} ELSE {})]
  IN  IF k > 16
      THEN [span EXCEPT !.k = k, !.buf = buf]
      ELSE [k    |-> k + 16,
            buf  |-> [b \in 0..31 |-> IF b < 16 THEN {} ELSE buf[b - 16]],
            out  |-> Append(span.out, [b \in 0..15 |-> buf[b + 16]])]

Span(K, t) ==
  FoldLeft(LAMBDA span, n : PackWeight(K, span, 16 * t + n - 1),
           [k |-> 32, buf |-> Zeros, out |-> <<>>], [n \in 1..16 |-> n])

\* SWAP16: of two halves the first is the high one.
Packed(K) ==
  LET halves == FlattenSeq([t \in 1..(16 * Tiles) |-> Span(K, t - 1).out])
  IN  [w \in 0..(8 * K * Tiles - 1) |->
         [b \in 0..31 |-> IF b < 16 THEN halves[2 * w + 2][b] ELSE halves[2 * w + 1][b - 16]]]

-----------------------------------------------------------------------------
(* Taking states from two words; W(i) is word i of the tile.                 *)

\* fshift, __funnelshift_r, BFE: 64 bits, b the lower, shifted right.
Shift(b, a, s) ==
  [i \in 0..31 |-> IF i + s < 32 THEN b[i + s] ELSE IF i + s < 64 THEN a[i + s - 32] ELSE {}]

Low16(w) == [i \in 0..15 |-> w[i]]

\* dq4, dq2x2, dq8 and unpack_trellis_kernel: n states from weight t on, those of
\* align weights from one shifted word.
Run(tile, K, t, n, align) ==
  LET first == (t + 257) * K - 16
      end   == first + (n - 1) * K + 16
      i2    == (end - 1) \div 32
      s2    == (i2 + 1) * 32 - end
      a     == tile[(first \div 32) % (8 * K)]
      b     == tile[i2 % (8 * K)]
      State(j) == Shift(Shift(b, a, s2 + K * (j - (j % align))), Zeros, K * (j % align))
  IN  [j \in 1..n |-> Low16(State(n - j))]

\* dq8_aligned_1bit, dq8_aligned_2bits, dq8_regs_2bits: the word the weights end
\* in is shifted to them.
FromOneWord(tile, K, t) ==
  LET per == 32 \div K
      i1  == t \div per
      b   == Shift(tile[i1], tile[(i1 + 8 * K - 1) % (8 * K)], (per - 8 - (t % per)) * K)
  IN  [j \in 1..8 |-> Low16(Shift(b, Zeros, K * (8 - j)))]

\* dq8_aligned_4bits, dq8_regs_4bits.
FromWholeWord(tile, t) ==
  LET i1 == t \div 8
      b  == tile[i1]
      s  == Shift(b, tile[(i1 + 31) % 32], 20)
  IN  [j \in 1..8 |-> Low16(IF j <= 3 THEN Shift(s, Zeros, 4 * (3 - j)) ELSE Shift(b, Zeros, 4 * (8 - j)))]

\* Mutant: seven bits as five and six are, four states from two words.
DispatchByFours(tile, K, t) ==
  CASE K \in {1, 2} -> FromOneWord(tile, K, t)
    [] K = 3 -> Run(tile, K, t, 8, 4)
    [] K = 4 -> FromWholeWord(tile, t)
    [] K \in 5..8 -> Run(tile, K, t, 4, 1) \o Run(tile, K, t + 4, 4, 1)

\* dq_dispatch.
Dispatch(tile, K, t) ==
  CASE K \in {1, 2} -> FromOneWord(tile, K, t)
    [] K = 3 -> Run(tile, K, t, 8, 4)
    [] K = 4 -> FromWholeWord(tile, t)
    [] K \in {5, 6, 8} -> Run(tile, K, t, 4, 1) \o Run(tile, K, t + 4, 4, 1)
    [] K = 7 -> FlattenSeq([i \in 1..4 |-> Run(tile, K, t + 2 * (i - 1), 2, 1)])

\* unpack_trellis_kernel: a thread for two weights.
Unpack(tile, K, t) == FlattenSeq([i \in 1..4 |-> Run(tile, K, t + 2 * (i - 1), 2, 2)])

\* exl3_gemv_kernel: a warp loads the words of all tiles, as many at a time as its
\* lanes can hold (two tiles of two bits; of three bits 24 lanes load), and lanes
\* take them from each other.
Loads(K)    == IF K = 2 THEN 2 ELSE 1
Registers(K) ==
  LET stride == IF K = 3 THEN 24 ELSE 32
  IN  [load \in 0..(Tiles \div Loads(K) - 1) |->
         [lane \in 0..(stride - 1) |-> words[load * stride + lane]]]

FromLanes(K, tile) ==
  LET base == 16 * (tile % Loads(K))
  IN  [i \in 0..(8 * K - 1) |-> Registers(K)[tile \div Loads(K)][base + i]]

InMemory(K, tile) == [i \in 0..(8 * K - 1) |-> words[8 * K * tile + i]]

Paths(K) == {"dispatch", "unpack"} \union (IF K \in 2..4 THEN {"registers"} ELSE {})

-----------------------------------------------------------------------------

TrellisInit ==
  /\ bits \in Widths /\ path \in Paths(bits)
  /\ words = NotRead /\ states = NotRead

Pack ==
  /\ words = NotRead
  /\ words' = Packed(bits)
  /\ UNCHANGED <<bits, path, states>>

Decode ==
  /\ words # NotRead /\ states = NotRead
  /\ states' = [at \in (0..(Tiles - 1)) \X (0..(LaneCount - 1)) |->
       LET t == 8 * at[2]
       IN  CASE path = "dispatch"  -> Dispatch(InMemory(bits, at[1]), bits, t)
             [] path = "registers" -> Dispatch(FromLanes(bits, at[1]), bits, t)
             [] path = "unpack"    -> Unpack(InMemory(bits, at[1]), bits, t)]
  /\ UNCHANGED <<bits, path, words>>

TrellisNext == Pack \/ Decode

TrellisSpec == TrellisInit /\ [][TrellisNext]_trellis

-----------------------------------------------------------------------------
(* Where a weight goes.                                                     *)

\* The B operand of mma.m16n8k16, for the two products of a tile: row and column
\* of what weight j of a lane is multiplied with.
MmaPlace(lane, j) == <<2 * (lane % 4) + (j % 2) + 8 * ((j \div 2) % 2), lane \div 4 + 8 * (j \div 4)>>

\* reconstruct_kernel: half of the lanes write pairs of columns, their own and
\* those of the lane four further down.
Writes ==
  {[place |-> <<2 * (lane % 4) + (j % 2) + 8 * ((j \div 2) % 2), 2 * (lane \div 8 + 4 * (j \div 4)) + d>>,
    lane |-> lane + 4 * d, j |-> j] :
     lane \in {x \in 0..(LaneCount - 1) : (x \div 4) % 2 = 0}, j \in 0..7, d \in 0..1}

-----------------------------------------------------------------------------
(* Properties.                                                             *)

\* What weight i of a tile was packed to be decoded from.
StateOf(K, tile, i) ==
  [b \in 0..15 |-> {<<Weights * tile + ((i - (b \div K)) % Weights), b % K>>}]

\* test_reconstruct.cpp:312 "layout equivalence untested": every kernel finds for
\* every weight, of every number of bits, the state it was packed to, around the
\* end of the ring too; and a reconstructed tile has each weight at the row and
\* column that the product multiplies it with.
EachWeightItsState ==
  states # NotRead =>
    /\ \A at \in DOMAIN states : \A j \in 0..7 :
         states[at][j + 1] = StateOf(bits, at[1], 8 * at[2] + j)
    /\ \A w \in Writes : w.place = MmaPlace(w.lane, w.j)
    /\ {<<w.lane, w.j>> : w \in Writes} = (0..(LaneCount - 1)) \X (0..7)
=============================================================================
