---------------------------- MODULE ContextProofs ----------------------------
(***************************************************************************)
(* Proofs about ContextState for every value of its constants: about the    *)
(* runner (PrefixCache), the copies on two streams (SnapStreams), and the   *)
(* pooled keys of the sparse attention (SparseIndex).                       *)
(***************************************************************************)
EXTENDS ContextState, SequenceTheorems, TLAPS

-----------------------------------------------------------------------------
(* Rows of token sequences.                                                *)

\* A covered row is a row of the type invariant.
LEMMA RowType ==
  ASSUME NEW t \in Token, NEW I \in SUBSET AllImages, NEW p
  PROVE  RowAt(t, I, p) \in Row
BY DEF RowAt, Covering, Row

\* The rows of a token sequence, as a sequence.
LEMMA RowsOfProperties ==
  ASSUME NEW h \in Seq(Token), NEW I \in SUBSET AllImages
  PROVE  /\ RowsOf(h, I) \in Seq(Row)
         /\ Len(RowsOf(h, I)) = Len(h)
         /\ \A i \in 1..Len(h) : RowsOf(h, I)[i] = RowAt(h[i], I, i - 1)
<1>1. Len(h) \in Nat
  BY LenProperties
<1>2. \A i \in 1..Len(h) : RowAt(h[i], I, i - 1) \in Row
  BY RowType, ElementOfSeq
<1>3. QED
  BY <1>1, <1>2 DEF RowsOf, RowsFrom

\* Dropping a suffix of the tokens drops the same suffix of the rows.
LEMMA RowsOfPrefix ==
  ASSUME NEW h \in Seq(Token), NEW I \in SUBSET AllImages, NEW n \in 0..Len(h)
  PROVE  /\ SubSeq(h, 1, n) \in Seq(Token)
         /\ Len(SubSeq(h, 1, n)) = n
         /\ RowsOf(SubSeq(h, 1, n), I) = SubSeq(RowsOf(h, I), 1, n)
<1>1. Len(h) \in Nat /\ \A i \in 1..Len(h) : h[i] \in Token
  BY LenProperties, ElementOfSeq
<1>2. /\ SubSeq(h, 1, n) \in Seq(Token)
      /\ Len(SubSeq(h, 1, n)) = n
      /\ \A i \in 1..n : SubSeq(h, 1, n)[i] = h[i]
  BY <1>1, SubSeqProperties
<1>3. /\ SubSeq(RowsOf(h, I), 1, n) \in Seq(Row)
      /\ Len(SubSeq(RowsOf(h, I), 1, n)) = n
      /\ \A i \in 1..n : SubSeq(RowsOf(h, I), 1, n)[i] = RowsOf(h, I)[i]
  <2>1. \A i \in 1..n : RowsOf(h, I)[i] \in Row
    BY <1>1, RowsOfProperties, RowType
  <2>2. QED
    BY <1>1, <2>1, SubSeqProperties
<1>4. /\ RowsOf(SubSeq(h, 1, n), I) \in Seq(Row)
      /\ Len(RowsOf(SubSeq(h, 1, n), I)) = n
      /\ \A i \in 1..n :
           RowsOf(SubSeq(h, 1, n), I)[i] = SubSeq(RowsOf(h, I), 1, n)[i]
  <2>1. /\ RowsOf(SubSeq(h, 1, n), I) \in Seq(Row)
        /\ Len(RowsOf(SubSeq(h, 1, n), I)) = n
        /\ \A i \in 1..n :
             RowsOf(SubSeq(h, 1, n), I)[i] = RowAt(SubSeq(h, 1, n)[i], I, i - 1)
    BY <1>2, RowsOfProperties
  <2>2. \A i \in 1..n : RowsOf(h, I)[i] = RowAt(h[i], I, i - 1)
    BY <1>1, RowsOfProperties
  <2>3. QED
    BY <1>2, <1>3, <2>1, <2>2
<1>5. RowsOf(SubSeq(h, 1, n), I) = SubSeq(RowsOf(h, I), 1, n)
  BY <1>3, <1>4, SeqEqual
<1>6. QED
  BY <1>2, <1>5

\* Rows computed for tokens that follow extend the rows in place.
LEMMA RowsOfConcat ==
  ASSUME NEW h \in Seq(Token), NEW t \in Seq(Token), NEW I \in SUBSET AllImages
  PROVE  /\ RowsFrom(t, I, Len(h)) \in Seq(Row)
         /\ Len(RowsFrom(t, I, Len(h))) = Len(t)
         /\ h \o t \in Seq(Token)
         /\ Len(h \o t) = Len(h) + Len(t)
         /\ RowsOf(h \o t, I) = RowsOf(h, I) \o RowsFrom(t, I, Len(h))
<1> DEFINE new == RowsFrom(t, I, Len(h))
<1>1. /\ Len(h) \in Nat /\ Len(t) \in Nat
      /\ \A i \in 1..Len(t) : t[i] \in Token
  BY LenProperties, ElementOfSeq
<1>2. new \in Seq(Row) /\ Len(new) = Len(t)
  <2>1. \A i \in 1..Len(t) : RowAt(t[i], I, Len(h) + i - 1) \in Row
    BY <1>1, RowType
  <2>2. QED
    BY <1>1, <2>1 DEF RowsFrom
<1> HIDE DEF new
<1>3. /\ h \o t \in Seq(Token)
      /\ Len(h \o t) = Len(h) + Len(t)
      /\ \A i \in 1..(Len(h) + Len(t)) :
           (h \o t)[i] = IF i <= Len(h) THEN h[i] ELSE t[i - Len(h)]
  BY ConcatProperties
<1>4. /\ RowsOf(h, I) \o new \in Seq(Row)
      /\ Len(RowsOf(h, I) \o new) = Len(h) + Len(t)
      /\ \A i \in 1..(Len(h) + Len(t)) :
           (RowsOf(h, I) \o new)[i] = IF i <= Len(h) THEN RowsOf(h, I)[i]
                                                     ELSE new[i - Len(h)]
  <2> DEFINE r == RowsOf(h, I)
  <2>1. r \in Seq(Row) /\ Len(r) = Len(h)
    BY RowsOfProperties
  <2>2. /\ r \o new \in Seq(Row)
        /\ Len(r \o new) = Len(r) + Len(new)
        /\ \A i \in 1..(Len(r) + Len(new)) :
             (r \o new)[i] = IF i <= Len(r) THEN r[i] ELSE new[i - Len(r)]
    <3> HIDE DEF r
    <3>1. QED
      BY ONLY <1>2, <2>1, ConcatProperties
  <2>3. QED
    BY <1>2, <2>1, <2>2
<1>5. ASSUME NEW i \in 1..(Len(h) + Len(t))
      PROVE  RowsOf(h \o t, I)[i] = (RowsOf(h, I) \o new)[i]
  <2>1. RowsOf(h \o t, I)[i] = RowAt((h \o t)[i], I, i - 1)
    BY <1>3, RowsOfProperties
  <2>2. CASE i <= Len(h)
    BY <1>1, <1>3, <1>4, <2>1, <2>2, RowsOfProperties
  <2>3. CASE i > Len(h)
    <3>1. i - Len(h) \in 1..Len(t) /\ Len(h) + (i - Len(h)) - 1 = i - 1
      BY <1>1, <2>3
    <3>2. new[i - Len(h)] = RowAt(t[i - Len(h)], I, i - 1)
      BY <3>1 DEF new, RowsFrom
    <3>3. QED
      BY <1>1, <1>3, <1>4, <2>1, <2>3, <3>2
  <2>4. i <= Len(h) \/ i > Len(h)
    BY <1>1
  <2>5. QED
    BY <2>2, <2>3, <2>4
<1>6. /\ RowsOf(h \o t, I) \in Seq(Row)
      /\ Len(RowsOf(h \o t, I)) = Len(h) + Len(t)
  BY <1>3, RowsOfProperties
<1>7. RowsOf(h \o t, I) = RowsOf(h, I) \o new
  BY <1>4, <1>5, <1>6, SeqEqual
<1>8. QED
  BY <1>2, <1>3, <1>7 DEF new

\* Images that differ only from position n on leave the first n rows alone.
LEMMA ImagesAgreeBelow ==
  ASSUME NEW h \in Seq(Token), NEW I, NEW J,
         \A im \in Unmatched(I, J) : im.start \in Int /\ Len(h) <= im.start
  PROVE  RowsOf(h, I) = RowsOf(h, J)
<1>1. Len(h) \in Nat
  BY LenProperties
<1>2. \A i \in 1..Len(h) : Covering(I, i - 1) = Covering(J, i - 1)
  BY <1>1 DEF Covering, Unmatched
<1>3. QED
  BY <1>1, <1>2 DEF RowsOf, RowsFrom, RowAt

\* Prefixes of sequences.
LEMMA PrefixFacts ==
  ASSUME NEW S, NEW s \in Seq(S), NEW n \in 0..Len(s)
  PROVE  /\ SubSeq(s, 1, n) \in Seq(S)
         /\ Len(SubSeq(s, 1, n)) = n
         /\ \A i \in 1..n : SubSeq(s, 1, n)[i] = s[i]
<1>1. Len(s) \in Nat /\ \A i \in 1..n : s[i] \in S
  BY LenProperties, ElementOfSeq
<1>2. QED
  BY <1>1, SubSeqProperties

\* A prefix of a prefix is a prefix.
LEMMA PrefixOfPrefix ==
  ASSUME NEW S, NEW s \in Seq(S), NEW n \in 0..Len(s), NEW m \in 0..n
  PROVE  SubSeq(SubSeq(s, 1, n), 1, m) = SubSeq(s, 1, m)
<1> DEFINE p == SubSeq(s, 1, n)
           q == SubSeq(p, 1, m)
           r == SubSeq(s, 1, m)
<1>1. Len(s) \in Nat
  BY LenProperties
<1>2. p \in Seq(S) /\ Len(p) = n /\ \A i \in 1..n : p[i] = s[i]
  BY PrefixFacts
<1>3. m \in 0..Len(s) /\ m \in 0..Len(p)
  BY <1>1, <1>2
<1>4. r \in Seq(S) /\ Len(r) = m /\ \A i \in 1..m : r[i] = s[i]
  BY <1>3, PrefixFacts
<1> HIDE DEF p, r
<1>5. q \in Seq(S) /\ Len(q) = m /\ \A i \in 1..m : q[i] = p[i]
  BY <1>2, <1>3, PrefixFacts
<1>6. \A i \in 1..m : q[i] = r[i]
  BY <1>1, <1>2, <1>4, <1>5
<1> HIDE DEF q
<1>7. q = r
  BY <1>4, <1>5, <1>6, SeqEqual
<1>8. QED
  BY <1>7 DEF p, q, r

\* What is appended does not show in a prefix of the front part.
LEMMA PrefixOfConcat ==
  ASSUME NEW S, NEW s \in Seq(S), NEW t \in Seq(S), NEW n \in 0..Len(s)
  PROVE  SubSeq(s \o t, 1, n) = SubSeq(s, 1, n)
<1> DEFINE c == s \o t
           q == SubSeq(c, 1, n)
           r == SubSeq(s, 1, n)
<1>1. Len(s) \in Nat /\ Len(t) \in Nat
  BY LenProperties
<1>2. /\ c \in Seq(S) /\ Len(c) = Len(s) + Len(t)
      /\ \A i \in 1..(Len(s) + Len(t)) : c[i] = IF i <= Len(s) THEN s[i] ELSE t[i - Len(s)]
  BY ConcatProperties
<1>3. r \in Seq(S) /\ Len(r) = n /\ \A i \in 1..n : r[i] = s[i]
  BY PrefixFacts
<1> HIDE DEF c, r
<1>4. n \in 0..Len(c)
  BY <1>1, <1>2
<1>5. q \in Seq(S) /\ Len(q) = n /\ \A i \in 1..n : q[i] = c[i]
  BY <1>2, <1>4, PrefixFacts
<1>6. \A i \in 1..n : q[i] = r[i]
  BY <1>1, <1>2, <1>3, <1>5
<1> HIDE DEF q
<1>7. q = r
  BY <1>3, <1>5, <1>6, SeqEqual
<1>8. QED
  BY <1>7 DEF c, q, r

-----------------------------------------------------------------------------
(* The inductive invariant.                                                *)

IInv == TypeOK /\ ResidentSound /\ SnapshotsSound /\ ServingSound

\* What is known of a request that is being served or may be sent.
LEMMA RequestType ==
  ASSUME NEW r \in Requests
  PROVE  /\ r.prompt \in Seq(Token) /\ Len(r.prompt) \in Nat
         /\ r.images \in SUBSET AllImages
         /\ \A im \in r.images : im.start \in Int
BY CacheAssumption, LenProperties DEF CacheAssumption, AllImages

\* Images of the requests start at integer positions.
LEMMA AllImagesType == \A im \in AllImages : im.start \in Int
BY CacheAssumption DEF CacheAssumption, AllImages

\* The resident rows are a sequence as long as the history.
LEMMA ResidentRowsType ==
  ASSUME TypeOK, pos = Len(hist)
  PROVE  /\ ResidentRows \in Seq(Row) /\ Len(ResidentRows) = pos
         /\ \A i \in 1..pos : ResidentRows[i] = RowAt(hist[i], cachedImages, i - 1)
BY RowsOfProperties DEF TypeOK, ResidentRows

\* A slice of a prompt can be read as a prefix of it.
LEMMA SliceAfterPrefix ==
  ASSUME NEW S, NEW s \in Seq(S), NEW p \in 0..Len(s), NEW n \in Nat,
         p + n <= Len(s)
  PROVE  /\ SubSeq(s, p + 1, p + n) \in Seq(S)
         /\ Len(SubSeq(s, p + 1, p + n)) = n
         /\ SubSeq(s, 1, p) \o SubSeq(s, p + 1, p + n) = SubSeq(s, 1, p + n)
<1>1. Len(s) \in Nat /\ \A i \in (p + 1)..(p + n) : s[i] \in S
  BY LenProperties, ElementOfSeq
<1>2. /\ SubSeq(s, p + 1, p + n) \in Seq(S)
      /\ Len(SubSeq(s, p + 1, p + n)) = n
  BY <1>1, SubSeqProperties
<1>3. 1 \in 1..(Len(s) + 1) /\ p \in (1 - 1)..Len(s) /\ p + n \in p..Len(s)
  BY <1>1
<1>4. SubSeq(s, 1, p) \o SubSeq(s, p + 1, p + n) = SubSeq(s, 1, p + n)
  BY <1>3, ConcatAdjacentSubSeq
<1>5. QED
  BY <1>2, <1>4

\* The initial state satisfies the invariant.
LEMMA InitInv == Init => IInv
<1> SUFFICES ASSUME Init PROVE IInv
  OBVIOUS
<1>1. ResidentRows = <<>>
  BY DEF Init, ResidentRows, RowsOf, RowsFrom
<1>2. TypeOK
  BY CacheAssumption DEF Init, TypeOK, CacheAssumption, NoSnapshots, Slots, Empty
<1>3. ResidentSound
  BY <1>1 DEF Init, ResidentSound
<1>4. SnapshotsSound
  BY DEF Init, SnapshotsSound, NoSnapshots
<1>5. ServingSound
  BY DEF Init, ServingSound
<1>6. QED
  BY <1>2, <1>3, <1>4, <1>5 DEF IInv

\* Resuming at n is sound when the first n rows are shared with the request,
\* the recurrent state is the one of n rows, and the ring lost nothing but
\* whole slots.
LEMMA LandInv ==
  ASSUME IInv, phase = "idle",
         NEW r \in Requests, NEW n \in 0..Cap, NEW kept, NEW captured, NEW slot,
         Land(r, n, kept, captured, slot),
         n <= pos, n < Len(r.prompt),
         \A i \in 1..n : r.prompt[i] = hist[i],
         \A im \in Unmatched(cachedImages, r.images) : n <= im.start,
         kept = SubSeq(ResidentRows, 1, n),
         captured = snapPos \/ captured = NoSnapshots,
         slot = snapNext \/ slot = 0
  PROVE  IInv'
<1> USE DEF IInv
<1>1. /\ pos = Len(hist) /\ pos \in 0..Cap /\ hist \in Seq(Token) /\ Cap \in Nat
      /\ cachedImages \in SUBSET AllImages /\ r.images \in SUBSET AllImages
      /\ r.prompt \in Seq(Token) /\ Len(r.prompt) \in Nat
  BY CacheAssumption, RequestType DEF TypeOK, ResidentSound, CacheAssumption
<1>2. /\ ResidentRows \in Seq(Row) /\ Len(ResidentRows) = pos
  BY <1>1, ResidentRowsType
<1>3. /\ hist' = SubSeq(hist, 1, n) /\ pos' = n /\ kda' = kept
      /\ cachedImages' = r.images /\ req' = r /\ resume' = n
      /\ plane' = plane /\ snapKda' = snapKda /\ snapNext' = slot
      /\ snapPos' = DiscardSuffix(captured, n) /\ snapLast' \in 0..Cap
      /\ phase' = "prefill" /\ logits' = logits
  BY <1>1 DEF Land
<1>4. hist' \in Seq(Token) /\ Len(hist') = n /\ \A i \in 1..n : hist'[i] = hist[i]
  BY <1>1, <1>3, PrefixFacts
<1>5. ResidentRows' = SubSeq(ResidentRows, 1, n)
  <2>1. RowsOf(hist', cachedImages) = SubSeq(ResidentRows, 1, n)
    BY <1>1, <1>3, RowsOfPrefix DEF ResidentRows
  <2>2. \A im \in Unmatched(cachedImages, r.images) : im.start \in Int
    BY <1>1, AllImagesType DEF Unmatched
  <2>3. RowsOf(hist', cachedImages) = RowsOf(hist', r.images)
    BY <1>4, <2>2, ImagesAgreeBelow
  <2>4. QED
    BY <1>3, <2>1, <2>3 DEF ResidentRows
<1>6. /\ SubSeq(ResidentRows, 1, n) \in Seq(Row)
      /\ \A i \in 1..n : SubSeq(ResidentRows, 1, n)[i] = ResidentRows[i]
  BY <1>1, <1>2, PrefixFacts
<1>7. \A i \in Slots : snapPos'[i] # Empty => snapPos'[i] = snapPos[i] /\ snapPos[i] <= n
  BY <1>1, <1>3 DEF DiscardSuffix, TypeOK, NoSnapshots, Empty
<1>8. TypeOK'
  <2>1. snapPos' \in [Slots -> Empty..Cap]
    BY <1>1, <1>3 DEF DiscardSuffix, TypeOK, NoSnapshots, Empty
  <2>2. slot \in 0..NSnaps /\ (NSnaps > 0 => slot \in Slots)
    <3>1. NSnaps \in Nat
      BY CacheAssumption DEF CacheAssumption
    <3>2. 0 \in 0..NSnaps /\ (NSnaps > 0 => 0 \in Slots)
      BY <3>1 DEF Slots
    <3>3. snapNext \in 0..NSnaps /\ (NSnaps > 0 => snapNext \in Slots)
      BY DEF TypeOK
    <3>4. QED
      BY ONLY <3>2, <3>3, slot = snapNext \/ slot = 0
  <2>3. r # NoReq
    BY CacheAssumption DEF CacheAssumption
  <2>4. kda' \in Seq(Row)
    BY <1>3, <1>6
  <2>5. QED
    BY <1>1, <1>3, <1>4, <2>1, <2>2, <2>3, <2>4 DEF TypeOK
<1>9. ResidentSound'
  <2>1. \A p \in 0..(n - 1) : plane[p] = SubSeq(ResidentRows, 1, n)[p + 1]
    BY <1>1, <1>6 DEF ResidentSound
  <2>2. QED
    BY <1>3, <1>4, <1>5, <2>1 DEF ResidentSound
<1>10. SnapshotsSound'
  <2> SUFFICES ASSUME NEW i \in Slots, snapPos'[i] # Empty
               PROVE  /\ snapPos'[i] <= pos'
                      /\ snapPos'[i] % POOL_TOKENS = 0
                      /\ snapKda'[i] = SubSeq(ResidentRows', 1, snapPos'[i])
    BY DEF SnapshotsSound
  <2>1. /\ snapPos[i] <= n /\ snapPos'[i] = snapPos[i] /\ snapPos[i] # Empty
        /\ snapPos[i] \in 0..n
    BY <1>7 DEF TypeOK, Empty
  <2>2. /\ snapPos[i] % POOL_TOKENS = 0
        /\ snapKda[i] = SubSeq(ResidentRows, 1, snapPos[i])
    BY <2>1 DEF SnapshotsSound
  <2>3. SubSeq(ResidentRows', 1, snapPos[i]) = SubSeq(ResidentRows, 1, snapPos[i])
    BY <1>1, <1>2, <1>5, <2>1, PrefixOfPrefix
  <2>4. QED
    BY <1>3, <2>1, <2>2, <2>3
<1>11. ServingSound'
  <2>1. hist' = SubSeq(r.prompt, 1, n)
    <3> DEFINE q == SubSeq(r.prompt, 1, n)
    <3>1. n \in 0..Len(r.prompt)
      BY <1>1
    <3>2. q \in Seq(Token) /\ Len(q) = n /\ \A i \in 1..n : q[i] = r.prompt[i]
      BY <1>1, <3>1, PrefixFacts
    <3> HIDE DEF q
    <3>3. hist' = q
      BY <1>4, <3>2, SeqEqual
    <3>4. QED
      BY <3>3 DEF q
  <2>2. QED
    BY <1>1, <1>3, <2>1 DEF ServingSound
<1>12. QED
  BY <1>8, <1>9, <1>10, <1>11

\* What the plan of a request says of the rows it may reuse.
LEMMA PlannedShares ==
  ASSUME IInv, NEW r \in Requests, NEW L \in 0..Len(hist), Planned(r, L)
  PROVE  /\ phase = "idle" /\ L <= pos /\ L < Len(r.prompt)
         /\ \A i \in 1..L : r.prompt[i] = hist[i]
         /\ \A im \in Unmatched(cachedImages, r.images) : L <= im.start
<1>1. PICK common \in 0..Len(hist) :
        /\ Shares(hist, pos, cachedImages, r.prompt, r.images, common)
        /\ L = ReusePoint(common, r.prompt)
  BY DEF Planned, IsCommon
<1>2. /\ Len(r.prompt) \in Nat /\ Len(hist) \in Nat /\ pos \in Nat
      /\ r.images \in SUBSET AllImages /\ cachedImages \in SUBSET AllImages
  BY CacheAssumption, RequestType, LenProperties DEF IInv, TypeOK, CacheAssumption
<1>3. \A im \in Unmatched(cachedImages, r.images) : im.start \in Int
  BY <1>2, AllImagesType DEF Unmatched
<1>4. L <= common /\ L < Len(r.prompt)
  BY <1>1, <1>2 DEF ReusePoint, Shares
<1>5. QED
  BY <1>1, <1>2, <1>3, <1>4 DEF Shares, Planned

\* Each way a request may begin lands on a state its plan allows.
LEMMA BeginLands ==
  ASSUME IInv, NEW r \in Requests,
         BeginExtension(r) \/ BeginSnapshot(r) \/ BeginRestart(r)
  PROVE  IInv' /\ phase = "idle" /\ phase' = "prefill" /\ req' = r
<1>1. /\ pos = Len(hist) /\ pos \in 0..Cap /\ Cap \in Nat
      /\ kda = ResidentRows
      /\ ResidentRows \in Seq(Row) /\ Len(ResidentRows) = pos
  BY CacheAssumption, ResidentRowsType DEF IInv, TypeOK, ResidentSound, CacheAssumption
<1>2. SubSeq(ResidentRows, 1, 0) = <<>> /\ SubSeq(ResidentRows, 1, pos) = ResidentRows
  BY <1>1, SubSeqEmpty, SubSeqFull
<1>3. CASE BeginExtension(r)
  <2>1. PICK L \in 0..Len(hist) : Planned(r, L) /\ Extends(hist, pos, L) /\ Resume(r, L, kda)
    BY <1>3 DEF BeginExtension
  <2>2. L = pos /\ Land(r, L, kda, snapPos, snapNext)
    BY <1>1, <2>1 DEF Extends, Resume
  <2>3. /\ phase = "idle" /\ L <= pos /\ L < Len(r.prompt)
        /\ \A i \in 1..L : r.prompt[i] = hist[i]
        /\ \A im \in Unmatched(cachedImages, r.images) : L <= im.start
    BY <2>1, PlannedShares
  <2>4. IInv'
    BY <1>1, <1>2, <2>2, <2>3, LandInv
  <2>5. QED
    BY <2>2, <2>3, <2>4 DEF Land
<1>4. CASE BeginSnapshot(r)
  <2>1. PICK L \in 0..Len(hist), i \in Slots :
          /\ Planned(r, L) /\ IsBestSlot(snapPos, L, i)
          /\ Resume(r, snapPos[i], snapKda[i])
    BY <1>4 DEF BeginSnapshot
  <2> DEFINE n == snapPos[i]
  <2>2. n \in 0..L
    BY <2>1 DEF IsBestSlot, Usable, IInv, TypeOK, Empty
  <2>3. /\ phase = "idle" /\ L <= pos /\ L < Len(r.prompt)
        /\ \A j \in 1..L : r.prompt[j] = hist[j]
        /\ \A im \in Unmatched(cachedImages, r.images) : L <= im.start
    BY <2>1, PlannedShares
  <2>4. /\ Len(r.prompt) \in Nat
        /\ \A im \in Unmatched(cachedImages, r.images) : im.start \in Int
    BY RequestType, AllImagesType DEF Unmatched, IInv, TypeOK
  <2>5. /\ n \in 0..Cap /\ n <= pos /\ n < Len(r.prompt)
        /\ \A j \in 1..n : r.prompt[j] = hist[j]
        /\ \A im \in Unmatched(cachedImages, r.images) : n <= im.start
    BY <1>1, <2>2, <2>3, <2>4
  <2>6. snapKda[i] = SubSeq(ResidentRows, 1, n)
    BY <2>2 DEF IInv, SnapshotsSound, Empty
  <2>7. Land(r, n, snapKda[i], snapPos, snapNext)
    BY <1>1, <2>1, <2>5 DEF Resume
  <2>8. IInv'
    BY <2>3, <2>5, <2>6, <2>7, LandInv
  <2>9. QED
    BY <2>3, <2>5, <2>7, <2>8 DEF Land
<1>5. CASE BeginRestart(r)
  <2>1. PICK L \in 0..Len(hist) : Planned(r, L) /\ Reset(r)
    BY <1>5 DEF BeginRestart
  <2>2. Land(r, 0, <<>>, NoSnapshots, 0)
    BY <2>1 DEF Reset
  <2>3. /\ phase = "idle" /\ L <= pos /\ L < Len(r.prompt)
        /\ \A im \in Unmatched(cachedImages, r.images) : L <= im.start
    BY <2>1, PlannedShares
  <2>4. /\ Len(r.prompt) \in Nat
        /\ \A im \in Unmatched(cachedImages, r.images) : im.start \in Int
    BY RequestType, AllImagesType DEF Unmatched, IInv, TypeOK
  <2>5. /\ 0 \in 0..Cap /\ 0 <= pos /\ 0 < Len(r.prompt)
        /\ \A j \in 1..0 : r.prompt[j] = hist[j]
        /\ \A im \in Unmatched(cachedImages, r.images) : 0 <= im.start
    BY <1>1, <2>3, <2>4
  <2>6. IInv'
    BY <1>2, <2>2, <2>3, <2>5, LandInv
  <2>7. QED
    BY <2>2, <2>3, <2>5, <2>6 DEF Land
<1>6. QED
  BY <1>3, <1>4, <1>5

\* Running tokens at the end of the resident sequence extends the planes and
\* the recurrent state by their rows.
LEMMA RunChunkExtends ==
  ASSUME TypeOK, ResidentSound,
         NEW toks \in Seq(Token), pos + Len(toks) <= Cap,
         RunChunk(toks, pos, cachedImages),
         hist' = hist \o toks, pos' = pos + Len(toks), cachedImages' = cachedImages
  PROVE  /\ hist' \in Seq(Token) /\ pos' \in 0..Cap
         /\ ResidentRows' \in Seq(Row) /\ Len(ResidentRows') = pos'
         /\ plane' \in [0..(Cap - 1) -> Row \union {<<>>}]
         /\ ResidentSound'
         /\ \A n \in 0..pos : SubSeq(ResidentRows', 1, n) = SubSeq(ResidentRows, 1, n)
<1> DEFINE new == RowsFrom(toks, cachedImages, pos)
<1>1. /\ pos = Len(hist) /\ pos \in 0..Cap /\ hist \in Seq(Token) /\ Cap \in Nat
      /\ cachedImages \in SUBSET AllImages /\ Len(toks) \in Nat
      /\ ResidentRows \in Seq(Row) /\ Len(ResidentRows) = pos
      /\ \A i \in 1..Len(toks) : toks[i] \in Token
  BY CacheAssumption, ResidentRowsType, LenProperties, ElementOfSeq
  DEF TypeOK, ResidentSound, CacheAssumption
<1>0. /\ pos + Len(toks) <= Cap /\ pos' = pos + Len(toks)
      /\ toks \in Seq(Token)
  OBVIOUS
<1>a. pos' \in 0..Cap
  <2>1. Len(toks) \in Nat /\ pos \in 0..Cap /\ Cap \in Nat
    BY ONLY <1>1
  <2>2. QED
    BY ONLY <1>0, <2>1
<1>b. /\ pos = Len(hist) /\ hist \in Seq(Token) /\ toks \in Seq(Token)
      /\ cachedImages \in SUBSET AllImages
  BY ONLY <1>0, <1>1
<1>2. /\ kda' = kda \o new
      /\ plane' = [q \in 0..(Cap - 1) |->
                     IF pos <= q /\ q < pos + Len(toks) THEN new[q - pos + 1]
                                                        ELSE plane[q]]
  <2>1. ~(pos + Len(toks) > Cap)
    BY ONLY <1>0, <1>1
  <2>2. QED
    BY <2>1, Zenon DEF RunChunk
<1>3. /\ new \in Seq(Row) /\ Len(new) = Len(toks)
      /\ hist' \in Seq(Token) /\ Len(hist') = pos'
      /\ ResidentRows' = ResidentRows \o new
  <2>1. /\ new \in Seq(Row) /\ Len(new) = Len(toks)
        /\ hist \o toks \in Seq(Token)
        /\ Len(hist \o toks) = Len(hist) + Len(toks)
        /\ RowsOf(hist \o toks, cachedImages) = RowsOf(hist, cachedImages) \o new
    <3> DEFINE m == RowsFrom(toks, cachedImages, Len(hist))
    <3>1. /\ m \in Seq(Row) /\ Len(m) = Len(toks)
          /\ hist \o toks \in Seq(Token)
          /\ Len(hist \o toks) = Len(hist) + Len(toks)
          /\ RowsOf(hist \o toks, cachedImages) = RowsOf(hist, cachedImages) \o m
      BY ONLY <1>b, RowsOfConcat
    <3>2. m = new
      BY ONLY <1>b
    <3> HIDE DEF m, new
    <3>3. QED
      BY ONLY <3>1, <3>2
  <2> HIDE DEF new
  <2>2. QED
    BY <1>1, <2>1 DEF ResidentRows
<1>4. kda' = ResidentRows'
  BY <1>2, <1>3 DEF ResidentSound
<1>5. /\ ResidentRows' \in Seq(Row) /\ Len(ResidentRows') = pos'
      /\ \A i \in 1..(pos + Len(toks)) : ResidentRows'[i] =
           IF i <= pos THEN ResidentRows[i] ELSE new[i - pos]
  <2> HIDE DEF new
  <2> DEFINE c == ResidentRows \o new
  <2>1. /\ c \in Seq(Row) /\ Len(c) = Len(ResidentRows) + Len(new)
        /\ \A i \in 1..(Len(ResidentRows) + Len(new)) : c[i] =
             IF i <= Len(ResidentRows) THEN ResidentRows[i]
                                       ELSE new[i - Len(ResidentRows)]
    BY ONLY <1>1, <1>3, ConcatProperties
  <2>2. ResidentRows' = c
    BY <1>3
  <2> HIDE DEF c
  <2>3. QED
    BY <1>1, <1>3, <2>1, <2>2
<1>6. ASSUME NEW p \in 0..(pos' - 1)
      PROVE  plane'[p] = ResidentRows'[p + 1]
  <2> HIDE DEF new
  <2>1. p \in 0..(Cap - 1) /\ p + 1 \in 1..(pos + Len(toks))
    BY <1>1
  <2>2. CASE p < pos
    <3>1. plane'[p] = plane[p] /\ plane[p] = ResidentRows[p + 1]
      BY <1>1, <1>2, <2>1, <2>2 DEF ResidentSound
    <3>2. QED
      BY <1>1, <1>5, <2>1, <2>2, <3>1
  <2>3. CASE p >= pos
    <3>1. plane'[p] = new[p - pos + 1] /\ p + 1 - pos = p - pos + 1
      BY <1>1, <1>2, <2>1, <2>3
    <3>2. QED
      BY <1>1, <1>5, <2>1, <2>3, <3>1
  <2>4. QED
    BY <1>1, <2>2, <2>3
<1>7. plane' \in [0..(Cap - 1) -> Row \union {<<>>}]
  <2>1. \A i \in 1..Len(toks) : new[i] \in Row
    BY <1>1, RowType DEF RowsFrom
  <2> HIDE DEF new
  <2>2. ASSUME NEW q \in 0..(Cap - 1)
        PROVE  (IF pos <= q /\ q < pos + Len(toks) THEN new[q - pos + 1] ELSE plane[q])
                 \in Row \union {<<>>}
    <3>1. plane[q] \in Row \union {<<>>}
      BY DEF TypeOK
    <3>2. pos <= q /\ q < pos + Len(toks) => q - pos + 1 \in 1..Len(toks)
      BY <1>1
    <3>3. QED
      BY <2>1, <3>1, <3>2
  <2>3. QED
    BY <1>2, <2>2
<1>8. \A n \in 0..pos : SubSeq(ResidentRows', 1, n) = SubSeq(ResidentRows, 1, n)
  <2> HIDE DEF new
  <2>1. QED
    BY <1>1, <1>3, PrefixOfConcat
<1>9. pos' \in 0..Cap /\ pos' = Len(hist')
  BY ONLY <1>a, <1>3
<1>10. ResidentSound'
  BY <1>4, <1>6, <1>9 DEF ResidentSound
<1>11. QED
  BY <1>3, <1>5, <1>7, <1>8, <1>9, <1>10

\* Slots that were sound stay sound while the sequence only grows.
LEMMA GrowKeepsSnapshots ==
  ASSUME IInv, pos' \in Int, pos <= pos',
         \A n \in 0..pos : SubSeq(ResidentRows', 1, n) = SubSeq(ResidentRows, 1, n),
         NEW i \in Slots, snapPos[i] # Empty
  PROVE  /\ snapPos[i] <= pos'
         /\ snapPos[i] % POOL_TOKENS = 0
         /\ snapKda[i] = SubSeq(ResidentRows', 1, snapPos[i])
<1>1. pos \in 0..Cap /\ Cap \in Nat /\ snapPos[i] \in 0..Cap
  BY CacheAssumption DEF IInv, TypeOK, Empty, CacheAssumption
<1>2. /\ snapPos[i] <= pos /\ snapPos[i] % POOL_TOKENS = 0
      /\ snapKda[i] = SubSeq(ResidentRows, 1, snapPos[i])
  BY DEF IInv, SnapshotsSound
<1>3. snapPos[i] \in 0..pos
  BY <1>1, <1>2
<1>4. SubSeq(ResidentRows', 1, snapPos[i]) = SubSeq(ResidentRows, 1, snapPos[i])
  BY <1>3
<1>5. snapPos[i] <= pos'
  BY <1>1, <1>2
<1>6. QED
  BY ONLY <1>2, <1>4, <1>5

\* A chunk runs at least one row and stays inside the prompt and the capacity.
LEMMA ChunkRowsBound ==
  ASSUME IInv, phase = "prefill", pos < Target
  PROVE  /\ ChunkRows \in Nat /\ 0 < ChunkRows
         /\ pos + ChunkRows <= Len(req.prompt) /\ pos + ChunkRows <= Cap
<1>1. /\ pos \in Nat /\ Cap \in Nat /\ MaxChunk \in Nat \ {0} /\ NSnaps \in Nat
      /\ snapLast \in Nat /\ SnapInterval \in Nat
      /\ req \in Requests /\ Len(req.prompt) \in Nat
  BY CacheAssumption, RequestType DEF IInv, TypeOK, CacheAssumption
<1>2. Target \in Nat /\ Target <= Cap /\ Target <= Len(req.prompt)
  BY <1>1 DEF Target
<1>3. ASSUME NEW c \in Int, NEW n \in 1..(Target - pos)
      PROVE  CutAt(n, c) \in 1..(Target - pos)
  BY <1>1, <1>2 DEF CutAt
<1>4. IntervalCheckpoint \in Int /\ Tail_ \in Int
  BY <1>1, <1>2, PoolAssumption
  DEF IntervalCheckpoint, RoundUpToPool, Tail_, CheckpointBefore, PoolAssumption
<1> DEFINE whole == IF Target - pos > MaxChunk THEN MaxChunk ELSE Target - pos
<1>5. whole \in 1..(Target - pos)
  BY <1>1, <1>2
<1>6. CutAt(CutAt(whole, IntervalCheckpoint), Tail_) \in 1..(Target - pos)
  <2> HIDE DEF whole
  <2>1. QED
    BY <1>3, <1>4, <1>5
<1>7. ChunkRows \in 1..(Target - pos)
  BY <1>6 DEF ChunkRows
<1>8. QED
  BY <1>1, <1>2, <1>7

\* A chunk extends the resident sequence, and a capture is of its last row.
LEMMA PrefillChunkInv == ASSUME IInv, PrefillChunk PROVE IInv'
<1> DEFINE n    == ChunkRows
           toks == SubSeq(req.prompt, pos + 1, pos + n)
<1>1. /\ phase = "prefill" /\ pos < Target
      /\ RunChunk(toks, pos, req.images)
      /\ pos' = pos + n /\ hist' = hist \o toks
      /\ SnapCapture(pos + n)
      /\ cachedImages' = cachedImages /\ resume' = resume /\ logits' = logits
      /\ req' = req /\ phase' = phase
  BY DEF PrefillChunk
<1>2. /\ pos \in Nat /\ Cap \in Nat /\ req \in Requests
      /\ req.prompt \in Seq(Token) /\ Len(req.prompt) \in Nat
      /\ cachedImages = req.images
      /\ pos \in 0..Len(req.prompt) /\ hist = SubSeq(req.prompt, 1, pos)
      /\ resume \in Nat /\ resume <= pos /\ resume < Len(req.prompt)
  BY <1>1, CacheAssumption, RequestType DEF IInv, TypeOK, ServingSound, CacheAssumption
<1>3. /\ n \in Nat /\ 0 < n
      /\ pos + n <= Len(req.prompt) /\ pos + n <= Cap
  BY <1>1, ChunkRowsBound
<1> HIDE DEF n
<1>4. /\ toks \in Seq(Token) /\ Len(toks) = n
      /\ hist \o toks = SubSeq(req.prompt, 1, pos + n)
  BY <1>2, <1>3, SliceAfterPrefix
<1> HIDE DEF toks
<1>5. /\ hist' \in Seq(Token) /\ pos' \in 0..Cap
      /\ ResidentRows' \in Seq(Row) /\ Len(ResidentRows') = pos'
      /\ plane' \in [0..(Cap - 1) -> Row \union {<<>>}]
      /\ ResidentSound'
      /\ \A m \in 0..pos : SubSeq(ResidentRows', 1, m) = SubSeq(ResidentRows, 1, m)
  <2>1. TypeOK /\ ResidentSound /\ pos + Len(toks) <= Cap /\ pos' = pos + Len(toks)
    BY <1>1, <1>3, <1>4 DEF IInv
  <2>2. QED
    BY <1>1, <1>2, <1>4, <2>1, RunChunkExtends
<1>6. kda' = ResidentRows'
  BY <1>5 DEF ResidentSound
<1>7. ServingSound'
  BY <1>1, <1>2, <1>3, <1>4 DEF ServingSound
<1>8. ASSUME NEW i \in Slots, snapPos[i] # Empty
      PROVE  /\ snapPos[i] <= pos'
             /\ snapPos[i] % POOL_TOKENS = 0
             /\ snapKda[i] = SubSeq(ResidentRows', 1, snapPos[i])
  <2>1. pos' \in Int /\ pos <= pos'
    BY ONLY <1>1, <1>2, <1>3
  <2>2. QED
    BY <1>5, <1>8, <2>1, GrowKeepsSnapshots
<1>9. CASE UNCHANGED snaps
  <2>1. TypeOK'
    BY <1>1, <1>5, <1>6, <1>9 DEF IInv, TypeOK, snaps
  <2>2. SnapshotsSound'
    BY <1>8, <1>9 DEF SnapshotsSound, snaps
  <2>3. QED
    BY <1>5, <1>7, <2>1, <2>2 DEF IInv
<1>10. CASE ~UNCHANGED snaps
  <2>1. /\ NSnaps > 0 /\ pos' % POOL_TOKENS = 0
        /\ snapPos' = [snapPos EXCEPT ![snapNext] = pos']
        /\ snapKda' = [snapKda EXCEPT ![snapNext] = kda']
        /\ snapNext' = (snapNext + 1) % NSnaps
        /\ snapLast' = IF pos' > snapLast THEN pos' ELSE snapLast
    BY <1>1, <1>10 DEF SnapCapture, CaptureDue, NextSlot
  <2>2. NSnaps \in Nat /\ snapNext \in Slots /\ Slots = 0..(NSnaps - 1)
    BY <2>1, CacheAssumption DEF IInv, TypeOK, Slots, CacheAssumption
  <2>3. /\ snapPos' \in [Slots -> Empty..Cap]
        /\ snapKda' \in [Slots -> Seq(Row)]
    BY <1>5, <1>6, <2>1, <2>2 DEF IInv, TypeOK, Empty
  <2>4. snapNext' \in Slots /\ snapNext' \in 0..NSnaps
    <3>1. snapNext + 1 \in Nat /\ NSnaps \in Nat \ {0}
      BY <2>1, <2>2
    <3>2. (snapNext + 1) % NSnaps \in 0..(NSnaps - 1)
      BY ONLY <3>1
    <3>3. QED
      BY <2>1, <2>2, <3>2
  <2>5. snapLast' \in 0..Cap
    BY <1>5, <2>1 DEF IInv, TypeOK
  <2>6. TypeOK'
    BY <1>1, <1>5, <1>6, <2>3, <2>4, <2>5 DEF IInv, TypeOK
  <2>7. SnapshotsSound'
    <3> SUFFICES ASSUME NEW i \in Slots, snapPos'[i] # Empty
                 PROVE  /\ snapPos'[i] <= pos'
                        /\ snapPos'[i] % POOL_TOKENS = 0
                        /\ snapKda'[i] = SubSeq(ResidentRows', 1, snapPos'[i])
      BY DEF SnapshotsSound
    <3>1. CASE i = snapNext
      <4>1. snapPos'[i] = pos' /\ snapKda'[i] = ResidentRows'
        BY <1>6, <2>1, <2>2, <3>1 DEF IInv, TypeOK
      <4>2. SubSeq(ResidentRows', 1, pos') = ResidentRows'
        BY <1>5, SubSeqFull
      <4>3. pos' <= pos'
        BY <1>5
      <4>4. QED
        BY <2>1, <4>1, <4>2, <4>3
    <3>2. CASE i # snapNext
      <4>1. snapPos'[i] = snapPos[i] /\ snapKda'[i] = snapKda[i]
        BY <2>1, <3>2 DEF IInv, TypeOK
      <4>2. QED
        BY <1>8, <4>1
    <3>3. QED
      BY <3>1, <3>2
  <2>8. QED
    BY <1>5, <1>7, <2>6, <2>7 DEF IInv
<1>11. QED
  BY <1>9, <1>10

\* final_head over planes that hold the rows of a sequence sees that sequence.
LEMMA FinalHeadSeesSequence ==
  ASSUME NEW h \in Seq(Token), NEW I \in SUBSET AllImages, NEW planes,
         \A p \in 0..(Len(h) - 1) : planes[p] = RowsOf(h, I)[p + 1]
  PROVE  FinalHead(Len(h), planes, RowsOf(h, I)) = Logits(RowsOf(h, I), RowsOf(h, I))
<1>1. Len(h) \in Nat
  BY LenProperties
<1>2. ASSUME NEW i \in 1..Len(h)
      PROVE  planes[i - 1] = RowAt(h[i], I, i - 1)
  <2>1. i - 1 \in 0..(Len(h) - 1) /\ (i - 1) + 1 = i
    BY <1>1
  <2>2. planes[i - 1] = RowsOf(h, I)[i]
    BY <2>1
  <2>3. QED
    BY <2>2, RowsOfProperties
<1>3. RowsOf(h, I) = [i \in 1..Len(h) |-> RowAt(h[i], I, i - 1)]
  BY <1>1 DEF RowsOf, RowsFrom
<1>4. [i \in 1..Len(h) |-> planes[i - 1]] = RowsOf(h, I)
  BY <1>2, <1>3
<1>5. QED
  BY <1>4 DEF FinalHead

\* The logits made at the end of a prefill.
LEMMA PrefillHeadInv == ASSUME IInv, PrefillHead PROVE IInv'
<1>1. /\ hist' = hist /\ pos' = pos /\ cachedImages' = cachedImages
      /\ plane' = plane /\ kda' = kda /\ snapPos' = snapPos /\ snapKda' = snapKda
      /\ snapNext' = snapNext /\ snapLast' = snapLast /\ resume' = resume
      /\ req' = req /\ phase' = "sample" /\ phase = "prefill"
      /\ logits' = FinalHead(pos, plane, kda)
  BY DEF PrefillHead, runner, snaps
<1>2. ResidentRows' = ResidentRows
  BY <1>1 DEF ResidentRows
<1>3. logits' = Logits(ResidentRows, ResidentRows)
  BY <1>1, FinalHeadSeesSequence DEF IInv, TypeOK, ResidentSound, ResidentRows
<1>4. TypeOK'
  BY <1>1 DEF IInv, TypeOK
<1>5. ResidentSound'
  BY <1>1, <1>2 DEF IInv, ResidentSound
<1>6. SnapshotsSound'
  BY <1>1, <1>2 DEF IInv, SnapshotsSound
<1>7. ServingSound'
  BY <1>1, <1>2, <1>3 DEF IInv, ServingSound
<1>8. QED
  BY <1>4, <1>5, <1>6, <1>7 DEF IInv

\* A prompt that is dropped finds the context full: no token is sampled.
LEMMA PrefillDropInv ==
  ASSUME IInv, PrefillDrop
  PROVE  IInv' /\ pos = Cap
<1>1. /\ hist' = hist /\ pos' = pos /\ cachedImages' = cachedImages
      /\ plane' = plane /\ kda' = kda /\ snapPos' = snapPos /\ snapKda' = snapKda
      /\ snapNext' = snapNext /\ snapLast' = snapLast /\ resume' = resume
      /\ req' = req /\ phase' = "sample" /\ phase = "prefill"
      /\ logits' = logits /\ resume >= Cap
  BY DEF PrefillDrop, runner, snaps
<1>2. ResidentRows' = ResidentRows
  BY <1>1 DEF ResidentRows
<1>3. pos = Cap
  BY <1>1, CacheAssumption DEF IInv, TypeOK, ServingSound, CacheAssumption
<1>4. TypeOK'
  BY <1>1 DEF IInv, TypeOK
<1>5. ResidentSound'
  BY <1>1, <1>2 DEF IInv, ResidentSound
<1>6. SnapshotsSound'
  BY <1>1, <1>2 DEF IInv, SnapshotsSound
<1>7. ServingSound'
  BY <1>1, <1>3, CacheAssumption DEF IInv, ServingSound, CacheAssumption
<1>8. QED
  BY <1>3, <1>4, <1>5, <1>6, <1>7 DEF IInv

\* A generated token extends the resident sequence by one row.
LEMMA DecodeInv ==
  ASSUME IInv, NEW t \in Token, Decode(t)
  PROVE  /\ IInv'
         /\ ResidentRows' = Append(ResidentRows, RowAt(t, cachedImages, pos))
         /\ logits' = Logits(ResidentRows', ResidentRows')
<1> DEFINE toks == <<t>>
<1>1. /\ phase = "sample" /\ pos < Cap
      /\ RunChunk(toks, pos, req.images)
      /\ pos' = pos + 1 /\ hist' = Append(hist, t)
      /\ logits' = FinalHead(pos + 1, plane', kda')
      /\ cachedImages' = cachedImages /\ UNCHANGED snaps /\ resume' = resume
      /\ req' = req /\ phase' = phase
  BY DEF Decode
<1>2. /\ pos \in Nat /\ Cap \in Nat /\ hist \in Seq(Token) /\ pos = Len(hist)
      /\ cachedImages = req.images /\ cachedImages \in SUBSET AllImages
  BY <1>1, CacheAssumption DEF IInv, TypeOK, ResidentSound, ServingSound, CacheAssumption
<1>3. toks \in Seq(Token) /\ Len(toks) = 1 /\ toks[1] = t
  OBVIOUS
<1>4. hist' = hist \o toks
  BY <1>1, <1>2, AppendIsConcat
<1>5. RowsFrom(toks, cachedImages, pos) = <<RowAt(t, cachedImages, pos)>>
  BY <1>2, <1>3 DEF RowsFrom
<1> HIDE DEF toks
<1>6. /\ hist' \in Seq(Token) /\ pos' \in 0..Cap
      /\ ResidentRows' \in Seq(Row) /\ Len(ResidentRows') = pos'
      /\ plane' \in [0..(Cap - 1) -> Row \union {<<>>}]
      /\ ResidentSound'
      /\ \A m \in 0..pos : SubSeq(ResidentRows', 1, m) = SubSeq(ResidentRows, 1, m)
  <2>1. TypeOK /\ ResidentSound /\ pos + Len(toks) <= Cap /\ pos' = pos + Len(toks)
    BY <1>1, <1>2, <1>3 DEF IInv
  <2>2. QED
    BY <1>1, <1>2, <1>3, <1>4, <2>1, RunChunkExtends
<1>7. ResidentRows' = Append(ResidentRows, RowAt(t, cachedImages, pos))
  <2>1. ResidentRows' = ResidentRows \o RowsFrom(toks, cachedImages, pos)
    <3>1. RowsOf(hist \o toks, cachedImages) =
            RowsOf(hist, cachedImages) \o RowsFrom(toks, cachedImages, pos)
      BY <1>2, <1>3, RowsOfConcat
    <3>2. QED
      BY <1>1, <1>4, <3>1 DEF ResidentRows
  <2>2. ResidentRows \in Seq(Row) /\ RowAt(t, cachedImages, pos) \in Row
    BY <1>2, RowsOfProperties, RowType DEF ResidentRows
  <2>3. QED
    BY <1>5, <2>1, <2>2, AppendIsConcat
<1>8. logits' = Logits(ResidentRows', ResidentRows')
  <2>1. /\ Len(hist') = pos + 1 /\ kda' = RowsOf(hist', cachedImages')
        /\ ResidentRows' = RowsOf(hist', cachedImages')
        /\ \A p \in 0..(Len(hist') - 1) : plane'[p] = RowsOf(hist', cachedImages')[p + 1]
    BY <1>1, <1>6 DEF ResidentSound, ResidentRows
  <2>2. cachedImages' \in SUBSET AllImages
    BY <1>1, <1>2
  <2>3. FinalHead(Len(hist'), plane', RowsOf(hist', cachedImages')) =
          Logits(RowsOf(hist', cachedImages'), RowsOf(hist', cachedImages'))
    BY <1>6, <2>1, <2>2, FinalHeadSeesSequence
  <2>4. QED
    BY <1>1, <2>1, <2>3
<1>9. TypeOK'
  <2>1. kda' \in Seq(Row)
    BY <1>6 DEF ResidentSound
  <2>2. QED
    BY <1>1, <1>6, <2>1 DEF IInv, TypeOK, snaps
<1>10. SnapshotsSound'
  <2>1. pos' \in Int /\ pos <= pos'
    BY <1>1, <1>2
  <2>2. ASSUME NEW i \in Slots, snapPos[i] # Empty
        PROVE  /\ snapPos[i] <= pos'
               /\ snapPos[i] % POOL_TOKENS = 0
               /\ snapKda[i] = SubSeq(ResidentRows', 1, snapPos[i])
    BY <1>6, <2>1, <2>2, GrowKeepsSnapshots
  <2>3. QED
    BY <1>1, <2>2 DEF SnapshotsSound, snaps
<1>11. ServingSound'
  BY <1>1, <1>2, <1>8 DEF ServingSound
<1>12. QED
  BY <1>6, <1>7, <1>8, <1>9, <1>10, <1>11 DEF IInv

\* The end of a request leaves the cache alone.
LEMMA StopInv == ASSUME IInv, Stop PROVE IInv'
<1>1. /\ hist' = hist /\ pos' = pos /\ cachedImages' = cachedImages
      /\ plane' = plane /\ kda' = kda /\ snapPos' = snapPos /\ snapKda' = snapKda
      /\ snapNext' = snapNext /\ snapLast' = snapLast /\ resume' = resume
      /\ req' = NoReq /\ phase' = "idle"
  BY DEF Stop, runner, snaps
<1>2. ResidentRows' = ResidentRows
  BY <1>1 DEF ResidentRows
<1>3. QED
  BY <1>1, <1>2 DEF IInv, TypeOK, ResidentSound, SnapshotsSound, ServingSound

\* Nothing the invariant reads has changed.
LEMMA StutterInv == ASSUME IInv, UNCHANGED vars PROVE IInv'
<1>1. ResidentRows' = ResidentRows
  BY DEF vars, runner, ResidentRows
<1>2. QED
  BY <1>1 DEF vars, runner, snaps, IInv, TypeOK, ResidentSound, SnapshotsSound, ServingSound

\* Every step of the runner keeps the invariant.
LEMMA NextInv == ASSUME IInv, [Next]_vars PROVE IInv'
<1>1. ASSUME NEW r \in Requests,
             BeginExtension(r) \/ BeginSnapshot(r) \/ BeginRestart(r)
      PROVE  IInv'
  BY <1>1, BeginLands
<1>2. CASE PrefillDrop
  BY <1>2, PrefillDropInv
<1>3. CASE PrefillChunk
  BY <1>3, PrefillChunkInv
<1>4. CASE PrefillHead
  BY <1>4, PrefillHeadInv
<1>5. ASSUME NEW t \in Token, Decode(t) PROVE IInv'
  BY <1>5, DecodeInv
<1>6. CASE Stop
  BY <1>6, StopInv
<1>7. CASE UNCHANGED vars
  BY <1>7, StutterInv
<1>8. QED
  BY <1>1, <1>2, <1>3, <1>4, <1>5, <1>6, <1>7 DEF Next

-----------------------------------------------------------------------------
(* The theorems.                                                           *)

\* The inductive invariant holds in every reachable state.
THEOREM Inductive == Spec => []IInv
BY InitInv, NextInv, PTL DEF Spec

\* The runner moves as in PrefixCache, or it is another part that moves.
LEMMA RunnerPart == ContextSpec => Spec
<1>1. ContextInit => Init
  BY DEF ContextInit
<1>2. [ContextNext]_context => [Next]_vars
  BY DEF ContextNext, context, Runner, Copier, Indexer, Choice
<1> QED
  BY <1>1, <1>2, PTL DEF ContextSpec, Spec

\* Type correctness of the runner's cache state.
THEOREM TypeCorrect == ContextSpec => []TypeOK
<1>1. IInv => TypeOK
  BY DEF IInv
<1>2. QED
  BY <1>1, Inductive, RunnerPart, PTL

\* The planes and the recurrent state hold exactly the resident sequence,
\* whatever extensions, rollbacks and restarts came before.
THEOREM CachesAreResident == ContextSpec => []ResidentSound
<1>1. IInv => ResidentSound
  BY DEF IInv
<1>2. QED
  BY <1>1, Inductive, RunnerPart, PTL

\* Every snapshot that may be restored is of a prefix of the resident sequence.
THEOREM SnapshotsAreSound == ContextSpec => []SnapshotsSound
<1>1. IInv => SnapshotsSound
  BY DEF IInv
<1>2. QED
  BY <1>1, Inductive, RunnerPart, PTL

\* The resident sequence is that of the request being served, and tokens are
\* sampled from the logits of its last row.
THEOREM ServesItsRequest == ContextSpec => []ServingSound
<1>1. IInv => ServingSound
  BY DEF IInv
<1>2. QED
  BY <1>1, Inductive, RunnerPart, PTL

-----------------------------------------------------------------------------
(* The newest snapshot, and that of the tail, outlive the ring's reuse.    *)

\* A quotient and its remainder.
LEMMA Quotient ==
  ASSUME NEW n \in Nat, NEW d \in Nat \ {0}
  PROVE  /\ n \div d \in Nat /\ (n \div d) * d <= n /\ n < (n \div d) * d + d
         /\ n = (n \div d) * d + (n % d) /\ ((n \div d) * d) % d = 0
OBVIOUS

\* Pool boundaries are a pool apart.
LEMMA NextBoundary ==
  ASSUME NEW a \in Nat, NEW b \in Nat, NEW d \in Nat \ {0}, a % d = 0, b % d = 0, a < b
  PROVE  a + d <= b
<1>1. a = (a \div d) * d /\ b = (b \div d) * d /\ a \div d \in Nat /\ b \div d \in Nat
  BY Quotient
<1>2. a \div d < b \div d
  OBVIOUS
<1>3. ASSUME NEW m \in Nat, NEW n \in Nat, m < n
      PROVE  m * d + d <= n * d
  <2>1. n = m + 1 + (n - m - 1) /\ n - m - 1 \in Nat
    BY <1>3
  <2>2. n * d = m * d + d + (n - m - 1) * d /\ (n - m - 1) * d \in Nat
    BY <2>1
  <2> QED
    BY <2>2
<1> QED
  BY <1>1, <1>2, <1>3

\* The same of the pools of the cache.
LEMMA PoolApart ==
  \A a, b \in Nat :
    a % POOL_TOKENS = 0 /\ b % POOL_TOKENS = 0 /\ a < b => a + POOL_TOKENS <= b
<1>1. POOL_TOKENS \in Nat \ {0}
  BY PoolAssumption DEF PoolAssumption
<1> QED
  BY <1>1, NextBoundary

\* A checkpoint is the last boundary before an end.
LEMMA CheckpointFacts ==
  ASSUME NEW T \in Nat
  PROVE  /\ CheckpointBefore(T) \in Nat /\ CheckpointBefore(T) <= T
         /\ T <= CheckpointBefore(T) + POOL_TOKENS
         /\ CheckpointBefore(T) % POOL_TOKENS = 0
<1>1. POOL_TOKENS \in Nat \ {0}
  BY PoolAssumption DEF PoolAssumption
<1>2. CASE T = 0
  BY <1>1, <1>2 DEF CheckpointBefore
<1>3. CASE T > 0
  <2>1. T - 1 \in Nat /\ CheckpointBefore(T) = ((T - 1) \div POOL_TOKENS) * POOL_TOKENS
    BY <1>3 DEF CheckpointBefore
  <2>2. PICK q \in Nat : q = (T - 1) \div POOL_TOKENS
    BY <1>1, <2>1, Quotient
  <2>3. q * POOL_TOKENS <= T - 1 /\ T - 1 < q * POOL_TOKENS + POOL_TOKENS /\ (q * POOL_TOKENS) % POOL_TOKENS = 0
    BY <1>1, <2>1, <2>2, Quotient
  <2>4. CheckpointBefore(T) = q * POOL_TOKENS
    BY <2>1, <2>2
  <2>5. CheckpointBefore(T) \in Nat
    BY <1>1, <2>2, <2>4
  <2> QED
    BY <1>1, <1>3, <2>3, <2>4, <2>5
<1> QED
  BY <1>2, <1>3

LEMMA TailFacts ==
  IInv /\ phase # "idle" =>
    /\ Target \in Nat /\ Target <= Cap
    /\ Tail_ \in Nat /\ Tail_ <= Target /\ Target <= Tail_ + POOL_TOKENS /\ Tail_ % POOL_TOKENS = 0
<1> SUFFICES ASSUME IInv, phase # "idle"
             PROVE  Target \in Nat /\ Target <= Cap
  BY CheckpointFacts DEF Tail_
<1>1. req \in Requests /\ Len(req.prompt) \in Nat /\ Cap \in Nat
  BY CacheAssumption, RequestType DEF IInv, TypeOK, CacheAssumption
<1> QED
  BY <1>1 DEF Target

LEMMA TailPrimed == (IInv /\ phase # "idle" => Tail_ \in Nat)'
<1>1. IInv /\ phase # "idle" => Tail_ \in Nat
  BY TailFacts
<1> QED
  BY <1>1, PTL

\* The ring has room for the tail's snapshot beside what a prefill may add to it.
Roomy == NSnaps > 1 \/ (NSnaps = 1 /\ SnapInterval > POOL_TOKENS)

NewestKept == snapLast = 0 \/ \E i \in Slots : snapPos[i] = snapLast

\* Once the prefill has passed its tail checkpoint a slot holds it, and while
\* it is the newest it is not the slot that is overwritten next.
TailKept ==
  (phase # "idle" /\ Roomy /\ resume < Tail_) =>
    /\ phase = "sample" => pos >= Tail_
    /\ pos >= Tail_ =>
         /\ snapLast >= Tail_
         /\ \E i \in Slots : snapPos[i] = Tail_ /\ (NSnaps > 1 /\ snapLast = Tail_ => i # snapNext)

KeptInv == IInv /\ NewestKept /\ TailKept

\* What is captured is past everything that was: the newest snapshot is at or
\* below the rows computed.
LEMMA NewestBelow ==
  ASSUME IInv, NewestKept
  PROVE  snapLast \in 0..pos /\ pos \in Nat /\ snapLast % POOL_TOKENS = 0
<1>1. pos \in Nat /\ snapLast \in Nat /\ POOL_TOKENS \in Nat \ {0} /\ snapLast # Empty
  BY CacheAssumption, PoolAssumption DEF IInv, TypeOK, CacheAssumption, PoolAssumption, Empty
<1>2. CASE snapLast = 0
  BY <1>1, <1>2
<1>3. CASE \E i \in Slots : snapPos[i] = snapLast
  BY <1>1, <1>3 DEF IInv, SnapshotsSound
<1> QED
  BY <1>2, <1>3 DEF NewestKept

LEMMA BeginKeeps ==
  ASSUME KeptInv, NEW r \in Requests, BeginExtension(r) \/ BeginSnapshot(r) \/ BeginRestart(r)
  PROVE  KeptInv'
<1>1. IInv' /\ phase' = "prefill"
  BY BeginLands DEF KeptInv
<1>2. PICK n, kept, captured, slot : Land(r, n, kept, captured, slot)
  BY DEF BeginExtension, BeginSnapshot, BeginRestart, Resume, Reset
<1>3. resume' = n /\ pos' = n /\ (snapLast' = 0 \/ \E i \in DOMAIN snapPos' : snapLast' = snapPos'[i])
  BY <1>2 DEF Land, IsLatest
<1>4. NewestKept'
  BY <1>1, <1>3 DEF NewestKept, IInv, TypeOK
<1>5. Tail_' \in Nat /\ pos' \in Nat
  <2>1. (IInv /\ phase # "idle" => Tail_ \in Nat)'
    BY TailPrimed
  <2> QED
    BY <1>1, <2>1, CacheAssumption DEF IInv, TypeOK, CacheAssumption
<1>6. TailKept'
  BY <1>1, <1>3, <1>5 DEF TailKept
<1> QED
  BY <1>1, <1>4, <1>6 DEF KeptInv

\* A chunk that starts before the tail checkpoint ends there at the latest.
LEMMA ChunkStops ==
  ASSUME IInv, phase = "prefill", pos < Target, NSnaps > 0, pos < Tail_
  PROVE  pos + ChunkRows <= Tail_
<1>1. pos \in Nat /\ ChunkRows \in Nat /\ Tail_ \in Nat
  BY ChunkRowsBound, TailFacts, CacheAssumption DEF IInv, TypeOK, CacheAssumption
<1>2. PICK n : ChunkRows = CutAt(n, Tail_)
  BY DEF ChunkRows
<1> QED
  BY <1>1, <1>2 DEF CutAt

LEMMA ChunkKeeps ==
  ASSUME KeptInv, PrefillChunk
  PROVE  KeptInv'
<1> DEFINE n == ChunkRows
           p == pos + n
<1>1. /\ phase = "prefill" /\ pos < Target /\ pos' = p /\ SnapCapture(p)
      /\ UNCHANGED <<resume, req, phase>> /\ Tail_' = Tail_
  BY DEF PrefillChunk, Tail_, Target
<1>2. IInv /\ IInv'
  BY PrefillChunkInv DEF KeptInv
<1>3. /\ pos \in Nat /\ n \in Nat \ {0} /\ p <= Target
      /\ snapLast \in 0..pos /\ snapLast % POOL_TOKENS = 0
      /\ Target \in Nat /\ Tail_ \in Nat /\ Target <= Tail_ + POOL_TOKENS /\ Tail_ % POOL_TOKENS = 0
      /\ NSnaps \in Nat /\ SnapInterval \in Nat /\ POOL_TOKENS \in Nat \ {0}
  BY <1>1, <1>2, NewestBelow, TailFacts, ChunkRowsBound, CacheAssumption, PoolAssumption
     DEF KeptInv, CacheAssumption, PoolAssumption, Target
<1>4. NSnaps > 0 /\ pos < Tail_ => p <= Tail_
  BY <1>1, <1>2, ChunkStops
<1>5. Roomy => NSnaps > 0
  BY <1>3 DEF Roomy
<1> HIDE DEF n
<1>6. CASE ~(CaptureDue(p) /\ p % POOL_TOKENS = 0)
  <2>1. UNCHANGED <<snapPos, snapNext, snapLast>>
    BY <1>1, <1>6 DEF SnapCapture, snaps
  <2>2. NewestKept'
    BY <2>1 DEF KeptInv, NewestKept
  <2>3. Roomy /\ pos < Tail_ => p < Tail_
    BY <1>3, <1>4, <1>5, <1>6 DEF CaptureDue
  <2>4. TailKept'
    BY <1>1, <1>3, <2>1, <2>3 DEF KeptInv, TailKept, Roomy
  <2> QED
    BY <1>2, <2>2, <2>4 DEF KeptInv
<1>7. CASE CaptureDue(p) /\ p % POOL_TOKENS = 0
  <2>1. /\ NSnaps > 0 /\ snapPos' = [snapPos EXCEPT ![snapNext] = p]
        /\ snapNext' = (snapNext + 1) % NSnaps /\ snapLast' = p
        /\ snapNext \in 0..(NSnaps - 1) /\ snapNext \in Slots /\ snapPos \in [Slots -> Empty..Cap]
    <3>1. NSnaps > 0
      BY <1>7 DEF CaptureDue
    <3>2. snapNext \in Slots /\ snapPos \in [Slots -> Empty..Cap] /\ snapNext \in 0..(NSnaps - 1)
      BY <1>2, <1>3, <3>1 DEF IInv, TypeOK, Slots
    <3>3. /\ snapPos' = [snapPos EXCEPT ![snapNext] = p] /\ snapNext' = (snapNext + 1) % NSnaps
          /\ snapLast' = IF p > snapLast THEN p ELSE snapLast
      BY <1>1, <1>7 DEF SnapCapture, NextSlot
    <3>4. p > snapLast
      BY <1>3
    <3> QED
      BY <3>1, <3>2, <3>3, <3>4
  <2>2. NewestKept'
    BY <2>1 DEF NewestKept
  <2>3. ASSUME Roomy, resume < Tail_, p >= Tail_
        PROVE  \E i \in Slots : snapPos'[i] = Tail_ /\ (NSnaps > 1 /\ snapLast' = Tail_ => i # snapNext')
    <3>1. CASE pos < Tail_
      <4>1. p = Tail_ /\ snapPos'[snapNext] = Tail_
        BY <1>3, <1>4, <1>5, <2>1, <2>3, <3>1
      <4>2. NSnaps > 1 => (snapNext + 1) % NSnaps # snapNext
        BY <1>3, <2>1
      <4> QED
        BY <2>1, <4>1, <4>2
    <3>2. CASE pos >= Tail_
      <4>1. PICK i \in Slots :
              snapLast >= Tail_ /\ snapPos[i] = Tail_ /\ (NSnaps > 1 /\ snapLast = Tail_ => i # snapNext)
        BY <1>1, <2>3, <3>2 DEF KeptInv, TailKept
      <4>2. p >= Tail_ + POOL_TOKENS /\ p # Tail_
        <5>1. p \in Nat /\ Tail_ \in Nat /\ Tail_ < p /\ Tail_ % POOL_TOKENS = 0 /\ p % POOL_TOKENS = 0
          BY <1>3, <1>7, <3>2
        <5>2. POOL_TOKENS \in Nat \ {0}
          BY <1>3
        <5> HIDE DEF p
        <5>3. Tail_ + POOL_TOKENS <= p
          BY <5>1, PoolApart
        <5> QED
          BY <5>1, <5>2, <5>3
      <4>3. snapLast = Tail_
        <5>1. snapLast > Tail_ => Tail_ + POOL_TOKENS <= snapLast
          <6>1. snapLast \in Nat /\ snapLast % POOL_TOKENS = 0
                /\ Tail_ \in Nat /\ Tail_ % POOL_TOKENS = 0
            BY <1>3
          <6> HIDE DEF p
          <6> QED
            BY <6>1, PoolApart
        <5> QED
          BY <1>1, <1>3, <4>1, <5>1
      <4>4. NSnaps > 1
        BY <1>3, <1>7, <2>3, <4>2, <4>3 DEF Roomy, CaptureDue
      <4> QED
        BY <2>1, <4>1, <4>2, <4>3, <4>4
    <3> QED
      BY <1>3, <3>1, <3>2
  <2>4. TailKept'
    BY <1>1, <1>3, <2>1, <2>3 DEF TailKept, Roomy
  <2> QED
    BY <1>2, <2>2, <2>4 DEF KeptInv
<1> QED
  BY <1>6, <1>7

LEMMA KeptInductive == KeptInv /\ [Next]_vars => KeptInv'
<1> SUFFICES ASSUME KeptInv, [Next]_vars
             PROVE  KeptInv'
  OBVIOUS
<1>1. IInv /\ IInv'
  BY NextInv DEF KeptInv
<1>2. CASE \E r \in Requests : BeginExtension(r) \/ BeginSnapshot(r) \/ BeginRestart(r)
  BY <1>2, BeginKeeps
<1>3. CASE PrefillChunk
  BY <1>3, ChunkKeeps
<1>4. CASE PrefillDrop \/ PrefillHead \/ (\E t \in Token : Decode(t)) \/ Stop \/ UNCHANGED vars
  <2>1. UNCHANGED <<snapPos, snapNext, snapLast, resume>>
    BY <1>4 DEF PrefillDrop, PrefillHead, Decode, Stop, vars, snaps
  <2>2. phase' # "idle" =>
          /\ phase # "idle" /\ Tail_' = Tail_
          /\ phase' = "sample" => phase = "sample" \/ pos' >= Target \/ resume >= Cap
    BY <1>4 DEF PrefillDrop, PrefillHead, Decode, Stop, vars, runner, Tail_, Target
  <2>3. /\ pos \in Nat /\ pos' \in Nat /\ pos <= pos' /\ resume \in Nat /\ Cap \in Nat
        /\ phase # "idle" => pos = pos' \/ phase = "sample"
    <3>1. pos \in Nat /\ resume \in Nat /\ Cap \in Nat
      BY <1>1, CacheAssumption DEF IInv, TypeOK, CacheAssumption
    <3>2. CASE \E t \in Token : Decode(t)
      BY <3>1, <3>2 DEF Decode
    <3>3. CASE PrefillDrop \/ PrefillHead \/ Stop \/ UNCHANGED vars
      <4>1. pos' = pos
        BY <3>3 DEF PrefillDrop, PrefillHead, Stop, vars, runner
      <4> QED
        BY <3>1, <4>1
    <3> QED
      BY <1>4, <3>2, <3>3
  <2>4. phase # "idle" => Target \in Nat /\ Tail_ \in Nat /\ Tail_ <= Target /\ Target <= Cap
    BY <1>1, TailFacts
  <2>5. NewestKept'
    BY <2>1 DEF KeptInv, NewestKept
  <2>6. TailKept'
    BY <2>1, <2>2, <2>3, <2>4 DEF KeptInv, TailKept, Roomy
  <2> QED
    BY <1>1, <2>5, <2>6 DEF KeptInv
<1> QED
  BY <1>2, <1>3, <1>4 DEF Next

\* The ring never loses the newest snapshot, which the next interval is counted
\* from, and a prompt that is answered leaves its tail state in a slot, unless
\* it was resumed past it or one slot must serve intervals shorter than a pool.
THEOREM CheckpointsAreKept == ContextSpec => []CheckpointsKept
<1>1. Init => KeptInv
  BY InitInv DEF KeptInv, NewestKept, TailKept, Init
<1>2. KeptInv => CheckpointsKept
  BY DEF KeptInv, NewestKept, TailKept, CheckpointsKept, Roomy
<1> QED
  BY <1>1, <1>2, KeptInductive, RunnerPart, PTL DEF Spec

-----------------------------------------------------------------------------
(* Refinement: with its cache the engine answers like one without.         *)

\* Logits over all rows are those of both engines.
LEMMA ColdBasis == \A rows : Cold!Basis(rows) = Logits(rows, rows)
BY DEF Cold!Basis, Logits

\* A request that begins is pending in the cold engine.
LEMMA BeginRefines ==
  ASSUME IInv, NEW r \in Requests,
         BeginExtension(r) \/ BeginSnapshot(r) \/ BeginRestart(r)
  PROVE  Cold!Begin(r)
<1>1. phase = "idle" /\ phase' = "prefill" /\ req' = r
  BY BeginLands
<1>2. req = NoReq
  BY <1>1 DEF IInv, TypeOK
<1>3. QED
  BY <1>1, <1>2 DEF Cold!Begin

\* A chunk is invisible.
LEMMA PrefillChunkRefines ==
  ASSUME PrefillChunk PROVE UNCHANGED Cold!cvars
BY DEF PrefillChunk, Cold!cvars

\* The end of the prefill, with or without a head, is the cold answer.
LEMMA PrefillEndRefines ==
  ASSUME IInv, PrefillHead \/ PrefillDrop PROVE Cold!Answer
<1> DEFINE rows == RowsOf(req.prompt, req.images)
<1>1. /\ phase = "prefill" /\ phase' = "sample" /\ pos' = pos /\ req' = req
      /\ req # NoReq /\ req \in Requests
      /\ pos \in Nat /\ Cap \in Nat /\ pos <= Cap /\ pos <= Len(req.prompt)
      /\ cachedImages = req.images /\ hist = SubSeq(req.prompt, 1, pos)
      /\ req.prompt \in Seq(Token) /\ Len(req.prompt) \in Nat
      /\ req.images \in SUBSET AllImages
  BY CacheAssumption, RequestType
  DEF PrefillHead, PrefillDrop, runner, IInv, TypeOK, ServingSound, CacheAssumption
<1>2. Len(rows) = Len(req.prompt)
  BY <1>1, RowsOfProperties
<1>3. CASE pos < Cap
  <2>1. PrefillHead
    BY <1>1, <1>3, PrefillDropInv
  <2>2. pos = Len(req.prompt)
    BY <1>1, <1>3, <2>1 DEF PrefillHead, Target
  <2>3. hist = req.prompt
    BY <1>1, <2>2, SubSeqFull
  <2>4. ServingSound' /\ pos' < Cap /\ phase' = "sample"
    BY <1>1, <1>3, <2>1, PrefillHeadInv DEF IInv
  <2>5. ResidentRows' = rows
    BY <1>1, <2>1, <2>3 DEF ResidentRows, PrefillHead, runner
  <2>6. logits' = Logits(rows, rows)
    BY <2>4, <2>5 DEF ServingSound
  <2>7. Len(rows) < Cap
    BY <1>2, <1>3, <2>2
  <2>8. QED
    BY <1>1, <1>3, <2>6, <2>7, ColdBasis DEF Cold!Answer, Cold!Ready
<1>4. CASE pos = Cap
  <2>1. ~(Len(rows) < Cap)
    BY <1>1, <1>2, <1>4
  <2>2. QED
    BY <1>1, <1>4, <2>1, ColdBasis DEF Cold!Answer, Cold!Ready, Cold!NoLogits
<1>5. QED
  BY <1>1, <1>3, <1>4

\* A decode step generates the token from exactly the rows before it.
LEMMA DecodeRefines ==
  ASSUME IInv, NEW t \in Token, Decode(t) PROVE Cold!Generate(t)
<1>1. /\ phase = "sample" /\ phase' = "sample" /\ pos < Cap /\ pos' = pos + 1
      /\ pos \in Nat /\ Cap \in Nat
      /\ req' = req /\ cachedImages = req.images /\ pos = Len(hist)
  BY CacheAssumption DEF Decode, IInv, TypeOK, ServingSound, ResidentSound, CacheAssumption
<1>2. logits = Logits(ResidentRows, ResidentRows)
  BY <1>1 DEF IInv, ServingSound
<1>3. logits.state = ResidentRows /\ Len(ResidentRows) = pos
  BY <1>1, <1>2, ResidentRowsType DEF IInv, Logits
<1> DEFINE longer == Append(ResidentRows, RowAt(t, req.images, pos))
<1>4. logits' = Logits(longer, longer)
  BY <1>1, DecodeInv
<1>5. Len(longer) = pos + 1
  <2>1. ResidentRows \in Seq(Row) /\ RowAt(t, req.images, pos) \in Row
    BY <1>1, ResidentRowsType, RowType DEF IInv, TypeOK
  <2>2. QED
    BY <1>3, <2>1
<1> HIDE DEF longer
<1>6. CASE pos' < Cap
  <2>1. Len(longer) < Cap
    BY <1>1, <1>5, <1>6
  <2>2. Cold!Ready(longer)
    BY <1>1, <1>4, <1>6, <2>1, ColdBasis DEF Cold!Ready
  <2>3. QED
    BY <1>1, <1>3, <2>2, ColdBasis DEF Cold!Generate, longer
<1>7. CASE ~(pos' < Cap)
  <2>1. ~(Len(longer) < Cap)
    BY <1>1, <1>5, <1>7
  <2>2. Cold!Ready(longer)
    BY <1>1, <1>7, <2>1, ColdBasis DEF Cold!Ready, Cold!NoLogits
  <2>3. QED
    BY <1>1, <1>3, <2>2, ColdBasis DEF Cold!Generate, longer
<1>8. QED
  BY <1>6, <1>7

\* Every step of the runner is a step or a stutter of the cold engine.
LEMMA NextRefines == ASSUME IInv, [Next]_vars PROVE [Cold!Next]_(Cold!cvars)
<1>1. ASSUME NEW r \in Requests,
             BeginExtension(r) \/ BeginSnapshot(r) \/ BeginRestart(r)
      PROVE  Cold!Next
  BY <1>1, BeginRefines DEF Cold!Next
<1>2. CASE PrefillDrop \/ PrefillHead
  BY <1>2, PrefillEndRefines DEF Cold!Next
<1>3. CASE PrefillChunk
  BY <1>3, PrefillChunkRefines
<1>4. ASSUME NEW t \in Token, Decode(t) PROVE Cold!Next
  BY <1>4, DecodeRefines DEF Cold!Next
<1>5. CASE Stop
  BY <1>5, ColdBasis DEF Stop, Cold!Next, Cold!End, Cold!NoLogits
<1>6. CASE UNCHANGED vars
  BY <1>6 DEF vars, runner, Cold!cvars
<1>7. QED
  BY <1>1, <1>2, <1>3, <1>4, <1>5, <1>6 DEF Next

\* Whatever it kept from earlier requests, the engine samples every token from
\* the logits an engine that kept nothing would have computed.
THEOREM Refinement == ContextSpec => AnswersLikeCold
<1>1. Init => Cold!Init
  BY ColdBasis DEF Init, Cold!Init, Cold!NoLogits
<1>2. QED
  BY <1>1, NextRefines, Inductive, RunnerPart, PTL DEF Spec, Cold!Spec, AnswersLikeCold

-----------------------------------------------------------------------------
(* The copies that a capture and a restore really are.                     *)

LEMMA CopiesAssumed == Copies!StreamAssumed
BY CacheAssumption, CopyAssumption DEF Copies!StreamAssumed, CacheAssumption, CopyAssumption

LEMMA CopyParts ==
  /\ ContextInit => Copies!Init
  /\ [ContextNext]_context => [Copies!Next]_(Copies!vars)
BY DEF ContextInit, ContextNext, context, Runner, Copier, Indexer, Choice,
       copies, Copies!vars, Copies!believed, Copies!memory

LEMMA CopiesInductive == ContextSpec => []Copies!StreamInv
<1>1. ContextInit => Copies!StreamInv
  BY CopyParts, CopiesAssumed, Copies!StreamInit
<1>2. Copies!StreamInv /\ [ContextNext]_context => Copies!StreamInv'
  BY CopyParts, CopiesAssumed, Copies!StreamKeeps
<1> QED
  BY <1>1, <1>2, PTL DEF ContextSpec

\* When the compute stream is idle the device holds the state the host believes
\* in, and when both are, every slot holds what was captured into it.
THEOREM DeviceHoldsTheBelieved == ContextSpec => []SettledAsBelieved
<1>1. Copies!StreamInv => SettledAsBelieved
  BY CopiesAssumed, Copies!StreamSettles DEF SettledAsBelieved
<1> QED
  BY <1>1, CopiesInductive, PTL

\* No kernel finds a part of a state that is not that of the prefix it goes on
\* from, however captures, restores and resets are queued around it.
THEOREM KernelsFindWholeStates == ContextSpec => KernelsConsumeWholeStates
<1>1. Copies!StreamInv /\ Copies!StreamInv' /\ [ContextNext]_context
        => [\A p \in Copies!Parts : device'[p] # Copies!Garbage]_device
  BY Copies!StreamConsumes
<1> QED
  BY <1>1, CopiesInductive, PTL DEF ContextSpec, KernelsConsumeWholeStates, Copies!KernelsConsumeWholeStates

\* What a capture put into the staging buffer stays there until it is in its slot.
THEOREM StageStaysUntilStored == ContextSpec => StageKeptUntilStored
<1> DEFINE Kept == \A i \in DOMAIN copy :
                     (/\ copy[i].op = "store"
                      /\ \A j \in 1..i : copy[j].op = "wait" => copy[j].records = 0)
                     => stage'[copy[i].part] = stage[copy[i].part]
<1>1. Copies!StreamInv /\ [ContextNext]_context => [Kept]_(Copies!vars)
  BY CopyParts, CopiesAssumed, Copies!StreamStages
<1> QED
  BY <1>1, CopiesInductive, PTL DEF ContextSpec, StageKeptUntilStored, Copies!StageKeptUntilStored

-----------------------------------------------------------------------------
(* The pools of the indexer's keys, whose rows come through a ring.          *)

\* The rows of complete pools.
Pooled(n) == (n \div POOL_TOKENS) * POOL_TOKENS

IndexTypes ==
  /\ tokens \in Seq(Token) /\ Len(tokens) <= IndexCap
  /\ DOMAIN ring = 0..(Index!RawRows - 1)

\* The ring has the rows of the pool that is begun.
RingInv ==
  \A j \in Pooled(Len(tokens))..(Len(tokens) - 1) : ring[j % Index!RawRows] = Index!Row(tokens, j)

\* A pool whose rows are there is made of them.
MadeOf(h, p) == [i \in 1..POOL_TOKENS |-> Index!Row(h, p * POOL_TOKENS + i - 1)]

PoolsInv == \A p \in Nat : p * POOL_TOKENS + POOL_TOKENS <= Len(tokens) => pools[p] = MadeOf(tokens, p)

IndexInv == IndexTypes /\ RingInv /\ PoolsInv

LEMMA IndexSizes ==
  /\ POOL_TOKENS \in Nat \ {0} /\ MaxChunk \in Nat \ {0} /\ Index!RawRows = MaxChunk + POOL_TOKENS
  /\ IndexCap \in Nat \ {0} /\ IndexCap % POOL_TOKENS = 0
BY PoolAssumption, CacheAssumption, IndexAssumption
   DEF PoolAssumption, CacheAssumption, IndexAssumption, Index!RawRows

\* Numbers that are less than d apart have remainders of their own.
LEMMA OwnRemainder ==
  ASSUME NEW d \in Nat \ {0}, NEW a \in Nat, NEW b \in Nat, a < b, b < a + d
  PROVE  a % d # b % d
<1> SUFFICES ASSUME a % d = b % d PROVE FALSE
  OBVIOUS
<1>1. PICK m \in Nat : m = a \div d
  BY Quotient
<1>2. PICK n \in Nat : n = b \div d
  BY Quotient
<1>3. PICK r \in Nat : r = a % d
  OBVIOUS
<1>4. PICK x \in Nat : x = m * d
  OBVIOUS
<1>5. PICK y \in Nat : y = n * d
  OBVIOUS
<1>6. a = x + r /\ b = y + r
  BY <1>1, <1>2, <1>3, <1>4, <1>5, Quotient
<1>7. x < y /\ y < x + d
  BY <1>6
<1>8. CASE m >= n
  <2>1. m * d >= n * d
    <3>1. PICK e \in Nat : m = n + e
      <4>1. m - n \in Nat /\ m = n + (m - n)
        BY <1>8
      <4> QED
        BY <4>1
    <3>2. m * d = n * d + e * d /\ e * d \in Nat /\ n * d \in Nat
      BY <3>1
    <3> QED
      BY <3>2
  <2> QED
    BY <1>4, <1>5, <1>7, <2>1
<1>9. CASE m < n
  <2>1. PICK e \in Nat : n = m + 1 + e
    <3>1. n - m - 1 \in Nat /\ n = m + 1 + (n - m - 1)
      BY <1>9
    <3> QED
      BY <3>1
  <2>2. n * d = m * d + d + e * d /\ e * d \in Nat
    BY <2>1
  <2> QED
    BY <1>4, <1>5, <1>7, <2>2
<1> QED
  BY <1>8, <1>9

\* A pool that is not complete begins where the complete ones end, or later.
LEMMA PooledFacts ==
  ASSUME NEW n \in Nat
  PROVE  /\ Pooled(n) \in Nat /\ Pooled(n) <= n /\ n < Pooled(n) + POOL_TOKENS
         /\ \A p \in Nat : p * POOL_TOKENS \in Nat
         /\ \A p \in Nat : p * POOL_TOKENS + POOL_TOKENS > n => p * POOL_TOKENS >= Pooled(n)
         /\ \A m \in Nat : n <= m => Pooled(n) <= Pooled(m)
         /\ n % POOL_TOKENS = 0 => Pooled(n) = n
<1>1. PICK d \in Nat \ {0} : d = POOL_TOKENS
  BY IndexSizes
<1>2. /\ Pooled(n) \in Nat /\ Pooled(n) <= n /\ n < Pooled(n) + d
      /\ n % d = 0 => Pooled(n) = n
  BY <1>1, Quotient DEF Pooled
<1>3. ASSUME NEW p \in Nat, NEW q \in Nat, p < q
      PROVE  p * d + d <= q * d
  <2>1. PICK e \in Nat : q = p + 1 + e
    <3>1. q - p - 1 \in Nat /\ q = p + 1 + (q - p - 1)
      BY <1>3
    <3> QED
      BY <3>1
  <2>2. q * d = p * d + d + e * d /\ e * d \in Nat
    BY <2>1
  <2> QED
    BY <2>2
<1>4. \A p \in Nat : p * d \in Nat
  OBVIOUS
<1>5. ASSUME NEW p \in Nat, p * d + d > n PROVE p * d >= Pooled(n)
  <2>1. PICK m \in Nat : m = n \div d
    BY Quotient
  <2>2. m * d <= n /\ Pooled(n) = m * d
    BY <1>1, <2>1, Quotient DEF Pooled
  <2>3. ~(p < m)
    <3>1. p < m => p * d + d <= m * d
      BY <1>3
    <3>2. p * d \in Nat /\ m * d \in Nat
      BY <1>4
    <3> QED
      BY <1>5, <2>2, <3>1, <3>2
  <2>4. p = m \/ m < p
    BY <2>3
  <2>5. m < p => m * d + d <= p * d
    BY <1>3
  <2>6. p * d \in Nat /\ m * d \in Nat
    BY <1>4
  <2> QED
    BY <2>2, <2>4, <2>5, <2>6
<1>6. ASSUME NEW m \in Nat, n <= m PROVE Pooled(n) <= Pooled(m)
  <2>1. PICK a \in Nat : a = n \div d
    BY Quotient
  <2>2. PICK b \in Nat : b = m \div d
    BY Quotient
  <2>3. a * d <= n /\ m < b * d + d /\ Pooled(n) = a * d /\ Pooled(m) = b * d
    BY <1>1, <2>1, <2>2, Quotient DEF Pooled
  <2>4. a * d \in Nat /\ b * d \in Nat
    BY <1>4
  <2>5. b < a => b * d + d <= a * d
    BY <1>3
  <2>6. a < b => a * d + d <= b * d
    BY <1>3
  <2> QED
    BY <1>6, <2>3, <2>4, <2>5, <2>6
<1> QED
  BY <1>1, <1>2, <1>4, <1>5, <1>6

LEMMA IndexBegins == ContextInit => IndexInv
<1> SUFFICES ASSUME ContextInit PROVE IndexInv
  OBVIOUS
<1>1. tokens = <<>> /\ DOMAIN ring = 0..(Index!RawRows - 1) /\ Len(tokens) = 0
  BY DEF ContextInit, Index!IndexInit
<1>2. IndexTypes
  BY <1>1, IndexSizes DEF IndexTypes
<1>3. RingInv
  <2>1. Pooled(0) \in Nat
    BY PooledFacts
  <2>2. Pooled(0)..(0 - 1) = {}
    BY <2>1
  <2> QED
    BY <1>1, <2>2 DEF RingInv
<1>4. PoolsInv
  <2>1. \A p \in Nat : ~(p * POOL_TOKENS + POOL_TOKENS <= 0)
    <3>1. \A p \in Nat : p * POOL_TOKENS \in Nat
      BY PooledFacts
    <3> QED
      BY <3>1, IndexSizes
  <2> QED
    BY <1>1, <2>1 DEF PoolsInv
<1> QED
  BY <1>2, <1>3, <1>4 DEF IndexInv

\* Rows that come: the ring has them and those of the pool that was begun.
LEMMA RingTakes ==
  ASSUME IndexInv, NEW n \in 1..MaxChunk, NEW new \in [1..n -> Token], Index!Forward(new),
         NEW old, old = Len(tokens)
  PROVE  /\ IndexTypes' /\ Len(tokens') = old + n /\ old \in Nat /\ n \in Nat \ {0} /\ n <= MaxChunk
         /\ \A j \in 0..(old - 1) : Index!Row(tokens', j) = Index!Row(tokens, j)
         /\ \A j \in Pooled(old)..(old + n - 1) : ring'[j % Index!RawRows] = Index!Row(tokens', j)
<1>1. PICK R \in Nat \ {0} : R = Index!RawRows
  BY IndexSizes
<1>2. /\ tokens \in Seq(Token) /\ new \in Seq(Token) /\ Len(new) = n /\ old \in Nat
      /\ n \in Nat \ {0} /\ n <= MaxChunk
  BY IndexSizes DEF IndexInv, IndexTypes
<1>3. /\ tokens' = tokens \o new
      /\ tokens' \in Seq(Token) /\ Len(tokens') = old + n
      /\ \A i \in 1..old : tokens'[i] = tokens[i]
  <2>1. tokens' = tokens \o new
    BY DEF Index!Forward
  <2>2. /\ tokens \o new \in Seq(Token) /\ Len(tokens \o new) = old + n
        /\ \A i \in 1..(old + n) : (tokens \o new)[i] = IF i <= old THEN tokens[i] ELSE new[i - old]
    <3>1. tokens \in Seq(Token) /\ new \in Seq(Token)
      BY <1>2
    <3>2. /\ tokens \o new \in Seq(Token) /\ Len(tokens \o new) = Len(tokens) + Len(new)
          /\ \A i \in 1..(Len(tokens) + Len(new)) :
               (tokens \o new)[i] = IF i <= Len(tokens) THEN tokens[i] ELSE new[i - Len(tokens)]
      BY <3>1, ConcatProperties
    <3> QED
      BY <1>2, <3>2
  <2>3. \A i \in 1..old : i \in 1..(old + n) /\ i <= old
    BY <1>2
  <2> QED
    BY <2>1, <2>2, <2>3
<1>4. /\ (old + n) - 1 < IndexCap
      /\ ring' = [slot \in 0..(R - 1) |->
                   IF \E j \in old..(old + n - 1) : j % R = slot
                   THEN Index!Row(tokens', CHOOSE j \in old..(old + n - 1) : j % R = slot)
                   ELSE ring[slot]]
  BY <1>1, <1>2, <1>3 DEF Index!Forward, IndexInv, IndexTypes
<1>5. IndexTypes'
  BY <1>1, <1>2, <1>3, <1>4, IndexSizes DEF IndexTypes
<1>6. PICK base \in Nat : base = Pooled(old) /\ base <= old /\ old < base + POOL_TOKENS
  BY <1>2, PooledFacts
<1>7. old + n <= base + R
  BY <1>1, <1>2, <1>6, IndexSizes
<1>8. \A j \in Nat : j % R \in 0..(R - 1)
  BY <1>1
<1>9. ASSUME NEW i \in base..(old + n - 1), NEW j \in base..(old + n - 1), i % R = j % R
      PROVE  i = j
  <2>1. i \in Nat /\ j \in Nat /\ i < j + R /\ j < i + R
    BY <1>2, <1>6, <1>7
  <2>2. ~(i < j)
    BY <1>9, <2>1, OwnRemainder
  <2>3. ~(j < i)
    BY <1>9, <2>1, OwnRemainder
  <2> QED
    BY <2>1, <2>2, <2>3
<1>10. ASSUME NEW j \in old..(old + n - 1) PROVE ring'[j % R] = Index!Row(tokens', j)
  <2>1. PICK c : c = CHOOSE i \in old..(old + n - 1) : i % R = j % R
    OBVIOUS
  <2>2. c \in old..(old + n - 1) /\ c % R = j % R
    BY <2>1
  <2>3. c \in base..(old + n - 1) /\ j \in base..(old + n - 1) /\ j \in Nat
    BY <1>2, <1>6, <2>2
  <2>4. c = j
    BY <1>9, <2>2, <2>3
  <2>5. ring'[j % R] = Index!Row(tokens', c)
    BY <1>4, <1>8, <2>1, <2>3
  <2> QED
    BY <2>4, <2>5
<1>11. \A j \in 0..(old - 1) : Index!Row(tokens', j) = Index!Row(tokens, j)
  <2>1. \A j \in 0..(old - 1) : j + 1 \in 1..old
    BY <1>2
  <2> QED
    BY <1>3, <2>1 DEF Index!Row
<1>12. ASSUME NEW j \in base..(old - 1) PROVE ring'[j % R] = Index!Row(tokens', j)
  <2>1. j \in Nat /\ j \in base..(old + n - 1) /\ j \in 0..(old - 1) /\ j < old
    BY <1>2, <1>6
  <2>2. \A i \in old..(old + n - 1) : i \in base..(old + n - 1) /\ i # j
    BY <1>2, <1>6, <2>1
  <2>3. ~\E i \in old..(old + n - 1) : i % R = j % R
    BY <1>9, <2>1, <2>2
  <2>4. ring'[j % R] = ring[j % R]
    BY <1>4, <1>8, <2>1, <2>3
  <2>5. ring[j % R] = Index!Row(tokens, j)
    BY <1>1, <1>6 DEF IndexInv, RingInv
  <2> QED
    BY <1>11, <2>1, <2>4, <2>5
<1>13. \A j \in base..(old + n - 1) : j \in base..(old - 1) \/ j \in old..(old + n - 1)
  BY <1>2, <1>6
<1> QED
  BY <1>1, <1>2, <1>3, <1>5, <1>6, <1>10, <1>11, <1>12, <1>13

LEMMA ForwardKeepsIndex ==
  ASSUME IndexInv, NEW n \in 1..MaxChunk, NEW new \in [1..n -> Token], Index!Forward(new)
  PROVE  IndexInv'
<1>1. PICK old : old = Len(tokens)
  OBVIOUS
<1>2. /\ IndexTypes' /\ Len(tokens') = old + n /\ old \in Nat /\ n \in Nat \ {0} /\ n <= MaxChunk
      /\ \A j \in 0..(old - 1) : Index!Row(tokens', j) = Index!Row(tokens, j)
      /\ \A j \in Pooled(old)..(old + n - 1) : ring'[j % Index!RawRows] = Index!Row(tokens', j)
  BY <1>1, RingTakes
<1>3. PICK P \in Nat \ {0} : P = POOL_TOKENS
  BY IndexSizes
<1>4. PICK base \in Nat : base = Pooled(old)
  BY <1>2, PooledFacts
<1>5. RingInv'
  <2>1. Pooled(old + n) \in Nat /\ base <= Pooled(old + n)
    BY <1>2, <1>4, PooledFacts
  <2>2. \A j \in Pooled(old + n)..((old + n) - 1) : j \in base..(old + n - 1)
    BY <1>2, <2>1
  <2> QED
    BY <1>2, <1>4, <2>2 DEF RingInv, Index!RawRows
<1>6. ASSUME NEW p \in Nat, p * P + P <= old + n PROVE pools'[p] = MadeOf(tokens', p)
  <2>1. PICK first \in Nat : first = p * P
    BY <1>3, PooledFacts
  <2>2. \A i \in 1..P : first + i - 1 \in first..(first + P - 1) /\ first + i - 1 \in Nat
    BY <2>1
  <2>3. p \in Index!Pools
    <3>1. PICK m \in Nat : m = IndexCap \div P
      BY <1>3, IndexSizes, Quotient
    <3>2. m * P = IndexCap
      BY <1>3, <3>1, IndexSizes, Quotient
    <3>3. old + n <= IndexCap
      BY <1>2 DEF IndexTypes
    <3>4. ~(p >= m)
      <4> SUFFICES ASSUME p >= m PROVE FALSE
        OBVIOUS
      <4>1. PICK e \in Nat : p = m + e
        <5>1. p - m \in Nat /\ p = m + (p - m)
          OBVIOUS
        <5> QED
          BY <5>1
      <4>2. p * P = m * P + e * P /\ e * P \in Nat /\ m * P \in Nat
        BY <4>1
      <4>3. first + P <= IndexCap
        BY <1>2, <1>6, <2>1, <3>3, IndexSizes
      <4> QED
        BY <2>1, <3>2, <4>2, <4>3
    <3>5. p \in 0..(m - 1)
      BY <3>4
    <3> QED
      BY <1>3, <3>1, <3>5 DEF Index!Pools
  <2>4. pools'[p] = IF Index!Completes(p, old, old + n - 1)
                    THEN [i \in 1..POOL_TOKENS |-> ring'[Index!Members(p)[i] % Index!RawRows]]
                    ELSE pools[p]
    <3>1. Len(tokens \o new) = old + n
      BY <1>2 DEF Index!Forward
    <3> QED
      BY <1>1, <2>3, <3>1 DEF Index!Forward
  <2>5. CASE first + P <= old
    <3>1. ~Index!Completes(p, old, old + n - 1)
      BY <1>2, <1>3, <2>1, <2>5 DEF Index!Completes
    <3>2. pools[p] = MadeOf(tokens, p)
      BY <1>1, <1>3, <2>1, <2>5 DEF IndexInv, PoolsInv
    <3>3. \A i \in 1..P : first + i - 1 \in 0..(old - 1)
      BY <1>2, <2>1, <2>5
    <3>4. MadeOf(tokens', p) = MadeOf(tokens, p)
      BY <1>2, <1>3, <2>1, <3>3 DEF MadeOf
    <3> QED
      BY <2>4, <3>1, <3>2, <3>4
  <2>6. CASE first + P > old
    <3>1. Index!Completes(p, old, old + n - 1)
      BY <1>2, <1>3, <1>6, <2>1, <2>6 DEF Index!Completes
    <3>2. first >= base
      BY <1>2, <1>3, <1>4, <2>1, <2>6, PooledFacts
    <3>3. \A i \in 1..P : first + i - 1 \in base..(old + n - 1)
      BY <1>2, <1>6, <2>1, <3>2
    <3>4. \A i \in 1..P : Index!Members(p)[i] = first + i - 1
      BY <1>3, <2>1 DEF Index!Members
    <3>5. \A i \in 1..P : ring'[Index!Members(p)[i] % Index!RawRows] = Index!Row(tokens', first + i - 1)
      BY <1>2, <1>4, <3>3, <3>4
    <3>6. [i \in 1..P |-> ring'[Index!Members(p)[i] % Index!RawRows]] = [i \in 1..P |-> Index!Row(tokens', first + i - 1)]
      BY <3>5
    <3> QED
      BY <1>3, <2>1, <2>4, <3>1, <3>6 DEF MadeOf
  <2> QED
    BY <1>2, <2>1, <2>5, <2>6
<1>7. PoolsInv'
  BY <1>2, <1>3, <1>6 DEF PoolsInv, MadeOf, Index!Row
<1> QED
  BY <1>2, <1>5, <1>7 DEF IndexInv

LEMMA ResumeKeepsIndex ==
  ASSUME IndexInv, NEW to \in Index!Resumes, Index!Resume(to)
  PROVE  IndexInv'
<1>1. PICK old : old = Len(tokens)
  OBVIOUS
<1>2. old \in Nat /\ tokens \in Seq(Token) /\ to \in Nat /\ to < old /\ to % POOL_TOKENS = 0 /\ old <= IndexCap
  BY <1>1, IndexSizes DEF IndexInv, IndexTypes, Index!Resumes
<1>3. /\ tokens' \in Seq(Token) /\ Len(tokens') = to /\ UNCHANGED <<ring, pools>>
      /\ \A i \in 1..to : tokens'[i] = tokens[i]
  BY <1>1, <1>2 DEF Index!Resume
<1>4. IndexTypes'
  BY <1>2, <1>3, IndexSizes DEF IndexInv, IndexTypes, Index!RawRows
<1>5. RingInv'
  <2>1. Pooled(to) = to
    BY <1>2, PooledFacts
  <2>2. to..(to - 1) = {}
    BY <1>2
  <2> QED
    BY <1>3, <2>1, <2>2 DEF RingInv
<1>6. ASSUME NEW p \in Nat, p * POOL_TOKENS + POOL_TOKENS <= to PROVE pools'[p] = MadeOf(tokens', p)
  <2>1. PICK P \in Nat \ {0} : P = POOL_TOKENS
    BY IndexSizes
  <2>2. PICK first \in Nat : first = p * P
    BY <2>1, PooledFacts
  <2>3. pools[p] = MadeOf(tokens, p)
    <3>1. p * POOL_TOKENS + POOL_TOKENS <= Len(tokens)
      BY <1>1, <1>2, <1>6, <2>1, <2>2
    <3> QED
      BY <3>1 DEF IndexInv, PoolsInv
  <2>4. \A i \in 1..P : (first + i - 1) + 1 \in 1..to
    BY <1>2, <1>6, <2>1, <2>2
  <2>5. \A i \in 1..P : Index!Row(tokens', first + i - 1) = Index!Row(tokens, first + i - 1)
    BY <1>3, <2>4 DEF Index!Row
  <2>6. MadeOf(tokens', p) = MadeOf(tokens, p)
    BY <2>1, <2>2, <2>5 DEF MadeOf
  <2> QED
    BY <1>3, <2>3, <2>6
<1>7. PoolsInv'
  BY <1>3, <1>6 DEF PoolsInv, MadeOf, Index!Row
<1> QED
  BY <1>4, <1>5, <1>7 DEF IndexInv

LEMMA IndexKeeps == IndexInv /\ [ContextNext]_context => IndexInv'
<1> SUFFICES ASSUME IndexInv, [ContextNext]_context PROVE IndexInv'
  OBVIOUS
<1>1. CASE Index!IndexNext
  BY <1>1, ForwardKeepsIndex, ResumeKeepsIndex DEF Index!IndexNext
<1>2. CASE UNCHANGED index
  BY <1>2 DEF index, IndexInv, IndexTypes, RingInv, PoolsInv, MadeOf, Index!Row, Index!RawRows
<1> QED
  BY <1>1, <1>2 DEF ContextNext, context, Runner, Copier, Indexer, Choice

\* "The raw indexer ring must hold every row a single call writes or reads"
\* (cache.cpp:7): whatever calls write the rows, and whatever was there before the
\* context was cut back, the key of every pool a query may see was made of that
\* pool's rows, although the ring keeps no more than one call's and a pool.
THEOREM PoolsAreTheirRows ==
  ContextSpec => [](part = "index" => Index!PoolKeysAreTheirRows)
<1>1. IndexInv => Index!PoolKeysAreTheirRows
  <2> SUFFICES ASSUME IndexInv, NEW p \in Index!VisiblePools(Len(tokens) - 1)
               PROVE  pools[p] = [i \in 1..POOL_TOKENS |-> Index!Row(tokens, Index!Members(p)[i])]
    BY DEF Index!PoolKeysAreTheirRows
  <2>1. p \in Nat /\ p * POOL_TOKENS + POOL_TOKENS - 1 <= Len(tokens) - 1
    BY DEF Index!VisiblePools, Index!Visible
  <2>2. p * POOL_TOKENS \in Nat /\ Len(tokens) \in Nat
    BY <2>1, PooledFacts DEF IndexInv, IndexTypes
  <2>3. p * POOL_TOKENS + POOL_TOKENS <= Len(tokens)
    BY <2>1, <2>2, IndexSizes
  <2>4. pools[p] = MadeOf(tokens, p)
    BY <2>1, <2>3 DEF IndexInv, PoolsInv
  <2>5. MadeOf(tokens, p) = [i \in 1..POOL_TOKENS |-> Index!Row(tokens, Index!Members(p)[i])]
    BY DEF MadeOf, Index!Members
  <2> QED
    BY <2>4, <2>5
<1> QED
  BY <1>1, IndexBegins, IndexKeeps, PTL DEF ContextSpec
=============================================================================
