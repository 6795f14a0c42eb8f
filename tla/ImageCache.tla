------------------------------ MODULE ImageCache ----------------------------
(***************************************************************************)
(* The cache of encoded images (ImageEmbeddingCache in                     *)
(* src/core/vision.cpp): a list, most recently used first, whose keys and  *)
(* embeddings together stay within a budget.                               *)
(***************************************************************************)
EXTENDS Integers, Sequences, SequencesExt, SequenceTheorems,
        WellFoundedInduction, NaturalsInduction, TLAPS

CONSTANTS
  Urls,       \* the data URLs of images
  Size,       \* embedding -> bytes of an entry that holds it, its url's included
  Budget,     \* budget_
  MaxUses     \* bound: calls of get and put

Embeddings == DOMAIN Size

VARIABLES
  entries,    \* entries_: <<url, embedding>>
  bytes,      \* bytes_
  uses        \* the calls that found or stored an image, oldest first

vars == <<entries, bytes, uses>>

Init == entries = <<>> /\ bytes = 0 /\ uses = <<>>

\* The first entry with this url, or none.
Found(url, list) ==
  {i \in DOMAIN list : list[i][1] = url /\ \A j \in 1..(i - 1) : list[j][1] # url}

\* The bytes of a list of entries.
Total(list) ==
  LET sum[n \in 0..Len(list)] == IF n = 0 THEN 0 ELSE sum[n - 1] + Size[list[n][2]]
  IN  sum[Len(list)]

\* Mutant: an entry that is hit keeps its place.
MoveNone(i, list) == list

MoveToFront(i, list) == <<list[i]>> \o RemoveAt(list, i)

\* get() of a url that is cached.
Hit(url) ==
  \E i \in Found(url, entries) :
    /\ entries' = MoveToFront(i, entries)
    /\ uses' = Append(uses, entries[i])
    /\ UNCHANGED bytes

\* Mutant: the entry that is replaced is still counted.
AfterReplaceCounting(url, list, count) ==
  IF Found(url, list) = {} THEN <<list, count>>
  ELSE LET i == CHOOSE k \in Found(url, list) : TRUE IN <<RemoveAt(list, i), count>>

\* The list and its bytes without the former entry of this url.
AfterReplace(url, list, count) ==
  IF Found(url, list) = {} THEN <<list, count>>
  ELSE LET i == CHOOSE k \in Found(url, list) : TRUE
       IN  <<RemoveAt(list, i), count - Size[list[i][2]]>>

\* Entries leave from the back until the new one fits, or none is left.
Evicted(list, count, need) ==
  LET Kept(k) == SubSeq(list, 1, k)
      Left(k) == count - (Total(list) - Total(Kept(k)))
      n == CHOOSE k \in 0..Len(list) :
             /\ k = 0 \/ Left(k) + need <= Budget
             /\ \A j \in (k + 1)..Len(list) : Left(j) + need > Budget
  IN  <<Kept(n), Left(n)>>

\* An embedding larger than the whole budget is not kept.
Fits(embedding) == Size[embedding] <= Budget

\* put() of an image that was just encoded.
Put(url, embedding) ==
  /\ Fits(embedding)
  /\ LET replaced == AfterReplace(url, entries, bytes)
         room     == Evicted(replaced[1], replaced[2], Size[embedding])
     IN  /\ entries' = <<<<url, embedding>>>> \o room[1]
         /\ bytes' = room[2] + Size[embedding]
  /\ uses' = Append(uses, <<url, embedding>>)

Next ==
  /\ Len(uses) < MaxUses
  /\ \E url \in Urls : Hit(url) \/ \E m \in Embeddings : Put(url, m)

Spec == Init /\ [][Next]_vars

-----------------------------------------------------------------------------
(* Properties.                                                             *)

\* The count never drifts, and is within the budget.
BytesExact == bytes = Total(entries) /\ bytes <= Budget

\* Of the uses of the cache, the last of each url.
LastUse(url) == {i \in DOMAIN uses :
  /\ uses[i][1] = url
  /\ \A j \in (i + 1)..Len(uses) : uses[j][1] # url}

\* vision.hpp:20 "the memory budget includes keys and embedding values": the
\* cache stays within it and its count exact; a hit answers with what was last
\* stored under the url, and an image is only gone when every image used less
\* recently is gone.
KeepsTheRecent ==
  /\ BytesExact
  /\ \A i \in DOMAIN entries :
     LET u == CHOOSE k \in LastUse(entries[i][1]) : TRUE
     IN  /\ entries[i] = uses[u]
         /\ \A k \in (u + 1)..Len(uses) :
              \E j \in 1..(i - 1) : entries[j][1] = uses[k][1]

-----------------------------------------------------------------------------
(* Proof: whatever images, sizes and calls there are.                       *)

SizesAssumed == Budget \in Nat /\ MaxUses \in Nat /\ \A m \in DOMAIN Size : Size[m] \in Nat \ {0}

LEMMA Reaches ==
  ASSUME NEW S \in SUBSET Nat, 0 \in S, \A n \in S : n + 1 \in S
  PROVE  S = Nat
<1> SUFFICES ASSUME Nat \ S # {} PROVE FALSE
  OBVIOUS
<1>1. \E x \in Nat \ S : \A y \in Nat \ S : ~(<<y, x>> \in OpToRel(<, Nat))
  BY NatLessThanWellFounded, WFMin
<1>2. PICK x \in Nat \ S : \A y \in Nat \ S : ~(y < x)
  BY <1>1 DEF OpToRel
<1>3. x # 0 /\ x - 1 \in Nat /\ x - 1 < x /\ x - 1 + 1 = x
  BY <1>2
<1>4. x - 1 \in S
  BY <1>2, <1>3
<1> QED
  BY <1>2, <1>3, <1>4

\* Sets of numbers have a least one, and a greatest one where they are bounded.
LEMMA LeastOf ==
  ASSUME NEW S \in SUBSET Nat, S # {}
  PROVE  \E x \in S : \A y \in S : x <= y
<1>1. S \subseteq Nat
  OBVIOUS
<1>2. \E x \in S : \A y \in S : ~(<<y, x>> \in OpToRel(<, Nat))
  BY <1>1, NatLessThanWellFounded, WFMin
<1>3. PICK x \in S : \A y \in S : ~(y < x)
  BY <1>1, <1>2 DEF OpToRel
<1>4. \A y \in S : x <= y
  BY <1>3
<1> QED
  BY <1>4

LEMMA GreatestOf ==
  ASSUME NEW n \in Nat, NEW S \in SUBSET (0..n), S # {}
  PROVE  \E x \in S : \A y \in S : y <= x
<1> DEFINE T == {n - x : x \in S}
<1>1. T \in SUBSET Nat /\ T # {}
  <2>1. \A x \in S : n - x \in Nat
    OBVIOUS
  <2> QED
    BY <2>1
<1> HIDE DEF T
<1>2. PICK t \in T : \A y \in T : t <= y
  BY <1>1, LeastOf
<1>3. PICK x \in S : t = n - x
  BY <1>2 DEF T
<1>4. \A y \in S : n - y \in T
  BY DEF T
<1>5. \A y \in S : y <= x
  <2> SUFFICES ASSUME NEW y \in S PROVE y <= x
    OBVIOUS
  <2>1. n - x <= n - y
    BY <1>2, <1>3, <1>4
  <2> QED
    BY <2>1
<1> QED
  BY <1>5

-----------------------------------------------------------------------------
(* The image cache: what its entries weigh, and which they are.            *)

Images == Urls \X Embeddings

LEMMA ImageTyped ==
  ASSUME SizesAssumed, NEW e \in Images
  PROVE  e[1] \in Urls /\ e[2] \in Embeddings /\ Size[e[2]] \in Nat /\ e = <<e[1], e[2]>>
BY DEF SizesAssumed, Images, Embeddings

\* The bytes of the entries up to each.
IsSum(f, list) ==
  /\ f \in [0..Len(list) -> Nat] /\ f[0] = 0
  /\ \A n \in 1..Len(list) : f[n] = f[n - 1] + Size[list[n][2]]

LEMMA SumThere ==
  ASSUME SizesAssumed, NEW list \in Seq(Images)
  PROVE  \E f : IsSum(f, list)
<1> DEFINE Upto(f, n) == /\ f \in [0..n -> Nat] /\ f[0] = 0
                         /\ \A k \in 1..n : f[k] = f[k - 1] + Size[list[k][2]]
           S == {n \in Nat : n > Len(list) \/ \E f : Upto(f, n)}
<1>1. Len(list) \in Nat /\ \A k \in 1..Len(list) : Size[list[k][2]] \in Nat
  <2>1. \A k \in 1..Len(list) : list[k] \in Images
    OBVIOUS
  <2> QED
    BY <2>1, ImageTyped
<1>2. 0 \in S
  <2>1. Upto([k \in 0..0 |-> 0], 0)
    OBVIOUS
  <2> QED
    BY <2>1
<1>3. ASSUME NEW n \in S PROVE n + 1 \in S
  <2>1. n \in Nat /\ n + 1 \in Nat
    OBVIOUS
  <2>2. CASE n + 1 > Len(list)
    BY <2>1, <2>2
  <2>3. CASE n + 1 <= Len(list)
    <3>0. PICK f : Upto(f, n)
      <4>1. ~(n > Len(list))
        BY <1>1, <2>1, <2>3
      <4>2. n > Len(list) \/ \E f : Upto(f, n)
        OBVIOUS
      <4> HIDE DEF Upto
      <4> QED
        BY <4>1, <4>2
    <3>1. /\ f \in [0..n -> Nat] /\ f[0] = 0
          /\ \A k \in 1..n : f[k] = f[k - 1] + Size[list[k][2]]
      BY <3>0
    <3>2. PICK g : g = [k \in 0..(n + 1) |-> IF k = n + 1 THEN f[n] + Size[list[n + 1][2]] ELSE f[k]]
      OBVIOUS
    <3>3. Size[list[n + 1][2]] \in Nat
      BY <1>1, <2>1, <2>3
    <3>4. g \in [0..(n + 1) -> Nat] /\ g[0] = 0
      BY <2>1, <3>1, <3>2, <3>3
    <3>5. ASSUME NEW k \in 1..(n + 1) PROVE g[k] = g[k - 1] + Size[list[k][2]]
      <4>1. k - 1 \in 0..n /\ g[k - 1] = f[k - 1]
        BY <2>1, <3>2
      <4>2. CASE k = n + 1
        BY <2>1, <3>2, <4>1, <4>2
      <4>3. CASE k # n + 1
        <5>1. k \in 1..n /\ g[k] = f[k]
          BY <2>1, <3>2, <4>3
        <5> QED
          BY <3>1, <4>1, <5>1
      <4> QED
        BY <4>2, <4>3
    <3>6. Upto(g, n + 1)
      BY <3>4, <3>5
    <3>7. \E h : Upto(h, n + 1)
      <4> HIDE DEF Upto
      <4> QED
        BY <3>6
    <3> QED
      BY <2>1, <3>7
  <2>4. n + 1 > Len(list) \/ n + 1 <= Len(list)
    BY <1>1, <2>1
  <2> HIDE DEF S
  <2> QED
    BY <2>2, <2>3, <2>4
<1>4. S = Nat
  <2> HIDE DEF S
  <2>1. S \in SUBSET Nat
    BY DEF S
  <2> QED
    BY <1>2, <1>3, <2>1, Reaches
<1>5. \E f : Upto(f, Len(list))
  BY <1>1, <1>4
<1> QED
  BY <1>5 DEF IsSum

LEMMA SumOnce ==
  ASSUME SizesAssumed, NEW list \in Seq(Images), NEW f, NEW g, IsSum(f, list),
         g[0] = 0, \A n \in 1..Len(list) : g[n] = g[n - 1] + Size[list[n][2]]
  PROVE  g[Len(list)] = f[Len(list)]
<1> DEFINE S == {n \in Nat : n <= Len(list) => g[n] = f[n]}
<1>1. Len(list) \in Nat
  OBVIOUS
<1>2. 0 \in S
  BY DEF IsSum
<1>3. ASSUME NEW n \in S PROVE n + 1 \in S
  <2>1. n \in Nat /\ n + 1 \in Nat /\ (n + 1) - 1 = n
    OBVIOUS
  <2>2. ASSUME n + 1 <= Len(list) PROVE g[n + 1] = f[n + 1]
    <3>1. n + 1 \in 1..Len(list) /\ g[n] = f[n]
      BY <1>1, <2>1, <2>2
    <3>2. g[n + 1] = g[n] + Size[list[n + 1][2]] /\ f[n + 1] = f[n] + Size[list[n + 1][2]]
      BY <2>1, <3>1 DEF IsSum
    <3> QED
      BY <3>1, <3>2
  <2> QED
    BY <2>1, <2>2
<1>4. S = Nat
  <2> HIDE DEF S
  <2>1. S \in SUBSET Nat
    BY DEF S
  <2> QED
    BY <1>2, <1>3, <2>1, Reaches
<1> QED
  BY <1>1, <1>4

\* The bytes of a list are the last of its sums.
LEMMA TotalIs ==
  ASSUME SizesAssumed, NEW list \in Seq(Images), NEW f, IsSum(f, list)
  PROVE  Total(list) = f[Len(list)] /\ Total(list) \in Nat
<1> DEFINE F(h) == [n \in 0..Len(list) |-> IF n = 0 THEN 0 ELSE h[n - 1] + Size[list[n][2]]]
           g == CHOOSE h : h = F(h)
<1>1. Len(list) \in Nat
  OBVIOUS
<1>2. f = F(f)
  <2>1. f \in [0..Len(list) -> Nat] /\ F(f) = [n \in 0..Len(list) |-> f[n]]
    BY <1>1 DEF IsSum
  <2> QED
    BY <2>1
<1>3. g = F(g)
  <2> HIDE DEF F
  <2> QED
    BY <1>2
<1>4. g[0] = 0 /\ \A n \in 1..Len(list) : g[n] = g[n - 1] + Size[list[n][2]]
  <2>1. PICK h : h = g
    OBVIOUS
  <2>2. h = [n \in 0..Len(list) |-> IF n = 0 THEN 0 ELSE h[n - 1] + Size[list[n][2]]]
    BY <1>3, <2>1
  <2>3. h[0] = 0 /\ \A n \in 1..Len(list) : h[n] = h[n - 1] + Size[list[n][2]]
    BY <1>1, <2>2
  <2> QED
    BY <2>1, <2>3
<1>5. Total(list) = g[Len(list)]
  BY DEF Total
<1>6. f[Len(list)] \in Nat
  BY <1>1 DEF IsSum
<1> HIDE DEF g
<1> QED
  BY <1>4, <1>5, <1>6, SumOnce

\* An entry in front; the list without an entry; its first entries.
LEMMA TotalInFront ==
  ASSUME SizesAssumed, NEW list \in Seq(Images), NEW e \in Images
  PROVE  /\ <<e>> \o list \in Seq(Images)
         /\ Total(<<e>> \o list) = Size[e[2]] + Total(list)
<1>1. PICK m : m = <<e>> \o list
  OBVIOUS
<1>2. /\ m \in Seq(Images) /\ Len(m) = Len(list) + 1 /\ m[1] = e /\ Len(list) \in Nat
      /\ \A n \in 1..Len(list) : m[n + 1] = list[n]
  <2>1. <<e>> \in Seq(Images) /\ Len(<<e>>) = 1 /\ <<e>>[1] = e
    OBVIOUS
  <2> QED
    BY <1>1, <2>1, ConcatProperties
<1>3. PICK f : IsSum(f, list)
  BY SumThere
<1>4. PICK w : w = Size[e[2]]
  OBVIOUS
<1>5. w \in Nat
  BY <1>4, ImageTyped
<1>6. PICK g : g = [n \in 0..Len(m) |-> IF n = 0 THEN 0 ELSE w + f[n - 1]]
  OBVIOUS
<1>7. \A n \in 0..Len(list) : f[n] \in Nat /\ g[n + 1] = w + f[n]
  BY <1>2, <1>3, <1>6 DEF IsSum
<1>8. IsSum(g, m)
  <2>1. g \in [0..Len(m) -> Nat] /\ g[0] = 0
    BY <1>2, <1>5, <1>6, <1>7
  <2>2. ASSUME NEW n \in 1..Len(m) PROVE g[n] = g[n - 1] + Size[m[n][2]]
    <3>1. CASE n = 1
      BY <1>2, <1>3, <1>4, <1>5, <1>7, <2>1, <3>1 DEF IsSum
    <3>2. CASE n # 1
      <4>1. PICK k \in 1..Len(list) : n = k + 1
        <5>1. n - 1 \in 1..Len(list) /\ n = (n - 1) + 1
          BY <1>2, <3>2
        <5> QED
          BY <5>1
      <4>2. m[n] = list[k] /\ f[k] = f[k - 1] + Size[list[k][2]]
        BY <1>2, <1>3, <4>1 DEF IsSum
      <4>3. g[n] = w + f[k] /\ g[k] = w + f[k - 1] /\ f[k - 1] \in Nat /\ f[k] \in Nat
        <5>1. k \in 0..Len(list) /\ k - 1 \in 0..Len(list) /\ (k - 1) + 1 = k
          BY <1>2
        <5> QED
          BY <1>7, <4>1, <5>1
      <4>4. n - 1 = k
        BY <4>1
      <4>5. Size[list[k][2]] \in Nat
        <5>1. list[k] \in Images
          OBVIOUS
        <5> QED
          BY <5>1, ImageTyped
      <4> QED
        BY <1>5, <4>2, <4>3, <4>4, <4>5
    <3> QED
      BY <3>1, <3>2
  <2> QED
    BY <2>1, <2>2 DEF IsSum
<1>9. Total(m) = g[Len(m)] /\ Total(list) = f[Len(list)]
  BY <1>2, <1>3, <1>8, TotalIs
<1>10. g[Len(m)] = w + f[Len(list)]
  BY <1>2, <1>7
<1> QED
  BY <1>1, <1>2, <1>4, <1>9, <1>10

LEMMA Removed ==
  ASSUME NEW list \in Seq(Images), NEW i \in 1..Len(list)
  PROVE  /\ RemoveAt(list, i) \in Seq(Images) /\ Len(RemoveAt(list, i)) = Len(list) - 1
         /\ \A n \in 1..(Len(list) - 1) : RemoveAt(list, i)[n] = IF n < i THEN list[n] ELSE list[n + 1]
<1>1. PICK p, q : p = SubSeq(list, 1, i - 1) /\ q = SubSeq(list, i + 1, Len(list))
  OBVIOUS
<1>2. Len(list) \in Nat /\ i \in Nat
  OBVIOUS
<1>3. p \in Seq(Images) /\ Len(p) = i - 1 /\ \A n \in 1..(i - 1) : p[n] = list[n]
  <2>1. 1 \in 1..(Len(list) + 1) /\ i - 1 \in (1 - 1)..Len(list)
    BY <1>2
  <2> QED
    BY <1>1, <1>2, <2>1, SubSeqProperties
<1>4. q \in Seq(Images) /\ Len(q) = Len(list) - i /\ \A n \in 1..(Len(list) - i) : q[n] = list[i + n]
  <2>1. i + 1 \in 1..(Len(list) + 1) /\ Len(list) \in ((i + 1) - 1)..Len(list)
    BY <1>2
  <2> QED
    BY <1>1, <1>2, <2>1, SubSeqProperties
<1>5. PICK r : r = RemoveAt(list, i)
  OBVIOUS
<1>6. r = p \o q
  BY <1>1, <1>5 DEF RemoveAt
<1>7. /\ r \in Seq(Images) /\ Len(r) = Len(p) + Len(q)
      /\ \A n \in 1..(Len(p) + Len(q)) : r[n] = IF n <= Len(p) THEN p[n] ELSE q[n - Len(p)]
  BY <1>3, <1>4, <1>6, ConcatProperties
<1>8. Len(r) = Len(list) - 1
  BY <1>2, <1>3, <1>4, <1>7
<1>9. ASSUME NEW n \in 1..(Len(list) - 1) PROVE r[n] = IF n < i THEN list[n] ELSE list[n + 1]
  <2>1. n \in 1..(Len(p) + Len(q))
    BY <1>2, <1>3, <1>4
  <2>2. CASE n < i
    <3>1. n \in 1..(i - 1) /\ n <= Len(p)
      BY <1>2, <1>3, <2>2
    <3> QED
      BY <1>3, <1>7, <2>1, <2>2, <3>1
  <2>3. CASE ~(n < i)
    <3>1. PICK k : k = n - Len(p)
      OBVIOUS
    <3>2. k \in 1..(Len(list) - i) /\ i + k = n + 1 /\ ~(n <= Len(p))
      BY <1>2, <1>3, <2>3, <3>1
    <3> QED
      BY <1>4, <1>7, <2>1, <2>3, <3>1, <3>2
  <2> QED
    BY <2>2, <2>3
<1> QED
  BY <1>5, <1>7, <1>8, <1>9

LEMMA TotalWithout ==
  ASSUME SizesAssumed, NEW list \in Seq(Images), NEW i \in 1..Len(list)
  PROVE  Total(RemoveAt(list, i)) = Total(list) - Size[list[i][2]]
<1>1. PICK m : m = RemoveAt(list, i)
  OBVIOUS
<1>2. /\ m \in Seq(Images) /\ Len(m) = Len(list) - 1 /\ Len(list) \in Nat /\ Len(m) \in Nat /\ i \in Nat
      /\ \A n \in 1..Len(m) : m[n] = IF n < i THEN list[n] ELSE list[n + 1]
  <2>1. m \in Seq(Images) /\ Len(m) = Len(list) - 1
        /\ \A n \in 1..(Len(list) - 1) : m[n] = IF n < i THEN list[n] ELSE list[n + 1]
    BY <1>1, Removed
  <2> QED
    BY <2>1
<1>3. PICK f : IsSum(f, list)
  BY SumThere
<1>4. PICK w : w = Size[list[i][2]]
  OBVIOUS
<1>5. list[i] \in Images
  OBVIOUS
<1>6. w \in Nat
  BY <1>4, <1>5, ImageTyped
<1>7. \A n \in 1..Len(list) : Size[list[n][2]] \in Nat
  <2>1. \A n \in 1..Len(list) : list[n] \in Images
    OBVIOUS
  <2> QED
    BY <2>1, ImageTyped
<1>8. PICK g : g = [n \in 0..Len(m) |-> IF n < i THEN f[n] ELSE f[n + 1] - w]
  OBVIOUS
<1>9. /\ \A n \in 0..Len(list) : f[n] \in Nat
      /\ f[0] = 0 /\ \A n \in 1..Len(list) : f[n] = f[n - 1] + Size[list[n][2]]
  BY <1>3 DEF IsSum
<1>10. f[i] = f[i - 1] + w
  BY <1>4, <1>9
<1>11. g[0] = 0
  BY <1>2, <1>8, <1>9
<1>12. ASSUME NEW n \in 1..Len(m) PROVE g[n] = g[n - 1] + Size[m[n][2]]
  <2>1. n \in Nat /\ n - 1 \in 0..Len(m) /\ n \in 0..Len(m) /\ n \in 1..Len(list) /\ n + 1 \in 1..Len(list)
        /\ n - 1 \in 0..Len(list) /\ (n - 1) + 1 = n /\ (n + 1) - 1 = n
    BY <1>2
  <2>2. f[n] = f[n - 1] + Size[list[n][2]] /\ f[n + 1] = f[n] + Size[list[n + 1][2]]
    BY <1>9, <2>1
  <2>3. f[n] \in Nat /\ f[n - 1] \in Nat /\ f[n + 1] \in Nat
    BY <1>9, <2>1
  <2>4. Size[list[n][2]] \in Nat /\ Size[list[n + 1][2]] \in Nat
    BY <1>7, <2>1
  <2>5. g[n] = IF n < i THEN f[n] ELSE f[n + 1] - w
    BY <1>8, <2>1
  <2>6. g[n - 1] = IF n - 1 < i THEN f[n - 1] ELSE f[(n - 1) + 1] - w
    BY <1>8, <2>1
  <2>7. CASE n < i
    <3>1. m[n] = list[n] /\ n - 1 < i
      BY <1>2, <2>1, <2>7
    <3> QED
      BY <2>2, <2>5, <2>6, <2>7, <3>1
  <2>8. CASE n = i
    <3>1. m[n] = list[n + 1] /\ n - 1 < i /\ ~(n < i)
      BY <1>2, <2>1, <2>8
    <3>2. PICK a, b, c, z : a = f[n - 1] /\ b = f[n + 1] /\ c = f[n] /\ z = Size[list[n + 1][2]]
      OBVIOUS
    <3>3. a \in Nat /\ b \in Nat /\ z \in Nat /\ c \in Nat /\ b = c + z /\ c = a + w
      BY <1>10, <2>2, <2>3, <2>4, <2>8, <3>2
    <3>4. b - w = a + z
      BY <1>6, <3>3
    <3>5. g[n] = b - w /\ g[n - 1] = a /\ Size[m[n][2]] = z
      BY <2>5, <2>6, <3>1, <3>2
    <3> QED
      BY <3>4, <3>5
  <2>9. CASE n > i
    <3>1. m[n] = list[n + 1] /\ ~(n - 1 < i) /\ ~(n < i)
      BY <1>2, <2>1, <2>9
    <3>2. g[n - 1] = f[n] - w
      BY <2>1, <2>6, <3>1
    <3>3. PICK a, b, z : a = f[n] /\ b = f[n + 1] /\ z = Size[list[n + 1][2]]
      OBVIOUS
    <3>4. a \in Nat /\ b \in Nat /\ z \in Nat /\ b = a + z
      BY <2>2, <2>3, <2>4, <3>3
    <3>5. b - w = (a - w) + z
      BY <1>6, <3>4
    <3>6. g[n] = b - w /\ g[n - 1] = a - w /\ Size[m[n][2]] = z
      BY <2>5, <3>1, <3>2, <3>3
    <3> QED
      BY <3>5, <3>6
  <2> QED
    BY <1>2, <2>1, <2>7, <2>8, <2>9
<1>13. PICK h : IsSum(h, m)
  BY <1>2, SumThere
<1>14. g[Len(m)] = h[Len(m)]
  BY <1>2, <1>11, <1>12, <1>13, SumOnce
<1>15. Total(m) = h[Len(m)] /\ Total(list) = f[Len(list)]
  BY <1>2, <1>3, <1>13, TotalIs
<1>16. g[Len(m)] = f[Len(list)] - w
  <2>1. Len(m) \in 0..Len(m) /\ Len(m) + 1 = Len(list)
    BY <1>2
  <2>2. g[Len(m)] = IF Len(m) < i THEN f[Len(m)] ELSE f[Len(list)] - w
    BY <1>8, <2>1
  <2>3. CASE Len(m) < i
    <3>1. i = Len(list) /\ i - 1 = Len(m)
      BY <1>2, <2>1, <2>3
    <3>2. f[Len(m)] \in Nat
      BY <1>2, <1>9
    <3> QED
      BY <1>6, <1>10, <2>2, <2>3, <3>1, <3>2
  <2> QED
    BY <2>2, <2>3
<1> QED
  BY <1>1, <1>4, <1>14, <1>15, <1>16

LEMMA Prefixed ==
  ASSUME SizesAssumed, NEW list \in Seq(Images), NEW k \in 0..Len(list)
  PROVE  /\ SubSeq(list, 1, k) \in Seq(Images) /\ Len(SubSeq(list, 1, k)) = k
         /\ \A n \in 1..k : SubSeq(list, 1, k)[n] = list[n]
         /\ Total(SubSeq(list, 1, k)) \in Nat /\ (k = 0 => Total(SubSeq(list, 1, k)) = 0)
<1>1. PICK m : m = SubSeq(list, 1, k)
  OBVIOUS
<1>2. m \in Seq(Images) /\ Len(m) = k /\ \A n \in 1..k : m[n] = list[n]
  <2>1. Len(list) \in Nat /\ 1 \in 1..(Len(list) + 1) /\ k \in (1 - 1)..Len(list)
    OBVIOUS
  <2> QED
    BY <1>1, <2>1, SubSeqProperties
<1>3. PICK f : IsSum(f, m)
  BY <1>2, SumThere
<1>4. Total(m) = f[Len(m)] /\ Total(m) \in Nat
  BY <1>2, <1>3, TotalIs
<1>5. k = 0 => Total(m) = 0
  BY <1>2, <1>3, <1>4 DEF IsSum
<1> QED
  BY <1>1, <1>2, <1>4, <1>5

\* What eviction leaves is a beginning of the list, and with the new entry within the
\* budget: when nothing is left, the new one by itself is.
LEMMA EvictedIs ==
  ASSUME SizesAssumed, NEW list \in Seq(Images), NEW need \in Nat, need <= Budget
  PROVE  \E k \in 0..Len(list) : /\ Evicted(list, Total(list), need) = <<SubSeq(list, 1, k), Total(SubSeq(list, 1, k))>>
                                 /\ Total(SubSeq(list, 1, k)) + need <= Budget
<1> DEFINE Left(k) == Total(list) - (Total(list) - Total(SubSeq(list, 1, k)))
           Good(k) == k = 0 \/ Left(k) + need <= Budget
           T == {k \in 0..Len(list) : Good(k)}
           Best(k) == Good(k) /\ \A j \in (k + 1)..Len(list) : Left(j) + need > Budget
           n == CHOOSE k \in 0..Len(list) : Best(k)
<1>1. Len(list) \in Nat /\ Budget \in Nat
  BY DEF SizesAssumed
<1>2. Total(list) \in Nat
  <2>1. PICK f : IsSum(f, list)
    BY SumThere
  <2> QED
    BY <2>1, TotalIs
<1>3. \A k \in 0..Len(list) : Left(k) = Total(SubSeq(list, 1, k)) /\ Left(k) \in Nat
  <2> TAKE k \in 0..Len(list)
  <2>1. Total(SubSeq(list, 1, k)) \in Nat
    BY Prefixed
  <2> QED
    BY <1>2, <2>1
<1>4. \E k \in 0..Len(list) : Best(k)
  <2>1. T \in SUBSET (0..Len(list)) /\ 0 \in T
    BY <1>1
  <2>2. PICK k \in T : \A j \in T : j <= k
    <3> HIDE DEF T
    <3> QED
      BY <1>1, <2>1, GreatestOf
  <2>3. k \in 0..Len(list) /\ Good(k)
    BY <2>2
  <2>4. ASSUME NEW j \in (k + 1)..Len(list) PROVE Left(j) + need > Budget
    <3>1. j \in 0..Len(list) /\ ~(j <= k)
      BY <1>1, <2>3
    <3>2. j \notin T
      BY <2>2, <3>1
    <3>3. ~(Left(j) + need <= Budget)
      BY <3>1, <3>2
    <3>4. Left(j) \in Nat
      BY <1>3, <3>1
    <3> HIDE DEF Left
    <3> QED
      BY <1>1, <3>3, <3>4
  <2> QED
    BY <2>3, <2>4
<1>5. n \in 0..Len(list) /\ Best(n)
  <2> HIDE DEF Best
  <2> QED
    BY <1>4
<1>6. Evicted(list, Total(list), need) = <<SubSeq(list, 1, n), Left(n)>>
  BY DEF Evicted
<1> HIDE DEF n
<1>7. Left(n) = Total(SubSeq(list, 1, n)) /\ Left(n) \in Nat /\ (n = 0 => Left(n) = 0)
  BY <1>3, <1>5, Prefixed
<1>8. Left(n) + need <= Budget
  <2>1. Good(n)
    BY <1>5
  <2> HIDE DEF Left
  <2> QED
    BY <1>1, <1>7, <2>1
<1> HIDE DEF Left
<1> QED
  BY <1>5, <1>6, <1>7, <1>8

-----------------------------------------------------------------------------
(* Which entries there are.                                                *)

Once(list) == \A i, j \in DOMAIN list : list[i][1] = list[j][1] => i = j

\* Each entry is what its url was last used with, and every image used since is
\* before it.
Recent(list, used) ==
  \A i \in DOMAIN list : \E u \in DOMAIN used :
    /\ used[u] = list[i]
    /\ \A k \in (u + 1)..Len(used) : used[k][1] # list[i][1] /\ \E j \in 1..(i - 1) : list[j][1] = used[k][1]

\* A list whose first entry is new, and whose others are those of the former list
\* but the i-th, which had its url, or a beginning of them.
Renewed(list, i, e, m) ==
  /\ i \in 1..(Len(list) + 1) /\ \A j \in DOMAIN list : list[j][1] = e[1] <=> j = i
  /\ m \in Seq(Images) /\ Len(m) >= 1 /\ m[1] = e
  /\ \A p \in 2..Len(m) : \E o \in DOMAIN list : o = (IF p <= i THEN p - 1 ELSE p) /\ m[p] = list[o]

LEMMA RenewedKeeps ==
  ASSUME NEW list \in Seq(Images), NEW used \in Seq(Images), NEW e \in Images, NEW i, NEW m,
         Once(list), Recent(list, used), Renewed(list, i, e, m)
  PROVE  Once(m) /\ Recent(m, Append(used, e))
<1>1. /\ i \in Nat /\ m \in Seq(Images) /\ Len(m) \in Nat /\ Len(list) \in Nat /\ m[1] = e /\ DOMAIN m = 1..Len(m)
      /\ DOMAIN list = 1..Len(list) /\ \A j \in DOMAIN list : list[j][1] = e[1] <=> j = i
  BY DEF Renewed
<1> DEFINE From(p) == IF p <= i THEN p - 1 ELSE p
<1>2. ASSUME NEW p \in 2..Len(m)
      PROVE  From(p) \in 1..Len(list) /\ m[p] = list[From(p)] /\ From(p) # i /\ m[p][1] # e[1]
  <2>1. From(p) \in DOMAIN list /\ m[p] = list[From(p)]
    BY DEF Renewed
  <2>2. From(p) # i
    BY <1>1
  <2> QED
    BY <1>1, <2>1, <2>2
<1>3. Once(m)
  <2> SUFFICES ASSUME NEW p \in 1..Len(m), NEW q \in 1..Len(m), m[p][1] = m[q][1] PROVE p = q
    BY <1>1 DEF Once
  <2>1. CASE p = 1
    <3>1. q \notin 2..Len(m)
      BY <1>1, <1>2, <2>1
    <3> QED
      BY <1>1, <2>1, <3>1
  <2>2. CASE q = 1
    <3>1. p \notin 2..Len(m)
      BY <1>1, <1>2, <2>2
    <3> QED
      BY <1>1, <2>2, <3>1
  <2>3. CASE p # 1 /\ q # 1
    <3>1. p \in 2..Len(m) /\ q \in 2..Len(m)
      BY <1>1, <2>3
    <3>2. From(p) = From(q)
      <4>1. From(p) \in DOMAIN list /\ From(q) \in DOMAIN list /\ list[From(p)][1] = list[From(q)][1]
        BY <1>1, <1>2, <3>1
      <4> HIDE DEF From
      <4> QED
        BY <4>1 DEF Once
    <3> QED
      BY <1>1, <3>1, <3>2
  <2> QED
    BY <2>1, <2>2, <2>3
<1>4. PICK all : all = Append(used, e)
  OBVIOUS
<1>5. /\ Len(used) \in Nat /\ DOMAIN used = 1..Len(used) /\ Len(all) = Len(used) + 1 /\ DOMAIN all = 1..(Len(used) + 1)
      /\ all[Len(used) + 1] = e /\ \A u \in 1..Len(used) : all[u] = used[u]
  BY <1>4
<1>6. ASSUME NEW p \in 1..Len(m)
      PROVE  \E u \in DOMAIN all :
               /\ all[u] = m[p]
               /\ \A k \in (u + 1)..Len(all) : all[k][1] # m[p][1] /\ \E j \in 1..(p - 1) : m[j][1] = all[k][1]
  <2>1. CASE p = 1
    <3>1. Len(used) + 1 \in DOMAIN all /\ all[Len(used) + 1] = m[p] /\ ((Len(used) + 1) + 1)..Len(all) = {}
      BY <1>1, <1>5, <2>1
    <3> QED
      BY <3>1
  <2>2. CASE p # 1
    <3>1. PICK o : o = From(p)
      OBVIOUS
    <3>2. p \in 2..Len(m) /\ o \in 1..Len(list) /\ m[p] = list[o] /\ m[p][1] # e[1]
      BY <1>1, <1>2, <2>2, <3>1
    <3>3. PICK u \in DOMAIN used :
            /\ used[u] = list[o]
            /\ \A k \in (u + 1)..Len(used) : used[k][1] # list[o][1] /\ \E j \in 1..(o - 1) : list[j][1] = used[k][1]
      BY <1>1, <3>2 DEF Recent
    <3>4. u \in DOMAIN all /\ all[u] = m[p]
      BY <1>5, <3>2, <3>3
    <3>5. ASSUME NEW k \in (u + 1)..Len(all)
          PROVE  all[k][1] # m[p][1] /\ \E j \in 1..(p - 1) : m[j][1] = all[k][1]
      <4>1. 1 \in 1..(p - 1)
        BY <1>1, <3>2
      <4>2. CASE k = Len(used) + 1
        <5>1. all[k] = e
          BY <1>5, <4>2
        <5> QED
          BY <1>1, <3>2, <4>1, <5>1
      <4>3. CASE k # Len(used) + 1
        <5>1. k \in (u + 1)..Len(used) /\ k \in 1..Len(used) /\ all[k] = used[k]
          BY <1>5, <3>3, <4>3
        <5>2. PICK j \in 1..(o - 1) : list[j][1] = used[k][1]
          BY <3>3, <5>1
        <5>3. CASE j = i
          <6>1. list[j][1] = e[1]
            BY <1>1, <3>2, <5>3
          <6> QED
            BY <1>1, <3>2, <3>3, <4>1, <5>1, <5>2, <6>1
        <5>4. CASE j # i
          <6>1. PICK q : q = IF j < i THEN j + 1 ELSE j
            OBVIOUS
          <6>2. q \in 2..(p - 1) /\ From(q) = j
            <7>1. i \in 1..(Len(list) + 1) /\ p \in Nat /\ p >= 2 /\ j \in Nat /\ j >= 1 /\ j < o /\ j # i
              BY <1>1, <3>2, <5>4 DEF Renewed
            <7>2. o = IF p <= i THEN p - 1 ELSE p
              BY <3>1
            <7>3. CASE j < i
              <8>1. q = j + 1 /\ q <= i
                BY <6>1, <7>1, <7>3
              <8>2. q <= p - 1
                BY <7>1, <7>2, <7>3, <8>1
              <8> QED
                BY <7>1, <8>1, <8>2
            <7>4. CASE j > i
              <8>1. q = j /\ ~(q <= i) /\ o = p
                BY <6>1, <7>1, <7>2, <7>4
              <8> QED
                BY <7>1, <7>4, <8>1
            <7> QED
              BY <7>1, <7>3, <7>4
          <6>3. q \in 2..Len(m) /\ q \in 1..(p - 1)
            BY <1>1, <3>2, <6>2
          <6>4. m[q] = list[j]
            BY <1>2, <6>2, <6>3
          <6> QED
            BY <3>2, <3>3, <5>1, <5>2, <6>3, <6>4
        <5> QED
          BY <5>3, <5>4
      <4> QED
        BY <4>2, <4>3
    <3> QED
      BY <3>4, <3>5
  <2> QED
    BY <2>1, <2>2
<1>7. Recent(m, all)
  BY <1>1, <1>6 DEF Recent
<1> QED
  BY <1>3, <1>4, <1>7

LEMMA InFront ==
  ASSUME NEW e \in Images, NEW rest \in Seq(Images)
  PROVE  /\ <<e>> \o rest \in Seq(Images) /\ Len(<<e>> \o rest) = Len(rest) + 1
         /\ (<<e>> \o rest)[1] = e /\ \A p \in 2..(Len(rest) + 1) : (<<e>> \o rest)[p] = rest[p - 1]
OBVIOUS

LEMMA FoundIs ==
  ASSUME NEW list \in Seq(Images), Once(list), NEW url
  PROVE  Found(url, list) = {i \in DOMAIN list : list[i][1] = url}
<1>1. ASSUME NEW i \in DOMAIN list, list[i][1] = url, NEW j \in 1..(i - 1) PROVE list[j][1] # url
  <2>1. j \in DOMAIN list /\ j # i
    OBVIOUS
  <2> QED
    BY <1>1, <2>1 DEF Once
<1> QED
  BY <1>1 DEF Found

\* The list without its i-th entry, that entry or a new one of its url in front.
LEMMA RenewedWithout ==
  ASSUME NEW list \in Seq(Images), Once(list), NEW i \in DOMAIN list, NEW e \in Images, list[i][1] = e[1],
         NEW k \in 0..Len(RemoveAt(list, i))
  PROVE  Renewed(list, i, e, <<e>> \o SubSeq(RemoveAt(list, i), 1, k))
<1>1. i \in 1..Len(list) /\ Len(list) \in Nat /\ i \in Nat
  OBVIOUS
<1>2. PICK r : r = RemoveAt(list, i)
  OBVIOUS
<1>3. r \in Seq(Images) /\ Len(r) = Len(list) - 1 /\ k \in 0..Len(r)
      /\ \A n \in 1..(Len(list) - 1) : r[n] = IF n < i THEN list[n] ELSE list[n + 1]
  BY <1>1, <1>2, Removed
<1>4. PICK q : q = SubSeq(r, 1, k)
  OBVIOUS
<1>5. q \in Seq(Images) /\ Len(q) = k /\ \A n \in 1..k : q[n] = r[n]
  <2>1. 1 \in 1..(Len(r) + 1) /\ k \in (1 - 1)..Len(r)
    BY <1>1, <1>3
  <2> QED
    BY <1>3, <1>4, <2>1, SubSeqProperties
<1>6. PICK m : m = <<e>> \o q
  OBVIOUS
<1>7. m \in Seq(Images) /\ Len(m) = k + 1 /\ m[1] = e /\ \A p \in 2..(k + 1) : m[p] = q[p - 1]
  BY <1>5, <1>6, InFront
<1>8. ASSUME NEW p \in 2..Len(m)
      PROVE  \E o \in DOMAIN list : o = (IF p <= i THEN p - 1 ELSE p) /\ m[p] = list[o]
  <2>1. /\ p \in Nat /\ k \in Nat /\ p - 1 \in 1..k /\ p - 1 \in 1..(Len(list) - 1) /\ p \in 2..(k + 1)
        /\ p \in DOMAIN list /\ p - 1 \in DOMAIN list /\ (p - 1) + 1 = p /\ (p <= i <=> p - 1 < i)
    BY <1>1, <1>3, <1>7
  <2>2. m[p] = IF p - 1 < i THEN list[p - 1] ELSE list[p]
    BY <1>3, <1>5, <1>7, <2>1
  <2> QED
    BY <2>1, <2>2
<1>9. \A j \in DOMAIN list : list[j][1] = e[1] <=> j = i
  BY DEF Once
<1>10. Renewed(list, i, e, m)
  <2>1. k \in Nat /\ i \in 1..(Len(list) + 1) /\ Len(m) >= 1
    BY <1>1, <1>3, <1>7
  <2> QED
    BY <1>7, <1>8, <1>9, <2>1 DEF Renewed
<1> QED
  BY <1>2, <1>4, <1>6, <1>10

\* A beginning of a list that does not have its url, a new entry in front.
LEMMA RenewedWith ==
  ASSUME NEW list \in Seq(Images), NEW e \in Images, \A j \in DOMAIN list : list[j][1] # e[1],
         NEW k \in 0..Len(list)
  PROVE  Renewed(list, Len(list) + 1, e, <<e>> \o SubSeq(list, 1, k))
<1>1. Len(list) \in Nat /\ k \in Nat
  OBVIOUS
<1>2. PICK q : q = SubSeq(list, 1, k)
  OBVIOUS
<1>3. q \in Seq(Images) /\ Len(q) = k /\ \A n \in 1..k : q[n] = list[n]
  <2>1. 1 \in 1..(Len(list) + 1) /\ k \in (1 - 1)..Len(list)
    BY <1>1
  <2> QED
    BY <1>2, <2>1, SubSeqProperties
<1>4. PICK m : m = <<e>> \o q
  OBVIOUS
<1>5. m \in Seq(Images) /\ Len(m) = k + 1 /\ m[1] = e /\ \A p \in 2..(k + 1) : m[p] = q[p - 1]
  BY <1>3, <1>4, InFront
<1>6. ASSUME NEW p \in 2..Len(m)
      PROVE  \E o \in DOMAIN list : o = (IF p <= Len(list) + 1 THEN p - 1 ELSE p) /\ m[p] = list[o]
  <2>1. p <= Len(list) + 1 /\ p - 1 \in 1..k /\ p - 1 \in DOMAIN list /\ p \in 2..(k + 1)
    BY <1>1, <1>5
  <2> QED
    BY <1>3, <1>5, <2>1
<1>7. Renewed(list, Len(list) + 1, e, m)
  <2>1. Len(list) + 1 \in 1..(Len(list) + 1) /\ Len(m) >= 1 /\ Len(list) + 1 \notin DOMAIN list
    BY <1>1, <1>5
  <2> QED
    BY <1>5, <1>6, <2>1 DEF Renewed
<1> QED
  BY <1>2, <1>4, <1>7

-----------------------------------------------------------------------------
ImagesInv ==
  /\ entries \in Seq(Images) /\ uses \in Seq(Images)
  /\ bytes = Total(entries) /\ bytes <= Budget
  /\ Once(entries) /\ Recent(entries, uses)

LEMMA ImagesStart == SizesAssumed /\ Init => ImagesInv
<1> SUFFICES ASSUME SizesAssumed, Init PROVE ImagesInv
  OBVIOUS
<1>1. entries = <<>> /\ bytes = 0 /\ uses = <<>>
  BY DEF Init
<1>2. <<>> \in Seq(Images) /\ Len(<<>>) = 0 /\ DOMAIN <<>> = {} /\ 0 \in 0..Len(<<>>) /\ SubSeq(<<>>, 1, 0) = <<>>
  OBVIOUS
<1>3. Total(<<>>) = 0
  <2>1. PICK list : list = <<>>
    OBVIOUS
  <2>2. list \in Seq(Images) /\ 0 \in 0..Len(list)
    BY <1>2, <2>1
  <2>3. Total(SubSeq(list, 1, 0)) = 0
    BY <2>2, Prefixed
  <2> QED
    BY <1>2, <2>1, <2>3
<1>4. Once(<<>>) /\ Recent(<<>>, <<>>)
  BY <1>2 DEF Once, Recent
<1> QED
  BY <1>1, <1>2, <1>3, <1>4 DEF ImagesInv, SizesAssumed

LEMMA HitKeeps ==
  ASSUME SizesAssumed, ImagesInv, NEW url \in Urls, Hit(url)
  PROVE  ImagesInv'
<1>1. PICK i \in Found(url, entries) : /\ entries' = MoveToFront(i, entries) /\ uses' = Append(uses, entries[i])
                                       /\ bytes' = bytes
  BY DEF Hit
<1>2. /\ i \in 1..Len(entries) /\ i \in DOMAIN entries /\ entries \in Seq(Images) /\ uses \in Seq(Images)
      /\ Once(entries) /\ Recent(entries, uses) /\ bytes = Total(entries) /\ bytes <= Budget
  BY DEF ImagesInv, Found
<1>3. PICK e : e = entries[i]
  OBVIOUS
<1>4. e \in Images /\ entries[i][1] = e[1]
  BY <1>2, <1>3
<1>5. PICK r : r = RemoveAt(entries, i)
  OBVIOUS
<1>6. r \in Seq(Images) /\ Len(r) = Len(entries) - 1 /\ Total(r) = Total(entries) - Size[e[2]] /\ Len(r) \in Nat
  BY <1>2, <1>3, <1>5, Removed, TotalWithout
<1>7. entries' = <<e>> \o r
  BY <1>1, <1>3, <1>5 DEF MoveToFront
<1>8. SubSeq(r, 1, Len(r)) = r
  BY <1>6
<1>9. Renewed(entries, i, e, entries')
  <2>1. Len(r) \in 0..Len(RemoveAt(entries, i))
    BY <1>5, <1>6
  <2>2. Renewed(entries, i, e, <<e>> \o SubSeq(RemoveAt(entries, i), 1, Len(r)))
    BY <1>2, <1>4, <2>1, RenewedWithout
  <2> QED
    BY <1>5, <1>7, <1>8, <2>2
<1>10. Once(entries') /\ Recent(entries', uses')
  <2>1. uses' = Append(uses, e)
    BY <1>1, <1>3
  <2> QED
    BY <1>2, <1>4, <1>9, <2>1, RenewedKeeps
<1>11. entries' \in Seq(Images) /\ Total(entries') = Total(entries)
  <2>1. <<e>> \o r \in Seq(Images) /\ Total(<<e>> \o r) = Size[e[2]] + Total(r)
    BY <1>4, <1>6, TotalInFront
  <2>2. Total(r) = Total(entries) - Size[e[2]] /\ Total(entries) \in Nat /\ Size[e[2]] \in Nat
    <3>1. PICK f : IsSum(f, entries)
      BY <1>2, SumThere
    <3> QED
      BY <1>2, <1>4, <1>6, <3>1, TotalIs, ImageTyped
  <2> QED
    BY <1>7, <2>1, <2>2
<1>12. uses' \in Seq(Images)
  BY <1>1, <1>2, <1>3, <1>4
<1>13. bytes' = Total(entries') /\ bytes' <= Budget
  BY <1>1, <1>2, <1>11
<1> QED
  BY <1>10, <1>11, <1>12, <1>13 DEF ImagesInv, Once, Recent, Total

\* What is left of the list once the former entry of the url is gone, and the
\* least recently used with it.
LEMMA PutRenews ==
  ASSUME SizesAssumed, NEW list \in Seq(Images), Once(list), NEW e \in Images, Size[e[2]] <= Budget,
         NEW replaced, replaced = AfterReplace(e[1], list, Total(list)),
         NEW room, room = Evicted(replaced[1], replaced[2], Size[e[2]])
  PROVE  /\ \E i : Renewed(list, i, e, <<e>> \o room[1])
         /\ <<e>> \o room[1] \in Seq(Images)
         /\ room[2] + Size[e[2]] = Total(<<e>> \o room[1]) /\ room[2] + Size[e[2]] <= Budget
<1>1. e[1] \in Urls /\ Size[e[2]] \in Nat
  BY ImageTyped
<1>2. Found(e[1], list) = {i \in DOMAIN list : list[i][1] = e[1]}
  BY FoundIs
<1>3. PICK r : r = replaced[1]
  OBVIOUS
<1>4. ASSUME r \in Seq(Images), replaced[2] = Total(r)
      PROVE  \E k \in 0..Len(r) : /\ room = <<SubSeq(r, 1, k), Total(SubSeq(r, 1, k))>>
                                  /\ Total(SubSeq(r, 1, k)) + Size[e[2]] <= Budget
  <2>1. room = Evicted(r, Total(r), Size[e[2]])
    BY <1>3, <1>4
  <2> QED
    BY <1>1, <1>4, <2>1, EvictedIs
<1>5. ASSUME r \in Seq(Images), NEW k \in 0..Len(r), room = <<SubSeq(r, 1, k), Total(SubSeq(r, 1, k))>>,
             Total(SubSeq(r, 1, k)) + Size[e[2]] <= Budget
      PROVE  /\ <<e>> \o room[1] \in Seq(Images)
             /\ room[2] + Size[e[2]] = Total(<<e>> \o room[1]) /\ room[2] + Size[e[2]] <= Budget
  <2>1. PICK q : q = SubSeq(r, 1, k)
    OBVIOUS
  <2>2. q \in Seq(Images) /\ Total(q) \in Nat
    BY <1>5, <2>1, Prefixed
  <2>3. <<e>> \o q \in Seq(Images) /\ Total(<<e>> \o q) = Size[e[2]] + Total(q)
    BY <2>2, TotalInFront
  <2>4. room[1] = q /\ room[2] = Total(q)
    BY <1>5, <2>1
  <2> QED
    BY <1>1, <1>5, <2>1, <2>2, <2>3, <2>4
<1>6. CASE Found(e[1], list) = {}
  <2>1. replaced = <<list, Total(list)>>
    BY <1>6 DEF AfterReplace
  <2>2. r = list /\ replaced[2] = Total(r) /\ r \in Seq(Images)
    BY <1>3, <2>1
  <2>3. PICK k \in 0..Len(r) : /\ room = <<SubSeq(r, 1, k), Total(SubSeq(r, 1, k))>>
                               /\ Total(SubSeq(r, 1, k)) + Size[e[2]] <= Budget
    BY <1>4, <2>2
  <2>4. \A j \in DOMAIN list : list[j][1] # e[1]
    BY <1>2, <1>6
  <2>5. Renewed(list, Len(list) + 1, e, <<e>> \o SubSeq(list, 1, k))
    BY <2>2, <2>3, <2>4, RenewedWith
  <2>6. room[1] = SubSeq(list, 1, k)
    BY <2>2, <2>3
  <2>7. Renewed(list, Len(list) + 1, e, <<e>> \o room[1])
    BY <2>5, <2>6
  <2> QED
    BY <1>5, <2>2, <2>3, <2>7
<1>7. CASE Found(e[1], list) # {}
  <2>1. PICK i : i = CHOOSE n \in Found(e[1], list) : TRUE
    OBVIOUS
  <2>2. i \in Found(e[1], list)
    BY <1>7, <2>1
  <2>3. i \in 1..Len(list) /\ i \in DOMAIN list /\ list[i][1] = e[1]
    BY <1>2, <2>2
  <2>4. list[i] \in Images
    BY <2>3
  <2>5. replaced = <<RemoveAt(list, i), Total(list) - Size[list[i][2]]>>
    BY <1>7, <2>1 DEF AfterReplace
  <2>6. r = RemoveAt(list, i) /\ replaced[2] = Total(r) /\ r \in Seq(Images)
    BY <1>3, <2>3, <2>5, Removed, TotalWithout
  <2>7. PICK k \in 0..Len(r) : /\ room = <<SubSeq(r, 1, k), Total(SubSeq(r, 1, k))>>
                               /\ Total(SubSeq(r, 1, k)) + Size[e[2]] <= Budget
    BY <1>4, <2>6
  <2>8. Renewed(list, i, e, <<e>> \o SubSeq(RemoveAt(list, i), 1, k))
    BY <2>3, <2>6, <2>7, RenewedWithout
  <2>9. room[1] = SubSeq(RemoveAt(list, i), 1, k)
    BY <2>6, <2>7
  <2>10. Renewed(list, i, e, <<e>> \o room[1])
    BY <2>8, <2>9
  <2> QED
    BY <1>5, <2>6, <2>7, <2>10
<1> QED
  BY <1>6, <1>7

LEMMA PutKeeps ==
  ASSUME SizesAssumed, ImagesInv, NEW url \in Urls, NEW embedding \in Embeddings, Put(url, embedding)
  PROVE  ImagesInv'
<1>1. PICK e : e = <<url, embedding>>
  OBVIOUS
<1>2. e \in Images /\ e[1] = url /\ e[2] = embedding
  BY <1>1 DEF Images
<1>3. PICK replaced : replaced = AfterReplace(e[1], entries, bytes)
  OBVIOUS
<1>4. PICK room : room = Evicted(replaced[1], replaced[2], Size[e[2]])
  OBVIOUS
<1>5. /\ Size[e[2]] <= Budget /\ entries' = <<e>> \o room[1] /\ bytes' = room[2] + Size[e[2]]
      /\ uses' = Append(uses, e)
  BY <1>1, <1>2, <1>3, <1>4 DEF Put, Fits
<1>6. /\ entries \in Seq(Images) /\ uses \in Seq(Images) /\ bytes = Total(entries)
      /\ Once(entries) /\ Recent(entries, uses)
  BY DEF ImagesInv
<1>7. /\ \E i : Renewed(entries, i, e, <<e>> \o room[1])
      /\ <<e>> \o room[1] \in Seq(Images)
      /\ room[2] + Size[e[2]] = Total(<<e>> \o room[1]) /\ room[2] + Size[e[2]] <= Budget
  <2>1. replaced = AfterReplace(e[1], entries, Total(entries))
    BY <1>3, <1>6
  <2> QED
    BY <1>2, <1>4, <1>5, <1>6, <2>1, PutRenews
<1>8. Once(entries') /\ Recent(entries', uses')
  <2>1. PICK i : Renewed(entries, i, e, entries')
    BY <1>5, <1>7
  <2> QED
    BY <1>2, <1>5, <1>6, <2>1, RenewedKeeps
<1>9. entries' \in Seq(Images) /\ uses' \in Seq(Images) /\ bytes' = Total(entries') /\ bytes' <= Budget
  BY <1>2, <1>5, <1>6, <1>7
<1> QED
  BY <1>8, <1>9 DEF ImagesInv, Once, Recent, Total

LEMMA ImagesStep == SizesAssumed /\ ImagesInv /\ [Next]_vars => ImagesInv'
<1> SUFFICES ASSUME SizesAssumed, ImagesInv, [Next]_vars PROVE ImagesInv'
  OBVIOUS
<1>1. CASE Next
  BY <1>1, HitKeeps, PutKeeps DEF Next
<1>2. CASE UNCHANGED vars
  BY <1>2 DEF vars, ImagesInv, Once, Recent, Total
<1> QED
  BY <1>1, <1>2

LEMMA ImagesSound == ImagesInv => KeepsTheRecent
<1> SUFFICES ASSUME ImagesInv PROVE KeepsTheRecent
  OBVIOUS
<1>1. /\ entries \in Seq(Images) /\ uses \in Seq(Images) /\ bytes = Total(entries) /\ bytes <= Budget
      /\ Recent(entries, uses)
  BY DEF ImagesInv
<1>2. ASSUME NEW i \in DOMAIN entries, NEW u, u = CHOOSE k \in LastUse(entries[i][1]) : TRUE
      PROVE  /\ entries[i] = uses[u]
             /\ \A k \in (u + 1)..Len(uses) : \E j \in 1..(i - 1) : entries[j][1] = uses[k][1]
  <2>1. PICK n \in DOMAIN uses :
          /\ uses[n] = entries[i]
          /\ \A k \in (n + 1)..Len(uses) :
               uses[k][1] # entries[i][1] /\ \E j \in 1..(i - 1) : entries[j][1] = uses[k][1]
    BY <1>1 DEF Recent
  <2>2. PICK url : url = entries[i][1]
    OBVIOUS
  <2>3. DOMAIN uses = 1..Len(uses) /\ Len(uses) \in Nat
    BY <1>1
  <2>4. n \in LastUse(url)
    BY <2>1, <2>2 DEF LastUse
  <2>5. ASSUME NEW k \in LastUse(url) PROVE k = n
    <3>1. k \in 1..Len(uses) /\ uses[k][1] = url /\ \A j \in (k + 1)..Len(uses) : uses[j][1] # url
      BY <2>3, <2>5 DEF LastUse
    <3>2. ~(k > n)
      BY <2>1, <2>2, <2>3, <3>1
    <3>3. ~(k < n)
      BY <2>1, <2>2, <2>3, <3>1
    <3> QED
      BY <2>3, <3>1, <3>2, <3>3
  <2>6. u = n
    BY <1>2, <2>2, <2>4, <2>5
  <2> QED
    BY <2>1, <2>6
<1> QED
  BY <1>1, <1>2 DEF KeepsTheRecent, BytesExact
=============================================================================
