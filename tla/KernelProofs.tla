----------------------------- MODULE KernelProofs -----------------------------
(***************************************************************************)
(* Proofs about Kernels: nothing runs ahead of what it needs, the sums that   *)
(* blocks race for are in one order, and calls fit their buffers.             *)
(*                                                                         *)
(* The forward pass.  The host's programs are instructions; a memory meets   *)
(* what an operation reads or does not, and what it writes is put over it.   *)
(* A program runs from one place of the host to another (Runs), where a place *)
(* is what the named buffers will hold when all that is queued is done, the   *)
(* one stream that may have work, and whether the layer has its slot.  The    *)
(* programs of a layer lead from where any layer may begin to where the next  *)
(* one does (Leads).  The invariant says that what is queued leads from the   *)
(* memory to a place the rest of the program runs on from.                  *)
(*                                                                         *)
(* The product.  In each column there is a round: the blocks up to the lock  *)
(* have added their segments in it, the others in the one before.           *)
(*                                                                         *)
(* The experts' lemmas stand in MoeKernel.                                  *)
(***************************************************************************)
EXTENDS Kernels, FiniteSetTheorems, SequenceTheorems, NaturalsInduction, WellFoundedInduction, TLAPS

-----------------------------------------------------------------------------
(* The forward pass: programs of the host, and what they lead to.          *)

Values == {Way!Nothing} \union (Nat \X Nat)

Partial(buffers) == UNION {[d -> Values] : d \in SUBSET buffers}
Writing(buffers) == UNION {[d -> Values] : d \in (SUBSET buffers) \ {{}}}

Operations(buffers) == [reads : Partial(buffers), writes : Writing(buffers), good : {TRUE}]

Instructions ==
  [do : {"queue"}, stream : Way!Streams, op : Operations(Way!Named)]
    \union [do : {"wait"}, stream : Way!Streams]
    \union [do : {"read"}, from : Way!Named, to : Way!Named, value : Values]
    \union [do : {"acquire"}]
    \union [do : {"launch"}, value : Values]

\* What an operation asks of a memory, and what it makes of it.
Meets(m, reads) == \A b \in DOMAIN reads : m[b] = reads[b]
Put(m, writes)  == [b \in DOMAIN m |-> IF b \in DOMAIN writes THEN writes[b] ELSE m[b]]

\* Where the host stands, all it has queued being done: the named buffers, the
\* stream that may have work left, and whether this layer's expert has a slot.
Expected == [mem : [Way!Named -> Values], busy : Way!Streams \union {"none"}, got : BOOLEAN]

Queues(a, i, b) ==
  /\ i.do = "queue" /\ a.busy \in {"none", i.stream} /\ Meets(a.mem, i.op.reads)
  /\ b.mem = Put(a.mem, i.op.writes) /\ b.busy = i.stream /\ b.got = a.got

Waits(a, i, b) ==
  /\ i.do = "wait" /\ a.busy \in {"none", i.stream}
  /\ b.mem = a.mem /\ b.busy = "none" /\ b.got = a.got

Reads(a, i, b) ==
  /\ i.do = "read" /\ a.busy = "none" /\ a.mem[i.from] = i.value
  /\ b.mem = Put(a.mem, Way!Of({i.to}, i.value)) /\ b.busy = "none" /\ b.got = a.got

Acquires(a, i, b) ==
  /\ i.do = "acquire" /\ a.busy = "none"
  /\ b.mem = a.mem /\ b.busy = "dma" /\ b.got = TRUE

StartsExperts(a, i, b) ==
  /\ i.do = "launch" /\ a.busy = "none" /\ a.got /\ a.mem["x"] = i.value /\ a.mem["routes"] = i.value
  /\ b.mem = Put(a.mem, Way!Of({"y"}, i.value)) /\ b.busy = "s1" /\ b.got = a.got

Advances(a, i, b) ==
  Queues(a, i, b) \/ Waits(a, i, b) \/ Reads(a, i, b) \/ Acquires(a, i, b) \/ StartsExperts(a, i, b)

Runs(p, a, b) ==
  \E st \in Seq(Expected) :
    /\ Len(st) = Len(p) + 1 /\ st[1] = a /\ st[Len(p) + 1] = b
    /\ \A i \in 1..Len(p) : Advances(st[i], p[i], st[i + 1])

Leads(p, A, B) == p \in Seq(Instructions) /\ \A a \in A : \E b \in B : Runs(p, a, b)

LEMMA RunsNowhere ==
  ASSUME NEW a, NEW b, Runs(<<>>, a, b)
  PROVE  a = b /\ a \in Expected
<1>1. PICK st \in Seq(Expected) : Len(st) = Len(<<>>) + 1 /\ st[1] = a /\ st[Len(<<>>) + 1] = b
  BY DEF Runs
<1> QED
  BY <1>1

\* A program is run instruction by instruction.
LEMMA RunsOn ==
  ASSUME NEW p \in Seq(Instructions), p # <<>>, NEW a, NEW c, Runs(p, a, c)
  PROVE  \E b \in Expected : a \in Expected /\ Advances(a, Head(p), b) /\ Runs(Tail(p), b, c)
<1>1. PICK st \in Seq(Expected) :
        /\ Len(st) = Len(p) + 1 /\ st[1] = a /\ st[Len(p) + 1] = c
        /\ \A i \in 1..Len(p) : Advances(st[i], p[i], st[i + 1])
  BY DEF Runs
<1>2. Len(p) \in Nat /\ Len(p) >= 1 /\ Head(p) = p[1] /\ Len(Tail(p)) = Len(p) - 1
  OBVIOUS
<1>3. \A i \in 1..Len(Tail(p)) : Tail(p)[i] = p[i + 1]
  OBVIOUS
<1>4. Tail(st) \in Seq(Expected) /\ Len(Tail(st)) = Len(p)
  BY <1>1, <1>2
<1>5. \A i \in 1..Len(p) : Tail(st)[i] = st[i + 1]
  BY <1>1, <1>2
<1>6. st[1] \in Expected /\ st[2] \in Expected
  BY <1>1, <1>2, ElementOfSeq
<1>7. Advances(a, Head(p), st[2])
  BY <1>1, <1>2
<1>8. Runs(Tail(p), st[2], c)
  <2>1. Len(Tail(st)) = Len(Tail(p)) + 1 /\ Tail(st)[1] = st[2] /\ Tail(st)[Len(Tail(p)) + 1] = c
    BY <1>1, <1>2, <1>4, <1>5
  <2>2. ASSUME NEW i \in 1..Len(Tail(p)) PROVE Advances(Tail(st)[i], Tail(p)[i], Tail(st)[i + 1])
    BY <1>1, <1>2, <1>3, <1>5
  <2> QED
    BY <1>4, <2>1, <2>2 DEF Runs
<1> QED
  BY <1>1, <1>6, <1>7, <1>8

LEMMA RunsOne ==
  ASSUME NEW i, NEW a \in Expected, NEW b \in Expected, Advances(a, i, b)
  PROVE  Runs(<<i>>, a, b)
<1> DEFINE st == <<a, b>>
<1>1. st \in Seq(Expected) /\ Len(st) = 2 /\ st[1] = a /\ st[2] = b /\ Len(<<i>>) = 1 /\ <<i>>[1] = i
  OBVIOUS
<1> HIDE DEF st
<1>2. Len(st) = Len(<<i>>) + 1 /\ st[1] = a /\ st[Len(<<i>>) + 1] = b
  BY <1>1
<1>3. \A k \in 1..Len(<<i>>) : Advances(st[k], <<i>>[k], st[k + 1])
  <2> SUFFICES ASSUME NEW k \in 1..Len(<<i>>) PROVE Advances(st[k], <<i>>[k], st[k + 1])
    OBVIOUS
  <2>1. k = 1
    BY <1>1
  <2> QED
    BY <1>1, <2>1
<1> QED
  BY <1>1, <1>2, <1>3 DEF Runs

\* One program after the other.
LEMMA RunsBoth ==
  ASSUME NEW p \in Seq(Instructions), NEW q \in Seq(Instructions), NEW a, NEW b, NEW c,
         Runs(p, a, b), Runs(q, b, c)
  PROVE  Runs(p \o q, a, c)
<1>1. PICK s \in Seq(Expected) :
        /\ Len(s) = Len(p) + 1 /\ s[1] = a /\ s[Len(p) + 1] = b
        /\ \A i \in 1..Len(p) : Advances(s[i], p[i], s[i + 1])
  BY DEF Runs
<1>2. PICK t \in Seq(Expected) :
        /\ Len(t) = Len(q) + 1 /\ t[1] = b /\ t[Len(q) + 1] = c
        /\ \A i \in 1..Len(q) : Advances(t[i], q[i], t[i + 1])
  BY DEF Runs
<1> DEFINE n == Len(p)  m == Len(q)
           st == [i \in 1..(n + m + 1) |-> IF i <= n + 1 THEN s[i] ELSE t[i - n]]
<1>3. n \in Nat /\ m \in Nat /\ Len(p \o q) = n + m
  OBVIOUS
<1>4. \A i \in 1..(n + m) : (p \o q)[i] = IF i <= n THEN p[i] ELSE q[i - n]
  OBVIOUS
<1>5. \A i \in 1..(n + 1) : s[i] \in Expected
  BY <1>1, ElementOfSeq
<1>6. \A i \in 1..(m + 1) : t[i] \in Expected
  BY <1>2, ElementOfSeq
<1> HIDE DEF n, m
<1>7. st \in Seq(Expected) /\ Len(st) = n + m + 1
  <2>1. \A i \in 1..(n + m + 1) : st[i] \in Expected
    BY <1>3, <1>5, <1>6
  <2> QED
    BY <1>3, <2>1
<1>8. \A i \in 1..(n + m + 1) : st[i] = IF i <= n + 1 THEN s[i] ELSE t[i - n]
  OBVIOUS
<1> HIDE DEF st
<1>9. s[n + 1] = b /\ t[1] = b /\ s[1] = a /\ t[m + 1] = c
  BY <1>1, <1>2 DEF n, m
<1>10. st[1] = a /\ st[n + m + 1] = c
  <2>1. st[1] = a
    BY <1>3, <1>8, <1>9
  <2>2. CASE m = 0
    BY <1>3, <1>8, <1>9, <2>1, <2>2
  <2>3. CASE m # 0
    BY <1>3, <1>8, <1>9, <2>1, <2>3
  <2> QED
    BY <2>2, <2>3
<1>11. ASSUME NEW i \in 1..(n + m) PROVE Advances(st[i], (p \o q)[i], st[i + 1])
  <2>1. CASE i <= n
    <3>1. st[i] = s[i] /\ st[i + 1] = s[i + 1] /\ (p \o q)[i] = p[i]
      BY <1>3, <1>4, <1>8, <2>1
    <3> QED
      BY <1>1, <1>3, <2>1, <3>1 DEF n
  <2>2. CASE i = n + 1
    <3>1. 1 \in 1..m /\ i - n = 1 /\ i + 1 - n = 2 /\ i \in 1..(n + m + 1) /\ i + 1 \in 1..(n + m + 1)
      BY <1>3, <2>2
    <3>2. (p \o q)[i] = q[1]
      BY <1>3, <1>4, <2>2, <3>1
    <3>3. st[i] = t[1]
      BY <1>3, <1>8, <1>9, <2>2, <3>1
    <3>4. st[i + 1] = t[2]
      BY <1>3, <1>8, <2>2, <3>1
    <3>5. Advances(t[1], q[1], t[1 + 1])
      BY <1>2, <3>1 DEF m
    <3> QED
      BY <3>2, <3>3, <3>4, <3>5
  <2>3. CASE i > n + 1
    <3>1. st[i] = t[i - n] /\ st[i + 1] = t[(i - n) + 1] /\ (p \o q)[i] = q[i - n] /\ i - n \in 1..m
      BY <1>3, <1>4, <1>8, <2>3
    <3> QED
      BY <1>2, <1>3, <3>1 DEF m
  <2> QED
    BY <1>3, <2>1, <2>2, <2>3
<1>12. \A i \in 1..Len(p \o q) : Advances(st[i], (p \o q)[i], st[i + 1])
  BY <1>3, <1>11
<1> QED
  BY <1>3, <1>7, <1>10, <1>12 DEF Runs

LEMMA LeadsBoth ==
  ASSUME NEW A, NEW B, NEW C, NEW p, NEW q, Leads(p, A, B), Leads(q, B, C)
  PROVE  Leads(p \o q, A, C)
<1>1. p \in Seq(Instructions) /\ q \in Seq(Instructions) /\ p \o q \in Seq(Instructions)
  BY DEF Leads
<1>2. ASSUME NEW a \in A PROVE \E c \in C : Runs(p \o q, a, c)
  <2>1. PICK b \in B : Runs(p, a, b)
    BY DEF Leads
  <2>2. PICK c \in C : Runs(q, b, c)
    BY DEF Leads
  <2> QED
    BY <1>1, <2>1, <2>2, RunsBoth
<1> QED
  BY <1>1, <1>2 DEF Leads

\* Places at which some named buffers are all of only step.
Standing(bs, v, busies, got) ==
  {a \in Expected : (\A b \in bs : a.mem[b] = v) /\ a.busy \in busies /\ (got => a.got)}

LEMMA PutTyped ==
  ASSUME NEW B, NEW m \in [B -> Values], NEW w \in Partial(B)
  PROVE  /\ Put(m, w) \in [B -> Values]
         /\ \A b \in B : Put(m, w)[b] = IF b \in DOMAIN w THEN w[b] ELSE m[b]
<1>1. PICK d \in SUBSET B : w \in [d -> Values]
  BY DEF Partial
<1> QED
  BY <1>1 DEF Put

LEMMA OfTyped ==
  ASSUME NEW B, NEW bs \in SUBSET B, NEW v \in Values
  PROVE  /\ Way!Of(bs, v) \in Partial(B) /\ DOMAIN Way!Of(bs, v) = bs
         /\ \A b \in bs : Way!Of(bs, v)[b] = v
         /\ bs # {} => Way!Of(bs, v) \in Writing(B)
<1>1. Way!Of(bs, v) \in [bs -> Values] /\ DOMAIN Way!Of(bs, v) = bs /\ \A b \in bs : Way!Of(bs, v)[b] = v
  BY DEF Way!Of
<1>2. Way!Of(bs, v) \in Partial(B)
  BY <1>1 DEF Partial
<1>3. bs # {} => Way!Of(bs, v) \in Writing(B)
  BY <1>1 DEF Writing
<1> QED
  BY <1>1, <1>2, <1>3

LEMMA PutOf ==
  ASSUME NEW B, NEW m \in [B -> Values], NEW ws \in SUBSET B, NEW w \in Values
  PROVE  /\ Put(m, Way!Of(ws, w)) \in [B -> Values]
         /\ \A b \in B : Put(m, Way!Of(ws, w))[b] = IF b \in ws THEN w ELSE m[b]
<1>1. Way!Of(ws, w) \in Partial(B) /\ DOMAIN Way!Of(ws, w) = ws /\ \A b \in ws : Way!Of(ws, w)[b] = w
  BY OfTyped
<1> QED
  BY <1>1, PutTyped

LEMMA WritesPart ==
  ASSUME NEW B, NEW w \in Writing(B)
  PROVE  w \in Partial(B) /\ DOMAIN w # {} /\ DOMAIN w \subseteq B /\ \A b \in DOMAIN w : w[b] \in Values
<1>1. PICK d \in (SUBSET B) \ {{}} : w \in [d -> Values]
  BY DEF Writing
<1> QED
  BY <1>1 DEF Partial

LEMMA LeadsOn ==
  ASSUME NEW s \in Way!Streams, NEW bs \in SUBSET Way!Named, NEW r \in Partial(Way!Named),
         NEW ws \in SUBSET Way!Named, NEW v, NEW w \in Values, NEW keep \in SUBSET bs, NEW got,
         ws # {}, w = v \/ keep = {},
         \A b \in DOMAIN r : b \in bs /\ r[b] = v
  PROVE  Leads(<<Way!On(s, r, Way!Of(ws, w))>>, Standing(bs, v, {"none", s}, got),
               Standing(keep \union ws, w, {s}, got))
<1> DEFINE i == Way!On(s, r, Way!Of(ws, w))
<1>1. i \in Instructions /\ i.do = "queue" /\ i.stream = s /\ i.op.reads = r /\ i.op.writes = Way!Of(ws, w)
  <2>1. [reads |-> r, writes |-> Way!Of(ws, w), good |-> TRUE] \in Operations(Way!Named)
    BY OfTyped DEF Operations
  <2> QED
    BY <2>1 DEF Way!On, Instructions
<1> HIDE DEF i
<1>2. ASSUME NEW a \in Standing(bs, v, {"none", s}, got)
      PROVE  \E b \in Standing(keep \union ws, w, {s}, got) : Runs(<<i>>, a, b)
  <2> DEFINE b == [mem |-> Put(a.mem, Way!Of(ws, w)), busy |-> s, got |-> a.got]
  <2>1. a \in Expected /\ a.mem \in [Way!Named -> Values] /\ a.busy \in {"none", s} /\ a.got \in BOOLEAN
    BY DEF Standing, Expected
  <2> DEFINE m == Put(a.mem, Way!Of(ws, w))
  <2>9. m \in [Way!Named -> Values] /\ \A c \in Way!Named : m[c] = IF c \in ws THEN w ELSE a.mem[c]
    <3> DEFINE n == a.mem
    <3>1. n \in [Way!Named -> Values] /\ ws \in SUBSET Way!Named
      BY <2>1
    <3> HIDE DEF n
    <3>2. /\ Put(n, Way!Of(ws, w)) \in [Way!Named -> Values]
          /\ \A c \in Way!Named : Put(n, Way!Of(ws, w))[c] = IF c \in ws THEN w ELSE n[c]
      BY <3>1, PutOf
    <3> QED
      BY <3>2 DEF n
  <2>2. b.mem \in [Way!Named -> Values]
        /\ \A c \in Way!Named : b.mem[c] = IF c \in ws THEN w ELSE a.mem[c]
    BY <2>9
  <2>3. b \in Expected
    BY <2>1, <2>2 DEF Expected
  <2>4. \A c \in keep \union ws : b.mem[c] = w
    BY <2>2 DEF Standing
  <2>5. b \in Standing(keep \union ws, w, {s}, got)
    BY <2>3, <2>4 DEF Standing
  <2>6. Meets(a.mem, i.op.reads)
    BY <1>1 DEF Meets, Standing
  <2>7. Advances(a, i, b)
    BY <1>1, <2>1, <2>6 DEF Advances, Queues
  <2> QED
    BY <2>1, <2>3, <2>5, <2>7, RunsOne
<1>3. <<i>> \in Seq(Instructions)
  BY <1>1
<1> QED
  BY <1>2, <1>3 DEF Leads, i

LEMMA LeadsWait ==
  ASSUME NEW s \in Way!Streams, NEW bs \in SUBSET Way!Named, NEW v, NEW got
  PROVE  Leads(<<Way!Wait(s)>>, Standing(bs, v, {"none", s}, got), Standing(bs, v, {"none"}, got))
<1> DEFINE i == Way!Wait(s)
<1>1. i \in Instructions /\ i.do = "wait" /\ i.stream = s
  BY DEF Way!Wait, Instructions
<1> HIDE DEF i
<1>2. ASSUME NEW a \in Standing(bs, v, {"none", s}, got)
      PROVE  \E b \in Standing(bs, v, {"none"}, got) : Runs(<<i>>, a, b)
  <2> DEFINE b == [mem |-> a.mem, busy |-> "none", got |-> a.got]
  <2>1. a \in Expected /\ b \in Expected /\ a.busy \in {"none", s}
    BY DEF Standing, Expected
  <2>2. b \in Standing(bs, v, {"none"}, got)
    BY <2>1 DEF Standing
  <2>3. Advances(a, i, b)
    BY <1>1, <2>1 DEF Advances, Waits
  <2> QED
    BY <2>1, <2>2, <2>3, RunsOne
<1>3. <<i>> \in Seq(Instructions)
  BY <1>1
<1> QED
  BY <1>2, <1>3 DEF Leads, i

LEMMA LeadsRead ==
  ASSUME NEW bs \in SUBSET Way!Named, NEW v \in Values, NEW got,
         NEW from \in bs, NEW to \in Way!Named
  PROVE  Leads(<<Way!Read(from, to, v)>>, Standing(bs, v, {"none"}, got), Standing(bs \union {to}, v, {"none"}, got))
<1> DEFINE i == Way!Read(from, to, v)
<1>1. i \in Instructions /\ i.do = "read" /\ i.from = from /\ i.to = to /\ i.value = v
  BY DEF Way!Read, Instructions
<1> HIDE DEF i
<1>2. ASSUME NEW a \in Standing(bs, v, {"none"}, got)
      PROVE  \E b \in Standing(bs \union {to}, v, {"none"}, got) : Runs(<<i>>, a, b)
  <2> DEFINE b == [mem |-> Put(a.mem, Way!Of({to}, v)), busy |-> "none", got |-> a.got]
  <2>1. a \in Expected /\ a.mem \in [Way!Named -> Values] /\ a.busy = "none" /\ a.got \in BOOLEAN
    BY DEF Standing, Expected
  <2> DEFINE m == Put(a.mem, Way!Of({to}, v))
  <2>9. m \in [Way!Named -> Values] /\ \A c \in Way!Named : m[c] = IF c \in {to} THEN v ELSE a.mem[c]
    <3> DEFINE n == a.mem
    <3>1. n \in [Way!Named -> Values] /\ {to} \in SUBSET Way!Named
      BY <2>1
    <3> HIDE DEF n
    <3>2. /\ Put(n, Way!Of({to}, v)) \in [Way!Named -> Values]
          /\ \A c \in Way!Named : Put(n, Way!Of({to}, v))[c] = IF c \in {to} THEN v ELSE n[c]
      BY <3>1, PutOf
    <3> QED
      BY <3>2 DEF n
  <2>2. b.mem \in [Way!Named -> Values]
        /\ \A c \in Way!Named : b.mem[c] = IF c \in {to} THEN v ELSE a.mem[c]
    BY <2>9
  <2>3. b \in Expected
    BY <2>1, <2>2 DEF Expected
  <2>4. \A c \in bs \union {to} : b.mem[c] = v
    BY <2>2 DEF Standing
  <2>5. b \in Standing(bs \union {to}, v, {"none"}, got)
    BY <2>3, <2>4 DEF Standing
  <2>6. a.mem[i.from] = i.value
    BY <1>1 DEF Standing
  <2>7. Advances(a, i, b)
    BY <1>1, <2>1, <2>6 DEF Advances, Reads
  <2> QED
    BY <2>1, <2>3, <2>5, <2>7, RunsOne
<1>3. <<i>> \in Seq(Instructions)
  BY <1>1
<1> QED
  BY <1>2, <1>3 DEF Leads, i

LEMMA LeadsAcquire ==
  ASSUME NEW bs \in SUBSET Way!Named, NEW v, NEW got
  PROVE  Leads(<<Way!Acquire>>, Standing(bs, v, {"none"}, got), Standing(bs, v, {"dma"}, TRUE))
<1> DEFINE i == Way!Acquire
<1>1. i \in Instructions /\ i.do = "acquire"
  BY DEF Way!Acquire, Instructions
<1> HIDE DEF i
<1>2. ASSUME NEW a \in Standing(bs, v, {"none"}, got)
      PROVE  \E b \in Standing(bs, v, {"dma"}, TRUE) : Runs(<<i>>, a, b)
  <2> DEFINE b == [mem |-> a.mem, busy |-> "dma", got |-> TRUE]
  <2>1. a \in Expected /\ b \in Expected /\ a.busy = "none"
    BY DEF Standing, Expected, Way!Streams
  <2>2. b \in Standing(bs, v, {"dma"}, TRUE)
    BY <2>1 DEF Standing
  <2>3. Advances(a, i, b)
    BY <1>1, <2>1 DEF Advances, Acquires
  <2> QED
    BY <2>1, <2>2, <2>3, RunsOne
<1>3. <<i>> \in Seq(Instructions)
  BY <1>1
<1> QED
  BY <1>2, <1>3 DEF Leads, i

LEMMA LeadsLaunch ==
  ASSUME NEW bs \in SUBSET Way!Named, NEW v \in Values, "x" \in bs, "routes" \in bs
  PROVE  Leads(<<Way!LaunchExperts(v)>>, Standing(bs, v, {"none"}, TRUE), Standing(bs \union {"y"}, v, {"s1"}, TRUE))
<1> DEFINE i == Way!LaunchExperts(v)
<1>1. i \in Instructions /\ i.do = "launch" /\ i.value = v
  BY DEF Way!LaunchExperts, Instructions
<1> HIDE DEF i
<1>0. "y" \in Way!Named /\ "s1" \in Way!Streams
  BY DEF Way!Named, Way!Streams
<1>2. ASSUME NEW a \in Standing(bs, v, {"none"}, TRUE)
      PROVE  \E b \in Standing(bs \union {"y"}, v, {"s1"}, TRUE) : Runs(<<i>>, a, b)
  <2> DEFINE b == [mem |-> Put(a.mem, Way!Of({"y"}, v)), busy |-> "s1", got |-> a.got]
  <2>1. a \in Expected /\ a.mem \in [Way!Named -> Values] /\ a.busy = "none" /\ a.got \in BOOLEAN /\ a.got
    BY DEF Standing, Expected
  <2> DEFINE m == Put(a.mem, Way!Of({"y"}, v))
  <2>9. m \in [Way!Named -> Values] /\ \A c \in Way!Named : m[c] = IF c \in {"y"} THEN v ELSE a.mem[c]
    <3> DEFINE n == a.mem
    <3>1. n \in [Way!Named -> Values] /\ {"y"} \in SUBSET Way!Named
      BY <1>0, <2>1
    <3> HIDE DEF n
    <3>2. /\ Put(n, Way!Of({"y"}, v)) \in [Way!Named -> Values]
          /\ \A c \in Way!Named : Put(n, Way!Of({"y"}, v))[c] = IF c \in {"y"} THEN v ELSE n[c]
      BY <3>1, PutOf
    <3> QED
      BY <3>2 DEF n
  <2>2. b.mem \in [Way!Named -> Values]
        /\ \A c \in Way!Named : b.mem[c] = IF c \in {"y"} THEN v ELSE a.mem[c]
    BY <2>9
  <2>3. b \in Expected
    BY <1>0, <2>1, <2>2 DEF Expected
  <2>4. \A c \in bs \union {"y"} : b.mem[c] = v
    BY <1>0, <2>2 DEF Standing
  <2>5. b \in Standing(bs \union {"y"}, v, {"s1"}, TRUE)
    BY <2>1, <2>3, <2>4 DEF Standing
  <2>6. a.mem["x"] = i.value /\ a.mem["routes"] = i.value
    BY <1>1 DEF Standing
  <2>7. Advances(a, i, b)
    BY <1>1, <2>1, <2>6 DEF Advances, StartsExperts
  <2> QED
    BY <2>1, <2>3, <2>5, <2>7, RunsOne
<1>3. <<i>> \in Seq(Instructions)
  BY <1>1
<1> QED
  BY <1>2, <1>3 DEF Leads, i

LEMMA LeadsFrom ==
  ASSUME NEW p, NEW A, NEW B, NEW C, Leads(p, B, C), A \subseteq B
  PROVE  Leads(p, A, C)
BY DEF Leads

LEMMA LeadsInto ==
  ASSUME NEW p, NEW A, NEW B, NEW C, Leads(p, A, B), B \subseteq C
  PROVE  Leads(p, A, C)
BY DEF Leads

LEMMA LeadsTwo ==
  ASSUME NEW i, NEW j, NEW A, NEW B, NEW C, Leads(<<i>>, A, B), Leads(<<j>>, B, C)
  PROVE  Leads(<<i, j>>, A, C)
<1>1. i \in Instructions /\ j \in Instructions
  <2>1. <<i>> \in Seq(Instructions) /\ <<j>> \in Seq(Instructions)
    BY DEF Leads
  <2> QED
    BY <2>1
<1>2. <<i>> \o <<j>> = <<i, j>>
  <2> DEFINE c == <<i>> \o <<j>>  d == <<i, j>>  only == <<i>>  two == <<j>>
  <2>1. only \in Seq(Instructions) /\ two \in Seq(Instructions) /\ Len(only) = 1 /\ Len(two) = 1 /\ only[1] = i /\ two[1] = j
    BY <1>1
  <2>2. d \in Seq(Instructions) /\ Len(d) = 2 /\ d[1] = i /\ d[2] = j
    BY <1>1
  <2> HIDE DEF only, two, d
  <2>3. only \o two \in Seq(Instructions) /\ Len(only \o two) = 2 /\ (only \o two)[1] = i /\ (only \o two)[2] = j
    BY <2>1, ConcatProperties
  <2>4. only \o two = d
    BY <2>2, <2>3, SeqEqual
  <2> QED
    BY <2>4 DEF only, two, d
<1> QED
  BY <1>2, LeadsBoth

LEMMA TwoSteps ==
  ASSUME NEW i, NEW j, NEW A, NEW B, NEW B2, NEW C, Leads(<<i>>, A, B), B \subseteq B2, Leads(<<j>>, B2, C)
  PROVE  Leads(<<i, j>>, A, C)
<1>1. Leads(<<j>>, B, C)
  BY LeadsFrom
<1> QED
  BY <1>1, LeadsTwo

LEMMA LeadsFour ==
  ASSUME NEW i, NEW j, NEW k, NEW l, NEW A, NEW B, NEW C, Leads(<<i, j>>, A, B), Leads(<<k, l>>, B, C)
  PROVE  Leads(<<i, j, k, l>>, A, C)
<1>1. <<i, j, k, l>> = <<i, j>> \o <<k, l>>
  OBVIOUS
<1> QED
  BY <1>1, LeadsBoth

\* The programs of a layer, from a place where the streams are the layer's.
LEMMA LeadsCopy ==
  ASSUME NEW s \in Way!Streams, NEW bs \in SUBSET Way!Named, NEW v \in Values, NEW got,
         NEW from \in bs, NEW to \in Way!Named
  PROVE  Leads(<<Way!Copy(s, from, to, v)>>, Standing(bs, v, {"none", s}, got), Standing(bs \union {to}, v, {s}, got))
<1>1. Way!Of({from}, v) \in Partial(Way!Named) /\ \A b \in DOMAIN Way!Of({from}, v) : b \in bs /\ Way!Of({from}, v)[b] = v
  BY OfTyped
<1>2. {to} \in SUBSET Way!Named /\ {to} # {} /\ bs \in SUBSET bs
  OBVIOUS
<1> QED
  BY <1>1, <1>2, LeadsOn DEF Way!Copy

LEMMA AttendLeads ==
  ASSUME NEW v \in Values
  PROVE  Leads(Way!Attend(v), Standing({"streams"}, v, {"none", "s0"}, FALSE),
               Standing({"streams", "xf"}, v, {"s0"}, FALSE))
<1>1. Way!Of({"streams"}, v) \in Partial(Way!Named)
      /\ \A b \in DOMAIN Way!Of({"streams"}, v) : b \in {"streams"} /\ Way!Of({"streams"}, v)[b] = v
  BY OfTyped DEF Way!Named
<1>2. {"streams", "xf"} \in SUBSET Way!Named /\ {"streams"} \in SUBSET Way!Named /\ {} \in SUBSET {"streams"}
      /\ "s0" \in Way!Streams
  BY DEF Way!Named, Way!Streams
<1>3. Leads(Way!Attend(v), Standing({"streams"}, v, {"none", "s0"}, FALSE),
            Standing({} \union {"streams", "xf"}, v, {"s0"}, FALSE))
  BY <1>1, <1>2, LeadsOn DEF Way!Attend
<1> QED
  BY <1>3

LEMMA DenseLeads ==
  ASSUME NEW v \in Values
  PROVE  Leads(Way!DenseMlp(v), Standing({"streams", "xf"}, v, {"s0"}, FALSE),
               Standing({"streams", "ffn_out"}, v, {"s0"}, FALSE))
<1>1. "s0" \in Way!Streams /\ {"streams", "xf"} \in SUBSET Way!Named /\ "ffn_out" \in Way!Named
  BY DEF Way!Named, Way!Streams
<1>2. Leads(Way!DenseMlp(v), Standing({"streams", "xf"}, v, {"none", "s0"}, FALSE),
            Standing({"streams", "xf"} \union {"ffn_out"}, v, {"s0"}, FALSE))
  BY <1>1, LeadsCopy DEF Way!DenseMlp
<1>3. Standing({"streams", "xf"}, v, {"s0"}, FALSE) \subseteq Standing({"streams", "xf"}, v, {"none", "s0"}, FALSE)
  BY DEF Standing
<1>4. Standing({"streams", "xf"} \union {"ffn_out"}, v, {"s0"}, FALSE) \subseteq Standing({"streams", "ffn_out"}, v, {"s0"}, FALSE)
  BY DEF Standing
<1> QED
  BY <1>2, <1>3, <1>4, LeadsFrom, LeadsInto

LEMMA ToGpu1Leads ==
  ASSUME NEW v \in Values
  PROVE  Leads(Way!ToGpu1(v), Standing({"streams", "xf"}, v, {"s0"}, FALSE),
               Standing({"streams", "shared_out", "x"}, v, {"s1"}, FALSE))
<1> DEFINE A == {"streams", "xf"}
           B == A \union {"shared_out"}
           C == B \union {"pin_h"}
           D == C \union {"x"}
<1>1. A \in SUBSET Way!Named /\ B \in SUBSET Way!Named /\ C \in SUBSET Way!Named /\ "xf" \in A /\ "xf" \in B /\ "pin_h" \in C
      /\ "shared_out" \in Way!Named /\ "pin_h" \in Way!Named /\ "x" \in Way!Named
      /\ "s0" \in Way!Streams /\ "s1" \in Way!Streams
  BY DEF Way!Named, Way!Streams
<1>2. {"streams", "shared_out", "x"} \subseteq D
  OBVIOUS
<1> HIDE DEF A, B, C, D
<1>3. Leads(<<Way!Copy("s0", "xf", "shared_out", v)>>, Standing(A, v, {"none", "s0"}, FALSE), Standing(B, v, {"s0"}, FALSE))
  BY <1>1, LeadsCopy DEF B
<1>4. Leads(<<Way!Copy("s0", "xf", "pin_h", v)>>, Standing(B, v, {"none", "s0"}, FALSE), Standing(C, v, {"s0"}, FALSE))
  BY <1>1, LeadsCopy DEF C
<1>5. Leads(<<Way!Wait("s0")>>, Standing(C, v, {"none", "s0"}, FALSE), Standing(C, v, {"none"}, FALSE))
  BY <1>1, LeadsWait
<1>6. Leads(<<Way!Copy("s1", "pin_h", "x", v)>>, Standing(C, v, {"none", "s1"}, FALSE), Standing(D, v, {"s1"}, FALSE))
  BY <1>1, LeadsCopy DEF D
<1>7a. Standing(A, v, {"s0"}, FALSE) \subseteq Standing(A, v, {"none", "s0"}, FALSE)
  BY DEF Standing
<1>7b. Standing(B, v, {"s0"}, FALSE) \subseteq Standing(B, v, {"none", "s0"}, FALSE)
  BY DEF Standing
<1>7c. Standing(C, v, {"s0"}, FALSE) \subseteq Standing(C, v, {"none", "s0"}, FALSE)
  BY DEF Standing
<1>7d. Standing(C, v, {"none"}, FALSE) \subseteq Standing(C, v, {"none", "s1"}, FALSE)
  BY DEF Standing
<1>8. Leads(<<Way!Copy("s0", "xf", "shared_out", v), Way!Copy("s0", "xf", "pin_h", v)>>,
            Standing(A, v, {"s0"}, FALSE), Standing(C, v, {"s0"}, FALSE))
  <2>1. Leads(<<Way!Copy("s0", "xf", "shared_out", v)>>, Standing(A, v, {"s0"}, FALSE), Standing(B, v, {"s0"}, FALSE))
    BY <1>3, <1>7a, LeadsFrom
  <2> QED
    BY <2>1, <1>4, <1>7b, TwoSteps
<1>9. Leads(<<Way!Wait("s0"), Way!Copy("s1", "pin_h", "x", v)>>,
            Standing(C, v, {"s0"}, FALSE), Standing(D, v, {"s1"}, FALSE))
  <2>1. Leads(<<Way!Wait("s0")>>, Standing(C, v, {"s0"}, FALSE), Standing(C, v, {"none"}, FALSE))
    BY <1>5, <1>7c, LeadsFrom
  <2> QED
    BY <2>1, <1>6, <1>7d, TwoSteps
<1>10. Leads(Way!ToGpu1(v), Standing(A, v, {"s0"}, FALSE), Standing(D, v, {"s1"}, FALSE))
  <2>1. Leads(<<Way!Copy("s0", "xf", "shared_out", v), Way!Copy("s0", "xf", "pin_h", v), Way!Wait("s0"),
             Way!Copy("s1", "pin_h", "x", v)>>, Standing(A, v, {"s0"}, FALSE), Standing(D, v, {"s1"}, FALSE))
    BY <1>8, <1>9, LeadsFour
  <2> QED
    BY <2>1 DEF Way!ToGpu1
<1>11. Standing(D, v, {"s1"}, FALSE) \subseteq Standing({"streams", "shared_out", "x"}, v, {"s1"}, FALSE)
  BY <1>2 DEF Standing
<1> QED
  BY <1>10, <1>11, LeadsInto DEF A

LEMMA LeadsSix ==
  ASSUME NEW i, NEW j, NEW k, NEW l, NEW m, NEW n, NEW A, NEW B, NEW C,
         Leads(<<i, j, k, l>>, A, B), Leads(<<m, n>>, B, C)
  PROVE  Leads(<<i, j, k, l, m, n>>, A, C)
<1>1. <<i, j, k, l, m, n>> = <<i, j, k, l>> \o <<m, n>>
  OBVIOUS
<1> QED
  BY <1>1, LeadsBoth

LEMMA RouteLeads ==
  ASSUME NEW v \in Values
  PROVE  Leads(Way!Route(v), Standing({"streams", "shared_out", "x"}, v, {"s1"}, FALSE),
               Standing({"streams", "shared_out", "x", "routes"}, v, {"none"}, TRUE))
<1> DEFINE A == {"streams", "shared_out", "x"}
           B == A \union {"routes"}
           C == B \union {"host_routes"}
           D == C \union {"experts"}
<1>1. A \in SUBSET Way!Named /\ B \in SUBSET Way!Named /\ C \in SUBSET Way!Named /\ D \in SUBSET Way!Named
      /\ "x" \in A /\ "routes" \in B /\ "host_routes" \in C
      /\ "routes" \in Way!Named /\ "host_routes" \in Way!Named /\ "experts" \in Way!Named
      /\ "dma" \in Way!Streams /\ "s1" \in Way!Streams
  BY DEF Way!Named, Way!Streams
<1>2. {"streams", "shared_out", "x", "routes"} \subseteq D
  OBVIOUS
<1> HIDE DEF A, B, C, D
<1>3. Leads(<<Way!Copy("s1", "x", "routes", v)>>, Standing(A, v, {"none", "s1"}, FALSE), Standing(B, v, {"s1"}, FALSE))
  BY <1>1, LeadsCopy DEF B
<1>4. Leads(<<Way!Copy("s1", "routes", "host_routes", v)>>, Standing(B, v, {"none", "s1"}, FALSE), Standing(C, v, {"s1"}, FALSE))
  BY <1>1, LeadsCopy DEF C
<1>5. Leads(<<Way!Wait("s1")>>, Standing(C, v, {"none", "s1"}, FALSE), Standing(C, v, {"none"}, FALSE))
  BY <1>1, LeadsWait
<1>6. Leads(<<Way!Read("host_routes", "experts", v)>>, Standing(C, v, {"none"}, FALSE), Standing(D, v, {"none"}, FALSE))
  BY <1>1, LeadsRead DEF D
<1>7. Leads(<<Way!Acquire>>, Standing(D, v, {"none"}, FALSE), Standing(D, v, {"dma"}, TRUE))
  BY <1>1, LeadsAcquire
<1>8. Leads(<<Way!Wait("dma")>>, Standing(D, v, {"none", "dma"}, TRUE), Standing(D, v, {"none"}, TRUE))
  BY <1>1, LeadsWait
<1>9a. Standing(A, v, {"s1"}, FALSE) \subseteq Standing(A, v, {"none", "s1"}, FALSE)
  BY DEF Standing
<1>9b. Standing(B, v, {"s1"}, FALSE) \subseteq Standing(B, v, {"none", "s1"}, FALSE)
  BY DEF Standing
<1>9c. Standing(C, v, {"s1"}, FALSE) \subseteq Standing(C, v, {"none", "s1"}, FALSE)
  BY DEF Standing
<1>9d. Standing(D, v, {"dma"}, TRUE) \subseteq Standing(D, v, {"none", "dma"}, TRUE)
  BY DEF Standing
<1>10. Leads(<<Way!Copy("s1", "x", "routes", v), Way!Copy("s1", "routes", "host_routes", v)>>,
             Standing(A, v, {"s1"}, FALSE), Standing(C, v, {"s1"}, FALSE))
  <2>1. Leads(<<Way!Copy("s1", "x", "routes", v)>>, Standing(A, v, {"s1"}, FALSE), Standing(B, v, {"s1"}, FALSE))
    BY <1>3, <1>9a, LeadsFrom
  <2> QED
    BY <2>1, <1>4, <1>9b, TwoSteps
<1>11. Leads(<<Way!Wait("s1"), Way!Read("host_routes", "experts", v)>>,
             Standing(C, v, {"s1"}, FALSE), Standing(D, v, {"none"}, FALSE))
  <2>1. Leads(<<Way!Wait("s1")>>, Standing(C, v, {"s1"}, FALSE), Standing(C, v, {"none"}, FALSE))
    BY <1>5, <1>9c, LeadsFrom
  <2> QED
    BY <2>1, <1>6, LeadsTwo
<1>12. Leads(<<Way!Acquire, Way!Wait("dma")>>, Standing(D, v, {"none"}, FALSE), Standing(D, v, {"none"}, TRUE))
  BY <1>7, <1>8, <1>9d, TwoSteps
<1>13. Leads(<<Way!Copy("s1", "x", "routes", v), Way!Copy("s1", "routes", "host_routes", v),
               Way!Wait("s1"), Way!Read("host_routes", "experts", v)>>,
             Standing(A, v, {"s1"}, FALSE), Standing(D, v, {"none"}, FALSE))
  BY <1>10, <1>11, LeadsFour
<1>14. Leads(Way!Route(v), Standing(A, v, {"s1"}, FALSE), Standing(D, v, {"none"}, TRUE))
  <2>1. Leads(<<Way!Copy("s1", "x", "routes", v), Way!Copy("s1", "routes", "host_routes", v), Way!Wait("s1"),
             Way!Read("host_routes", "experts", v), Way!Acquire, Way!Wait("dma")>>, Standing(A, v, {"s1"}, FALSE), Standing(D, v, {"none"}, TRUE))
    BY <1>12, <1>13, LeadsSix
  <2> QED
    BY <2>1 DEF Way!Route
<1>15. Standing(D, v, {"none"}, TRUE) \subseteq Standing({"streams", "shared_out", "x", "routes"}, v, {"none"}, TRUE)
  BY <1>2 DEF Standing
<1> QED
  BY <1>14, <1>15, LeadsInto DEF A

LEMMA ExpertsLeads ==
  ASSUME NEW v \in Values
  PROVE  Leads(Way!Experts(v), Standing({"streams", "shared_out", "x", "routes"}, v, {"none"}, TRUE),
               Standing({"streams", "shared_out", "ffn_out"}, v, {"s0"}, FALSE))
<1> DEFINE A == {"streams", "shared_out", "x", "routes"}
           B == A \union {"y"}
           C == B \union {"host_y"}
           D == C \union {"ffn_out"}
<1>1. A \in SUBSET Way!Named /\ B \in SUBSET Way!Named /\ C \in SUBSET Way!Named
      /\ "x" \in A /\ "routes" \in A /\ "y" \in B /\ "host_y" \in C
      /\ "host_y" \in Way!Named /\ "ffn_out" \in Way!Named
      /\ "s0" \in Way!Streams /\ "s1" \in Way!Streams
  BY DEF Way!Named, Way!Streams
<1>2. {"streams", "shared_out", "ffn_out"} \subseteq D
  OBVIOUS
<1> HIDE DEF A, B, C, D
<1>3. Leads(<<Way!LaunchExperts(v)>>, Standing(A, v, {"none"}, TRUE), Standing(B, v, {"s1"}, TRUE))
  BY <1>1, LeadsLaunch DEF B
<1>4. Leads(<<Way!Copy("s1", "y", "host_y", v)>>, Standing(B, v, {"none", "s1"}, TRUE), Standing(C, v, {"s1"}, TRUE))
  BY <1>1, LeadsCopy DEF C
<1>5. Leads(<<Way!Wait("s1")>>, Standing(C, v, {"none", "s1"}, TRUE), Standing(C, v, {"none"}, TRUE))
  BY <1>1, LeadsWait
<1>6. Leads(<<Way!Copy("s0", "host_y", "ffn_out", v)>>, Standing(C, v, {"none", "s0"}, TRUE), Standing(D, v, {"s0"}, TRUE))
  BY <1>1, LeadsCopy DEF D
<1>7a. Standing(B, v, {"s1"}, TRUE) \subseteq Standing(B, v, {"none", "s1"}, TRUE)
  BY DEF Standing
<1>7b. Standing(C, v, {"s1"}, TRUE) \subseteq Standing(C, v, {"none", "s1"}, TRUE)
  BY DEF Standing
<1>7c. Standing(C, v, {"none"}, TRUE) \subseteq Standing(C, v, {"none", "s0"}, TRUE)
  BY DEF Standing
<1>8. Leads(<<Way!LaunchExperts(v), Way!Copy("s1", "y", "host_y", v)>>,
            Standing(A, v, {"none"}, TRUE), Standing(C, v, {"s1"}, TRUE))
  BY <1>3, <1>4, <1>7a, TwoSteps
<1>9. Leads(<<Way!Wait("s1"), Way!Copy("s0", "host_y", "ffn_out", v)>>,
            Standing(C, v, {"s1"}, TRUE), Standing(D, v, {"s0"}, TRUE))
  <2>1. Leads(<<Way!Wait("s1")>>, Standing(C, v, {"s1"}, TRUE), Standing(C, v, {"none"}, TRUE))
    BY <1>5, <1>7b, LeadsFrom
  <2> QED
    BY <2>1, <1>6, <1>7c, TwoSteps
<1>10. Leads(Way!Experts(v), Standing(A, v, {"none"}, TRUE), Standing(D, v, {"s0"}, TRUE))
  <2>1. Leads(<<Way!LaunchExperts(v), Way!Copy("s1", "y", "host_y", v), Way!Wait("s1"),
             Way!Copy("s0", "host_y", "ffn_out", v)>>, Standing(A, v, {"none"}, TRUE), Standing(D, v, {"s0"}, TRUE))
    BY <1>8, <1>9, LeadsFour
  <2> QED
    BY <2>1 DEF Way!Experts
<1>11. Standing(D, v, {"s0"}, TRUE) \subseteq Standing({"streams", "shared_out", "ffn_out"}, v, {"s0"}, FALSE)
  BY <1>2 DEF Standing
<1> QED
  BY <1>10, <1>11, LeadsInto DEF A

LEMMA SharedLeads ==
  ASSUME NEW v \in Values
  PROVE  Leads(Way!AddShared(v), Standing({"streams", "shared_out", "ffn_out"}, v, {"s0"}, FALSE),
               Standing({"streams", "ffn_out"}, v, {"s0"}, FALSE))
<1> DEFINE A == {"streams", "shared_out", "ffn_out"}  R == {"ffn_out", "shared_out"}
<1>1. R \in SUBSET Way!Named /\ A \in SUBSET Way!Named /\ R \subseteq A /\ {"ffn_out"} \in SUBSET Way!Named
      /\ {"ffn_out"} # {} /\ A \in SUBSET A /\ "s0" \in Way!Streams /\ {"streams", "ffn_out"} \subseteq A \union {"ffn_out"}
  BY DEF Way!Named, Way!Streams
<1>2. Way!AddShared(v) = <<Way!On("s0", Way!Of(R, v), Way!Of({"ffn_out"}, v))>>
  BY DEF Way!AddShared
<1> HIDE DEF A, R
<1>3. Way!Of(R, v) \in Partial(Way!Named) /\ \A b \in DOMAIN Way!Of(R, v) : b \in A /\ Way!Of(R, v)[b] = v
  <2>1. R \in SUBSET Way!Named /\ R \subseteq A
    BY <1>1
  <2>2. Way!Of(R, v) \in Partial(Way!Named) /\ DOMAIN Way!Of(R, v) = R /\ \A b \in R : Way!Of(R, v)[b] = v
    BY <2>1, OfTyped
  <2> QED
    BY <2>1, <2>2
<1>4. Leads(Way!AddShared(v), Standing(A, v, {"none", "s0"}, FALSE), Standing(A \union {"ffn_out"}, v, {"s0"}, FALSE))
  <2> DEFINE r == Way!Of(R, v)  W == {"ffn_out"}
  <2>1. r \in Partial(Way!Named) /\ \A b \in DOMAIN r : b \in A /\ r[b] = v
    BY <1>3
  <2>2. W \in SUBSET Way!Named /\ W # {}
    BY <1>1
  <2> HIDE DEF r, W
  <2>3. Leads(<<Way!On("s0", r, Way!Of(W, v))>>, Standing(A, v, {"none", "s0"}, FALSE), Standing(A \union W, v, {"s0"}, FALSE))
    BY <1>1, <2>1, <2>2, LeadsOn
  <2> QED
    BY <1>2, <2>3 DEF r, W
<1>5. Standing(A, v, {"s0"}, FALSE) \subseteq Standing(A, v, {"none", "s0"}, FALSE)
  BY DEF Standing
<1>6. Standing(A \union {"ffn_out"}, v, {"s0"}, FALSE) \subseteq Standing({"streams", "ffn_out"}, v, {"s0"}, FALSE)
  BY <1>1 DEF Standing
<1>7. Leads(Way!AddShared(v), Standing(A, v, {"s0"}, FALSE), Standing(A \union {"ffn_out"}, v, {"s0"}, FALSE))
  BY <1>4, <1>5, LeadsFrom
<1>8. Leads(Way!AddShared(v), Standing(A, v, {"s0"}, FALSE), Standing({"streams", "ffn_out"}, v, {"s0"}, FALSE))
  BY <1>6, <1>7, LeadsInto
<1> QED
  BY <1>8 DEF A

LEMMA ApplyLeads ==
  ASSUME NEW n \in Nat, NEW l \in Nat
  PROVE  Leads(Way!Apply(<<n, l>>), Standing({"streams", "ffn_out"}, <<n, l>>, {"s0"}, FALSE),
               Standing({"streams"}, <<n, l + 1>>, {"s0"}, FALSE))
<1> DEFINE A == {"streams", "ffn_out"}  v == <<n, l>>  w == <<n, l + 1>>
<1>1. A \in SUBSET Way!Named /\ {"streams"} \in SUBSET Way!Named /\ {"streams"} # {} /\ {} \in SUBSET A /\ "s0" \in Way!Streams
      /\ {} \union {"streams"} = {"streams"}
  BY DEF Way!Named, Way!Streams
<1>2. Way!Apply(v) = <<Way!On("s0", Way!Of(A, v), Way!Of({"streams"}, w))>> /\ v \in Values /\ w \in Values
  BY DEF Way!Apply, Values
<1> HIDE DEF A, v, w
<1>3. Way!Of(A, v) \in Partial(Way!Named) /\ \A b \in DOMAIN Way!Of(A, v) : b \in A /\ Way!Of(A, v)[b] = v
  BY <1>1, <1>2, OfTyped
<1>4. Leads(Way!Apply(v), Standing(A, v, {"none", "s0"}, FALSE), Standing({} \union {"streams"}, w, {"s0"}, FALSE))
  <2> DEFINE r == Way!Of(A, v)  W == {"streams"}  none == {}
  <2>1. r \in Partial(Way!Named) /\ \A b \in DOMAIN r : b \in A /\ r[b] = v
    BY <1>3
  <2>2. W \in SUBSET Way!Named /\ W # {} /\ none \in SUBSET A /\ none = {}
    BY <1>1
  <2> HIDE DEF r, W, none
  <2>3. Leads(<<Way!On("s0", r, Way!Of(W, w))>>, Standing(A, v, {"none", "s0"}, FALSE), Standing(none \union W, w, {"s0"}, FALSE))
    BY <1>1, <1>2, <2>1, <2>2, LeadsOn
  <2> QED
    BY <1>2, <2>3 DEF r, W, none
<1>5. Standing(A, v, {"s0"}, FALSE) \subseteq Standing(A, v, {"none", "s0"}, FALSE)
  BY DEF Standing
<1>6. Leads(Way!Apply(v), Standing(A, v, {"s0"}, FALSE), Standing({"streams"}, w, {"s0"}, FALSE))
  BY <1>1, <1>4, <1>5, LeadsFrom
<1> QED
  BY <1>6 DEF A, v, w

\* A layer's streams go in, the next layer's come out.
LEMMA LayerLeads ==
  ASSUME NEW n \in Nat, NEW l \in Nat
  PROVE  Leads(Way!LayerStep(<<n, l>>), Standing({"streams"}, <<n, l>>, {"none", "s0"}, FALSE),
               Standing({"streams"}, <<n, l + 1>>, {"s0"}, FALSE))
<1> DEFINE v == <<n, l>>
<1>1. v \in Values /\ v[2] = l
  BY DEF Values
<1>2. Leads(Way!Apply(v), Standing({"streams", "ffn_out"}, v, {"s0"}, FALSE), Standing({"streams"}, <<n, l + 1>>, {"s0"}, FALSE))
  BY ApplyLeads
<1> HIDE DEF v
<1>3. Leads(Way!MoeFfn(v), Standing({"streams", "xf"}, v, {"s0"}, FALSE), Standing({"streams", "ffn_out"}, v, {"s0"}, FALSE))
  BY <1>1, ToGpu1Leads, RouteLeads, ExpertsLeads, SharedLeads, LeadsBoth DEF Way!MoeFfn
<1>4. Leads(IF Layers[v[2]] = "moe" THEN Way!MoeFfn(v) ELSE Way!DenseMlp(v),
            Standing({"streams", "xf"}, v, {"s0"}, FALSE), Standing({"streams", "ffn_out"}, v, {"s0"}, FALSE))
  BY <1>1, <1>3, DenseLeads
<1>5. Leads(Way!Attend(v), Standing({"streams"}, v, {"none", "s0"}, FALSE), Standing({"streams", "xf"}, v, {"s0"}, FALSE))
  BY <1>1, AttendLeads
<1>6. Leads(Way!LayerStep(v), Standing({"streams"}, v, {"none", "s0"}, FALSE), Standing({"streams"}, <<n, l + 1>>, {"s0"}, FALSE))
  <2>1. PICK ffn : ffn = IF Layers[v[2]] = "moe" THEN Way!MoeFfn(v) ELSE Way!DenseMlp(v)
    OBVIOUS
  <2>2. Leads(Way!Attend(v) \o ffn, Standing({"streams"}, v, {"none", "s0"}, FALSE), Standing({"streams", "ffn_out"}, v, {"s0"}, FALSE))
    BY <1>4, <1>5, <2>1, LeadsBoth
  <2>3. Leads((Way!Attend(v) \o ffn) \o Way!Apply(v), Standing({"streams"}, v, {"none", "s0"}, FALSE), Standing({"streams"}, <<n, l + 1>>, {"s0"}, FALSE))
    BY <1>2, <2>2, LeadsBoth
  <2> QED
    BY <2>1, <2>3 DEF Way!LayerStep
<1> QED
  BY <1>6 DEF v

LEMMA EmbedLeads ==
  ASSUME NEW v \in Values
  PROVE  Leads(Way!Embed(v), Standing({}, v, {"none", "s0"}, FALSE), Standing({"streams"}, v, {"s0"}, FALSE))
<1> DEFINE A == {"tokens"} \union {"streams"}
<1>1. {"tokens"} \in SUBSET Way!Named /\ {"tokens"} # {} /\ {} \in SUBSET Way!Named /\ {} \in SUBSET {} /\ "s0" \in Way!Streams
      /\ "tokens" \in {"tokens"} /\ "streams" \in Way!Named /\ {} \union {"tokens"} = {"tokens"} /\ {"streams"} \subseteq A
  BY DEF Way!Named, Way!Streams
<1>2. <<>> \in Partial(Way!Named) /\ DOMAIN <<>> = {}
  <2>1. <<>> \in [{} -> Values] /\ {} \in SUBSET Way!Named
    OBVIOUS
  <2> QED
    BY <2>1 DEF Partial
<1> HIDE DEF A
<1>3. Leads(<<Way!On("s0", <<>>, Way!Of({"tokens"}, v))>>, Standing({}, v, {"none", "s0"}, FALSE), Standing({"tokens"}, v, {"s0"}, FALSE))
  <2>1. \A b \in DOMAIN <<>> : b \in {} /\ <<>>[b] = v
    BY <1>2
  <2>2. Leads(<<Way!On("s0", <<>>, Way!Of({"tokens"}, v))>>, Standing({}, v, {"none", "s0"}, FALSE), Standing({} \union {"tokens"}, v, {"s0"}, FALSE))
    BY <1>1, <1>2, <2>1, LeadsOn
  <2> QED
    BY <1>1, <2>2
<1>4. Leads(<<Way!Copy("s0", "tokens", "streams", v)>>, Standing({"tokens"}, v, {"none", "s0"}, FALSE), Standing(A, v, {"s0"}, FALSE))
  BY <1>1, LeadsCopy DEF A
<1>5a. Standing({"tokens"}, v, {"s0"}, FALSE) \subseteq Standing({"tokens"}, v, {"none", "s0"}, FALSE)
  BY DEF Standing
<1>5b. Standing(A, v, {"s0"}, FALSE) \subseteq Standing({"streams"}, v, {"s0"}, FALSE)
  BY <1>1 DEF Standing
<1>6. Leads(Way!Embed(v), Standing({}, v, {"none", "s0"}, FALSE), Standing(A, v, {"s0"}, FALSE))
  BY <1>3, <1>4, <1>5a, TwoSteps DEF Way!Embed
<1> QED
  BY <1>5b, <1>6, LeadsInto

LEMMA HeadLeads ==
  ASSUME NEW v \in Values
  PROVE  Leads(Way!FinalHead(v), Standing({"streams"}, v, {"none", "s0"}, FALSE), Standing({}, v, {"none"}, FALSE))
<1> DEFINE A == {"streams"}  B == A \union {"host_logits"}  C == B \union {"sampled"}
<1>1. A \in SUBSET Way!Named /\ B \in SUBSET Way!Named /\ "streams" \in A /\ "host_logits" \in B
      /\ "host_logits" \in Way!Named /\ "sampled" \in Way!Named /\ "s0" \in Way!Streams
  BY DEF Way!Named, Way!Streams
<1> HIDE DEF A, B, C
<1>2. Leads(<<Way!Copy("s0", "streams", "host_logits", v)>>, Standing(A, v, {"none", "s0"}, FALSE), Standing(B, v, {"s0"}, FALSE))
  BY <1>1, LeadsCopy DEF B
<1>3. Leads(<<Way!Wait("s0")>>, Standing(B, v, {"none", "s0"}, FALSE), Standing(B, v, {"none"}, FALSE))
  BY <1>1, LeadsWait
<1>4. Leads(<<Way!Read("host_logits", "sampled", v)>>, Standing(B, v, {"none"}, FALSE), Standing(C, v, {"none"}, FALSE))
  BY <1>1, LeadsRead DEF C
<1>5. Standing(B, v, {"s0"}, FALSE) \subseteq Standing(B, v, {"none", "s0"}, FALSE)
  BY DEF Standing
<1>9. Standing(C, v, {"none"}, FALSE) \subseteq Standing({}, v, {"none"}, FALSE)
  BY DEF Standing
<1>6. Leads(<<Way!Copy("s0", "streams", "host_logits", v), Way!Wait("s0")>>, Standing(A, v, {"none", "s0"}, FALSE), Standing(B, v, {"none"}, FALSE))
  BY <1>2, <1>3, <1>5, TwoSteps
<1>7. Way!FinalHead(v) = <<Way!Copy("s0", "streams", "host_logits", v), Way!Wait("s0")>> \o <<Way!Read("host_logits", "sampled", v)>>
  BY DEF Way!FinalHead
<1>8. Leads(Way!FinalHead(v), Standing(A, v, {"none", "s0"}, FALSE), Standing(C, v, {"none"}, FALSE))
  BY <1>4, <1>6, <1>7, LeadsBoth
<1>10. Leads(Way!FinalHead(v), Standing(A, v, {"none", "s0"}, FALSE), Standing({}, v, {"none"}, FALSE))
  BY <1>8, <1>9, LeadsInto
<1> QED
  BY <1>10 DEF A

Memories == [Way!Buffers -> Values]

\* What the operations of a queue make of a memory, each finding what it is for.
BringsTo(q, m, bel) ==
  \E t \in Seq(Memories) :
    /\ Len(t) = Len(q) + 1 /\ t[1] = m /\ t[Len(q) + 1] = bel
    /\ \A i \in 1..Len(q) : Meets(t[i], q[i].reads) /\ t[i + 1] = Put(t[i], q[i].writes)

LEMMA BringsNothing ==
  ASSUME NEW m \in Memories
  PROVE  BringsTo(<<>>, m, m)
<1> DEFINE t == <<m>>
<1>1. t \in Seq(Memories) /\ Len(t) = Len(<<>>) + 1 /\ t[1] = m /\ t[Len(<<>>) + 1] = m
  OBVIOUS
<1> HIDE DEF t
<1>2. \A i \in 1..Len(<<>>) : Meets(t[i], <<>>[i].reads) /\ t[i + 1] = Put(t[i], <<>>[i].writes)
  OBVIOUS
<1> QED
  BY <1>1, <1>2 DEF BringsTo

LEMMA BroughtNothing ==
  ASSUME NEW m, NEW bel, BringsTo(<<>>, m, bel)
  PROVE  m = bel
BY DEF BringsTo

LEMMA BringsMore ==
  ASSUME NEW q \in Seq(Operations(Way!Buffers)), NEW m, NEW bel, BringsTo(q, m, bel),
         NEW op \in Operations(Way!Buffers), Meets(bel, op.reads)
  PROVE  BringsTo(Append(q, op), m, Put(bel, op.writes))
<1>1. PICK t \in Seq(Memories) :
        /\ Len(t) = Len(q) + 1 /\ t[1] = m /\ t[Len(q) + 1] = bel
        /\ \A i \in 1..Len(q) : Meets(t[i], q[i].reads) /\ t[i + 1] = Put(t[i], q[i].writes)
  BY DEF BringsTo
<1>2. PICK n : n = Put(bel, op.writes)
  OBVIOUS
<1>3. bel \in Memories
  BY <1>1, ElementOfSeq
<1>4. n \in Memories
  <2>1. op.writes \in Partial(Way!Buffers)
    BY WritesPart DEF Operations
  <2> QED
    BY <1>2, <1>3, <2>1, PutTyped DEF Memories
<1>5. PICK u : u = Append(t, n)
  OBVIOUS
<1>6. /\ u \in Seq(Memories) /\ Len(u) = Len(t) + 1 /\ Len(t) \in Nat
      /\ \A i \in 1..(Len(t) + 1) : u[i] = IF i <= Len(t) THEN t[i] ELSE n
  BY <1>1, <1>4, <1>5
<1>7. PICK r : r = Append(q, op)
  OBVIOUS
<1>8. /\ Len(r) = Len(q) + 1 /\ Len(q) \in Nat
      /\ \A i \in 1..(Len(q) + 1) : r[i] = IF i <= Len(q) THEN q[i] ELSE op
  BY <1>7
<1>9. Len(u) = Len(r) + 1 /\ u[1] = m /\ u[Len(r) + 1] = n
  BY <1>1, <1>6, <1>8
<1>10. ASSUME NEW i \in 1..Len(r) PROVE Meets(u[i], r[i].reads) /\ u[i + 1] = Put(u[i], r[i].writes)
  <2>1. CASE i <= Len(q)
    <3>1. u[i] = t[i] /\ u[i + 1] = t[i + 1] /\ r[i] = q[i] /\ i \in 1..Len(q)
      BY <1>1, <1>6, <1>8, <2>1
    <3> QED
      BY <1>1, <3>1
  <2>2. CASE i = Len(q) + 1
    <3>1. u[i] = bel /\ u[i + 1] = n /\ r[i] = op
      BY <1>1, <1>6, <1>8, <2>2
    <3> QED
      BY <1>2, <3>1
  <2> QED
    BY <1>8, <2>1, <2>2
<1> QED
  BY <1>2, <1>6, <1>7, <1>9, <1>10 DEF BringsTo

LEMMA BringsLess ==
  ASSUME NEW q \in Seq(Operations(Way!Buffers)), q # <<>>, NEW m, NEW bel, BringsTo(q, m, bel)
  PROVE  Meets(m, Head(q).reads) /\ BringsTo(Tail(q), Put(m, Head(q).writes), bel)
<1>1. PICK t \in Seq(Memories) :
        /\ Len(t) = Len(q) + 1 /\ t[1] = m /\ t[Len(q) + 1] = bel
        /\ \A i \in 1..Len(q) : Meets(t[i], q[i].reads) /\ t[i + 1] = Put(t[i], q[i].writes)
  BY DEF BringsTo
<1>2. /\ Len(q) \in Nat /\ Len(q) >= 1 /\ Head(q) = q[1] /\ Len(Tail(q)) = Len(q) - 1
      /\ \A i \in 1..Len(Tail(q)) : Tail(q)[i] = q[i + 1]
  OBVIOUS
<1>3. Tail(t) \in Seq(Memories) /\ Len(Tail(t)) = Len(q) /\ \A i \in 1..Len(q) : Tail(t)[i] = t[i + 1]
  BY <1>1, <1>2
<1>4. Meets(m, Head(q).reads) /\ t[2] = Put(m, Head(q).writes)
  BY <1>1, <1>2
<1>5. Len(Tail(t)) = Len(Tail(q)) + 1 /\ Tail(t)[1] = t[2] /\ Tail(t)[Len(Tail(q)) + 1] = bel
  BY <1>1, <1>2, <1>3
<1>6. ASSUME NEW i \in 1..Len(Tail(q))
      PROVE  Meets(Tail(t)[i], Tail(q)[i].reads) /\ Tail(t)[i + 1] = Put(Tail(t)[i], Tail(q)[i].writes)
  BY <1>1, <1>2, <1>3
<1> QED
  BY <1>3, <1>4, <1>5, <1>6 DEF BringsTo

-----------------------------------------------------------------------------
(* The forward pass: its inductive invariant.                              *)

WayTypes ==
  /\ call \in Nat \ {0} /\ layer \in Nat \ {0} /\ layer <= Len(Layers) + 1
  /\ memory \in Memories /\ map \in [Slots -> Nat]
  /\ todo \in Seq(Instructions)
  /\ queue \in [Way!Streams -> Seq(Operations(Way!Buffers))]
  /\ running \in [Way!Streams -> Operations(Way!Buffers) \union {Way!Idle}]

\* The memory a stream's next operation finds.
Settled(s) == IF running[s] = Way!Idle THEN memory ELSE Put(memory, running[s].writes)

\* One stream at most has work, which leads from memory to what the host expects.
Leading(bel, b) ==
  /\ \A s \in Way!Streams \ {b} : queue[s] = <<>> /\ running[s] = Way!Idle
  /\ b = "none" => bel = memory
  /\ b \in Way!Streams => /\ running[b] # Way!Idle => Meets(memory, running[b].reads) /\ running[b].good
                          /\ BringsTo(queue[b], Settled(b), bel)

\* A slot will hold the expert the map says.
SlotsHold(bel) == \A s \in Slots : map[s] # 0 => bel[s] = Way!Weights(map[s])

Place(bel, b, got) == [mem |-> [c \in Way!Named |-> bel[c]], busy |-> b, got |-> got]

\* Where the program that is left may end.
Ends == {e \in Expected : /\ e.busy \in {"none", "s0"}
                          /\ layer <= Len(Layers) => e.mem["streams"] = <<call, layer + 1>>}

Foreseen(bel, b, got) ==
  /\ Leading(bel, b) /\ SlotsHold(bel) /\ (got => \E s \in Slots : map[s] = layer)
  /\ \E e \in Ends : Runs(todo, Place(bel, b, got), e)

WayInv ==
  /\ WayTypes
  /\ \E bel \in Memories, b \in Way!Streams \union {"none"}, got \in BOOLEAN : Foreseen(bel, b, got)

LEMMA LayersTyped == Len(Layers) \in Nat /\ Len(Layers) >= 1 /\ Slots \intersect Way!Named = {} /\ Slots # {}
BY ForwardAssumption

LEMMA MemoryParts ==
  /\ Way!Named \subseteq Way!Buffers /\ Slots \subseteq Way!Buffers
  /\ "streams" \in Way!Named /\ "x" \in Way!Named /\ "routes" \in Way!Named /\ "y" \in Way!Named
BY DEF Way!Buffers, Way!Named

\* An operation of the named buffers leaves the slots, and is one of all buffers.
LEMMA NamedIsBuffers ==
  ASSUME NEW op \in Operations(Way!Named)
  PROVE  /\ op \in Operations(Way!Buffers)
         /\ DOMAIN op.reads \subseteq Way!Named /\ DOMAIN op.writes \subseteq Way!Named
         /\ op.writes \in Partial(Way!Named)
<1>1. PICK d \in SUBSET Way!Named : op.reads \in [d -> Values]
  BY DEF Operations, Partial
<1>2. PICK w \in (SUBSET Way!Named) \ {{}} : op.writes \in [w -> Values]
  BY DEF Operations, Writing
<1>3. op = [reads |-> op.reads, writes |-> op.writes, good |-> TRUE]
  BY DEF Operations
<1>4. op.reads \in Partial(Way!Buffers)
  BY <1>1, MemoryParts DEF Partial
<1>5. op.writes \in Writing(Way!Buffers)
  BY <1>2, MemoryParts DEF Writing
<1>6. op.writes \in Partial(Way!Named)
  BY <1>2 DEF Partial
<1>7. [reads |-> op.reads, writes |-> op.writes, good |-> TRUE] \in Operations(Way!Buffers)
  BY <1>4, <1>5 DEF Operations
<1> QED
  BY <1>1, <1>2, <1>3, <1>6, <1>7

LEMMA PlaceTyped ==
  ASSUME NEW bel \in Memories, NEW b \in Way!Streams \union {"none"}, NEW got \in BOOLEAN
  PROVE  /\ Place(bel, b, got) \in Expected
         /\ Place(bel, b, got).busy = b /\ Place(bel, b, got).got = got
         /\ Place(bel, b, got).mem \in [Way!Named -> Values]
         /\ \A c \in Way!Named : Place(bel, b, got).mem[c] = bel[c]
BY MemoryParts DEF Place, Expected, Memories

\* ... where its layer has no slot yet.
LEMMA PlaceUnslotted ==
  ASSUME NEW bel \in Memories, NEW b \in Way!Streams \union {"none"}
  PROVE  /\ Place(bel, b, FALSE) \in Expected /\ Place(bel, b, FALSE).busy = b
         /\ Place(bel, b, FALSE).got = FALSE
         /\ \A c \in Way!Named : Place(bel, b, FALSE).mem[c] = bel[c]
BY MemoryParts DEF Place, Expected, Memories

\* The host queues an operation that finds what it is for.
LEMMA Enqueued ==
  ASSUME WayTypes, NEW bel \in Memories, NEW b \in Way!Streams \union {"none"}, Leading(bel, b),
         NEW s \in Way!Streams, b \in {"none", s}, NEW op \in Operations(Way!Buffers), Meets(bel, op.reads),
         queue' = [queue EXCEPT ![s] = Append(@, op)], UNCHANGED <<running, memory>>
  PROVE  /\ Leading(Put(bel, op.writes), s)' /\ Put(bel, op.writes) \in Memories
         /\ queue' \in [Way!Streams -> Seq(Operations(Way!Buffers))]
<1>1. queue \in [Way!Streams -> Seq(Operations(Way!Buffers))] /\ memory \in Memories
  BY DEF WayTypes
<1>2. queue'[s] = Append(queue[s], op) /\ queue[s] \in Seq(Operations(Way!Buffers))
      /\ \A r \in Way!Streams \ {s} : queue'[r] = queue[r]
  BY <1>1
<1>3. queue' \in [Way!Streams -> Seq(Operations(Way!Buffers))]
  BY <1>1, <1>2
<1>4. Put(bel, op.writes) \in Memories
  <2>1. op.writes \in Partial(Way!Buffers)
    BY WritesPart DEF Operations
  <2> QED
    BY <2>1, PutTyped DEF Memories
<1>5. \A r \in Way!Streams \ {s} : queue[r] = <<>> /\ running[r] = Way!Idle
  <2>1. \A r \in Way!Streams : r # "none"
    BY DEF Way!Streams
  <2> QED
    BY <2>1 DEF Leading
<1>6. BringsTo(queue[s], Settled(s), bel) /\ (running[s] # Way!Idle => Meets(memory, running[s].reads) /\ running[s].good)
  <2>1. CASE b = s
    BY <2>1 DEF Leading
  <2>2. CASE b = "none" /\ b # s
    <3>1. queue[s] = <<>> /\ running[s] = Way!Idle /\ bel = memory
      BY <2>2 DEF Leading
    <3> QED
      BY <1>1, <3>1, BringsNothing DEF Settled
  <2> QED
    BY <2>1, <2>2
<1>7. BringsTo(queue'[s], Settled(s), Put(bel, op.writes))
  BY <1>2, <1>6, BringsMore
<1>8. s # "none"
  BY DEF Way!Streams
<1> QED
  BY <1>2, <1>3, <1>4, <1>5, <1>6, <1>7, <1>8 DEF Leading, Settled

\* Nothing is running for anyone to meet but what the stream itself runs.
LEMMA FindsMemory ==
  ASSUME WayTypes, NEW s, \A r \in Way!Streams \ {s} : running[r] = Way!Idle
  PROVE  /\ \A c : Way!Found(c, s) = memory[c]
         /\ \A op : Way!IsRight(op, s) <=> Meets(memory, op.reads)
<1>1. \A r \in Way!Streams \ {s} : DOMAIN running[r].writes = {}
  BY DEF Way!Idle, Way!Nothing
<1>2. \A c : Way!Found(c, s) = memory[c]
  BY <1>1 DEF Way!Found
<1> QED
  BY <1>1, <1>2 DEF Way!IsRight, Meets

LEMMA PutOne ==
  ASSUME NEW B, NEW m \in [B -> Values], NEW x \in B, NEW w \in Values
  PROVE  /\ Put(m, Way!Of({x}, w)) \in [B -> Values]
         /\ \A b \in B : Put(m, Way!Of({x}, w))[b] = IF b = x THEN w ELSE m[b]
<1> DEFINE W == {x}
<1>1. W \in SUBSET B
  OBVIOUS
<1> HIDE DEF W
<1>2. /\ Put(m, Way!Of(W, w)) \in [B -> Values]
      /\ \A b \in B : Put(m, Way!Of(W, w))[b] = IF b \in W THEN w ELSE m[b]
  BY <1>1, PutOf
<1> QED
  BY <1>2 DEF W

LEMMA WritesOne ==
  ASSUME NEW B, NEW x \in B, NEW w \in Values
  PROVE  Way!Of({x}, w) \in Writing(B)
<1> DEFINE W == {x}
<1>1. W \in SUBSET B /\ W # {}
  OBVIOUS
<1> HIDE DEF W
<1>2. Way!Of(W, w) \in Writing(B)
  BY <1>1, OfTyped
<1> QED
  BY <1>2 DEF W

LEMMA WayBegins ==
  ASSUME Way!ForwardInit
  PROVE  WayInv
<1> DEFINE v == <<1, 1>>
<1>1. /\ call = 1 /\ layer = 1 /\ todo = Way!Embed(v) \o Way!LayerStep(v)
      /\ queue = [s \in Way!Streams |-> <<>>] /\ running = [s \in Way!Streams |-> Way!Idle]
      /\ memory = [b \in Way!Buffers |-> Way!Nothing] /\ map = [s \in Slots |-> 0]
  BY DEF Way!ForwardInit
<1>2. v \in Values /\ Way!Nothing \in Values
  BY DEF Values
<1>3. Leads(Way!Embed(v), Standing({}, v, {"none", "s0"}, FALSE), Standing({"streams"}, v, {"s0"}, FALSE))
  BY <1>2, EmbedLeads
<1>4. Leads(Way!LayerStep(v), Standing({"streams"}, v, {"none", "s0"}, FALSE), Standing({"streams"}, <<1, 1 + 1>>, {"s0"}, FALSE))
  BY LayerLeads
<1>5. Standing({"streams"}, v, {"s0"}, FALSE) \subseteq Standing({"streams"}, v, {"none", "s0"}, FALSE)
  BY DEF Standing
<1> HIDE DEF v
<1>6. Leads(todo, Standing({}, v, {"none", "s0"}, FALSE), Standing({"streams"}, <<1, 1 + 1>>, {"s0"}, FALSE))
  <2>1. Leads(Way!LayerStep(v), Standing({"streams"}, v, {"s0"}, FALSE), Standing({"streams"}, <<1, 1 + 1>>, {"s0"}, FALSE))
    BY <1>4, <1>5, LeadsFrom
  <2> QED
    BY <1>1, <1>3, <2>1, LeadsBoth
<1>7. memory \in Memories
  BY <1>1, <1>2 DEF Memories
<1>8. WayTypes
  <2>1. \A s \in Way!Streams : <<>> \in Seq(Operations(Way!Buffers))
    OBVIOUS
  <2>2. queue \in [Way!Streams -> Seq(Operations(Way!Buffers))]
    BY <1>1, <2>1
  <2>3. running \in [Way!Streams -> Operations(Way!Buffers) \union {Way!Idle}]
    BY <1>1
  <2>4. map \in [Slots -> Nat] /\ call \in Nat \ {0} /\ layer \in Nat \ {0} /\ layer <= Len(Layers) + 1
    BY <1>1, LayersTyped
  <2>5. todo \in Seq(Instructions)
    BY <1>6 DEF Leads
  <2> QED
    BY <1>7, <2>2, <2>3, <2>4, <2>5 DEF WayTypes
<1>9. Leading(memory, "none")
  <2>1. "none" \notin Way!Streams
    BY DEF Way!Streams
  <2> QED
    BY <1>1, <2>1 DEF Leading
<1>10. SlotsHold(memory)
  BY <1>1 DEF SlotsHold
<1>11. \E e \in Ends : Runs(todo, Place(memory, "none", FALSE), e)
  <2>1. Place(memory, "none", FALSE) \in Standing({}, v, {"none", "s0"}, FALSE)
    <3>1. PICK b : b = "none"
      OBVIOUS
    <3>2. PICK a : a = Place(memory, b, FALSE)
      OBVIOUS
    <3>3. a \in Expected /\ a.busy = b /\ a.got = FALSE
      BY <1>7, <3>1, <3>2, PlaceUnslotted
    <3> QED
      BY <3>1, <3>2, <3>3 DEF Standing
  <2>2. PICK e \in Standing({"streams"}, <<1, 1 + 1>>, {"s0"}, FALSE) : Runs(todo, Place(memory, "none", FALSE), e)
    BY <1>6, <2>1 DEF Leads
  <2>3. e \in Ends
    BY <1>1, <2>2 DEF Ends, Standing
  <2> QED
    BY <2>2, <2>3
<1>12. Foreseen(memory, "none", FALSE)
  BY <1>9, <1>10, <1>11 DEF Foreseen
<1> QED
  BY <1>7, <1>8, <1>12 DEF WayInv

LEMMA WayQueues ==
  ASSUME WayInv, Way!Queue
  PROVE  WayInv'
<1>1. PICK bel \in Memories, b \in Way!Streams \union {"none"}, got \in BOOLEAN : Foreseen(bel, b, got)
  BY DEF WayInv
<1>2. PICK e \in Ends : Runs(todo, Place(bel, b, got), e)
  BY <1>1 DEF Foreseen
<1>3. WayTypes /\ todo # <<>> /\ Head(todo).do = "queue" /\ todo' = Tail(todo) /\ todo \in Seq(Instructions)
  BY DEF WayInv, Way!Queue, Way!Next, WayTypes
<1>4. PICK i : i = Head(todo)
  OBVIOUS
<1>5. queue' = [queue EXCEPT ![i.stream] = Append(@, i.op)] /\ UNCHANGED <<call, layer, running, memory, map>>
  BY <1>4 DEF Way!Queue
<1>6. i \in Instructions /\ i.do = "queue"
  BY <1>3, <1>4
<1>7. i.stream \in Way!Streams /\ i.op \in Operations(Way!Named)
  BY <1>6 DEF Instructions
<1>8. PICK c \in Expected : Advances(Place(bel, b, got), i, c) /\ Runs(Tail(todo), c, e)
  BY <1>2, <1>3, <1>4, RunsOn
<1>9. Queues(Place(bel, b, got), i, c)
  BY <1>6, <1>8 DEF Advances, Waits, Reads, Acquires, StartsExperts
<1>10. /\ b \in {"none", i.stream} /\ Meets(Place(bel, b, got).mem, i.op.reads)
       /\ c.mem = Put(Place(bel, b, got).mem, i.op.writes) /\ c.busy = i.stream /\ c.got = got
  BY <1>9, PlaceTyped DEF Queues
<1>11. i.op \in Operations(Way!Buffers) /\ DOMAIN i.op.reads \subseteq Way!Named
       /\ DOMAIN i.op.writes \subseteq Way!Named /\ i.op.writes \in Partial(Way!Named)
  BY <1>7, NamedIsBuffers
<1>12. Meets(bel, i.op.reads)
  BY <1>10, <1>11, PlaceTyped DEF Meets
<1> DEFINE after == Put(bel, i.op.writes)
<1>13. Leading(after, i.stream)' /\ after \in Memories /\ queue' \in [Way!Streams -> Seq(Operations(Way!Buffers))]
  BY <1>1, <1>3, <1>5, <1>7, <1>10, <1>11, <1>12, Enqueued DEF Foreseen
<1>14. \A x \in Way!Buffers : after[x] = IF x \in DOMAIN i.op.writes THEN i.op.writes[x] ELSE bel[x]
  BY DEF Put, Memories
<1>15. c = Place(after, i.stream, got)
  <2>1. c.mem = [x \in Way!Named |-> after[x]]
    BY <1>10, <1>11, <1>14, PlaceTyped, MemoryParts DEF Put
  <2> QED
    BY <1>8, <1>10, <2>1 DEF Expected, Place
<1> HIDE DEF after
<1>16. Foreseen(after, i.stream, got)'
  <2>1. SlotsHold(after)'
    BY <1>1, <1>5, <1>11, <1>14, LayersTyped, MemoryParts DEF SlotsHold, Foreseen
  <2>2. e \in Ends'
    BY <1>5 DEF Ends
  <2> QED
    BY <1>1, <1>3, <1>5, <1>8, <1>13, <1>15, <2>1, <2>2 DEF Foreseen
<1>17. WayTypes'
  <2>1. todo' \in Seq(Instructions)
    BY <1>3
  <2> QED
    BY <1>3, <1>5, <1>13, <2>1 DEF WayTypes
<1> QED
  BY <1>7, <1>13, <1>16, <1>17 DEF WayInv

LEMMA WaySynchronizes ==
  ASSUME WayInv, Way!Synchronize
  PROVE  WayInv'
<1>1. PICK bel \in Memories, b \in Way!Streams \union {"none"}, got \in BOOLEAN : Foreseen(bel, b, got)
  BY DEF WayInv
<1>2. PICK e \in Ends : Runs(todo, Place(bel, b, got), e)
  BY <1>1 DEF Foreseen
<1>3. WayTypes /\ todo # <<>> /\ Head(todo).do = "wait" /\ todo' = Tail(todo) /\ todo \in Seq(Instructions)
  BY DEF WayInv, Way!Synchronize, Way!Next, WayTypes
<1>4. PICK i : i = Head(todo)
  OBVIOUS
<1>5. queue[i.stream] = <<>> /\ running[i.stream] = Way!Idle /\ UNCHANGED <<call, layer, queue, running, memory, map>>
  BY <1>4 DEF Way!Synchronize
<1>6. i \in Instructions /\ i.do = "wait"
  BY <1>3, <1>4
<1>8. PICK c \in Expected : Advances(Place(bel, b, got), i, c) /\ Runs(Tail(todo), c, e)
  BY <1>2, <1>3, <1>4, RunsOn
<1>9. Waits(Place(bel, b, got), i, c)
  BY <1>6, <1>8 DEF Advances, Queues, Reads, Acquires, StartsExperts
<1>10. b \in {"none", i.stream} /\ c.mem = Place(bel, b, got).mem /\ c.busy = "none" /\ c.got = got
  BY <1>9, PlaceTyped DEF Waits
<1>11. c = Place(bel, "none", got)
  BY <1>8, <1>10 DEF Expected, Place
<1>12. Leading(bel, "none")
  <2>1. "none" \notin Way!Streams /\ \A s \in Way!Streams : queue[s] = <<>> /\ running[s] = Way!Idle
    BY <1>1, <1>5, <1>10 DEF Foreseen, Leading, Way!Streams
  <2>2. CASE b = "none"
    BY <1>1, <2>2 DEF Foreseen
  <2>3. CASE b \in Way!Streams
    <3>1. BringsTo(<<>>, memory, bel)
      BY <1>1, <2>1, <2>3 DEF Foreseen, Leading, Settled
    <3> QED
      BY <2>1, <3>1, BroughtNothing DEF Leading
  <2> QED
    BY <2>2, <2>3
<1>13. Foreseen(bel, "none", got)'
  <2>1. SlotsHold(bel)' /\ e \in Ends' /\ Leading(bel, "none")'
    BY <1>1, <1>5, <1>12 DEF SlotsHold, Foreseen, Ends, Leading, Settled
  <2> QED
    BY <1>1, <1>3, <1>5, <1>8, <1>11, <2>1 DEF Foreseen
<1>14. WayTypes'
  <2>1. todo' \in Seq(Instructions)
    BY <1>3
  <2> QED
    BY <1>3, <1>5, <2>1 DEF WayTypes
<1> QED
  BY <1>13, <1>14 DEF WayInv

LEMMA WayReads ==
  ASSUME WayInv, Way!HostRead
  PROVE  WayInv'
<1>1. PICK bel \in Memories, b \in Way!Streams \union {"none"}, got \in BOOLEAN : Foreseen(bel, b, got)
  BY DEF WayInv
<1>2. PICK e \in Ends : Runs(todo, Place(bel, b, got), e)
  BY <1>1 DEF Foreseen
<1>3. WayTypes /\ todo # <<>> /\ Head(todo).do = "read" /\ todo' = Tail(todo) /\ todo \in Seq(Instructions)
  BY DEF WayInv, Way!HostRead, Way!Next, WayTypes
<1>4. PICK i : i = Head(todo)
  OBVIOUS
<1>5. memory' = [memory EXCEPT ![i.to] = IF Way!Found(i.from, "host") = i.value THEN i.value ELSE Way!Mixed]
      /\ UNCHANGED <<call, layer, queue, running, map>>
  BY <1>4 DEF Way!HostRead
<1>6. i \in Instructions /\ i.do = "read"
  BY <1>3, <1>4
<1>7. i.from \in Way!Named /\ i.to \in Way!Named /\ i.value \in Values
  BY <1>6 DEF Instructions
<1>8. PICK c \in Expected : Advances(Place(bel, b, got), i, c) /\ Runs(Tail(todo), c, e)
  BY <1>2, <1>3, <1>4, RunsOn
<1>9. Reads(Place(bel, b, got), i, c)
  BY <1>6, <1>8 DEF Advances, Waits, Queues, Acquires, StartsExperts
<1>10. /\ b = "none" /\ bel[i.from] = i.value
       /\ c.mem = Put(Place(bel, b, got).mem, Way!Of({i.to}, i.value)) /\ c.busy = "none" /\ c.got = got
  BY <1>7, <1>9, PlaceTyped DEF Reads
<1>11. bel = memory /\ \A s \in Way!Streams : queue[s] = <<>> /\ running[s] = Way!Idle
  BY <1>1, <1>10 DEF Foreseen, Leading, Way!Streams
<1>12. Way!Found(i.from, "host") = i.value
  BY <1>3, <1>10, <1>11, FindsMemory
<1>13. memory' = Put(memory, Way!Of({i.to}, i.value)) /\ memory' \in Memories
       /\ \A x \in Way!Buffers : memory'[x] = IF x = i.to THEN i.value ELSE memory[x]
  <2>1. memory \in Memories /\ i.to \in Way!Buffers
    BY <1>3, <1>7, MemoryParts DEF WayTypes
  <2>2. /\ Put(memory, Way!Of({i.to}, i.value)) \in [Way!Buffers -> Values]
        /\ \A x \in Way!Buffers : Put(memory, Way!Of({i.to}, i.value))[x] = IF x = i.to THEN i.value ELSE memory[x]
    <3>1. PICK x : x = i.to
      OBVIOUS
    <3>2. PICK w : w = i.value
      OBVIOUS
    <3>3. PICK m : m = memory
      OBVIOUS
    <3>4. m \in [Way!Buffers -> Values] /\ x \in Way!Buffers /\ w \in Values
      BY <1>7, <2>1, <3>1, <3>2, <3>3 DEF Memories
    <3>5. Put(m, Way!Of({x}, w)) \in [Way!Buffers -> Values]
      BY <3>4, PutOne
    <3>6. \A d \in Way!Buffers : Put(m, Way!Of({x}, w))[d] = IF d = x THEN w ELSE m[d]
      BY <3>4, PutOne
    <3> QED
      BY <3>1, <3>2, <3>3, <3>5, <3>6
  <2>3. memory' \in [Way!Buffers -> Values] /\ \A x \in Way!Buffers : memory'[x] = IF x = i.to THEN i.value ELSE memory[x]
    BY <1>5, <1>7, <1>12, <2>1 DEF Memories
  <2> QED
    BY <2>2, <2>3 DEF Memories
<1>14. c = Place(memory', "none", got)
  <2>1. Place(bel, b, got).mem \in [Way!Named -> Values] /\ \A x \in Way!Named : Place(bel, b, got).mem[x] = memory[x]
    BY <1>11, PlaceTyped
  <2>2. \A x \in Way!Named : Put(Place(bel, b, got).mem, Way!Of({i.to}, i.value))[x] = IF x = i.to THEN i.value ELSE memory[x]
    <3>1. PICK n : n = Place(bel, b, got).mem
      OBVIOUS
    <3>2. n \in [Way!Named -> Values]
      BY <2>1, <3>1
    <3>3. \A x \in Way!Named : Put(n, Way!Of({i.to}, i.value))[x] = IF x = i.to THEN i.value ELSE n[x]
      <4>1. PICK t : t = i.to
        OBVIOUS
      <4>2. PICK w : w = i.value
        OBVIOUS
      <4>3. t \in Way!Named /\ w \in Values
        BY <1>7, <4>1, <4>2
      <4>4. \A x \in Way!Named : Put(n, Way!Of({t}, w))[x] = IF x = t THEN w ELSE n[x]
        BY <3>2, <4>3, PutOne
      <4> QED
        BY <4>1, <4>2, <4>4
    <3> QED
      BY <2>1, <3>1, <3>3
  <2>3. \A x \in Way!Named : c.mem[x] = memory'[x]
    BY <1>10, <1>13, <2>2, MemoryParts
  <2>4. c.mem = [x \in Way!Named |-> memory'[x]]
    BY <1>8, <2>3 DEF Expected
  <2> QED
    BY <1>8, <1>10, <2>4 DEF Expected, Place
<1>15. Foreseen(memory, "none", got)'
  <2>1. SlotsHold(memory)'
    BY <1>1, <1>5, <1>7, <1>11, <1>13, LayersTyped, MemoryParts DEF SlotsHold, Foreseen
  <2>2. e \in Ends'
    BY <1>5 DEF Ends
  <2>3. Leading(memory, "none")'
    BY <1>5, <1>11 DEF Leading, Way!Streams
  <2>4. Runs(todo', Place(memory, "none", got)', e)
    BY <1>3, <1>8, <1>14 DEF Place
  <2> QED
    BY <1>1, <1>5, <2>1, <2>2, <2>3, <2>4 DEF Foreseen
<1>16. WayTypes'
  <2>1. todo' \in Seq(Instructions)
    BY <1>3
  <2> QED
    BY <1>3, <1>5, <1>13, <2>1 DEF WayTypes
<1> QED
  BY <1>13, <1>15, <1>16 DEF WayInv

LEMMA WayAcquires ==
  ASSUME WayInv, Way!AcquireSlot
  PROVE  WayInv'
<1>1. PICK bel \in Memories, b \in Way!Streams \union {"none"}, got \in BOOLEAN : Foreseen(bel, b, got)
  BY DEF WayInv
<1>2. PICK e \in Ends : Runs(todo, Place(bel, b, got), e)
  BY <1>1 DEF Foreseen
<1>3. WayTypes /\ todo # <<>> /\ Head(todo).do = "acquire" /\ todo' = Tail(todo) /\ todo \in Seq(Instructions)
      /\ UNCHANGED <<call, layer, running, memory>>
  BY DEF WayInv, Way!AcquireSlot, Way!Next, WayTypes
<1>4. PICK i : i = Head(todo)
  OBVIOUS
<1>6. i \in Instructions /\ i.do = "acquire"
  BY <1>3, <1>4
<1>8. PICK c \in Expected : Advances(Place(bel, b, got), i, c) /\ Runs(Tail(todo), c, e)
  BY <1>2, <1>3, <1>4, RunsOn
<1>9. Acquires(Place(bel, b, got), i, c)
  BY <1>6, <1>8 DEF Advances, Waits, Queues, Reads, StartsExperts
<1>10. b = "none" /\ c.mem = Place(bel, b, got).mem /\ c.busy = "dma" /\ c.got = TRUE
  BY <1>9, PlaceTyped DEF Acquires
<1>11. bel = memory /\ \A s \in Way!Streams : queue[s] = <<>> /\ running[s] = Way!Idle
  BY <1>1, <1>10 DEF Foreseen, Leading, Way!Streams
<1>12. "dma" \in Way!Streams /\ "dma" # "none" /\ layer \in Nat \ {0} /\ e \in Ends' /\ todo' \in Seq(Instructions)
  BY <1>3 DEF Way!Streams, WayTypes, Ends
<1>13. CASE \E s \in Slots : map[s] = layer
  <2>1. UNCHANGED <<queue, map>>
    BY <1>13 DEF Way!AcquireSlot
  <2>2. c = Place(bel, "dma", TRUE)
    BY <1>8, <1>10 DEF Expected, Place
  <2>3. Leading(bel, "dma")
    <3>1. BringsTo(<<>>, memory, memory)
      BY <1>3, BringsNothing DEF WayTypes
    <3> QED
      BY <1>11, <1>12, <3>1 DEF Leading, Settled
  <2>4. Leading(bel, "dma")' /\ SlotsHold(bel)'
    BY <1>1, <1>3, <2>1, <2>3 DEF Leading, Settled, SlotsHold, Foreseen
  <2>5. Foreseen(bel, "dma", TRUE)'
    BY <1>3, <1>8, <1>12, <1>13, <2>1, <2>2, <2>4 DEF Foreseen
  <2>6. WayTypes'
    BY <1>3, <1>12, <2>1 DEF WayTypes
  <2> QED
    BY <1>12, <2>5, <2>6 DEF WayInv
<1>14. CASE ~\E s \in Slots : map[s] = layer
  <2>1. PICK s \in Slots :
          /\ map' = [map EXCEPT ![s] = layer]
          /\ queue' = [queue EXCEPT !["dma"] =
               Append(@, [reads |-> <<>>, writes |-> Way!Of({s}, Way!Weights(layer)), good |-> TRUE])]
    BY <1>14 DEF Way!AcquireSlot
  <2>2. PICK w : w = Way!Weights(layer)
    OBVIOUS
  <2>3. PICK op : op = [reads |-> <<>>, writes |-> Way!Of({s}, w), good |-> TRUE]
    OBVIOUS
  <2>4. s \in Way!Buffers /\ w \in Values
    BY <1>12, <2>2, MemoryParts DEF Way!Weights, Values
  <2>5. op \in Operations(Way!Buffers) /\ op.reads = <<>> /\ op.writes = Way!Of({s}, w)
    <3>1. <<>> \in Partial(Way!Buffers)
      <4>1. <<>> \in [{} -> Values] /\ {} \in SUBSET Way!Buffers
        OBVIOUS
      <4> QED
        BY <4>1 DEF Partial
    <3>2. Way!Of({s}, w) \in Writing(Way!Buffers)
      BY <2>4, WritesOne
    <3> QED
      BY <2>3, <3>1, <3>2 DEF Operations
  <2>6. Meets(bel, op.reads)
    BY <2>5 DEF Meets
  <2> DEFINE after == Put(bel, op.writes)
  <2>7. Leading(after, "dma")' /\ after \in Memories /\ queue' \in [Way!Streams -> Seq(Operations(Way!Buffers))]
    <3>1. queue' = [queue EXCEPT !["dma"] = Append(@, op)]
      BY <2>1, <2>2, <2>3
    <3>2. b \in {"none", "dma"} /\ Leading(bel, b) /\ UNCHANGED <<running, memory>>
      BY <1>1, <1>3, <1>10 DEF Foreseen
    <3> QED
      BY <1>3, <1>12, <2>5, <2>6, <3>1, <3>2, Enqueued
  <2>8. \A x \in Way!Buffers : after[x] = IF x = s THEN w ELSE bel[x]
    BY <2>4, <2>5, PutOne DEF Memories
  <2> HIDE DEF after
  <2>9. c = Place(after, "dma", TRUE)
    <3>1. \A x \in Way!Named : x \in Way!Buffers /\ x # s
      BY LayersTyped, MemoryParts
    <3>2. \A x \in Way!Named : c.mem[x] = after[x]
      BY <1>10, <2>8, <3>1, PlaceTyped
    <3>3. c.mem = [x \in Way!Named |-> after[x]]
      BY <1>8, <3>2 DEF Expected
    <3> QED
      BY <1>8, <1>10, <3>3 DEF Expected, Place
  <2>10. map \in [Slots -> Nat] /\ map' \in [Slots -> Nat] /\ map'[s] = layer /\ \A r \in Slots : r # s => map'[r] = map[r]
    BY <1>3, <1>12, <2>1 DEF WayTypes
  <2>11. SlotsHold(after)'
    <3> SUFFICES ASSUME NEW r \in Slots, map'[r] # 0 PROVE after[r] = Way!Weights(map'[r])
      BY DEF SlotsHold
    <3>1. CASE r = s
      BY <2>2, <2>4, <2>8, <2>10, <3>1
    <3>2. CASE r # s
      BY <1>1, <2>8, <2>10, <3>2, MemoryParts DEF Foreseen, SlotsHold
    <3> QED
      BY <3>1, <3>2
  <2>12. Foreseen(after, "dma", TRUE)'
    BY <1>3, <1>8, <1>12, <2>7, <2>9, <2>10, <2>11 DEF Foreseen
  <2>13. WayTypes'
    BY <1>3, <1>12, <2>7, <2>10 DEF WayTypes
  <2> QED
    BY <1>12, <2>7, <2>12, <2>13 DEF WayInv
<1> QED
  BY <1>13, <1>14

LEMMA WayLaunches ==
  ASSUME WayInv, Way!Launch
  PROVE  WayInv'
<1>1. PICK bel \in Memories, b \in Way!Streams \union {"none"}, got \in BOOLEAN : Foreseen(bel, b, got)
  BY DEF WayInv
<1>2. PICK e \in Ends : Runs(todo, Place(bel, b, got), e)
  BY <1>1 DEF Foreseen
<1>3. WayTypes /\ todo # <<>> /\ Head(todo).do = "launch" /\ todo' = Tail(todo) /\ todo \in Seq(Instructions)
  BY DEF WayInv, Way!Launch, Way!Next, WayTypes
<1>4. PICK i : i = Head(todo)
  OBVIOUS
<1> DEFINE s == CHOOSE t \in Slots : map[t] = layer
<1>5. queue' = [queue EXCEPT !["s1"] =
           Append(@, [reads |-> [x \in {"x", "routes", s} |-> IF x = s THEN Way!Weights(layer) ELSE i.value],
                      writes |-> Way!Of({"y"}, i.value), good |-> TRUE])]
      /\ UNCHANGED <<call, layer, running, memory, map>>
  BY <1>4 DEF Way!Launch
<1>6. i \in Instructions /\ i.do = "launch"
  BY <1>3, <1>4
<1>7. i.value \in Values
  BY <1>6 DEF Instructions
<1>8. PICK c \in Expected : Advances(Place(bel, b, got), i, c) /\ Runs(Tail(todo), c, e)
  BY <1>2, <1>3, <1>4, RunsOn
<1>9. StartsExperts(Place(bel, b, got), i, c)
  BY <1>6, <1>8 DEF Advances, Waits, Queues, Reads, Acquires
<1>10. /\ b = "none" /\ got /\ bel["x"] = i.value /\ bel["routes"] = i.value
       /\ c.mem = Put(Place(bel, b, got).mem, Way!Of({"y"}, i.value)) /\ c.busy = "s1" /\ c.got = got
  <2>1. PICK a : a = Place(bel, b, got)
    OBVIOUS
  <2>2. a.busy = b /\ a.got = got /\ \A x \in Way!Named : a.mem[x] = bel[x]
    BY <2>1, PlaceTyped
  <2>3. /\ a.busy = "none" /\ a.got /\ a.mem["x"] = i.value /\ a.mem["routes"] = i.value
        /\ c.mem = Put(a.mem, Way!Of({"y"}, i.value)) /\ c.busy = "s1" /\ c.got = a.got
    BY <1>9, <2>1 DEF StartsExperts
  <2>4. a.mem["x"] = bel["x"] /\ a.mem["routes"] = bel["routes"]
    BY <2>2, MemoryParts
  <2>5. b = "none" /\ c.got = got /\ c.busy = "s1"
    BY <2>2, <2>3
  <2>6. got
    BY <2>2, <2>3
  <2>7. bel["x"] = i.value /\ bel["routes"] = i.value
    BY <2>3, <2>4
  <2>8. c.mem = Put(Place(bel, b, got).mem, Way!Of({"y"}, i.value))
    BY <2>1, <2>3
  <2> QED
    BY <2>5, <2>6, <2>7, <2>8
<1>11. s \in Slots /\ map[s] = layer /\ layer # 0 /\ bel[s] = Way!Weights(layer)
  BY <1>1, <1>3, <1>10 DEF Foreseen, SlotsHold, WayTypes
<1>12. "s1" \in Way!Streams /\ "s1" # "none" /\ e \in Ends' /\ todo' \in Seq(Instructions)
  BY <1>3, <1>5 DEF Way!Streams, WayTypes, Ends
<1> HIDE DEF s
<1>13. PICK w : w = Way!Weights(layer)
  OBVIOUS
<1>14. PICK v : v = i.value
  OBVIOUS
<1>15. PICK op : op = [reads |-> [x \in {"x", "routes", s} |-> IF x = s THEN w ELSE v],
                       writes |-> Way!Of({"y"}, v), good |-> TRUE]
  OBVIOUS
<1>16. w \in Values /\ v \in Values
  BY <1>3, <1>7, <1>13, <1>14 DEF Way!Weights, Values, WayTypes
<1>17. op \in Operations(Way!Buffers) /\ op.writes = Way!Of({"y"}, v)
       /\ DOMAIN op.reads = {"x", "routes", s} /\ \A x \in {"x", "routes", s} : op.reads[x] = IF x = s THEN w ELSE v
  <2>1. {"x", "routes", s} \in SUBSET Way!Buffers
    BY <1>11, MemoryParts
  <2>2. [x \in {"x", "routes", s} |-> IF x = s THEN w ELSE v] \in Partial(Way!Buffers)
    <3> DEFINE d == {"x", "routes", s}
    <3>1. d \in SUBSET Way!Buffers
      BY <2>1
    <3> HIDE DEF d
    <3>2. [x \in d |-> IF x = s THEN w ELSE v] \in [d -> Values]
      BY <1>16
    <3>3. [x \in d |-> IF x = s THEN w ELSE v] \in Partial(Way!Buffers)
      BY <3>1, <3>2 DEF Partial
    <3> QED
      BY <3>3 DEF d
  <2>3. Way!Of({"y"}, v) \in Writing(Way!Buffers)
    <3>1. PICK t : t = "y"
      OBVIOUS
    <3>2. t \in Way!Buffers
      BY <3>1, MemoryParts
    <3>3. Way!Of({t}, v) \in Writing(Way!Buffers)
      BY <1>16, <3>2, WritesOne
    <3> QED
      BY <3>1, <3>3
  <2> QED
    BY <1>15, <2>2, <2>3 DEF Operations
<1>18. Meets(bel, op.reads)
  BY <1>10, <1>11, <1>13, <1>14, <1>17 DEF Meets
<1> DEFINE after == Put(bel, op.writes)
<1>19. Leading(after, "s1")' /\ after \in Memories /\ queue' \in [Way!Streams -> Seq(Operations(Way!Buffers))]
  <2>1. queue' = [queue EXCEPT !["s1"] = Append(@, op)]
    BY <1>5, <1>13, <1>14, <1>15
  <2>2. b \in {"none", "s1"} /\ Leading(bel, b) /\ UNCHANGED <<running, memory>>
    BY <1>1, <1>5, <1>10 DEF Foreseen
  <2> QED
    BY <1>3, <1>12, <1>17, <1>18, <2>1, <2>2, Enqueued
<1>20. \A x \in Way!Buffers : after[x] = IF x = "y" THEN v ELSE bel[x]
  <2>1. PICK t : t = "y"
    OBVIOUS
  <2>2. bel \in [Way!Buffers -> Values] /\ t \in Way!Buffers
    BY <2>1, MemoryParts DEF Memories
  <2>3. \A x \in Way!Buffers : Put(bel, Way!Of({t}, v))[x] = IF x = t THEN v ELSE bel[x]
    BY <1>16, <2>2, PutOne
  <2> QED
    BY <1>17, <2>1, <2>3
<1> HIDE DEF after
<1>21. c = Place(after, "s1", got)
  <2>1. PICK n : n = Place(bel, b, got).mem
    OBVIOUS
  <2>2. n \in [Way!Named -> Values] /\ \A x \in Way!Named : n[x] = bel[x]
    BY <2>1, PlaceTyped
  <2>3. \A x \in Way!Named : Put(n, Way!Of({"y"}, v))[x] = IF x = "y" THEN v ELSE n[x]
    <3>1. PICK t : t = "y"
      OBVIOUS
    <3>2. t \in Way!Named
      BY <3>1, MemoryParts
    <3>3. \A x \in Way!Named : Put(n, Way!Of({t}, v))[x] = IF x = t THEN v ELSE n[x]
      <4>1. n \in [Way!Named -> Values] /\ v \in Values
        BY <1>16, <2>2
      <4> QED
        BY <3>2, <4>1, PutOne
    <3> QED
      BY <3>1, <3>3
  <2>4. \A x \in Way!Named : c.mem[x] = after[x]
    <3>1. c.mem = Put(n, Way!Of({"y"}, v))
      BY <1>10, <1>14, <2>1
    <3>2. \A x \in Way!Named : x \in Way!Buffers
      BY MemoryParts
    <3> QED
      BY <1>20, <2>2, <2>3, <3>1, <3>2
  <2>5. c.mem = [x \in Way!Named |-> after[x]]
    BY <1>8, <2>4 DEF Expected
  <2> QED
    BY <1>8, <1>10, <2>5 DEF Expected, Place
<1>22. SlotsHold(after)'
  BY <1>1, <1>5, <1>20, LayersTyped, MemoryParts DEF Foreseen, SlotsHold
<1>23. Foreseen(after, "s1", got)'
  BY <1>1, <1>3, <1>5, <1>8, <1>12, <1>19, <1>21, <1>22 DEF Foreseen
<1>24. WayTypes'
  BY <1>3, <1>5, <1>12, <1>19 DEF WayTypes
<1> QED
  BY <1>12, <1>19, <1>23, <1>24 DEF WayInv

\* A program has ended where it was to end: the next one begins there.
LEMMA WayGoesOn ==
  ASSUME WayInv, todo = <<>>, NEW p, NEW A, NEW B, Leads(p, A, B), todo' = p,
         \A bel \in Memories, b \in {"none", "s0"} :
           (layer <= Len(Layers) => bel["streams"] = <<call, layer + 1>>) => Place(bel, b, FALSE) \in A,
         B \subseteq Ends', UNCHANGED <<queue, running, memory, map>>,
         call' \in Nat \ {0}, layer' \in Nat \ {0}, layer' <= Len(Layers) + 1
  PROVE  WayInv'
<1>1. PICK bel \in Memories, b \in Way!Streams \union {"none"}, got \in BOOLEAN : Foreseen(bel, b, got)
  BY DEF WayInv
<1>2. PICK e \in Ends : Runs(todo, Place(bel, b, got), e)
  BY <1>1 DEF Foreseen
<1>3. e = Place(bel, b, got)
  BY <1>2, RunsNowhere
<1>4. b \in {"none", "s0"} /\ (layer <= Len(Layers) => bel["streams"] = <<call, layer + 1>>)
  BY <1>2, <1>3, PlaceTyped, MemoryParts DEF Ends
<1>5. Place(bel, b, FALSE) \in A
  BY <1>4
<1>6. PICK c \in B : Runs(p, Place(bel, b, FALSE), c)
  BY <1>5 DEF Leads
<1>7. Leading(bel, b)' /\ SlotsHold(bel)'
  BY <1>1 DEF Leading, Settled, SlotsHold, Foreseen
<1>8. Foreseen(bel, b, FALSE)'
  BY <1>6, <1>7 DEF Foreseen
<1>9. WayTypes'
  BY DEF WayInv, WayTypes, Leads
<1> QED
  BY <1>8, <1>9 DEF WayInv

LEMMA WayNextLayer ==
  ASSUME WayInv, Way!NextLayer
  PROVE  WayInv'
<1>1. /\ todo = <<>> /\ layer < Len(Layers) /\ layer' = layer + 1 /\ todo' = Way!LayerStep(<<call, layer'>>)
      /\ call' = call /\ UNCHANGED <<queue, running, memory, map>> /\ call \in Nat \ {0} /\ layer \in Nat \ {0}
  BY DEF Way!NextLayer, WayInv, WayTypes
<1>2. PICK l : l = layer + 1
  OBVIOUS
<1> DEFINE A == Standing({"streams"}, <<call, l>>, {"none", "s0"}, FALSE)
           B == Standing({"streams"}, <<call, l + 1>>, {"s0"}, FALSE)
<1>3. Leads(Way!LayerStep(<<call, l>>), A, B)
  <2>1. call \in Nat /\ l \in Nat
    BY <1>1, <1>2
  <2> QED
    BY <2>1, LayerLeads
<1>4. ASSUME NEW bel \in Memories, NEW b \in {"none", "s0"}, layer <= Len(Layers) => bel["streams"] = <<call, layer + 1>>
      PROVE  Place(bel, b, FALSE) \in A
  <2>1. b \in Way!Streams \union {"none"} /\ bel["streams"] = <<call, l>>
    BY <1>1, <1>2, <1>4, LayersTyped DEF Way!Streams
  <2>2. PICK a : a = Place(bel, b, FALSE)
    OBVIOUS
  <2>3. a \in Expected /\ a.got = FALSE /\ a.busy = b /\ a.mem["streams"] = <<call, l>>
    BY <2>1, <2>2, PlaceUnslotted, MemoryParts
  <2> QED
    BY <2>2, <2>3 DEF Standing
<1>5. B \subseteq Ends'
  BY <1>1, <1>2 DEF Ends, Standing
<1> HIDE DEF A, B
<1>6. PICK p : p = Way!LayerStep(<<call, l>>)
  OBVIOUS
<1>7. Leads(p, A, B) /\ todo' = p /\ todo = <<>>
  BY <1>1, <1>2, <1>3, <1>6
<1>8. call' \in Nat \ {0} /\ layer' \in Nat \ {0} /\ layer' <= Len(Layers) + 1
  BY <1>1, LayersTyped
<1>9. UNCHANGED <<queue, running, memory, map>>
  BY <1>1
<1> QED
  BY <1>4, <1>5, <1>7, <1>8, <1>9, WayGoesOn

LEMMA WayFinishes ==
  ASSUME WayInv, Way!Finish
  PROVE  WayInv'
<1>1. /\ todo = <<>> /\ layer = Len(Layers) /\ layer' = layer + 1 /\ todo' = Way!FinalHead(<<call, layer'>>)
      /\ call' = call /\ UNCHANGED <<queue, running, memory, map>> /\ call \in Nat \ {0} /\ layer \in Nat \ {0}
  BY DEF Way!Finish, WayInv, WayTypes
<1>2. PICK v : v = <<call, layer + 1>>
  OBVIOUS
<1> DEFINE A == Standing({"streams"}, v, {"none", "s0"}, FALSE)
           B == Standing({}, v, {"none"}, FALSE)
<1>3. Leads(Way!FinalHead(v), A, B)
  <2>1. v \in Values
    BY <1>1, <1>2 DEF Values
  <2> QED
    BY <2>1, HeadLeads
<1>4. ASSUME NEW bel \in Memories, NEW b \in {"none", "s0"}, layer <= Len(Layers) => bel["streams"] = <<call, layer + 1>>
      PROVE  Place(bel, b, FALSE) \in A
  <2>1. b \in Way!Streams \union {"none"} /\ bel["streams"] = v
    BY <1>1, <1>2, <1>4, LayersTyped DEF Way!Streams
  <2>2. PICK a : a = Place(bel, b, FALSE)
    OBVIOUS
  <2>3. a \in Expected /\ a.got = FALSE /\ a.busy = b /\ \A c \in Way!Named : a.mem[c] = bel[c]
    BY <2>1, <2>2, PlaceUnslotted
  <2>4. a.mem["streams"] = v
    BY <2>1, <2>3, MemoryParts
  <2> QED
    BY <2>2, <2>3, <2>4 DEF Standing
<1>5. B \subseteq Ends'
  BY <1>1, LayersTyped DEF Ends, Standing
<1> HIDE DEF A, B
<1>6. PICK p : p = Way!FinalHead(v)
  OBVIOUS
<1>7. Leads(p, A, B) /\ todo' = p /\ todo = <<>>
  BY <1>1, <1>2, <1>3, <1>6
<1>8. call' \in Nat \ {0} /\ layer' \in Nat \ {0} /\ layer' <= Len(Layers) + 1
  BY <1>1, LayersTyped
<1>9. UNCHANGED <<queue, running, memory, map>>
  BY <1>1
<1> QED
  BY <1>4, <1>5, <1>7, <1>8, <1>9, WayGoesOn

LEMMA WayNextCall ==
  ASSUME WayInv, Way!NextCall
  PROVE  WayInv'
<1>1. /\ todo = <<>> /\ layer' = 1 /\ call' = call + 1 /\ call \in Nat \ {0}
      /\ todo' = Way!Embed(<<call', 1>>) \o Way!LayerStep(<<call', 1>>)
      /\ UNCHANGED <<queue, running, memory, map>>
  BY DEF Way!NextCall, WayInv, WayTypes
<1>2. PICK n : n = call + 1
  OBVIOUS
<1>3. n \in Nat /\ n # 0
  BY <1>1, <1>2
<1> DEFINE v == <<n, 1>>
           A == Standing({}, v, {"none", "s0"}, FALSE)
           B == Standing({"streams"}, <<n, 1 + 1>>, {"s0"}, FALSE)
<1>4. Leads(Way!Embed(v) \o Way!LayerStep(v), A, B)
  <2>1. v \in Values
    BY <1>3 DEF Values
  <2>2. Leads(Way!Embed(v), A, Standing({"streams"}, v, {"s0"}, FALSE))
    BY <2>1, EmbedLeads
  <2>3. Leads(Way!LayerStep(v), Standing({"streams"}, v, {"none", "s0"}, FALSE), B)
    BY <1>3, LayerLeads
  <2>4. Standing({"streams"}, v, {"s0"}, FALSE) \subseteq Standing({"streams"}, v, {"none", "s0"}, FALSE)
    BY DEF Standing
  <2> HIDE DEF A, B, v
  <2>5. Leads(Way!LayerStep(v), Standing({"streams"}, v, {"s0"}, FALSE), B)
    BY <2>3, <2>4, LeadsFrom
  <2> QED
    BY <2>2, <2>5, LeadsBoth
<1>5. ASSUME NEW bel \in Memories, NEW b \in {"none", "s0"}, layer <= Len(Layers) => bel["streams"] = <<call, layer + 1>>
      PROVE  Place(bel, b, FALSE) \in A
  <2>1. b \in Way!Streams \union {"none"}
    BY DEF Way!Streams
  <2>2. PICK a : a = Place(bel, b, FALSE)
    OBVIOUS
  <2>3. a \in Expected /\ a.got = FALSE /\ a.busy = b
    BY <2>1, <2>2, PlaceUnslotted
  <2> QED
    BY <2>2, <2>3 DEF Standing
<1>6. B \subseteq Ends'
  BY <1>1, <1>2 DEF Ends, Standing
<1>7. todo' = Way!Embed(v) \o Way!LayerStep(v)
  BY <1>1, <1>2
<1> HIDE DEF A, B, v
<1>8. PICK p : p = Way!Embed(v) \o Way!LayerStep(v)
  OBVIOUS
<1>9. Leads(p, A, B) /\ todo' = p /\ todo = <<>>
  BY <1>1, <1>4, <1>7, <1>8
<1>10. call' \in Nat \ {0} /\ layer' \in Nat \ {0} /\ layer' <= Len(Layers) + 1
  BY <1>1, LayersTyped
<1>11. UNCHANGED <<queue, running, memory, map>>
  BY <1>1
<1> QED
  BY <1>5, <1>6, <1>9, <1>10, <1>11, WayGoesOn

LEMMA WayStarts ==
  ASSUME WayInv, NEW s \in Way!Streams, Way!Begin(s)
  PROVE  WayInv'
<1>1. PICK bel \in Memories, b \in Way!Streams \union {"none"}, got \in BOOLEAN : Foreseen(bel, b, got)
  BY DEF WayInv
<1>2. WayTypes /\ Leading(bel, b) /\ SlotsHold(bel)
  BY <1>1 DEF WayInv, Foreseen
<1>3. /\ running[s] = Way!Idle /\ queue[s] # <<>>
      /\ running' = [running EXCEPT ![s] = [Head(queue[s]) EXCEPT !.good = Way!IsRight(Head(queue[s]), s)]]
      /\ queue' = [queue EXCEPT ![s] = Tail(@)]
      /\ UNCHANGED <<call, layer, todo, memory, map>>
  BY DEF Way!Begin
<1>4. s = b
  BY <1>2, <1>3 DEF Leading
<1>5. PICK q : q = queue[s]
  OBVIOUS
<1>6. q \in Seq(Operations(Way!Buffers)) /\ q # <<>> /\ Head(q) \in Operations(Way!Buffers) /\ Tail(q) \in Seq(Operations(Way!Buffers))
  BY <1>2, <1>3, <1>5 DEF WayTypes
<1>7. BringsTo(q, memory, bel)
  BY <1>2, <1>3, <1>4, <1>5 DEF Leading, Settled
<1>8. Meets(memory, Head(q).reads) /\ BringsTo(Tail(q), Put(memory, Head(q).writes), bel)
  BY <1>6, <1>7, BringsLess
<1>9. \A r \in Way!Streams \ {s} : queue[r] = <<>> /\ running[r] = Way!Idle
  BY <1>2, <1>4 DEF Leading
<1>10. Way!IsRight(Head(q), s) = TRUE
  <2>1. Way!IsRight(Head(q), s) \in BOOLEAN
    BY DEF Way!IsRight
  <2> QED
    BY <1>2, <1>8, <1>9, <2>1, FindsMemory
<1>11. [Head(q) EXCEPT !.good = TRUE] = Head(q)
  BY <1>6 DEF Operations
<1>12. running'[s] = Head(q) /\ \A r \in Way!Streams \ {s} : running'[r] = running[r]
  BY <1>2, <1>3, <1>5, <1>10, <1>11 DEF WayTypes
<1>13. queue'[s] = Tail(q) /\ \A r \in Way!Streams \ {s} : queue'[r] = queue[r]
  BY <1>2, <1>3, <1>5 DEF WayTypes
<1>14. Head(q) # Way!Idle /\ Head(q).good
  <2>1. DOMAIN Head(q).writes # {}
    BY <1>6, WritesPart DEF Operations
  <2>2. DOMAIN Way!Idle.writes = {}
    BY DEF Way!Idle, Way!Nothing
  <2> QED
    BY <1>6, <2>1, <2>2 DEF Operations
<1>15. Settled(s)' = Put(memory, Head(q).writes)
  BY <1>3, <1>12, <1>14 DEF Settled
<1>16. Leading(bel, s)'
  <2>1. s # "none" /\ memory' = memory
    BY <1>3 DEF Way!Streams
  <2>2. \A r \in Way!Streams \ {s} : queue'[r] = <<>> /\ running'[r] = Way!Idle
    BY <1>9, <1>12, <1>13
  <2>3. BringsTo(queue'[s], Settled(s)', bel)
    BY <1>8, <1>13, <1>15
  <2>4. running'[s] # Way!Idle => Meets(memory', running'[s].reads) /\ running'[s].good
    BY <1>8, <1>12, <1>14, <2>1
  <2> QED
    BY <2>1, <2>2, <2>3, <2>4 DEF Leading
<1>17. Foreseen(bel, s, got)'
  <2>1. SlotsHold(bel)' /\ Ends' = Ends
    BY <1>2, <1>3 DEF SlotsHold, Ends
  <2> QED
    BY <1>1, <1>3, <1>4, <1>16, <2>1 DEF Foreseen
<1>18. WayTypes'
  <2>1. queue' \in [Way!Streams -> Seq(Operations(Way!Buffers))]
    BY <1>2, <1>3, <1>5, <1>6 DEF WayTypes
  <2>2. running' \in [Way!Streams -> Operations(Way!Buffers) \union {Way!Idle}]
    BY <1>2, <1>3, <1>5, <1>6, <1>10, <1>11 DEF WayTypes
  <2> QED
    BY <1>2, <1>3, <2>1, <2>2 DEF WayTypes
<1> QED
  BY <1>17, <1>18 DEF WayInv

LEMMA WayEnds ==
  ASSUME WayInv, NEW s \in Way!Streams, Way!End(s)
  PROVE  WayInv'
<1>1. PICK bel \in Memories, b \in Way!Streams \union {"none"}, got \in BOOLEAN : Foreseen(bel, b, got)
  BY DEF WayInv
<1>2. WayTypes /\ Leading(bel, b) /\ SlotsHold(bel)
  BY <1>1 DEF WayInv, Foreseen
<1>3. PICK op : op = running[s]
  OBVIOUS
<1>4. /\ op # Way!Idle /\ running' = [running EXCEPT ![s] = Way!Idle]
      /\ memory' = [c \in Way!Buffers |->
                     IF c \notin DOMAIN op.writes THEN memory[c]
                     ELSE IF op.good /\ Way!IsRight(op, s) THEN op.writes[c] ELSE Way!Mixed]
      /\ UNCHANGED <<call, layer, todo, queue, map>>
  BY <1>3 DEF Way!End
<1>5. s = b
  BY <1>2, <1>3, <1>4 DEF Leading
<1>6. op \in Operations(Way!Buffers)
  BY <1>2, <1>3, <1>4 DEF WayTypes
<1>7. Meets(memory, op.reads) /\ op.good /\ BringsTo(queue[s], Put(memory, op.writes), bel)
  BY <1>2, <1>3, <1>4, <1>5 DEF Leading, Settled
<1>8. \A r \in Way!Streams \ {s} : queue[r] = <<>> /\ running[r] = Way!Idle
  BY <1>2, <1>5 DEF Leading
<1>9. Way!IsRight(op, s)
  BY <1>2, <1>7, <1>8, FindsMemory
<1>10. memory' = Put(memory, op.writes) /\ memory' \in Memories
  <2>1. memory' = [c \in Way!Buffers |-> IF c \in DOMAIN op.writes THEN op.writes[c] ELSE memory[c]]
    BY <1>4, <1>7, <1>9
  <2>2. memory \in Memories /\ op.writes \in Partial(Way!Buffers)
    BY <1>2, <1>6, WritesPart DEF WayTypes, Operations
  <2>3. DOMAIN memory = Way!Buffers
    BY <2>2 DEF Memories
  <2>4. Put(memory, op.writes) = [c \in Way!Buffers |-> IF c \in DOMAIN op.writes THEN op.writes[c] ELSE memory[c]]
    BY <2>3 DEF Put
  <2>5. Put(memory, op.writes) \in Memories
    BY <2>2, PutTyped DEF Memories
  <2> QED
    BY <2>1, <2>4, <2>5
<1>11. running'[s] = Way!Idle /\ \A r \in Way!Streams \ {s} : running'[r] = running[r]
  BY <1>2, <1>4 DEF WayTypes
<1>12. Leading(bel, s)'
  <2>1. s # "none"
    BY DEF Way!Streams
  <2>2. \A r \in Way!Streams \ {s} : queue'[r] = <<>> /\ running'[r] = Way!Idle
    BY <1>4, <1>8, <1>11
  <2>3. Settled(s)' = memory'
    BY <1>11 DEF Settled
  <2>4. BringsTo(queue'[s], Settled(s)', bel)
    BY <1>4, <1>7, <1>10, <2>3
  <2> QED
    BY <1>11, <2>1, <2>2, <2>4 DEF Leading
<1>13. Foreseen(bel, s, got)'
  <2>1. SlotsHold(bel)' /\ Ends' = Ends
    BY <1>2, <1>4 DEF SlotsHold, Ends
  <2> QED
    BY <1>1, <1>4, <1>5, <1>12, <2>1 DEF Foreseen
<1>14. WayTypes'
  <2>1. running' \in [Way!Streams -> Operations(Way!Buffers) \union {Way!Idle}]
    BY <1>2, <1>4 DEF WayTypes
  <2> QED
    BY <1>2, <1>4, <1>10, <2>1 DEF WayTypes
<1> QED
  BY <1>13, <1>14 DEF WayInv

LEMMA WayKeeps ==
  ASSUME WayInv, [Way!ForwardNext]_forward
  PROVE  WayInv'
<1>1. CASE UNCHANGED forward
  <2>1. UNCHANGED <<call, layer, todo, queue, running, memory, map>>
    BY <1>1 DEF forward
  <2>2. WayTypes' /\ Ends' = Ends
    BY <2>1 DEF WayInv, WayTypes, Ends
  <2>3. ASSUME NEW bel \in Memories, NEW b \in Way!Streams \union {"none"}, NEW got \in BOOLEAN, Foreseen(bel, b, got)
        PROVE  Foreseen(bel, b, got)'
    BY <2>1, <2>2, <2>3 DEF Foreseen, Leading, Settled, SlotsHold
  <2> QED
    BY <2>2, <2>3 DEF WayInv
<1>2. CASE Way!ForwardNext
  BY <1>2, WayQueues, WaySynchronizes, WayReads, WayAcquires, WayLaunches, WayNextLayer, WayFinishes, WayNextCall,
     WayStarts, WayEnds DEF Way!ForwardNext, Way!HostStep
<1> QED
  BY <1>1, <1>2

LEMMA WaySound ==
  ASSUME WayInv
  PROVE  Way!ReadsItsOwn
<1>1. memory \in [Way!Buffers -> Values]
  BY DEF WayInv, WayTypes, Memories
<1>2. Way!Mixed \notin Values
  BY DEF Way!Mixed, Values, Way!Nothing
<1> QED
  BY <1>1, <1>2 DEF Way!ReadsItsOwn

-----------------------------------------------------------------------------
(* The product that blocks share without a barrier: a column's sum.         *)

(* How the tiles are dealt out. *)

Cols == 0..(shape.n - 1)

\* The lock when a segment is added.
Upto(b, n) == shape.k - SegBeg(b, n)

Sound == shape \in Shapes

LEMMA ShapeTyped ==
  ASSUME Sound
  PROVE  /\ shape.k \in Nat \ {0} /\ shape.n \in Nat \ {0} /\ shape.blocks \in Nat \ {0}
         /\ shape.passes \in Nat \ {0} /\ shape.barrier \in BOOLEAN
BY SplitKAssumption DEF Sound

LEMMA DivMod ==
  ASSUME NEW a \in Nat, NEW d \in Nat \ {0}
  PROVE  a \div d \in Nat /\ (a % d) \in 0..(d - 1) /\ a = d * (a \div d) + (a % d)
OBVIOUS

LEMMA Times ==
  ASSUME NEW a \in Nat, NEW b \in Nat
  PROVE  a * b \in Nat /\ a * b = b * a
OBVIOUS

LEMMA TimesMore ==
  ASSUME NEW d \in Nat, NEW a \in Nat, NEW b \in Nat, a < b
  PROVE  d * a + d <= d * b
<1>1. b - a - 1 \in Nat
  OBVIOUS
<1>2. d * (b - a - 1) >= 0
  BY <1>1
<1>3. d * (b - a - 1) = d * b - d * a - d
  OBVIOUS
<1> QED
  BY <1>2, <1>3

LEMMA SlicesTyped ==
  ASSUME Sound, NEW b \in Nat
  PROVE  /\ SliceBeg(b) \in Nat /\ SliceEnd(b) \in Nat /\ SliceBeg(b) <= SliceEnd(b)
         /\ SliceEnd(b) = SliceBeg(b + 1)
<1>1. PICK t : t = shape.k * shape.n
  OBVIOUS
<1>2. PICK d : d = shape.blocks
  OBVIOUS
<1>3. t \in Nat /\ d \in Nat \ {0}
  BY <1>1, <1>2, ShapeTyped
<1>4. PICK u, v : u = t * b /\ v = t * (b + 1)
  OBVIOUS
<1>5. u \in Nat /\ v \in Nat /\ u <= v
  <2>1. v = u + t
    BY <1>3, <1>4
  <2>2. u \in Nat
    BY <1>3, <1>4, Times
  <2> QED
    BY <1>3, <2>1, <2>2
<1>6. SliceBeg(b) = u \div d /\ SliceEnd(b) = v \div d /\ SliceEnd(b) = SliceBeg(b + 1)
  BY <1>1, <1>2, <1>4 DEF SliceBeg, SliceEnd
<1>7. u \div d \in Nat /\ v \div d \in Nat
  BY <1>3, <1>5, DivMod
<1>8. ~(v \div d < u \div d)
  <2>1. /\ (u % d) \in 0..(d - 1) /\ u = d * (u \div d) + (u % d)
        /\ (v % d) \in 0..(d - 1) /\ v = d * (v \div d) + (v % d)
    BY <1>3, <1>5, DivMod
  <2>2. PICK qu \in Nat, qv \in Nat : qu = u \div d /\ qv = v \div d
    BY <1>7
  <2>3. qv < qu => d * qv + d <= d * qu
    BY <1>3, TimesMore
  <2>4. d * qv \in Nat /\ d * qu \in Nat
    BY <1>3, Times
  <2> QED
    BY <1>3, <1>5, <2>1, <2>2, <2>3, <2>4
<1> QED
  BY <1>6, <1>7, <1>8

LEMMA Counted ==
  ASSUME NEW S \in SUBSET Nat, 0 \in S, \A n \in S : n + 1 \in S
  PROVE  S = Nat
<1> SUFFICES ASSUME Nat \ S # {} PROVE FALSE
  OBVIOUS
<1>1. \E x \in Nat \ S : \A z \in Nat \ S : ~(<<z, x>> \in OpToRel(<, Nat))
  BY NatLessThanWellFounded, WFMin
<1>2. PICK x \in Nat \ S : \A z \in Nat \ S : ~(z < x)
  BY <1>1 DEF OpToRel
<1>3. x # 0 /\ x - 1 \in Nat /\ x - 1 < x /\ x - 1 + 1 = x
  BY <1>2
<1>4. x - 1 \in S
  BY <1>2, <1>3
<1> QED
  BY <1>2, <1>3, <1>4

LEMMA SlicesInOrder ==
  ASSUME Sound, NEW b \in Nat, NEW c \in Nat, b < c
  PROVE  SliceEnd(b) <= SliceBeg(c)
<1> DEFINE S == {m \in Nat : SliceEnd(b) <= SliceBeg(b + 1 + m)}
<1>1. 0 \in S
  BY SlicesTyped
<1>2. ASSUME NEW m \in S PROVE m + 1 \in S
  <2>1. m \in Nat /\ SliceEnd(b) <= SliceBeg(b + 1 + m)
    OBVIOUS
  <2>2. PICK i : i = b + 1 + m
    OBVIOUS
  <2>3. i \in Nat /\ b + 1 + (m + 1) = i + 1
    BY <2>1, <2>2
  <2>4. SliceBeg(i) <= SliceBeg(i + 1) /\ SliceBeg(i) \in Nat /\ SliceBeg(i + 1) \in Nat /\ SliceEnd(b) \in Nat
    BY <2>3, SlicesTyped
  <2> QED
    BY <2>1, <2>2, <2>3, <2>4
<1>3. S = Nat
  <2>1. S \in SUBSET Nat
    OBVIOUS
  <2> HIDE DEF S
  <2> QED
    BY <1>1, <1>2, <2>1, Counted
<1>4. c - b - 1 \in S
  <2>1. c - b - 1 \in Nat
    OBVIOUS
  <2> QED
    BY <1>3, <2>1
<1>5. b + 1 + (c - b - 1) = c
  OBVIOUS
<1> QED
  BY <1>4, <1>5

LEMMA AllTiles ==
  ASSUME Sound
  PROVE  SliceBeg(0) = 0 /\ SliceBeg(shape.blocks) = shape.k * shape.n
<1>1. PICK t : t = shape.k * shape.n
  OBVIOUS
<1>2. PICK d : d = shape.blocks
  OBVIOUS
<1>3. t \in Nat /\ d \in Nat \ {0}
  BY <1>1, <1>2, ShapeTyped
<1>4. SliceBeg(0) = (t * 0) \div d /\ SliceBeg(shape.blocks) = (t * d) \div d
  BY <1>1, <1>2 DEF SliceBeg
<1>5. t * 0 = 0 /\ 0 \div d = 0
  BY <1>3
<1>6. (t * d) \div d = t
  <2>1. PICK u : u = t * d
    OBVIOUS
  <2>2. u \in Nat /\ u = d * t
    BY <1>3, <2>1, Times
  <2>3. u \div d \in Nat /\ (u % d) \in 0..(d - 1) /\ u = d * (u \div d) + (u % d)
    BY <1>3, <2>2, DivMod
  <2>4. PICK q \in Nat : q = u \div d
    BY <2>3
  <2>5. d * q \in Nat /\ d * t \in Nat
    BY <1>3, <2>4, Times
  <2>6. (q < t => d * q + d <= d * t) /\ (t < q => d * t + d <= d * q)
    BY <1>3, <2>4, TimesMore
  <2>7. q = t
    BY <1>3, <2>2, <2>3, <2>4, <2>5, <2>6
  <2> QED
    BY <2>1, <2>4, <2>7
<1> QED
  BY <1>1, <1>4, <1>5, <1>6

Shares(b, n) == b \in Blocks /\ ~Idle(b) /\ n \in Nat /\ FirstCol(b) <= n /\ n <= LastCol(b)

LEMMA SlicesIn ==
  ASSUME Sound, NEW b \in Blocks
  PROVE  /\ b \in Nat /\ SliceBeg(b) \in Nat /\ SliceEnd(b) \in Nat /\ SliceBeg(b) <= SliceEnd(b)
         /\ SliceEnd(b) <= shape.k * shape.n
<1>1. b \in Nat /\ shape.blocks \in Nat /\ b < shape.blocks
  BY ShapeTyped DEF Blocks
<1>2. SliceEnd(b) <= SliceBeg(shape.blocks)
  BY <1>1, SlicesInOrder
<1> QED
  BY <1>1, <1>2, SlicesTyped, AllTiles

\* Where the columns of a slice are.
LEMMA ColumnsOf ==
  ASSUME Sound, NEW b \in Blocks, ~Idle(b)
  PROVE  /\ FirstCol(b) \in Nat /\ LastCol(b) \in Nat /\ FirstCol(b) <= LastCol(b)
         /\ LastCol(b) \in Cols
         /\ (SliceBeg(b) % shape.k) \in 0..(shape.k - 1)
         /\ SliceBeg(b) = shape.k * FirstCol(b) + (SliceBeg(b) % shape.k)
         /\ ((SliceEnd(b) - 1) % shape.k) \in 0..(shape.k - 1)
         /\ SliceEnd(b) - 1 = shape.k * LastCol(b) + ((SliceEnd(b) - 1) % shape.k)
<1>1. PICK d : d = shape.k
  OBVIOUS
<1>2. PICK t, u : t = SliceBeg(b) /\ u = SliceEnd(b) - 1
  OBVIOUS
<1>3. PICK w : w = shape.n
  OBVIOUS
<1>4. d \in Nat \ {0} /\ w \in Nat \ {0} /\ t \in Nat /\ u \in Nat /\ t <= u /\ u < d * w
  <2>1. SliceBeg(b) # SliceEnd(b)
    BY DEF Idle
  <2>2. d \in Nat \ {0} /\ w \in Nat \ {0}
    BY <1>1, <1>3, ShapeTyped
  <2>3. d * w \in Nat
    BY <2>2, Times
  <2>4. SliceBeg(b) \in Nat /\ SliceEnd(b) \in Nat /\ SliceBeg(b) <= SliceEnd(b) /\ SliceEnd(b) <= d * w
    BY <1>1, <1>3, SlicesIn
  <2> QED
    BY <1>2, <2>1, <2>2, <2>3, <2>4
<1>5. PICK q, p : q = t \div d /\ p = u \div d
  OBVIOUS
<1>6. PICK r, v : r = t % d /\ v = u % d
  OBVIOUS
<1>7. /\ q \in Nat /\ r \in 0..(d - 1) /\ t = d * q + r
      /\ p \in Nat /\ v \in 0..(d - 1) /\ u = d * p + v
  BY <1>4, <1>5, <1>6, DivMod
<1>8. d * q \in Nat /\ d * p \in Nat /\ d * w \in Nat
  BY <1>4, <1>7, Times
<1>9. (p < q => d * p + d <= d * q) /\ (w < p => d * w + d <= d * p)
  BY <1>4, <1>7, TimesMore
<1>10. q <= p /\ p < w
  BY <1>4, <1>7, <1>8, <1>9
<1>11. p \in Cols
  BY <1>3, <1>4, <1>7, <1>10 DEF Cols
<1>12. FirstCol(b) = q /\ LastCol(b) = p
  BY <1>1, <1>2, <1>5 DEF FirstCol, LastCol
<1> QED
  BY <1>1, <1>2, <1>6, <1>7, <1>10, <1>11, <1>12

LEMMA SegmentIn ==
  ASSUME Sound, NEW b, NEW n, Shares(b, n)
  PROVE  /\ b \in Nat /\ n \in Cols
         /\ SegBeg(b, n) \in Nat /\ SegEnd(b, n) \in Nat
         /\ SegBeg(b, n) <= SegEnd(b, n) /\ SegEnd(b, n) < shape.k
         /\ SliceBeg(b) <= shape.k * n + SegBeg(b, n) /\ shape.k * n + SegEnd(b, n) < SliceEnd(b)
<1>1. PICK d : d = shape.k
  OBVIOUS
<1>2. PICK t, u : t = SliceBeg(b) /\ u = SliceEnd(b) - 1
  OBVIOUS
<1>3. PICK q, p : q = FirstCol(b) /\ p = LastCol(b)
  OBVIOUS
<1>4. PICK r, v : r = SliceBeg(b) % shape.k /\ v = (SliceEnd(b) - 1) % shape.k
  OBVIOUS
<1>5. b \in Blocks /\ ~Idle(b) /\ n \in Nat /\ q <= n /\ n <= p /\ b \in Nat
  BY <1>3, SlicesIn DEF Shares
<1>6. d \in Nat \ {0} /\ t \in Nat /\ u \in Int /\ SliceEnd(b) = u + 1 /\ t <= u + 1
  BY <1>1, <1>2, <1>5, SlicesIn, ShapeTyped
<1>7. q \in Nat /\ p \in Nat /\ q <= p /\ p \in Cols
  BY <1>3, <1>5, ColumnsOf
<1>8. r \in 0..(d - 1) /\ t = d * q + r /\ v \in 0..(d - 1) /\ u = d * p + v
  BY <1>1, <1>2, <1>3, <1>4, <1>5, ColumnsOf
<1>9. d * q \in Nat /\ d * p \in Nat /\ d * n \in Nat
  BY <1>5, <1>6, <1>7, Times
<1>10. (q < n => d * q + d <= d * n) /\ (n < p => d * n + d <= d * p)
  BY <1>5, <1>6, <1>7, TimesMore
<1>11. PICK x, z : x = SegBeg(b, n) /\ z = SegEnd(b, n)
  OBVIOUS
<1>12. x = (IF n = q THEN r ELSE 0) /\ z = (IF n = p THEN v ELSE d - 1)
  BY <1>1, <1>3, <1>4, <1>11 DEF SegBeg, SegEnd
<1>13. n \in Cols
  BY <1>5, <1>7, ShapeTyped DEF Cols
<1>14. t # u + 1
  BY <1>2, <1>5, <1>6 DEF Idle
<1>15. x \in Nat /\ z \in Nat /\ x <= z /\ z < d
  BY <1>5, <1>6, <1>7, <1>8, <1>12, <1>14
<1>16. t <= d * n + x
  BY <1>5, <1>6, <1>7, <1>8, <1>9, <1>10, <1>12
<1>17. d * n + z < u + 1
  BY <1>5, <1>6, <1>7, <1>8, <1>9, <1>10, <1>12
<1> QED
  BY <1>1, <1>2, <1>5, <1>6, <1>11, <1>13, <1>15, <1>16, <1>17

\* The segments of a column do not overlap: one of two is added up first.
LEMMA OneFirst ==
  ASSUME Sound, NEW b, NEW c, NEW n, Shares(b, n), Shares(c, n), b # c
  PROVE  Upto(b, n) <= LockI(c, n) \/ Upto(c, n) <= LockI(b, n)
<1>1. ASSUME NEW x, NEW z, Shares(x, n), Shares(z, n), x < z PROVE SegEnd(x, n) < SegBeg(z, n)
  <2>1. PICK m : m = shape.k * n
    OBVIOUS
  <2>2. x \in Nat /\ z \in Nat /\ n \in Nat
    BY <1>1, SegmentIn DEF Shares
  <2>3. m \in Nat /\ shape.k \in Nat
    BY <2>1, <2>2, ShapeTyped, Times
  <2>4. m + SegEnd(x, n) < SliceEnd(x) /\ SliceBeg(z) <= m + SegBeg(z, n)
        /\ SegEnd(x, n) \in Nat /\ SegBeg(z, n) \in Nat
    BY <1>1, <2>1, SegmentIn
  <2>5. SliceEnd(x) <= SliceBeg(z) /\ SliceEnd(x) \in Nat /\ SliceBeg(z) \in Nat
    BY <1>1, <2>2, SlicesInOrder, SlicesTyped
  <2> QED
    BY <2>3, <2>4, <2>5
<1>2. b \in Nat /\ c \in Nat
  BY SegmentIn
<1>3. /\ SegBeg(b, n) \in Nat /\ SegEnd(b, n) \in Nat /\ SegBeg(c, n) \in Nat /\ SegEnd(c, n) \in Nat
      /\ shape.k \in Nat
  BY SegmentIn, ShapeTyped
<1>4. CASE b < c
  BY <1>1, <1>3, <1>4 DEF Upto, LockI
<1>5. CASE c < b
  BY <1>1, <1>3, <1>5 DEF Upto, LockI
<1> QED
  BY <1>2, <1>4, <1>5

LEMMA LocksOf ==
  ASSUME Sound, NEW b, NEW n, Shares(b, n)
  PROVE  /\ LockI(b, n) \in Nat /\ Upto(b, n) \in Nat /\ LockI(b, n) < Upto(b, n) /\ Upto(b, n) <= shape.k
         /\ LockI(b, n) + LockD(b, n) = Upto(b, n) /\ n \in Cols
         /\ (IsLast(b, n) <=> Upto(b, n) = shape.k) /\ (IsFirst(b, n) <=> LockI(b, n) = 0)
<1>1. SegBeg(b, n) \in Nat /\ SegEnd(b, n) \in Nat /\ SegBeg(b, n) <= SegEnd(b, n) /\ SegEnd(b, n) < shape.k
      /\ shape.k \in Nat /\ n \in Cols
  BY SegmentIn, ShapeTyped
<1> QED
  BY <1>1 DEF LockI, LockD, Upto, IsLast, IsFirst

\* Every column has a last segment.
LEMMA OneLast ==
  ASSUME Sound, NEW n \in Cols
  PROVE  \E b \in Blocks : Shares(b, n) /\ Upto(b, n) = shape.k
<1>1. PICK d, w : d = shape.k /\ w = shape.n
  OBVIOUS
<1>2. d \in Nat \ {0} /\ w \in Nat \ {0} /\ n \in Nat /\ n < w /\ shape.blocks \in Nat \ {0}
  BY <1>1, ShapeTyped DEF Cols
<1>3. PICK t \in Nat : t = d * n
  BY <1>2, Times
<1>4. t < d * w
  <2>1. d * n + d <= d * w /\ d * w \in Nat
    BY <1>2, TimesMore, Times
  <2> QED
    BY <1>2, <1>3, <2>1
<1>5. \E b \in Blocks : SliceBeg(b) <= t /\ t < SliceEnd(b)
  <2> SUFFICES ASSUME \A b \in Blocks : ~(SliceBeg(b) <= t /\ t < SliceEnd(b)) PROVE FALSE
    OBVIOUS
  <2> DEFINE S == {m \in Nat : m <= shape.blocks => SliceBeg(m) <= t}
  <2>1. 0 \in S
    BY <1>3, AllTiles
  <2>2. ASSUME NEW m \in S PROVE m + 1 \in S
    <3>1. CASE m + 1 <= shape.blocks
      <4>1. m \in Blocks /\ m \in Nat /\ SliceBeg(m) <= t
        BY <1>2, <3>1 DEF Blocks
      <4>2. SliceEnd(m) = SliceBeg(m + 1) /\ SliceEnd(m) \in Nat
        BY <4>1, SlicesTyped
      <4>3. SliceBeg(m + 1) <= t
        BY <1>3, <4>1, <4>2
      <4> QED
        BY <4>1, <4>3
    <3>2. CASE ~(m + 1 <= shape.blocks)
      BY <3>2
    <3> QED
      BY <3>1, <3>2
  <2>3. S \in SUBSET Nat
    OBVIOUS
  <2>4. shape.blocks \in S
    <3> HIDE DEF S
    <3> QED
      BY <1>2, <2>1, <2>2, <2>3, Counted
  <2>5. SliceBeg(shape.blocks) <= t
    BY <1>2, <2>4
  <2>6. d * w \in Nat
    BY <1>2, Times
  <2> QED
    BY <1>1, <1>3, <1>4, <2>5, <2>6, AllTiles
<1>6. PICK b \in Blocks : SliceBeg(b) <= t /\ t < SliceEnd(b)
  BY <1>5
<1>7. SliceBeg(b) \in Nat /\ SliceEnd(b) \in Nat
  BY SlicesIn
<1>8. ~Idle(b)
  BY <1>3, <1>6, <1>7 DEF Idle
<1>9. PICK q, p, r, v : /\ q = FirstCol(b) /\ p = LastCol(b)
                        /\ r = SliceBeg(b) % shape.k /\ v = (SliceEnd(b) - 1) % shape.k
  OBVIOUS
<1>10. /\ q \in Nat /\ p \in Nat /\ r \in 0..(d - 1) /\ v \in 0..(d - 1)
       /\ SliceBeg(b) = d * q + r /\ SliceEnd(b) - 1 = d * p + v
  BY <1>1, <1>8, <1>9, ColumnsOf
<1>11. d * q \in Nat /\ d * p \in Nat
  BY <1>2, <1>10, Times
<1>12. (n < q => d * n + d <= d * q) /\ (p < n => d * p + d <= d * n)
  BY <1>2, <1>10, TimesMore
<1>13. q <= n /\ n <= p /\ (q = n => r = 0)
  BY <1>2, <1>3, <1>6, <1>7, <1>10, <1>11, <1>12
<1>14. SegBeg(b, n) = 0
  BY <1>9, <1>13 DEF SegBeg
<1>15. Shares(b, n)
  BY <1>2, <1>8, <1>9, <1>13 DEF Shares
<1>16. Upto(b, n) = shape.k
  BY <1>14, ShapeTyped DEF Upto
<1> QED
  BY <1>15, <1>16

-----------------------------------------------------------------------------
(* The sums of a column. *)

AddedBy(n, u) == {c \in Blocks : Shares(c, n) /\ Upto(c, n) <= u}

Sums == Seq([from : Nat, to : Nat])

\* A sum of the segments that the lock counts up to u.
SumUpto(n, s, u) ==
  /\ s \in Sums /\ Len(s) = Cardinality(AddedBy(n, u)) /\ Len(s) > 0
  /\ s[1].to = shape.k - 1 /\ s[Len(s)].from = shape.k - u
  /\ \A i \in 1..(Len(s) - 1) : s[i].from = s[i + 1].to + 1

LEMMA AddedFinite ==
  ASSUME Sound, NEW n, NEW u
  PROVE  IsFiniteSet(AddedBy(n, u)) /\ Cardinality(AddedBy(n, u)) \in Nat
<1>1. IsFiniteSet(Blocks)
  BY ShapeTyped, FS_Interval DEF Blocks
<1>2. AddedBy(n, u) \subseteq Blocks
  BY DEF AddedBy
<1> QED
  BY <1>1, <1>2, FS_Subset, FS_CardinalityType

LEMMA AddsOne ==
  ASSUME Sound, NEW b, NEW n, Shares(b, n)
  PROVE  Cardinality(AddedBy(n, Upto(b, n))) = Cardinality(AddedBy(n, LockI(b, n))) + 1
<1>1. b \in Blocks /\ LockI(b, n) < Upto(b, n) /\ LockI(b, n) \in Nat /\ Upto(b, n) \in Nat
  BY LocksOf DEF Shares
<1>2. b \notin AddedBy(n, LockI(b, n))
  BY <1>1 DEF AddedBy
<1>3. AddedBy(n, Upto(b, n)) = AddedBy(n, LockI(b, n)) \union {b}
  <2>1. ASSUME NEW c \in Blocks, Shares(c, n), c # b
        PROVE  Upto(c, n) <= Upto(b, n) <=> Upto(c, n) <= LockI(b, n)
    <3>1. Upto(b, n) <= LockI(c, n) \/ Upto(c, n) <= LockI(b, n)
      BY <2>1, OneFirst
    <3>2. LockI(c, n) \in Nat /\ Upto(c, n) \in Nat /\ LockI(c, n) < Upto(c, n)
      BY <2>1, LocksOf
    <3> QED
      BY <1>1, <3>1, <3>2
  <2>2. Upto(b, n) <= Upto(b, n)
    BY <1>1
  <2> QED
    BY <1>1, <2>1, <2>2 DEF AddedBy
<1> QED
  BY <1>2, <1>3, AddedFinite, FS_AddElement

LEMMA NothingAdded ==
  ASSUME Sound, NEW n
  PROVE  Cardinality(AddedBy(n, 0)) = 0
<1>1. AddedBy(n, 0) = {}
  <2>1. ASSUME NEW c \in Blocks, Shares(c, n) PROVE ~(Upto(c, n) <= 0)
    BY <2>1, LocksOf
  <2> QED
    BY <2>1 DEF AddedBy
<1> QED
  BY <1>1, FS_EmptySet

LEMMA SegmentTyped ==
  ASSUME Sound, NEW b, NEW n, Shares(b, n)
  PROVE  /\ Segment(b, n) \in [from : Nat, to : Nat]
         /\ Segment(b, n).to = shape.k - 1 - LockI(b, n) /\ Segment(b, n).from = shape.k - Upto(b, n)
         /\ shape.k \in Nat /\ LockI(b, n) \in Nat /\ Upto(b, n) \in Nat
<1>1. SegBeg(b, n) \in Nat /\ SegEnd(b, n) \in Nat
  BY SegmentIn
<1>2. Segment(b, n) \in [from : Nat, to : Nat] /\ Segment(b, n).from = SegBeg(b, n) /\ Segment(b, n).to = SegEnd(b, n)
  BY <1>1 DEF Segment
<1> QED
  BY <1>1, <1>2, ShapeTyped, LocksOf DEF Upto, LockI

\* The first segment, and the next one.
LEMMA SumBegins ==
  ASSUME Sound, NEW b, NEW n, Shares(b, n), LockI(b, n) = 0
  PROVE  SumUpto(n, <<Segment(b, n)>>, Upto(b, n))
<1>1. PICK s : s = <<Segment(b, n)>>
  OBVIOUS
<1>2. s \in Sums /\ Len(s) = 1 /\ s[1] = Segment(b, n)
  BY <1>1, SegmentTyped DEF Sums
<1>3. Cardinality(AddedBy(n, Upto(b, n))) = 1
  BY AddsOne, NothingAdded
<1>4. s[1].to = shape.k - 1 /\ s[1].from = shape.k - Upto(b, n)
  BY <1>2, SegmentTyped
<1> QED
  BY <1>1, <1>2, <1>3, <1>4 DEF SumUpto

LEMMA SumGoesOn ==
  ASSUME Sound, NEW b, NEW n, Shares(b, n), NEW s, SumUpto(n, s, LockI(b, n))
  PROVE  SumUpto(n, s \o <<Segment(b, n)>>, Upto(b, n))
<1>1. PICK x : x = Segment(b, n)
  OBVIOUS
<1>2. PICK t : t = s \o <<x>>
  OBVIOUS
<1>3. s \in Sums /\ Len(s) \in Nat /\ Len(s) > 0 /\ x \in [from : Nat, to : Nat]
  BY <1>1, SegmentTyped DEF SumUpto, Sums
<1>4. t \in Sums /\ Len(t) = Len(s) + 1 /\ \A i \in 1..(Len(s) + 1) : t[i] = IF i <= Len(s) THEN s[i] ELSE x
  BY <1>2, <1>3 DEF Sums
<1>5. Len(t) = Cardinality(AddedBy(n, Upto(b, n)))
  BY <1>4, AddsOne DEF SumUpto
<1>6. t[1] = s[1] /\ t[Len(t)] = x
  BY <1>3, <1>4
<1>7. s[Len(s)].from = x.to + 1
  <2>1. s[Len(s)].from = shape.k - LockI(b, n)
    BY DEF SumUpto
  <2> QED
    BY <1>1, <2>1, SegmentTyped
<1>8. ASSUME NEW i \in 1..(Len(t) - 1) PROVE t[i].from = t[i + 1].to + 1
  <2>1. CASE i = Len(s)
    BY <1>3, <1>4, <1>7, <2>1
  <2>2. CASE i # Len(s)
    <3>1. i \in 1..(Len(s) - 1) /\ t[i] = s[i] /\ t[i + 1] = s[i + 1]
      BY <1>3, <1>4, <2>2
    <3> QED
      BY <3>1 DEF SumUpto
  <2> QED
    BY <2>1, <2>2
<1>9. t[1].to = shape.k - 1 /\ t[Len(t)].from = shape.k - Upto(b, n) /\ Len(t) > 0
  BY <1>1, <1>3, <1>4, <1>6, SegmentTyped DEF SumUpto
<1> QED
  BY <1>1, <1>2, <1>4, <1>5, <1>8, <1>9 DEF SumUpto

LEMMA SumEnds ==
  ASSUME Sound, NEW n, n \in Cols, NEW s, SumUpto(n, s, shape.k)
  PROVE  Complete(n, s)
<1>1. AddedBy(n, shape.k) = Sharers(n)
  <2>1. ASSUME NEW c \in Blocks, Shares(c, n) PROVE Upto(c, n) <= shape.k
    BY <2>1, LocksOf
  <2>2. n \in Nat
    BY DEF Cols
  <2> QED
    BY <2>1, <2>2 DEF AddedBy, Sharers, Shares
<1>2. shape.k - shape.k = 0
  BY ShapeTyped
<1> QED
  BY <1>1, <1>2 DEF SumUpto, Complete

-----------------------------------------------------------------------------
(* The inductive invariant of the product. *)

Holding == {"reads", "writes", "releases"}

\* How often a block has added to a column it shares.
Count(b, n) == IF pc[b] \in {"leaves", "done"} \/ n < col[b] THEN pass[b] ELSE pass[b] - 1

SumTypes ==
  /\ shape \in Shapes
  /\ pc \in [Blocks -> {"multiplies", "leaves", "done"} \union Holding]
  /\ pass \in [Blocks -> 1..shape.passes]
  /\ col \in [Blocks -> Int]
  /\ frag = [b \in Blocks |-> frag[b]]
  /\ locks \in [Cols -> Nat]
  /\ out = [p \in 1..shape.passes |-> [n \in Cols |-> out[p][n]]]

\* A block that holds a column's lock, and has its turn in the sum.
BlockOK(b) ==
  /\ pc[b] \in {"multiplies"} \union Holding => Shares(b, col[b])
  /\ pc[b] = "done" => pass[b] = shape.passes
  /\ pc[b] \in Holding => locks[col[b]] = LockI(b, col[b])
  /\ pc[b] = "reads" => frag[b] = <<Segment(b, col[b])>>
  /\ pc[b] = "writes" => SumUpto(col[b], frag[b], Upto(b, col[b]))
  /\ pc[b] = "releases" => SumUpto(col[b], out[pass[b]][col[b]], Upto(b, col[b]))

\* A column has been added up r times, and once more as far as its lock.
ColumnOK(n, r) ==
  /\ locks[n] < shape.k
  /\ locks[n] > 0 => \E b \in Blocks : Shares(b, n) /\ Upto(b, n) = locks[n]
  /\ \A b \in Blocks : Shares(b, n) =>
       Count(b, n) = IF Upto(b, n) <= locks[n] THEN r + 1 ELSE r
  /\ \A p \in 1..r : Complete(n, out[p][n])
  /\ locks[n] > 0 /\ (\A b \in Blocks : ~(pc[b] = "releases" /\ col[b] = n)) =>
       SumUpto(n, out[r + 1][n], locks[n])

SumInv ==
  /\ SumTypes
  /\ \A b \in Blocks : BlockOK(b)
  /\ \A n \in Cols : \E r \in 0..shape.passes : ColumnOK(n, r)

LEMMA ShapeKept ==
  ASSUME UNCHANGED shape
  PROVE  /\ Blocks' = Blocks /\ Cols' = Cols
         /\ \A b : (Idle(b)' <=> Idle(b)) /\ FirstCol(b)' = FirstCol(b) /\ LastCol(b)' = LastCol(b)
         /\ \A b, n : /\ (Shares(b, n)' <=> Shares(b, n)) /\ Upto(b, n)' = Upto(b, n)
                      /\ LockI(b, n)' = LockI(b, n) /\ Segment(b, n)' = Segment(b, n)
         /\ \A n, s, u : SumUpto(n, s, u)' <=> SumUpto(n, s, u)
         /\ \A n, s : Complete(n, s)' <=> Complete(n, s)
<1>1. Blocks' = Blocks /\ Cols' = Cols
  BY DEF Blocks, Cols
<1>2. \A b : SliceBeg(b)' = SliceBeg(b) /\ SliceEnd(b)' = SliceEnd(b)
  BY DEF SliceBeg, SliceEnd
<1>3. \A b : (Idle(b)' <=> Idle(b)) /\ FirstCol(b)' = FirstCol(b) /\ LastCol(b)' = LastCol(b)
  BY <1>2 DEF Idle, FirstCol, LastCol
<1>4. \A b, n : SegBeg(b, n)' = SegBeg(b, n) /\ SegEnd(b, n)' = SegEnd(b, n)
  BY <1>2, <1>3 DEF SegBeg, SegEnd
<1>5. \A b, n : /\ (Shares(b, n)' <=> Shares(b, n)) /\ Upto(b, n)' = Upto(b, n)
                /\ LockI(b, n)' = LockI(b, n) /\ Segment(b, n)' = Segment(b, n)
  BY <1>1, <1>3, <1>4 DEF Shares, Upto, LockI, Segment
<1>6. \A n, u : AddedBy(n, u)' = AddedBy(n, u)
  BY <1>1, <1>5 DEF AddedBy
<1>7. \A n, s, u : SumUpto(n, s, u)' <=> SumUpto(n, s, u)
  BY <1>6 DEF SumUpto
<1>8. \A n : Sharers(n)' = Sharers(n)
  BY <1>1, <1>3 DEF Sharers
<1>9. \A n, s : Complete(n, s)' <=> Complete(n, s)
  BY <1>8 DEF Complete
<1> QED
  BY <1>1, <1>3, <1>5, <1>7, <1>9

LEMMA Alone ==
  ASSUME SumInv, NEW b \in Blocks, NEW c \in Blocks, pc[b] \in Holding, pc[c] \in Holding, col[b] = col[c]
  PROVE  b = c
<1>1. Sound /\ Shares(b, col[b]) /\ Shares(c, col[b]) /\ LockI(b, col[b]) = LockI(c, col[b])
  BY DEF SumInv, SumTypes, Sound, BlockOK
<1>2. b # c => Upto(b, col[b]) <= LockI(c, col[b]) \/ Upto(c, col[b]) <= LockI(b, col[b])
  BY <1>1, OneFirst
<1>3. /\ LockI(b, col[b]) \in Nat /\ Upto(b, col[b]) \in Nat /\ LockI(b, col[b]) < Upto(b, col[b])
      /\ LockI(c, col[b]) \in Nat /\ Upto(c, col[b]) \in Nat /\ LockI(c, col[b]) < Upto(c, col[b])
  BY <1>1, LocksOf
<1> QED
  BY <1>1, <1>2, <1>3

\* A block that has not added to its column adds to the next round's sum.
LEMMA InRound ==
  ASSUME SumInv, NEW b \in Blocks, pc[b] \in Holding, NEW r \in 0..shape.passes, ColumnOK(col[b], r)
  PROVE  pass[b] = r + 1 /\ r + 1 \in 1..shape.passes
<1>1. Sound /\ Shares(b, col[b]) /\ locks[col[b]] = LockI(b, col[b]) /\ pass[b] \in 1..shape.passes
      /\ shape.passes \in Nat /\ col[b] \in Int /\ pc[b] \notin {"leaves", "done"}
  BY ShapeTyped DEF SumInv, SumTypes, Sound, BlockOK, Holding
<1>2. Count(b, col[b]) = pass[b] - 1
  BY <1>1 DEF Count
<1>3. ~(Upto(b, col[b]) <= locks[col[b]])
  BY <1>1, LocksOf
<1>4. Count(b, col[b]) = r
  BY <1>1, <1>3 DEF ColumnOK
<1> QED
  BY <1>1, <1>2, <1>4

LEMMA HoldsNext ==
  ASSUME SumInv, NEW n \in Cols, NEW r \in 0..shape.passes, ColumnOK(n, r), locks[n] > 0
  PROVE  r + 1 \in 1..shape.passes
<1>1. PICK b \in Blocks : Shares(b, n) /\ Upto(b, n) = locks[n]
  BY DEF ColumnOK
<1>2. pass[b] \in 1..shape.passes /\ shape.passes \in Nat /\ locks[n] \in Nat
  BY ShapeTyped DEF SumInv, SumTypes, Sound
<1>3. Count(b, n) = r + 1
  BY <1>1, <1>2 DEF ColumnOK
<1>4. Count(b, n) <= pass[b]
  BY <1>2 DEF Count
<1> QED
  BY <1>2, <1>3, <1>4

LEMMA BlockKept ==
  ASSUME NEW b, BlockOK(b), UNCHANGED shape, pc'[b] = pc[b], pass'[b] = pass[b], col'[b] = col[b], frag'[b] = frag[b],
         pc[b] \in Holding => locks'[col[b]] = locks[col[b]],
         pc[b] = "releases" => out'[pass[b]][col[b]] = out[pass[b]][col[b]]
  PROVE  BlockOK(b)'
BY ShapeKept DEF BlockOK, Holding

LEMMA ColumnKept ==
  ASSUME SumInv, NEW n \in Cols, NEW r \in 0..shape.passes, ColumnOK(n, r), UNCHANGED shape, locks'[n] = locks[n],
         \A b \in Blocks : Shares(b, n) => Count(b, n)' = Count(b, n),
         \A p \in 1..shape.passes : out'[p][n] = out[p][n],
         \A b \in Blocks : pc[b] = "releases" /\ col[b] = n => pc'[b] = "releases" /\ col'[b] = n
  PROVE  ColumnOK(n, r)'
<1>1. locks[n] > 0 => r + 1 \in 1..shape.passes
  BY HoldsNext
<1>2. r \in Nat /\ shape.passes \in Nat /\ 1..r \subseteq 1..shape.passes
  BY ShapeTyped DEF SumInv, SumTypes, Sound
<1>3. locks'[n] < shape'.k /\ (locks'[n] > 0 => \E b \in Blocks' : Shares(b, n)' /\ Upto(b, n)' = locks'[n])
  BY ShapeKept DEF ColumnOK
<1>4. \A b \in Blocks' : Shares(b, n)' => Count(b, n)' = IF Upto(b, n)' <= locks'[n] THEN r + 1 ELSE r
  BY ShapeKept DEF ColumnOK
<1>5. \A p \in 1..r : Complete(n, out[p][n])'
  BY <1>2, ShapeKept DEF ColumnOK
<1>6. locks'[n] > 0 /\ (\A b \in Blocks' : ~(pc'[b] = "releases" /\ col'[b] = n)) => SumUpto(n, out[r + 1][n], locks[n])'
  BY <1>1, ShapeKept DEF ColumnOK
<1> QED
  BY <1>3, <1>4, <1>5, <1>6 DEF ColumnOK

LEMMA EntryTyped ==
  ASSUME Sound, NEW b \in Blocks
  PROVE  FirstCol(b) \in Int /\ Entry(b) \in {"leaves", "multiplies"}
<1>1. SliceBeg(b) \in Nat /\ shape.k \in Nat \ {0}
  BY SlicesIn, ShapeTyped
<1>2. SliceBeg(b) \div shape.k \in Nat
  BY <1>1, DivMod
<1> QED
  BY <1>2 DEF FirstCol, Entry

LEMMA SumsBegin ==
  ASSUME SplitKInit
  PROVE  SumInv
<1>1. Sound
  BY DEF SplitKInit, Sound
<1>2. shape.k \in Nat \ {0} /\ shape.passes \in Nat \ {0}
  BY <1>1, ShapeTyped
<1>3. ASSUME NEW b \in Blocks, ~Idle(b)
      PROVE  FirstCol(b) \in Nat /\ Shares(b, FirstCol(b))
  BY <1>1, <1>3, ColumnsOf DEF Shares
<1>4. ASSUME NEW b \in Blocks PROVE FirstCol(b) \in Int /\ Entry(b) \in {"leaves", "multiplies"}
  BY <1>1, EntryTyped
<1>5. SumTypes
  BY <1>2, <1>4 DEF SplitKInit, SumTypes, Cols
<1>6. ASSUME NEW b \in Blocks PROVE BlockOK(b)
  <2>1. pc[b] = Entry(b) /\ col[b] = FirstCol(b)
    BY DEF SplitKInit
  <2> QED
    BY <1>3, <2>1 DEF BlockOK, Holding, Entry
<1>7. ASSUME NEW n \in Cols PROVE ColumnOK(n, 0)
  <2>1. locks[n] = 0
    BY DEF SplitKInit, Cols
  <2>2. ASSUME NEW b \in Blocks, Shares(b, n) PROVE Count(b, n) = 0 /\ ~(Upto(b, n) <= 0)
    <3>1. pc[b] = "multiplies" /\ col[b] = FirstCol(b) /\ pass[b] = 1 /\ FirstCol(b) <= n
      BY <2>2 DEF SplitKInit, Shares, Entry
    <3>2. FirstCol(b) \in Int /\ n \in Int
      BY <1>4, <2>2 DEF Shares
    <3>3. Upto(b, n) \in Nat /\ LockI(b, n) \in Nat /\ LockI(b, n) < Upto(b, n)
      BY <1>1, <2>2, LocksOf
    <3> QED
      BY <3>1, <3>2, <3>3 DEF Count
  <2> QED
    BY <1>2, <2>1, <2>2 DEF ColumnOK
<1>8. 0 \in 0..shape.passes
  BY <1>2
<1> QED
  BY <1>5, <1>6, <1>7, <1>8 DEF SumInv

\* What a step of a block needs of the invariant.
LEMMA StepFacts ==
  ASSUME SumInv, NEW b \in Blocks
  PROVE  /\ Sound /\ SumTypes /\ BlockOK(b) /\ shape.k \in Nat \ {0} /\ shape.passes \in Nat \ {0}
         /\ pass[b] \in 1..shape.passes /\ col[b] \in Int
         /\ pc[b] \in {"multiplies"} \union Holding =>
              /\ Shares(b, col[b]) /\ col[b] \in Cols /\ col[b] \in Nat /\ locks[col[b]] \in Nat
              /\ \E r \in 0..shape.passes : ColumnOK(col[b], r)
<1>1. Sound /\ SumTypes /\ BlockOK(b)
  BY DEF SumInv, SumTypes, Sound
<1>2. pc[b] \in {"multiplies"} \union Holding => Shares(b, col[b]) /\ col[b] \in Cols /\ col[b] \in Nat
  BY <1>1, LocksOf DEF BlockOK, Shares
<1> QED
  BY <1>1, <1>2, ShapeTyped DEF SumInv, SumTypes

LEMMA SumAcquires ==
  ASSUME SumInv, NEW b \in Blocks, Acquire(b)
  PROVE  SumInv'
<1>1. /\ pc[b] = "multiplies" /\ pc' = [pc EXCEPT ![b] = "reads"] /\ locks[col[b]] = LockI(b, col[b])
      /\ frag' = [frag EXCEPT ![b] = <<Segment(b, col[b])>>] /\ UNCHANGED <<shape, pass, col, locks, out>>
  BY DEF Acquire, Goes, IsTurn
<1>2. SumTypes'
  BY <1>1, ShapeKept DEF SumInv, SumTypes, Holding
<1>3. pc'[b] = "reads" /\ frag'[b] = <<Segment(b, col[b])>> /\ \A c \in Blocks \ {b} : pc'[c] = pc[c] /\ frag'[c] = frag[c]
  BY <1>1 DEF SumInv, SumTypes
<1>4. BlockOK(b)'
  <2>1. Shares(b, col[b])
    BY <1>1, StepFacts
  <2> QED
    BY <1>1, <1>3, <2>1, ShapeKept DEF BlockOK, Holding
<1>5. ASSUME NEW c \in Blocks \ {b} PROVE BlockOK(c)'
  BY <1>1, <1>3, BlockKept DEF SumInv
<1>6. ASSUME NEW n \in Cols, NEW r \in 0..shape.passes, ColumnOK(n, r) PROVE ColumnOK(n, r)'
  <2>1. \A c \in Blocks : Count(c, n)' = Count(c, n)
    BY <1>1, <1>3 DEF Count
  <2>2. \A c \in Blocks : pc[c] = "releases" => pc'[c] = "releases"
    BY <1>1, <1>3
  <2> QED
    BY <1>1, <1>6, <2>1, <2>2, ColumnKept
<1> QED
  BY <1>1, <1>2, <1>4, <1>5, <1>6, ShapeKept DEF SumInv

LEMMA SumReads ==
  ASSUME SumInv, NEW b \in Blocks, ReadSum(b)
  PROVE  SumInv'
<1>1. /\ pc[b] = "reads" /\ pc' = [pc EXCEPT ![b] = "writes"] /\ UNCHANGED <<shape, pass, col, locks, out>>
      /\ frag' = IF IsFirst(b, col[b]) THEN frag ELSE [frag EXCEPT ![b] = out[pass[b]][col[b]] \o @]
  BY DEF ReadSum, Goes
<1>2. PICK n : n = col[b]
  OBVIOUS
<1>3. /\ Sound /\ Shares(b, n) /\ n \in Cols /\ locks[n] \in Nat /\ locks[n] = LockI(b, n)
      /\ frag[b] = <<Segment(b, n)>> /\ pc[b] \in Holding
  BY <1>1, <1>2, StepFacts DEF BlockOK, Holding
<1>4. SumTypes'
  BY <1>1, ShapeKept DEF SumInv, SumTypes, Holding
<1>5. pc'[b] = "writes" /\ \A c \in Blocks \ {b} : pc'[c] = pc[c] /\ frag'[c] = frag[c]
  BY <1>1 DEF SumInv, SumTypes
<1>6. SumUpto(n, frag'[b], Upto(b, n))
  <2>1. CASE IsFirst(b, n)
    BY <1>1, <1>2, <1>3, <2>1, SumBegins, LocksOf
  <2>2. CASE ~IsFirst(b, n)
    <3>1. PICK r \in 0..shape.passes : ColumnOK(n, r)
      BY <1>1, <1>2, StepFacts DEF Holding
    <3>2. pass[b] = r + 1
      BY <1>2, <1>3, <3>1, InRound
    <3>3. \A c \in Blocks : ~(pc[c] = "releases" /\ col[c] = n)
      BY <1>1, <1>2, <1>3, Alone DEF Holding
    <3>4. locks[n] > 0
      BY <1>3, <2>2, LocksOf
    <3>5. SumUpto(n, out[pass[b]][n], LockI(b, n))
      BY <1>3, <3>1, <3>2, <3>3, <3>4 DEF ColumnOK
    <3>6. frag'[b] = out[pass[b]][n] \o <<Segment(b, n)>>
      BY <1>1, <1>2, <1>3, <2>2 DEF SumInv, SumTypes
    <3> QED
      BY <1>3, <3>5, <3>6, SumGoesOn
  <2> QED
    BY <2>1, <2>2
<1>7. BlockOK(b)'
  BY <1>1, <1>2, <1>3, <1>5, <1>6, ShapeKept DEF BlockOK, Holding
<1>8. ASSUME NEW c \in Blocks \ {b} PROVE BlockOK(c)'
  BY <1>1, <1>5, BlockKept DEF SumInv
<1>9. ASSUME NEW m \in Cols, NEW r \in 0..shape.passes, ColumnOK(m, r) PROVE ColumnOK(m, r)'
  <2>1. \A c \in Blocks : Count(c, m)' = Count(c, m)
    BY <1>1, <1>5 DEF Count
  <2>2. \A c \in Blocks : pc[c] = "releases" => pc'[c] = "releases"
    BY <1>1, <1>5
  <2> QED
    BY <1>1, <1>9, <2>1, <2>2, ColumnKept
<1> QED
  BY <1>1, <1>4, <1>7, <1>8, <1>9, ShapeKept DEF SumInv

LEMMA SumWrites ==
  ASSUME SumInv, NEW b \in Blocks, WriteSum(b)
  PROVE  SumInv'
<1>1. /\ pc[b] = "writes" /\ pc' = [pc EXCEPT ![b] = "releases"] /\ UNCHANGED <<shape, pass, col, frag, locks>>
      /\ out' = [out EXCEPT ![pass[b]][col[b]] = frag[b]]
  BY DEF WriteSum, Goes
<1>2. PICK n : n = col[b]
  OBVIOUS
<1>3. PICK p \in 1..shape.passes : p = pass[b]
  BY StepFacts
<1>4. /\ Sound /\ Shares(b, n) /\ n \in Cols /\ locks[n] = LockI(b, n) /\ pc[b] \in Holding
      /\ SumUpto(n, frag[b], Upto(b, n))
  BY <1>1, <1>2, StepFacts DEF BlockOK, Holding
<1>5. out'[p][n] = frag[b] /\ \A q \in 1..shape.passes, m \in Cols : q # p \/ m # n => out'[q][m] = out[q][m]
  BY <1>1, <1>2, <1>3, <1>4 DEF SumInv, SumTypes
<1>6. SumTypes'
  <2>1. out' = [q \in 1..shape.passes |-> [m \in Cols |-> out'[q][m]]]
    BY <1>1, <1>2, <1>3, <1>4 DEF SumInv, SumTypes
  <2> QED
    BY <1>1, <2>1, ShapeKept DEF SumInv, SumTypes, Holding
<1>7. pc'[b] = "releases" /\ \A c \in Blocks \ {b} : pc'[c] = pc[c]
  BY <1>1 DEF SumInv, SumTypes
<1>8. BlockOK(b)'
  BY <1>1, <1>2, <1>3, <1>4, <1>5, <1>7, ShapeKept DEF BlockOK, Holding
<1>9. ASSUME NEW c \in Blocks \ {b} PROVE BlockOK(c)'
  <2>1. ASSUME pc[c] = "releases" PROVE out'[pass[c]][col[c]] = out[pass[c]][col[c]]
    <3>1. col[c] # n
      BY <1>2, <1>4, <1>9, <2>1, Alone DEF Holding
    <3>2. pass[c] \in 1..shape.passes /\ col[c] \in Cols
      BY <2>1, StepFacts DEF Holding
    <3> QED
      BY <1>5, <3>1, <3>2
  <2> QED
    BY <1>1, <1>7, <2>1, BlockKept DEF SumInv
<1>10. ASSUME NEW m \in Cols, NEW r \in 0..shape.passes, ColumnOK(m, r) PROVE ColumnOK(m, r)'
  <2>1. \A c \in Blocks : Count(c, m)' = Count(c, m)
    BY <1>1, <1>7 DEF Count
  <2>2. CASE m # n
    <3>1. \A c \in Blocks : pc[c] = "releases" => pc'[c] = "releases"
      BY <1>1, <1>7
    <3> QED
      BY <1>1, <1>5, <1>10, <2>1, <2>2, <3>1, ColumnKept
  <2>3. CASE m = n
    <3>1. p = r + 1 /\ r + 1 \in 1..shape.passes
      BY <1>2, <1>3, <1>4, <1>10, <2>3, InRound
    <3>2. ASSUME NEW q \in 1..r PROVE Complete(n, out'[q][n])
      <4>1. q \in 1..shape.passes /\ q # p
        BY <1>3, <3>1, StepFacts
      <4>2. out'[q][n] = out[q][n]
        BY <1>4, <1>5, <4>1
      <4> QED
        BY <1>10, <2>3, <4>2 DEF ColumnOK
    <3>3. ~(\A c \in Blocks' : ~(pc'[c] = "releases" /\ col'[c] = n))
      BY <1>1, <1>2, <1>7, ShapeKept
    <3>4. \A q \in 1..r : Complete(n, out[q][n])'
      BY <1>1, <3>2, ShapeKept
    <3> QED
      BY <1>1, <1>10, <2>1, <2>3, <3>3, <3>4, ShapeKept DEF ColumnOK
  <2> QED
    BY <2>2, <2>3
<1> QED
  BY <1>1, <1>6, <1>8, <1>9, <1>10, ShapeKept DEF SumInv

LEMMA SumReleases ==
  ASSUME SumInv, NEW b \in Blocks, Release(b)
  PROVE  SumInv'
<1>1. /\ pc[b] = "releases" /\ UNCHANGED <<shape, pass, frag, out>>
      /\ pc' = [pc EXCEPT ![b] = IF col[b] < LastCol(b) THEN "multiplies" ELSE "leaves"]
      /\ locks' = [locks EXCEPT ![col[b]] = Released(b, col[b])]
      /\ col' = [col EXCEPT ![b] = IF @ < LastCol(b) THEN @ + 1 ELSE @]
  BY DEF Release, Goes
<1>2. PICK n : n = col[b]
  OBVIOUS
<1>3. /\ Sound /\ Shares(b, n) /\ n \in Cols /\ n \in Nat /\ locks[n] = LockI(b, n) /\ pc[b] \in Holding
      /\ SumUpto(n, out[pass[b]][n], Upto(b, n)) /\ shape.k \in Nat \ {0} /\ shape.passes \in Nat \ {0}
      /\ pass[b] \in 1..shape.passes
  BY <1>1, <1>2, StepFacts DEF BlockOK, Holding
<1>4. /\ LastCol(b) \in Nat /\ LastCol(b) \in Cols /\ n <= LastCol(b) /\ FirstCol(b) \in Nat /\ FirstCol(b) <= n
      /\ ~Idle(b)
  BY <1>3, ColumnsOf DEF Shares
<1>5. PICK u \in Nat : u = Upto(b, n)
  BY <1>3, LocksOf
<1>6. LockI(b, n) \in Nat /\ LockI(b, n) < u /\ u <= shape.k
  BY <1>3, <1>5, LocksOf
<1>7. locks'[n] = (IF u = shape.k THEN 0 ELSE u) /\ \A m \in Cols \ {n} : locks'[m] = locks[m]
  <2>1. Released(b, n) = IF u = shape.k THEN 0 ELSE u
    BY <1>3, <1>5, LocksOf DEF Released
  <2> QED
    BY <1>1, <1>2, <1>3, <2>1 DEF SumInv, SumTypes
<1>8. /\ pc'[b] = (IF n < LastCol(b) THEN "multiplies" ELSE "leaves")
      /\ col'[b] = (IF n < LastCol(b) THEN n + 1 ELSE n)
      /\ \A c \in Blocks \ {b} : pc'[c] = pc[c] /\ col'[c] = col[c]
  BY <1>1, <1>2 DEF SumInv, SumTypes
<1>9. SumTypes'
  <2>1. locks' \in [Cols -> Nat]
    <3>1. locks \in [Cols -> Nat] /\ locks' = [locks EXCEPT ![n] = Released(b, n)]
      BY <1>1, <1>2 DEF SumInv, SumTypes
    <3>2. Released(b, n) \in Nat
      BY <1>3, <1>5, <1>7, <3>1
    <3> QED
      BY <3>1, <3>2
  <2>2. col' \in [Blocks -> Int]
    BY <1>1 DEF SumInv, SumTypes
  <2>3. pc' \in [Blocks -> {"multiplies", "leaves", "done"} \union Holding]
    BY <1>1 DEF SumInv, SumTypes
  <2> QED
    BY <1>1, <2>1, <2>2, <2>3, ShapeKept DEF SumInv, SumTypes
<1>10. BlockOK(b)'
  <2>1. n < LastCol(b) => Shares(b, n + 1)
    BY <1>3, <1>4 DEF Shares
  <2> QED
    BY <1>1, <1>8, <2>1, ShapeKept DEF BlockOK, Holding
<1>11. ASSUME NEW c \in Blocks \ {b} PROVE BlockOK(c)'
  <2>1. ASSUME pc[c] \in Holding PROVE locks'[col[c]] = locks[col[c]]
    <3>1. col[c] # n
      BY <1>2, <1>3, <1>11, <2>1, Alone
    <3>2. col[c] \in Cols
      BY <2>1, StepFacts
    <3> QED
      BY <1>7, <3>1, <3>2
  <2> QED
    BY <1>1, <1>8, <2>1, BlockKept DEF SumInv
<1>12. \A m : \A c \in Blocks \ {b} : Count(c, m)' = Count(c, m)
  BY <1>1, <1>8 DEF Count
<1>13. \A m \in Cols \ {n} : Shares(b, m) => Count(b, m)' = Count(b, m)
  BY <1>1, <1>2, <1>3, <1>4, <1>8 DEF Count, Shares, Cols
<1>14. Count(b, n)' = pass[b] /\ Count(b, n) = pass[b] - 1
  BY <1>1, <1>2, <1>3, <1>4, <1>8 DEF Count
<1>15. ASSUME NEW m \in Cols \ {n}, NEW r \in 0..shape.passes, ColumnOK(m, r) PROVE ColumnOK(m, r)'
  <2>1. \A c \in Blocks : Shares(c, m) => Count(c, m)' = Count(c, m)
    BY <1>12, <1>13
  <2>2. \A c \in Blocks : pc[c] = "releases" /\ col[c] = m => pc'[c] = "releases" /\ col'[c] = m
    BY <1>2, <1>8
  <2> QED
    BY <1>1, <1>7, <1>15, <2>1, <2>2, ColumnKept
<1>16. PICK r \in 0..shape.passes : ColumnOK(n, r)
  BY <1>3 DEF SumInv
<1>17. pass[b] = r + 1 /\ r + 1 \in 1..shape.passes /\ r \in Nat
  BY <1>2, <1>3, <1>16, InRound
<1>18. \A c \in Blocks \ {b} : Shares(c, n) =>
         /\ Upto(c, n) \in Nat /\ (Upto(c, n) <= locks[n] <=> Upto(c, n) <= u)
         /\ (u = shape.k => Upto(c, n) <= locks[n])
  <2> SUFFICES ASSUME NEW c \in Blocks \ {b}, Shares(c, n)
               PROVE  /\ Upto(c, n) \in Nat /\ (Upto(c, n) <= locks[n] <=> Upto(c, n) <= u)
                      /\ (u = shape.k => Upto(c, n) <= locks[n])
    OBVIOUS
  <2>1. u <= LockI(c, n) \/ Upto(c, n) <= LockI(b, n)
    BY <1>3, <1>5, OneFirst
  <2>2. LockI(c, n) \in Nat /\ Upto(c, n) \in Nat /\ LockI(c, n) < Upto(c, n) /\ Upto(c, n) <= shape.k
    BY <1>3, LocksOf
  <2> QED
    BY <1>3, <1>6, <2>1, <2>2
<1>19. \A c \in Blocks : Shares(c, n) => Count(c, n)' = IF c = b \/ Upto(c, n) <= locks[n] THEN r + 1 ELSE r
  BY <1>12, <1>14, <1>16, <1>17 DEF ColumnOK
<1>20. CASE u = shape.k
  <2>1. locks'[n] = 0
    BY <1>7, <1>20
  <2>2. \A c \in Blocks : Shares(c, n) => Count(c, n)' = r + 1 /\ ~(Upto(c, n) <= 0)
    BY <1>5, <1>6, <1>18, <1>19, <1>20, LocksOf, <1>3
  <2>3. ASSUME NEW p \in 1..(r + 1) PROVE Complete(n, out[p][n])
    <3>1. CASE p = r + 1
      BY <1>3, <1>5, <1>17, <1>20, <3>1, SumEnds
    <3>2. CASE p # r + 1
      <4>1. p \in 1..r
        BY <1>17, <3>2
      <4> QED
        BY <1>16, <4>1 DEF ColumnOK
    <3> QED
      BY <3>1, <3>2
  <2>4. \A p \in 1..(r + 1) : Complete(n, out[p][n])'
    BY <1>1, <2>3, ShapeKept
  <2>5. \A c \in Blocks' : Shares(c, n)' => Count(c, n)' = IF Upto(c, n)' <= locks'[n] THEN (r + 1) + 1 ELSE r + 1
    BY <1>1, <2>1, <2>2, ShapeKept
  <2>6. ColumnOK(n, r + 1)'
    BY <1>1, <1>3, <2>1, <2>4, <2>5 DEF ColumnOK
  <2>7. r + 1 \in 0..shape.passes
    BY <1>17
  <2> QED
    BY <1>1, <1>3, <1>9, <1>10, <1>11, <1>15, <2>6, <2>7, ShapeKept DEF SumInv
<1>21. CASE u # shape.k
  <2>1. locks'[n] = u /\ u < shape.k /\ u > 0
    BY <1>3, <1>6, <1>7, <1>21
  <2>2. \A c \in Blocks : Shares(c, n) => Count(c, n)' = IF Upto(c, n) <= u THEN r + 1 ELSE r
    BY <1>5, <1>18, <1>19
  <2>3. \A c \in Blocks' : Shares(c, n)' => Count(c, n)' = IF Upto(c, n)' <= locks'[n] THEN r + 1 ELSE r
    BY <1>1, <2>1, <2>2, ShapeKept
  <2>4. SumUpto(n, out[r + 1][n], locks[n])'
    BY <1>1, <1>3, <1>5, <1>17, <2>1, ShapeKept
  <2>5. \E c \in Blocks' : Shares(c, n)' /\ Upto(c, n)' = locks'[n]
    BY <1>1, <1>3, <1>5, <2>1, ShapeKept
  <2>6. \A p \in 1..r : Complete(n, out[p][n])'
    BY <1>1, <1>16, ShapeKept DEF ColumnOK
  <2>7. ColumnOK(n, r)'
    BY <1>1, <2>1, <2>3, <2>4, <2>5, <2>6 DEF ColumnOK
  <2> QED
    BY <1>1, <1>3, <1>9, <1>10, <1>11, <1>15, <1>16, <2>7, ShapeKept DEF SumInv
<1> QED
  BY <1>20, <1>21

LEMMA SumPasses ==
  ASSUME SumInv, NEW bs \in SUBSET Blocks, \A b \in bs : pc[b] = "leaves", NextPass(bs)
  PROVE  SumInv'
<1>1. /\ pc' = [b \in Blocks |-> IF b \notin bs THEN pc[b]
                                 ELSE IF pass[b] < shape.passes THEN Entry(b) ELSE "done"]
      /\ pass' = [b \in Blocks |-> IF b \in bs /\ pass[b] < shape.passes THEN pass[b] + 1 ELSE pass[b]]
      /\ col' = [b \in Blocks |-> IF b \in bs THEN FirstCol(b) ELSE col[b]]
      /\ UNCHANGED <<shape, frag, locks, out>>
  BY DEF NextPass
<1>2. Sound /\ SumTypes /\ shape.passes \in Nat \ {0} /\ shape.k \in Nat \ {0}
  BY ShapeTyped DEF SumInv, SumTypes, Sound
<1>3. ASSUME NEW b \in Blocks PROVE FirstCol(b) \in Int /\ Entry(b) \in {"leaves", "multiplies"}
  BY <1>2, EntryTyped
<1>4. \A b \in Blocks : pass[b] \in 1..shape.passes
  BY <1>2 DEF SumTypes
<1>5. SumTypes'
  <2>1. pc' \in [Blocks -> {"multiplies", "leaves", "done"} \union Holding]
    BY <1>1, <1>2, <1>3 DEF SumTypes
  <2>2. pass' \in [Blocks -> 1..shape.passes]
    BY <1>1, <1>2, <1>4
  <2>3. col' \in [Blocks -> Int]
    BY <1>1, <1>2, <1>3 DEF SumTypes
  <2> QED
    BY <1>1, <1>2, <2>1, <2>2, <2>3, ShapeKept DEF SumTypes
<1>6. ASSUME NEW b \in Blocks PROVE BlockOK(b)'
  <2>1. CASE b \in bs
    <3>1. CASE pass[b] < shape.passes
      <4>1. pc'[b] = Entry(b) /\ col'[b] = FirstCol(b)
        BY <1>1, <2>1, <3>1
      <4>2. ~Idle(b) => Shares(b, FirstCol(b))
        BY <1>2, ColumnsOf DEF Shares
      <4> QED
        BY <1>1, <4>1, <4>2, ShapeKept DEF BlockOK, Holding, Entry
    <3>2. CASE ~(pass[b] < shape.passes)
      <4>1. pc'[b] = "done" /\ pass'[b] = shape.passes
        BY <1>1, <1>2, <1>4, <2>1, <3>2
      <4> QED
        BY <1>1, <4>1, ShapeKept DEF BlockOK, Holding
    <3> QED
      BY <3>1, <3>2
  <2>2. CASE b \notin bs
    BY <1>1, <2>2, BlockKept DEF SumInv
  <2> QED
    BY <2>1, <2>2
<1>7. ASSUME NEW n \in Cols, NEW b \in Blocks, Shares(b, n) PROVE Count(b, n)' = Count(b, n)
  <2>1. CASE b \in bs
    <3>1. Count(b, n) = pass[b]
      BY <2>1 DEF Count
    <3>2. CASE pass[b] < shape.passes
      <4>1. pc'[b] = "multiplies" /\ pass'[b] = pass[b] + 1 /\ col'[b] = FirstCol(b) /\ ~(n < FirstCol(b))
        BY <1>1, <1>3, <1>7, <2>1, <3>2 DEF Entry, Shares
      <4> QED
        BY <1>4, <3>1, <4>1 DEF Count
    <3>3. CASE ~(pass[b] < shape.passes)
      <4>1. pc'[b] = "done" /\ pass'[b] = pass[b]
        BY <1>1, <2>1, <3>3
      <4> QED
        BY <3>1, <4>1 DEF Count
    <3> QED
      BY <3>2, <3>3
  <2>2. CASE b \notin bs
    <3>1. pc'[b] = pc[b] /\ pass'[b] = pass[b] /\ col'[b] = col[b]
      BY <1>1, <2>2
    <3> QED
      BY <3>1 DEF Count
  <2> QED
    BY <2>1, <2>2
<1>8. \A b \in Blocks : pc[b] = "releases" => pc'[b] = "releases" /\ col'[b] = col[b]
  BY <1>1
<1>9. ASSUME NEW n \in Cols, NEW r \in 0..shape.passes, ColumnOK(n, r) PROVE ColumnOK(n, r)'
  BY <1>1, <1>7, <1>8, <1>9, ColumnKept
<1> QED
  BY <1>1, <1>5, <1>6, <1>9, ShapeKept DEF SumInv

LEMMA SumsKeep ==
  ASSUME SumInv, [SplitKNext]_splitk
  PROVE  SumInv'
<1>1. CASE GridSync
  <2>1. (\A b \in Blocks : pc[b] = "leaves") /\ NextPass(Blocks)
    BY <1>1 DEF GridSync
  <2> QED
    BY <2>1, SumPasses
<1>2. ASSUME NEW b \in Blocks, BlockStep(b) PROVE SumInv'
  <2>1. CASE Leave(b)
    <3>1. pc[b] = "leaves" /\ NextPass({b})
      BY <2>1 DEF Leave
    <3>2. {b} \in SUBSET Blocks
      OBVIOUS
    <3> QED
      BY <3>1, <3>2, SumPasses
  <2> QED
    BY <1>2, <2>1, SumAcquires, SumReads, SumWrites, SumReleases DEF BlockStep
<1>3. CASE UNCHANGED splitk
  <2>1. UNCHANGED <<shape, pc, pass, col, frag, locks, out>>
    BY <1>3 DEF splitk
  <2>2. SumTypes'
    BY <2>1, ShapeKept DEF SumInv, SumTypes
  <2>3. \A b \in Blocks : BlockOK(b)'
    BY <2>1, BlockKept DEF SumInv
  <2>4. ASSUME NEW n \in Cols, NEW r \in 0..shape.passes, ColumnOK(n, r) PROVE ColumnOK(n, r)'
    <3>1. \A b \in Blocks : Count(b, n)' = Count(b, n)
      BY <2>1 DEF Count
    <3> QED
      BY <2>1, <2>4, <3>1, ColumnKept
  <2> QED
    BY <2>1, <2>2, <2>3, <2>4, ShapeKept DEF SumInv
<1> QED
  BY <1>1, <1>2, <1>3 DEF SplitKNext

LEMMA SumsSound ==
  ASSUME SumInv
  PROVE  SumsInOneOrder
<1> SUFFICES ASSUME ProductEnded
             PROVE  /\ \A p \in 1..shape.passes, n \in Cols : Complete(n, out[p][n])
                    /\ \A n \in Cols : locks[n] = 0
  BY DEF SumsInOneOrder, SumInv, SumTypes, Cols
<1>1. Sound /\ SumTypes /\ shape.passes \in Nat \ {0} /\ shape.k \in Nat \ {0}
  BY ShapeTyped DEF SumInv, SumTypes, Sound
<1>2. \A b \in Blocks, n \in Cols : Count(b, n) = shape.passes
  BY DEF ProductEnded, SumInv, BlockOK, Count
<1>3. ASSUME NEW n \in Cols
      PROVE  (\A p \in 1..shape.passes : Complete(n, out[p][n])) /\ locks[n] = 0
  <2>1. PICK r \in 0..shape.passes : ColumnOK(n, r)
    BY DEF SumInv
  <2>2. PICK b \in Blocks : Shares(b, n) /\ Upto(b, n) = shape.k
    BY <1>1, OneLast
  <2>3. locks[n] \in Nat /\ locks[n] < shape.k
    BY <1>1, <2>1 DEF SumTypes, ColumnOK
  <2>4. ~(Upto(b, n) <= locks[n])
    BY <1>1, <2>2, <2>3
  <2>5. r = shape.passes
    BY <1>2, <2>1, <2>2, <2>4 DEF ColumnOK
  <2>6. ASSUME locks[n] > 0 PROVE FALSE
    <3>1. PICK c \in Blocks : Shares(c, n) /\ Upto(c, n) = locks[n]
      BY <2>1, <2>6 DEF ColumnOK
    <3>2. Count(c, n) = r + 1
      BY <2>1, <2>3, <3>1 DEF ColumnOK
    <3> QED
      BY <1>1, <1>2, <2>5, <3>2
  <2> QED
    BY <2>1, <2>3, <2>5, <2>6 DEF ColumnOK
<1> QED
  BY <1>3

-----------------------------------------------------------------------------
(* The room of a call, for every --chunk, --cap and HELIOS_IDX_BLOCK.        *)

RoomTypeOK ==
  /\ max_rows \in Nat \ {0} /\ cap \in Nat /\ idx_block \in Nat /\ pos \in 0..cap

RoomInv == RoomTypeOK /\ Work!CallsFit

\* Of two factors neither of which is larger.
LEMMA ProductMonotone ==
  ASSUME NEW a \in Nat, NEW b \in Nat, NEW c \in Nat, NEW d \in Nat, a <= b, c <= d
  PROVE  a * c <= b * d
<1>1. b - a \in Nat /\ d - c \in Nat
  OBVIOUS
<1>2. (b - a) * c >= 0 /\ b * (d - c) >= 0
  BY <1>1
<1>3. (b - a) * c = b * c - a * c /\ b * (d - c) = b * d - b * c
  OBVIOUS
<1> QED
  BY <1>2, <1>3

\* runner.cpp:594: the pools that are scored, the last of them begun, are never
\* more than the columns of the room for scores.
LEMMA PoolsFit ==
  ASSUME NEW n \in Nat, NEW c \in Nat, n <= c
  PROVE  Work!NPools(n) \in Nat /\ Work!NPools(n) <= c \div Work!POOL + 2 /\ n \div Work!POOL <= c \div Work!POOL
BY DEF Work!NPools, Work!POOL

\* A call of no more rows than there is room for fits each buffer.
LEMMA ExtentsFit ==
  ASSUME RoomTypeOK, NEW n \in Nat, NEW from \in Nat,
         n <= max_rows, from + n <= cap
  PROVE  \A b \in DOMAIN Work!Room : Work!Extents(n, from)[b] <= Work!Room[b]
<1> DEFINE e == Work!Extents(n, from)
<1>1. e.qkv <= Work!Room.qkv /\ e.a_had <= Work!Room.a_had /\ e.mlp <= Work!Room.mlp
  BY DEF Work!Extents, Work!Room, RoomTypeOK, Work!Qkv, Work!AHad, Work!Dense
<1>2. e.topk_idx <= Work!Room.topk_idx /\ e.raw_idx <= Work!Room.raw_idx /\ e.sorted <= Work!Room.sorted
  BY DEF Work!Extents, Work!Room, RoomTypeOK, Work!TopPools, Work!POOL, Work!OwnExperts
<1>3. e.ckv <= Work!Room.ckv /\ e.streams <= Work!Room.streams
  BY DEF Work!Extents, Work!Room, RoomTypeOK, Work!Latent, Work!Hidden
<1>4. e.scores <= Work!Room.scores
  <2>1. Work!LeastOf(n, idx_block) \in Nat /\ Work!LeastOf(n, idx_block) <= idx_block
    BY DEF Work!LeastOf, RoomTypeOK
  <2>2. /\ Work!NPools(from + n) \in Nat /\ Work!NPools(from + n) <= cap \div Work!POOL + 2
        /\ cap \div Work!POOL + 2 \in Nat
    BY PoolsFit DEF RoomTypeOK, Work!POOL
  <2>3. Work!LeastOf(n, idx_block) * Work!NPools(from + n) <= idx_block * (cap \div Work!POOL + 2)
    BY <2>1, <2>2, ProductMonotone DEF RoomTypeOK
  <2> QED
    BY <2>3 DEF Work!Extents, Work!Room
<1>5. e.pool_k <= Work!Room.pool_k
  BY PoolsFit DEF Work!Extents, Work!Room, RoomTypeOK
<1>6. e.moe_state <= Work!Room.moe_state
  <2> DEFINE w == max_rows * Work!Hidden
  <2>1. w \in Nat /\ n * Work!Hidden \in Nat /\ n * Work!Hidden <= w
    BY DEF RoomTypeOK, Work!Hidden
  <2>2. Groups * w = (Groups - 1) * w + w /\ (Groups - 1) * w \in Nat
    BY <2>1, RoomAssumption
  <2> QED
    BY <2>1, <2>2 DEF Work!Extents, Work!Room
<1>7. DOMAIN Work!Room = {"qkv", "a_had", "mlp", "scores", "topk_idx", "raw_idx", "ckv", "pool_k",
                     "sorted", "moe_state", "streams"}
  BY DEF Work!Room
<1> HIDE DEF e
<1> QED
  BY <1>1, <1>2, <1>3, <1>4, <1>5, <1>6, <1>7 DEF e

LEMMA NoCallFits ==
  ASSUME RoomTypeOK
  PROVE  \A b \in DOMAIN Work!Room : Work!NoCall[b] <= Work!Room[b]
<1>1. 0 <= idx_block * (cap \div Work!POOL + 2)
  <2>1. cap \div Work!POOL + 2 \in Nat
    BY DEF RoomTypeOK, Work!POOL
  <2> QED
    BY <2>1 DEF RoomTypeOK
<1>2. 0 <= Groups * (max_rows * Work!Hidden)
  <2>1. max_rows * Work!Hidden \in Nat
    BY DEF RoomTypeOK, Work!Hidden
  <2> QED
    BY <2>1, RoomAssumption
<1> QED
  BY <1>1, <1>2 DEF Work!NoCall, Work!Room, RoomTypeOK, Work!POOL, Work!Latent, Work!Hidden

LEMMA RoomBegins ==
  ASSUME Work!RoomInit
  PROVE  RoomInv
<1>1. RoomTypeOK
  BY RoomAssumption DEF Work!RoomInit, RoomTypeOK, Work!LeastOf, Work!MostOf
<1> QED
  BY <1>1, NoCallFits DEF Work!RoomInit, RoomInv, Work!CallsFit

LEMMA RoomKeeps ==
  ASSUME RoomInv, [Work!RoomNext]_room
  PROVE  RoomInv'
<1>1. ASSUME NEW n \in 1..max_rows, Work!RunChunk(n) PROVE RoomInv'
  <2> DEFINE c == Work!Clamped(n)
  <2>1. c \in Nat /\ c <= max_rows /\ pos + c <= cap /\ pos \in Nat
    BY <1>1 DEF Work!Clamped, Work!RunChunk, RoomInv, RoomTypeOK
  <2>2. RoomTypeOK' /\ Work!Room' = Work!Room /\ extent' = Work!Extents(c, pos)
    BY <1>1, <2>1 DEF Work!RunChunk, RoomInv, RoomTypeOK, Work!Room
  <2>3. \A b \in DOMAIN Work!Room : Work!Extents(c, pos)[b] <= Work!Room[b]
    BY <2>1, ExtentsFit DEF RoomInv
  <2> QED
    BY <2>2, <2>3 DEF RoomInv, Work!CallsFit
<1>2. ASSUME NEW from \in 0..(pos - 1), Work!Resume(from) PROVE RoomInv'
  <2>1. RoomTypeOK' /\ Work!Room' = Work!Room /\ extent' = Work!NoCall
    BY <1>2 DEF Work!Resume, RoomInv, RoomTypeOK, Work!Room
  <2> QED
    BY <2>1, NoCallFits DEF RoomInv, Work!CallsFit
<1>3. CASE UNCHANGED room
  BY <1>3 DEF room, RoomInv, RoomTypeOK, Work!CallsFit, Work!Room
<1> QED
  BY <1>1, <1>2, <1>3 DEF Work!RoomNext

-----------------------------------------------------------------------------
(* All of them.                                                            *)

KernelInv == Moe!MoeInv /\ Moe!ExpertsInv /\ WayInv /\ SumInv /\ RoomInv

LEMMA KernelsBegin ==
  ASSUME KernelsInit
  PROVE  KernelInv
<1>1. Moe!MoeInit /\ Way!ForwardInit /\ SplitKInit /\ Work!RoomInit
  BY DEF KernelsInit
<1>2. Moe!MoeInv /\ Moe!ExpertsInv
  BY <1>1, MoeAssumption, Moe!MoeBegins, Moe!ExpertsBegin
<1> QED
  BY <1>1, <1>2, WayBegins, SumsBegin, RoomBegins DEF KernelInv

\* One kernel moves, and the memory of the others is not its own.
LEMMA KernelsKeep ==
  ASSUME KernelInv, [KernelsNext]_kernels
  PROVE  KernelInv'
<1>1. [Moe!MoeNext]_moe
  BY DEF KernelsNext, kernels, within, Gemm, Routes, Experts, Recurs, Attends, Mixes, Fills, Passes, Works,
     Multiplies, Decodes, Rotates, Scales
<1>2. [Way!ForwardNext]_forward
  BY DEF KernelsNext, kernels, around, Gemm, Routes, Experts, Recurs, Attends, Mixes, Fills, Passes, Works,
     Multiplies, Decodes, Rotates, Scales
<1>3. [SplitKNext]_splitk
  BY DEF KernelsNext, kernels, within, Gemm, Routes, Experts, Recurs, Attends, Mixes, Fills, Passes, Works,
     Multiplies, Decodes, Rotates, Scales
<1>4. [Work!RoomNext]_room
  BY DEF KernelsNext, kernels, around, Gemm, Routes, Experts, Recurs, Attends, Mixes, Fills, Passes, Works,
     Multiplies, Decodes, Rotates, Scales
<1>5. [Moe!MoeNext]_(Moe!moe)
  BY <1>1 DEF moe, Moe!moe, Moe!sorting, Moe!sched, Moe!barrier
<1>6. Moe!MoeInv' /\ Moe!ExpertsInv'
  BY <1>5, MoeAssumption, Moe!MoeKeeps, Moe!ExpertsKeep DEF KernelInv
<1> QED
  BY <1>2, <1>3, <1>4, <1>6, WayKeeps, SumsKeep, RoomKeeps DEF KernelInv

\* A block of a group of experts that works on a phase finds nobody of its group
\* behind it, and an operation on a stream finds in its buffers what was made for
\* it, whatever the groups, their tickets and their barriers do (exl3_moe_kernel.cuh)
\* and however far the host runs ahead of the streams it launches on (runner.cpp).
THEOREM WaitsForWhatItNeeds == KernelsSpec => []NothingRunsAhead
<1>1. KernelsInit => KernelInv
  BY KernelsBegin
<1>2. KernelInv /\ [KernelsNext]_kernels => KernelInv'
  BY KernelsKeep
<1>3. KernelInv => NothingRunsAhead
  BY Moe!MoeSound, WaySound DEF KernelInv, NothingRunsAhead
<1> QED
  BY <1>1, <1>2, <1>3, PTL DEF KernelsSpec

\* The sums of SumsInFixedOrder that blocks and groups race for.  Whatever thread
\* blocks do to each other, and whether or not a barrier of the grid divides the
\* passes, a product that has ended holds in every column the sum of all its tiles
\* in the one order its shape gives, and its locks are free again for the next
\* launch (exl3_gemm_inner.cuh): for every shape and number of blocks.
THEOREM OneOrderOfSums == KernelsSpec => []SumsInOneOrder
<1>1. KernelsInit => KernelInv
  BY KernelsBegin
<1>2. KernelInv /\ [KernelsNext]_kernels => KernelInv'
  BY KernelsKeep
<1>3. KernelInv => SumsInOneOrder
  BY SumsSound DEF KernelInv
<1> QED
  BY <1>1, <1>2, <1>3, PTL DEF KernelsSpec

\* A launch of the experts that has ended has given every token the contributions
\* of its own experts to this launch, each computed for it, in the order of its
\* routing, whichever order the cursors sorted its routes in, whichever groups drew
\* which experts, and in every launch that reuses the scheduler and the barriers
\* (exl3_moe_kernel.cuh, moe_permute and moe_reduce_sorted in glue2.cu).
THEOREM EveryTokenItsExperts == KernelsSpec => []Moe!SumsInRoutingOrder
<1>1. KernelsInit => KernelInv
  BY KernelsBegin
<1>2. KernelInv /\ [KernelsNext]_kernels => KernelInv'
  BY KernelsKeep
<1>3. KernelInv => Moe!SumsInRoutingOrder
  BY Moe!ExpertsSound DEF KernelInv
<1> QED
  BY <1>1, <1>2, <1>3, PTL DEF KernelsSpec

\* No call touches more than there is room for (Runner::init and run_chunk), with
\* every chunk, every context and every block of the index, whatever calls and
\* resumptions came before.
THEOREM RoomSafe == KernelsSpec => []Work!CallsFit
<1>1. KernelsInit => KernelInv
  BY KernelsBegin
<1>2. KernelInv /\ [KernelsNext]_kernels => KernelInv'
  BY KernelsKeep
<1>3. KernelInv => Work!CallsFit
  BY DEF KernelInv, RoomInv
<1> QED
  BY <1>1, <1>2, <1>3, PTL DEF KernelsSpec
=============================================================================
