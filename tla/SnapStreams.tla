----------------------------- MODULE SnapStreams ----------------------------
(***************************************************************************)
(* How snapshots of the recurrent (KDA) state really move                  *)
(* (Runner::snap_capture, snap_restore, reset in src/engine/runner.cpp):   *)
(* the host only queues copies on two CUDA streams and goes on.  PrefixCache *)
(* takes capture and restore as one step; this module shows that they may  *)
(* be.                                                                     *)
(*                                                                         *)
(* A stream is the sequence of its unfinished commands; each command moves *)
(* one part (one layer's state), so copies and kernels interleave part by  *)
(* part.  The contents of a state are an identity.                         *)
(***************************************************************************)
EXTENDS Integers, Sequences, FiniteSets, FiniteSetTheorems, SequenceTheorems, TLAPS

CONSTANTS
  NParts,     \* KDA layers
  NSnaps,     \* snapshot slots
  MaxQueue,   \* bound: unfinished commands on a stream when the host adds more
  MaxId       \* bound: identities of states that may be in use at once

Parts == 1..NParts
Slots == 0..(NSnaps - 1)
Ids   == 0..MaxId         \* 0 is the zeroed state

Garbage == -1             \* a state no prefix of tokens leads to
Empty   == -1             \* belief about a slot that holds nothing

VARIABLES
  state,      \* the host's view: the state the next kernel will consume
  saved,      \* the host's view of each slot: the state captured, or Empty
  next,       \* snap_next_
  waiting,    \* the host is inside cudaStreamSynchronize of the compute stream
  compute,    \* commands on the compute stream
  copy,       \* commands on the snapshot stream, gpu0 stream 3
  kda,        \* part -> contents of the device state
  stage,      \* part -> contents of the staging buffer
  pinned      \* slot -> part -> contents of the pinned buffers

believed == <<state, saved, next, waiting>>
memory   == <<kda, stage, pinned>>
vars     == <<believed, compute, copy, memory>>

-----------------------------------------------------------------------------
(* Commands.                                                               *)

\* One command per part, in the order of the layers.
Run(from, to) == [p \in 1..NParts |-> [op |-> "run", part |-> p, from |-> from, to |-> to]]
Zero          == [p \in 1..NParts |-> [op |-> "zero", part |-> p]]
Save          == [p \in 1..NParts |-> [op |-> "save", part |-> p]]
Load(s)       == [p \in 1..NParts |-> [op |-> "load", part |-> p, slot |-> s]]
Store(s)      == [p \in 1..NParts |-> [op |-> "store", part |-> p, slot |-> s]]

Staged == <<[op |-> "staged"]>>     \* cudaEventRecord(snap_ev_)
Copied == <<[op |-> "copied"]>>     \* cudaEventRecord(snap_ev2_)

Wait(n) == [op |-> "wait", records |-> n]

Pending(queue, op) == {i \in DOMAIN queue : queue[i].op = op}

\* Mutant: the copy to the host does not wait for the staging copy.
NoWait(queue) == <<>>

\* cudaStreamWaitEvent(s3, snap_ev_): the records queued so far must be done.
WaitStaged(queue) == <<Wait(Cardinality(Pending(queue, "staged")))>>

Room == ~waiting /\ Len(compute) <= MaxQueue /\ Len(copy) <= MaxQueue

\* Mutant: the host never waits for the copy to the host.
NeverDrained == TRUE

\* snap_drain(): the host waits for snap_ev2_.
Drained == Pending(copy, "copied") = {}

Init ==
  /\ state = 0 /\ saved = [s \in Slots |-> Empty] /\ next = 0
  /\ waiting = FALSE /\ compute = <<>> /\ copy = <<>>
  /\ kda = [p \in Parts |-> 0] /\ stage = [p \in Parts |-> 0]
  /\ pinned = [s \in Slots |-> [p \in Parts |-> 0]]

-----------------------------------------------------------------------------
(* The host.                                                               *)

InUse ==
  {state} \union {saved[s] : s \in Slots}
    \union {kda[p] : p \in Parts} \union {stage[p] : p \in Parts}
    \union {pinned[s][p] : s \in Slots, p \in Parts}
    \union {compute[i].to : i \in Pending(compute, "run")}

\* Whatever is resumed, the states captured past it are discarded.
Keeps(s) ==
  saved' \in {f \in [Slots -> Ids \union {Empty}] :
                \A t \in Slots : f[t] = saved[t] \/ (f[t] = Empty /\ t # s)}

\* A chunk is run: every KDA layer turns the state into a new one.
Forward ==
  /\ Room
  /\ \E id \in Ids \ InUse :
       /\ \A other \in Ids \ InUse : id <= other
       /\ state' = id
       /\ compute' = compute \o Run(state, id)
  /\ UNCHANGED <<saved, next, waiting, copy, memory>>

\* Mutant: the ring index never wraps.
UnwrappedSlot == next + 1

\* The slot after the one just captured into.
NextSlot == (next + 1) % NSnaps

\* snap_capture().
Capture ==
  /\ NSnaps > 0 /\ Room /\ Drained
  /\ compute' = compute \o Save \o Staged
  /\ copy' = copy \o WaitStaged(compute') \o Store(next) \o Copied
  /\ saved' = [saved EXCEPT ![next] = state]
  /\ next' = NextSlot
  /\ UNCHANGED <<state, waiting, memory>>

\* Mutant: a slot is read without waiting for the copy into it.
UndrainedLoad(s) == Room

\* snap_restore() may start reading slot s.
MayLoad(s) == Room /\ Drained

\* snap_restore() of a slot that prefix_plan chose.
Restore(s) ==
  /\ saved[s] # Empty /\ MayLoad(s)
  /\ compute' = compute \o Load(s)
  /\ state' = saved[s]
  /\ Keeps(s)
  /\ UNCHANGED <<next, waiting, copy, memory>>

\* reset(): the states are zeroed, and the host waits until they are.
Reset ==
  /\ Room /\ Drained
  /\ compute' = compute \o Zero /\ waiting' = TRUE
  /\ state' = 0 /\ saved' = [s \in Slots |-> Empty] /\ next' = 0
  /\ UNCHANGED <<copy, memory>>

ResetDone ==
  /\ waiting /\ compute = <<>>
  /\ waiting' = FALSE
  /\ UNCHANGED <<state, saved, next, compute, copy, memory>>

Host == Forward \/ Capture \/ (\E s \in Slots : Restore(s)) \/ Reset \/ ResetDone

-----------------------------------------------------------------------------
(* The device.                                                             *)

\* What the head of the compute stream does to the device state.
NewPart(c) ==
  CASE c.op = "run"  -> IF kda[c.part] = c.from THEN c.to ELSE Garbage
    [] c.op = "load" -> pinned[c.slot][c.part]
    [] OTHER         -> 0

ComputeKernel ==
  /\ compute # <<>> /\ Head(compute).op \in {"run", "zero", "load"}
  /\ kda' = [kda EXCEPT ![Head(compute).part] = NewPart(Head(compute))]
  /\ compute' = Tail(compute)
  /\ UNCHANGED <<believed, copy, stage, pinned>>

ComputeSave ==
  /\ compute # <<>> /\ Head(compute).op = "save"
  /\ stage' = [stage EXCEPT ![Head(compute).part] = kda[Head(compute).part]]
  /\ compute' = Tail(compute)
  /\ UNCHANGED <<believed, copy, kda, pinned>>

\* A record completes; waits for it have one record less to wait for.
ComputeStaged ==
  /\ compute # <<>> /\ Head(compute).op = "staged"
  /\ copy' = [i \in DOMAIN copy |->
                IF copy[i].op = "wait" /\ copy[i].records > 0
                THEN Wait(copy[i].records - 1) ELSE copy[i]]
  /\ compute' = Tail(compute)
  /\ UNCHANGED <<believed, memory>>

CopyStore ==
  /\ copy # <<>> /\ Head(copy).op = "store"
  /\ pinned' = [pinned EXCEPT ![Head(copy).slot][Head(copy).part] = stage[Head(copy).part]]
  /\ copy' = Tail(copy)
  /\ UNCHANGED <<believed, compute, kda, stage>>

CopyEvent ==
  /\ copy # <<>>
  /\ Head(copy).op = "copied" \/ (Head(copy).op = "wait" /\ Head(copy).records = 0)
  /\ copy' = Tail(copy)
  /\ UNCHANGED <<believed, compute, memory>>

Compute == ComputeKernel \/ ComputeSave \/ ComputeStaged
Copy    == CopyStore \/ CopyEvent

Next == Host \/ Compute \/ Copy

Spec == Init /\ [][Next]_vars

-----------------------------------------------------------------------------
(* Properties.                                                             *)

\* Type invariant.
TypeOK ==
  /\ state \in Ids /\ saved \in [Slots -> Ids \union {Empty}] /\ (NSnaps > 0 => next \in Slots)
  /\ waiting \in BOOLEAN
  /\ kda \in [Parts -> Ids \union {Garbage}]
  /\ stage \in [Parts -> Ids \union {Garbage}]
  /\ pinned \in [Slots -> [Parts -> Ids \union {Garbage}]]
  /\ Len(compute) <= MaxQueue + NParts + 1
  /\ Len(copy) <= MaxQueue + NParts + 2

\* The comment of snap_restore, "the restored bytes are exactly what a fresh
\* forward over the same prefix would leave": no kernel ever consumes a state
\* that a capture, a restore or a reset under way has only partly moved.
KernelsConsumeWholeStates ==
  [][\A p \in Parts : kda'[p] # Garbage]_kda

\* Once the compute stream has nothing left, the device state is the one the
\* host believes in, and so is each slot once its copy is done.
SettledAsBelieved ==
  /\ compute = <<>> => \A p \in Parts : kda[p] = state
  /\ compute = <<>> /\ copy = <<>> =>
       \A s \in Slots : saved[s] # Empty => \A p \in Parts : pinned[s][p] = saved[s]

\* runner.hpp:114 "host copy done (the staging buffer is free again)": once the
\* staging copy is done, no part of it is overwritten before it is in its slot.
StageKeptUntilStored ==
  [][\A i \in DOMAIN copy :
       (/\ copy[i].op = "store"
        /\ \A j \in 1..i : copy[j].op = "wait" => copy[j].records = 0)
       => stage'[copy[i].part] = stage[copy[i].part]]_vars

-----------------------------------------------------------------------------
(* Why they hold, for every number of layers and slots.                    *)

StreamAssumed == NParts \in Nat \ {0} /\ NSnaps \in Nat /\ MaxId \in Nat

All(id) == [p \in Parts |-> id]

Commands ==
  [op : {"run"}, part : Parts, from : Ids, to : Ids] \union [op : {"zero", "save"}, part : Parts]
    \union [op : {"load"}, part : Parts, slot : Slots] \union [op : {"staged"}]

CopyCommands ==
  [op : {"wait"}, records : Nat] \union [op : {"store"}, part : Parts, slot : Slots]
    \union [op : {"copied"}]

\* Command c turns the contents was into now, where the slots hold host.
Goes(c, was, now, host) ==
  \/ c.op = "run" /\ was[c.part] = c.from /\ now = [was EXCEPT ![c.part] = c.to]
  \/ c.op = "zero" /\ now = [was EXCEPT ![c.part] = 0]
  \/ c.op = "load" /\ now = [was EXCEPT ![c.part] = host[c.slot][c.part]]
  \/ c.op \in {"save", "staged"} /\ now = was

\* The queue turns the contents f[1] into f[2] and so on: a kernel will find
\* in each part what it was given to consume.
IsTrace(f, queue, first, last, host) ==
  /\ f \in [1..(Len(queue) + 1) -> [Parts -> Ids]]
  /\ f[1] = first /\ f[Len(queue) + 1] = last
  /\ \A i \in 1..Len(queue) : Goes(queue[i], f[i], f[i + 1], host)

\* How one sequence of contents is related to another.
AlikeUpTo(n, f, g)       == \A i \in 1..n : g[i] = f[i]
ShiftedUpTo(n, f, g)     == \A i \in 1..n : g[i] = f[i + 1]
Resting(from, to, id, g) == \A i \in from..to : g[i] = id

\* A block of commands, one to a part, that turns contents old into new.
Turns(block, old, new, host) ==
  \A p \in Parts :
    /\ block[p].part = p
    /\ \/ block[p].op = "run" /\ block[p].from = old /\ block[p].to = new
       \/ block[p].op = "zero" /\ new = 0
       \/ block[p].op = "load" /\ host[block[p].slot][p] = new

\* What a capture into slot t has the snapshot stream do once it need not wait.
Order(t) ==
  [i \in 1..(NParts + 2) |->
     IF i = 1 THEN Wait(0)
     ELSE IF i = NParts + 2 THEN [op |-> "copied"]
     ELSE [op |-> "store", part |-> i - 1, slot |-> t]]

Moves == {"run", "zero", "load"}

\* No capture is under way.
Quiet == copy = <<>> /\ \A i \in DOMAIN compute : compute[i].op \in Moves

\* The copy into the staging buffer is done when command at is, and nothing but
\* kernels has been queued since; what is yet to be saved is what was captured.
Staging(f, t, at) ==
  /\ Len(copy) = NParts + 2 /\ copy[1] = Wait(1)
  /\ \A i \in 2..(NParts + 2) : copy[i] = Order(t)[i]
  /\ at \in DOMAIN compute /\ compute[at].op = "staged"
  /\ \A i \in DOMAIN compute :
       /\ i > at => compute[i].op = "run"
       /\ i < at - NParts => compute[i].op \in Moves
       /\ i < at /\ i >= at - NParts => compute[i].op = "save" /\ compute[i].part = i + NParts + 1 - at
       /\ i <= at /\ i >= at - NParts => f[i] = All(saved[t])
  /\ \A p \in Parts : p + at < NParts + 2 => stage[p] = saved[t]

\* The first n commands on the snapshot stream are done.
Storing(t, n) ==
  /\ Len(copy) = NParts + 2 - n /\ \A i \in DOMAIN copy : copy[i] = Order(t)[i + n]
  /\ \A i \in DOMAIN compute : compute[i].op = "run"
  /\ \A p \in Parts : stage[p] = saved[t] /\ (p < n => pinned[t][p] = saved[t])

\* The slots but those of S hold what was captured into them.
KeptBut(S) == \A s \in Slots \ S : saved[s] # Empty => pinned[s] = All(saved[s])

StreamTypes ==
  /\ state \in Ids /\ saved \in [Slots -> Ids \union {Empty}] /\ (NSnaps > 0 => next \in Slots)
  /\ compute \in Seq(Commands) /\ copy \in Seq(CopyCommands)
  /\ kda \in [Parts -> Ids] /\ stage \in [Parts -> Ids] /\ pinned \in [Slots -> [Parts -> Ids]]

Capturing(f) ==
  \/ Quiet /\ KeptBut({})
  \/ \E t \in Slots :
       /\ saved[t] # Empty /\ KeptBut({t})
       /\ (\E at \in Nat : Staging(f, t, at)) \/ (\E n \in 0..(NParts + 1) : Storing(t, n))

StreamInv ==
  StreamTypes /\ \E f : IsTrace(f, compute, kda, All(state), pinned) /\ Capturing(f)

\* What a command is.
LEMMA CommandFacts ==
  ASSUME NEW c \in Commands
  PROVE  /\ c.op \in Moves \union {"save", "staged"}
         /\ c.op # "staged" => c.part \in Parts
         /\ c.op = "run" => c.from \in Ids /\ c.to \in Ids
         /\ c.op = "load" => c.slot \in Slots
BY DEF Commands, Moves

\* Two queues in one.
LEMMA Joined ==
  ASSUME NEW S, NEW a \in Seq(S), NEW b \in Seq(S)
  PROVE  /\ a \o b \in Seq(S) /\ Len(a) \in Nat /\ Len(b) \in Nat /\ Len(a \o b) = Len(a) + Len(b)
         /\ \A i \in 1..Len(a) : (a \o b)[i] = a[i]
         /\ \A i \in (Len(a) + 1)..(Len(a) + Len(b)) : (a \o b)[i] = b[i - Len(a)]
OBVIOUS

\* A block that gives every part the same contents does so from the same ones.
LEMMA AppendTrace ==
  ASSUME StreamAssumed,
         NEW queue \in Seq(Commands), NEW block \in [1..NParts -> Commands], NEW first, NEW host,
         NEW old \in Ids, NEW new \in Ids, NEW f, IsTrace(f, queue, first, All(old), host),
         Turns(block, old, new, host)
  PROVE  \E g : /\ IsTrace(g, queue \o block, first, All(new), host)
                /\ AlikeUpTo(Len(queue) + 1, f, g)
<1> DEFINE n == Len(queue)
           g == [i \in 1..(n + NParts + 1) |->
                   IF i <= n + 1 THEN f[i] ELSE [p \in Parts |-> IF p < i - n THEN new ELSE old]]
<1>1. n \in Nat /\ NParts \in Nat \ {0} /\ Len(queue) = n
  BY DEF StreamAssumed
<1>2. /\ Len(queue \o block) = n + NParts
      /\ \A i \in 1..n : (queue \o block)[i] = queue[i]
      /\ \A i \in (n + 1)..(n + NParts) : (queue \o block)[i] = block[i - n]
  <2>1. block \in Seq(Commands) /\ Len(block) = NParts
    BY <1>1
  <2> HIDE DEF g, n
  <2>2. /\ Len(queue \o block) = Len(queue) + Len(block)
        /\ \A i \in 1..Len(queue) : (queue \o block)[i] = queue[i]
        /\ \A i \in (Len(queue) + 1)..(Len(queue) + Len(block)) :
              (queue \o block)[i] = block[i - Len(queue)]
    BY <2>1, Joined
  <2> QED
    BY <1>1, <2>1, <2>2
<1> HIDE DEF n
<1>3. /\ f \in [1..(n + 1) -> [Parts -> Ids]] /\ f[1] = first /\ f[n + 1] = All(old)
      /\ \A i \in 1..n : Goes(queue[i], f[i], f[i + 1], host)
  BY <1>1 DEF IsTrace
<1>4. g \in [1..(n + NParts + 1) -> [Parts -> Ids]]
  BY <1>1, <1>3
<1>5. g[1] = first /\ g[n + NParts + 1] = All(new)
  <2>1. \A p \in Parts : p < n + NParts + 1 - n
    BY <1>1 DEF Parts
  <2>2. g[n + NParts + 1] = [p \in Parts |-> IF p < n + NParts + 1 - n THEN new ELSE old]
    BY <1>1
  <2>3. g[n + NParts + 1] = All(new)
    BY <2>1, <2>2 DEF All
  <2> QED
    BY <1>1, <1>3, <2>3
<1>6. ASSUME NEW i \in 1..(n + NParts)
      PROVE  Goes((queue \o block)[i], g[i], g[i + 1], host)
  <2>1. CASE i <= n
    BY <1>1, <1>2, <1>3, <2>1
  <2>2. CASE i > n
    <3>1. PICK q \in Parts : q = i - n
      BY <1>1, <2>2 DEF Parts
    <3>2. g[i] = [p \in Parts |-> IF p < q THEN new ELSE old]
      <4>1. CASE i = n + 1
        <5>1. g[i] = All(old) /\ \A p \in Parts : ~(p < q)
          BY <1>1, <1>3, <3>1, <4>1 DEF Parts
        <5> QED
          BY <5>1 DEF All
      <4>2. CASE i > n + 1
        BY <1>1, <3>1, <4>2
      <4> QED
        BY <1>1, <2>2, <4>1, <4>2
    <3>3. g[i + 1] = [p \in Parts |-> IF p < q + 1 THEN new ELSE old]
      BY <1>1, <2>2, <3>1
    <3>4. (queue \o block)[i] = block[q]
      BY <1>1, <1>2, <2>2, <3>1
    <3> HIDE DEF g
    <3>5. g[i][q] = old
      BY <1>1, <3>2 DEF Parts
    <3>6. g[i + 1] = [g[i] EXCEPT ![q] = new]
      <4>1. \A p \in Parts : p < q + 1 <=> p < q \/ p = q
        BY <1>1 DEF Parts
      <4> QED
        BY <3>2, <3>3, <4>1
    <3> QED
      BY <3>4, <3>5, <3>6 DEF Goes, Turns
  <2> QED
    BY <1>1, <2>1, <2>2
<1>7. IsTrace(g, queue \o block, first, All(new), host)
  BY <1>1, <1>2, <1>4, <1>5, <1>6 DEF IsTrace
<1>8. AlikeUpTo(Len(queue) + 1, f, g)
  BY <1>1 DEF AlikeUpTo
<1> QED
  BY <1>1, <1>7, <1>8

\* Saving parts and recording events leaves them as they are.
LEMMA AppendStill ==
  ASSUME NEW queue \in Seq(Commands), NEW block \in Seq(Commands), NEW first, NEW host, NEW last,
         NEW f, IsTrace(f, queue, first, last, host),
         \A i \in 1..Len(block) : block[i].op \in {"save", "staged"}
  PROVE  \E g : /\ IsTrace(g, queue \o block, first, last, host)
                /\ Resting(Len(queue) + 1, Len(queue) + Len(block) + 1, last, g)
<1> DEFINE n == Len(queue)
           m == Len(block)
           g == [i \in 1..(n + m + 1) |-> IF i <= n + 1 THEN f[i] ELSE last]
<1>1. n \in Nat /\ m \in Nat /\ Len(queue) = n /\ Len(block) = m
  OBVIOUS
<1>2. /\ Len(queue \o block) = n + m
      /\ \A i \in 1..n : (queue \o block)[i] = queue[i]
      /\ \A i \in (n + 1)..(n + m) : (queue \o block)[i] = block[i - n]
  <2> HIDE DEF g
  <2> QED
    BY Joined
<1> HIDE DEF n, m
<1>3. /\ f \in [1..(n + 1) -> [Parts -> Ids]] /\ f[1] = first /\ f[n + 1] = last
      /\ \A i \in 1..n : Goes(queue[i], f[i], f[i + 1], host)
  BY <1>1 DEF IsTrace
<1>4. last \in [Parts -> Ids]
  BY <1>1, <1>3
<1>5. g \in [1..(n + m + 1) -> [Parts -> Ids]] /\ g[1] = first /\ g[n + m + 1] = last
  BY <1>1, <1>3, <1>4
<1>6. \A i \in (n + 1)..(n + m + 1) : g[i] = last
  BY <1>1, <1>3
<1>7. ASSUME NEW i \in 1..(n + m)
      PROVE  Goes((queue \o block)[i], g[i], g[i + 1], host)
  <2>1. CASE i <= n
    BY <1>1, <1>2, <1>3, <2>1
  <2>2. CASE i > n
    <3>1. g[i] = last /\ g[i + 1] = last
      <4> HIDE DEF g
      <4> QED
        BY <1>1, <1>6, <2>2
    <3>2. (queue \o block)[i].op \in {"save", "staged"}
      BY <1>1, <1>2, <2>2
    <3> QED
      BY <3>1, <3>2 DEF Goes
  <2> QED
    BY <1>1, <2>1, <2>2
<1>8. IsTrace(g, queue \o block, first, last, host)
  BY <1>1, <1>2, <1>5, <1>7 DEF IsTrace
<1> QED
  BY <1>1, <1>6, <1>8 DEF Resting

\* The head of the queue does its part.
LEMMA ShiftTrace ==
  ASSUME NEW queue \in Seq(Commands), queue # <<>>, NEW first, NEW host, NEW last,
         NEW f, IsTrace(f, queue, first, last, host)
  PROVE  /\ Goes(Head(queue), first, f[2], host)
         /\ \E g : /\ IsTrace(g, Tail(queue), f[2], last, host)
                   /\ ShiftedUpTo(Len(queue), f, g)
<1> DEFINE n == Len(queue)
           g == [i \in 1..n |-> f[i + 1]]
<1>1. n \in Nat \ {0} /\ Len(queue) = n /\ Head(queue) = queue[1]
      /\ Len(Tail(queue)) = n - 1 /\ \A i \in 1..(n - 1) : Tail(queue)[i] = queue[i + 1]
  OBVIOUS
<1> HIDE DEF n
<1>2. /\ f \in [1..(n + 1) -> [Parts -> Ids]] /\ f[1] = first /\ f[n + 1] = last
      /\ \A i \in 1..n : Goes(queue[i], f[i], f[i + 1], host)
  BY <1>1 DEF IsTrace
<1>3. g \in [1..n -> [Parts -> Ids]] /\ g[1] = f[2] /\ g[n] = last
  BY <1>1, <1>2
<1>4. \A i \in 1..(n - 1) : Goes(Tail(queue)[i], g[i], g[i + 1], host)
  BY <1>1, <1>2
<1>5. IsTrace(g, Tail(queue), f[2], last, host)
  BY <1>1, <1>3, <1>4 DEF IsTrace
<1>6. Goes(Head(queue), first, f[2], host)
  BY <1>1, <1>2
<1>7. ShiftedUpTo(Len(queue), f, g)
  BY <1>1 DEF ShiftedUpTo
<1> QED
  BY <1>5, <1>6, <1>7

\* Where nothing is read from the slots, it does not matter what they hold.
LEMMA HostTrace ==
  ASSUME NEW queue \in Seq(Commands), NEW first, NEW host, NEW other, NEW last,
         NEW f, IsTrace(f, queue, first, last, host),
         \A i \in DOMAIN queue : queue[i].op = "run"
  PROVE  IsTrace(f, queue, first, last, other)
<1>1. DOMAIN queue = 1..Len(queue)
  OBVIOUS
<1>2. \A i \in 1..Len(queue) : Goes(queue[i], f[i], f[i + 1], other)
  BY <1>1 DEF IsTrace, Goes
<1> QED
  BY <1>2 DEF IsTrace

\* What the host queues.
LEMMA Blocks ==
  ASSUME StreamAssumed
  PROVE  /\ \A a, b \in Ids : Run(a, b) \in [1..NParts -> Commands]
         /\ Zero \in [1..NParts -> Commands] /\ Save \in [1..NParts -> Commands]
         /\ \A s \in Slots : Load(s) \in [1..NParts -> Commands]
         /\ Save \o Staged \in Seq(Commands) /\ Len(Save \o Staged) = NParts + 1
         /\ \A i \in 1..NParts : (Save \o Staged)[i].op = "save" /\ (Save \o Staged)[i].part = i
         /\ (Save \o Staged)[NParts + 1].op = "staged"
<1>1. NParts \in Nat \ {0} /\ Parts = 1..NParts
  BY DEF StreamAssumed, Parts
<1>2. /\ \A a, b \in Ids : Run(a, b) \in [1..NParts -> Commands]
      /\ Zero \in [1..NParts -> Commands] /\ Save \in [1..NParts -> Commands]
      /\ \A s \in Slots : Load(s) \in [1..NParts -> Commands]
  BY <1>1 DEF Run, Zero, Save, Load, Commands
<1>3. Save \in Seq(Commands) /\ Len(Save) = NParts
  BY <1>1, <1>2 DEF Save
<1>4. Staged \in Seq(Commands) /\ Len(Staged) = 1 /\ Staged[1] = [op |-> "staged"]
  <2>1. [op |-> "staged"] \in Commands
    BY DEF Commands
  <2> QED
    BY <2>1 DEF Staged
<1>5. Save \o Staged \in Seq(Commands) /\ Len(Save \o Staged) = NParts + 1
      /\ \A i \in 1..NParts : (Save \o Staged)[i] = Save[i]
      /\ (Save \o Staged)[NParts + 1] = Staged[1]
  BY <1>1, <1>3, <1>4, Joined
<1>6. \A i \in 1..NParts : Save[i].op = "save" /\ Save[i].part = i
  BY DEF Save
<1> QED
  BY <1>1, <1>2, <1>4, <1>5, <1>6

LEMMA DrainedQuiet ==
  ASSUME StreamAssumed, StreamInv, Drained
  PROVE  \E f : IsTrace(f, compute, kda, All(state), pinned) /\ Quiet /\ KeptBut({})
<1>1. PICK f : IsTrace(f, compute, kda, All(state), pinned) /\ Capturing(f)
  BY DEF StreamInv
<1>2. NParts \in Nat \ {0} /\ copy \in Seq(CopyCommands)
  BY DEF StreamAssumed, StreamInv, StreamTypes
<1>3. \A i \in DOMAIN copy : copy[i].op # "copied"
  BY DEF Drained, Pending
<1>4. ASSUME NEW t \in Slots, NEW at \in Nat, Staging(f, t, at)
      PROVE  FALSE
  <2>1. Len(copy) = NParts + 2 /\ copy[NParts + 2] = Order(t)[NParts + 2]
    BY <1>2, <1>4 DEF Staging
  <2>2. NParts + 2 \in DOMAIN copy
    BY <1>2, <2>1
  <2>3. Order(t)[NParts + 2] = [op |-> "copied"]
    BY <1>2 DEF Order
  <2> QED
    BY <1>3, <2>1, <2>2, <2>3
<1>5. ASSUME NEW t \in Slots, NEW n \in 0..(NParts + 1), Storing(t, n)
      PROVE  FALSE
  <2>1. Len(copy) = NParts + 2 - n /\ NParts + 2 - n \in DOMAIN copy
    BY <1>2, <1>5 DEF Storing
  <2>2. copy[NParts + 2 - n] = Order(t)[NParts + 2]
    <3>1. \A i \in DOMAIN copy : copy[i] = Order(t)[i + n]
      BY <1>5 DEF Storing
    <3>2. NParts + 2 - n + n = NParts + 2
      BY <1>2
    <3> QED
      BY <2>1, <3>1, <3>2
  <2>3. Order(t)[NParts + 2] = [op |-> "copied"]
    BY <1>2 DEF Order
  <2> QED
    BY <1>3, <2>1, <2>2, <2>3
<1> QED
  BY <1>1, <1>4, <1>5 DEF Capturing

\* A block of kernels, or of loads or zeros while no capture is under way, leaves
\* the state it is to leave.
LEMMA BlockKeeps ==
  ASSUME StreamAssumed, StreamInv,
         NEW block \in [1..NParts -> Commands], NEW id \in Ids,
         Turns(block, state, id, pinned), \A p \in Parts : Drained \/ block[p].op = "run",
         compute' = compute \o block, state' = id, UNCHANGED <<copy, kda, stage, pinned>>,
         Drained \/ saved' = saved, \A s \in Slots : saved'[s] = saved[s] \/ saved'[s] = Empty
  PROVE  /\ compute' \in Seq(Commands)
         /\ \E f : IsTrace(f, compute', kda', All(state'), pinned') /\ Capturing(f)'
<1>1. /\ NParts \in Nat \ {0} /\ Parts = 1..NParts /\ state \in Ids
      /\ compute \in Seq(Commands) /\ block \in Seq(Commands) /\ Len(block) = NParts
      /\ copy' = copy /\ stage' = stage /\ pinned' = pinned /\ (Drained \/ saved' = saved)
  BY DEF StreamAssumed, StreamInv, StreamTypes, Parts
<1>2. PICK f : IsTrace(f, compute, kda, All(state), pinned) /\ Capturing(f)
  BY DEF StreamInv
<1>3. PICK g : /\ IsTrace(g, compute \o block, kda, All(id), pinned)
               /\ AlikeUpTo(Len(compute) + 1, f, g)
  <2>1. /\ StreamAssumed /\ compute \in Seq(Commands) /\ block \in [1..NParts -> Commands] /\ state \in Ids
        /\ id \in Ids /\ IsTrace(f, compute, kda, All(state), pinned) /\ Turns(block, state, id, pinned)
    BY <1>1, <1>2
  <2> QED
    BY <2>1, AppendTrace
<1>4. /\ compute' \in Seq(Commands) /\ Len(compute) \in Nat /\ Len(compute') = Len(compute) + NParts
      /\ \A i \in 1..Len(compute) : compute'[i] = compute[i]
      /\ \A i \in (Len(compute) + 1)..(Len(compute) + NParts) : compute'[i] = block[i - Len(compute)]
  <2>1. /\ compute \o block \in Seq(Commands) /\ Len(compute) \in Nat
        /\ Len(compute \o block) = Len(compute) + Len(block)
        /\ \A i \in 1..Len(compute) : (compute \o block)[i] = compute[i]
        /\ \A i \in (Len(compute) + 1)..(Len(compute) + Len(block)) :
              (compute \o block)[i] = block[i - Len(compute)]
    <3>1. compute \in Seq(Commands) /\ block \in Seq(Commands)
      BY <1>1
    <3> QED
      BY <3>1, Joined
  <2> QED
    BY <1>1, <2>1
<1>5. DOMAIN compute = 1..Len(compute) /\ DOMAIN compute' = 1..(Len(compute) + NParts)
  BY <1>1, <1>4
<1>6. ASSUME NEW i \in DOMAIN compute', i \notin DOMAIN compute
      PROVE  i > Len(compute) /\ compute'[i].op \in Moves /\ (~Drained => compute'[i].op = "run")
  <2>1. i - Len(compute) \in Parts /\ compute'[i] = block[i - Len(compute)] /\ i > Len(compute)
    BY <1>1, <1>4, <1>5, <1>6
  <2> QED
    BY <2>1 DEF Moves, Turns
<1>7. CASE Drained
  <2>1. Quiet /\ KeptBut({})
    BY <1>7, DrainedQuiet
  <2>2. Quiet'
    BY <1>1, <1>4, <1>5, <1>6, <2>1 DEF Quiet
  <2>3. KeptBut({})'
    BY <1>1, <2>1 DEF KeptBut
  <2> HIDE DEF Quiet, KeptBut
  <2> QED
    BY <1>1, <1>3, <1>4, <2>2, <2>3 DEF Capturing
<1>8. CASE ~Drained
  <2>1. \A i \in DOMAIN compute' :
          \/ i \in DOMAIN compute /\ compute'[i] = compute[i]
          \/ i > Len(compute) /\ compute'[i].op = "run"
    BY <1>4, <1>5, <1>6, <1>8
  <2>2. ASSUME NEW t \in Slots, NEW at \in Nat, Staging(f, t, at)
        PROVE  Staging(g, t, at)'
    <3>1. at \in DOMAIN compute /\ at <= Len(compute)
      BY <1>5, <2>2 DEF Staging
    <3>2. /\ at \in DOMAIN compute' /\ compute'[at].op = "staged"
          /\ \A i \in DOMAIN compute' :
               /\ i > at => compute'[i].op = "run"
               /\ i < at - NParts => compute'[i].op \in Moves
               /\ i < at /\ i >= at - NParts =>
                    compute'[i].op = "save" /\ compute'[i].part = i + NParts + 1 - at
               /\ i <= at /\ i >= at - NParts => g[i] = All(saved[t])
      <4>1. at \in DOMAIN compute' /\ compute'[at].op = "staged"
        BY <1>1, <1>4, <1>5, <2>2, <3>1 DEF Staging
      <4>2. ASSUME NEW i \in DOMAIN compute'
            PROVE  /\ i > at => compute'[i].op = "run"
                   /\ i < at - NParts => compute'[i].op \in Moves
                   /\ i < at /\ i >= at - NParts =>
                        compute'[i].op = "save" /\ compute'[i].part = i + NParts + 1 - at
                   /\ i <= at /\ i >= at - NParts => g[i] = All(saved[t])
        <5>1. CASE i \in DOMAIN compute /\ compute'[i] = compute[i]
          <6>1. g[i] = f[i]
            BY <1>3, <1>4, <1>5, <5>1 DEF AlikeUpTo
          <6> QED
            BY <2>2, <5>1, <6>1 DEF Staging
        <5>2. CASE i > Len(compute) /\ compute'[i].op = "run"
          BY <1>1, <1>4, <1>5, <3>1, <5>2
        <5> QED
          BY <2>1, <5>1, <5>2
      <4> QED
        BY <4>1, <4>2
    <3> QED
      BY <1>1, <1>8, <2>2, <3>2 DEF Staging
  <2>3. ASSUME NEW t \in Slots, NEW n \in 0..(NParts + 1), Storing(t, n)
        PROVE  Storing(t, n)'
    BY <1>1, <1>8, <2>1, <2>3 DEF Storing
  <2>4. ~Quiet
    BY <1>8 DEF Quiet, Drained, Pending
  <2>5. \A S : KeptBut(S) => KeptBut(S)'
    BY <1>1, <1>8 DEF KeptBut
  <2>6. Capturing(g)'
    BY <1>1, <1>2, <1>8, <2>2, <2>3, <2>4, <2>5 DEF Capturing
  <2> QED
    BY <1>1, <1>3, <1>4, <2>6
<1> QED
  BY <1>7, <1>8

LEMMA ForwardKeeps == ASSUME StreamAssumed, StreamInv, Forward PROVE StreamInv'
<1>1. PICK id \in Ids : state' = id /\ compute' = compute \o Run(state, id)
  BY DEF Forward
<1>2. UNCHANGED <<saved, next, copy, kda, stage, pinned>> /\ state \in Ids
  BY DEF Forward, memory, StreamInv, StreamTypes
<1>3. Run(state, id) \in [1..NParts -> Commands]
  BY <1>2, Blocks
<1>4. /\ Turns(Run(state, id), state, id, pinned)
      /\ \A p \in Parts : Drained \/ Run(state, id)[p].op = "run"
  BY DEF Turns, Run, Parts
<1>5. /\ compute' \in Seq(Commands)
      /\ \E f : IsTrace(f, compute', kda', All(state'), pinned') /\ Capturing(f)'
  BY <1>1, <1>2, <1>3, <1>4, BlockKeeps
<1> QED
  BY <1>1, <1>2, <1>5 DEF StreamInv, StreamTypes

LEMMA RestoreKeeps == ASSUME StreamAssumed, StreamInv, NEW s \in Slots, Restore(s) PROVE StreamInv'
<1>1. /\ saved[s] # Empty /\ Drained /\ compute' = compute \o Load(s) /\ state' = saved[s]
      /\ UNCHANGED <<next, copy, kda, stage, pinned>>
  BY DEF Restore, MayLoad, memory
<1>2. /\ saved \in [Slots -> Ids \union {Empty}] /\ saved' \in [Slots -> Ids \union {Empty}]
      /\ \A t \in Slots : saved'[t] = saved[t] \/ saved'[t] = Empty
  BY DEF Restore, Keeps, StreamInv, StreamTypes
<1>3. saved[s] \in Ids /\ pinned[s] = All(saved[s])
  BY <1>1, <1>2, DrainedQuiet DEF KeptBut
<1>4. Load(s) \in [1..NParts -> Commands]
  BY Blocks
<1>5. /\ Turns(Load(s), state, saved[s], pinned)
      /\ \A p \in Parts : Drained \/ Load(s)[p].op = "run"
  BY <1>1, <1>3 DEF Turns, Load, Parts, All
<1>6. PICK id \in Ids : id = saved[s]
  BY <1>3
<1>7. /\ compute' \in Seq(Commands)
      /\ \E f : IsTrace(f, compute', kda', All(state'), pinned') /\ Capturing(f)'
  BY <1>1, <1>2, <1>4, <1>5, <1>6, BlockKeeps
<1> QED
  BY <1>1, <1>2, <1>3, <1>7 DEF StreamInv, StreamTypes

LEMMA ResetKeeps == ASSUME StreamAssumed, StreamInv, Reset PROVE StreamInv'
<1>1. /\ Drained /\ compute' = compute \o Zero /\ state' = 0 /\ next' = 0
      /\ saved' = [s \in Slots |-> Empty] /\ UNCHANGED <<copy, kda, stage, pinned>>
  BY DEF Reset, memory
<1>2. /\ saved' \in [Slots -> Ids \union {Empty}] /\ \A t \in Slots : saved'[t] = saved[t] \/ saved'[t] = Empty
  BY <1>1
<1>3. Zero \in [1..NParts -> Commands] /\ 0 \in Ids /\ (NSnaps > 0 => 0 \in Slots)
  BY Blocks DEF Ids, Slots, StreamAssumed
<1>4. /\ Turns(Zero, state, 0, pinned)
      /\ \A p \in Parts : Drained \/ Zero[p].op = "run"
  BY <1>1 DEF Turns, Zero, Parts
<1>5. PICK id \in Ids : id = 0
  BY <1>3
<1>6. /\ compute' \in Seq(Commands)
      /\ \E f : IsTrace(f, compute', kda', All(state'), pinned') /\ Capturing(f)'
  BY <1>1, <1>2, <1>3, <1>4, <1>5, BlockKeeps
<1> QED
  BY <1>1, <1>2, <1>3, <1>6 DEF StreamInv, StreamTypes

\* What a capture queues on the snapshot stream.
LEMMA OrderQueued ==
  ASSUME StreamAssumed, NEW t \in Slots, NEW first \in Seq(CopyCommands), first = <<Wait(1)>>
  PROVE  LET queue == first \o Store(t) \o Copied
         IN  /\ queue \in Seq(CopyCommands) /\ Len(queue) = NParts + 2 /\ queue[1] = Wait(1)
             /\ \A i \in 2..(NParts + 2) : queue[i] = Order(t)[i]
<1>1. NParts \in Nat \ {0} /\ Len(first) = 1 /\ first[1] = Wait(1)
  BY DEF StreamAssumed
<1>2. /\ Store(t) \in Seq(CopyCommands) /\ Len(Store(t)) = NParts
      /\ \A i \in 1..NParts : Store(t)[i] = [op |-> "store", part |-> i, slot |-> t]
  BY <1>1 DEF Store, CopyCommands, Parts
<1>3. Copied \in Seq(CopyCommands) /\ Len(Copied) = 1 /\ Copied[1] = [op |-> "copied"]
  <2>1. [op |-> "copied"] \in CopyCommands
    BY DEF CopyCommands
  <2> QED
    BY <2>1 DEF Copied
<1>4. /\ first \o Store(t) \in Seq(CopyCommands) /\ Len(first \o Store(t)) = NParts + 1
      /\ (first \o Store(t))[1] = Wait(1)
      /\ \A i \in 2..(NParts + 1) : (first \o Store(t))[i] = Store(t)[i - 1]
  BY <1>1, <1>2, Joined
<1>5. /\ first \o Store(t) \o Copied \in Seq(CopyCommands) /\ Len(first \o Store(t) \o Copied) = NParts + 2
      /\ \A i \in 1..(NParts + 1) : (first \o Store(t) \o Copied)[i] = (first \o Store(t))[i]
      /\ (first \o Store(t) \o Copied)[NParts + 2] = Copied[1]
  <2> DEFINE begun == first \o Store(t)
  <2>1. begun \in Seq(CopyCommands) /\ Len(begun) = NParts + 1
    BY <1>4
  <2> HIDE DEF begun
  <2>2. /\ begun \o Copied \in Seq(CopyCommands) /\ Len(begun \o Copied) = Len(begun) + Len(Copied)
        /\ \A i \in 1..Len(begun) : (begun \o Copied)[i] = begun[i]
        /\ \A i \in (Len(begun) + 1)..(Len(begun) + Len(Copied)) :
             (begun \o Copied)[i] = Copied[i - Len(begun)]
    <3>1. \A a, b \in Seq(CopyCommands) :
            /\ a \o b \in Seq(CopyCommands) /\ Len(a \o b) = Len(a) + Len(b)
            /\ \A i \in 1..Len(a) : (a \o b)[i] = a[i]
            /\ \A i \in (Len(a) + 1)..(Len(a) + Len(b)) : (a \o b)[i] = b[i - Len(a)]
      OBVIOUS
    <3> QED
      BY <1>3, <2>1, <3>1, Zenon
  <2>3. /\ Len(begun \o Copied) = NParts + 2 /\ (begun \o Copied)[NParts + 2] = Copied[1]
        /\ \A i \in 1..(NParts + 1) : (begun \o Copied)[i] = begun[i]
    <3>1. Len(begun) + Len(Copied) = NParts + 2 /\ Len(begun) + 1 = NParts + 2 /\ NParts + 2 - Len(begun) = 1
      BY <1>1, <1>3, <2>1
    <3>2. NParts + 2 \in (Len(begun) + 1)..(Len(begun) + Len(Copied))
      BY <1>1, <3>1
    <3> QED
      BY <2>1, <2>2, <3>1, <3>2
  <2> QED
    BY <2>2, <2>3 DEF begun
<1>6. ASSUME NEW i \in 2..(NParts + 2)
      PROVE  (first \o Store(t) \o Copied)[i] = Order(t)[i]
  <2>1. CASE i = NParts + 2
    <3>1. i \in 1..(NParts + 2) /\ i # 1
      BY <1>1, <2>1
    <3>2. Order(t)[i] = [op |-> "copied"]
      BY <2>1, <3>1 DEF Order
    <3> QED
      BY <1>3, <1>5, <2>1, <3>2
  <2>2. CASE i # NParts + 2
    <3>1. i - 1 \in 1..NParts /\ i \in 2..(NParts + 1) /\ i \in 1..(NParts + 1) /\ i \in 1..(NParts + 2) /\ i # 1
      BY <1>1, <2>2
    <3>2. (first \o Store(t) \o Copied)[i] = [op |-> "store", part |-> i - 1, slot |-> t]
      BY <1>2, <1>4, <1>5, <3>1
    <3> QED
      BY <2>2, <3>1, <3>2 DEF Order
  <2> QED
    BY <2>1, <2>2
<1> QED
  BY <1>1, <1>4, <1>5, <1>6

LEMMA CaptureKeeps == ASSUME StreamAssumed, StreamInv, Capture PROVE StreamInv'
<1> DEFINE block == Save \o Staged
           n     == Len(compute)
<1>1. PICK f : IsTrace(f, compute, kda, All(state), pinned) /\ Quiet /\ KeptBut({})
  BY DrainedQuiet DEF Capture
<1>2. /\ NParts \in Nat \ {0} /\ NSnaps \in Nat \ {0} /\ Parts = 1..NParts
      /\ state \in Ids /\ next \in Slots /\ saved \in [Slots -> Ids \union {Empty}]
      /\ compute \in Seq(Commands) /\ n \in Nat
      /\ kda \in [Parts -> Ids] /\ stage \in [Parts -> Ids] /\ pinned \in [Slots -> [Parts -> Ids]]
      /\ UNCHANGED <<state, kda, stage, pinned>> /\ saved' = [saved EXCEPT ![next] = state]
  BY DEF Capture, memory, StreamAssumed, StreamInv, StreamTypes, Parts
<1>3. /\ block \in Seq(Commands) /\ Len(block) = NParts + 1
      /\ \A i \in 1..NParts : block[i].op = "save" /\ block[i].part = i
      /\ block[NParts + 1].op = "staged"
  BY Blocks
<1>4. compute' = compute \o block
  <2>1. Save \in Seq(Commands) /\ Staged \in Seq(Commands)
    <3>1. [op |-> "staged"] \in Commands
      BY DEF Commands
    <3> QED
      BY <1>2, <3>1, Blocks DEF Staged
  <2> QED
    BY <1>2, <2>1, ConcatAssociative DEF Capture
<1> HIDE DEF block
<1>5. \A i \in 1..Len(block) : block[i].op \in {"save", "staged"}
  <2>1. \A i \in 1..Len(block) : i \in 1..NParts \/ i = NParts + 1
    BY <1>2, <1>3
  <2> QED
    BY <1>3, <2>1
<1>6. PICK g : /\ IsTrace(g, compute \o block, kda, All(state), pinned)
               /\ Resting(n + 1, n + Len(block) + 1, All(state), g)
  BY <1>1, <1>2, <1>3, <1>5, AppendStill
<1>7. /\ compute' \in Seq(Commands) /\ Len(compute') = n + NParts + 1
      /\ \A i \in 1..n : compute'[i] = compute[i]
      /\ \A i \in (n + 1)..(n + NParts + 1) : compute'[i] = block[i - n]
  <2>1. /\ compute \o block \in Seq(Commands) /\ Len(compute \o block) = n + Len(block)
        /\ \A i \in 1..n : (compute \o block)[i] = compute[i]
        /\ \A i \in (n + 1)..(n + Len(block)) : (compute \o block)[i] = block[i - n]
    <3>1. compute \in Seq(Commands) /\ block \in Seq(Commands)
      BY <1>2, <1>3
    <3> QED
      BY <3>1, Joined
  <2> QED
    BY <1>2, <1>3, <1>4, <2>1
<1> HIDE DEF n
<1>8. DOMAIN compute' = 1..(n + NParts + 1) /\ \A i \in 1..n : compute[i].op \in Moves
  BY <1>1, <1>2, <1>7 DEF Quiet, n
<1>9. /\ \A i \in 1..n : compute'[i].op \in Moves
      /\ \A i \in (n + 1)..(n + NParts) : compute'[i].op = "save" /\ compute'[i].part = i - n
      /\ compute'[n + NParts + 1].op = "staged"
  <2>1. ASSUME NEW i \in (n + 1)..(n + NParts)
        PROVE  compute'[i].op = "save" /\ compute'[i].part = i - n
    <3>1. compute'[i] = block[i - n] /\ i - n \in 1..NParts
      BY <1>2, <1>7
    <3> QED
      BY <1>3, <3>1
  <2>2. compute'[n + NParts + 1] = block[NParts + 1]
    BY <1>2, <1>7
  <2> QED
    BY <1>3, <1>7, <1>8, <2>1, <2>2
<1>10. WaitStaged(compute') = <<Wait(1)>> /\ <<Wait(1)>> \in Seq(CopyCommands)
  <2>1. Pending(compute', "staged") = {n + NParts + 1}
    BY <1>2, <1>8, <1>9 DEF Pending, Moves
  <2>2. Wait(1) \in CopyCommands
    BY DEF Wait, CopyCommands
  <2> QED
    BY <2>1, <2>2, FS_Singleton DEF WaitStaged
<1>11. /\ copy' \in Seq(CopyCommands) /\ Len(copy') = NParts + 2 /\ copy'[1] = Wait(1)
       /\ \A i \in 2..(NParts + 2) : copy'[i] = Order(next)[i]
  <2>1. copy' = WaitStaged(compute') \o Store(next) \o Copied
    BY <1>1, <1>10 DEF Capture, Quiet
  <2> QED
    BY <1>2, <1>10, <2>1, OrderQueued
<1>12. saved'[next] = state /\ saved' \in [Slots -> Ids \union {Empty}] /\ state # Empty
  BY <1>2 DEF Ids, Empty
<1>13. PICK t, at : t = next /\ at = n + NParts + 1
  OBVIOUS
<1>14. Staging(g, t, at)'
  <2>1. \A i \in DOMAIN compute' :
          /\ i > at => compute'[i].op = "run"
          /\ i < at - NParts => compute'[i].op \in Moves
          /\ i < at /\ i >= at - NParts =>
               compute'[i].op = "save" /\ compute'[i].part = i + NParts + 1 - at
          /\ i <= at /\ i >= at - NParts => g[i] = All(saved'[t])
    BY <1>2, <1>3, <1>6, <1>8, <1>9, <1>12, <1>13 DEF n, Resting
  <2>2. \A p \in Parts : ~(p + at < NParts + 2)
    BY <1>2, <1>13 DEF n
  <2> QED
    BY <1>2, <1>8, <1>9, <1>11, <1>12, <1>13, <2>1, <2>2 DEF Staging
<1>15. KeptBut({t})'
  BY <1>1, <1>2, <1>13 DEF KeptBut
<1>16. next' \in Slots
  BY <1>2 DEF Capture, NextSlot, Slots
<1>17. Capturing(g)'
  <2>1. t \in Slots /\ saved'[t] # Empty /\ at \in Nat
    BY <1>2, <1>12, <1>13
  <2> QED
    BY <1>14, <1>15, <2>1 DEF Capturing
<1> QED
  BY <1>2, <1>4, <1>6, <1>7, <1>11, <1>12, <1>16, <1>17 DEF StreamInv, StreamTypes

\* What is left of a queue.
LEMMA Behind ==
  ASSUME NEW S, NEW queue \in Seq(S), queue # <<>>
  PROVE  /\ Tail(queue) \in Seq(S) /\ Head(queue) = queue[1] /\ queue[1] \in S /\ Len(queue) \in Nat \ {0}
         /\ DOMAIN queue = 1..Len(queue) /\ DOMAIN Tail(queue) = 1..(Len(queue) - 1)
         /\ Len(Tail(queue)) = Len(queue) - 1
         /\ \A i \in 1..(Len(queue) - 1) : Tail(queue)[i] = queue[i + 1]
OBVIOUS

\* The copy into the staging buffer comes closer.
LEMMA StagingComesCloser ==
  ASSUME StreamAssumed, StreamTypes, compute # <<>>, compute' = Tail(compute), UNCHANGED <<copy, saved>>,
         NEW f, NEW g, ShiftedUpTo(Len(compute), f, g),
         NEW t \in Slots, NEW at \in Nat, Staging(f, t, at), at > 1,
         \A p \in Parts : p + (at - 1) < NParts + 2 => stage'[p] = saved[t]
  PROVE  Staging(g, t, at - 1)'
<1>1. /\ NParts \in Nat /\ Len(compute) \in Nat \ {0} /\ DOMAIN compute = 1..Len(compute)
      /\ DOMAIN compute' = 1..(Len(compute) - 1) /\ \A i \in 1..(Len(compute) - 1) : compute'[i] = compute[i + 1]
  BY Behind DEF StreamAssumed, StreamTypes
<1>2. at \in 1..Len(compute) /\ at - 1 \in DOMAIN compute' /\ compute'[at - 1].op = "staged"
  BY <1>1 DEF Staging
<1>3. ASSUME NEW i \in DOMAIN compute'
      PROVE  /\ i > at - 1 => compute'[i].op = "run"
             /\ i < at - 1 - NParts => compute'[i].op \in Moves
             /\ i < at - 1 /\ i >= at - 1 - NParts =>
                  compute'[i].op = "save" /\ compute'[i].part = i + NParts + 1 - (at - 1)
             /\ i <= at - 1 /\ i >= at - 1 - NParts => g[i] = All(saved[t])
  <2>1. i \in 1..Len(compute) /\ i + 1 \in DOMAIN compute /\ compute'[i] = compute[i + 1] /\ g[i] = f[i + 1]
    BY <1>1 DEF ShiftedUpTo
  <2>2. /\ i + 1 > at => compute[i + 1].op = "run"
        /\ i + 1 < at - NParts => compute[i + 1].op \in Moves
        /\ i + 1 < at /\ i + 1 >= at - NParts =>
             compute[i + 1].op = "save" /\ compute[i + 1].part = i + 1 + NParts + 1 - at
        /\ i + 1 <= at /\ i + 1 >= at - NParts => f[i + 1] = All(saved[t])
    BY <2>1 DEF Staging
  <2>3. /\ i + 1 + NParts + 1 - at = i + NParts + 1 - (at - 1)
        /\ i > at - 1 => i + 1 > at
        /\ i < at - 1 - NParts => i + 1 < at - NParts
        /\ i < at - 1 => i + 1 < at
        /\ i >= at - 1 - NParts => i + 1 >= at - NParts
        /\ i <= at - 1 => i + 1 <= at
    <3>1. i \in Nat /\ NParts \in Nat /\ at \in Nat
      BY <1>1, <2>1
    <3> QED
      BY <3>1
  <2>4. /\ i > at - 1 => compute'[i].op = "run"
        /\ i < at - 1 - NParts => compute'[i].op \in Moves
    BY <2>1, <2>2, <2>3, Zenon
  <2>5. i < at - 1 /\ i >= at - 1 - NParts =>
          compute'[i].op = "save" /\ compute'[i].part = i + NParts + 1 - (at - 1)
    BY <2>1, <2>2, <2>3, Zenon
  <2>6. i <= at - 1 /\ i >= at - 1 - NParts => g[i] = All(saved[t])
    BY <2>1, <2>2, <2>3, Zenon
  <2> QED
    BY <2>4, <2>5, <2>6
<1>4. Len(copy) = NParts + 2 /\ copy[1] = Wait(1) /\ \A i \in 2..(NParts + 2) : copy[i] = Order(t)[i]
  BY DEF Staging
<1>5. PICK here : here = at - 1
  OBVIOUS
<1>6. Staging(g, t, here)'
  BY <1>2, <1>3, <1>4, <1>5 DEF Staging
<1> QED
  BY <1>5, <1>6

LEMMA KernelKeeps == ASSUME StreamAssumed, StreamInv, ComputeKernel PROVE StreamInv'
<1> DEFINE c == Head(compute)
<1>1. PICK f : IsTrace(f, compute, kda, All(state), pinned) /\ Capturing(f)
  BY DEF StreamInv
<1>2. /\ NParts \in Nat \ {0} /\ StreamTypes /\ compute # <<>> /\ c.op \in Moves /\ compute' = Tail(compute)
      /\ kda' = [kda EXCEPT ![c.part] = NewPart(c)] /\ UNCHANGED <<believed, copy, stage, pinned>>
  BY DEF ComputeKernel, StreamAssumed, StreamInv, Moves
<1>3. /\ compute' \in Seq(Commands) /\ c = compute[1] /\ c \in Commands /\ Len(compute) \in Nat \ {0}
      /\ DOMAIN compute = 1..Len(compute) /\ DOMAIN compute' = 1..(Len(compute) - 1)
      /\ \A i \in 1..(Len(compute) - 1) : compute'[i] = compute[i + 1]
  BY <1>2, Behind DEF StreamTypes
<1>4. /\ Goes(c, kda, f[2], pinned)
      /\ \E g : IsTrace(g, compute', f[2], All(state), pinned) /\ ShiftedUpTo(Len(compute), f, g)
  <2>1. compute \in Seq(Commands) /\ compute # <<>>
    BY <1>2 DEF StreamTypes
  <2> QED
    BY <1>1, <1>2, <2>1, ShiftTrace
<1> HIDE DEF c
<1>5. kda' = f[2]
  BY <1>2, <1>4 DEF Goes, NewPart, Moves
<1>6. kda' \in [Parts -> Ids]
  <2>1. Len(compute) + 1 >= 2
    BY <1>3
  <2> QED
    BY <1>1, <1>3, <1>5, <2>1 DEF IsTrace
<1>7. PICK g : IsTrace(g, compute', f[2], All(state), pinned) /\ ShiftedUpTo(Len(compute), f, g)
  BY <1>4
<1>8. UNCHANGED <<state, saved, next, copy, stage, pinned>>
  BY <1>2 DEF believed
<1>9. CASE Quiet /\ KeptBut({})
  <2>1. Quiet'
    <3>1. \A i \in DOMAIN compute' : i + 1 \in DOMAIN compute /\ compute'[i] = compute[i + 1]
      BY <1>3
    <3> QED
      BY <1>8, <1>9, <3>1 DEF Quiet
  <2>2. KeptBut({})'
    BY <1>8, <1>9 DEF KeptBut
  <2>3. Capturing(g)'
    BY <2>1, <2>2 DEF Capturing
  <2> QED
    BY <1>2, <1>3, <1>5, <1>6, <1>7, <1>8, <2>3 DEF StreamInv, StreamTypes
<1>10. ASSUME NEW t \in Slots, saved[t] # Empty, KeptBut({t}),
              (\E at \in Nat : Staging(f, t, at)) \/ \E n \in 0..(NParts + 1) : Storing(t, n)
       PROVE  StreamInv'
  <2>1. ASSUME NEW at \in Nat, Staging(f, t, at)
        PROVE  at - 1 \in Nat /\ Staging(g, t, at - 1)'
    <3>1. 1 \in DOMAIN compute /\ at \in DOMAIN compute /\ compute[1].op \in Moves
      BY <1>2, <1>3, <2>1 DEF Staging
    <3>2. /\ 1 # at /\ ~(1 < at /\ 1 >= at - NParts)
      BY <2>1, <3>1 DEF Staging, Moves
    <3>3. at > 1 /\ 1 < at - NParts
      BY <1>2, <1>3, <3>1, <3>2
    <3>4. \A p \in Parts : ~(p + (at - 1) < NParts + 2)
      BY <1>2, <3>3 DEF Parts
    <3> QED
      BY <1>2, <1>7, <1>8, <2>1, <3>3, <3>4, StagingComesCloser
  <2>2. ASSUME NEW n \in 0..(NParts + 1), Storing(t, n)
        PROVE  Storing(t, n)'
    <3>1. \A i \in DOMAIN compute' : i + 1 \in DOMAIN compute /\ compute'[i] = compute[i + 1]
      BY <1>3
    <3> QED
      BY <1>8, <2>2, <3>1 DEF Storing
  <2>3. KeptBut({t})'
    BY <1>8, <1>10 DEF KeptBut
  <2>4. Capturing(g)'
    BY <1>8, <1>10, <2>1, <2>2, <2>3 DEF Capturing
  <2> QED
    BY <1>2, <1>3, <1>5, <1>6, <1>7, <1>8, <2>4 DEF StreamInv, StreamTypes
<1> QED
  BY <1>1, <1>9, <1>10 DEF Capturing

LEMMA OrderFacts ==
  ASSUME StreamAssumed, NEW t \in Slots, NEW i \in 1..(NParts + 2)
  PROVE  /\ i = 1 => Order(t)[i].op = "wait"
         /\ i = NParts + 2 => Order(t)[i].op = "copied"
         /\ i \in 2..(NParts + 1) =>
              Order(t)[i].op = "store" /\ Order(t)[i].part = i - 1 /\ Order(t)[i].slot = t
         /\ i # 1 => Order(t)[i].op # "wait"
<1>1. NParts \in Nat \ {0}
  BY DEF StreamAssumed
<1>2. CASE i = 1
  BY <1>1, <1>2 DEF Order, Wait
<1>3. CASE i = NParts + 2
  <2>1. Order(t)[i] = [op |-> "copied"]
    BY <1>1, <1>3 DEF Order
  <2> QED
    BY <1>1, <1>3, <2>1
<1>4. CASE i \in 2..(NParts + 1)
  <2>1. Order(t)[i] = [op |-> "store", part |-> i - 1, slot |-> t]
    BY <1>1, <1>4 DEF Order
  <2> QED
    BY <1>1, <1>4, <2>1
<1> QED
  BY <1>1, <1>2, <1>3, <1>4

LEMMA SaveKeeps == ASSUME StreamAssumed, StreamInv, ComputeSave PROVE StreamInv'
<1> DEFINE c == Head(compute)
<1>1. PICK f : IsTrace(f, compute, kda, All(state), pinned) /\ Capturing(f)
  BY DEF StreamInv
<1>2. /\ NParts \in Nat \ {0} /\ StreamTypes /\ compute # <<>> /\ c.op = "save" /\ compute' = Tail(compute)
      /\ stage' = [stage EXCEPT ![c.part] = kda[c.part]] /\ UNCHANGED <<believed, copy, kda, pinned>>
  BY DEF ComputeSave, StreamAssumed, StreamInv
<1>3. /\ compute' \in Seq(Commands) /\ c = compute[1] /\ c \in Commands /\ Len(compute) \in Nat \ {0}
      /\ DOMAIN compute = 1..Len(compute)
  BY <1>2, Behind DEF StreamTypes
<1>4. /\ Goes(c, kda, f[2], pinned)
      /\ \E g : IsTrace(g, compute', f[2], All(state), pinned) /\ ShiftedUpTo(Len(compute), f, g)
  <2>1. compute \in Seq(Commands) /\ compute # <<>>
    BY <1>2 DEF StreamTypes
  <2> QED
    BY <1>1, <1>2, <2>1, ShiftTrace
<1>5. c.part \in Parts
  BY <1>2, <1>3, CommandFacts
<1> HIDE DEF c
<1>6. f[2] = kda /\ f[1] = kda
  BY <1>1, <1>2, <1>4 DEF Goes, IsTrace
<1>7. stage \in [Parts -> Ids] /\ kda \in [Parts -> Ids] /\ stage' \in [Parts -> Ids]
  <2>1. stage \in [Parts -> Ids] /\ kda \in [Parts -> Ids]
    BY <1>2 DEF StreamTypes
  <2> QED
    BY <1>2, <1>5, <2>1
<1>8. PICK g : IsTrace(g, compute', f[2], All(state), pinned) /\ ShiftedUpTo(Len(compute), f, g)
  BY <1>4
<1>9. UNCHANGED <<state, saved, next, copy, kda, pinned>>
  BY <1>2 DEF believed
<1>10. 1 \in DOMAIN compute /\ compute[1].op = "save"
  BY <1>2, <1>3
<1>11. PICK t \in Slots, at \in Nat : saved[t] # Empty /\ KeptBut({t}) /\ Staging(f, t, at)
  <2>1. ~Quiet /\ \A t \in Slots, n \in 0..(NParts + 1) : ~Storing(t, n)
    BY <1>10 DEF Quiet, Storing, Moves
  <2> QED
    BY <1>1, <2>1 DEF Capturing
<1>12. 1 < at /\ 1 >= at - NParts /\ c.part = NParts + 2 - at /\ kda[c.part] = saved[t]
  <2>1. 1 < at /\ 1 >= at - NParts
    BY <1>2, <1>10, <1>11 DEF Staging, Moves
  <2>2. compute[1].part = 1 + NParts + 1 - at /\ f[1] = All(saved[t])
    BY <1>2, <1>10, <1>11, <2>1 DEF Staging
  <2>3. kda[c.part] = saved[t]
    BY <1>5, <1>6, <2>2 DEF All
  <2> QED
    BY <1>2, <1>3, <2>1, <2>2, <2>3
<1>13. ASSUME NEW p \in Parts, p + (at - 1) < NParts + 2
       PROVE  stage'[p] = saved[t]
  <2>1. CASE p = c.part
    BY <1>2, <1>5, <1>7, <1>12, <2>1
  <2>2. CASE p # c.part
    <3>1. p + at < NParts + 2
      BY <1>2, <1>12, <1>13, <2>2 DEF Parts
    <3> QED
      BY <1>2, <1>5, <1>7, <1>11, <2>2, <3>1 DEF Staging
  <2> QED
    BY <2>1, <2>2
<1>14. at - 1 \in Nat /\ Staging(g, t, at - 1)'
  BY <1>2, <1>8, <1>9, <1>11, <1>12, <1>13, StagingComesCloser
<1>15. KeptBut({t})'
  BY <1>9, <1>11 DEF KeptBut
<1>16. Capturing(g)'
  BY <1>9, <1>11, <1>14, <1>15 DEF Capturing
<1> QED
  BY <1>2, <1>3, <1>6, <1>7, <1>8, <1>9, <1>16 DEF StreamInv, StreamTypes

LEMMA StagedKeeps == ASSUME StreamAssumed, StreamInv, ComputeStaged PROVE StreamInv'
<1> DEFINE c == Head(compute)
<1>1. PICK f : IsTrace(f, compute, kda, All(state), pinned) /\ Capturing(f)
  BY DEF StreamInv
<1>2. /\ NParts \in Nat \ {0} /\ StreamTypes /\ compute # <<>> /\ c.op = "staged" /\ compute' = Tail(compute)
      /\ UNCHANGED <<believed, memory>>
  BY DEF ComputeStaged, StreamAssumed, StreamInv
<1>3. /\ compute' \in Seq(Commands) /\ c = compute[1] /\ c \in Commands /\ Len(compute) \in Nat \ {0}
      /\ DOMAIN compute = 1..Len(compute) /\ DOMAIN compute' = 1..(Len(compute) - 1)
      /\ \A i \in 1..(Len(compute) - 1) : compute'[i] = compute[i + 1]
  BY <1>2, Behind DEF StreamTypes
<1>4. /\ Goes(c, kda, f[2], pinned)
      /\ \E g : IsTrace(g, compute', f[2], All(state), pinned) /\ ShiftedUpTo(Len(compute), f, g)
  <2>1. compute \in Seq(Commands) /\ compute # <<>>
    BY <1>2 DEF StreamTypes
  <2> QED
    BY <1>1, <1>2, <2>1, ShiftTrace
<1> HIDE DEF c
<1>5. f[2] = kda
  BY <1>2, <1>4 DEF Goes
<1>6. PICK g : IsTrace(g, compute', f[2], All(state), pinned) /\ ShiftedUpTo(Len(compute), f, g)
  BY <1>4
<1>7. UNCHANGED <<state, saved, next, kda, stage, pinned>>
  BY <1>2 DEF believed, memory
<1>8. 1 \in DOMAIN compute /\ compute[1].op = "staged"
  BY <1>2, <1>3
<1>9. PICK t \in Slots, at \in Nat : saved[t] # Empty /\ KeptBut({t}) /\ Staging(f, t, at)
  <2>1. ~Quiet /\ \A t \in Slots, n \in 0..(NParts + 1) : ~Storing(t, n)
    BY <1>8 DEF Quiet, Storing, Moves
  <2> QED
    BY <1>1, <2>1 DEF Capturing
<1>10. at = 1
  <2>1. at \in DOMAIN compute /\ ~(1 < at - NParts) /\ ~(1 < at /\ 1 >= at - NParts)
    BY <1>8, <1>9 DEF Staging, Moves
  <2> QED
    BY <1>2, <1>3, <2>1
<1>11. /\ copy' \in Seq(CopyCommands) /\ Len(copy') = NParts + 2 /\ \A i \in DOMAIN copy' : copy'[i] = Order(t)[i + 0]
  <2>1. /\ copy \in Seq(CopyCommands) /\ Len(copy) = NParts + 2 /\ copy[1] = Wait(1)
        /\ \A i \in 2..(NParts + 2) : copy[i] = Order(t)[i]
    BY <1>2, <1>9 DEF Staging, StreamTypes
  <2>2. DOMAIN copy = 1..(NParts + 2)
    BY <1>2, <2>1
  <2>3. \A i \in 2..(NParts + 2) : copy[i].op # "wait"
    BY <1>2, <2>1, OrderFacts
  <2>4. copy' = [i \in 1..(NParts + 2) |->
                   IF copy[i].op = "wait" /\ copy[i].records > 0 THEN Wait(copy[i].records - 1) ELSE copy[i]]
    BY <2>2 DEF ComputeStaged
  <2>5. copy'[1] = Wait(0) /\ \A i \in 2..(NParts + 2) : copy'[i] = copy[i]
    <3>1. copy[1].op = "wait" /\ copy[1].records = 1
      BY <2>1 DEF Wait
    <3>2. 1 \in 1..(NParts + 2) /\ \A i \in 2..(NParts + 2) : i \in 1..(NParts + 2)
      BY <1>2
    <3> QED
      BY <2>3, <2>4, <3>1, <3>2
  <2>6. ASSUME NEW i \in 1..(NParts + 2)
        PROVE  copy'[i] = Order(t)[i] /\ copy'[i] \in CopyCommands
    <3>1. CASE i = 1
      BY <1>2, <2>5, <3>1 DEF Order, Wait, CopyCommands
    <3>2. CASE i # 1
      BY <1>2, <2>1, <2>2, <2>5, <3>2
    <3> QED
      BY <3>1, <3>2
  <2>7. copy' \in Seq(CopyCommands) /\ Len(copy') = NParts + 2 /\ DOMAIN copy' = 1..(NParts + 2)
    <3>1. DOMAIN copy' = 1..(NParts + 2) /\ copy' = [i \in 1..(NParts + 2) |-> copy'[i]]
      BY <2>4
    <3>2. copy' \in [1..(NParts + 2) -> CopyCommands]
      BY <2>6, <3>1
    <3> QED
      BY <1>2, <3>1, <3>2
  <2> QED
    BY <1>2, <2>6, <2>7
<1>12. Storing(t, 0)'
  <2>1. \A i \in DOMAIN compute' : i + 1 \in DOMAIN compute /\ compute'[i] = compute[i + 1] /\ i + 1 > 1
    BY <1>3
  <2>2. \A i \in DOMAIN compute' : compute'[i].op = "run"
    BY <1>9, <1>10, <2>1 DEF Staging
  <2>3. \A p \in Parts : stage[p] = saved[t] /\ ~(p < 0)
    BY <1>2, <1>9, <1>10 DEF Staging, Parts
  <2>4. Len(copy') = NParts + 2 - 0
    BY <1>2, <1>11
  <2> QED
    BY <1>7, <1>11, <2>2, <2>3, <2>4 DEF Storing
<1>13. KeptBut({t})'
  BY <1>7, <1>9 DEF KeptBut
<1>14. Capturing(g)'
  <2>1. 0 \in 0..(NParts + 1)
    BY <1>2
  <2> QED
    BY <1>7, <1>9, <1>12, <1>13, <2>1 DEF Capturing
<1> QED
  BY <1>2, <1>3, <1>5, <1>6, <1>7, <1>11, <1>14 DEF StreamInv, StreamTypes

LEMMA StoreKeeps == ASSUME StreamAssumed, StreamInv, CopyStore PROVE StreamInv'
<1>1. PICK f : IsTrace(f, compute, kda, All(state), pinned) /\ Capturing(f)
  BY DEF StreamInv
<1>2. /\ NParts \in Nat \ {0} /\ Parts = 1..NParts /\ StreamTypes /\ copy # <<>>
      /\ copy' = Tail(copy) /\ UNCHANGED <<believed, compute, kda, stage>>
  BY DEF CopyStore, StreamAssumed, StreamInv, Parts
<1>3. /\ copy' \in Seq(CopyCommands) /\ Head(copy) = copy[1] /\ Len(copy) \in Nat \ {0}
      /\ DOMAIN copy = 1..Len(copy) /\ DOMAIN copy' = 1..(Len(copy) - 1) /\ Len(copy') = Len(copy) - 1
      /\ \A i \in 1..(Len(copy) - 1) : copy'[i] = copy[i + 1]
  BY <1>2, Behind DEF StreamTypes
<1>4. 1 \in DOMAIN copy /\ copy[1].op = "store"
  BY <1>3 DEF CopyStore
<1>5. PICK t \in Slots, n \in 0..(NParts + 1) : saved[t] # Empty /\ KeptBut({t}) /\ Storing(t, n)
  <2>1. ~Quiet /\ \A t \in Slots, at \in Nat : ~Staging(f, t, at)
    BY <1>2, <1>4 DEF Quiet, Staging, Wait
  <2> QED
    BY <1>1, <2>1 DEF Capturing
<1>6. n \in Parts /\ copy[1].part = n /\ copy[1].slot = t
  <2> DEFINE order == Order(t)
  <2>4. \A i \in DOMAIN copy : copy[i] = order[i + n]
    BY <1>5 DEF Storing
  <2> HIDE DEF order
  <2>5. copy[1] = order[1 + n] /\ 1 + n = n + 1 /\ n + 1 \in 1..(NParts + 2)
    BY <1>2, <1>4, <1>5, <2>4
  <2>1. copy[1] = Order(t)[n + 1] /\ n + 1 \in 1..(NParts + 2)
    BY <2>5 DEF order
  <2>2. n + 1 # 1 /\ n + 1 # NParts + 2
    BY <1>4, <2>1, OrderFacts
  <2>3. n + 1 \in 2..(NParts + 1)
    BY <1>2, <2>1, <2>2
  <2> QED
    BY <1>2, <2>1, <2>3, OrderFacts
<1>7. /\ pinned \in [Slots -> [Parts -> Ids]] /\ stage \in [Parts -> Ids]
      /\ pinned' = [pinned EXCEPT ![t][n] = stage[n]]
  BY <1>2, <1>3, <1>6 DEF CopyStore, StreamTypes
<1>8. /\ pinned' \in [Slots -> [Parts -> Ids]] /\ pinned'[t][n] = stage[n]
      /\ \A p \in Parts : p # n => pinned'[t][p] = pinned[t][p]
      /\ \A s \in Slots : s # t => pinned'[s] = pinned[s]
  BY <1>6, <1>7
<1>9. UNCHANGED <<state, saved, next, compute, kda, stage>>
  BY <1>2 DEF believed
<1>10. PICK m : m = n + 1
  OBVIOUS
<1>11. Storing(t, m)'
  <2>1. Len(copy') = NParts + 2 - m /\ \A i \in DOMAIN copy' : copy'[i] = Order(t)[i + m]
    <3>1. Len(copy) = NParts + 2 - n /\ \A i \in DOMAIN copy : copy[i] = Order(t)[i + n]
      BY <1>5 DEF Storing
    <3>2. ASSUME NEW i \in DOMAIN copy'
          PROVE  copy'[i] = Order(t)[i + m]
      <4>1. i + 1 \in DOMAIN copy /\ copy'[i] = copy[i + 1] /\ i + 1 + n = i + m
        BY <1>3, <1>10
      <4>2. copy[i + 1] = Order(t)[i + 1 + n]
        BY <3>1, <4>1
      <4> QED
        BY <4>1, <4>2
    <3> QED
      BY <1>2, <1>3, <1>10, <3>1, <3>2
  <2>2. \A p \in Parts : stage[p] = saved[t] /\ (p < m => pinned'[t][p] = saved[t])
    <3>1. \A p \in Parts : stage[p] = saved[t] /\ (p < n => pinned[t][p] = saved[t])
      BY <1>5 DEF Storing
    <3>2. \A p \in Parts : p < m => p < n \/ p = n
      BY <1>2, <1>10
    <3> QED
      BY <1>6, <1>8, <3>1, <3>2
  <2>3. \A i \in DOMAIN compute : compute[i].op = "run"
    BY <1>5 DEF Storing
  <2> QED
    BY <1>9, <2>1, <2>2, <2>3 DEF Storing
<1>12. IsTrace(f, compute, kda, All(state), pinned')
  <2>1. \A i \in DOMAIN compute : compute[i].op = "run"
    BY <1>5 DEF Storing
  <2>2. compute \in Seq(Commands)
    BY <1>2 DEF StreamTypes
  <2> QED
    BY <1>1, <2>1, <2>2, HostTrace
<1>13. KeptBut({t})'
  BY <1>5, <1>8, <1>9 DEF KeptBut
<1>14. Capturing(f)'
  <2>1. m \in 0..(NParts + 1)
    BY <1>2, <1>6, <1>10
  <2> QED
    BY <1>5, <1>9, <1>11, <1>13, <2>1 DEF Capturing
<1> QED
  BY <1>2, <1>3, <1>8, <1>9, <1>12, <1>14 DEF StreamInv, StreamTypes

LEMMA EventKeeps == ASSUME StreamAssumed, StreamInv, CopyEvent PROVE StreamInv'
<1>1. PICK f : IsTrace(f, compute, kda, All(state), pinned) /\ Capturing(f)
  BY DEF StreamInv
<1>2. /\ NParts \in Nat \ {0} /\ Parts = 1..NParts /\ StreamTypes /\ copy # <<>>
      /\ copy' = Tail(copy) /\ UNCHANGED <<believed, compute, memory>>
  BY DEF CopyEvent, StreamAssumed, StreamInv, Parts
<1>3. /\ copy' \in Seq(CopyCommands) /\ Head(copy) = copy[1] /\ Len(copy) \in Nat \ {0}
      /\ DOMAIN copy = 1..Len(copy) /\ DOMAIN copy' = 1..(Len(copy) - 1) /\ Len(copy') = Len(copy) - 1
      /\ \A i \in 1..(Len(copy) - 1) : copy'[i] = copy[i + 1]
  BY <1>2, Behind DEF StreamTypes
<1>4. 1 \in DOMAIN copy /\ (copy[1].op = "copied" \/ (copy[1].op = "wait" /\ copy[1].records = 0))
  BY <1>3 DEF CopyEvent
<1>5. PICK t \in Slots, n \in 0..(NParts + 1) : saved[t] # Empty /\ KeptBut({t}) /\ Storing(t, n)
  <2>1. ~Quiet
    BY <1>2 DEF Quiet
  <2>2. \A t \in Slots, at \in Nat : Staging(f, t, at) => copy[1] = Wait(1)
    BY DEF Staging
  <2>3. copy[1] # Wait(1)
    BY <1>4 DEF Wait
  <2> QED
    BY <1>1, <2>1, <2>2, <2>3 DEF Capturing
<1>6. UNCHANGED <<state, saved, next, compute, kda, stage, pinned>>
  BY <1>2 DEF believed, memory
<1>7. /\ Len(copy) = NParts + 2 - n /\ \A i \in DOMAIN copy : copy[i] = Order(t)[i + n]
      /\ \A i \in DOMAIN compute : compute[i].op = "run"
      /\ \A p \in Parts : stage[p] = saved[t] /\ (p < n => pinned[t][p] = saved[t])
  BY <1>5 DEF Storing
<1>8. n = 0 \/ n = NParts + 1
  <2>1. copy[1] = Order(t)[n + 1] /\ n + 1 \in 1..(NParts + 2)
    BY <1>2, <1>4, <1>7
  <2>2. n + 1 \notin 2..(NParts + 1)
    BY <1>4, <2>1, OrderFacts
  <2> QED
    BY <1>2, <2>1, <2>2
<1>9. CASE n = 0
  <2>1. PICK m : m = 1
    OBVIOUS
  <2>2. Len(copy') = NParts + 2 - m /\ \A i \in DOMAIN copy' : copy'[i] = Order(t)[i + m]
    <3>1. ASSUME NEW i \in DOMAIN copy'
          PROVE  copy'[i] = Order(t)[i + m]
      <4>1. i + 1 \in DOMAIN copy /\ copy'[i] = copy[i + 1] /\ i + 1 + n = i + m
        BY <1>3, <1>9, <2>1
      <4>2. copy[i + 1] = Order(t)[i + 1 + n]
        BY <1>7, <4>1
      <4> QED
        BY <4>1, <4>2
    <3> QED
      BY <1>2, <1>3, <1>7, <1>9, <2>1, <3>1
  <2>3. \A p \in Parts : ~(p < m)
    BY <1>2, <2>1
  <2>4. Storing(t, m)'
    BY <1>6, <1>7, <2>2, <2>3 DEF Storing
  <2>5. KeptBut({t})'
    BY <1>5, <1>6 DEF KeptBut
  <2>6. Capturing(f)'
    <3>1. m \in 0..(NParts + 1)
      BY <1>2, <2>1
    <3> QED
      BY <1>5, <1>6, <2>4, <2>5, <3>1 DEF Capturing
  <2> QED
    BY <1>1, <1>2, <1>3, <1>6, <2>6 DEF StreamInv, StreamTypes
<1>10. CASE n = NParts + 1
  <2>1. copy' = <<>>
    BY <1>2, <1>3, <1>7, <1>10
  <2>2. Quiet'
    BY <1>6, <1>7, <2>1 DEF Quiet, Moves
  <2>3. pinned[t] = All(saved[t])
    <3>1. pinned[t] \in [Parts -> Ids]
      BY <1>2 DEF StreamTypes
    <3>2. \A p \in Parts : pinned[t][p] = saved[t]
      BY <1>2, <1>7, <1>10
    <3> QED
      BY <3>1, <3>2 DEF All
  <2>4. KeptBut({})'
    BY <1>5, <1>6, <2>3 DEF KeptBut
  <2>5. Capturing(f)'
    BY <2>2, <2>4 DEF Capturing
  <2> QED
    BY <1>1, <1>2, <1>3, <1>6, <2>5 DEF StreamInv, StreamTypes
<1> QED
  BY <1>8, <1>9, <1>10

LEMMA StreamInit == ASSUME StreamAssumed, Init PROVE StreamInv
<1>1. NParts \in Nat \ {0} /\ NSnaps \in Nat /\ 0 \in Ids /\ (NSnaps > 0 => 0 \in Slots)
  BY DEF StreamAssumed, Ids, Slots
<1>2. StreamTypes
  BY <1>1 DEF Init, StreamTypes
<1>3. PICK f : f = [i \in 1..1 |-> All(0)]
  OBVIOUS
<1>4. IsTrace(f, compute, kda, All(state), pinned)
  <2>1. All(0) \in [Parts -> Ids] /\ kda = All(0) /\ state = 0 /\ compute = <<>> /\ Len(compute) = 0
    BY <1>1 DEF All, Init
  <2> QED
    BY <1>3, <2>1 DEF IsTrace
<1>5. Capturing(f)
  BY DEF Init, Capturing, Quiet, KeptBut
<1> QED
  BY <1>2, <1>4, <1>5 DEF StreamInv

LEMMA StreamKeeps == StreamAssumed /\ StreamInv /\ [Next]_vars => StreamInv'
<1> SUFFICES ASSUME StreamAssumed, StreamInv, [Next]_vars
             PROVE  StreamInv'
  OBVIOUS
<1>1. CASE UNCHANGED <<state, saved, next, compute, copy, memory>>
  <2>1. PICK f : IsTrace(f, compute, kda, All(state), pinned) /\ Capturing(f)
    BY DEF StreamInv
  <2>2. UNCHANGED <<state, saved, next, compute, copy, kda, stage, pinned>>
    BY <1>1 DEF memory
  <2>3. \A t, at : Staging(f, t, at) => Staging(f, t, at)'
    BY <2>2 DEF Staging
  <2>4. \A t, n : Storing(t, n) => Storing(t, n)'
    BY <2>2 DEF Storing
  <2>5. (\A S : KeptBut(S) => KeptBut(S)') /\ (Quiet => Quiet')
    BY <2>2 DEF KeptBut, Quiet
  <2>6. Capturing(f)'
    BY <2>1, <2>2, <2>3, <2>4, <2>5 DEF Capturing
  <2>7. StreamTypes'
    BY <2>2 DEF StreamInv, StreamTypes
  <2> QED
    BY <2>1, <2>2, <2>6, <2>7 DEF StreamInv
<1>2. ASSUME ResetDone \/ UNCHANGED vars
      PROVE  UNCHANGED <<state, saved, next, compute, copy, memory>>
  BY <1>2 DEF ResetDone, vars, believed
<1> QED
  BY <1>1, <1>2, ForwardKeeps, CaptureKeeps, RestoreKeeps, ResetKeeps, KernelKeeps, SaveKeeps, StagedKeeps,
     StoreKeeps, EventKeeps DEF Next, Host, Compute, Copy

\* Nothing queued means nothing left to believe.
LEMMA StreamSettles == StreamAssumed /\ StreamInv => SettledAsBelieved
<1> SUFFICES ASSUME StreamAssumed, StreamInv
             PROVE  SettledAsBelieved
  OBVIOUS
<1>1. PICK f : IsTrace(f, compute, kda, All(state), pinned)
  BY DEF StreamInv
<1>2. ASSUME compute = <<>>
      PROVE  \A p \in Parts : kda[p] = state
  <2>1. kda = All(state)
    BY <1>1, <1>2 DEF IsTrace
  <2> QED
    BY <2>1 DEF All
<1>3. ASSUME copy = <<>>
      PROVE  \A s \in Slots : saved[s] # Empty => \A p \in Parts : pinned[s][p] = saved[s]
  <2>1. Drained
    BY <1>3 DEF Drained, Pending
  <2>2. KeptBut({})
    BY <2>1, DrainedQuiet
  <2> QED
    BY <2>2 DEF KeptBut, All
<1> QED
  BY <1>2, <1>3 DEF SettledAsBelieved

LEMMA StreamConsumes == StreamInv' => \A p \in Parts : kda'[p] # Garbage
BY DEF StreamInv, StreamTypes, Ids, Garbage

\* Nothing is saved while what was is being stored.
LEMMA StreamStages ==
  ASSUME StreamAssumed, StreamInv, [Next]_vars, NEW i \in DOMAIN copy, copy[i].op = "store",
         \A j \in 1..i : copy[j].op = "wait" => copy[j].records = 0
  PROVE  stage'[copy[i].part] = stage[copy[i].part]
<1>1. CASE stage' = stage
  BY <1>1
<1>2. CASE stage' # stage
  <2>1. compute # <<>> /\ Head(compute).op = "save"
    BY <1>2 DEF Next, Host, Compute, Copy, Forward, Capture, Restore, Reset, ResetDone, ComputeKernel, ComputeSave,
                ComputeStaged, CopyStore, CopyEvent, vars, memory
  <2>2. 1 \in DOMAIN compute /\ compute[1].op = "save"
    BY <2>1, Behind DEF StreamInv, StreamTypes
  <2>3. ~Quiet /\ \A t \in Slots, n \in 0..(NParts + 1) : ~Storing(t, n)
    BY <2>2 DEF Quiet, Storing, Moves
  <2>4. \E f : \E t \in Slots, at \in Nat : Staging(f, t, at)
    BY <2>3 DEF StreamInv, Capturing
  <2>5. copy[1].op = "wait" /\ copy[1].records = 1 /\ 1 \in 1..i
    BY <2>4 DEF Staging, Wait, StreamInv, StreamTypes
  <2> QED
    BY <2>5
<1> QED
  BY <1>1, <1>2
=============================================================================
