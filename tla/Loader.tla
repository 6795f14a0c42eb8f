-------------------------------- MODULE Loader --------------------------------
(***************************************************************************)
(* How the tensors of a checkpoint come to the devices and the arena         *)
(* (Loader in src/core/model.cpp): workers take jobs from one counter and    *)
(* queue copies out of buffers of their own, which they fill again while     *)
(* copies may still be in flight; what arrived is looked at again at random. *)
(*                                                                         *)
(* A tensor is its job, and its contents are its chunks.  A copy reads the  *)
(* buffer when a stream comes to it, at any time after it was queued.       *)
(***************************************************************************)
EXTENDS Integers, Sequences, Functions, SequenceTheorems, TLAPS

CONSTANTS
  JobLists,     \* tensors in the order of the layers, [kind, device, chunks]:
                \* device -1 is the arena, "missing" is not in the checkpoint
  NWorkers      \* nthreads: 16

VARIABLES
  jobs,         \* as load() has sorted them
  next,         \* the counter
  task,         \* worker -> the job it works on, Idle, or Ended
  done,         \* worker -> chunks of it that are queued
  buffers,      \* worker -> what its pinned buffers 0 and 1 hold, and Tmp
  streams,      \* device -> stream -> copies that are queued, oldest first
  dst,          \* job -> chunk -> what arrived
  result        \* what load() returns: "loaded", "refused", or not yet

loader == <<jobs, next, task, done, buffers, streams, dst, result>>

Workers == 1..NWorkers
Devices == {0, 1}
Idle    == 0
Ended   == -1
Nothing == <<>>
Tmp     == 2            \* the pageable buffer

\* What a job can be: only a large transfer is cut into chunks, and whatever is
\* copied has a device.
Tensors ==
  {job \in [kind : {"large", "host", "small", "bias", "missing"}, device : {-1} \union Devices,
            chunks : Nat \ {0}] :
     /\ job.kind # "large" => job.chunks = 1
     /\ job.kind \in {"large", "small", "bias"} => job.device \in Devices}

\* The large transfers, then the arena, then the small ones; of these whichever
\* is largest first.
Class(job) == CASE job.kind = "large" -> 0 [] job.kind = "host" -> 1 [] OTHER -> 2
Before(job, other) ==
  Class(job) < Class(other) \/ (Class(job) = Class(other) /\ job.chunks >= other.chunks)

Sorted(list) ==
  {order \in {[i \in DOMAIN list |-> list[f[i]]] : f \in Bijection(DOMAIN list, DOMAIN list)} :
     \A i, k \in DOMAIN list : i < k => Before(order[i], order[k])}

Started(list) ==
  /\ jobs \in Sorted(list) /\ next = 1 /\ result = "none"
  /\ task = [w \in Workers |-> Idle] /\ done = [w \in Workers |-> 0]
  /\ buffers = [w \in Workers |-> [b \in 0..Tmp |-> Nothing]]
  /\ streams = [d \in Devices |-> [s \in 2..3 |-> <<>>]]
  /\ dst = [j \in DOMAIN jobs |-> [c \in 1..jobs[j].chunks |-> Nothing]]

LoaderInit == \E list \in JobLists : Started(list)

Incomplete  == \E j \in DOMAIN jobs : jobs[j].kind = "missing"
Arrived(j)  == \A c \in DOMAIN dst[j] : dst[j][c] = <<j, c>>

Job(w)      == jobs[task[w]]
Content(w)  == <<task[w], done[w] + 1>>
Works(w, k) == task[w] > 0 /\ Job(w).kind = k

\* A copy that reads buffer b of worker w is still to be done.
InFlight(w, b) ==
  \E d \in Devices, s \in 2..3 : \E i \in DOMAIN streams[d][s] :
    streams[d][s][i].worker = w /\ streams[d][s][i].buffer = b

Queued(w, s, b) ==
  streams' = [streams EXCEPT ![Job(w).device][s] =
                Append(@, [worker |-> w, buffer |-> b, job |-> task[w], chunk |-> done[w] + 1])]

-----------------------------------------------------------------------------
(* The workers.                                                            *)

\* next.fetch_add(1); a checkpoint that lacks tensors is not begun.
Take(w) ==
  /\ task[w] = Idle /\ next <= Len(jobs) /\ ~Incomplete
  /\ task' = [task EXCEPT ![w] = next] /\ next' = next + 1
  /\ done' = [done EXCEPT ![w] = 0]
  /\ UNCHANGED <<jobs, buffers, streams, dst, result>>

\* Slabs of the arena are read in place.
ReadHost(w) ==
  /\ Works(w, "host")
  /\ dst' = [dst EXCEPT ![task[w]][1] = Content(w)]
  /\ task' = [task EXCEPT ![w] = Idle]
  /\ UNCHANGED <<jobs, next, done, buffers, streams, result>>

\* Mutant: the buffer is filled without a look at its event.
RefillAtOnce(w, slot) == TRUE

\* cudaEventQuery of the buffer's event, which was recorded behind its copy.
MayRefill(w, slot) == ~InFlight(w, slot)

\* A chunk of a large tensor, through the pinned buffers by turns.
LoadChunk(w) ==
  LET slot == done[w] % 2
  IN /\ Works(w, "large") /\ MayRefill(w, slot)
     /\ buffers' = [buffers EXCEPT ![w][slot] = Content(w)]
     /\ Queued(w, 2 + slot, slot)
     /\ done' = [done EXCEPT ![w] = @ + 1]
     /\ task' = [task EXCEPT ![w] = IF done'[w] = Job(w).chunks THEN Idle ELSE @]
     /\ UNCHANGED <<jobs, next, dst, result>>

\* A small tensor, as it is or converted in the pageable buffer.
LoadSmall(w) ==
  /\ Works(w, "small") /\ done[w] = 0
  /\ buffers' = [buffers EXCEPT ![w][Tmp] = Content(w)]
  /\ Queued(w, 2, Tmp)
  /\ done' = [done EXCEPT ![w] = 1]
  /\ UNCHANGED <<jobs, next, task, dst, result>>

\* A router's bias, centred in the first pinned buffer, without a look at its
\* event.
LoadBias(w) ==
  /\ Works(w, "bias") /\ done[w] = 0
  /\ buffers' = [buffers EXCEPT ![w] = [@ EXCEPT ![0] = Content(w), ![Tmp] = Content(w)]]
  /\ Queued(w, 2, 0)
  /\ done' = [done EXCEPT ![w] = 1]
  /\ UNCHANGED <<jobs, next, task, dst, result>>

\* Mutant: the worker goes on at once.
NeverSynced(w) == TRUE

\* cudaStreamSynchronize: of the stream, whoever's copies are on it.
Synced(w) == streams[Job(w).device][2] = <<>>

Synchronize(w) ==
  /\ Works(w, "small") \/ Works(w, "bias")
  /\ done[w] = 1 /\ Synced(w)
  /\ task' = [task EXCEPT ![w] = Idle]
  /\ UNCHANGED <<jobs, next, done, buffers, streams, dst, result>>

\* No job is left: the buffers are freed, which waits for the copies from them.
EndWorker(w) ==
  /\ task[w] = Idle /\ next > Len(jobs)
  /\ \A b \in 0..Tmp : ~InFlight(w, b)
  /\ task' = [task EXCEPT ![w] = Ended]
  /\ UNCHANGED <<jobs, next, done, buffers, streams, dst, result>>

-----------------------------------------------------------------------------
(* The devices, and the end.                                               *)

Copy(d, s) ==
  /\ streams[d][s] # <<>>
  /\ LET copy == Head(streams[d][s])
     IN dst' = [dst EXCEPT ![copy.job][copy.chunk] = buffers[copy.worker][copy.buffer]]
  /\ streams' = [streams EXCEPT ![d][s] = Tail(@)]
  /\ UNCHANGED <<jobs, next, task, done, buffers, result>>

Refuse ==
  /\ result = "none" /\ Incomplete
  /\ result' = "refused"
  /\ UNCHANGED <<jobs, next, task, done, buffers, streams, dst>>

\* The workers are joined, both devices synchronized, and some tensors read
\* again and compared.
Verify ==
  /\ result = "none" /\ \A w \in Workers : task[w] = Ended
  /\ \A d \in Devices, s \in 2..3 : streams[d][s] = <<>>
  /\ \E sample \in SUBSET DOMAIN jobs :
       result' = IF \A j \in sample : Arrived(j) THEN "loaded" ELSE "refused"
  /\ UNCHANGED <<jobs, next, task, done, buffers, streams, dst>>

Work(w) ==
  \/ Take(w) \/ ReadHost(w) \/ LoadChunk(w) \/ LoadSmall(w) \/ LoadBias(w)
  \/ Synchronize(w) \/ EndWorker(w)

LoaderNext ==
  \/ \E w \in Workers : Work(w)
  \/ \E d \in Devices, s \in 2..3 : Copy(d, s)
  \/ Refuse \/ Verify

LoaderSpec == LoaderInit /\ [][LoaderNext]_loader

-----------------------------------------------------------------------------
(* Properties.                                                             *)

\* The last chunk that a large tensor has in buffer 0 is waited for by nobody, so a
\* bias of the same worker may be written over it.  All others are clean.
LastThere(j, c) == c + 2 > jobs[j].chunks
Clean(j, c) ==
  jobs[j].kind = "large" /\ c % 2 = 1 /\ LastThere(j, c) =>
    \A i \in DOMAIN jobs : jobs[i].kind # "bias"

\* When load() returns, every clean chunk of every tensor holds what the file has
\* there, whichever worker took which job, whenever the copies out of its buffers
\* were done, and whatever was compared; and only a checkpoint that lacks tensors,
\* or one in which a bias can spoil a chunk, is refused.
Delivers ==
  /\ result = "loaded" =>
       ~Incomplete /\ \A j \in DOMAIN jobs : \A c \in DOMAIN dst[j] :
                        Clean(j, c) => dst[j][c] = <<j, c>>
  /\ result = "refused" =>
       Incomplete \/ \E j \in DOMAIN jobs : \E c \in DOMAIN dst[j] : ~Clean(j, c)

\* README.md:407 "loaders report zero mismatches": every tensor arrives, in a
\* checkpoint with router biases too.  The code does not keep it.
EveryTensorArrives ==
  /\ result = "loaded" => ~Incomplete /\ \A j \in DOMAIN jobs : Arrived(j)
  /\ result = "refused" => Incomplete

-----------------------------------------------------------------------------
(* Proof: whatever the tensors, however many workers.                       *)

LoaderAssumed == NWorkers \in Nat \ {0} /\ JobLists \subseteq Seq(Tensors)

CopySet == [worker : Workers, buffer : 0..Tmp, job : Nat, chunk : Nat]

OnStream(d, s) == {streams[d][s][i] : i \in DOMAIN streams[d][s]}

LoaderTypes ==
  /\ jobs \in Seq(Tensors) /\ next \in Nat \ {0} /\ result \in {"none", "loaded", "refused"}
  /\ task \in [Workers -> {Idle, Ended} \union DOMAIN jobs] /\ done \in [Workers -> Nat]
  /\ buffers \in [Workers -> [0..Tmp -> Seq(Nat)]]
  /\ streams \in [Devices -> [2..3 -> Seq(CopySet)]]
  /\ DOMAIN dst = DOMAIN jobs /\ \A j \in DOMAIN jobs : DOMAIN dst[j] = 1..jobs[j].chunks

\* Where a worker stands in its job.
TasksOK ==
  /\ next > 1 => ~Incomplete
  /\ \A w \in Workers :
       /\ task[w] = Ended => next > Len(jobs)
       /\ task[w] > 0 => /\ Job(w).kind = "large" => done[w] < Job(w).chunks
                         /\ Job(w).kind = "host" => done[w] = 0
                         /\ done[w] <= Job(w).chunks

\* A copy finds in its buffer what it was queued for.  That of a large tensor is the
\* last out of its buffer, or its worker has yet to come back to the buffer; that of
\* a small tensor or of a bias is on the stream its worker waits for.
Returns(copy) == task[copy.worker] = copy.job /\ done[copy.worker] <= copy.chunk + 1

CopyOK(copy, d, s) ==
  /\ copy.job \in DOMAIN jobs /\ copy.chunk \in 1..jobs[copy.job].chunks
  /\ Clean(copy.job, copy.chunk) =>
       buffers[copy.worker][copy.buffer] = <<copy.job, copy.chunk>>
  /\ \/ /\ jobs[copy.job].kind = "large" /\ copy.buffer = (copy.chunk - 1) % 2
        /\ LastThere(copy.job, copy.chunk) \/ Returns(copy)
     \/ /\ \/ jobs[copy.job].kind = "small" /\ copy.buffer = Tmp
           \/ jobs[copy.job].kind = "bias" /\ copy.buffer = 0
        /\ task[copy.worker] = copy.job /\ done[copy.worker] = 1
        /\ d = jobs[copy.job].device /\ s = 2

CopiesOK == \A d \in Devices, s \in 2..3 : \A copy \in OnStream(d, s) : CopyOK(copy, d, s)

\* A chunk has arrived or is in flight, or a worker has still to queue it.
Under(j, c) ==
  \/ dst[j][c] = <<j, c>>
  \/ \E d \in Devices, s \in 2..3 : \E copy \in OnStream(d, s) : copy.job = j /\ copy.chunk = c
Ahead(j, c) == \E w \in Workers : task[w] = j /\ done[w] < c

ChunksOK ==
  \A j \in DOMAIN jobs : j < next =>
    \A c \in 1..jobs[j].chunks : Clean(j, c) => Under(j, c) \/ Ahead(j, c)

LoaderInv == LoaderTypes /\ TasksOK /\ CopiesOK /\ ChunksOK /\ Delivers

LEMMA AppendRange ==
  ASSUME NEW S, NEW q \in Seq(S), NEW x \in S
  PROVE  {Append(q, x)[i] : i \in DOMAIN Append(q, x)} = {q[i] : i \in DOMAIN q} \union {x}
<1> DEFINE r == Append(q, x)
<1>1. /\ Len(r) = Len(q) + 1 /\ r[Len(q) + 1] = x /\ \A i \in 1..Len(q) : r[i] = q[i]
      /\ DOMAIN r = 1..(Len(q) + 1) /\ DOMAIN q = 1..Len(q) /\ Len(q) \in Nat
  OBVIOUS
<1> HIDE DEF r
<1>2. DOMAIN r = DOMAIN q \union {Len(q) + 1}
  BY <1>1
<1>3. {r[i] : i \in DOMAIN r} = {q[i] : i \in DOMAIN q} \union {x}
  BY <1>1, <1>2
<1> QED
  BY <1>3 DEF r

LEMMA TailRange ==
  ASSUME NEW S, NEW q \in Seq(S), q # <<>>
  PROVE  {q[i] : i \in DOMAIN q} = {Tail(q)[i] : i \in DOMAIN Tail(q)} \union {Head(q)}
<1> DEFINE r == Tail(q)
<1>1. /\ DOMAIN q = 1..Len(q) /\ Len(q) \in Nat \ {0} /\ DOMAIN r = 1..(Len(q) - 1)
      /\ Head(q) = q[1] /\ \A i \in 1..(Len(q) - 1) : r[i] = q[i + 1]
  OBVIOUS
<1> HIDE DEF r
<1>2. \A i \in DOMAIN q : i = 1 \/ (i - 1 \in DOMAIN r /\ r[i - 1] = q[i])
  BY <1>1
<1>3. \A i \in DOMAIN r : i + 1 \in DOMAIN q /\ q[i + 1] = r[i]
  BY <1>1
<1>4. 1 \in DOMAIN q
  BY <1>1
<1>5. {q[i] : i \in DOMAIN q} = {r[i] : i \in DOMAIN r} \union {Head(q)}
  BY <1>1, <1>2, <1>3, <1>4
<1> QED
  BY <1>5 DEF r

LEMMA SortedType ==
  ASSUME NEW list \in Seq(Tensors), NEW order \in Sorted(list)
  PROVE  order \in Seq(Tensors)
<1>1. PICK f \in [DOMAIN list -> DOMAIN list] : order = [i \in DOMAIN list |-> list[f[i]]]
  BY DEF Sorted, Bijection, Injection
<1>2. DOMAIN list = 1..Len(list) /\ Len(list) \in Nat /\ \A i \in DOMAIN list : list[i] \in Tensors
  OBVIOUS
<1> QED
  BY <1>1, <1>2

LEMMA StartedSound ==
  ASSUME LoaderAssumed, NEW list \in Seq(Tensors), Started(list)
  PROVE  LoaderInv
<1>1. /\ jobs \in Seq(Tensors) /\ next = 1 /\ result = "none"
      /\ task = [w \in Workers |-> Idle] /\ done = [w \in Workers |-> 0]
      /\ buffers = [w \in Workers |-> [b \in 0..Tmp |-> Nothing]]
      /\ streams = [d \in Devices |-> [s \in 2..3 |-> <<>>]]
      /\ dst = [j \in DOMAIN jobs |-> [c \in 1..jobs[j].chunks |-> Nothing]]
  BY SortedType DEF Started
<1>2. LoaderTypes
  BY <1>1 DEF LoaderTypes, Nothing
<1>3. TasksOK
  BY <1>1 DEF TasksOK, Idle, Ended
<1>4. \A d \in Devices, s \in 2..3 : OnStream(d, s) = {}
  BY <1>1 DEF OnStream
<1>5. CopiesOK
  BY <1>4 DEF CopiesOK
<1>6. \A j \in DOMAIN jobs : ~(j < next)
  BY <1>1
<1>7. ChunksOK
  BY <1>6 DEF ChunksOK
<1>8. Delivers
  BY <1>1 DEF Delivers
<1> QED
  BY <1>2, <1>3, <1>5, <1>7, <1>8 DEF LoaderInv

\* What is true of the job a worker is at.
LEMMA JobType ==
  ASSUME LoaderTypes, NEW w \in Workers, task[w] > 0
  PROVE  /\ task[w] \in DOMAIN jobs /\ task[w] \in Nat /\ Job(w) = jobs[task[w]] /\ Job(w) \in Tensors
         /\ Job(w).chunks \in Nat \ {0} /\ (Job(w).kind # "large" => Job(w).chunks = 1)
         /\ Job(w).kind \in {"large", "small", "bias"} => Job(w).device \in Devices
<1>1. task[w] \in DOMAIN jobs /\ DOMAIN jobs = 1..Len(jobs) /\ Len(jobs) \in Nat
  <2>1. task[w] \in {Idle, Ended} \union DOMAIN jobs
    BY DEF LoaderTypes
  <2>2. task[w] # Idle /\ task[w] # Ended
    BY DEF Idle, Ended
  <2>3. jobs \in Seq(Tensors)
    BY DEF LoaderTypes
  <2> QED
    BY <2>1, <2>2, <2>3
<1>2. jobs[task[w]] \in Tensors
  BY <1>1 DEF LoaderTypes
<1> QED
  BY <1>1, <1>2 DEF Job, Tensors

\* A copy is put behind those that are on its stream.
LEMMA QueuedAdds ==
  ASSUME LoaderTypes, NEW w \in Workers, task[w] > 0, Job(w).device \in Devices,
         NEW q \in 2..3, NEW b \in 0..Tmp, Queued(w, q, b), jobs' = jobs
  PROVE  LET copy == [worker |-> w, buffer |-> b, job |-> task[w], chunk |-> done[w] + 1]
         IN  /\ streams' \in [Devices -> [2..3 -> Seq(CopySet)]]
             /\ \A d \in Devices, s \in 2..3 :
                  OnStream(d, s)' = OnStream(d, s) \union
                    (IF d = Job(w).device /\ s = q THEN {copy} ELSE {})
<1> DEFINE copy == [worker |-> w, buffer |-> b, job |-> task[w], chunk |-> done[w] + 1]
           g    == Job(w).device
<1>1. copy \in CopySet
  <2>1. task[w] \in Nat /\ done[w] + 1 \in Nat
    BY JobType DEF LoaderTypes
  <2> QED
    BY <2>1 DEF CopySet
<1>2. streams' = [streams EXCEPT ![g] = [streams[g] EXCEPT ![q] = Append(streams[g][q], copy)]]
  BY DEF Queued
<1> HIDE DEF copy, g
<1>3. g \in Devices
  BY DEF g
<1>4. streams[g] \in [2..3 -> Seq(CopySet)] /\ streams[g][q] \in Seq(CopySet)
  BY <1>3 DEF LoaderTypes
<1>5. Append(streams[g][q], copy) \in Seq(CopySet)
  BY <1>1, <1>4
<1>6. streams' \in [Devices -> [2..3 -> Seq(CopySet)]]
  BY <1>2, <1>3, <1>4, <1>5 DEF LoaderTypes
<1>7. ASSUME NEW d \in Devices, NEW s \in 2..3
      PROVE  streams'[d][s] = IF d = g /\ s = q THEN Append(streams[g][q], copy) ELSE streams[d][s]
  BY <1>2, <1>3, <1>4 DEF LoaderTypes
<1>8. ASSUME NEW d \in Devices, NEW s \in 2..3
      PROVE  OnStream(d, s)' = OnStream(d, s) \union (IF d = g /\ s = q THEN {copy} ELSE {})
  <2>1. CASE d = g /\ s = q
    <3> DEFINE old == streams[g][q]
               new == Append(old, copy)
    <3>0. old \in Seq(CopySet)
      BY <1>4
    <3>1. {new[i] : i \in DOMAIN new} = {old[i] : i \in DOMAIN old} \union {copy}
      <4> HIDE DEF old
      <4> QED
        BY <1>1, <3>0, AppendRange
    <3>2. streams[d][s] = old /\ streams'[d][s] = new
      BY <1>7, <2>1
    <3> HIDE DEF old, new
    <3> QED
      BY <2>1, <3>1, <3>2 DEF OnStream
  <2>2. CASE ~(d = g /\ s = q)
    BY <1>7, <2>2 DEF OnStream
  <2> QED
    BY <2>1, <2>2
<1> QED
  BY <1>6, <1>8 DEF copy, g

\* A copy of a large tensor that its worker has in flight.
OfLarge(copy, w) ==
  /\ copy.job \in DOMAIN jobs /\ copy.chunk \in 1..jobs[copy.job].chunks
  /\ jobs[copy.job].kind = "large" /\ copy.buffer = (copy.chunk - 1) % 2
  /\ LastThere(copy.job, copy.chunk) \/ (task[w] = copy.job /\ done[w] <= copy.chunk + 1)

\* Unless it waits for a stream, a worker has copies of large tensors in flight only.
LEMMA OnlyLarge ==
  ASSUME CopiesOK, LoaderTypes, NEW w \in Workers, ~(Works(w, "small") \/ Works(w, "bias")) \/ done[w] # 1
  PROVE  \A d \in Devices, s \in 2..3 : \A copy \in OnStream(d, s) :
           copy.worker = w => OfLarge(copy, w)
<1> SUFFICES ASSUME NEW d \in Devices, NEW s \in 2..3, NEW copy \in OnStream(d, s), copy.worker = w
             PROVE  OfLarge(copy, w)
  OBVIOUS
<1>1. CopyOK(copy, d, s)
  BY DEF CopiesOK
<1>2. CASE jobs[copy.job].kind = "large"
  BY <1>1, <1>2 DEF CopyOK, OfLarge, Returns
<1>3. CASE jobs[copy.job].kind # "large"
  <2>1. /\ copy.job \in DOMAIN jobs /\ jobs[copy.job].kind \in {"small", "bias"}
        /\ task[w] = copy.job /\ done[w] = 1
    BY <1>1, <1>3 DEF CopyOK
  <2>2. task[w] > 0
    BY <2>1 DEF LoaderTypes
  <2> QED
    BY <2>1, <2>2 DEF Works, Job
<1> QED
  BY <1>2, <1>3

\* A worker that is not at a large tensor has left those of its copies behind.
LEMMA LeftBehind ==
  ASSUME NEW w \in Workers, NEW copy, OfLarge(copy, w), ~Works(w, "large"), LoaderTypes
  PROVE  LastThere(copy.job, copy.chunk)
<1>1. jobs \in Seq(Tensors)
  BY DEF LoaderTypes
<1>2. ASSUME task[w] = copy.job
      PROVE  FALSE
  <2>1. task[w] > 0 /\ jobs[task[w]].kind = "large"
    BY <1>1, <1>2 DEF OfLarge
  <2> QED
    BY <2>1 DEF Works, Job
<1> QED
  BY <1>2 DEF OfLarge

\* A worker that has only large copies in flight, and spoils no buffer of them, may
\* do what it likes.
LEMMA CopiesKept ==
  ASSUME CopiesOK, NEW w \in Workers, jobs' = jobs,
         \A v \in Workers \ {w} : task'[v] = task[v] /\ done'[v] = done[v] /\ buffers'[v] = buffers[v],
         \A d \in Devices, s \in 2..3 : \A copy \in OnStream(d, s) :
           /\ copy.worker \in Workers
           /\ copy.worker = w =>
                /\ OfLarge(copy, w)
                /\ LastThere(copy.job, copy.chunk) \/
                     (task'[w] = copy.job /\ done'[w] <= copy.chunk + 1)
                /\ Clean(copy.job, copy.chunk) => buffers'[w][copy.buffer] = buffers[w][copy.buffer]
  PROVE  \A d \in Devices, s \in 2..3 : \A copy \in OnStream(d, s) : CopyOK(copy, d, s)'
<1> SUFFICES ASSUME NEW d \in Devices, NEW s \in 2..3, NEW copy \in OnStream(d, s)
             PROVE  CopyOK(copy, d, s)'
  OBVIOUS
<1>1. /\ CopyOK(copy, d, s) /\ Clean(copy.job, copy.chunk)' = Clean(copy.job, copy.chunk)
      /\ LastThere(copy.job, copy.chunk)' = LastThere(copy.job, copy.chunk)
  BY DEF CopiesOK, Clean, LastThere
<1>2. CASE copy.worker = w
  <2>1. LastThere(copy.job, copy.chunk)' \/ Returns(copy)'
    BY <1>1, <1>2 DEF Returns
  <2> QED
    BY <1>1, <1>2, <2>1 DEF CopyOK, OfLarge
<1>3. CASE copy.worker # w
  BY <1>1, <1>3 DEF CopyOK, Returns
<1> QED
  BY <1>2, <1>3

LEMMA WorkerOfCopy ==
  ASSUME LoaderTypes, NEW d \in Devices, NEW s \in 2..3, NEW copy \in OnStream(d, s)
  PROVE  copy \in CopySet /\ copy.worker \in Workers /\ copy.buffer \in 0..Tmp
<1>1. streams[d][s] \in Seq(CopySet)
  BY DEF LoaderTypes
<1>2. PICK i \in DOMAIN streams[d][s] : copy = streams[d][s][i]
  BY DEF OnStream
<1> DEFINE q == streams[d][s]
<1>3. q \in Seq(CopySet) /\ copy \in {q[k] : k \in DOMAIN q}
  BY <1>1, <1>2
<1> HIDE DEF q
<1>4. copy \in CopySet
  BY <1>3
<1> QED
  BY <1>4 DEF CopySet

\* Nothing that has arrived is written over, but for what a bias has spoiled.
Fills ==
  /\ jobs' = jobs /\ DOMAIN dst' = DOMAIN dst
  /\ \A j \in DOMAIN jobs :
       /\ DOMAIN dst'[j] = DOMAIN dst[j]
       /\ \A c \in DOMAIN dst[j] : Clean(j, c) /\ dst[j][c] = <<j, c>> => dst'[j][c] = <<j, c>>

LEMMA NothingFills ==
  ASSUME jobs' = jobs, dst' = dst
  PROVE  Fills
BY DEF Fills

LEMMA UnderKept ==
  ASSUME LoaderTypes, Fills, NEW j \in DOMAIN jobs, NEW c \in 1..jobs[j].chunks, Clean(j, c),
         Under(j, c), \A d \in Devices, s \in 2..3 : OnStream(d, s) \subseteq OnStream(d, s)'
  PROVE  Under(j, c)'
<1>1. c \in DOMAIN dst[j]
  BY DEF LoaderTypes
<1> QED
  BY <1>1 DEF Under, Fills

LEMMA DeliversKept ==
  ASSUME LoaderTypes, Delivers, Fills, result' = result
  PROVE  Delivers'
<1>1. \A j, c : Clean(j, c)' = Clean(j, c)
  BY DEF Clean, LastThere, Fills
<1>2. Incomplete' = Incomplete
  BY DEF Incomplete, Fills
<1> QED
  BY <1>1, <1>2 DEF Delivers, Fills

LEMMA CopySame ==
  ASSUME NEW k, NEW d, NEW s, CopyOK(k, d, s), UNCHANGED <<jobs, task, done, buffers>>
  PROVE  CopyOK(k, d, s)'
<1>1. /\ Clean(k.job, k.chunk)' = Clean(k.job, k.chunk) /\ Returns(k)' = Returns(k)
      /\ LastThere(k.job, k.chunk)' = LastThere(k.job, k.chunk)
  BY DEF Clean, LastThere, Returns
<1> QED
  BY <1>1 DEF CopyOK

LEMMA RestKept ==
  ASSUME CopiesOK, ChunksOK, UNCHANGED <<jobs, next, task, done, buffers, streams, dst>>
  PROVE  CopiesOK' /\ ChunksOK'
<1>1. \A d, s : OnStream(d, s)' = OnStream(d, s)
  BY DEF OnStream
<1>2. \A j, c : /\ Clean(j, c)' = Clean(j, c)
                /\ Under(j, c)' = Under(j, c) /\ Ahead(j, c)' = Ahead(j, c)
  BY <1>1 DEF Clean, LastThere, Under, Ahead
<1>3. CopiesOK'
  BY <1>1, CopySame DEF CopiesOK
<1>4. ChunksOK'
  BY <1>2 DEF ChunksOK
<1> QED
  BY <1>3, <1>4

LEMMA TakeKeeps ==
  ASSUME LoaderInv, NEW w \in Workers, Take(w)
  PROVE  LoaderInv'
<1>1. /\ task[w] = 0 /\ next \in Nat \ {0} /\ next <= Len(jobs) /\ ~Incomplete /\ next' = next + 1
      /\ task' = [task EXCEPT ![w] = next] /\ done' = [done EXCEPT ![w] = 0]
      /\ UNCHANGED <<jobs, buffers, streams, dst, result>>
      /\ task \in [Workers -> {Idle, Ended} \union DOMAIN jobs] /\ done \in [Workers -> Nat]
      /\ DOMAIN jobs = 1..Len(jobs) /\ Len(jobs) \in Nat /\ jobs \in Seq(Tensors)
  BY DEF LoaderInv, LoaderTypes, Take, Idle
<1>2. /\ task'[w] = next /\ done'[w] = 0 /\ next \in DOMAIN jobs
      /\ \A v \in Workers \ {w} : task'[v] = task[v] /\ done'[v] = done[v]
  BY <1>1
<1>3. LoaderTypes'
  BY <1>1, <1>2 DEF LoaderInv, LoaderTypes
<1>4. TasksOK'
  <2>1. jobs[next] \in Tensors
    BY <1>1, <1>2
  <2>2. jobs[next].chunks \in Nat \ {0}
    BY <2>1 DEF Tensors
  <2>3. next' > 1 => ~Incomplete'
    BY <1>1 DEF Incomplete
  <2>4. ASSUME NEW v \in Workers
        PROVE  /\ task'[v] = Ended => next' > Len(jobs')
               /\ task'[v] > 0 => /\ jobs'[task'[v]].kind = "large" => done'[v] < jobs'[task'[v]].chunks
                                  /\ jobs'[task'[v]].kind = "host" => done'[v] = 0
                                  /\ done'[v] <= jobs'[task'[v]].chunks
    <3>1. CASE v = w
      BY <1>1, <1>2, <2>2, <3>1 DEF Ended
    <3>2. CASE v # w
      BY <1>1, <1>2, <3>2 DEF LoaderInv, TasksOK, Job
    <3> QED
      BY <3>1, <3>2
  <2> QED
    BY <2>3, <2>4 DEF TasksOK, Job
<1>5. CopiesOK'
  <2>1. \A d \in Devices, s \in 2..3 : \A copy \in OnStream(d, s) :
          /\ copy.worker \in Workers
          /\ copy.worker = w => OfLarge(copy, w) /\ LastThere(copy.job, copy.chunk)
    BY <1>1, OnlyLarge, LeftBehind, WorkerOfCopy DEF LoaderInv, Works
  <2>2. \A d \in Devices, s \in 2..3 : \A copy \in OnStream(d, s) : CopyOK(copy, d, s)'
    BY <1>1, <1>2, <2>1, CopiesKept DEF LoaderInv
  <2> QED
    BY <1>1, <2>2 DEF CopiesOK, OnStream
<1>6. ASSUME NEW j \in DOMAIN jobs, j < next', NEW c \in 1..jobs[j].chunks, Clean(j, c)
      PROVE  Under(j, c)' \/ Ahead(j, c)'
  <2>1. CASE j < next
    <3>1. CASE Under(j, c)
      BY <1>1, <1>6, <3>1, UnderKept, NothingFills DEF OnStream, LoaderInv
    <3>2. CASE Ahead(j, c)
      BY <1>1, <1>2, <3>2 DEF Ahead
    <3> QED
      BY <1>6, <2>1, <3>1, <3>2 DEF LoaderInv, ChunksOK
  <2>2. CASE j = next
    BY <1>2, <2>2 DEF Ahead
  <2> QED
    BY <1>1, <1>6, <2>1, <2>2
<1>7. ChunksOK'
  BY <1>1, <1>6 DEF ChunksOK, Clean, LastThere
<1> QED
  BY <1>1, <1>3, <1>4, <1>5, <1>7, NothingFills, DeliversKept DEF LoaderInv

\* A worker that has queued all of its job goes on.
LEMMA LeaveKeeps ==
  ASSUME LoaderInv, NEW w \in Workers, NEW t \in {Idle, Ended}, t = Ended => next > Len(jobs),
         task' = [task EXCEPT ![w] = t], UNCHANGED <<jobs, next, done, buffers, streams, result>>,
         Fills,
         \/ task[w] = Idle \/ done[w] = Job(w).chunks
         \/ \A c \in 1..Job(w).chunks : dst'[task[w]][c] = <<task[w], c>>,
         ~Works(w, "large"),
         \A d \in Devices, s \in 2..3 : \A copy \in OnStream(d, s) :
           copy.worker = w => OfLarge(copy, w)
  PROVE  LoaderInv'
<1>1. /\ task \in [Workers -> {Idle, Ended} \union DOMAIN jobs]
      /\ DOMAIN jobs = 1..Len(jobs) /\ Len(jobs) \in Nat /\ jobs \in Seq(Tensors)
      /\ done \in [Workers -> Nat]
  BY DEF LoaderInv, LoaderTypes
<1>2. task'[w] = t /\ \A v \in Workers \ {w} : task'[v] = task[v] /\ done'[v] = done[v]
  BY <1>1
<1>3. LoaderTypes'
  BY <1>1 DEF LoaderInv, LoaderTypes, Fills
<1>4. TasksOK'
  <2>1. ASSUME NEW v \in Workers
        PROVE  /\ task'[v] = Ended => next' > Len(jobs')
               /\ task'[v] > 0 => /\ jobs'[task'[v]].kind = "large" => done'[v] < jobs'[task'[v]].chunks
                                  /\ jobs'[task'[v]].kind = "host" => done'[v] = 0
                                  /\ done'[v] <= jobs'[task'[v]].chunks
    <3>1. CASE v = w
      BY <1>2, <3>1 DEF Idle, Ended
    <3>2. CASE v # w
      BY <1>2, <3>2 DEF LoaderInv, TasksOK, Job
    <3> QED
      BY <3>1, <3>2
  <2> QED
    BY <2>1 DEF LoaderInv, TasksOK, Job, Incomplete
<1>5. CopiesOK'
  <2>1. \A d \in Devices, s \in 2..3 : \A copy \in OnStream(d, s) :
          /\ copy.worker \in Workers
          /\ copy.worker = w => LastThere(copy.job, copy.chunk)
    BY WorkerOfCopy, LeftBehind DEF LoaderInv
  <2>2. \A d \in Devices, s \in 2..3 : \A copy \in OnStream(d, s) : CopyOK(copy, d, s)'
    BY <1>2, <2>1, CopiesKept DEF LoaderInv
  <2> QED
    BY <2>2 DEF CopiesOK, OnStream
<1>6. ASSUME NEW j \in DOMAIN jobs, j < next, NEW c \in 1..jobs[j].chunks, Clean(j, c)
      PROVE  Under(j, c)' \/ Ahead(j, c)'
  <2>1. CASE Under(j, c)
    BY <1>6, <2>1, UnderKept DEF OnStream, LoaderInv
  <2>2. CASE Ahead(j, c)
    <3>1. PICK v \in Workers : task[v] = j /\ done[v] < c
      BY <2>2 DEF Ahead
    <3>2. CASE v # w
      BY <1>2, <3>1, <3>2 DEF Ahead
    <3>3. CASE v = w
      <4>1. jobs[j] \in Tensors /\ Job(w) = jobs[j] /\ task[w] # Idle
        BY <1>1, <3>1, <3>3 DEF Job, Idle
      <4>2. jobs[j].chunks \in Nat /\ c \in Nat /\ c <= jobs[j].chunks /\ done[w] \in Nat
        BY <1>1, <4>1 DEF Tensors
      <4>3. dst'[j][c] = <<j, c>>
        BY <3>1, <3>3, <4>1, <4>2
      <4> QED
        BY <4>3 DEF Under
    <3> QED
      BY <3>2, <3>3
  <2> QED
    BY <1>6, <2>1, <2>2 DEF LoaderInv, ChunksOK
<1>7. ChunksOK'
  BY <1>6 DEF ChunksOK, Clean, LastThere, Fills
<1> QED
  BY <1>3, <1>4, <1>5, <1>7, DeliversKept DEF LoaderInv

LEMMA SynchronizeKeeps ==
  ASSUME LoaderInv, NEW w \in Workers, Synchronize(w)
  PROVE  LoaderInv'
<1>1. /\ task[w] > 0 /\ Job(w).kind \in {"small", "bias"} /\ done[w] = 1
      /\ streams[Job(w).device][2] = <<>> /\ task' = [task EXCEPT ![w] = Idle]
      /\ UNCHANGED <<jobs, next, done, buffers, streams, dst, result>>
  BY DEF Synchronize, Works, Synced
<1>2. done[w] = Job(w).chunks
  BY <1>1, JobType DEF LoaderInv
<1>3. ASSUME NEW d \in Devices, NEW s \in 2..3, NEW copy \in OnStream(d, s), copy.worker = w
      PROVE  OfLarge(copy, w)
  <2>1. CopyOK(copy, d, s)
    BY DEF LoaderInv, CopiesOK
  <2>2. CASE task[w] = copy.job /\ d = jobs[copy.job].device /\ s = 2
    <3>1. streams[d][s] = <<>>
      BY <1>1, <2>2 DEF Job
    <3>2. OnStream(d, s) = {}
      BY <3>1 DEF OnStream
    <3> QED
      BY <3>2
  <2> QED
    BY <1>3, <2>1, <2>2 DEF CopyOK, OfLarge, Returns
<1>4. Idle # Ended /\ ~Works(w, "large")
  BY <1>1 DEF Idle, Ended, Works
<1> QED
  BY <1>1, <1>2, <1>3, <1>4, NothingFills, LeaveKeeps

LEMMA EndKeeps ==
  ASSUME LoaderInv, NEW w \in Workers, EndWorker(w)
  PROVE  LoaderInv'
<1>1. /\ task[w] = Idle /\ next > Len(jobs) /\ task' = [task EXCEPT ![w] = Ended]
      /\ UNCHANGED <<jobs, next, done, buffers, streams, dst, result>>
  BY DEF EndWorker
<1>2. \A d \in Devices, s \in 2..3 : \A copy \in OnStream(d, s) :
        copy.worker = w => OfLarge(copy, w)
  BY <1>1, OnlyLarge DEF LoaderInv, Works, Idle
<1>3. ~Works(w, "large")
  BY <1>1 DEF Works, Idle
<1> QED
  BY <1>1, <1>2, <1>3, NothingFills, LeaveKeeps

\* What a worker does spoils no copy that is in flight, and only the last out of a
\* buffer is left behind.
Spares(w) ==
  \A d \in Devices, s \in 2..3 : \A copy \in OnStream(d, s) : copy.worker = w =>
    /\ OfLarge(copy, w)
    /\ LastThere(copy.job, copy.chunk) \/ (task'[w] = copy.job /\ done[w] <= copy.chunk)
    /\ Clean(copy.job, copy.chunk) => buffers'[w][copy.buffer] = buffers[w][copy.buffer]

\* A worker fills a buffer, which no copy it might spoil is to be made from, and
\* queues the copy out of it.
LEMMA QueueKeeps ==
  ASSUME LoaderInv, NEW w \in Workers, NEW q \in 2..3, NEW b \in 0..Tmp,
         task[w] > 0, done[w] < Job(w).chunks, Queued(w, q, b),
         \/ Job(w).kind = "large" /\ b = done[w] % 2
         \/ Job(w).kind = "small" /\ b = Tmp /\ q = 2 /\ task'[w] = task[w]
         \/ Job(w).kind = "bias" /\ b = 0 /\ q = 2 /\ task'[w] = task[w],
         task'[w] = task[w] \/ task'[w] = Idle,
         Job(w).kind = "large" => (task'[w] = Idle <=> done[w] + 1 = Job(w).chunks),
         buffers' \in [Workers -> [0..Tmp -> Seq(Nat)]], buffers'[w][b] = Content(w),
         task' \in [Workers -> {Idle, Ended} \union DOMAIN jobs],
         done' = [done EXCEPT ![w] = done[w] + 1],
         \A v \in Workers \ {w} : task'[v] = task[v] /\ buffers'[v] = buffers[v],
         UNCHANGED <<jobs, next, dst, result>>, Spares(w)
  PROVE  LoaderInv'
<1>0. PICK new, g : /\ new = [worker |-> w, buffer |-> b, job |-> task[w], chunk |-> done[w] + 1]
                    /\ g = Job(w).device
  OBVIOUS
<1>1. /\ task[w] \in DOMAIN jobs /\ task[w] \in Nat /\ Job(w) = jobs[task[w]]
      /\ Job(w).chunks \in Nat \ {0} /\ (Job(w).kind # "large" => Job(w).chunks = 1)
      /\ Job(w).device \in Devices
  BY JobType DEF LoaderInv
<1>2. /\ DOMAIN jobs = 1..Len(jobs) /\ Len(jobs) \in Nat /\ done \in [Workers -> Nat]
      /\ done'[w] = done[w] + 1 /\ \A v \in Workers \ {w} : done'[v] = done[v]
      /\ done' \in [Workers -> Nat]
  BY DEF LoaderInv, LoaderTypes
<1>3. /\ streams' \in [Devices -> [2..3 -> Seq(CopySet)]]
      /\ \A d \in Devices, s \in 2..3 :
           OnStream(d, s)' = OnStream(d, s) \union
             (IF d = g /\ s = q THEN {new} ELSE {})
  BY <1>0, <1>1, QueuedAdds DEF LoaderInv
<1>4. LoaderTypes'
  BY <1>2, <1>3 DEF LoaderInv, LoaderTypes
<1>5. TasksOK'
  <2>1. ASSUME NEW v \in Workers
        PROVE  /\ task'[v] = Ended => next' > Len(jobs')
               /\ task'[v] > 0 => /\ jobs'[task'[v]].kind = "large" => done'[v] < jobs'[task'[v]].chunks
                                  /\ jobs'[task'[v]].kind = "host" => done'[v] = 0
                                  /\ done'[v] <= jobs'[task'[v]].chunks
    <3>1. CASE v = w
      <4>1. task'[w] # Ended /\ (task'[w] > 0 => task'[w] = task[w])
        BY <1>1 DEF Idle, Ended
      <4>2. Job(w).kind = "large" /\ task'[w] = task[w] => done[w] + 1 < Job(w).chunks
        BY <1>1, <1>2 DEF Idle
      <4> QED
        BY <1>1, <1>2, <3>1, <4>1, <4>2
    <3>2. CASE v # w
      BY <1>2, <3>2 DEF LoaderInv, TasksOK, Job
    <3> QED
      BY <3>1, <3>2
  <2> QED
    BY <2>1 DEF LoaderInv, TasksOK, Job, Incomplete
<1>6. CopiesOK'
  <2>1. \A d \in Devices, s \in 2..3 : \A copy \in OnStream(d, s) :
          /\ copy.worker \in Workers
          /\ copy.worker = w => LastThere(copy.job, copy.chunk) \/
                                  (task'[w] = copy.job /\ done'[w] <= copy.chunk + 1)
    <3> SUFFICES ASSUME NEW d \in Devices, NEW s \in 2..3, NEW copy \in OnStream(d, s)
                 PROVE  /\ copy.worker \in Workers
                        /\ copy.worker = w => LastThere(copy.job, copy.chunk) \/
                             (task'[w] = copy.job /\ done'[w] <= copy.chunk + 1)
      OBVIOUS
    <3>1. copy.worker \in Workers /\ copy.chunk \in Nat
      BY WorkerOfCopy DEF LoaderInv, CopySet
    <3>2. copy.worker = w => LastThere(copy.job, copy.chunk) \/
                              (task'[w] = copy.job /\ done[w] <= copy.chunk)
      BY DEF Spares
    <3> QED
      BY <1>2, <3>1, <3>2
  <2>2. \A d \in Devices, s \in 2..3 : \A copy \in OnStream(d, s) : CopyOK(copy, d, s)'
    <3>1. \A v \in Workers \ {w} :
            task'[v] = task[v] /\ done'[v] = done[v] /\ buffers'[v] = buffers[v]
      BY <1>2
    <3>2. CopiesOK /\ jobs' = jobs
      BY DEF LoaderInv
    <3>3. \A d \in Devices, s \in 2..3 : \A copy \in OnStream(d, s) : copy.worker = w =>
            /\ OfLarge(copy, w)
            /\ Clean(copy.job, copy.chunk) => buffers'[w][copy.buffer] = buffers[w][copy.buffer]
      BY DEF Spares
    <3> QED
      BY <2>1, <3>1, <3>2, <3>3, CopiesKept
  <2>3. CopyOK(new, g, q)'
    <3>0. new.worker = w /\ new.buffer = b /\ new.job = task[w] /\ new.chunk = done[w] + 1
      BY <1>0
    <3>1. new.job \in DOMAIN jobs' /\ new.chunk \in 1..jobs'[new.job].chunks
      BY <1>1, <1>2, <3>0
    <3>2. buffers'[new.worker][new.buffer] = <<new.job, new.chunk>>
      BY <3>0 DEF Content
    <3>3. \/ /\ jobs'[new.job].kind = "large" /\ new.buffer = (new.chunk - 1) % 2
             /\ LastThere(new.job, new.chunk)' \/ Returns(new)'
          \/ /\ \/ jobs'[new.job].kind = "small" /\ new.buffer = Tmp
                \/ jobs'[new.job].kind = "bias" /\ new.buffer = 0
             /\ task'[new.worker] = new.job /\ done'[new.worker] = 1
             /\ g = jobs'[new.job].device /\ q = 2
      <4>1. Job(w).kind # "large" => done[w] = 0
        BY <1>1, <1>2
      <4>2. CASE Job(w).kind = "large"
        <5>1. new.buffer = (new.chunk - 1) % 2
          <6>1. new.chunk - 1 = done[w]
            BY <1>2, <3>0
          <6>2. new.buffer = done[w] % 2
            BY <3>0, <4>2
          <6> QED
            BY <6>1, <6>2
        <5>2. LastThere(new.job, new.chunk)' \/ Returns(new)'
          <6>1. task'[w] = Idle => LastThere(new.job, new.chunk)'
            BY <1>1, <1>2, <3>0, <4>2 DEF LastThere
          <6>2. task'[w] # Idle => Returns(new)'
            BY <1>2, <3>0 DEF Returns
          <6> QED
            BY <6>1, <6>2
        <5> QED
          BY <1>1, <3>0, <4>2, <5>1, <5>2
      <4>3. CASE Job(w).kind # "large"
        BY <1>0, <1>1, <1>2, <3>0, <4>1, <4>3
      <4> QED
        BY <4>2, <4>3
    <3> QED
      BY <3>1, <3>2, <3>3 DEF CopyOK
  <2>4. ASSUME NEW d \in Devices, NEW s \in 2..3, NEW copy \in OnStream(d, s)'
        PROVE  CopyOK(copy, d, s)'
    <3>1. copy \in OnStream(d, s) \/ (d = g /\ s = q /\ copy = new)
      BY <1>3
    <3> QED
      BY <2>2, <2>3, <3>1
  <2> QED
    BY <2>4 DEF CopiesOK
<1>7. ASSUME NEW j \in DOMAIN jobs, j < next, NEW c \in 1..jobs[j].chunks, Clean(j, c)
      PROVE  Under(j, c)' \/ Ahead(j, c)'
  <2>1. CASE Under(j, c)
    BY <1>3, <1>7, <2>1, UnderKept, NothingFills DEF LoaderInv
  <2>2. CASE Ahead(j, c)
    <3>1. PICK v \in Workers : task[v] = j /\ done[v] < c
      BY <2>2 DEF Ahead
    <3>2. CASE v = w /\ c = done[w] + 1
      <4>1. new.job = j /\ new.chunk = c
        BY <1>0, <3>1, <3>2
      <4>2. g \in Devices /\ new \in OnStream(g, q)'
        BY <1>0, <1>1, <1>3
      <4> QED
        BY <4>1, <4>2 DEF Under
    <3>3. CASE v = w /\ c # done[w] + 1
      <4>1. c \in Nat /\ done[w] \in Nat /\ done[w] + 1 < c /\ c <= Job(w).chunks
        BY <1>1, <1>2, <3>1, <3>3
      <4>2. task'[w] = j
        <5>1. done[w] + 1 # Job(w).chunks /\ Job(w).kind = "large"
          BY <1>1, <4>1
        <5> QED
          BY <3>1, <3>3, <5>1
      <4> QED
        BY <1>2, <4>1, <4>2 DEF Ahead
    <3>4. CASE v # w
      BY <1>2, <3>1, <3>4 DEF Ahead
    <3> QED
      BY <3>2, <3>3, <3>4
  <2> QED
    BY <1>7, <2>1, <2>2 DEF LoaderInv, ChunksOK
<1>8. ChunksOK'
  BY <1>7 DEF ChunksOK, Clean, LastThere
<1> QED
  BY <1>4, <1>5, <1>6, <1>8, NothingFills, DeliversKept DEF LoaderInv

LEMMA ContentType ==
  ASSUME LoaderTypes, NEW w \in Workers, task[w] > 0
  PROVE  Content(w) \in Seq(Nat)
<1>1. task[w] \in Nat /\ done[w] + 1 \in Nat
  BY JobType DEF LoaderTypes
<1> QED
  BY <1>1 DEF Content

LEMMA LoadChunkKeeps ==
  ASSUME LoaderInv, NEW w \in Workers, LoadChunk(w)
  PROVE  LoaderInv'
<1> DEFINE b == done[w] % 2
<1>1. /\ task[w] > 0 /\ Job(w).kind = "large" /\ ~InFlight(w, b) /\ Queued(w, 2 + b, b)
      /\ buffers' = [buffers EXCEPT ![w][b] = Content(w)]
      /\ done' = [done EXCEPT ![w] = done[w] + 1]
      /\ task' = [task EXCEPT ![w] = IF done'[w] = Job(w).chunks THEN Idle ELSE task[w]]
      /\ UNCHANGED <<jobs, next, dst, result>>
  BY DEF LoadChunk, MayRefill, Works
<1>2. /\ done \in [Workers -> Nat] /\ task \in [Workers -> {Idle, Ended} \union DOMAIN jobs]
      /\ buffers \in [Workers -> [0..Tmp -> Seq(Nat)]] /\ DOMAIN jobs = 1..Len(jobs)
  BY DEF LoaderInv, LoaderTypes
<1>3. b \in {0, 1} /\ b \in 0..Tmp /\ 2 + b \in 2..3
  BY <1>2 DEF Tmp
<1>4. done[w] < Job(w).chunks
  BY <1>1 DEF LoaderInv, TasksOK
<1>5. Content(w) \in Seq(Nat)
  BY <1>1, ContentType DEF LoaderInv
<1> HIDE DEF b
<1>6. /\ buffers' \in [Workers -> [0..Tmp -> Seq(Nat)]] /\ buffers'[w][b] = Content(w)
      /\ \A v \in Workers \ {w} : buffers'[v] = buffers[v]
      /\ \A a \in 0..Tmp : a # b => buffers'[w][a] = buffers[w][a]
  BY <1>1, <1>2, <1>3, <1>5
<1>7. /\ task' \in [Workers -> {Idle, Ended} \union DOMAIN jobs]
      /\ task'[w] = task[w] \/ task'[w] = Idle
      /\ task'[w] = Idle <=> done[w] + 1 = Job(w).chunks
      /\ \A v \in Workers \ {w} : task'[v] = task[v]
  <2>1. done'[w] = done[w] + 1 /\ task[w] # Idle
    BY <1>1, <1>2 DEF Idle
  <2> QED
    BY <1>1, <1>2, <2>1
<1>8. ASSUME NEW d \in Devices, NEW s \in 2..3, NEW copy \in OnStream(d, s), copy.worker = w
      PROVE  /\ OfLarge(copy, w)
             /\ LastThere(copy.job, copy.chunk) \/ (task'[w] = copy.job /\ done[w] <= copy.chunk)
             /\ Clean(copy.job, copy.chunk) => buffers'[w][copy.buffer] = buffers[w][copy.buffer]
  <2>1. OfLarge(copy, w)
    BY <1>1, <1>8, OnlyLarge DEF LoaderInv, Works
  <2>2. copy.buffer # b
    BY <1>1, <1>8 DEF InFlight, OnStream
  <2>3. copy.buffer \in 0..Tmp /\ copy.chunk \in Nat
    BY WorkerOfCopy DEF LoaderInv, CopySet
  <2>4. Clean(copy.job, copy.chunk) => buffers'[w][copy.buffer] = buffers[w][copy.buffer]
    BY <1>6, <2>2, <2>3
  <2>5. CASE ~LastThere(copy.job, copy.chunk)
    <3>1. task[w] = copy.job /\ done[w] <= copy.chunk + 1 /\ copy.buffer = (copy.chunk - 1) % 2
      BY <2>1, <2>5 DEF OfLarge
    <3>2. done[w] # copy.chunk + 1
      BY <1>2, <2>2, <2>3, <3>1 DEF b
    <3>3. done[w] \in Nat /\ done[w] <= copy.chunk
      BY <1>2, <2>3, <3>1, <3>2
    <3>4. task'[w] # Idle
      <4>1. copy.chunk + 2 <= Job(w).chunks
        <5>1. Job(w).chunks \in Nat
          BY <1>1, JobType DEF LoaderInv
        <5> QED
          BY <2>3, <2>5, <3>1, <5>1 DEF LastThere, Job
      <4>2. Job(w).chunks \in Nat
        BY <1>1, JobType DEF LoaderInv
      <4> QED
        BY <1>7, <2>3, <3>3, <4>1, <4>2
    <3> QED
      BY <1>7, <2>1, <2>4, <3>1, <3>3, <3>4
  <2> QED
    BY <2>1, <2>4, <2>5
<1>9. Job(w).kind = "large" /\ b = done[w] % 2
  BY <1>1 DEF b
<1>10. /\ task[w] > 0 /\ done' = [done EXCEPT ![w] = done[w] + 1]
       /\ UNCHANGED <<jobs, next, dst, result>> /\ Queued(w, 2 + b, b)
  BY <1>1
<1>11. Spares(w)
  BY <1>8 DEF Spares
<1> QED
  BY <1>3, <1>4, <1>6, <1>7, <1>9, <1>10, <1>11, QueueKeeps

LEMMA LoadSmallKeeps ==
  ASSUME LoaderInv, NEW w \in Workers, LoadSmall(w)
  PROVE  LoaderInv'
<1>1. /\ task[w] > 0 /\ Job(w).kind = "small" /\ done[w] = 0 /\ Queued(w, 2, Tmp)
      /\ buffers' = [buffers EXCEPT ![w][Tmp] = Content(w)]
      /\ done' = [done EXCEPT ![w] = done[w] + 1] /\ task' = task
      /\ UNCHANGED <<jobs, next, dst, result>>
  BY DEF LoadSmall, Works
<1>2. /\ task \in [Workers -> {Idle, Ended} \union DOMAIN jobs]
      /\ buffers \in [Workers -> [0..Tmp -> Seq(Nat)]]
  BY DEF LoaderInv, LoaderTypes
<1>3. done[w] < Job(w).chunks /\ Tmp \in 0..Tmp /\ 2 \in 2..3 /\ Tmp # 0 /\ Tmp # 1
  BY <1>1, JobType DEF LoaderInv, Tmp
<1>4. Content(w) \in Seq(Nat)
  BY <1>1, ContentType DEF LoaderInv
<1>5. /\ buffers' \in [Workers -> [0..Tmp -> Seq(Nat)]] /\ buffers'[w][Tmp] = Content(w)
      /\ \A v \in Workers \ {w} : buffers'[v] = buffers[v]
      /\ \A a \in 0..Tmp : a # Tmp => buffers'[w][a] = buffers[w][a]
  BY <1>1, <1>2, <1>3, <1>4
<1>6. ASSUME NEW d \in Devices, NEW s \in 2..3, NEW copy \in OnStream(d, s), copy.worker = w
      PROVE  /\ OfLarge(copy, w) /\ LastThere(copy.job, copy.chunk)
             /\ Clean(copy.job, copy.chunk) => buffers'[w][copy.buffer] = buffers[w][copy.buffer]
  <2>1. OfLarge(copy, w) /\ LastThere(copy.job, copy.chunk)
    BY <1>1, <1>6, OnlyLarge, LeftBehind DEF LoaderInv, Works
  <2>2. copy.buffer \in 0..Tmp /\ copy.buffer # Tmp
    BY <2>1, WorkerOfCopy DEF LoaderInv, OfLarge, Tmp
  <2> QED
    BY <1>5, <2>1, <2>2
<1>7. Spares(w)
  BY <1>6 DEF Spares
<1> QED
  BY <1>1, <1>2, <1>3, <1>5, <1>7, QueueKeeps

\* The converted bias may spoil buffer 0 for a large transfer, which is not clean.
LEMMA LoadBiasKeeps ==
  ASSUME LoaderInv, NEW w \in Workers, LoadBias(w)
  PROVE  LoaderInv'
<1>1. /\ task[w] > 0 /\ Job(w).kind = "bias" /\ done[w] = 0 /\ Queued(w, 2, 0)
      /\ buffers' = [buffers EXCEPT ![w] = [@ EXCEPT ![0] = Content(w), ![Tmp] = Content(w)]]
      /\ done' = [done EXCEPT ![w] = done[w] + 1] /\ task' = task
      /\ UNCHANGED <<jobs, next, dst, result>>
  BY DEF LoadBias, Works
<1>2. /\ task \in [Workers -> {Idle, Ended} \union DOMAIN jobs]
      /\ buffers \in [Workers -> [0..Tmp -> Seq(Nat)]]
  BY DEF LoaderInv, LoaderTypes
<1>3. done[w] < Job(w).chunks /\ 0 \in 0..Tmp /\ 2 \in 2..3 /\ Tmp # 0
  BY <1>1, JobType DEF LoaderInv, Tmp
<1>4. Content(w) \in Seq(Nat)
  BY <1>1, ContentType DEF LoaderInv
<1>5. /\ buffers' \in [Workers -> [0..Tmp -> Seq(Nat)]] /\ buffers'[w][0] = Content(w)
      /\ \A v \in Workers \ {w} : buffers'[v] = buffers[v]
  BY <1>1, <1>2, <1>3, <1>4
<1>6. ASSUME NEW d \in Devices, NEW s \in 2..3, NEW copy \in OnStream(d, s), copy.worker = w
      PROVE  /\ OfLarge(copy, w) /\ LastThere(copy.job, copy.chunk)
             /\ Clean(copy.job, copy.chunk) => buffers'[w][copy.buffer] = buffers[w][copy.buffer]
  <2>1. OfLarge(copy, w) /\ LastThere(copy.job, copy.chunk)
    BY <1>1, <1>6, OnlyLarge, LeftBehind DEF LoaderInv, Works
  <2>2. task[w] \in DOMAIN jobs /\ jobs[task[w]].kind = "bias"
    BY <1>1, JobType DEF LoaderInv, Job
  <2>3. CASE copy.chunk % 2 = 1
    <3>1. ~Clean(copy.job, copy.chunk)
      BY <2>1, <2>2, <2>3 DEF Clean, OfLarge
    <3> QED
      BY <2>1, <3>1
  <2>4. CASE copy.chunk % 2 # 1
    <3>1. copy.buffer = 1
      <4>1. copy.chunk \in Nat
        BY WorkerOfCopy DEF LoaderInv, CopySet
      <4> QED
        BY <2>1, <2>4, <4>1 DEF OfLarge
    <3>2. buffers'[w][1] = buffers[w][1]
      BY <1>1, <1>2 DEF Tmp
    <3> QED
      BY <2>1, <3>1, <3>2
  <2> QED
    BY <2>3, <2>4
<1>7. PICK b, q : b = 0 /\ q = 2
  OBVIOUS
<1>8. /\ b \in 0..Tmp /\ q \in 2..3 /\ Queued(w, q, b) /\ buffers'[w][b] = Content(w)
      /\ Job(w).kind = "bias" /\ b = 0 /\ q = 2 /\ task'[w] = task[w] /\ Job(w).kind # "large"
      /\ task' \in [Workers -> {Idle, Ended} \union DOMAIN jobs]
      /\ \A v \in Workers \ {w} : task'[v] = task[v] /\ buffers'[v] = buffers[v]
  BY <1>1, <1>2, <1>3, <1>5, <1>7
<1>9. /\ \/ Job(w).kind = "large" /\ b = done[w] % 2
         \/ Job(w).kind = "small" /\ b = Tmp /\ q = 2 /\ task'[w] = task[w]
         \/ Job(w).kind = "bias" /\ b = 0 /\ q = 2 /\ task'[w] = task[w]
      /\ task'[w] = task[w] \/ task'[w] = Idle
      /\ Job(w).kind = "large" => (task'[w] = Idle <=> done[w] + 1 = Job(w).chunks)
  BY <1>8
<1>10. /\ task[w] > 0 /\ done[w] < Job(w).chunks /\ done' = [done EXCEPT ![w] = done[w] + 1]
      /\ UNCHANGED <<jobs, next, dst, result>>
  BY <1>1, <1>3
<1>11. Spares(w)
  BY <1>6 DEF Spares
<1> QED
  BY <1>5, <1>8, <1>9, <1>10, <1>11, QueueKeeps

LEMMA ReadHostKeeps ==
  ASSUME LoaderInv, NEW w \in Workers, ReadHost(w)
  PROVE  LoaderInv'
<1>1. /\ task[w] > 0 /\ Job(w).kind = "host" /\ done[w] = 0 /\ task' = [task EXCEPT ![w] = Idle]
      /\ dst' = [dst EXCEPT ![task[w]] = [@ EXCEPT ![1] = Content(w)]]
      /\ UNCHANGED <<jobs, next, done, buffers, streams, result>>
  BY DEF ReadHost, Works, LoaderInv, TasksOK
<1>2. task[w] \in DOMAIN jobs /\ Job(w) = jobs[task[w]] /\ Job(w).chunks = 1
  BY <1>1, JobType DEF LoaderInv
<1>3. Content(w) = <<task[w], 1>>
  BY <1>1 DEF Content
<1>4. DOMAIN dst = DOMAIN jobs /\ \A j \in DOMAIN jobs : DOMAIN dst[j] = 1..jobs[j].chunks
  BY DEF LoaderInv, LoaderTypes
<1>5. /\ dst'[task[w]] = [dst[task[w]] EXCEPT ![1] = <<task[w], 1>>]
      /\ \A j \in DOMAIN jobs : j # task[w] => dst'[j] = dst[j]
      /\ DOMAIN dst' = DOMAIN dst
  BY <1>1, <1>2, <1>3, <1>4
<1>6. dst'[task[w]][1] = <<task[w], 1>>
  BY <1>2, <1>4, <1>5
<1>7. Fills
  <2>1. ASSUME NEW j \in DOMAIN jobs
        PROVE  /\ DOMAIN dst'[j] = DOMAIN dst[j]
               /\ \A c \in DOMAIN dst[j] : dst[j][c] = <<j, c>> => dst'[j][c] = <<j, c>>
    BY <1>5
  <2> QED
    BY <1>1, <1>5, <2>1 DEF Fills
<1>8. \A d \in Devices, s \in 2..3 : \A copy \in OnStream(d, s) :
        copy.worker = w => OfLarge(copy, w)
  BY <1>1, OnlyLarge DEF LoaderInv
<1>9. \A c \in 1..Job(w).chunks : dst'[task[w]][c] = <<task[w], c>>
  BY <1>2, <1>6
<1>10. Idle # Ended /\ ~Works(w, "large")
  BY <1>1 DEF Idle, Ended, Works
<1> QED
  BY <1>1, <1>7, <1>8, <1>9, <1>10, LeaveKeeps

\* A copy brings what it was queued for, if no bias has spoiled it.
LEMMA CopyKeeps ==
  ASSUME LoaderInv, NEW d \in Devices, NEW s \in 2..3, Copy(d, s)
  PROVE  LoaderInv'
<1>0. PICK copy : copy = Head(streams[d][s])
  OBVIOUS
<1>1. /\ streams[d][s] # <<>>
      /\ dst' = [dst EXCEPT ![copy.job] =
                   [@ EXCEPT ![copy.chunk] = buffers[copy.worker][copy.buffer]]]
      /\ streams' = [streams EXCEPT ![d] = [@ EXCEPT ![s] = Tail(streams[d][s])]]
      /\ UNCHANGED <<jobs, next, task, done, buffers, result>>
  BY <1>0 DEF Copy
<1>2. streams \in [Devices -> [2..3 -> Seq(CopySet)]] /\ streams[d][s] \in Seq(CopySet)
  BY DEF LoaderInv, LoaderTypes
<1>3. Tail(streams[d][s]) \in Seq(CopySet)
  BY <1>1, <1>2
<1>4. streams' \in [Devices -> [2..3 -> Seq(CopySet)]]
  BY <1>1, <1>2, <1>3
<1>5. /\ streams'[d][s] = Tail(streams[d][s])
      /\ \A g \in Devices, r \in 2..3 : <<g, r>> # <<d, s>> => streams'[g][r] = streams[g][r]
  BY <1>1, <1>2
<1>6. OnStream(d, s) = OnStream(d, s)' \union {copy}
  <2> DEFINE old == streams[d][s]
  <2>1. old \in Seq(CopySet) /\ old # <<>> /\ copy = Head(old) /\ streams'[d][s] = Tail(old)
    BY <1>0, <1>1, <1>2, <1>5
  <2>2. OnStream(d, s) = {old[i] : i \in DOMAIN old}
        /\ OnStream(d, s)' = {Tail(old)[i] : i \in DOMAIN Tail(old)}
    BY <2>1 DEF OnStream
  <2> HIDE DEF old
  <2> QED
    BY <2>1, <2>2, TailRange
<1>7. \A g \in Devices, r \in 2..3 : /\ OnStream(g, r)' \subseteq OnStream(g, r)
                                     /\ OnStream(g, r) \subseteq OnStream(g, r)' \union {copy}
  <2> SUFFICES ASSUME NEW g \in Devices, NEW r \in 2..3
               PROVE  /\ OnStream(g, r)' \subseteq OnStream(g, r)
                      /\ OnStream(g, r) \subseteq OnStream(g, r)' \union {copy}
    OBVIOUS
  <2>1. CASE g = d /\ r = s
    BY <1>6, <2>1
  <2>2. CASE ~(g = d /\ r = s)
    BY <1>5, <2>2 DEF OnStream
  <2> QED
    BY <2>1, <2>2
<1>8. /\ copy.job \in DOMAIN jobs /\ copy.chunk \in 1..jobs[copy.job].chunks
      /\ Clean(copy.job, copy.chunk) =>
           buffers[copy.worker][copy.buffer] = <<copy.job, copy.chunk>>
  <2>1. CopyOK(copy, d, s)
    BY <1>6 DEF LoaderInv, CopiesOK
  <2> QED
    BY <2>1 DEF CopyOK
<1>9. DOMAIN dst = DOMAIN jobs /\ \A j \in DOMAIN jobs : DOMAIN dst[j] = 1..jobs[j].chunks
  BY DEF LoaderInv, LoaderTypes
<1>10. /\ DOMAIN dst' = DOMAIN dst
       /\ dst'[copy.job] = [dst[copy.job] EXCEPT ![copy.chunk] = buffers[copy.worker][copy.buffer]]
       /\ \A j \in DOMAIN jobs : j # copy.job => dst'[j] = dst[j]
  BY <1>1, <1>8, <1>9
<1>11. Clean(copy.job, copy.chunk) => dst'[copy.job][copy.chunk] = <<copy.job, copy.chunk>>
  BY <1>8, <1>9, <1>10
<1>12. Fills
  <2>1. ASSUME NEW j \in DOMAIN jobs
        PROVE  /\ DOMAIN dst'[j] = DOMAIN dst[j]
               /\ \A c \in DOMAIN dst[j] :
                    Clean(j, c) /\ dst[j][c] = <<j, c>> => dst'[j][c] = <<j, c>>
    BY <1>8, <1>10
  <2> QED
    BY <1>1, <1>10, <2>1 DEF Fills
<1>13. LoaderTypes'
  BY <1>1, <1>4, <1>12 DEF LoaderInv, LoaderTypes, Fills
<1>14. TasksOK'
  BY <1>1 DEF LoaderInv, TasksOK, Job, Incomplete
<1>15. CopiesOK'
  <2>1. \A g \in Devices, r \in 2..3 : \A k \in OnStream(g, r)' : CopyOK(k, g, r)
    BY <1>7 DEF LoaderInv, CopiesOK
  <2> QED
    BY <1>1, <2>1, CopySame DEF CopiesOK
<1>16. ASSUME NEW j \in DOMAIN jobs, j < next, NEW c \in 1..jobs[j].chunks, Clean(j, c)
       PROVE  Under(j, c)' \/ Ahead(j, c)'
  <2>1. CASE dst[j][c] = <<j, c>>
    BY <1>9, <1>12, <1>16, <2>1 DEF Under, Fills
  <2>2. CASE \E g \in Devices, r \in 2..3 : \E k \in OnStream(g, r) : k.job = j /\ k.chunk = c
    <3>1. PICK g \in Devices, r \in 2..3 : \E k \in OnStream(g, r) : k.job = j /\ k.chunk = c
      BY <2>2
    <3>2. PICK k \in OnStream(g, r) : k.job = j /\ k.chunk = c
      BY <3>1
    <3>3. CASE k = copy
      BY <1>11, <1>16, <3>2, <3>3 DEF Under
    <3>4. CASE k # copy
      BY <1>7, <3>2, <3>4 DEF Under
    <3> QED
      BY <3>3, <3>4
  <2>3. CASE Ahead(j, c)
    BY <1>1, <2>3 DEF Ahead
  <2> QED
    BY <1>16, <2>1, <2>2, <2>3 DEF LoaderInv, ChunksOK, Under
<1>17. ChunksOK'
  BY <1>1, <1>16 DEF ChunksOK, Clean, LastThere
<1> QED
  BY <1>1, <1>12, <1>13, <1>14, <1>15, <1>17, DeliversKept DEF LoaderInv

\* When every worker has ended and the devices are synchronized, all has arrived.
LEMMA VerifyKeeps ==
  ASSUME LoaderAssumed, LoaderInv, Verify
  PROVE  LoaderInv'
<1>1. /\ UNCHANGED <<jobs, next, task, done, buffers, streams, dst>>
      /\ result = "none" /\ \A w \in Workers : task[w] = Ended
      /\ \A d \in Devices, s \in 2..3 : streams[d][s] = <<>>
      /\ \E sample \in SUBSET DOMAIN jobs :
           result' = IF \A j \in sample : Arrived(j) THEN "loaded" ELSE "refused"
  BY DEF Verify
<1>2. /\ DOMAIN jobs = 1..Len(jobs) /\ Len(jobs) \in Nat /\ next \in Nat \ {0}
      /\ DOMAIN dst = DOMAIN jobs /\ \A j \in DOMAIN jobs : DOMAIN dst[j] = 1..jobs[j].chunks
  BY DEF LoaderInv, LoaderTypes
<1>3. next > Len(jobs)
  <2>1. 1 \in Workers
    BY DEF LoaderAssumed, Workers
  <2> QED
    BY <1>1, <2>1 DEF LoaderInv, TasksOK
<1>4. ~Incomplete
  <2>1. CASE Len(jobs) = 0
    BY <1>2, <2>1 DEF Incomplete
  <2>2. CASE Len(jobs) # 0
    BY <1>2, <1>3, <2>2 DEF LoaderInv, TasksOK
  <2> QED
    BY <2>1, <2>2
<1>5. ASSUME NEW j \in DOMAIN jobs, NEW c \in 1..jobs[j].chunks, Clean(j, c)
      PROVE  dst[j][c] = <<j, c>>
  <2>1. Under(j, c) \/ Ahead(j, c)
    BY <1>2, <1>3, <1>5 DEF LoaderInv, ChunksOK
  <2>2. ~Ahead(j, c)
    BY <1>1, <1>2 DEF Ahead, Ended
  <2>3. \A d \in Devices, s \in 2..3 : OnStream(d, s) = {}
    BY <1>1 DEF OnStream
  <2> QED
    BY <2>1, <2>2, <2>3 DEF Under
<1>6. /\ result' \in {"loaded", "refused"}
      /\ result' = "refused" => \E j \in DOMAIN jobs : \E c \in DOMAIN dst[j] : ~Clean(j, c)
  <2>1. PICK sample \in SUBSET DOMAIN jobs :
          result' = IF \A j \in sample : Arrived(j) THEN "loaded" ELSE "refused"
    BY <1>1
  <2>2. ASSUME NEW j \in DOMAIN jobs, ~Arrived(j)
        PROVE  \E c \in DOMAIN dst[j] : ~Clean(j, c)
    BY <1>2, <1>5, <2>2 DEF Arrived
  <2> QED
    BY <2>1, <2>2
<1>7. Delivers'
  <2>1. \A j, c : Clean(j, c)' = Clean(j, c)
    BY <1>1 DEF Clean, LastThere
  <2> QED
    BY <1>1, <1>2, <1>4, <1>5, <1>6, <2>1 DEF Delivers, Incomplete
<1>8. LoaderTypes' /\ TasksOK'
  BY <1>1, <1>6 DEF LoaderInv, LoaderTypes, TasksOK, Job, Incomplete
<1>9. CopiesOK' /\ ChunksOK'
  BY <1>1, RestKept DEF LoaderInv
<1> QED
  BY <1>7, <1>8, <1>9 DEF LoaderInv

LEMMA LoaderKeeps ==
  ASSUME LoaderAssumed, LoaderInv, [LoaderNext]_loader
  PROVE  LoaderInv'
<1>1. ASSUME NEW w \in Workers, Work(w)
      PROVE  LoaderInv'
  BY <1>1, TakeKeeps, ReadHostKeeps, LoadChunkKeeps, LoadSmallKeeps, LoadBiasKeeps,
     SynchronizeKeeps, EndKeeps DEF Work
<1>2. CASE Refuse
  <2>1. /\ UNCHANGED <<jobs, next, task, done, buffers, streams, dst>>
        /\ Incomplete /\ result' = "refused"
    BY <1>2 DEF Refuse
  <2>2. Delivers'
    BY <2>1 DEF Delivers, Incomplete, Clean, LastThere
  <2>3. LoaderTypes' /\ TasksOK'
    BY <2>1 DEF LoaderInv, LoaderTypes, TasksOK, Job, Incomplete
  <2>4. CopiesOK' /\ ChunksOK'
    BY <2>1, RestKept DEF LoaderInv
  <2> QED
    BY <2>2, <2>3, <2>4 DEF LoaderInv
<1>3. CASE UNCHANGED loader
  <2>1. LoaderTypes' /\ TasksOK' /\ Delivers'
    BY <1>3 DEF loader, LoaderInv, LoaderTypes, TasksOK, Job, Incomplete, Delivers, Clean,
            LastThere
  <2>2. CopiesOK' /\ ChunksOK'
    BY <1>3, RestKept DEF loader, LoaderInv
  <2> QED
    BY <2>1, <2>2 DEF LoaderInv
<1> QED
  BY <1>1, <1>2, <1>3, CopyKeeps, VerifyKeeps DEF LoaderNext

\* When load() has returned, every chunk of every tensor is where it belongs, whatever
\* the tensors, however many workers, in whatever order copies are done, save that in
\* a checkpoint that has a router bias the last chunk of a large tensor that went
\* through buffer 0 may be lost.
THEOREM CleanTensorsArrive ==
  ASSUME NWorkers \in Nat \ {0}, JobLists \subseteq Seq(Tensors)
  PROVE  LoaderSpec => []Delivers
<1>1. LoaderAssumed
  BY DEF LoaderAssumed
<1>2. LoaderInit => LoaderInv
  BY <1>1, StartedSound DEF LoaderInit, LoaderAssumed
<1>3. LoaderInv /\ [LoaderNext]_loader => LoaderInv'
  BY <1>1, LoaderKeeps
<1>4. LoaderInv => Delivers
  BY DEF LoaderInv
<1> QED
  BY <1>2, <1>3, <1>4, PTL DEF LoaderSpec

=============================================================================
