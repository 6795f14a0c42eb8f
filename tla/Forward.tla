------------------------------- MODULE Forward -------------------------------
(***************************************************************************)
(* A call on its way through the layers (run_chunk, layer_step, ffn_layer,   *)
(* final_head in src/engine/runner.cpp).  One host thread queues operations  *)
(* on the stream of each device and on one for copies of experts, and goes   *)
(* on; the devices run them, each stream in order.  Attention and the shared *)
(* expert are the first device's, the experts the second's; what goes from   *)
(* one to the other goes through pinned memory that the host waits for.      *)
(*                                                                         *)
(* A value is the step, a call and a layer, that it was computed for; the    *)
(* weights in a slot are of no call.  An operation takes time: it reads its  *)
(* operands from its beginning to its end, and what it writes is half        *)
(* written in between.  Pageable memory is taken when a copy of it is queued.*)
(***************************************************************************)
EXTENDS Integers, Sequences

CONSTANTS
  Layers,       \* the layers in order, "dense" or "moe"
  Slots,        \* of the pool; a layer asks for one
  Calls         \* bound: chunks and tokens

VARIABLES
  call, layer,  \* where the host is
  todo,         \* what it has yet to do there
  queue,        \* stream -> operations that wait
  running,      \* stream -> the operation it runs, or Idle
  memory,       \* buffer -> value
  map           \* slot -> the layer it was acquired for, 0 for none

forward == <<call, layer, todo, queue, running, memory, map>>

Streams == {"s0", "s1", "dma"}

Nothing == <<>>
Mixed   == <<-1, -1>>       \* made of several steps, or of half a value
Weights(l) == <<0, l>>

Named ==
  {"tokens", "streams", "xf", "shared_out", "pin_h", "x", "routes", "host_routes", "experts",
   "y", "host_y", "ffn_out", "host_logits", "sampled"}

Buffers == Named \union Slots

Idle == [reads |-> Nothing, writes |-> Nothing, good |-> TRUE]

-----------------------------------------------------------------------------
(* What the host does, in the order of the source.                          *)

\* Some buffers, all of one step.
Of(buffers, v) == [b \in buffers |-> v]

\* An operation reads some buffers and writes others; each with its value.
On(s, reads, writes) ==
  [do |-> "queue", stream |-> s, op |-> [reads |-> reads, writes |-> writes, good |-> TRUE]]
Copy(s, from, to, v) == On(s, Of({from}, v), Of({to}, v))
Wait(s)              == [do |-> "wait", stream |-> s]
Read(from, to, v)    == [do |-> "read", from |-> from, to |-> to, value |-> v]
Acquire              == [do |-> "acquire"]
LaunchExperts(v)     == [do |-> "launch", value |-> v]

\* w0.tokens, embed_gather, stream_expand.
Embed(v) == <<On("s0", <<>>, Of({"tokens"}, v)), Copy("s0", "tokens", "streams", v)>>

\* hc_mix, kda_layer or mla_layer, hc_apply, hc_mix.
Attend(v) == <<On("s0", Of({"streams"}, v), Of({"streams", "xf"}, v))>>

\* hc_apply: the streams are those the next layer takes.
Apply(v) ==
  <<On("s0", Of({"streams", "ffn_out"}, v), Of({"streams"}, <<v[1], v[2] + 1>>))>>

DenseMlp(v) == <<Copy("s0", "xf", "ffn_out", v)>>

ToGpu1(v) ==
  <<Copy("s0", "xf", "shared_out", v), Copy("s0", "xf", "pin_h", v), Wait("s0"),
    Copy("s1", "pin_h", "x", v)>>

Route(v) ==
  <<Copy("s1", "x", "routes", v), Copy("s1", "routes", "host_routes", v), Wait("s1"),
    Read("host_routes", "experts", v), Acquire, Wait("dma")>>

\* Mutant: what the experts made is sent on without having come.
SendsUnseen(v) ==
  <<LaunchExperts(v), Copy("s1", "y", "host_y", v), Copy("s0", "host_y", "ffn_out", v)>>

\* The kernel, its result to the host, and what the host waits for before it
\* sends it on.
Experts(v) ==
  <<LaunchExperts(v), Copy("s1", "y", "host_y", v), Wait("s1"),
    Copy("s0", "host_y", "ffn_out", v)>>

AddShared(v) == <<On("s0", Of({"ffn_out", "shared_out"}, v), Of({"ffn_out"}, v))>>

MoeFfn(v) == ToGpu1(v) \o Route(v) \o Experts(v) \o AddShared(v)

LayerStep(v) ==
  Attend(v) \o (IF Layers[v[2]] = "moe" THEN MoeFfn(v) ELSE DenseMlp(v)) \o Apply(v)

\* stream_mean, the head and its copy; the sampler reads what has come.
FinalHead(v) ==
  <<Copy("s0", "streams", "host_logits", v), Wait("s0"), Read("host_logits", "sampled", v)>>

-----------------------------------------------------------------------------

ForwardInit ==
  /\ call = 1 /\ layer = 1 /\ todo = Embed(<<1, 1>>) \o LayerStep(<<1, 1>>)
  /\ queue = [s \in Streams |-> <<>>] /\ running = [s \in Streams |-> Idle]
  /\ memory = [b \in Buffers |-> Nothing]
  /\ map = [s \in Slots |-> 0]

\* What a reader finds in b while stream s runs its operation.
Found(b, s) ==
  IF \E o \in Streams \ {s} : b \in DOMAIN running[o].writes THEN Mixed ELSE memory[b]

IsRight(op, s) ==
  /\ \A b \in DOMAIN op.reads : Found(b, s) = op.reads[b]
  /\ \A b \in DOMAIN op.writes, o \in Streams \ {s} : b \notin DOMAIN running[o].writes

Next(instruction) == todo # <<>> /\ Head(todo).do = instruction /\ todo' = Tail(todo)

Queue ==
  /\ Next("queue")
  /\ LET i == Head(todo) IN queue' = [queue EXCEPT ![i.stream] = Append(@, i.op)]
  /\ UNCHANGED <<call, layer, running, memory, map>>

\* cudaStreamSynchronize, or cudaEventSynchronize for the last copy of an expert.
Synchronize ==
  /\ Next("wait")
  /\ LET s == Head(todo).stream IN queue[s] = <<>> /\ running[s] = Idle
  /\ UNCHANGED <<call, layer, queue, running, memory, map>>

HostRead ==
  /\ Next("read")
  /\ LET i == Head(todo)
     IN  memory' = [memory EXCEPT ![i.to] = IF Found(i.from, "host") = i.value THEN i.value ELSE Mixed]
  /\ UNCHANGED <<call, layer, queue, running, map>>

\* An expert that is absent is copied into any slot of the pool.
AcquireSlot ==
  /\ Next("acquire")
  /\ IF \E s \in Slots : map[s] = layer
     THEN UNCHANGED <<queue, map>>
     ELSE \E s \in Slots :
            /\ map' = [map EXCEPT ![s] = layer]
            /\ queue' = [queue EXCEPT !["dma"] =
                 Append(@, [reads |-> <<>>, writes |-> Of({s}, Weights(layer)), good |-> TRUE])]
  /\ UNCHANGED <<call, layer, running, memory>>

\* The pointer tables hold where the expert is now.
Launch ==
  /\ Next("launch")
  /\ LET v == Head(todo).value
         s == CHOOSE t \in Slots : map[t] = layer
     IN  queue' = [queue EXCEPT !["s1"] =
           Append(@, [reads |-> [b \in {"x", "routes", s} |-> IF b = s THEN Weights(layer) ELSE v],
                      writes |-> Of({"y"}, v), good |-> TRUE])]
  /\ UNCHANGED <<call, layer, running, memory, map>>

NextLayer ==
  /\ todo = <<>> /\ layer < Len(Layers)
  /\ layer' = layer + 1 /\ todo' = LayerStep(<<call, layer'>>)
  /\ UNCHANGED <<call, queue, running, memory, map>>

\* The last chunk of a prompt and every token make logits.
Finish ==
  /\ todo = <<>> /\ layer = Len(Layers)
  /\ layer' = layer + 1 /\ todo' = FinalHead(<<call, layer'>>)
  /\ UNCHANGED <<call, queue, running, memory, map>>

\* Another chunk, without waiting for this one, or another token.
NextCall ==
  /\ todo = <<>> /\ layer >= Len(Layers) /\ call < Calls
  /\ call' = call + 1 /\ layer' = 1
  /\ todo' = Embed(<<call', 1>>) \o LayerStep(<<call', 1>>)
  /\ UNCHANGED <<queue, running, memory, map>>

Begin(s) ==
  /\ running[s] = Idle /\ queue[s] # <<>>
  /\ running' = [running EXCEPT ![s] = [Head(queue[s]) EXCEPT !.good = IsRight(Head(queue[s]), s)]]
  /\ queue' = [queue EXCEPT ![s] = Tail(@)]
  /\ UNCHANGED <<call, layer, todo, memory, map>>

End(s) ==
  LET op == running[s]
  IN /\ op # Idle
     /\ running' = [running EXCEPT ![s] = Idle]
     /\ memory' = [b \in Buffers |->
                     IF b \notin DOMAIN op.writes THEN memory[b]
                     ELSE IF op.good /\ IsRight(op, s) THEN op.writes[b] ELSE Mixed]
     /\ UNCHANGED <<call, layer, todo, queue, map>>

HostStep == Queue \/ Synchronize \/ HostRead \/ AcquireSlot \/ Launch \/ NextLayer \/ Finish \/ NextCall

ForwardNext == HostStep \/ \E s \in Streams : Begin(s) \/ End(s)

ForwardSpec == ForwardInit /\ [][ForwardNext]_forward

-----------------------------------------------------------------------------
(* Properties.                                                             *)

\* slotmgr.cpp:280 "a running MoE kernel has already been synchronised by the
\* caller (the previous layer's y transfer), so reusing its slots here is safe";
\* and so with every buffer that one layer or call uses after the other: nothing
\* is made of what is of another step, is being written, or is written over while
\* it is read, however far the host is ahead and whichever device is slow.
ReadsItsOwn == \A b \in Buffers : memory[b] # Mixed

\* The host never waits for what is not going to come.
ForwardEnded == call = Calls /\ layer > Len(Layers) /\ todo = <<>> /\ memory["sampled"] = <<call, layer>>
=============================================================================
