----------------------------- MODULE PrefixCache ----------------------------
(***************************************************************************)
(* Runner's cross-request prefix cache (src/engine/runner.cpp): the one    *)
(* resident sequence, its position-addressed planes and recurrent (KDA)    *)
(* state, the ring of KDA snapshots, and Runner::generate as it plans the  *)
(* reuse, prefills in chunks, and decodes.                                 *)
(*                                                                         *)
(* Runner::generate is entered under the server's generation lock, so one  *)
(* request is served at a time; its calls are actions of their own because *)
(* the state between them is what the snapshots and the properties are     *)
(* about.  The KDA state is represented by the rows it has consumed.       *)
(***************************************************************************)
EXTENDS Integers, Sequences, FiniteSets

CONSTANTS
  Token,          \* token ids
  Requests,       \* the requests clients may send: [prompt, images]
  NoReq,          \* no request is being served
  Cap,            \* context capacity in rows (--cap)
  MaxChunk,       \* rows per prefill chunk (--chunk)
  POOL_TOKENS,    \* tokens per indexer pool, 4 in the code
  NSnaps,         \* snapshot slots the pinned budget pays for, may be 0
  SnapInterval    \* tokens between snapshots (--prefix-interval)

Slots == 0..(NSnaps - 1)

ASSUME PoolAssumption == POOL_TOKENS \in Nat \ {0}

ASSUME CacheAssumption ==
  /\ Cap \in Nat \ {0} /\ MaxChunk \in Nat \ {0}
  /\ NSnaps \in Nat /\ SnapInterval \in Nat \ {0}
  /\ NoReq \notin Requests
  /\ \A r \in Requests :
       /\ r.prompt \in Seq(Token)
       /\ \A im \in r.images : im.start \in Int /\ im.rows \in Int

-----------------------------------------------------------------------------
(* What the model reads at a position: the token's embedding, overwritten by   *)
(* the image rows that Runner::inject_images copies over it.  An image is a    *)
(* record [start, rows, val]; a row is a token with the images that cover its  *)
(* position.                                                                 *)

Covering(images, p) ==
  {im \in images : im.start <= p /\ p < im.start + im.rows}

\* The row of token t at position p.
RowAt(t, images, p) == <<t, Covering(images, p)>>

\* The rows of a token sequence whose first token is at position p.
RowsFrom(toks, images, p) ==
  [i \in 1..Len(toks) |-> RowAt(toks[i], images, p + i - 1)]

RowsOf(toks, images) == RowsFrom(toks, images, 0)

\* What a token is sampled from: the recurrent (KDA) state, given as the rows
\* it has consumed, and the rows attention can reach.
Logits(state, attended) == [state |-> state, attended |-> attended]

-----------------------------------------------------------------------------
(* The decisions of prefix.hpp, and image_prefix_limit of vision.cpp.  Token i *)
(* of the C++ vectors is element i + 1 of the sequences here; a slot keeps its *)
(* index.  The length of the common prefix and the chosen slot are described   *)
(* by predicates with a unique solution.                                      *)

Empty == -1             \* snap_pos of a slot that holds nothing

\* The last pool boundary strictly before end.
CheckpointBefore(end) ==
  IF end > 0 THEN ((end - 1) \div POOL_TOKENS) * POOL_TOKENS ELSE 0

\* x rounded up to a pool boundary, as prefill does for interval checkpoints.
RoundUpToPool(x) == ((x + POOL_TOKENS - 1) \div POOL_TOKENS) * POOL_TOKENS

\* Mutant: only the images of the resident sequence are scanned.
UnmatchedOld(old, new) == old \ new

\* An image that has no equal in the other request.
Unmatched(old, new) == (old \ new) \union (new \ old)

\* L tokens are shared by the resident history (of which pos rows are computed)
\* and the prompt, and no unmatched image starts below L.
Shares(hist, pos, cached, prompt, images, L) ==
  /\ L <= Len(hist) /\ L <= pos /\ L <= Len(prompt)
  /\ \A im \in Unmatched(cached, images) : L <= im.start
  /\ \A i \in 1..L : prompt[i] = hist[i]

\* L is the length the scan of prefix_plan stops at.
IsCommon(hist, pos, cached, prompt, images, L) ==
  /\ Shares(hist, pos, cached, prompt, images, L)
  /\ ~Shares(hist, pos, cached, prompt, images, L + 1)

\* Mutant: a prompt that is wholly resident is not run at all.
ReuseWhole(common, prompt) == common

\* The last prompt token is always run again: its logits are sampled from.
ReusePoint(common, prompt) ==
  IF common >= Len(prompt) THEN Len(prompt) - 1 ELSE common

\* Mutant: the recurrent state is taken to fit any resident prefix.
ExtendsAnyPrefix(hist, pos, L) == L <= pos

\* The planes and the recurrent state already stand exactly at L.
Extends(hist, pos, L) == L = pos /\ L = Len(hist)

\* Slots whose state may be restored for a prompt that shares L tokens.
Usable(snapPos, L) ==
  {i \in DOMAIN snapPos : /\ snapPos[i] >= 0
                          /\ snapPos[i] <= L
                          /\ snapPos[i] % POOL_TOKENS = 0}

\* Slot i is the one prefix_plan settles on: the newest usable position, the
\* lowest index among equals.
IsBestSlot(snapPos, L, i) ==
  /\ i \in Usable(snapPos, L)
  /\ \A j \in Usable(snapPos, L) :
       snapPos[j] < snapPos[i] \/ (snapPos[j] = snapPos[i] /\ i <= j)

\* Mutant: states past the resume point are kept.
KeepSuffix(snapPos, resume) == snapPos

\* prefix_discard_suffix: states captured past the resume point are dropped.
DiscardSuffix(snapPos, resume) ==
  [i \in DOMAIN snapPos |-> IF snapPos[i] > resume THEN Empty ELSE snapPos[i]]

\* Mutant: latest may still count positions that were dropped.
IsBound(snapPos, latest) ==
  latest >= 0 /\ \A i \in DOMAIN snapPos : snapPos[i] <= latest

\* latest is the newest captured position, 0 when there is none.
IsLatest(snapPos, latest) ==
  /\ latest = 0 \/ \E i \in DOMAIN snapPos : latest = snapPos[i]
  /\ latest >= 0
  /\ \A i \in DOMAIN snapPos : snapPos[i] <= latest

-----------------------------------------------------------------------------
(* The runner.                                                             *)

VARIABLES
  hist,           \* hist_: the resident token sequence
  pos,            \* pos_: rows computed
  cachedImages,   \* cached_images_: images of the resident sequence
  plane,          \* the row stored at each position of the KV planes
  kda,            \* the rows the recurrent state has consumed
  snapPos,        \* snap_pos_: captured position per slot
  snapKda,        \* the state in each slot's pinned buffer
  snapNext,       \* snap_next_: slot the next capture overwrites
  snapLast,       \* snap_last_: newest captured position
  resume,         \* resume_: rows reused by the current request
  logits,         \* the host logits
  req,            \* the request generate() is serving
  phase           \* where generate() stands: "idle", "prefill", "sample"

runner == <<hist, pos, cachedImages, plane, kda>>
snaps  == <<snapPos, snapKda, snapNext, snapLast>>
vars   == <<runner, snaps, resume, logits, req, phase>>

-----------------------------------------------------------------------------
(* Forward pass and reset.                                                 *)

\* run_chunk: the rows of toks are computed at position p, clamped to the
\* capacity.  Planes are written by position, the recurrent state in order.
RunChunk(toks, p, images) ==
  LET run == IF p + Len(toks) > Cap THEN SubSeq(toks, 1, Cap - p) ELSE toks
      new == RowsFrom(run, images, p)
  IN  /\ plane' = [q \in 0..(Cap - 1) |->
                     IF p <= q /\ q < p + Len(run) THEN new[q - p + 1]
                                                   ELSE plane[q]]
      /\ kda' = kda \o new

\* final_head: logits of the last row, which attends to every row before it.
FinalHead(p, planes, state) ==
  Logits(state, [i \in 1..p |-> planes[i - 1]])

NoSnapshots == [i \in Slots |-> Empty]

Init ==
  /\ hist = <<>> /\ pos = 0 /\ cachedImages = {}
  /\ plane = [q \in 0..(Cap - 1) |-> <<>>] /\ kda = <<>>
  /\ snapPos = NoSnapshots /\ snapKda = [i \in Slots |-> <<>>]
  /\ snapNext = 0 /\ snapLast = 0
  /\ resume = 0 /\ logits = Logits(<<>>, <<>>)
  /\ req = NoReq /\ phase = "idle"

-----------------------------------------------------------------------------
(* prefix_begin, from the plan to the state the prefill starts in.         *)

\* The prompt is accepted by generate(): not empty, every image inside it.
Accepted(r) ==
  /\ r.prompt # <<>>
  /\ \A im \in r.images :
       /\ im.start >= 0 /\ im.rows > 0
       /\ im.start + im.rows <= Len(r.prompt)

\* generate() goes on from n resident rows with the given recurrent state and
\* snapshot ring.  prefill() is skipped when nothing is left to run.
Land(r, n, state, captured, next) ==
  /\ resume' = n /\ pos' = n /\ kda' = state
  /\ hist' = SubSeq(hist, 1, n)
  /\ snapPos' = DiscardSuffix(captured, n) /\ snapNext' = next
  /\ snapLast' \in 0..Cap /\ IsLatest(snapPos', snapLast')
  /\ cachedImages' = r.images /\ req' = r
  /\ phase' = IF n < Len(r.prompt) THEN "prefill" ELSE "sample"
  /\ UNCHANGED <<plane, snapKda, logits>>

Reset(r) == Land(r, 0, <<>>, NoSnapshots, 0)

\* A resume position past the capacity falls back to a full recompute.
Resume(r, n, state) ==
  IF n > Cap THEN Reset(r) ELSE Land(r, n, state, snapPos, snapNext)

\* The plan of request r may reuse up to L rows of the resident sequence.
Planned(r, L) ==
  /\ phase = "idle"
  /\ Accepted(r)
  /\ \E common \in 0..Len(hist) :
       /\ IsCommon(hist, pos, cachedImages, r.prompt, r.images, common)
       /\ L = ReusePoint(common, r.prompt)

\* The prompt continues the resident sequence.
BeginExtension(r) ==
  \E L \in 0..Len(hist) :
    /\ Planned(r, L)
    /\ Extends(hist, pos, L)
    /\ Resume(r, L, kda)

\* The prompt diverges and a snapshot at or below the divergence exists.
BeginSnapshot(r) ==
  \E L \in 0..Len(hist), i \in Slots :
    /\ Planned(r, L)
    /\ ~Extends(hist, pos, L)
    /\ IsBestSlot(snapPos, L, i)
    /\ Resume(r, snapPos[i], snapKda[i])

\* Nothing can be reused.
BeginRestart(r) ==
  \E L \in 0..Len(hist) :
    /\ Planned(r, L)
    /\ ~Extends(hist, pos, L)
    /\ Usable(snapPos, L) = {}
    /\ Reset(r)

-----------------------------------------------------------------------------
(* prefill and decode.                                                     *)

\* Where the prefill of the current request ends, and its tail checkpoint.
Target == IF Len(req.prompt) > Cap THEN Cap ELSE Len(req.prompt)
Tail_  == CheckpointBefore(Target)

IntervalCheckpoint == RoundUpToPool(snapLast + SnapInterval)

\* Mutants: chunks never stop short; a chunk may stop where it starts.
CutNever(n, checkpoint) == n
CutAtStart(n, checkpoint) ==
  IF NSnaps > 0 /\ checkpoint >= pos /\ checkpoint < pos + n
  THEN checkpoint - pos ELSE n

\* A chunk of n rows stops short at a checkpoint strictly inside it.
CutAt(n, checkpoint) ==
  IF NSnaps > 0 /\ checkpoint > pos /\ checkpoint < pos + n
  THEN checkpoint - pos ELSE n

ChunkRows ==
  LET whole == IF Target - pos > MaxChunk THEN MaxChunk ELSE Target - pos
  IN  CutAt(CutAt(whole, IntervalCheckpoint), Tail_)

CaptureDue(p) ==
  /\ NSnaps > 0
  /\ p - snapLast >= SnapInterval \/ p = Tail_

\* Mutant: the ring index never wraps.
UnwrappedSlot == snapNext + 1

\* The slot after the one just captured into.
NextSlot == (snapNext + 1) % NSnaps

\* snap_capture: the state at p goes into the next slot of the ring.  A
\* position off the pool boundary is silently not captured.
SnapCapture(p) ==
  IF CaptureDue(p) /\ p % POOL_TOKENS = 0
  THEN /\ snapPos' = [snapPos EXCEPT ![snapNext] = p]
       /\ snapKda' = [snapKda EXCEPT ![snapNext] = kda']
       /\ snapNext' = NextSlot
       /\ snapLast' = IF p > snapLast THEN p ELSE snapLast
  ELSE UNCHANGED snaps

PrefillChunk ==
  /\ phase = "prefill"
  /\ pos < Target
  /\ LET n    == ChunkRows
         toks == SubSeq(req.prompt, pos + 1, pos + n)
     IN  /\ RunChunk(toks, pos, req.images)
         /\ pos' = pos + n
         /\ hist' = hist \o toks
         /\ SnapCapture(pos + n)
  /\ UNCHANGED <<cachedImages, resume, logits, req, phase>>

\* The context was full when the prefill started: the prompt is dropped and
\* the logits stay those of an earlier request.
PrefillDrop ==
  /\ phase = "prefill"
  /\ resume >= Cap
  /\ phase' = "sample"
  /\ UNCHANGED <<runner, snaps, resume, logits, req>>

PrefillHead ==
  /\ phase = "prefill"
  /\ resume < Cap /\ pos >= Target
  /\ logits' = FinalHead(pos, plane, kda)
  /\ phase' = "sample"
  /\ UNCHANGED <<runner, snaps, resume, req>>

\* A token is sampled, delivered and run.
Decode(t) ==
  /\ phase = "sample"
  /\ pos < Cap
  /\ RunChunk(<<t>>, pos, req.images)
  /\ pos' = pos + 1
  /\ hist' = Append(hist, t)
  /\ logits' = FinalHead(pos + 1, plane', kda')
  /\ UNCHANGED <<cachedImages, snaps, resume, req, phase>>

\* The loop ends: end of text, token limit, refused delivery, full context.
Stop ==
  /\ phase = "sample"
  /\ phase' = "idle" /\ req' = NoReq
  /\ UNCHANGED <<runner, snaps, resume, logits>>

Next ==
  \/ \E r \in Requests : BeginExtension(r) \/ BeginSnapshot(r) \/ BeginRestart(r)
  \/ PrefillDrop
  \/ PrefillChunk
  \/ PrefillHead
  \/ \E t \in Token : Decode(t)
  \/ Stop

Spec == Init /\ [][Next]_vars

\* The thread inside generate() runs the prefill loop to its end.
Fairness == WF_vars(PrefillDrop \/ PrefillChunk \/ PrefillHead)

FairSpec == Spec /\ Fairness

-----------------------------------------------------------------------------
(* Properties.                                                             *)

AllImages == UNION {r.images : r \in Requests}

Row == Token \X SUBSET AllImages

\* Type invariant.
TypeOK ==
  /\ hist \in Seq(Token)
  /\ pos \in 0..Cap
  /\ plane \in [0..(Cap - 1) -> Row \union {<<>>}]
  /\ kda \in Seq(Row)
  /\ snapPos \in [Slots -> Empty..Cap]
  /\ snapKda \in [Slots -> Seq(Row)]
  /\ snapNext \in 0..NSnaps /\ (NSnaps > 0 => snapNext \in Slots)
  /\ snapLast \in 0..Cap
  /\ resume \in 0..Cap
  /\ req \in Requests \union {NoReq}
  /\ phase \in {"idle", "prefill", "sample"}
  /\ (req = NoReq) <=> (phase = "idle")
  /\ cachedImages \in SUBSET AllImages

\* The rows of the resident sequence as a cold engine would read them.
ResidentRows == RowsOf(hist, cachedImages)

\* runner.hpp:104: "every cache plane row [0, pos_) holds" the resident
\* sequence, and the recurrent state has consumed exactly those rows - across
\* any series of extensions, rollbacks, restarts and image changes.
ResidentSound ==
  /\ pos = Len(hist)
  /\ kda = ResidentRows
  /\ \A p \in 0..(pos - 1) : plane[p] = ResidentRows[p + 1]

\* A slot that may be restored holds the state of a prefix of the resident
\* sequence, however often the sequence was rewritten since its capture.
SnapshotsSound ==
  \A i \in Slots : snapPos[i] # Empty =>
    /\ snapPos[i] <= pos
    /\ snapPos[i] % POOL_TOKENS = 0
    /\ snapKda[i] = SubSeq(ResidentRows, 1, snapPos[i])

\* What generate() relies on between its calls: the resident sequence belongs
\* to the request being served, and the host logits are of its last row
\* whenever a token may be sampled from them.
ServingSound ==
  /\ phase # "idle" => cachedImages = req.images
  /\ phase = "prefill" =>
       /\ resume <= pos /\ resume < Len(req.prompt)
       /\ pos <= Len(req.prompt) /\ hist = SubSeq(req.prompt, 1, pos)
  /\ phase = "sample" /\ pos < Cap =>
       logits = Logits(ResidentRows, ResidentRows)

\* snap_last_, which the next interval checkpoint is counted from, is the
\* newest position that can still be restored: ring reuse never loses it.  And
\* while a prompt is answered, its tail state can be restored unless the resume
\* point was already past it: a resend replays at most one pool.
CheckpointsKept ==
  /\ snapLast = 0 \/ \E i \in Slots : snapPos[i] = snapLast
  /\ (/\ phase = "sample" /\ resume < Tail_
      /\ NSnaps > 1 \/ (NSnaps = 1 /\ SnapInterval > POOL_TOKENS))
       => \E i \in Slots : snapPos[i] = Tail_

\* The engine with its cache implements the engine without one.
Cold == INSTANCE Cacheless WITH
  status <- IF phase # "sample" THEN "pending"
            ELSE IF pos < Cap THEN "ready" ELSE "full",
  basis  <- IF phase = "sample" /\ pos < Cap THEN logits
            ELSE Logits(<<>>, <<>>)

AnswersLikeCold == Cold!Spec

\* Every accepted request gets to the sampling loop: each chunk makes progress
\* whatever checkpoints cut it.
PrefillEnds == (phase = "prefill") ~> (phase = "sample")

-----------------------------------------------------------------------------
(* Statements of the sources that the code does not keep.                  *)

\* prefix.hpp:16 says of POOL_TOKENS "a resume must be a multiple of this" and
\* cache.cpp:7 sizes the raw ring on it; an extension resumes anywhere.
ResumeAligned == phase = "prefill" => resume % POOL_TOKENS = 0

\* README.md:337: "Repeated prompts restore an exact KDA snapshot at the last
\* four-token pool boundary before the prompt end, then replay 1-4 tokens".
ResendReplaysOnePool ==
  (phase = "sample" /\ NSnaps > 1 /\ Tail_ > 0) =>
    \E i \in Slots : snapPos[i] = Tail_

\* runner.cpp:1468 "Periodic aligned checkpoints": the rows computed since the
\* newest snapshot, or since the resume, never outgrow interval and chunk.
PeriodicCheckpoints ==
  (phase = "prefill" /\ NSnaps > 0) =>
    \/ pos - snapLast <= SnapInterval + MaxChunk + POOL_TOKENS
    \/ pos - resume   <= SnapInterval + MaxChunk + POOL_TOKENS

-----------------------------------------------------------------------------
(* The opt-in prefill of HELIOS_LAYER_MAJOR (second half of Runner::prefill): *)
(* a super-chunk of up to MaxChunk rows goes through the model layer by      *)
(* layer.  The rest of the runner is as above.                             *)

\* One super-chunk.  Both pos_ and done have advanced by the earlier ones, and
\* the layers are given pos_ + done as the position of its first row; writes
\* past the planes land outside of them.
SuperChunk ==
  /\ phase = "prefill" /\ req.images = {}
  /\ pos < Target
  /\ LET n    == IF Target - pos > MaxChunk THEN MaxChunk ELSE Target - pos
         done == pos - resume
         toks == SubSeq(req.prompt, pos + 1, pos + n)
     IN  /\ RunChunk(toks, pos + done, {})
         /\ pos' = pos + n
         /\ hist' = hist \o toks
  /\ UNCHANGED <<snaps, cachedImages, resume, logits, req, phase>>

\* After the last super-chunk one snapshot is tried, then the logits are made.
SuperHead ==
  /\ phase = "prefill" /\ req.images = {}
  /\ resume < Cap /\ pos >= Target
  /\ IF NSnaps > 0 /\ pos # snapLast /\ pos % POOL_TOKENS = 0
     THEN /\ snapPos' = [snapPos EXCEPT ![snapNext] = pos]
          /\ snapKda' = [snapKda EXCEPT ![snapNext] = kda]
          /\ snapNext' = (snapNext + 1) % NSnaps
          /\ snapLast' = IF pos > snapLast THEN pos ELSE snapLast
     ELSE UNCHANGED snaps
  /\ logits' = FinalHead(pos, plane, kda)
  /\ phase' = "sample"
  /\ UNCHANGED <<runner, resume, req>>

LayerMajorNext ==
  \/ \E r \in Requests : BeginExtension(r) \/ BeginSnapshot(r) \/ BeginRestart(r)
  \/ PrefillDrop
  \/ SuperChunk
  \/ SuperHead
  \/ req # NoReq /\ req.images # {} /\ (PrefillChunk \/ PrefillHead)
  \/ \E t \in Token : Decode(t)
  \/ Stop

\* runner.cpp:1429: "invariant: hist_ is exactly what the caches hold".
CachesHoldHistory ==
  \A p \in 0..(pos - 1) : plane[p] = ResidentRows[p + 1]
=============================================================================
