----------------------------- MODULE ContextState -----------------------------
(***************************************************************************)
(* What the engine remembers of a context, and how it looks things up in it: *)
(* the resident sequence with its planes and snapshots (PrefixCache), the    *)
(* copies on two streams that the snapshots are (SnapStreams), the pooled    *)
(* keys of the sparse attention (SparseIndex) and the choice among them      *)
(* (IndexTopK).                                                            *)
(*                                                                         *)
(* Each takes what the ones after it do for one step, a capture or a restore, *)
(* a row of the planes or a selection: what those show of themselves is what *)
(* makes that step one.  So one of them moves in each behaviour, and the     *)
(* others are at one of their beginnings.                                  *)
(***************************************************************************)
EXTENDS PrefixCache

CONSTANTS
  Moving,                                                   \* those that move
  NParts, MaxQueue, MaxId,                                  \* those of SnapStreams
  IndexCap, TopPools, Keys, Stale, Radix, NegInf, Align,    \* those of both selections
  Scores                                                    \* those of IndexTopK

ASSUME PartAssumption == Moving \subseteq {"runner", "copies", "index", "topk"}

ASSUME CopyAssumption == NParts \in Nat \ {0} /\ MaxQueue \in Nat /\ MaxId \in Nat \ {0}

\* The planes hold whole pools.
ASSUME IndexAssumption ==
  /\ {IndexCap, TopPools, Radix, Align} \subseteq Nat \ {0}
  /\ IndexCap % POOL_TOKENS = 0

\* Keys are of two digits.
ASSUME KeyAssumption ==
  /\ NegInf \in Nat
  /\ Keys \subseteq (NegInf + 1)..(Radix * Radix - 1)
  /\ \A s \in Scores : s \in Seq(0..(Radix * Radix - 1))

VARIABLES
  part,                                 \* the part that moves
  state, saved, next, waiting, compute, copy, device, stage, pinned,    \* of SnapStreams
  tokens, ring, pools,                  \* those of SparseIndex
  scores, k, spans, selected, merged    \* those of IndexTopK

Copies == INSTANCE SnapStreams WITH kda <- device
Best   == INSTANCE IndexTopK

TheBest(row, n) == Best!Select(row, n)

Index  == INSTANCE SparseIndex WITH
            hist <- tokens, POOL <- POOL_TOKENS, Cap <- IndexCap, Select <- TheBest

copies  == <<state, saved, next, waiting, compute, copy, device, stage, pinned>>
index   == <<tokens, ring, pools>>
topk    == <<scores, k, spans, selected, merged>>
context == <<part, vars, copies, index, topk>>

ContextInit ==
  /\ part \in Moving
  /\ Init /\ Copies!Init /\ Index!IndexInit /\ Best!TopKInit
  /\ part # "topk" => k = 1 /\ spans = 2 /\ scores = CHOOSE s \in Scores : TRUE

Runner(A)  == part = "runner" /\ A /\ UNCHANGED <<part, copies, index, topk>>
Copier(A)  == part = "copies" /\ A /\ UNCHANGED <<part, vars, index, topk>>
Indexer(A) == part = "index" /\ A /\ UNCHANGED <<part, vars, copies, topk>>
Choice(A)  == part = "topk" /\ A /\ UNCHANGED <<part, vars, copies, index>>

ContextNext ==
  Runner(Next) \/ Copier(Copies!Next) \/ Indexer(Index!IndexNext) \/ Choice(Best!TopKNext)

\* Fairness is that of PrefixCache: nothing makes a host queue or a device run.
ContextSpec ==
  /\ ContextInit /\ [][ContextNext]_context
  /\ WF_context(Runner(PrefillDrop \/ PrefillChunk \/ PrefillHead))

\* What the parts beside PrefixCache say of themselves.
SettledAsBelieved         == Copies!SettledAsBelieved
KernelsConsumeWholeStates == Copies!KernelsConsumeWholeStates
StageKeptUntilStored      == Copies!StageKeptUntilStored

IndexSound         == part = "index" => Index!PoolKeysAreTheirRows /\ Index!DenseWhenShort
SelectsTheBest     == part = "topk" => Best!SelectsTheBest

\* A statement about the index that the code does not keep.
AttendsEachRowOnce == part = "index" => Index!AttendsEachRowOnce
=============================================================================
