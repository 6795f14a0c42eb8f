------------------------------- MODULE Server -------------------------------
(***************************************************************************)
(* Requests on their way through the server (run_server in                 *)
(* src/engine/server.cpp): a fixed pool of httplib workers, one engine, and*)
(* the mutex gen_mu between them.  A worker that waits for the mutex serves*)
(* nobody else.                                                            *)
(*                                                                         *)
(* A chat with images takes the mutex twice: to encode the images, on the  *)
(* GPU the engine runs on, and again to generate; other requests may come  *)
(* between.  What the answer says of the prefix cache and of the context   *)
(* is read from the runner after the generation.                           *)
(***************************************************************************)
EXTENDS Integers, Sequences, FiniteSets

CONSTANTS
  Health,     \* requests for /health, /v1/models or /metrics
  Texts,      \* text completions, and chats answered in one piece
  Streams,    \* chats answered by server-sent events
  WithImages, \* the chats that carry images
  Empties,    \* completions of an empty prompt
  Workers,    \* threads of httplib's pool
  NoOne       \* no request

Requests == Health \union Texts \union Streams

ASSUME ServerAssumption ==
  /\ IsFiniteSet(Requests) /\ Workers \in Nat \ {0}
  /\ Health \intersect (Texts \union Streams) = {} /\ Texts \intersect Streams = {}
  /\ WithImages \subseteq Texts \union Streams /\ Empties \subseteq Texts \ WithImages /\ NoOne \notin Requests

VARIABLES
  jobs,       \* jobs_: accepted connections no worker has taken
  at,         \* where each request is
  lock,       \* who holds gen_mu
  resume,     \* whose generation Runner::prefix_resume() tells of
  pos,        \* whose generation Runner::pos() tells of
  usage,      \* whose figures each request reports, NoOne before
  gone        \* requests whose client closed the connection

vars == <<jobs, at, lock, resume, pos, usage, gone>>

Phases == {"unsent", "queued", "started", "images", "encoding", "ready",
           "prefill", "decode", "report", "answered"}

\* Type invariant; the pool's list holds connections that wait, and no other.
TypeOK ==
  /\ at \in [Requests -> Phases] /\ jobs \in Seq({r \in Requests : at[r] = "queued"})
  /\ {lock, resume, pos} \subseteq Requests \union {NoOne}
  /\ usage \in [Requests -> [cached: Requests \union {NoOne}, length: Requests \union {NoOne}]]
  /\ gone \subseteq Requests

Nothing == [cached |-> NoOne, length |-> NoOne]

Init ==
  /\ jobs = <<>> /\ at = [r \in Requests |-> "unsent"] /\ lock = NoOne
  /\ resume = NoOne /\ pos = NoOne /\ usage = [r \in Requests |-> Nothing] /\ gone = {}

\* Requests a worker is busy with.
Busy == {r \in Requests : at[r] \notin {"unsent", "queued", "answered"}}

Goes(r, from, to) == at[r] = from /\ at' = [at EXCEPT ![r] = to]

-----------------------------------------------------------------------------
(* Clients, and httplib's pool.                                            *)

Send(r) ==
  /\ Goes(r, "unsent", "queued") /\ jobs' = Append(jobs, r)
  /\ UNCHANGED <<lock, resume, pos, usage, gone>>

ClientLeaves(r) ==
  /\ at[r] \notin {"unsent", "answered"} /\ gone' = gone \union {r}
  /\ UNCHANGED <<jobs, at, lock, resume, pos, usage>>

\* A free worker takes the oldest connection.
WorkerTakes ==
  /\ jobs # <<>> /\ Cardinality(Busy) < Workers
  /\ Goes(Head(jobs), "queued", "started") /\ jobs' = Tail(jobs)
  /\ UNCHANGED <<lock, resume, pos, usage, gone>>

-----------------------------------------------------------------------------
(* The handlers.                                                           *)

Status(r) ==
  /\ r \in Health /\ Goes(r, "started", "answered")
  /\ UNCHANGED <<jobs, lock, resume, pos, usage, gone>>

\* No key, no JSON, or a field that will not do.
Refuse(r) ==
  /\ r \notin Health /\ Goes(r, "started", "answered")
  /\ UNCHANGED <<jobs, lock, resume, pos, usage, gone>>

Parse(r) ==
  /\ r \notin Health
  /\ Goes(r, "started", IF r \in WithImages THEN "images" ELSE "ready")
  /\ UNCHANGED <<jobs, lock, resume, pos, usage, gone>>

\* Mutant: the images are encoded without the mutex.
EncodeUnlocked(r) ==
  /\ Goes(r, "images", "encoding")
  /\ UNCHANGED <<jobs, lock, resume, pos, usage, gone>>

Encode(r) ==
  /\ lock = NoOne /\ Goes(r, "images", "encoding") /\ lock' = r
  /\ UNCHANGED <<jobs, resume, pos, usage, gone>>

\* All images are in the cache or encoded.
Encoded(r) ==
  /\ Goes(r, "encoding", "ready") /\ lock' = NoOne
  /\ UNCHANGED <<jobs, resume, pos, usage, gone>>

\* Mutant: the mutex is not released on the way out.
EncodeFailsLocked(r) ==
  /\ Goes(r, "encoding", "answered")
  /\ UNCHANGED <<jobs, lock, resume, pos, usage, gone>>

\* The encoder fails, or a placeholder is missing.
EncodeFails(r) ==
  /\ Goes(r, "encoding", "answered") /\ lock' = NoOne
  /\ UNCHANGED <<jobs, resume, pos, usage, gone>>

\* The prompt with its images does not fit, or its tokens do not match them.
ImagesRefused(r) ==
  /\ r \in WithImages /\ Goes(r, "ready", "answered")
  /\ UNCHANGED <<jobs, lock, resume, pos, usage, gone>>

Begin(r) ==
  /\ lock = NoOne /\ Goes(r, "ready", "prefill") /\ lock' = r
  /\ UNCHANGED <<jobs, resume, pos, usage, gone>>

\* The first event cannot be written: nothing is generated.
FirstWriteFails(r) ==
  /\ r \in Streams \intersect gone /\ lock = NoOne /\ Goes(r, "ready", "answered")
  /\ UNCHANGED <<jobs, lock, resume, pos, usage, gone>>

\* Runner::generate() looks the prompt up in the prefix cache, and decodes: the
\* end is the model's, the budget's, a stop string's or that of a client who left.
\* With an empty prompt it returns before it does either.
Prefill(r) ==
  /\ Goes(r, "prefill", "decode")
  /\ IF r \in Empties THEN UNCHANGED <<resume, pos>> ELSE resume' = r /\ pos' = r
  /\ UNCHANGED <<jobs, lock, usage, gone>>

\* Mutant: the mutex is held for the generation alone.
DecodedUnlocks(r) ==
  /\ Goes(r, "decode", "report") /\ lock' = NoOne
  /\ UNCHANGED <<jobs, resume, pos, usage, gone>>

Decoded(r) ==
  /\ Goes(r, "decode", "report")
  /\ UNCHANGED <<jobs, lock, resume, pos, usage, gone>>

\* finish_reason and usage, and the end of the handler.
Report(r) ==
  /\ Goes(r, "report", "answered")
  /\ usage' = [usage EXCEPT ![r] = [cached |-> resume, length |-> pos]]
  /\ lock' = IF lock = r THEN NoOne ELSE lock
  /\ UNCHANGED <<jobs, resume, pos, gone>>

Handler(r) ==
  \/ Status(r) \/ Refuse(r) \/ Parse(r)
  \/ Encode(r) \/ Encoded(r) \/ EncodeFails(r) \/ ImagesRefused(r)
  \/ Begin(r) \/ FirstWriteFails(r) \/ Prefill(r) \/ Decoded(r) \/ Report(r)

Next ==
  \/ WorkerTakes
  \/ \E r \in Requests : Send(r) \/ ClientLeaves(r) \/ Handler(r)

\* The pool's threads run, the encoder exits, and a generation ends by its
\* output budget.  Nothing is assumed of the clients, nor that the mutex is
\* handed out in any order.
Fairness == WF_vars(WorkerTakes) /\ \A r \in Requests : WF_vars(Handler(r))

Spec == Init /\ [][Next]_vars /\ Fairness

-----------------------------------------------------------------------------
(* Properties.                                                             *)

\* server.cpp:221 "one generation at a time": neither a generation nor the
\* encoder's process on the same GPU runs beside another.
EngineIsExclusive ==
  Cardinality({r \in Requests : at[r] \in {"encoding", "prefill", "decode"}}) <= 1

\* cached_tokens and finish_reason come from the runner's own state after the
\* generation (server.cpp:408-418, 486-499, 550-558): they are those of the
\* request they answer, whoever waits for the engine meanwhile (README.md:356
\* "Chat/completion responses also report the reused prefix"), unless its prompt
\* is empty; and those of an empty prompt disturb no other's.
UsageIsOwn ==
  \A r \in Requests \ Empties : usage[r] # Nothing => usage[r] = [cached |-> r, length |-> r]

\* Every request that was sent is answered, whatever the others and their
\* clients do, although the mutex has no queue.
EveryRequestAnswered == \A r \in Requests : at[r] = "queued" ~> at[r] = "answered"

-----------------------------------------------------------------------------
(* Statements of the sources that the code does not keep.                  *)

\* README.md:356 "Chat/completion responses also report the reused prefix": of
\* an empty prompt they report what another request has reused.
EveryUsageIsOwn ==
  \A r \in Requests : usage[r] # Nothing => usage[r] = [cached |-> r, length |-> r]

\* server.cpp:10 "httplib still serves other connections concurrently": no
\* request for the server's health waits while every worker is at the engine.
ServesOthers ==
  \A r \in Health :
    at[r] = "queued" =>
      Cardinality({o \in Requests : at[o] \in {"images", "encoding", "ready", "prefill", "decode"}})
        < Workers
=============================================================================
