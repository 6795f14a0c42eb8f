----------------------------- MODULE Cacheless ------------------------------
(***************************************************************************)
(* What the prefix cache promises: the engine answers every request as one *)
(* that keeps nothing between requests would.  A token is always sampled   *)
(* from logits computed over exactly the rows of the current prompt        *)
(* followed by the tokens generated for it, up to the context capacity.    *)
(***************************************************************************)
EXTENDS Integers, Sequences

CONSTANTS
  Token,      \* token ids
  Requests,   \* the requests clients may send
  Cap,        \* context capacity in rows
  NoReq,      \* no request is being served
  RowAt(_, _, _),     \* what the model reads of a token among images at a position
  RowsOf(_, _)        \* the rows of a prompt with its images

VARIABLES
  req,        \* the request being served, or NoReq
  status,     \* "pending": nothing computed yet; "ready": a token can be
              \* sampled; "full": the context is full, nothing is sampled
  basis       \* the logits the next token would be sampled from

cvars == <<req, status, basis>>

\* What a token is sampled from: the recurrent state, given as the rows it has
\* consumed, and the rows attention can reach; both are the whole prefix.
Basis(rows) == [state |-> rows, attended |-> rows]

NoLogits == Basis(<<>>)

Ready(rows) ==
  IF Len(rows) < Cap
  THEN status' = "ready" /\ basis' = Basis(rows)
  ELSE status' = "full" /\ basis' = NoLogits

Init ==
  /\ req = NoReq
  /\ status = "pending"
  /\ basis = NoLogits

Begin(r) ==
  /\ req = NoReq
  /\ req' = r
  /\ UNCHANGED <<status, basis>>

\* The whole prompt is computed from nothing.
Answer ==
  /\ req # NoReq /\ status = "pending"
  /\ Ready(RowsOf(req.prompt, req.images))
  /\ UNCHANGED req

\* A token is sampled, appended and run.
Generate(t) ==
  /\ status = "ready"
  /\ Ready(Append(basis.state, RowAt(t, req.images, Len(basis.state))))
  /\ UNCHANGED req

\* End of text, token limit, cancellation, or a full context.
End ==
  /\ status # "pending"
  /\ req' = NoReq
  /\ status' = "pending"
  /\ basis' = NoLogits

Next ==
  \/ \E r \in Requests : Begin(r)
  \/ Answer
  \/ \E t \in Token : Generate(t)
  \/ End

Spec == Init /\ [][Next]_cvars
=============================================================================
