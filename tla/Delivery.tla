------------------------------ MODULE Delivery ------------------------------
(***************************************************************************)
(* How one chat request is answered.  Every token's text goes through a      *)
(* streaming parser (OutputParser in src/core/chat.cpp): it arrives in pieces *)
(* of any size and leaves as reasoning, visible content, tool calls, or the   *)
(* end of the turn.  A driver (generate of run_server in                     *)
(* src/engine/server.cpp, inside Runner::generate's token loop) matches these *)
(* deltas against the stop strings and streams them, and the response says   *)
(* why it ended.                                                           *)
(*                                                                         *)
(* Text is a sequence of characters, and the body of a tool call stands for *)
(* its name and arguments.  Next is a parser by itself, DeliveryNext one     *)
(* inside its driver.                                                      *)
(***************************************************************************)
EXTENDS Integers, Sequences, FiniteSets

CONSTANTS
  ThinkEnd, ToolBegin, ToolEnd,     \* the markers of the chat format
  Boundary,     \* of a turn: the six real ones are one marker
  Pieces,       \* pieces of text that may arrive at once
  MaxText,      \* bound: characters of one output
  Tokens,       \* the texts of tokens
  Stops,        \* stop strings of the request
  MaxTokens,    \* bound: the largest max_tokens a request asks for
  Room          \* rows left in the context after the prompt

Markers  == {ThinkEnd, ToolBegin, ToolEnd, Boundary}
Searched == {ThinkEnd, ToolBegin, Boundary}     \* outside a tool call

VARIABLES
  opened,     \* start_in_think: the prompt opens the thinking block
  fed,        \* the text that has arrived
  buf,        \* buf_: text not yet parsed
  think,      \* in_think_
  tool,       \* in_tool_
  body,       \* tool_body_
  done,       \* done_: a turn boundary was seen
  out,        \* every delta character by character, as the client sees them
  finished    \* finish() was called

parser == <<buf, think, tool, body, done>>
vars   == <<opened, fed, parser, out, finished>>

-----------------------------------------------------------------------------
(* Text.                                                                   *)

\* marker m stands in s at position i.
At(s, i, m) == i + Len(m) - 1 <= Len(s) /\ SubSeq(s, i, i + Len(m) - 1) = m

Places(s, m) == {i \in 1..Len(s) : At(s, i, m)}

First(S) == CHOOSE i \in S : \A j \in S : i <= j

From(s, i) == SubSeq(s, i, Len(s))

\* Mutants: text that is a marker's prefix is emitted at once; as much text is
\* held back as the longest marker needs.
HoldNothing(s) == 0
HoldMost(s) == IF Len(s) < 2 THEN Len(s) ELSE 2

\* The longest suffix of s that is a proper prefix of a marker.
Holdback(s) ==
  LET fits(n) == n = 0 \/ \E m \in Markers : n < Len(m) /\ At(s, Len(s) - n + 1, SubSeq(m, 1, n))
  IN  CHOOSE n \in 0..Len(s) : fits(n) /\ \A k \in (n + 1)..Len(s) : ~fits(k)

\* What a client sees: text by channel, calls, the end of the turn.
TextDelta(thinking, s) ==
  IF s = <<>> THEN <<>>
  ELSE <<[channel |-> IF thinking THEN "reasoning" ELSE "content", text |-> s]>>
CallDelta(s) == <<[channel |-> "call", text |-> s]>>
StopDelta    == <<[channel |-> "stop", text |-> <<>>]>>

-----------------------------------------------------------------------------
(* drain().  A state of the loop is a record p; p.more ends it.            *)

Break(p) == [p EXCEPT !.more = FALSE]

\* Inside a tool call: its end, wherever it is, or else all but the hold-back.
DrainTool(p, limit) ==
  LET ends == Places(p.buf, ToolEnd)
      e    == First(ends)
  IN  IF ends = {}
      THEN Break([p EXCEPT !.body = @ \o SubSeq(p.buf, 1, limit),
                           !.buf = From(@, limit + 1)])
      ELSE [p EXCEPT !.deltas = @ \o CallDelta(p.body \o SubSeq(p.buf, 1, e - 1)),
                     !.body = <<>>, !.tool = FALSE,
                     !.buf = From(@, e + Len(ToolEnd))]

\* Mutant: a tool call inside the thinking block closes it.
AfterMarkerClosing(p, m) ==
  IF m = ThinkEnd THEN [p EXCEPT !.think = FALSE]
  ELSE IF m = ToolBegin THEN [p EXCEPT !.tool = TRUE, !.body = <<>>, !.think = FALSE]
  ELSE Break([p EXCEPT !.deltas = @ \o StopDelta, !.done = TRUE, !.buf = <<>>])

AfterMarker(p, m) ==
  IF m = ThinkEnd THEN [p EXCEPT !.think = FALSE]
  ELSE IF m = ToolBegin THEN [p EXCEPT !.tool = TRUE, !.body = <<>>]
  ELSE Break([p EXCEPT !.deltas = @ \o StopDelta, !.done = TRUE, !.buf = <<>>])

\* Outside: the earliest marker that starts before the hold-back.
DrainText(p, limit) ==
  LET starts(m) == {i \in Places(p.buf, m) : i <= limit}
      all == UNION {starts(m) : m \in Searched}
      i   == First(all)
      m   == CHOOSE mk \in Searched : i \in starts(mk)
      Said(n) == [p EXCEPT !.deltas = @ \o TextDelta(p.think, SubSeq(p.buf, 1, n))]
  IN  IF all = {}
      THEN Break([Said(limit) EXCEPT !.buf = From(@, limit + 1)])
      ELSE AfterMarker([Said(i - 1) EXCEPT !.buf = From(@, i + Len(m))], m)

Iteration(p, flush) ==
  LET limit == Len(p.buf) - (IF flush THEN 0 ELSE Holdback(p.buf))
  IN  IF ~p.more \/ p.buf = <<>> THEN p
      ELSE IF p.tool THEN DrainTool(p, limit) ELSE DrainText(p, limit)

\* Every iteration but the last takes a marker, of two characters at least.
Drain(text, flush) ==
  LET start == [buf |-> text, think |-> think, tool |-> tool, body |-> body,
                done |-> done, deltas |-> <<>>, more |-> TRUE]
      loop[k \in 0..(Len(text) + 1)] ==
        IF k = 0 THEN start ELSE Iteration(loop[k - 1], flush)
  IN  loop[Len(text) + 1]

\* The deltas one character at a time, with calls and stops kept whole.
Spelled(d) ==
  IF d.channel \in {"call", "stop"} THEN <<d>>
  ELSE [i \in DOMAIN d.text |-> [channel |-> d.channel, text |-> <<d.text[i]>>]]

SpelledAll(ds) ==
  LET all[k \in 0..Len(ds)] == IF k = 0 THEN <<>> ELSE all[k - 1] \o Spelled(ds[k])
  IN  all[Len(ds)]

-----------------------------------------------------------------------------
(* Operations.                                                             *)

Init ==
  /\ opened \in BOOLEAN /\ think = opened
  /\ fed = <<>> /\ buf = <<>>
  /\ tool = FALSE /\ body = <<>> /\ done = FALSE
  /\ out = <<>> /\ finished = FALSE

Became(p, ds) ==
  /\ buf' = p.buf /\ think' = p.think /\ done' = p.done
  /\ out' = out \o SpelledAll(ds)

\* The deltas feed() and finish() return.
FeedDeltas(piece) == IF done THEN <<>> ELSE Drain(buf \o piece, FALSE).deltas

Feed(piece) ==
  /\ ~finished
  /\ fed' = fed \o piece
  /\ IF done
     THEN UNCHANGED <<parser, out>>
     ELSE LET p == Drain(buf \o piece, FALSE)
          IN  Became(p, p.deltas) /\ tool' = p.tool /\ body' = p.body
  /\ UNCHANGED <<opened, finished>>

\* A call that nothing terminates is emitted with what it has.
Unterminated(p) == IF p.tool /\ p.body # <<>> THEN CallDelta(p.body) ELSE <<>>

FinishDeltas == LET p == Drain(buf, TRUE) IN p.deltas \o Unterminated(p)

Finish ==
  /\ ~finished
  /\ LET p == Drain(buf, TRUE)
         last == Unterminated(p)
     IN  /\ Became(p, p.deltas \o last)
         /\ tool' = (p.tool /\ last = <<>>)
         /\ body' = IF last = <<>> THEN p.body ELSE <<>>
  /\ finished' = TRUE
  /\ UNCHANGED <<opened, fed>>

Next ==
  \/ \E piece \in Pieces : Len(fed) + Len(piece) <= MaxText /\ Feed(piece)
  \/ Finish

Spec == Init /\ [][Next]_vars

-----------------------------------------------------------------------------
(* The driver.                                                             *)

VARIABLES
  limit,        \* max_tokens of the request
  streaming,    \* an SSE response: deltas are emitted as they come
  alive,        \* the client still takes what is sent
  sent,         \* the deltas the client got, character by character
  visible,      \* the content matched against the stop strings
  stopHit,      \* stop_hit, reported as out.hit_stop
  tokens,       \* completion tokens
  rows,         \* rows decoded after the prompt
  phase,        \* "decode", "ending", "ended"
  cause,        \* why decoding ended
  reason        \* finish_reason of the response

driver == <<limit, streaming, alive, sent, visible, stopHit, tokens, rows, phase, cause, reason>>
dvars  == <<vars, driver>>

DeliveryInit ==
  /\ Init
  /\ limit \in 1..MaxTokens /\ streaming \in BOOLEAN /\ alive = TRUE
  /\ sent = <<>> /\ visible = <<>> /\ stopHit = FALSE
  /\ tokens = 0 /\ rows = 0
  /\ phase = "decode" /\ cause = "none" /\ reason = "none"

\* Mutant: a delta that cannot be sent does not end the generation.
EmittedDeaf(st, d) ==
  IF streaming /\ alive THEN [st EXCEPT !.sent = @ \o Spelled(d)] ELSE st

\* emit(): nothing is sent to a client that is gone, and it ends the generation.
Emitted(st, d) ==
  IF ~streaming THEN st
  ELSE IF alive THEN [st EXCEPT !.sent = @ \o Spelled(d)]
  ELSE [st EXCEPT !.go = FALSE, !.cause = "gone"]

StopMatched(text) ==
  \E w \in Stops : w # <<>> /\ Len(w) <= Len(text) /\ From(text, Len(text) - Len(w) + 1) = w

Stopped(st) == [st EXCEPT !.stop = TRUE, !.go = FALSE, !.cause = "stop"]

\* Mutant: a stop string is looked for in the delta alone.
TakenByItself(st, d) ==
  IF ~st.go THEN st
  ELSE IF d.channel = "stop" \/ (d.channel = "content" /\ StopMatched(d.text)) THEN Stopped(st)
  ELSE Emitted([st EXCEPT !.visible = IF d.channel = "content" THEN @ \o d.text ELSE @], d)

\* One delta in the token callback.
Taken(st, d) ==
  LET seen == IF d.channel = "content" THEN st.visible \o d.text ELSE st.visible
      next == [st EXCEPT !.visible = seen]
  IN  IF ~st.go THEN st
      ELSE IF d.channel = "stop" THEN Stopped(st)
      ELSE IF d.channel = "content" /\ StopMatched(seen) THEN Stopped(next)
      ELSE Emitted(next, d)

TakenAll(ds) ==
  LET start == [go |-> TRUE, stop |-> stopHit, cause |-> "none", sent |-> sent, visible |-> visible]
      all[k \in 0..Len(ds)] == IF k = 0 THEN start ELSE Taken(all[k - 1], ds[k])
  IN  all[Len(ds)]

\* The token loop of Runner::generate: a token is sampled and handed over; it
\* is only run when another one may follow.
Token(piece) ==
  /\ phase = "decode" /\ rows < Room
  /\ Feed(piece)
  /\ LET st == TakenAll(FeedDeltas(piece))
     IN  /\ sent' = st.sent /\ visible' = st.visible /\ stopHit' = st.stop
         /\ tokens' = tokens + 1
         /\ IF st.go /\ tokens' < limit
            THEN rows' = rows + 1 /\ UNCHANGED <<phase, cause>>
            ELSE /\ phase' = "ending" /\ UNCHANGED rows
                 /\ cause' = IF st.go THEN "max_tokens" ELSE st.cause
  /\ UNCHANGED <<limit, streaming, alive, reason>>

Ends(why) ==
  /\ phase = "decode"
  /\ phase' = "ending" /\ cause' = why
  /\ UNCHANGED <<vars, limit, streaming, alive, sent, visible, stopHit, tokens, rows, reason>>

EndOfText   == rows < Room /\ Ends("end_of_text")
ContextFull == rows >= Room /\ Ends("context")

\* A client closes its connection at any moment.
ClientLeaves ==
  /\ alive /\ phase # "ended"
  /\ alive' = FALSE
  /\ UNCHANGED <<vars, limit, streaming, sent, visible, stopHit, tokens, rows, phase, cause, reason>>

\* Mutant: a full context is reported as a stop.
LengthReasonMax == tokens >= limit

\* finish_reason: the output budget or the context ran out.
LengthReason == tokens >= limit \/ rows >= Room

HasCall(o) == \E i \in DOMAIN o : o[i].channel = "call"

\* Mutant: what the parser held back is not sent.
SentNothing(ds) == <<>>

\* What parser.finish() returns is sent, too.
SentRest(ds) == SpelledAll(ds)

Respond ==
  /\ phase = "ending"
  /\ Finish
  /\ sent' = IF streaming /\ alive THEN sent \o SentRest(FinishDeltas) ELSE sent
  /\ reason' = IF HasCall(out') THEN "tool_calls"
               ELSE IF stopHit THEN "stop"
               ELSE IF LengthReason THEN "length" ELSE "stop"
  /\ phase' = "ended"
  /\ UNCHANGED <<limit, streaming, alive, visible, stopHit, tokens, rows, cause>>

DeliveryNext ==
  \/ \E piece \in Tokens : Token(piece)
  \/ EndOfText \/ ContextFull
  \/ ClientLeaves
  \/ Respond

DeliverySpec == DeliveryInit /\ [][DeliveryNext]_dvars

-----------------------------------------------------------------------------
(* Properties of the parser.                                               *)

\* The deltas of a whole text, read from position i with the thinking block
\* open or closed: the reference, which knows no pieces and no buffer.
Reading(s) ==
  LET n == Len(s)
      R[x \in (1..(n + 1)) \X BOOLEAN] ==
        LET i  == x[1]
            th == x[2]
        IN  IF i > n THEN <<>>
            ELSE IF At(s, i, Boundary) THEN StopDelta
            ELSE IF At(s, i, ThinkEnd) THEN R[<<i + Len(ThinkEnd), FALSE>>]
            ELSE IF At(s, i, ToolBegin)
            THEN LET b    == i + Len(ToolBegin)
                     ends == {j \in Places(s, ToolEnd) : j >= b}
                 IN  IF ends # {}
                     THEN CallDelta(SubSeq(s, b, First(ends) - 1))
                            \o R[<<First(ends) + Len(ToolEnd), th>>]
                     ELSE IF b <= n THEN CallDelta(From(s, b)) ELSE <<>>
            ELSE TextDelta(th, <<s[i]>>) \o R[<<i + 1, th>>]
  IN  R[<<1, opened>>]

\* test_chat.cpp:6: however the text is cut into pieces, and whatever marker a cut
\* goes through, the client sees exactly what parsing the whole text gives.
ChunkingInvisible == finished => out = Reading(fed)

\* "emit text that is safe", and as soon as it is: at any moment what was emitted
\* is the beginning of what any continuation of the text will be parsed to, and
\* what is held back is never more than the beginning of one marker.
NothingRetracted ==
  ~finished => \A piece \in Pieces \union {<<>>} :
    LET r == Reading(fed \o piece)
    IN  Len(out) <= Len(r) /\ SubSeq(r, 1, Len(out)) = out

HoldsOnlyMarkerPrefix ==
  \E m \in Markers : Len(buf) < Len(m) /\ buf = SubSeq(m, 1, Len(buf))

EmitsWhatIsCertain == NothingRetracted /\ HoldsOnlyMarkerPrefix

\* test_chat.cpp:140 "Anything after <|observation|> is the model's hallucination
\* of the next turn - it must terminate generation".
BoundaryEndsTurn == Places(fed, Boundary) # {} => done

-----------------------------------------------------------------------------
(* Properties of the response.                                             *)

\* The deltas o but those that only end the turn.
WithoutStops(o) ==
  LET all[k \in 0..Len(o)] ==
        IF k = 0 THEN <<>>
        ELSE IF o[k].channel = "stop" THEN all[k - 1] ELSE all[k - 1] \o <<o[k]>>
  IN  all[Len(o)]

\* A client that stays gets everything the parser made of the output, in
\* order, unless a stop string ended it.
StreamIsWhole ==
  (phase = "ended" /\ streaming /\ alive /\ ~StopMatched(visible)) => sent = WithoutStops(out)

\* STATUS.md:1575: once the client of a stream is gone, at most one more delta
\* is tried; a token that produces one is the last.
GoneClientEndsDecoding ==
  [][(streaming /\ ~alive /\ phase = "decode" /\ out' # out) => phase' # "decode"]_dvars

\* server.cpp:226 "A stop caused by running out of KV capacity is reported as
\* length": without a tool call, "length" tells a truncated answer from one
\* that ended by itself, whatever limits coincide (for a client that is there).
LengthMeansTruncated ==
  (phase = "ended" /\ ~HasCall(out) /\ cause # "gone") =>
    ((reason = "length") <=> (cause \in {"context", "max_tokens"}))

\* The content among the deltas ds.
Content(ds) ==
  LET all[k \in 0..Len(ds)] ==
        IF k = 0 THEN <<>>
        ELSE IF ds[k].channel = "content" THEN all[k - 1] \o ds[k].text ELSE all[k - 1]
  IN  all[Len(ds)]

\* server.cpp:301: a stop string is found wherever it began, in this delta, in an
\* earlier token or on the other side of a tool call, when a delta ends with it:
\* no token is sampled after one of whose deltas brings the answer so far to such
\* an end.
StopsAtDeltaEnd ==
  [][tokens' # tokens /\ phase' = "decode" =>
       LET new == FeedDeltas(From(fed', Len(fed) + 1))
       IN  \A k \in DOMAIN new :
             new[k].channel = "content" => ~StopMatched(Content(out \o SubSeq(new, 1, k)))]_dvars

-----------------------------------------------------------------------------
(* Statements of the sources that the code does not keep.                  *)

\* server.cpp:227: "the caller must be able to tell truncation from a natural
\* end".
TruncationIsReported ==
  (phase = "ended" /\ cause \in {"context", "max_tokens"}) => reason = "length"

\* test_chat.cpp:112: "streaming must produce exactly the same aggregate": the stream
\* carries what the response without streaming carries.
StreamEqualsResponse ==
  (phase = "ended" /\ streaming /\ alive) =>
    sent = SelectSeq(out, LAMBDA d : d.channel # "stop")

\* server.cpp:288: visible is kept "for stop-string matching on client-visible
\* text": no token is sampled after a stop string.
StopStringStops ==
  phase = "decode" => \A w \in Stops : Places(visible, w) = {}
=============================================================================
