----------------------------- MODULE ChatTemplate -----------------------------
(***************************************************************************)
(* The prompts of a conversation (render_chat in core/chat.cpp).  A client   *)
(* sends all messages with every request: its own, the results of the tools  *)
(* that the model called, and the answers it got before, whose reasoning it  *)
(* returns or not.                                                          *)
(*                                                                         *)
(* A prompt is a sequence of markers and characters.                        *)
(***************************************************************************)
EXTENDS SequencesExt, Integers

CONSTANTS
  Toolsets,     \* sequences of tools: [name, deferred]
  Questions,    \* what a user says
  Replies,      \* what the model says: [reasoning, content, calls], each call
                \* [id, name, args], each argument [key, as, text]: a
                \* "string" or other "data" of JSON, or just "text"
  MaxMsgs       \* bound: messages of a conversation

VARIABLES
  tools, thinking,      \* of the requests of the conversation
  msgs,                 \* the conversation: vector<ChatMsg>
  prompt,               \* of the last request
  generated,            \* what the model said to it
  turn                  \* "client" or "model": who is next

chat == <<tools, thinking, msgs, prompt, generated, turn>>

Blank  == " "
Loose  == "loose"     \* in data: what the serializer does not write, or otherwise
NoId   == "no id"
NoCall == <<>>

-----------------------------------------------------------------------------
(* render_chat.                                                            *)

StripWs(s) ==
  LET kept == {i \in DOMAIN s : s[i] # Blank}
  IN  IF kept = {} THEN <<>> ELSE SubSeq(s, Min(kept), Max(kept))

Shown(ts) == SelectSeq(ts, LAMBDA x : ~x.deferred)

Preamble(ts) ==
  <<"[gMASK]<sop>", "<|system|>", "effort">> \o
  (IF Shown(ts) = <<>> THEN <<>>
   ELSE <<"<|system|>", "<tools>">> \o [i \in DOMAIN Shown(ts) |-> Shown(ts)[i].name] \o <<"</tools>">>)

LastUser(ms) == Max({0} \union {i \in DOMAIN ms : ms[i].role = "user"})

\* append_args.
RenderCall(c) ==
  LET Pair(a) == <<"<arg_key>", a.key, "</arg_key><arg_value>">> \o a.text \o <<"</arg_value>">>
  IN  <<"<tool_call>", c.name>> \o FlattenSeq([i \in DOMAIN c.args |-> Pair(c.args[i])])
        \o <<"</tool_call>">>

RenderCalls(cs) == FlattenSeq([k \in DOMAIN cs |-> RenderCall(cs[k])])

\* Mutant: reasoning of earlier turns stays.
KeepsAllReasoning(ms, i) == ms[i].reasoning # <<>>

\* Only after the last user turn.
KeepsReasoning(ms, i) == i > LastUser(ms) /\ ms[i].reasoning # <<>>

RenderAssistant(ms, i) ==
  LET m == ms[i]
  IN  <<"<|assistant|>", "<think>">> \o (IF KeepsReasoning(ms, i) THEN m.reasoning ELSE <<>>)
        \o <<"</think>">> \o StripWs(m.content) \o RenderCalls(m.calls)

\* The last of the tool messages that begin at i.
RunOfTools(ms, i) ==
  CHOOSE e \in i..Len(ms) :
    /\ \A k \in i..e : ms[k].role = "tool"
    /\ e = Len(ms) \/ ms[e + 1].role # "tool"

\* Mutant: as the client sent them.
AsSent(ms, i) == [k \in 1..(RunOfTools(ms, i) - i + 1) |-> i + k - 1]

\* In the order of the calls when every result names one of them; else as sent.
ResultOrder(ms, i) ==
  LET sent    == [k \in 1..(RunOfTools(ms, i) - i + 1) |-> i + k - 1]
      calls   == IF i > 1 /\ ms[i - 1].role = "assistant" THEN ms[i - 1].calls ELSE NoCall
      named   == \A k \in Range(sent) : \E c \in DOMAIN calls : calls[c].id = ms[k].id
      Of(c)   == SelectSeq(sent, LAMBDA k : ms[k].id = calls[c].id)
  IN  IF calls # NoCall /\ named THEN FlattenSeq([c \in DOMAIN calls |-> Of(c)]) ELSE sent

RenderResults(ms, i) ==
  LET order == ResultOrder(ms, i)
  IN  <<"<|observation|>">> \o
        FlattenSeq([k \in DOMAIN order |-> <<"<tool_response>">> \o ms[order[k]].content \o <<"</tool_response>">>])

RenderMessage(ms, i) ==
  CASE ms[i].role = "system"    -> <<"<|system|>">> \o ms[i].content
    [] ms[i].role = "user"      -> <<"<|user|>">> \o ms[i].content
    [] ms[i].role = "assistant" -> RenderAssistant(ms, i)
    [] ms[i].role = "tool"      -> IF i > 1 /\ ms[i - 1].role = "tool" THEN <<>> ELSE RenderResults(ms, i)

RenderMessages(ms) == Preamble(tools) \o FlattenSeq([i \in DOMAIN ms |-> RenderMessage(ms, i)])

RenderChat(ms) ==
  RenderMessages(ms) \o <<"<|assistant|>", "<think>">> \o (IF thinking THEN <<>> ELSE <<"</think>">>)

-----------------------------------------------------------------------------
(* args_to_json, of what the model wrote.                                   *)

\* What is JSON is rendered as the serializer writes it, a string without its
\* quotes; the rest is a string as it is.
Reread(a) ==
  CASE a.as = "string" -> SubSeq(a.text, 2, Len(a.text) - 1)
    [] a.as = "data"   -> SelectSeq(a.text, LAMBDA x : x # Loose)
    [] OTHER           -> a.text

\* A key that comes again overwrites the value at its first place.
ArgsToJson(args) ==
  LET firsts    == SelectSeq([i \in DOMAIN args |-> i],
                             LAMBDA i : \A j \in 1..(i - 1) : args[j].key # args[i].key)
      Value(key) == Reread(args[Max({i \in DOMAIN args : args[i].key = key})])
  IN  [n \in DOMAIN firsts |->
         LET key == args[firsts[n]].key IN [key |-> key, as |-> "text", text |-> Value(key)]]

-----------------------------------------------------------------------------

Message(role, content, id, calls, reasoning) ==
  [role |-> role, content |-> content, id |-> id, calls |-> calls, reasoning |-> reasoning]

TemplateInit ==
  /\ tools \in Toolsets /\ thinking \in BOOLEAN
  /\ msgs \in {<<>>, <<Message("system", <<"s">>, NoId, NoCall, <<>>)>>}
  /\ prompt = <<>> /\ generated = <<>> /\ turn = "client"

\* A request with more messages.
Request(more) ==
  /\ turn = "client" /\ Len(msgs) + Len(more) <= MaxMsgs
  /\ msgs' = msgs \o more
  /\ prompt' = RenderChat(msgs')
  /\ turn' = "model"
  /\ UNCHANGED <<tools, thinking, generated>>

CallsOpen == msgs # <<>> /\ Last(msgs).role = "assistant" /\ Last(msgs).calls # NoCall

Ask == ~CallsOpen /\ \E q \in Questions : Request(<<Message("user", q, NoId, NoCall, <<>>)>>)

\* The results in any order, with the identifiers of their calls or without.
Results ==
  /\ CallsOpen
  /\ \E order \in SetToAllKPermutations(DOMAIN Last(msgs).calls), withIds \in BOOLEAN :
       LET calls == Last(msgs).calls
       IN  /\ Len(order) = Len(calls)
           /\ Request([k \in DOMAIN calls |->
                Message("tool", <<calls[order[k]].id>>,
                        IF withIds THEN calls[order[k]].id ELSE NoId, NoCall, <<>>)])

\* The model closes its thinking itself, unless the prompt did; the client has
\* its calls from args_to_json, and sends them as they are.
Answer ==
  /\ turn = "model" /\ Len(msgs) < MaxMsgs
  /\ \E r \in Replies, returns \in BOOLEAN :
       /\ ~thinking => r.reasoning = <<>>
       /\ generated' = (IF thinking THEN r.reasoning \o <<"</think>">> ELSE <<>>)
                         \o r.content \o RenderCalls(r.calls)
       /\ LET calls == [k \in DOMAIN r.calls |-> [r.calls[k] EXCEPT !.args = ArgsToJson(@)]]
          IN  msgs' = Append(msgs, Message("assistant", r.content, NoId, calls,
                                           IF returns THEN r.reasoning ELSE <<>>))
  /\ turn' = "client"
  /\ UNCHANGED <<tools, thinking, prompt>>

TemplateNext == Ask \/ Results \/ Answer
TemplateSpec == TemplateInit /\ [][TemplateNext]_chat

-----------------------------------------------------------------------------
(* Properties.                                                             *)

\* The next prompt repeats what the model said: not when the client keeps the
\* reasoning to itself, blanks were stripped, or arguments are rendered otherwise
\* than they were written.
Repeated == IsSuffix(generated, RenderMessages(msgs))

\* A prompt goes on where the one before ended, so that the engine need not
\* read it again: with the results of tools, when the answer reads as it was
\* said, it extends all that was said; with a question it extends it up to the
\* question before; and with a question after answers without reasoning, as
\* chat.hpp:38 says of a closed block, all.
\* The history before a question holds no reasoning, and results that name their
\* calls come in the order of the calls.
PromptExtends ==
  [][(turn = "client" /\ prompt # <<>> /\ msgs' # msgs) =>
       LET asked == Last(msgs').role = "user"
           silent == \A i \in (LastUser(msgs) + 1)..Len(msgs) :
                       msgs[i].role = "assistant" => msgs[i].reasoning = <<>>
       IN  /\ IsPrefix(RenderMessages(SubSeq(msgs, 1, LastUser(msgs))), prompt')
           /\ Repeated /\ (asked => silent) => IsPrefix(prompt \o generated, prompt')
           /\ asked => \A i \in 1..(Len(prompt') - 1) : prompt'[i] = "<think>" => prompt'[i + 1] = "</think>"
           /\ (~asked /\ Last(msgs').id # NoId) =>
                LET calls == Last(msgs).calls
                IN  IsPrefix(RenderMessages(msgs) \o <<"<|observation|>">> \o
                      FlattenSeq([c \in DOMAIN calls |-> <<"<tool_response>", calls[c].id, "</tool_response>">>]), prompt')
    ]_chat
=============================================================================
