------------------------------- MODULE Serving -------------------------------
(***************************************************************************)
(* The server: the scripts that start and stop it (Launcher), requests on    *)
(* their way to the engine and back (Server), the cache of encoded images    *)
(* (ImageCache), and what becomes of text.  ChatTemplate makes a prompt of    *)
(* messages and Tokenizer tokens of a text; of what a generation makes,       *)
(* Utf8Stream makes text of the bytes of tokens and Delivery a response, with *)
(* the parser that makes deltas of text.  Which token is next is up to        *)
(* Sampler.                                                                *)
(*                                                                         *)
(* The scripts see of a server whether it lives and listens, and no more.    *)
(* The cache works for the one request that holds gen_mu, between Encode and *)
(* Encoded, and so do the streamer and the parser, in Decoded: what they see *)
(* is one sequence of calls, whatever the other requests do; a text is       *)
(* ordinary characters to a parser once it has left the streamer.  So all    *)
(* are explored side by side, one in each behaviour and the others at one of *)
(* their beginnings: scripts, requests, the cache, the streamer on bytes of  *)
(* every class, a parser by itself on every text, a response on tokens, the  *)
(* tokenizer on every short text, the template on conversations, the sampler  *)
(* on scores.                                                              *)
(***************************************************************************)
EXTENDS Server

CONSTANTS
  Shells, NServers, Mishaps,                           \* those of Launcher
  Urls, Size, Budget, MaxUses,                          \* those of ImageCache
  ByteTokens, MaxBytes,                                 \* those of Utf8Stream
  ThinkEnd, ToolBegin, ToolEnd, Boundary, Pieces, MaxText,      \* of the parser in Delivery
  Tokens, Stops, MaxTokens, Room,       \* those of Delivery
  Inputs, Merges, Vocabulary, Added,                    \* those of Tokenizer
  Toolsets, Questions, Replies, MaxMsgs,                \* those of ChatTemplate
  Scores, Params, Lately, Percents                      \* those of Sampler

ASSUME LauncherAssumption ==
  NServers \in Nat \ {0} /\ Mishaps \subseteq Nat \X Nat

ASSUME ImageAssumption ==
  /\ Budget \in Nat /\ MaxUses \in Nat
  /\ \A m \in DOMAIN Size : Size[m] \in Nat \ {0}

\* No marker that is looked for outside a tool call begins with another one, and
\* no marker has a turn boundary in its beginnings.
ASSUME TextAssumption ==
  /\ {MaxBytes, MaxText, Room} \subseteq Nat /\ MaxTokens \in Nat \ {0}
  /\ \A s \in {ThinkEnd, ToolBegin, ToolEnd, Boundary} \union Pieces \union Tokens \union Stops :
       s \in Seq({s[i] : i \in DOMAIN s})
  /\ \A m \in {ThinkEnd, ToolBegin, ToolEnd, Boundary} : Len(m) >= 2
  /\ LET searched == <<ThinkEnd, ToolBegin, Boundary>>
         Begins(m, n) == Len(n) <= Len(m) /\ SubSeq(m, 1, Len(n)) = n
     IN  \A i, j \in 1..3 : i # j => ~Begins(searched[i], searched[j])
  /\ \A m \in {ThinkEnd, ToolBegin, ToolEnd, Boundary} : \A i \in 1..Len(m) :
       i + Len(Boundary) <= Len(m) => SubSeq(m, i, i + Len(Boundary) - 1) # Boundary

\* A merge makes a symbol of an id, of symbols that are bytes or made before, as
\* training leaves them.
ASSUME TokenizerAssumption ==
  \A r \in DOMAIN Merges : \A sym \in {Merges[r][1], Merges[r][2]} :
    sym \in Vocabulary /\ (Len(sym) = 1 \/ \E e \in 1..(r - 1) : sym = Merges[e][1] \o Merges[e][2])

ASSUME ChatAssumption == MaxMsgs \in Nat

\* A prompt has tokens of the vocabulary; a percentage may be any a request names.
ASSUME SamplerAssumption ==
  /\ \A s \in Scores : DOMAIN s = 0..(Cardinality(DOMAIN s) - 1) /\ DOMAIN s # {}
  /\ \A s \in Scores, l \in Lately : \A i \in DOMAIN l : l[i] \in DOMAIN s
  /\ \A p \in Params : p.penalty >= 1 /\ p.window >= 0 /\ p.top_k >= 0

VARIABLES
  part,                       \* the part that moves
  servers, pidFile, shells, interrupts, lapses,     \* those of Launcher
  entries, kept, uses,        \* those of ImageCache
  bytes, prev, text, content, \* those of Utf8Stream
  opened, fed, buf, think, tool, body, done, out, finished,     \* of the parser in Delivery
  limit, streaming, alive, sent, visible, stopHit, tokens, rows, phase, cause, reason,
  typed, ids, pieces,         \* those of Tokenizer
  tools, thinking, msgs, prompt, generated, turn,   \* those of ChatTemplate
  params, recent, scores, fraction, drawn           \* those of Sampler

Scripts  == INSTANCE Launcher
Images   == INSTANCE ImageCache WITH bytes <- kept
Utf8     == INSTANCE Utf8Stream
Response == INSTANCE Delivery
Encoder  == INSTANCE Tokenizer
Template == INSTANCE ChatTemplate
Draws    == INSTANCE Sampler

scripts  == <<servers, pidFile, shells, interrupts, lapses>>
images   == <<entries, kept, uses>>
utf8     == <<bytes, prev, text, content>>
parsed   == <<opened, fed, buf, think, tool, body, done, out, finished>>
driver   == <<limit, streaming, alive, sent, visible, stopHit, tokens, rows, phase, cause, reason>>
response == <<parsed, driver>>
encoder  == <<typed, ids, pieces>>
chat     == <<tools, thinking, msgs, prompt, generated, turn>>
sampler  == <<params, recent, scores, fraction, drawn>>
serving  == <<part, vars, scripts, images, utf8, response, encoder, chat, sampler>>

\* Only a response has a request to answer, and only it and a parser text.
ServingInit ==
  /\ part \in {"scripts", "server", "images", "bytes", "parser", "response", "tokenizer", "template",
              "sampler"}
  /\ Scripts!LauncherInit /\ Init /\ Images!Init /\ Utf8!Init /\ Response!DeliveryInit
  /\ part # "response" => limit = 1 /\ ~streaming
  /\ part \notin {"response", "parser"} => ~opened
  /\ Encoder!TokenizerInit /\ (part # "tokenizer" => typed = <<>>)
  /\ Template!TemplateInit
  /\ part # "template" => thinking /\ msgs = <<>> /\ tools = CHOOSE ts \in Toolsets : TRUE
  /\ Draws!SamplerInit
  /\ part # "sampler" =>
       params = (CHOOSE p \in Params : TRUE) /\ recent = (CHOOSE l \in Lately : TRUE)

ScriptsMove   == part = "scripts" /\ Scripts!LauncherNext /\ UNCHANGED <<part, vars, images, utf8, response, encoder, chat, sampler>>
ServerMoves   == part = "server" /\ Next /\ UNCHANGED <<part, scripts, images, utf8, response, encoder, chat, sampler>>
ImagesMove    == part = "images" /\ Images!Next /\ UNCHANGED <<part, vars, scripts, utf8, response, encoder, chat, sampler>>
BytesMove     == part = "bytes" /\ Utf8!Next /\ UNCHANGED <<part, vars, scripts, images, response, encoder, chat, sampler>>
ParserMoves   == part = "parser" /\ Response!Next /\ UNCHANGED <<part, vars, scripts, images, utf8, driver, encoder, chat, sampler>>
ResponseMoves == part = "response" /\ Response!DeliveryNext /\ UNCHANGED <<part, vars, scripts, images, utf8, encoder, chat, sampler>>
TokensMove    == part = "tokenizer" /\ Encoder!TokenizerNext /\ UNCHANGED <<part, vars, scripts, images, utf8, response, chat, sampler>>
ChatMoves     == part = "template" /\ Template!TemplateNext /\ UNCHANGED <<part, vars, scripts, images, utf8, response, encoder, sampler>>
SamplerMoves  == part = "sampler" /\ Draws!SamplerNext /\ UNCHANGED <<part, vars, scripts, images, utf8, response, encoder, chat>>

ServingNext ==
  ScriptsMove \/ ServerMoves \/ ImagesMove \/ BytesMove \/ ParserMoves \/ ResponseMoves
    \/ TokensMove \/ ChatMoves \/ SamplerMoves

\* Fairness is that of Server: where another part moves, no request was sent
\* and nothing of the server is enabled.
ServingSpec == ServingInit /\ [][ServingNext]_serving /\ Fairness

\* What the parts beside Server say of themselves.
OneServer              == Scripts!OneServer
StopMeansStopped       == Scripts!StopMeansStopped
KeepsTheRecent         == Images!KeepsTheRecent
EmitsSafeText          == Utf8!EmitsSafeText
ChunkingInvisible      == Response!ChunkingInvisible
EmitsWhatIsCertain     == part \in {"parser", "response"} => Response!EmitsWhatIsCertain
StreamIsWhole          == Response!StreamIsWhole
LengthMeansTruncated   == Response!LengthMeansTruncated
GoneClientEndsDecoding == Response!GoneClientEndsDecoding
StopsAtDeltaEnd        == Response!StopsAtDeltaEnd
EncodesText            == part = "tokenizer" => Encoder!EncodesText
DrawsFromNucleus       == part = "sampler" => Draws!DrawsFromNucleus
PromptExtends          == Template!PromptExtends

\* Statements of the sources that the code does not keep.
NeverSecondServer      == Scripts!NeverSecondServer
AlwaysSafeInJson       == Utf8!AlwaysSafeInJson
=============================================================================
