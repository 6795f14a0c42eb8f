------------------------------ MODULE MCContext ------------------------------
(* An instance of ContextState: prompts over one or two tokens, with and       *)
(* without images, and rows of four and five scores with ties, holes and       *)
(* digits in every place.                                                    *)
EXTENDS ContextState, TLC

CONSTANTS MaxPrompt    \* longest prompt
CONSTANTS a, b         \* tokens

TwoTokens == {a, b}
OneToken  == {a}

Prompts(T, most) == UNION {[1..n -> T] : n \in 1..most}

\* Requests without images; prompts differ in the place of at most one b.
TextRequests ==
  {[prompt |-> p, images |-> {}] :
     p \in {q \in Prompts(Token, MaxPrompt) :
              Cardinality({i \in DOMAIN q : q[i] = b}) <= 1}}

\* Requests over the token a that may carry images of two rows, at most one
\* at each of two places; the first may have another content when it is alone.
Images(v, s) == IF v = "" THEN {} ELSE {[start |-> s, rows |-> 2, val |-> v]}

ImageRequests ==
  {[prompt |-> p, images |-> Images(vw[1], 1) \union Images(vw[2], 3)] :
     p \in Prompts({a}, MaxPrompt), vw \in {"", "x"} \X {"", "x"} \union {<<"y", "">>}}

\* Those, and texts that part from them inside a pool, at its end and after it.
AllRequests ==
  ImageRequests \union
  {[prompt |-> p, images |-> {}] : p \in {<<a, b>>, <<a, b, a>>, <<a, a, b>>}}

MCScores == [1..4 -> 0..3] \union [1..5 -> {0, 2, 3}]

\* The runner prefills layer by layer; the rest of the context is at rest.
LayerMajorSpec == ContextInit /\ [][Runner(LayerMajorNext)]_context
=============================================================================
