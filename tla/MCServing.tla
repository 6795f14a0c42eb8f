------------------------------ MODULE MCServing ------------------------------
(* An instance of Serving: two workers and a request of every kind;           *)
(* embeddings that fill the budget alone, in two, in three and in many, and   *)
(* one that does not fit it; texts and tokens with whole and broken markers;   *)
(* bytes of every class; every text of up to four characters for the          *)
(* tokenizer; conversations of up to seven messages.                          *)
EXTENDS Serving

CONSTANTS h, t, v, w, s1, s2, u1, u2, u3, u4

MCHealth     == {h}
MCTexts      == {t, v}
MCStreams    == {w}
MCWithImages == {v, w}

\* One completion has an empty prompt.
MCEmpties    == {t}

MCShells == {s1, s2}

\* One script is interrupted, or one is interrupted or lapses.
OneInterrupt == {<<0, 0>>, <<1, 0>>}
OneMishap    == OneInterrupt \union {<<0, 1>>}

MCUrls == {u1, u2, u3, u4}
MCSize == [small |-> 1, half |-> 2, most |-> 3, whole |-> 4, huge |-> 5]

\* The markers, with the prefixes the real ones share: `<` starts every marker,
\* `</` both closing ones.
MCThinkEnd  == <<"<", "/", "t">>
MCToolBegin == <<"<", "c">>
MCToolEnd   == <<"<", "/", "c">>
MCBoundary  == <<"<", "|">>

\* Pieces for the parser: every piece of one or two characters, and a few longer
\* ones with whole markers in them.
Chars == {"<", "/", "|", "t", "c"}

LongPieces ==
  {MCThinkEnd, MCToolBegin \o <<"t">>, MCToolEnd \o MCBoundary,
   MCToolBegin \o <<"t">> \o MCToolEnd, MCBoundary \o MCToolBegin \o <<"t">>}

SomePieces == [1..1 -> Chars] \union [1..2 -> Chars] \union LongPieces

\* Tokens of a response: parts of markers, whole markers and text, and one stop
\* string of two characters.
SomeTokens ==
  {<<"t">>, <<"/">>, <<"<">>, <<"/", "t">>, <<"c">>, MCThinkEnd, MCBoundary,
   MCToolBegin \o <<"t">>, MCToolEnd, <<"t", "/", "t">>, <<"t", "/", "<">>}

OneStop == {<<"t", "/">>}

\* Tokens of one byte, of every class, and of two.
PlainTokens ==
  [1..1 -> {"00", "C0", "C2", "E0", "E1", "ED", "F0", "F1", "F4", "F5", "F8", "80", "90", "A0"}]
    \union {<<"00", "E1">>, <<"80", "00">>, <<"C2", "80">>, <<"90", "A0">>}

\* Letters, a digit, spaces of one byte and of three, a newline, marks.
MCCharacters == {"s", "r", "e", "1", " ", "wide", "nl", "!", "'"}

MCInputs == UNION {[1..n -> MCCharacters] : n \in 0..4}

\* Merges that compete for a symbol, and one that needs another.
MCMerges ==
  << <<<<"e">>, <<"r">>>>, <<<<"s">>, <<"e">>>>, <<<<"s">>, <<"e", "r">>>>,
     <<<<"s", "e">>, <<"s", "e">>>>, <<<<"1">>, <<"1">>>> >>

\* The last but one makes a symbol without an id.
MCVocabulary ==
  {<<b>> : b \in (MCCharacters \ {"wide"}) \union {"E3", "80"}}
    \union {<<"e", "r">>, <<"s", "e">>, <<"s", "e", "r">>, <<"1", "1">>}

MCAdded == {<<"!", "s">>, <<"!", "s", "e">>}

MCToolsets ==
  {<<>>, <<[name |-> "f", deferred |-> FALSE], [name |-> "g", deferred |-> TRUE]>>}

MCQuestions == {<<"q">>}

\* Answers with and without reasoning and calls, and one with a blank before it;
\* a call whose arguments are as the serializer writes them, and one with a key
\* that comes twice, a string in quotes and loose data.
MCReplies ==
  LET Says(r, c, calls) == [reasoning |-> r, content |-> c, calls |-> calls]
      Arg(k, as, said)  == [key |-> k, as |-> as, text |-> said]
      one == [id |-> "1", name |-> "f", args |-> <<Arg("k", "text", <<"a">>), Arg("l", "data", <<"7">>)>>]
      two == [one EXCEPT !.id = "2"]
      odd == [two EXCEPT !.args = <<Arg("k", "text", <<"a">>), Arg("l", "string", <<"'", "a", "'">>),
                                    Arg("k", "data", <<"7", "loose">>)>>]
  IN  {Says(<<>>, <<"c">>, <<>>), Says(<<"r">>, <<"c">>, <<>>), Says(<<"r">>, <<" ", "c">>, <<one>>),
       Says(<<"r">>, <<>>, <<one, two>>), Says(<<>>, <<>>, <<one, odd>>)}

\* Scores with ties; every cut by itself and with others, with and without a
\* penalty, in windows shorter than what was said.
MCScores == [0..2 -> {-4, 0, 4}]

MCParams ==
  LET all == [greedy |-> FALSE, top_k |-> 0, top_p |-> 100, min_p |-> 0, penalty |-> 1, window |-> 2]
      odd == [all EXCEPT !.penalty = 2]
  IN  {all, [all EXCEPT !.greedy = TRUE], [all EXCEPT !.top_k = 2], [all EXCEPT !.top_p = 50],
       [all EXCEPT !.min_p = 7], [odd EXCEPT !.window = 1, !.top_p = 95], [odd EXCEPT !.top_k = 1],
       [odd EXCEPT !.top_k = 2, !.top_p = 60, !.min_p = 5], [odd EXCEPT !.top_k = 5, !.min_p = 25]}

MCLately == UNION {[1..n -> 0..2] : n \in 0..2}
=============================================================================
