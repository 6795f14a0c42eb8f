------------------------------ MODULE Tokenizer ------------------------------
(***************************************************************************)
(* Text to tokens and back (tokenizer.cpp): Tokenizer::encode cuts a text at *)
(* the added tokens, pretokenize cuts what is between into pieces, byte by   *)
(* byte, as the expression of the checkpoint's tokenizer.json would, and     *)
(* bpe_piece merges the bytes of a piece, the best pair first.              *)
(*                                                                         *)
(* A byte stands for its class; Wide is a space of three bytes (U+3000), and *)
(* all other characters are one byte.  A token is the bytes it stands for.  *)
(***************************************************************************)
EXTENDS SequencesExt, Integers

CONSTANTS
  Inputs,       \* sequences of Characters
  Merges,       \* pairs of symbols, the best first: merge_rank_
  Vocabulary,   \* symbols that have an id: tok_to_id_
  Added         \* tokens that are text: added_

VARIABLES
  typed,        \* a text
  ids,          \* its tokens, or NotYet
  pieces        \* the pieces of the same text, without regard to added tokens

tokenizing == <<typed, ids, pieces>>

Letters  == {"s", "r", "e"}
Numbers  == {"1"}
Newlines == {"nl"}
Wide     == "wide"
Spaces   == {" ", "nl", Wide}
Others   == {"!", "'"}
Characters == Letters \union Numbers \union Spaces \union Others

WideBytes == <<"E3", "80", "80">>
\* What is none of them, the bytes of a broken character included.
Marks     == Others \union {"E3", "80"}

NotYet    == <<<<"not yet">>>>

BytesOf(ch) == IF ch = Wide THEN WideBytes ELSE <<ch>>
BytesOfText(chars) == FlattenSeq([i \in DOMAIN chars |-> BytesOf(chars[i])])

-----------------------------------------------------------------------------
(* Pieces: every rule yields where the piece that begins at i ends, or 0.   *)

IsWide(t, i) == i + 2 <= Len(t) /\ t[i] = "E3"

\* A byte that begins no character is a character of its own.
CodePoint(t, i) == IF i > Len(t) THEN "none" ELSE IF IsWide(t, i) THEN Wide ELSE t[i]
Width(t, i)     == IF i > Len(t) THEN 0 ELSE IF IsWide(t, i) THEN 3 ELSE 1

\* The end of a run of characters that begins at i.
RunEnd(t, i, kinds) ==
  LET E[k \in i..(Len(t) + 1)] ==
        IF k <= Len(t) /\ CodePoint(t, k) \in kinds THEN E[k + Width(t, k)] ELSE k
  IN  E[i]

Contractions == {<<"s">>, <<"r", "e">>}

Contraction(t, i) ==
  LET found == {x \in Contractions : IsPrefix(x, SubSeq(t, i + 1, Len(t)))}
  IN  IF CodePoint(t, i) = "'" /\ found # {}
      THEN i + 1 + Max({Len(x) : x \in found}) ELSE 0

Word(t, i) ==
  LET c0 == CodePoint(t, i)  second == i + Width(t, i)
  IN  CASE c0 \in Letters -> RunEnd(t, i, Letters)
        [] c0 \notin Letters \union Numbers \union Newlines /\ CodePoint(t, second) \in Letters
             -> RunEnd(t, second, Letters)
        [] OTHER -> 0

Number(t, i) ==
  IF CodePoint(t, i) \in Numbers
  THEN CHOOSE k \in (i + 1)..(i + 3) :
         /\ \A j \in i..(k - 1) : CodePoint(t, j) \in Numbers
         /\ k = i + 3 \/ CodePoint(t, k) \notin Numbers
  ELSE 0

Punctuation(t, i) ==
  LET k   == IF CodePoint(t, i) = " " THEN i + 1 ELSE i
      run == RunEnd(t, k, Marks)
  IN  IF run > k THEN RunEnd(t, run, Newlines) ELSE 0

\* Mutant: no character is left to the word behind.
SpaceKeepsAll(t, i) ==
  LET k     == RunEnd(t, i, Spaces)
      lines == {j \in (i + 1)..k : CodePoint(t, j - 1) \in Newlines}
  IN  CASE CodePoint(t, i) \notin Spaces -> 0
        [] lines # {}                -> Max(lines)
        [] OTHER                     -> k

\* Up to the last newline; else all but the last byte, unless nothing follows.
Space(t, i) ==
  LET k     == RunEnd(t, i, Spaces)
      lines == {j \in (i + 1)..k : CodePoint(t, j - 1) \in Newlines}
  IN  CASE CodePoint(t, i) \notin Spaces      -> 0
        [] lines # {}                     -> Max(lines)
        [] k <= Len(t) /\ k - i >= 2      -> k - 1
        [] OTHER                          -> k

PieceEnd(t, i) ==
  LET ends == <<Contraction(t, i), Word(t, i), Number(t, i), Punctuation(t, i), Space(t, i)>>
  IN  SelectSeq(ends, LAMBDA e : e > 0)[1]

Pretokenize(t) ==
  LET P[i \in 1..(Len(t) + 1)] ==
        IF i > Len(t) THEN <<>>
        ELSE <<SubSeq(t, i, PieceEnd(t, i) - 1)>> \o P[PieceEnd(t, i)]
  IN  P[1]

-----------------------------------------------------------------------------
(* Tokens.                                                                 *)

Rank(syms, i) == CHOOSE r \in DOMAIN Merges : Merges[r] = <<syms[i], syms[i + 1]>>

Mergeable(syms) == {i \in 1..(Len(syms) - 1) : <<syms[i], syms[i + 1]>> \in Range(Merges)}

\* Mutant: the leftmost pair, whatever its rank.
LeftmostPair(syms) == Min(Mergeable(syms))

\* The best rank, the leftmost of equals.
BestPair(syms) ==
  CHOOSE i \in Mergeable(syms) :
    \A j \in Mergeable(syms) :
      Rank(syms, i) < Rank(syms, j) \/ (Rank(syms, i) = Rank(syms, j) /\ i <= j)

Merge(syms, i) ==
  SubSeq(syms, 1, i - 1) \o <<syms[i] \o syms[i + 1]>> \o SubSeq(syms, i + 2, Len(syms))

\* A symbol without an id falls back to its bytes.
Ids(sym) ==
  IF sym \in Vocabulary THEN <<sym>>
  ELSE SelectSeq([k \in DOMAIN sym |-> <<sym[k]>>], LAMBDA b : b \in Vocabulary)

Bpe(piece) ==
  LET Step(syms, n) == IF Mergeable(syms) = {} THEN syms ELSE Merge(syms, BestPair(syms))
      syms == FoldLeft(Step, [k \in DOMAIN piece |-> <<piece[k]>>], [n \in DOMAIN piece |-> n])
  IN  FlattenSeq([k \in DOMAIN syms |-> Ids(syms[k])])

\* The added tokens at i, of which the longest counts.
AddedAt(t, i) == {a \in Added : IsPrefix(a, SubSeq(t, i, Len(t)))}
LongestAt(t, i) == CHOOSE a \in AddedAt(t, i) : \A b \in AddedAt(t, i) : Len(b) <= Len(a)

Segment(t) == LET ps == Pretokenize(t) IN FlattenSeq([k \in DOMAIN ps |-> Bpe(ps[k])])

\* From i on, with what is not yet encoded from start.
Encode(t) ==
  LET From[start \in 1..(Len(t) + 1), i \in 1..(Len(t) + 1)] ==
        IF i > Len(t) THEN Segment(SubSeq(t, start, Len(t)))
        ELSE IF AddedAt(t, i) = {} THEN From[start, i + 1]
        ELSE LET a == LongestAt(t, i)
             IN  Segment(SubSeq(t, start, i - 1)) \o <<a>> \o From[i + Len(a), i + Len(a)]
  IN  From[1, 1]

\* decode with and without what the added tokens say.
Decode(tokens, keep_special) ==
  FlattenSeq(IF keep_special THEN tokens ELSE SelectSeq(tokens, LAMBDA x : x \notin Added))

TokenizerInit == typed \in Inputs /\ ids = NotYet /\ pieces = NotYet

Tokenize ==
  /\ ids = NotYet
  /\ ids' = Encode(BytesOfText(typed)) /\ pieces' = Pretokenize(BytesOfText(typed))
  /\ UNCHANGED typed

TokenizerNext == Tokenize
TokenizerSpec == TokenizerInit /\ [][TokenizerNext]_tokenizing

-----------------------------------------------------------------------------
(* The expression: what each alternative matches, followed by next.         *)

All(w, S)   == Range(w) \subseteq S
Neither     == Characters \ (Letters \union Numbers \union Spaces)

Alternatives == 1..7

Matches(alternative, w, next) ==
  CASE alternative = 1 -> \E x \in Contractions : w = <<"'">> \o x
    [] alternative = 2 -> \/ All(w, Letters)
                          \/ /\ Head(w) \notin Letters \union Numbers \union Newlines
                             /\ Len(w) > 1 /\ All(Tail(w), Letters)
    [] alternative = 3 -> Len(w) <= 3 /\ All(w, Numbers)
    [] alternative = 4 -> \E a \in {0, 1}, b \in DOMAIN w :
                            /\ a < b /\ (a = 1 => w[1] = " ")
                            /\ All(SubSeq(w, a + 1, b), Neither)
                            /\ All(SubSeq(w, b + 1, Len(w)), Newlines)
    [] alternative = 5 -> All(w, Spaces) /\ Last(w) \in Newlines
    [] alternative = 6 -> All(w, Spaces) /\ next \in Spaces \union {"none"}
    [] alternative = 7 -> All(w, Spaces)

\* The first alternative that matches at all, as much as it can.
Expression(chars) ==
  LET n       == Len(chars)
      Next(e) == IF e > n THEN "none" ELSE chars[e]
      Ends(i, a) == {e \in (i + 1)..(n + 1) : Matches(a, SubSeq(chars, i, e - 1), Next(e))}
      End(i)  == Max(Ends(i, Min({a \in Alternatives : Ends(i, a) # {}})))
      P[i \in 1..(n + 1)] ==
        IF i > n THEN <<>> ELSE <<BytesOfText(SubSeq(chars, i, End(i) - 1))>> \o P[End(i)]
  IN  P[1]

\* All occurrences of the best merge, then of the second, and so on.
InRankOrder(piece) ==
  LET Apply(syms, pair) ==
        LET F[i \in 1..(Len(syms) + 1)] ==
              IF i > Len(syms) THEN <<>>
              ELSE IF i < Len(syms) /\ <<syms[i], syms[i + 1]>> = pair
              THEN <<syms[i] \o syms[i + 1]>> \o F[i + 2]
              ELSE <<syms[i]>> \o F[i + 1]
        IN  F[1]
      syms == FoldLeft(Apply, [k \in DOMAIN piece |-> <<piece[k]>>], Merges)
  IN  FlattenSeq([k \in DOMAIN syms |-> Ids(syms[k])])

-----------------------------------------------------------------------------
(* Properties.                                                             *)

\* A wide space that a character other than a space follows.
WideBeforeText ==
  \E i \in 1..(Len(typed) - 1) : typed[i] = Wide /\ typed[i + 1] \notin Spaces

\* Encoding loses nothing: what is decoded is the text; the pieces of a text are those of the
\* expression, by its first alternative that matches and with the character it
\* leaves to the next word, unless that character is a wide space; and merging
\* the best pair first is applying one merge after the other.
EncodesText ==
  ids # NotYet =>
    /\ Decode(ids, TRUE) = BytesOfText(typed)
    /\ ~WideBeforeText => pieces = Expression(typed)
    /\ \A i \in DOMAIN pieces : Bpe(pieces[i]) = InRankOrder(pieces[i])

\* tokenizer.cpp:1 "matches HF tokenizers output", for every text; the code does
\* not keep it: it leaves a byte to the next piece where a character was meant.
MatchesHF == ids # NotYet => pieces = Expression(typed)
=============================================================================
