----------------------------- MODULE Utf8Stream -----------------------------
(***************************************************************************)
(* From tokens to text (Utf8Streamer in src/engine/server.cpp, on the      *)
(* helpers of src/engine/utf8.hpp): a byte-level vocabulary cuts characters*)
(* anywhere, and only complete characters may leave.                       *)
(*                                                                         *)
(* A byte is the first byte of its class.  The leads of the two-byte         *)
(* sequences are C0 and C2 (those of C0 are overlong), of three E0, E1 and    *)
(* ED, of four F0, F1, F4 and F5 (those of F5 are beyond Unicode); after E0,  *)
(* ED, F0 and F4 not every continuation makes a character.                   *)
(***************************************************************************)
EXTENDS Integers, Sequences

CONSTANTS
  ByteTokens, \* the bytes of each token
  MaxBytes    \* bound: bytes of one output

Ascii == "00"
Twos  == {"C0", "C2"}
Threes == {"E0", "E1", "ED"}
Fours == {"F0", "F1", "F4", "F5"}
Conts == {"80", "90", "A0"}
Bad   == "F8"
Bytes == {Ascii, Bad} \union Twos \union Threes \union Fours \union Conts

Replacement == "U+FFFD"

\* utf8_seq_len().
SeqLen(b) == CASE b = Ascii -> 1 [] b \in Twos -> 2 [] b \in Threes -> 3 [] b \in Fours -> 4
               [] b \in Conts \union {Bad} -> 0

\* The bytes that follow the lead byte at i are continuations.
Continued(s, i) == \A k \in (i + 1)..(i + SeqLen(s[i]) - 1) : s[k] \in Conts

\* Mutant: a character that is complete at the end is held back.
CompleteAtCautious(s, i) ==
  /\ SeqLen(s[i]) > 0
  /\ i + SeqLen(s[i]) <= Len(s)
  /\ Continued(s, i)

\* A whole character starts at i.
CompleteAt(s, i) ==
  /\ SeqLen(s[i]) > 0
  /\ i + SeqLen(s[i]) - 1 <= Len(s)
  /\ Continued(s, i)

\* Mutant: up to the last whole character, over what is malformed.
CompletePrefixSkipping(s) ==
  LET ends == {0} \union {i + SeqLen(s[i]) - 1 : i \in {j \in 1..Len(s) : CompleteAt(s, j)}}
  IN  CHOOSE n \in ends : \A k \in ends : k <= n

\* utf8_complete_prefix(): the length of the leading whole characters.
CompletePrefix(s) ==
  LET upto[i \in 1..(Len(s) + 1)] ==
        IF i <= Len(s) /\ CompleteAt(s, i) THEN upto[i + SeqLen(s[i])] ELSE i - 1
  IN  upto[1]

\* utf8_sanitize(): a sequence that the text ends in the middle of is replaced
\* with all that follows.
Sanitize(s) ==
  LET n == Len(s)
      from[i \in 1..(n + 1)] ==
        IF i > n THEN <<>>
        ELSE IF SeqLen(s[i]) = 0 THEN <<Replacement>> \o from[i + 1]
        ELSE IF i + SeqLen(s[i]) - 1 > n THEN <<Replacement>>
        ELSE IF Continued(s, i)
        THEN SubSeq(s, i, i + SeqLen(s[i]) - 1) \o from[i + SeqLen(s[i])]
        ELSE <<Replacement>> \o from[i + 1]
  IN  from[1]

VARIABLES
  bytes,      \* what the tokens so far decode to
  prev,       \* prev_: how many bytes have left
  text,       \* the text that has left
  content     \* the content of the response, NoContent before its end

vars == <<bytes, prev, text, content>>

NoContent == <<"none">>

Init == bytes = <<>> /\ prev = 0 /\ text = <<>> /\ content = NoContent

Held == SubSeq(bytes, prev + 1, Len(bytes))

\* Utf8Streamer::push().
Push(token) ==
  /\ content = NoContent /\ Len(bytes) + Len(token) <= MaxBytes
  /\ bytes' = bytes \o token
  /\ LET fresh == SubSeq(bytes', prev + 1, Len(bytes'))
         take  == CompletePrefix(fresh)
     IN  prev' = prev + take /\ text' = text \o SubSeq(fresh, 1, take)
  /\ UNCHANGED content

\* The generation ends; what has left is sanitized and returned.
End ==
  /\ content = NoContent
  /\ content' = Sanitize(text)
  /\ UNCHANGED <<bytes, prev, text>>

Next == (\E token \in ByteTokens : Push(token)) \/ End

Spec == Init /\ [][Next]_vars

-----------------------------------------------------------------------------
(* Properties.                                                             *)

\* Sequences as long as their leads say, stated without the scan.
Whole(s) ==
  \A i \in 1..Len(s) :
    /\ s[i] # Bad
    /\ s[i] \notin Conts => i + SeqLen(s[i]) - 1 <= Len(s) /\ Continued(s, i)
    /\ s[i] \in Conts => \E j \in 1..(i - 1) : s[j] \notin Conts /\ j + SeqLen(s[j]) - 1 >= i

\* The sequences of these two bytes are characters (RFC 3629): what the JSON
\* serializer wants of them.
Pairs(lead, second) ==
  /\ lead \notin {"C0", "F5"}
  /\ second \in CASE lead = "E0" -> {"A0"}        [] lead = "ED" -> {"80", "90"}
                  [] lead = "F0" -> {"90", "A0"}  [] lead = "F4" -> {"80"}
                  [] OTHER       -> Conts

WellFormed(s) == Whole(s) /\ \A i \in 1..Len(s) : SeqLen(s[i]) >= 2 => Pairs(s[i], s[i + 1])

\* s is the beginning of one character.
BeginsCharacter(s) ==
  s # <<>> => /\ SeqLen(s[1]) > Len(s) /\ s[1] \notin {"C0", "F5"}
              /\ \A k \in 2..Len(s) : s[k] \in Conts
              /\ Len(s) >= 2 => Pairs(s[1], s[2])

\* Characters, and after them at most the beginning of one.
ValidSoFar(s) ==
  \E n \in 0..Len(s) : WellFormed(SubSeq(s, 1, n)) /\ BeginsCharacter(SubSeq(s, n + 1, Len(s)))

\* server.cpp:80 "Those bytes are held back here": whatever the model writes, no
\* sequence leaves in part and no byte without its lead; and as long as it writes valid text, characters leave, as
\* the JSON serializer wants them, and at most the beginning of one waits
\* (test_utf8.cpp:6 "must NOT hold back a character that happens to be complete").
EmitsSafeText ==
  /\ Whole(text) /\ (content # NoContent => Whole(content))
  /\ ValidSoFar(bytes) =>
       /\ WellFormed(text) /\ BeginsCharacter(Held)
       /\ content # NoContent => WellFormed(content)

-----------------------------------------------------------------------------
(* Statements of the sources that the code does not keep.                  *)

\* utf8.hpp:26 "so the result is always safe to put in a JSON string": only
\* well-formed text leaves, whatever the model writes.
AlwaysSafeInJson == WellFormed(text)

\* server.cpp:314 "a truncated final character must be replaced rather than
\* held back": the content ends with a replacement of what is still held.
TailIsReplaced ==
  (content # NoContent /\ Held # <<>> /\ BeginsCharacter(Held)) =>
    content = text \o <<Replacement>>

\* server.cpp:80 "Those bytes are held back here and emitted once their
\* continuations arrive": what is held is always the beginning of a character.
HeldMayComplete == BeginsCharacter(Held)

\* utf8.hpp:45 "Copy of `s` with every malformed byte ... replaced": a byte that
\* is a character by itself is never dropped.
SanitizeKeepsAscii ==
  LET Count(s) == Len(SelectSeq(s, LAMBDA b : b = Ascii))
  IN  Count(Sanitize(bytes)) = Count(bytes)
=============================================================================
