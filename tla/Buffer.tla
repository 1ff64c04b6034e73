------------------------------- MODULE Buffer -------------------------------
(***************************************************************************)
(* The Buffer of the framed protocols (net/buffer.js), as operators on the *)
(* sequence of characters it holds.  A number that JavaScript could not    *)
(* parse is NaN; like 0 it makes peekBytes return everything.              *)
(***************************************************************************)
EXTENDS Integers, SequencesExt

NaN == -99
Digits == <<"0", "1", "2", "3", "4", "5", "6", "7", "8", "9">>
IsDigit(c) == \E i \in DOMAIN Digits : Digits[i] = c
Digit(c) == (CHOOSE i \in DOMAIN Digits : Digits[i] = c) - 1

(* JavaScript's parseInt: the number that the string begins with. *)
ParseInt(s) ==
  LET first == SelectInSeq(s, LAMBDA c : ~IsDigit(c))
      digits == IF first = 0 THEN s ELSE SubSeq(s, 1, first - 1)
  IN  IF digits = <<>> THEN NaN
                       ELSE FoldLeft(LAMBDA n, c : 10 * n + Digit(c), 0, digits)

(* slice(0, n): a negative n leaves characters off the end. *)
Slice(s, n) == SubSeq(s, 1, IF n < 0 THEN Len(s) + n ELSE IF n > Len(s) THEN Len(s) ELSE n)

PeekBytes(s, n) == IF n = 0 \/ n = NaN THEN s ELSE Slice(s, n)
AfterBytes(s, n) == SubSeq(s, Len(PeekBytes(s, n)) + 1, Len(s))

HasBytes(s, n) == n = NaN \/ Len(s) >= n

HasDelimiter(s, d) == SelectInSeq(s, LAMBDA c : c = d) # 0
PeekToDelimiter(s, d) == SubSeq(s, 1, SelectInSeq(s, LAMBDA c : c = d) - 1)
AfterDelimiter(s, d) == SubSeq(s, Len(PeekToDelimiter(s, d)) + 2, Len(s))
=============================================================================
