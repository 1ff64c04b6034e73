------------------------------- MODULE Codecs -------------------------------
(***************************************************************************)
(* What std/utf8.js and std/base64.js compute.  A byte is a number below   *)
(* 256, a letter of the base64 alphabet its index, and a character the     *)
(* sequence of its bytes in UTF-8: what decodeURIComponent(escape(s))      *)
(* accepts are sequences of whole characters.                              *)
(***************************************************************************)
EXTENDS Integers, Sequences, SequencesExt

\* Characters of one to four bytes.
Characters == {<<65>>, <<195, 169>>, <<226, 130, 172>>, <<240, 159, 152, 128>>}

Encode(characters) == FlattenSeq(characters)

(* The characters that a string of bytes is made of, each place with those *)
(* that end there; NoCharacters if they do not end there.                  *)
NoCharacters == << <<>> >>

CharactersOf(bytes) ==
  LET endAt[k \in 0..Len(bytes)] ==
        LET last == {c \in Characters :
                       /\ Len(c) =< k
                       /\ SubSeq(bytes, k - Len(c) + 1, k) = c
                       /\ endAt[k - Len(c)] # NoCharacters}
        IN  IF k = 0 THEN <<>>
            ELSE IF last = {} THEN NoCharacters
            ELSE LET c == CHOOSE c \in last : TRUE
                 IN  Append(endAt[k - Len(c)], c)
  IN  endAt[Len(bytes)]

(* The bytes up to the first byte of a character that begins among the     *)
(* last three, or all of them if none does.                                *)
BeforeLastOf(reach, bytes) ==
  LET len    == Len(bytes)
      starts == {i \in 1..reach : i =< len /\ bytes[len - i + 1] >= 192}
  IN  IF starts = {} THEN len
      ELSE len - (CHOOSE i \in starts : \A j \in starts : i =< j)

BeforeLastWithinTwo(bytes) == BeforeLastOf(2, bytes)          \* mutated form
BeforeLast(bytes) == BeforeLastOf(3, bytes)

(* len_parsed of decode: everything, but for a character that is still     *)
(* incomplete at the end.                                                  *)
Parsed(bytes) ==
  LET len  == Len(bytes)
      upTo == BeforeLast(bytes)
  IN  IF /\ len > 0 /\ bytes[len] >= 128
         /\ CharactersOf(SubSeq(bytes, upTo + 1, len)) = NoCharacters
        THEN upTo ELSE len

(* decode throws if this is NoCharacters. *)
Decode(bytes) == CharactersOf(SubSeq(bytes, 1, Parsed(bytes)))
-----------------------------------------------------------------------------
(* Digits of a base, most significant first, n of them to a group.         *)
Number(digits, base) ==
  LET upTo[i \in 0..Len(digits)] ==
        IF i = 0 THEN 0 ELSE upTo[i - 1] * base + digits[i]
  IN  upTo[Len(digits)]

Digits(number, base, n) == [i \in 1..n |-> (number \div base ^ (n - i)) % base]

(* Groups of n digits of one base as groups of m digits of another, with   *)
(* the last group filled up and as many digits taken off again.            *)
Recode(s, n, base, m, other, filler) ==
  LET missing == (n - (Len(s) % n)) % n
      filled  == s \o [i \in 1..missing |-> filler]
      group(g) == SubSeq(filled, n * (g - 1) + 1, n * g)
      all     == FlattenSeq([g \in 1..(Len(filled) \div n) |->
                               Digits(Number(group(g), base), other, m)])
  IN  SubSeq(all, 1, Len(all) - missing)

Base64Encode(bytes) == Recode(bytes, 3, 256, 4, 64, 0)
Base64Decode(letters) == Recode(letters, 4, 64, 3, 256, 63)
=============================================================================
