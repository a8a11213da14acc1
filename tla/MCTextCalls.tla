---------------------------- MODULE MCTextCalls ------------------------------
(***************************************************************************)
(* Plain texts of up to 7 code points: a letter of one byte, a letter of   *)
(* two and a space; the sentinel offset 4 is reached in front of, inside   *)
(* and behind a token.  Texts to clean of up to 6 code points with a       *)
(* letter and all white space, of up to 4 with two replaced code points    *)
(* and the second letter.  The filter has five bits and two hash functions,*)
(* so that false positives occur.                                          *)
(***************************************************************************)
EXTENDS TextCalls

MCChar == {97, 233, 32, 10, 13, 34}
MCWidth == [c \in MCChar |-> IF c = 233 THEN 2 ELSE 1]
MCPlainTexts == SeqOf({97, 233, 32}, 7)
MCRawTexts == SeqOf({97, 32, 10, 13}, 6) \cup SeqOf({97, 233, 32, 10, 13, 160, 8220}, 4)

Twos(word) == Cardinality({i \in DOMAIN word : word[i] = 233})
MCHashBits(s) == {b \in 0 .. 2 : (Len(s[1]) + b * Twos(s[2]) + Len(s[2])) % 2 = 1}
MCBloomIndexes(s) == {(Len(s[1]) + 2 * Twos(s[1])) % 4, 1 + ((Len(s[2]) + Twos(s[2])) % 3)}
=============================================================================
