------------------------- MODULE RabinFingerprinter --------------------------
(***************************************************************************)
(* search/RabinFingerprinter.h: the direct fingerprint of one string, and  *)
(* the unsigned arithmetic the rolling hashes share with it.  uint32_t     *)
(* values are below HalfWord, uint64_t values below WordMod.               *)
(***************************************************************************)
EXTENDS Naturals, Sequences, Functions

CONSTANTS Alpha,     \* alpha_
          HalfWord,  \* 2^32 in the code
          MaxExact,  \* 2^53 in the code: a double holds every integer up to it
          Code       \* the code points of the texts

WordMod == HalfWord * HalfWord

ASSUME WordAssumption == /\ HalfWord \in Nat \ {0}
                         /\ Alpha \in 1 .. HalfWord - 1
                         /\ MaxExact \in 1 .. WordMod - 1
                         /\ Code \subseteq 0 .. HalfWord - 1

(* uint64_t arithmetic *)
Add(a, b) == (a + b) % WordMod
Mul(a, b) == (a * b) % WordMod
Sub(a, b) == IF a >= b THEN a - b ELSE WordMod + a - b

(* std::pow(alpha_, n) is a double that becomes a uint64_t: the product of *)
(* n factors as long as that is at most MaxExact.  Above it the double is  *)
(* rounded, and from 2^64 on the conversion is undefined: who uses Power   *)
(* assumes that it does not get there (RabinAssumption).                   *)
Power(n) == FoldFunction(LAMBDA x, acc : x * acc, 1, [i \in 1 .. n |-> Alpha])

SumMod(modN, f) == FoldFunction(LAMBDA x, acc : Add(acc, x) % modN, 0, f)

(* The share of s[i]: the power is reduced before it is multiplied. *)
RabinFingerprint(modN, s) ==
  SumMod(modN, [i \in DOMAIN s |->
                  Mul(Power(Len(s) - i) % modN, s[i]) % modN])

=============================================================================
