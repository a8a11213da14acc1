------------------------- MODULE MCRollingRabinHash --------------------------
(***************************************************************************)
(* Words of 8 bits (HalfWord 16): modulus 8 divides 2^8, modulus 9 does    *)
(* not, as 5120000 of the tests does not divide 2^64.  With Alpha 5 and    *)
(* code 3 the sum of a term of length 4 overflows 2^8.                     *)
(***************************************************************************)
EXTENDS SingleLengthRollingRabinHash

MCCode == {1, 3}
MCTexts == SeqOf(MCCode, 6)
=============================================================================
