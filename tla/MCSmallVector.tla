---------------------------- MODULE MCSmallVector ----------------------------
(***************************************************************************)
(* Two vectors with two elements in place and one beyond, and three        *)
(* addresses for overflow vectors: one can be lost while both are used.    *)
(***************************************************************************)
EXTENDS SmallVector, TLC

Permuted == Permutations(Object) \cup Permutations(Address) \cup Permutations(Data)
=============================================================================
