----------------------- MODULE MCThreadLocalStemmers -------------------------
(***************************************************************************)
(* Two threads, three extractors, two keys: two extractors have different  *)
(* keys, the third exhausts them, and keys are reused.  English has a      *)
(* stopword, Afrikaans is known without having a stemmer, "xx" is not      *)
(* known.  No property is temporal, so that what is alike may be permuted. *)
(***************************************************************************)
EXTENDS ThreadLocalStemmers, TLC

CONSTANTS short, stop, w1

MCWord == {short, stop, w1}
MCStopwordsOf == [l \in StopwordLanguages |-> IF l = "en" THEN {stop} ELSE {}]

Permuted == Permutations(Thread) \cup Permutations(Manager)
            \cup Permutations(Extractor) \cup Permutations(Key)
=============================================================================
