------------------------- MODULE MCDetectionRunner ---------------------------
(***************************************************************************)
(* Three languages, the unknown one in the middle; n-grams that speak for  *)
(* one, for both to a different degree, and for none.  Texts of up to four *)
(* code points, two of them too short for some or all n-grams.  Three      *)
(* trials of up to three rounds, with looks at rounds 0 and 2: the limit 1 *)
(* is met between two looks.                                               *)
(***************************************************************************)
EXTENDS DetectionRunner

MCLangs == <<"af", "unknown", "zh">>
MCScore(gram, lang) ==
  CASE gram \in {<<"a">>, <<"a", "b">>} /\ lang = "af" -> 2
    [] gram \in {<<"b">>, <<"a", "b">>} /\ lang = "zh" -> 1
    [] gram = <<"b", "b", "a">> /\ lang = "zh" -> 3
    [] OTHER -> 0
MCTexts == {<<>>, <<"a">>, <<"b", "a">>, <<"c", "c", "c", "c">>, <<"b", "b", "a", "c">>}
MCShare == <<3, 5>>
=============================================================================
