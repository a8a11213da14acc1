------------------------ MODULE MCGlobalProfiles -----------------------------
(***************************************************************************)
(* Two Python threads, a good file, one that breaks off after its first    *)
(* n-gram, one that does not exist, and a JSON document.                   *)
(***************************************************************************)
EXTENDS GlobalProfiles

MCReadable == [p \in Path |-> CASE p = "good" -> GramCount
                                [] p = "truncated" -> 1
                                [] p = "missing" -> 0]
=============================================================================
