---------------------------- MODULE HtmlExtraction ----------------------------
(***************************************************************************)
(* The two ways in which the library reads a parsed document: the main     *)
(* text, by html/goose, and the meta tags, by a search for the element to  *)
(* start from and MetaTags::extract.  Neither changes the tree.            *)
(***************************************************************************)
EXTENDS Goose, HtmlWalk

CONSTANT Pages    \* the documents whose meta tags are read

(* Only elements have children. *)
IsPage(d) == IsTree(d) /\ \A n \in DOMAIN d.tag : n > 1 => d.tag[d.parent[n]] # "TEXT"

ASSUME PagesAssumption == \A d \in Pages : IsPage(d)

vars == <<doc, gooseVars, walkVars>>

Init == \/ doc \in Documents /\ GooseBegins("collect") /\ WalkBegins("none")
        \/ doc \in Pages /\ GooseBegins("done") /\ WalkBegins("find")

ExtractContent ==
  /\ \/ Collect
     \/ ScoreNode
     \/ ScoringEnds
     \/ \E n \in unseen : Consider(n)
     \/ ChoosingEnds
     \/ FilterChild
     \/ Return
  /\ UNCHANGED walkVars

ExtractMeta ==
  /\ \/ StartFind
     \/ StartMeta
     \/ Descend
     \/ SkipChild
     \/ LeaveLoop
     \/ FindReturns
     \/ MetaReturns
  /\ UNCHANGED <<doc, gooseVars>>

Next == ExtractContent \/ ExtractMeta

Spec == Init /\ [][Next]_vars

=============================================================================
