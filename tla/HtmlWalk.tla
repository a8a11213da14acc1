------------------------------ MODULE HtmlWalk --------------------------------
(***************************************************************************)
(* The recursion Node::dfs with its two callers that keep state, as tests  *)
(* of html/MetaTags.cpp put them together: dfFindFirst looks for a node,   *)
(* and MetaTags::extract reads the meta tags below it.  Each level of the  *)
(* recursion is a frame: the children its loop has still to look at.       *)
(***************************************************************************)
EXTENDS HtmlNode

CONSTANTS Wanted,    \* the tags looked for
          Closed     \* the tags that the filter of dfFindFirst rejects;
                     \* Null for the filter that accepts all

VARIABLES stage,          \* "find", "meta", "done", or "none" while a document is
                          \* read for its main text
          wanted, closed,
          frames,
          keepGoing,
          found,          \* the result of dfFindFirst, Null for no node
          tagValues,      \* the map of MetaTags
          visited         \* history: what the walk of this stage has shown
                          \* its visitor

walkVars == <<stage, wanted, closed, frames, keepGoing, found, tagValues, visited>>

WalkBegins(first) ==
  /\ stage = first
  /\ wanted \in Wanted /\ closed \in Closed
  /\ frames = <<>> /\ keepGoing = TRUE
  /\ found = Null /\ tagValues = <<>>
  /\ visited = <<>>

ChildSeq(n) == InDocumentOrder(Children(n))

-----------------------------------------------------------------------------
(* Variant: the visitor goes on. *)
FindVisitsOn(n) == /\ found' = IF Tag(n) = wanted THEN n ELSE found
                   /\ UNCHANGED <<keepGoing, tagValues>>

(* The visitor of dfFindFirst takes the node and escapes. *)
FindVisits(n) == /\ IF Tag(n) = wanted THEN found' = n /\ keepGoing' = FALSE
                    ELSE UNCHANGED <<found, keepGoing>>
                 /\ UNCHANGED tagValues

(* The visitor of MetaTags::extract: the first of three attributes that a  *)
(* meta element has is its key, even if the value is missing then.         *)
KeyAttr(n) ==
  LET names == <<"property", "name", "itemprop">>
  IN  names[Min({i \in 1 .. 3 : HasAttr(n, names[i])} \cup {3})]

ValueAttr(n) == IF KeyAttr(n) = "itemprop" THEN "datetime" ELSE "content"

IsMetaValue(n) ==
  /\ Tag(n) = "META"
  /\ HasAttr(n, KeyAttr(n)) /\ HasAttr(n, ValueAttr(n))
  /\ KeyAttr(n) = "itemprop" => GetAttr(n, "itemprop") = "datePublished"

(* Variant: the last value stays. *)
Assigned(key, value) ==
  [k \in DOMAIN tagValues \cup {key} |-> IF k = key THEN value ELSE tagValues[k]]

(* insert() leaves a value that is there. *)
Inserted(key, value) ==
  [k \in DOMAIN tagValues \cup {key} |->
     IF k \in DOMAIN tagValues THEN tagValues[k] ELSE value]

MetaVisits(n) ==
  /\ tagValues' = IF IsMetaValue(n)
                  THEN Inserted(GetAttr(n, KeyAttr(n)), GetAttr(n, ValueAttr(n)))
                  ELSE tagValues
  /\ UNCHANGED <<found, keepGoing>>

(* A call of dfs for a node that is good; below are the frames of callers. *)
Dfs(n, below) ==
  /\ visited' = Append(visited, n)
  /\ IF stage = "find" THEN FindVisits(n) ELSE MetaVisits(n)
  /\ frames' = IF keepGoing' THEN Append(below, ChildSeq(n)) ELSE below
  /\ UNCHANGED <<stage, wanted, closed>>

-----------------------------------------------------------------------------
StartFind == stage = "find" /\ visited = <<>> /\ Dfs(1, <<>>)

StartMeta == stage = "meta" /\ visited = <<>> /\ found # Null /\ Dfs(found, <<>>)

(* Filters are asked about children only. *)
Recurses(c) == stage = "meta" \/ closed = Null \/ Tag(c) # closed

(* The next child of the loop in dfs. *)
InLoop(c) == /\ frames # <<>> /\ keepGoing
             /\ Last(frames) # <<>> /\ c = Head(Last(frames))

Continued == Append(Front(frames), Tail(Last(frames)))

(* Variant: the loop goes on after an escape. *)
DescendAfterEscape == \E c \in Nodes : /\ frames # <<>>
                                       /\ Last(frames) # <<>> /\ c = Head(Last(frames))
                                       /\ Recurses(c) /\ Dfs(c, Continued)

Descend == \E c \in Nodes : InLoop(c) /\ Recurses(c) /\ Dfs(c, Continued)

SkipChild == /\ \E c \in Nodes : InLoop(c) /\ ~Recurses(c)
             /\ frames' = Continued
             /\ UNCHANGED <<stage, wanted, closed, keepGoing, found, tagValues, visited>>

(* The end of the loop, or its break after an escape. *)
LeaveLoop == /\ frames # <<>>
             /\ Last(frames) = <<>> \/ ~keepGoing
             /\ frames' = Front(frames)
             /\ UNCHANGED <<stage, wanted, closed, keepGoing, found, tagValues, visited>>

FindReturns == /\ stage = "find" /\ visited # <<>> /\ frames = <<>>
               /\ stage' = "meta" /\ keepGoing' = TRUE /\ visited' = <<>>
               /\ UNCHANGED <<wanted, closed, frames, found, tagValues>>

(* dfs of a node that is not good returns at once. *)
MetaReturns == /\ stage = "meta" /\ frames = <<>>
               /\ visited # <<>> \/ found = Null
               /\ stage' = "done"
               /\ UNCHANGED <<wanted, closed, frames, keepGoing, found, tagValues, visited>>

-----------------------------------------------------------------------------
Nothing == 0

GetFirstOrNothing(names) ==
  LET has == {i \in DOMAIN names : names[i] \in DOMAIN tagValues}
  IN  IF has = {} THEN Nothing ELSE tagValues[names[Min(has)]]

PubdateTags == <<"rnews:datePublished", "article:published_time",
                 "OriginalPublicationDate", "datePublished">>
TitleTags == <<"og:title", "headline">>

(* Node::getText, as the sequence of the text nodes written and Space for  *)
(* each space.  The index i of its loop stays 0, so that a space follows   *)
(* every child with text, the last one too, unless it is the only child.   *)
Space == 0

SpaceBehind(n, added) ==
  IF added # <<>> /\ Cardinality(Children(n)) > 1 THEN <<Space>> ELSE <<>>

TextOf(n) ==
  LET text[m \in Nodes] ==
        LET AddedFor(c) == IF c \in Children(m) THEN text[c] \o SpaceBehind(m, text[c])
                                                ELSE <<>>
        IN  IF IsText(m) THEN (IF HasText(m) THEN <<m>> ELSE <<>>)
            ELSE IF Tag(m) \in {"SCRIPT", "STYLE"} THEN <<>>
            ELSE FoldLeft(\o, <<>>, [c \in Nodes |-> AddedFor(c)])
  IN  text[n]

-----------------------------------------------------------------------------
(* The nodes a walk from start can show: no filter rejects them or a node  *)
(* above them.                                                             *)
Visitable(start, rejected) ==
  {n \in Subtree(start) :
     \A m \in Subtree(start) \ {start} : n \in Subtree(m) => m \notin rejected}

(* s shows the nodes of S, each once and in the order of the document.     *)
InOrder(s, S) == Range(s) = S /\ \A i, j \in DOMAIN s : i < j => s[i] < s[j]

ClosedNodes == {m \in Nodes : closed # Null /\ Tag(m) = closed}
Matches == {n \in Visitable(1, ClosedNodes) : Tag(n) = wanted}
Unwritten == {m \in Nodes : Tag(m) \in {"SCRIPT", "STYLE"}}
TextsBelow(n) == IF n \in Unwritten THEN {}
                 ELSE {m \in Visitable(n, Unwritten) : IsText(m) /\ HasText(m)}

(* dfs visits exactly the nodes it should, in the order of the document,   *)
(* up to the one that escapes, whatever the nesting of the loops: what is  *)
(* found is the first match, and the walk over the meta tags sees all that *)
(* is below it.  getText writes each text that is not part of a script or  *)
(* a style once, in order, with a space between any two.                   *)
TraversalsFollowTheDocument ==
  LET shown == IF stage = "find" THEN Visitable(1, ClosedNodes) ELSE Subtree(found)
  IN  /\ visited # <<>> => InOrder(visited, {n \in shown : n <= Last(visited)})
      /\ stage \in {"meta", "done"} =>
           found = IF Matches = {} THEN Null ELSE Min(Matches)
      /\ stage = "done" /\ found # Null =>
           LET written == TextOf(found)
               IsNode(i) == written[i] # Space
           IN  /\ InOrder(visited, Subtree(found))
               /\ Range(written) \ {Space} = TextsBelow(found)
               /\ \A i, j \in DOMAIN written :
                    i < j /\ IsNode(i) /\ IsNode(j) => written[i] < written[j] /\ j # i + 1

(* What a meta element gives: a property hides the name and the itemprop   *)
(* of the same element, a name the itemprop.                               *)
Gives(n, key) ==
  /\ Tag(n) = "META"
  /\ \/ /\ HasAttr(n, "property") /\ doc.attr[n]["property"] = key
        /\ HasAttr(n, "content")
     \/ /\ ~HasAttr(n, "property")
        /\ HasAttr(n, "name") /\ doc.attr[n]["name"] = key
        /\ HasAttr(n, "content")
     \/ /\ ~HasAttr(n, "property") /\ ~HasAttr(n, "name")
        /\ HasAttr(n, "itemprop") /\ doc.attr[n]["itemprop"] = key
        /\ key = "datePublished"
        /\ HasAttr(n, "datetime")

Given(n) == IF HasAttr(n, "property") \/ HasAttr(n, "name") THEN doc.attr[n]["content"]
                                                           ELSE doc.attr[n]["datetime"]

Givers(key) == IF found = Null THEN {} ELSE {n \in Subtree(found) : Gives(n, key)}

FirstGiven(key) == Given(Min(Givers(key)))

(* A name has the value of the first meta element below the node that      *)
(* gives it one, and no other name has a value.  The title is the one      *)
(* under og:title even if a headline comes first, and so on for the date   *)
(* of publication.                                                         *)
MetaValuesAreTheFirst ==
  stage = "done" =>
    /\ \A key \in DOMAIN tagValues \cup Range(PubdateTags) \cup Range(TitleTags) :
         IF Givers(key) = {} THEN key \notin DOMAIN tagValues
         ELSE key \in DOMAIN tagValues /\ tagValues[key] = FirstGiven(key)
    /\ \A names \in {PubdateTags, TitleTags} :
         LET given == {i \in DOMAIN names : Givers(names[i]) # {}}
         IN  GetFirstOrNothing(names) =
               IF given = {} THEN Nothing ELSE FirstGiven(names[Min(given)])

-----------------------------------------------------------------------------
(* A page as DocumentScan sees it, and what the walk of this stage has     *)
(* still to show: nothing after an escape, whatever frames are left.       *)
KeyCandidates(n) ==
  {GetAttr(n, a) : a \in {"property", "name", "itemprop"} \cap DOMAIN doc.attr[n]}

GivenBy(n) == [key \in {k \in KeyCandidates(n) : Gives(n, k)} |-> Given(n)]

ScannedPage ==
  IF stage = "none" THEN Null
  ELSE [open |-> Visitable(1, ClosedNodes),
        wanted |-> {n \in Nodes : Tag(n) = wanted},
        below |-> [n \in Nodes |-> Subtree(n)],
        gives |-> [n \in Nodes |-> GivenBy(n)]]

Unshown(S) == {n \in S : visited # <<>> => n > Last(visited)}

Ahead == CASE stage = "find" /\ keepGoing -> Unshown(Visitable(1, ClosedNodes))
           [] stage = "meta" /\ found # Null -> Unshown(Subtree(found))
           [] OTHER -> {}

Scan == INSTANCE DocumentScan WITH page <- ScannedPage, phase <- stage, ahead <- Ahead,
                                   values <- tagValues

(* The recursion of dfs with its filter and its escape is a plain scan at  *)
(* every step, not only in its result: a call takes just the next node, a  *)
(* return, a rejected child and an unwinding frame take nothing, and the   *)
(* search ends, and the reading of the meta tags begins, when nothing is   *)
(* left to show.                                                           *)
ImplementsScan == Scan!Spec

=============================================================================
