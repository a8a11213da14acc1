------------------------------- MODULE Goose ---------------------------------
(***************************************************************************)
(* html/goose: how the main text is extracted from an HTML document.  The  *)
(* nodes with text are collected (TextNodeCollector), each gives a score   *)
(* to its parent and grandparent (NodeScorer, BoostChecker), the best node *)
(* is chosen, and those of its children that pass the filters of           *)
(* BaseContentExtractor are kept.                                          *)
(*                                                                         *)
(* Node 2 of a document is the body.  Of a text only what is compared is   *)
(* kept: how many tokens and stopwords it has, and whether it begins with  *)
(* a letter, for TokenView finds nothing in one that does not.  A leaf     *)
(* element with words stands for an element with one text child.           *)
(***************************************************************************)
EXTENDS HtmlNode

CONSTANTS Documents,          \* the documents extracted from, see Document
          MinBoostStopwords,  \* GooseOptions, 5 by default
          MaxBoostDistance,   \* GooseOptions, 3 by default
          ManyNodes,          \* 15: with more, the bottom nodes score less
          BottomShare,        \* 4: the bottom nodes are one in BottomShare
          NegativeLimit       \* 40: a larger malus becomes a bonus of 5

VARIABLES
  at,            \* the phase: "collect", "score", "choose", "keep", "done"
  collected,     \* nodesWithText
  upscores,      \* history: the upscore of each node processed so far
  boosts,        \* startingBoost - 1: nodes boosted so far
  nodeScores,    \* [node -> score], over the nodes scored so far
  unseen,        \* parentNodes_ that the choosing loop has not reached
  topNode, topNodeScore,
  next,          \* the child of topNode that is filtered next
  kept           \* the children whose text is in the content, in order

gooseVars == <<at, collected, upscores, boosts, nodeScores, unseen, topNode,
               topNodeScore, next, kept>>

Words == [tokens : Nat, stops : Nat, letterFirst : BOOLEAN]

IsDocument(d) ==
  /\ IsTree(d) /\ DOMAIN d.words = DOMAIN d.tag
  /\ \A n \in DOMAIN d.tag : /\ d.words[n] \in Words \cup {Null}
                             /\ n <= 2 => d.tag[n] \notin {"P", "PRE", "TD"}

ASSUME GooseAssumption ==
  /\ \A d \in Documents : IsDocument(d)
  /\ ManyNodes \in Nat /\ BottomShare \in Nat \ {0} /\ NegativeLimit \in Nat
  /\ MinBoostStopwords \in Nat /\ MaxBoostDistance \in Nat
  /\ Null \notin Int /\ Null \notin Words

-----------------------------------------------------------------------------
FirstOf(ns) == Min(ns)

-----------------------------------------------------------------------------
(* A node that TextCleaner leaves out with all that is below it; a class   *)
(* or an id on its list acts as the tag EM does.                           *)
IsBad(n) == Tag(n) \in {"STYLE", "SCRIPT", "EM"}

(* The nodes whose text is in getText(n) of TextCleaner. *)
CleanNodes(n) ==
  {m \in Subtree(n) : ~\E b \in Subtree(n) : IsBad(b) /\ m \in Subtree(b)}

(* P and BR end in a line break, so that the text of n does not begin with *)
(* a letter when an empty one comes first.                                 *)
CleanTextBegins(n) ==
  LET with == {m \in CleanNodes(n) : HasText(m)}
  IN  /\ with # {}
      /\ doc.words[FirstOf(with)].letterFirst
      /\ ~\E p \in CleanNodes(n) : /\ Tag(p) \in {"P", "BR"}
                                    /\ \A m \in Subtree(p) : m < FirstOf(with)

CountIn(ns, what) ==
  SumFunction([m \in {k \in ns : HasText(k)} |-> doc.words[m][what]])

(* countStopwords and getTokenCount of the text of TextCleaner. *)
CountStopwords(n) == IF CleanTextBegins(n) THEN CountIn(CleanNodes(n), "stops") ELSE 0
TokenCount(n) == IF CleanTextBegins(n) THEN CountIn(CleanNodes(n), "tokens") ELSE 0

(* The nodes whose text is in getText(n) of Node, which leaves out scripts *)
(* and styles only.                                                        *)
PlainNodes(n) ==
  {m \in Subtree(n) : ~\E b \in Subtree(n) : Tag(b) \in {"SCRIPT", "STYLE"} /\ m \in Subtree(b)}

(* getTokenCount of that text.                                             *)
PlainTokenCount(n) ==
  LET with == {m \in PlainNodes(n) : HasText(m)}
  IN  IF with # {} /\ doc.words[FirstOf(with)].letterFirst THEN CountIn(with, "tokens") ELSE 0

(* The score is linkTokens / tokens * links in floating point: without     *)
(* tokens it is infinite, or not a number and then not above 1.            *)
HasHighLinkDensity(n) ==
  LET links == {a \in Subtree(n) : Tag(a) = "A"}
      linkTokens == SumFunction([a \in links |-> PlainTokenCount(a)])
  IN  links # {} /\ linkTokens * Cardinality(links) > TokenCount(n)

-----------------------------------------------------------------------------
IsCollected(n) == /\ Tag(n) \in {"P", "PRE", "TD"}
                  /\ ~HasHighLinkDensity(n)
                  /\ CountStopwords(n) > 2

GooseBegins(phase) ==
  /\ at = phase
  /\ collected = <<>> /\ upscores = <<>> /\ boosts = 0
  /\ nodeScores = <<>> /\ unseen = {}
  /\ topNode = Null /\ topNodeScore = 0
  /\ next = 1 /\ kept = <<>>

(* Variant of collect(): links are not looked at. *)
CollectLinks == /\ at = "collect"
                /\ collected' = InDocumentOrder({n \in Nodes : /\ Tag(n) \in {"P", "PRE", "TD"}
                                                               /\ CountStopwords(n) > 2})
                /\ at' = "score"
                /\ UNCHANGED <<doc, upscores, boosts, nodeScores, unseen, topNode,
                               topNodeScore, next, kept>>

(* TextNodeCollector::collect visits the tree in document order. *)
Collect == /\ at = "collect"
           /\ collected' = InDocumentOrder({n \in Nodes : IsCollected(n)})
           /\ at' = "score"
           /\ UNCHANGED <<doc, upscores, boosts, nodeScores, unseen, topNode,
                          topNodeScore, next, kept>>

(* BoostChecker::shouldBoost looks at the siblings from the first one on,  *)
(* the node itself included: one of the first MaxBoostDistance paragraphs  *)
(* has many stopwords.                                                     *)
ShouldBoost(n) ==
  LET ps == {s \in SiblingsWalked(n) : Tag(s) = "P"}
  IN  \E s \in ps : /\ CountStopwords(s) > MinBoostStopwords
                    /\ Cardinality({q \in ps : q < s}) < MaxBoostDistance

(* Variant: rounds down. *)
HalfDown(x) == x \div 2

(* Truncation of C, towards zero. *)
Half(x) == IF x >= 0 THEN x \div 2 ELSE -((-x) \div 2)

(* The i-th of count nodes counts from 0; the bottom ones get minus the    *)
(* square of count / BottomShare - (count - i), whether boosted or not.    *)
IsBottom(i, count) == count > ManyNodes /\ BottomShare * (count - i) <= count

BottomScore(i, count) ==
  LET square == (count - BottomShare * (count - i)) * (count - BottomShare * (count - i))
  IN  IF square > NegativeLimit * BottomShare * BottomShare
      THEN 5 ELSE -(square \div (BottomShare * BottomShare))

BoostScore(i, n) ==
  IF IsBottom(i, Len(collected)) THEN BottomScore(i, Len(collected))
  ELSE IF ShouldBoost(n) THEN 50 \div (boosts + 1) ELSE 0

ScoreOf(n) == IF n \in DOMAIN nodeScores THEN nodeScores[n] ELSE 0

(* NodeScorer::updateTextyNode: the parent gets the score, the grandparent *)
(* half of it.                                                             *)
UpdateTextyNode(n, score) ==
  LET parent == doc.parent[n]
      grandparent == doc.parent[parent]
  IN  nodeScores' = [m \in DOMAIN nodeScores \cup {parent, grandparent} |->
        CASE m = parent -> ScoreOf(m) + score
          [] m = grandparent -> ScoreOf(m) + Half(score)
          [] OTHER -> ScoreOf(m)]

ScoreNode ==
  LET i == Len(upscores)
      n == collected[i + 1]
      upscore == CountStopwords(n) + BoostScore(i, n)
  IN  /\ at = "score" /\ i < Len(collected)
      /\ boosts' = IF ShouldBoost(n) THEN boosts + 1 ELSE boosts
      /\ upscores' = Append(upscores, upscore)
      /\ UpdateTextyNode(n, upscore)
      /\ UNCHANGED <<doc, at, collected, unseen, topNode, topNodeScore, next, kept>>

ScoringEnds == /\ at = "score" /\ Len(upscores) = Len(collected)
               /\ at' = "choose"
               /\ unseen' = DOMAIN nodeScores
               /\ UNCHANGED <<doc, collected, upscores, boosts, nodeScores, topNode,
                              topNodeScore, next, kept>>

-----------------------------------------------------------------------------
(* Variant: a node that is not better is kept as well. *)
ConsiderLast(n) ==
  /\ at = "choose" /\ n \in unseen
  /\ unseen' = unseen \ {n}
  /\ topNode' = n
  /\ topNodeScore' = IF nodeScores[n] > topNodeScore THEN nodeScores[n] ELSE topNodeScore
  /\ UNCHANGED <<doc, at, collected, upscores, boosts, nodeScores, next, kept>>

(* The loop over parentNodes_, a set ordered by memory address: any order. *)
Consider(n) ==
  /\ at = "choose" /\ n \in unseen
  /\ unseen' = unseen \ {n}
  /\ IF nodeScores[n] > topNodeScore
     THEN topNode' = n /\ topNodeScore' = nodeScores[n]
     ELSE topNode' = (IF topNode = Null THEN n ELSE topNode) /\ UNCHANGED topNodeScore
  /\ UNCHANGED <<doc, at, collected, upscores, boosts, nodeScores, next, kept>>

ChoosingEnds == /\ at = "choose" /\ unseen = {}
                /\ at' = "keep"
                /\ UNCHANGED <<doc, collected, upscores, boosts, nodeScores, unseen,
                               topNode, topNodeScore, next, kept>>

-----------------------------------------------------------------------------
(* nodeScore < 0.08 * topNodeScore *)
BelowThreshold(n) == 100 * ScoreOf(n) < 8 * topNodeScore

Passes(n) ==
  /\ IsElement(n) /\ Tag(n) # "P" => /\ ~HasHighLinkDensity(n)
                                     /\ Tag(n) = "TD" \/ ~BelowThreshold(n)
  /\ CountStopwords(n) >= 3

TopChildren == IF topNode = Null THEN {} ELSE Children(topNode)

FilterChild ==
  LET left == {c \in TopChildren : c >= next}
      child == FirstOf(left)
  IN  /\ at = "keep" /\ left # {}
      /\ kept' = IF Passes(child) THEN Append(kept, child) ELSE kept
      /\ next' = child + 1
      /\ UNCHANGED <<doc, at, collected, upscores, boosts, nodeScores, unseen,
                     topNode, topNodeScore>>

Return == /\ at = "keep" /\ \A c \in TopChildren : c < next
          /\ at' = "done"
          /\ UNCHANGED <<doc, collected, upscores, boosts, nodeScores, unseen,
                         topNode, topNodeScore, next, kept>>

-----------------------------------------------------------------------------
TypeOK ==
  LET Node == 0 .. Len(doc.tag)
  IN  /\ IsTree(doc)
      /\ at \in {"collect", "score", "choose", "keep", "done"}
      /\ collected \in Seq(Node) /\ kept \in Seq(Node)
      /\ upscores \in Seq(Int) /\ boosts \in 0 .. Len(collected)
      /\ DOMAIN nodeScores \subseteq Node /\ \A n \in DOMAIN nodeScores : nodeScores[n] \in Int
      /\ unseen \subseteq DOMAIN nodeScores
      /\ topNode \in DOMAIN nodeScores \cup {Null} /\ topNodeScore \in Nat
      /\ next \in 1 .. Len(doc.tag) + 1

(* Whatever the order of the addresses: of the nodes seen so far, the one  *)
(* chosen has the highest score if any score is positive, and otherwise    *)
(* one is chosen all the same, with the score 0.  Only between equal best  *)
(* scores, or without a positive one, can the addresses decide.            *)
TopNodeIsBest ==
  LET seen == DOMAIN nodeScores \ unseen
  IN  /\ TypeOK
      /\ at \in {"choose", "keep", "done"} =>
        /\ topNode = Null <=> seen = {}
        /\ \A n \in seen : nodeScores[n] <= topNodeScore
        /\ topNodeScore > 0 => nodeScores[topNode] = topNodeScore

(* The incremental scores add up: each node has the upscores of the        *)
(* collected nodes right below it and half of those one level further      *)
(* down, each half truncated by itself.                                    *)
ScoresAreShares ==
  \A n \in DOMAIN nodeScores :
    LET Share(i) == CASE doc.parent[collected[i]] = n -> upscores[i]
                      [] doc.parent[doc.parent[collected[i]]] = n ->
                           IF upscores[i] < 0 THEN -((-upscores[i]) \div 2)
                                              ELSE upscores[i] \div 2
                      [] OTHER -> 0
    IN  nodeScores[n] = SumFunction([i \in DOMAIN upscores |-> Share(i)])

(* What was scored is what is kept: a collected child of the top node is   *)
(* in the content unless it is a PRE, whose own score as a parent is below *)
(* the threshold; and a paragraph in the content that was not collected is *)
(* one with many links, which only the collector asks a P about.           *)
KeptVersusCollected ==
  at = "done" =>
    /\ \A n \in Range(collected) :
         doc.parent[n] = topNode /\ n \notin Range(kept) => Tag(n) = "PRE" /\ BelowThreshold(n)
    /\ \A n \in Range(kept) :
         Tag(n) = "P" /\ n \notin Range(collected) => HasHighLinkDensity(n)

=============================================================================
