------------------------ MODULE HtmlExtraction_proofs -------------------------
(***************************************************************************)
(* Proofs about the extraction of the main text, for all documents and all *)
(* options: what the collector gathered, what the scores are made of,      *)
(* which node is chosen whatever the order of the addresses, and which of  *)
(* its children are kept; and about the walks over a page, for all pages:  *)
(* what dfs shows, what dfFindFirst finds, which values MetaTags::extract  *)
(* keeps and what getText writes.                                          *)
(*                                                                         *)
(* The invariant says per phase what the later ones rely on.  Collecting:  *)
(* the nodes gathered are those that TextNodeCollector accepts.  Scoring:  *)
(* the score of every node of the tree, 0 while it has none, is the sum of *)
(* its shares so far.  Choosing: no node seen has a higher score than the  *)
(* top node.  Keeping: the children filtered so far are kept just when     *)
(* they pass.                                                              *)
(*                                                                         *)
(* That of the walks says what is still to come: the children left to the  *)
(* loops of all frames stand in the order of the document, behind every    *)
(* node shown, and whatever may be shown and has not been is one of them   *)
(* or below one.  getText has no steps: the nodes below a node come after  *)
(* it, so that its text follows by induction from the last node back.      *)
(*                                                                         *)
(* The same invariant makes each call of dfs a step of DocumentScan: what  *)
(* has been shown is all up to the last node, before the call and after    *)
(* it, so that the node of the call is the next one.                       *)
(***************************************************************************)
EXTENDS HtmlExtraction, FiniteSetTheorems, SequenceTheorems, TLAPS

Plus(a, b) == a + b
AnyOf(s) == CHOOSE x \in s : TRUE
Largest(s) == Max(s)
Behind(t, s) == s \o t

Sums == INSTANCE FoldTheorems WITH Op <- Plus, Choose <- AnyOf
Lists == INSTANCE FoldTheorems WITH Op <- Behind, Choose <- Largest

-----------------------------------------------------------------------------
Begun == at # "collect"
Running == at # "done" \/ collected # <<>> \/ kept # <<>>

Collecting ==
  /\ Running => IsDocument(doc)
  /\ ~Begun => collected = <<>>
  /\ Begun /\ Running => Range(collected) = {n \in Nodes : IsCollected(n)}

(* What the upscore of the i-th node collected adds to the score of n.     *)
ShareOf(n, i) == CASE doc.parent[collected[i]] = n -> upscores[i]
                   [] doc.parent[doc.parent[collected[i]]] = n -> Half(upscores[i])
                   [] OTHER -> 0

Scoring ==
  /\ Len(upscores) <= Len(collected) /\ boosts <= Len(upscores)
  /\ ~Begun => upscores = <<>>
  /\ \A n \in 0 .. Len(doc.tag) :
       ScoreOf(n) = SumFunction([i \in DOMAIN upscores |-> ShareOf(n, i)])

Choosing == /\ at \in {"collect", "score"} => unseen = {} /\ topNode = Null /\ topNodeScore = 0
            /\ at = "keep" => unseen = {}
            /\ topNode = Null => topNodeScore = 0
            /\ TopNodeIsBest

Keeping ==
  /\ at \in {"collect", "score", "choose"} => next = 1 /\ kept = <<>>
  /\ \A c \in Range(kept) : c \in TopChildren /\ Passes(c)
  /\ \A c \in TopChildren : c < next /\ Passes(c) => c \in Range(kept)
  /\ at = "done" => \A c \in TopChildren : c < next

IInv == TypeOK /\ Collecting /\ Scoring /\ Choosing /\ Keeping

-----------------------------------------------------------------------------
(* Sums.                                                                   *)
LEMMA SumIsFold == ASSUME NEW f PROVE SumFunction(f) = Sums!Folded(0, f, DOMAIN f)
BY DEF SumFunction, SumFunctionOnSet, FoldFunctionOnSet, Sums!Folded, MapThenFoldSet,
       Sums!MapThenFoldSet, Plus, AnyOf

(* Sums over finite sets are folds that choose a member of the set.        *)
LEMMA FiniteSum ==
  ASSUME NEW S, IsFiniteSet(S)
  PROVE  Sums!IsFiniteSet(S) /\ Sums!ChoosesFrom(S)
<1>1. Sums!IsFiniteSet(S)
  BY DEF IsFiniteSet, Sums!IsFiniteSet
<1> QED  BY <1>1 DEF Sums!ChoosesFrom, AnyOf

(* A sum of integers is one.                                               *)
LEMMA SumType ==
  ASSUME NEW S, IsFiniteSet(S), NEW V \in {Nat, Int}, NEW f \in [S -> V]
  PROVE  SumFunction(f) \in V
<1>1. 0 \in V /\ \A x \in S, v \in V : Plus(f[x], v) \in V
  <2>1. CASE V = Nat
    BY <2>1 DEF Plus
  <2>2. CASE V = Int
    BY <2>2 DEF Plus
  <2> QED  BY <2>1, <2>2
<1>2. Sums!Folded(0, f, S) \in V
  BY <1>1, FiniteSum, Sums!FoldType
<1> QED  BY <1>2, SumIsFold

(* A sum over one number more.                                             *)
LEMMA SumOfOneMore ==
  ASSUME NEW k \in Nat, NEW f \in [1 .. k + 1 -> Int], NEW g \in [1 .. k -> Int],
         \A i \in 1 .. k : f[i] = g[i]
  PROVE  SumFunction(g) \in Int /\ SumFunction(f) = SumFunction(g) + f[k + 1]
<1>1. PICK S, V : S = 1 .. k + 1 /\ V = Int
  OBVIOUS
<1>2. /\ Sums!IsFiniteSet(S) /\ Sums!ChoosesFrom(S) /\ k + 1 \in S /\ S \ {k + 1} = 1 .. k
  <2>1. IsFiniteSet(1 .. k + 1)
    BY FS_Interval
  <2>2. k + 1 \in S /\ S \ {k + 1} = 1 .. k
    BY <1>1
  <2> QED  BY <1>1, <2>1, <2>2, FiniteSum
<1>3. 0 \in V /\ \A x \in S : f[x] \in V
  BY <1>1
<1>4. \A x \in S, v \in V : Plus(f[x], v) \in V
  BY <1>1, <1>3 DEF Plus
<1>5. \A x \in S, y \in S, v \in V : Plus(f[x], Plus(f[y], v)) = Plus(f[y], Plus(f[x], v))
  BY <1>1, <1>3 DEF Plus
<1>6. \A x \in S : Sums!Folded(0, f, S) = Plus(f[x], Sums!Folded(0, f, S \ {x}))
  <2>1. Sums!IsFiniteSet(S) /\ Sums!ChoosesFrom(S) /\ 0 \in V
    BY <1>2, <1>3
  <2>2. PICK h : h = f
    OBVIOUS
  <2>3. /\ \A x \in S, v \in V : Plus(h[x], v) \in V
        /\ \A x \in S, y \in S, v \in V : Plus(h[x], Plus(h[y], v)) = Plus(h[y], Plus(h[x], v))
    BY <1>4, <1>5, <2>2
  <2>4. \A x \in S : Sums!Folded(0, h, S) = Plus(h[x], Sums!Folded(0, h, S \ {x}))
    BY <2>1, <2>3, Sums!FoldRemove
  <2> QED  BY <2>2, <2>4
<1>7. Sums!Folded(0, f, S) = Plus(f[k + 1], Sums!Folded(0, f, 1 .. k))
  BY <1>2, <1>6
<1>8. PICK R : R = 1 .. k
  OBVIOUS
<1>9. Sums!Folded(0, f, R) = Sums!Folded(0, g, R)
  <2>1. IsFiniteSet(1 .. k)
    BY FS_Interval
  <2>2. Sums!IsFiniteSet(R) /\ Sums!ChoosesFrom(R) /\ \A i \in R : f[i] = g[i]
    BY <1>8, <2>1, FiniteSum
  <2> QED  BY <2>2, Sums!FoldCongruence
<1>10. SumFunction(g) \in Int
  <2>1. IsFiniteSet(1 .. k)
    BY FS_Interval
  <2> QED  BY <2>1, SumType
<1>11. SumFunction(f) = Sums!Folded(0, f, S) /\ SumFunction(g) = Sums!Folded(0, g, R)
  BY <1>1, <1>8, SumIsFold
<1>12. f[k + 1] \in Int
  BY <1>1, <1>2
<1> QED  BY <1>7, <1>8, <1>9, <1>10, <1>11, <1>12 DEF Plus

-----------------------------------------------------------------------------
(* The tree.                                                               *)
LEMMA NodeFacts ==
  ASSUME IsTree(doc), NEW len, len = Len(doc.tag)
  PROVE  /\ len \in Nat /\ Nodes = 1 .. len /\ IsFiniteSet(Nodes)
         /\ \A n \in Nodes : n > 1 => doc.parent[n] \in 1 .. n - 1
         /\ doc.parent[1] = 0
<1>1. len \in Nat /\ DOMAIN doc.tag = 1 .. len
  BY LenProperties DEF IsTree
<1>2. IsFiniteSet(1 .. len)
  BY <1>1, FS_Interval
<1> QED  BY <1>1, <1>2 DEF IsTree, Nodes

(* The fold over a sequence picks the greatest index.                      *)
LEMMA LargestFacts ==
  ASSUME NEW n \in Nat
  PROVE  Lists!PicksGreatest(n)
<1>1. ASSUME NEW s \in SUBSET (1 .. n), s # {}
      PROVE  Largest(s) \in s /\ \A y \in s : y <= Largest(s)
  <2>1. PICK x \in s : \A y \in s : y <= x
    BY <1>1, Lists!BoundedHasGreatest
  <2> QED  BY <2>1 DEF Largest, Max
<1> QED  BY <1>1 DEF Lists!PicksGreatest

(* What Append adds to the range of a sequence.                            *)
LEMMA RangeWithOne ==
  ASSUME NEW s \in Seq(Nat), NEW x \in Nat
  PROVE  /\ Append(s, x) \in Seq(Nat) /\ s \o <<x>> = Append(s, x) /\ s \o <<>> = s
         /\ Range(Append(s, x)) = Range(s) \cup {x}
<1>1. PICK n, t : n = Len(s) /\ t = Append(s, x)
  OBVIOUS
<1>2. /\ n \in Nat /\ t \in Seq(Nat) /\ DOMAIN s = 1 .. n /\ DOMAIN t = 1 .. n + 1
      /\ t[n + 1] = x /\ \A i \in 1 .. n : t[i] = s[i]
  BY <1>1, AppendProperties, LenProperties
<1>3. n + 1 \in DOMAIN t /\ \A i \in DOMAIN s : i \in DOMAIN t /\ t[i] = s[i]
  BY <1>2
<1>4. \A i \in DOMAIN t : i = n + 1 \/ i \in DOMAIN s
  BY <1>2
<1>5. Range(t) = Range(s) \cup {x}
  BY <1>2, <1>3, <1>4 DEF Range
<1>6. s \o <<>> = s
  BY ConcatEmptySeq
<1>7. s \o <<x>> = Append(s, x)
  BY AppendIsConcat
<1> QED  BY <1>1, <1>2, <1>5, <1>6, <1>7

(* A traversal in document order meets each node of a set once, in order.  *)
LEMMA DocumentOrder ==
  ASSUME IsTree(doc), NEW ns \in SUBSET Nodes, NEW s, s = InDocumentOrder(ns)
  PROVE  /\ s \in Seq(Nat) /\ Range(s) = ns
         /\ \A i, j \in DOMAIN s : i < j => s[i] < s[j]
<1>1. PICK len, f : len = Len(doc.tag) /\ f = [n \in Nodes |-> IF n \in ns THEN <<n>> ELSE <<>>]
  OBVIOUS
<1>2. len \in Nat /\ Nodes = 1 .. len
  BY <1>1, NodeFacts
<1> DEFINE F(k) == Lists!Folded(<<>>, f, 1 .. k)
           Sorted(t) == \A i, j \in DOMAIN t : i < j => t[i] < t[j]
           Holds(k) == F(k) \in Seq(Nat) /\ Range(F(k)) = ns \cap (1 .. k) /\ Sorted(F(k))
           T == {k \in Nat : k <= len => Holds(k)}
<1>3. 0 \in T
  <2>1. F(0) = <<>>
    <3>1. 1 .. 0 = {}
      OBVIOUS
    <3> QED  BY <3>1, Lists!FoldEmpty
  <2>2. <<>> \in Seq(Nat) /\ Range(<<>>) = {} /\ DOMAIN <<>> = {}
    BY EmptySeq DEF Range
  <2>3. ns \cap (1 .. 0) = {}
    OBVIOUS
  <2> QED  BY <2>1, <2>2, <2>3
<1>4. ASSUME NEW k \in T
      PROVE  k + 1 \in T
  <2>1. CASE k + 1 <= len
    <3>1. PICK t : t = F(k)
      OBVIOUS
    <3>2. k \in Nat /\ t \in Seq(Nat) /\ Range(t) = ns \cap (1 .. k) /\ Sorted(t) /\ k + 1 \in Nodes
      BY <1>2, <2>1, <3>1
    <3>3. F(k + 1) = t \o f[k + 1]
      <4>1. F(k + 1) = Behind(f[k + 1], F(k))
        BY <3>2, LargestFacts, Lists!FoldUpTo
      <4> QED  BY <3>1, <4>1 DEF Behind
    <3>4. CASE k + 1 \in ns
      <4>1. F(k + 1) = Append(t, k + 1)
        <5>1. f[k + 1] = <<k + 1>>
          BY <1>1, <3>2, <3>4
        <5>2. t \o <<k + 1>> = Append(t, k + 1)
          BY <3>2, RangeWithOne
        <5> QED  BY <3>3, <5>1, <5>2
      <4>2. PICK n, u : n = Len(t) /\ u = Append(t, k + 1)
        OBVIOUS
      <4>3. /\ n \in Nat /\ u \in Seq(Nat) /\ DOMAIN t = 1 .. n /\ DOMAIN u = 1 .. n + 1
            /\ u[n + 1] = k + 1 /\ \A i \in 1 .. n : u[i] = t[i]
            /\ Range(u) = Range(t) \cup {k + 1}
        BY <3>2, <4>2, AppendProperties, LenProperties, RangeWithOne
      <4>4. \A i \in 1 .. n : t[i] \in 1 .. k
        BY <3>2, <4>3 DEF Range
      <4>5. Sorted(u)
        <5>1. ASSUME NEW i \in 1 .. n + 1, NEW j \in 1 .. n + 1, i < j PROVE u[i] < u[j]
          <6>1. i \in 1 .. n
            BY <4>3, <5>1
          <6>2. CASE j \in 1 .. n
            BY <3>2, <4>3, <5>1, <6>1, <6>2
          <6>3. CASE j = n + 1
            BY <3>2, <4>3, <4>4, <6>1, <6>3
          <6> QED  BY <4>3, <6>2, <6>3
        <5> QED  BY <4>3, <5>1
      <4>6. Range(u) = ns \cap (1 .. k + 1)
        BY <3>2, <3>4, <4>3
      <4>7. F(k + 1) = u
        BY <4>1, <4>2
      <4> HIDE DEF F
      <4>8. Holds(k + 1)
        BY <4>3, <4>5, <4>6, <4>7
      <4> QED  BY <3>2, <4>8
    <3>5. CASE k + 1 \notin ns
      <4>1. F(k + 1) = t
        BY <1>1, <3>2, <3>3, <3>5, RangeWithOne
      <4>2. Range(t) = ns \cap (1 .. k + 1)
        BY <3>2, <3>5
      <4> QED  BY <3>2, <4>1, <4>2
    <3> QED  BY <3>4, <3>5
  <2> QED  BY <2>1
<1>5. Holds(len)
  <2>1. T \subseteq Nat
    OBVIOUS
  <2> HIDE DEF T
  <2>2. T = Nat
    BY <1>3, <1>4, <2>1, Lists!NatSetInduction
  <2> QED  BY <1>2, <2>2 DEF T
<1>6. s = F(len)
  <2>1. DOMAIN f = 1 .. len
    BY <1>1, <1>2
  <2>2. InDocumentOrder(ns) = Lists!Folded(<<>>, f, DOMAIN f)
    BY <1>1 DEF InDocumentOrder, FoldLeft, Lists!Folded, MapThenFoldSet, Lists!MapThenFoldSet,
                Behind, Largest
  <2> QED  BY <2>1, <2>2
<1>7. ns \cap (1 .. len) = ns
  BY <1>2
<1> QED  BY <1>5, <1>6, <1>7

(* What is said of a document stays as long as the document does.          *)
LEMMA SameDoc ==
  ASSUME doc' = doc
  PROVE  /\ Nodes' = Nodes /\ IsTree(doc)' = IsTree(doc) /\ IsDocument(doc)' = IsDocument(doc)
         /\ \A n : /\ Tag(n)' = Tag(n) /\ Children(n)' = Children(n)
                   /\ CountStopwords(n)' = CountStopwords(n)
                   /\ HasHighLinkDensity(n)' = HasHighLinkDensity(n)
                   /\ IsElement(n)' = IsElement(n)
                   /\ IsCollected(n)' = IsCollected(n)
<1>1. Nodes' = Nodes
  BY DEF Nodes
<1>2. \A n : /\ IsElement(n)' = IsElement(n) /\ Tag(n)' = Tag(n) /\ HasText(n)' = HasText(n)
             /\ Children(n)' = Children(n) /\ Subtree(n)' = Subtree(n)
  BY <1>1 DEF IsElement, IsText, Tag, HasText, Children, Subtree
<1>3. \A n : CleanNodes(n)' = CleanNodes(n)
  BY <1>2 DEF CleanNodes, IsBad
<1>4. \A n : CleanTextBegins(n)' = CleanTextBegins(n)
  BY <1>2, <1>3 DEF CleanTextBegins, FirstOf
<1>5. \A ns, what : CountIn(ns, what)' = CountIn(ns, what)
  BY DEF CountIn, HasText
<1>6. \A n : CountStopwords(n)' = CountStopwords(n) /\ TokenCount(n)' = TokenCount(n)
  BY <1>3, <1>4, <1>5 DEF CountStopwords, TokenCount
<1>7. \A n : PlainTokenCount(n)' = PlainTokenCount(n)
  BY <1>2, <1>5 DEF PlainTokenCount, PlainNodes, FirstOf
<1>8. \A n : HasHighLinkDensity(n)' = HasHighLinkDensity(n)
  BY <1>2, <1>6, <1>7 DEF HasHighLinkDensity
<1>9. \A n : IsCollected(n)' = IsCollected(n)
  BY <1>2, <1>6, <1>8 DEF IsCollected
<1> QED  BY <1>1, <1>2, <1>6, <1>8, <1>9

(* The stopwords of a text are counted.                                    *)
LEMMA StopwordsType ==
  ASSUME IsDocument(doc), NEW n
  PROVE  CountStopwords(n) \in Nat
<1>1. IsFiniteSet(Nodes) /\ \A m \in Nodes : doc.words[m] \in Words \cup {Null}
  BY NodeFacts DEF IsDocument, Nodes
<1>2. PICK S, f : /\ S = {k \in CleanNodes(n) : HasText(k)}
                  /\ f = [m \in S |-> doc.words[m]["stops"]]
  OBVIOUS
<1>3. S \subseteq Nodes
  BY <1>2 DEF CleanNodes, Subtree
<1>4. IsFiniteSet(S)
  BY <1>1, <1>3, FS_Subset
<1>5. f \in [S -> Nat]
  <2>1. \A m \in S : doc.words[m] \in Words
    BY <1>1, <1>2, <1>3 DEF HasText
  <2>2. \A w \in Words : w["stops"] \in Nat
    BY DEF Words
  <2> QED  BY <1>2, <2>1, <2>2
<1>6. SumFunction(f) \in Nat
  BY <1>4, <1>5, SumType
<1> QED  BY <1>2, <1>6 DEF CountStopwords, CountIn

-----------------------------------------------------------------------------
(* The parts of the invariant under the steps that leave their state alone.*)
LEMMA CollectingStays ==
  ASSUME Collecting, UNCHANGED <<doc, collected>>, Begun' <=> Begun, Running' => Running
  PROVE  Collecting'
BY SameDoc DEF Collecting

(* Steps that leave the scores alone keep what is said of them.            *)
LEMMA ScoringStays ==
  ASSUME Scoring, UNCHANGED <<doc, collected, upscores, boosts, nodeScores>>, Begun' <=> Begun
  PROVE  Scoring'
<1>1. \A n, i : ShareOf(n, i)' = ShareOf(n, i)
  BY DEF ShareOf
<1>2. \A n : ScoreOf(n)' = ScoreOf(n)
  BY DEF ScoreOf
<1> QED  BY <1>1, <1>2 DEF Scoring

(* Before any child is filtered, none is kept.                             *)
LEMMA KeepingBegins ==
  ASSUME IsTree(doc), doc' = doc, next' = 1, kept' = <<>>, at' # "done"
  PROVE  Keeping'
<1>1. Range(<<>>) = {}
  BY EmptySeq DEF Range
<1>2. \A c \in TopChildren' : ~ (c < 1)
  <2>1. \A c \in Nodes : c \in Nat /\ c >= 1
    <3>1. PICK len : len = Len(doc.tag)
      OBVIOUS
    <3>2. len \in Nat /\ Nodes = 1 .. len
      BY <3>1, NodeFacts
    <3> QED  BY <3>2
  <2>2. \A n : Children(n)' \subseteq Nodes
    <3>1. \A n : Children(n) \subseteq Nodes
      BY DEF Children
    <3> QED  BY <3>1, SameDoc
  <2>3. TopChildren' \subseteq Nodes
    BY <2>2 DEF TopChildren
  <2>4. \A c \in Nodes : ~ (c < 1)
    BY <2>1
  <2> QED  BY <2>3, <2>4
<1> QED  BY <1>1, <1>2 DEF Keeping

(* Ranges of the indices, from the type invariant.                         *)
LEMMA TypeFacts ==
  ASSUME TypeOK
  PROVE  /\ IsTree(doc) /\ Len(doc.tag) \in Nat /\ Nodes = 1 .. Len(doc.tag)
         /\ Len(collected) \in Nat /\ DOMAIN collected = 1 .. Len(collected)
         /\ Len(upscores) \in Nat /\ DOMAIN upscores = 1 .. Len(upscores)
         /\ boosts \in Nat
<1>1. IsTree(doc) /\ upscores \in Seq(Int)
  BY DEF TypeOK
<1>2. PICK Node : Node = 0 .. Len(doc.tag)
  OBVIOUS
<1>3. collected \in Seq(Node) /\ boosts \in 0 .. Len(collected)
  BY <1>2 DEF TypeOK
<1>4. /\ Len(collected) \in Nat /\ DOMAIN collected = 1 .. Len(collected)
      /\ Len(upscores) \in Nat /\ DOMAIN upscores = 1 .. Len(upscores)
  BY <1>1, <1>3, LenProperties
<1> QED  BY <1>1, <1>3, <1>4, NodeFacts

-----------------------------------------------------------------------------
(* The collector gathers the nodes it accepts.                             *)
LEMMA CollectKeeps ==
  ASSUME IInv, Collect
  PROVE  IInv'
<1>1. /\ at = "collect" /\ at' = "score" /\ collected' = InDocumentOrder({n \in Nodes : IsCollected(n)})
      /\ UNCHANGED <<doc, upscores, boosts, nodeScores, unseen, topNode, topNodeScore, next, kept>>
  BY DEF Collect
<1>2. /\ TypeOK /\ IsTree(doc) /\ IsDocument(doc) /\ upscores = <<>> /\ boosts <= Len(upscores)
      /\ unseen = {} /\ topNode = Null /\ topNodeScore = 0 /\ next = 1 /\ kept = <<>>
  BY <1>1 DEF IInv, TypeOK, Collecting, Scoring, Choosing, Keeping, Begun, Running
<1>3. PICK s, S, Node : /\ s = collected' /\ S = {n \in Nodes : IsCollected(n)}
                        /\ Node = 0 .. Len(doc.tag)
  OBVIOUS
<1>4. s \in Seq(Nat) /\ Range(s) = S
  BY <1>1, <1>2, <1>3, DocumentOrder
<1>5. s \in Seq(Node) /\ Len(s) \in Nat
  <2>1. Len(s) \in Nat /\ DOMAIN s = 1 .. Len(s)
    BY <1>4, LenProperties
  <2>2. S \subseteq Node
    <3>1. \A n \in 1 .. Len(doc.tag) : n \in Node
      BY <1>3
    <3> QED  BY <1>2, <1>3, <3>1, TypeFacts
  <2>3. \A i \in 1 .. Len(s) : s[i] \in Node
    BY <1>4, <2>1, <2>2 DEF Range
  <2> QED  BY <1>4, <2>1, <2>3, SeqDef
<1>6. boosts = 0 /\ Len(upscores) = 0 /\ DOMAIN upscores = {}
  <2>1. Len(upscores) = 0 /\ DOMAIN upscores = {}
    BY <1>2, EmptySeq
  <2>2. boosts \in Nat
    BY <1>2, TypeFacts
  <2> QED  BY <1>2, <2>1, <2>2
<1>7. TypeOK'
  <2>1. boosts' \in 0 .. Len(collected')
    BY <1>1, <1>3, <1>5, <1>6
  <2>2. IsTree(doc)'
    BY <1>1, <1>2, SameDoc
  <2>3. at' \in {"collect", "score", "choose", "keep", "done"}
    BY <1>1
  <2> QED  BY <1>1, <1>2, <1>3, <1>5, <2>1, <2>2, <2>3 DEF TypeOK
<1>8. Collecting'
  <2>1. IsDocument(doc)' /\ Begun'
    BY <1>1, <1>2, SameDoc DEF Begun
  <2>2. Range(collected') = {n \in Nodes' : IsCollected(n)'}
    BY <1>1, <1>3, <1>4, SameDoc
  <2> QED  BY <2>1, <2>2 DEF Collecting
<1>9. Scoring'
  <2>1. upscores' = <<>> /\ DOMAIN upscores' = {} /\ Begun'
    BY <1>1, <1>2, <1>6 DEF Begun
  <2>2. ASSUME NEW n \in 0 .. Len(doc.tag)
        PROVE  ScoreOf(n)' = SumFunction([i \in DOMAIN upscores' |-> ShareOf(n, i)'])
    <3>1. ScoreOf(n) = SumFunction([i \in DOMAIN upscores |-> ShareOf(n, i)])
      BY DEF IInv, Scoring
    <3>2. [i \in DOMAIN upscores' |-> ShareOf(n, i)'] = [i \in DOMAIN upscores |-> ShareOf(n, i)]
      BY <1>6, <2>1
    <3>3. ScoreOf(n)' = ScoreOf(n)
      BY <1>1 DEF ScoreOf
    <3> QED  BY <3>1, <3>2, <3>3
  <2>3. Len(upscores') <= Len(collected') /\ boosts' <= Len(upscores')
    BY <1>1, <1>3, <1>5, <1>6
  <2> QED  BY <1>1, <2>1, <2>2, <2>3 DEF Scoring
<1>10. Choosing'
  BY <1>1, <1>2, <1>7 DEF Choosing, TopNodeIsBest
<1>11. Keeping'
  BY <1>1, <1>2, KeepingBegins
<1> QED  BY <1>7, <1>8, <1>9, <1>10, <1>11 DEF IInv

-----------------------------------------------------------------------------
(* Scores.                                                                 *)
LEMMA HalfType == ASSUME NEW x \in Int PROVE Half(x) \in Int
BY DEF Half

(* The boost of a node is an integer.                                      *)
LEMMA BoostType ==
  ASSUME TypeOK, NEW i \in Nat, NEW n
  PROVE  BoostScore(i, n) \in Int
<1>1. PICK count : count = Len(collected)
  OBVIOUS
<1>2. count \in Nat /\ boosts \in Nat /\ BottomShare \in Nat \ {0}
  BY <1>1, TypeFacts, GooseAssumption
<1>3. BottomScore(i, count) \in Int
  <2>1. PICK x, d, y : /\ x = count - BottomShare * (count - i)
                       /\ d = BottomShare * BottomShare /\ y = x * x
    OBVIOUS
  <2>2. x \in Int
    <3>1. BottomShare * (count - i) \in Int
      BY <1>2
    <3> QED  BY <1>2, <2>1, <3>1
  <2>3. d \in Nat \ {0}
    <3>1. \A z \in Nat \ {0} : z * z \in Nat \ {0}
      OBVIOUS
    <3> QED  BY <1>2, <2>1, <3>1
  <2>4. y \in Int
    BY <2>1, <2>2
  <2>5. y \div d \in Int
    BY <2>3, <2>4
  <2>6. BottomScore(i, count) = 5 \/ BottomScore(i, count) = -(y \div d)
    BY <2>1 DEF BottomScore
  <2> QED  BY <2>5, <2>6
<1>4. 50 \div (boosts + 1) \in Int
  <2>1. \A z \in Nat \ {0} : 50 \div z \in Int
    OBVIOUS
  <2> QED  BY <1>2, <2>1
<1> QED  BY <1>1, <1>3, <1>4 DEF BoostScore

(* Above a node collected there are two more: neither the html element nor *)
(* the body is collected.                                                  *)
LEMMA TwoAbove ==
  ASSUME IsDocument(doc), NEW n \in Nodes, IsCollected(n), NEW p, p = doc.parent[n],
         NEW g, g = doc.parent[p], NEW len, len = Len(doc.tag)
  PROVE  p \in 0 .. len /\ g \in 0 .. len /\ p # g
<1>1. Tag(n) \in {"P", "PRE", "TD"}
  BY DEF IsCollected
<1>2. doc.tag[n] \in {"P", "PRE", "TD"}
  BY <1>1 DEF Tag, TagOfGumboTag
<1>3. /\ len \in Nat /\ Nodes = 1 .. len /\ doc.parent[1] = 0
      /\ \A m \in Nodes : m > 1 => doc.parent[m] \in 1 .. m - 1
  BY NodeFacts DEF IsDocument
<1>4. n > 2 /\ n \in 1 .. len
  <2>1. n <= 2 => doc.tag[n] \notin {"P", "PRE", "TD"}
    BY DEF IsDocument, Nodes
  <2> QED  BY <1>2, <1>3, <2>1
<1>5. p \in 1 .. n - 1 /\ p \in Nodes /\ p \in Nat /\ p <= len
  <2>1. p \in 1 .. n - 1
    BY <1>3, <1>4
  <2> QED  BY <1>3, <1>4, <2>1
<1>6. CASE p = 1
  BY <1>3, <1>5, <1>6
<1>7. CASE p > 1
  <2>1. g \in 1 .. p - 1
    BY <1>3, <1>5, <1>7
  <2> QED  BY <1>3, <1>5, <2>1
<1> QED  BY <1>5, <1>6, <1>7

(* Scoring a node adds its upscore to its parent, half of it to the        *)
(* grandparent, and nothing to any other node.                             *)
LEMMA ScoreNodeKeeps ==
  ASSUME IInv, ScoreNode
  PROVE  IInv'
<1>1. PICK i, n, up, len : /\ i = Len(upscores) /\ n = collected[i + 1]
                           /\ up = CountStopwords(n) + BoostScore(i, n)
                           /\ len = Len(doc.tag)
  OBVIOUS
<1>2. PICK p, g : p = doc.parent[n] /\ g = doc.parent[p]
  OBVIOUS
<1>3. /\ i \in Nat /\ i < Len(collected) /\ up \in Int
      /\ p \in 0 .. len /\ g \in 0 .. len /\ p # g
      /\ upscores' = Append(upscores, up)
      /\ nodeScores' = [m \in DOMAIN nodeScores \cup {p, g} |->
           CASE m = p -> ScoreOf(m) + up
             [] m = g -> ScoreOf(m) + Half(up)
             [] OTHER -> ScoreOf(m)]
      /\ \A m : ScoreOf(m) \in Int
  <2>1. /\ i < Len(collected) /\ at = "score" /\ upscores' = Append(upscores, up)
        /\ UpdateTextyNode(n, up)
    BY <1>1 DEF ScoreNode
  <2>2. /\ TypeOK /\ i \in Nat /\ Len(collected) \in Nat /\ DOMAIN collected = 1 .. Len(collected)
    BY <1>1, TypeFacts DEF IInv
  <2>3. IsDocument(doc) /\ Range(collected) = {m \in Nodes : IsCollected(m)}
    BY <2>1 DEF IInv, Collecting, Running, Begun
  <2>4. n \in Nodes /\ IsCollected(n)
    <3>1. i + 1 \in DOMAIN collected
      BY <2>1, <2>2
    <3>2. n \in Range(collected)
      BY <1>1, <3>1 DEF Range
    <3> QED  BY <2>3, <3>2
  <2>5. up \in Int
    <3>1. CountStopwords(n) \in Nat /\ BoostScore(i, n) \in Int
      BY <2>2, <2>3, StopwordsType, BoostType
    <3> QED  BY <1>1, <3>1
  <2>6. p \in 0 .. len /\ g \in 0 .. len /\ p # g
    BY <1>1, <1>2, <2>3, <2>4, TwoAbove
  <2>7. \A m : ScoreOf(m) \in Int
    BY <2>2 DEF ScoreOf, TypeOK
  <2> QED  BY <1>2, <2>1, <2>2, <2>5, <2>6, <2>7 DEF UpdateTextyNode
<1>4. /\ at = "score" /\ boosts' \in {boosts, boosts + 1}
      /\ UNCHANGED <<doc, at, collected, unseen, topNode, topNodeScore, next, kept>>
  BY DEF ScoreNode
<1>5. /\ TypeOK /\ Len(collected) \in Nat /\ boosts \in Nat /\ boosts <= i
      /\ unseen = {} /\ topNode = Null /\ topNodeScore = 0 /\ next = 1 /\ kept = <<>>
      /\ IsTree(doc) /\ upscores \in Seq(Int) /\ DOMAIN upscores = 1 .. i /\ len \in Nat
  <2>1. TypeOK /\ boosts <= i
    BY <1>1 DEF IInv, Scoring
  <2>2. unseen = {} /\ topNode = Null /\ topNodeScore = 0 /\ next = 1 /\ kept = <<>>
    BY <1>4 DEF IInv, Choosing, Keeping
  <2>3. upscores \in Seq(Int)
    BY <2>1 DEF TypeOK
  <2> QED  BY <1>1, <2>1, <2>2, <2>3, TypeFacts
<1>6. Half(up) \in Int
  BY <1>3, HalfType
<1>7. \A m : ScoreOf(m)' = ScoreOf(m) + (IF m = p THEN up ELSE IF m = g THEN Half(up) ELSE 0)
  <2>1. \A m \in DOMAIN nodeScores \cup {p, g} :
          ScoreOf(m)' = ScoreOf(m) + (IF m = p THEN up ELSE IF m = g THEN Half(up) ELSE 0)
    <3> SUFFICES ASSUME NEW m \in DOMAIN nodeScores \cup {p, g}
                 PROVE  ScoreOf(m)' = ScoreOf(m) + (IF m = p THEN up ELSE IF m = g THEN Half(up) ELSE 0)
      OBVIOUS
    <3>1. PICK x : x = ScoreOf(m)
      OBVIOUS
    <3>2. ScoreOf(m)' = nodeScores'[m]
      BY <1>3 DEF ScoreOf
    <3>3. nodeScores'[m] = (CASE m = p -> x + up [] m = g -> x + Half(up) [] OTHER -> x)
      BY <1>3, <3>1
    <3>4. x \in Int
      BY <1>3, <3>1
    <3> QED  BY <1>3, <3>1, <3>2, <3>3, <3>4
  <2>2. ASSUME NEW m, m \notin DOMAIN nodeScores \cup {p, g}
        PROVE  ScoreOf(m)' = ScoreOf(m) /\ m # p /\ m # g /\ ScoreOf(m) = 0
    <3>1. DOMAIN nodeScores' = DOMAIN nodeScores \cup {p, g}
      BY <1>3
    <3> QED  BY <2>2, <3>1 DEF ScoreOf
  <2> QED  BY <2>1, <2>2
<1>8. PICK u : u = upscores'
  OBVIOUS
<1>9. /\ u \in Seq(Int) /\ Len(u) = i + 1 /\ DOMAIN u = 1 .. i + 1 /\ u[i + 1] = up
      /\ \A j \in 1 .. i : u[j] = upscores[j]
  BY <1>1, <1>3, <1>5, <1>8, AppendProperties, LenProperties
<1>10. TypeOK'
  <2>1. boosts' \in 0 .. Len(collected)
    BY <1>3, <1>4, <1>5
  <2>2. DOMAIN nodeScores' \subseteq 0 .. len
    <3>1. DOMAIN nodeScores \subseteq 0 .. len
      BY <1>1, <1>5 DEF TypeOK
    <3> QED  BY <1>3, <3>1
  <2>3. \A m \in DOMAIN nodeScores' : nodeScores'[m] \in Int
    <3>1. ASSUME NEW m \in DOMAIN nodeScores' PROVE nodeScores'[m] \in Int
      <4>1. nodeScores'[m] = ScoreOf(m)'
        BY DEF ScoreOf
      <4>2. ScoreOf(m) \in Int
        BY <1>3
      <4> QED  BY <1>3, <1>6, <1>7, <4>1, <4>2
    <3> QED  BY <3>1
  <2>4. IsTree(doc)'
    BY <1>4, <1>5, SameDoc
  <2>5. topNodeScore' \in Nat /\ unseen' \subseteq DOMAIN nodeScores' /\ topNode' = Null
    BY <1>4, <1>5
  <2>6. /\ collected' \in Seq(0 .. len) /\ kept' \in Seq(0 .. len)
        /\ at' \in {"collect", "score", "choose", "keep", "done"}
        /\ next' \in 1 .. len + 1 /\ len = Len(doc'.tag)
    BY <1>1, <1>4, <1>5 DEF TypeOK
  <2>7. boosts' \in 0 .. Len(collected')
    BY <1>4, <2>1
  <2> QED  BY <1>8, <1>9, <2>2, <2>3, <2>4, <2>5, <2>6, <2>7 DEF TypeOK
<1>11. Collecting'
  <2>1. (Begun' <=> Begun) /\ (Running' => Running)
    BY <1>4 DEF Begun, Running
  <2> QED  BY <1>4, <2>1, CollectingStays DEF IInv
<1>12. ASSUME NEW m \in 0 .. len
       PROVE  ScoreOf(m)' = SumFunction([j \in DOMAIN upscores' |-> ShareOf(m, j)'])
  <2>1. PICK f, h : f = [j \in 1 .. i + 1 |-> ShareOf(m, j)'] /\ h = [j \in 1 .. i |-> ShareOf(m, j)]
    OBVIOUS
  <2>2. \A j \in 1 .. i : ShareOf(m, j)' = ShareOf(m, j)
    BY <1>4, <1>8, <1>9 DEF ShareOf
  <2>3. ShareOf(m, i + 1)' = (IF m = p THEN up ELSE IF m = g THEN Half(up) ELSE 0)
    <3>1. collected'[i + 1] = n /\ doc' = doc /\ upscores'[i + 1] = up
      BY <1>1, <1>4, <1>8, <1>9
    <3>2. doc'.parent[collected'[i + 1]] = p /\ doc'.parent[doc'.parent[collected'[i + 1]]] = g
      BY <1>2, <3>1
    <3> QED  BY <1>3, <3>1, <3>2 DEF ShareOf
  <2>4. \A j \in 1 .. i : ShareOf(m, j) \in Int
    <3>1. \A j \in 1 .. i : upscores[j] \in Int
      BY <1>1, <1>5, ElementOfSeq
    <3>2. \A j \in 1 .. i : Half(upscores[j]) \in Int
      BY <3>1, HalfType
    <3> QED  BY <3>1, <3>2 DEF ShareOf
  <2>5. ShareOf(m, i + 1)' \in Int
    BY <1>3, <1>6, <2>3
  <2>6. h \in [1 .. i -> Int]
    BY <2>1, <2>4
  <2>7. f \in [1 .. i + 1 -> Int]
    <3>1. \A j \in 1 .. i + 1 : j \in 1 .. i \/ j = i + 1
      BY <1>3
    <3>2. \A j \in 1 .. i + 1 : ShareOf(m, j)' \in Int
      BY <2>2, <2>4, <2>5, <3>1
    <3> QED  BY <2>1, <3>2
  <2>8. \A j \in 1 .. i : f[j] = h[j]
    <3>1. \A j \in 1 .. i : j \in 1 .. i + 1
      BY <1>3
    <3> QED  BY <2>1, <2>2, <3>1
  <2>9. SumFunction(h) \in Int /\ SumFunction(f) = SumFunction(h) + f[i + 1]
    BY <1>3, <2>6, <2>7, <2>8, SumOfOneMore
  <2>10. f[i + 1] = ShareOf(m, i + 1)'
    BY <1>3, <2>1
  <2>11. ScoreOf(m) = SumFunction(h)
    BY <1>1, <1>5, <2>1 DEF IInv, Scoring
  <2>12. ScoreOf(m)' = SumFunction(f)
    BY <1>7, <2>3, <2>9, <2>10, <2>11
  <2>13. DOMAIN upscores' = 1 .. i + 1
    BY <1>8, <1>9
  <2> QED  BY <2>1, <2>12, <2>13
<1>13. Scoring'
  <2>1. Len(upscores') <= Len(collected') /\ boosts' <= Len(upscores')
    <3>1. Len(upscores') = i + 1 /\ collected' = collected
      BY <1>4, <1>8, <1>9
    <3> QED  BY <1>3, <1>4, <1>5, <3>1
  <2>2. Begun'
    BY <1>4 DEF Begun
  <2>3. len = Len(doc'.tag)
    BY <1>1, <1>4
  <2> QED  BY <1>12, <2>1, <2>2, <2>3 DEF Scoring
<1>14. Choosing'
  BY <1>4, <1>5, <1>10 DEF Choosing, TopNodeIsBest
<1>15. Keeping'
  BY <1>4, <1>5, KeepingBegins
<1> QED  BY <1>10, <1>11, <1>13, <1>14, <1>15 DEF IInv

-----------------------------------------------------------------------------
(* The choice.                                                             *)
LEMMA ScoringEndsKeeps ==
  ASSUME IInv, ScoringEnds
  PROVE  IInv'
<1>1. /\ at = "score" /\ at' = "choose" /\ unseen' = DOMAIN nodeScores
      /\ UNCHANGED <<doc, collected, upscores, boosts, nodeScores, topNode, topNodeScore, next, kept>>
  BY DEF ScoringEnds
<1>2. /\ TypeOK /\ IsTree(doc) /\ topNode = Null /\ topNodeScore = 0 /\ next = 1 /\ kept = <<>>
  BY <1>1 DEF IInv, TypeOK, Choosing, Keeping
<1>3. TypeOK'
  <2>1. IsTree(doc)'
    BY <1>1, <1>2, SameDoc
  <2> QED  BY <1>1, <1>2, <2>1 DEF TypeOK
<1>4. (Begun' <=> Begun) /\ (Running' => Running)
  BY <1>1 DEF Begun, Running
<1>5. Collecting'
  BY <1>1, <1>4, CollectingStays DEF IInv
<1>6. Scoring'
  BY <1>1, <1>4, ScoringStays DEF IInv
<1>7. Choosing'
  BY <1>1, <1>2, <1>3 DEF Choosing, TopNodeIsBest
<1>8. Keeping'
  BY <1>1, <1>2, KeepingBegins
<1> QED  BY <1>3, <1>5, <1>6, <1>7, <1>8 DEF IInv

(* Whatever node comes next, the top node is the best of those seen.       *)
LEMMA ConsiderKeeps ==
  ASSUME IInv, NEW n, Consider(n)
  PROVE  IInv'
<1>1. /\ at = "choose" /\ n \in unseen /\ unseen' = unseen \ {n}
      /\ UNCHANGED <<doc, at, collected, upscores, boosts, nodeScores, next, kept>>
  BY DEF Consider
<1>2. \/ /\ nodeScores[n] > topNodeScore
         /\ topNode' = n /\ topNodeScore' = nodeScores[n]
      \/ /\ ~(nodeScores[n] > topNodeScore)
         /\ topNode' = (IF topNode = Null THEN n ELSE topNode) /\ topNodeScore' = topNodeScore
  BY DEF Consider
<1>3. /\ TypeOK /\ IsTree(doc) /\ next = 1 /\ kept = <<>> /\ TopNodeIsBest
      /\ unseen \subseteq DOMAIN nodeScores /\ topNodeScore \in Nat
      /\ topNode \in DOMAIN nodeScores \cup {Null}
      /\ \A m \in DOMAIN nodeScores : nodeScores[m] \in Int
  BY <1>1 DEF IInv, TypeOK, Choosing, Keeping
<1>4. n \in DOMAIN nodeScores /\ nodeScores[n] \in Int /\ n # Null
  <2>1. n \in DOMAIN nodeScores
    BY <1>1, <1>3
  <2>2. n \in 0 .. Len(doc.tag)
    BY <1>3, <2>1 DEF TypeOK
  <2>3. n \in Int
    BY <2>2
  <2> QED  BY <1>3, <2>1, <2>3, GooseAssumption
<1>5. topNode' \in DOMAIN nodeScores \cup {Null} /\ topNode' # Null /\ topNodeScore' \in Nat
  BY <1>2, <1>3, <1>4
<1>6. TypeOK'
  <2>1. IsTree(doc)'
    BY <1>1, <1>3, SameDoc
  <2>2. unseen' \subseteq DOMAIN nodeScores
    BY <1>1, <1>3
  <2> QED  BY <1>1, <1>3, <1>5, <2>1, <2>2 DEF TypeOK
<1>7. (Begun' <=> Begun) /\ (Running' => Running)
  BY <1>1 DEF Begun, Running
<1>8. Collecting'
  BY <1>1, <1>7, CollectingStays DEF IInv
<1>9. Scoring'
  BY <1>1, <1>7, ScoringStays DEF IInv
<1>10. Choosing'
  <2>1. PICK seen : seen = DOMAIN nodeScores \ unseen
    OBVIOUS
  <2>2. DOMAIN nodeScores' \ unseen' = seen \cup {n}
    BY <1>1, <1>4, <2>1
  <2>3. /\ topNode = Null <=> seen = {}
        /\ \A m \in seen : nodeScores[m] <= topNodeScore
        /\ topNodeScore > 0 => nodeScores[topNode] = topNodeScore
    BY <1>1, <1>3, <2>1 DEF TopNodeIsBest
  <2>4. \A m \in seen : nodeScores[m] \in Int
    BY <1>3, <2>1
  <2>5. \A m \in seen \cup {n} : nodeScores[m] <= topNodeScore'
    BY <1>2, <1>3, <1>4, <2>3, <2>4
  <2>6. topNodeScore' > 0 => nodeScores[topNode'] = topNodeScore'
    <3>1. topNodeScore > 0 => topNode # Null
      BY DEF Choosing, IInv
    <3> QED  BY <1>2, <1>3, <1>4, <2>3, <3>1
  <2>7. TopNodeIsBest'
    BY <1>1, <1>5, <1>6, <2>2, <2>5, <2>6 DEF TopNodeIsBest
  <2> QED  BY <1>1, <1>5, <2>7 DEF Choosing
<1>11. Keeping'
  BY <1>1, <1>3, KeepingBegins
<1> QED  BY <1>6, <1>8, <1>9, <1>10, <1>11 DEF IInv

(* The steps that only move on to the next phase, or that read the meta    *)
(* tags, and stuttering.                                                   *)
LEMMA PhaseEndKeeps ==
  ASSUME IInv, ChoosingEnds \/ Return \/ UNCHANGED <<doc, gooseVars>>
  PROVE  IInv'
<1>1. UNCHANGED <<doc, collected, upscores, boosts, nodeScores, unseen, topNode, topNodeScore, next, kept>>
  BY DEF ChoosingEnds, Return, gooseVars
<1>2. \/ at = "choose" /\ unseen = {} /\ at' = "keep"
      \/ at = "keep" /\ (\A c \in TopChildren : c < next) /\ at' = "done"
      \/ at' = at
  BY DEF ChoosingEnds, Return, gooseVars
<1>3. /\ \A c : TopChildren' = TopChildren /\ Passes(c)' = Passes(c)
      /\ IsTree(doc)' = IsTree(doc)
  <2>1. TopChildren' = TopChildren
    BY <1>1, SameDoc DEF TopChildren
  <2>2. \A c : Passes(c)' = Passes(c)
    BY <1>1, SameDoc DEF Passes, BelowThreshold, ScoreOf
  <2> QED  BY <1>1, <2>1, <2>2, SameDoc
<1>4. TypeOK'
  <2>1. TypeOK /\ at' \in {"collect", "score", "choose", "keep", "done"}
    BY <1>2 DEF IInv, TypeOK
  <2> QED  BY <1>1, <1>3, <2>1 DEF TypeOK
<1>5. (Begun' <=> Begun) /\ (Running' => Running)
  BY <1>1, <1>2 DEF Begun, Running
<1>6. Collecting'
  BY <1>1, <1>5, CollectingStays DEF IInv
<1>7. Scoring'
  BY <1>1, <1>5, ScoringStays DEF IInv
<1>8. Choosing'
  <2>1. Choosing
    BY DEF IInv
  <2> QED  BY <1>1, <1>2, <1>4, <2>1 DEF Choosing, TopNodeIsBest
<1>9. Keeping'
  <2>1. Keeping
    BY DEF IInv
  <2> QED  BY <1>1, <1>2, <1>3, <2>1 DEF Keeping
<1> QED  BY <1>4, <1>6, <1>7, <1>8, <1>9 DEF IInv

(* The children are filtered in order, and those that pass are kept.       *)
LEMMA FilterChildKeeps ==
  ASSUME IInv, FilterChild
  PROVE  IInv'
<1>1. PICK left, child, len : /\ left = {c \in TopChildren : c >= next} /\ child = FirstOf(left)
                              /\ len = Len(doc.tag)
  OBVIOUS
<1>2. /\ at = "keep" /\ left # {} /\ next' = child + 1
      /\ kept' = IF Passes(child) THEN Append(kept, child) ELSE kept
      /\ UNCHANGED <<doc, at, collected, upscores, boosts, nodeScores, unseen, topNode, topNodeScore>>
  BY <1>1 DEF FilterChild
<1>3. TypeOK /\ IsTree(doc) /\ next \in 1 .. len + 1 /\ len \in Nat /\ Nodes = 1 .. len
  <2>1. TypeOK
    BY DEF IInv
  <2> QED  BY <1>1, <2>1, TypeFacts DEF TypeOK
<1>4. TopChildren \subseteq Nodes
  BY DEF TopChildren, Children
<1>5. child \in left /\ \A c \in left : child <= c
  <2>1. left \subseteq Nat
    <3>1. left \subseteq Nodes
      BY <1>1, <1>4
    <3>2. \A c \in 1 .. len : c \in Nat
      OBVIOUS
    <3> QED  BY <1>3, <3>1, <3>2
  <2>2. PICK x \in left : \A y \in left : x <= y
    BY <1>2, <2>1, Sums!NatHasLeast
  <2> QED  BY <1>1, <2>2 DEF FirstOf, Min
<1>6. child \in TopChildren /\ child \in 1 .. len /\ child >= next
  BY <1>1, <1>3, <1>4, <1>5
<1>7. /\ \A c : TopChildren' = TopChildren /\ Passes(c)' = Passes(c)
      /\ IsTree(doc)' = IsTree(doc)
  <2>1. TopChildren' = TopChildren
    BY <1>2, SameDoc DEF TopChildren
  <2>2. \A c : Passes(c)' = Passes(c)
    BY <1>2, SameDoc DEF Passes, BelowThreshold, ScoreOf
  <2> QED  BY <1>2, <2>1, <2>2, SameDoc
<1>8. /\ kept' \in Seq(0 .. len)
      /\ Range(kept') = IF Passes(child) THEN Range(kept) \cup {child} ELSE Range(kept)
  <2>1. PICK Node : Node = 0 .. len
    OBVIOUS
  <2>2. kept \in Seq(Node)
    BY <1>1, <1>3, <2>1 DEF TypeOK
  <2>3. kept \in Seq(Nat)
    <3>1. Len(kept) \in Nat /\ DOMAIN kept = 1 .. Len(kept)
      BY <2>2, LenProperties
    <3>2. \A i \in 1 .. Len(kept) : kept[i] \in Node
      BY <2>2, ElementOfSeq
    <3>3. \A i \in 1 .. Len(kept) : kept[i] \in Nat
      BY <2>1, <3>2
    <3> QED  BY <2>2, <3>1, <3>3, SeqDef
  <2>4. child \in Node
    BY <1>6, <2>1
  <2>5. Append(kept, child) \in Seq(Node)
    BY <2>2, <2>4, AppendProperties
  <2>6. Range(Append(kept, child)) = Range(kept) \cup {child}
    BY <1>6, <2>3, RangeWithOne
  <2> QED  BY <1>2, <2>1, <2>2, <2>5, <2>6
<1>9. TypeOK'
  <2>1. next' \in 1 .. len + 1
    BY <1>2, <1>3, <1>6
  <2> QED  BY <1>1, <1>2, <1>3, <1>7, <1>8, <2>1 DEF TypeOK
<1>10. (Begun' <=> Begun) /\ (Running' => Running)
  BY <1>2 DEF Begun, Running
<1>11. Collecting'
  BY <1>2, <1>10, CollectingStays DEF IInv
<1>12. Scoring'
  BY <1>2, <1>10, ScoringStays DEF IInv
<1>13. Choosing'
  <2>1. Choosing
    BY DEF IInv
  <2> QED  BY <1>2, <1>9, <2>1 DEF Choosing, TopNodeIsBest
<1>14. Keeping'
  <2>1. /\ \A c \in Range(kept) : c \in TopChildren /\ Passes(c)
        /\ \A c \in TopChildren : c < next /\ Passes(c) => c \in Range(kept)
    BY DEF IInv, Keeping
  <2>2. \A c \in Range(kept') : c \in TopChildren /\ Passes(c)
    BY <1>6, <1>8, <2>1
  <2>3. \A c \in TopChildren : c < next' => c < next \/ c = child
    <3>1. \A c \in TopChildren : c \in Int /\ (c >= next => child <= c)
      BY <1>1, <1>3, <1>4, <1>5
    <3>2. next \in Int /\ child \in Int
      BY <1>3, <1>6
    <3> QED  BY <1>2, <3>1, <3>2
  <2>4. \A c \in TopChildren : c < next' /\ Passes(c) => c \in Range(kept')
    BY <1>8, <2>1, <2>3
  <2> QED  BY <1>2, <1>7, <2>2, <2>4 DEF Keeping
<1> QED  BY <1>9, <1>11, <1>12, <1>13, <1>14 DEF IInv

-----------------------------------------------------------------------------
(* The extraction begins with nothing collected.                           *)
LEMMA InitIInv == Init => IInv
<1> SUFFICES ASSUME Init PROVE IInv
  OBVIOUS
<1>1. /\ \/ at = "collect" /\ IsDocument(doc)
         \/ at = "done" /\ IsTree(doc)
      /\ collected = <<>> /\ upscores = <<>> /\ boosts = 0
      /\ nodeScores = <<>> /\ unseen = {} /\ topNode = Null /\ topNodeScore = 0
      /\ next = 1 /\ kept = <<>>
  BY GooseAssumption, PagesAssumption DEF Init, GooseBegins, IsPage
<1>2. IsTree(doc)
  BY <1>1 DEF IsDocument
<1>3. /\ Len(<<>>) = 0 /\ DOMAIN <<>> = {} /\ Range(<<>>) = {}
      /\ \A S : <<>> \in Seq(S)
  BY EmptySeq DEF Range
<1>4. DOMAIN nodeScores = {} /\ DOMAIN upscores = {} /\ Len(upscores) = 0 /\ Len(collected) = 0
  BY <1>1, <1>3
<1>5. TypeOK
  <2>1. next \in 1 .. Len(doc.tag) + 1
    <3>1. PICK len : len = Len(doc.tag)
      OBVIOUS
    <3>2. len \in Nat
      BY <1>2, <3>1, NodeFacts
    <3> QED  BY <1>1, <3>1, <3>2
  <2>2. boosts \in 0 .. Len(collected) /\ topNodeScore \in Nat
    BY <1>1, <1>4
  <2>3. at \in {"collect", "score", "choose", "keep", "done"}
    BY <1>1
  <2> QED  BY <1>1, <1>2, <1>3, <1>4, <2>1, <2>2, <2>3 DEF TypeOK
<1>6. Collecting
  BY <1>1 DEF Collecting, Begun, Running
<1>7. Scoring
  <2>1. ASSUME NEW n \in 0 .. Len(doc.tag)
        PROVE  ScoreOf(n) = SumFunction([i \in DOMAIN upscores |-> ShareOf(n, i)])
    <3>1. PICK f : f = [i \in DOMAIN upscores |-> ShareOf(n, i)]
      OBVIOUS
    <3>2. SumFunction(f) = Sums!Folded(0, f, {})
      BY <1>4, <3>1, SumIsFold
    <3>3. Sums!Folded(0, f, {}) = 0
      BY Sums!FoldEmpty
    <3>4. ScoreOf(n) = 0
      BY <1>4 DEF ScoreOf
    <3> QED  BY <3>1, <3>2, <3>3, <3>4
  <2> QED  BY <1>1, <1>4, <2>1 DEF Scoring
<1>8. Choosing
  BY <1>1, <1>4, <1>5 DEF Choosing, TopNodeIsBest
<1>9. Keeping
  BY <1>1, <1>3 DEF Keeping, TopChildren
<1> QED  BY <1>5, <1>6, <1>7, <1>8, <1>9 DEF IInv

(* Every step of the extraction and of the walks keeps the invariant.      *)
LEMMA NextIInv == IInv /\ [Next]_vars => IInv'
<1> SUFFICES ASSUME IInv, [Next]_vars PROVE IInv'
  OBVIOUS
<1>1. CASE Collect
  BY <1>1, CollectKeeps
<1>2. CASE ScoreNode
  BY <1>2, ScoreNodeKeeps
<1>3. CASE ScoringEnds
  BY <1>3, ScoringEndsKeeps
<1>4. ASSUME NEW n \in unseen, Consider(n) PROVE IInv'
  BY <1>4, ConsiderKeeps
<1>5. CASE ChoosingEnds
  BY <1>5, PhaseEndKeeps
<1>6. CASE FilterChild
  BY <1>6, FilterChildKeeps
<1>7. CASE Return
  BY <1>7, PhaseEndKeeps
<1>8. CASE ExtractMeta
  <2>1. UNCHANGED <<doc, gooseVars>>
    BY <1>8 DEF ExtractMeta
  <2> QED  BY <2>1, PhaseEndKeeps
<1>9. CASE UNCHANGED vars
  <2>1. UNCHANGED <<doc, gooseVars>>
    BY <1>9 DEF vars
  <2> QED  BY <2>1, PhaseEndKeeps
<1> QED  BY <1>1, <1>2, <1>3, <1>4, <1>5, <1>6, <1>7, <1>8, <1>9 DEF Next, ExtractContent

(* The inductive invariant, for all documents and options: types, and what *)
(* each phase of ContentExtractor::extract has established for the next.   *)
THEOREM Invariance == Spec => []IInv
<1>1. Init => IInv
  BY InitIInv
<1>2. IInv /\ [Next]_vars => IInv'
  BY NextIInv
<1> QED  BY <1>1, <1>2, PTL DEF Spec

-----------------------------------------------------------------------------
(* In whatever order the set of scored nodes is walked, calculateBestNode  *)
(* ends with a node of the highest score, if any score is positive.        *)
THEOREM BestNode == Spec => []TopNodeIsBest
<1>1. IInv => TopNodeIsBest
  BY DEF IInv, Choosing
<1> QED  BY <1>1, Invariance, PTL

(* The scores that NodeScorer adds up step by step are the sums of what    *)
(* the nodes collected right below and one level further down have given.  *)
THEOREM ScoresAddUp == Spec => []ScoresAreShares
<1>1. IInv => ScoresAreShares
  <2> SUFFICES ASSUME IInv, NEW n \in DOMAIN nodeScores
               PROVE  nodeScores[n] = SumFunction([i \in DOMAIN upscores |->
                        CASE doc.parent[collected[i]] = n -> upscores[i]
                          [] doc.parent[doc.parent[collected[i]]] = n ->
                               IF upscores[i] < 0 THEN -((-upscores[i]) \div 2)
                                                  ELSE upscores[i] \div 2
                          [] OTHER -> 0])
    BY DEF ScoresAreShares
  <2>1. n \in 0 .. Len(doc.tag) /\ nodeScores[n] = ScoreOf(n)
    BY DEF IInv, TypeOK, ScoreOf
  <2>2. ScoreOf(n) = SumFunction([i \in DOMAIN upscores |-> ShareOf(n, i)])
    BY <2>1 DEF IInv, Scoring
  <2>3. \A i \in DOMAIN upscores :
          ShareOf(n, i) = CASE doc.parent[collected[i]] = n -> upscores[i]
                            [] doc.parent[doc.parent[collected[i]]] = n ->
                                 IF upscores[i] < 0 THEN -((-upscores[i]) \div 2)
                                                    ELSE upscores[i] \div 2
                            [] OTHER -> 0
    <3>1. \A i \in DOMAIN upscores : upscores[i] \in Int
      <4>1. upscores \in Seq(Int)
        BY DEF IInv, TypeOK
      <4> QED  BY <4>1, LenProperties, ElementOfSeq
    <3>2. \A x \in Int : Half(x) = IF x < 0 THEN -((-x) \div 2) ELSE x \div 2
      BY DEF Half
    <3>3. \A i \in DOMAIN upscores :
            Half(upscores[i]) = IF upscores[i] < 0 THEN -((-upscores[i]) \div 2)
                                                   ELSE upscores[i] \div 2
      BY <3>1, <3>2
    <3> QED  BY <3>3, Zenon DEF ShareOf
  <2> QED  BY <2>1, <2>2, <2>3
<1> QED  BY <1>1, Invariance, PTL

(* What TextNodeCollector collected and what BaseContentExtractor keeps    *)
(* differ only in PRE elements below the threshold and in paragraphs with  *)
(* many links.                                                             *)
THEOREM KeptOrExplained == Spec => []KeptVersusCollected
<1>1. IInv => KeptVersusCollected
  <2> SUFFICES ASSUME IInv, at = "done" PROVE KeptVersusCollected
    BY DEF KeptVersusCollected
  <2>1. /\ Running => IsDocument(doc)
        /\ Running => Range(collected) = {n \in Nodes : IsCollected(n)}
    BY DEF IInv, Collecting, Begun
  <2>2. Range(<<>>) = {}
    BY EmptySeq DEF Range
  <2>3. /\ \A c \in Range(kept) : c \in TopChildren /\ Passes(c)
        /\ \A c \in TopChildren : Passes(c) => c \in Range(kept)
    BY DEF IInv, Keeping
  <2>4. ASSUME NEW n \in Range(collected), doc.parent[n] = topNode, n \notin Range(kept)
        PROVE  Tag(n) = "PRE" /\ BelowThreshold(n)
    <3>1. Running
      BY <2>2, <2>4 DEF Running
    <3>2. n \in Nodes /\ IsCollected(n) /\ CountStopwords(n) \in Nat
      BY <2>1, <2>4, <3>1, StopwordsType
    <3>3. topNode # Null
      <4>1. PICK len : len = Len(doc.tag)
        OBVIOUS
      <4>2. doc.parent[n] \in 0 .. len
        BY <2>1, <3>1, <3>2, <4>1, TwoAbove
      <4>3. topNode \in Int
        BY <2>4, <4>2
      <4> QED  BY <4>3, GooseAssumption
    <3>4. ~Passes(n)
      BY <2>3, <2>4, <3>2, <3>3 DEF TopChildren, Children
    <3>5. CountStopwords(n) >= 3
      BY <3>2 DEF IsCollected
    <3> QED  BY <3>2, <3>4, <3>5 DEF Passes, IsCollected
  <2>5. ASSUME NEW n \in Range(kept), Tag(n) = "P", n \notin Range(collected)
        PROVE  HasHighLinkDensity(n)
    <3>1. Running
      BY <2>2, <2>5 DEF Running
    <3>2. n \in Nodes /\ Passes(n) /\ CountStopwords(n) \in Nat
      BY <2>1, <2>3, <2>5, <3>1, StopwordsType DEF TopChildren, Children
    <3>3. CountStopwords(n) > 2
      BY <3>2 DEF Passes
    <3> QED  BY <2>1, <2>5, <3>1, <3>2, <3>3 DEF IsCollected
  <2> QED  BY <2>4, <2>5 DEF KeptVersusCollected
<1> QED  BY <1>1, Invariance, PTL

-----------------------------------------------------------------------------
(* The parent of a node comes before it.                                   *)
LEMMA ParentRange ==
  ASSUME IsTree(doc)
  PROVE  /\ \A n \in Nodes : n \in Nat \ {0} /\ (n > 1 => doc.parent[n] \in 1 .. n - 1)
         /\ doc.parent[1] = 0
<1>1. PICK len : len = Len(doc.tag)
  OBVIOUS
<1> QED  BY <1>1, NodeFacts

(* What is below what.                                                     *)
LEMMA Below ==
  ASSUME IsTree(doc)
  PROVE  \A n \in Nodes :
           /\ n \in Nat \ {0} /\ n \in Subtree(n)
           /\ \A m \in Subtree(n) : /\ m \in Nodes /\ m >= n
                                    /\ \A k \in n .. m : k \in Subtree(n)
                                    /\ \A k \in Subtree(m) : k \in Subtree(n)
<1>1. PICK len : len = Len(doc.tag)
  OBVIOUS
<1>2. len \in Nat /\ Nodes = 1 .. len
  BY <1>1, NodeFacts
<1> SUFFICES ASSUME NEW n \in Nodes
             PROVE  /\ n \in Nat \ {0} /\ n \in Subtree(n)
                    /\ \A m \in Subtree(n) : /\ m \in Nodes /\ m >= n
                                             /\ \A k \in n .. m : k \in Subtree(n)
                                             /\ \A k \in Subtree(m) : k \in Subtree(n)
  OBVIOUS
<1>3. n \in Nat \ {0} /\ n \in Subtree(n)
  BY <1>2 DEF Subtree
<1>4. ASSUME NEW m \in Subtree(n)
      PROVE  /\ m \in Nodes /\ m >= n
             /\ \A k \in n .. m : k \in Subtree(n)
             /\ \A k \in Subtree(m) : k \in Subtree(n)
  <2>1. m \in Nodes /\ m \in Nat /\ m >= n /\ \A k \in n + 1 .. m : doc.parent[k] >= n
    BY <1>2, <1>4 DEF Subtree
  <2>2. ASSUME NEW k \in n .. m PROVE k \in Subtree(n)
    <3>1. k \in Nodes /\ k >= n
      BY <1>2, <2>1
    <3>2. ASSUME NEW j \in n + 1 .. k PROVE doc.parent[j] >= n
      <4>1. j \in n + 1 .. m
        BY <2>1, <2>2, <3>2
      <4> QED  BY <2>1, <4>1
    <3> QED  BY <3>1, <3>2 DEF Subtree
  <2>3. ASSUME NEW k \in Subtree(m) PROVE k \in Subtree(n)
    <3>1. k \in Nodes /\ k \in Nat /\ k >= m /\ \A j \in m + 1 .. k : doc.parent[j] >= m
      BY <1>2, <2>3 DEF Subtree
    <3>2. ASSUME NEW j \in n + 1 .. k PROVE doc.parent[j] >= n
      <4>1. CASE j <= m
        BY <2>1, <3>2, <4>1
      <4>2. CASE j > m
        <5>1. j \in Nodes /\ j > 1
          BY <1>2, <1>3, <2>1, <3>1, <3>2, <4>2
        <5>2. doc.parent[j] \in 1 .. j - 1
          BY <5>1, ParentRange
        <5>3. doc.parent[j] >= m
          BY <2>1, <3>1, <3>2, <4>2
        <5> QED  BY <1>3, <2>1, <5>2, <5>3
      <4> QED  BY <2>1, <3>2, <4>1, <4>2
    <3> QED  BY <2>1, <3>1, <3>2 DEF Subtree
  <2> QED  BY <2>1, <2>2, <2>3
<1> QED  BY <1>3, <1>4

(* Two subtrees are one in the other or apart.                             *)
LEMMA ApartOrWithin ==
  ASSUME IsTree(doc), NEW a \in Nodes, NEW b \in Nodes, a < b
  PROVE  \/ b \in Subtree(a)
         \/ \A m \in Subtree(a), k \in Subtree(b) : m < k /\ m < b
<1> SUFFICES ASSUME NEW m \in Subtree(a), NEW k \in Subtree(b), ~ (m < b)
             PROVE  b \in Subtree(a)
  <2>1. \A m \in Subtree(a), k \in Subtree(b) : m \in Int /\ k \in Int /\ b \in Int /\ k >= b
    BY Below
  <2> QED  BY <2>1, Below
<1>1. a \in Int /\ b \in Int /\ m \in Int
  BY Below
<1>2. b \in a .. m
  BY <1>1
<1> QED  BY <1>2, Below

(* What is strictly below a node has its parent below it too.              *)
LEMMA ParentFacts ==
  ASSUME IsTree(doc), NEW n \in Nodes, NEW m \in Subtree(n), m # n
  PROVE  /\ doc.parent[m] \in Nodes /\ doc.parent[m] \in Subtree(n)
         /\ doc.parent[m] < m /\ m > n
<1>1. PICK len : len = Len(doc.tag)
  OBVIOUS
<1>2. len \in Nat /\ Nodes = 1 .. len
  BY <1>1, NodeFacts
<1>3. m \in Nodes /\ m > n /\ m \in Nat /\ n \in Nat \ {0}
  BY <1>2, Below
<1>4. doc.parent[m] \in 1 .. m - 1
  BY <1>3, ParentRange
<1>5. doc.parent[m] >= n
  <2>1. m \in n + 1 .. m
    BY <1>3
  <2> QED  BY <2>1 DEF Subtree
<1>6. doc.parent[m] \in n .. m
  BY <1>3, <1>4, <1>5
<1> QED  BY <1>2, <1>3, <1>4, <1>6, Below

(* A child is below its parent, and right below it.                        *)
LEMMA ChildFacts ==
  ASSUME IsTree(doc), NEW n \in Nodes, NEW c \in Children(n)
  PROVE  c \in Nodes /\ c > n /\ c \in Subtree(n) /\ doc.parent[c] = n
<1>1. PICK len : len = Len(doc.tag)
  OBVIOUS
<1>2. len \in Nat /\ Nodes = 1 .. len
  BY <1>1, NodeFacts
<1>3. c \in Nodes /\ doc.parent[c] = n /\ c \in Nat /\ n \in Nat \ {0} /\ c # 1
  BY <1>2, ParentRange DEF Children
<1>4. n \in 1 .. c - 1
  BY <1>3, ParentRange
<1>5. \A k \in n + 1 .. c - 1 : doc.parent[k] >= n
  <2>1. c \in DOMAIN doc.tag /\ c > 1
    <3>1. c > 1
      BY <1>3, <1>4
    <3> QED  BY <1>3, <3>1 DEF Nodes
  <2>2. \A k \in doc.parent[c] + 1 .. c - 1 : doc.parent[k] >= doc.parent[c]
    BY <2>1 DEF IsTree
  <2> QED  BY <1>3, <2>2
<1>6. ASSUME NEW k \in n + 1 .. c PROVE doc.parent[k] >= n
  <2>1. k = c \/ k \in n + 1 .. c - 1
    BY <1>3
  <2> QED  BY <1>3, <1>5, <2>1
<1> QED  BY <1>3, <1>4, <1>6 DEF Subtree

(* What is below a node is below one of its children.                      *)
LEMMA BelowAChild ==
  ASSUME IsTree(doc), NEW n \in Nodes, NEW m \in Subtree(n), m # n
  PROVE  \E c \in Children(n) : m \in Subtree(c)
<1>1. PICK len : len = Len(doc.tag)
  OBVIOUS
<1>2. len \in Nat /\ Nodes = 1 .. len
  BY <1>1, NodeFacts
<1>3. m \in Nodes /\ m > n /\ m \in Nat /\ n \in Nat \ {0}
  BY <1>2, Below
<1>4. \A k \in n + 1 .. m : k \in Nodes /\ doc.parent[k] \in n .. k - 1
  <2>1. \A k \in n + 1 .. m : k \in Nodes /\ k > 1
    BY <1>2, <1>3
  <2>2. \A k \in n + 1 .. m : doc.parent[k] \in 1 .. k - 1
    BY <2>1, ParentRange
  <2>3. \A k \in n + 1 .. m : doc.parent[k] >= n
    BY DEF Subtree
  <2> QED  BY <1>3, <2>1, <2>2, <2>3
<1> DEFINE before == {k \in 1 .. m : k \in Children(n)}
<1>5. n + 1 \in before
  <2>1. n + 1 \in n + 1 .. m
    BY <1>3
  <2>2. doc.parent[n + 1] = n
    BY <1>3, <1>4, <2>1
  <2> QED  BY <1>3, <1>4, <2>1, <2>2 DEF Children
<1>6. PICK c \in before : \A k \in before : k <= c
  <2>1. before \in SUBSET (1 .. m) /\ before # {}
    BY <1>5
  <2> HIDE DEF before
  <2> QED  BY <1>3, <2>1, Lists!BoundedHasGreatest
<1>7. c \in Nodes /\ c \in n + 1 .. m /\ doc.parent[c] = n
  <2>1. c \in Children(n) /\ c \in 1 .. m
    OBVIOUS
  <2> QED  BY <1>3, <2>1, ChildFacts
<1>8. ASSUME NEW k \in c + 1 .. m PROVE doc.parent[k] >= c
  <2>1. k \in n + 1 .. m /\ k \in Nodes /\ k > 1
    BY <1>2, <1>3, <1>7
  <2>2. doc.parent[k] \in n .. k - 1
    BY <1>4, <2>1
  <2>3. doc.parent[k] # n
    <3>1. SUFFICES ASSUME doc.parent[k] = n PROVE FALSE
      OBVIOUS
    <3>2. k \in before
      BY <1>3, <2>1, <3>1 DEF Children
    <3> QED  BY <1>3, <1>6, <1>7, <3>2
  <2>4. SUFFICES ASSUME doc.parent[k] < c PROVE FALSE
    BY <1>3, <1>7, <2>2
  <2>5. c \in doc.parent[k] + 1 .. k - 1
    BY <1>3, <1>7, <2>1, <2>2, <2>4
  <2>6. doc.parent[c] >= doc.parent[k]
    BY <2>1, <2>5 DEF IsTree, Nodes
  <2> QED  BY <1>3, <1>7, <2>2, <2>3, <2>6
<1>9. m \in Subtree(c) /\ c \in Children(n)
  BY <1>3, <1>7, <1>8 DEF Subtree, Children
<1> QED  BY <1>9

(* Different children have nothing in common.                              *)
LEMMA ChildrenApart ==
  ASSUME IsTree(doc), NEW n \in Nodes, NEW c \in Children(n), NEW d \in Children(n), c < d
  PROVE  d \notin Subtree(c) /\ \A m \in Subtree(c), k \in Subtree(d) : m < k /\ m < d
<1>1. c \in Nodes /\ d \in Nodes /\ doc.parent[d] = n /\ c > n
  BY ChildFacts
<1>2. d \notin Subtree(c)
  <2>1. SUFFICES ASSUME d \in Subtree(c) PROVE FALSE
    OBVIOUS
  <2>2. d # c /\ n \in Int /\ c \in Int
    BY <1>1, Below
  <2>3. n \in Subtree(c)
    BY <1>1, <2>1, <2>2, ParentFacts
  <2> QED  BY <1>1, <2>2, <2>3, Below
<1> QED  BY <1>1, <1>2, ApartOrWithin

-----------------------------------------------------------------------------
(* What a walk still has to do: P are the children that its loops have to  *)
(* look at, V the nodes shown so far.                                      *)
Agenda(start, rejected, P, V) ==
  LET W == Visitable(start, rejected)
  IN  /\ P \subseteq Subtree(start) /\ V \subseteq W
      /\ \A c \in P : c = start \/ doc.parent[c] \in W
      /\ \A c, d \in P : d \in Subtree(c) => c = d
      /\ \A n \in W : (\A c \in P : n \notin Subtree(c)) => n \in V
      /\ \A v \in V, c \in P : v < c

(* A child that no filter rejects can be shown if its parent can.          *)
LEMMA VisitableFacts ==
  ASSUME IsTree(doc), NEW start \in Nodes, NEW rejected
  PROVE  /\ start \in Visitable(start, rejected)
         /\ Visitable(start, {}) = Subtree(start)
         /\ \A c \in Subtree(start) :
              c # start /\ doc.parent[c] \in Visitable(start, rejected) /\ c \notin rejected
                => c \in Visitable(start, rejected)
         /\ \A c \in rejected, n \in Visitable(start, rejected) :
              c \in Subtree(start) /\ c # start => n \notin Subtree(c)
<1>1. start \in Subtree(start) /\ start \in Int
  BY Below
<1>2. start \in Visitable(start, rejected)
  <2>1. ASSUME NEW m \in Subtree(start), m # start, start \in Subtree(m) PROVE FALSE
    <3>1. m > start /\ m \in Nodes /\ m \in Int
      BY <2>1, ParentFacts, Below
    <3> QED  BY <1>1, <2>1, <3>1, Below
  <2> QED  BY <1>1, <2>1 DEF Visitable
<1>3. Visitable(start, {}) = Subtree(start)
  BY DEF Visitable
<1>4. ASSUME NEW c \in Subtree(start), c # start,
             doc.parent[c] \in Visitable(start, rejected), c \notin rejected
      PROVE  c \in Visitable(start, rejected)
  <2>1. ASSUME NEW m \in Subtree(start) \ {start}, c \in Subtree(m), m # c
        PROVE  m \notin rejected
    <3>1. m \in Nodes
      BY Below
    <3>2. doc.parent[c] \in Subtree(m)
      BY <2>1, <3>1, ParentFacts
    <3> QED  BY <1>4, <2>1, <3>2 DEF Visitable
  <2> QED  BY <1>4, <2>1 DEF Visitable
<1>5. ASSUME NEW c \in rejected, NEW n \in Visitable(start, rejected),
             c \in Subtree(start), c # start
      PROVE  n \notin Subtree(c)
  BY <1>5 DEF Visitable
<1> QED  BY <1>2, <1>3, <1>4, <1>5

(* At first there is all to do.                                            *)
LEMMA AgendaBegins ==
  ASSUME IsTree(doc), NEW start \in Nodes, NEW rejected
  PROVE  Agenda(start, rejected, {start}, {})
BY Below DEF Agenda, Visitable

(* Showing a node puts its children in its place, and leaves nothing out.  *)
LEMMA AgendaEnters ==
  ASSUME IsTree(doc), NEW start \in Nodes, NEW rejected, NEW P, NEW V,
         Agenda(start, rejected, P, V),
         NEW c \in P, c \in Visitable(start, rejected), \A d \in P : c <= d
  PROVE  /\ Agenda(start, rejected, (P \ {c}) \cup Children(c), V \cup {c})
         /\ V \cup {c} = {n \in Visitable(start, rejected) : n <= c}
<1> DEFINE W == Visitable(start, rejected)
           P1 == (P \ {c}) \cup Children(c)
           V1 == V \cup {c}
<1>1. /\ P \subseteq Subtree(start) /\ V \subseteq W
      /\ \A x \in P : x = start \/ doc.parent[x] \in W
      /\ \A x, d \in P : d \in Subtree(x) => x = d
      /\ \A n \in W : (\A x \in P : n \notin Subtree(x)) => n \in V
      /\ \A v \in V, x \in P : v < x
  BY DEF Agenda
<1>2. W \subseteq Subtree(start) /\ Subtree(start) \subseteq Nodes /\ c \in Nodes
      /\ \A n \in Nodes : n \in Nat
  BY <1>1, Below DEF Visitable
<1>3. \A x \in Children(c) : /\ x \in Nodes /\ x > c /\ x \in Subtree(c)
                             /\ doc.parent[x] = c /\ x \in Subtree(start)
  BY <1>1, <1>2, ChildFacts, Below
<1>4. \A d \in P \ {c} : c < d /\ d \in Nodes
  BY <1>1, <1>2
<1> HIDE DEF W
<1>5. P1 \subseteq Subtree(start) /\ V1 \subseteq W
  BY <1>1, <1>3 DEF W
<1>6. \A x \in P1 : x = start \/ doc.parent[x] \in W
  BY <1>1, <1>3 DEF W
<1>7. ASSUME NEW x \in P1, NEW d \in P1, d \in Subtree(x) PROVE x = d
  <2>1. CASE x \in Children(c) /\ d \in Children(c)
    <3>1. SUFFICES ASSUME x # d PROVE FALSE
      OBVIOUS
    <3>2. x \in Nat /\ d \in Nat /\ d >= x
      BY <1>2, <1>3, <1>7, <2>1, Below
    <3> QED  BY <1>2, <1>7, <2>1, <3>1, <3>2, ChildrenApart
  <2>2. CASE x \in Children(c) /\ d \in P \ {c}
    <3>1. d \in Subtree(c)
      BY <1>2, <1>3, <1>7, <2>2, Below
    <3> QED  BY <1>1, <2>2, <3>1
  <2>3. CASE x \in P \ {c} /\ d \in Children(c)
    <3>1. x \in Nodes /\ c < x /\ d \in Subtree(c) /\ d \in Nat
      BY <1>2, <1>3, <1>4, <2>3
    <3>2. x \notin Subtree(c)
      BY <1>1, <2>3
    <3>3. d < d
      BY <1>2, <1>7, <3>1, <3>2, ApartOrWithin
    <3> QED  BY <3>1, <3>3
  <2>4. CASE x \in P /\ d \in P
    BY <1>1, <1>7, <2>4
  <2> QED  BY <2>1, <2>2, <2>3, <2>4
<1>8. ASSUME NEW n \in W, \A x \in P1 : n \notin Subtree(x) PROVE n \in V1
  <2>1. CASE n \in Subtree(c)
    BY <1>2, <1>8, <2>1, BelowAChild
  <2>2. CASE n \notin Subtree(c)
    BY <1>1, <1>8, <2>2
  <2> QED  BY <2>1, <2>2
<1>9. ASSUME NEW v \in V1, NEW x \in P1 PROVE v < x
  <2>1. v <= c /\ v \in Nat /\ c \in Nat
    BY <1>1, <1>2
  <2>2. x > c /\ x \in Nat
    BY <1>2, <1>3, <1>4
  <2> QED  BY <2>1, <2>2
<1>10. ASSUME NEW n \in W, n <= c PROVE n \in V1
  <2>1. CASE n = c
    BY <2>1
  <2>2. CASE n # c
    <3>1. \A x \in P : n \notin Subtree(x)
      <4>1. n < c /\ n \in Nat /\ c \in Nat
        BY <1>2, <1>10, <2>2 DEF W
      <4>2. \A x \in P : x \in Nodes /\ x >= c /\ x \in Nat
        BY <1>1, <1>2
      <4>3. \A x \in P : n \in Subtree(x) => n >= x
        BY <4>2, Below
      <4> QED  BY <4>1, <4>2, <4>3
    <3> QED  BY <1>1, <3>1
  <2> QED  BY <2>1, <2>2
<1>11. \A n \in V1 : n \in W /\ n <= c
  BY <1>1, <1>2, <1>5
<1>12. V1 = {n \in W : n <= c}
  BY <1>10, <1>11
<1>13. Agenda(start, rejected, P1, V1)
  BY <1>5, <1>6, <1>7, <1>8, <1>9 DEF Agenda, W
<1> QED  BY <1>12, <1>13 DEF W

(* A rejected child is left out with all that is below it.                 *)
LEMMA AgendaSkips ==
  ASSUME IsTree(doc), NEW start \in Nodes, NEW rejected, NEW P, NEW V,
         Agenda(start, rejected, P, V), NEW c \in P, c \in rejected, c # start
  PROVE  Agenda(start, rejected, P \ {c}, V)
<1>1. c \in Subtree(start)
  BY DEF Agenda
<1>2. \A n \in Visitable(start, rejected) : n \notin Subtree(c)
  BY <1>1, VisitableFacts
<1> QED  BY <1>2 DEF Agenda

(* Nothing is left to do.                                                  *)
LEMMA AgendaEnds ==
  ASSUME NEW start, NEW rejected, NEW V, Agenda(start, rejected, {}, V)
  PROVE  V = Visitable(start, rejected)
BY DEF Agenda

-----------------------------------------------------------------------------
Increasing(s) == \A i, j \in DOMAIN s : i < j => s[i] < s[j]

(* The children that the loops still have to look at. *)
Pending(fs) == UNION {Range(fs[i]) : i \in DOMAIN fs}

(* The loops go through their children in order, the inner ones through    *)
(* earlier nodes.                                                          *)
Ordered(fs) ==
  /\ \A i \in DOMAIN fs : Increasing(fs[i])
  /\ \A i, j \in DOMAIN fs : i < j => \A x \in Range(fs[i]), y \in Range(fs[j]) : y < x

(* Without loops nothing is pending.                                       *)
LEMMA NoFrames == Pending(<<>>) = {} /\ Ordered(<<>>) /\ <<>> \in Seq(Seq(Nat))
<1>1. DOMAIN <<>> = {}
  OBVIOUS
<1> QED  BY <1>1, EmptySeq DEF Pending, Ordered

(* A call of dfs starts a loop over children that come before all others.  *)
LEMMA LoopBegins ==
  ASSUME NEW fs \in Seq(Seq(Nat)), Ordered(fs), NEW s \in Seq(Nat), Increasing(s),
         \A x \in Range(s), y \in Pending(fs) : x < y
  PROVE  /\ Append(fs, s) \in Seq(Seq(Nat)) /\ Ordered(Append(fs, s))
         /\ Pending(Append(fs, s)) = Pending(fs) \cup Range(s)
<1>1. PICK n, t : n = Len(fs) /\ t = Append(fs, s)
  OBVIOUS
<1>2. /\ n \in Nat /\ t \in Seq(Seq(Nat)) /\ DOMAIN fs = 1 .. n /\ DOMAIN t = 1 .. n + 1
      /\ t[n + 1] = s /\ \A i \in 1 .. n : t[i] = fs[i]
  BY <1>1, AppendProperties, LenProperties
<1>3. \A i \in DOMAIN t : (i \in DOMAIN fs /\ t[i] = fs[i] /\ i <= n) \/ (i = n + 1 /\ t[i] = s)
  BY <1>2
<1>4. \A i \in DOMAIN fs : i \in DOMAIN t /\ t[i] = fs[i]
  BY <1>2
<1>5. n + 1 \in DOMAIN t
  BY <1>2
<1>6. Pending(t) = Pending(fs) \cup Range(s)
  BY <1>2, <1>3, <1>4, <1>5 DEF Pending
<1>7. \A i \in DOMAIN t : Increasing(t[i])
  BY <1>3 DEF Ordered
<1>8. ASSUME NEW i \in DOMAIN t, NEW j \in DOMAIN t, i < j,
             NEW x \in Range(t[i]), NEW y \in Range(t[j])
      PROVE  y < x
  <2>1. i \in DOMAIN fs /\ t[i] = fs[i]
    BY <1>2, <1>3, <1>8
  <2>2. CASE j \in DOMAIN fs /\ t[j] = fs[j]
    BY <1>8, <2>1, <2>2 DEF Ordered
  <2>3. CASE j = n + 1 /\ t[j] = s
    BY <1>8, <2>1, <2>3 DEF Pending
  <2> QED  BY <1>3, <2>2, <2>3
<1> QED  BY <1>1, <1>2, <1>6, <1>7, <1>8 DEF Ordered

(* The innermost loop and the others.                                      *)
LEMMA InnerLoop ==
  ASSUME NEW fs \in Seq(Seq(Nat)), Ordered(fs), fs # <<>>
  PROVE  /\ Front(fs) \in Seq(Seq(Nat)) /\ Ordered(Front(fs))
         /\ Last(fs) \in Seq(Nat) /\ Increasing(Last(fs))
         /\ Pending(fs) = Pending(Front(fs)) \cup Range(Last(fs))
         /\ \A x \in Range(Last(fs)), y \in Pending(Front(fs)) : x < y
<1>1. PICK n, t : n = Len(fs) /\ t = Front(fs)
  OBVIOUS
<1>2. n \in Nat \ {0} /\ DOMAIN fs = 1 .. n /\ \A i \in 1 .. n : fs[i] \in Seq(Nat)
  <2>1. n \in Nat \ {0} /\ DOMAIN fs = 1 .. n
    BY <1>1, EmptySeq, LenProperties
  <2>2. \A i \in 1 .. n : fs[i] \in Seq(Nat)
    BY <1>1, ElementOfSeq
  <2> QED  BY <2>1, <2>2
<1>3. t = SubSeq(fs, 1, n - 1)
  BY <1>1 DEF Front
<1>4. \A i \in 1 .. n - 1 : fs[i] \in Seq(Nat)
  BY <1>2
<1>5. t \in Seq(Seq(Nat)) /\ Len(t) = n - 1 /\ \A i \in 1 .. n - 1 : t[i] = fs[i]
  <2>1. n - 1 \in Int /\ 1 \in Int /\ (n - 1) - 1 + 1 = n - 1
    BY <1>2
  <2>2. /\ SubSeq(fs, 1, n - 1) \in Seq(Seq(Nat))
        /\ Len(SubSeq(fs, 1, n - 1)) = IF 1 <= n - 1 THEN (n - 1) - 1 + 1 ELSE 0
        /\ \A i \in 1 .. (n - 1) - 1 + 1 : SubSeq(fs, 1, n - 1)[i] = fs[1 + i - 1]
    BY <1>4, <2>1, SubSeqProperties
  <2>3. \A i \in 1 .. n - 1 : 1 + i - 1 = i
    OBVIOUS
  <2> QED  BY <1>2, <1>3, <2>1, <2>2, <2>3
<1>6. DOMAIN t = 1 .. n - 1
  BY <1>5, LenProperties
<1>7. n \in DOMAIN fs /\ Last(fs) = fs[n] /\ Last(fs) \in Seq(Nat) /\ Increasing(Last(fs))
  BY <1>1, <1>2 DEF Last, Ordered
<1>8. \A i \in DOMAIN t : i \in DOMAIN fs /\ t[i] = fs[i] /\ i < n
  BY <1>2, <1>5, <1>6
<1>9. \A i \in DOMAIN fs : i \in DOMAIN t \/ i = n
  BY <1>2, <1>6
<1>10. Pending(fs) = Pending(t) \cup Range(Last(fs))
  BY <1>7, <1>8, <1>9 DEF Pending
<1>11. Ordered(t)
  BY <1>8 DEF Ordered
<1>12. ASSUME NEW x \in Range(Last(fs)), NEW y \in Pending(t) PROVE x < y
  <2>1. PICK i \in DOMAIN t : y \in Range(t[i])
    BY DEF Pending
  <2> QED  BY <1>7, <1>8, <1>12, <2>1 DEF Ordered
<1> QED  BY <1>1, <1>5, <1>7, <1>10, <1>11, <1>12

(* The head of an increasing sequence is its least member.                 *)
LEMMA FirstAndRest ==
  ASSUME NEW s \in Seq(Nat), Increasing(s), s # <<>>
  PROVE  /\ Tail(s) \in Seq(Nat) /\ Increasing(Tail(s))
         /\ Head(s) \in Range(s) /\ Range(Tail(s)) = Range(s) \ {Head(s)}
         /\ \A x \in Range(s) : Head(s) <= x
<1>1. PICK n, t : n = Len(s) /\ t = Tail(s)
  OBVIOUS
<1>2. /\ n \in Nat \ {0} /\ DOMAIN s = 1 .. n /\ \A i \in 1 .. n : s[i] \in Nat
      /\ t \in Seq(Nat) /\ DOMAIN t = 1 .. n - 1 /\ \A i \in 1 .. n - 1 : t[i] = s[i + 1]
      /\ Head(s) = s[1]
  <2>1. n \in Nat \ {0} /\ DOMAIN s = 1 .. n /\ \A i \in 1 .. n : s[i] \in Nat
    <3>1. n \in Nat \ {0} /\ DOMAIN s = 1 .. n
      BY <1>1, EmptySeq, LenProperties
    <3>2. \A i \in 1 .. n : s[i] \in Nat
      BY <1>1, ElementOfSeq
    <3> QED  BY <3>1, <3>2
  <2>2. t \in Seq(Nat) /\ Len(t) = n - 1 /\ \A i \in 1 .. Len(t) : t[i] = s[i + 1]
    BY <1>1, HeadTailProperties
  <2>3. DOMAIN t = 1 .. Len(t)
    BY <2>2, LenProperties
  <2>4. Head(s) = s[1]
    OBVIOUS
  <2>5. DOMAIN t = 1 .. n - 1 /\ \A i \in 1 .. n - 1 : t[i] = s[i + 1]
    BY <2>2, <2>3
  <2> QED  BY <2>1, <2>2, <2>4, <2>5
<1>3. \A i \in DOMAIN t : i \in Int /\ i + 1 \in DOMAIN s /\ t[i] = s[i + 1] /\ i + 1 > 1
  <2>1. n \in Nat /\ \A i \in 1 .. n - 1 : i \in Int /\ i + 1 \in 1 .. n /\ i + 1 > 1
    BY <1>2
  <2> QED  BY <1>2, <2>1
<1>4. \A i \in DOMAIN s : i = 1 \/ (i - 1 \in DOMAIN t /\ t[i - 1] = s[i] /\ i > 1)
  <2>1. ASSUME NEW i \in DOMAIN s, i # 1
        PROVE  i - 1 \in DOMAIN t /\ t[i - 1] = s[i] /\ i > 1
    <3>1. i \in Nat /\ i > 1 /\ i - 1 \in 1 .. n - 1
      <4>1. n \in Nat /\ i \in 1 .. n
        BY <1>2
      <4> QED  BY <2>1, <4>1
    <3>2. (i - 1) + 1 = i
      BY <3>1
    <3>3. t[i - 1] = s[(i - 1) + 1]
      BY <1>2, <3>1
    <3> QED  BY <1>2, <3>1, <3>2, <3>3
  <2> QED  BY <2>1
<1>5. 1 \in DOMAIN s /\ \A i \in DOMAIN s : i > 1 => s[1] < s[i]
  <2>1. \A i, j \in DOMAIN s : i < j => s[i] < s[j]
    BY DEF Increasing
  <2>2. 1 \in DOMAIN s /\ \A i \in DOMAIN s : i > 1 => 1 < i
    BY <1>2
  <2> QED  BY <2>1, <2>2
<1>6. Increasing(t)
  <2>1. ASSUME NEW i \in DOMAIN t, NEW j \in DOMAIN t, i < j PROVE t[i] < t[j]
    <3>1. i + 1 < j + 1
      BY <1>3, <2>1
    <3>2. \A k, l \in DOMAIN s : k < l => s[k] < s[l]
      BY DEF Increasing
    <3>3. i + 1 \in DOMAIN s /\ j + 1 \in DOMAIN s /\ t[i] = s[i + 1] /\ t[j] = s[j + 1]
      BY <1>3
    <3>4. PICK k, l : k = i + 1 /\ l = j + 1
      OBVIOUS
    <3>5. s[k] < s[l]
      BY <3>1, <3>2, <3>3, <3>4
    <3> QED  BY <3>3, <3>4, <3>5
  <2> QED  BY <2>1 DEF Increasing
<1>7. \A x \in Range(s) : x \in Nat /\ s[1] <= x
  <2>1. ASSUME NEW i \in DOMAIN s PROVE s[i] \in Nat /\ s[1] <= s[i]
    <3>1. s[i] \in Nat /\ s[1] \in Nat
      BY <1>2
    <3>2. i = 1 \/ i > 1
      BY <1>2
    <3>3. i > 1 => s[1] < s[i]
      BY <1>5
    <3> QED  BY <3>1, <3>2, <3>3
  <2> QED  BY <2>1 DEF Range
<1>8. ASSUME NEW x \in Range(t) PROVE x \in Range(s) \ {s[1]}
  <2>1. PICK i \in DOMAIN t : x = t[i]
    BY DEF Range
  <2>2. i + 1 \in DOMAIN s /\ x = s[i + 1] /\ s[1] < s[i + 1] /\ s[1] \in Nat
    BY <1>2, <1>3, <1>5, <2>1
  <2> QED  BY <2>2 DEF Range
<1>9. ASSUME NEW x \in Range(s) \ {s[1]} PROVE x \in Range(t)
  <2>1. PICK i \in DOMAIN s : x = s[i]
    BY DEF Range
  <2>2. i - 1 \in DOMAIN t /\ t[i - 1] = x
    BY <1>4, <2>1
  <2> QED  BY <2>2 DEF Range
<1>10. s[1] \in Range(s)
  BY <1>5 DEF Range
<1> QED  BY <1>1, <1>2, <1>6, <1>7, <1>8, <1>9, <1>10

(* The loop takes its next child, the first of all that are pending.       *)
LEMMA LoopContinues ==
  ASSUME NEW fs \in Seq(Seq(Nat)), Ordered(fs), fs # <<>>, Last(fs) # <<>>,
         NEW rest, rest = Append(Front(fs), Tail(Last(fs)))
  PROVE  /\ rest \in Seq(Seq(Nat)) /\ Ordered(rest)
         /\ Head(Last(fs)) \in Pending(fs)
         /\ Pending(rest) = Pending(fs) \ {Head(Last(fs))}
         /\ \A d \in Pending(fs) : Head(Last(fs)) <= d
<1>1. PICK f, s : f = Front(fs) /\ s = Last(fs)
  OBVIOUS
<1>2. /\ f \in Seq(Seq(Nat)) /\ Ordered(f) /\ s \in Seq(Nat) /\ Increasing(s)
      /\ Pending(fs) = Pending(f) \cup Range(s)
      /\ \A x \in Range(s), y \in Pending(f) : x < y
  BY <1>1, InnerLoop
<1>3. /\ Tail(s) \in Seq(Nat) /\ Increasing(Tail(s))
      /\ Head(s) \in Range(s) /\ Range(Tail(s)) = Range(s) \ {Head(s)}
      /\ \A x \in Range(s) : Head(s) <= x
  BY <1>1, <1>2, FirstAndRest
<1>4. /\ rest = Append(f, Tail(s)) /\ rest \in Seq(Seq(Nat)) /\ Ordered(rest)
      /\ Pending(rest) = Pending(f) \cup Range(Tail(s))
  BY <1>1, <1>2, <1>3, LoopBegins
<1>5. \A x \in Range(s) : x \in Nat
  BY <1>2, RangeOfSeq
<1>6. \A y \in Pending(f) : y \in Nat
  <2>1. ASSUME NEW i \in DOMAIN f, NEW y \in Range(f[i]) PROVE y \in Nat
    <3>1. f[i] \in Seq(Nat)
      BY <1>2, ElementOfSeq, LenProperties
    <3> QED  BY <2>1, <3>1, RangeOfSeq
  <2> QED  BY <2>1 DEF Pending
<1>7. \A y \in Pending(f) : Head(s) < y /\ Head(s) \in Nat
  BY <1>2, <1>3, <1>5
<1>8. Pending(rest) = Pending(fs) \ {Head(s)}
  <2>1. Head(s) \notin Pending(f)
    BY <1>6, <1>7
  <2>2. /\ Pending(rest) = Pending(f) \cup (Range(s) \ {Head(s)})
        /\ Pending(fs) = Pending(f) \cup Range(s)
    BY <1>2, <1>3, <1>4
  <2> QED  BY <2>1, <2>2
<1>9. \A d \in Pending(fs) : Head(s) <= d
  BY <1>2, <1>3, <1>6, <1>7
<1> QED  BY <1>1, <1>2, <1>3, <1>4, <1>8, <1>9

-----------------------------------------------------------------------------
(* What the walk of the stage starts from and what its filter rejects.     *)
StartOf == IF stage = "find" THEN 1 ELSE found
Rejected == IF stage = "find" THEN ClosedNodes ELSE {}

WalkTypeOK ==
  /\ IsPage(doc) /\ stage \in {"find", "meta", "done"}
  /\ visited \in Seq(Nat) /\ frames \in Seq(Seq(Nat)) /\ Ordered(frames)
  /\ keepGoing \in BOOLEAN /\ found \in Nodes \cup {Null}
  /\ visited = <<>> => frames = <<>> /\ keepGoing
  /\ stage = "done" => frames = <<>>

ShownInOrder ==
  visited # <<>> =>
    /\ StartOf \in Nodes
    /\ InOrder(visited, {n \in Visitable(StartOf, Rejected) : n <= Last(visited)})

AgendaLeft ==
  visited # <<>> /\ keepGoing =>
    Agenda(StartOf, Rejected, Pending(frames), Range(visited))

(* dfFindFirst has shown no match yet, or just escapes with the first one. *)
FindSoFar ==
  stage = "find" =>
    /\ keepGoing => found = Null /\ \A v \in Range(visited) : Tag(v) # wanted
    /\ ~keepGoing => /\ found = Last(visited) /\ Tag(found) = wanted
                     /\ \A v \in Range(visited) : v # found => Tag(v) # wanted

FoundFirst ==
  stage # "find" =>
    /\ keepGoing /\ found = (IF Matches = {} THEN Null ELSE Min(Matches))
    /\ stage = "done" /\ found # Null => visited # <<>>

(* The map holds the values that come first among the nodes shown.         *)
KeyOf(n) == GetAttr(n, KeyAttr(n))
ValueOf(n) == GetAttr(n, ValueAttr(n))

FirstValues(values, shown) ==
  /\ \A g \in shown : IsMetaValue(g) => KeyOf(g) \in DOMAIN values
  /\ \A key \in DOMAIN values :
       \E g \in shown : /\ IsMetaValue(g) /\ KeyOf(g) = key /\ values[key] = ValueOf(g)
                        /\ \A h \in shown : IsMetaValue(h) /\ KeyOf(h) = key => g <= h

MetaSoFar == IF stage = "find" THEN tagValues = <<>>
             ELSE FirstValues(tagValues, Range(visited))

WalkInv == /\ WalkTypeOK /\ ShownInOrder /\ AgendaLeft
           /\ FindSoFar /\ FoundFirst /\ MetaSoFar

PageInv == /\ stage # "none" => WalkInv
           /\ stage = "none" => visited = <<>> /\ frames = <<>>

(* What is said of a page stays as long as the page does.                  *)
LEMMA SameWalk ==
  ASSUME doc' = doc
  PROVE  /\ IsPage(doc)' <=> IsPage(doc)
         /\ Nodes' = Nodes
         /\ \A n : /\ Tag(n)' = Tag(n) /\ Subtree(n)' = Subtree(n) /\ Children(n)' = Children(n)
                   /\ IsMetaValue(n)' = IsMetaValue(n)
                   /\ KeyOf(n)' = KeyOf(n) /\ ValueOf(n)' = ValueOf(n)
         /\ \A n, r : Visitable(n, r)' = Visitable(n, r)
         /\ \A n, r, P, V : Agenda(n, r, P, V)' <=> Agenda(n, r, P, V)
         /\ \A f, V : FirstValues(f, V)' <=> FirstValues(f, V)
         /\ UNCHANGED <<wanted, closed>> => ClosedNodes' = ClosedNodes /\ Matches' = Matches
<1>1. Nodes' = Nodes
  BY DEF Nodes
<1>2. \A n : /\ Tag(n)' = Tag(n) /\ Subtree(n)' = Subtree(n) /\ Children(n)' = Children(n)
             /\ \A a : HasAttr(n, a)' = HasAttr(n, a) /\ GetAttr(n, a)' = GetAttr(n, a)
  BY <1>1 DEF Tag, IsElement, IsText, Subtree, Children, HasAttr, GetAttr
<1>3. \A n : KeyAttr(n)' = KeyAttr(n)
  BY <1>2 DEF KeyAttr
<1>4. \A n : ValueAttr(n)' = ValueAttr(n)
  BY <1>3 DEF ValueAttr
<1>5. \A n : /\ IsMetaValue(n)' = IsMetaValue(n)
             /\ KeyOf(n)' = KeyOf(n) /\ ValueOf(n)' = ValueOf(n)
  BY <1>2, <1>3, <1>4 DEF IsMetaValue, KeyOf, ValueOf
<1>6. \A n, r : Visitable(n, r)' = Visitable(n, r)
  BY <1>2 DEF Visitable
<1>7. \A n, r, P, V : Agenda(n, r, P, V)' <=> Agenda(n, r, P, V)
  BY <1>2, <1>6 DEF Agenda
<1>8. \A f, V : FirstValues(f, V)' <=> FirstValues(f, V)
  BY <1>5 DEF FirstValues
<1>9. UNCHANGED <<wanted, closed>> => ClosedNodes' = ClosedNodes /\ Matches' = Matches
  BY <1>1, <1>2, <1>6 DEF ClosedNodes, Matches
<1>10. IsPage(doc)' <=> IsPage(doc)
  OBVIOUS
<1> QED  BY <1>1, <1>2, <1>5, <1>6, <1>7, <1>8, <1>9, <1>10

(* MetaTags::extract takes the values of one node more.                    *)
LEMMA ValuesOfOneMore ==
  ASSUME NEW values, NEW shown \in SUBSET Nat, FirstValues(values, shown),
         NEW n \in Nat, \A g \in shown : g < n,
         NEW new,
         IF IsMetaValue(n)
         THEN new = [k \in DOMAIN values \cup {KeyOf(n)} |->
                       IF k \in DOMAIN values THEN values[k] ELSE ValueOf(n)]
         ELSE new = values
  PROVE  FirstValues(new, shown \cup {n})
<1>1. CASE ~IsMetaValue(n)
  BY <1>1 DEF FirstValues
<1>2. CASE IsMetaValue(n)
  <2>1. PICK k, v : k = KeyOf(n) /\ v = ValueOf(n)
    OBVIOUS
  <2>2. /\ DOMAIN new = DOMAIN values \cup {k}
        /\ \A x \in DOMAIN values : new[x] = values[x]
        /\ k \notin DOMAIN values => new[k] = v
    BY <1>2, <2>1
  <2>3. \A g \in shown \cup {n} : IsMetaValue(g) => KeyOf(g) \in DOMAIN new
    BY <2>1, <2>2 DEF FirstValues
  <2>4. ASSUME NEW x \in DOMAIN new
        PROVE  \E g \in shown \cup {n} :
                 /\ IsMetaValue(g) /\ KeyOf(g) = x /\ new[x] = ValueOf(g)
                 /\ \A h \in shown \cup {n} : IsMetaValue(h) /\ KeyOf(h) = x => g <= h
    <3>1. CASE x \in DOMAIN values
      <4>1. PICK g \in shown : /\ IsMetaValue(g) /\ KeyOf(g) = x /\ values[x] = ValueOf(g)
                               /\ \A h \in shown : IsMetaValue(h) /\ KeyOf(h) = x => g <= h
        BY <3>1 DEF FirstValues
      <4>2. g <= n
        OBVIOUS
      <4> QED  BY <2>2, <3>1, <4>1, <4>2
    <3>2. CASE x \notin DOMAIN values
      <4>1. x = k /\ new[x] = v /\ n <= n
        BY <2>2, <3>2
      <4>2. \A h \in shown : IsMetaValue(h) => KeyOf(h) # x
        BY <3>2 DEF FirstValues
      <4> QED  BY <1>2, <2>1, <4>1, <4>2
    <3> QED  BY <3>1, <3>2
  <2> QED  BY <2>3, <2>4 DEF FirstValues
<1> QED  BY <1>1, <1>2

-----------------------------------------------------------------------------
(* A call of dfs, whoever makes it: n comes first in the agenda P, and is  *)
(* taken out of it.                                                        *)
LEMMA DfsKeeps ==
  ASSUME WalkInv, doc' = doc, stage \in {"find", "meta"}, keepGoing,
         NEW P, Agenda(StartOf, Rejected, P, Range(visited)), StartOf \in Nodes,
         NEW n \in P, \A d \in P : n <= d, n \in Visitable(StartOf, Rejected),
         NEW below \in Seq(Seq(Nat)), Ordered(below), Pending(below) = P \ {n},
         Dfs(n, below)
  PROVE  WalkInv'
<1>1. PICK start, rejected, s : start = StartOf /\ rejected = Rejected /\ s = ChildSeq(n)
  OBVIOUS
<1>2. /\ IsTree(doc) /\ IsPage(doc) /\ start \in Nodes /\ visited \in Seq(Nat)
      /\ Agenda(start, rejected, P, Range(visited)) /\ n \in Visitable(start, rejected)
  BY <1>1 DEF WalkInv, WalkTypeOK, IsPage
<1>3. /\ n \in Nodes /\ n \in Nat /\ P \subseteq Nodes
      /\ \A d \in P : n < d \/ n = d
  <2>1. P \subseteq Subtree(start) /\ Subtree(start) \subseteq Nodes
    BY <1>2, Below DEF Agenda
  <2>2. \A d \in Nodes : d \in Nat
    BY <1>2, Below
  <2> QED  BY <2>1, <2>2
<1>4. /\ visited' = Append(visited, n)
      /\ IF stage = "find" THEN FindVisits(n) ELSE MetaVisits(n)
      /\ frames' = IF keepGoing' THEN Append(below, s) ELSE below
      /\ stage' = stage /\ wanted' = wanted /\ closed' = closed
  BY <1>1 DEF Dfs
<1>5. /\ Agenda(start, rejected, (P \ {n}) \cup Children(n), Range(visited) \cup {n})
      /\ Range(visited) \cup {n} = {m \in Visitable(start, rejected) : m <= n}
  <2>1. PICK V : V = Range(visited)
    OBVIOUS
  <2>2. /\ Agenda(start, rejected, (P \ {n}) \cup Children(n), V \cup {n})
        /\ V \cup {n} = {m \in Visitable(start, rejected) : m <= n}
    BY <1>2, <2>1, AgendaEnters
  <2> QED  BY <2>1, <2>2
<1>6. Range(visited') = Range(visited) \cup {n} /\ visited' \in Seq(Nat) /\ visited' # <<>>
      /\ Last(visited') = n
  <2>1. Range(visited') = Range(visited) \cup {n} /\ visited' \in Seq(Nat)
    BY <1>2, <1>3, <1>4, RangeWithOne
  <2>2. PICK k, t : k = Len(visited) /\ t = Append(visited, n)
    OBVIOUS
  <2>3. k \in Nat /\ Len(t) = k + 1 /\ t[k + 1] = n /\ t # <<>>
    BY <1>2, <1>3, <2>2, AppendProperties, LenProperties
  <2>4. Last(t) = n
    BY <2>3 DEF Last
  <2> QED  BY <1>4, <2>1, <2>2, <2>3, <2>4
<1>7. /\ s \in Seq(Nat) /\ Range(s) = Children(n) /\ Increasing(s)
      /\ \A x \in Range(s), y \in Pending(below) : x < y
  <2>1. Children(n) \in SUBSET Nodes
    BY DEF Children
  <2>2. s \in Seq(Nat) /\ Range(s) = Children(n) /\ Increasing(s)
    BY <1>1, <1>2, <2>1, DocumentOrder DEF ChildSeq, Increasing
  <2>3. ASSUME NEW x \in Children(n), NEW y \in P \ {n} PROVE x < y
    <3>1. n < y /\ y \in Nodes /\ y \notin Subtree(n)
      BY <1>2, <1>3 DEF Agenda
    <3>2. x \in Subtree(n)
      BY <1>2, <1>3, ChildFacts
    <3>3. y \in Subtree(y)
      BY <1>2, <3>1, Below
    <3> QED  BY <1>2, <1>3, <3>1, <3>2, <3>3, ApartOrWithin
  <2> QED  BY <2>2, <2>3
<1>8. /\ Append(below, s) \in Seq(Seq(Nat)) /\ Ordered(Append(below, s))
      /\ Pending(Append(below, s)) = (P \ {n}) \cup Children(n)
  BY <1>7, LoopBegins
<1>9. StartOf' = start /\ Rejected' = rejected
  <2>1. stage = "find" \/ found' = found
    BY <1>4 DEF MetaVisits
  <2> QED  BY <1>1, <1>4, <2>1, SameWalk DEF StartOf, Rejected
<1>10. keepGoing' \in BOOLEAN /\ found' \in Nodes \cup {Null}
  <2>1. found \in Nodes \cup {Null}
    BY DEF WalkInv, WalkTypeOK
  <2> QED  BY <1>3, <1>4, <2>1 DEF FindVisits, MetaVisits
<1>11. WalkTypeOK'
  <2>1. IsPage(doc)' /\ Nodes' = Nodes /\ stage' \in {"find", "meta", "done"} /\ stage' # "done"
    BY <1>2, <1>4, SameWalk
  <2>2. frames' \in Seq(Seq(Nat)) /\ Ordered(frames')
    BY <1>4, <1>8
  <2> QED  BY <1>6, <1>10, <2>1, <2>2 DEF WalkTypeOK
<1>12. ShownInOrder'
  <2>1. start \in Nodes' /\ Visitable(start, rejected)' = Visitable(start, rejected)
    BY <1>2, SameWalk
  <2>2. PICK k, t : k = Len(visited) /\ t = Append(visited, n)
    OBVIOUS
  <2>3. /\ k \in Nat /\ DOMAIN visited = 1 .. k /\ DOMAIN t = 1 .. k + 1 /\ t[k + 1] = n
        /\ \A i \in 1 .. k : t[i] = visited[i]
    BY <1>2, <1>3, <2>2, AppendProperties, LenProperties
  <2>4. \A v \in Range(visited) : v < n
    BY <1>2 DEF Agenda
  <2>5. \A i, j \in DOMAIN visited : i < j => visited[i] < visited[j]
    <3>1. CASE visited = <<>>
      BY <3>1
    <3>2. CASE visited # <<>>
      BY <3>2 DEF WalkInv, ShownInOrder, InOrder
    <3> QED  BY <3>1, <3>2
  <2>6. ASSUME NEW i \in DOMAIN t, NEW j \in DOMAIN t, i < j PROVE t[i] < t[j]
    <3>1. i \in DOMAIN visited /\ t[i] = visited[i] /\ t[i] \in Range(visited)
      BY <2>3, <2>6 DEF Range
    <3>2. CASE j \in DOMAIN visited
      BY <2>3, <2>5, <2>6, <3>1, <3>2
    <3>3. CASE j = k + 1
      BY <2>3, <2>4, <3>1, <3>3
    <3> QED  BY <2>3, <3>2, <3>3
  <2>7. InOrder(t, {m \in Visitable(start, rejected) : m <= n})
    BY <1>4, <1>5, <1>6, <2>2, <2>6 DEF InOrder
  <2>8. (StartOf \in Nodes)' /\ visited' = t /\ Last(visited') = n
    BY <1>4, <1>6, <1>9, <2>1, <2>2
  <2>9. {m \in Visitable(StartOf, Rejected) : m <= Last(visited)}'
          = {m \in Visitable(start, rejected) : m <= n}
    BY <1>9, <2>1, <2>8
  <2> QED  BY <2>7, <2>8, <2>9 DEF ShownInOrder, InOrder
<1>13. AgendaLeft'
  <2> SUFFICES ASSUME keepGoing' PROVE Agenda(StartOf, Rejected, Pending(frames), Range(visited))'
    BY DEF AgendaLeft
  <2>1. Pending(frames') = (P \ {n}) \cup Children(n)
    BY <1>4, <1>8
  <2>2. PICK P1, V1 : P1 = (P \ {n}) \cup Children(n) /\ V1 = Range(visited) \cup {n}
    OBVIOUS
  <2>3. Agenda(start, rejected, P1, V1)'
    BY <1>5, <2>2, SameWalk
  <2> QED  BY <1>6, <1>9, <2>1, <2>2, <2>3
<1>14. FindSoFar'
  <2> SUFFICES ASSUME stage = "find"
               PROVE  /\ keepGoing' => found' = Null /\ \A v \in Range(visited') : Tag(v) # wanted
                      /\ ~keepGoing' => /\ found' = Last(visited') /\ Tag(found') = wanted
                                        /\ \A v \in Range(visited') :
                                             v # found' => Tag(v) # wanted
    BY <1>4, SameWalk DEF FindSoFar
  <2>1. found = Null /\ \A v \in Range(visited) : Tag(v) # wanted
    BY DEF WalkInv, FindSoFar
  <2>3. CASE Tag(n) = wanted
    <3>1. found' = n /\ ~keepGoing'
      BY <1>4, <2>3 DEF FindVisits
    <3> QED  BY <1>4, <1>6, <2>1, <2>3, <3>1
  <2>4. CASE Tag(n) # wanted
    <3>1. found' = Null /\ keepGoing'
      BY <1>4, <2>1, <2>4 DEF FindVisits
    <3> QED  BY <1>4, <1>6, <2>1, <2>4, <3>1
  <2> QED  BY <2>3, <2>4
<1>15. FoundFirst'
  <2> SUFFICES ASSUME stage # "find"
               PROVE  /\ keepGoing' /\ found' = (IF Matches' = {} THEN Null ELSE Min(Matches'))
                      /\ visited' # <<>>
    BY <1>4 DEF FoundFirst
  <2>1. keepGoing' = keepGoing /\ found' = found /\ Matches' = Matches
    BY <1>4, SameWalk DEF MetaVisits
  <2> QED  BY <1>6, <2>1 DEF WalkInv, FoundFirst
<1>16. MetaSoFar'
  <2>1. CASE stage = "find"
    BY <1>4, <2>1 DEF FindVisits, WalkInv, MetaSoFar
  <2>2. CASE stage # "find"
    <3>1. FirstValues(tagValues, Range(visited))
      BY <2>2 DEF WalkInv, MetaSoFar
    <3>2. Range(visited) \in SUBSET Nat /\ \A g \in Range(visited) : g < n
      BY <1>2, RangeOfSeq DEF Agenda
    <3>3. IF IsMetaValue(n)
          THEN tagValues' = [k \in DOMAIN tagValues \cup {KeyOf(n)} |->
                               IF k \in DOMAIN tagValues THEN tagValues[k] ELSE ValueOf(n)]
          ELSE tagValues' = tagValues
      BY <1>4, <2>2 DEF MetaVisits, Inserted, KeyOf, ValueOf
    <3>4. PICK values, new, shown : values = tagValues /\ new = tagValues' /\ shown = Range(visited)
      OBVIOUS
    <3>5. FirstValues(new, shown \cup {n})
      BY <1>3, <3>1, <3>2, <3>3, <3>4, ValuesOfOneMore
    <3>6. PICK later : later = shown \cup {n}
      OBVIOUS
    <3>7. FirstValues(new, later)'
      BY <3>5, <3>6, SameWalk
    <3>8. FirstValues(tagValues, Range(visited))'
      BY <1>6, <3>4, <3>6, <3>7
    <3> QED  BY <1>4, <2>2, <3>8 DEF MetaSoFar
  <2> QED  BY <2>1, <2>2
<1> QED  BY <1>11, <1>12, <1>13, <1>14, <1>15, <1>16 DEF WalkInv

-----------------------------------------------------------------------------
(* The minimum of a set that has a least member.                           *)
LEMMA LeastFacts ==
  ASSUME NEW S \in SUBSET Nat, NEW x \in S, \A y \in S : x <= y
  PROVE  Min(S) = x
<1>1. PICK z : z = Min(S)
  OBVIOUS
<1>2. z \in S /\ \A y \in S : z <= y
  BY <1>1 DEF Min
<1>3. z \in Nat /\ x \in Nat /\ z <= x /\ x <= z
  BY <1>2
<1> QED  BY <1>1, <1>3

(* Nothing shown yet.                                                      *)
LEMMA EmptyRange == Range(<<>>) = {}
BY EmptySeq DEF Range

(* The last node shown is one of those shown.                              *)
LEMMA LastOfRange ==
  ASSUME NEW s \in Seq(Nat), s # <<>>
  PROVE  Last(s) \in Range(s) /\ Last(s) \in Nat
<1>1. PICK n : n = Len(s)
  OBVIOUS
<1>2. n \in Nat \ {0} /\ DOMAIN s = 1 .. n /\ Last(s) = s[n]
  BY <1>1, EmptySeq, LenProperties DEF Last
<1>3. n \in DOMAIN s /\ n \in 1 .. Len(s)
  BY <1>1, <1>2
<1>4. s[n] \in Nat
  BY <1>3, ElementOfSeq
<1> QED  BY <1>2, <1>3, <1>4 DEF Range

(* The call of dfs that a walk begins with.                                *)
LEMMA FirstCall ==
  ASSUME WalkInv, doc' = doc, stage \in {"find", "meta"}, visited = <<>>,
         StartOf \in Nodes, Dfs(StartOf, <<>>)
  PROVE  WalkInv'
<1>1. IsTree(doc) /\ keepGoing
  BY DEF WalkInv, WalkTypeOK, IsPage
<1>2. PICK start, P : start = StartOf /\ P = {start}
  OBVIOUS
<1>3. Agenda(start, Rejected, P, {}) /\ start \in Visitable(start, Rejected) /\ start \in Nat
  BY <1>1, <1>2, AgendaBegins, VisitableFacts, Below
<1>4. Agenda(StartOf, Rejected, P, Range(visited))
  BY <1>2, <1>3, EmptyRange
<1>5. start \in P /\ \A d \in P : start <= d
  BY <1>2, <1>3
<1>6. <<>> \in Seq(Seq(Nat)) /\ Ordered(<<>>) /\ Pending(<<>>) = P \ {start}
  BY <1>2, NoFrames
<1>7. Dfs(start, <<>>) /\ start \in Visitable(StartOf, Rejected)
  BY <1>2, <1>3
<1> QED  BY <1>1, <1>4, <1>5, <1>6, <1>7, DfsKeeps

(* The next child of the loop in dfs.                                      *)
LEMMA NextChild ==
  ASSUME WalkInv, NEW c \in Nodes, InLoop(c)
  PROVE  /\ IsTree(doc) /\ stage \in {"find", "meta"} /\ keepGoing /\ visited # <<>>
         /\ StartOf \in Nodes /\ Agenda(StartOf, Rejected, Pending(frames), Range(visited))
         /\ c \in Pending(frames) /\ \A d \in Pending(frames) : c <= d
         /\ c # StartOf /\ (c \notin Rejected => c \in Visitable(StartOf, Rejected))
         /\ Continued \in Seq(Seq(Nat)) /\ Ordered(Continued)
         /\ Pending(Continued) = Pending(frames) \ {c}
         /\ c \notin Rejected <=> Recurses(c)
<1>1. PICK start, rejected, P, V : start = StartOf /\ rejected = Rejected
                                   /\ P = Pending(frames) /\ V = Range(visited)
  OBVIOUS
<1>2. /\ frames # <<>> /\ Last(frames) # <<>> /\ c = Head(Last(frames)) /\ keepGoing
      /\ IsTree(doc) /\ frames \in Seq(Seq(Nat)) /\ Ordered(frames)
      /\ visited \in Seq(Nat) /\ visited # <<>> /\ stage \in {"find", "meta"}
  BY DEF InLoop, WalkInv, WalkTypeOK, IsPage
<1>3. start \in Nodes /\ Agenda(start, rejected, P, V)
  BY <1>1, <1>2 DEF WalkInv, ShownInOrder, AgendaLeft
<1>4. /\ c \in P /\ \A d \in P : c <= d
      /\ Continued \in Seq(Seq(Nat)) /\ Ordered(Continued) /\ Pending(Continued) = P \ {c}
  BY <1>1, <1>2, LoopContinues DEF Continued
<1>5. c # start
  <2>1. PICK v \in V : TRUE
    BY <1>1, <1>2, LastOfRange
  <2>2. v < c /\ v \in Subtree(start)
    BY <1>3, <1>4 DEF Agenda, Visitable
  <2>3. v \in Nodes /\ v >= start
    BY <1>2, <1>3, <2>2, Below
  <2>4. \A d \in Nodes : d \in Nat
    BY <1>2, Below
  <2> QED  BY <1>3, <2>2, <2>3, <2>4
<1>6. c \notin rejected => c \in Visitable(start, rejected)
  <2>1. c \in Subtree(start) /\ doc.parent[c] \in Visitable(start, rejected)
    BY <1>3, <1>4, <1>5 DEF Agenda
  <2> QED  BY <1>2, <1>3, <1>5, <2>1, VisitableFacts
<1>7. c \notin Rejected <=> Recurses(c)
  BY <1>2 DEF Rejected, ClosedNodes, Recurses
<1> QED  BY <1>1, <1>2, <1>3, <1>4, <1>5, <1>6, <1>7

(* The loop calls dfs for its next child.                                  *)
LEMMA DescendKeeps ==
  ASSUME WalkInv, doc' = doc, NEW c \in Nodes, InLoop(c), Recurses(c), Dfs(c, Continued)
  PROVE  WalkInv'
<1>1. PICK P : P = Pending(frames)
  OBVIOUS
<1>2. /\ stage \in {"find", "meta"} /\ keepGoing /\ StartOf \in Nodes
      /\ Agenda(StartOf, Rejected, P, Range(visited))
      /\ c \in P /\ \A d \in P : c <= d
      /\ c \in Visitable(StartOf, Rejected)
      /\ Continued \in Seq(Seq(Nat)) /\ Ordered(Continued) /\ Pending(Continued) = P \ {c}
  BY <1>1, NextChild
<1>3. PICK below : below = Continued
  OBVIOUS
<1>4. below \in Seq(Seq(Nat)) /\ Ordered(below) /\ Pending(below) = P \ {c} /\ Dfs(c, below)
  BY <1>2, <1>3
<1> QED  BY <1>2, <1>4, DfsKeeps

(* A loop that goes on or ends changes nothing but the frames.             *)
LEMMA FramesKeep ==
  ASSUME WalkInv, doc' = doc,
         UNCHANGED <<stage, wanted, closed, keepGoing, found, tagValues, visited>>,
         visited # <<>>, stage # "done",
         frames' \in Seq(Seq(Nat)), Ordered(frames'),
         keepGoing => Agenda(StartOf, Rejected, Pending(frames'), Range(visited))
  PROVE  WalkInv'
<1>1. /\ Nodes' = Nodes /\ ClosedNodes' = ClosedNodes /\ Matches' = Matches
      /\ StartOf' = StartOf /\ Rejected' = Rejected
      /\ \A n, r : Visitable(n, r)' = Visitable(n, r)
  BY SameWalk DEF StartOf, Rejected
<1>2. WalkTypeOK'
  BY <1>1, SameWalk DEF WalkInv, WalkTypeOK
<1>3. ShownInOrder'
  BY <1>1 DEF WalkInv, ShownInOrder
<1>4. AgendaLeft'
  <2>1. PICK start, rejected, P, V : start = StartOf /\ rejected = Rejected
                                     /\ P = Pending(frames') /\ V = Range(visited)
    OBVIOUS
  <2>2. keepGoing => Agenda(start, rejected, P, V)'
    BY <2>1, SameWalk
  <2> QED  BY <1>1, <2>1, <2>2 DEF AgendaLeft
<1>5. FindSoFar' /\ FoundFirst'
  BY <1>1, SameWalk DEF WalkInv, FindSoFar, FoundFirst
<1>6. MetaSoFar'
  BY SameWalk DEF WalkInv, MetaSoFar
<1> QED  BY <1>2, <1>3, <1>4, <1>5, <1>6 DEF WalkInv

(* The filter rejects the next child.                                      *)
LEMMA SkipChildKeeps ==
  ASSUME WalkInv, doc' = doc, SkipChild
  PROVE  WalkInv'
<1>1. PICK c \in Nodes : InLoop(c) /\ ~Recurses(c)
  BY DEF SkipChild
<1>2. PICK P, start : P = Pending(frames) /\ start = StartOf
  OBVIOUS
<1>3. /\ IsTree(doc) /\ stage \in {"find", "meta"} /\ keepGoing /\ visited # <<>>
      /\ start \in Nodes /\ Agenda(start, Rejected, P, Range(visited))
      /\ c \in P /\ c # start /\ c \in Rejected
      /\ Continued \in Seq(Seq(Nat)) /\ Ordered(Continued)
      /\ Pending(Continued) = P \ {c}
  BY <1>1, <1>2, NextChild
<1>4. Agenda(start, Rejected, P \ {c}, Range(visited))
  BY <1>3, AgendaSkips
<1>5. /\ UNCHANGED <<stage, wanted, closed, keepGoing, found, tagValues, visited>>
      /\ frames' = Continued
  BY DEF SkipChild
<1> QED  BY <1>2, <1>3, <1>4, <1>5, FramesKeep

(* A loop ends, or is left after an escape.                                *)
LEMMA LeaveLoopKeeps ==
  ASSUME WalkInv, doc' = doc, LeaveLoop
  PROVE  WalkInv'
<1>1. /\ frames # <<>> /\ frames \in Seq(Seq(Nat)) /\ Ordered(frames) /\ visited # <<>>
      /\ stage # "done"
      /\ frames' = Front(frames) /\ (Last(frames) = <<>> \/ ~keepGoing)
      /\ UNCHANGED <<stage, wanted, closed, keepGoing, found, tagValues, visited>>
  BY DEF LeaveLoop, WalkInv, WalkTypeOK
<1>2. /\ Front(frames) \in Seq(Seq(Nat)) /\ Ordered(Front(frames))
      /\ Pending(frames) = Pending(Front(frames)) \cup Range(Last(frames))
  BY <1>1, InnerLoop
<1>3. keepGoing => Pending(frames') = Pending(frames)
  BY <1>1, <1>2, EmptyRange
<1>4. keepGoing => Agenda(StartOf, Rejected, Pending(frames), Range(visited))
  BY <1>1 DEF WalkInv, AgendaLeft
<1> QED  BY <1>1, <1>2, <1>3, <1>4, FramesKeep

(* dfFindFirst returns: what it has found is the first match.              *)
LEMMA FindReturnsKeeps ==
  ASSUME WalkInv, doc' = doc, FindReturns
  PROVE  WalkInv'
<1>1. /\ stage = "find" /\ visited # <<>> /\ frames = <<>>
      /\ stage' = "meta" /\ keepGoing' = TRUE /\ visited' = <<>>
      /\ UNCHANGED <<wanted, closed, frames, found, tagValues>>
  BY DEF FindReturns
<1>2. /\ IsTree(doc) /\ visited \in Seq(Nat)
      /\ found \in Nodes \cup {Null} /\ keepGoing \in BOOLEAN
  BY DEF WalkInv, WalkTypeOK, IsPage
<1>3. PICK W : W = Visitable(1, ClosedNodes)
  OBVIOUS
<1>4. /\ Range(visited) = {n \in W : n <= Last(visited)}
      /\ keepGoing => Agenda(1, ClosedNodes, {}, Range(visited))
  BY <1>1, <1>3, NoFrames
     DEF WalkInv, ShownInOrder, AgendaLeft, InOrder, StartOf, Rejected
<1>5. found = IF Matches = {} THEN Null ELSE Min(Matches)
  <2>1. CASE keepGoing
    <3>1. Range(visited) = W
      BY <1>3, <1>4, <2>1, AgendaEnds
    <3>2. found = Null /\ \A v \in Range(visited) : Tag(v) # wanted
      BY <1>1, <2>1 DEF WalkInv, FindSoFar
    <3> QED  BY <1>3, <3>1, <3>2 DEF Matches
  <2>2. CASE ~keepGoing
    <3>1. /\ found = Last(visited) /\ Tag(found) = wanted
          /\ \A v \in Range(visited) : v # found => Tag(v) # wanted
      BY <1>1, <2>2 DEF WalkInv, FindSoFar
    <3>2. found \in Range(visited) /\ found \in Nat
      BY <1>1, <1>2, <3>1, LastOfRange
    <3>3. Matches \subseteq Nat
      <4>1. \A n \in Nodes : n \in Nat
        BY <1>2, Below
      <4> QED  BY <4>1 DEF Matches, Visitable, Subtree
    <3>4. found \in Matches
      BY <1>3, <1>4, <3>1, <3>2 DEF Matches
    <3>5. ASSUME NEW y \in Matches PROVE found <= y
      <4>1. y \in W /\ Tag(y) = wanted /\ y \in Nat
        BY <1>3, <3>3 DEF Matches
      <4>2. CASE y <= found
        BY <1>4, <3>1, <4>1, <4>2
      <4>3. CASE ~ (y <= found)
        BY <3>2, <4>1, <4>3
      <4> QED  BY <4>2, <4>3
    <3>6. PICK S : S = Matches
      OBVIOUS
    <3>7. Min(S) = found
      BY <3>3, <3>4, <3>5, <3>6, LeastFacts
    <3> QED  BY <3>4, <3>6, <3>7
  <2> QED  BY <1>2, <2>1, <2>2
<1>6. WalkTypeOK'
  BY <1>1, <1>2, NoFrames, EmptySeq, SameWalk DEF WalkInv, WalkTypeOK
<1>7. ShownInOrder' /\ AgendaLeft'
  BY <1>1 DEF ShownInOrder, AgendaLeft
<1>8. FindSoFar' /\ FoundFirst'
  BY <1>1, <1>5, SameWalk DEF FindSoFar, FoundFirst
<1>9. MetaSoFar'
  <2>1. tagValues' = <<>> /\ DOMAIN <<>> = {} /\ Range(visited') = {}
    BY <1>1, EmptyRange DEF WalkInv, MetaSoFar
  <2>2. FirstValues(<<>>, {})'
    BY <2>1 DEF FirstValues
  <2> QED  BY <1>1, <2>1, <2>2 DEF MetaSoFar
<1> QED  BY <1>6, <1>7, <1>8, <1>9 DEF WalkInv

(* MetaTags::extract returns.                                              *)
LEMMA MetaReturnsKeeps ==
  ASSUME WalkInv, doc' = doc, MetaReturns
  PROVE  WalkInv'
<1>1. /\ stage = "meta" /\ frames = <<>> /\ (visited # <<>> \/ found = Null)
      /\ stage' = "done"
      /\ UNCHANGED <<wanted, closed, frames, keepGoing, found, tagValues, visited>>
  BY DEF MetaReturns
<1>2. /\ StartOf' = StartOf /\ Rejected' = Rejected /\ Nodes' = Nodes /\ Matches' = Matches
      /\ \A n, r : Visitable(n, r)' = Visitable(n, r)
  BY <1>1, SameWalk DEF StartOf, Rejected
<1>3. WalkTypeOK'
  BY <1>1, SameWalk DEF WalkInv, WalkTypeOK
<1>4. ShownInOrder'
  BY <1>1, <1>2 DEF WalkInv, ShownInOrder
<1>5. AgendaLeft'
  <2>1. PICK start, rejected, P, V : start = StartOf /\ rejected = Rejected
                                     /\ P = Pending(frames) /\ V = Range(visited)
    OBVIOUS
  <2>2. visited # <<>> /\ keepGoing => Agenda(start, rejected, P, V)'
    BY <2>1, SameWalk DEF WalkInv, AgendaLeft
  <2> QED  BY <1>1, <1>2, <2>1, <2>2 DEF AgendaLeft
<1>6. FindSoFar' /\ FoundFirst'
  BY <1>1, <1>2 DEF WalkInv, FindSoFar, FoundFirst
<1>7. MetaSoFar'
  BY <1>1, SameWalk DEF WalkInv, MetaSoFar
<1> QED  BY <1>3, <1>4, <1>5, <1>6, <1>7 DEF WalkInv

-----------------------------------------------------------------------------
(* The rest of the extraction leaves the walks alone.                      *)
LEMMA WalkRests ==
  ASSUME WalkInv, UNCHANGED <<doc, walkVars>>
  PROVE  WalkInv'
<1>1. /\ UNCHANGED <<doc, stage, wanted, closed, frames, keepGoing, found, tagValues, visited>>
  BY DEF walkVars
<1>2. /\ StartOf' = StartOf /\ Rejected' = Rejected /\ Nodes' = Nodes /\ Matches' = Matches
      /\ \A n, r : Visitable(n, r)' = Visitable(n, r)
  BY <1>1, SameWalk DEF StartOf, Rejected
<1>3. WalkTypeOK'
  BY <1>1, SameWalk DEF WalkInv, WalkTypeOK
<1>4. ShownInOrder'
  BY <1>1, <1>2 DEF WalkInv, ShownInOrder
<1>5. AgendaLeft'
  <2>1. PICK start, rejected, P, V : start = StartOf /\ rejected = Rejected
                                     /\ P = Pending(frames) /\ V = Range(visited)
    OBVIOUS
  <2>2. visited # <<>> /\ keepGoing => Agenda(start, rejected, P, V)'
    BY <1>1, <2>1, SameWalk DEF WalkInv, AgendaLeft
  <2> QED  BY <1>1, <1>2, <2>1, <2>2 DEF AgendaLeft
<1>6. FindSoFar' /\ FoundFirst'
  BY <1>1, <1>2, SameWalk DEF WalkInv, FindSoFar, FoundFirst
<1>7. MetaSoFar'
  BY <1>1, SameWalk DEF WalkInv, MetaSoFar
<1> QED  BY <1>3, <1>4, <1>5, <1>6, <1>7 DEF WalkInv

(* Both walks begin with nothing shown.                                    *)
LEMMA InitPageInv == Init => PageInv
<1> SUFFICES ASSUME Init, stage # "none" PROVE WalkInv
  BY DEF PageInv, Init, WalkBegins
<1>1. /\ doc \in Pages /\ stage = "find" /\ frames = <<>> /\ keepGoing = TRUE
      /\ found = Null /\ tagValues = <<>> /\ visited = <<>>
  BY DEF Init, WalkBegins
<1>2. IsPage(doc)
  BY <1>1, PagesAssumption
<1>3. <<>> \in Seq(Nat) /\ <<>> \in Seq(Seq(Nat)) /\ Ordered(<<>>) /\ Range(<<>>) = {}
  BY NoFrames, EmptySeq, EmptyRange
<1> QED  BY <1>1, <1>2, <1>3
         DEF WalkInv, WalkTypeOK, ShownInOrder, AgendaLeft, FindSoFar, FoundFirst, MetaSoFar

(* Every step keeps what the walks rely on.                                *)
LEMMA NextPageInv == PageInv /\ [Next]_vars => PageInv'
<1> SUFFICES ASSUME PageInv, [Next]_vars PROVE PageInv'
  OBVIOUS
<1>1. CASE ExtractContent
  <2>1. doc' = doc
    BY <1>1 DEF ExtractContent, Collect, ScoreNode, ScoringEnds, Consider, ChoosingEnds,
                FilterChild, Return
  <2>2. UNCHANGED walkVars
    BY <1>1 DEF ExtractContent
  <2> QED  BY <2>1, <2>2, WalkRests DEF PageInv, walkVars
<1>2. CASE ExtractMeta
  <2>1. doc' = doc
    BY <1>2 DEF ExtractMeta
  <2>2. WalkInv
    <3>1. stage # "none"
      BY <1>2 DEF PageInv, ExtractMeta, StartFind, StartMeta, Descend, SkipChild,
                  LeaveLoop, InLoop, FindReturns, MetaReturns
    <3> QED  BY <3>1 DEF PageInv
  <2>3. ASSUME StartFind PROVE WalkInv'
    <3>1. stage = "find" /\ visited = <<>> /\ Dfs(1, <<>>) /\ StartOf = 1
      BY <2>3 DEF StartFind, StartOf
    <3>2. 1 \in Nodes
      BY <2>2 DEF WalkInv, WalkTypeOK, IsPage, IsTree, Nodes
    <3> QED  BY <2>1, <2>2, <3>1, <3>2, FirstCall
  <2>4. ASSUME StartMeta PROVE WalkInv'
    <3>1. stage = "meta" /\ visited = <<>> /\ found # Null /\ Dfs(found, <<>>) /\ StartOf = found
      BY <2>4 DEF StartMeta, StartOf
    <3>2. found \in Nodes
      BY <2>2, <3>1 DEF WalkInv, WalkTypeOK
    <3> QED  BY <2>1, <2>2, <3>1, <3>2, FirstCall
  <2>5. ASSUME Descend PROVE WalkInv'
    <3>1. PICK c \in Nodes : InLoop(c) /\ Recurses(c) /\ Dfs(c, Continued)
      BY <2>5 DEF Descend
    <3> QED  BY <2>1, <2>2, <3>1, DescendKeeps
  <2>6. ASSUME SkipChild PROVE WalkInv'
    BY <2>1, <2>2, <2>6, SkipChildKeeps
  <2>7. ASSUME LeaveLoop PROVE WalkInv'
    BY <2>1, <2>2, <2>7, LeaveLoopKeeps
  <2>8. ASSUME FindReturns PROVE WalkInv'
    BY <2>1, <2>2, <2>8, FindReturnsKeeps
  <2>9. ASSUME MetaReturns PROVE WalkInv'
    BY <2>1, <2>2, <2>9, MetaReturnsKeeps
  <2>10. WalkInv'
    BY <1>2, <2>3, <2>4, <2>5, <2>6, <2>7, <2>8, <2>9 DEF ExtractMeta
  <2>11. stage' # "none"
    BY <2>10 DEF WalkInv, WalkTypeOK
  <2> QED  BY <2>10, <2>11 DEF PageInv
<1>3. CASE UNCHANGED vars
  <2>1. UNCHANGED <<doc, walkVars>>
    BY <1>3 DEF vars
  <2> QED  BY <2>1, WalkRests DEF PageInv, walkVars
<1> QED  BY <1>1, <1>2, <1>3 DEF Next

(* The walks keep their invariant, for every page and every tag asked for. *)
THEOREM WalkInvariance == Spec => []PageInv
<1>1. Init => PageInv
  BY InitPageInv
<1>2. PageInv /\ [Next]_vars => PageInv'
  BY NextPageInv
<1> QED  BY <1>1, <1>2, PTL DEF Spec

(* The end of both walks.                                                  *)
LEMMA AllShown ==
  ASSUME WalkInv, stage = "done"
  PROVE  /\ found # Null => /\ found \in Nodes /\ Range(visited) = Subtree(found)
                            /\ InOrder(visited, Subtree(found))
         /\ found = Null => Range(visited) = {}
         /\ FirstValues(tagValues, Range(visited))
<1>1. /\ IsTree(doc) /\ frames = <<>> /\ keepGoing /\ found \in Nodes \cup {Null}
      /\ found # Null => visited # <<>>
  BY DEF WalkInv, WalkTypeOK, FoundFirst, IsPage
<1>2. /\ visited # <<>> => /\ found \in Nodes
                           /\ Agenda(found, {}, {}, Range(visited))
                           /\ \A i, j \in DOMAIN visited : i < j => visited[i] < visited[j]
  BY <1>1, NoFrames DEF WalkInv, ShownInOrder, AgendaLeft, StartOf, Rejected, InOrder
<1>3. Null \notin Nodes
  <2>1. \A n \in Nodes : n \in Int
    BY <1>1, Below
  <2> QED  BY <2>1, GooseAssumption
<1>4. ASSUME found # Null
      PROVE  /\ found \in Nodes /\ Range(visited) = Subtree(found)
             /\ InOrder(visited, Subtree(found))
  <2>1. PICK V : V = Range(visited)
    OBVIOUS
  <2>2. V = Visitable(found, {})
    BY <1>1, <1>2, <1>4, <2>1, AgendaEnds
  <2>3. V = Subtree(found)
    BY <1>1, <1>4, <2>2, VisitableFacts
  <2> QED  BY <1>1, <1>2, <1>4, <2>1, <2>3 DEF InOrder
<1>5. found = Null => Range(visited) = {}
  BY <1>2, <1>3, EmptyRange
<1>6. FirstValues(tagValues, Range(visited))
  BY DEF WalkInv, MetaSoFar
<1> QED  BY <1>4, <1>5, <1>6

(* What the visitor of MetaTags::extract takes, attribute by attribute.    *)
LEMMA MetaFacts ==
  ASSUME NEW n
  PROVE  /\ \A key : Gives(n, key) <=> IsMetaValue(n) /\ KeyOf(n) = key
         /\ IsMetaValue(n) => ValueOf(n) = Given(n)
<1>1. KeyAttr(n) = IF HasAttr(n, "property") THEN "property"
                   ELSE IF HasAttr(n, "name") THEN "name" ELSE "itemprop"
  <2>1. PICK names, S : /\ names = <<"property", "name", "itemprop">>
                        /\ S = {i \in 1 .. 3 : HasAttr(n, names[i])} \cup {3}
    OBVIOUS
  <2>2. KeyAttr(n) = names[Min(S)]
    BY <2>1 DEF KeyAttr
  <2>3. S \in SUBSET Nat /\ (1 \in S <=> HasAttr(n, "property"))
        /\ (2 \in S <=> HasAttr(n, "name")) /\ 3 \in S /\ \A x \in S : x = 1 \/ x = 2 \/ x = 3
    BY <2>1
  <2>4. CASE 1 \in S
    <3>1. Min(S) = 1
      BY <2>3, <2>4, LeastFacts
    <3> QED  BY <2>1, <2>2, <2>3, <2>4, <3>1
  <2>5. CASE 1 \notin S /\ 2 \in S
    <3>1. Min(S) = 2
      BY <2>3, <2>5, LeastFacts
    <3> QED  BY <2>1, <2>2, <2>3, <2>5, <3>1
  <2>6. CASE 1 \notin S /\ 2 \notin S
    <3>1. Min(S) = 3
      BY <2>3, <2>6, LeastFacts
    <3> QED  BY <2>1, <2>2, <2>3, <2>6, <3>1
  <2> QED  BY <2>4, <2>5, <2>6
<1>2. CASE HasAttr(n, "property")
  BY <1>1, <1>2 DEF Gives, Given, IsMetaValue, KeyOf, ValueOf, ValueAttr, GetAttr
<1>3. CASE ~HasAttr(n, "property") /\ HasAttr(n, "name")
  BY <1>1, <1>3 DEF Gives, Given, IsMetaValue, KeyOf, ValueOf, ValueAttr, GetAttr
<1>4. CASE ~HasAttr(n, "property") /\ ~HasAttr(n, "name")
  BY <1>1, <1>4 DEF Gives, Given, IsMetaValue, KeyOf, ValueOf, ValueAttr, GetAttr
<1> QED  BY <1>2, <1>3, <1>4

(* A name has the value of the first meta element that gives it one, for   *)
(* whatever pages MetaTags::extract reads, and the getters follow the      *)
(* order of their tags.                                                    *)
THEOREM FirstValuesStay == Spec => []MetaValuesAreTheFirst
<1>1. PageInv => MetaValuesAreTheFirst
  <2> SUFFICES ASSUME WalkInv, stage = "done" PROVE MetaValuesAreTheFirst
    BY DEF PageInv, MetaValuesAreTheFirst
  <2>1. PICK below : below = Range(visited)
    OBVIOUS
  <2>2. /\ FirstValues(tagValues, below)
        /\ below = IF found = Null THEN {} ELSE Subtree(found)
        /\ below \in SUBSET Nat
    <3>1. visited \in Seq(Nat)
      BY DEF WalkInv, WalkTypeOK
    <3> QED  BY <2>1, <3>1, AllShown, RangeOfSeq
  <2>3. \A key : Givers(key) = {n \in below : Gives(n, key)}
    BY <2>2 DEF Givers
  <2>4. ASSUME NEW key
        PROVE  IF Givers(key) = {} THEN key \notin DOMAIN tagValues
               ELSE key \in DOMAIN tagValues /\ tagValues[key] = FirstGiven(key)
    <3>1. CASE key \notin DOMAIN tagValues
      <4>1. Givers(key) = {}
        BY <2>2, <2>3, <3>1, MetaFacts DEF FirstValues
      <4> QED  BY <3>1, <4>1
    <3>2. CASE key \in DOMAIN tagValues
      <4>1. PICK g \in below : /\ IsMetaValue(g) /\ KeyOf(g) = key
                               /\ tagValues[key] = ValueOf(g)
                               /\ \A h \in below : IsMetaValue(h) /\ KeyOf(h) = key => g <= h
        BY <2>2, <3>2 DEF FirstValues
      <4>2. PICK S : S = Givers(key)
        OBVIOUS
      <4>3. S \in SUBSET Nat /\ g \in S /\ \A h \in S : g <= h
        BY <2>2, <2>3, <4>1, <4>2, MetaFacts
      <4>4. Min(S) = g
        BY <4>3, LeastFacts
      <4> QED  BY <3>2, <4>1, <4>2, <4>3, <4>4, MetaFacts DEF FirstGiven
    <3> QED  BY <3>1, <3>2
  <2>5. ASSUME NEW names, DOMAIN names \in SUBSET Nat
        PROVE  LET given == {i \in DOMAIN names : Givers(names[i]) # {}}
               IN  GetFirstOrNothing(names) =
                     IF given = {} THEN Nothing ELSE FirstGiven(names[Min(given)])
    <3>1. PICK has : has = {i \in DOMAIN names : names[i] \in DOMAIN tagValues}
      OBVIOUS
    <3>2. {i \in DOMAIN names : Givers(names[i]) # {}} = has
      BY <2>4, <3>1
    <3>3. GetFirstOrNothing(names) = IF has = {} THEN Nothing ELSE tagValues[names[Min(has)]]
      BY <3>1 DEF GetFirstOrNothing
    <3>4. has # {} => tagValues[names[Min(has)]] = FirstGiven(names[Min(has)])
      <4>1. SUFFICES ASSUME has # {} PROVE Min(has) \in has
        BY <2>4, <3>1
      <4>2. has \in SUBSET Nat
        BY <2>5, <3>1
      <4>3. PICK i \in has : \A j \in has : i <= j
        BY <4>1, <4>2, Lists!NatHasLeast
      <4>4. Min(has) = i
        BY <4>2, <4>3, LeastFacts
      <4> QED  BY <4>3, <4>4
    <3> QED  BY <3>2, <3>3, <3>4
  <2>6. DOMAIN PubdateTags \in SUBSET Nat /\ DOMAIN TitleTags \in SUBSET Nat
    BY DEF PubdateTags, TitleTags
  <2> QED  BY <2>4, <2>5, <2>6 DEF MetaValuesAreTheFirst
<1> QED  BY <1>1, WalkInvariance, PTL

-----------------------------------------------------------------------------
(* What getText writes for a node, in terms of g, which gives the text of  *)
(* its children.                                                           *)
AddedBy(g, m) ==
  [c \in Nodes |-> IF c \in Children(m) THEN g[c] \o SpaceBehind(m, g[c]) ELSE <<>>]

Writes(g, m) ==
  IF IsText(m) THEN (IF HasText(m) THEN <<m>> ELSE <<>>)
  ELSE IF Tag(m) \in {"SCRIPT", "STYLE"} THEN <<>>
  ELSE FoldLeft(\o, <<>>, AddedBy(g, m))

(* The recursion of getText ends: a node depends on later ones only.       *)
LEMMA TextIsDefined ==
  ASSUME IsTree(doc)
  PROVE  \E g : (\A m \in Nodes : g[m] = Writes(g, m)) /\ \A n : TextOf(n) = g[n]
<1>1. PICK len : len = Len(doc.tag)
  OBVIOUS
<1>2. len \in Nat /\ Nodes = 1 .. len
  BY <1>1, NodeFacts
<1> DEFINE Solves(g, k) == /\ g = [m \in Nodes |-> g[m]]
                           /\ \A m \in Nodes : m > len - k => g[m] = Writes(g, m)
           T == {k \in Nat : k <= len => \E g : Solves(g, k)}
<1>3. 0 \in T
  <2>1. PICK g : g = [m \in Nodes |-> <<>>]
    OBVIOUS
  <2>2. \A m \in Nodes : ~ (m > len - 0)
    BY <1>2
  <2> QED  BY <2>1, <2>2
<1>4. ASSUME NEW k \in T PROVE k + 1 \in T
  <2>1. SUFFICES ASSUME k + 1 <= len PROVE \E g : Solves(g, k + 1)
    OBVIOUS
  <2>2. k \in Nat /\ k <= len
    BY <1>2, <2>1
  <2>3. PICK g : Solves(g, k)
    BY <2>2
  <2>4. PICK h : h = [m \in Nodes |-> IF m = len - k THEN Writes(g, m) ELSE g[m]]
    OBVIOUS
  <2>5. ASSUME NEW m \in Nodes, m >= len - k PROVE Writes(h, m) = Writes(g, m)
    <3>1. \A c \in Children(m) : c \in Nodes /\ c > m /\ c # len - k
      <4>1. \A c \in Children(m) : c \in Nodes /\ c > m
        BY ChildFacts
      <4> QED  BY <1>2, <2>2, <2>5, <4>1
    <3>2. \A c \in Children(m) : h[c] = g[c]
      BY <2>4, <3>1
    <3>3. AddedBy(h, m) = AddedBy(g, m)
      BY <3>2 DEF AddedBy
    <3> QED  BY <3>3 DEF Writes
  <2>6. \A m \in Nodes : m > len - (k + 1) => h[m] = Writes(h, m)
    <3>1. SUFFICES ASSUME NEW m \in Nodes, m > len - (k + 1) PROVE h[m] = Writes(g, m)
      <4>1. \A m \in Nodes : m > len - (k + 1) => m >= len - k
        BY <1>2, <2>2
      <4> QED  BY <2>5, <4>1
    <3>2. CASE m = len - k
      BY <2>4, <3>2
    <3>3. CASE m # len - k
      <4>1. m > len - k
        BY <1>2, <2>2, <3>1, <3>3
      <4> QED  BY <2>3, <2>4, <3>3, <4>1
    <3> QED  BY <3>2, <3>3
  <2>7. h = [m \in Nodes |-> h[m]]
    BY <2>4
  <2> QED  BY <2>6, <2>7
<1>5. \E g : g = [m \in Nodes |-> Writes(g, m)]
  <2>1. T \subseteq Nat
    OBVIOUS
  <2>2. T = Nat
    <3> HIDE DEF T
    <3> QED  BY <1>3, <1>4, <2>1, Lists!NatSetInduction
  <2>3. PICK g : Solves(g, len)
    BY <1>2, <2>2
  <2>4. \A m \in Nodes : g[m] = Writes(g, m)
    BY <1>2, <2>3
  <2> QED  BY <2>3, <2>4
<1>6. PICK g : g = CHOOSE h : h = [m \in Nodes |-> Writes(h, m)]
  OBVIOUS
<1>7. g = [m \in Nodes |-> Writes(g, m)]
  BY <1>5, <1>6
<1>8. \A n : TextOf(n) = g[n]
  BY <1>6, Zenon DEF TextOf, Writes, AddedBy
<1> QED  BY <1>7, <1>8

-----------------------------------------------------------------------------
(* s writes the nodes of S in order, with a space between any two.         *)
Separated(s, S) ==
  /\ s \in Seq(Nat) /\ Range(s) \ {Space} = S
  /\ \A i, j \in DOMAIN s :
       i < j /\ s[i] # Space /\ s[j] # Space => s[i] < s[j] /\ j # i + 1

(* The text of one node, or none.                                          *)
LEMMA OneNode ==
  ASSUME NEW n \in Nat
  PROVE  Separated(<<n>>, {n} \ {Space}) /\ Separated(<<>>, {})
<1>1. <<n>> \in Seq(Nat) /\ DOMAIN <<n>> = {1} /\ <<n>>[1] = n
  OBVIOUS
<1>2. Range(<<n>>) = {n}
  BY <1>1 DEF Range
<1>3. \A i, j \in DOMAIN <<n>> : ~ (i < j)
  BY <1>1
<1>4. Separated(<<n>>, {n} \ {Space})
  BY <1>1, <1>2, <1>3 DEF Separated
<1>5. <<>> \in Seq(Nat) /\ DOMAIN <<>> = {} /\ Range(<<>>) = {}
  BY EmptySeq, EmptyRange
<1> QED  BY <1>4, <1>5 DEF Separated

(* Two such texts one after the other, if a space is at the seam.          *)
LEMMA OneAfterTheOther ==
  ASSUME NEW s, NEW t, NEW S, NEW U, Separated(s, S), Separated(t, U),
         \A x \in S, y \in U : x < y,
         s = <<>> \/ s[Len(s)] = Space \/ t = <<>> \/ t[1] = Space
  PROVE  Separated(s \o t, S \cup U)
<1>1. PICK k, l, u : k = Len(s) /\ l = Len(t) /\ u = s \o t
  OBVIOUS
<1>2. s \in Seq(Nat) /\ t \in Seq(Nat)
  BY DEF Separated
<1>3. /\ k \in Nat /\ l \in Nat /\ DOMAIN s = 1 .. k /\ DOMAIN t = 1 .. l
      /\ s # <<>> => k # 0
      /\ t # <<>> => l # 0
  BY <1>1, <1>2, LenProperties, EmptySeq
<1>4. /\ u \in Seq(Nat) /\ DOMAIN u = 1 .. k + l
      /\ \A i \in 1 .. k + l : u[i] = IF i <= k THEN s[i] ELSE t[i - k]
      /\ Range(u) = Range(s) \cup Range(t)
  <2>1. /\ u \in Seq(Nat) /\ Len(u) = k + l
        /\ \A i \in 1 .. k + l : u[i] = IF i <= k THEN s[i] ELSE t[i - k]
    BY <1>1, <1>2, ConcatProperties
  <2>2. Range(u) = Range(s) \cup Range(t)
    BY <1>1, <1>2, RangeConcatenation
  <2> QED  BY <2>1, <2>2, LenProperties
<1>5. Range(u) \ {Space} = S \cup U
  BY <1>4 DEF Separated
<1>6. ASSUME NEW i \in 1 .. k + l, NEW j \in 1 .. k + l, i < j, u[i] # Space, u[j] # Space
      PROVE  u[i] < u[j] /\ j # i + 1
  <2>1. CASE j <= k
    <3>1. i \in DOMAIN s /\ j \in DOMAIN s /\ u[i] = s[i] /\ u[j] = s[j]
      BY <1>3, <1>4, <1>6, <2>1
    <3> QED  BY <1>6, <3>1 DEF Separated
  <2>2. CASE i > k
    <3>1. PICK p, q : p = i - k /\ q = j - k
      OBVIOUS
    <3>2. /\ p \in DOMAIN t /\ q \in DOMAIN t /\ u[i] = t[p] /\ u[j] = t[q]
          /\ p < q /\ (j = i + 1 => q = p + 1)
      BY <1>3, <1>4, <1>6, <2>2, <3>1
    <3> QED  BY <1>6, <3>2 DEF Separated
  <2>3. CASE i <= k /\ j > k
    <3>1. i \in DOMAIN s /\ j - k \in DOMAIN t /\ u[i] = s[i] /\ u[j] = t[j - k]
      BY <1>3, <1>4, <1>6, <2>3
    <3>2. u[i] \in S /\ u[j] \in U
      BY <1>6, <3>1 DEF Separated, Range
    <3>3. ASSUME j = i + 1 PROVE FALSE
      <4>1. i = k /\ j - k = 1
        BY <1>3, <1>6, <2>3, <3>3
      <4>2. s # <<>> /\ t # <<>>
        <5>1. DOMAIN <<>> = {}
          OBVIOUS
        <5> QED  BY <3>1, <5>1
      <4> QED  BY <1>1, <1>6, <3>1, <4>1, <4>2
    <3> QED  BY <3>2, <3>3
  <2> QED  BY <1>3, <1>6, <2>1, <2>2, <2>3
<1>7. Separated(u, S \cup U)
  BY <1>4, <1>5, <1>6 DEF Separated
<1> QED  BY <1>1, <1>7

-----------------------------------------------------------------------------
(* The texts below an element are those below its children.                *)
LEMMA TextsOfChildren ==
  ASSUME IsTree(doc), NEW m \in Nodes, ~IsText(m), m \notin Unwritten
  PROVE  TextsBelow(m) = UNION {TextsBelow(c) : c \in Children(m)}
<1>1. ASSUME NEW n \in TextsBelow(m)
      PROVE  \E c \in Children(m) : n \in TextsBelow(c)
  <2>1. /\ n \in Subtree(m) /\ IsText(n) /\ HasText(n) /\ n # m
        /\ \A k \in Subtree(m) \ {m} : n \in Subtree(k) => k \notin Unwritten
    BY <1>1 DEF TextsBelow, Visitable
  <2>2. PICK c \in Children(m) : n \in Subtree(c)
    BY <2>1, BelowAChild
  <2>3. c \in Nodes /\ c \in Subtree(m) /\ c # m /\ \A k \in Subtree(c) : k \in Subtree(m)
    <3>1. c \in Nodes /\ c > m /\ c \in Subtree(m)
      BY ChildFacts
    <3>2. c # m
      BY <3>1, Below
    <3> QED  BY <3>1, <3>2, Below
  <2>4. c \notin Unwritten
    BY <2>1, <2>2, <2>3
  <2>5. \A k \in Subtree(c) \ {c} : k # m
    <3>1. c > m /\ c \in Nat /\ m \in Nat
      BY <2>3, ChildFacts, Below
    <3>2. \A k \in Subtree(c) : k >= c /\ k \in Nat
      BY <2>3, Below
    <3> QED  BY <3>1, <3>2
  <2>6. \A k \in Subtree(c) \ {c} : n \in Subtree(k) => k \notin Unwritten
    BY <2>1, <2>3, <2>5
  <2>7. n \in TextsBelow(c)
    BY <2>1, <2>2, <2>4, <2>6 DEF TextsBelow, Visitable
  <2> QED  BY <2>7
<1>2. ASSUME NEW c \in Children(m), NEW n \in TextsBelow(c)
      PROVE  n \in TextsBelow(m)
  <2>1. /\ c \notin Unwritten /\ n \in Subtree(c) /\ IsText(n) /\ HasText(n)
        /\ \A k \in Subtree(c) \ {c} : n \in Subtree(k) => k \notin Unwritten
    BY <1>2 DEF TextsBelow, Visitable
  <2>2. c \in Nodes /\ c > m /\ c \in Subtree(m) /\ doc.parent[c] = m /\ n \in Subtree(m)
    BY <2>1, ChildFacts, Below
  <2>3. ASSUME NEW k \in Subtree(m) \ {m}, n \in Subtree(k) PROVE k \notin Unwritten
    <3>1. k \in Nodes /\ k > m /\ k \in Nat /\ c \in Nat /\ m \in Nat
      BY <2>2, <2>3, ParentFacts, Below
    <3>2. CASE k = c
      BY <2>1, <3>2
    <3>3. CASE k > c
      <4>1. k \in Subtree(c)
        <5>1. ~ (n < k)
          <6>1. n \in Nat /\ n >= k
            BY <2>3, <3>1, Below
          <6> QED  BY <3>1, <6>1
        <5> QED  BY <2>1, <2>2, <2>3, <3>1, <3>3, <5>1, ApartOrWithin
      <4> QED  BY <2>1, <2>3, <3>1, <3>3, <4>1
    <3>4. CASE k < c
      <4>1. c \in Subtree(k)
        <5>1. ~ (n < c)
          <6>1. n \in Nat /\ n >= c
            BY <2>1, <2>2, Below
          <6> QED  BY <3>1, <6>1
        <5> QED  BY <2>1, <2>2, <2>3, <3>1, <3>4, <5>1, ApartOrWithin
      <4>2. m \in Subtree(k)
        BY <2>2, <3>1, <3>4, <4>1, ParentFacts
      <4>3. m >= k
        BY <3>1, <4>2, Below
      <4> QED  BY <3>1, <4>3
    <3> QED  BY <3>1, <3>2, <3>3, <3>4
  <2> QED  BY <2>1, <2>2, <2>3 DEF TextsBelow, Visitable
<1> QED  BY <1>1, <1>2

(* Without a second child any two children are the same.                   *)
LEMMA OnlyChild ==
  ASSUME IsTree(doc), NEW m \in Nodes, ~ (Cardinality(Children(m)) > 1),
         NEW c \in Children(m), NEW d \in Children(m)
  PROVE  c = d
<1> SUFFICES ASSUME c # d PROVE FALSE
  OBVIOUS
<1>1. PICK len : len = Len(doc.tag)
  OBVIOUS
<1>2. IsFiniteSet(Children(m))
  <2>1. IsFiniteSet(Nodes)
    BY <1>1, NodeFacts
  <2> QED  BY <2>1, FS_Subset DEF Children
<1>3. Cardinality({c}) = 1 /\ IsFiniteSet({c})
  BY FS_Singleton
<1>4. Cardinality({c} \cup {d}) = 2
  <2>1. PICK S : S = {c}
    OBVIOUS
  <2>2. Cardinality(S \cup {d}) = IF d \in S THEN Cardinality(S) ELSE Cardinality(S) + 1
    BY <1>3, <2>1, FS_AddElement
  <2> QED  BY <1>3, <2>1, <2>2
<1>5. Cardinality({c} \cup {d}) <= Cardinality(Children(m))
  BY <1>2, FS_Subset
<1>6. Cardinality(Children(m)) \in Nat
  BY <1>2, FS_CardinalityType
<1> QED  BY <1>4, <1>5, <1>6

-----------------------------------------------------------------------------
(* The loop of getText over the children of an element.                    *)
LEMMA LoopWrites ==
  ASSUME IsTree(doc), NEW m \in Nodes, ~IsText(m), m \notin Unwritten,
         NEW g, \A c \in Children(m) : Separated(g[c], TextsBelow(c))
  PROVE  Separated(FoldLeft(\o, <<>>, AddedBy(g, m)), TextsBelow(m))
<1>1. PICK len, f : len = Len(doc.tag) /\ f = AddedBy(g, m)
  OBVIOUS
<1>2. len \in Nat /\ Nodes = 1 .. len
  BY <1>1, NodeFacts
<1>3. Children(m) \subseteq 1 .. len
  BY <1>2 DEF Children
<1> DEFINE F(k) == Lists!Folded(<<>>, f, 1 .. k)
           Texts(k) == UNION {TextsBelow(c) : c \in Children(m) \cap (1 .. k)}
           Seam(t, k) == \/ t = <<>> \/ t[Len(t)] = Space
                         \/ /\ ~ (Cardinality(Children(m)) > 1)
                            /\ \E c \in Children(m) : c <= k
           Holds(k) == Separated(F(k), Texts(k)) /\ Seam(F(k), k)
           T == {k \in Nat : k <= len => Holds(k)}
<1>4. 0 \in T
  <2>1. F(0) = <<>>
    <3>1. 1 .. 0 = {}
      OBVIOUS
    <3> QED  BY <3>1, Lists!FoldEmpty
  <2>2. Texts(0) = {}
    OBVIOUS
  <2> HIDE DEF F, Texts
  <2> QED  BY <2>1, <2>2, OneNode
<1>5. ASSUME NEW k \in T PROVE k + 1 \in T
  <2> SUFFICES ASSUME k + 1 <= len PROVE Holds(k + 1)
    OBVIOUS
  <2>1. k \in Nat /\ k <= len /\ k + 1 \in Nodes /\ Holds(k)
    BY <1>2
  <2>2. PICK t, S : t = F(k) /\ S = Texts(k)
    OBVIOUS
  <2>3. F(k + 1) = t \o f[k + 1]
    <3>1. F(k + 1) = Behind(f[k + 1], F(k))
      BY <2>1, LargestFacts, Lists!FoldUpTo
    <3> QED  BY <2>2, <3>1 DEF Behind
  <2>4. Separated(t, S) /\ Seam(t, k) /\ t \in Seq(Nat)
    <3>1. Separated(t, S) /\ Seam(t, k)
      BY <2>1, <2>2
    <3> QED  BY <3>1 DEF Separated
  <2>5. CASE k + 1 \notin Children(m)
    <3>1. f[k + 1] = <<>>
      BY <1>1, <2>1, <2>5 DEF AddedBy
    <3>2. F(k + 1) = t
      BY <2>3, <2>4, <3>1, ConcatEmptySeq
    <3>3. Texts(k + 1) = S
      <4>1. Children(m) \cap (1 .. k + 1) = Children(m) \cap (1 .. k)
        BY <1>3, <2>1, <2>5
      <4> QED  BY <2>2, <4>1
    <3>4. Seam(t, k + 1)
      <4>1. \A c \in Children(m) : c <= k => c <= k + 1
        BY <1>3, <2>1
      <4> QED  BY <2>4, <4>1
    <3> HIDE DEF F, Texts, Seam
    <3> QED  BY <2>4, <3>2, <3>3, <3>4
  <2>6. CASE k + 1 \in Children(m)
    <3>1. PICK c, U, v : c = k + 1 /\ U = TextsBelow(c) /\ v = g[c]
      OBVIOUS
    <3>2. c \in Children(m) /\ c \in Nodes /\ Separated(v, U) /\ v \in Seq(Nat)
      <4>1. c \in Children(m) /\ c \in Nodes /\ Separated(v, U)
        BY <2>1, <2>6, <3>1
      <4> QED  BY <4>1 DEF Separated
    <3>3. f[c] = v \o SpaceBehind(m, v)
      BY <1>1, <3>1, <3>2 DEF AddedBy
    <3>4. Texts(k + 1) = S \cup U
      <4>1. Children(m) \cap (1 .. k + 1) = (Children(m) \cap (1 .. k)) \cup {c}
        BY <1>3, <2>1, <3>1, <3>2
      <4> QED  BY <2>2, <3>1, <4>1
    <3>5. \A x \in S, y \in U : x < y
      <4>1. \A n \in Nodes : \A x \in TextsBelow(n) : x \in Subtree(n)
        BY DEF TextsBelow, Visitable
      <4>2. ASSUME NEW d \in Children(m) \cap (1 .. k), NEW x \in TextsBelow(d), NEW y \in U
            PROVE  x < y
        <5>1. d \in Children(m) /\ d \in Nodes /\ d < c
          BY <1>2, <2>1, <3>1
        <5>2. x \in Subtree(d) /\ y \in Subtree(c)
          BY <3>1, <3>2, <4>1, <4>2, <5>1
        <5> QED  BY <3>2, <5>1, <5>2, ChildrenApart
      <4> QED  BY <2>2, <4>2
    <3>6. CASE Cardinality(Children(m)) > 1
      <4>1. t = <<>> \/ t[Len(t)] = Space
        BY <2>4, <3>6
      <4>2. PICK w : w = t \o v
        OBVIOUS
      <4>3. Separated(w, S \cup U) /\ w \in Seq(Nat)
        <5>1. Separated(w, S \cup U)
          BY <2>4, <3>2, <3>5, <4>1, <4>2, OneAfterTheOther
        <5> QED  BY <5>1 DEF Separated
      <4>4. CASE v = <<>>
        <5>1. F(k + 1) = t /\ w = t
          <6>1. SpaceBehind(m, v) = <<>>
            BY <4>4 DEF SpaceBehind
          <6>2. f[c] = <<>>
            BY <3>2, <3>3, <4>4, <6>1, ConcatEmptySeq
          <6> QED  BY <2>3, <2>4, <3>1, <4>2, <4>4, <6>2, ConcatEmptySeq
        <5> HIDE DEF F, Texts
        <5> QED  BY <3>4, <4>1, <4>3, <5>1
      <4>5. CASE v # <<>>
        <5>1. SpaceBehind(m, v) = <<Space>>
          BY <3>6, <4>5 DEF SpaceBehind
        <5>2. <<Space>> \in Seq(Nat) /\ Separated(<<Space>>, {}) /\ <<Space>>[1] = Space
          <6>1. Space \in Nat /\ {Space} \ {Space} = {}
            BY DEF Space
          <6>2. Separated(<<Space>>, {Space} \ {Space})
            BY <6>1, OneNode
          <6> QED  BY <6>1, <6>2 DEF Separated
        <5>3. F(k + 1) = w \o <<Space>>
          <6>1. f[k + 1] = v \o <<Space>>
            BY <3>1, <3>3, <5>1
          <6>2. t \o (v \o <<Space>>) = (t \o v) \o <<Space>>
            <7>1. t \in Seq(Nat) /\ v \in Seq(Nat) /\ <<Space>> \in Seq(Nat)
              BY <2>4, <3>2, <5>2
            <7> QED  BY <7>1, ConcatAssociative
          <6>3. F(k + 1) = t \o (v \o <<Space>>)
            BY <2>3, <6>1
          <6> QED  BY <4>2, <6>2, <6>3
        <5>4. Separated(w \o <<Space>>, (S \cup U) \cup {})
          BY <4>3, <5>2, OneAfterTheOther
        <5>5. PICK n, z : n = Len(w) /\ z = w \o <<Space>>
          OBVIOUS
        <5>6. Len(z) = n + 1 /\ z[n + 1] = Space /\ (S \cup U) \cup {} = S \cup U
          <6>1. n \in Nat /\ Len(<<Space>>) = 1
            BY <4>3, <5>5, LenProperties
          <6>2. /\ Len(z) = n + 1
                /\ \A i \in 1 .. n + 1 : z[i] = IF i <= n THEN w[i] ELSE <<Space>>[i - n]
            BY <4>3, <5>2, <5>5, <6>1, ConcatProperties
          <6>3. n + 1 \in 1 .. n + 1 /\ ~ (n + 1 <= n) /\ (n + 1) - n = 1
            BY <6>1
          <6> QED  BY <5>2, <6>2, <6>3
        <5>7. F(k + 1) = z /\ Separated(z, S \cup U) /\ z[Len(z)] = Space
          BY <5>3, <5>4, <5>5, <5>6
        <5> HIDE DEF F, Texts
        <5> QED  BY <3>4, <5>7
      <4> QED  BY <4>4, <4>5
    <3>7. CASE ~ (Cardinality(Children(m)) > 1)
      <4>1. \A d \in Children(m) : ~ (d <= k)
        <5>1. \A d \in Children(m) : d = c
          BY <3>2, <3>7, OnlyChild
        <5> QED  BY <2>1, <3>1, <5>1
      <4>2. t = <<>> \/ t[Len(t)] = Space
        BY <2>4, <4>1
      <4>3. F(k + 1) = t \o v
        <5>1. SpaceBehind(m, v) = <<>>
          BY <3>7 DEF SpaceBehind
        <5> QED  BY <2>3, <3>1, <3>2, <3>3, <5>1, ConcatEmptySeq
      <4>4. Separated(t \o v, S \cup U)
        BY <2>4, <3>2, <3>5, <4>2, OneAfterTheOther
      <4>5. c <= k + 1
        BY <2>1, <3>1
      <4> HIDE DEF F, Texts
      <4> QED  BY <3>2, <3>4, <3>7, <4>3, <4>4, <4>5
    <3> QED  BY <3>6, <3>7
  <2> QED  BY <2>5, <2>6
<1>6. Holds(len)
  <2>1. T \subseteq Nat
    OBVIOUS
  <2> HIDE DEF T
  <2>2. T = Nat
    BY <1>4, <1>5, <2>1, Lists!NatSetInduction
  <2> QED  BY <1>2, <2>2 DEF T
<1>7. FoldLeft(\o, <<>>, f) = F(len)
  <2>1. DOMAIN f = 1 .. len
    BY <1>1, <1>2 DEF AddedBy
  <2>2. FoldLeft(\o, <<>>, f) = Lists!Folded(<<>>, f, DOMAIN f)
    BY DEF FoldLeft, Lists!Folded, MapThenFoldSet, Lists!MapThenFoldSet, Behind, Largest
  <2> QED  BY <2>1, <2>2
<1>8. Texts(len) = TextsBelow(m)
  <2>1. Children(m) \cap (1 .. len) = Children(m)
    BY <1>3
  <2> QED  BY <2>1, TextsOfChildren
<1> QED  BY <1>1, <1>6, <1>7, <1>8

(* getText writes the texts below a node, for every tree.                  *)
LEMMA TextsWritten ==
  ASSUME IsPage(doc), NEW n \in Nodes
  PROVE  Separated(TextOf(n), TextsBelow(n))
<1>1. PICK len : len = Len(doc.tag)
  OBVIOUS
<1>2. IsTree(doc) /\ len \in Nat /\ Nodes = 1 .. len
  BY <1>1, NodeFacts DEF IsPage
<1>3. PICK g : (\A m \in Nodes : g[m] = Writes(g, m)) /\ \A m : TextOf(m) = g[m]
  BY <1>2, TextIsDefined
<1>4. ASSUME NEW m \in Nodes, \A c \in Children(m) : Separated(g[c], TextsBelow(c))
      PROVE  Separated(g[m], TextsBelow(m))
  <2>1. CASE IsText(m)
    <3>1. Children(m) = {}
      <4>1. ASSUME NEW c \in Children(m) PROVE FALSE
        <5>1. c \in Nodes /\ c > m /\ doc.parent[c] = m /\ m \in Nat \ {0} /\ c \in Nat
          BY <1>2, <4>1, ChildFacts, Below
        <5>2. c > 1
          BY <5>1
        <5>3. doc.tag[doc.parent[c]] # "TEXT"
          BY <5>1, <5>2 DEF IsPage, Nodes
        <5> QED  BY <2>1, <5>1, <5>3 DEF IsText
      <4> QED  BY <4>1
    <3>2. \A k \in Subtree(m) : k = m
      BY <1>2, <3>1, BelowAChild
    <3>3. m \in Subtree(m) /\ m \in Nat \ {0}
      BY <1>2, Below
    <3>4. m \notin Unwritten
      BY <2>1 DEF Unwritten, Tag, IsElement
    <3>5. TextsBelow(m) = IF HasText(m) THEN {m} ELSE {}
      BY <2>1, <3>2, <3>3, <3>4 DEF TextsBelow, Visitable
    <3>6. g[m] = IF HasText(m) THEN <<m>> ELSE <<>>
      BY <1>3, <2>1 DEF Writes
    <3>7. {m} \ {Space} = {m}
      BY <3>3 DEF Space
    <3> QED  BY <3>3, <3>5, <3>6, <3>7, OneNode
  <2>2. CASE ~IsText(m) /\ m \in Unwritten
    <3>1. g[m] = <<>> /\ TextsBelow(m) = {}
      BY <1>3, <2>2 DEF Writes, Unwritten, TextsBelow
    <3> QED  BY <3>1, OneNode
  <2>3. CASE ~IsText(m) /\ m \notin Unwritten
    <3>1. g[m] = FoldLeft(\o, <<>>, AddedBy(g, m))
      BY <1>3, <2>3 DEF Writes, Unwritten
    <3> QED  BY <1>2, <1>4, <2>3, <3>1, LoopWrites
  <2> QED  BY <2>1, <2>2, <2>3
<1> DEFINE T == {k \in Nat : \A m \in Nodes : m > len - k => Separated(g[m], TextsBelow(m))}
<1>5. 0 \in T
  BY <1>2
<1>6. ASSUME NEW k \in T PROVE k + 1 \in T
  <2>1. ASSUME NEW m \in Nodes, m > len - (k + 1)
        PROVE  Separated(g[m], TextsBelow(m))
    <3>1. ASSUME NEW c \in Children(m) PROVE Separated(g[c], TextsBelow(c))
      <4>1. c \in Nodes /\ c > m
        BY <1>2, <3>1, ChildFacts
      <4>2. c > len - k
        BY <1>2, <2>1, <4>1
      <4> QED  BY <4>1, <4>2
    <3> QED  BY <1>4, <3>1
  <2> QED  BY <2>1
<1>7. T = Nat
  <2>1. T \subseteq Nat
    OBVIOUS
  <2> HIDE DEF T
  <2> QED  BY <1>5, <1>6, <2>1, Lists!NatSetInduction
<1>8. n > len - len
  BY <1>2
<1>9. len \in T
  <2> HIDE DEF T
  <2> QED  BY <1>2, <1>7
<1>10. Separated(g[n], TextsBelow(n))
  BY <1>8, <1>9
<1> QED  BY <1>3, <1>10

(* For every page: dfs shows what it should in the order of the document,  *)
(* whatever the nesting, dfFindFirst finds the first match, and getText    *)
(* writes every text below the node found once, with a space between any   *)
(* two.                                                                    *)
THEOREM DocumentIsFollowed == Spec => []TraversalsFollowTheDocument
<1>1. PageInv => TraversalsFollowTheDocument
  <2> SUFFICES ASSUME PageInv PROVE TraversalsFollowTheDocument
    OBVIOUS
  <2>1. ASSUME WalkInv, visited # <<>>
        PROVE  InOrder(visited, {n \in IF stage = "find" THEN Visitable(1, ClosedNodes)
                                       ELSE Subtree(found) : n <= Last(visited)})
    <3>1. StartOf \in Nodes /\ IsTree(doc)
          /\ InOrder(visited, {n \in Visitable(StartOf, Rejected) : n <= Last(visited)})
      BY <2>1 DEF WalkInv, ShownInOrder, WalkTypeOK, IsPage
    <3>2. Visitable(StartOf, Rejected) = IF stage = "find" THEN Visitable(1, ClosedNodes)
                                         ELSE Subtree(found)
      BY <3>1, VisitableFacts DEF StartOf, Rejected
    <3> QED  BY <3>1, <3>2
  <2>2. CASE stage = "none"
    BY <2>2 DEF PageInv, TraversalsFollowTheDocument
  <2>3. CASE stage # "none"
    <3>1. WalkInv
      BY <2>3 DEF PageInv
    <3>2. stage \in {"meta", "done"} => found = IF Matches = {} THEN Null ELSE Min(Matches)
      BY <3>1 DEF WalkInv, FoundFirst
    <3>3. ASSUME stage = "done", found # Null
          PROVE  /\ InOrder(visited, Subtree(found))
                 /\ Separated(TextOf(found), TextsBelow(found))
      BY <3>1, <3>3, AllShown, TextsWritten DEF WalkInv, WalkTypeOK
    <3> QED  BY <2>1, <3>1, <3>2, <3>3 DEF TraversalsFollowTheDocument, Separated
  <2> QED  BY <2>2, <2>3
<1> QED  BY <1>1, WalkInvariance, PTL
-----------------------------------------------------------------------------
(* The refinement of DocumentScan.  A page stays the page it is.           *)
LEMMA SamePage ==
  ASSUME doc' = doc, UNCHANGED <<wanted, closed>>, stage' = "none" <=> stage = "none"
  PROVE  /\ ScannedPage' = ScannedPage
         /\ \A n, r : Visitable(n, r)' = Visitable(n, r)
         /\ ClosedNodes' = ClosedNodes /\ \A n : Subtree(n)' = Subtree(n)
<1>1. /\ \A n, r : Visitable(n, r)' = Visitable(n, r)
      /\ ClosedNodes' = ClosedNodes /\ Nodes' = Nodes
      /\ \A n : Subtree(n)' = Subtree(n) /\ Tag(n)' = Tag(n)
  BY SameWalk
<1>2. \A n : GivenBy(n)' = GivenBy(n)
  <2>1. /\ \A n : KeyCandidates(n)' = KeyCandidates(n) /\ Given(n)' = Given(n)
        /\ \A n, key : Gives(n, key)' = Gives(n, key)
    BY <1>1 DEF KeyCandidates, Given, Gives, HasAttr, GetAttr
  <2> QED  BY <2>1 DEF GivenBy
<1>3. ScannedPage' = ScannedPage
  BY <1>1, <1>2 DEF ScannedPage
<1> QED  BY <1>1, <1>3

(* A meta element gives a value to one name, other nodes to none.          *)
LEMMA GivenByOne ==
  ASSUME NEW n
  PROVE  /\ IsMetaValue(n) => /\ DOMAIN GivenBy(n) = {KeyOf(n)}
                              /\ GivenBy(n)[KeyOf(n)] = ValueOf(n)
         /\ ~IsMetaValue(n) => DOMAIN GivenBy(n) = {}
<1>1. \A key : Gives(n, key) => key \in KeyCandidates(n)
  BY DEF Gives, KeyCandidates, HasAttr, GetAttr
<1>2. PICK keys : keys = {k \in KeyCandidates(n) : Gives(n, k)}
  OBVIOUS
<1>3. \A key : key \in keys <=> IsMetaValue(n) /\ KeyOf(n) = key
  BY <1>1, <1>2, MetaFacts
<1>4. GivenBy(n) = [key \in keys |-> Given(n)]
  BY <1>2 DEF GivenBy
<1>5. IsMetaValue(n) => keys = {KeyOf(n)} /\ ValueOf(n) = Given(n)
  BY <1>3, MetaFacts
<1>6. ~IsMetaValue(n) => keys = {}
  BY <1>3
<1> QED  BY <1>4, <1>5, <1>6

(* The map of MetaTags is a function, which WalkInv does not say.          *)
IsMap(f) == f = [k \in DOMAIN f |-> f[k]]

(* At first it is empty.                                                   *)
LEMMA MapInit == Init => IsMap(tagValues)
<1>1. IsMap(<<>>)
  BY DEF IsMap
<1> QED  BY <1>1 DEF Init, WalkBegins

(* insert() makes one of one.                                              *)
LEMMA MapNext == IsMap(tagValues) /\ [Next]_vars => IsMap(tagValues)'
<1> SUFFICES ASSUME IsMap(tagValues), [Next]_vars PROVE IsMap(tagValues)'
  OBVIOUS
<1>1. \A key, value : IsMap(Inserted(key, value))
  BY DEF Inserted, IsMap
<1>2. ASSUME NEW n, NEW below, Dfs(n, below) PROVE IsMap(tagValues)'
  <2>1. \/ tagValues' = tagValues
        \/ tagValues' = Inserted(GetAttr(n, KeyAttr(n)), GetAttr(n, ValueAttr(n)))
    BY <1>2 DEF Dfs, FindVisits, MetaVisits
  <2> QED  BY <1>1, <2>1 DEF IsMap
<1>3. ASSUME tagValues' = tagValues PROVE IsMap(tagValues)'
  BY <1>3 DEF IsMap
<1>4. CASE ExtractContent \/ UNCHANGED vars
  BY <1>3, <1>4 DEF ExtractContent, vars, walkVars
<1>5. CASE ExtractMeta
  <2>1. CASE StartFind
    BY <1>2, <2>1 DEF StartFind
  <2>2. CASE StartMeta
    BY <1>2, <2>2 DEF StartMeta
  <2>3. CASE Descend
    BY <1>2, <2>3 DEF Descend
  <2>4. CASE SkipChild \/ LeaveLoop \/ FindReturns \/ MetaReturns
    BY <1>3, <2>4 DEF SkipChild, LeaveLoop, FindReturns, MetaReturns
  <2> QED  BY <1>5, <2>1, <2>2, <2>3, <2>4 DEF ExtractMeta
<1> QED  BY <1>4, <1>5 DEF Next

(* A call of dfs shows the least node that the scan has still to show.     *)
LEMMA CallTakesNext ==
  ASSUME WalkInv, WalkInv', doc' = doc, stage \in {"find", "meta"},
         NEW n \in Nodes, NEW below, Dfs(n, below),
         NEW W, W = Visitable(StartOf, Rejected), StartOf \in Nodes
  PROVE  /\ n \in Unshown(W) /\ \A m \in Unshown(W) : n <= m
         /\ Unshown(W)' = Unshown(W) \ {n}
<1>1. /\ visited' = Append(visited, n) /\ stage' = stage /\ UNCHANGED <<wanted, closed>>
      /\ stage = "meta" => found' = found
  BY DEF Dfs, MetaVisits
<1>2. StartOf' = StartOf /\ W = Visitable(StartOf, Rejected)'
  BY <1>1, SameWalk DEF StartOf, Rejected
<1>3. IsTree(doc) /\ visited \in Seq(Nat) /\ n \in Nat /\ W \in SUBSET Nat
  <2>1. IsTree(doc) /\ visited \in Seq(Nat)
    BY DEF WalkInv, WalkTypeOK, IsPage
  <2>2. \A m \in Nodes : m \in Nat
    BY <2>1, Below
  <2> QED  BY <2>1, <2>2 DEF Visitable, Subtree
<1>4. PICK s, len : s = visited' /\ len = Len(visited)
  OBVIOUS
<1>5. /\ len \in Nat /\ Len(s) = len + 1 /\ s[len + 1] = n /\ s # <<>>
      /\ \A i \in 1 .. len : s[i] = visited[i]
      /\ DOMAIN s = 1 .. len + 1 /\ Last(s) = n
      /\ visited # <<>> => len \in 1 .. len /\ Last(visited) = visited[len]
  BY <1>1, <1>3, <1>4, AppendProperties, EmptySeq DEF Last
<1>6. Range(s) = Range(visited) \cup {n} /\ Range(<<>>) = {}
  BY <1>1, <1>3, <1>4, RangeWithOne, EmptyRange
<1>7. /\ Range(s) = {m \in W : m <= n}
      /\ \A i, j \in DOMAIN s : i < j => s[i] < s[j]
  <2>1. InOrder(visited, {m \in Visitable(StartOf, Rejected) : m <= Last(visited)})'
    BY <1>4, <1>5 DEF WalkInv, ShownInOrder
  <2> QED  BY <1>2, <1>4, <1>5, <2>1 DEF InOrder
<1>8. visited # <<>> => Range(visited) = {m \in W : m <= Last(visited)}
  BY DEF WalkInv, ShownInOrder, InOrder
<1>9. visited # <<>> => Last(visited) < n /\ Last(visited) \in Nat
  <2>1. visited # <<>> => len \in DOMAIN s /\ len + 1 \in DOMAIN s /\ len < len + 1
    BY <1>5
  <2>2. visited # <<>> => s[len] < s[len + 1] /\ s[len] = Last(visited)
    BY <1>5, <1>7, <2>1
  <2> QED  BY <1>3, <1>5, <2>2, LastOfRange
<1>10. Unshown(W)' = {m \in W : m > n}
  BY <1>4, <1>5 DEF Unshown
<1>11. CASE visited = <<>>
  <2>1. Unshown(W) = W /\ {m \in W : m <= n} = {n}
    BY <1>6, <1>7, <1>11 DEF Unshown
  <2> QED  BY <1>3, <1>10, <2>1
<1>12. CASE visited # <<>>
  <2>1. Unshown(W) = {m \in W : m > Last(visited)}
    BY <1>12 DEF Unshown
  <2>2. {m \in W : m <= n} = {m \in W : m <= Last(visited)} \cup {n}
    BY <1>6, <1>7, <1>8, <1>12
  <2> QED  BY <1>3, <1>9, <1>10, <1>12, <2>1, <2>2
<1> QED  BY <1>11, <1>12


(* What is open to the walk of each stage.                                 *)
LEMMA OpenToWalk ==
  ASSUME WalkInv, StartOf \in Nodes, stage \in {"find", "meta"}, NEW W, W = Visitable(StartOf, Rejected)
  PROVE  /\ stage = "find" => W = Visitable(1, ClosedNodes) /\ (keepGoing => Ahead = Unshown(W))
                              /\ (~keepGoing => Ahead = {})
         /\ stage = "meta" => W = Subtree(found) /\ Ahead = Unshown(W) /\ keepGoing
<1>1. CASE stage = "find"
  BY <1>1 DEF StartOf, Rejected, Ahead
<1>2. CASE stage = "meta"
  <2>1. IsTree(doc) /\ keepGoing /\ found \in Nodes /\ W = Visitable(found, {})
    BY <1>2 DEF StartOf, Rejected, WalkInv, WalkTypeOK, FoundFirst, IsPage
  <2>2. found # Null
    <3>1. \A n \in Nodes : n \in Int
      BY <2>1, Below
    <3> QED  BY <2>1, <3>1, GooseAssumption
  <2>3. W = Subtree(found)
    BY <2>1, VisitableFacts
  <2> QED  BY <1>2, <2>1, <2>2, <2>3 DEF Ahead
<1> QED  BY <1>1, <1>2

(* A call of dfs in the search passes a node or finds it; one in the       *)
(* reading of the meta tags reads it.                                      *)
LEMMA CallScans ==
  ASSUME WalkInv, WalkInv', doc' = doc, IsMap(tagValues),
         stage \in {"find", "meta"}, keepGoing, StartOf \in Nodes,
         NEW n \in Nodes, NEW below, Dfs(n, below)
  PROVE  Scan!Next
<1>1. PICK W : W = Visitable(StartOf, Rejected)
  OBVIOUS
<1>2. /\ stage' = stage /\ UNCHANGED <<wanted, closed>>
      /\ stage = "find" => FindVisits(n)
      /\ stage = "meta" => MetaVisits(n)
  BY DEF Dfs
<1>3. /\ n \in Unshown(W) /\ \A m \in Unshown(W) : n <= m
      /\ Unshown(W)' = Unshown(W) \ {n}
  BY <1>1, CallTakesNext
<1>4. /\ ScannedPage' = ScannedPage /\ ClosedNodes' = ClosedNodes
      /\ \A k, r : Visitable(k, r)' = Visitable(k, r)
      /\ \A k : Subtree(k)' = Subtree(k)
  BY <1>2, SamePage
<1>5. /\ stage = "find" => W = Visitable(1, ClosedNodes)
      /\ stage = "meta" => W = Subtree(found)
      /\ Ahead = Unshown(W)
  BY <1>1, OpenToWalk
<1>6. Scan!Comes(n) /\ n \in Ahead
  BY <1>3, <1>5 DEF Scan!Comes
<1>7. /\ ScannedPage.wanted = {m \in Nodes : Tag(m) = wanted}
      /\ ScannedPage.gives[n] = GivenBy(n)
  BY DEF ScannedPage
<1>8. CASE stage = "find" /\ Tag(n) = wanted
  <2>1. found' = n /\ ~keepGoing' /\ tagValues' = tagValues
    BY <1>2, <1>8 DEF FindVisits
  <2>2. Ahead' = {}
    BY <1>2, <1>8, <2>1 DEF Ahead
  <2>3. Scan!Find(n)
    BY <1>2, <1>4, <1>6, <1>7, <1>8, <2>1, <2>2 DEF Scan!Find
  <2> QED  BY <1>6, <2>3 DEF Scan!Next
<1>9. CASE stage = "find" /\ Tag(n) # wanted
  <2>1. UNCHANGED <<found, keepGoing, tagValues>>
    BY <1>2, <1>9 DEF FindVisits
  <2>2. Ahead' = Unshown(W)'
    BY <1>2, <1>4, <1>5, <1>9, <2>1 DEF Ahead
  <2>3. Scan!Pass(n)
    BY <1>2, <1>3, <1>4, <1>5, <1>6, <1>7, <1>9, <2>1, <2>2 DEF Scan!Pass
  <2> QED  BY <1>6, <2>3 DEF Scan!Next
<1>10. CASE stage = "meta"
  <2>1. /\ UNCHANGED <<found, keepGoing>>
        /\ tagValues' = IF IsMetaValue(n) THEN Inserted(KeyOf(n), ValueOf(n)) ELSE tagValues
    BY <1>2, <1>10 DEF MetaVisits, KeyOf, ValueOf
  <2>2. found # Null
    <3>1. found \in Nodes /\ IsTree(doc)
      BY <1>10 DEF StartOf, WalkInv, WalkTypeOK, IsPage
    <3>2. \A k \in Nodes : k \in Int
      BY <3>1, Below
    <3> QED  BY <3>1, <3>2, GooseAssumption
  <2>3. Ahead' = Unshown(W)'
    BY <1>2, <1>4, <1>5, <1>10, <2>1, <2>2 DEF Ahead
  <2>4. tagValues' = [name \in DOMAIN tagValues \cup DOMAIN GivenBy(n) |->
                        IF name \in DOMAIN tagValues THEN tagValues[name]
                                                     ELSE GivenBy(n)[name]]
    <3>1. CASE IsMetaValue(n)
      <4>1. DOMAIN GivenBy(n) = {KeyOf(n)} /\ GivenBy(n)[KeyOf(n)] = ValueOf(n)
        BY <3>1, GivenByOne
      <4> QED  BY <2>1, <3>1, <4>1 DEF Inserted
    <3>2. CASE ~IsMetaValue(n)
      BY <2>1, <3>2, GivenByOne DEF IsMap
    <3> QED  BY <3>1, <3>2
  <2>5. Scan!Read(n)
    BY <1>2, <1>3, <1>4, <1>5, <1>6, <1>7, <1>10, <2>1, <2>3, <2>4 DEF Scan!Read
  <2> QED  BY <1>6, <2>5 DEF Scan!Next
<1> QED  BY <1>8, <1>9, <1>10

(* With no loop left the scan has nothing left to show.                    *)
LEMMA NothingAhead ==
  ASSUME WalkInv, stage \in {"find", "meta"}, frames = <<>>,
         visited # <<>> \/ (stage = "meta" /\ found = Null)
  PROVE  Ahead = {}
<1>1. CASE stage = "meta" /\ found = Null
  BY <1>1 DEF Ahead
<1>2. CASE visited # <<>> /\ ~keepGoing
  <2>1. stage = "find"
    BY <1>2 DEF WalkInv, FoundFirst
  <2> QED  BY <1>2, <2>1 DEF Ahead
<1>3. CASE visited # <<>> /\ keepGoing
  <2>1. PICK start, rejected, W, V : /\ start = StartOf /\ rejected = Rejected
                                     /\ W = Visitable(start, rejected) /\ V = Range(visited)
    OBVIOUS
  <2>2. start \in Nodes /\ V = {n \in W : n <= Last(visited)} /\ Agenda(start, rejected, {}, V)
    BY <1>3, <2>1, NoFrames DEF WalkInv, ShownInOrder, AgendaLeft, InOrder
  <2>3. V = W
    BY <2>1, <2>2, AgendaEnds
  <2>4. Ahead = Unshown(W)
    BY <1>3, <2>1, <2>2, OpenToWalk
  <2>5. W \in SUBSET Nat /\ Last(visited) \in Nat
    BY <1>3, <2>1, <2>3, LastOfRange, RangeOfSeq DEF WalkInv, WalkTypeOK
  <2>6. Unshown(W) = {n \in W : n > Last(visited)}
    BY <1>3 DEF Unshown
  <2>7. \A n \in W : n <= Last(visited) /\ n \in Nat
    BY <2>2, <2>3, <2>5
  <2>8. \A n \in Unshown(W) : FALSE
    <3>1. PICK last : last = Last(visited)
      OBVIOUS
    <3>2. last \in Nat /\ \A n \in W : n \in Nat /\ ~ (n > last)
      BY <2>5, <2>7, <3>1
    <3> QED  BY <2>6, <3>1, <3>2
  <2> QED  BY <2>4, <2>8
<1> QED  BY <1>1, <1>2, <1>3 DEF WalkInv, WalkTypeOK

(* Every step takes the next node, goes on to the next scan, or takes      *)
(* nothing.                                                                *)
LEMMA StepScans == PageInv /\ PageInv' /\ IsMap(tagValues) /\ [Next]_vars => [Scan!Next]_Scan!vars
<1> SUFFICES ASSUME PageInv, PageInv', IsMap(tagValues), [Next]_vars
             PROVE  Scan!Next \/ UNCHANGED Scan!vars
  OBVIOUS
<1>1. doc' = doc
  BY DEF Next, ExtractContent, ExtractMeta, Collect, ScoreNode, ScoringEnds, Consider,
         ChoosingEnds, FilterChild, Return, vars
<1>2. ASSUME UNCHANGED <<stage, wanted, closed, keepGoing, found, tagValues, visited>>
      PROVE  UNCHANGED Scan!vars
  <2>1. /\ ScannedPage' = ScannedPage /\ ClosedNodes' = ClosedNodes
        /\ \A n, r : Visitable(n, r)' = Visitable(n, r)
        /\ \A n : Subtree(n)' = Subtree(n)
    BY <1>1, <1>2, SamePage
  <2>2. Ahead' = Ahead
    BY <1>2, <2>1 DEF Ahead, Unshown
  <2> QED  BY <1>2, <2>1, <2>2 DEF Scan!vars
<1>3. CASE ExtractContent \/ UNCHANGED vars
  BY <1>2, <1>3 DEF ExtractContent, vars, walkVars
<1>4. CASE ExtractMeta
  <2>1. stage # "none" /\ WalkInv /\ stage' # "none" /\ WalkInv'
    <3>1. stage # "none" /\ stage' # "none"
      BY <1>4 DEF PageInv, ExtractMeta, StartFind, StartMeta, Descend, SkipChild, Dfs,
                  LeaveLoop, InLoop, FindReturns, MetaReturns
    <3> QED  BY <3>1 DEF PageInv
  <2>2. ASSUME StartFind PROVE Scan!Next
    <3>1. stage = "find" /\ visited = <<>> /\ Dfs(1, <<>>) /\ StartOf = 1
      BY <2>2 DEF StartFind, StartOf
    <3>2. 1 \in Nodes /\ keepGoing
      BY <2>1, <3>1 DEF WalkInv, WalkTypeOK, IsPage, IsTree, Nodes
    <3> QED  BY <1>1, <2>1, <3>1, <3>2, CallScans
  <2>3. ASSUME StartMeta PROVE Scan!Next
    <3>1. stage = "meta" /\ visited = <<>> /\ found # Null /\ Dfs(found, <<>>) /\ StartOf = found
      BY <2>3 DEF StartMeta, StartOf
    <3>2. found \in Nodes /\ keepGoing
      BY <2>1, <3>1 DEF WalkInv, WalkTypeOK
    <3> QED  BY <1>1, <2>1, <3>1, <3>2, CallScans
  <2>4. ASSUME Descend PROVE Scan!Next
    <3>1. PICK c \in Nodes : InLoop(c) /\ Recurses(c) /\ Dfs(c, Continued)
      BY <2>4 DEF Descend
    <3>2. stage \in {"find", "meta"} /\ keepGoing /\ StartOf \in Nodes
      BY <2>1, <3>1, NextChild
    <3> QED  BY <1>1, <2>1, <3>1, <3>2, CallScans
  <2>5. CASE SkipChild \/ LeaveLoop
    BY <1>2, <2>5 DEF SkipChild, LeaveLoop
  <2>6. ASSUME FindReturns PROVE Scan!StartReading
    <3>1. /\ stage = "find" /\ visited # <<>> /\ frames = <<>>
          /\ stage' = "meta" /\ visited' = <<>>
          /\ UNCHANGED <<wanted, closed, found, tagValues>>
      BY <2>6 DEF FindReturns
    <3>2. Ahead = {}
      BY <2>1, <3>1, NothingAhead
    <3>3. ScannedPage' = ScannedPage /\ \A n : Subtree(n)' = Subtree(n)
      BY <1>1, <3>1, SamePage
    <3>4. Ahead' = IF found = Null THEN {} ELSE Subtree(found)
      BY <3>1, <3>3 DEF Ahead, Unshown
    <3>5. found \in Nodes \cup {Null} /\ ScannedPage.below = [n \in Nodes |-> Subtree(n)]
      BY <2>1 DEF WalkInv, WalkTypeOK, ScannedPage
    <3> QED  BY <3>1, <3>2, <3>3, <3>4, <3>5 DEF Scan!StartReading
  <2>7. ASSUME MetaReturns PROVE Scan!Stop
    <3>1. /\ stage = "meta" /\ frames = <<>> /\ (visited # <<>> \/ found = Null)
          /\ stage' = "done" /\ UNCHANGED <<wanted, closed, found, tagValues>>
      BY <2>7 DEF MetaReturns
    <3>2. Ahead = {} /\ Ahead' = {}
      BY <2>1, <3>1, NothingAhead DEF Ahead
    <3>3. ScannedPage' = ScannedPage
      BY <1>1, <3>1, SamePage
    <3> QED  BY <3>1, <3>2, <3>3 DEF Scan!Stop
  <2> QED  BY <1>4, <2>2, <2>3, <2>4, <2>5, <2>6, <2>7 DEF ExtractMeta, Scan!Next
<1> QED  BY <1>3, <1>4 DEF Next

(* A search begins with all that it may show.                              *)
LEMMA InitScans == Init => Scan!Init
<1> SUFFICES ASSUME Init PROVE Scan!Init
  OBVIOUS
<1>1. /\ stage \in {"none", "find"} /\ keepGoing = TRUE
      /\ found = Null /\ tagValues = <<>> /\ visited = <<>>
  BY DEF Init, WalkBegins
<1>2. stage = "find" => Ahead = ScannedPage.open
  BY <1>1 DEF Ahead, Unshown, ScannedPage
<1>3. stage = "none" => Ahead = {}
  BY <1>1 DEF Ahead
<1> QED  BY <1>1, <1>2, <1>3 DEF Scan!Init

(* For every page, wanted tag and filter: the recursion of dfs, step by    *)
(* step, is a scan in the order of the document, which shows nothing more  *)
(* once the search has its node; and a meta name keeps its first value.    *)
THEOREM WalksAreScans == Spec => ImplementsScan
<1>1. Init => Scan!Init
  BY InitScans
<1>2. PageInv /\ PageInv' /\ IsMap(tagValues) /\ [Next]_vars => [Scan!Next]_Scan!vars
  BY StepScans
<1>3. Spec => []IsMap(tagValues)
  BY MapInit, MapNext, PTL DEF Spec
<1> QED  BY <1>1, <1>2, <1>3, WalkInvariance, PTL DEF Spec, ImplementsScan, Scan!Spec

=============================================================================
