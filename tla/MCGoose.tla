------------------------------ MODULE MCGoose --------------------------------
(***************************************************************************)
(* All trees of up to three nodes below the body, with the leaves that the *)
(* code distinguishes, and all of four with fewer leaves.  A rich text has *)
(* three stopwords; "mute" texts begin with something else than a letter.  *)
(* With the small ManyNodes three collected nodes reach negative scores.   *)
(*                                                                         *)
(* The pages with meta tags are trees below the html element: three nodes  *)
(* with all kinds of meta elements, four with few of them.  A value is the *)
(* number of its node.                                                     *)
(***************************************************************************)
EXTENDS HtmlExtraction

Rich == [tokens |-> 4, stops |-> 3, letterFirst |-> TRUE]
Mute == [Rich EXCEPT !.letterFirst = FALSE]

FewLeaves == {<<"P", Rich>>, <<"PRE", Rich>>, <<"A", Rich>>, <<"TEXT", Mute>>}
Leaves == FewLeaves \cup {<<"P", Null>>, <<"TD", Rich>>, <<"DIV", Rich>>,
                          <<"EM", Rich>>, <<"SCRIPT", Rich>>, <<"TEXT", Rich>>}
FewBranches == {<<"P", Null>>, <<"PRE", Null>>, <<"TD", Null>>, <<"DIV", Null>>}
Branches == FewBranches \cup {<<"A", Null>>}

Parents(n) ==
  {p \in [1 .. n -> 0 .. n - 1] :
     /\ p[1] = 0 /\ p[2] = 1
     /\ \A k \in 3 .. n : p[k] \in 2 .. k - 1 /\ \A j \in p[k] + 1 .. k - 1 : p[j] >= p[k]}

Filled(p, branches, leaves) ==
  LET n == Len(p)
      inner == {k \in 3 .. n : \E j \in 1 .. n : p[j] = k}
      Node(f, g, k) == IF k \in inner THEN f[k] ELSE g[k]
  IN  {[parent |-> p,
        tag |-> <<"HTML", "BODY">> \o [k \in 1 .. n - 2 |-> Node(f, g, k + 2)[1]],
        words |-> <<Null, Null>> \o [k \in 1 .. n - 2 |-> Node(f, g, k + 2)[2]],
        attr |-> [k \in 1 .. n |-> <<>>]] :
          f \in [inner -> branches], g \in [(3 .. n) \ inner -> leaves]}

MCDocuments == UNION ({Filled(p, Branches, Leaves) : p \in UNION {Parents(2 + k) : k \in 1 .. 3}}
                      \cup {Filled(p, FewBranches, FewLeaves) : p \in Parents(6)})

Named(names) == [tag |-> "META", names |-> names]

FewMetas == {Named([property |-> "og:title", name |-> "headline", content |-> "value"]),
             Named([name |-> "headline", content |-> "value"]),
             Named([name |-> "og:title", itemprop |-> "datePublished", datetime |-> "value"])}
Metas == FewMetas \cup
  {Named([itemprop |-> "datePublished", datetime |-> "value"]),
   Named([itemprop |-> "dateModified", datetime |-> "value"]),
   Named([property |-> "article:published_time", content |-> "value"]),
   Named([name |-> "datePublished", content |-> "value"])}

FewInner == {[tag |-> t, names |-> <<>>] : t \in {"HEAD", "SCRIPT", "DIV"}}
Text == [tag |-> "TEXT", names |-> <<>>]
EmptyHead == [tag |-> "HEAD", names |-> <<>>]

PageParents(n) ==
  {p \in [1 .. n -> 0 .. n - 1] :
     /\ p[1] = 0
     /\ \A k \in 2 .. n : p[k] \in 1 .. k - 1 /\ \A j \in p[k] + 1 .. k - 1 : p[j] >= p[k]}

Page(p, nodes) ==
  [parent |-> p,
   tag |-> <<"HTML">> \o [k \in 1 .. Len(p) - 1 |-> nodes[k + 1].tag],
   words |-> [k \in 1 .. Len(p) |->
                IF k > 1 /\ nodes[k].tag = "TEXT" THEN Rich ELSE Null],
   attr |-> [k \in 1 .. Len(p) |->
               IF k = 1 THEN <<>>
               ELSE [a \in DOMAIN nodes[k].names |->
                       IF nodes[k].names[a] = "value" THEN k ELSE nodes[k].names[a]]]]

PagesOver(p, inner, leaves) ==
  LET branches == {k \in 2 .. Len(p) : \E j \in 1 .. Len(p) : p[j] = k}
      Kinds(k) == IF k \in branches THEN inner ELSE leaves
  IN  {Page(p, f) : f \in {g \in [2 .. Len(p) -> inner \cup leaves] :
                             \A k \in 2 .. Len(p) : g[k] \in Kinds(k)}}

MCPages ==
  UNION ({PagesOver(p, FewInner \cup {[tag |-> "CUSTOM", names |-> <<>>]},
                    Metas \cup {Text, EmptyHead}) : p \in UNION {PageParents(k) : k \in 1 .. 4}}
         \cup {PagesOver(p, FewInner, FewMetas \cup {Text}) : p \in PageParents(5)})
=============================================================================
