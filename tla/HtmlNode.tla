------------------------------ MODULE HtmlNode --------------------------------
(***************************************************************************)
(* html/Node.cpp and html/Tag.cpp over the tree that Gumbo has parsed.     *)
(* The nodes are numbered in document order; node 1 is the html element    *)
(* and 0 what is above it, the GumboDocument.                              *)
(***************************************************************************)
EXTENDS Integers, Sequences, SequencesExt, FiniteSetsExt

CONSTANT Null

VARIABLE doc    \* parent, tag and words, sequences over the nodes; a tag is
                \* Gumbo's, or "TEXT" for a text node; words is Null for a
                \* node without text of its own; attr gives the attributes
                \* of a node, where they matter

(* The tags that gumboToTagMap of Tag.cpp translates, each to the member   *)
(* of the same name.                                                       *)
KnownTags ==
  {"HTML", "HEAD", "TITLE", "BASE", "LINK", "META", "STYLE", "SCRIPT",
   "NOSCRIPT", "TEMPLATE", "BODY", "ARTICLE", "SECTION", "NAV", "ASIDE",
   "H1", "H2", "H3", "H4", "H5", "H6", "HGROUP", "HEADER", "FOOTER",
   "ADDRESS", "P", "HR", "PRE", "BLOCKQUOTE", "OL", "UL", "LI", "DL", "DT",
   "DD", "FIGURE", "FIGCAPTION", "MAIN", "DIV", "A", "EM", "STRONG",
   "SMALL", "S", "CITE", "Q", "DFN", "ABBR", "DATA", "TIME", "CODE", "VAR",
   "SAMP", "KBD", "SUB", "SUP", "I", "B", "U", "MARK", "RUBY", "RT", "RP",
   "BDI", "BDO", "SPAN", "BR", "WBR", "INS", "DEL", "IMAGE", "IMG",
   "IFRAME", "EMBED", "OBJECT", "PARAM", "VIDEO", "AUDIO", "SOURCE",
   "TRACK", "CANVAS", "MAP", "AREA", "MATH", "MI", "MO", "MN", "MS",
   "MTEXT", "MGLYPH", "MALIGNMARK", "ANNOTATION_XML", "SVG",
   "FOREIGNOBJECT", "DESC", "TABLE", "CAPTION", "COLGROUP", "COL", "TBODY",
   "THEAD", "TFOOT", "TR", "TD", "TH", "FORM", "FIELDSET", "LEGEND",
   "LABEL", "INPUT", "BUTTON", "SELECT", "DATALIST", "OPTGROUP", "OPTION",
   "TEXTAREA", "KEYGEN", "OUTPUT", "PROGRESS", "METER", "DETAILS",
   "SUMMARY", "MENU", "MENUITEM", "APPLET", "ACRONYM", "BGSOUND", "DIR",
   "FRAME", "FRAMESET", "NOFRAMES", "ISINDEX", "LISTING", "XMP", "NEXTID",
   "NOEMBED", "PLAINTEXT", "RB", "STRIKE", "BASEFONT", "BIG", "BLINK",
   "CENTER", "FONT", "MARQUEE", "MULTICOL", "NOBR", "SPACER", "TT", "RTC"}

TagOfGumboTag(g) == IF g \in KnownTags THEN g ELSE "UNKNOWN"

-----------------------------------------------------------------------------
Nodes == DOMAIN doc.tag

(* Every node hangs below one that comes before it, and what is below a    *)
(* node is in one piece.                                                   *)
IsTree(d) ==
  /\ d.tag \in Seq(STRING) /\ DOMAIN d.parent = DOMAIN d.tag
  /\ 1 \in DOMAIN d.tag /\ d.parent[1] = 0
  /\ \A n \in DOMAIN d.tag :
       n > 1 => /\ d.parent[n] \in 1 .. n - 1
                /\ \A k \in d.parent[n] + 1 .. n - 1 : d.parent[k] >= d.parent[n]

IsText(n) == doc.tag[n] = "TEXT"
IsElement(n) == ~IsText(n)

Tag(n) == IF IsElement(n) THEN TagOfGumboTag(doc.tag[n]) ELSE "UNKNOWN"

Children(n) == {c \in Nodes : doc.parent[c] = n}

(* The siblings that walkSiblings shows its visitor, the node included: it *)
(* does not start for an only child.                                       *)
SiblingsWalked(n) ==
  LET siblings == Children(doc.parent[n])
  IN  IF Cardinality(siblings) = 1 THEN {} ELSE siblings

(* n and what is below it: the nodes up to the first one behind n that     *)
(* hangs above it.                                                         *)
Subtree(n) == {m \in Nodes : m >= n /\ \A k \in n + 1 .. m : doc.parent[k] >= n}

(* Any traversal meets the nodes in document order. *)
InDocumentOrder(ns) ==
  FoldLeft(\o, <<>>, [n \in Nodes |-> IF n \in ns THEN <<n>> ELSE <<>>])

HasAttr(n, a) == a \in DOMAIN doc.attr[n]
GetAttr(n, a) == doc.attr[n][a]

HasText(n) == doc.words[n] # Null

=============================================================================
