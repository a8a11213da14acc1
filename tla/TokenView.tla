----------------------------- MODULE TokenView -------------------------------
(***************************************************************************)
(* string_views/TokenView.cpp over Utf8IndexView: a token is a run of      *)
(* letters of a UTF-8 text.  A text is a sequence of code points, each of  *)
(* one or more bytes; an iterator is the number of code points before it,  *)
(* so that Len(text) is the end iterator.                                  *)
(***************************************************************************)
EXTENDS Integers, Sequences, Functions, FiniteSetsExt

CONSTANTS Char,      \* the code points of the texts
          Letter,    \* those for which unicode::isLetterPoint holds
          Width,     \* their widths in bytes, [Char -> 1 .. 4]
          Sentinel   \* initial prevIdx of operator++, 999 in the code

ASSUME TokenAssumption == /\ Letter \subseteq Char
                          /\ Width \in [Char -> 1 .. 4]
                          /\ Sentinel \in Nat

VARIABLE text    \* what the view shows: the argument of the call in progress

(* distanceFromStart_ of an iterator: what an index pair is made of. *)
Offset(k) == FoldFunctionOnSet(+, 0, [i \in DOMAIN text |-> Width[text[i]]], 1 .. k)

(* Move an iterator forward to the first character of a class, or the end. *)
SkipTo(k, class) ==
  Min({j \in k .. Len(text) : j = Len(text) \/ text[j + 1] \in class})

EndToken == [start |-> Len(text), end |-> Len(text)]

Good(token) == token.start < Len(text) /\ token.start # token.end

(* begin() does not look for a letter: a text that begins with anything    *)
(* else has the empty token at 0 as its first.                             *)
FirstToken == [start |-> 0, end |-> SkipTo(0, Char \ Letter)]

(* Variant: the search starts at the token itself. *)
StuckNextToken(token) ==
  LET start == SkipTo(token.start, Letter)
  IN  [start |-> start, end |-> SkipTo(start, Char \ Letter)]

(* Variant: every token from the offset Sentinel on is cut. *)
CutNextToken(token) ==
  LET start == SkipTo(token.end, Letter)
  IN  [start |-> start,
       end   |-> IF Offset(start) >= Sentinel
                 THEN start
                 ELSE SkipTo(start, Char \ Letter)]

(* operator++: the loop that looks for the end of the token gives up when  *)
(* the byte offset equals prevIdx, which starts as Sentinel.               *)
NextToken(token) ==
  LET start == SkipTo(token.end, Letter)
  IN  [start |-> start,
       end   |-> IF start < Len(text) /\ Offset(start) = Sentinel
                 THEN start
                 ELSE SkipTo(start, Char \ Letter)]

-----------------------------------------------------------------------------
(* What a token is meant to be: a maximal run of letters. *)
RunsOf(t) ==
  {r \in [start : 0 .. Len(t), end : 0 .. Len(t)] :
     /\ r.start < r.end
     /\ \A k \in r.start + 1 .. r.end : t[k] \in Letter
     /\ r.start = 0 \/ t[r.start] \notin Letter
     /\ r.end = Len(t) \/ t[r.end + 1] \notin Letter}

Runs == RunsOf(text)

=============================================================================
