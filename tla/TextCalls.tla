----------------------------- MODULE TextCalls -------------------------------
(***************************************************************************)
(* The text functions of python_interface.cpp on top of each other: a text *)
(* may be cleaned, as extract does with what goose returns; its words are  *)
(* counted; and its simhash is taken.  The words are made of the code      *)
(* points that UnicodeBlock says are letters, whose lookup is a call of    *)
(* its own here: for every code point at once.                             *)
(***************************************************************************)
EXTENDS UnicodeBlock, BasicClean, TokenCount, SimHash

CONSTANT PlainTexts    \* the texts counted and hashed without cleaning

ASSUME TextCallsAssumption ==
  /\ Letter = {c \in Char : IsLetterPoint(c)}
  /\ PlainTexts \subseteq Seq(Char)
  /\ NEW_LINE \in Char
  /\ \A t \in RawTexts : \A i \in DOMAIN t : Replaced(t[i]) \in Char

VARIABLE call          \* the call in progress

vars == <<call, lookupVars, cleanVars, text, countVars, hashVars>>

Init == /\ text = <<>> /\ NoCount /\ NoHash
        /\ \/ call = "lookup" /\ LookupBegins /\ CleanBegins(<<>>, FALSE)
           \/ call = "none" /\ NoLookup /\ CleanBegins(<<>>, FALSE)
           \/ call = "clean" /\ NoLookup /\ \E t \in RawTexts : CleanBegins(t, TRUE)

Looking == UNCHANGED <<call, cleanVars, text, countVars, hashVars>>
Cleaning == UNCHANGED <<call, lookupVars, text, countVars, hashVars>>
Counting == UNCHANGED <<call, lookupVars, cleanVars, hashVars>>
Hashing == UNCHANGED <<call, lookupVars, cleanVars, countVars>>

(* getTokenCount of a text as it is, or as basicClean has left it. *)
CountPlain == /\ call = "none" /\ call' = "count"
              /\ \E t \in PlainTexts : CountTokens(t)
              /\ UNCHANGED <<lookupVars, cleanVars, hashVars>>

CountCleaned == /\ call = "clean" /\ ~cleaning /\ call' = "count"
                /\ CountTokens(result)
                /\ UNCHANGED <<lookupVars, cleanVars, hashVars>>

(* simhash *)
Simhash == /\ call = "count" /\ ~counting /\ call' = "hash"
           /\ HashText(text)
           /\ UNCHANGED <<lookupVars, cleanVars, countVars>>

Next == \/ GoBelow /\ Looking
        \/ GoFrom /\ Looking
        \/ CleanPoint /\ Cleaning
        \/ ReturnCleaned /\ Cleaning
        \/ CountPlain
        \/ CountCleaned
        \/ Visit /\ Counting
        \/ BreakAtEmpty /\ Counting
        \/ ReachEnd /\ Counting
        \/ Simhash
        \/ Walk /\ Hashing
        \/ Finish /\ Hashing

Spec == Init /\ [][Next]_vars /\ WF_vars(Next)

-----------------------------------------------------------------------------
(* Counting and hashing agree on what the words of a text are, and they    *)
(* miss a word in two cases only: the text does not begin with a letter,   *)
(* and then they see none; or a word begins at the byte offset Sentinel,   *)
(* and then they see none from there on.                                   *)
WordsMissedOnlyIf ==
  LET Walked == {shingles[i][1] : i \in DOMAIN shingles}
      Seen == Range(visited)
  IN  /\ call = "hash" /\ ~hashing => Walked = Seen
      /\ call \in {"count", "hash"} /\ ~counting /\ Seen # Runs =>
           \/ Seen = {} /\ text[1] \notin Letter
           \/ \E r \in Runs : /\ Offset(r.start) = Sentinel
                             /\ Seen = {q \in Runs : q.end <= r.start}

(* Every call returns: the lookup at a block, the others with an answer.   *)
CallsEnd == <>(\/ call = "lookup" /\ IsLeaf(node)
               \/ call = "hash" /\ ~hashing)

=============================================================================
