----------------------------- MODULE BasicClean -------------------------------
(***************************************************************************)
(* cleaning/basic.cpp: basicClean, which the Python interface offers as    *)
(* basic_utf8_clean and applies to what goose extracts.  One pass over the *)
(* code points replaces punctuation and drops white space; what is dropped *)
(* is decided from the two code points before.                             *)
(***************************************************************************)
EXTENDS Integers, Sequences, SequencesExt

CONSTANT RawTexts    \* the texts cleaned, sequences of code points

ASSUME CleanAssumption == RawTexts \subseteq Seq(Nat \ {0})

VARIABLES raw,
          read,        \* code points read so far
          prevPoints,  \* the two before, after replacement; 0 at first
          result,
          origin,      \* history: for each point of the result the position
                       \* in raw that it was written at
          cleaning

cleanVars == <<raw, read, prevPoints, result, origin, cleaning>>

SPACE == 32
CARRIAGE_RETURN == 13
NEW_LINE == 10

singleUnicodeReplacements ==
  [c \in {8220, 8221} |-> 34] @@ [c \in {8216, 8217} |-> 39]
  @@ [c \in {8291, 8229, 160} |-> SPACE]
  @@ [c \in {8226, 9679, 8210, 8211, 8212, 8213, 8275, 11834, 11835} |-> 45]

(* The map is looked at for a part of the code points only. *)
Replaced(cp) ==
  IF (cp = 160 \/ cp \in 8001 .. 11999) /\ cp \in DOMAIN singleUnicodeReplacements
  THEN singleUnicodeReplacements[cp] ELSE cp

CleanBegins(t, running) ==
  /\ raw = t /\ read = 0
  /\ prevPoints = <<0, 0>>
  /\ result = <<>> /\ origin = <<>>
  /\ cleaning = running

(* Variant: whatever is repeated is superfluous. *)
DropsRepeated(prev, cp) == cp = prev[2] \/ (cp = NEW_LINE /\ prev[1] = NEW_LINE)

(* Variant: a line feed behind two others of any kind of white space. *)
DropsAfterWhite(prev, cp) ==
  \/ cp = SPACE /\ prev[2] = SPACE
  \/ cp = NEW_LINE /\ prev[1] \in {NEW_LINE, SPACE}

(* A space is dropped behind a space, a line feed if the code point before *)
(* the previous one is a line feed.                                        *)
Drops(prev, cp) == \/ cp = SPACE /\ prev[2] = SPACE
                   \/ cp = NEW_LINE /\ prev[1] = NEW_LINE

(* One round of the loop: a carriage return that no line feed follows gets *)
(* one, which the memory then holds; then the code point itself.           *)
CleanPoint ==
  LET cp == Replaced(raw[read + 1])
      broken == prevPoints[2] = CARRIAGE_RETURN /\ cp # NEW_LINE
      prev == IF broken THEN <<CARRIAGE_RETURN, NEW_LINE>> ELSE prevPoints
      written == (IF broken THEN <<NEW_LINE>> ELSE <<>>)
                 \o (IF Drops(prev, cp) THEN <<>> ELSE <<cp>>)
  IN  /\ cleaning /\ read < Len(raw)
      /\ result' = result \o written
      /\ origin' = origin \o [i \in DOMAIN written |->
                                IF broken /\ i = 1 THEN read ELSE read + 1]
      /\ prevPoints' = <<prev[2], cp>>
      /\ read' = read + 1
      /\ UNCHANGED <<raw, cleaning>>

ReturnCleaned == /\ cleaning /\ read = Len(raw)
                 /\ cleaning' = FALSE
                 /\ UNCHANGED <<raw, read, prevPoints, result, origin>>

-----------------------------------------------------------------------------
White == {SPACE, NEW_LINE}

AppendVisible(seen, cp) == IF cp \in White THEN seen ELSE Append(seen, cp)

Visible(s) == FoldLeft(AppendVisible, <<>>, s)

Input == [i \in 1 .. read |-> Replaced(raw[i])]

(* Position i of the input is a line feed that is taken for a superfluous  *)
(* one: there is another two positions before it, or right after a         *)
(* carriage return that has just been completed.                           *)
TakenForExtra(i) ==
  /\ Input[i] = NEW_LINE
  /\ \/ i > 2 /\ Input[i - 2] = NEW_LINE
     \/ i > 2 /\ Input[i - 2] = CARRIAGE_RETURN /\ Input[i - 1] # NEW_LINE

(* Cleaning touches white space only: the rest of the text is the input in *)
(* its order, punctuation replaced, nothing lost and nothing doubled.      *)
OnlyWhiteSpaceIsTouched == Visible(result) = Visible(Input)

(* Two characters that white space separates stay separated, with one      *)
(* exception: a one-character line.  Its line feed has another one two     *)
(* positions before it, so that it is dropped and the character is glued   *)
(* to the next line.  Two adjacent spaces have a dropped line feed between *)
(* them, never just other spaces.                                          *)
JoinedOnlyIf ==
  \A k \in 1 .. Len(result) - 1 :
    LET i == origin[k]  j == origin[k + 1]
    IN  /\ result[k] \notin White /\ result[k + 1] \notin White /\ j > i + 1 =>
             j = i + 2 /\ TakenForExtra(i + 1)
        /\ result[k] = SPACE /\ result[k + 1] = SPACE =>
             \E l \in i + 1 .. j - 1 : TakenForExtra(l)

(* "strip extra whitespace": no two spaces are left next to each other.    *)
NoExtraSpaces ==
  \A k \in 1 .. Len(result) - 1 : ~ (result[k] = SPACE /\ result[k + 1] = SPACE)

=============================================================================
