-------------------------- MODULE TextCalls_proofs ---------------------------
(***************************************************************************)
(* Proofs about the text functions: cleaning, counting the words of a text *)
(* and taking its simhash, in any sequence that TextCalls allows, for all  *)
(* texts, letters, widths and hash functions.                              *)
(*                                                                         *)
(* The invariant has a part per component.  Cleaning: what the two code    *)
(* points of memory are in terms of the input, and for every code point    *)
(* written where it came from and that all between two neighbours was      *)
(* dropped for a reason.  Counting: the tokens visited are a chain of      *)
(* NextToken, with no letter between one and the next.  Hashing: the walk  *)
(* of the shingles retraces that chain, and the accumulators are the       *)
(* majority of the contents counted, which are distinct.  Looking up a     *)
(* block: where a lookup stands is a subtree placed at the code points     *)
(* that agree with it so far.                                              *)
(***************************************************************************)
EXTENDS TextCalls, FiniteSetTheorems, SequenceTheorems, TLAPS

Plus(a, b) == a + b
AnyOf(s) == CHOOSE x \in s : TRUE
Largest(s) == Max(s)
Shown(cp, before) == AppendVisible(before, cp)

Sums == INSTANCE FoldTheorems WITH Op <- Plus, Choose <- AnyOf
Passes == INSTANCE FoldTheorems WITH Op <- Shown, Choose <- Largest

-----------------------------------------------------------------------------
(* Cleaning.                                                               *)
CleanTypeOK ==
  /\ raw \in Seq(Nat) /\ \A i \in DOMAIN raw : Replaced(raw[i]) \in Char
  /\ read \in 0 .. Len(raw)
  /\ result \in Seq(Char) /\ origin \in Seq(Nat) /\ Len(origin) = Len(result)
  /\ cleaning \in BOOLEAN

(* A line feed that completes a carriage return is what is remembered.     *)
MemoryIsOfInput ==
  prevPoints = <<IF read < 2 THEN 0
                 ELSE IF Input[read - 1] = CARRIAGE_RETURN /\ Input[read] # NEW_LINE
                      THEN NEW_LINE ELSE Input[read - 1],
                 IF read = 0 THEN 0 ELSE Input[read]>>

Dropped(i) == \/ i > 1 /\ Input[i] = SPACE /\ Input[i - 1] = SPACE
              \/ TakenForExtra(i)

Kept(k) == /\ result[k] = Input[origin[k]]
           /\ origin[k] > 1 /\ Input[origin[k] - 1] = SPACE => result[k] # SPACE

Completes(k) == /\ k > 1 /\ origin[k] = origin[k - 1] /\ origin[k] < read
                /\ result[k - 1] = CARRIAGE_RETURN /\ result[k] = NEW_LINE

OriginsExplain ==
  /\ \A k \in DOMAIN result : origin[k] \in 1 .. read /\ (Kept(k) \/ Completes(k))
  /\ \A k \in 1 .. Len(result) - 1 :
       /\ origin[k] < origin[k + 1] \/ result[k] = CARRIAGE_RETURN
       /\ \A l \in origin[k] + 1 .. origin[k + 1] - 1 : Dropped(l)
  /\ result = <<>> => read = 0
  /\ result # <<>> => \A l \in origin[Len(result)] + 1 .. read : Dropped(l)

CleanInv == /\ CleanTypeOK /\ MemoryIsOfInput /\ OriginsExplain
            /\ OnlyWhiteSpaceIsTouched

-----------------------------------------------------------------------------
(* Counting.                                                               *)
Runner == [start : Nat, end : Nat]

FollowsOf(tok, tokens) == IF tokens = <<>> THEN tok = FirstToken
                          ELSE tok = NextToken(tokens[Len(tokens)])

CountInv ==
  /\ text \in Seq(Char)
  /\ visited \in Seq(Runs) /\ VisitedAreTheFirstRuns
  /\ \A i \in DOMAIN visited : i <= visited[i].end
  /\ \A i \in 1 .. Len(visited) - 1 : visited[i + 1] = NextToken(visited[i])
  /\ visited # <<>> => visited[1] = FirstToken
  /\ FollowsOf(token, visited)
  /\ counting \in BOOLEAN /\ (counting => call = "count")
  /\ ~counting => ~Good(token)

-----------------------------------------------------------------------------
(* Hashing.                                                                *)
Content(s) == <<Word(s[1]), Word(s[2])>>

Walks ==
  LET k == Len(shingles)
  IN  /\ shingles \in Seq(Runner \X Runner) /\ k <= Len(visited)
      /\ \A i \in 1 .. k : shingles[i] = <<visited[i], NextToken(visited[i])>>
      /\ call = "hash" =>
           /\ ~counting
           /\ IF k < Len(visited)
              THEN first = visited[k + 1] /\ second = NextToken(first)
              ELSE ~ShingleGood
           /\ prevPart1 = IF k = 0 THEN NoPart ELSE Offset(visited[k].start)
           /\ ~hashing => k = Len(visited)

Votes ==
  /\ counted \in Seq(Seq(Char) \X Seq(Char)) /\ IsInjective(counted)
  /\ IsFiniteSet(Range(counted))
  /\ bloom = UNION {BloomIndexes(s) : s \in Range(counted)}
  /\ hashAccumulator \in [Bit -> Int]
  /\ \A b \in Bit : hashAccumulator[b] =
       2 * Cardinality({s \in Range(counted) : b \in HashBits(s)}) - Len(counted)
  /\ \A i \in DOMAIN shingles : \/ Content(shingles[i]) \in Range(counted)
                                \/ BloomIndexes(Content(shingles[i])) \subseteq bloom

HashInv == /\ hashing \in BOOLEAN /\ (hashing => call = "hash")
           /\ Walks /\ Votes
           /\ call # "hash" => shingles = <<>> /\ counted = <<>>

IInv == CleanInv /\ CountInv /\ HashInv

-----------------------------------------------------------------------------
(* Proofs about cleaning.                                                  *)
LEMMA AppendFacts ==
  ASSUME NEW S, NEW s \in Seq(S), NEW x \in S
  PROVE  /\ Append(s, x) \in Seq(S) /\ Len(Append(s, x)) = Len(s) + 1 /\ Len(s) \in Nat
         /\ \A i \in 1 .. Len(s) : Append(s, x)[i] = s[i]
         /\ Append(s, x)[Len(s) + 1] = x
         /\ DOMAIN s = 1 .. Len(s) /\ DOMAIN Append(s, x) = 1 .. Len(s) + 1
BY AppendProperties, LenProperties

LEMMA LargestFacts ==
  ASSUME NEW n \in Nat
  PROVE  /\ Passes!IsFiniteSet(1 .. n) /\ Passes!ChoosesFrom(1 .. n)
         /\ Passes!PicksGreatest(n)
<1>1. ASSUME NEW s \in SUBSET (1 .. n), s # {}
      PROVE  Largest(s) \in s /\ \A y \in s : y <= Largest(s)
  <2>1. PICK x \in s : \A y \in s : y <= x
    BY <1>1, Passes!BoundedHasGreatest
  <2> QED  BY <2>1 DEF Largest, Max
<1>2. Passes!IsFiniteSet(1 .. n)
  <2>1. IsFiniteSet(1 .. n)
    BY FS_Interval
  <2> QED  BY <2>1 DEF IsFiniteSet, Passes!IsFiniteSet
<1> QED  BY <1>1, <1>2 DEF Passes!ChoosesFrom, Passes!PicksGreatest

(* The visible part of a text with one code point more.                    *)
LEMMA VisibleAppend ==
  ASSUME NEW S, NEW s \in Seq(S), NEW x \in S
  PROVE  Visible(Append(s, x)) = AppendVisible(Visible(s), x)
<1> DEFINE n == Len(s)  t == Append(s, x)
<1>1. /\ n \in Nat /\ DOMAIN s = 1 .. n /\ DOMAIN t = 1 .. n + 1
      /\ t[n + 1] = x /\ \A i \in 1 .. n : t[i] = s[i]
  BY AppendFacts
<1> HIDE DEF n, t
<1>2. \A r : Visible(r) = Passes!Folded(<<>>, r, DOMAIN r)
  BY DEF Visible, FoldLeft, Passes!Folded, MapThenFoldSet, Passes!MapThenFoldSet, Shown, Largest
<1>3. Passes!PicksGreatest(n + 1)
  BY <1>1, LargestFacts
<1>4. Passes!Folded(<<>>, t, 1 .. n + 1) = Shown(x, Passes!Folded(<<>>, t, 1 .. n))
  BY <1>1, <1>3, Passes!FoldUpTo
<1>5. Passes!Folded(<<>>, t, 1 .. n) = Passes!Folded(<<>>, s, 1 .. n)
  BY <1>1, LargestFacts, Passes!FoldCongruence
<1> QED  BY <1>1, <1>2, <1>4, <1>5 DEF Shown, t

LEMMA InputFacts ==
  ASSUME CleanTypeOK
  PROVE  /\ read \in Nat /\ Input \in Seq(Char) /\ Len(Input) = read
         /\ \A i \in 1 .. read : Input[i] = Replaced(raw[i]) /\ i \in DOMAIN raw
<1>1. read \in Nat /\ Len(raw) \in Nat /\ read <= Len(raw) /\ DOMAIN raw = 1 .. Len(raw)
  BY LenProperties DEF CleanTypeOK
<1>2. ASSUME NEW i \in 1 .. read
      PROVE  i \in DOMAIN raw /\ Replaced(raw[i]) \in Char
  <2>1. i \in DOMAIN raw
    BY <1>1
  <2> QED  BY <2>1 DEF CleanTypeOK
<1>3. Input \in [1 .. read -> Char]
  BY <1>2 DEF Input
<1>4. Input \in Seq(Char) /\ Len(Input) = read
  BY <1>1, <1>3, SeqDef, LenProperties
<1> QED  BY <1>1, <1>2, <1>4 DEF Input

(* What a round of the loop does to the input and to the memory.           *)
LEMMA RoundFacts ==
  ASSUME CleanInv, CleanPoint, NEW cp, cp = Replaced(raw[read + 1])
  PROVE  /\ cp \in Char /\ read' = read + 1 /\ read' \in 0 .. Len(raw)
         /\ Input' = Append(Input, cp) /\ Input'[read + 1] = cp
         /\ \A i \in 1 .. read : Input'[i] = Input[i]
         /\ MemoryIsOfInput'
<1>1. /\ read \in Nat /\ Len(raw) \in Nat /\ read < Len(raw) /\ DOMAIN raw = 1 .. Len(raw)
      /\ raw' = raw /\ read' = read + 1
  BY LenProperties DEF CleanPoint, CleanInv, CleanTypeOK
<1>2. cp \in Char /\ read' \in 0 .. Len(raw)
  <2>1. read' \in 0 .. Len(raw) /\ read + 1 \in DOMAIN raw
    BY <1>1
  <2>2. \A i \in DOMAIN raw : Replaced(raw[i]) \in Char
    BY DEF CleanInv, CleanTypeOK
  <2> QED  BY <2>1, <2>2
<1>3. /\ Input \in Seq(Char) /\ Len(Input) = read
      /\ \A i \in 1 .. read : Input[i] = Replaced(raw[i])
  BY InputFacts DEF CleanInv
<1>4. Input' = [i \in 1 .. read + 1 |-> Replaced(raw[i])]
  BY <1>1 DEF Input
<1>5. Input'[read + 1] = cp /\ \A i \in 1 .. read : Input'[i] = Input[i]
  BY <1>1, <1>3, <1>4
<1>6. Input' = Append(Input, cp)
  <2> DEFINE t == Append(Input, cp)
  <2>1. /\ t \in Seq(Char) /\ Len(t) = read + 1 /\ t[read + 1] = cp
        /\ \A i \in 1 .. read : t[i] = Input[i]
    BY <1>2, <1>3, AppendFacts
  <2>2. t = [i \in 1 .. read + 1 |-> t[i]]
    <3> HIDE DEF t
    <3> QED  BY <2>1
  <2> HIDE DEF t
  <2>3. \A i \in 1 .. read + 1 : t[i] = Replaced(raw[i])
    BY <1>1, <1>3, <2>1
  <2>4. [i \in 1 .. read + 1 |-> t[i]] = [i \in 1 .. read + 1 |-> Replaced(raw[i])]
    BY <2>3
  <2> QED  BY <1>4, <2>2, <2>4 DEF t
<1>7. MemoryIsOfInput'
  <2> DEFINE broken == prevPoints[2] = CARRIAGE_RETURN /\ cp # NEW_LINE
  <2>1. prevPoints' = <<IF broken THEN NEW_LINE ELSE prevPoints[2], cp>>
    BY DEF CleanPoint
  <2>2. prevPoints[2] = IF read = 0 THEN 0 ELSE Input[read]
    BY DEF CleanInv, MemoryIsOfInput
  <2>3. CASE read = 0
    <3>1. prevPoints' = <<0, cp>>
      BY <2>1, <2>2, <2>3 DEF CARRIAGE_RETURN
    <3> QED  BY <1>1, <1>5, <2>3, <3>1 DEF MemoryIsOfInput
  <2>4. CASE read # 0
    <3>1. read \in 1 .. read /\ read + 1 >= 2 /\ (read + 1) - 1 = read
      BY <1>1, <2>4
    <3>2. Input'[read] = Input[read]
      BY <1>5, <3>1
    <3> QED  BY <1>1, <1>5, <2>1, <2>2, <2>4, <3>1, <3>2 DEF MemoryIsOfInput
  <2> QED  BY <2>3, <2>4
<1> QED  BY <1>1, <1>2, <1>5, <1>6, <1>7

LEMMA PairIsConcat ==
  ASSUME NEW S, NEW x \in S, NEW y \in S
  PROVE  /\ <<x>> \in Seq(S) /\ <<y>> \in Seq(S) /\ <<x>> \o <<y>> = <<x, y>>
         /\ <<>> \o <<y>> = <<y>> /\ <<>> \o <<>> = <<>> /\ <<y>> \o <<>> = <<y>>
<1>1. <<x>> \in Seq(S) /\ <<y>> \in Seq(S) /\ <<x, y>> \in Seq(S) /\ <<>> \in Seq(S)
  OBVIOUS
<1>2. <<>> \o <<y>> = <<y>> /\ <<>> \o <<>> = <<>> /\ <<y>> \o <<>> = <<y>>
  BY <1>1, ConcatEmptySeq
<1>3. Len(<<x>>) = 1 /\ Len(<<y>>) = 1 /\ Len(<<x, y>>) = 2
  OBVIOUS
<1> DEFINE t == <<x>> \o <<y>>
<1>4. /\ t \in Seq(S) /\ Len(t) = 2 /\ t[1] = <<x>>[1] /\ t[2] = <<y>>[2 - 1]
  BY <1>1, <1>3, ConcatProperties
<1> HIDE DEF t
<1>5. \A i \in 1 .. 2 : t[i] = <<x, y>>[i]
  BY <1>4
<1>6. t = <<x, y>>
  BY <1>1, <1>3, <1>4, <1>5, SeqEqual
<1> QED  BY <1>1, <1>2, <1>6 DEF t

LEMMA AppendOne ==
  ASSUME NEW S, NEW s \in Seq(S), NEW x \in S, NEW y \in S
  PROVE  /\ s \o <<x>> = Append(s, x)
         /\ s \o <<x, y>> = Append(Append(s, x), y)
         /\ s \o <<>> = s
<1>1. s \o <<x>> = Append(s, x) /\ Append(s, x) \in Seq(S)
  BY AppendIsConcat, AppendProperties
<1>2. Append(Append(s, x), y) = Append(s, x) \o <<y>>
  BY <1>1, AppendIsConcat
<1>3. <<x>> \in Seq(S) /\ <<y>> \in Seq(S) /\ <<x>> \o <<y>> = <<x, y>>
  BY PairIsConcat
<1>4. (s \o <<x>>) \o <<y>> = s \o (<<x>> \o <<y>>)
  BY <1>3, ConcatAssociative
<1>5. s \o <<x, y>> = Append(Append(s, x), y)
  BY <1>1, <1>2, <1>3, <1>4
<1> QED  BY <1>1, <1>5, ConcatEmptySeq

(* The three ways a code point leaves the loop: with a line feed in front, *)
(* as it is, or dropped.                                                   *)
LEMMA RoundCases ==
  ASSUME CleanInv, CleanPoint, NEW cp, cp = Replaced(raw[read + 1])
  PROVE  \/ /\ read > 0 /\ Input[read] = CARRIAGE_RETURN /\ cp # NEW_LINE
            /\ result' = Append(Append(result, NEW_LINE), cp)
            /\ origin' = Append(Append(origin, read), read + 1)
         \/ /\ read > 0 /\ Input[read] = SPACE => cp # SPACE
            /\ result' = Append(result, cp) /\ origin' = Append(origin, read + 1)
         \/ /\ read > 0 /\ result' = result /\ origin' = origin
            /\ cp \in White /\ \A l : l = read + 1 => Dropped(l)'
<1> DEFINE broken == prevPoints[2] = CARRIAGE_RETURN /\ cp # NEW_LINE
           prev == IF broken THEN <<CARRIAGE_RETURN, NEW_LINE>> ELSE prevPoints
           written == (IF broken THEN <<NEW_LINE>> ELSE <<>>)
                      \o (IF Drops(prev, cp) THEN <<>> ELSE <<cp>>)
           from == [i \in DOMAIN written |-> IF broken /\ i = 1 THEN read ELSE read + 1]
<1>1. result' = result \o written /\ origin' = origin \o from
  BY DEF CleanPoint
<1>2. /\ read \in Nat /\ read + 1 \in Nat /\ cp \in Char /\ NEW_LINE \in Char
      /\ result \in Seq(Char) /\ origin \in Seq(Nat)
  BY InputFacts, RoundFacts, TextCallsAssumption DEF CleanInv, CleanTypeOK
<1>3. /\ prevPoints[2] = IF read = 0 THEN 0 ELSE Input[read]
      /\ prevPoints[1] = IF read < 2 THEN 0
                 ELSE IF Input[read - 1] = CARRIAGE_RETURN /\ Input[read] # NEW_LINE
                      THEN NEW_LINE ELSE Input[read - 1]
  BY DEF CleanInv, MemoryIsOfInput
<1>4. CASE broken
  <2>1. read > 0 /\ Input[read] = CARRIAGE_RETURN /\ cp # NEW_LINE
    BY <1>2, <1>3, <1>4 DEF CARRIAGE_RETURN
  <2>2. ~ Drops(prev, cp)
    BY <1>4 DEF Drops, SPACE, NEW_LINE, CARRIAGE_RETURN
  <2>3. written = <<NEW_LINE, cp>>
    BY <1>2, <1>4, <2>2, PairIsConcat
  <2>4. from = <<read, read + 1>>
    <3>1. \A x, y : x = <<NEW_LINE, cp>> => [i \in DOMAIN x |-> IF i = 1 THEN read ELSE read + 1]
                    = <<read, read + 1>>
      OBVIOUS
    <3> HIDE DEF written
    <3> QED  BY <1>4, <2>3, <3>1
  <2> HIDE DEF written, from
  <2>5. result' = Append(Append(result, NEW_LINE), cp)
    BY <1>1, <1>2, <2>3, AppendOne
  <2>6. origin' = Append(Append(origin, read), read + 1)
    BY <1>1, <1>2, <2>4, AppendOne
  <2> QED  BY <2>1, <2>5, <2>6
<1>5. CASE ~broken /\ ~Drops(prev, cp)
  <2>1. written = <<cp>>
    BY <1>2, <1>5, PairIsConcat
  <2>2. from = <<read + 1>>
    <3> HIDE DEF written
    <3> QED  BY <1>5, <2>1
  <2>3. read > 0 /\ Input[read] = SPACE => cp # SPACE
    BY <1>2, <1>3, <1>5 DEF Drops
  <2> HIDE DEF written, from
  <2>4. result' = Append(result, cp)
    BY <1>1, <1>2, <2>1, AppendOne
  <2>5. origin' = Append(origin, read + 1)
    BY <1>1, <1>2, <2>2, AppendOne
  <2> QED  BY <2>3, <2>4, <2>5
<1>6. CASE ~broken /\ Drops(prev, cp)
  <2>1. written = <<>> /\ from = <<>>
    BY <1>2, <1>6, PairIsConcat
  <2>2. result' = result /\ origin' = origin
    BY <1>1, <1>2, <2>1, AppendOne
  <2>3. read' = read + 1 /\ Input'[read + 1] = cp /\ \A i \in 1 .. read : Input'[i] = Input[i]
    BY RoundFacts
  <2>4. CASE cp = SPACE /\ prevPoints[2] = SPACE
    <3>1. read > 0 /\ Input[read] = SPACE
      BY <1>2, <1>3, <2>4 DEF SPACE
    <3>2. read \in 1 .. read /\ (read + 1) - 1 = read /\ read + 1 > 1
      BY <1>2, <3>1
    <3>3. ASSUME NEW l, l = read + 1 PROVE Dropped(l)'
      <4>1. l > 1 /\ l - 1 = read /\ Input'[l] = SPACE /\ Input'[l - 1] = SPACE
        BY <2>3, <2>4, <3>1, <3>2, <3>3
      <4> QED  BY <4>1 DEF Dropped
    <3> QED  BY <2>2, <2>4, <3>1, <3>3 DEF White
  <2>5. CASE cp = NEW_LINE /\ prevPoints[1] = NEW_LINE
    <3>1. /\ read >= 2
          /\ \/ Input[read - 1] = NEW_LINE
             \/ Input[read - 1] = CARRIAGE_RETURN /\ Input[read] # NEW_LINE
      BY <1>2, <1>3, <2>5 DEF NEW_LINE, CARRIAGE_RETURN
    <3>2. /\ read \in 1 .. read /\ read - 1 \in 1 .. read /\ read + 1 > 2
          /\ (read + 1) - 1 = read /\ (read + 1) - 2 = read - 1 /\ read > 0
      BY <1>2, <3>1
    <3>3. ASSUME NEW l, l = read + 1 PROVE TakenForExtra(l)'
      <4>1. /\ l > 2 /\ l - 1 = read /\ l - 2 = read - 1 /\ Input'[l] = NEW_LINE
            /\ Input'[l - 1] = Input[read] /\ Input'[l - 2] = Input[read - 1]
        BY <2>3, <2>5, <3>2, <3>3
      <4> QED  BY <3>1, <4>1 DEF TakenForExtra
    <3> QED  BY <2>2, <2>5, <3>2, <3>3 DEF White, Dropped
  <2> QED  BY <1>6, <2>4, <2>5 DEF Drops
<1> QED  BY <1>4, <1>5, <1>6

(* What held of the code points written before still does.                 *)
LEMMA DroppedStays ==
  ASSUME CleanInv, CleanPoint, NEW l \in 1 .. read, Dropped(l)
  PROVE  Dropped(l)'
<1>1. read \in Nat /\ \A i \in 1 .. read : Input'[i] = Input[i]
  BY InputFacts, RoundFacts DEF CleanInv
<1>2. CASE l > 1 /\ Input[l] = SPACE /\ Input[l - 1] = SPACE
  <2>1. Input'[l] = SPACE /\ Input'[l - 1] = SPACE
    BY <1>1, <1>2
  <2> QED  BY <1>2, <2>1 DEF Dropped
<1>3. CASE TakenForExtra(l)
  <2>1. l > 2 /\ l - 1 \in 1 .. read /\ l - 2 \in 1 .. read
    BY <1>1, <1>3 DEF TakenForExtra
  <2>2. Input'[l] = Input[l] /\ Input'[l - 1] = Input[l - 1] /\ Input'[l - 2] = Input[l - 2]
    BY <1>1, <2>1
  <2> QED  BY <1>3, <2>2 DEF TakenForExtra, Dropped
<1> QED  BY <1>2, <1>3 DEF Dropped

LEMMA OldPoints ==
  ASSUME CleanInv, CleanPoint,
         \A k \in 1 .. Len(result) : result'[k] = result[k] /\ origin'[k] = origin[k]
  PROVE  /\ \A k \in 1 .. Len(result) :
              origin[k] \in 1 .. read /\ (Kept(k)' \/ Completes(k)')
         /\ \A k \in 1 .. Len(result) - 1 :
              /\ origin'[k] < origin'[k + 1] \/ result'[k] = CARRIAGE_RETURN
              /\ \A l \in origin'[k] + 1 .. origin'[k + 1] - 1 : Dropped(l)'
         /\ Len(result) = 0 => read = 0
         /\ Len(result) > 0 => \A l \in origin[Len(result)] + 1 .. read : Dropped(l)'
<1>1. /\ read \in Nat /\ read' = read + 1
      /\ \A i \in 1 .. read : Input'[i] = Input[i]
      /\ Len(result) \in Nat /\ DOMAIN result = 1 .. Len(result)
      /\ Len(result) = 0 <=> result = <<>>
  BY InputFacts, RoundFacts, LenProperties, EmptySeq DEF CleanInv, CleanTypeOK
<1>2. \A k \in 1 .. Len(result) : origin[k] \in 1 .. read /\ (Kept(k) \/ Completes(k))
  BY <1>1 DEF CleanInv, OriginsExplain
<1>3. ASSUME NEW k \in 1 .. Len(result)
      PROVE  Kept(k)' \/ Completes(k)'
  <2>1. CASE Kept(k)
    <3>1. origin'[k] = origin[k] /\ result'[k] = result[k] /\ Input'[origin[k]] = Input[origin[k]]
      BY <1>1, <1>2
    <3>2. origin[k] > 1 => Input'[origin[k] - 1] = Input[origin[k] - 1]
      BY <1>1, <1>2
    <3> QED  BY <2>1, <3>1, <3>2 DEF Kept
  <2>2. CASE Completes(k)
    <3>1. k - 1 \in 1 .. Len(result) /\ origin[k] < read'
      BY <1>1, <1>2, <2>2 DEF Completes
    <3> QED  BY <2>2, <3>1 DEF Completes
  <2> QED  BY <1>2, <2>1, <2>2
<1>4. ASSUME NEW k \in 1 .. Len(result) - 1
      PROVE  /\ origin'[k] < origin'[k + 1] \/ result'[k] = CARRIAGE_RETURN
             /\ \A l \in origin'[k] + 1 .. origin'[k + 1] - 1 : Dropped(l)'
  <2>1. k \in 1 .. Len(result) /\ k + 1 \in 1 .. Len(result)
    BY <1>1
  <2>2. /\ origin[k] < origin[k + 1] \/ result[k] = CARRIAGE_RETURN
        /\ \A l \in origin[k] + 1 .. origin[k + 1] - 1 : Dropped(l)
    BY DEF CleanInv, OriginsExplain
  <2>3. ASSUME NEW l \in origin[k] + 1 .. origin[k + 1] - 1
        PROVE  Dropped(l)'
    <3>1. l \in 1 .. read
      BY <1>1, <1>2, <2>1
    <3> QED  BY <2>2, <3>1, DroppedStays
  <2> QED  BY <2>1, <2>2, <2>3
<1>5. ASSUME Len(result) > 0, NEW l \in origin[Len(result)] + 1 .. read
      PROVE  Dropped(l)'
  <2>1. Dropped(l)
    BY <1>1, <1>5 DEF CleanInv, OriginsExplain
  <2>2. l \in 1 .. read
    BY <1>1, <1>2, <1>5
  <2> QED  BY <2>1, <2>2, DroppedStays
<1>6. Len(result) = 0 => read = 0
  BY <1>1 DEF CleanInv, OriginsExplain
<1> QED  BY <1>2, <1>3, <1>4, <1>5, <1>6

LEMMA LastIsReturn ==
  ASSUME CleanInv, read > 0, Input[read] = CARRIAGE_RETURN
  PROVE  /\ Len(result) > 0 /\ origin[Len(result)] = read
         /\ result[Len(result)] = CARRIAGE_RETURN
<1>1. /\ read \in Nat /\ Len(result) \in Nat /\ DOMAIN result = 1 .. Len(result)
      /\ Len(result) = 0 <=> result = <<>>
  BY InputFacts, LenProperties, EmptySeq DEF CleanInv, CleanTypeOK
<1>2. Len(result) > 0
  BY <1>1 DEF CleanInv, OriginsExplain
<1> DEFINE n == Len(result)
<1> HIDE DEF n
<1>3. n \in DOMAIN result
  BY <1>1, <1>2 DEF n
<1>4. origin[n] \in 1 .. read /\ (Kept(n) \/ Completes(n))
  BY <1>3 DEF CleanInv, OriginsExplain
<1>5. ~Dropped(read)
  BY DEF Dropped, TakenForExtra, CARRIAGE_RETURN, SPACE, NEW_LINE
<1>6. \A l \in origin[n] + 1 .. read : Dropped(l)
  BY <1>1, <1>2 DEF CleanInv, OriginsExplain, n
<1>7. origin[n] = read
  BY <1>1, <1>4, <1>5, <1>6
<1>8. result[n] = CARRIAGE_RETURN
  BY <1>4, <1>7 DEF Kept, Completes
<1> QED  BY <1>2, <1>7, <1>8 DEF n

LEMMA OneLess == \A m \in Nat : \A x : x = m + 1 => x - 1 = m
OBVIOUS

(* A code point is written as it is.                                       *)
LEMMA KeepExplains ==
  ASSUME CleanInv, CleanPoint, NEW cp, cp = Replaced(raw[read + 1]),
         read > 0 /\ Input[read] = SPACE => cp # SPACE,
         result' = Append(result, cp), origin' = Append(origin, read + 1)
  PROVE  OriginsExplain'
<1> DEFINE n == Len(result)
<1>1. /\ read \in Nat /\ read' = read + 1 /\ cp \in Char
      /\ Input'[read + 1] = cp /\ \A i \in 1 .. read : Input'[i] = Input[i]
      /\ result \in Seq(Char) /\ origin \in Seq(Nat) /\ Len(origin) = n
  BY InputFacts, RoundFacts DEF CleanInv, CleanTypeOK
<1>2. /\ n \in Nat /\ Len(result') = n + 1 /\ DOMAIN result' = 1 .. n + 1
      /\ result'[n + 1] = cp /\ \A k \in 1 .. n : result'[k] = result[k]
  BY <1>1, AppendFacts
<1>3. origin'[n + 1] = read + 1 /\ \A k \in 1 .. n : origin'[k] = origin[k]
  <2>1. read + 1 \in Nat
    BY <1>1
  <2> QED  BY <1>1, <2>1, AppendFacts
<1>4. /\ \A k \in 1 .. n : origin[k] \in 1 .. read /\ (Kept(k)' \/ Completes(k)')
      /\ \A k \in 1 .. n - 1 :
           /\ origin'[k] < origin'[k + 1] \/ result'[k] = CARRIAGE_RETURN
           /\ \A l \in origin'[k] + 1 .. origin'[k + 1] - 1 : Dropped(l)'
      /\ n = 0 => read = 0
      /\ n > 0 => \A l \in origin[n] + 1 .. read : Dropped(l)'
  BY <1>2, <1>3, OldPoints
<1> HIDE DEF n
<1>5. ASSUME NEW k, k = n + 1 PROVE origin'[k] \in 1 .. read' /\ Kept(k)'
  <2>1. /\ origin'[k] = read + 1 /\ result'[k] = cp /\ Input'[origin'[k]] = cp
        /\ origin'[k] - 1 = read
    BY <1>1, <1>2, <1>3, <1>5
  <2>2. read > 0 => Input'[read] = Input[read]
    BY <1>1, SMTT(30)
  <2>3. Kept(k)'
    <3>1. read + 1 > 1 => read > 0
      BY <1>1
    <3> QED  BY <2>1, <2>2, <3>1 DEF Kept
  <2>4. read + 1 \in 1 .. read'
    BY <1>1
  <2> QED  BY <2>1, <2>3, <2>4
<1>6. ASSUME NEW k \in 1 .. n + 1
      PROVE  origin'[k] \in 1 .. read' /\ (Kept(k)' \/ Completes(k)')
  <2>1. CASE k = n + 1
    BY <1>5, <2>1
  <2>2. CASE k # n + 1
    <3>1. k \in 1 .. n
      BY <1>2, <2>2
    <3> QED  BY <1>1, <1>3, <1>4, <3>1
  <2> QED  BY <2>1, <2>2
<1>7. ASSUME NEW k \in 1 .. n
      PROVE  /\ origin'[k] < origin'[k + 1] \/ result'[k] = CARRIAGE_RETURN
             /\ \A l \in origin'[k] + 1 .. origin'[k + 1] - 1 : Dropped(l)'
  <2>1. CASE k = n
    <3>1. origin'[k] = origin[n] /\ origin'[k + 1] = read + 1 /\ origin[n] \in 1 .. read
      BY <1>2, <1>3, <1>4, <2>1
    <3>2. origin'[k + 1] - 1 = read
      <4>1. CleanTypeOK
        BY DEF CleanInv
      <4>2. read \in Nat
        BY <4>1, InputFacts
      <4> QED  BY <3>1, <4>2, OneLess
    <3>3. origin'[k] + 1 .. origin'[k + 1] - 1 = origin[n] + 1 .. read
      BY <3>1, <3>2
    <3> QED  BY <1>1, <1>2, <1>4, <2>1, <3>1, <3>3
  <2>2. CASE k # n
    <3>1. k \in 1 .. n - 1
      BY <1>2, <2>2
    <3> QED  BY <1>4, <3>1
  <2> QED  BY <2>1, <2>2
<1>8. n + 1 > 0 /\ result' # <<>> /\ n + 1 - 1 = n
  BY <1>2, EmptySeq
<1>9. \A l \in origin'[n + 1] + 1 .. read' : Dropped(l)'
  BY <1>1, <1>3
<1>10. Len(result') - 1 = n
  BY <1>2
<1>11. 1 .. Len(result') - 1 = 1 .. n
  BY <1>10
<1>12. \A k \in DOMAIN result' : origin'[k] \in 1 .. read' /\ (Kept(k)' \/ Completes(k)')
  BY <1>2, <1>6
<1>13. \A k \in 1 .. Len(result') - 1 :
         /\ origin'[k] < origin'[k + 1] \/ result'[k] = CARRIAGE_RETURN
         /\ \A l \in origin'[k] + 1 .. origin'[k + 1] - 1 : Dropped(l)'
  BY <1>7, <1>11
<1>14. \A l \in origin'[Len(result')] + 1 .. read' : Dropped(l)'
  BY <1>2, <1>9
<1> QED  BY <1>8, <1>12, <1>13, <1>14 DEF OriginsExplain

(* A code point is dropped.                                                *)
LEMMA DropExplains ==
  ASSUME CleanInv, CleanPoint, read > 0, result' = result, origin' = origin,
         \A l : l = read + 1 => Dropped(l)'
  PROVE  OriginsExplain'
<1> DEFINE n == Len(result)
<1>1. /\ read \in Nat /\ read' = read + 1 /\ n \in Nat /\ DOMAIN result = 1 .. n
      /\ n = 0 <=> result = <<>>
  BY InputFacts, RoundFacts, LenProperties, EmptySeq DEF CleanInv, CleanTypeOK
<1>2. /\ \A k \in 1 .. n : origin[k] \in 1 .. read /\ (Kept(k)' \/ Completes(k)')
      /\ \A k \in 1 .. n - 1 :
           /\ origin'[k] < origin'[k + 1] \/ result'[k] = CARRIAGE_RETURN
           /\ \A l \in origin'[k] + 1 .. origin'[k + 1] - 1 : Dropped(l)'
      /\ n = 0 => read = 0
      /\ n > 0 => \A l \in origin[n] + 1 .. read : Dropped(l)'
  BY OldPoints
<1> HIDE DEF n
<1>3. ASSUME n > 0, NEW l \in origin[n] + 1 .. read'
      PROVE  Dropped(l)'
  <2>1. origin[n] \in 1 .. read
    BY <1>1, <1>2, <1>3
  <2>2. l \in origin[n] + 1 .. read \/ l = read + 1
    BY <1>1, <2>1
  <2> QED  BY <1>2, <1>3, <2>2
<1>4. n > 0 /\ \A k \in 1 .. n : origin'[k] \in 1 .. read'
  BY <1>1, <1>2
<1> QED  BY <1>1, <1>2, <1>3, <1>4 DEF OriginsExplain, n

(* A carriage return is completed first.                                   *)
LEMMA CompleteExplains ==
  ASSUME CleanInv, CleanPoint, NEW cp, cp = Replaced(raw[read + 1]),
         read > 0, Input[read] = CARRIAGE_RETURN,
         result' = Append(Append(result, NEW_LINE), cp),
         origin' = Append(Append(origin, read), read + 1)
  PROVE  OriginsExplain'
<1> DEFINE n == Len(result)
<1>1. /\ read \in Nat /\ read' = read + 1 /\ cp \in Char /\ NEW_LINE \in Char
      /\ Input'[read + 1] = cp /\ \A i \in 1 .. read : Input'[i] = Input[i]
      /\ result \in Seq(Char) /\ origin \in Seq(Nat) /\ Len(origin) = n
  BY InputFacts, RoundFacts, TextCallsAssumption DEF CleanInv, CleanTypeOK
<1>2. /\ n \in Nat /\ Len(result') = n + 2 /\ DOMAIN result' = 1 .. n + 2
      /\ result'[n + 1] = NEW_LINE /\ result'[n + 2] = cp
      /\ \A k \in 1 .. n : result'[k] = result[k]
  <2> DEFINE t == Append(result, NEW_LINE)
  <2>1. /\ n \in Nat /\ t \in Seq(Char) /\ Len(t) = n + 1 /\ t[n + 1] = NEW_LINE
        /\ \A k \in 1 .. n : t[k] = result[k]
    BY <1>1, AppendFacts
  <2> HIDE DEF t, n
  <2>2. /\ Len(Append(t, cp)) = n + 2 /\ DOMAIN Append(t, cp) = 1 .. n + 2
        /\ Append(t, cp)[n + 2] = cp /\ \A k \in 1 .. n + 1 : Append(t, cp)[k] = t[k]
    <3>1. /\ Len(Append(t, cp)) = Len(t) + 1 /\ DOMAIN Append(t, cp) = 1 .. Len(t) + 1
          /\ Append(t, cp)[Len(t) + 1] = cp
          /\ \A k \in 1 .. Len(t) : Append(t, cp)[k] = t[k]
      BY <1>1, <2>1, AppendFacts
    <3>2. Len(t) + 1 = n + 2 /\ Len(t) = n + 1
      BY <2>1
    <3> QED  BY <3>1, <3>2
  <2>3. result' = Append(t, cp)
    BY DEF t
  <2>4. n + 1 \in 1 .. n + 1 /\ \A k \in 1 .. n : k \in 1 .. n + 1
    BY <2>1
  <2> QED  BY <2>1, <2>2, <2>3, <2>4
<1>3. /\ origin'[n + 1] = read /\ origin'[n + 2] = read + 1
      /\ \A k \in 1 .. n : origin'[k] = origin[k]
  <2> DEFINE t == Append(origin, read)
  <2>1. /\ n \in Nat /\ t \in Seq(Nat) /\ Len(t) = n + 1 /\ t[n + 1] = read
        /\ \A k \in 1 .. n : t[k] = origin[k]
    BY <1>1, AppendFacts
  <2> HIDE DEF t, n
  <2>2. read + 1 \in Nat
    BY <1>1
  <2>3. /\ Append(t, read + 1)[n + 2] = read + 1
        /\ \A k \in 1 .. n + 1 : Append(t, read + 1)[k] = t[k]
    <3>1. /\ Append(t, read + 1)[Len(t) + 1] = read + 1
          /\ \A k \in 1 .. Len(t) : Append(t, read + 1)[k] = t[k]
      BY <2>1, <2>2, AppendFacts
    <3>2. Len(t) + 1 = n + 2 /\ Len(t) = n + 1
      BY <2>1
    <3> QED  BY <3>1, <3>2
  <2>4. origin' = Append(t, read + 1)
    BY DEF t
  <2>5. n + 1 \in 1 .. n + 1 /\ \A k \in 1 .. n : k \in 1 .. n + 1
    BY <2>1
  <2> QED  BY <2>1, <2>3, <2>4, <2>5
<1>4. /\ \A k \in 1 .. n : origin[k] \in 1 .. read /\ (Kept(k)' \/ Completes(k)')
      /\ \A k \in 1 .. n - 1 :
           /\ origin'[k] < origin'[k + 1] \/ result'[k] = CARRIAGE_RETURN
           /\ \A l \in origin'[k] + 1 .. origin'[k + 1] - 1 : Dropped(l)'
  BY <1>2, <1>3, OldPoints
<1>5. n > 0 /\ origin[n] = read /\ result[n] = CARRIAGE_RETURN
  BY LastIsReturn
<1> HIDE DEF n
<1>6. n \in 1 .. n /\ origin'[n] = read /\ result'[n] = CARRIAGE_RETURN
  <2>1. n \in 1 .. n
    BY <1>2, <1>5
  <2>2. origin'[n] = origin[n]
    BY <1>3, <2>1
  <2>3. result'[n] = result[n]
    BY <1>2, <2>1
  <2> QED  BY <1>5, <2>1, <2>2, <2>3
<1>7. read \in 1 .. read' /\ read + 1 \in 1 .. read' /\ read < read'
  BY <1>1
<1>8. ASSUME NEW k, k = n + 1 PROVE origin'[k] \in 1 .. read' /\ Completes(k)'
  <2>1. k > 1 /\ k - 1 = n
    BY <1>2, <1>5, <1>8
  <2>2. Completes(k)'
    BY <1>2, <1>3, <1>6, <1>7, <1>8, <2>1 DEF Completes
  <2> QED  BY <1>3, <1>7, <1>8, <2>2
<1>9. ASSUME NEW k, k = n + 2 PROVE origin'[k] \in 1 .. read' /\ Kept(k)'
  <2>1. Input'[read] = CARRIAGE_RETURN /\ (read + 1) - 1 = read
    BY <1>1
  <2>2. Kept(k)'
    BY <1>1, <1>2, <1>3, <1>9, <2>1 DEF Kept, CARRIAGE_RETURN, SPACE
  <2> QED  BY <1>3, <1>7, <1>9, <2>2
<1>10. ASSUME NEW k \in 1 .. n + 2
       PROVE  origin'[k] \in 1 .. read' /\ (Kept(k)' \/ Completes(k)')
  <2>1. k \in 1 .. n \/ k = n + 1 \/ k = n + 2
    BY <1>2
  <2>2. CASE k \in 1 .. n
    BY <1>1, <1>3, <1>4, <2>2
  <2> QED  BY <1>8, <1>9, <2>1, <2>2
<1>11. ASSUME NEW k \in 1 .. n + 1
       PROVE  /\ origin'[k] < origin'[k + 1] \/ result'[k] = CARRIAGE_RETURN
              /\ \A l \in origin'[k] + 1 .. origin'[k + 1] - 1 : Dropped(l)'
  <2>1. k \in 1 .. n - 1 \/ k = n \/ k = n + 1
    BY <1>2
  <2>2. CASE k \in 1 .. n - 1
    BY <1>4, <2>2
  <2>3. CASE k = n
    <3>1. origin'[k + 1] = read /\ origin'[k] = read /\ result'[k] = CARRIAGE_RETURN
      BY <1>3, <1>6, <2>3
    <3>2. read + 1 .. read - 1 = {}
      BY <1>1
    <3> QED  BY <3>1, <3>2
  <2>4. CASE k = n + 1
    <3>1. k + 1 = n + 2
      BY <1>2, <2>4
    <3>2. origin'[k] = read /\ origin'[k + 1] = read + 1
      BY <1>3, <2>4, <3>1
    <3>3. read < read + 1 /\ read + 1 .. (read + 1) - 1 = {}
      BY <1>1
    <3> QED  BY <3>2, <3>3
  <2> QED  BY <2>1, <2>2, <2>3, <2>4
<1>12. Len(result') - 1 = n + 1 /\ result' # <<>>
  BY <1>2, EmptySeq
<1>13. 1 .. Len(result') - 1 = 1 .. n + 1
  BY <1>12
<1>14. \A k \in DOMAIN result' : origin'[k] \in 1 .. read' /\ (Kept(k)' \/ Completes(k)')
  BY <1>2, <1>10
<1>15. \A k \in 1 .. Len(result') - 1 :
         /\ origin'[k] < origin'[k + 1] \/ result'[k] = CARRIAGE_RETURN
         /\ \A l \in origin'[k] + 1 .. origin'[k + 1] - 1 : Dropped(l)'
  BY <1>11, <1>13
<1>16. \A l \in origin'[Len(result')] + 1 .. read' : Dropped(l)'
  <2>1. origin'[Len(result')] = read + 1 /\ (read + 1) + 1 .. read' = {}
    BY <1>1, <1>2, <1>3
  <2> QED  BY <2>1
<1> QED  BY <1>12, <1>14, <1>15, <1>16 DEF OriginsExplain

LEMMA CleanPointKeeps ==
  ASSUME CleanInv, CleanPoint
  PROVE  CleanInv'
<1>1. PICK cp : cp = Replaced(raw[read + 1])
  OBVIOUS
<1>2. /\ cp \in Char /\ read' \in 0 .. Len(raw) /\ Input' = Append(Input, cp)
      /\ read \in Nat /\ read + 1 \in Nat /\ MemoryIsOfInput' /\ Input \in Seq(Char)
  BY <1>1, InputFacts, RoundFacts DEF CleanInv
<1>3. /\ result \in Seq(Char) /\ origin \in Seq(Nat) /\ Len(origin) = Len(result)
      /\ NEW_LINE \in Char /\ Visible(result) = Visible(Input)
  BY TextCallsAssumption DEF CleanInv, CleanTypeOK, OnlyWhiteSpaceIsTouched
<1>4. ASSUME result' \in Seq(Char), origin' \in Seq(Nat), Len(origin') = Len(result')
      PROVE  CleanTypeOK'
  BY <1>2, <1>4 DEF CleanInv, CleanTypeOK, CleanPoint
<1>5. Visible(Input') = AppendVisible(Visible(Input), cp)
  BY <1>2, VisibleAppend
<1>6. CASE /\ read > 0 /\ Input[read] = CARRIAGE_RETURN /\ cp # NEW_LINE
           /\ result' = Append(Append(result, NEW_LINE), cp)
           /\ origin' = Append(Append(origin, read), read + 1)
  <2>1. OriginsExplain'
    BY <1>1, <1>6, CompleteExplains
  <2> DEFINE r == Append(result, NEW_LINE)  o == Append(origin, read)
  <2>2. r \in Seq(Char) /\ o \in Seq(Nat) /\ Len(r) = Len(o)
    BY <1>2, <1>3, AppendFacts
  <2>3. Visible(r) = Visible(result)
    BY <1>3, VisibleAppend DEF AppendVisible, White
  <2>4. result' = Append(r, cp) /\ origin' = Append(o, read + 1)
    BY <1>6
  <2> HIDE DEF r, o
  <2>5. Visible(result') = AppendVisible(Visible(r), cp) /\ result' \in Seq(Char)
    BY <1>2, <2>2, <2>4, VisibleAppend, AppendFacts
  <2>6. origin' \in Seq(Nat) /\ Len(origin') = Len(result')
    <3>1. Len(origin') = Len(o) + 1 /\ origin' \in Seq(Nat)
      BY <1>2, <2>2, <2>4, AppendFacts
    <3>2. Len(result') = Len(r) + 1
      BY <1>2, <2>2, <2>4, AppendFacts
    <3> QED  BY <2>2, <3>1, <3>2
  <2>7. OnlyWhiteSpaceIsTouched'
    BY <1>3, <1>5, <2>3, <2>5 DEF OnlyWhiteSpaceIsTouched
  <2> QED  BY <1>2, <1>4, <2>1, <2>5, <2>6, <2>7 DEF CleanInv
<1>7. CASE /\ read > 0 /\ Input[read] = SPACE => cp # SPACE
           /\ result' = Append(result, cp) /\ origin' = Append(origin, read + 1)
  <2>1. OriginsExplain'
    BY <1>1, <1>7, KeepExplains
  <2>2. Visible(result') = AppendVisible(Visible(result), cp) /\ result' \in Seq(Char)
    BY <1>2, <1>3, <1>7, VisibleAppend, AppendFacts
  <2>3. origin' \in Seq(Nat) /\ Len(origin') = Len(result')
    <3>1. Len(origin') = Len(origin) + 1 /\ origin' \in Seq(Nat)
      BY <1>2, <1>3, <1>7, AppendFacts
    <3>2. Len(result') = Len(result) + 1
      BY <1>2, <1>3, <1>7, AppendFacts
    <3> QED  BY <1>3, <3>1, <3>2
  <2>4. OnlyWhiteSpaceIsTouched'
    BY <1>3, <1>5, <2>2 DEF OnlyWhiteSpaceIsTouched
  <2> QED  BY <1>2, <1>4, <2>1, <2>2, <2>3, <2>4 DEF CleanInv
<1>8. CASE /\ read > 0 /\ result' = result /\ origin' = origin
           /\ cp \in White /\ \A l : l = read + 1 => Dropped(l)'
  <2>1. OriginsExplain'
    BY <1>8, DropExplains
  <2>2. OnlyWhiteSpaceIsTouched'
    BY <1>3, <1>5, <1>8 DEF OnlyWhiteSpaceIsTouched, AppendVisible
  <2> QED  BY <1>2, <1>3, <1>4, <1>8, <2>1, <2>2 DEF CleanInv
<1> QED  BY <1>1, <1>6, <1>7, <1>8, RoundCases

LEMMA CleanStaysPut ==
  ASSUME CleanInv, UNCHANGED <<raw, read, prevPoints, result, origin>>, cleaning' \in BOOLEAN
  PROVE  CleanInv'
<1>1. CleanTypeOK' /\ Input' = Input
  BY DEF CleanInv, CleanTypeOK, Input
<1>2. MemoryIsOfInput'
  BY <1>1 DEF CleanInv, MemoryIsOfInput
<1>3. \A k : (Kept(k)' <=> Kept(k)) /\ (Completes(k)' <=> Completes(k))
  BY <1>1 DEF Kept, Completes
<1>4. \A l : Dropped(l)' <=> Dropped(l)
  BY <1>1 DEF Dropped, TakenForExtra
<1>5. OriginsExplain'
  BY <1>3, <1>4 DEF CleanInv, OriginsExplain
<1>6. OnlyWhiteSpaceIsTouched'
  BY <1>1 DEF CleanInv, OnlyWhiteSpaceIsTouched
<1> QED  BY <1>1, <1>2, <1>5, <1>6 DEF CleanInv

LEMMA CleanBeginsWell ==
  ASSUME NEW t, t \in Seq(Nat), \A i \in DOMAIN t : Replaced(t[i]) \in Char,
         NEW running \in BOOLEAN, CleanBegins(t, running)
  PROVE  CleanInv
<1>1. /\ raw = t /\ read = 0 /\ prevPoints = <<0, 0>> /\ cleaning \in BOOLEAN
      /\ result = <<>> /\ origin = <<>> /\ Len(result) = 0 /\ Len(origin) = 0
      /\ result \in Seq(Char) /\ origin \in Seq(Nat) /\ Len(t) \in Nat
  BY EmptySeq, LenProperties DEF CleanBegins
<1>2. CleanTypeOK
  BY <1>1 DEF CleanTypeOK
<1>3. Input = result
  <2>1. Input \in Seq(Char) /\ Len(Input) = 0
    BY <1>1, <1>2, InputFacts
  <2> QED  BY <1>1, <2>1, EmptySeq
<1>4. MemoryIsOfInput
  BY <1>1 DEF MemoryIsOfInput
<1>5. OriginsExplain
  BY <1>1 DEF OriginsExplain
<1> QED  BY <1>2, <1>3, <1>4, <1>5 DEF CleanInv, OnlyWhiteSpaceIsTouched

(* The reasons of what was dropped, read from the result.                  *)
LEMMA CleanInvJoins == CleanInv => JoinedOnlyIf
<1> SUFFICES ASSUME CleanInv, NEW k \in 1 .. Len(result) - 1,
                    NEW i, i = origin[k], NEW j, j = origin[k + 1]
             PROVE  /\ result[k] \notin White /\ result[k + 1] \notin White /\ j > i + 1 =>
                         j = i + 2 /\ TakenForExtra(i + 1)
                    /\ result[k] = SPACE /\ result[k + 1] = SPACE =>
                         \E l \in i + 1 .. j - 1 : TakenForExtra(l)
  BY DEF JoinedOnlyIf
<1>1. /\ read \in Nat /\ Len(result) \in Nat /\ DOMAIN result = 1 .. Len(result)
      /\ k \in DOMAIN result /\ k + 1 \in DOMAIN result
  BY InputFacts, LenProperties DEF CleanInv, CleanTypeOK
<1>2. /\ i \in 1 .. read /\ (Kept(k) \/ Completes(k))
      /\ j \in 1 .. read /\ (Kept(k + 1) \/ Completes(k + 1))
  BY <1>1 DEF CleanInv, OriginsExplain
<1>3. /\ i < j \/ result[k] = CARRIAGE_RETURN
      /\ \A l \in i + 1 .. j - 1 : Dropped(l)
  BY DEF CleanInv, OriginsExplain
<1>4. ASSUME result[k] \notin White, j > i + 1
      PROVE  j = i + 2 /\ TakenForExtra(i + 1)
  <2>1. Input[i] = result[k] /\ Input[i] # NEW_LINE /\ Input[i] # SPACE
    BY <1>2, <1>4 DEF Kept, Completes, White
  <2>2. /\ i + 1 \in i + 1 .. j - 1 /\ (i + 1) - 1 = i /\ (i + 2) - 2 = i
        /\ (i + 2) - 1 = i + 1
    BY <1>2, <1>4
  <2>3. TakenForExtra(i + 1)
    BY <1>3, <2>1, <2>2 DEF Dropped
  <2>4. Input[i + 1] = NEW_LINE
    BY <2>3 DEF TakenForExtra
  <2>5. ~Dropped(i + 2)
    BY <2>1, <2>2, <2>4 DEF Dropped, TakenForExtra, NEW_LINE, SPACE
  <2>6. i + 2 \notin i + 1 .. j - 1
    BY <1>3, <2>5
  <2>7. i \in Nat /\ j \in Nat
    BY <1>1, <1>2
  <2>8. j = i + 2
    BY <1>4, <2>6, <2>7
  <2> QED  BY <2>3, <2>8
<1>5. ASSUME result[k] = SPACE, result[k + 1] = SPACE
      PROVE  \E l \in i + 1 .. j - 1 : TakenForExtra(l)
  <2>1. Input[i] = SPACE /\ Kept(k + 1)
    BY <1>2, <1>5 DEF Kept, Completes, SPACE, NEW_LINE
  <2>2. i < j /\ j > 1
    BY <1>2, <1>3, <1>5 DEF SPACE, CARRIAGE_RETURN
  <2>3. Input[j - 1] # SPACE
    BY <1>5, <2>1, <2>2 DEF Kept
  <2>4. j - 1 # i
    BY <2>1, <2>3
  <2>5. j - 1 \in i + 1 .. j - 1
    BY <1>2, <2>2, <2>4
  <2>6. TakenForExtra(j - 1)
    BY <1>3, <2>3, <2>5 DEF Dropped
  <2> QED  BY <2>5, <2>6
<1> QED  BY <1>4, <1>5

-----------------------------------------------------------------------------
(* Proofs about tokens.                                                    *)
LEMMA TextFacts ==
  ASSUME text \in Seq(Char)
  PROVE  /\ Len(text) \in Nat /\ DOMAIN text = 1 .. Len(text)
         /\ \A i \in 1 .. Len(text) : text[i] \in Char /\ Width[text[i]] \in 1 .. 4
         /\ Len(text) = 0 <=> text = <<>>
BY LenProperties, EmptySeq, ElementOfSeq, TokenAssumption

(* The search for a class of characters ends at the first one behind k.    *)
LEMMA SkipFacts ==
  ASSUME text \in Seq(Char), NEW k \in 0 .. Len(text), NEW class,
         NEW j, j = SkipTo(k, class)
  PROVE  /\ j \in k .. Len(text) /\ (j = Len(text) \/ text[j + 1] \in class)
         /\ \A i \in k + 1 .. j : text[i] \notin class
<1> DEFINE S == {i \in k .. Len(text) : i = Len(text) \/ text[i + 1] \in class}
<1>1. Len(text) \in Nat /\ k \in Nat
  BY TextFacts
<1>2. S \subseteq Nat /\ Len(text) \in S
  BY <1>1
<1>3. PICK m \in S : \A y \in S : m <= y
  BY <1>2, Sums!NatHasLeast
<1>4. j \in S /\ \A y \in S : j <= y
  <2> HIDE DEF S
  <2>1. j = CHOOSE x \in S : \A y \in S : x <= y
    BY DEF SkipTo, Min, S
  <2> QED  BY <1>3, <2>1
<1>5. ASSUME NEW i \in k + 1 .. j PROVE text[i] \notin class
  <2>1. i - 1 \in k .. Len(text) /\ i - 1 < j /\ (i - 1) + 1 = i
    BY <1>1, <1>4
  <2>2. i - 1 \notin S
    BY <1>2, <1>4, <2>1
  <2> QED  BY <2>1, <2>2
<1> QED  BY <1>4, <1>5

(* Byte offsets grow with every code point.                                *)
LEMMA OffsetStep ==
  ASSUME text \in Seq(Char), NEW k \in 0 .. Len(text) - 1
  PROVE  /\ Offset(k) \in Nat /\ Offset(k + 1) \in Nat
         /\ Offset(k) < Offset(k + 1)
<1> DEFINE f == [i \in DOMAIN text |-> Width[text[i]]]
           F(s) == Sums!Folded(0, f, s)
<1>1. \A i \in 1 .. k + 1 : f[i] \in 1 .. 4
  BY TextFacts
<1>2. Offset(k) = F(1 .. k) /\ Offset(k + 1) = F(1 .. k + 1)
  BY DEF Offset, FoldFunctionOnSet, Sums!Folded, MapThenFoldSet, Sums!MapThenFoldSet, Plus, AnyOf
<1>3. k \in Nat
  BY TextFacts
<1> HIDE DEF f
<1>4. ASSUME NEW n \in Nat
      PROVE  Sums!IsFiniteSet(1 .. n) /\ Sums!ChoosesFrom(1 .. n)
  <2>1. IsFiniteSet(1 .. n)
    BY FS_Interval
  <2>2. Sums!IsFiniteSet(1 .. n)
    BY <2>1 DEF IsFiniteSet, Sums!IsFiniteSet
  <2> QED  BY <2>2 DEF Sums!ChoosesFrom, AnyOf
<1>5. \A x \in 1 .. k + 1, v \in Nat : Plus(f[x], v) \in Nat
  BY <1>1 DEF Plus
<1>6. \A x \in 1 .. k + 1, y \in 1 .. k + 1, v \in Nat :
        Plus(f[x], Plus(f[y], v)) = Plus(f[y], Plus(f[x], v))
  BY <1>1, SMTT(30) DEF Plus
<1>7. ASSUME NEW S, S = 1 .. k + 1
      PROVE  Sums!Folded(0, f, S) = Plus(f[k + 1], Sums!Folded(0, f, S \ {k + 1}))
  <2>1. k + 1 \in S /\ Sums!IsFiniteSet(S) /\ Sums!ChoosesFrom(S)
    BY <1>3, <1>4, <1>7
  <2>2. 0 \in Nat /\ \A x \in S, v \in Nat : Plus(f[x], v) \in Nat
    BY <1>5, <1>7
  <2>3. \A x \in S, y \in S, v \in Nat :
          Plus(f[x], Plus(f[y], v)) = Plus(f[y], Plus(f[x], v))
    BY <1>6, <1>7
  <2>4. ASSUME NEW V, V = Nat
        PROVE  \A x \in S : Sums!Folded(0, f, S) = Plus(f[x], Sums!Folded(0, f, S \ {x}))
    <3>1. 0 \in V /\ \A x \in S, v \in V : Plus(f[x], v) \in V
      BY <2>2, <2>4
    <3>2. \A x \in S, y \in S, v \in V :
            Plus(f[x], Plus(f[y], v)) = Plus(f[y], Plus(f[x], v))
      BY <2>3, <2>4
    <3> QED  BY <2>1, <3>1, <3>2, Sums!FoldRemove
  <2> QED  BY <2>1, <2>4
<1>8. ASSUME NEW S, S = 1 .. k
      PROVE  Sums!Folded(0, f, S) \in Nat
  <2>1. Sums!IsFiniteSet(S) /\ Sums!ChoosesFrom(S)
    BY <1>3, <1>4, <1>8
  <2>2. \A x \in 1 .. k : x \in 1 .. k + 1
    BY <1>3
  <2>3. \A x \in S, v \in Nat : Plus(f[x], v) \in Nat
    BY <1>5, <1>8, <2>2
  <2>4. 0 \in Nat
    OBVIOUS
  <2> QED  BY <2>1, <2>3, <2>4, Sums!FoldType
<1>9. (1 .. k + 1) \ {k + 1} = 1 .. k
  BY <1>3
<1>10. F(1 .. k + 1) = Plus(f[k + 1], F(1 .. k)) /\ F(1 .. k) \in Nat
  BY <1>7, <1>8, <1>9
<1>11. f[k + 1] \in 1 .. 4
  BY <1>1, <1>3
<1> HIDE DEF F
<1>12. F(1 .. k + 1) = f[k + 1] + F(1 .. k)
  BY <1>10 DEF Plus
<1> QED  BY <1>2, <1>10, <1>11, <1>12

LEMMA OffsetGrows ==
  ASSUME text \in Seq(Char), NEW k \in 0 .. Len(text), NEW m \in 0 .. Len(text), k < m
  PROVE  Offset(k) \in Nat /\ Offset(m) \in Nat /\ Offset(k) < Offset(m)
<1> DEFINE T == {n \in Nat : k + 1 + n <= Len(text) =>
                   Offset(k + 1 + n) \in Nat /\ Offset(k) < Offset(k + 1 + n)}
<1>1. Len(text) \in Nat /\ k \in Nat /\ k \in 0 .. Len(text) - 1
  BY TextFacts
<1>2. Offset(k) \in Nat /\ Offset(k + 1) \in Nat /\ Offset(k) < Offset(k + 1)
  BY <1>1, OffsetStep
<1>3. 0 \in T
  <2>1. k + 1 + 0 = k + 1
    BY <1>1
  <2> QED  BY <1>2, <2>1
<1>4. ASSUME NEW n \in T PROVE n + 1 \in T
  <2>1. SUFFICES ASSUME k + 1 + (n + 1) <= Len(text)
                 PROVE  /\ Offset(k + 1 + (n + 1)) \in Nat
                        /\ Offset(k) < Offset(k + 1 + (n + 1))
    OBVIOUS
  <2> DEFINE x == k + 1 + n
  <2>2. x \in 0 .. Len(text) - 1 /\ k + 1 + (n + 1) = x + 1
    BY <1>1, <2>1
  <2>3. Offset(x) \in Nat /\ Offset(k) < Offset(x)
    BY <1>1, <2>1
  <2> HIDE DEF x
  <2>4. Offset(x + 1) \in Nat /\ Offset(x) < Offset(x + 1)
    BY <2>2, OffsetStep
  <2>5. Offset(k) < Offset(x + 1)
    BY <1>2, <2>3, <2>4
  <2> QED  BY <2>2, <2>4, <2>5
<1>5. T = Nat
  <2>1. T \subseteq Nat
    OBVIOUS
  <2> HIDE DEF T
  <2> QED  BY <1>3, <1>4, <2>1, Sums!NatSetInduction
<1>6. m - k - 1 \in Nat /\ k + 1 + (m - k - 1) = m /\ m <= Len(text)
  BY <1>1
<1>7. m - k - 1 \in T
  BY <1>5, <1>6
<1> QED  BY <1>2, <1>6, <1>7

LEMMA RunFacts ==
  ASSUME text \in Seq(Char), NEW r \in Runs
  PROVE  /\ r \in Runner /\ Good(r) /\ r.start \in Nat /\ r.end \in Nat
         /\ r.start < r.end /\ r.end <= Len(text)
         /\ \A k \in r.start + 1 .. r.end : text[k] \in Letter
         /\ r.start = 0 \/ text[r.start] \notin Letter
         /\ r.end = Len(text) \/ text[r.end + 1] \notin Letter
BY TextFacts DEF Runs, RunsOf, Runner, Good

(* Between two words there is a character that is no letter.               *)
LEMMA RunsInOrder ==
  ASSUME text \in Seq(Char), NEW r \in Runs, NEW q \in Runs, r.start <= q.start
  PROVE  r = q \/ r.end < q.start
<1>1. /\ r.start \in Nat /\ r.end \in Nat /\ r.start < r.end /\ r.end <= Len(text)
      /\ \A k \in r.start + 1 .. r.end : text[k] \in Letter
      /\ r.end = Len(text) \/ text[r.end + 1] \notin Letter
  BY RunFacts
<1>2. /\ q.start \in Nat /\ q.end \in Nat /\ q.start < q.end /\ q.end <= Len(text)
      /\ \A k \in q.start + 1 .. q.end : text[k] \in Letter
      /\ q.start = 0 \/ text[q.start] \notin Letter
      /\ q.end = Len(text) \/ text[q.end + 1] \notin Letter
  BY RunFacts
<1>3. CASE r.start = q.start
  <2>1. ~(r.end < q.end)
    <3>1. SUFFICES ASSUME r.end < q.end PROVE FALSE
      OBVIOUS
    <3>2. r.end + 1 \in q.start + 1 .. q.end
      BY <1>1, <1>2, <1>3, <3>1
    <3> QED  BY <1>1, <1>2, <3>1, <3>2, TextFacts
  <2>2. ~(q.end < r.end)
    <3>1. SUFFICES ASSUME q.end < r.end PROVE FALSE
      OBVIOUS
    <3>2. q.end + 1 \in r.start + 1 .. r.end
      BY <1>1, <1>2, <1>3, <3>1
    <3> QED  BY <1>1, <1>2, <3>1, <3>2, TextFacts
  <2>3. r.end = q.end
    BY <1>1, <1>2, <2>1, <2>2
  <2> QED  BY <1>3, <2>3 DEF Runs, RunsOf
<1>4. CASE r.start < q.start
  <2>1. q.start \notin r.start + 1 .. r.end
    BY <1>1, <1>2, <1>4
  <2> QED  BY <1>1, <1>2, <1>4, <2>1
<1> QED  BY <1>1, <1>2, <1>3, <1>4

(* A run begins where a letter follows something else.                     *)
LEMMA RunAt ==
  ASSUME text \in Seq(Char), NEW s \in 0 .. Len(text) - 1, text[s + 1] \in Letter,
         s = 0 \/ text[s] \notin Letter, NEW e, e = SkipTo(s, Char \ Letter)
  PROVE  /\ [start |-> s, end |-> e] \in Runs
         /\ e \in Nat /\ s < e /\ e <= Len(text)
<1>1. Len(text) \in Nat /\ s \in 0 .. Len(text)
  BY TextFacts
<1>2. /\ e \in s .. Len(text) /\ (e = Len(text) \/ text[e + 1] \in Char \ Letter)
      /\ \A i \in s + 1 .. e : text[i] \notin Char \ Letter
  BY <1>1, SkipFacts
<1>3. ASSUME NEW i \in s + 1 .. e PROVE text[i] \in Letter
  <2>1. i \in 1 .. Len(text)
    BY <1>1, <1>2
  <2> QED  BY <1>2, <2>1, TextFacts
<1>4. s < e /\ s \in Nat /\ e \in 0 .. Len(text)
  BY <1>1, <1>2
<1>5. PICK r : r = [start |-> s, end |-> e]
  OBVIOUS
<1>6. r \in [start : 0 .. Len(text), end : 0 .. Len(text)] /\ r.start = s /\ r.end = e
  BY <1>1, <1>4, <1>5
<1>7. r.end = Len(text) \/ text[r.end + 1] \notin Letter
  BY <1>2, <1>6
<1>8. r \in Runs
  BY <1>3, <1>4, <1>6, <1>7 DEF Runs, RunsOf
<1> QED  BY <1>4, <1>5, <1>8

(* The first token is the first word, or empty if the text does not begin  *)
(* with a letter.                                                          *)
LEMMA FirstFacts ==
  ASSUME text \in Seq(Char), NEW u, u = FirstToken
  PROVE  /\ u \in Runner /\ u.start = 0 /\ u.end <= Len(text)
         /\ \/ u \in Runs
            \/ ~Good(u) /\ u \notin Runs /\ u.end = 0 /\ text[1] \notin Letter /\ Len(text) > 0
            \/ ~Good(u) /\ u \notin Runs /\ u.end = 0 /\ Len(text) = 0 /\ Runs = {}
<1> DEFINE e == SkipTo(0, Char \ Letter)
<1>1. /\ Len(text) \in Nat /\ 0 \in 0 .. Len(text)
      /\ \A i \in 1 .. Len(text) : text[i] \in Char
  BY TextFacts
<1>2. /\ e \in 0 .. Len(text)
      /\ \A i \in 1 .. e : text[i] \notin Char \ Letter
  BY <1>1, SkipFacts
<1>3. u = [start |-> 0, end |-> e]
  BY DEF FirstToken
<1>4. CASE Len(text) = 0
  <2>1. e = 0 /\ ~Good(u)
    BY <1>2, <1>3, <1>4 DEF Good
  <2>2. Runs = {}
    BY <1>4 DEF Runs, RunsOf
  <2> HIDE DEF e
  <2> QED  BY <1>3, <1>4, <2>1, <2>2 DEF Runner
<1>5. CASE Len(text) > 0 /\ text[1] \in Letter
  <2>1. 0 \in 0 .. Len(text) - 1 /\ 0 + 1 = 1
    BY <1>1, <1>5
  <2>2. u \in Runs
    BY <1>3, <1>5, <2>1, RunAt
  <2> HIDE DEF e
  <2> QED  BY <1>2, <1>3, <2>2 DEF Runner
<1>6. CASE Len(text) > 0 /\ text[1] \notin Letter
  <2>1. e = 0
    BY <1>1, <1>2, <1>6, SkipFacts
  <2>2. ~Good(u) /\ u \notin Runs
    <3>1. u.start = 0 /\ u.end = 0
      BY <1>3, <2>1
    <3> QED  BY <3>1, RunFacts DEF Good
  <2> HIDE DEF e
  <2> QED  BY <1>3, <1>6, <2>1, <2>2 DEF Runner
<1> QED  BY <1>1, <1>4, <1>5, <1>6

(* The token behind a word is the next word, or empty: at the end of the   *)
(* text, or where a word begins at the byte offset Sentinel.  There is no  *)
(* letter in between.                                                      *)
LEMMA NextFacts ==
  ASSUME text \in Seq(Char), NEW r \in Runs, NEW u, u = NextToken(r)
  PROVE  /\ u \in Runner /\ r.end <= u.start /\ u.start <= u.end /\ u.end <= Len(text)
         /\ \A i \in r.end + 1 .. u.start : text[i] \notin Letter
         /\ \/ u \in Runs /\ r.end < u.start
            \/ ~Good(u) /\ u \notin Runs /\ u.start = u.end /\ u.start = Len(text)
            \/ /\ ~Good(u) /\ u \notin Runs /\ u.start = u.end /\ r.end < u.start
               /\ Offset(u.start) = Sentinel
               /\ \E q \in Runs : q.start = u.start
<1> DEFINE s == SkipTo(r.end, Letter)  e == SkipTo(s, Char \ Letter)
<1>1. /\ Len(text) \in Nat /\ r.end \in 0 .. Len(text)
      /\ r.end = Len(text) \/ text[r.end + 1] \notin Letter
  BY RunFacts, TextFacts
<1>2. /\ s \in r.end .. Len(text) /\ (s = Len(text) \/ text[s + 1] \in Letter)
      /\ \A i \in r.end + 1 .. s : text[i] \notin Letter
  BY <1>1, SkipFacts
<1>3. s \in 0 .. Len(text)
  BY <1>1, <1>2
<1>4. e \in s .. Len(text)
  BY <1>3, SkipFacts
<1>5. u = [start |-> s, end |-> IF s < Len(text) /\ Offset(s) = Sentinel THEN s ELSE e]
  BY DEF NextToken
<1> HIDE DEF s, e
<1>6. u \in Runner /\ u.start = s /\ u.end \in s .. Len(text)
  BY <1>1, <1>2, <1>4, <1>5 DEF Runner
<1>7. CASE s = Len(text)
  <2>1. u.start = u.end
    BY <1>1, <1>6, <1>7
  <2>2. ~Good(u) /\ u \notin Runs
    BY <1>1, <1>6, <1>7, <2>1, RunFacts DEF Good
  <2> QED  BY <1>1, <1>2, <1>6, <1>7, <2>1, <2>2
<1>8. CASE s # Len(text)
  <2>1. s \in 0 .. Len(text) - 1 /\ text[s + 1] \in Letter
    BY <1>1, <1>2, <1>8
  <2>2. r.end < s
    BY <1>1, <1>2, <2>1
  <2>3. text[s] \notin Letter
    BY <1>1, <1>2, <2>2
  <2>4. [start |-> s, end |-> e] \in Runs
    BY <2>1, <2>3, RunAt DEF e
  <2>5. CASE Offset(s) = Sentinel
    <3>1. u.start = s /\ u.end = s
      BY <1>1, <1>5, <2>1, <2>5
    <3>2. ~Good(u) /\ u \notin Runs
      BY <1>1, <3>1, <2>1, RunFacts DEF Good
    <3>3. \E q \in Runs : q.start = u.start
      BY <2>4, <3>1
    <3> QED  BY <1>1, <1>2, <1>6, <2>2, <2>5, <3>1, <3>2, <3>3
  <2>6. CASE Offset(s) # Sentinel
    <3>1. u \in Runs
      BY <1>5, <2>4, <2>6
    <3> QED  BY <1>1, <1>2, <1>6, <2>2, <3>1
  <2> QED  BY <2>5, <2>6
<1> QED  BY <1>7, <1>8

-----------------------------------------------------------------------------
(* Proofs about counting.                                                  *)
LEMMA RangeAppend ==
  ASSUME NEW S, NEW s \in Seq(S), NEW x \in S
  PROVE  Range(Append(s, x)) = Range(s) \cup {x}
<1> DEFINE n == Len(s)  t == Append(s, x)
<1>1. /\ n \in Nat /\ DOMAIN s = 1 .. n /\ DOMAIN t = 1 .. n + 1
      /\ t[n + 1] = x /\ \A i \in 1 .. n : t[i] = s[i]
  BY AppendFacts
<1> HIDE DEF n, t
<1>2. n + 1 \in DOMAIN t /\ \A i \in DOMAIN s : i \in DOMAIN t /\ t[i] = s[i]
  BY <1>1
<1>3. \A i \in DOMAIN t : i = n + 1 \/ i \in DOMAIN s
  BY <1>1
<1>4. Range(t) = Range(s) \cup {x}
  BY <1>1, <1>2, <1>3 DEF Range
<1> QED  BY <1>4 DEF t

LEMMA SameText ==
  ASSUME text' = text
  PROVE  /\ \A x : NextToken(x)' = NextToken(x) /\ Good(x)' = Good(x) /\ Word(x)' = Word(x)
         /\ \A k : Offset(k)' = Offset(k)
         /\ FirstToken' = FirstToken /\ Runs' = Runs
<1>1. \A k, c : SkipTo(k, c)' = SkipTo(k, c)
  BY DEF SkipTo
<1> DEFINE F(t, k) == Sums!Folded(0, [i \in DOMAIN t |-> Width[t[i]]], 1 .. k)
<1>2. \A k : Offset(k)' = Offset(k)
  <2>1. \A k : Offset(k) = F(text, k)
    BY DEF Offset, FoldFunctionOnSet, Sums!Folded, MapThenFoldSet, Sums!MapThenFoldSet, Plus, AnyOf
  <2>2. \A k : Offset(k)' = F(text', k)
    BY DEF Offset, FoldFunctionOnSet, Sums!Folded, MapThenFoldSet, Sums!MapThenFoldSet, Plus, AnyOf
  <2> HIDE DEF F
  <2> QED  BY <2>1, <2>2
<1>3. \A x : NextToken(x)' = NextToken(x)
  BY <1>1, <1>2 DEF NextToken
<1>4. FirstToken' = FirstToken
  BY <1>1 DEF FirstToken
<1> QED  BY <1>2, <1>3, <1>4 DEF Good, Word, Runs

(* The iterator of the loop: the next word, or empty.                      *)
LEMMA TokenFacts ==
  ASSUME CountInv, NEW n, n = Len(visited)
  PROVE  /\ n \in Nat /\ DOMAIN visited = 1 .. n /\ (n = 0 <=> visited = <<>>)
         /\ \A i \in 1 .. n : visited[i] \in Runs
         /\ n <= Len(text) /\ Len(text) \in Nat
         /\ token \in Runner
         /\ n > 0 => /\ token = NextToken(visited[n])
                     /\ visited[n].end <= token.start
                     /\ \A i \in visited[n].end + 1 .. token.start : text[i] \notin Letter
         /\ n = 0 => token = FirstToken /\ token.start = 0
         /\ \/ /\ token \in Runs /\ Good(token) /\ token # EndToken /\ token.start < token.end
               /\ n > 0 => visited[n].end < token.start
            \/ /\ token \notin Runs /\ ~Good(token) /\ token.start = token.end
<1>1. /\ n \in Nat /\ DOMAIN visited = 1 .. n /\ (n = 0 <=> visited = <<>>)
      /\ \A i \in 1 .. n : visited[i] \in Runs
  BY LenProperties, EmptySeq, ElementOfSeq DEF CountInv
<1>2. text \in Seq(Char) /\ Len(text) \in Nat
  BY TextFacts DEF CountInv
<1>3. n <= Len(text)
  <2>1. CASE n = 0
    BY <1>2, <2>1
  <2>2. CASE n # 0
    <3>1. n \in 1 .. n
      BY <1>1, <2>2
    <3>2. n <= visited[n].end
      BY <1>1, <3>1 DEF CountInv
    <3>3. visited[n].end \in Nat /\ visited[n].end <= Len(text)
      BY <1>1, <1>2, <3>1, RunFacts
    <3> QED  BY <1>1, <1>2, <3>2, <3>3
  <2> QED  BY <2>1, <2>2
<1>4. ASSUME token \in Runs PROVE Good(token) /\ token # EndToken /\ token.start < token.end
  <2>1. Good(token) /\ token.start < token.end /\ token.start \in Nat
    BY <1>2, <1>4, RunFacts
  <2> QED  BY <1>2, <2>1 DEF EndToken, Good
<1>5. CASE n = 0
  <2>1. token = FirstToken
    BY <1>1, <1>5 DEF CountInv, FollowsOf
  <2>2. /\ token \in Runner /\ token.start = 0
        /\ token \in Runs \/ (token \notin Runs /\ ~Good(token) /\ token.end = 0)
    BY <1>2, <2>1, FirstFacts
  <2> QED  BY <1>1, <1>2, <1>3, <1>4, <1>5, <2>1, <2>2
<1>6. CASE n > 0
  <2>1. token = NextToken(visited[n]) /\ visited[n] \in Runs
    BY <1>1, <1>6 DEF CountInv, FollowsOf
  <2>2. PICK r \in Runs : r = visited[n]
    BY <2>1
  <2>3. /\ token \in Runner /\ r.end <= token.start
        /\ \A i \in r.end + 1 .. token.start : text[i] \notin Letter
        /\ \/ token \in Runs /\ r.end < token.start
           \/ token \notin Runs /\ ~Good(token) /\ token.start = token.end
    BY <1>2, <2>1, <2>2, NextFacts
  <2> QED  BY <1>1, <1>2, <1>3, <1>4, <1>6, <2>1, <2>2, <2>3
<1> QED  BY <1>1, <1>5, <1>6

(* There is no other word up to the one the iterator is at.                *)
LEMMA VisitedAndToken ==
  ASSUME CountInv, token \in Runs
  PROVE  {r \in Runs : r.end <= token.end} = Range(visited) \cup {token}
<1>1. PICK n : n = Len(visited)
  OBVIOUS
<1>2. /\ n \in Nat /\ DOMAIN visited = 1 .. n /\ (n = 0 <=> visited = <<>>)
      /\ \A i \in 1 .. n : visited[i] \in Runs
      /\ n > 0 => /\ visited[n].end < token.start
                  /\ \A i \in visited[n].end + 1 .. token.start : text[i] \notin Letter
      /\ n = 0 => token.start = 0
  BY <1>1, TokenFacts
<1>3. text \in Seq(Char)
  BY DEF CountInv
<1>4. token.start \in Nat /\ token.end \in Nat /\ token.start < token.end
  BY <1>3, RunFacts
<1>5. CASE n = 0
  <2>1. Range(visited) = {}
    BY <1>2, <1>5 DEF Range
  <2>2. ASSUME NEW r \in Runs, r.end <= token.end PROVE r = token
    <3>1. r.start \in Nat /\ r.end \in Nat /\ r.start < r.end
      BY <1>3, RunFacts
    <3>2. token = r \/ token.end < r.start
      BY <1>2, <1>3, <1>5, <3>1, RunsInOrder
    <3> QED  BY <1>4, <2>2, <3>1, <3>2
  <2> QED  BY <1>4, <2>1, <2>2
<1>6. CASE n > 0
  <2>1. PICK a \in Runs : a = visited[n]
    BY <1>2, <1>6
  <2>2. Range(visited) = {r \in Runs : r.end <= a.end}
    BY <1>1, <1>2, <1>6, <2>1 DEF CountInv, VisitedAreTheFirstRuns
  <2>3. a.end \in Nat /\ a.end < token.start
    BY <1>2, <1>3, <1>6, <2>1, RunFacts
  <2>4. ASSUME NEW r \in Runs, r.end <= token.end, ~(r.end <= a.end)
        PROVE  r = token
    <3>1. /\ r.start \in Nat /\ r.end \in Nat /\ r.start < r.end
          /\ \A k \in r.start + 1 .. r.end : text[k] \in Letter
      BY <1>3, RunFacts
    <3>2. CASE token.start <= r.start
      <4>1. token = r \/ token.end < r.start
        BY <1>3, <3>2, RunsInOrder
      <4> QED  BY <1>4, <2>4, <3>1, <4>1
    <3>3. CASE ~(token.start <= r.start)
      <4>1. r = token \/ r.end < token.start
        BY <1>3, <1>4, <3>1, <3>3, RunsInOrder
      <4>2. r.end < token.start => r.end \in a.end + 1 .. token.start
        BY <1>4, <2>3, <2>4, <3>1
      <4>3. r.end \in r.start + 1 .. r.end
        BY <3>1
      <4> QED  BY <1>2, <1>6, <2>1, <3>1, <4>1, <4>2, <4>3
    <3> QED  BY <3>2, <3>3
  <2>5. \A r \in Runs : r.end <= a.end => r.end <= token.end
    <3>1. \A r \in Runs : r.end \in Nat
      BY <1>3, RunFacts
    <3> QED  BY <1>4, <2>3, <3>1
  <2> QED  BY <1>4, <2>2, <2>4, <2>5
<1> QED  BY <1>2, <1>5, <1>6

LEMMA CountBegins ==
  ASSUME NEW t \in Seq(Char), CountTokens(t), call' = "count"
  PROVE  CountInv'
<1>1. /\ text' \in Seq(Char) /\ visited' = <<>> /\ Len(visited') = 0
      /\ visited' \in Seq(Runs') /\ DOMAIN visited' = {} /\ token' = FirstToken' /\ counting' = TRUE
  BY EmptySeq DEF CountTokens
<1>2. VisitedAreTheFirstRuns'
  BY <1>1 DEF VisitedAreTheFirstRuns
<1>3. FollowsOf(token, visited)'
  BY <1>1 DEF FollowsOf
<1> QED  BY <1>1, <1>2, <1>3 DEF CountInv

(* One more word is visited.                                               *)
LEMMA VisitKeeps ==
  ASSUME CountInv, Visit, call' = call
  PROVE  CountInv'
<1>1. PICK n : n = Len(visited)
  OBVIOUS
<1>2. /\ text \in Seq(Char) /\ text' = text /\ Runs' = Runs /\ FirstToken' = FirstToken
      /\ \A x : NextToken(x)' = NextToken(x)
  BY SameText DEF CountInv, Visit
<1>3. /\ token # EndToken /\ token.start < token.end /\ counting
      /\ counting' = counting /\ token' = NextToken(token)
  BY DEF Visit
<1>4. /\ n \in Nat /\ DOMAIN visited = 1 .. n /\ (n = 0 <=> visited = <<>>)
      /\ \A i \in 1 .. n : visited[i] \in Runs
      /\ n <= Len(text) /\ Len(text) \in Nat /\ token \in Runner
      /\ n > 0 => token = NextToken(visited[n])
      /\ n = 0 => token = FirstToken
      /\ \/ token \in Runs /\ (n > 0 => visited[n].end < token.start)
         \/ token.start = token.end
  BY <1>1, TokenFacts
<1>5. /\ token \in Runs /\ (n > 0 => visited[n].end < token.start)
      /\ token.start \in Nat /\ token.end \in Nat
  BY <1>3, <1>4 DEF Runner
<1>6. PICK w : w = Append(visited, token)
  OBVIOUS
<1>7. visited' = w
  BY <1>1, <1>4, <1>6 DEF Visit
<1>8. visited \in Seq(Runs)
  BY DEF CountInv
<1>9. /\ w \in Seq(Runs) /\ Len(w) = n + 1 /\ DOMAIN w = 1 .. n + 1
      /\ w[n + 1] = token /\ \A i \in 1 .. n : w[i] = visited[i]
  BY <1>1, <1>5, <1>6, <1>8, AppendFacts
<1>10. Range(w) = {r \in Runs : r.end <= token.end}
  BY <1>5, <1>6, <1>8, RangeAppend, VisitedAndToken
<1>11. ASSUME NEW i \in 1 .. n
       PROVE  /\ w[i].end < w[i + 1].start /\ w[i + 1] = NextToken(w[i])
              /\ i <= w[i].end
  <2>1. CASE i = n
    <3>1. w[i] = visited[n] /\ w[i + 1] = token /\ n > 0
      BY <1>4, <1>9, <2>1
    <3>2. i <= w[i].end
      BY <1>4, <1>9 DEF CountInv
    <3> QED  BY <1>4, <1>5, <3>1, <3>2
  <2>2. CASE i # n
    <3>1. i \in 1 .. n - 1 /\ i + 1 \in 1 .. n
      BY <1>4, <2>2
    <3>2. w[i] = visited[i] /\ w[i + 1] = visited[i + 1]
      BY <1>9, <3>1
    <3>3. /\ visited[i].end < visited[i + 1].start
          /\ visited[i + 1] = NextToken(visited[i]) /\ i <= visited[i].end
      BY <1>1, <1>4, <3>1 DEF CountInv, VisitedAreTheFirstRuns
    <3> QED  BY <3>2, <3>3
  <2> QED  BY <2>1, <2>2
<1>12. n + 1 <= w[n + 1].end
  <2>1. CASE n = 0
    BY <1>3, <1>5, <1>9, <2>1
  <2>2. CASE n > 0
    <3>1. visited[n].end \in Nat /\ n <= visited[n].end
      BY <1>2, <1>4, <2>2, RunFacts DEF CountInv
    <3> QED  BY <1>3, <1>4, <1>5, <1>9, <2>2, <3>1
  <2> QED  BY <1>4, <2>1, <2>2
<1>13. w[1] = FirstToken
  <2>1. CASE n = 0
    BY <1>4, <1>9, <2>1
  <2>2. CASE n > 0
    <3>1. 1 \in 1 .. n /\ visited[1] = FirstToken
      BY <1>4, <2>2 DEF CountInv
    <3> QED  BY <1>9, <3>1
  <2> QED  BY <1>4, <2>1, <2>2
<1>14. Len(w) - 1 = n /\ w # <<>> /\ w[Len(w)] = token
  BY <1>4, <1>9, EmptySeq
<1>15. VisitedAreTheFirstRuns'
  <2>1. \A i \in 1 .. Len(visited') - 1 : visited'[i].end < visited'[i + 1].start
    BY <1>7, <1>11, <1>14
  <2> QED  BY <1>2, <1>7, <1>10, <1>14, <2>1 DEF VisitedAreTheFirstRuns
<1>16. FollowsOf(token, visited)'
  BY <1>2, <1>3, <1>7, <1>14 DEF FollowsOf
<1>17. \A i \in DOMAIN w : i <= w[i].end
  <2>1. \A i \in 1 .. n + 1 : i \in 1 .. n \/ i = n + 1
    BY <1>4
  <2> QED  BY <1>9, <1>11, <1>12, <2>1
<1>18. \A i \in 1 .. Len(w) - 1 : w[i + 1] = NextToken(w[i])
  BY <1>11, <1>14
<1>19. /\ counting' \in BOOLEAN /\ (counting' => call' = "count")
       /\ counting'
  BY <1>3 DEF CountInv
<1> QED  BY <1>2, <1>7, <1>9, <1>13, <1>15, <1>16, <1>17, <1>18, <1>19 DEF CountInv

LEMMA CountStaysPut ==
  ASSUME CountInv, UNCHANGED <<text, token, visited>>, counting' \in BOOLEAN,
         counting' => call' = "count", ~counting' => ~Good(token)
  PROVE  CountInv'
<1>1. /\ Runs' = Runs /\ FirstToken' = FirstToken
      /\ \A x : NextToken(x)' = NextToken(x) /\ Good(x)' = Good(x)
  BY SameText
<1>2. VisitedAreTheFirstRuns'
  BY <1>1 DEF CountInv, VisitedAreTheFirstRuns
<1>3. FollowsOf(token, visited)'
  BY <1>1 DEF CountInv, FollowsOf
<1> QED  BY <1>1, <1>2, <1>3 DEF CountInv

(* The loop ends at a token that is no word.                               *)
LEMMA CountEnds ==
  ASSUME CountInv, BreakAtEmpty \/ ReachEnd, call' = call
  PROVE  CountInv'
<1>1. ~Good(token)
  <2>1. PICK n : n = Len(visited)
    OBVIOUS
  <2>2. \/ token # EndToken /\ token.start < token.end /\ token \in Runner
        \/ ~Good(token)
    BY <2>1, TokenFacts
  <2>3. token = EndToken \/ token.start >= token.end
    BY DEF BreakAtEmpty, ReachEnd
  <2>4. \A r \in Runner : ~ (r.start < r.end /\ r.start >= r.end)
    BY DEF Runner
  <2> QED  BY <2>2, <2>3, <2>4
<1>2. UNCHANGED <<text, token, visited>> /\ counting' = FALSE
  BY DEF BreakAtEmpty, ReachEnd
<1> QED  BY <1>1, <1>2, CountStaysPut

-----------------------------------------------------------------------------
(* Proofs about hashing.                                                   *)

(* What follows each word, once all are visited.                           *)
LEMMA ChainFacts ==
  ASSUME CountInv, ~counting, NEW n, n = Len(visited), NEW i \in 1 .. n,
         NEW a, a = visited[i], NEW b, b = NextToken(a)
  PROVE  /\ text \in Seq(Char) /\ a \in Runs /\ a \in Runner /\ Good(a)
         /\ b \in Runner /\ b.end <= Len(text) /\ a # b
         /\ i < n => b = visited[i + 1] /\ b \in Runs /\ Good(b) /\ a.start < b.start
         /\ i = n => b = token /\ b \notin Runs /\ ~Good(b) /\ b.start = b.end
<1>1. /\ text \in Seq(Char) /\ n \in Nat /\ \A k \in 1 .. n : visited[k] \in Runs
      /\ n > 0 => token = NextToken(visited[n])
  BY TokenFacts DEF CountInv
<1>2. /\ a \in Runs /\ a \in Runner /\ Good(a) /\ a.start \in Nat /\ a.end \in Nat
      /\ a.start < a.end
  BY <1>1, RunFacts
<1>3. /\ b \in Runner /\ b.end <= Len(text) /\ a.end <= b.start
      /\ \/ b \in Runs
         \/ b \notin Runs /\ ~Good(b) /\ b.start = b.end
  BY <1>1, <1>2, NextFacts
<1>4. b.start \in Nat /\ a # b /\ a.start < b.start
  BY <1>2, <1>3 DEF Runner
<1>5. CASE i < n
  <2>1. i \in 1 .. n - 1 /\ i + 1 \in 1 .. n
    BY <1>1, <1>5
  <2>2. b = visited[i + 1]
    BY <2>1 DEF CountInv
  <2> QED  BY <1>1, <1>2, <1>3, <1>4, <1>5, <2>1, <2>2, RunFacts
<1>6. CASE i = n
  <2>1. b = token
    BY <1>1, <1>6
  <2>2. ~Good(b)
    BY <2>1 DEF CountInv
  <2> QED  BY <1>1, <1>2, <1>3, <1>4, <1>6, <2>1, <2>2, RunFacts
<1> QED  BY <1>1, <1>5, <1>6

LEMMA WordType ==
  ASSUME text \in Seq(Char), NEW r \in Runner, r.end <= Len(text)
  PROVE  Word(r) \in Seq(Char)
<1>1. r.start \in Nat /\ r.end \in Nat
  BY DEF Runner
<1>2. \A i \in r.start + 1 .. r.end : text[i] \in Char
  BY <1>1, TextFacts
<1>3. r.start + 1 \in Int /\ r.end \in Int
  BY <1>1
<1> QED  BY <1>2, <1>3, SubSeqProperties DEF Word

(* Where a walk is: not at the end before every word was the first of a    *)
(* shingle.                                                                *)
LEMMA WalkFacts ==
  ASSUME CountInv, Walks, call = "hash", NEW n, n = Len(visited), NEW k, k = Len(shingles)
  PROVE  /\ n \in Nat /\ k \in Nat /\ k <= n /\ ~counting
         /\ shingles \in Seq(Runner \X Runner)
         /\ \A i \in 1 .. k : shingles[i] = <<visited[i], NextToken(visited[i])>>
         /\ Continues <=> k < n
         /\ k < n => first = visited[k + 1] /\ second = NextToken(first)
<1>1. /\ n \in Nat /\ DOMAIN visited = 1 .. n /\ \A i \in 1 .. n : visited[i] \in Runs
      /\ text \in Seq(Char) /\ Len(text) \in Nat
  BY TokenFacts DEF CountInv
<1>2. /\ shingles \in Seq(Runner \X Runner) /\ k <= n /\ ~counting
      /\ \A i \in 1 .. k : shingles[i] = <<visited[i], NextToken(visited[i])>>
      /\ k < n => first = visited[k + 1] /\ second = NextToken(first)
      /\ ~(k < n) => ~ShingleGood
      /\ prevPart1 = IF k = 0 THEN NoPart ELSE Offset(visited[k].start)
  BY DEF Walks
<1>3. k \in Nat
  BY <1>2, LenProperties
<1>4. ASSUME k < n PROVE Continues
  <2>1. k + 1 \in 1 .. n
    BY <1>1, <1>3, <1>4
  <2>2. first = visited[k + 1] /\ second = NextToken(first) /\ first \in Runs
    BY <1>1, <1>2, <1>4, <2>1
  <2>3. Good(first) /\ first # second
    BY <1>2, <2>1, <2>2, ChainFacts
  <2>4. /\ first.start \in Nat /\ first.end \in Nat /\ first.start < first.end
        /\ first.end <= Len(text)
    BY <1>1, <2>2, RunFacts
  <2>5. first # EndToken
    BY <1>1, <2>4 DEF EndToken
  <2>6. prevPart1 # Offset(first.start)
    <3>1. Offset(first.start) \in Nat
      <4>1. first.start \in 0 .. Len(text) /\ Len(text) \in 0 .. Len(text)
            /\ first.start < Len(text)
        BY <1>1, <2>4
      <4> QED  BY <1>1, <4>1, OffsetGrows
    <3>2. CASE k = 0
      BY <1>2, <3>1, <3>2 DEF NoPart
    <3>3. CASE k # 0
      <4>1. k \in 1 .. n
        BY <1>2, <1>3, <1>4, <3>3
      <4>2. PICK a : a = visited[k]
        OBVIOUS
      <4>3. NextToken(a) = first /\ a.start < first.start /\ a \in Runs
        <5>1. PICK b : b = NextToken(a)
          OBVIOUS
        <5>2. b = visited[k + 1] /\ a.start < b.start /\ a \in Runs
          BY <1>2, <1>4, <4>1, <4>2, <5>1, ChainFacts
        <5> QED  BY <2>2, <5>1, <5>2
      <4>4. a.start \in 0 .. Len(text) /\ first.start \in 0 .. Len(text)
        BY <1>1, <2>4, <4>3, RunFacts
      <4>5. /\ Offset(a.start) \in Nat /\ Offset(first.start) \in Nat
            /\ Offset(a.start) < Offset(first.start)
        BY <1>1, <4>3, <4>4, OffsetGrows
      <4>6. prevPart1 = Offset(a.start)
        BY <1>2, <3>3, <4>2
      <4> QED  BY <4>5, <4>6
    <3> QED  BY <3>2, <3>3
  <2> QED  BY <2>3, <2>5, <2>6 DEF Continues, ShingleGood
<1> QED  BY <1>1, <1>2, <1>3, <1>4 DEF Continues

LEMMA WalkKeepsWalks ==
  ASSUME CountInv, HashInv, Walk, call' = call, UNCHANGED countVars
  PROVE  /\ Walks' /\ hashing' /\ call = "hash"
         /\ shingles' = Append(shingles, <<first, second>>)
         /\ first \in Runner /\ first.end <= Len(text)
         /\ second \in Runner /\ second.end <= Len(text)
         /\ shingles \in Seq(Runner \X Runner)
<1>1. /\ hashing /\ hashing' = hashing /\ call = "hash" /\ Continues /\ Walks
      /\ text' = text /\ visited' = visited /\ counting' = counting
  BY DEF Walk, HashInv, countVars
<1>2. PICK n, k : n = Len(visited) /\ k = Len(shingles)
  OBVIOUS
<1>3. /\ n \in Nat /\ k \in Nat /\ k < n /\ ~counting
      /\ shingles \in Seq(Runner \X Runner)
      /\ \A i \in 1 .. k : shingles[i] = <<visited[i], NextToken(visited[i])>>
      /\ first = visited[k + 1] /\ second = NextToken(first)
  BY <1>1, <1>2, WalkFacts
<1>4. k + 1 \in 1 .. n
  BY <1>3
<1>5. /\ first \in Runs /\ first \in Runner /\ second \in Runner /\ first.end <= Len(text)
      /\ second.end <= Len(text)
      /\ k + 1 < n => second = visited[k + 2] /\ Good(second)
      /\ k + 1 = n => ~Good(second)
  <2>1. /\ first \in Runs /\ first \in Runner /\ second \in Runner
        /\ second.end <= Len(text) /\ text \in Seq(Char)
        /\ k + 1 < n => second = visited[(k + 1) + 1] /\ Good(second)
        /\ k + 1 = n => ~Good(second)
    BY <1>2, <1>3, <1>4, ChainFacts
  <2>2. (k + 1) + 1 = k + 2
    BY <1>3
  <2> QED  BY <2>1, <2>2, RunFacts
<1>6. n <= Len(text) /\ Len(text) \in Nat
  BY <1>2, TokenFacts
<1>7. PICK w : w = Append(shingles, <<first, second>>)
  OBVIOUS
<1>8. shingles' = w
  BY <1>2, <1>3, <1>6, <1>7 DEF Walk
<1>9. /\ w \in Seq(Runner \X Runner) /\ Len(w) = k + 1
      /\ w[k + 1] = <<first, second>> /\ \A i \in 1 .. k : w[i] = shingles[i]
  BY <1>2, <1>3, <1>5, <1>7, AppendFacts
<1>10. \A x : NextToken(x)' = NextToken(x) /\ Good(x)' = Good(x)
  BY <1>1, SameText
<1>11. \A i : Offset(i)' = Offset(i)
  BY <1>1, SameText
<1>12. \A i \in 1 .. k + 1 : w[i] = <<visited[i], NextToken(visited[i])>>
  <2>1. \A i \in 1 .. k + 1 : i = k + 1 \/ i \in 1 .. k
    BY <1>3
  <2> QED  BY <1>3, <1>9, <2>1
<1>13. CASE k + 1 < n
  <2>1. first' = visited[k + 2] /\ second' = NextToken(first')
    BY <1>5, <1>13 DEF Walk, AdvanceShingle
  <2>2. prevPart1' = Offset(visited[k + 1].start)
    BY <1>3 DEF Walk
  <2>3. (k + 1) + 1 = k + 2 /\ k + 1 # 0 /\ k + 1 <= n
    BY <1>3
  <2>4. Walks'
    BY <1>1, <1>2, <1>3, <1>8, <1>9, <1>10, <1>11, <1>12, <1>13, <2>1, <2>2, <2>3 DEF Walks
  <2> QED  BY <1>1, <1>3, <1>5, <1>7, <1>8, <2>4
<1>14. CASE k + 1 = n
  <2>1. first' = second'
    BY <1>5, <1>14 DEF Walk, AdvanceShingle
  <2>2. ~ShingleGood'
    BY <2>1 DEF ShingleGood
  <2>3. prevPart1' = Offset(visited[k + 1].start)
    BY <1>3 DEF Walk
  <2>4. k + 1 # 0 /\ k + 1 <= n /\ ~(k + 1 < n)
    BY <1>3, <1>14
  <2>5. Walks'
    BY <1>1, <1>2, <1>3, <1>8, <1>9, <1>10, <1>11, <1>12, <2>2, <2>3, <2>4 DEF Walks
  <2> QED  BY <1>1, <1>3, <1>5, <1>7, <1>8, <2>5
<1> QED  BY <1>3, <1>13, <1>14

(* The vote of a bit over one set of contents with one content more.       *)
LEMMA VoteOfOneMore ==
  ASSUME NEW S, IsFiniteSet(S), NEW s, s \notin S, NEW b,
         NEW yes, yes = Cardinality({x \in S : b \in HashBits(x)})
  PROVE  /\ yes \in Nat
         /\ Cardinality({x \in S \cup {s} : b \in HashBits(x)}) =
              IF b \in HashBits(s) THEN yes + 1 ELSE yes
<1> DEFINE Y == {x \in S : b \in HashBits(x)}
<1>1. IsFiniteSet(Y)
  BY FS_Subset
<1>2. yes \in Nat
  BY <1>1, FS_CardinalityType
<1>3. CASE b \in HashBits(s)
  <2>1. {x \in S \cup {s} : b \in HashBits(x)} = Y \cup {s}
    BY <1>3
  <2>2. s \notin Y
    OBVIOUS
  <2>3. Cardinality(Y \cup {s}) = Cardinality(Y) + 1
    BY <1>1, <2>2, FS_AddElement
  <2> QED  BY <1>2, <1>3, <2>1, <2>3
<1>4. CASE b \notin HashBits(s)
  <2>1. {x \in S \cup {s} : b \in HashBits(x)} = Y
    BY <1>4
  <2> QED  BY <1>2, <1>4, <2>1
<1> QED  BY <1>2, <1>3, <1>4

(* A shingle that the filter lacks was not counted before.                 *)
LEMMA CountedOnce ==
  ASSUME Votes, NEW s \in Seq(Char) \X Seq(Char), Missing(s),
         bloom' = bloom \cup BloomIndexes(s),
         hashAccumulator' = AddTo(hashAccumulator, s),
         counted' = Append(counted, s)
  PROVE  /\ counted' \in Seq(Seq(Char) \X Seq(Char)) /\ IsInjective(counted')
         /\ IsFiniteSet(Range(counted')) /\ Range(counted') = Range(counted) \cup {s}
         /\ bloom' = UNION {BloomIndexes(x) : x \in Range(counted')}
         /\ hashAccumulator' \in [Bit -> Int]
         /\ \A b \in Bit : hashAccumulator'[b] =
              2 * Cardinality({x \in Range(counted') : b \in HashBits(x)}) - Len(counted')
<1>1. PICK n, c, R : n = Len(counted) /\ c = Append(counted, s) /\ R = Range(counted)
  OBVIOUS
<1>2. /\ counted \in Seq(Seq(Char) \X Seq(Char)) /\ IsInjective(counted)
      /\ IsFiniteSet(R) /\ bloom = UNION {BloomIndexes(x) : x \in R}
      /\ hashAccumulator \in [Bit -> Int]
      /\ \A b \in Bit : hashAccumulator[b] =
           2 * Cardinality({x \in R : b \in HashBits(x)}) - n
  BY <1>1 DEF Votes
<1>3. s \notin R
  BY <1>2 DEF Missing
<1>4. /\ c \in Seq(Seq(Char) \X Seq(Char)) /\ Len(c) = n + 1 /\ n \in Nat
      /\ \A i \in 1 .. n : c[i] = counted[i]
      /\ c[n + 1] = s /\ DOMAIN counted = 1 .. n /\ DOMAIN c = 1 .. n + 1
  BY <1>1, <1>2, AppendFacts
<1>5. Range(c) = R \cup {s}
  <2>1. ASSUME NEW S, NEW t \in Seq(S), NEW x \in S PROVE Range(Append(t, x)) = Range(t) \cup {x}
    BY RangeAppend
  <2>2. PICK S : S = Seq(Char) \X Seq(Char)
    OBVIOUS
  <2>3. counted \in Seq(S) /\ s \in S
    BY <1>2, <2>2
  <2>4. Range(Append(counted, s)) = Range(counted) \cup {s}
    BY <2>1, <2>3
  <2> QED  BY <1>1, <2>4
<1>6. IsInjective(c)
  <2>1. \A i \in 1 .. n : counted[i] \in R /\ c[i] # s
    BY <1>1, <1>3, <1>4 DEF Range
  <2>2. \A i \in 1 .. n + 1 : i \in 1 .. n \/ i = n + 1
    BY <1>4
  <2>3. \A i, j \in 1 .. n : counted[i] = counted[j] => i = j
    BY <1>2, <1>4 DEF IsInjective
  <2>4. \A i, j \in 1 .. n + 1 : c[i] = c[j] => i = j
    BY <1>4, <2>1, <2>2, <2>3
  <2> QED  BY <1>4, <2>4 DEF IsInjective
<1>7. IsFiniteSet(R \cup {s})
  BY <1>2, FS_AddElement
<1>8. bloom' = UNION {BloomIndexes(x) : x \in R \cup {s}}
  BY <1>2
<1>9. ASSUME NEW b \in Bit
      PROVE  /\ hashAccumulator'[b] \in Int
             /\ hashAccumulator'[b] =
                  2 * Cardinality({x \in R \cup {s} : b \in HashBits(x)}) - (n + 1)
  <2>1. PICK yes : yes = Cardinality({x \in R : b \in HashBits(x)})
    OBVIOUS
  <2>2. PICK more : more = Cardinality({x \in R \cup {s} : b \in HashBits(x)})
    OBVIOUS
  <2>3. yes \in Nat /\ more = IF b \in HashBits(s) THEN yes + 1 ELSE yes
    BY <1>2, <1>3, <2>1, <2>2, VoteOfOneMore, SMTT(30)
  <2>4. hashAccumulator[b] = 2 * yes - n
    BY <1>2, <2>1
  <2>5. hashAccumulator'[b] = IF b \in HashBits(s) THEN hashAccumulator[b] + 1
                                                   ELSE hashAccumulator[b] - 1
    BY DEF AddTo
  <2> QED  BY <1>4, <2>2, <2>3, <2>4, <2>5, SMTT(30)
<1>10. hashAccumulator' \in [Bit -> Int]
  <2>1. hashAccumulator' = [b \in Bit |-> hashAccumulator'[b]]
    BY DEF AddTo
  <2> QED  BY <1>9, <2>1
<1>11. counted' = c
  BY <1>1
<1> QED  BY <1>1, <1>4, <1>5, <1>6, <1>7, <1>8, <1>9, <1>10, <1>11

LEMMA WalkKeepsVotes ==
  ASSUME CountInv, HashInv, Walk, call' = call, UNCHANGED countVars
  PROVE  Votes'
<1>1. /\ shingles' = Append(shingles, <<first, second>>) /\ text \in Seq(Char)
      /\ first \in Runner /\ first.end <= Len(text)
      /\ second \in Runner /\ second.end <= Len(text)
      /\ shingles \in Seq(Runner \X Runner) /\ text' = text
  BY WalkKeepsWalks DEF CountInv, Walk
<1>2. PICK s : s = Shingle
  OBVIOUS
<1>3. s \in Seq(Char) \X Seq(Char) /\ s = Content(<<first, second>>)
  <2>1. Word(first) \in Seq(Char) /\ Word(second) \in Seq(Char)
    BY <1>1, WordType
  <2> QED  BY <1>2, <2>1 DEF Shingle, Content
<1>4. Votes
  BY DEF HashInv
<1>5. \A x : Content(x)' = Content(x)
  BY <1>1, SameText DEF Content
<1>6. bloom' = bloom \cup BloomIndexes(s)
  BY <1>2 DEF Walk
<1>7. PICK k, w : k = Len(shingles) /\ w = Append(shingles, <<first, second>>)
  OBVIOUS
<1>8. /\ k \in Nat /\ DOMAIN shingles = 1 .. k /\ DOMAIN w = 1 .. k + 1
      /\ \A i \in 1 .. k : w[i] = shingles[i]
      /\ w[k + 1] = <<first, second>> /\ shingles' = w
  BY <1>1, <1>7, AppendFacts
<1>9. /\ Range(counted) \subseteq Range(counted')
      /\ s \in Range(counted') \/ BloomIndexes(s) \subseteq bloom'
      /\ counted' \in Seq(Seq(Char) \X Seq(Char)) /\ IsInjective(counted')
      /\ IsFiniteSet(Range(counted'))
      /\ bloom' = UNION {BloomIndexes(x) : x \in Range(counted')}
      /\ hashAccumulator' \in [Bit -> Int]
      /\ \A b \in Bit : hashAccumulator'[b] =
           2 * Cardinality({x \in Range(counted') : b \in HashBits(x)}) - Len(counted')
  <2>1. CASE Missing(s)
    <3>1. hashAccumulator' = AddTo(hashAccumulator, s) /\ counted' = Append(counted, s)
      BY <1>2, <2>1 DEF Walk
    <3> QED  BY <1>3, <1>4, <1>6, <2>1, <3>1, CountedOnce
  <2>2. CASE ~Missing(s)
    <3>1. hashAccumulator' = hashAccumulator /\ counted' = counted
      BY <1>2, <2>2 DEF Walk
    <3>2. BloomIndexes(s) \subseteq bloom /\ bloom' = bloom
      BY <1>6, <2>2 DEF Missing
    <3> QED  BY <1>4, <3>1, <3>2 DEF Votes
  <2> QED  BY <2>1, <2>2
<1>10. ASSUME NEW i \in 1 .. k + 1
       PROVE  \/ Content(w[i]) \in Range(counted')
              \/ BloomIndexes(Content(w[i])) \subseteq bloom'
  <2>1. CASE i = k + 1
    BY <1>3, <1>8, <1>9, <2>1
  <2>2. CASE i # k + 1
    <3>1. i \in 1 .. k
      BY <1>8, <2>2
    <3>2. \/ Content(shingles[i]) \in Range(counted)
          \/ BloomIndexes(Content(shingles[i])) \subseteq bloom
      BY <1>4, <1>8, <3>1 DEF Votes
    <3> QED  BY <1>6, <1>8, <1>9, <3>1, <3>2
  <2> QED  BY <2>1, <2>2
<1>11. (\A i \in DOMAIN shingles : \/ Content(shingles[i]) \in Range(counted)
                                   \/ BloomIndexes(Content(shingles[i])) \subseteq bloom)'
  BY <1>5, <1>8, <1>10
<1> QED  BY <1>9, <1>11 DEF Votes

(* Nothing walked and nothing counted: the bits have no votes.             *)
LEMMA NoVotes ==
  /\ Range(<<>>) = {} /\ Len(<<>>) = 0 /\ DOMAIN <<>> = {} /\ IsInjective(<<>>)
  /\ \A S : <<>> \in Seq(S)
  /\ IsFiniteSet({})
  /\ \A b \in Bit : Cardinality({s \in {} : b \in HashBits(s)}) = 0
<1>1. Range(<<>>) = {} /\ Len(<<>>) = 0 /\ DOMAIN <<>> = {} /\ \A S : <<>> \in Seq(S)
  BY EmptySeq DEF Range
<1>2. IsInjective(<<>>)
  BY <1>1 DEF IsInjective
<1>3. Cardinality({}) = 0 /\ IsFiniteSet({})
  BY FS_EmptySet
<1>4. ASSUME NEW b \in Bit PROVE {s \in {} : b \in HashBits(s)} = {}
  OBVIOUS
<1>5. ASSUME NEW b \in Bit PROVE Cardinality({s \in {} : b \in HashBits(s)}) = 0
  BY <1>3, <1>4
<1> QED  BY <1>1, <1>2, <1>3, <1>5

(* simhash: the words are those that the loop over the tokens visited.     *)
LEMMA HashBegins ==
  ASSUME CountInv, HashText(text), call = "count", ~counting, call' = "hash",
         UNCHANGED countVars
  PROVE  HashInv'
<1>1. /\ text' = text /\ visited' = visited /\ token' = token /\ counting' = counting
      /\ prevPart1' = NoPart /\ shingles' = <<>> /\ counted' = <<>>
      /\ bloom' = {} /\ hashAccumulator' = [b \in Bit |-> 0] /\ hashing' = TRUE
  BY DEF HashText, countVars
<1>2. first' = FirstToken /\ second' = NextToken(FirstToken)
  BY <1>1, SameText DEF HashText
<1>3. PICK n : n = Len(visited)
  OBVIOUS
<1>4. n \in Nat
  BY <1>3, LenProperties DEF CountInv
<1>5. ASSUME n = 0 PROVE ~ShingleGood'
  <2>1. ~Good(first')
    <3>1. first' = token /\ ~Good(token)
      BY <1>2, <1>3, <1>5, EmptySeq DEF CountInv, FollowsOf
    <3> QED  BY <3>1
  <2>2. ~Good(first)'
    BY <1>1, <2>1 DEF Good
  <2> QED  BY <2>2 DEF ShingleGood, Good
<1>6. ASSUME n > 0 PROVE first' = visited[1] /\ second' = NextToken(first')
  <2>1. first' = visited[1]
    BY <1>2, <1>3, <1>6, EmptySeq DEF CountInv
  <2>2. second' = NextToken(first')
    BY <1>2
  <2> QED  BY <2>1, <2>2
<1>7. second' = NextToken(first)'
  BY <1>1, <1>2, SameText
<1>8. Walks'
  <2>1. shingles' \in Seq(Runner \X Runner) /\ Len(shingles') = 0
    BY <1>1, EmptySeq
  <2>2. \A i \in 1 .. 0 : FALSE
    OBVIOUS
  <2>3. 0 < n => first' = visited[0 + 1] /\ second' = NextToken(first)'
    <3>1. 0 + 1 = 1 /\ (0 < n => n > 0)
      BY <1>4
    <3> QED  BY <1>6, <1>7, <3>1
  <2>4. ~(0 < n) => ~ShingleGood'
    BY <1>4, <1>5
  <2> QED  BY <1>1, <1>3, <1>4, <2>1, <2>2, <2>3, <2>4 DEF Walks
<1>9. Votes'
  <2>1. /\ Range(counted') = {} /\ Len(counted') = 0 /\ IsInjective(counted')
        /\ counted' \in Seq(Seq(Char) \X Seq(Char)) /\ IsFiniteSet(Range(counted'))
        /\ DOMAIN shingles' = {}
    BY <1>1, NoVotes
  <2>2. bloom' = UNION {BloomIndexes(s) : s \in Range(counted')}
    BY <1>1, <2>1
  <2>3. ASSUME NEW b \in Bit
        PROVE  hashAccumulator'[b] =
                 2 * Cardinality({s \in Range(counted') : b \in HashBits(s)}) - Len(counted')
    <3>1. Cardinality({s \in Range(counted') : b \in HashBits(s)}) = 0
      BY <2>1, NoVotes
    <3> QED  BY <1>1, <2>1, <3>1
  <2>4. hashAccumulator' \in [Bit -> Int]
    BY <1>1
  <2> QED  BY <2>1, <2>2, <2>3, <2>4 DEF Votes
<1> QED  BY <1>1, <1>8, <1>9 DEF HashInv

LEMMA FinishKeeps ==
  ASSUME CountInv, HashInv, Finish, call' = call, UNCHANGED countVars
  PROVE  HashInv'
<1>1. /\ UNCHANGED <<text, visited, token, counting, first, second, prevPart1, bloom,
                     hashAccumulator, shingles, counted>>
      /\ hashing' = FALSE /\ hashing /\ ~Continues
  BY DEF Finish, countVars
<1>2. call = "hash" /\ Walks /\ Votes
  BY <1>1 DEF HashInv
<1>3. Len(shingles) = Len(visited)
  <2>1. PICK n, k : n = Len(visited) /\ k = Len(shingles)
    OBVIOUS
  <2>2. n \in Nat /\ k \in Nat /\ k <= n /\ ~(k < n)
    BY <1>1, <1>2, <2>1, WalkFacts
  <2> QED  BY <2>1, <2>2
<1>4. /\ ShingleGood' = ShingleGood /\ \A x : NextToken(x)' = NextToken(x)
      /\ \A x : Offset(x)' = Offset(x) /\ Content(x)' = Content(x)
  BY <1>1, SameText DEF ShingleGood, Content
<1>5. Walks'
  BY <1>1, <1>2, <1>3, <1>4 DEF Walks
<1>6. Votes'
  BY <1>1, <1>2, <1>4 DEF Votes
<1> QED  BY <1>1, <1>2, <1>5, <1>6 DEF HashInv

(* Before a text is hashed nothing of it is walked.                        *)
LEMMA HashStaysEmpty ==
  ASSUME HashInv, UNCHANGED hashVars, CountInv', call # "hash", call' # "hash"
  PROVE  HashInv'
<1>1. /\ shingles = <<>> /\ counted = <<>> /\ ~hashing /\ hashing' = hashing
      /\ shingles' = <<>> /\ counted' = <<>> /\ hashing \in BOOLEAN
  BY DEF HashInv, hashVars
<1>2. DOMAIN shingles = {} /\ Len(shingles) = 0
  BY <1>1, EmptySeq
<1>3. Walks'
  <2>1. shingles' \in Seq(Runner \X Runner) /\ Len(shingles') = 0
    BY <1>1, EmptySeq
  <2>2. Len(visited') \in Nat
    BY LenProperties DEF CountInv
  <2>3. \A i \in 1 .. 0 : FALSE
    OBVIOUS
  <2> QED  BY <2>1, <2>2, <2>3 DEF Walks
<1>4. Votes'
  BY <1>1, <1>2 DEF HashInv, Votes, hashVars
<1> QED  BY <1>1, <1>3, <1>4 DEF HashInv

LEMMA HashStaysPut ==
  ASSUME HashInv, UNCHANGED <<hashVars, text, countVars, call>>
  PROVE  HashInv'
<1>1. UNCHANGED <<text, visited, token, counting, first, second, prevPart1, bloom,
                  hashAccumulator, hashing, shingles, counted, call>>
  BY DEF hashVars, countVars
<1>2. /\ ShingleGood' = ShingleGood /\ \A x : NextToken(x)' = NextToken(x)
      /\ \A x : Offset(x)' = Offset(x) /\ Content(x)' = Content(x)
  BY <1>1, SameText DEF ShingleGood, Content
<1>3. Walks'
  BY <1>1, <1>2 DEF HashInv, Walks
<1>4. Votes'
  BY <1>1, <1>2 DEF HashInv, Votes
<1> QED  BY <1>1, <1>3, <1>4 DEF HashInv

-----------------------------------------------------------------------------
(* The three invariants together.                                          *)
LEMMA InitIInv ==
  ASSUME Init
  PROVE  IInv
<1>1. text = <<>> /\ NoCount /\ NoHash /\ call \in {"lookup", "none", "clean"}
  BY DEF Init
<1>2. CleanInv
  <2>1. ASSUME NEW t \in RawTexts
        PROVE  t \in Seq(Nat) /\ \A i \in DOMAIN t : Replaced(t[i]) \in Char
    <3>1. t \in Seq(Nat \ {0}) /\ \A i \in DOMAIN t : Replaced(t[i]) \in Char
      BY CleanAssumption, TextCallsAssumption
    <3> QED  BY <3>1
  <2>2. CASE CleanBegins(<<>>, FALSE)
    <3>1. <<>> \in Seq(Nat) /\ DOMAIN <<>> = {} /\ FALSE \in BOOLEAN
      BY EmptySeq
    <3> QED  BY <2>2, <3>1, CleanBeginsWell
  <2>3. CASE \E t \in RawTexts : CleanBegins(t, TRUE)
    <3>1. PICK t \in RawTexts : CleanBegins(t, TRUE)
      BY <2>3
    <3> QED  BY <2>1, <3>1, CleanBeginsWell
  <2> QED  BY <2>2, <2>3 DEF Init
<1>3. text \in Seq(Char) /\ Len(text) = 0
  BY <1>1, EmptySeq
<1>4. CountInv
  <2>1. FirstToken = EndToken
    <3>1. PICK j : j = SkipTo(0, Char \ Letter)
      OBVIOUS
    <3>2. j = 0
      <4>1. 0 \in 0 .. Len(text)
        BY <1>3
      <4>2. j \in 0 .. 0
        BY <1>3, <3>1, <4>1, SkipFacts
      <4> QED  BY <4>2
    <3> QED  BY <1>3, <3>1, <3>2 DEF FirstToken, EndToken
  <2>2. token = FirstToken /\ visited = <<>> /\ counting = FALSE
    BY <1>1, <2>1 DEF NoCount
  <2>3. ~Good(token)
    BY <2>1, <2>2 DEF Good, EndToken
  <2>4. visited \in Seq(Runs) /\ Len(visited) = 0 /\ DOMAIN visited = {}
    BY <2>2, EmptySeq
  <2>5. VisitedAreTheFirstRuns
    BY <2>2, <2>4 DEF VisitedAreTheFirstRuns
  <2>6. FollowsOf(token, visited)
    BY <2>2 DEF FollowsOf
  <2>7. \A i \in 1 .. Len(visited) - 1 : visited[i + 1] = NextToken(visited[i])
    BY <2>4
  <2> QED  BY <1>3, <2>2, <2>3, <2>4, <2>5, <2>6, <2>7 DEF CountInv
<1>5. HashInv
  <2>1. /\ bloom = {} /\ hashAccumulator = [b \in Bit |-> 0] /\ hashing = FALSE
        /\ shingles = <<>> /\ counted = <<>>
    BY <1>1 DEF NoHash
  <2>2. Walks
    <3>1. Len(visited) = 0
      BY <1>1, EmptySeq DEF NoCount
    <3>2. shingles \in Seq(Runner \X Runner) /\ Len(shingles) = 0
      BY <2>1, EmptySeq
    <3>3. \A i \in 1 .. 0 : FALSE
      OBVIOUS
    <3> QED  BY <1>1, <3>1, <3>2, <3>3 DEF Walks
  <2>3. Votes
    <3>1. /\ Range(counted) = {} /\ Len(counted) = 0 /\ IsInjective(counted)
          /\ counted \in Seq(Seq(Char) \X Seq(Char)) /\ IsFiniteSet(Range(counted))
          /\ DOMAIN shingles = {}
      BY <2>1, NoVotes
    <3>2. bloom = UNION {BloomIndexes(s) : s \in Range(counted)}
      BY <2>1, <3>1
    <3>3. ASSUME NEW b \in Bit
          PROVE  hashAccumulator[b] =
                   2 * Cardinality({s \in Range(counted) : b \in HashBits(s)}) - Len(counted)
      <4>1. Cardinality({s \in Range(counted) : b \in HashBits(s)}) = 0
        BY <3>1, NoVotes
      <4> QED  BY <2>1, <3>1, <4>1
    <3>4. hashAccumulator \in [Bit -> Int]
      BY <2>1
    <3> QED  BY <3>1, <3>2, <3>3, <3>4 DEF Votes
  <2> QED  BY <1>1, <2>1, <2>2, <2>3 DEF HashInv
<1> QED  BY <1>2, <1>4, <1>5 DEF IInv

LEMMA NextIInv ==
  ASSUME IInv, [Next]_vars
  PROVE  IInv'
<1> USE DEF IInv
<1>1. CASE (GoBelow \/ GoFrom) /\ Looking
  <2>1. UNCHANGED <<call, cleanVars, text, countVars, hashVars>>
    BY <1>1 DEF Looking
  <2>2. CleanInv'
    BY <2>1, CleanStaysPut DEF cleanVars, CleanInv, CleanTypeOK
  <2>3. CountInv'
    BY <2>1, CountStaysPut DEF countVars, CountInv
  <2>4. HashInv'
    BY <2>1, HashStaysPut
  <2> QED  BY <2>2, <2>3, <2>4
<1>2. CASE (CleanPoint \/ ReturnCleaned) /\ Cleaning
  <2>1. UNCHANGED <<call, text, countVars, hashVars>>
    BY <1>2 DEF Cleaning
  <2>2. CleanInv'
    <3>1. CASE CleanPoint
      BY <3>1, CleanPointKeeps
    <3>2. CASE ReturnCleaned
      BY <3>2, CleanStaysPut DEF ReturnCleaned
    <3> QED  BY <1>2, <3>1, <3>2
  <2>3. CountInv'
    BY <2>1, CountStaysPut DEF countVars, CountInv
  <2>4. HashInv'
    BY <2>1, HashStaysPut
  <2> QED  BY <2>2, <2>3, <2>4
<1>3. CASE CountPlain
  <2>1. PICK t \in PlainTexts : CountTokens(t)
    BY <1>3 DEF CountPlain
  <2>2. /\ t \in Seq(Char) /\ call = "none" /\ call' = "count"
        /\ UNCHANGED cleanVars /\ UNCHANGED hashVars
    BY <1>3, TextCallsAssumption DEF CountPlain
  <2>3. CleanInv'
    BY <2>2, CleanStaysPut DEF cleanVars, CleanInv, CleanTypeOK
  <2>4. CountInv'
    BY <2>1, <2>2, CountBegins
  <2>5. HashInv'
    BY <2>2, <2>4, HashStaysEmpty
  <2> QED  BY <2>3, <2>4, <2>5
<1>4. CASE CountCleaned
  <2>1. /\ CountTokens(result) /\ call = "clean" /\ call' = "count"
        /\ UNCHANGED cleanVars /\ UNCHANGED hashVars
    BY <1>4 DEF CountCleaned
  <2>2. result \in Seq(Char)
    BY DEF CleanInv, CleanTypeOK
  <2>3. CleanInv'
    BY <2>1, CleanStaysPut DEF cleanVars, CleanInv, CleanTypeOK
  <2>4. CountInv'
    <3>1. PICK t : t = result
      OBVIOUS
    <3>2. CountTokens(t) /\ t \in Seq(Char)
      BY <2>1, <2>2, <3>1 DEF CountTokens
    <3> QED  BY <2>1, <3>2, CountBegins
  <2>5. HashInv'
    BY <2>1, <2>4, HashStaysEmpty
  <2> QED  BY <2>3, <2>4, <2>5
<1>5. CASE (Visit \/ BreakAtEmpty \/ ReachEnd) /\ Counting
  <2>1. UNCHANGED <<call, lookupVars, cleanVars, hashVars>>
    BY <1>5 DEF Counting
  <2>2. CleanInv'
    BY <2>1, CleanStaysPut DEF cleanVars, CleanInv, CleanTypeOK
  <2>3. CountInv'
    BY <1>5, <2>1, VisitKeeps, CountEnds
  <2>4. call = "count"
    BY <1>5 DEF CountInv, Visit, BreakAtEmpty, ReachEnd
  <2>5. HashInv'
    BY <2>1, <2>3, <2>4, HashStaysEmpty
  <2> QED  BY <2>2, <2>3, <2>5
<1>6. CASE Simhash
  <2>1. /\ HashText(text) /\ call = "count" /\ ~counting /\ call' = "hash"
        /\ UNCHANGED <<lookupVars, cleanVars, countVars>>
    BY <1>6 DEF Simhash
  <2>2. CleanInv'
    BY <2>1, CleanStaysPut DEF cleanVars, CleanInv, CleanTypeOK
  <2>3. text' = text
    BY <2>1 DEF HashText
  <2>4. CountInv'
    BY <2>1, <2>3, CountStaysPut DEF countVars, CountInv
  <2>5. HashInv'
    BY <2>1, HashBegins
  <2> QED  BY <2>2, <2>4, <2>5
<1>7. CASE (Walk \/ Finish) /\ Hashing
  <2>1. UNCHANGED <<call, lookupVars, cleanVars, countVars>> /\ text' = text
    BY <1>7 DEF Hashing, Walk, Finish
  <2>2. CleanInv'
    BY <2>1, CleanStaysPut DEF cleanVars, CleanInv, CleanTypeOK
  <2>3. CountInv'
    BY <2>1, CountStaysPut DEF countVars, CountInv
  <2>4. HashInv'
    <3>1. CASE Walk
      <4>1. Walks' /\ hashing' /\ call = "hash" /\ hashing' \in BOOLEAN
        BY <2>1, <3>1, WalkKeepsWalks DEF Walk, HashInv
      <4>2. Votes'
        BY <2>1, <3>1, WalkKeepsVotes
      <4> QED  BY <2>1, <4>1, <4>2 DEF HashInv
    <3>2. CASE Finish
      BY <2>1, <3>2, FinishKeeps
    <3> QED  BY <1>7, <3>1, <3>2
  <2> QED  BY <2>2, <2>3, <2>4
<1>8. CASE UNCHANGED vars
  <2>1. UNCHANGED <<call, cleanVars, text, countVars, hashVars>>
    BY <1>8 DEF vars
  <2>2. CleanInv'
    BY <2>1, CleanStaysPut DEF cleanVars, CleanInv, CleanTypeOK
  <2>3. CountInv'
    BY <2>1, CountStaysPut DEF countVars, CountInv
  <2>4. HashInv'
    BY <2>1, HashStaysPut
  <2> QED  BY <2>2, <2>3, <2>4
<1> QED  BY <1>1, <1>2, <1>3, <1>4, <1>5, <1>6, <1>7, <1>8 DEF Next

(* The invariant of the three parts holds of every behaviour.              *)
THEOREM Invariance == Spec => []IInv
<1>1. Init => IInv
  BY InitIInv
<1>2. IInv /\ [Next]_vars => IInv'
  BY NextIInv
<1> QED  BY <1>1, <1>2, PTL DEF Spec

(* What basicClean keeps is the input, code point by code point and in its *)
(* order; all it drops or adds is spaces and line feeds.                   *)
THEOREM CleanKeepsText == Spec => []OnlyWhiteSpaceIsTouched
<1>1. IInv => OnlyWhiteSpaceIsTouched
  BY DEF IInv, CleanInv
<1> QED  BY <1>1, Invariance, PTL

(* basicClean joins two words only over one line feed that it took for an  *)
(* extra one, and leaves two spaces together only when one was between.    *)
THEOREM CleanJoins == Spec => []JoinedOnlyIf
<1>1. IInv => JoinedOnlyIf
  BY CleanInvJoins DEF IInv
<1> QED  BY <1>1, Invariance, PTL

(* TokenView: the tokens a loop went through are the first words of the    *)
(* text, none split, merged, repeated or left out.                         *)
THEOREM TokensAreWords == Spec => []VisitedAreTheFirstRuns
<1>1. IInv => VisitedAreTheFirstRuns
  BY DEF IInv, CountInv
<1> QED  BY <1>1, Invariance, PTL

-----------------------------------------------------------------------------
(* Between a visited word and the next token there is no word.             *)
LEMMA NoWordBetween ==
  ASSUME text \in Seq(Char), NEW a \in Runs, NEW b, b = NextToken(a), NEW r \in Runs
  PROVE  \/ r.end <= a.end
         \/ a.end < r.start /\ r.start >= b.start
<1>1. /\ a.start \in Nat /\ a.end \in Nat /\ r.start \in Nat /\ r.end \in Nat
      /\ r.start < r.end /\ a.start < a.end /\ text[r.start + 1] \in Letter
  <2>1. /\ a.start \in Nat /\ a.end \in Nat /\ r.start \in Nat /\ r.end \in Nat
        /\ r.start < r.end /\ a.start < a.end
    BY RunFacts
  <2>2. r.start + 1 \in r.start + 1 .. r.end
    BY <2>1
  <2> QED  BY <2>1, <2>2, RunFacts
<1>2. b.start \in Nat /\ \A i \in a.end + 1 .. b.start : text[i] \notin Letter
  BY NextFacts DEF Runner
<1>3. CASE r.start <= a.start
  BY <1>1, <1>3, RunsInOrder
<1>4. CASE a.start <= r.start /\ r # a
  <2>1. a.end < r.start
    BY <1>4, RunsInOrder
  <2>2. r.start + 1 \notin a.end + 1 .. b.start
    BY <1>1, <1>2
  <2> QED  BY <1>1, <1>2, <2>1, <2>2
<1> QED  BY <1>1, <1>3, <1>4

(* The shingles of ShingleView2 are pairs of words that follow each other; *)
(* only the last word may be alone.                                        *)
THEOREM ShinglesPairWords == Spec => []ShinglesAreAdjacentWords
<1>1. ASSUME IInv PROVE ShinglesAreAdjacentWords
  <2>1. CountInv /\ Walks /\ (call # "hash" => shingles = <<>>)
    BY <1>1 DEF IInv, HashInv
  <2>2. PICK n, k : n = Len(visited) /\ k = Len(shingles)
    OBVIOUS
  <2>3. CASE call # "hash"
    <3>1. DOMAIN shingles = {}
      BY <2>1, <2>3, EmptySeq
    <3> QED  BY <3>1 DEF ShinglesAreAdjacentWords
  <2>4. CASE call = "hash"
    <3>1. /\ n \in Nat /\ k \in Nat /\ k <= n /\ ~counting
          /\ \A i \in 1 .. k : shingles[i] = <<visited[i], NextToken(visited[i])>>
          /\ DOMAIN shingles = 1 .. k
      BY <2>1, <2>2, <2>4, WalkFacts, LenProperties
    <3>2. ASSUME NEW i \in 1 .. k, NEW a, a = shingles[i][1], NEW b, b = shingles[i][2]
          PROVE  /\ a \in Runs
                 /\ b \in Runs => Adjacent(a, b)
                 /\ b \notin Runs => b.start = b.end /\ i = k
                 /\ i > 1 => shingles[i - 1][2] = a
      <4>1. i \in 1 .. n /\ a = visited[i] /\ b = NextToken(a)
        BY <3>1, <3>2
      <4>2. /\ i < n => b \in Runs
            /\ i = n => b \notin Runs /\ b.start = b.end
        BY <2>1, <2>2, <3>1, <4>1, ChainFacts
      <4>3. text \in Seq(Char) /\ a \in Runs
        BY <2>1, <2>2, <3>1, <4>1, ChainFacts
      <4>4. ASSUME b \in Runs PROVE Adjacent(a, b)
        <5>1. a.end < b.start
          <6>1. a.end \in Nat /\ b.start \in Nat /\ b.end \in Nat /\ b.start < b.end
            BY <4>3, <4>4, RunFacts
          <6>2. a.start < b.start /\ a.start \in Nat /\ a # b
            BY <2>1, <2>2, <3>1, <4>1, <4>3, <4>4, ChainFacts, RunFacts
          <6> QED  BY <4>3, <4>4, <6>1, <6>2, RunsInOrder
        <5>2. \A r \in Runs : r.end <= a.end \/ r.start >= b.start
          BY <4>1, <4>3, NoWordBetween
        <5> QED  BY <5>1, <5>2 DEF Adjacent
      <4>5. ASSUME b \notin Runs PROVE b.start = b.end /\ i = k
        <5>1. i = n
          BY <3>1, <4>1, <4>2, <4>5
        <5>2. i = k
          BY <3>1, <5>1
        <5> QED  BY <4>2, <5>1, <5>2
      <4>6. ASSUME i > 1 PROVE shingles[i - 1][2] = a
        <5>1. i - 1 \in 1 .. k /\ i - 1 \in 1 .. n - 1 /\ (i - 1) + 1 = i
          BY <3>1, <4>1, <4>6
        <5>2. shingles[i - 1][2] = NextToken(visited[i - 1])
          BY <3>1, <5>1
        <5>3. visited[(i - 1) + 1] = NextToken(visited[i - 1])
          BY <2>1, <2>2, <5>1 DEF CountInv
        <5> QED  BY <4>1, <5>1, <5>2, <5>3
      <4> QED  BY <4>3, <4>4, <4>5, <4>6
    <3> QED  BY <2>2, <3>1, <3>2 DEF ShinglesAreAdjacentWords
  <2> QED  BY <2>3, <2>4
<1> QED  BY <1>1, Invariance, PTL

(* ConstantSpaceSimHasher: every bit of the result is the majority of the  *)
(* shingles counted, and what was not counted the filter took for seen.    *)
THEOREM MajorityVote == Spec => []ResultIsMajority
<1>1. ASSUME IInv PROVE ResultIsMajority
  <2>1. Votes
    BY <1>1 DEF IInv, HashInv
  <2>2. ASSUME NEW b \in Bit
        PROVE  b \in Result <=>
                 2 * Cardinality({s \in Range(counted) : b \in HashBits(s)}) >= Len(counted)
    <3>1. PICK yes : yes = Cardinality({s \in Range(counted) : b \in HashBits(s)})
      OBVIOUS
    <3>2. yes \in Nat
      <4>1. IsFiniteSet({s \in Range(counted) : b \in HashBits(s)})
        BY <2>1, FS_Subset DEF Votes
      <4> QED  BY <3>1, <4>1, FS_CardinalityType
    <3>3. Len(counted) \in Nat
      BY <2>1, LenProperties DEF Votes
    <3>4. hashAccumulator[b] = 2 * yes - Len(counted)
      BY <2>1, <3>1 DEF Votes
    <3>5. b \in Result <=> 2 * yes - Len(counted) >= 0
      BY <3>4 DEF Result
    <3> QED  BY <3>1, <3>2, <3>3, <3>5
  <2> QED  BY <2>1, <2>2 DEF ResultIsMajority, Votes, Content
<1> QED  BY <1>1, Invariance, PTL

(* A word is missed only behind a first code point that is no letter, or   *)
(* from the word on that begins at the offset Sentinel.                    *)
THEOREM MissesExplained == Spec => []WordsMissedOnlyIf
<1>1. ASSUME IInv, call = "hash", ~hashing
      PROVE  {shingles[i][1] : i \in DOMAIN shingles} = Range(visited)
  <2>1. CountInv /\ Walks /\ Len(shingles) = Len(visited)
    BY <1>1 DEF IInv, HashInv, Walks
  <2>2. PICK n : n = Len(visited)
    OBVIOUS
  <2>3. /\ \A i \in 1 .. n : shingles[i] = <<visited[i], NextToken(visited[i])>>
        /\ DOMAIN shingles = 1 .. n /\ DOMAIN visited = 1 .. n
    BY <1>1, <2>1, <2>2, WalkFacts, TokenFacts, LenProperties
  <2> QED  BY <2>3 DEF Range
<1>2. ASSUME IInv, ~counting, Range(visited) # Runs
      PROVE  \/ Range(visited) = {} /\ text[1] \notin Letter
             \/ \E r \in Runs : /\ Offset(r.start) = Sentinel
                               /\ Range(visited) = {q \in Runs : q.end <= r.start}
  <2>1. CountInv /\ text \in Seq(Char) /\ ~Good(token)
    BY <1>2 DEF IInv, CountInv
  <2>2. PICK n : n = Len(visited)
    OBVIOUS
  <2>3. token \notin Runs
    BY <2>1, <2>2, TokenFacts
  <2>4. CASE n = 0
    <3>1. visited = <<>> /\ token = FirstToken
      BY <2>1, <2>2, <2>4, TokenFacts
    <3>2. Range(visited) = {}
      BY <3>1, NoVotes
    <3>3. Runs # {}
      BY <1>2, <3>2
    <3> QED  BY <2>1, <2>3, <3>1, <3>2, <3>3, FirstFacts
  <2>5. CASE n > 0
    <3>1. PICK a : a = visited[n]
      OBVIOUS
    <3>2. a \in Runs /\ token = NextToken(a) /\ n \in Nat /\ visited # <<>>
      <4>1. n \in Nat /\ n \in 1 .. n /\ visited # <<>> /\ token = NextToken(a)
            /\ \A i \in 1 .. n : visited[i] \in Runs
        BY <2>1, <2>2, <2>5, <3>1, TokenFacts
      <4> QED  BY <3>1, <4>1
    <3>3. Range(visited) = {r \in Runs : r.end <= a.end}
      BY <2>1, <2>2, <3>1, <3>2 DEF CountInv, VisitedAreTheFirstRuns
    <3>4. /\ token.start \in Nat /\ a.end <= token.start /\ a.end \in Nat
          /\ \A r \in Runs : r.start \in Nat /\ r.end \in Nat /\ r.start < r.end
                             /\ r.end <= Len(text)
      <4>1. token \in Runner /\ a.end <= token.start
        BY <2>1, <3>2, NextFacts
      <4> QED  BY <2>1, <3>2, <4>1, RunFacts DEF Runner
    <3>5. ASSUME NEW r \in Runs PROVE r.end <= a.end <=> r.end <= token.start
      <4>1. r.end <= a.end \/ r.start >= token.start
        BY <2>1, <3>2, NoWordBetween
      <4> QED  BY <3>4, <4>1
    <3>6. Range(visited) = {r \in Runs : r.end <= token.start}
      BY <3>3, <3>5
    <3>7. token.start # Len(text)
      BY <1>2, <3>4, <3>6
    <3>8. Offset(token.start) = Sentinel /\ \E q \in Runs : q.start = token.start
      BY <2>1, <2>3, <3>2, <3>7, NextFacts
    <3>9. PICK q \in Runs : q.start = token.start
      BY <3>8
    <3> QED  BY <3>6, <3>8, <3>9
  <2>6. n \in Nat
    BY <2>1, <2>2, TokenFacts
  <2> QED  BY <2>4, <2>5, <2>6
<1>3. IInv => WordsMissedOnlyIf
  BY <1>1, <1>2 DEF WordsMissedOnlyIf
<1> QED  BY <1>3, Invariance, PTL

-----------------------------------------------------------------------------
(* The tree of comparisons.  Every block has a table entry, its first code *)
(* point.  Placed says of a subtree that the code points that reach it are *)
(* lo .. to - 1, that the first of each leaf is the one in the table, and  *)
(* that its comparisons are not wasted.  A subtree is placed if it belongs *)
(* to a set of placements closed under going on to the halves: such a set  *)
(* is found bottom up, and no recursion over trees is needed.              *)

(* The only return that no code point reaches. *)
Dead == <<"MEETEI_MAYEK">>

(* Where the three Latin blocks end, whose letters have normal forms. *)
LatinEnds(block, to) == /\ block = "BASIC_LATIN" => to = 128
                        /\ block = "LATIN_1_SUPPLEMENT" => to = 256
                        /\ block = "LATIN_EXTENDED_A" => to = 384

LeafAt(tree, lo, to, table) ==
  /\ IsLeaf(tree) /\ lo < to
  /\ tree[1] \in DOMAIN table /\ table[tree[1]] = lo /\ LatinEnds(tree[1], to)

Sound(tree, lo, to, depth, placements, table) ==
  /\ lo \in Nat /\ to \in Nat /\ depth \in Nat
  /\ \/ LeafAt(tree, lo, to, table)
     \/ /\ ~IsLeaf(tree) /\ depth # 0 /\ tree[1] \in Nat /\ lo < tree[1]
        /\ <<tree[2], lo, tree[1], depth - 1>> \in placements
        /\ \/ /\ tree[1] < to /\ tree[3] # Dead
              /\ <<tree[3], tree[1], to, depth - 1>> \in placements
           \/ tree[1] = to /\ to <= LastPoint /\ tree[3] = Dead

Closed(placements, table) ==
  \A tree, lo, to, depth : <<tree, lo, to, depth>> \in placements =>
    Sound(tree, lo, to, depth, placements, table)

Placed(tree, lo, to, depth, table) ==
  \E placements : Closed(placements, table) /\ <<tree, lo, to, depth>> \in placements

(* A subtree that is placed is a leaf of the table, or its halves are      *)
(* placed on the two sides of its pivot.                                   *)
LEMMA PlacedIsSound ==
  ASSUME NEW tree, NEW lo, NEW to, NEW depth, NEW table, Placed(tree, lo, to, depth, table)
  PROVE  /\ lo \in Nat /\ to \in Nat /\ depth \in Nat
         /\ \/ LeafAt(tree, lo, to, table)
            \/ /\ ~IsLeaf(tree) /\ depth # 0 /\ tree[1] \in Nat /\ lo < tree[1]
               /\ Placed(tree[2], lo, tree[1], depth - 1, table)
               /\ \/ /\ tree[1] < to /\ tree[3] # Dead
                     /\ Placed(tree[3], tree[1], to, depth - 1, table)
                  \/ tree[1] = to /\ to <= LastPoint /\ tree[3] = Dead
<1>1. PICK placements : Closed(placements, table) /\ <<tree, lo, to, depth>> \in placements
  BY DEF Placed
<1>2. Sound(tree, lo, to, depth, placements, table)
  BY <1>1 DEF Closed
<1> QED  BY <1>1, <1>2 DEF Sound, Placed

(* A leaf is placed at any depth. *)
LEMMA PlacedLeaf ==
  ASSUME NEW tree, NEW lo \in Nat, NEW to \in Nat, NEW depth \in Nat, NEW table,
         LeafAt(tree, lo, to, table)
  PROVE  Placed(tree, lo, to, depth, table)
<1>1. Sound(tree, lo, to, depth, {<<tree, lo, to, depth>>}, table)
  BY DEF Sound
<1>2. Closed({<<tree, lo, to, depth>>}, table)
  BY <1>1 DEF Closed
<1> QED  BY <1>2 DEF Placed

(* More placements make no placement unsound. *)
LEMMA SoundInMore ==
  ASSUME NEW tree, NEW lo, NEW to, NEW depth, NEW table, NEW P, NEW R, P \subseteq R,
         Sound(tree, lo, to, depth, P, table)
  PROVE  Sound(tree, lo, to, depth, R, table)
  BY DEF Sound

(* One more placement, whose halves are among the others. *)
LEMMA ClosedWithOne ==
  ASSUME NEW tree, NEW lo, NEW to, NEW depth, NEW table, NEW P,
         \A t, l, u, d : <<t, l, u, d>> \in P => Sound(t, l, u, d, P, table),
         Sound(tree, lo, to, depth, P, table)
  PROVE  Placed(tree, lo, to, depth, table)
<1> DEFINE R == P \cup {<<tree, lo, to, depth>>}
<1>1. ASSUME NEW t, NEW l, NEW u, NEW d, <<t, l, u, d>> \in R
      PROVE  Sound(t, l, u, d, R, table)
  <2>1. P \subseteq R
    OBVIOUS
  <2>2. CASE <<t, l, u, d>> \in P
    <3>1. Sound(t, l, u, d, P, table)
      BY <2>2
    <3> HIDE DEF R
    <3> QED  BY <2>1, <3>1, SoundInMore
  <2>3. CASE <<t, l, u, d>> = <<tree, lo, to, depth>>
    <3> HIDE DEF R
    <3>1. t = tree /\ l = lo /\ u = to /\ d = depth
      BY <2>3
    <3> QED  BY <2>1, <3>1, SoundInMore
  <2> QED  BY <1>1, <2>2, <2>3
<1>2. Closed(R, table)
  BY <1>1 DEF Closed
<1> QED  BY <1>2 DEF Placed

(* An inner node of the tree, with its pivot. *)
Node(tree, pivot) == ~IsLeaf(tree) /\ tree[1] = pivot /\ tree[3] # Dead

(* A node is placed if its halves are placed on the two sides of its pivot.*)
LEMMA PlacedNode ==
  ASSUME NEW tree, NEW lo \in Nat, NEW pivot \in Nat, NEW to \in Nat, NEW depth \in Nat,
         NEW table, Node(tree, pivot), lo < pivot, pivot < to,
         Placed(tree[2], lo, pivot, depth, table), Placed(tree[3], pivot, to, depth, table)
  PROVE  Placed(tree, lo, to, depth + 1, table)
<1>1. PICK P : Closed(P, table) /\ <<tree[2], lo, pivot, depth>> \in P
  BY DEF Placed
<1>2. PICK Q : Closed(Q, table) /\ <<tree[3], pivot, to, depth>> \in Q
  BY DEF Placed
<1> DEFINE R == P \cup Q
<1>3. \A t, l, u, d : <<t, l, u, d>> \in R => Sound(t, l, u, d, R, table)
  <2>1. P \subseteq R /\ Q \subseteq R
    OBVIOUS
  <2> SUFFICES ASSUME NEW t, NEW l, NEW u, NEW d, <<t, l, u, d>> \in P \/ <<t, l, u, d>> \in Q
               PROVE  Sound(t, l, u, d, R, table)
    OBVIOUS
  <2>2. Sound(t, l, u, d, P, table) \/ Sound(t, l, u, d, Q, table)
    BY <1>1, <1>2 DEF Closed
  <2> HIDE DEF R
  <2> QED  BY <2>1, <2>2, SoundInMore
<1>4. Sound(tree, lo, to, depth + 1, R, table)
  <2>1. depth + 1 \in Nat /\ depth + 1 # 0 /\ (depth + 1) - 1 = depth
    OBVIOUS
  <2>2. <<tree[2], lo, pivot, depth>> \in R /\ <<tree[3], pivot, to, depth>> \in R
    BY <1>1, <1>2
  <2> HIDE DEF R
  <2> QED  BY <2>1, <2>2 DEF Sound, Node
<1> HIDE DEF R
<1> QED  BY <1>3, <1>4, ClosedWithOne

(* The node with the dead half: all its code points go left. *)
LEMMA PlacedDead ==
  ASSUME NEW tree, NEW lo \in Nat, NEW to \in Nat, NEW depth \in Nat, NEW table,
         ~IsLeaf(tree), tree[1] = to, tree[3] = Dead, to <= LastPoint, lo < to,
         Placed(tree[2], lo, to, depth, table)
  PROVE  Placed(tree, lo, to, depth + 1, table)
<1>1. PICK P : Closed(P, table) /\ <<tree[2], lo, to, depth>> \in P
  BY DEF Placed
<1>2. depth + 1 \in Nat /\ depth + 1 # 0 /\ (depth + 1) - 1 = depth
  OBVIOUS
<1>3. Sound(tree, lo, to, depth + 1, P, table)
  BY <1>1, <1>2 DEF Sound
<1> QED  BY <1>1, <1>3, ClosedWithOne DEF Closed

(* A larger table places what a smaller one places. *)
Extends(larger, table) ==
  \A block \in DOMAIN table : block \in DOMAIN larger /\ larger[block] = table[block]

(* What is placed by a table is placed by a larger one. *)
LEMMA PlacedInLarger ==
  ASSUME NEW tree, NEW lo, NEW to, NEW depth, NEW table, NEW larger,
         Placed(tree, lo, to, depth, table), Extends(larger, table)
  PROVE  Placed(tree, lo, to, depth, larger)
<1>1. PICK P : Closed(P, table) /\ <<tree, lo, to, depth>> \in P
  BY DEF Placed
<1>2. ASSUME NEW t, NEW l, NEW u, NEW d, Sound(t, l, u, d, P, table)
      PROVE  Sound(t, l, u, d, P, larger)
  BY <1>2 DEF Sound, LeafAt, Extends
<1> QED  BY <1>1, <1>2 DEF Closed, Placed

-----------------------------------------------------------------------------
(* Small subtrees: two blocks, four, five where the tree is deeper, and    *)
(* three around the dead return.                                           *)
TwoBlocks(tree, lo, pivot, to, table) ==
  /\ Node(tree, pivot) /\ lo < pivot /\ pivot < to
  /\ LeafAt(tree[2], lo, pivot, table) /\ LeafAt(tree[3], pivot, to, table)

FourBlocks(tree, lo, to, table) ==
  \E a, pivot, b \in Nat :
    /\ Node(tree, pivot)
    /\ TwoBlocks(tree[2], lo, a, pivot, table) /\ TwoBlocks(tree[3], pivot, b, to, table)

FiveBlocks(tree, lo, to, table) ==
  \E a, pivot, b, c \in Nat :
    /\ Node(tree, pivot) /\ Node(tree[3], b) /\ pivot < b
    /\ TwoBlocks(tree[2], lo, a, pivot, table)
    /\ LeafAt(tree[3][2], pivot, b, table) /\ TwoBlocks(tree[3][3], b, c, to, table)

ThreeBlocks(tree, lo, to, table) ==
  \E pivot, a \in Nat :
    /\ Node(tree, pivot) /\ pivot <= LastPoint
    /\ ~IsLeaf(tree[2]) /\ tree[2][1] = pivot /\ tree[2][3] = Dead
    /\ LeafAt(tree[2][2], lo, pivot, table)
    /\ TwoBlocks(tree[3], pivot, a, to, table)

Quarter(tree, lo, to, table) ==
  FourBlocks(tree, lo, to, table) \/ FiveBlocks(tree, lo, to, table)
                                  \/ ThreeBlocks(tree, lo, to, table)

(* Two blocks are placed. *)
LEMMA TwoPlaced ==
  ASSUME NEW tree, NEW lo \in Nat, NEW pivot \in Nat, NEW to \in Nat, NEW depth \in Nat,
         NEW table, TwoBlocks(tree, lo, pivot, to, table)
  PROVE  Placed(tree, lo, to, depth + 1, table)
  BY PlacedLeaf, PlacedNode DEF TwoBlocks

(* So are four. *)
LEMMA FourPlaced ==
  ASSUME NEW tree, NEW lo \in Nat, NEW to \in Nat, NEW depth \in Nat, NEW table,
         FourBlocks(tree, lo, to, table)
  PROVE  Placed(tree, lo, to, (depth + 1) + 1, table) /\ lo < to
<1>1. PICK a, pivot, b \in Nat :
        /\ Node(tree, pivot)
        /\ TwoBlocks(tree[2], lo, a, pivot, table) /\ TwoBlocks(tree[3], pivot, b, to, table)
  BY DEF FourBlocks
<1>2. Placed(tree[2], lo, pivot, depth + 1, table) /\ Placed(tree[3], pivot, to, depth + 1, table)
  BY <1>1, TwoPlaced
<1>3. lo < pivot /\ pivot < to
  BY <1>1 DEF TwoBlocks
<1>4. Placed(tree, lo, to, (depth + 1) + 1, table)
  BY <1>1, <1>2, <1>3, PlacedNode
<1> QED  BY <1>3, <1>4

(* And so are the others, within three comparisons. *)
LEMMA QuarterPlaced ==
  ASSUME NEW tree, NEW lo \in Nat, NEW to \in Nat, NEW table, Quarter(tree, lo, to, table)
  PROVE  Placed(tree, lo, to, 3, table) /\ lo < to
<1>1. CASE FourBlocks(tree, lo, to, table)
  <2>1. PICK depth \in Nat : depth = 1
    OBVIOUS
  <2>2. Placed(tree, lo, to, (depth + 1) + 1, table) /\ lo < to
    BY <1>1, FourPlaced
  <2>3. (depth + 1) + 1 = 3
    BY <2>1
  <2> QED  BY <2>2, <2>3
<1>2. CASE FiveBlocks(tree, lo, to, table)
  <2>1. PICK a, pivot, b, c \in Nat :
          /\ Node(tree, pivot) /\ Node(tree[3], b) /\ pivot < b
          /\ TwoBlocks(tree[2], lo, a, pivot, table)
          /\ LeafAt(tree[3][2], pivot, b, table) /\ TwoBlocks(tree[3][3], b, c, to, table)
    BY <1>2 DEF FiveBlocks
  <2>2. lo < pivot /\ b < to
    BY <2>1 DEF TwoBlocks
  <2>3. Placed(tree[2], lo, pivot, 1 + 1, table)
    BY <2>1, TwoPlaced
  <2>8. Placed(tree[3][3], b, to, 1, table)
    <3>1. TwoBlocks(tree[3][3], b, c, to, table) /\ 0 \in Nat
      BY <2>1
    <3>2. Placed(tree[3][3], b, to, 0 + 1, table)
      BY <3>1, TwoPlaced
    <3> QED  BY <3>2
  <2>4. Placed(tree[3][2], pivot, b, 1, table)
    BY <2>1, PlacedLeaf
  <2>5. Placed(tree[3], pivot, to, 1 + 1, table)
    <3>1. Node(tree[3], b) /\ pivot < b /\ b < to
      BY <2>1, <2>2
    <3> QED  BY <2>4, <2>8, <3>1, PlacedNode
  <2>6. pivot < to
    BY <2>1, <2>2
  <2>7. Placed(tree, lo, to, 2 + 1, table)
    BY <2>1, <2>2, <2>3, <2>5, <2>6, PlacedNode
  <2> QED  BY <2>2, <2>6, <2>7
<1>3. CASE ThreeBlocks(tree, lo, to, table)
  <2>1. PICK pivot, a \in Nat :
          /\ Node(tree, pivot) /\ pivot <= LastPoint
          /\ ~IsLeaf(tree[2]) /\ tree[2][1] = pivot /\ tree[2][3] = Dead
          /\ LeafAt(tree[2][2], lo, pivot, table)
          /\ TwoBlocks(tree[3], pivot, a, to, table)
    BY <1>3 DEF ThreeBlocks
  <2>2. lo < pivot /\ pivot < to
    BY <2>1 DEF TwoBlocks, LeafAt
  <2>3. Placed(tree[2][2], lo, pivot, 1, table)
    BY <2>1, PlacedLeaf
  <2>4. Placed(tree[2], lo, pivot, 1 + 1, table)
    BY <2>1, <2>2, <2>3, PlacedDead
  <2>5. Placed(tree[3], pivot, to, 1 + 1, table)
    BY <2>1, TwoPlaced
  <2>6. Placed(tree, lo, to, 2 + 1, table)
    BY <2>1, <2>2, <2>4, <2>5, PlacedNode
  <2> QED  BY <2>2, <2>6
<1> QED  BY <1>1, <1>2, <1>3 DEF Quarter

(* A part of the tree: eight quarters in the order of their code points. *)
PartAt(tree, n0, n1, n2, n3, n4, n5, n6, n7, n8, table) ==
  /\ Node(tree, n4) /\ Node(tree[2], n2) /\ Node(tree[3], n6)
  /\ Node(tree[2][2], n1) /\ Node(tree[2][3], n3)
  /\ Node(tree[3][2], n5) /\ Node(tree[3][3], n7)
  /\ Quarter(tree[2][2][2], n0, n1, table) /\ Quarter(tree[2][2][3], n1, n2, table)
  /\ Quarter(tree[2][3][2], n2, n3, table) /\ Quarter(tree[2][3][3], n3, n4, table)
  /\ Quarter(tree[3][2][2], n4, n5, table) /\ Quarter(tree[3][2][3], n5, n6, table)
  /\ Quarter(tree[3][3][2], n6, n7, table) /\ Quarter(tree[3][3][3], n7, n8, table)

(* It is placed. *)
LEMMA PartPlaced ==
  ASSUME NEW tree, NEW n0 \in Nat, NEW n1 \in Nat, NEW n2 \in Nat, NEW n3 \in Nat,
         NEW n4 \in Nat, NEW n5 \in Nat, NEW n6 \in Nat, NEW n7 \in Nat, NEW n8 \in Nat,
         NEW table, PartAt(tree, n0, n1, n2, n3, n4, n5, n6, n7, n8, table)
  PROVE  Placed(tree, n0, n8, 6, table) /\ n0 < n8
<1>1. /\ Placed(tree[2][2][2], n0, n1, 3, table) /\ n0 < n1
      /\ Placed(tree[2][2][3], n1, n2, 3, table) /\ n1 < n2
  BY QuarterPlaced DEF PartAt
<1>2. /\ Placed(tree[2][3][2], n2, n3, 3, table) /\ n2 < n3
      /\ Placed(tree[2][3][3], n3, n4, 3, table) /\ n3 < n4
  BY QuarterPlaced DEF PartAt
<1>9. /\ Placed(tree[3][2][2], n4, n5, 3, table) /\ n4 < n5
      /\ Placed(tree[3][2][3], n5, n6, 3, table) /\ n5 < n6
  BY QuarterPlaced DEF PartAt
<1>10. /\ Placed(tree[3][3][2], n6, n7, 3, table) /\ n6 < n7
       /\ Placed(tree[3][3][3], n7, n8, 3, table) /\ n7 < n8
  BY QuarterPlaced DEF PartAt
<1>3. /\ Node(tree, n4) /\ Node(tree[2], n2) /\ Node(tree[3], n6)
      /\ Node(tree[2][2], n1) /\ Node(tree[2][3], n3)
      /\ Node(tree[3][2], n5) /\ Node(tree[3][3], n7)
  BY DEF PartAt
<1>4. Placed(tree[2][2], n0, n2, 3 + 1, table) /\ Placed(tree[2][3], n2, n4, 3 + 1, table)
  BY <1>1, <1>2, <1>3, PlacedNode
<1>5. Placed(tree[3][2], n4, n6, 3 + 1, table) /\ Placed(tree[3][3], n6, n8, 3 + 1, table)
  BY <1>3, <1>9, <1>10, PlacedNode
<1>6. n0 < n2 /\ n2 < n4 /\ n4 < n6 /\ n6 < n8
  BY <1>1, <1>2, <1>9, <1>10
<1>7. Placed(tree[2], n0, n4, 4 + 1, table)
  <2>1. n0 < n2 /\ n2 < n4 /\ Node(tree[2], n2)
    BY <1>3, <1>6
  <2>2. Placed(tree[2][2], n0, n2, 4, table) /\ Placed(tree[2][3], n2, n4, 4, table)
    BY <1>4
  <2> QED  BY <2>1, <2>2, PlacedNode
<1>8. Placed(tree[3], n4, n8, 4 + 1, table)
  <2>1. n4 < n6 /\ n6 < n8 /\ Node(tree[3], n6)
    BY <1>3, <1>6
  <2>2. Placed(tree[3][2], n4, n6, 4, table) /\ Placed(tree[3][3], n6, n8, 4, table)
    BY <1>5
  <2> QED  BY <2>1, <2>2, PlacedNode
<1>11. n0 < n4 /\ n4 < n8 /\ Node(tree, n4)
  BY <1>3, <1>6
<1>12. Placed(tree[2], n0, n4, 5, table) /\ Placed(tree[3], n4, n8, 5, table)
  BY <1>7, <1>8
<1>13. Placed(tree, n0, n8, 5 + 1, table)
  BY <1>11, <1>12, PlacedNode
<1> QED  BY <1>11, <1>13

(* The blocks from 592 on. *)
StartsFrom592 ==
  [IPA_EXTENSIONS |-> 592, SPACING_MODIFIER_LETTERS |-> 688,
   COMBINING_DIACRITICAL_MARKS |-> 768, GREEK_AND_COPTIC |-> 880,
   CYRILLIC |-> 1024, CYRILLIC_SUPPLEMENT |-> 1280, ARMENIAN |-> 1328,
   HEBREW |-> 1424, ARABIC |-> 1536, SYRIAC |-> 1792,
   ARABIC_SUPPLEMENT |-> 1872, THAANA |-> 1920, NKO |-> 1984,
   SAMARITAN |-> 2048, MANDAIC |-> 2112, ARABIC_EXTENDED_A |-> 2144,
   DEVANAGARI |-> 2304, BENGALI |-> 2432, GURMUKHI |-> 2560, GUJARATI |-> 2688,
   ORIYA |-> 2816, TAMIL |-> 2944, TELUGU |-> 3072, KANNADA |-> 3200,
   MALAYALAM |-> 3328, SINHALA |-> 3456, THAI |-> 3584, LAO |-> 3712,
   TIBETAN |-> 3840, MYANMAR |-> 4096, GEORGIAN |-> 4256, HANGUL_JAMO |-> 4352]

(* They are placed. *)
LEMMA From592Placed == Placed(From592, 592, 4608, 6, StartsFrom592)
<1> USE DEF FourBlocks, FiveBlocks, ThreeBlocks, TwoBlocks, Node, LeafAt, LatinEnds, IsLeaf, Dead
<1>1. FourBlocks(From592[2][2][2], 592, 1024, StartsFrom592)
  BY DEF From592, StartsFrom592
<1>2. FourBlocks(From592[2][2][3], 1024, 1536, StartsFrom592)
  BY DEF From592, StartsFrom592
<1>3. FourBlocks(From592[2][3][2], 1536, 1984, StartsFrom592)
  BY DEF From592, StartsFrom592
<1>4. FourBlocks(From592[2][3][3], 1984, 2304, StartsFrom592)
  BY DEF From592, StartsFrom592
<1>5. FourBlocks(From592[3][2][2], 2304, 2816, StartsFrom592)
  BY DEF From592, StartsFrom592
<1>6. FourBlocks(From592[3][2][3], 2816, 3328, StartsFrom592)
  BY DEF From592, StartsFrom592
<1>7. FourBlocks(From592[3][3][2], 3328, 3840, StartsFrom592)
  BY DEF From592, StartsFrom592
<1>8. FourBlocks(From592[3][3][3], 3840, 4608, StartsFrom592)
  BY DEF From592, StartsFrom592
<1>9. /\ Node(From592, 2304) /\ Node(From592[2], 1536) /\ Node(From592[3], 3328)
      /\ Node(From592[2][2], 1024) /\ Node(From592[2][3], 1984)
      /\ Node(From592[3][2], 2816) /\ Node(From592[3][3], 3840)
  BY DEF From592
<1> HIDE DEF FourBlocks, FiveBlocks, ThreeBlocks, TwoBlocks, Node, LeafAt, LatinEnds, IsLeaf, Dead
<1>10. PartAt(From592, 592, 1024, 1536, 1984, 2304, 2816, 3328, 3840,
              4608, StartsFrom592)
  BY <1>1, <1>2, <1>3, <1>4, <1>5, <1>6, <1>7, <1>8, <1>9 DEF PartAt, Quarter
<1> QED  BY <1>10, PartPlaced

(* The blocks from 4608 on. *)
StartsFrom4608 ==
  [ETHIOPIC |-> 4608, ETHIOPIC_SUPPLEMENT |-> 4992, CHEROKEE |-> 5024,
   UNIFIED_CANADIAN_ABORIGINAL_SYLLABICS |-> 5120, OGHAM |-> 5760,
   RUNIC |-> 5792, TAGALOG |-> 5888, HANUNOO |-> 5920, BUHID |-> 5952,
   TAGBANWA |-> 5984, KHMER |-> 6016, MONGOLIAN |-> 6144,
   UNIFIED_CANADIAN_ABORIGINAL_SYLLABICS_EXTENDED |-> 6320, LIMBU |-> 6400,
   TAI_LE |-> 6480, NEW_TAI_LUE |-> 6528, KHMER_SYMBOLS |-> 6624,
   BUGINESE |-> 6656, TAI_THAM |-> 6688,
   COMBINING_DIACRITICAL_MARKS_EXTENDED |-> 6832, BALINESE |-> 6912,
   SUNDANESE |-> 7040, BATAK |-> 7104, LEPCHA |-> 7168, OL_CHIKI |-> 7248,
   SUNDANESE_SUPPLEMENT |-> 7296, VEDIC_EXTENSIONS |-> 7376,
   PHONETIC_EXTENSIONS |-> 7424, PHONETIC_EXTENSIONS_SUPPLEMENT |-> 7552,
   COMBINING_DIACRITICAL_MARKS_SUPPLEMENT |-> 7616,
   LATIN_EXTENDED_ADDITIONAL |-> 7680, GREEK_EXTENDED |-> 7936]

(* They are placed. *)
LEMMA From4608Placed == Placed(From4608, 4608, 8192, 6, StartsFrom4608)
<1> USE DEF FourBlocks, FiveBlocks, ThreeBlocks, TwoBlocks, Node, LeafAt, LatinEnds, IsLeaf, Dead
<1>1. FourBlocks(From4608[2][2][2], 4608, 5760, StartsFrom4608)
  BY DEF From4608, StartsFrom4608
<1>2. FourBlocks(From4608[2][2][3], 5760, 5952, StartsFrom4608)
  BY DEF From4608, StartsFrom4608
<1>3. FourBlocks(From4608[2][3][2], 5952, 6320, StartsFrom4608)
  BY DEF From4608, StartsFrom4608
<1>4. FourBlocks(From4608[2][3][3], 6320, 6624, StartsFrom4608)
  BY DEF From4608, StartsFrom4608
<1>5. FourBlocks(From4608[3][2][2], 6624, 6912, StartsFrom4608)
  BY DEF From4608, StartsFrom4608
<1>6. FourBlocks(From4608[3][2][3], 6912, 7248, StartsFrom4608)
  BY DEF From4608, StartsFrom4608
<1>7. FourBlocks(From4608[3][3][2], 7248, 7552, StartsFrom4608)
  BY DEF From4608, StartsFrom4608
<1>8. FourBlocks(From4608[3][3][3], 7552, 8192, StartsFrom4608)
  BY DEF From4608, StartsFrom4608
<1>9. /\ Node(From4608, 6624) /\ Node(From4608[2], 5952) /\ Node(From4608[3], 7248)
      /\ Node(From4608[2][2], 5760) /\ Node(From4608[2][3], 6320)
      /\ Node(From4608[3][2], 6912) /\ Node(From4608[3][3], 7552)
  BY DEF From4608
<1> HIDE DEF FourBlocks, FiveBlocks, ThreeBlocks, TwoBlocks, Node, LeafAt, LatinEnds, IsLeaf, Dead
<1>10. PartAt(From4608, 4608, 5760, 5952, 6320, 6624, 6912, 7248, 7552,
              8192, StartsFrom4608)
  BY <1>1, <1>2, <1>3, <1>4, <1>5, <1>6, <1>7, <1>8, <1>9 DEF PartAt, Quarter
<1> QED  BY <1>10, PartPlaced

(* The blocks from 8192 on. *)
StartsFrom8192 ==
  [GENERAL_PUNCTUATION |-> 8192, SUPERSCRIPTS_AND_SUBSCRIPTS |-> 8304,
   CURRENCY_SYMBOLS |-> 8352, COMBINING_DIACRITICAL_MARKS_FOR_SYMBOLS |-> 8400,
   LETTERLIKE_SYMBOLS |-> 8448, NUMBER_FORMS |-> 8528, ARROWS |-> 8592,
   MATHEMATICAL_OPERATORS |-> 8704, MISCELLANEOUS_TECHNICAL |-> 8960,
   CONTROL_PICTURES |-> 9216, OPTICAL_CHARACTER_RECOGNITION |-> 9280,
   ENCLOSED_ALPHANUMERICS |-> 9312, BOX_DRAWING |-> 9472,
   BLOCK_ELEMENTS |-> 9600, GEOMETRIC_SHAPES |-> 9632,
   MISCELLANEOUS_SYMBOLS |-> 9728, DINGBATS |-> 9984,
   MISCELLANEOUS_MATHEMATICAL_SYMBOLS_A |-> 10176,
   SUPPLEMENTAL_ARROWS_A |-> 10224, BRAILLE_PATTERNS |-> 10240,
   SUPPLEMENTAL_ARROWS_B |-> 10496,
   MISCELLANEOUS_MATHEMATICAL_SYMBOLS_B |-> 10624,
   SUPPLEMENTAL_MATHEMATICAL_OPERATORS |-> 10752,
   MISCELLANEOUS_SYMBOLS_AND_ARROWS |-> 11008, GLAGOLITIC |-> 11264,
   LATIN_EXTENDED_C |-> 11360, COPTIC |-> 11392, GEORGIAN_SUPPLEMENT |-> 11520,
   TIFINAGH |-> 11568, ETHIOPIC_EXTENDED |-> 11648,
   CYRILLIC_EXTENDED_A |-> 11744, SUPPLEMENTAL_PUNCTUATION |-> 11776]

(* They are placed. *)
LEMMA From8192Placed == Placed(From8192, 8192, 11904, 6, StartsFrom8192)
<1> USE DEF FourBlocks, FiveBlocks, ThreeBlocks, TwoBlocks, Node, LeafAt, LatinEnds, IsLeaf, Dead
<1>1. FourBlocks(From8192[2][2][2], 8192, 8448, StartsFrom8192)
  BY DEF From8192, StartsFrom8192
<1>2. FourBlocks(From8192[2][2][3], 8448, 8960, StartsFrom8192)
  BY DEF From8192, StartsFrom8192
<1>3. FourBlocks(From8192[2][3][2], 8960, 9472, StartsFrom8192)
  BY DEF From8192, StartsFrom8192
<1>4. FourBlocks(From8192[2][3][3], 9472, 9984, StartsFrom8192)
  BY DEF From8192, StartsFrom8192
<1>5. FourBlocks(From8192[3][2][2], 9984, 10496, StartsFrom8192)
  BY DEF From8192, StartsFrom8192
<1>6. FourBlocks(From8192[3][2][3], 10496, 11264, StartsFrom8192)
  BY DEF From8192, StartsFrom8192
<1>7. FourBlocks(From8192[3][3][2], 11264, 11568, StartsFrom8192)
  BY DEF From8192, StartsFrom8192
<1>8. FourBlocks(From8192[3][3][3], 11568, 11904, StartsFrom8192)
  BY DEF From8192, StartsFrom8192
<1>9. /\ Node(From8192, 9984) /\ Node(From8192[2], 8960) /\ Node(From8192[3], 11264)
      /\ Node(From8192[2][2], 8448) /\ Node(From8192[2][3], 9472)
      /\ Node(From8192[3][2], 10496) /\ Node(From8192[3][3], 11568)
  BY DEF From8192
<1> HIDE DEF FourBlocks, FiveBlocks, ThreeBlocks, TwoBlocks, Node, LeafAt, LatinEnds, IsLeaf, Dead
<1>10. PartAt(From8192, 8192, 8448, 8960, 9472, 9984, 10496, 11264, 11568,
              11904, StartsFrom8192)
  BY <1>1, <1>2, <1>3, <1>4, <1>5, <1>6, <1>7, <1>8, <1>9 DEF PartAt, Quarter
<1> QED  BY <1>10, PartPlaced

(* The blocks from 11904 on. *)
StartsFrom11904 ==
  [CJK_RADICALS_SUPPLEMENT |-> 11904, KANGXI_RADICALS |-> 12032,
   IDEOGRAPHIC_DESCRIPTION_CHARACTERS |-> 12272,
   CJK_SYMBOLS_AND_PUNCTUATION |-> 12288, HIRAGANA |-> 12352,
   KATAKANA |-> 12448, BOPOMOFO |-> 12544, HANGUL_COMPATIBILITY_JAMO |-> 12592,
   KANBUN |-> 12688, BOPOMOFO_EXTENDED |-> 12704, CJK_STROKES |-> 12736,
   KATAKANA_PHONETIC_EXTENSIONS |-> 12784,
   ENCLOSED_CJK_LETTERS_AND_MONTHS |-> 12800, CJK_COMPATIBILITY |-> 13056,
   CJK_UNIFIED_IDEOGRAPHS_EXTENSION_A |-> 13312,
   YIJING_HEXAGRAM_SYMBOLS |-> 19904, CJK_UNIFIED_IDEOGRAPHS |-> 19968,
   YI_SYLLABLES |-> 40960, YI_RADICALS |-> 42128, LISU |-> 42192,
   VAI |-> 42240, CYRILLIC_EXTENDED_B |-> 42560, BAMUM |-> 42656,
   MODIFIER_TONE_LETTERS |-> 42752, LATIN_EXTENDED_D |-> 42784,
   SYLOTI_NAGRI |-> 43008, COMMON_INDIC_NUMBER_FORMS |-> 43056,
   PHAGS_PA |-> 43072, SAURASHTRA |-> 43136, DEVANAGARI_EXTENDED |-> 43232,
   KAYAH_LI |-> 43264, REJANG |-> 43312, HANGUL_JAMO_EXTENDED_A |-> 43360]

(* They are placed. *)
LEMMA From11904Placed == Placed(From11904, 11904, 43392, 6, StartsFrom11904)
<1> USE DEF FourBlocks, FiveBlocks, ThreeBlocks, TwoBlocks, Node, LeafAt, LatinEnds, IsLeaf, Dead
<1>1. FourBlocks(From11904[2][2][2], 11904, 12352, StartsFrom11904)
  BY DEF From11904, StartsFrom11904
<1>2. FourBlocks(From11904[2][2][3], 12352, 12688, StartsFrom11904)
  BY DEF From11904, StartsFrom11904
<1>3. FourBlocks(From11904[2][3][2], 12688, 12800, StartsFrom11904)
  BY DEF From11904, StartsFrom11904
<1>4. FourBlocks(From11904[2][3][3], 12800, 19968, StartsFrom11904)
  BY DEF From11904, StartsFrom11904
<1>5. FourBlocks(From11904[3][2][2], 19968, 42240, StartsFrom11904)
  BY DEF From11904, StartsFrom11904
<1>6. FourBlocks(From11904[3][2][3], 42240, 42784, StartsFrom11904)
  BY DEF From11904, StartsFrom11904
<1>7. FourBlocks(From11904[3][3][2], 42784, 43136, StartsFrom11904)
  BY DEF From11904, StartsFrom11904
<1>8. FiveBlocks(From11904[3][3][3], 43136, 43392, StartsFrom11904)
  BY DEF From11904, StartsFrom11904
<1>9. /\ Node(From11904, 19968) /\ Node(From11904[2], 12688) /\ Node(From11904[3], 42784)
      /\ Node(From11904[2][2], 12352) /\ Node(From11904[2][3], 12800)
      /\ Node(From11904[3][2], 42240) /\ Node(From11904[3][3], 43136)
  BY DEF From11904
<1> HIDE DEF FourBlocks, FiveBlocks, ThreeBlocks, TwoBlocks, Node, LeafAt, LatinEnds, IsLeaf, Dead
<1>10. PartAt(From11904, 11904, 12352, 12688, 12800, 19968, 42240, 42784, 43136,
              43392, StartsFrom11904)
  BY <1>1, <1>2, <1>3, <1>4, <1>5, <1>6, <1>7, <1>8, <1>9 DEF PartAt, Quarter
<1> QED  BY <1>10, PartPlaced

(* The blocks from 43392 on. *)
StartsFrom43392 ==
  [JAVANESE |-> 43392, MYANMAR_EXTENDED_B |-> 43488, CHAM |-> 43520,
   MYANMAR_EXTENDED_A |-> 43616, TAI_VIET |-> 43648,
   MEETEI_MAYEK_EXTENSIONS |-> 43744, ETHIOPIC_EXTENDED_A |-> 43776,
   LATIN_EXTENDED_E |-> 43824, CHEROKEE_SUPPLEMENT |-> 43888,
   HANGUL_SYLLABLES |-> 44032, HANGUL_JAMO_EXTENDED_B |-> 55216,
   HIGH_SURROGATES |-> 55296, HIGH_PRIVATE_USE_SURROGATES |-> 56192,
   LOW_SURROGATES |-> 56320, PRIVATE_USE_AREA |-> 57344,
   CJK_COMPATIBILITY_IDEOGRAPHS |-> 63744,
   ALPHABETIC_PRESENTATION_FORMS |-> 64256,
   ARABIC_PRESENTATION_FORMS_A |-> 64336, VARIATION_SELECTORS |-> 65024,
   VERTICAL_FORMS |-> 65040, COMBINING_HALF_MARKS |-> 65056,
   CJK_COMPATIBILITY_FORMS |-> 65072, SMALL_FORM_VARIANTS |-> 65104,
   ARABIC_PRESENTATION_FORMS_B |-> 65136,
   HALFWIDTH_AND_FULLWIDTH_FORMS |-> 65280, SPECIALS |-> 65520,
   LINEAR_B_SYLLABARY |-> 65536, LINEAR_B_IDEOGRAMS |-> 65664,
   AEGEAN_NUMBERS |-> 65792, ANCIENT_GREEK_NUMBERS |-> 65856,
   ANCIENT_SYMBOLS |-> 65936]

(* They are placed. *)
LEMMA From43392Placed == Placed(From43392, 43392, 66000, 6, StartsFrom43392)
<1> USE DEF FourBlocks, FiveBlocks, ThreeBlocks, TwoBlocks, Node, LeafAt, LatinEnds, IsLeaf, Dead
<1>1. FourBlocks(From43392[2][2][2], 43392, 43648, StartsFrom43392)
  BY DEF From43392, StartsFrom43392
<1>2. FourBlocks(From43392[2][2][3], 43648, 43888, StartsFrom43392)
  BY DEF From43392, StartsFrom43392
<1>3. ThreeBlocks(From43392[2][3][2], 43888, 55296, StartsFrom43392)
  BY LastAssumption DEF From43392, StartsFrom43392
<1>4. FourBlocks(From43392[2][3][3], 55296, 63744, StartsFrom43392)
  BY DEF From43392, StartsFrom43392
<1>5. FourBlocks(From43392[3][2][2], 63744, 65040, StartsFrom43392)
  BY DEF From43392, StartsFrom43392
<1>6. FourBlocks(From43392[3][2][3], 65040, 65136, StartsFrom43392)
  BY DEF From43392, StartsFrom43392
<1>7. FourBlocks(From43392[3][3][2], 65136, 65664, StartsFrom43392)
  BY DEF From43392, StartsFrom43392
<1>8. FourBlocks(From43392[3][3][3], 65664, 66000, StartsFrom43392)
  BY DEF From43392, StartsFrom43392
<1>9. /\ Node(From43392, 63744) /\ Node(From43392[2], 43888) /\ Node(From43392[3], 65136)
      /\ Node(From43392[2][2], 43648) /\ Node(From43392[2][3], 55296)
      /\ Node(From43392[3][2], 65040) /\ Node(From43392[3][3], 65664)
  BY DEF From43392
<1> HIDE DEF FourBlocks, FiveBlocks, ThreeBlocks, TwoBlocks, Node, LeafAt, LatinEnds, IsLeaf, Dead
<1>10. PartAt(From43392, 43392, 43648, 43888, 55296, 63744, 65040, 65136, 65664,
              66000, StartsFrom43392)
  BY <1>1, <1>2, <1>3, <1>4, <1>5, <1>6, <1>7, <1>8, <1>9 DEF PartAt, Quarter
<1> QED  BY <1>10, PartPlaced

(* The blocks from 66000 on. *)
StartsFrom66000 ==
  [PHAISTOS_DISC |-> 66000, LYCIAN |-> 66048, CARIAN |-> 66208,
   COPTIC_EPACT_NUMBERS |-> 66272, OLD_ITALIC |-> 66304, GOTHIC |-> 66352,
   OLD_PERMIC |-> 66384, UGARITIC |-> 66432, OLD_PERSIAN |-> 66464,
   DESERET |-> 66528, SHAVIAN |-> 66640, OSMANYA |-> 66688, ELBASAN |-> 66816,
   CAUCASIAN_ALBANIAN |-> 66864, LINEAR_A |-> 67072,
   CYPRIOT_SYLLABARY |-> 67456, IMPERIAL_ARAMAIC |-> 67648,
   PALMYRENE |-> 67680, NABATAEAN |-> 67712, HATRAN |-> 67760,
   PHOENICIAN |-> 67840, LYDIAN |-> 67872, MEROITIC_HIEROGLYPHS |-> 67968,
   MEROITIC_CURSIVE |-> 68000, KHAROSHTHI |-> 68096,
   OLD_SOUTH_ARABIAN |-> 68192, OLD_NORTH_ARABIAN |-> 68224,
   MANICHAEAN |-> 68256, AVESTAN |-> 68352, INSCRIPTIONAL_PARTHIAN |-> 68416,
   INSCRIPTIONAL_PAHLAVI |-> 68448, PSALTER_PAHLAVI |-> 68480]

(* They are placed. *)
LEMMA From66000Placed == Placed(From66000, 66000, 68608, 6, StartsFrom66000)
<1> USE DEF FourBlocks, FiveBlocks, ThreeBlocks, TwoBlocks, Node, LeafAt, LatinEnds, IsLeaf, Dead
<1>1. FourBlocks(From66000[2][2][2], 66000, 66304, StartsFrom66000)
  BY DEF From66000, StartsFrom66000
<1>2. FourBlocks(From66000[2][2][3], 66304, 66464, StartsFrom66000)
  BY DEF From66000, StartsFrom66000
<1>3. FourBlocks(From66000[2][3][2], 66464, 66816, StartsFrom66000)
  BY DEF From66000, StartsFrom66000
<1>4. FourBlocks(From66000[2][3][3], 66816, 67648, StartsFrom66000)
  BY DEF From66000, StartsFrom66000
<1>5. FourBlocks(From66000[3][2][2], 67648, 67840, StartsFrom66000)
  BY DEF From66000, StartsFrom66000
<1>6. FourBlocks(From66000[3][2][3], 67840, 68096, StartsFrom66000)
  BY DEF From66000, StartsFrom66000
<1>7. FourBlocks(From66000[3][3][2], 68096, 68352, StartsFrom66000)
  BY DEF From66000, StartsFrom66000
<1>8. FourBlocks(From66000[3][3][3], 68352, 68608, StartsFrom66000)
  BY DEF From66000, StartsFrom66000
<1>9. /\ Node(From66000, 67648) /\ Node(From66000[2], 66464) /\ Node(From66000[3], 68096)
      /\ Node(From66000[2][2], 66304) /\ Node(From66000[2][3], 66816)
      /\ Node(From66000[3][2], 67840) /\ Node(From66000[3][3], 68352)
  BY DEF From66000
<1> HIDE DEF FourBlocks, FiveBlocks, ThreeBlocks, TwoBlocks, Node, LeafAt, LatinEnds, IsLeaf, Dead
<1>10. PartAt(From66000, 66000, 66304, 66464, 66816, 67648, 67840, 68096, 68352,
              68608, StartsFrom66000)
  BY <1>1, <1>2, <1>3, <1>4, <1>5, <1>6, <1>7, <1>8, <1>9 DEF PartAt, Quarter
<1> QED  BY <1>10, PartPlaced

(* The blocks from 68608 on. *)
StartsFrom68608 ==
  [OLD_TURKIC |-> 68608, OLD_HUNGARIAN |-> 68688,
   RUMI_NUMERAL_SYMBOLS |-> 69216, BRAHMI |-> 69248, KAITHI |-> 69760,
   SORA_SOMPENG |-> 69840, CHAKMA |-> 69888, MAHAJANI |-> 69968,
   SHARADA |-> 70016, SINHALA_ARCHAIC_NUMBERS |-> 70112, KHOJKI |-> 70144,
   MULTANI |-> 70224, KHUDAWADI |-> 70320, GRANTHA |-> 70400,
   TIRHUTA |-> 70784, SIDDHAM |-> 70880, MODI |-> 71168, TAKRI |-> 71264,
   AHOM |-> 71424, WARANG_CITI |-> 71488, PAU_CIN_HAU |-> 72384,
   CUNEIFORM |-> 72448, CUNEIFORM_NUMBERS_AND_PUNCTUATION |-> 74752,
   EARLY_DYNASTIC_CUNEIFORM |-> 74880, EGYPTIAN_HIEROGLYPHS |-> 77824,
   ANATOLIAN_HIEROGLYPHS |-> 78896, BAMUM_SUPPLEMENT |-> 92160, MRO |-> 92736,
   BASSA_VAH |-> 92880, PAHAWH_HMONG |-> 92928, MIAO |-> 93952,
   KANA_SUPPLEMENT |-> 94112]

(* They are placed. *)
LEMMA From68608Placed == Placed(From68608, 68608, 113664, 6, StartsFrom68608)
<1> USE DEF FourBlocks, FiveBlocks, ThreeBlocks, TwoBlocks, Node, LeafAt, LatinEnds, IsLeaf, Dead
<1>1. FourBlocks(From68608[2][2][2], 68608, 69760, StartsFrom68608)
  BY DEF From68608, StartsFrom68608
<1>2. FourBlocks(From68608[2][2][3], 69760, 70016, StartsFrom68608)
  BY DEF From68608, StartsFrom68608
<1>3. FourBlocks(From68608[2][3][2], 70016, 70320, StartsFrom68608)
  BY DEF From68608, StartsFrom68608
<1>4. FourBlocks(From68608[2][3][3], 70320, 71168, StartsFrom68608)
  BY DEF From68608, StartsFrom68608
<1>5. FourBlocks(From68608[3][2][2], 71168, 72384, StartsFrom68608)
  BY DEF From68608, StartsFrom68608
<1>6. FourBlocks(From68608[3][2][3], 72384, 77824, StartsFrom68608)
  BY DEF From68608, StartsFrom68608
<1>7. FourBlocks(From68608[3][3][2], 77824, 92880, StartsFrom68608)
  BY DEF From68608, StartsFrom68608
<1>8. FourBlocks(From68608[3][3][3], 92880, 113664, StartsFrom68608)
  BY DEF From68608, StartsFrom68608
<1>9. /\ Node(From68608, 71168) /\ Node(From68608[2], 70016) /\ Node(From68608[3], 77824)
      /\ Node(From68608[2][2], 69760) /\ Node(From68608[2][3], 70320)
      /\ Node(From68608[3][2], 72384) /\ Node(From68608[3][3], 92880)
  BY DEF From68608
<1> HIDE DEF FourBlocks, FiveBlocks, ThreeBlocks, TwoBlocks, Node, LeafAt, LatinEnds, IsLeaf, Dead
<1>10. PartAt(From68608, 68608, 69760, 70016, 70320, 71168, 72384, 77824, 92880,
              113664, StartsFrom68608)
  BY <1>1, <1>2, <1>3, <1>4, <1>5, <1>6, <1>7, <1>8, <1>9 DEF PartAt, Quarter
<1> QED  BY <1>10, PartPlaced

(* The blocks from 113664 on. *)
StartsFrom113664 ==
  [DUPLOYAN |-> 113664, SHORTHAND_FORMAT_CONTROLS |-> 113824,
   BYZANTINE_MUSICAL_SYMBOLS |-> 118784, MUSICAL_SYMBOLS |-> 119040,
   ANCIENT_GREEK_MUSICAL_NOTATION |-> 119296, TAI_XUAN_JING_SYMBOLS |-> 119376,
   COUNTING_ROD_NUMERALS |-> 119648,
   MATHEMATICAL_ALPHANUMERIC_SYMBOLS |-> 119680, SUTTON_SIGNWRITING |-> 120832,
   MENDE_KIKAKUI |-> 121520, ARABIC_MATHEMATICAL_ALPHABETIC_SYMBOLS |-> 126464,
   MAHJONG_TILES |-> 126720, DOMINO_TILES |-> 127024, PLAYING_CARDS |-> 127136,
   ENCLOSED_ALPHANUMERIC_SUPPLEMENT |-> 127232,
   ENCLOSED_IDEOGRAPHIC_SUPPLEMENT |-> 127488,
   MISCELLANEOUS_SYMBOLS_AND_PICTOGRAPHS |-> 127744, EMOTICONS |-> 128512,
   ORNAMENTAL_DINGBATS |-> 128592, TRANSPORT_AND_MAP_SYMBOLS |-> 128640,
   ALCHEMICAL_SYMBOLS |-> 128768, GEOMETRIC_SHAPES_EXTENDED |-> 128896,
   SUPPLEMENTAL_ARROWS_C |-> 129024,
   SUPPLEMENTAL_SYMBOLS_AND_PICTOGRAPHS |-> 129280,
   CJK_UNIFIED_IDEOGRAPHS_EXTENSION_B |-> 131072,
   CJK_UNIFIED_IDEOGRAPHS_EXTENSION_C |-> 173792,
   CJK_UNIFIED_IDEOGRAPHS_EXTENSION_D |-> 177984,
   CJK_UNIFIED_IDEOGRAPHS_EXTENSION_E |-> 178208,
   CJK_COMPATIBILITY_IDEOGRAPHS_SUPPLEMENT |-> 194560, TAGS |-> 195104,
   VARIATION_SELECTORS_SUPPLEMENT |-> 917760,
   SUPPLEMENTARY_PRIVATE_USE_AREA_A |-> 918000,
   SUPPLEMENTARY_PRIVATE_USE_AREA_B |-> 1048576]

(* They are placed. *)
LEMMA From113664Placed == Placed(From113664, 113664, LastPoint + 1, 6, StartsFrom113664)
<1> USE DEF FourBlocks, FiveBlocks, ThreeBlocks, TwoBlocks, Node, LeafAt, LatinEnds, IsLeaf, Dead
<1>1. FourBlocks(From113664[2][2][2], 113664, 119296, StartsFrom113664)
  BY DEF From113664, StartsFrom113664
<1>2. FourBlocks(From113664[2][2][3], 119296, 120832, StartsFrom113664)
  BY DEF From113664, StartsFrom113664
<1>3. FourBlocks(From113664[2][3][2], 120832, 127024, StartsFrom113664)
  BY DEF From113664, StartsFrom113664
<1>4. FourBlocks(From113664[2][3][3], 127024, 127744, StartsFrom113664)
  BY DEF From113664, StartsFrom113664
<1>5. FourBlocks(From113664[3][2][2], 127744, 128768, StartsFrom113664)
  BY DEF From113664, StartsFrom113664
<1>6. FourBlocks(From113664[3][2][3], 128768, 131072, StartsFrom113664)
  BY DEF From113664, StartsFrom113664
<1>7. FourBlocks(From113664[3][3][2], 131072, 194560, StartsFrom113664)
  BY DEF From113664, StartsFrom113664
<1>8. FiveBlocks(From113664[3][3][3], 194560, LastPoint + 1, StartsFrom113664)
  BY LastAssumption DEF From113664, StartsFrom113664
<1>9. /\ Node(From113664, 127744) /\ Node(From113664[2], 120832) /\ Node(From113664[3], 131072)
      /\ Node(From113664[2][2], 119296) /\ Node(From113664[2][3], 127024)
      /\ Node(From113664[3][2], 128768) /\ Node(From113664[3][3], 194560)
  BY DEF From113664
<1> HIDE DEF FourBlocks, FiveBlocks, ThreeBlocks, TwoBlocks, Node, LeafAt, LatinEnds, IsLeaf, Dead
<1>10. PartAt(From113664, 113664, 119296, 120832, 127024, 127744, 128768, 131072, 194560,
              LastPoint + 1, StartsFrom113664)
  BY <1>1, <1>2, <1>3, <1>4, <1>5, <1>6, <1>7, <1>8, <1>9 DEF PartAt, Quarter
<1> QED  BY <1>10, PartPlaced, LastAssumption

(* The blocks below 592. *)
StartsBelow592 == [BASIC_LATIN |-> 0, LATIN_1_SUPPLEMENT |-> 128,
                   LATIN_EXTENDED_A |-> 256, LATIN_EXTENDED_B |-> 384]

(* The blocks below 592 are placed. *)
LEMMA Below592Placed == Placed(Below592, 0, 592, 9, StartsBelow592)
<1>1. FourBlocks(Below592, 0, 592, StartsBelow592)
  BY DEF FourBlocks, TwoBlocks, Node, LeafAt, LatinEnds, IsLeaf, Dead, Below592, StartsBelow592
<1>2. PICK depth \in Nat, lo \in Nat, to \in Nat : depth = 7 /\ lo = 0 /\ to = 592
  OBVIOUS
<1>3. FourBlocks(Below592, lo, to, StartsBelow592)
  BY <1>1, <1>2
<1>4. Placed(Below592, lo, to, (depth + 1) + 1, StartsBelow592)
  BY <1>3, FourPlaced
<1>5. (depth + 1) + 1 = 9
  BY <1>2
<1> QED  BY <1>2, <1>4, <1>5

(* All blocks. *)
Starts ==
  [block \in DOMAIN StartsBelow592 \cup DOMAIN StartsFrom592
             \cup DOMAIN StartsFrom4608 \cup DOMAIN StartsFrom8192
             \cup DOMAIN StartsFrom11904 \cup DOMAIN StartsFrom43392
             \cup DOMAIN StartsFrom66000 \cup DOMAIN StartsFrom68608
             \cup DOMAIN StartsFrom113664 |->
     IF block \in DOMAIN StartsBelow592 THEN StartsBelow592[block]
     ELSE IF block \in DOMAIN StartsFrom592 THEN StartsFrom592[block]
     ELSE IF block \in DOMAIN StartsFrom4608 THEN StartsFrom4608[block]
     ELSE IF block \in DOMAIN StartsFrom8192 THEN StartsFrom8192[block]
     ELSE IF block \in DOMAIN StartsFrom11904 THEN StartsFrom11904[block]
     ELSE IF block \in DOMAIN StartsFrom43392 THEN StartsFrom43392[block]
     ELSE IF block \in DOMAIN StartsFrom66000 THEN StartsFrom66000[block]
     ELSE IF block \in DOMAIN StartsFrom68608 THEN StartsFrom68608[block]
     ELSE StartsFrom113664[block]]

(* No block is in two of the nine tables, so the table of all blocks has   *)
(* what each of them has.                                                  *)
LEMMA StartsExtend ==
  /\ Extends(Starts, StartsBelow592)
  /\ Extends(Starts, StartsFrom592)
  /\ Extends(Starts, StartsFrom4608)
  /\ Extends(Starts, StartsFrom8192)
  /\ Extends(Starts, StartsFrom11904)
  /\ Extends(Starts, StartsFrom43392)
  /\ Extends(Starts, StartsFrom66000)
  /\ Extends(Starts, StartsFrom68608)
  /\ Extends(Starts, StartsFrom113664)
<1>1. DOMAIN StartsFrom592 \cap DOMAIN StartsBelow592 = {}
  BY DEF StartsBelow592, StartsFrom592
<1>2. DOMAIN StartsFrom4608 \cap (DOMAIN StartsBelow592
        \cup DOMAIN StartsFrom592) = {}
  BY DEF StartsBelow592, StartsFrom592, StartsFrom4608
<1>3. DOMAIN StartsFrom8192 \cap (DOMAIN StartsBelow592
        \cup DOMAIN StartsFrom592 \cup DOMAIN StartsFrom4608) = {}
  BY DEF StartsBelow592, StartsFrom592, StartsFrom4608, StartsFrom8192
<1>4. DOMAIN StartsFrom11904 \cap (DOMAIN StartsBelow592
        \cup DOMAIN StartsFrom592 \cup DOMAIN StartsFrom4608
        \cup DOMAIN StartsFrom8192) = {}
  BY DEF StartsBelow592, StartsFrom592, StartsFrom4608, StartsFrom8192,
         StartsFrom11904
<1>5. DOMAIN StartsFrom43392 \cap (DOMAIN StartsBelow592
        \cup DOMAIN StartsFrom592 \cup DOMAIN StartsFrom4608
        \cup DOMAIN StartsFrom8192 \cup DOMAIN StartsFrom11904) = {}
  BY DEF StartsBelow592, StartsFrom592, StartsFrom4608, StartsFrom8192,
         StartsFrom11904, StartsFrom43392
<1>6. DOMAIN StartsFrom66000 \cap (DOMAIN StartsBelow592
        \cup DOMAIN StartsFrom592 \cup DOMAIN StartsFrom4608
        \cup DOMAIN StartsFrom8192 \cup DOMAIN StartsFrom11904
        \cup DOMAIN StartsFrom43392) = {}
  BY DEF StartsBelow592, StartsFrom592, StartsFrom4608, StartsFrom8192,
         StartsFrom11904, StartsFrom43392, StartsFrom66000
<1>7. DOMAIN StartsFrom68608 \cap (DOMAIN StartsBelow592
        \cup DOMAIN StartsFrom592 \cup DOMAIN StartsFrom4608
        \cup DOMAIN StartsFrom8192 \cup DOMAIN StartsFrom11904
        \cup DOMAIN StartsFrom43392 \cup DOMAIN StartsFrom66000) = {}
  BY DEF StartsBelow592, StartsFrom592, StartsFrom4608, StartsFrom8192,
         StartsFrom11904, StartsFrom43392, StartsFrom66000, StartsFrom68608
<1>8. DOMAIN StartsFrom113664 \cap (DOMAIN StartsBelow592
        \cup DOMAIN StartsFrom592 \cup DOMAIN StartsFrom4608
        \cup DOMAIN StartsFrom8192 \cup DOMAIN StartsFrom11904
        \cup DOMAIN StartsFrom43392 \cup DOMAIN StartsFrom66000
        \cup DOMAIN StartsFrom68608) = {}
  BY DEF StartsBelow592, StartsFrom592, StartsFrom4608, StartsFrom8192,
         StartsFrom11904, StartsFrom43392, StartsFrom66000, StartsFrom68608,
         StartsFrom113664
<1>9. Extends(Starts, StartsBelow592)
  BY <1>1, <1>2, <1>3, <1>4, <1>5, <1>6, <1>7, <1>8 DEF Extends, Starts
<1>10. Extends(Starts, StartsFrom592)
  BY <1>1, <1>2, <1>3, <1>4, <1>5, <1>6, <1>7, <1>8 DEF Extends, Starts
<1>11. Extends(Starts, StartsFrom4608)
  BY <1>1, <1>2, <1>3, <1>4, <1>5, <1>6, <1>7, <1>8 DEF Extends, Starts
<1>12. Extends(Starts, StartsFrom8192)
  BY <1>1, <1>2, <1>3, <1>4, <1>5, <1>6, <1>7, <1>8 DEF Extends, Starts
<1>13. Extends(Starts, StartsFrom11904)
  BY <1>1, <1>2, <1>3, <1>4, <1>5, <1>6, <1>7, <1>8 DEF Extends, Starts
<1>14. Extends(Starts, StartsFrom43392)
  BY <1>1, <1>2, <1>3, <1>4, <1>5, <1>6, <1>7, <1>8 DEF Extends, Starts
<1>15. Extends(Starts, StartsFrom66000)
  BY <1>1, <1>2, <1>3, <1>4, <1>5, <1>6, <1>7, <1>8 DEF Extends, Starts
<1>16. Extends(Starts, StartsFrom68608)
  BY <1>1, <1>2, <1>3, <1>4, <1>5, <1>6, <1>7, <1>8 DEF Extends, Starts
<1>17. Extends(Starts, StartsFrom113664)
  BY <1>1, <1>2, <1>3, <1>4, <1>5, <1>6, <1>7, <1>8 DEF Extends, Starts
<1> QED  BY <1>9, <1>10, <1>11, <1>12, <1>13, <1>14, <1>15, <1>16, <1>17

(* A code point reaches every subtree that is placed. *)
LEMMA PlacedNonempty ==
  ASSUME NEW tree, NEW lo, NEW to, NEW depth, NEW table, Placed(tree, lo, to, depth, table)
  PROVE  lo < to
  BY PlacedIsSound DEF LeafAt

(* The top of the tree: the blocks below 592 and eight parts.              *)
TopAt(tree, n0, n1, n2, n3, n4, n5, n6, n7, n8, n9, table) ==
  /\ Node(tree, n1) /\ Node(tree[3], n5) /\ Node(tree[3][2], n3) /\ Node(tree[3][3], n7)
  /\ Node(tree[3][2][2], n2) /\ Node(tree[3][2][3], n4)
  /\ Node(tree[3][3][2], n6) /\ Node(tree[3][3][3], n8)
  /\ Placed(tree[2], n0, n1, 9, table)
  /\ Placed(tree[3][2][2][2], n1, n2, 6, table) /\ Placed(tree[3][2][2][3], n2, n3, 6, table)
  /\ Placed(tree[3][2][3][2], n3, n4, 6, table) /\ Placed(tree[3][2][3][3], n4, n5, 6, table)
  /\ Placed(tree[3][3][2][2], n5, n6, 6, table) /\ Placed(tree[3][3][2][3], n6, n7, 6, table)
  /\ Placed(tree[3][3][3][2], n7, n8, 6, table) /\ Placed(tree[3][3][3][3], n8, n9, 6, table)

(* It is placed if they are. *)
LEMMA TopPlaced ==
  ASSUME NEW tree, NEW n0 \in Nat, NEW n1 \in Nat, NEW n2 \in Nat, NEW n3 \in Nat,
         NEW n4 \in Nat, NEW n5 \in Nat, NEW n6 \in Nat, NEW n7 \in Nat, NEW n8 \in Nat,
         NEW n9 \in Nat, NEW table,
         TopAt(tree, n0, n1, n2, n3, n4, n5, n6, n7, n8, n9, table)
  PROVE  Placed(tree, n0, n9, 10, table)
<1>1. /\ n0 < n1 /\ n1 < n2 /\ n2 < n3 /\ n3 < n4 /\ n4 < n5
      /\ n5 < n6 /\ n6 < n7 /\ n7 < n8 /\ n8 < n9
  BY PlacedNonempty DEF TopAt
<1>2. n1 < n3 /\ n3 < n5 /\ n1 < n5 /\ n5 < n7 /\ n7 < n9 /\ n5 < n9 /\ n1 < n9
  BY <1>1
<1>3. PICK d \in Nat : d = 6
  OBVIOUS
<1>4. Placed(tree[3][2][2], n1, n3, d + 1, table) /\ Placed(tree[3][2][3], n3, n5, d + 1, table)
  <2>1. Node(tree[3][2][2], n2) /\ Node(tree[3][2][3], n4)
    BY DEF TopAt
  <2>2. /\ Placed(tree[3][2][2][2], n1, n2, d, table) /\ Placed(tree[3][2][2][3], n2, n3, d, table)
        /\ Placed(tree[3][2][3][2], n3, n4, d, table) /\ Placed(tree[3][2][3][3], n4, n5, d, table)
    BY <1>3 DEF TopAt
  <2> QED  BY <1>1, <2>1, <2>2, PlacedNode
<1>5. Placed(tree[3][3][2], n5, n7, d + 1, table) /\ Placed(tree[3][3][3], n7, n9, d + 1, table)
  <2>1. Node(tree[3][3][2], n6) /\ Node(tree[3][3][3], n8)
    BY DEF TopAt
  <2>2. /\ Placed(tree[3][3][2][2], n5, n6, d, table) /\ Placed(tree[3][3][2][3], n6, n7, d, table)
        /\ Placed(tree[3][3][3][2], n7, n8, d, table) /\ Placed(tree[3][3][3][3], n8, n9, d, table)
    BY <1>3 DEF TopAt
  <2> QED  BY <1>1, <2>1, <2>2, PlacedNode
<1>6. Node(tree[3][2], n3) /\ Node(tree[3][3], n7) /\ Node(tree[3], n5) /\ Node(tree, n1)
  BY DEF TopAt
<1>7. PICK e \in Nat : e = d + 1
  BY <1>3
<1>8. Placed(tree[3][2], n1, n5, e + 1, table) /\ Placed(tree[3][3], n5, n9, e + 1, table)
  BY <1>2, <1>4, <1>5, <1>6, <1>7, PlacedNode
<1>9. PICK f \in Nat : f = e + 1
  BY <1>7
<1>10. Placed(tree[3], n1, n9, f + 1, table)
  BY <1>2, <1>6, <1>8, <1>9, PlacedNode
<1>11. f + 1 = 9 /\ 9 \in Nat
  BY <1>3, <1>7, <1>9
<1>12. PICK g \in Nat : g = 9
  OBVIOUS
<1>13. Placed(tree[2], n0, n1, g, table) /\ Placed(tree[3], n1, n9, g, table)
  BY <1>10, <1>11, <1>12 DEF TopAt
<1>14. Placed(tree, n0, n9, g + 1, table)
  BY <1>1, <1>2, <1>6, <1>13, PlacedNode
<1>15. g + 1 = 10
  BY <1>12
<1> QED  BY <1>14, <1>15

(* The tree is placed: it distinguishes the blocks of the table. *)
LEMMA TreePlaced == Placed(BlockTree, 0, LastPoint + 1, Depth, Starts)
<1>1. /\ Placed(Below592, 0, 592, 9, Starts)
      /\ Placed(From592, 592, 4608, 6, Starts)
      /\ Placed(From4608, 4608, 8192, 6, Starts)
      /\ Placed(From8192, 8192, 11904, 6, Starts)
      /\ Placed(From11904, 11904, 43392, 6, Starts)
  BY Below592Placed, From592Placed, From4608Placed, From8192Placed, From11904Placed,
     StartsExtend, PlacedInLarger
<1>2. /\ Placed(From43392, 43392, 66000, 6, Starts)
      /\ Placed(From66000, 66000, 68608, 6, Starts)
      /\ Placed(From68608, 68608, 113664, 6, Starts)
      /\ Placed(From113664, 113664, LastPoint + 1, 6, Starts)
  BY From43392Placed, From66000Placed, From68608Placed, From113664Placed,
     StartsExtend, PlacedInLarger
<1>3. /\ Node(BlockTree, 592) /\ Node(BlockTree[3], 43392)
      /\ Node(BlockTree[3][2], 8192) /\ Node(BlockTree[3][3], 68608)
      /\ Node(BlockTree[3][2][2], 4608) /\ Node(BlockTree[3][2][3], 11904)
      /\ Node(BlockTree[3][3][2], 66000) /\ Node(BlockTree[3][3][3], 113664)
  <2>1. ~IsLeaf(From4608) /\ ~IsLeaf(From11904) /\ ~IsLeaf(From66000) /\ ~IsLeaf(From113664)
    BY DEF From4608, From11904, From66000, From113664, IsLeaf
  <2>2. From4608 # Dead /\ From11904 # Dead /\ From66000 # Dead /\ From113664 # Dead
    BY <2>1 DEF Dead, IsLeaf
  <2> QED  BY <2>2 DEF BlockTree, Node, IsLeaf, Dead
<1>4. /\ BlockTree[2] = Below592
      /\ BlockTree[3][2][2][2] = From592 /\ BlockTree[3][2][2][3] = From4608
      /\ BlockTree[3][2][3][2] = From8192 /\ BlockTree[3][2][3][3] = From11904
      /\ BlockTree[3][3][2][2] = From43392 /\ BlockTree[3][3][2][3] = From66000
      /\ BlockTree[3][3][3][2] = From68608 /\ BlockTree[3][3][3][3] = From113664
  BY DEF BlockTree
<1>5. TopAt(BlockTree, 0, 592, 4608, 8192, 11904, 43392, 66000, 68608, 113664,
            LastPoint + 1, Starts)
  BY <1>1, <1>2, <1>3, <1>4 DEF TopAt
<1>6. LastPoint + 1 \in Nat
  BY LastAssumption
<1> QED  BY <1>5, <1>6, TopPlaced DEF Depth

GoesThrough(c0, c1, c2, c3, c4, c5, c6, c7, c8, c9, c10) ==
  \E g : /\ g[0] = c0 /\ g[1] = c1 /\ g[2] = c2 /\ g[3] = c3 /\ g[4] = c4 /\ g[5] = c5
         /\ g[6] = c6 /\ g[7] = c7 /\ g[8] = c8 /\ g[9] = c9 /\ g[10] = c10

(* A function goes through any eleven values. *)
LEMMA ElevenValues ==
  ASSUME NEW c0, NEW c1, NEW c2, NEW c3, NEW c4, NEW c5, NEW c6, NEW c7, NEW c8, NEW c9, NEW c10
  PROVE  GoesThrough(c0, c1, c2, c3, c4, c5, c6, c7, c8, c9, c10)
<1> DEFINE g == [k \in 0 .. 10 |->
                   IF k = 0 THEN c0 ELSE IF k = 1 THEN c1 ELSE IF k = 2 THEN c2
                   ELSE IF k = 3 THEN c3 ELSE IF k = 4 THEN c4 ELSE IF k = 5 THEN c5
                   ELSE IF k = 6 THEN c6 ELSE IF k = 7 THEN c7 ELSE IF k = 8 THEN c8
                   ELSE IF k = 9 THEN c9 ELSE c10]
<1>1. /\ g[0] = c0 /\ g[1] = c1 /\ g[2] = c2 /\ g[3] = c3 /\ g[4] = c4 /\ g[5] = c5
      /\ g[6] = c6 /\ g[7] = c7 /\ g[8] = c8 /\ g[9] = c9 /\ g[10] = c10
  OBVIOUS
<1> HIDE DEF g
<1> QED  BY <1>1 DEF GoesThrough

(* The subtrees a lookup of cp goes through. *)
PathOf(cp) == CHOOSE at : at = [k \in 0 .. Depth |->
                                  IF k = 0 THEN BlockTree ELSE Compared(at[k - 1], cp)]

(* They exist, and the lookup ends in the last one. *)
LEMMA PathSteps ==
  ASSUME NEW cp
  PROVE  /\ PathOf(cp)[0] = BlockTree
         /\ \A k \in 0 .. 9 : PathOf(cp)[k + 1] = Compared(PathOf(cp)[k], cp)
         /\ BlockOf(cp) = PathOf(cp)[10][1]
<1>1. PICK c0 : c0 = BlockTree
  OBVIOUS
<1>2. PICK c1 : c1 = Compared(c0, cp)
  OBVIOUS
<1>3. PICK c2 : c2 = Compared(c1, cp)
  OBVIOUS
<1>4. PICK c3 : c3 = Compared(c2, cp)
  OBVIOUS
<1>5. PICK c4 : c4 = Compared(c3, cp)
  OBVIOUS
<1>6. PICK c5 : c5 = Compared(c4, cp)
  OBVIOUS
<1>7. PICK c6 : c6 = Compared(c5, cp)
  OBVIOUS
<1>8. PICK c7 : c7 = Compared(c6, cp)
  OBVIOUS
<1>9. PICK c8 : c8 = Compared(c7, cp)
  OBVIOUS
<1>10. PICK c9 : c9 = Compared(c8, cp)
  OBVIOUS
<1>11. PICK c10 : c10 = Compared(c9, cp)
  OBVIOUS
<1>12. PICK g : /\ g[0] = c0 /\ g[1] = c1 /\ g[2] = c2 /\ g[3] = c3 /\ g[4] = c4 /\ g[5] = c5
                /\ g[6] = c6 /\ g[7] = c7 /\ g[8] = c8 /\ g[9] = c9 /\ g[10] = c10
  <2>1. GoesThrough(c0, c1, c2, c3, c4, c5, c6, c7, c8, c9, c10)
    BY ElevenValues
  <2> QED  BY <2>1 DEF GoesThrough
<1>13. g[0] = BlockTree
  BY <1>1, <1>12
<1>14. ASSUME NEW k \in 0 .. 9 PROVE g[k + 1] = Compared(g[k], cp)
  <2>1. /\ g[1] = Compared(g[0], cp) /\ g[2] = Compared(g[1], cp) /\ g[3] = Compared(g[2], cp)
        /\ g[4] = Compared(g[3], cp) /\ g[5] = Compared(g[4], cp) /\ g[6] = Compared(g[5], cp)
        /\ g[7] = Compared(g[6], cp) /\ g[8] = Compared(g[7], cp) /\ g[9] = Compared(g[8], cp)
        /\ g[10] = Compared(g[9], cp)
    BY <1>2, <1>3, <1>4, <1>5, <1>6, <1>7, <1>8, <1>9, <1>10, <1>11, <1>12
  <2>2. \/ k = 0 /\ k + 1 = 1
        \/ k = 1 /\ k + 1 = 2
        \/ k = 2 /\ k + 1 = 3
        \/ k = 3 /\ k + 1 = 4
        \/ k = 4 /\ k + 1 = 5
        \/ k = 5 /\ k + 1 = 6
        \/ k = 6 /\ k + 1 = 7
        \/ k = 7 /\ k + 1 = 8
        \/ k = 8 /\ k + 1 = 9
        \/ k = 9 /\ k + 1 = 10
    OBVIOUS
  <2> QED  BY <2>1, <2>2
<1> DEFINE h == [k \in 0 .. Depth |-> g[k]]
<1>15. h = [k \in 0 .. Depth |-> IF k = 0 THEN BlockTree ELSE Compared(h[k - 1], cp)]
  <2>1. ASSUME NEW k \in 0 .. Depth
        PROVE  h[k] = IF k = 0 THEN BlockTree ELSE Compared(h[k - 1], cp)
    <3>1. CASE k = 0
      BY <1>13, <3>1 DEF Depth
    <3>2. CASE k # 0
      <4>1. k - 1 \in 0 .. 9 /\ k - 1 \in 0 .. Depth /\ (k - 1) + 1 = k
        BY <3>2 DEF Depth
      <4>2. g[k] = Compared(g[k - 1], cp)
        BY <1>14, <4>1
      <4>3. h[k] = g[k] /\ h[k - 1] = g[k - 1]
        BY <4>1
      <4> HIDE DEF h
      <4> QED  BY <3>2, <4>2, <4>3
    <3> QED  BY <3>1, <3>2
  <2> QED  BY <2>1
<1>16. PathOf(cp) = [k \in 0 .. Depth |->
                       IF k = 0 THEN BlockTree ELSE Compared(PathOf(cp)[k - 1], cp)]
  <2> HIDE DEF h
  <2> QED  BY <1>15 DEF PathOf
<1>17. PathOf(cp)[0] = BlockTree
  BY <1>16 DEF Depth
<1>18. ASSUME NEW k \in 0 .. 9 PROVE PathOf(cp)[k + 1] = Compared(PathOf(cp)[k], cp)
  <2>1. k + 1 \in 0 .. Depth /\ k + 1 # 0 /\ (k + 1) - 1 = k
    BY DEF Depth
  <2> QED  BY <1>16, <2>1
<1>19. BlockOf(cp) = PathOf(cp)[10][1]
  BY DEF BlockOf, BlockFrom, PathOf, Depth
<1> QED  BY <1>17, <1>18, <1>19

(* The subtrees one comparison further on. *)
Halves(trees) == UNION {IF IsLeaf(tree) THEN {} ELSE {tree[2], tree[3]} : tree \in trees}

(* The subtrees after each number of comparisons. *)
Levels == CHOOSE level : level = [k \in 0 .. Depth |->
                                    IF k = 0 THEN {BlockTree} ELSE Halves(level[k - 1])]

(* The levels exist, and the subtrees are in them. *)
LEMMA LevelSteps ==
  /\ Levels[0] = {BlockTree}
  /\ \A k \in 0 .. 9 : Levels[k + 1] = Halves(Levels[k])
  /\ Subtrees = UNION {Levels[k] : k \in 0 .. Depth}
<1>1. PICK c0 : c0 = {BlockTree}
  OBVIOUS
<1>2. PICK c1 : c1 = Halves(c0)
  OBVIOUS
<1>3. PICK c2 : c2 = Halves(c1)
  OBVIOUS
<1>4. PICK c3 : c3 = Halves(c2)
  OBVIOUS
<1>5. PICK c4 : c4 = Halves(c3)
  OBVIOUS
<1>6. PICK c5 : c5 = Halves(c4)
  OBVIOUS
<1>7. PICK c6 : c6 = Halves(c5)
  OBVIOUS
<1>8. PICK c7 : c7 = Halves(c6)
  OBVIOUS
<1>9. PICK c8 : c8 = Halves(c7)
  OBVIOUS
<1>10. PICK c9 : c9 = Halves(c8)
  OBVIOUS
<1>11. PICK c10 : c10 = Halves(c9)
  OBVIOUS
<1>12. PICK g : /\ g[0] = c0 /\ g[1] = c1 /\ g[2] = c2 /\ g[3] = c3 /\ g[4] = c4 /\ g[5] = c5
         /\ g[6] = c6 /\ g[7] = c7 /\ g[8] = c8 /\ g[9] = c9 /\ g[10] = c10
  <2>1. GoesThrough(c0, c1, c2, c3, c4, c5, c6, c7, c8, c9, c10)
    BY ElevenValues
  <2> QED  BY <2>1 DEF GoesThrough
<1>13. g[0] = {BlockTree}
  BY <1>1, <1>12
<1>14. ASSUME NEW k \in 0 .. 9 PROVE g[k + 1] = Halves(g[k])
  <2>1. /\ g[1] = Halves(g[0]) /\ g[2] = Halves(g[1]) /\ g[3] = Halves(g[2])
        /\ g[4] = Halves(g[3]) /\ g[5] = Halves(g[4]) /\ g[6] = Halves(g[5])
        /\ g[7] = Halves(g[6]) /\ g[8] = Halves(g[7]) /\ g[9] = Halves(g[8])
        /\ g[10] = Halves(g[9])
    BY <1>2, <1>3, <1>4, <1>5, <1>6, <1>7, <1>8, <1>9, <1>10, <1>11, <1>12
  <2>2. \/ k = 0 /\ k + 1 = 1
        \/ k = 1 /\ k + 1 = 2
        \/ k = 2 /\ k + 1 = 3
        \/ k = 3 /\ k + 1 = 4
        \/ k = 4 /\ k + 1 = 5
        \/ k = 5 /\ k + 1 = 6
        \/ k = 6 /\ k + 1 = 7
        \/ k = 7 /\ k + 1 = 8
        \/ k = 8 /\ k + 1 = 9
        \/ k = 9 /\ k + 1 = 10
    OBVIOUS
  <2> QED  BY <2>1, <2>2
<1> DEFINE h == [k \in 0 .. Depth |-> g[k]]
<1>15. h = [k \in 0 .. Depth |-> IF k = 0 THEN {BlockTree} ELSE Halves(h[k - 1])]
  <2>1. ASSUME NEW k \in 0 .. Depth
        PROVE  h[k] = IF k = 0 THEN {BlockTree} ELSE Halves(h[k - 1])
    <3>1. CASE k = 0
      BY <1>13, <3>1 DEF Depth
    <3>2. CASE k # 0
      <4>1. k - 1 \in 0 .. 9 /\ k - 1 \in 0 .. Depth /\ (k - 1) + 1 = k
        BY <3>2 DEF Depth
      <4>2. g[k] = Halves(g[k - 1])
        BY <1>14, <4>1
      <4>3. h[k] = g[k] /\ h[k - 1] = g[k - 1]
        BY <4>1
      <4> HIDE DEF h
      <4> QED  BY <3>2, <4>2, <4>3
    <3> QED  BY <3>1, <3>2
  <2> QED  BY <2>1
<1>16. Levels = [k \in 0 .. Depth |->
                       IF k = 0 THEN {BlockTree} ELSE Halves(Levels[k - 1])]
  <2> HIDE DEF h
  <2> QED  BY <1>15 DEF Levels
<1>17. Levels[0] = {BlockTree}
  BY <1>16 DEF Depth
<1>18. ASSUME NEW k \in 0 .. 9 PROVE Levels[k + 1] = Halves(Levels[k])
  <2>1. k + 1 \in 0 .. Depth /\ k + 1 # 0 /\ (k + 1) - 1 = k
    BY DEF Depth
  <2> QED  BY <1>16, <2>1
<1>19. Subtrees = UNION {Levels[k] : k \in 0 .. Depth}
  BY DEF Subtrees, Levels, Halves
<1> QED  BY <1>17, <1>18, <1>19


(* A lookup that goes on in a subtree placed at its code point, at the     *)
(* first code point of the subtree, ends at the block that begins there.   *)
LEMMA FromStart ==
  ASSUME NEW start \in Nat, NEW j \in 0 .. 10, NEW tree, NEW to,
         Placed(tree, start, to, 10 - j, Starts), PathOf(start)[j] = tree
  PROVE  /\ BlockOf(start) \in DOMAIN Starts
         /\ Starts[BlockOf(start)] = start
<1> DEFINE OnPath(i) == \E last : Placed(PathOf(start)[i], start, last, 10 - i, Starts)
<1>1. ASSUME NEW i \in 0 .. 9, OnPath(i) PROVE OnPath(i + 1)
  <2>1. PICK t, last : t = PathOf(start)[i] /\ Placed(t, start, last, 10 - i, Starts)
    BY <1>1
  <2>2. PathOf(start)[i + 1] = Compared(t, start)
    BY <2>1, PathSteps
  <2>3. 10 - (i + 1) \in Nat /\ (10 - i) - 1 = 10 - (i + 1)
    OBVIOUS
  <2>4. CASE LeafAt(t, start, last, Starts)
    <3>1. Compared(t, start) = t
      BY <2>4 DEF Compared, LeafAt
    <3>2. last \in Nat
      BY <2>1, PlacedIsSound
    <3>3. Placed(t, start, last, 10 - (i + 1), Starts)
      BY <2>3, <2>4, <3>2, PlacedLeaf
    <3> QED  BY <2>2, <3>1, <3>3
  <2>5. CASE ~IsLeaf(t) /\ start < t[1] /\ Placed(t[2], start, t[1], (10 - i) - 1, Starts)
    <3>1. Compared(t, start) = t[2]
      BY <2>5 DEF Compared
    <3> QED  BY <2>2, <2>3, <2>5, <3>1
  <2> QED  BY <2>1, <2>4, <2>5, PlacedIsSound
<1>2. OnPath(j)
  OBVIOUS
<1>3. OnPath(10)
  <2> HIDE DEF OnPath
  <2>1. /\ OnPath(0) => OnPath(1)
        /\ OnPath(1) => OnPath(2)
        /\ OnPath(2) => OnPath(3)
        /\ OnPath(3) => OnPath(4)
        /\ OnPath(4) => OnPath(5)
    <3>1. \A i \in 0 .. 9 : OnPath(i) => OnPath(i + 1)
      BY <1>1
    <3>2. 0 + 1 = 1 /\ 1 + 1 = 2 /\ 2 + 1 = 3 /\ 3 + 1 = 4 /\ 4 + 1 = 5
      OBVIOUS
    <3> QED  BY <3>1, <3>2
  <2>2. /\ OnPath(5) => OnPath(6)
        /\ OnPath(6) => OnPath(7)
        /\ OnPath(7) => OnPath(8)
        /\ OnPath(8) => OnPath(9)
        /\ OnPath(9) => OnPath(10)
    <3>1. \A i \in 0 .. 9 : OnPath(i) => OnPath(i + 1)
      BY <1>1
    <3>2. 5 + 1 = 6 /\ 6 + 1 = 7 /\ 7 + 1 = 8 /\ 8 + 1 = 9 /\ 9 + 1 = 10
      OBVIOUS
    <3> QED  BY <3>1, <3>2
  <2>3. \/ j = 0 \/ j = 1 \/ j = 2 \/ j = 3 \/ j = 4 \/ j = 5
        \/ j = 6 \/ j = 7 \/ j = 8 \/ j = 9 \/ j = 10
    OBVIOUS
  <2> QED  BY <1>2, <2>1, <2>2, <2>3
<1>4. PICK last : Placed(PathOf(start)[10], start, last, 0, Starts)
  BY <1>3
<1>5. LeafAt(PathOf(start)[10], start, last, Starts)
  BY <1>4, PlacedIsSound
<1>6. BlockOf(start) = PathOf(start)[10][1]
  BY PathSteps
<1> QED  BY <1>5, <1>6 DEF LeafAt

(* The lookup at the first code point of a block ends at that block. *)
IsStart(cp) == BlockOf(cp) \in DOMAIN Starts /\ Starts[BlockOf(cp)] = cp

(* A subtree after j comparisons: the code points that get there are those *)
(* of its place, which ends where a block begins or after the last point.  *)
InLevel(tree, j) ==
  \/ tree = Dead
  \/ \E lo, to : /\ Placed(tree, lo, to, 10 - j, Starts)
                 /\ \A cp \in lo .. to - 1 : PathOf(cp)[j] = tree
                 /\ to = LastPoint + 1 \/ IsStart(to)

(* The pivot of such a subtree is the first code point of a block. *)
LEMMA PivotIsStart ==
  ASSUME NEW j \in 0 .. 9, NEW tree, InLevel(tree, j), ~IsLeaf(tree)
  PROVE  /\ IsStart(tree[1])
         /\ InLevel(tree[2], j + 1) /\ InLevel(tree[3], j + 1)
<1>1. tree # Dead
  BY DEF Dead, IsLeaf
<1>2. PICK lo, to : /\ Placed(tree, lo, to, 10 - j, Starts)
                    /\ \A cp \in lo .. to - 1 : PathOf(cp)[j] = tree
                    /\ to = LastPoint + 1 \/ IsStart(to)
  BY <1>1 DEF InLevel
<1>3. PICK pivot : pivot = tree[1]
  OBVIOUS
<1>4. (10 - j) - 1 = 10 - (j + 1) /\ j + 1 \in 0 .. 10
  OBVIOUS
<1>5. /\ lo \in Nat /\ to \in Nat /\ pivot \in Nat /\ lo < pivot
      /\ Placed(tree[2], lo, pivot, 10 - (j + 1), Starts)
      /\ \/ /\ pivot < to /\ tree[3] # Dead
            /\ Placed(tree[3], pivot, to, 10 - (j + 1), Starts)
         \/ pivot = to /\ to <= LastPoint /\ tree[3] = Dead
  BY <1>2, <1>3, <1>4, PlacedIsSound DEF LeafAt
<1>6. ASSUME NEW cp \in lo .. to - 1
      PROVE  PathOf(cp)[j + 1] = IF cp < pivot THEN tree[2] ELSE tree[3]
  <2>1. PathOf(cp)[j] = tree
    BY <1>2
  <2>2. PathOf(cp)[j + 1] = Compared(tree, cp)
    BY <2>1, PathSteps
  <2> QED  BY <1>3, <2>2 DEF Compared
<1>7. IsStart(pivot)
  <2>1. CASE pivot < to /\ Placed(tree[3], pivot, to, 10 - (j + 1), Starts)
    <3>1. PathOf(pivot)[j + 1] = tree[3]
      BY <1>5, <1>6, <2>1
    <3>2. PICK i \in 0 .. 10 : i = j + 1
      BY <1>4
    <3> QED  BY <1>5, <2>1, <3>1, <3>2, FromStart DEF IsStart
  <2>2. CASE pivot = to /\ to <= LastPoint
    BY <1>2, <2>2, LastAssumption
  <2> QED  BY <1>5, <2>1, <2>2
<1>8. InLevel(tree[2], j + 1)
  <2>1. ASSUME NEW cp \in lo .. pivot - 1 PROVE PathOf(cp)[j + 1] = tree[2]
    BY <1>5, <1>6
  <2> QED  BY <1>5, <1>7, <2>1 DEF InLevel
<1>9. InLevel(tree[3], j + 1)
  <2>1. CASE tree[3] = Dead
    BY <2>1 DEF InLevel
  <2>2. CASE Placed(tree[3], pivot, to, 10 - (j + 1), Starts)
    <3>1. ASSUME NEW cp \in pivot .. to - 1 PROVE PathOf(cp)[j + 1] = tree[3]
      BY <1>5, <1>6
    <3> QED  BY <1>2, <2>2, <3>1 DEF InLevel
  <2> QED  BY <1>5, <2>1, <2>2
<1> QED  BY <1>3, <1>7, <1>8, <1>9

(* All subtrees. *)
LEMMA LevelsPlaced ==
  ASSUME NEW k \in 0 .. Depth
  PROVE  \A tree \in Levels[k] : InLevel(tree, k)
<1> DEFINE AllIn(i) == \A tree \in Levels[i] : InLevel(tree, i)
<1>1. AllIn(0)
  <2>1. Placed(BlockTree, 0, LastPoint + 1, 10 - 0, Starts)
    BY TreePlaced DEF Depth
  <2>2. \A cp \in 0 .. (LastPoint + 1) - 1 : PathOf(cp)[0] = BlockTree
    BY PathSteps
  <2>3. InLevel(BlockTree, 0)
    BY <2>1, <2>2 DEF InLevel
  <2> QED  BY <2>3, LevelSteps
<1>2. ASSUME NEW i \in 0 .. 9, AllIn(i) PROVE AllIn(i + 1)
  <2> SUFFICES ASSUME NEW half \in Levels[i + 1] PROVE InLevel(half, i + 1)
    OBVIOUS
  <2>1. half \in Halves(Levels[i])
    BY LevelSteps
  <2>2. PICK tree \in Levels[i] : ~IsLeaf(tree) /\ half \in {tree[2], tree[3]}
    BY <2>1 DEF Halves
  <2>3. InLevel(tree, i)
    BY <1>2
  <2> QED  BY <2>2, <2>3, PivotIsStart
<1>3. AllIn(k)
  <2> HIDE DEF AllIn
  <2>1. /\ AllIn(0) => AllIn(1)
        /\ AllIn(1) => AllIn(2)
        /\ AllIn(2) => AllIn(3)
        /\ AllIn(3) => AllIn(4)
        /\ AllIn(4) => AllIn(5)
    <3>1. \A i \in 0 .. 9 : AllIn(i) => AllIn(i + 1)
      BY <1>2
    <3>2. 0 + 1 = 1 /\ 1 + 1 = 2 /\ 2 + 1 = 3 /\ 3 + 1 = 4 /\ 4 + 1 = 5
      OBVIOUS
    <3> QED  BY <3>1, <3>2
  <2>2. /\ AllIn(5) => AllIn(6)
        /\ AllIn(6) => AllIn(7)
        /\ AllIn(7) => AllIn(8)
        /\ AllIn(8) => AllIn(9)
        /\ AllIn(9) => AllIn(10)
    <3>1. \A i \in 0 .. 9 : AllIn(i) => AllIn(i + 1)
      BY <1>2
    <3>2. 5 + 1 = 6 /\ 6 + 1 = 7 /\ 7 + 1 = 8 /\ 8 + 1 = 9 /\ 9 + 1 = 10
      OBVIOUS
    <3> QED  BY <3>1, <3>2
  <2>3. \/ k = 0 \/ k = 1 \/ k = 2 \/ k = 3 \/ k = 4 \/ k = 5
        \/ k = 6 \/ k = 7 \/ k = 8 \/ k = 9 \/ k = 10
    BY DEF Depth
  <2> QED  BY <1>1, <2>1, <2>2, <2>3
<1> QED  BY <1>3

(* No subtree is deeper than the last level. *)
LEMMA LastLevelIsLeaves ==
  ASSUME NEW tree, InLevel(tree, 10)
  PROVE  IsLeaf(tree)
<1>1. CASE tree = Dead
  BY <1>1 DEF Dead, IsLeaf
<1>2. CASE \E lo, to : Placed(tree, lo, to, 10 - 10, Starts)
  BY <1>2, PlacedIsSound DEF LeafAt
<1> QED  BY <1>1, <1>2 DEF InLevel

(* Every range starts at the first code point of the block returned. *)
LEMMA RangesAreBlocks ==
  ASSUME NEW start \in RangeStarts
  PROVE  IsStart(start)
<1>1. CASE start = 0
  <2>1. PathOf(0)[0] = BlockTree
    BY PathSteps
  <2>2. Placed(BlockTree, 0, LastPoint + 1, 10 - 0, Starts)
    BY TreePlaced DEF Depth
  <2>3. PICK j \in 0 .. 10 : j = 0
    OBVIOUS
  <2>4. PICK s \in Nat : s = 0
    OBVIOUS
  <2> QED  BY <1>1, <2>1, <2>2, <2>3, <2>4, FromStart DEF IsStart
<1>2. CASE \E tree \in Subtrees : ~IsLeaf(tree) /\ start = tree[1]
  <2>1. PICK tree \in Subtrees : ~IsLeaf(tree) /\ start = tree[1]
    BY <1>2
  <2>2. PICK k \in 0 .. Depth : tree \in Levels[k]
    BY LevelSteps
  <2>3. InLevel(tree, k)
    BY <2>2, LevelsPlaced
  <2>4. k # 10
    BY <2>1, <2>3, LastLevelIsLeaves
  <2>5. k \in 0 .. 9
    BY <2>4 DEF Depth
  <2> QED  BY <2>1, <2>3, <2>5, PivotIsStart
<1> QED  BY <1>1, <1>2 DEF RangeStarts

(* No block is returned for two ranges. *)
LEMMA BlocksAreDistinct == IsInjective([start \in RangeStarts |-> BlockOf(start)])
  BY RangesAreBlocks DEF IsStart, IsInjective

-----------------------------------------------------------------------------
(* A lookup stands at a subtree placed at the code points that agree with  *)
(* it so far.                                                              *)
LookInv == /\ high \in Int
           /\ \/ node = <<"UNKNOWN">>
              \/ \E depth : Placed(node, low, high + 1, depth, Starts)

(* The invariant of a lookup holds in every state. *)
LEMMA LookInvariance == Spec => []LookInv
<1>1. Init => LookInv
  <2>1. CASE LookupBegins
    <3>1. Placed(node, low, high + 1, Depth, Starts)
      BY <2>1, TreePlaced DEF LookupBegins
    <3> QED  BY <2>1, <3>1, LastAssumption DEF LookInv, LookupBegins
  <2>2. CASE NoLookup
    BY <2>2, LastAssumption DEF LookInv, NoLookup
  <2> QED  BY <2>1, <2>2 DEF Init
<1>2. ASSUME LookInv, [Next]_vars PROVE LookInv'
  <2>1. CASE UNCHANGED lookupVars
    BY <1>2, <2>1 DEF LookInv, lookupVars
  <2>2. ASSUME GoBelow \/ GoFrom
        PROVE  /\ node[1] \in Nat /\ low \in Nat /\ high \in Int /\ low < node[1]
               /\ \E depth : Placed(node[2], low, node[1], depth, Starts)
               /\ \/ /\ node[1] < high + 1
                     /\ \E depth : Placed(node[3], node[1], high + 1, depth, Starts)
                  \/ node[1] = high + 1
    <3>1. ~IsLeaf(node)
      BY <2>2 DEF GoBelow, GoFrom
    <3>2. PICK depth : Placed(node, low, high + 1, depth, Starts)
      BY <1>2, <3>1 DEF LookInv, IsLeaf
    <3> QED  BY <1>2, <3>1, <3>2, PlacedIsSound DEF LookInv, LeafAt
  <2>3. CASE GoBelow
    <3>1. high' \in Int /\ high' + 1 = node[1]
      BY <2>2, <2>3 DEF GoBelow
    <3>2. node' = node[2] /\ low' = low
      BY <2>3 DEF GoBelow
    <3> QED  BY <2>2, <2>3, <3>1, <3>2 DEF LookInv
  <2>4. CASE GoFrom
    <3>1. node[1] <= high /\ node' = node[3] /\ high' = high /\ low' = node[1]
      BY <2>2, <2>4 DEF GoFrom
    <3> QED  BY <2>2, <2>4, <3>1 DEF LookInv
  <2> QED  BY <1>2, <2>1, <2>3, <2>4
           DEF Next, vars, Cleaning, Counting, Hashing, CountPlain, CountCleaned, Simhash
<1> QED  BY <1>1, <1>2, PTL DEF Spec

(* getUnicodeBlock: both outcomes of every comparison are possible, but    *)
(* for the one whose other outcome is Meetei Mayek, and no block is        *)
(* returned for two ranges.                                                *)
THEOREM NoComparisonWasted == Spec => []OneReturnIsDead
<1>1. ASSUME LookInv PROVE OneReturnIsDead
  <2>1. ASSUME ~IsLeaf(node)
        PROVE  low < node[1] /\ (node[1] <= high <=> node[3] # <<"MEETEI_MAYEK">>)
    <3>1. PICK depth : Placed(node, low, high + 1, depth, Starts)
      BY <1>1, <2>1 DEF LookInv, IsLeaf
    <3>2. /\ node[1] \in Nat /\ high \in Int /\ low < node[1]
          /\ \/ node[1] < high + 1 /\ node[3] # Dead
             \/ node[1] = high + 1 /\ node[3] = Dead
      BY <1>1, <2>1, <3>1, PlacedIsSound DEF LookInv, LeafAt
    <3> QED  BY <3>2 DEF Dead
  <2> QED  BY <2>1, BlocksAreDistinct DEF OneReturnIsDead
<1> QED  BY <1>1, LookInvariance, PTL

(* Where a lookup ends at one of the three Latin blocks with normal forms, *)
(* the code points that get there are those of the block.                  *)
LEMMA LatinRanges ==
  ASSUME LookInv, IsLeaf(node)
  PROVE  /\ node[1] = "BASIC_LATIN" => low = 0 /\ high = 127
         /\ node[1] = "LATIN_1_SUPPLEMENT" => low = 128 /\ high = 255
         /\ node[1] = "LATIN_EXTENDED_A" => low = 256 /\ high = 383
<1>1. CASE node = <<"UNKNOWN">>
  BY <1>1
<1>2. CASE \E depth : Placed(node, low, high + 1, depth, Starts)
  <2>1. LeafAt(node, low, high + 1, Starts) /\ high \in Int
    BY <1>2, PlacedIsSound DEF LookInv
  <2>2. Extends(Starts, StartsBelow592)
    BY StartsExtend
  <2>3. /\ Starts["BASIC_LATIN"] = 0 /\ Starts["LATIN_1_SUPPLEMENT"] = 128
        /\ Starts["LATIN_EXTENDED_A"] = 256
    BY <2>2 DEF Extends, StartsBelow592
  <2>4. /\ node[1] = "BASIC_LATIN" => low = 0 /\ high + 1 = 128
        /\ node[1] = "LATIN_1_SUPPLEMENT" => low = 128 /\ high + 1 = 256
        /\ node[1] = "LATIN_EXTENDED_A" => low = 256 /\ high + 1 = 384
    BY <2>1, <2>3 DEF LeafAt, LatinEnds
  <2> QED  BY <2>1, <2>4
<1> QED  BY <1>1, <1>2 DEF LookInv

(* normalizeCodePoint stays in the block, is idempotent, and maps letters, *)
(* and nothing else, to letters.                                           *)
THEOREM NormalForms == Spec => []NormalFormsAreLetters
<1>1. ASSUME LookInv PROVE NormalFormsAreLetters
  <2> SUFFICES ASSUME IsLeaf(node),
                      node[1] \in {"BASIC_LATIN", "LATIN_1_SUPPLEMENT", "LATIN_EXTENDED_A"},
                      NEW cp \in low .. high,
                      NormalizeIn(cp, node[1]) # cp
               PROVE  /\ NormalizeIn(cp, node[1]) \in low .. high
                      /\ NormalizeIn(NormalizeIn(cp, node[1]), node[1]) = NormalizeIn(cp, node[1])
                      /\ IsLetterIn(cp, node[1]) /\ IsLetterIn(NormalizeIn(cp, node[1]), node[1])
    BY DEF NormalFormsAreLetters
  <2>1. CASE node[1] = "BASIC_LATIN"
    <3>1. low = 0 /\ high = 127
      BY <1>1, <2>1, LatinRanges
    <3> QED  BY <2>1, <3>1 DEF NormalizeIn, IsLetterIn, BasicLatinLetter
  <2>2. CASE node[1] = "LATIN_1_SUPPLEMENT"
    <3>1. low = 128 /\ high = 255
      BY <1>1, <2>2, LatinRanges
    <3> QED  BY <2>2, <3>1 DEF NormalizeIn, NormalizeLatin1, IsLetterIn, IsLatin1Letter
  <2>3. CASE node[1] = "LATIN_EXTENDED_A"
    <3>1. low = 256 /\ high = 383
      BY <1>1, <2>3, LatinRanges
    <3> QED  BY <2>3, <3>1 DEF NormalizeIn, NormalizeExtendedA, IsLetterIn, BlocksWithoutLetters
  <2> QED  BY <2>1, <2>2, <2>3
<1> QED  BY <1>1, LookInvariance, PTL
=============================================================================
