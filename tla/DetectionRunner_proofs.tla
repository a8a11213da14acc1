----------------------- MODULE DetectionRunner_proofs ------------------------
(***************************************************************************)
(* For any profiles, texts, trials and rounds: a detection stays inside    *)
(* its text, and what it answers follows from its samples.  The argument:  *)
(* a language that no sample put ahead of another one weighs at most as    *)
(* much in every trial (NeverAbove), and strictly less in the trial of a   *)
(* sample that put the other one ahead (SomewhereBelow); the final scores  *)
(* are sums of those weights with the same positive factors, so that they  *)
(* compare as the weights do.                                              *)
(***************************************************************************)
EXTENDS DetectionRunner, SequenceTheorems, FiniteSetTheorems, TLAPS

(* The sums and products of DetectionRunner. *)
Plus(a, b) == a + b
Times(a, b) == a * b
Any(s) == CHOOSE x \in s : TRUE

Sums == INSTANCE FoldTheorems WITH Op <- Plus, Choose <- Any
Products == INSTANCE FoldTheorems WITH Op <- Times, Choose <- Any

Weights == [Lang -> Nat \ {0}]

TypeOK ==
  /\ text \in Texts /\ status \in {"running", "done", "modulo zero", "outside"}
  /\ alpha \in Nat \ {0} /\ i \in Nat
  /\ probs \in Weights /\ trialProbs \in Seq(Weights)
  /\ furthest \in Nat /\ ahead \subseteq Lang \X Lang

(* A language that no sample put ahead of another is in no trial above it. *)
NeverAbove(l, m) ==
  <<l, m>> \notin ahead =>
    /\ probs[l] <= probs[m]
    /\ \A k \in 1 .. Len(trialProbs) : trialProbs[k][l] <= trialProbs[k][m]

(* If besides some sample put the other one ahead, it is below it in the   *)
(* trial of that sample.                                                   *)
SomewhereBelow(l, m) ==
  <<m, l>> \in ahead /\ <<l, m>> \notin ahead =>
    \/ probs[l] < probs[m]
    \/ \E k \in 1 .. Len(trialProbs) : trialProbs[k][l] < trialProbs[k][m]

WeightsFollowEvidence == \A l, m \in Lang : NeverAbove(l, m) /\ SomewhereBelow(l, m)

IInv == /\ TypeOK
        /\ WeightsFollowEvidence
        /\ \A l \in Lang : <<Unknown, l>> \notin ahead
        /\ status = "done" => probs = EvenStart
        /\ SamplesStayInside

-----------------------------------------------------------------------------
(* Arithmetic of weights.                                                  *)
LEMMA ProductIsPositive ==
  ASSUME NEW a \in Nat \ {0}, NEW b \in Nat \ {0}
  PROVE  a * b \in Nat \ {0}
OBVIOUS

LEMMA ProductIsMonotone ==
  ASSUME NEW a \in Nat, NEW b \in Nat, NEW c \in Nat \ {0}
  PROVE  /\ a <= b => a * c <= b * c
         /\ a < b => a * c < b * c
OBVIOUS

(* One sample on two weights. *)
LEMMA WeightsKeepOrder ==
  ASSUME NEW a \in Nat \ {0}, NEW b \in Nat \ {0}, NEW s \in Nat, NEW r \in Nat,
         NEW c \in Nat \ {0}, a <= b, s <= r
  PROVE  /\ a * (s + c) <= b * (r + c)
         /\ a < b \/ s < r => a * (s + c) < b * (r + c)
<1>1. s + c \in Nat \ {0} /\ r + c \in Nat \ {0}
  OBVIOUS
<1>2. a * (s + c) <= b * (s + c) /\ (a < b => a * (s + c) < b * (s + c))
  BY <1>1, ProductIsMonotone
<1>3. (s + c) * b <= (r + c) * b /\ (s < r => (s + c) * b < (r + c) * b)
  BY <1>1, ProductIsMonotone
<1>4. (s + c) * b = b * (s + c) /\ (r + c) * b = b * (r + c)
  OBVIOUS
<1>5. a * (s + c) \in Nat /\ b * (s + c) \in Nat /\ b * (r + c) \in Nat
  BY <1>1
<1> QED  BY <1>2, <1>3, <1>4, <1>5

-----------------------------------------------------------------------------
LEMMA LangFacts ==
  /\ Unknown \in Lang /\ IsFiniteSet(Lang) /\ Lang # {}
  /\ Len(Langs) \in Nat /\ 2 <= Len(Langs) /\ DOMAIN Langs = 1 .. Len(Langs)
  /\ Langs[1] \in Lang /\ Langs[1] # Unknown
<1>1. Len(Langs) \in Nat /\ DOMAIN Langs = 1 .. Len(Langs)
  BY DetectionAssumption, LenProperties
<1>2. PICK k \in 2 .. Len(Langs) : Langs[k] = Unknown
  BY DetectionAssumption
<1>3. 2 <= Len(Langs) /\ Langs[1] # Unknown
  BY <1>1, <1>2, DetectionAssumption DEF IsInjective
<1>4. Langs[1] \in Lang /\ Unknown \in Lang
  BY <1>1, <1>2, <1>3 DEF Lang, Range
<1>5. IsFiniteSet(DOMAIN Langs)
  BY <1>1, FS_Interval
<1>6. Langs \in Surjection(DOMAIN Langs, Lang)
  BY DetectionAssumption, LenProperties DEF Lang, Range, Surjection
<1>7. IsFiniteSet(Lang)
  BY <1>5, <1>6, FS_Surjection
<1> QED  BY <1>1, <1>3, <1>4, <1>7

(* A sample lies within the text, and its scores are natural numbers.      *)
LEMMA DrawFacts ==
  ASSUME TypeOK, NEW draw \in Draws
  PROVE  /\ Len(text) \in Nat /\ draw[1] + draw[2] \in Nat
         /\ draw[1] + draw[2] < Len(text)
         /\ Scores(draw) \in [Lang -> Nat]
         /\ Scores(draw)[Unknown] = 0
<1>1. text \in Texts /\ text \in Seq(Range(text)) /\ Len(text) \in Nat
  BY DetectionAssumption, LenProperties DEF TypeOK
<1>2. /\ draw[1] \in Nat /\ draw[2] \in 1 .. 3
      /\ draw[1] < Len(text) - draw[2]
  BY <1>1 DEF Draws, LastIndex
<1>3. draw[1] + 1 \in 1 .. Len(text) /\ draw[1] + draw[2] \in 1 .. Len(text)
  BY <1>1, <1>2
<1>4. /\ \A l \in Lang : Score(Gram(draw[1], draw[2]), l) \in Nat
      /\ Score(Gram(draw[1], draw[2]), Unknown) = 0
  BY <1>1, <1>3, DetectionAssumption DEF Gram, Lang
<1>5. draw[1] + draw[2] \in Nat /\ draw[1] + draw[2] < Len(text)
  BY <1>1, <1>2
<1>6. Scores(draw) \in [Lang -> Nat] /\ Scores(draw)[Unknown] = 0
  BY <1>4, LangFacts DEF Scores
<1> QED  BY <1>1, <1>5, <1>6

(* What one sample does to the weights and to the record of who was ahead. *)
LEMMA SampleFacts ==
  ASSUME TypeOK, WeightsFollowEvidence, NEW draw \in Draws, Record(draw),
         \A l \in Lang : <<Unknown, l>> \notin ahead,
         NEW w, w = Weighted(Scores(draw))
  PROVE  /\ w \in Weights
         /\ ahead \subseteq ahead' /\ ahead' \subseteq Lang \X Lang
         /\ \A l, m \in Lang : <<l, m>> \notin ahead' => w[l] <= w[m]
         /\ \A l, m \in Lang : <<m, l>> \in ahead' /\ <<l, m>> \notin ahead' =>
              \/ w[l] < w[m]
              \/ \E k \in 1 .. Len(trialProbs) : trialProbs[k][l] < trialProbs[k][m]
         /\ \A l \in Lang : <<Unknown, l>> \notin ahead'
<1> DEFINE s == Scores(draw)
<1>1. s \in [Lang -> Nat] /\ s[Unknown] = 0
  BY DrawFacts
<1>2. ahead' = ahead \cup {p \in Lang \X Lang : s[p[1]] > s[p[2]]}
  BY DEF Record
<1>3. /\ probs \in Weights /\ alpha \in Nat \ {0} /\ ahead \subseteq Lang \X Lang
  BY DEF TypeOK
<1>4. w = [l \in Lang |-> probs[l] * (s[l] + alpha)]
  BY DEF Weighted
<1> HIDE DEF s
<1>5. \A l \in Lang : probs[l] \in Nat \ {0} /\ s[l] \in Nat /\ s[l] + alpha \in Nat \ {0}
  BY <1>1, <1>3 DEF Weights
<1>6. w \in Weights
  BY <1>4, <1>5, ProductIsPositive DEF Weights
<1>7. \A l, m \in Lang : <<l, m>> \in ahead' <=> <<l, m>> \in ahead \/ s[l] > s[m]
  BY <1>2
<1>8. ASSUME NEW l \in Lang, NEW m \in Lang, <<l, m>> \notin ahead'
      PROVE  /\ w[l] <= w[m]
             /\ probs[l] < probs[m] \/ s[l] < s[m] => w[l] < w[m]
  <2>1. probs[l] <= probs[m] /\ s[l] <= s[m]
    BY <1>5, <1>7, <1>8 DEF WeightsFollowEvidence, NeverAbove
  <2>2. w[l] = probs[l] * (s[l] + alpha) /\ w[m] = probs[m] * (s[m] + alpha)
    BY <1>4
  <2> QED  BY <1>3, <1>5, <2>1, <2>2, WeightsKeepOrder
<1>9. ASSUME NEW l \in Lang, NEW m \in Lang, <<m, l>> \in ahead', <<l, m>> \notin ahead'
      PROVE  \/ w[l] < w[m]
             \/ \E k \in 1 .. Len(trialProbs) : trialProbs[k][l] < trialProbs[k][m]
  <2>1. CASE <<m, l>> \in ahead
    BY <1>7, <1>8, <1>9, <2>1 DEF WeightsFollowEvidence, SomewhereBelow
  <2>2. CASE s[m] > s[l]
    BY <1>5, <1>8, <1>9, <2>2
  <2> QED  BY <1>7, <1>9, <2>1, <2>2
<1>10. ASSUME NEW l \in Lang PROVE <<Unknown, l>> \notin ahead'
  BY <1>1, <1>5, <1>7, LangFacts
<1> QED  BY <1>2, <1>3, <1>6, <1>8, <1>9, <1>10

-----------------------------------------------------------------------------
LEMMA EvenStartFacts ==
  EvenStart \in Weights /\ \A l \in Lang : EvenStart[l] = 1
BY DEF EvenStart, Weights

(* No sample yet. *)
LEMMA InitIInv == Init => IInv
<1> SUFFICES ASSUME Init PROVE IInv
  OBVIOUS
<1>1. trialProbs = <<>> /\ trialProbs \in Seq(Weights) /\ Len(trialProbs) = 0
  BY EmptySeq DEF Init
<1>2. TypeOK
  BY <1>1, EvenStartFacts, DetectionAssumption DEF Init, TypeOK
<1>3. WeightsFollowEvidence
  BY <1>1, EvenStartFacts DEF Init, WeightsFollowEvidence, NeverAbove, SomewhereBelow
<1>4. SamplesStayInside
  BY DEF Init, SamplesStayInside
<1> QED  BY <1>2, <1>3, <1>4 DEF IInv, Init

(* The last position read moves, but stays in front of the end.            *)
LEMMA FurthestFacts ==
  ASSUME TypeOK, SamplesStayInside, NEW draw \in Draws, Record(draw)
  PROVE  furthest' \in Nat /\ furthest' < Len(text)
<1>1. /\ Len(text) \in Nat /\ draw[1] + draw[2] \in Nat /\ draw[1] + draw[2] < Len(text)
      /\ furthest \in Nat /\ (furthest = 0 \/ furthest < Len(text))
  BY DrawFacts DEF TypeOK, SamplesStayInside
<1> DEFINE end == draw[1] + draw[2]
<1> HIDE DEF end
<1>2. furthest' = Max({furthest, end})
  BY DEF Record, end
<1>3. end \in Nat /\ end < Len(text)
  BY <1>1 DEF end
<1>4. \E x \in {furthest, end} : \A y \in {furthest, end} : x >= y
  BY <1>1, <1>3
<1>5. furthest' \in {furthest, end}
  BY <1>2, <1>4 DEF Max
<1> QED  BY <1>1, <1>3, <1>5

LEMMA RoundKeeps ==
  ASSUME IInv, Round
  PROVE  IInv'
<1>1. PICK draw \in Draws : probs' = Weighted(Scores(draw)) /\ Record(draw)
  BY DEF Round
<1>2. status = "running" /\ i' = i + 1 /\ UNCHANGED <<text, status, alpha, trialProbs>>
  BY DEF Round
<1>3. /\ probs' \in Weights
      /\ ahead \subseteq ahead' /\ ahead' \subseteq Lang \X Lang
      /\ \A l, m \in Lang : <<l, m>> \notin ahead' => probs'[l] <= probs'[m]
      /\ \A l, m \in Lang : <<m, l>> \in ahead' /\ <<l, m>> \notin ahead' =>
           \/ probs'[l] < probs'[m]
           \/ \E k \in 1 .. Len(trialProbs) : trialProbs[k][l] < trialProbs[k][m]
      /\ \A l \in Lang : <<Unknown, l>> \notin ahead'
  <2> SUFFICES ASSUME NEW w, w = Weighted(Scores(draw))
               PROVE  /\ w \in Weights
                      /\ ahead \subseteq ahead' /\ ahead' \subseteq Lang \X Lang
                      /\ \A l, m \in Lang : <<l, m>> \notin ahead' => w[l] <= w[m]
                      /\ \A l, m \in Lang : <<m, l>> \in ahead' /\ <<l, m>> \notin ahead' =>
                           \/ w[l] < w[m]
                           \/ \E k \in 1 .. Len(trialProbs) : trialProbs[k][l] < trialProbs[k][m]
                      /\ \A l \in Lang : <<Unknown, l>> \notin ahead'
    BY <1>1
  <2> QED  BY <1>1, SampleFacts DEF IInv
<1>4. furthest' \in Nat /\ furthest' < Len(text)
  BY <1>1, FurthestFacts DEF IInv
<1>5. TypeOK'
  BY <1>2, <1>3, <1>4 DEF IInv, TypeOK
<1>6. WeightsFollowEvidence'
  <2>1. ASSUME NEW l \in Lang, NEW m \in Lang PROVE NeverAbove(l, m)'
    BY <1>2, <1>3 DEF IInv, WeightsFollowEvidence, NeverAbove
  <2>2. ASSUME NEW l \in Lang, NEW m \in Lang PROVE SomewhereBelow(l, m)'
    BY <1>2, <1>3 DEF SomewhereBelow
  <2> QED  BY <2>1, <2>2 DEF WeightsFollowEvidence
<1>7. SamplesStayInside'
  BY <1>2, <1>4 DEF SamplesStayInside
<1> QED  BY <1>2, <1>3, <1>5, <1>6, <1>7 DEF IInv

(* At the end of a trial its weights join those of the trials before.      *)
LEMMA LastRoundKeeps ==
  ASSUME IInv, LastRound
  PROVE  IInv'
<1>1. PICK draw \in Draws : EndTrial(Weighted(Scores(draw))) /\ Record(draw)
  BY DEF LastRound
<1>2. PICK w : w = Weighted(Scores(draw))
  OBVIOUS
<1>3. /\ trialProbs' = Append(trialProbs, w)
      /\ status' \in {"running", "done"} /\ (alpha' = alpha \/ alpha' \in Alphas)
      /\ probs' = EvenStart /\ i' = 0 /\ text' = text
  BY <1>1, <1>2 DEF EndTrial, LastRound
<1>4. /\ w \in Weights
      /\ ahead \subseteq ahead' /\ ahead' \subseteq Lang \X Lang
      /\ \A l, m \in Lang : <<l, m>> \notin ahead' => w[l] <= w[m]
      /\ \A l, m \in Lang : <<m, l>> \in ahead' /\ <<l, m>> \notin ahead' =>
           \/ w[l] < w[m]
           \/ \E k \in 1 .. Len(trialProbs) : trialProbs[k][l] < trialProbs[k][m]
      /\ \A l \in Lang : <<Unknown, l>> \notin ahead'
  BY <1>1, <1>2, SampleFacts DEF IInv
<1>5. trialProbs \in Seq(Weights) /\ Len(trialProbs) \in Nat
  BY LenProperties DEF IInv, TypeOK
<1>6. PICK n \in Nat : n = Len(trialProbs)
  BY <1>5
<1>7. /\ trialProbs' \in Seq(Weights) /\ Len(trialProbs') = n + 1
      /\ \A k \in 1 .. n : trialProbs'[k] = trialProbs[k]
      /\ trialProbs'[n + 1] = w
  BY <1>3, <1>4, <1>5, <1>6, AppendProperties
<1>8. furthest' \in Nat /\ furthest' < Len(text)
  BY <1>1, FurthestFacts DEF IInv
<1>9. TypeOK'
  BY <1>3, <1>4, <1>7, <1>8, EvenStartFacts, DetectionAssumption DEF IInv, TypeOK
<1>10. ASSUME NEW l \in Lang, NEW m \in Lang PROVE NeverAbove(l, m)'
  <2> SUFFICES ASSUME <<l, m>> \notin ahead'
               PROVE  /\ probs'[l] <= probs'[m]
                      /\ \A k \in 1 .. n + 1 : trialProbs'[k][l] <= trialProbs'[k][m]
    BY <1>7 DEF NeverAbove
  <2>1. probs'[l] <= probs'[m]
    BY <1>3, EvenStartFacts
  <2>2. \A k \in 1 .. n : trialProbs[k][l] <= trialProbs[k][m]
    BY <1>4, <1>6 DEF IInv, WeightsFollowEvidence, NeverAbove
  <2>3. \A k \in 1 .. n + 1 : k \in 1 .. n \/ k = n + 1
    OBVIOUS
  <2> QED  BY <1>4, <1>7, <2>1, <2>2, <2>3
<1>11. ASSUME NEW l \in Lang, NEW m \in Lang PROVE SomewhereBelow(l, m)'
  <2> SUFFICES ASSUME <<m, l>> \in ahead', <<l, m>> \notin ahead'
               PROVE  \E k \in 1 .. n + 1 : trialProbs'[k][l] < trialProbs'[k][m]
    BY <1>7 DEF SomewhereBelow
  <2>1. CASE w[l] < w[m]
    BY <1>7, <2>1
  <2>2. CASE \E k \in 1 .. n : trialProbs[k][l] < trialProbs[k][m]
    BY <1>7, <2>2
  <2> QED  BY <1>4, <1>6, <2>1, <2>2
<1>12. WeightsFollowEvidence'
  BY <1>10, <1>11 DEF WeightsFollowEvidence
<1>13. SamplesStayInside'
  BY <1>3, <1>8 DEF SamplesStayInside
<1> QED  BY <1>3, <1>4, <1>9, <1>12, <1>13 DEF IInv

(* The two ways to come down leave everything else alone.                  *)
LEMMA FailureKeeps ==
  ASSUME IInv, ModuloZero \/ ReadOutside
  PROVE  IInv'
<1>1. UNCHANGED <<text, alpha, i, probs, trialProbs, furthest, ahead>>
  BY DEF ModuloZero, ReadOutside
<1>2. Len(text) \in Nat
  BY DetectionAssumption, LenProperties DEF IInv, TypeOK
<1>3. TypeOK'
  BY <1>1 DEF ModuloZero, ReadOutside, IInv, TypeOK
<1>4. WeightsFollowEvidence'
  BY <1>1 DEF IInv, WeightsFollowEvidence, NeverAbove, SomewhereBelow
<1>5. SamplesStayInside'
  <2>1. PICK len \in Nat : len = Len(text)
    BY <1>2
  <2>2. /\ status = "running" /\ (furthest = 0 \/ furthest < len)
        /\ len = Len(text)' /\ furthest' = furthest
    BY <1>1, <2>1 DEF ModuloZero, ReadOutside, IInv, SamplesStayInside
  <2>3. CASE ModuloZero
    <3>1. status' = "modulo zero" /\ \E n \in 1 .. 3 : len - n = 0
      BY <2>1, <2>3 DEF ModuloZero, LastIndex
    <3>2. PICK n \in 1 .. 3 : len - n = 0
      BY <3>1
    <3>3. len \in 1 .. 3
      BY <2>1, <3>2
    <3> QED  BY <2>2, <3>1, <3>3 DEF SamplesStayInside
  <2>4. CASE ReadOutside
    <3>1. status' = "outside" /\ \E n \in 1 .. 3 : len - n < 0
      BY <2>1, <2>4 DEF ReadOutside, LastIndex
    <3>2. PICK n \in 1 .. 3 : len - n < 0
      BY <3>1
    <3>3. len \in 0 .. 2
      BY <2>1, <3>2
    <3> QED  BY <2>2, <3>1, <3>3 DEF SamplesStayInside
  <2> QED  BY <2>3, <2>4
<1> QED  BY <1>1, <1>3, <1>4, <1>5 DEF ModuloZero, ReadOutside, IInv

LEMMA NextIInv == IInv /\ [Next]_vars => IInv'
<1> SUFFICES ASSUME IInv, [Next]_vars PROVE IInv'
  OBVIOUS
<1>1. CASE UNCHANGED vars
  BY <1>1 DEF vars, IInv, TypeOK, WeightsFollowEvidence, NeverAbove, SomewhereBelow,
     SamplesStayInside
<1> QED  BY <1>1, RoundKeeps, LastRoundKeeps, FailureKeeps DEF Next

THEOREM Invariance == Spec => []IInv
BY InitIInv, NextIInv, PTL DEF Spec

(* A detection reads its text and nothing behind it; only a text of three  *)
(* code points or fewer brings it down.                                    *)
THEOREM SamplesInside == Spec => []SamplesStayInside
<1>1. IInv => SamplesStayInside
  BY DEF IInv
<1> QED  BY <1>1, Invariance, PTL

-----------------------------------------------------------------------------
(* Sums and products over a finite set, in terms of FoldTheorems.          *)
LEMMA FoldFacts ==
  ASSUME NEW S, IsFiniteSet(S)
  PROVE  /\ Sums!IsFiniteSet(S) /\ Sums!ChoosesFrom(S)
         /\ Products!IsFiniteSet(S) /\ Products!ChoosesFrom(S)
<1>1. Sums!IsFiniteSet(S) /\ Products!IsFiniteSet(S)
  BY DEF IsFiniteSet, Sums!IsFiniteSet, Products!IsFiniteSet
<1>2. Sums!ChoosesFrom(S) /\ Products!ChoosesFrom(S)
  BY DEF Sums!ChoosesFrom, Products!ChoosesFrom, Any
<1> QED  BY <1>1, <1>2

LEMMA SumIsFolded ==
  ASSUME NEW f, NEW S
  PROVE  FoldFunctionOnSet(+, 0, f, S) = Sums!Folded(0, f, S)
BY DEF FoldFunctionOnSet, Sums!Folded, MapThenFoldSet, Sums!MapThenFoldSet, Plus, Any

LEMMA ProductIsFolded ==
  ASSUME NEW f, NEW S
  PROVE  FoldFunctionOnSet(LAMBDA a, b : a * b, 1, f, S) = Products!Folded(1, f, S)
BY DEF FoldFunctionOnSet, Products!Folded, MapThenFoldSet, Products!MapThenFoldSet, Times, Any

LEMMA ProductOfPositives ==
  ASSUME NEW S, IsFiniteSet(S), NEW f, \A x \in S : f[x] \in Nat \ {0}
  PROVE  FoldFunctionOnSet(LAMBDA a, b : a * b, 1, f, S) \in Nat \ {0}
<1>1. Products!IsFiniteSet(S) /\ Products!ChoosesFrom(S)
  BY FoldFacts
<1>2. \A x \in S, v \in Nat \ {0} : Times(f[x], v) \in Nat \ {0}
  BY ProductIsPositive DEF Times
<1>3. 1 \in Nat \ {0}
  OBVIOUS
<1>4. Products!Folded(1, f, S) \in Nat \ {0}
  BY <1>1, <1>2, <1>3, Products!FoldType
<1> QED  BY <1>4, ProductIsFolded

(* A sum whose terms are not larger is not larger, and smaller if one term *)
(* is.                                                                     *)
LEMMA SumIsMonotone ==
  ASSUME NEW S, IsFiniteSet(S), NEW f, NEW g,
         \A x \in S : f[x] \in Nat /\ g[x] \in Nat /\ f[x] <= g[x]
  PROVE  LET F == FoldFunctionOnSet(+, 0, f, S)
             G == FoldFunctionOnSet(+, 0, g, S)
         IN  /\ F \in Nat /\ G \in Nat /\ F <= G
             /\ (\E x \in S : f[x] < g[x]) => F < G
<1> DEFINE F(s) == Sums!Folded(0, f, s)
           G(s) == Sums!Folded(0, g, s)
           T == {s \in SUBSET S : /\ F(s) \in Nat /\ G(s) \in Nat /\ F(s) <= G(s)
                                  /\ (\E x \in s : f[x] < g[x]) => F(s) < G(s)}
<1>1. {} \in T
  <2>1. F({}) = 0 /\ G({}) = 0
    BY Sums!FoldEmpty
  <2> HIDE DEF F, G
  <2> QED  BY <2>1
<1>2. ASSUME NEW s \in SUBSET S, s # {}, s \ {Any(s)} \in T
      PROVE  s \in T
  <2> DEFINE c == Any(s)
  <2>1. c \in s /\ Sums!IsFiniteSet(s) /\ Sums!ChoosesFrom(s)
    BY <1>2, FoldFacts, FS_Subset DEF Any
  <2>2. /\ F(s) = Plus(f[c], F(s \ {c}))
        /\ G(s) = Plus(g[c], G(s \ {c}))
    BY <1>2, <2>1, Sums!FoldStep
  <2>3. /\ f[c] \in Nat /\ g[c] \in Nat /\ f[c] <= g[c]
        /\ F(s \ {c}) \in Nat /\ G(s \ {c}) \in Nat /\ F(s \ {c}) <= G(s \ {c})
        /\ (\E x \in s \ {c} : f[x] < g[x]) => F(s \ {c}) < G(s \ {c})
    BY <1>2, <2>1
  <2> HIDE DEF F, G, c
  <2>4. F(s) \in Nat /\ G(s) \in Nat /\ F(s) <= G(s)
    BY <2>2, <2>3 DEF Plus
  <2>5. (\E x \in s : f[x] < g[x]) => f[c] < g[c] \/ \E x \in s \ {c} : f[x] < g[x]
    OBVIOUS
  <2>6. f[c] < g[c] \/ F(s \ {c}) < G(s \ {c}) => F(s) < G(s)
    BY <2>2, <2>3 DEF Plus
  <2> QED  BY <2>3, <2>4, <2>5, <2>6
<1>3. S \in T
  <2>1. Sums!IsFiniteSet(S) /\ Sums!ChoosesFrom(S)
    BY FoldFacts
  <2> HIDE DEF T
  <2> QED  BY <1>1, <1>2, <2>1, Sums!FoldInduction
<1> QED  BY <1>3, SumIsFolded

LEMMA SumIsPositive ==
  ASSUME NEW w \in Weights
  PROVE  Sum(w) \in Nat \ {0}
<1>1. Sums!IsFiniteSet(Lang) /\ Sums!ChoosesFrom(Lang) /\ Lang # {}
  BY FoldFacts, LangFacts
<1>2. PICK c : c = Any(Lang)
  OBVIOUS
<1>3. PICK rest : rest = Sums!Folded(0, w, Lang \ {c})
  OBVIOUS
<1>4. Sums!Folded(0, w, Lang) = Plus(w[c], rest)
  BY <1>1, <1>2, <1>3, Sums!FoldStep
<1>5. \A x \in Lang : w[x] \in Nat \ {0} /\ w[x] \in Nat /\ w[x] <= w[x]
  BY DEF Weights
<1>6. c \in Lang /\ IsFiniteSet(Lang \ {c})
  BY <1>1, <1>2, LangFacts, FS_Subset DEF Any
<1>7. FoldFunctionOnSet(+, 0, w, Lang \ {c}) \in Nat
  BY <1>5, <1>6, SumIsMonotone
<1>8. rest \in Nat
  BY <1>3, <1>7, SumIsFolded
<1>9. Sum(w) = Plus(w[c], rest)
  BY <1>4, SumIsFolded DEF Sum
<1> QED  BY <1>5, <1>6, <1>8, <1>9 DEF Plus

-----------------------------------------------------------------------------
(* The scores of two languages, from their weights in the trials.          *)
Den == [k \in DOMAIN trialProbs |-> Sum(trialProbs[k]) * Divisor(k)]

Others(k) == FoldFunctionOnSet(LAMBDA a, b : a * b, 1, Den, DOMAIN Den \ {k})

Parts(l) == [k \in DOMAIN trialProbs |-> trialProbs[k][l] * Others(k)]

LEMMA LangScoreIsSum ==
  ASSUME NEW l
  PROVE  LangScore(l) = FoldFunctionOnSet(+, 0, Parts(l), DOMAIN trialProbs)
BY DEF LangScore, Parts, Others, Den

LEMMA TrialFacts ==
  ASSUME TypeOK
  PROVE  /\ DOMAIN trialProbs = 1 .. Len(trialProbs) /\ IsFiniteSet(DOMAIN trialProbs)
         /\ \A k \in DOMAIN trialProbs : /\ trialProbs[k] \in Weights
                                         /\ Others(k) \in Nat \ {0}
<1>1. DOMAIN trialProbs = 1 .. Len(trialProbs) /\ Len(trialProbs) \in Nat
  BY LenProperties DEF TypeOK
<1>2. IsFiniteSet(DOMAIN trialProbs)
  BY <1>1, FS_Interval
<1>3. \A k \in DOMAIN trialProbs : trialProbs[k] \in Weights
  BY <1>1, ElementOfSeq DEF TypeOK
<1>4. ASSUME NEW k \in DOMAIN trialProbs
      PROVE  Den[k] \in Nat \ {0}
  <2>1. k \in Nat \ {0}
    BY <1>1
  <2>2. Divisor(k) \in Nat \ {0}
    BY <2>1 DEF Divisor
  <2>3. Sum(trialProbs[k]) \in Nat \ {0}
    BY <1>3, SumIsPositive
  <2>4. Den[k] = Sum(trialProbs[k]) * Divisor(k)
    BY DEF Den
  <2> QED  BY <2>2, <2>3, <2>4, ProductIsPositive
<1>5. ASSUME NEW k \in DOMAIN trialProbs
      PROVE  Others(k) \in Nat \ {0}
  <2>1. PICK S : S = DOMAIN Den \ {k}
    OBVIOUS
  <2>2. S \subseteq DOMAIN trialProbs
    BY <2>1 DEF Den
  <2>3. IsFiniteSet(S) /\ \A x \in S : Den[x] \in Nat \ {0}
    BY <1>2, <1>4, <2>2, FS_Subset
  <2> QED  BY <2>1, <2>3, ProductOfPositives DEF Others
<1> QED  BY <1>1, <1>2, <1>3, <1>5

LEMMA ScoresFollowWeights ==
  ASSUME TypeOK, NEW l \in Lang, NEW m \in Lang,
         \A k \in DOMAIN trialProbs : trialProbs[k][l] <= trialProbs[k][m]
  PROVE  /\ LangScore(l) \in Nat /\ LangScore(m) \in Nat
         /\ LangScore(l) <= LangScore(m)
         /\ (\E k \in DOMAIN trialProbs : trialProbs[k][l] < trialProbs[k][m]) =>
              LangScore(l) < LangScore(m)
<1>1. ASSUME NEW k \in DOMAIN trialProbs
      PROVE  /\ Parts(l)[k] \in Nat /\ Parts(m)[k] \in Nat
             /\ Parts(l)[k] <= Parts(m)[k]
             /\ trialProbs[k][l] < trialProbs[k][m] => Parts(l)[k] < Parts(m)[k]
  <2>1. trialProbs[k][l] \in Nat /\ trialProbs[k][m] \in Nat /\ Others(k) \in Nat \ {0}
    BY TrialFacts DEF Weights
  <2>2. /\ Parts(l)[k] = trialProbs[k][l] * Others(k)
        /\ Parts(m)[k] = trialProbs[k][m] * Others(k)
    BY DEF Parts
  <2>3. \A a, b \in Nat : a * b \in Nat
    OBVIOUS
  <2> QED  BY <2>1, <2>2, <2>3, ProductIsMonotone
<1>2. IsFiniteSet(DOMAIN trialProbs)
  BY TrialFacts
<1>3. PICK f, g : f = Parts(l) /\ g = Parts(m)
  OBVIOUS
<1>4. \A k \in DOMAIN trialProbs : f[k] \in Nat /\ g[k] \in Nat /\ f[k] <= g[k]
  BY <1>1, <1>3
<1>5. PICK F, G : /\ F = FoldFunctionOnSet(+, 0, f, DOMAIN trialProbs)
                  /\ G = FoldFunctionOnSet(+, 0, g, DOMAIN trialProbs)
  OBVIOUS
<1>6. /\ F \in Nat /\ G \in Nat /\ F <= G
      /\ (\E k \in DOMAIN trialProbs : f[k] < g[k]) => F < G
  BY <1>2, <1>4, <1>5, SumIsMonotone
<1>7. LangScore(l) = F /\ LangScore(m) = G
  BY <1>3, <1>5, LangScoreIsSum
<1> QED  BY <1>1, <1>3, <1>6, <1>7

LEMMA ScoreType ==
  ASSUME TypeOK, NEW l \in Lang
  PROVE  LangScore(l) \in Nat
<1>1. \A k \in DOMAIN trialProbs : trialProbs[k][l] <= trialProbs[k][l]
  BY TrialFacts DEF Weights
<1> QED  BY <1>1, ScoresFollowWeights

-----------------------------------------------------------------------------
(* getBestScore: the first language of the enumeration that has the best   *)
(* score; there is one.                                                    *)
LEMMA BestExists ==
  ASSUME NEW score, \A l \in Lang : score[l] \in Nat
  PROVE  \E j \in DOMAIN Langs : \A k \in DOMAIN Langs : score[Langs[k]] <= score[Langs[j]]
<1>1. PICK len \in Nat : 2 <= len /\ DOMAIN Langs = 1 .. len
  BY LangFacts
<1>2. PICK sc : sc = [k \in DOMAIN Langs |-> score[Langs[k]]]
  OBVIOUS
<1>3. \A k \in 1 .. len : sc[k] \in Nat /\ sc[k] = score[Langs[k]]
  BY <1>1, <1>2 DEF Lang, Range
<1> DEFINE T == {n \in Nat : n + 1 <= len =>
                   \E j \in 1 .. n + 1 : \A k \in 1 .. n + 1 : sc[k] <= sc[j]}
<1>4. 0 \in T
  <2>1. \A k \in 1 .. 0 + 1 : k = 1 /\ sc[k] <= sc[1]
    BY <1>1, <1>3
  <2>2. 1 \in 1 .. 0 + 1
    OBVIOUS
  <2> QED  BY <2>1, <2>2
<1>5. ASSUME NEW n \in T PROVE n + 1 \in T
  <2> SUFFICES ASSUME n + 2 <= len
               PROVE  \E j \in 1 .. n + 2 : \A k \in 1 .. n + 2 : sc[k] <= sc[j]
    OBVIOUS
  <2>1. PICK j \in 1 .. n + 1 : \A k \in 1 .. n + 1 : sc[k] <= sc[j]
    BY <1>1
  <2>2. \A k \in 1 .. n + 2 : k \in 1 .. n + 1 \/ k = n + 2
    OBVIOUS
  <2>3. j \in 1 .. n + 2 /\ n + 2 \in 1 .. n + 2
    OBVIOUS
  <2>4. \A k \in 1 .. n + 2 : sc[k] \in Nat
    BY <1>1, <1>3
  <2>5. CASE sc[n + 2] <= sc[j]
    BY <2>1, <2>2, <2>3, <2>5
  <2>6. CASE sc[j] <= sc[n + 2]
    <3>1. \A k \in 1 .. n + 2 : sc[k] <= sc[n + 2]
      BY <2>1, <2>2, <2>3, <2>4, <2>6
    <3> QED  BY <2>3, <3>1
  <2> QED  BY <2>3, <2>4, <2>5, <2>6
<1>6. T = Nat
  <2>1. T \subseteq Nat
    OBVIOUS
  <2> HIDE DEF T
  <2> QED  BY <1>4, <1>5, <2>1, Sums!NatSetInduction
<1>7. len - 1 \in T
  <2>1. len - 1 \in Nat
    BY <1>1
  <2> HIDE DEF T
  <2> QED  BY <1>6, <2>1
<1>8. \E j \in 1 .. len : \A k \in 1 .. len : sc[k] <= sc[j]
  <2>1. PICK m : m = len - 1
    OBVIOUS
  <2>2. m \in T /\ m + 1 = len
    <3> HIDE DEF T
    <3> QED  BY <1>1, <1>7, <2>1
  <2>3. m + 1 <= len => \E j \in 1 .. m + 1 : \A k \in 1 .. m + 1 : sc[k] <= sc[j]
    BY <2>2
  <2> HIDE DEF T
  <2>4. m + 1 <= len
    BY <1>1, <2>2
  <2>5. \E j \in 1 .. m + 1 : \A k \in 1 .. m + 1 : sc[k] <= sc[j]
    BY <2>3, <2>4
  <2>6. m + 1 = len
    BY <2>2
  <2> QED  BY <2>5, <2>6
<1> HIDE DEF T
<1>9. PICK j \in 1 .. len : \A k \in 1 .. len : sc[k] <= sc[j]
  BY <1>8
<1>10. \A k \in 1 .. len : score[Langs[k]] <= score[Langs[j]]
  BY <1>3, <1>9
<1> QED  BY <1>1, <1>9, <1>10

LEMMA AnswerFacts ==
  ASSUME TypeOK
  PROVE  \E j \in DOMAIN Langs :
           /\ GetBestScore = Langs[j]
           /\ \A m \in Lang : LangScore(m) <= LangScore(Langs[j])
           /\ \A k \in DOMAIN Langs : LangScore(Langs[k]) = LangScore(Langs[j]) => j <= k
<1>1. PICK score : score = [l \in Lang |-> LangScore(l)]
  OBVIOUS
<1>2. \A l \in Lang : score[l] \in Nat /\ score[l] = LangScore(l)
  BY <1>1, ScoreType
<1> DEFINE B == {k \in DOMAIN Langs : \A m \in Lang : score[m] <= score[Langs[k]]}
<1>3. GetBestScore = Langs[Min(B)]
  BY <1>1 DEF GetBestScore
<1>4. \A m \in Lang : \E k \in DOMAIN Langs : m = Langs[k]
  BY DEF Lang, Range
<1>5. \A k \in DOMAIN Langs : Langs[k] \in Lang
  BY DEF Lang, Range
<1>6. B # {} /\ B \subseteq Nat
  <2>1. PICK j \in DOMAIN Langs : \A k \in DOMAIN Langs : score[Langs[k]] <= score[Langs[j]]
    BY <1>2, BestExists
  <2>2. j \in B
    BY <1>4, <2>1
  <2> QED  BY <2>2, LangFacts
<1>7. \E x \in B : \A y \in B : x <= y
  <2> HIDE DEF B
  <2> QED  BY <1>6, Sums!NatHasLeast
<1>8. PICK j : j = Min(B)
  OBVIOUS
<1>9. j \in B /\ \A y \in B : j <= y
  <2> HIDE DEF B
  <2> QED  BY <1>7, <1>8 DEF Min
<1>10. ASSUME NEW k \in DOMAIN Langs, LangScore(Langs[k]) = LangScore(Langs[j])
       PROVE  j <= k
  <2>1. score[Langs[k]] = score[Langs[j]]
    BY <1>2, <1>5, <1>9, <1>10
  <2>2. k \in B
    BY <1>9, <2>1
  <2> QED  BY <1>9, <2>2
<1>11. \A m \in Lang : LangScore(m) <= LangScore(Langs[j])
  BY <1>2, <1>5, <1>9
<1> QED  BY <1>3, <1>8, <1>9, <1>10, <1>11

(* The answer of a detection follows from what its samples said.           *)
LEMMA AnswerFollowsEvidence == IInv => EvidenceDecides
<1> SUFFICES ASSUME IInv, status = "done" PROVE EvidenceDecides
  BY DEF EvidenceDecides
<1> USE DEF IInv
<1>1. PICK j \in DOMAIN Langs :
        /\ GetBestScore = Langs[j]
        /\ \A m \in Lang : LangScore(m) <= LangScore(Langs[j])
        /\ \A k \in DOMAIN Langs : LangScore(Langs[k]) = LangScore(Langs[j]) => j <= k
  BY AnswerFacts
<1>2. PICK answer \in Lang : answer = Langs[j]
  BY DEF Lang, Range
<1>3. \A k \in DOMAIN trialProbs : \A l \in Lang : trialProbs[k][l] \in Nat
  BY TrialFacts DEF Weights
<1>4. \A l, m \in Lang : <<l, m>> \notin ahead =>
        \A k \in DOMAIN trialProbs : trialProbs[k][l] <= trialProbs[k][m]
  BY TrialFacts DEF WeightsFollowEvidence, NeverAbove
<1>5. \A l, m \in Lang : <<m, l>> \in ahead /\ <<l, m>> \notin ahead =>
        \E k \in DOMAIN trialProbs : trialProbs[k][l] < trialProbs[k][m]
  BY TrialFacts, EvenStartFacts DEF WeightsFollowEvidence, SomewhereBelow
<1>6. ASSUME NEW l \in Lang \ {answer}, <<l, answer>> \in ahead
      PROVE  <<answer, l>> \in ahead
  <2> SUFFICES ASSUME <<answer, l>> \notin ahead PROVE FALSE
    OBVIOUS
  <2>1. LangScore(answer) < LangScore(l) /\ LangScore(answer) \in Nat /\ LangScore(l) \in Nat
    BY <1>4, <1>5, <1>6, ScoresFollowWeights
  <2> QED  BY <1>1, <1>2, <2>1
<1>7. ASSUME NEW l \in Lang, NEW m \in Lang, <<l, m>> \notin ahead, <<m, l>> \notin ahead
      PROVE  LangScore(l) = LangScore(m)
  <2>1. LangScore(l) <= LangScore(m) /\ LangScore(m) <= LangScore(l)
        /\ LangScore(l) \in Nat /\ LangScore(m) \in Nat
    BY <1>4, <1>7, ScoresFollowWeights
  <2> QED  BY <2>1
<1>8. ASSUME NEW l \in Lang \ {answer}, <<answer, l>> \notin ahead, <<l, answer>> \notin ahead
      PROVE  \E h, k \in DOMAIN Langs : h < k /\ Langs[h] = answer /\ Langs[k] = l
  <2>1. PICK k \in DOMAIN Langs : Langs[k] = l
    BY DEF Lang, Range
  <2>2. j <= k /\ j # k
    BY <1>1, <1>2, <1>7, <1>8, <2>1
  <2>3. j \in Nat /\ k \in Nat
    BY LangFacts
  <2> QED  BY <1>2, <2>1, <2>2, <2>3
<1>9. answer # Unknown
  <2> SUFFICES ASSUME answer = Unknown PROVE FALSE
    OBVIOUS
  <2>1. Langs[1] \in Lang /\ Langs[1] # Unknown /\ 1 \in DOMAIN Langs
    BY LangFacts
  <2>2. <<Unknown, Langs[1]>> \notin ahead
    BY <2>1
  <2>3. <<Langs[1], Unknown>> \notin ahead
    BY <1>6, <2>1, <2>2
  <2>4. LangScore(Langs[1]) = LangScore(Langs[j])
    BY <1>2, <1>7, <2>1, <2>2, <2>3
  <2>5. j <= 1 /\ j \in Nat \ {0}
    BY <1>1, <2>1, <2>4, LangFacts
  <2> QED  BY <1>2, <2>1, <2>5
<1> QED  BY <1>1, <1>2, <1>6, <1>8, <1>9 DEF EvidenceDecides

(* For any profiles, texts and number of trials: the language answered is  *)
(* not one that the samples spoke against only, ties go to the first of    *)
(* the enumeration, and UNKNOWN is never answered.                         *)
THEOREM EvidenceDecidesAnswer == Spec => []EvidenceDecides
BY Invariance, AnswerFollowsEvidence, PTL

=============================================================================
