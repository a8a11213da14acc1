--------------------------- MODULE DetectionRunner ----------------------------
(***************************************************************************)
(* language_detection/DetectionRunner.cpp with the sampler it draws from   *)
(* (string_views/NGramSampler.h, RandomAccessNGramView.h): one detection.  *)
(* Every random number is a choice.  The probabilities of a trial are kept *)
(* as integer weights, whose shares of their sum they are: normalising     *)
(* them changes no share, and multiplying by integers keeps the order.     *)
(***************************************************************************)
EXTENDS Integers, Sequences, Functions, FiniteSetsExt

CONSTANTS Texts,
          Langs,          \* all languages in the order of the enumeration
          Unknown,        \* the language of codes that are not recognised
          Score(_, _),    \* score of an n-gram for a language, 0 if none
          Alphas,         \* values of alpha_ / BASE_FREQ, in units of a score
          Trials,         \* numTrials, 7
          Period,         \* rounds between two looks at the shares, 5
          Limit,          \* ITERATION_LIMIT, 1000
          Share           \* CONV_THRESHOLD as a fraction <<n, d>>

(* A language has one place in the enumeration, UNKNOWN not the first; a   *)
(* profile scores languages it has n-grams of, of which UNKNOWN is none.   *)
ASSUME DetectionAssumption ==
  /\ Langs \in Seq(Range(Langs)) /\ IsInjective(Langs)
  /\ \E k \in 2 .. Len(Langs) : Langs[k] = Unknown
  /\ \A t \in Texts :
       /\ t \in Seq(Range(t))
       /\ \A j, k \in 1 .. Len(t) :
            LET gram == SubSeq(t, j, k)
            IN  Score(gram, Unknown) = 0 /\ \A l \in Range(Langs) : Score(gram, l) \in Nat
  /\ Alphas \subseteq Nat \ {0}
  /\ Trials \in Nat \ {0} /\ Period \in Nat \ {0} /\ Limit \in Nat

VARIABLES text,
          status,      \* "running", "done", "modulo zero", "outside"
          alpha, i,    \* alpha_ and the round of this trial
          probs,       \* weight of each language in this trial
          trialProbs,  \* final weights of the trials so far; langScores_ is
                       \* their weighted sum
          furthest,    \* history: last position of the text read
          ahead        \* history: <<l, m>> if a sample scored l above m

vars == <<text, status, alpha, i, probs, trialProbs, furthest, ahead>>

Lang == Range(Langs)

EvenStart == [l \in Lang |-> 1]

Init == /\ text \in Texts
        /\ status = "running"
        /\ alpha \in Alphas /\ i = 0
        /\ probs = EvenStart
        /\ trialProbs = <<>>
        /\ furthest = 0
        /\ ahead = {}

-----------------------------------------------------------------------------
(* Variant: the number of n-grams of the text. *)
GramsOf(n) == Len(text) - n + 1

(* The exclusive bound of the sampled index, one less than the n-grams of  *)
(* the text; below zero it wraps around.                                   *)
LastIndex(n) == Len(text) - n

Sum(weights) == FoldFunctionOnSet(+, 0, weights, Lang)

Converged(weights) ==
  LET sum == Sum(weights)
  IN  \E l \in Lang : weights[l] * Share[2] > Share[1] * sum

(* Only every Period-th round looks whether to stop. *)
StopsAfter(weights) == i % Period = 0 /\ (i >= Limit \/ Converged(weights))

(* Variant: the next trial takes the place of this one. *)
RepeatTrial(weights) ==
  /\ trialProbs' = trialProbs
  /\ status' = "running"
  /\ probs' = EvenStart /\ i' = 0 /\ alpha' \in Alphas

(* The end of a trial, with warble() of the next one. *)
EndTrial(weights) ==
  /\ trialProbs' = Append(trialProbs, weights)
  /\ IF Len(trialProbs') = Trials
     THEN status' = "done" /\ alpha' = alpha
     ELSE status' = "running" /\ alpha' \in Alphas
  /\ probs' = EvenStart /\ i' = 0

(* RandomAccessNGramView::get over the offsets of the code points. *)
Gram(index, n) == SubSeq(text, index + 1, index + n)

(* The n-gram that a round of runTrial draws. *)
Draws == {draw \in (0 .. Len(text)) \X (1 .. 3) : draw[1] < LastIndex(draw[2])}

Scores(draw) == [l \in Lang |-> Score(Gram(draw[1], draw[2]), l)]

(* The probabilities after an n-gram with these scores. *)
Weighted(scores) == [l \in Lang |-> probs[l] * (scores[l] + alpha)]

Record(draw) ==
  /\ furthest' = Max({furthest, draw[1] + draw[2]})
  /\ ahead' = ahead \cup {p \in Lang \X Lang : Scores(draw)[p[1]] > Scores(draw)[p[2]]}

Round == /\ status = "running"
         /\ \E draw \in Draws :
              /\ probs' = Weighted(Scores(draw))
              /\ ~StopsAfter(probs')
              /\ Record(draw)
         /\ i' = i + 1
         /\ UNCHANGED <<text, status, alpha, trialProbs>>

LastRound == /\ status = "running"
             /\ \E draw \in Draws :
                  LET weights == Weighted(Scores(draw))
                  IN  StopsAfter(weights) /\ EndTrial(weights) /\ Record(draw)
             /\ UNCHANGED text

(* getConstrained(0, 0) divides by zero. *)
ModuloZero == /\ status = "running"
              /\ \E n \in 1 .. 3 : LastIndex(n) = 0
              /\ status' = "modulo zero"
              /\ UNCHANGED <<text, alpha, i, probs, trialProbs, furthest, ahead>>

(* The bound has wrapped around: whatever the index, the n-gram ends       *)
(* behind the offsets of the view.                                         *)
ReadOutside == /\ status = "running"
               /\ \E n \in 1 .. 3 : LastIndex(n) < 0
               /\ status' = "outside"
               /\ UNCHANGED <<text, alpha, i, probs, trialProbs, furthest, ahead>>

Next == Round \/ LastRound \/ ModuloZero \/ ReadOutside

Spec == Init /\ [][Next]_vars /\ WF_vars(Next)

-----------------------------------------------------------------------------
(* The first two trials count in full, trial k from there on by 1 / k.     *)
Divisor(k) == IF k <= 2 THEN 1 ELSE k - 1

(* langScores_, over the common denominator of the trials. *)
LangScore(l) ==
  LET den == [k \in DOMAIN trialProbs |-> Sum(trialProbs[k]) * Divisor(k)]
      Part(k) == trialProbs[k][l]
                 * FoldFunctionOnSet(LAMBDA a, b : a * b, 1, den, DOMAIN den \ {k})
  IN  FoldFunctionOnSet(+, 0, [k \in DOMAIN trialProbs |-> Part(k)], DOMAIN trialProbs)

(* Variant: the last of the best. *)
GetLastBestScore ==
  LET score == [l \in Lang |-> LangScore(l)]
  IN  Langs[Max({k \in DOMAIN Langs : \A m \in Lang : score[m] <= score[Langs[k]]})]

GetBestScore ==
  LET score == [l \in Lang |-> LangScore(l)]
  IN  Langs[Min({k \in DOMAIN Langs : \A m \in Lang : score[m] <= score[Langs[k]]})]

-----------------------------------------------------------------------------
(* Every sample lies within the text; its last code point is never looked  *)
(* at.  Only a text of three code points or fewer can bring a detection    *)
(* down: by a modulo zero if an n-gram has just its length, by a read out  *)
(* of bounds if one is longer than the text.                               *)
SamplesStayInside ==
  /\ furthest = 0 \/ furthest < Len(text)
  /\ status = "modulo zero" => Len(text) \in 1 .. 3
  /\ status = "outside" => Len(text) \in 0 .. 2

(* The answer follows the samples.  No other language was ahead of it in   *)
(* some sample and never behind; a language that no sample told from the   *)
(* answer comes later in the enumeration, so that a detection without any  *)
(* evidence answers the first language; and the answer is never Unknown,   *)
(* which no profile scores.                                                *)
EvidenceDecides ==
  status = "done" =>
    LET answer == GetBestScore
    IN  /\ answer # Unknown
        /\ \A l \in Lang \ {answer} :
             /\ <<l, answer>> \in ahead => <<answer, l>> \in ahead
             /\ <<answer, l>> \in ahead \/ <<l, answer>> \in ahead
                \/ \E j, k \in DOMAIN Langs : j < k /\ Langs[j] = answer /\ Langs[k] = l

(* A detection ends: each trial at the latest at the first look at or      *)
(* after the limit.                                                        *)
DetectionEnds == <>(status # "running")

=============================================================================
