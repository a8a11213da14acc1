-------------------------- MODULE RollingRabinHash ---------------------------
(***************************************************************************)
(* search/RollingRabinHash.h: the Rabin hashes of the windows of several   *)
(* lengths (Terms) over one text, moved forward one position per step().   *)
(* While text is left a step reads a new character; after that the         *)
(* overflow steps push zeros until the shortest term has seen its last     *)
(* window.  The characters of the window are kept in a RollingQueue.       *)
(***************************************************************************)
EXTENDS RabinFingerprinter, FiniteSetsExt, SequencesExt

CONSTANTS Terms,      \* the set of term lengths (sizes)
          ModNs,      \* the moduli a caller may choose
          Texts,      \* the texts hashed
          Garbage,    \* what memory may hold before it is written
          MaxResets   \* bound on reset() calls of one hasher

VARIABLES target, modN,            \* fixed by the constructor
          it,                      \* currentIt_ - target_.begin()
          currentOffset, overFlowOffset,
          cpQueue,                 \* the record of a RollingQueue
          currentHashes,           \* [Terms -> uint64_t]
          inexact,                 \* history: terms hit by a 2^64 wrap-around
          position,                \* history: steps since initialize()
          resets

vars == <<target, modN, it, currentOffset, overFlowOffset, cpQueue,
          currentHashes, inexact, position, resets>>

MaxTerm == Max(Terms)
MinTerm == Min(Terms)

ASSUME RabinAssumption == /\ Terms \subseteq 1 .. WordMod - 1 /\ Terms # {}
                          /\ ModNs \subseteq 1 .. HalfWord - 1
                          /\ Texts \subseteq Seq(Code)
                          /\ Garbage \subseteq 0 .. HalfWord - 1
                          /\ MaxResets \in Nat
                          /\ \A e \in Terms : Power(e - 1) <= MaxExact

Q == INSTANCE RollingQueue WITH Capacity <- MaxTerm, Data <- Code \cup {0},
       Junk <- 0, DefaultVal <- 0, queue <- cpQueue

HashTypeOK ==
  /\ target \in Texts /\ modN \in ModNs /\ it \in 0 .. Len(target)
  /\ currentOffset \in 0 .. Len(target)
  /\ overFlowOffset \in 0 .. MaxTerm - MinTerm
  /\ cpQueue \in [slots : [Q!Slot -> Code \cup Garbage \cup {0}],
                  front : Q!Slot, back : Q!Slot]
  /\ currentHashes \in [Terms -> 0 .. modN - 1]
  /\ inexact \subseteq Terms /\ position \in Nat /\ resets \in 0 .. MaxResets

AtEnd == it = Len(target) /\ overFlowOffset = MaxTerm - MinTerm

-----------------------------------------------------------------------------
(* initialize(): push up to MaxTerm characters, then sum the terms that    *)
(* are at most as long as the text.  The summands are read from position 0 *)
(* of the queue, whether or not MaxTerm characters were pushed.            *)
Reach(text) == Min({MaxTerm, Len(text)})

(* How many characters the text lacks to fill the queue: at construction   *)
(* as many slots in front of it have never been written.                   *)
Missing == MaxTerm - Reach(target)

(* Variant: the fill loop stops one character early. *)
FilledShort(q, text) == FoldLeft(Q!PushTo, q, SubSeq(text, 1, Reach(text) - 1))

Filled(q, text) == FoldLeft(Q!PushTo, q, SubSeq(text, 1, Reach(text)))

Product(q, e, i) == Q!At(q, i) * Power(e - 1 - i)

Summands(q, mod, e) == [i \in 0 .. e - 1 |-> (Product(q, e, i) % WordMod) % mod]

InitialHashes(q, mod, text) ==
  [e \in Terms |-> IF Len(text) < e THEN 0 ELSE SumMod(mod, Summands(q, mod, e))]

(* A wrap modulo 2^64 is harmless only if the modulus divides 2^64. *)
Lossy(mod) == WordMod % mod # 0

InitiallyInexact(q, mod) ==
  {e \in Terms : Lossy(mod) /\ \E i \in 0 .. e - 1 : Product(q, e, i) >= WordMod}

HashInit ==
  /\ target \in Texts /\ modN \in ModNs
  /\ \E memory \in [Q!Slot -> Garbage] :
       cpQueue = Filled([Q!NewQueue EXCEPT !.slots = memory], target)
  /\ it = Reach(target) /\ currentOffset = Reach(target) /\ overFlowOffset = 0
  /\ currentHashes = InitialHashes(cpQueue, modN, target)
  /\ inexact = InitiallyInexact(cpQueue, modN)
  /\ position = 0 /\ resets = 0

(* Variant: overFlowOffset_ is not reset. *)
ResetKeepingOverflow ==
  LET q == Filled(cpQueue, target)
  IN  /\ resets < MaxResets /\ resets' = resets + 1
      /\ cpQueue' = q
      /\ it' = Reach(target) /\ currentOffset' = Reach(target)
      /\ currentHashes' = InitialHashes(q, modN, target)
      /\ inexact' = InitiallyInexact(q, modN) /\ position' = 0
      /\ UNCHANGED <<target, modN, overFlowOffset>>

(* reset() leaves the queue as it is and refills it from the beginning. *)
Reset ==
  LET q == Filled(cpQueue, target)
  IN  /\ resets < MaxResets /\ resets' = resets + 1
      /\ cpQueue' = q
      /\ it' = Reach(target) /\ currentOffset' = Reach(target) /\ overFlowOffset' = 0
      /\ currentHashes' = InitialHashes(q, modN, target)
      /\ inexact' = InitiallyInexact(q, modN) /\ position' = 0
      /\ UNCHANGED <<target, modN>>

-----------------------------------------------------------------------------
(* One rolling step of the hash of a term: take the share of the oldest    *)
(* character out, shift, add the character that enters the window.         *)
Departing(e) == Mul(Power(e - 1) % modN, Q!At(cpQueue, 0)) % modN

Borrows(e) == Lossy(modN) /\ currentHashes[e] < Departing(e)

Rolled(e, next) ==
  Add(Mul(Sub(currentHashes[e], Departing(e)), Alpha) % modN, next) % modN

RolledReduced(e, next) ==
  Add(Mul(Sub(currentHashes[e], Departing(e)) % modN, Alpha) % modN, next) % modN

PreOverflowStep ==
  LET nextCp == target[it + 1]
  IN  /\ ~AtEnd /\ it # Len(target)
      /\ currentHashes' =
           [e \in Terms |-> Rolled(e, IF e = MaxTerm THEN nextCp ELSE Q!At(cpQueue, e))]
      /\ inexact' = inexact \cup {e \in Terms : Borrows(e)}
      /\ cpQueue' = Q!PushTo(cpQueue, nextCp)
      /\ it' = it + 1 /\ currentOffset' = currentOffset + 1
      /\ position' = position + 1
      /\ UNCHANGED <<target, modN, overFlowOffset, resets>>

(* Variant: the comparison is off by one. *)
FinishedLate(e) == overFlowOffset > MaxTerm - e

(* A term of which every window has been seen reports 0 from then on. *)
Finished(e) == overFlowOffset >= MaxTerm - e

(* Variant: step() takes the end of the text for its own end. *)
StopAtEndOfText == it = Len(target) /\ UNCHANGED vars

PostOverflowStep ==
  /\ ~AtEnd /\ it = Len(target)
  /\ currentHashes' =
       [e \in Terms |-> IF Finished(e) THEN 0 ELSE RolledReduced(e, Q!At(cpQueue, e))]
  /\ inexact' = inexact \cup {e \in Terms : ~Finished(e) /\ Borrows(e)}
  /\ overFlowOffset' = overFlowOffset + 1 /\ position' = position + 1
  /\ cpQueue' = Q!PushTo(cpQueue, 0)
  /\ UNCHANGED <<target, modN, it, currentOffset, resets>>

(* step() returns false at the end. *)
StepAtEnd == AtEnd /\ UNCHANGED vars

Step == PreOverflowStep \/ PostOverflowStep \/ StepAtEnd

HashNext == Step \/ Reset

(* The caller runs  while (good()) step(). *)
HashSpec == HashInit /\ [][HashNext]_vars /\ WF_vars(Step)

-----------------------------------------------------------------------------
Fingerprint(first, e) == RabinFingerprint(modN, SubSeq(target, first, first + e - 1))

(* The first e characters in the queue, written or not. *)
Queued(e) == [i \in 1 .. e |-> Q!At(cpQueue, i - 1)]

(* The windows start Missing positions late in a short text. *)
Expected(e) == IF position + e > Missing + Len(target) THEN 0
               ELSE IF position < Missing THEN RabinFingerprint(modN, Queued(e))
               ELSE Fingerprint(position - Missing + 1, e)

(* In every position and after every reset() the hash of each term that    *)
(* fits the text is the direct fingerprint of its window, and 0 once it    *)
(* has no window left -- unless 2^64 arithmetic wrapped under a modulus    *)
(* that does not divide 2^64.  In a text shorter than the longest term the *)
(* windows come Missing positions late: until then the hashes are those    *)
(* of whatever is in the queue, characters that nobody has written         *)
(* included.  A term that does not fit the text is 0 at first and once     *)
(* its overflow steps are over, and unspecified between.                   *)
RollingEqualsFingerprint ==
  \A e \in Terms \ inexact :
    IF e <= Len(target) THEN currentHashes[e] = Expected(e)
    ELSE position = 0 \/ position + e > MaxTerm => currentHashes[e] = 0

(* What test_RollingRabinHash.cpp tests on one word, for texts that are as *)
(* long as the longest term: every hash is the fingerprint of its window.  *)
RollingAlwaysEqualsFingerprint ==
  Missing = 0 => \A e \in Terms : currentHashes[e] = Expected(e)

(* The same of shorter texts, where initialize() skips a term only if "the *)
(* string was't long enough to reach this term": the others have the       *)
(* fingerprint of their window, if no wrap was lossy.                      *)
ShortTextsAreHashed ==
  Missing > 0 =>
    \A e \in Terms \ inexact :
      position + e <= Len(target) => currentHashes[e] = Fingerprint(position + 1, e)

(* The queue holds the MaxTerm characters from the position on, zeros      *)
(* after the end.  In a text shorter than the longest term all of it is    *)
(* Missing positions late; what is in front of the text until then is not  *)
(* specified: memory that neither initialize() nor a step has written, or, *)
(* after reset(), characters of an earlier round.                          *)
QueueHoldsWindow ==
  /\ HashTypeOK
  /\ \A i \in 0 .. MaxTerm - 1 :
       position + i >= Missing =>
         Q!At(cpQueue, i) = IF position + i - Missing < Len(target)
                            THEN target[position + i - Missing + 1] ELSE 0

(* atEnd() answers true exactly at the last window of the shortest term,   *)
(* so that  while (good()) step()  neither skips nor repeats a window --   *)
(* in a text shorter than the longest term Missing steps later, since the  *)
(* overflow steps are counted from the longest term even if it never fit.  *)
EndsAtLastWindow == AtEnd <=> position = Missing + Len(target) - MinTerm

(* The driving loop ends, after any resets. *)
LoopEnds == []<>AtEnd

=============================================================================
