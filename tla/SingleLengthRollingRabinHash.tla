-------------------- MODULE SingleLengthRollingRabinHash ---------------------
(***************************************************************************)
(* search/SingleLengthRollingRabinHash.h: the rolling hash of windows of   *)
(* one length, here beside a RollingRabinHash of the same text that has    *)
(* this length among its terms, each step() and reset() called on both.    *)
(* Its queue is the SlidingWindow that RollingQueue implements: step()     *)
(* reads it only if initialize() has filled it.                            *)
(***************************************************************************)
EXTENDS RollingRabinHash

VARIABLES size, singleOffset,   \* size_, currentOffset_ of the single hasher
          singleHash,           \* currentHash_
          singleWindow,         \* cpQueue_, oldest character first
          singleInexact         \* history: hit by a 2^64 wrap-around

singleVars == <<size, singleOffset, singleHash, singleWindow, singleInexact>>

(* initialize() folds the characters in one by one, each time reduced. *)
Horner(s) == FoldLeft(LAMBDA h, cp : Add(Mul(h, Alpha) % modN, cp) % modN, 0, s)

FirstWindow == SubSeq(target, 1, Min({size, Len(target)}))

(* A text too short by two or more characters hashes to 0. *)
FirstHash == IF Len(FirstWindow) < size - 1 THEN 0 ELSE Horner(FirstWindow)

SingleInit == /\ size \in Terms
              /\ singleOffset = Len(FirstWindow)
              /\ singleHash = FirstHash
              /\ singleWindow = FirstWindow
              /\ singleInexact = FALSE

SingleReset == /\ singleOffset' = Len(FirstWindow)
               /\ singleHash' = FirstHash
               /\ singleWindow' = FirstWindow
               /\ singleInexact' = FALSE
               /\ UNCHANGED size

SingleAtEnd == singleOffset = Len(target)

SingleDeparting == Mul(Power(size - 1) % modN, singleWindow[1]) % modN

(* Variant: the character that leaves is not taken out. *)
ShiftedIn(cp) == Add(Mul(singleHash, Alpha) % modN, cp) % modN

SingleRolled(cp) ==
  Add(Mul(Sub(singleHash, SingleDeparting), Alpha) % modN, cp) % modN

SingleStep == LET cp == target[singleOffset + 1]
              IN  /\ ~SingleAtEnd
                  /\ singleHash' = SingleRolled(cp)
                  /\ singleInexact' =
                       (singleInexact \/ (Lossy(modN) /\ singleHash < SingleDeparting))
                  /\ singleWindow' = Append(Tail(singleWindow), cp)
                  /\ singleOffset' = singleOffset + 1
                  /\ UNCHANGED size

(* step() returns false. *)
SingleStays == SingleAtEnd /\ UNCHANGED singleVars

BothInit == HashInit /\ SingleInit

BothStep == \/ PreOverflowStep /\ SingleStep
            \/ PostOverflowStep /\ SingleStep
            \/ PostOverflowStep /\ SingleStays
            \/ StepAtEnd /\ SingleStays

BothReset == Reset /\ SingleReset

BothNext == BothStep \/ BothReset

BothSpec == /\ BothInit /\ [][BothNext]_<<vars, singleVars>>
            /\ WF_<<vars, singleVars>>(BothStep)

-----------------------------------------------------------------------------
(* The single hasher reports, at every position and after every reset(),   *)
(* the direct fingerprint of its window, as long as no subtraction         *)
(* borrowed; it is at its end just when that window is the last.  It says  *)
(* the same as the term of its length in RollingRabinHash if the text is   *)
(* as long as the longest term there (Missing = 0; in a shorter text only  *)
(* the single hasher starts with the first window).  A text shorter than   *)
(* the window hashes to 0 -- unless it is shorter by one character only:   *)
(* then to its own fingerprint.                                            *)
SingleLengthAgrees ==
  IF Len(target) < size
  THEN /\ SingleAtEnd
       /\ singleHash = IF Len(target) = size - 1 THEN RabinFingerprint(modN, target) ELSE 0
  ELSE /\ SingleAtEnd <=> position + size >= Len(target)
       /\ position + size <= Len(target) /\ ~singleInexact =>
            /\ singleHash = Fingerprint(position + 1, size)
            /\ Missing = 0 /\ size \notin inexact => singleHash = currentHashes[size]

=============================================================================
