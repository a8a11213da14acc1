----------------------- MODULE GlobalProfiles_proofs -------------------------
(***************************************************************************)
(* The safety properties of GlobalProfiles for any number of threads,      *)
(* addresses, documents and samples.  The argument is that the interpreter *)
(* lock admits one thread into the C++ code (LockHeld), so that what this  *)
(* thread is about to do says everything about the global pointer          *)
(* (PointerFollowsPhase) and about its own samples (SamplesOfCurrent).     *)
(***************************************************************************)
EXTENDS GlobalProfiles, TLAPS

LockHeld == \A t \in Thread : frame[t].at # "python" => gil = t

Changing == {t \in Thread : frame[t].at \in {"fill", "clear"}}

PointerFollowsPhase ==
  /\ \A t \in Thread : frame[t].at = "fill" =>
       globalPtr # Null /\ heap[globalPtr] \in 0 .. GramCount /\ ~broken
  /\ \A t \in Thread : frame[t].at = "clear" => globalPtr # Null /\ heap[globalPtr] = Freed
  /\ Changing = {} /\ globalPtr # Null =>
       heap[globalPtr] # Freed /\ (broken <=> heap[globalPtr] < GramCount)
  /\ broken => globalPtr # Null

SamplesOfCurrent ==
  \A t \in Thread :
    /\ frame[t].at \in {"fill", "sample"} => frame[t].profiles = globalPtr
    /\ frame[t].at # "sample" => frame[t].sampled = 0
    /\ frame[t].sampled = 0 => frame[t].usedAs = NoSample
    /\ frame[t].sampled > 0 => frame[t].profiles # Null /\ heap[frame[t].profiles] = frame[t].usedAs

IInv == /\ TypeOK /\ LockHeld /\ PointerFollowsPhase /\ NoLeak /\ SamplesOfCurrent
        /\ CrashOnlyOnNull

(* Everything is idle at first. *)
LEMMA InitIInv == Init => IInv
<1> SUFFICES ASSUME Init PROVE IInv
  OBVIOUS
<1> USE DEF Init
<1>1. InPython \in Frame
  BY ProfilesAssumption DEF InPython, Frame, NoSample
<1>2. TypeOK
  <2>1. Freed \in 0 .. Freed
    BY ProfilesAssumption DEF Freed
  <2>2. heap \in [Address -> 0 .. Freed] /\ frame \in [Thread -> Frame]
    BY <1>1, <2>1
  <2> QED  BY <2>2 DEF TypeOK
<1>3. \A t \in Thread : frame[t] = InPython
  OBVIOUS
<1>4. LockHeld /\ PointerFollowsPhase
  BY <1>3 DEF LockHeld, PointerFollowsPhase, Changing, InPython
<1>5. NoLeak /\ CrashOnlyOnNull
  BY DEF NoLeak, Alive, CrashOnlyOnNull
<1>6. SamplesOfCurrent
  BY <1>3 DEF SamplesOfCurrent, InPython
<1> QED  BY <1>2, <1>4, <1>5, <1>6 DEF IInv

(* What InitNew and DetectBegin do to the frame of their thread. *)
LEMMA FrameTakes ==
  ASSUME NEW f \in Frame, NEW label \in {"fill", "sample"}, NEW p \in Address \cup {Null}
  PROVE  LET g == [f EXCEPT !.at = label, !.profiles = p]
         IN  g \in Frame /\ g.at = label /\ g.profiles = p /\ g.sampled = f.sampled
                         /\ g.usedAs = f.usedAs
  BY DEF Frame

(* A thread in the C++ code is alone there. *)
LEMMA Alone ==
  ASSUME IInv, NEW t \in Thread, frame[t].at # "python"
  PROVE  gil = t /\ \A s \in Thread \ {t} : frame[s].at = "python"
  BY DEF IInv, LockHeld, TypeOK

(* A call begins: only the lock and the frame of the caller change. *)
LEMMA CallKeeps ==
  ASSUME IInv, NEW t \in Thread, Call(t)
  PROVE  IInv'
<1>1. PICK e \in Frame : /\ Enter(t, e) /\ e.at \in {"init", "destroy", "detect"}
                         /\ e.sampled = 0 /\ e.usedAs = NoSample
                         /\ UNCHANGED <<globalPtr, heap, crashed, broken>>
  <2> DEFINE Entry(label, arg) == [InPython EXCEPT !.at = label, !.source = arg]
  <2>1. InPython \in Frame /\ InPython.source = Null
    BY ProfilesAssumption DEF InPython, Frame, NoSample
  <2>2. ASSUME NEW arg \in Path \cup Json, CallInit(t, arg)
        PROVE  Entry("init", arg) \in Frame
    BY <2>1 DEF Frame
  <2>3. CASE \E arg \in Path \cup Json : CallInit(t, arg)
    BY <2>2, <2>3 DEF CallInit, InPython
  <2>4. [InPython EXCEPT !.at = "destroy"] \in Frame /\ [InPython EXCEPT !.at = "detect"] \in Frame
    BY <2>1 DEF Frame
  <2>5. CASE CallDestroy(t)
    BY <2>4, <2>5 DEF CallDestroy, InPython
  <2>6. CASE CallDetect(t)
    BY <2>4, <2>6 DEF CallDetect, InPython
  <2> QED  BY <2>3, <2>5, <2>6 DEF Call
<1>2. TypeOK'
  BY <1>1 DEF Enter, IInv, TypeOK
<1>3. frame' = [frame EXCEPT ![t] = e] /\ gil = Null /\ gil' = t
  BY <1>1 DEF Enter
<1>4. \A s \in Thread : frame[s].at = "python"
  BY <1>3, ProfilesAssumption DEF IInv, LockHeld
<1>5. LockHeld'
  BY <1>2, <1>3, <1>4 DEF LockHeld, IInv, TypeOK
<1>6. PointerFollowsPhase'
  BY <1>1, <1>3, <1>4 DEF PointerFollowsPhase, Changing, IInv, TypeOK
<1>7. NoLeak'
  BY <1>1 DEF NoLeak, Alive, IInv
<1>8. SamplesOfCurrent'
  BY <1>1, <1>3, <1>4 DEF SamplesOfCurrent, IInv, TypeOK
<1>9. CrashOnlyOnNull'
  BY <1>1, <1>3, <1>4 DEF Enter, CrashOnlyOnNull, IInv
<1> QED  BY <1>2, <1>5, <1>6, <1>7, <1>8, <1>9 DEF IInv

(* A call ends without a change of the profiles. *)
LEMMA LeaveKeeps ==
  ASSUME IInv, NEW t \in Thread, NEW label, At(t, label), label # "python",
         label # "fill", label # "clear",
         Leave(t), UNCHANGED <<globalPtr, heap, crashed, broken>>
  PROVE  IInv'
<1>1. /\ frame' = [frame EXCEPT ![t] = InPython] /\ gil' = Null /\ ~crashed
      /\ frame[t].at = label
  BY DEF Leave, At
<1>2. \A s \in Thread \ {t} : frame[s].at = "python"
  BY <1>1, Alone
<1>3. TypeOK'
  BY <1>1, ProfilesAssumption DEF IInv, TypeOK, InPython, Frame, NoSample
<1>4. LockHeld'
  BY <1>1, <1>2 DEF LockHeld, InPython, IInv, TypeOK
<1>5. PointerFollowsPhase'
  BY <1>1, <1>2 DEF PointerFollowsPhase, Changing, InPython, IInv, TypeOK
<1>6. NoLeak' /\ CrashOnlyOnNull'
  BY <1>1 DEF NoLeak, Alive, CrashOnlyOnNull, IInv
<1>7. SamplesOfCurrent'
  BY <1>1, <1>2 DEF SamplesOfCurrent, InPython, NoSample, IInv, TypeOK
<1> QED  BY <1>3, <1>4, <1>5, <1>6, <1>7 DEF IInv

-----------------------------------------------------------------------------
(* The loading of profiles: InitNew, InsertGram, LoadThrows and LoadEnds.  *)
LEMMA InitNewKeeps ==
  ASSUME IInv, NEW t \in Thread, InitNew(t)
  PROVE  IInv'
<1>1. PICK a \in Address : /\ heap[a] = Freed /\ globalPtr' = a
                           /\ heap' = [heap EXCEPT ![a] = 0]
                           /\ frame' = [frame EXCEPT ![t].at = "fill", ![t].profiles = a]
  BY DEF InitNew
<1>2. /\ UNCHANGED <<gil, crashed>> /\ broken' = FALSE
      /\ globalPtr = Null /\ frame[t].at = "init" /\ ~crashed
  BY DEF InitNew, At, IsInitialized
<1>3. gil = t /\ \A s \in Thread \ {t} : frame[s].at = "python"
  BY <1>2, Alone
<1>4. a # Null /\ heap'[a] = 0
  BY <1>1, ProfilesAssumption DEF IInv, TypeOK
<1>11. /\ frame[t] \in Frame /\ frame[t].sampled = 0 /\ frame[t].usedAs = NoSample
       /\ frame' = [frame EXCEPT ![t] = [frame[t] EXCEPT !.at = "fill", !.profiles = a]]
  BY <1>1, <1>2 DEF IInv, TypeOK, SamplesOfCurrent
<1>12. /\ frame' \in [Thread -> Frame]
       /\ frame'[t].at = "fill" /\ frame'[t].profiles = a
       /\ frame'[t].sampled = 0 /\ frame'[t].usedAs = NoSample
       /\ \A s \in Thread \ {t} : frame'[s] = frame[s]
  <2> DEFINE g == [frame[t] EXCEPT !.at = "fill", !.profiles = a]
  <2>1. /\ g \in Frame /\ g.at = "fill" /\ g.profiles = a
        /\ g.sampled = frame[t].sampled /\ g.usedAs = frame[t].usedAs
    BY <1>11, FrameTakes
  <2>2. frame' = [frame EXCEPT ![t] = g] /\ frame \in [Thread -> Frame]
    BY <1>11 DEF IInv, TypeOK
  <2> HIDE DEF g
  <2> QED  BY <1>11, <2>1, <2>2
<1>5. TypeOK'
  <2>1. 0 \in 0 .. Freed
    BY ProfilesAssumption DEF Freed
  <2> QED  BY <1>1, <1>2, <1>12, <2>1 DEF IInv, TypeOK
<1>6. LockHeld'
  BY <1>2, <1>3, <1>12 DEF LockHeld
<1>7. PointerFollowsPhase'
  <2>1. t \in Changing'
    BY <1>12 DEF Changing
  <2> QED  BY <1>1, <1>2, <1>3, <1>4, <1>12, <2>1, ProfilesAssumption DEF PointerFollowsPhase
<1>8. NoLeak'
  BY <1>1, <1>2, ProfilesAssumption DEF NoLeak, Alive, IInv, TypeOK
<1>9. SamplesOfCurrent'
  BY <1>1, <1>3, <1>12 DEF SamplesOfCurrent, IInv
<1>10. CrashOnlyOnNull'
  BY <1>2 DEF CrashOnlyOnNull
<1> QED  BY <1>5, <1>6, <1>7, <1>8, <1>9, <1>10 DEF IInv

(* An n-gram is inserted into the object in place. *)
LEMMA InsertGramKeeps ==
  ASSUME IInv, NEW t \in Thread, InsertGram(t)
  PROVE  IInv'
<1>10. frame[t].at = "fill" /\ frame[t].profiles = globalPtr
  BY DEF InsertGram, At, IInv, SamplesOfCurrent
<1>1. /\ frame[t].at = "fill" /\ heap[globalPtr] < Limit(frame[t].source) /\ ~crashed
      /\ heap' = [heap EXCEPT ![globalPtr] = heap[globalPtr] + 1]
      /\ UNCHANGED <<gil, globalPtr, frame, crashed, broken>>
  BY <1>10 DEF InsertGram, At, Inserted
<1>2. \A s \in Thread \ {t} : frame[s].at = "python"
  BY <1>1, Alone
<1>3. /\ globalPtr \in Address /\ heap[globalPtr] \in 0 .. GramCount /\ ~broken
      /\ Limit(frame[t].source) \in 0 .. GramCount
  BY <1>1, ProfilesAssumption DEF IInv, PointerFollowsPhase, TypeOK, Limit
<1>4. heap[globalPtr] + 1 \in 0 .. GramCount
  BY <1>1, <1>3, ProfilesAssumption
<1>5. TypeOK' /\ heap'[globalPtr] \in 0 .. GramCount
  BY <1>1, <1>3, <1>4, ProfilesAssumption DEF IInv, TypeOK, Freed
<1>6. LockHeld' /\ CrashOnlyOnNull'
  BY <1>1 DEF LockHeld, CrashOnlyOnNull, IInv
<1>7. PointerFollowsPhase'
  BY <1>1, <1>2, <1>3, <1>5 DEF PointerFollowsPhase, Changing, IInv
<1>8. NoLeak'
  BY <1>1, <1>3 DEF NoLeak, Alive, IInv, TypeOK
<1>9. SamplesOfCurrent'
  BY <1>1, <1>2 DEF SamplesOfCurrent, IInv, TypeOK, Frame
<1> QED  BY <1>5, <1>6, <1>7, <1>8, <1>9 DEF IInv

(* The load ends, with an exception or without. *)
LEMMA LoadOverKeeps ==
  ASSUME IInv, NEW t \in Thread, LoadThrows(t) \/ LoadEnds(t)
  PROVE  IInv'
<1>11. frame[t].profiles = globalPtr
  BY DEF LoadThrows, LoadEnds, At, IInv, SamplesOfCurrent
<1>1. /\ frame[t].at = "fill" /\ ~crashed
      /\ frame' = [frame EXCEPT ![t] = InPython] /\ gil' = Null
      /\ UNCHANGED <<globalPtr, heap, crashed>>
      /\ broken' \in BOOLEAN /\ (broken' <=> heap[globalPtr] < GramCount)
  <2>1. CASE LoadThrows(t)
    BY <1>11, <2>1 DEF LoadThrows, At, Leave, Inserted
  <2>2. CASE LoadEnds(t)
    BY <1>11, <2>2, ProfilesAssumption DEF LoadEnds, At, Leave, Inserted, IInv, PointerFollowsPhase, TypeOK
  <2> QED  BY <2>1, <2>2
<1>2. \A s \in Thread \ {t} : frame[s].at = "python"
  BY <1>1, Alone
<1>3. globalPtr # Null /\ heap[globalPtr] \in 0 .. GramCount
  BY <1>1 DEF IInv, PointerFollowsPhase
<1>4. InPython \in Frame
  BY ProfilesAssumption DEF InPython, Frame, NoSample
<1>5. TypeOK'
  BY <1>1, <1>4 DEF IInv, TypeOK
<1>6. \A s \in Thread : frame'[s].at = "python"
  BY <1>1, <1>2 DEF IInv, TypeOK, InPython
<1>7. LockHeld'
  BY <1>6 DEF LockHeld
<1>8. PointerFollowsPhase'
  BY <1>1, <1>3, <1>6, ProfilesAssumption DEF PointerFollowsPhase, Changing, Freed
<1>9. NoLeak' /\ CrashOnlyOnNull'
  BY <1>1 DEF NoLeak, Alive, CrashOnlyOnNull, IInv
<1>10. SamplesOfCurrent'
  BY <1>1, <1>2 DEF SamplesOfCurrent, InPython, NoSample, IInv, TypeOK
<1> QED  BY <1>5, <1>7, <1>8, <1>9, <1>10 DEF IInv

-----------------------------------------------------------------------------
(* The two steps of destroy: the object is deleted, the pointer cleared.   *)
LEMMA DestroyDeleteKeeps ==
  ASSUME IInv, NEW t \in Thread, DestroyDelete(t)
  PROVE  IInv'
<1>1. /\ frame[t].at = "destroy" /\ ~crashed /\ globalPtr # Null
      /\ heap' = [heap EXCEPT ![globalPtr] = Freed]
      /\ frame' = [frame EXCEPT ![t].at = "clear"]
      /\ UNCHANGED <<gil, globalPtr, crashed, broken>>
  BY DEF DestroyDelete, At, Goto, IsInitialized
<1>2. gil = t /\ \A s \in Thread \ {t} : frame[s].at = "python"
  BY <1>1, Alone
<1>3. globalPtr \in Address /\ heap'[globalPtr] = Freed
  BY <1>1 DEF IInv, TypeOK
<1>4. TypeOK'
  BY <1>1, <1>3, ProfilesAssumption DEF IInv, TypeOK, Frame, Freed
<1>5. /\ frame'[t].at = "clear" /\ frame'[t].sampled = 0 /\ frame'[t].usedAs = NoSample
      /\ \A s \in Thread \ {t} : frame'[s] = frame[s]
  BY <1>1 DEF IInv, TypeOK, Frame, SamplesOfCurrent
<1>6. LockHeld'
  BY <1>1, <1>2, <1>5 DEF LockHeld
<1>7. PointerFollowsPhase'
  BY <1>1, <1>2, <1>3, <1>5 DEF PointerFollowsPhase, Changing, IInv
<1>8. NoLeak' /\ CrashOnlyOnNull'
  BY <1>1, <1>3 DEF NoLeak, Alive, CrashOnlyOnNull, IInv, TypeOK
<1>9. SamplesOfCurrent'
  BY <1>1, <1>2, <1>5 DEF SamplesOfCurrent, IInv, TypeOK, Frame
<1> QED  BY <1>4, <1>6, <1>7, <1>8, <1>9 DEF IInv

(* With the pointer null again, nothing is said about the heap. *)
LEMMA DestroyClearKeeps ==
  ASSUME IInv, NEW t \in Thread, DestroyClear(t)
  PROVE  IInv'
<1>1. /\ frame[t].at = "clear" /\ ~crashed
      /\ frame' = [frame EXCEPT ![t] = InPython] /\ gil' = Null
      /\ globalPtr' = Null /\ broken' = FALSE
      /\ UNCHANGED <<heap, crashed>>
  BY DEF DestroyClear, At, Leave
<1>2. \A s \in Thread \ {t} : frame[s].at = "python"
  BY <1>1, Alone
<1>3. heap[globalPtr] = Freed
  BY <1>1 DEF IInv, PointerFollowsPhase
<1>4. InPython \in Frame
  BY ProfilesAssumption DEF InPython, Frame, NoSample
<1>5. TypeOK'
  BY <1>1, <1>4 DEF IInv, TypeOK
<1>6. \A s \in Thread : frame'[s].at = "python"
  BY <1>1, <1>2 DEF IInv, TypeOK, InPython
<1>7. LockHeld' /\ PointerFollowsPhase'
  BY <1>1, <1>6 DEF LockHeld, PointerFollowsPhase
<1>8. NoLeak' /\ CrashOnlyOnNull'
  BY <1>1, <1>3 DEF NoLeak, Alive, CrashOnlyOnNull, IInv
<1>9. SamplesOfCurrent'
  BY <1>1, <1>2 DEF SamplesOfCurrent, InPython, NoSample, IInv, TypeOK
<1> QED  BY <1>5, <1>7, <1>8, <1>9 DEF IInv

-----------------------------------------------------------------------------
(* detect() takes the pointer. *)
LEMMA DetectBeginKeeps ==
  ASSUME IInv, NEW t \in Thread, DetectBegin(t)
  PROVE  IInv'
<1>1. /\ frame[t].at = "detect" /\ ~crashed
      /\ frame' = [frame EXCEPT ![t].at = "sample", ![t].profiles = globalPtr]
      /\ UNCHANGED <<gil, globalPtr, heap, crashed, broken>>
  BY DEF DetectBegin, At
<1>2. gil = t /\ \A s \in Thread \ {t} : frame[s].at = "python"
  BY <1>1, Alone
<1>3. /\ frame[t] \in Frame /\ frame[t].sampled = 0 /\ frame[t].usedAs = NoSample
      /\ frame' = [frame EXCEPT ![t] = [frame[t] EXCEPT !.at = "sample", !.profiles = globalPtr]]
  BY <1>1 DEF IInv, TypeOK, SamplesOfCurrent
<1>4. /\ frame' \in [Thread -> Frame]
      /\ frame'[t].at = "sample" /\ frame'[t].profiles = globalPtr
      /\ frame'[t].sampled = 0 /\ frame'[t].usedAs = NoSample
      /\ \A s \in Thread \ {t} : frame'[s] = frame[s]
  <2> DEFINE g == [frame[t] EXCEPT !.at = "sample", !.profiles = globalPtr]
  <2>1. /\ g \in Frame /\ g.at = "sample" /\ g.profiles = globalPtr
        /\ g.sampled = frame[t].sampled /\ g.usedAs = frame[t].usedAs
    <3>1. globalPtr \in Address \cup {Null}
      BY DEF IInv, TypeOK
    <3> QED  BY <1>3, <3>1, FrameTakes
  <2>2. frame' = [frame EXCEPT ![t] = g] /\ frame \in [Thread -> Frame]
    BY <1>3 DEF IInv, TypeOK
  <2> HIDE DEF g
  <2> QED  BY <1>3, <2>1, <2>2
<1>9. TypeOK'
  BY <1>1, <1>4 DEF IInv, TypeOK
<1>5. LockHeld'
  BY <1>1, <1>2, <1>4 DEF LockHeld
<1>6. PointerFollowsPhase'
  BY <1>1, <1>2, <1>4 DEF PointerFollowsPhase, Changing, IInv
<1>7. NoLeak' /\ CrashOnlyOnNull'
  BY <1>1 DEF NoLeak, Alive, CrashOnlyOnNull, IInv
<1>8. SamplesOfCurrent'
  BY <1>1, <1>2, <1>4 DEF SamplesOfCurrent, IInv, TypeOK, Frame
<1> QED  BY <1>5, <1>6, <1>7, <1>8, <1>9 DEF IInv

(* One n-gram is looked up in an object that is alive. *)
LEMMA SampleKeeps ==
  ASSUME IInv, NEW t \in Thread, Sample(t)
  PROVE  IInv'
<1> DEFINE used == IF frame[t].usedAs = NoSample THEN heap[frame[t].profiles] ELSE frame[t].usedAs
<1>1. /\ frame[t].at = "sample" /\ ~crashed /\ frame[t].sampled < MaxSamples
      /\ frame[t].profiles \in Address /\ heap[frame[t].profiles] # Freed
      /\ frame' = [frame EXCEPT ![t].sampled = frame[t].sampled + 1, ![t].usedAs = used]
      /\ UNCHANGED <<gil, globalPtr, heap, crashed, broken>>
  BY DEF Sample, At, Alive
<1>2. gil = t /\ \A s \in Thread \ {t} : frame[s].at = "python"
  BY <1>1, Alone
<1>3. frame[t] \in Frame /\ heap[frame[t].profiles] \in 0 .. Freed /\ Freed \in Nat
  BY <1>1, ProfilesAssumption DEF IInv, TypeOK, Freed
<1>4. used \in 0 .. NoSample /\ used = heap[frame[t].profiles]
  BY <1>1, <1>3, ProfilesAssumption DEF IInv, SamplesOfCurrent, Frame, Freed, NoSample
<1>5. frame[t].sampled + 1 \in 1 .. MaxSamples
  BY <1>1, <1>3, ProfilesAssumption DEF Frame
<1> HIDE DEF used
<1>6. frame' = [frame EXCEPT ![t] = [frame[t] EXCEPT !.sampled = frame[t].sampled + 1,
                                                    !.usedAs = used]]
  BY <1>1 DEF IInv, TypeOK
<1>7. /\ frame' \in [Thread -> Frame]
      /\ \A s \in Thread \ {t} : frame'[s] = frame[s]
      /\ frame'[t].at = "sample" /\ frame'[t].profiles = frame[t].profiles
      /\ frame'[t].sampled = frame[t].sampled + 1 /\ frame'[t].usedAs = used
  <2> DEFINE n == frame[t].sampled + 1
             g == [frame[t] EXCEPT !.sampled = n, !.usedAs = used]
  <2>1. n \in 0 .. MaxSamples
    BY <1>5
  <2>2. frame' = [frame EXCEPT ![t] = g] /\ frame \in [Thread -> Frame]
    BY <1>6 DEF IInv, TypeOK
  <2> SUFFICES /\ frame' \in [Thread -> Frame]
               /\ \A s \in Thread \ {t} : frame'[s] = frame[s]
               /\ frame'[t].at = "sample" /\ frame'[t].profiles = frame[t].profiles
               /\ frame'[t].sampled = n /\ frame'[t].usedAs = used
    OBVIOUS
  <2> HIDE DEF n
  <2>3. /\ g \in Frame /\ g.at = frame[t].at /\ g.profiles = frame[t].profiles
        /\ g.sampled = n /\ g.usedAs = used
    BY <1>3, <1>4, <2>1 DEF Frame
  <2> HIDE DEF g
  <2>4. frame'[t] = g /\ \A s \in Thread \ {t} : frame'[s] = frame[s]
    BY <2>2
  <2>5. frame' \in [Thread -> Frame]
    BY <2>2, <2>3
  <2> QED  BY <1>1, <2>3, <2>4, <2>5
<1>8. TypeOK'
  BY <1>1, <1>7 DEF IInv, TypeOK
<1>9. LockHeld'
  BY <1>1, <1>2, <1>7 DEF LockHeld
<1>10. PointerFollowsPhase'
  BY <1>1, <1>2, <1>7 DEF PointerFollowsPhase, Changing, IInv
<1>11. NoLeak' /\ CrashOnlyOnNull'
  BY <1>1 DEF NoLeak, Alive, CrashOnlyOnNull, IInv
<1>12. SamplesOfCurrent'
  <2>1. SamplesOfCurrent
    BY DEF IInv
  <2>2. frame[t].profiles = globalPtr /\ frame[t].profiles # Null
    BY <1>1, <2>1, ProfilesAssumption DEF SamplesOfCurrent
  <2>3. frame'[t].sampled \in 1 .. MaxSamples /\ heap'[frame'[t].profiles] = frame'[t].usedAs
    BY <1>1, <1>4, <1>5, <1>7
  <2> SUFFICES ASSUME NEW s \in Thread
               PROVE  /\ frame'[s].at \in {"fill", "sample"} => frame'[s].profiles = globalPtr'
                      /\ frame'[s].at # "sample" => frame'[s].sampled = 0
                      /\ frame'[s].sampled = 0 => frame'[s].usedAs = NoSample
                      /\ frame'[s].sampled > 0 =>
                           frame'[s].profiles # Null /\ heap'[frame'[s].profiles] = frame'[s].usedAs
    BY DEF SamplesOfCurrent
  <2>4. CASE s = t
    BY <1>1, <1>7, <2>2, <2>3, <2>4
  <2>5. CASE s # t
    BY <1>1, <1>7, <2>1, <2>5 DEF SamplesOfCurrent
  <2> QED  BY <2>4, <2>5
<1> QED  BY <1>8, <1>9, <1>10, <1>11, <1>12 DEF IInv

(* The only pointer that detect() dereferences in vain is null. *)
LEMMA SampleCrashesKeeps ==
  ASSUME IInv, NEW t \in Thread, SampleCrashes(t)
  PROVE  IInv'
<1>1. /\ frame[t].at = "sample" /\ ~crashed /\ frame[t].profiles \notin Alive
      /\ crashed' = TRUE /\ UNCHANGED <<gil, globalPtr, heap, frame, broken>>
  BY DEF SampleCrashes, At
<1>2. \A s \in Thread : frame[s].at \notin {"fill", "clear"}
  BY <1>1, Alone
<1>3. frame[t].profiles = Null
  <2>1. frame[t].profiles = globalPtr
    BY <1>1 DEF IInv, SamplesOfCurrent
  <2>2. Changing = {}
    BY <1>2 DEF Changing
  <2>3. globalPtr # Null => globalPtr \in Alive
    BY <2>2 DEF IInv, PointerFollowsPhase, Alive, TypeOK
  <2> QED  BY <1>1, <2>1, <2>3
<1> QED  BY <1>1, <1>3 DEF IInv, TypeOK, LockHeld, PointerFollowsPhase, Changing, NoLeak, Alive,
           SamplesOfCurrent, CrashOnlyOnNull

-----------------------------------------------------------------------------
(* Every step preserves the inductive invariant. *)
LEMMA StepIInv == IInv /\ [Next]_vars => IInv'
<1> SUFFICES ASSUME IInv, [Next]_vars PROVE IInv'
  OBVIOUS
<1>1. CASE UNCHANGED vars
  BY <1>1 DEF vars, IInv, TypeOK, LockHeld, PointerFollowsPhase, Changing, NoLeak, Alive,
     SamplesOfCurrent, CrashOnlyOnNull
<1>2. ASSUME NEW t \in Thread, Call(t) PROVE IInv'
  BY <1>2, CallKeeps
<1>3. ASSUME NEW t \in Thread, Run(t) PROVE IInv'
  <2>1. CASE InitSkip(t)
    BY <2>1, LeaveKeeps DEF InitSkip
  <2>2. CASE DestroyNothing(t)
    BY <2>2, LeaveKeeps DEF DestroyNothing
  <2>3. CASE DetectEnds(t)
    BY <2>3, LeaveKeeps DEF DetectEnds
  <2> QED  BY <1>3, <2>1, <2>2, <2>3, InitNewKeeps, InsertGramKeeps, LoadOverKeeps,
              DestroyDeleteKeeps, DestroyClearKeeps, DetectBeginKeeps, SampleKeeps,
              SampleCrashesKeeps DEF Run
<1> QED  BY <1>1, <1>2, <1>3 DEF Next

(* The inductive invariant holds in every reachable state. *)
LEMMA Invariance == Spec => []IInv
  BY InitIInv, StepIInv, PTL DEF Spec

-----------------------------------------------------------------------------
(* Type correctness of GlobalProfiles. *)
THEOREM TypeCorrect == Spec => []TypeOK
  BY Invariance, PTL DEF IInv

(* A detect() in progress sees one object, alive and unchanged, for any    *)
(* number of threads that initialise and destroy the profiles.             *)
THEOREM DetectSnapshot == Spec => []DetectUsesOneSnapshot
<1>1. IInv => DetectUsesOneSnapshot
  BY DEF IInv, SamplesOfCurrent, DetectUsesOneSnapshot
<1> QED  BY <1>1, Invariance, PTL

(* The process crashes only on a null pointer, never on a dangling one.    *)
THEOREM CrashIsNull == Spec => []CrashOnlyOnNull
  BY Invariance, PTL DEF IInv

(* No sequence of calls leaks a LanguageProfiles object. *)
THEOREM LeakFree == Spec => []NoLeak
  BY Invariance, PTL DEF IInv

(* Between calls the profiles in place are complete, or left over from a   *)
(* load that threw.                                                        *)
THEOREM IncompleteExplained == Spec => []IncompleteOnlyAfterFailedLoad
<1>1. IInv => IncompleteOnlyAfterFailedLoad
  BY ProfilesAssumption DEF IInv, LockHeld, PointerFollowsPhase, Changing,
     IncompleteOnlyAfterFailedLoad, IsInitialized
<1> QED  BY <1>1, Invariance, PTL

(* Profiles left over from a failed load stay until they are destroyed.    *)
THEOREM RepairNeedsDestroy == Spec => OnlyDestroyRepairs
<1>1. IInv /\ [Next]_vars => [broken /\ ~broken' => \E t \in Thread : DestroyClear(t)]_vars
  <2> SUFFICES ASSUME IInv, Next, broken, ~broken'
               PROVE  \E t \in Thread : DestroyClear(t)
    OBVIOUS
  <2>1. globalPtr # Null
    BY DEF IInv, PointerFollowsPhase
  <2>2. PICK t \in Thread : Call(t) \/ Run(t)
    BY DEF Next
  <2>3. ~Call(t)
    BY DEF Call, CallInit, CallDestroy, CallDetect
  <2>4. ~InitNew(t)
    BY <2>1 DEF InitNew, IsInitialized
  <2> QED  BY <2>2, <2>3, <2>4 DEF Run, InitSkip, InsertGram, LoadThrows, LoadEnds,
              DestroyNothing, DestroyDelete, DetectBegin, Sample, SampleCrashes, DetectEnds
<1> QED  BY <1>1, Invariance, PTL DEF Spec, OnlyDestroyRepairs

-----------------------------------------------------------------------------
(* Refinement of AtomicProfiles.  The invariant of a load: it has an       *)
(* argument, and has read no more than the argument holds.                 *)
Loading ==
  \A t \in Thread :
    /\ frame[t].at \in {"init", "fill"} => frame[t].source \in Path \cup Json
    /\ frame[t].at = "fill" => heap[globalPtr] <= Limit(frame[t].source)

(* No document holds more than all the n-grams. *)
LEMMA LimitBound == \A arg \in Path \cup Json : Limit(arg) \in 0 .. GramCount
  BY ProfilesAssumption DEF Limit

(* No step loads without an argument or beyond its end. *)
LEMMA StepLoading ==
  ASSUME IInv, Loading, Next
  PROVE  Loading'
<1>1. PICK t \in Thread : Call(t) \/ Run(t)
  BY DEF Next
<1>2. frame \in [Thread -> Frame]
  BY DEF IInv, TypeOK
<1>3. ASSUME NEW g, frame' = [frame EXCEPT ![t] = g], g.at \notin {"init", "fill"},
             \A s \in Thread \ {t} : frame[s].at # "fill"
      PROVE  Loading'
  BY <1>2, <1>3 DEF Loading
<1>4. CASE Call(t)
  <2>1. gil = Null /\ \A s \in Thread : frame[s].at = "python"
    BY <1>4, ProfilesAssumption DEF Call, CallInit, CallDestroy, CallDetect, Enter, IInv, LockHeld
  <2>2. ASSUME NEW arg \in Path \cup Json, CallInit(t, arg) PROVE Loading'
    <3>1. frame' = [frame EXCEPT ![t] = [InPython EXCEPT !.at = "init", !.source = arg]]
      BY <2>2 DEF CallInit, Enter
    <3>2. frame'[t].at = "init" /\ frame'[t].source = arg
      BY <3>1, <1>2 DEF InPython
    <3> QED  BY <1>2, <2>1, <3>1, <3>2 DEF Loading
  <2>3. CASE CallDestroy(t)
    BY <1>3, <2>1, <2>3 DEF CallDestroy, Enter, InPython
  <2>4. CASE CallDetect(t)
    BY <1>3, <2>1, <2>4 DEF CallDetect, Enter, InPython
  <2> QED  BY <1>4, <2>2, <2>3, <2>4 DEF Call
<1>5. CASE Run(t)
  <2>1. frame[t].at # "python"
    BY <1>5 DEF Run, At, InitSkip, InitNew, InsertGram, LoadThrows, LoadEnds, DestroyNothing,
       DestroyDelete, DestroyClear, DetectBegin, Sample, SampleCrashes, DetectEnds
  <2>2. \A s \in Thread \ {t} : frame[s].at = "python"
    BY <2>1, Alone
  <2>3. CASE Leave(t)
    BY <1>3, <2>2, <2>3 DEF Leave, InPython
  <2>4. CASE InitNew(t)
    <3>1. PICK a \in Address :
            /\ heap' = [heap EXCEPT ![a] = 0] /\ globalPtr' = a
            /\ frame' = [frame EXCEPT ![t].at = "fill", ![t].profiles = a]
      BY <2>4 DEF InitNew
    <3>2. frame[t].source \in Path \cup Json
      BY <2>4 DEF InitNew, At, Loading
    <3>3. frame[t] \in Frame /\ frame'[t] = [frame[t] EXCEPT !.at = "fill", !.profiles = a]
      BY <1>2, <3>1
    <3>4. frame'[t].source = frame[t].source
      BY <3>3 DEF Frame
    <3>5. heap'[globalPtr'] = 0
      BY <3>1 DEF IInv, TypeOK
    <3>6. \A s \in Thread \ {t} : frame'[s] = frame[s]
      BY <1>2, <3>1
    <3>7. 0 <= Limit(frame[t].source)
      BY <3>2, LimitBound
    <3> QED  BY <2>2, <3>2, <3>4, <3>5, <3>6, <3>7 DEF Loading
  <2>5. CASE InsertGram(t)
    <3>1. /\ frame[t].at = "fill" /\ heap[globalPtr] < Limit(frame[t].source)
          /\ heap' = [heap EXCEPT ![globalPtr] = heap[globalPtr] + 1]
          /\ UNCHANGED <<globalPtr, frame>>
      BY <2>5 DEF InsertGram, At, Inserted, IInv, SamplesOfCurrent
    <3>2. globalPtr \in Address /\ heap[globalPtr] \in 0 .. GramCount
      BY <3>1 DEF IInv, TypeOK, PointerFollowsPhase
    <3>3. heap'[globalPtr] = heap[globalPtr] + 1
      BY <3>1, <3>2 DEF IInv, TypeOK
    <3>4. Limit(frame[t].source) \in 0 .. GramCount
      BY <3>1, LimitBound DEF Loading
    <3>5. heap'[globalPtr] <= Limit(frame[t].source)
      BY <3>1, <3>2, <3>3, <3>4, ProfilesAssumption
    <3> QED  BY <2>2, <3>1, <3>5 DEF Loading
  <2>6. CASE DestroyDelete(t)
    BY <1>2, <2>2, <2>6 DEF DestroyDelete, Goto, At, Loading
  <2>7. CASE DetectBegin(t)
    BY <1>2, <2>2, <2>7 DEF DetectBegin, At, Loading
  <2>8. CASE Sample(t)
    BY <1>2, <2>2, <2>8 DEF Sample, At, Loading
  <2>9. CASE SampleCrashes(t)
    BY <2>9 DEF SampleCrashes, Loading
  <2> QED  BY <1>5, <2>3, <2>4, <2>5, <2>6, <2>7, <2>8, <2>9
           DEF Run, InitSkip, LoadThrows, LoadEnds, DestroyNothing, DestroyClear, DetectEnds
<1> QED  BY <1>1, <1>4, <1>5

(* Both invariants hold in every reachable state. *)
LEMMA LoadInvariance == Spec => [](IInv /\ Loading)
<1>1. Init => Loading
  BY DEF Init, Loading, InPython
<1>2. IInv /\ Loading /\ [Next]_vars => Loading'
  <2>1. IInv /\ Loading /\ UNCHANGED vars => Loading'
    BY DEF vars, Loading
  <2> QED  BY <2>1, StepLoading
<1> QED  BY <1>1, <1>2, InitIInv, StepIInv, PTL DEF Spec

(* The profiles in place, seen by a thread that is in a call and does not  *)
(* load: nobody else is loading.                                           *)
LEMMA NobodyLoads ==
  ASSUME IInv, NEW t \in Thread, frame[t].at \notin {"python", "fill"}
  PROVE  /\ \A s \in Thread : frame[s].at # "fill"
         /\ GramsInPlace = IF globalPtr = Null THEN Atomic!Absent ELSE heap[globalPtr]
<1>1. \A s \in Thread : frame[s].at # "fill"
  BY Alone
<1> QED  BY <1>1 DEF GramsInPlace, Freed, Atomic!Absent

(* While a document is loaded there are no profiles. *)
LEMMA OneLoads ==
  ASSUME NEW t \in Thread, frame[t].at = "fill"
  PROVE  GramsInPlace = Atomic!Absent
  BY DEF GramsInPlace, Freed, Atomic!Absent

(* The call of one thread changes when its frame does. *)
LEMMA OneCallChanges ==
  ASSUME frame \in [Thread -> Frame], NEW t \in Thread, NEW f, frame' = [frame EXCEPT ![t] = f]
  PROVE  /\ CallInProgress' = [CallInProgress EXCEPT ![t] = CallOf(f)]
         /\ CallInProgress[t] = CallOf(frame[t])
<1>1. frame' = [s \in Thread |-> IF s = t THEN f ELSE frame[s]]
  OBVIOUS
<1>2. \A s \in Thread : CallOf(frame'[s]) = IF s = t THEN CallOf(f) ELSE CallOf(frame[s])
  BY <1>1
<1>3. CallInProgress' = [s \in Thread |-> CallOf(frame'[s])]
  BY DEF CallInProgress
<1> QED  BY <1>2, <1>3 DEF CallInProgress

(* A thread that is back in Python makes no call. *)
LEMMA InPythonIsIdle == CallOf(InPython) = Atomic!Idle
  BY DEF CallOf, Stage, InPython, Atomic!Idle, NoSample, Atomic!NoAnswer

(* A step that ends a call ends it in the abstract state. *)
LEMMA LeaveEnds ==
  ASSUME IInv, NEW t \in Thread, Leave(t)
  PROVE  Atomic!Ends(t)
<1>1. frame \in [Thread -> Frame] /\ frame' = [frame EXCEPT ![t] = InPython]
  BY DEF IInv, TypeOK, Leave
<1> QED  BY <1>1, OneCallChanges, InPythonIsIdle DEF Atomic!Ends

(* A call begins. *)
LEMMA CallBegins ==
  ASSUME IInv, NEW t \in Thread, Call(t)
  PROVE  Atomic!Next
<1>1. frame \in [Thread -> Frame]
  BY DEF IInv, TypeOK
<1>2. PICK e : Enter(t, e) /\ UNCHANGED <<globalPtr, heap, crashed>>
  BY DEF Call, CallInit, CallDestroy, CallDetect
<1>3. /\ frame' = [frame EXCEPT ![t] = e] /\ ~crashed /\ frame[t].at = "python"
      /\ \A s \in Thread : frame[s].at = "python"
  BY <1>2, ProfilesAssumption DEF Enter, IInv, LockHeld
<1>4. frame'[t] = e
  BY <1>1, <1>3
<1>5. /\ CallInProgress' = [CallInProgress EXCEPT ![t] = CallOf(e)]
      /\ CallInProgress[t].doing = "nothing"
  <2>1. CallInProgress[t] = CallOf(frame[t])
    BY <1>1, <1>3, OneCallChanges
  <2>2. CallOf(frame[t]).doing = "nothing"
    BY <1>3 DEF CallOf, Stage
  <2> QED  BY <1>1, <1>3, <2>1, <2>2, OneCallChanges
<1>6. ASSUME e.at # "fill" PROVE GramsInPlace' = GramsInPlace
  <2>1. \A s \in Thread : frame[s].at # "fill" /\ frame'[s].at # "fill"
    BY <1>1, <1>3, <1>6
  <2> QED  BY <1>2, <2>1 DEF GramsInPlace
<1>7. ASSUME NEW arg \in Path \cup Json, CallInit(t, arg)
      PROVE  Atomic!Begin(t, "init", arg)
  <2>1. e = [InPython EXCEPT !.at = "init", !.source = arg]
    BY <1>1, <1>4, <1>7 DEF CallInit, Enter
  <2>2. e.at = "init" /\ e.source = arg /\ e.usedAs = NoSample
    BY <2>1 DEF InPython
  <2>3. CallOf(e) = [doing |-> "init", with |-> arg, used |-> Atomic!NoAnswer]
    BY <2>2 DEF CallOf, Stage, NoSample, Atomic!NoAnswer
  <2> QED  BY <1>2, <1>3, <1>5, <1>6, <2>2, <2>3 DEF Atomic!Begin, Atomic!Doing
<1>8. CASE CallDestroy(t)
  <2>1. e = [InPython EXCEPT !.at = "destroy"]
    BY <1>1, <1>4, <1>8 DEF CallDestroy, Enter
  <2>2. e.at = "destroy" /\ e.source = Null /\ e.usedAs = NoSample
    BY <2>1 DEF InPython
  <2>3. CallOf(e) = [doing |-> "destroy", with |-> Null, used |-> Atomic!NoAnswer]
    BY <2>2 DEF CallOf, Stage, NoSample, Atomic!NoAnswer
  <2>4. Atomic!Begin(t, "destroy", Null)
    BY <1>2, <1>3, <1>5, <1>6, <2>2, <2>3 DEF Atomic!Begin, Atomic!Doing
  <2> QED  BY <2>4 DEF Atomic!Next
<1>9. CASE CallDetect(t)
  <2>1. e = [InPython EXCEPT !.at = "detect"]
    BY <1>1, <1>4, <1>9 DEF CallDetect, Enter
  <2>2. e.at = "detect" /\ e.source = Null /\ e.usedAs = NoSample /\ e.sampled = 0
    BY <2>1 DEF InPython
  <2>3. CallOf(e) = [doing |-> "detect", with |-> Null, used |-> Atomic!NoAnswer]
    BY <2>2 DEF CallOf, Stage, NoSample, Atomic!NoAnswer
  <2>4. Atomic!Begin(t, "detect", Null)
    BY <1>2, <1>3, <1>5, <1>6, <2>2, <2>3 DEF Atomic!Begin, Atomic!Doing
  <2> QED  BY <2>4 DEF Atomic!Next
<1> QED  BY <1>7, <1>8, <1>9 DEF Call, Atomic!Next

(* The call a thread is in. *)
LEMMA CallOfThread ==
  ASSUME NEW t \in Thread
  PROVE  /\ CallInProgress[t] = CallOf(frame[t])
         /\ CallInProgress[t].doing = Stage(frame[t]) /\ CallInProgress[t].with = frame[t].source
  BY DEF CallInProgress, CallOf

(* init takes effect when its load is over, or at once if there is         *)
(* nothing to load.                                                        *)
LEMMA InitTakesEffect ==
  ASSUME IInv, IInv', Loading, NEW t \in Thread, InitSkip(t) \/ LoadThrows(t) \/ LoadEnds(t)
  PROVE  Atomic!Initialise(t)
<1>1. /\ frame[t].at \in {"init", "fill"} /\ ~crashed /\ Leave(t)
      /\ UNCHANGED <<globalPtr, heap, crashed>>
  BY DEF InitSkip, LoadThrows, LoadEnds, At
<1>2. CallInProgress[t].doing = "init" /\ CallInProgress[t].with = frame[t].source
  BY <1>1, CallOfThread DEF Stage
<1>3. Atomic!Ends(t)
  BY <1>1, LeaveEnds
<1>4. \A s \in Thread : frame'[s].at = "python"
  BY <1>1, Alone DEF Leave, InPython, IInv, TypeOK
<1>5. GramsInPlace' = IF globalPtr = Null THEN Freed ELSE heap[globalPtr]
  BY <1>1, <1>4 DEF GramsInPlace
<1>6. GramsInPlace' = IF GramsInPlace = Atomic!Absent
                      THEN [arg \in Path \cup Json |-> Limit(arg)][CallInProgress[t].with]
                      ELSE GramsInPlace
  <2>1. CASE InitSkip(t)
    <3>1. globalPtr # Null /\ frame[t].at = "init"
      BY <2>1 DEF InitSkip, IsInitialized, At
    <3>2. GramsInPlace = heap[globalPtr] /\ Changing = {}
      BY <3>1, Alone, NobodyLoads DEF Changing
    <3>3. GramsInPlace # Freed
      BY <3>1, <3>2 DEF IInv, PointerFollowsPhase
    <3> QED  BY <1>5, <3>1, <3>2, <3>3 DEF Freed, Atomic!Absent
  <2>2. CASE LoadThrows(t) \/ LoadEnds(t)
    <3>1. /\ frame[t].at = "fill" /\ globalPtr # Null /\ frame[t].source \in Path \cup Json
          /\ heap[globalPtr] <= Limit(frame[t].source) /\ heap[globalPtr] \in 0 .. GramCount
      BY <2>2 DEF LoadThrows, LoadEnds, At, IInv, PointerFollowsPhase, Loading
    <3>2. heap[globalPtr] = Limit(frame[t].source) \/ heap[globalPtr] = GramCount
      BY <2>2 DEF LoadThrows, LoadEnds, At, Inserted, IInv, SamplesOfCurrent
    <3>3. Limit(frame[t].source) \in 0 .. GramCount
      BY <3>1, LimitBound
    <3>4. heap[globalPtr] = Limit(frame[t].source)
      BY <3>1, <3>2, <3>3, ProfilesAssumption
    <3>5. GramsInPlace = Atomic!Absent
      BY <3>1, OneLoads
    <3> QED  BY <1>2, <1>5, <3>1, <3>4, <3>5
  <2> QED  BY <2>1, <2>2
<1> QED  BY <1>1, <1>2, <1>3, <1>6 DEF Atomic!Initialise, Atomic!Done, Atomic!Doing

(* The steps of a load before its end change nothing of the abstract       *)
(* state.                                                                  *)
LEMMA LoadStutters ==
  ASSUME IInv, NEW t \in Thread, InitNew(t) \/ InsertGram(t)
  PROVE  UNCHANGED <<GramsInPlace, CallInProgress, crashed>>
<1>1. frame \in [Thread -> Frame]
  BY DEF IInv, TypeOK
<1>2. CASE InitNew(t)
  <2>1. PICK a \in Address :
          frame' = [frame EXCEPT ![t] = [frame[t] EXCEPT !.at = "fill", !.profiles = a]]
    BY <1>1, <1>2 DEF InitNew
  <2>2. globalPtr = Null /\ frame[t].at = "init" /\ UNCHANGED crashed
    BY <1>2 DEF InitNew, IsInitialized, At
  <2> DEFINE g == [frame[t] EXCEPT !.at = "fill", !.profiles = a]
  <2>3. g.at = "fill" /\ g.source = frame[t].source /\ g.usedAs = frame[t].usedAs
    BY <1>1 DEF Frame
  <2>4. CallOf(g) = CallOf(frame[t])
    BY <2>2, <2>3 DEF CallOf, Stage
  <2>5. frame' = [frame EXCEPT ![t] = g]
    BY <2>1
  <2> HIDE DEF g
  <2>6. CallInProgress' = CallInProgress
    <3>1. CallInProgress' = [CallInProgress EXCEPT ![t] = CallOf(g)] /\ CallInProgress[t] = CallOf(g)
      BY <1>1, <2>4, <2>5, OneCallChanges
    <3> QED  BY <3>1 DEF CallInProgress
  <2>7. frame'[t].at = "fill"
    BY <1>1, <2>3, <2>5
  <2>8. GramsInPlace' = Freed
    BY <2>7 DEF GramsInPlace, Freed
  <2>9. GramsInPlace = Freed
    BY <2>2 DEF GramsInPlace
  <2> QED  BY <2>2, <2>6, <2>8, <2>9
<1>3. CASE InsertGram(t)
  BY <1>3 DEF InsertGram, At, GramsInPlace, CallInProgress, Freed
<1> QED  BY <1>2, <1>3

(* destroy takes effect when it finds nothing, or deletes the object. *)
LEMMA DestroyTakesEffect ==
  ASSUME IInv, NEW t \in Thread, DestroyNothing(t) \/ DestroyDelete(t)
  PROVE  Atomic!Destroy(t)
<1>1. /\ frame[t].at = "destroy" /\ ~crashed /\ UNCHANGED <<globalPtr, crashed>>
      /\ frame \in [Thread -> Frame] /\ frame[t] \in Frame
  BY DEF DestroyNothing, DestroyDelete, At, IInv, TypeOK
<1>2. CallInProgress[t] = CallOf(frame[t]) /\ CallInProgress[t].doing = "destroy"
  BY <1>1, CallOfThread DEF Stage
<1>3. \A s \in Thread : frame[s].at # "fill"
  BY <1>1, NobodyLoads
<1>4. CASE DestroyNothing(t)
  <2>1. Atomic!Ends(t) /\ globalPtr = Null
    BY <1>4, LeaveEnds DEF DestroyNothing, IsInitialized
  <2>2. GramsInPlace' = Atomic!Absent
    BY <1>1, <2>1 DEF GramsInPlace, Freed, Atomic!Absent
  <2> QED  BY <1>1, <1>2, <2>1, <2>2 DEF Atomic!Destroy, Atomic!Done, Atomic!Doing
<1>5. CASE DestroyDelete(t)
  <2> DEFINE g == [frame[t] EXCEPT !.at = "clear"]
  <2>1. /\ globalPtr # Null /\ heap' = [heap EXCEPT ![globalPtr] = Freed]
        /\ frame' = [frame EXCEPT ![t] = g]
    BY <1>1, <1>5 DEF DestroyDelete, IsInitialized, Goto
  <2>2. /\ g.at = "clear" /\ g.source = frame[t].source /\ g.usedAs = NoSample
        /\ frame[t].usedAs = NoSample
    BY <1>1 DEF Frame, IInv, SamplesOfCurrent
  <2> HIDE DEF g
  <2>3. CallInProgress' = [CallInProgress EXCEPT ![t] = CallOf(g)]
    BY <1>1, <2>1, OneCallChanges
  <2>4. CallOf(g) = [doing |-> "return", with |-> CallInProgress[t].with,
                         used |-> Atomic!NoAnswer]
    BY <2>2, CallOfThread DEF CallOf, Stage, NoSample, Atomic!NoAnswer
  <2>5. heap'[globalPtr'] = Freed
    BY <1>1, <2>1 DEF IInv, TypeOK
  <2>6. GramsInPlace' = Atomic!Absent
    BY <2>5 DEF GramsInPlace, Freed, Atomic!Absent
  <2> QED  BY <1>1, <1>2, <2>3, <2>4, <2>6 DEF Atomic!Destroy, Atomic!Done, Atomic!Doing
<1> QED  BY <1>4, <1>5

(* The pointer is cleared, or the runner is done: the call returns. *)
LEMMA EffectReturns ==
  ASSUME IInv, NEW t \in Thread, DestroyClear(t) \/ DetectEnds(t)
  PROVE  Atomic!Return(t)
<1>1. /\ ~crashed /\ UNCHANGED <<heap, crashed>> /\ Leave(t) /\ frame \in [Thread -> Frame]
      /\ frame[t].at \notin {"python", "fill"} /\ Stage(frame[t]) = "return"
  BY DEF DestroyClear, DetectEnds, At, Stage, IInv, TypeOK, Frame
<1>2. CallInProgress[t].doing = "return" /\ Atomic!Ends(t)
  BY <1>1, CallOfThread, LeaveEnds
<1>3. \A s \in Thread : frame[s].at # "fill" /\ frame'[s].at # "fill"
  <2>1. \A s \in Thread : frame[s].at # "fill"
    BY <1>1, NobodyLoads
  <2> QED  BY <1>1, <2>1 DEF Leave, InPython
<1>4. GramsInPlace' = GramsInPlace
  <2>1. CASE DestroyClear(t)
    BY <1>3, <2>1 DEF DestroyClear, At, GramsInPlace, Freed, IInv, PointerFollowsPhase
  <2>2. CASE DetectEnds(t)
    BY <1>3, <2>2 DEF DetectEnds, GramsInPlace, Freed
  <2> QED  BY <2>1, <2>2
<1> QED  BY <1>1, <1>2, <1>4 DEF Atomic!Return, Atomic!Doing

(* detect answers from the profiles that its first sample finds; before    *)
(* and after that one it changes nothing.                                  *)
LEMMA DetectTakesEffect ==
  ASSUME IInv, NEW t \in Thread, DetectBegin(t) \/ Sample(t)
  PROVE  Atomic!Detect(t) \/ UNCHANGED <<GramsInPlace, CallInProgress, crashed>>
<1>1. /\ frame[t].at \in {"detect", "sample"} /\ ~crashed
      /\ UNCHANGED <<globalPtr, heap, crashed>>
      /\ frame \in [Thread -> Frame] /\ frame[t] \in Frame
  BY DEF DetectBegin, Sample, At, IInv, TypeOK
<1>2. PICK g : /\ frame' = [frame EXCEPT ![t] = g]
               /\ g.at = "sample" /\ g.source = frame[t].source
               /\ DetectBegin(t) => g.sampled = 0 /\ g.usedAs = frame[t].usedAs
               /\ Sample(t) => /\ g.sampled = frame[t].sampled + 1
                               /\ g.usedAs = IF frame[t].usedAs = NoSample
                                             THEN heap[frame[t].profiles] ELSE frame[t].usedAs
  <2>1. CASE DetectBegin(t)
    <3> DEFINE g == [frame[t] EXCEPT !.at = "sample", !.profiles = globalPtr]
    <3>1. frame' = [frame EXCEPT ![t] = g]
      BY <1>1, <2>1 DEF DetectBegin
    <3>2. frame[t].sampled = 0 /\ ~Sample(t)
      BY <2>1 DEF DetectBegin, Sample, At, IInv, SamplesOfCurrent
    <3>3. /\ g.at = "sample" /\ g.source = frame[t].source
          /\ g.sampled = frame[t].sampled /\ g.usedAs = frame[t].usedAs
      BY <1>1 DEF Frame
    <3> HIDE DEF g
    <3> QED  BY <3>1, <3>2, <3>3
  <2>2. CASE Sample(t)
    <3> DEFINE used == IF frame[t].usedAs = NoSample THEN heap[frame[t].profiles]
                       ELSE frame[t].usedAs
               n == frame[t].sampled + 1
               g == [frame[t] EXCEPT !.sampled = n, !.usedAs = used]
    <3>1. frame' = [frame EXCEPT ![t] = g] /\ frame[t].at = "sample" /\ ~DetectBegin(t)
      BY <1>1, <2>2 DEF Sample, DetectBegin, At
    <3>2. frame[t].usedAs = NoSample => used = heap[frame[t].profiles]
      OBVIOUS
    <3> SUFFICES /\ frame' = [frame EXCEPT ![t] = g]
                 /\ g.at = "sample" /\ g.source = frame[t].source
                 /\ g.sampled = n /\ g.usedAs = used
      BY <3>1
    <3> HIDE DEF used, n
    <3> QED  BY <1>1, <3>1 DEF Frame
  <2> QED  BY <1>1, <2>1, <2>2
<1>3. CallInProgress' = [CallInProgress EXCEPT ![t] = CallOf(g)]
  BY <1>1, <1>2, OneCallChanges
<1>4. CallInProgress[t] = CallOf(frame[t])
  BY CallOfThread
<1>5. GramsInPlace' = GramsInPlace
  <2>1. \A s \in Thread : frame[s].at # "fill"
    BY <1>1, NobodyLoads
  <2>2. \A s \in Thread : frame'[s].at # "fill"
    BY <1>1, <1>2, <2>1
  <2> QED  BY <1>1, <2>1, <2>2 DEF GramsInPlace, Freed
<1>6. ASSUME CallOf(g) = CallOf(frame[t]) PROVE CallInProgress' = CallInProgress
  BY <1>3, <1>4, <1>6 DEF CallInProgress
<1>7. CASE DetectBegin(t)
  <2>1. frame[t].at = "detect"
    BY <1>7 DEF DetectBegin, At
  <2>2. CallOf(g) = CallOf(frame[t])
    BY <1>2, <1>7, <2>1 DEF CallOf, Stage
  <2> QED  BY <1>1, <1>5, <1>6, <2>2
<1>8. CASE Sample(t)
  <2>1. /\ frame[t].at = "sample" /\ frame[t].profiles \in Alive
        /\ frame[t].profiles = globalPtr /\ g.sampled = frame[t].sampled + 1
    BY <1>2, <1>8 DEF Sample, At, IInv, SamplesOfCurrent
  <2>2. CASE frame[t].sampled = 0
    <3>1. globalPtr \in Address /\ globalPtr # Null /\ heap[globalPtr] # Freed
      BY <2>1, ProfilesAssumption DEF Alive
    <3>2. GramsInPlace = heap[globalPtr] /\ heap[globalPtr] # Atomic!Absent
      BY <2>1, <3>1, NobodyLoads DEF Freed, Atomic!Absent
    <3>3. frame[t].usedAs = NoSample
      BY <2>2 DEF IInv, SamplesOfCurrent
    <3>4. g.usedAs = heap[globalPtr] /\ g.sampled = 1
      BY <1>2, <1>8, <2>1, <2>2, <3>3
    <3>5. Stage(frame[t]) = "detect" /\ Stage(g) = "return"
      BY <1>2, <2>1, <2>2, <3>4 DEF Stage
    <3>6. CallOf(g) = [doing |-> "return", with |-> CallInProgress[t].with,
                           used |-> heap[globalPtr]]
      BY <1>2, <3>4, <3>5, CallOfThread DEF CallOf
    <3>7. CallInProgress[t].doing = "detect"
      BY <3>5, CallOfThread
    <3> QED  BY <1>1, <1>3, <1>4, <1>5, <3>2, <3>6, <3>7
             DEF Atomic!Detect, Atomic!Done, Atomic!Doing
  <2>3. CASE frame[t].sampled # 0
    <3>1. frame[t].sampled \in 1 .. MaxSamples /\ Stage(frame[t]) = "return"
      BY <1>1, <2>1, <2>3, ProfilesAssumption DEF Frame, Stage
    <3>2. heap[frame[t].profiles] = frame[t].usedAs
      BY <3>1 DEF IInv, SamplesOfCurrent
    <3>3. g.usedAs = frame[t].usedAs /\ g.sampled # 0
      BY <1>2, <1>8, <2>1, <3>1, <3>2
    <3>4. CallOf(g) = CallOf(frame[t])
      BY <1>2, <3>1, <3>3 DEF CallOf, Stage
    <3> QED  BY <1>1, <1>5, <1>6, <3>4
  <2> QED  BY <2>2, <2>3
<1> QED  BY <1>7, <1>8, <1>1

(* detect crashes at its first sample, when there are no profiles. *)
LEMMA CrashIsAbstract ==
  ASSUME IInv, IInv', NEW t \in Thread, SampleCrashes(t)
  PROVE  Atomic!Crash(t)
<1>1. /\ frame[t].at = "sample" /\ ~crashed /\ frame[t].profiles \notin Alive
      /\ crashed' = TRUE /\ UNCHANGED <<globalPtr, heap, frame>>
      /\ frame[t].profiles = globalPtr
  BY DEF SampleCrashes, At, IInv, SamplesOfCurrent
<1>2. globalPtr = Null
  <2>1. Changing = {}
    BY <1>1, Alone DEF Changing
  <2> QED  BY <1>1, <2>1 DEF IInv, PointerFollowsPhase, Alive, TypeOK
<1>3. frame[t].sampled = 0
  BY <1>1, <1>2 DEF IInv, SamplesOfCurrent, TypeOK, Frame
<1>4. CallInProgress[t].doing = "detect"
  BY <1>1, <1>3, CallOfThread DEF Stage
<1>5. GramsInPlace = Atomic!Absent
  BY <1>2 DEF GramsInPlace, Freed, Atomic!Absent
<1>6. UNCHANGED <<GramsInPlace, CallInProgress>>
  BY <1>1 DEF GramsInPlace, CallInProgress, Freed
<1> QED  BY <1>1, <1>4, <1>5, <1>6 DEF Atomic!Crash, Atomic!Doing

(* The threads, their lock and the steps of their calls implement atomic   *)
(* calls: every load, destroy and detection takes effect at one moment,    *)
(* for any number of threads, addresses, documents and samples.            *)
THEOREM Linearizable == Spec => ImplementsAtomicCalls
<1>1. Init => Atomic!Init
  <2> SUFFICES ASSUME Init PROVE Atomic!Init
    OBVIOUS
  <2>1. GramsInPlace = Atomic!Absent
    BY DEF Init, GramsInPlace, Freed, Atomic!Absent
  <2>2. CallInProgress = [t \in Thread |-> Atomic!Idle]
    BY InPythonIsIdle DEF Init, CallInProgress
  <2> QED  BY <2>1, <2>2 DEF Init, Atomic!Init
<1>2. IInv /\ IInv' /\ Loading /\ [Next]_vars => [Atomic!Next]_Atomic!vars
  <2> SUFFICES ASSUME IInv, IInv', Loading, [Next]_vars
               PROVE  Atomic!Next \/ UNCHANGED Atomic!vars
    OBVIOUS
  <2>1. CASE UNCHANGED vars
    BY <2>1 DEF vars, Atomic!vars, GramsInPlace, CallInProgress, Freed
  <2>2. ASSUME NEW t \in Thread, Call(t) PROVE Atomic!Next
    BY <2>2, CallBegins
  <2>3. ASSUME NEW t \in Thread, Run(t) PROVE Atomic!Next \/ UNCHANGED Atomic!vars
    <3>1. CASE InitSkip(t) \/ LoadThrows(t) \/ LoadEnds(t)
      BY <3>1, InitTakesEffect DEF Atomic!Next
    <3>2. CASE InitNew(t) \/ InsertGram(t)
      BY <3>2, LoadStutters DEF Atomic!vars
    <3>3. CASE DestroyNothing(t) \/ DestroyDelete(t)
      BY <3>3, DestroyTakesEffect DEF Atomic!Next
    <3>4. CASE DestroyClear(t) \/ DetectEnds(t)
      BY <3>4, EffectReturns DEF Atomic!Next
    <3>5. CASE DetectBegin(t) \/ Sample(t)
      BY <3>5, DetectTakesEffect DEF Atomic!Next, Atomic!vars
    <3>6. CASE SampleCrashes(t)
      BY <3>6, CrashIsAbstract DEF Atomic!Next
    <3> QED  BY <2>3, <3>1, <3>2, <3>3, <3>4, <3>5, <3>6 DEF Run
  <2> QED  BY <2>1, <2>2, <2>3 DEF Next
<1> QED  BY <1>1, <1>2, LoadInvariance, PTL DEF Spec, Atomic!Spec, ImplementsAtomicCalls

=============================================================================
