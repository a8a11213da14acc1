--------------------------- MODULE GlobalProfiles ----------------------------
(***************************************************************************)
(* The process-wide language profiles behind the Python interface:         *)
(* language_detection/GlobalLanguageProfiles.cpp, LanguageProfiles.cpp and *)
(* the calls of python_interface.cpp that initialise, use and destroy them.*)
(*                                                                         *)
(* Python threads call the functions; pybind11 holds the interpreter lock  *)
(* (gil) for the whole of a call, exceptions included.  Every step of the  *)
(* C++ code is an action of its own, so that the lock, and not the model,  *)
(* is what serialises calls.  Object addresses are reused after delete.    *)
(***************************************************************************)
EXTENDS Naturals, FiniteSets

CONSTANTS Thread,      \* Python threads
          Address,     \* where a LanguageProfiles object can live
          Null,        \* nullptr, and "no thread"
          Path,        \* strings passed as file names
          Json,        \* strings passed as JSON documents
          GramCount,   \* n-grams in a complete profile document
          Readable,    \* n-grams read before the load of a path throws
          MaxSamples   \* bound on the n-grams sampled by one detect()

ASSUME ProfilesAssumption ==
  /\ GramCount \in Nat \ {0} /\ MaxSamples \in Nat \ {0}
  /\ Null \notin Thread \cup Address
  /\ Path \cap Json = {} /\ Readable \in [Path -> 0 .. GramCount]

VARIABLES gil, globalPtr,
          heap,      \* [Address -> n-grams inserted, or Freed]
          frame,     \* [Thread -> what the thread's current call keeps]
          crashed,   \* a null or dangling pointer was dereferenced
          broken     \* history: the object in place comes from a failed load

vars == <<gil, globalPtr, heap, frame, crashed, broken>>

Freed == GramCount + 1
NoSample == GramCount + 2

(* at: the step the thread runs next; source: the argument of initFromFile;*)
(* profiles: the object the thread was handed, target of initFromJson or   *)
(* profiles_ of the DetectionRunner; sampled: n-grams sampled; usedAs:     *)
(* history, the number of n-grams its first sample had available.          *)
InPython == [at |-> "python", source |-> Null, profiles |-> Null, sampled |-> 0,
             usedAs |-> NoSample]

Frame == [at : {"python", "init", "fill", "destroy", "clear", "detect", "sample"},
          source : Path \cup Json \cup {Null}, profiles : Address \cup {Null},
          sampled : 0 .. MaxSamples, usedAs : 0 .. NoSample]

TypeOK ==
  /\ gil \in Thread \cup {Null} /\ globalPtr \in Address \cup {Null}
  /\ heap \in [Address -> 0 .. Freed]
  /\ frame \in [Thread -> Frame]
  /\ crashed \in BOOLEAN /\ broken \in BOOLEAN

Init == /\ gil = Null /\ globalPtr = Null
        /\ heap = [a \in Address |-> Freed]
        /\ frame = [t \in Thread |-> InPython]
        /\ crashed = FALSE /\ broken = FALSE

-----------------------------------------------------------------------------
(* Variant: the lock is released around the C++ function. *)
EnterUnlocked(t, entry) == /\ ~crashed /\ frame[t].at = "python"
                           /\ gil' = t
                           /\ frame' = [frame EXCEPT ![t] = entry]

(* A thread runs Python code only while it holds the lock, and keeps it    *)
(* from there to the return of the C++ function.                           *)
Enter(t, entry) == /\ ~crashed /\ frame[t].at = "python" /\ gil = Null
                   /\ gil' = t
                   /\ frame' = [frame EXCEPT ![t] = entry]

At(t, label) == ~crashed /\ frame[t].at = label

(* Variant: the lock is not released. *)
LeaveLocked(t) == frame' = [frame EXCEPT ![t] = InPython] /\ UNCHANGED gil

(* Return from the call, or an exception that leaves it. *)
Leave(t) == frame' = [frame EXCEPT ![t] = InPython] /\ gil' = Null

Goto(t, label) == frame' = [frame EXCEPT ![t].at = label] /\ UNCHANGED gil

(* init_global_language_profiles_from_file, and ..._from_json, which hands *)
(* its JSON document to initFromFile as the name of a file.                *)
CallInit(t, arg) == /\ Enter(t, [InPython EXCEPT !.at = "init", !.source = arg])
                    /\ UNCHANGED <<globalPtr, heap, crashed, broken>>

CallDestroy(t) == /\ Enter(t, [InPython EXCEPT !.at = "destroy"])
                  /\ UNCHANGED <<globalPtr, heap, crashed, broken>>

CallDetect(t) == /\ Enter(t, [InPython EXCEPT !.at = "detect"])
                 /\ UNCHANGED <<globalPtr, heap, crashed, broken>>

-----------------------------------------------------------------------------
(* Variant: profiles of a failed load do not count. *)
CompletelyInitialized == globalPtr # Null /\ ~broken
IsInitialized == globalPtr # Null

(* No document can be opened under the name of its own text. *)
Limit(arg) == IF arg \in Path THEN Readable[arg] ELSE 0

InitSkip(t) == /\ At(t, "init") /\ IsInitialized
               /\ Leave(t)
               /\ UNCHANGED <<globalPtr, heap, crashed, broken>>

(* The global pointer is set before anything is loaded. *)
InitNew(t) == /\ At(t, "init") /\ ~IsInitialized
              /\ \E a \in Address :
                   /\ heap[a] = Freed
                   /\ globalPtr' = a
                   /\ heap' = [heap EXCEPT ![a] = 0]
                   /\ frame' = [frame EXCEPT ![t].at = "fill", ![t].profiles = a]
              /\ broken' = FALSE
              /\ UNCHANGED <<gil, crashed>>

Inserted(t) == heap[frame[t].profiles]

(* Variant: insertion does not stop at the end of the document. *)
InsertUnbounded(t) == /\ At(t, "fill")
                      /\ heap' = [heap EXCEPT ![frame[t].profiles] = @ + 1]
                      /\ UNCHANGED <<gil, globalPtr, frame, crashed, broken>>

InsertGram(t) == /\ At(t, "fill") /\ Inserted(t) < Limit(frame[t].source)
                 /\ heap' = [heap EXCEPT ![frame[t].profiles] = @ + 1]
                 /\ UNCHANGED <<gil, globalPtr, frame, crashed, broken>>

(* A missing file, a document that does not parse, or one that breaks off: *)
(* what was inserted stays, and so does the pointer.                       *)
LoadThrows(t) == /\ At(t, "fill")
                 /\ Inserted(t) = Limit(frame[t].source) /\ Inserted(t) < GramCount
                 /\ broken' = TRUE
                 /\ Leave(t)
                 /\ UNCHANGED <<globalPtr, heap, crashed>>

(* Variant: the last n-gram is left out. *)
LoadEndsEarly(t) == /\ At(t, "fill") /\ Inserted(t) + 1 = GramCount
                    /\ Leave(t)
                    /\ UNCHANGED <<globalPtr, heap, crashed, broken>>

LoadEnds(t) == /\ At(t, "fill") /\ Inserted(t) = GramCount
               /\ Leave(t)
               /\ UNCHANGED <<globalPtr, heap, crashed, broken>>

-----------------------------------------------------------------------------
DestroyNothing(t) == /\ At(t, "destroy") /\ ~IsInitialized
                     /\ Leave(t)
                     /\ UNCHANGED <<globalPtr, heap, crashed, broken>>

DestroyDelete(t) == /\ At(t, "destroy") /\ IsInitialized
                    /\ heap' = [heap EXCEPT ![globalPtr] = Freed]
                    /\ Goto(t, "clear")
                    /\ UNCHANGED <<globalPtr, crashed, broken>>

(* Variant: the pointer is not set to null. *)
DestroyKeepsPointer(t) == /\ At(t, "clear")
                          /\ broken' = FALSE
                          /\ Leave(t)
                          /\ UNCHANGED <<globalPtr, heap, crashed>>

DestroyClear(t) == /\ At(t, "clear")
                   /\ globalPtr' = Null /\ broken' = FALSE
                   /\ Leave(t)
                   /\ UNCHANGED <<heap, crashed>>

-----------------------------------------------------------------------------
(* LanguageDetector::detect takes the pointer without a check and hands it *)
(* to the runner; the runner dereferences it for every sampled n-gram.     *)
DetectBegin(t) ==
  /\ At(t, "detect")
  /\ frame' = [frame EXCEPT ![t].at = "sample", ![t].profiles = globalPtr]
  /\ UNCHANGED <<gil, globalPtr, heap, crashed, broken>>

Alive == {a \in Address : heap[a] # Freed}

Sample(t) ==
  /\ At(t, "sample") /\ frame[t].sampled < MaxSamples /\ frame[t].profiles \in Alive
  /\ frame' = [frame EXCEPT
                 ![t].sampled = @ + 1,
                 ![t].usedAs = IF @ = NoSample THEN heap[frame[t].profiles] ELSE @]
  /\ UNCHANGED <<gil, globalPtr, heap, crashed, broken>>

SampleCrashes(t) ==
  /\ At(t, "sample") /\ frame[t].sampled < MaxSamples /\ frame[t].profiles \notin Alive
  /\ crashed' = TRUE
  /\ UNCHANGED <<gil, globalPtr, heap, frame, broken>>

(* Every trial takes at least one sample; how many depends on convergence. *)
DetectEnds(t) == /\ At(t, "sample") /\ frame[t].sampled > 0
                 /\ Leave(t)
                 /\ UNCHANGED <<globalPtr, heap, crashed, broken>>

-----------------------------------------------------------------------------
Call(t) == (\E arg \in Path \cup Json : CallInit(t, arg)) \/ CallDestroy(t) \/ CallDetect(t)

Run(t) == \/ InitSkip(t) \/ InitNew(t) \/ InsertGram(t) \/ LoadThrows(t) \/ LoadEnds(t)
          \/ DestroyNothing(t) \/ DestroyDelete(t) \/ DestroyClear(t)
          \/ DetectBegin(t) \/ Sample(t) \/ SampleCrashes(t) \/ DetectEnds(t)

Next == \E t \in Thread : Call(t) \/ Run(t)

(* A thread inside a call keeps running; nobody has to make calls. *)
Spec == Init /\ [][Next]_vars /\ \A t \in Thread : WF_vars(Run(t))

-----------------------------------------------------------------------------
(* A running detect() uses one object, alive and unchanged, from its first *)
(* sample to its last: no other thread's init or destroy comes in between. *)
DetectUsesOneSnapshot ==
  \A t \in Thread : frame[t].sampled > 0 => heap[frame[t].profiles] = frame[t].usedAs

(* The one way to crash is detect() while the profiles are not initialised *)
(* (null, and never a dangling pointer).                                   *)
CrashOnlyOnNull ==
  crashed => \E t \in Thread : frame[t].at = "sample" /\ frame[t].profiles = Null

(* At most the current object is alive: repeated init calls leak nothing.  *)
NoLeak == Alive \subseteq {globalPtr}

(* Between calls, the profiles in place are complete unless the load that  *)
(* put them there threw.                                                   *)
IncompleteOnlyAfterFailedLoad ==
  gil = Null /\ IsInitialized => (broken <=> heap[globalPtr] < GramCount)

(* After a failed load no init call repairs the profiles; destroy does.    *)
OnlyDestroyRepairs ==
  [][broken /\ ~broken' => \E t \in Thread : DestroyClear(t)]_vars

(* Every call returns, unless the process crashes. *)
CallsReturn == \A t \in Thread : (gil = t) ~> (gil # t \/ crashed)

(* "initialize global language detection profiles from a raw JSON string": *)
(* init_..._from_json with a document leaves complete profiles.            *)
JsonInitialises == [][\A t \in Thread : LoadThrows(t) => frame[t].source \notin Json]_vars

-----------------------------------------------------------------------------
(* The abstract state.  While a document is being loaded there are no      *)
(* profiles yet; between delete and the null pointer there are none left.  *)
GramsInPlace == IF globalPtr = Null \/ \E t \in Thread : frame[t].at = "fill"
                THEN Freed ELSE heap[globalPtr]

Stage(f) == CASE f.at = "python" -> "nothing"
              [] f.at \in {"init", "fill"} -> "init"
              [] f.at = "destroy" -> "destroy"
              [] f.at = "detect" \/ (f.at = "sample" /\ f.sampled = 0) -> "detect"
              [] f.at = "clear" \/ (f.at = "sample" /\ f.sampled # 0) -> "return"

CallOf(f) == [doing |-> Stage(f), with |-> f.source, used |-> f.usedAs]

CallInProgress == [t \in Thread |-> CallOf(frame[t])]

Atomic == INSTANCE AtomicProfiles WITH
            grams <- GramsInPlace, calls <- CallInProgress,
            Document <- Path \cup Json,
            Loaded <- [arg \in Path \cup Json |-> Limit(arg)]

(* The calls of all threads are linearizable: each takes effect at one     *)
(* moment between its start and its return, the whole load of a document   *)
(* and all the samples of a detection included.                            *)
ImplementsAtomicCalls == Atomic!Spec

=============================================================================
