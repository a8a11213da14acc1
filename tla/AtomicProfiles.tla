--------------------------- MODULE AtomicProfiles ----------------------------
(***************************************************************************)
(* What the Python interface promises of its process-wide profiles: every  *)
(* call takes effect at one moment between its start and its return.       *)
(* init loads a document if there are no profiles, destroy removes them,   *)
(* detect answers from the profiles that are there, and crashes if there   *)
(* are none.  There is no lock and no pointer, and a load is one step.     *)
(***************************************************************************)
EXTENDS Naturals

CONSTANTS Thread,      \* the callers
          Null,        \* "no document"
          Document,    \* what init can be called with
          GramCount,   \* n-grams in complete profiles
          Loaded       \* [Document -> the n-grams that init gets from it]

VARIABLES grams,       \* n-grams in the profiles, or Absent
          calls,       \* [Thread -> the call under way]
          crashed

vars == <<grams, calls, crashed>>

Absent == GramCount + 1
NoAnswer == GramCount + 2

(* doing: the call, or "return" once it has taken effect; with: the        *)
(* argument of init; used: the profiles that detect answers from.          *)
Idle == [doing |-> "nothing", with |-> Null, used |-> NoAnswer]

Init == /\ grams = Absent /\ calls = [t \in Thread |-> Idle] /\ crashed = FALSE

Doing(t, call) == ~crashed /\ calls[t].doing = call

Begin(t, call, document) ==
  /\ Doing(t, "nothing")
  /\ calls' = [calls EXCEPT ![t] = [doing |-> call, with |-> document, used |-> NoAnswer]]
  /\ UNCHANGED <<grams, crashed>>

Ends(t) == calls' = [calls EXCEPT ![t] = Idle]

(* The call has taken effect, and returns now or later. *)
Done(t, used) == \/ Ends(t)
                 \/ calls' = [calls EXCEPT ![t] = [doing |-> "return", with |-> calls[t].with,
                                                     used |-> used]]

Initialise(t) == /\ Doing(t, "init")
                 /\ grams' = IF grams = Absent THEN Loaded[calls[t].with] ELSE grams
                 /\ Done(t, NoAnswer)
                 /\ UNCHANGED crashed

Destroy(t) == /\ Doing(t, "destroy")
              /\ grams' = Absent
              /\ Done(t, NoAnswer)
              /\ UNCHANGED crashed

Detect(t) == /\ Doing(t, "detect") /\ grams # Absent
             /\ Done(t, grams)
             /\ UNCHANGED <<grams, crashed>>

Crash(t) == /\ Doing(t, "detect") /\ grams = Absent
            /\ crashed' = TRUE
            /\ UNCHANGED <<grams, calls>>

Return(t) == /\ Doing(t, "return")
             /\ Ends(t)
             /\ UNCHANGED <<grams, crashed>>

Next == \E t \in Thread :
          \/ \E document \in Document : Begin(t, "init", document)
          \/ Begin(t, "destroy", Null) \/ Begin(t, "detect", Null)
          \/ Initialise(t) \/ Destroy(t) \/ Detect(t) \/ Crash(t) \/ Return(t)

Spec == Init /\ [][Next]_vars

=============================================================================
