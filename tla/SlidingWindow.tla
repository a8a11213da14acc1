---------------------------- MODULE SlidingWindow ----------------------------
(***************************************************************************)
(* What util::RollingQueue promises: a window over the last Capacity       *)
(* values that were pushed, oldest first, of which any element may be      *)
(* overwritten through the reference that at() returns.                    *)
(***************************************************************************)
EXTENDS Naturals

CONSTANTS Capacity,  \* how many values the window holds
          Value      \* what a position of the window can hold

VARIABLE window

Position == 0 .. Capacity - 1

TypeOK == window \in [Position -> Value]

(* Nothing is promised of what the window holds before it is filled. *)
Init == window \in [Position -> Value]

Slide(v) ==
  window' = [i \in Position |-> IF i = Capacity - 1 THEN v ELSE window[i + 1]]

Overwrite(i, v) == window' = [window EXCEPT ![i] = v]

Next == \E v \in Value : \/ Slide(v)
                         \/ \E i \in Position : Overwrite(i, v)

Spec == Init /\ [][Next]_window

=============================================================================
