---------------------------- MODULE RollingQueue -----------------------------
(***************************************************************************)
(* util/RollingQueue.h: a ring of Capacity + 1 slots.  front is the slot   *)
(* of the oldest value of the window, back the slot the next push writes,  *)
(* which is never part of the window.                                      *)
(*                                                                         *)
(* The queue is one record, so that a component that owns a queue can push *)
(* several times within one of its own actions.  The container is a        *)
(* util::SmallVector whose in-place array is at least Capacity + 1 long.   *)
(***************************************************************************)
EXTENDS Naturals

CONSTANTS Capacity,    \* capacity_
          Data,        \* the values the client pushes
          Junk,        \* content of a slot nobody has written
          DefaultVal   \* the constructor's defaultVal

ASSUME QueueAssumption == /\ Capacity \in Nat \ {0}
                          /\ DefaultVal \in Nat

VARIABLE queue

Slot == 0 .. Capacity
Value == Data \cup {Junk, Capacity + 1}

TypeOK == queue \in [slots : [Slot -> Value], front : Slot, back : Slot]

-----------------------------------------------------------------------------
(* The constructor swaps the arguments of insert(pos, count, value): the   *)
(* container receives defaultVal copies of capacity + 1, and the slots     *)
(* after those stay as the allocation left them.                           *)
InitialSlots == [i \in Slot |-> IF i < DefaultVal THEN Capacity + 1 ELSE Junk]

NewQueue == [slots |-> InitialSlots, front |-> 0, back |-> Capacity]

(* A cursor returns to slot 0 when it has passed the last slot. *)
Advance(cursor) == IF cursor + 1 > Capacity THEN 0 ELSE cursor + 1

Size(q) == IF q.back < q.front THEN (Capacity + 1 - q.front) + q.back
                               ELSE q.back - q.front

GetEffectiveIndex(q, idx) ==
  IF idx + q.front > Capacity THEN idx + q.front - (Capacity + 1)
                              ELSE idx + q.front

(* The guard of at() is idx <= capacity_, so idx = Capacity is admitted. *)
At(q, idx) == q.slots[GetEffectiveIndex(q, idx)]

(* Variant: front stays. *)
NoEvictionPush(q, v) ==
  [slots |-> [q.slots EXCEPT ![q.back] = v],
   front |-> q.front, back |-> Advance(q.back)]

PushTo(q, v) ==
  [slots |-> [q.slots EXCEPT ![q.back] = v],
   front |-> Advance(q.front), back |-> Advance(q.back)]

-----------------------------------------------------------------------------
Init == queue = NewQueue

Push(v) == queue' = PushTo(queue, v)

(* Variant: idx is used as a slot. *)
AssignRaw(idx, v) == queue' = [queue EXCEPT !.slots[idx] = v]

(* The client stores through the T& of at(idx); front() and back() return  *)
(* the references at(0) and at(Capacity).                                  *)
Assign(idx, v) ==
  queue' = [queue EXCEPT !.slots[GetEffectiveIndex(queue, idx)] = v]

Next == \E v \in Data : \/ Push(v)
                        \/ \E idx \in Slot : Assign(idx, v)

Spec == Init /\ [][Next]_queue

-----------------------------------------------------------------------------
(* The values a client reads with at(0), ..., at(Capacity - 1). *)
Window == [i \in 0 .. Capacity - 1 |-> At(queue, i)]

Promise == INSTANCE SlidingWindow WITH window <- Window

(* A push slides the window by the pushed value; a store through at(idx)   *)
(* overwrites position idx, and none if idx is Capacity.                   *)
EachCallAsPromised ==
  \A v \in Data :
    /\ Push(v) => Promise!Slide(v)
    /\ \A idx \in Slot :
         Assign(idx, v) => IF idx = Capacity THEN UNCHANGED Window
                                             ELSE Promise!Overwrite(idx, v)

(* Every push and every store through a reference moves the visible window *)
(* exactly as a sliding window moves, and the call that was made is the    *)
(* one that is seen: wrap-around never reorders, loses or repeats a value  *)
(* (RollingQueue::push, getEffectiveIndex).                                *)
ImplementsSlidingWindow == Promise!Spec /\ [][EachCallAsPromised]_queue

(* size() is the capacity in every state, before the first push too, and   *)
(* the slot that the next push overwrites is the one just outside the      *)
(* window, whichever cursor has wrapped.                                   *)
CursorsOneSlotApart ==
  /\ TypeOK
  /\ Size(queue) = Capacity
  /\ queue.back = GetEffectiveIndex(queue, Capacity)

(* The off-by-one of the guard of at(): after a push, at(Capacity) reads   *)
(* the value that this push evicted, not one of the window.                *)
EvictedValueStillReadable ==
  [][(\E v \in Data : Push(v)) => At(queue', Capacity) = At(queue, 0)]_queue

=============================================================================
