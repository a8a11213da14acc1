---------------------------- MODULE SmallVector ------------------------------
(***************************************************************************)
(* util/SmallVector.h: a vector whose first SmallSize elements are in an   *)
(* array of the object, the others in a std::vector on the heap, which     *)
(* UniqueNullablePtr owns.  Several objects are copied and moved between.  *)
(***************************************************************************)
EXTENDS Naturals, Sequences

CONSTANTS Object,     \* SmallVector objects
          Address,    \* where an overflow vector can live
          Data,       \* elements pushed
          SmallSize,
          MaxSize,    \* bound on the size of a vector and of an overflow vector
          Junk,       \* an element of the array that nobody has written
          Null

ASSUME SmallVectorAssumption ==
  /\ SmallSize \in Nat \ {0} /\ MaxSize \in Nat
  /\ Junk \notin Data /\ Null \notin Address \cup Data \cup {Junk}
  /\ Null \notin Seq(Data)

VARIABLES
  arrayItems,   \* [Object -> the in-place array]
  vectorItems,  \* [Object -> address of the overflow vector, or Null]
  lastIndex,    \* [Object -> size]
  heap,         \* [Address -> overflow vector, or Null where none is alive]
  contents      \* history: what a plain vector would hold after the calls

vars == <<arrayItems, vectorItems, lastIndex, heap, contents>>

Index == 0 .. SmallSize - 1
Element == Data \cup {Junk}
Fresh == [i \in Index |-> Junk]

TypeOK ==
  /\ arrayItems \in [Object -> [Index -> Element]]
  /\ vectorItems \in [Object -> Address \cup {Null}]
  /\ lastIndex \in [Object -> 0 .. MaxSize]
  /\ \A a \in Address : heap[a] = Null \/ heap[a] \in Seq(Data)
  /\ contents \in [Object -> Seq(Data)]

Init == /\ arrayItems = [v \in Object |-> Fresh]
        /\ vectorItems = [v \in Object |-> Null]
        /\ lastIndex = [v \in Object |-> 0]
        /\ heap = [a \in Address |-> Null]
        /\ contents = [v \in Object |-> <<>>]

IsOverflown(v) == lastIndex[v] > SmallSize
Free == {a \in Address : heap[a] = Null}

At(v, idx) == IF idx < SmallSize THEN arrayItems[v][idx]
                                 ELSE heap[vectorItems[v]][idx - SmallSize + 1]

(* What a loop from begin() to end() reads, and copyToVector() copies.     *)
Items(v) == [i \in 1 .. lastIndex[v] |-> At(v, i - 1)]

(* back() takes lastIndex_ for the index of the last element, of which it  *)
(* is one more.                                                            *)
Back(v) == IF lastIndex[v] < SmallSize THEN arrayItems[v][SmallSize - 1]
           ELSE IF vectorItems[v] = Null \/ heap[vectorItems[v]] = <<>> THEN Null
           ELSE heap[vectorItems[v]][Len(heap[vectorItems[v]])]

-----------------------------------------------------------------------------
(* doPushBack: the overflow vector is made when first needed, and kept.    *)
PushInArray(v, x) ==
  /\ lastIndex[v] < SmallSize
  /\ arrayItems' = [arrayItems EXCEPT ![v][lastIndex[v]] = x]
  /\ UNCHANGED <<vectorItems, heap>>

PushOverflow(v, x) ==
  /\ lastIndex[v] >= SmallSize
  /\ \E a \in Address :
       /\ \/ a = vectorItems[v] /\ Len(heap[a]) < MaxSize
          \/ vectorItems[v] = Null /\ a \in Free
       /\ vectorItems' = [vectorItems EXCEPT ![v] = a]
       /\ heap' = [heap EXCEPT ![a] = IF @ = Null THEN <<x>> ELSE Append(@, x)]
  /\ UNCHANGED arrayItems

PushBack(v, x) ==
  /\ lastIndex[v] < MaxSize
  /\ PushInArray(v, x) \/ PushOverflow(v, x)
  /\ lastIndex' = [lastIndex EXCEPT ![v] = @ + 1]
  /\ contents' = [contents EXCEPT ![v] = Append(@, x)]

(* Variant: the overflow vector is not popped. *)
PopSizeOnly(v) ==
  /\ lastIndex[v] > 0
  /\ lastIndex' = [lastIndex EXCEPT ![v] = @ - 1]
  /\ contents' = [contents EXCEPT ![v] = SubSeq(@, 1, Len(@) - 1)]
  /\ UNCHANGED <<arrayItems, vectorItems, heap>>

(* Not to be called on an empty vector: lastIndex_ would wrap around.      *)
PopBack(v) ==
  /\ lastIndex[v] > 0
  /\ heap' = IF IsOverflown(v)
             THEN [heap EXCEPT ![vectorItems[v]] = SubSeq(@, 1, Len(@) - 1)] ELSE heap
  /\ lastIndex' = [lastIndex EXCEPT ![v] = @ - 1]
  /\ contents' = [contents EXCEPT ![v] = SubSeq(@, 1, Len(@) - 1)]
  /\ UNCHANGED <<arrayItems, vectorItems>>

(* Store through the reference of at(), operator[] or an iterator.         *)
(* insert(pos, x) in front of end() does the same: it replaces the element *)
(* at pos; at end() it is a push_back.                                     *)
Assign(v, idx, x) ==
  /\ idx < lastIndex[v]
  /\ IF idx < SmallSize
     THEN arrayItems' = [arrayItems EXCEPT ![v][idx] = x] /\ UNCHANGED heap
     ELSE heap' = [heap EXCEPT ![vectorItems[v]][idx - SmallSize + 1] = x] /\ UNCHANGED arrayItems
  /\ contents' = [contents EXCEPT ![v][idx + 1] = x]
  /\ UNCHANGED <<vectorItems, lastIndex>>

-----------------------------------------------------------------------------
(* Variant: the pointer is copied. *)
CopyPointer(v, w) ==
  /\ v # w
  /\ vectorItems' = IF IsOverflown(w) THEN [vectorItems EXCEPT ![v] = vectorItems[w]]
                                      ELSE vectorItems
  /\ arrayItems' = [arrayItems EXCEPT ![v] = arrayItems[w]]
  /\ lastIndex' = [lastIndex EXCEPT ![v] = lastIndex[w]]
  /\ contents' = [contents EXCEPT ![v] = contents[w]]
  /\ UNCHANGED heap

(* v = w.  The overflow vector is copied if w needs one; then v's own is   *)
(* not deleted.  If w needs none, v keeps its own with what is in it.      *)
CopyAssign(v, w) ==
  /\ v # w
  /\ IF IsOverflown(w)
     THEN \E a \in Free : /\ heap' = [heap EXCEPT ![a] = heap[vectorItems[w]]]
                          /\ vectorItems' = [vectorItems EXCEPT ![v] = a]
     ELSE UNCHANGED <<heap, vectorItems>>
  /\ arrayItems' = [arrayItems EXCEPT ![v] = arrayItems[w]]
  /\ lastIndex' = [lastIndex EXCEPT ![v] = lastIndex[w]]
  /\ contents' = [contents EXCEPT ![v] = contents[w]]

(* Variant: the object moved from keeps its size. *)
MoveKeepingSize(v, w) ==
  /\ v # w
  /\ arrayItems' = [arrayItems EXCEPT ![v] = arrayItems[w]]
  /\ vectorItems' = [vectorItems EXCEPT ![v] = vectorItems[w], ![w] = Null]
  /\ lastIndex' = [lastIndex EXCEPT ![v] = lastIndex[w]]
  /\ contents' = [contents EXCEPT ![v] = contents[w], ![w] = <<>>]
  /\ UNCHANGED heap

(* v = std::move(w).  v's own overflow vector is not deleted. *)
MoveAssign(v, w) ==
  /\ v # w
  /\ arrayItems' = [arrayItems EXCEPT ![v] = arrayItems[w]]
  /\ vectorItems' = [vectorItems EXCEPT ![v] = vectorItems[w], ![w] = Null]
  /\ lastIndex' = [lastIndex EXCEPT ![v] = lastIndex[w], ![w] = 0]
  /\ contents' = [contents EXCEPT ![v] = contents[w], ![w] = <<>>]
  /\ UNCHANGED heap

(* The object is destroyed and another one constructed in its place.       *)
Renew(v) ==
  /\ heap' = IF vectorItems[v] = Null THEN heap ELSE [heap EXCEPT ![vectorItems[v]] = Null]
  /\ vectorItems' = [vectorItems EXCEPT ![v] = Null]
  /\ arrayItems' = [arrayItems EXCEPT ![v] = Fresh]
  /\ lastIndex' = [lastIndex EXCEPT ![v] = 0]
  /\ contents' = [contents EXCEPT ![v] = <<>>]

Next ==
  \E v \in Object :
    \/ \E x \in Data : PushBack(v, x) \/ \E idx \in 0 .. MaxSize - 1 : Assign(v, idx, x)
    \/ PopBack(v) \/ Renew(v)
    \/ \E w \in Object : CopyAssign(v, w) \/ MoveAssign(v, w)

Spec == Init /\ [][Next]_vars

-----------------------------------------------------------------------------
Overflow(v) == IF vectorItems[v] = Null THEN <<>> ELSE heap[vectorItems[v]]

(* The overflow vector holds as many elements as are beyond the array.     *)
Aligned(v) ==
  SmallSize + Len(Overflow(v)) = (IF IsOverflown(v) THEN lastIndex[v] ELSE SmallSize)

(* Whatever was pushed, popped, stored, copied and moved before: a vector  *)
(* reads as a plain vector would.  Only elements beyond the array can be   *)
(* wrong, and only where the overflow vector is out of step with the size. *)
(* back() is the last element of a vector that has overflown; without an   *)
(* element beyond the array it reads nothing at all if the array is full,  *)
(* and else an element that is not in use.                                 *)
ReadsAsPlainVector ==
  /\ TypeOK
  /\ \A v \in Object :
       LET size == Len(contents[v])
       IN  /\ lastIndex[v] = size
           /\ Aligned(v) => Items(v) = contents[v]
           /\ \A i \in 1 .. size : i <= SmallSize => At(v, i - 1) = contents[v][i]
           /\ Aligned(v) /\ size > SmallSize => Back(v) = contents[v][size]
           /\ Aligned(v) /\ size = SmallSize => Back(v) = Null
           /\ Back(v) = Null => size >= SmallSize

(* An overflow vector gets out of step in one way only: a vector with a    *)
(* small one is assigned to one that has overflown, or was out of step.    *)
OutOfStepOnlyByCopy ==
  [][\A v \in Object : Aligned(v) /\ ~Aligned(v)' =>
       \/ \E w \in Object : CopyAssign(v, w) /\ ~IsOverflown(w) /\ Overflow(v) # <<>>
       \/ \E w \in Object : ~Aligned(w) /\ (CopyAssign(v, w) \/ MoveAssign(v, w))]_vars

(* No overflow vector has two owners, and none that is owned was deleted:  *)
(* nothing is deleted twice or used after it.                              *)
OwnedOnce ==
  \A v \in Object : vectorItems[v] # Null =>
    /\ heap[vectorItems[v]] # Null
    /\ \A w \in Object : vectorItems[w] = vectorItems[v] => w = v

=============================================================================
