------------------------- MODULE RollingHash_proofs --------------------------
(***************************************************************************)
(* Part 1, for every capacity and every set of values: the cursors of the  *)
(* ring stay one slot apart, and the ring implements the sliding window.   *)
(*                                                                         *)
(* Part 2, for every text, every set of term lengths whose powers are      *)
(* exact (RabinAssumption), every modulus and every width of the word: the *)
(* rolling hashes are the direct fingerprints of their windows, which come *)
(* late in a text shorter than the longest term.  The argument goes through the value Val(s, k) of a   *)
(* window, the number whose digits to the base Alpha are its characters:   *)
(* the direct fingerprint, the first hashes and the hash of one length all *)
(* are the remainder of that value, and a step takes the remainder of one  *)
(* value to the remainder of the next unless it borrows under a modulus    *)
(* that does not divide the word.                                          *)
(***************************************************************************)
EXTENDS RollingQueue, SingleLengthRollingRabinHash, FiniteSetTheorems,
        SequenceTheorems, TLAPS

(***************************************************************************)
(* Part 1: the ring.                                                       *)
(***************************************************************************)
(* The inductive invariant: types, and back is the slot before front. *)
BackPrecedesFront == queue.front = Advance(queue.back)

IInv == TypeOK /\ BackPrecedesFront

(* An advanced cursor is a slot. *)
LEMMA AdvanceType == \A c \in Slot : Advance(c) \in Slot
BY QueueAssumption DEF Advance, Slot

(* Every position that at() admits is a slot. *)
LEMMA EffectiveIndexType ==
  ASSUME TypeOK, NEW idx \in Slot
  PROVE  GetEffectiveIndex(queue, idx) \in Slot
BY QueueAssumption DEF TypeOK, GetEffectiveIndex, Slot

(* The constructor's state: front 0, back on the last slot. *)
LEMMA InitIInv == Init => IInv
<1> SUFFICES ASSUME Init PROVE IInv
  OBVIOUS
<1>1. InitialSlots \in [Slot -> Value]
  BY DEF InitialSlots, Value
<1>2. TypeOK
  BY <1>1, QueueAssumption DEF Init, NewQueue, TypeOK, Slot
<1>3. BackPrecedesFront
  BY QueueAssumption DEF Init, NewQueue, BackPrecedesFront, Advance
<1>4. QED
  BY <1>2, <1>3 DEF IInv

(* Both operations preserve the invariant: a push advances both cursors, a *)
(* store moves neither.                                                    *)
LEMMA NextIInv == IInv /\ [Next]_queue => IInv'
<1> SUFFICES ASSUME IInv, [Next]_queue PROVE IInv'
  OBVIOUS
<1> USE DEF IInv
<1>1. ASSUME NEW v \in Data, Push(v) PROVE IInv'
  <2>1. queue' = PushTo(queue, v)
    BY <1>1 DEF Push
  <2>2. [queue.slots EXCEPT ![queue.back] = v] \in [Slot -> Value]
    BY DEF TypeOK, Value
  <2>3. TypeOK'
    BY <2>1, <2>2, AdvanceType DEF TypeOK, PushTo
  <2>4. BackPrecedesFront'
    BY <2>1 DEF BackPrecedesFront, PushTo
  <2>5. QED
    BY <2>3, <2>4
<1>2. ASSUME NEW v \in Data, NEW idx \in Slot, Assign(idx, v) PROVE IInv'
  <2> DEFINE i == GetEffectiveIndex(queue, idx)
  <2>1. i \in Slot
    BY EffectiveIndexType
  <2>2. queue' = [queue EXCEPT !.slots = [queue.slots EXCEPT ![i] = v]]
    BY <1>2, <2>1 DEF Assign, TypeOK
  <2>3. [queue.slots EXCEPT ![i] = v] \in [Slot -> Value]
    BY <2>1 DEF TypeOK, Value
  <2> HIDE DEF i
  <2>4. TypeOK'
    BY <2>2, <2>3 DEF TypeOK
  <2>5. BackPrecedesFront'
    BY <2>2, <2>3 DEF BackPrecedesFront, TypeOK
  <2>6. QED
    BY <2>4, <2>5
<1>3. CASE UNCHANGED queue
  BY <1>3 DEF TypeOK, BackPrecedesFront
<1>4. QED
  BY <1>1, <1>2, <1>3 DEF Next

(* The cursors and the slots keep their ranges. *)
THEOREM TypeCorrect == Spec => []TypeOK
<1>1. IInv => TypeOK
  BY DEF IInv
<1>2. QED
  BY <1>1, InitIInv, NextIInv, PTL DEF Spec

(* The distance of the cursors determines size() and the slot of back.    *)
LEMMA CursorsFromIInv == IInv => CursorsOneSlotApart
<1> SUFFICES ASSUME IInv PROVE CursorsOneSlotApart
  OBVIOUS
<1>1. /\ queue.front \in Nat /\ queue.front <= Capacity
      /\ queue.back \in Nat /\ queue.back <= Capacity
  BY QueueAssumption DEF IInv, TypeOK, Slot
<1>2. queue.front = IF queue.back + 1 > Capacity THEN 0 ELSE queue.back + 1
  BY DEF IInv, BackPrecedesFront, Advance
<1>3. Size(queue) = Capacity
  BY <1>1, <1>2, QueueAssumption DEF Size
<1>4. queue.back = GetEffectiveIndex(queue, Capacity)
  BY <1>1, <1>2, QueueAssumption DEF GetEffectiveIndex
<1>5. QED
  BY <1>3, <1>4 DEF IInv, CursorsOneSlotApart

(* size() equals the capacity and back is just outside the window, for     *)
(* every capacity and every sequence of pushes and stores.                 *)
THEOREM CursorsCorrect == Spec => []CursorsOneSlotApart
BY CursorsFromIInv, InitIInv, NextIInv, PTL DEF Spec

(* The guard of at() admits one index too many, for every capacity: after  *)
(* a push it reads the evicted value.                                      *)
THEOREM EvictedReadable == Spec => EvictedValueStillReadable
<1>1. ASSUME IInv, NEW v \in Data, Push(v)
      PROVE  At(queue', Capacity) = At(queue, 0)
  <2>1. /\ queue.front \in Nat /\ queue.front <= Capacity
        /\ queue.back \in Nat /\ queue.back <= Capacity
    BY <1>1, QueueAssumption DEF IInv, TypeOK, Slot
  <2>2. queue.front = IF queue.back + 1 > Capacity THEN 0 ELSE queue.back + 1
    BY <1>1 DEF IInv, BackPrecedesFront, Advance
  <2>3. queue'.front = IF queue.front + 1 > Capacity THEN 0 ELSE queue.front + 1
    BY <1>1 DEF Push, PushTo, Advance
  <2>4. /\ GetEffectiveIndex(queue', Capacity) = queue.front
        /\ GetEffectiveIndex(queue, 0) = queue.front
        /\ queue.front # queue.back
    BY <2>1, <2>2, <2>3, QueueAssumption DEF GetEffectiveIndex
  <2>5. queue'.slots = [queue.slots EXCEPT ![queue.back] = v]
    BY <1>1 DEF Push, PushTo
  <2>6. QED
    BY <1>1, <2>4, <2>5 DEF At, IInv, TypeOK
<1>2. IInv /\ [Next]_queue =>
        [(\E v \in Data : Push(v)) => At(queue', Capacity) = At(queue, 0)]_queue
  BY <1>1
<1>3. QED
  BY <1>2, InitIInv, NextIInv, PTL DEF Spec, EvictedValueStillReadable

-----------------------------------------------------------------------------
(* Index arithmetic of the ring. *)
LEMMA NextIndex ==
  ASSUME IInv, NEW v \in Data, Push(v), NEW i \in 0 .. Capacity - 1
  PROVE  /\ i < Capacity - 1 => GetEffectiveIndex(queue', i) = GetEffectiveIndex(queue, i + 1)
         /\ i < Capacity - 1 => GetEffectiveIndex(queue, i + 1) # queue.back
         /\ i = Capacity - 1 => GetEffectiveIndex(queue', i) = queue.back
<1>1. /\ queue.front \in Nat /\ queue.front <= Capacity
      /\ queue.back \in Nat /\ queue.back <= Capacity
  BY QueueAssumption DEF IInv, TypeOK, Slot
<1>2. queue.front = IF queue.back + 1 > Capacity THEN 0 ELSE queue.back + 1
  BY DEF IInv, BackPrecedesFront, Advance
<1>3. queue'.front = IF queue.front + 1 > Capacity THEN 0 ELSE queue.front + 1
  BY DEF Push, PushTo, Advance
<1>4. QED
  BY <1>1, <1>2, <1>3, QueueAssumption DEF GetEffectiveIndex

(* Distinct positions of the window are distinct slots. *)
LEMMA IndexInjective ==
  ASSUME TypeOK, NEW i \in Slot, NEW j \in Slot,
         GetEffectiveIndex(queue, i) = GetEffectiveIndex(queue, j)
  PROVE  i = j
BY QueueAssumption DEF TypeOK, GetEffectiveIndex, Slot

(* The window always holds values. *)
LEMMA WindowType == IInv => Window \in [0 .. Capacity - 1 -> Value]
BY EffectiveIndexType, QueueAssumption DEF Window, At, IInv, TypeOK, Slot

(* A push moves the window by one and puts v at its end. *)
LEMMA PushSlides ==
  ASSUME IInv, NEW v \in Data, Push(v)
  PROVE  Promise!Slide(v)
<1> DEFINE W(i) == IF i = Capacity - 1 THEN v ELSE Window[i + 1]
<1>1. queue'.slots = [queue.slots EXCEPT ![queue.back] = v]
  BY DEF Push, PushTo
<1>2. queue.slots \in [Slot -> Value] /\ queue.back \in Slot
  BY DEF IInv, TypeOK
<1>3. ASSUME NEW i \in 0 .. Capacity - 1 PROVE At(queue', i) = W(i)
  <2>1. CASE i = Capacity - 1
    BY <2>1, <1>1, <1>2, NextIndex DEF At
  <2>2. CASE i # Capacity - 1
    <3>1. i < Capacity - 1 /\ i + 1 \in 0 .. Capacity - 1 /\ i + 1 \in Slot
      BY <2>2, QueueAssumption DEF Slot
    <3>2. GetEffectiveIndex(queue, i + 1) \in Slot
      BY <3>1, EffectiveIndexType DEF IInv
    <3>3. At(queue', i) = queue.slots[GetEffectiveIndex(queue, i + 1)]
      BY <3>1, <3>2, <1>1, <1>2, NextIndex DEF At
    <3>4. Window[i + 1] = At(queue, i + 1)
      BY <3>1 DEF Window
    <3>5. QED
      BY <2>2, <3>3, <3>4 DEF At
  <2>3. QED
    BY <2>1, <2>2
<1>4. Window' = [i \in 0 .. Capacity - 1 |-> W(i)]
  BY <1>3 DEF Window
<1>5. QED
  BY <1>4 DEF Promise!Slide, Promise!Position

(* A store is visible at its own position only, and at(Capacity) stores    *)
(* outside the window.                                                     *)
LEMMA AssignOverwrites ==
  ASSUME IInv, NEW v \in Data, NEW idx \in Slot, Assign(idx, v)
  PROVE  IF idx = Capacity THEN UNCHANGED Window ELSE Promise!Overwrite(idx, v)
<1> DEFINE e == GetEffectiveIndex(queue, idx)
<1>1. e \in Slot /\ queue.slots \in [Slot -> Value]
  BY EffectiveIndexType DEF IInv, TypeOK
<1>2. queue' = [queue EXCEPT !.slots = [queue.slots EXCEPT ![e] = v]]
  BY <1>1 DEF Assign, IInv, TypeOK
<1> HIDE DEF e
<1>3. /\ queue'.slots = [queue.slots EXCEPT ![e] = v]
      /\ queue'.front = queue.front
  BY <1>2 DEF IInv, TypeOK
<1>4. \A i \in Slot : GetEffectiveIndex(queue', i) = GetEffectiveIndex(queue, i)
  BY <1>3 DEF GetEffectiveIndex
<1>5. ASSUME NEW i \in 0 .. Capacity - 1
      PROVE  At(queue', i) = IF i = idx THEN v ELSE At(queue, i)
  <2>1. i \in Slot
    BY QueueAssumption DEF Slot
  <2>2. GetEffectiveIndex(queue, i) \in Slot
    BY <2>1, EffectiveIndexType DEF IInv
  <2>3. CASE i = idx
    BY <2>3, <2>1, <1>1, <1>3, <1>4 DEF At, e
  <2>4. CASE i # idx
    <3>1. GetEffectiveIndex(queue, i) # e
      BY <2>1, <2>4, IndexInjective DEF IInv, e
    <3>2. QED
      BY <3>1, <2>1, <2>2, <2>4, <1>1, <1>3, <1>4 DEF At
  <2>5. QED
    BY <2>3, <2>4
<1>6. CASE idx = Capacity
  <2>1. \A i \in 0 .. Capacity - 1 : At(queue', i) = At(queue, i)
    BY <1>5, <1>6, QueueAssumption
  <2>2. QED
    BY <1>6, <2>1 DEF Window
<1>7. CASE idx # Capacity
  <2>1. Window \in [0 .. Capacity - 1 -> Value]
    BY WindowType
  <2>2. Window' = [i \in 0 .. Capacity - 1 |-> IF i = idx THEN v ELSE Window[i]]
    BY <1>5 DEF Window
  <2>3. Window' = [Window EXCEPT ![idx] = v]
    BY <2>1, <2>2
  <2>4. QED
    BY <1>7, <2>3 DEF Promise!Overwrite
<1>8. QED
  BY <1>6, <1>7

(* The ring of Capacity + 1 slots implements the window over the last      *)
(* Capacity values: no wrap of a cursor reorders, loses or repeats one.    *)
THEOREM Refinement == Spec => ImplementsSlidingWindow
<1>1. Init => Promise!Init
  BY InitIInv, WindowType DEF Promise!Init, Promise!Position
<1>2. IInv /\ [Next]_queue => [Promise!Next]_Window
  <2> SUFFICES ASSUME IInv, [Next]_queue PROVE [Promise!Next]_Window
    OBVIOUS
  <2>1. ASSUME NEW v \in Data, Push(v) PROVE Promise!Next
    BY <2>1, PushSlides DEF Promise!Next, Value
  <2>2. ASSUME NEW v \in Data, NEW idx \in Slot, Assign(idx, v)
        PROVE  Promise!Next \/ UNCHANGED Window
    <3>1. CASE idx = Capacity
      BY <2>2, <3>1, AssignOverwrites
    <3>2. CASE idx # Capacity
      <4>1. Promise!Overwrite(idx, v)
        BY <2>2, <3>2, AssignOverwrites
      <4>2. idx \in Promise!Position
        BY <3>2, QueueAssumption DEF Slot, Promise!Position
      <4>3. v \in Value
        BY DEF Value
      <4>4. QED
        BY <4>1, <4>2, <4>3 DEF Promise!Next
    <3>3. QED
      BY <3>1, <3>2
  <2>3. CASE UNCHANGED queue
    BY <2>3 DEF Window, At, GetEffectiveIndex
  <2>4. QED
    BY <2>1, <2>2, <2>3 DEF Next
<1>3. IInv => EachCallAsPromised
  BY PushSlides, AssignOverwrites DEF EachCallAsPromised
<1>4. Spec => Promise!Spec
  BY <1>1, <1>2, InitIInv, NextIInv, PTL DEF Spec, Promise!Spec
<1>5. Spec => [][EachCallAsPromised]_queue
  BY <1>3, InitIInv, NextIInv, PTL DEF Spec
<1>6. QED
  BY <1>4, <1>5 DEF ImplementsSlidingWindow

(***************************************************************************)
(* Part 2: the hashes.  First, arithmetic.                                 *)
(***************************************************************************)

(* Products, for the prover. *)
LEMMA Distribute ==
  ASSUME NEW q \in Int, NEW m \in Int, NEW r \in Int, NEW b \in Int
  PROVE  (q * m + r) * b = (q * b) * m + r * b
OBVIOUS

(* A product with a negative factor. *)
LEMMA NegativeProduct ==
  ASSUME NEW p \in Int, NEW m \in Nat, p <= -1
  PROVE  p * m <= -m
OBVIOUS

(* A product of naturals is a natural. *)
LEMMA NatProduct == \A a, b \in Nat : a * b \in Nat
OBVIOUS

(* Products are monotonic. *)
LEMMA LessProduct ==
  ASSUME NEW a \in Nat, NEW b \in Nat, NEW c \in Nat, NEW d \in Nat, a <= c, b <= d
  PROVE  a * b <= c * d
OBVIOUS

(* The remainder under a name, so that the provers use the facts below     *)
(* instead of computing with it.                                           *)
Rem(a, m) == a % m

(* Every number is a multiple of m and a remainder, in one way.            *)
LEMMA Division ==
  ASSUME NEW m \in Nat \ {0}, NEW a \in Nat
  PROVE  \E q \in Nat : Rem(a, m) \in 0 .. m - 1 /\ a = q * m + Rem(a, m)
<1>1. PICK p, s : p = a \div m /\ s = a % m
  OBVIOUS
<1>2. p \in Int /\ s \in 0 .. m - 1
  BY <1>1
<1>3. a = p * m + s
  BY <1>1
<1>4. p \in Nat
  <2>1. SUFFICES ASSUME p <= -1 PROVE FALSE
    BY <1>2, p <= -1 \/ p >= 0
  <2>2. PICK x : x = p * m
    OBVIOUS
  <2>3. x <= -m /\ x \in Int
    BY <1>2, <2>1, <2>2, NegativeProduct
  <2>4. a = x + s
    BY <1>3, <2>2
  <2> QED  BY <1>2, <2>3, <2>4
<1>5. Rem(a, m) = s
  BY <1>1 DEF Rem
<1> QED  BY <1>2, <1>3, <1>4, <1>5

(* A remainder is below its modulus. *)
LEMMA RemType ==
  ASSUME NEW m \in Nat \ {0}, NEW a \in Nat
  PROVE  Rem(a, m) \in 0 .. m - 1 /\ Rem(a, m) \in Nat
BY Division

(* An equation between sums is one between differences. *)
LEMMA Difference ==
  ASSUME NEW x \in Int, NEW y \in Int, NEW r \in Int, NEW s \in Int, x + s = y + r
  PROVE  x - y = r - s
OBVIOUS

(* Multiples that are closer than m are equal. *)
LEMMA Closest ==
  ASSUME NEW m \in Nat \ {0}, NEW z \in Int, NEW r \in 0 .. m - 1, NEW s \in 0 .. m - 1,
         z * m = r - s
  PROVE  z = 0
<1>1. CASE z >= 1
  <2>1. z * m >= m
    BY <1>1
  <2> QED  BY <2>1
<1>2. CASE z <= -1
  <2>1. z * m <= -m
    BY <1>2, NegativeProduct
  <2> QED  BY <2>1
<1> QED  BY <1>1, <1>2

(* Division determines the remainder. *)
LEMMA Remainder ==
  ASSUME NEW m \in Nat \ {0}, NEW a \in Nat, NEW q \in Int, NEW r \in 0 .. m - 1
  PROVE  a = q * m + r => Rem(a, m) = r
<1>0. SUFFICES ASSUME a = q * m + r PROVE Rem(a, m) = r
  OBVIOUS
<1>1. PICK p \in Nat : Rem(a, m) \in 0 .. m - 1 /\ a = p * m + Rem(a, m)
  BY Division
<1>2. PICK s \in 0 .. m - 1 : s = Rem(a, m)
  BY <1>1
<1>3. PICK x \in Int, y \in Int : x = p * m /\ y = q * m
  OBVIOUS
<1>4. x + s = y + r
  BY <1>0, <1>1, <1>2, <1>3
<1>5. x - y = r - s
  BY <1>4, Difference
<1>6. (p - q) * m = r - s
  <2>1. (p - q) * m = p * m - q * m
    OBVIOUS
  <2> QED  BY <1>3, <1>5, <2>1
<1>7. p - q = 0
  BY <1>6, Closest
<1>8. x = y
  BY <1>3, <1>7
<1>9. r = s
  BY <1>5, <1>8
<1> QED  BY <1>2, <1>9

(* Numbers that differ by a multiple of m have the same remainder.         *)
LEMMA SameRemainder ==
  ASSUME NEW m \in Nat \ {0}, NEW a \in Nat, NEW b \in Nat, NEW z \in Int,
         a = z * m + b
  PROVE  Rem(a, m) = Rem(b, m)
<1>1. PICK q \in Nat : Rem(b, m) \in 0 .. m - 1 /\ b = q * m + Rem(b, m)
  BY Division
<1>2. a = (z + q) * m + Rem(b, m) /\ z + q \in Int
  BY <1>1
<1> QED  BY <1>1, <1>2, Remainder

(* A number below the modulus is its own remainder. *)
LEMMA SmallRemainder ==
  ASSUME NEW m \in Nat \ {0}, NEW a \in 0 .. m - 1
  PROVE  Rem(a, m) = a
<1>1. a = 0 * m + a
  OBVIOUS
<1> QED  BY <1>1, Remainder

(* Sums and products may be reduced early.                                 *)
LEMMA SumRemainder ==
  ASSUME NEW m \in Nat \ {0}, NEW a \in Nat, NEW b \in Nat
  PROVE  Rem(Rem(a, m) + b, m) = Rem(a + b, m)
<1>1. PICK q \in Nat : a = q * m + Rem(a, m)
  BY Division
<1>2. PICK r : r = Rem(a, m)
  OBVIOUS
<1>3. r \in Nat
  BY <1>2, RemType
<1>4. a + b = q * m + (r + b) /\ r + b \in Nat /\ a + b \in Nat
  BY <1>1, <1>2, <1>3
<1>5. Rem(a + b, m) = Rem(r + b, m)
  BY <1>4, SameRemainder
<1> QED  BY <1>2, <1>5

(* Both terms of a sum may be reduced. *)
LEMMA SumOfTwo ==
  ASSUME NEW m \in Nat \ {0}, NEW a \in Nat, NEW b \in Nat
  PROVE  Rem(Rem(a, m) + Rem(b, m), m) = Rem(a + b, m)
<1>1. PICK x \in Nat, y \in Nat : x = Rem(a, m) /\ y = Rem(b, m)
  BY RemType
<1>2. Rem(x + y, m) = Rem(a + y, m)
  BY <1>1, SumRemainder
<1>3. Rem(y + a, m) = Rem(b + a, m)
  BY <1>1, SumRemainder
<1>4. a + y = y + a /\ b + a = a + b
  OBVIOUS
<1> QED  BY <1>1, <1>2, <1>3, <1>4

(* A factor may be reduced. *)
LEMMA ProductRemainder ==
  ASSUME NEW m \in Nat \ {0}, NEW a \in Nat, NEW b \in Nat
  PROVE  Rem(Rem(a, m) * b, m) = Rem(a * b, m)
<1>1. PICK q \in Nat : a = q * m + Rem(a, m)
  BY Division
<1>2. PICK r : r = Rem(a, m)
  OBVIOUS
<1>3. r \in Nat
  BY <1>2, RemType
<1>4. PICK x, y, z : x = a * b /\ y = r * b /\ z = q * b
  OBVIOUS
<1>5. x \in Nat /\ y \in Nat /\ z \in Int
  BY <1>3, <1>4, NatProduct
<1>6. x = z * m + y
  <2>1. (q * m + r) * b = (q * b) * m + r * b
    BY <1>3, Distribute
  <2> QED  BY <1>1, <1>2, <1>4, <2>1
<1>7. Rem(x, m) = Rem(y, m)
  BY <1>5, <1>6, SameRemainder
<1> QED  BY <1>2, <1>4, <1>7

(* A wrap-around is harmless for a modulus that divides the word.          *)
LEMMA WrapRemainder ==
  ASSUME NEW m \in Nat \ {0}, NEW w \in Nat \ {0}, Rem(w, m) = 0, NEW a \in Nat
  PROVE  Rem(Rem(a, w), m) = Rem(a, m)
<1>1. PICK q \in Nat : a = q * w + Rem(a, w)
  BY Division
<1>2. PICK r : r = Rem(a, w)
  OBVIOUS
<1>3. r \in Nat
  BY <1>2, RemType
<1>4. PICK k \in Nat : w = k * m
  <2>1. PICK k \in Nat : w = k * m + Rem(w, m)
    BY Division
  <2> QED  BY <2>1
<1>5. PICK z : z = q * k
  OBVIOUS
<1>6. z \in Int /\ a = z * m + r
  <2>1. q * (k * m) = (q * k) * m
    OBVIOUS
  <2> QED  BY <1>1, <1>2, <1>4, <1>5, <2>1, NatProduct
<1>7. Rem(a, m) = Rem(r, m)
  BY <1>3, <1>6, SameRemainder
<1> QED  BY <1>2, <1>7

-----------------------------------------------------------------------------
(* Powers, values and sums are folds. *)
AnyOf(S) == CHOOSE x \in S : TRUE
Largest(S) == Max(S)
Times(x, acc) == x * acc
Shifted(x, acc) == acc * Alpha + x
Added(x, acc) == Add(acc, x) % modN
HornerStep(cp, h) == Add(Mul(h, Alpha) % modN, cp) % modN

Powers == INSTANCE FoldTheorems WITH Op <- Times, Choose <- AnyOf
Values == INSTANCE FoldTheorems WITH Op <- Shifted, Choose <- Largest
Sums == INSTANCE FoldTheorems WITH Op <- Added, Choose <- AnyOf
Horners == INSTANCE FoldTheorems WITH Op <- HornerStep, Choose <- Largest

(* The number that the first k characters of s are the digits of, without  *)
(* any modulus.                                                            *)
Val(s, k) == Values!Folded(0, s, 1 .. k)

(* The sizes of the words and of the constants. *)
LEMMA WordFacts ==
  /\ HalfWord \in Nat /\ HalfWord >= 2
  /\ Alpha \in Nat \ {0} /\ Alpha <= HalfWord - 1
  /\ WordMod \in Nat \ {0} /\ 2 * HalfWord <= WordMod
<1>1. HalfWord \in Nat /\ HalfWord >= 2 /\ Alpha \in Nat \ {0} /\ Alpha <= HalfWord - 1
  BY WordAssumption
<1>2. 2 * HalfWord <= HalfWord * HalfWord
  BY <1>1, LessProduct
<1> QED  BY <1>1, <1>2 DEF WordMod

(* Code points are uint32_t values. *)
LEMMA CodeType == \A c \in Code : c \in 0 .. HalfWord - 1 /\ c \in Nat
<1> SUFFICES ASSUME NEW c \in Code PROVE c \in 0 .. HalfWord - 1 /\ c \in Nat
  OBVIOUS
<1>1. c \in 0 .. HalfWord - 1
  BY WordAssumption
<1> QED  BY <1>1, WordFacts

(* Largest is a choice, and on 1 .. k it is k. *)
LEMMA LargestFacts ==
  ASSUME NEW n \in Nat
  PROVE  /\ Values!PicksGreatest(n) /\ Values!ChoosesFrom(1 .. n) /\ Values!IsFiniteSet(1 .. n)
         /\ Horners!PicksGreatest(n) /\ Horners!ChoosesFrom(1 .. n) /\ Horners!IsFiniteSet(1 .. n)
<1>1. \A s \in SUBSET (1 .. n) : s # {} => Largest(s) \in s /\ \A y \in s : y <= Largest(s)
  <2> SUFFICES ASSUME NEW s \in SUBSET (1 .. n), s # {}
               PROVE  Largest(s) \in s /\ \A y \in s : y <= Largest(s)
    OBVIOUS
  <2>1. \E x \in s : \A y \in s : x >= y
    <3>1. \E x \in s : \A y \in s : y <= x
      BY Values!BoundedHasGreatest
    <3> QED  BY <3>1
  <2> QED  BY <2>1 DEF Largest, Max
<1>2. IsFiniteSet(1 .. n)
  BY FS_Interval
<1>3. Values!IsFiniteSet(1 .. n) /\ Horners!IsFiniteSet(1 .. n)
  BY <1>2 DEF IsFiniteSet, Values!IsFiniteSet, Horners!IsFiniteSet
<1> QED  BY <1>1, <1>3 DEF Values!PicksGreatest, Values!ChoosesFrom, Horners!PicksGreatest, Horners!ChoosesFrom

(* The library's finite sets are those of the fold theorems. *)
LEMMA FiniteFold ==
  ASSUME NEW S, IsFiniteSet(S)
  PROVE  /\ Powers!IsFiniteSet(S) /\ Powers!ChoosesFrom(S)
         /\ Sums!IsFiniteSet(S) /\ Sums!ChoosesFrom(S)
<1>1. Powers!IsFiniteSet(S) /\ Sums!IsFiniteSet(S)
  BY DEF IsFiniteSet, Powers!IsFiniteSet, Sums!IsFiniteSet
<1> QED  BY <1>1 DEF Powers!ChoosesFrom, Sums!ChoosesFrom, AnyOf

(* pow() as a fold over 1 .. n. *)
LEMMA PowerFolds ==
  ASSUME NEW n
  PROVE  Power(n) = Powers!Folded(1, [i \in 1 .. n |-> Alpha], 1 .. n)
BY DEF Power, FoldFunction, FoldFunctionOnSet, Powers!Folded, MapThenFoldSet,
       Powers!MapThenFoldSet, Times, AnyOf

(* The empty product. *)
LEMMA PowerZero == Power(0) = 1
<1>1. PICK S, f : S = 1 .. 0 /\ f = [i \in 1 .. 0 |-> Alpha]
  OBVIOUS
<1>2. S = {}
  BY <1>1
<1>3. Powers!Folded(1, f, {}) = 1
  BY Powers!FoldEmpty
<1> QED  BY <1>1, <1>2, <1>3, PowerFolds

(* Powers are naturals. *)
LEMMA PowerType ==
  ASSUME NEW n \in Nat
  PROVE  Power(n) \in Nat
<1>1. PICK S, f, V : S = 1 .. n /\ f = [i \in 1 .. n |-> Alpha] /\ V = Nat
  OBVIOUS
<1>2. IsFiniteSet(S)
  BY <1>1, FS_Interval
<1>3. 1 \in V /\ \A x \in S, v \in V : Times(f[x], v) \in V
  BY <1>1, WordFacts, NatProduct DEF Times
<1>4. Powers!Folded(1, f, S) \in V
  BY <1>2, <1>3, FiniteFold, Powers!FoldType
<1> QED  BY <1>1, <1>4, PowerFolds

(* One more factor. *)
LEMMA PowerStep ==
  ASSUME NEW n \in Nat
  PROVE  Power(n + 1) = Alpha * Power(n)
<1>1. PICK S, R, f, g, V : /\ S = 1 .. n + 1 /\ R = 1 .. n /\ V = Nat
                           /\ f = [i \in 1 .. n + 1 |-> Alpha] /\ g = [i \in 1 .. n |-> Alpha]
  OBVIOUS
<1>2. IsFiniteSet(S) /\ IsFiniteSet(R) /\ n + 1 \in S /\ S \ {n + 1} = R
  <2>1. IsFiniteSet(1 .. n + 1) /\ IsFiniteSet(1 .. n)
    BY FS_Interval
  <2> QED  BY <1>1, <2>1
<1>3. 1 \in V /\ \A x \in S, v \in V : Times(f[x], v) \in V
  BY <1>1, WordFacts, NatProduct DEF Times
<1>4. \A x \in S, y \in S, v \in V : Times(f[x], Times(f[y], v)) = Times(f[y], Times(f[x], v))
  BY <1>1 DEF Times
<1>5. \A x \in S : Powers!Folded(1, f, S) = Times(f[x], Powers!Folded(1, f, S \ {x}))
  BY <1>2, <1>3, <1>4, FiniteFold, Powers!FoldRemove
<1>6. Powers!Folded(1, f, R) = Powers!Folded(1, g, R)
  <2>1. \A x \in R : f[x] = g[x]
    BY <1>1
  <2> QED  BY <1>2, <2>1, FiniteFold, Powers!FoldCongruence
<1>7. Power(n + 1) = Powers!Folded(1, f, S) /\ Power(n) = Powers!Folded(1, g, R)
  BY <1>1, PowerFolds
<1>8. f[n + 1] = Alpha
  BY <1>1
<1> QED  BY <1>2, <1>5, <1>6, <1>7, <1>8 DEF Times

-----------------------------------------------------------------------------
(* The empty window has the value 0. *)
LEMMA ValZero == \A s : Val(s, 0) = 0
<1> SUFFICES ASSUME NEW s PROVE Val(s, 0) = 0
  OBVIOUS
<1>1. PICK S : S = 1 .. 0
  OBVIOUS
<1>2. S = {}
  BY <1>1
<1>3. Values!Folded(0, s, {}) = 0
  BY Values!FoldEmpty
<1> QED  BY <1>1, <1>2, <1>3 DEF Val

(* One more digit. *)
LEMMA ValStep ==
  ASSUME NEW s, NEW k \in Nat
  PROVE  Val(s, k + 1) = Val(s, k) * Alpha + s[k + 1]
<1>1. Values!PicksGreatest(k + 1)
  BY LargestFacts
<1>2. Values!Folded(0, s, 1 .. k + 1) = Shifted(s[k + 1], Values!Folded(0, s, 1 .. k))
  BY <1>1, Values!FoldUpTo
<1> QED  BY <1>2 DEF Val, Shifted

(* The value depends on the first k characters only. *)
LEMMA ValCongruence ==
  ASSUME NEW s, NEW t, NEW k \in Nat, \A i \in 1 .. k : s[i] = t[i]
  PROVE  Val(s, k) = Val(t, k)
<1>1. PICK S : S = 1 .. k
  OBVIOUS
<1>2. Values!Folded(0, s, S) = Values!Folded(0, t, S)
  BY <1>1, LargestFacts, Values!FoldCongruence
<1> QED  BY <1>1, <1>2 DEF Val

(* Values are naturals. *)
LEMMA ValType ==
  ASSUME NEW s, NEW k \in Nat, \A i \in 1 .. k : s[i] \in Nat
  PROVE  Val(s, k) \in Nat
<1>1. PICK S, V : S = 1 .. k /\ V = Nat
  OBVIOUS
<1>2. 0 \in V /\ \A x \in S, v \in V : Shifted(s[x], v) \in V
  BY <1>1, WordFacts, NatProduct DEF Shifted
<1>3. Values!Folded(0, s, S) \in V
  BY <1>1, <1>2, LargestFacts, Values!FoldType
<1> QED  BY <1>1, <1>3 DEF Val

(* The first digit counts Power(k - 1). *)
LEMMA FirstDigit ==
  ASSUME NEW s, NEW t, NEW n \in Nat,
         \A i \in 1 .. n + 1 : s[i] \in Nat, \A i \in 1 .. n : t[i] = s[i + 1]
  PROVE  Val(s, n + 1) = Power(n) * s[1] + Val(t, n)
<1> DEFINE T == {k \in Nat : k <= n => Val(s, k + 1) = Power(k) * s[1] + Val(t, k)}
<1>1. 0 \in T
  <2>1. Val(s, 0 + 1) = Val(s, 0) * Alpha + s[0 + 1]
    BY ValStep
  <2>2. s[1] \in Nat
    OBVIOUS
  <2> QED  BY <2>1, <2>2, ValZero, PowerZero, WordFacts
<1>2. ASSUME NEW k \in T PROVE k + 1 \in T
  <2> SUFFICES ASSUME k + 1 <= n
               PROVE  Val(s, (k + 1) + 1) = Power(k + 1) * s[1] + Val(t, k + 1)
    OBVIOUS
  <2>1. PICK a, b, p, c, d : /\ a = Val(s, k + 1) /\ b = Val(t, k) /\ p = Power(k)
                             /\ c = s[1] /\ d = s[(k + 1) + 1]
    OBVIOUS
  <2>2. a \in Nat /\ b \in Nat /\ p \in Nat /\ c \in Nat /\ d \in Nat
    <3>1. /\ \A i \in 1 .. k + 1 : s[i] \in Nat
          /\ \A i \in 1 .. k : t[i] \in Nat
      OBVIOUS
    <3> QED  BY <2>1, <3>1, ValType, PowerType
  <2>3. a = p * c + b
    BY <2>1
  <2>4. Val(s, (k + 1) + 1) = a * Alpha + d
    BY <2>1, ValStep
  <2>5. Val(t, k + 1) = b * Alpha + d
    BY <2>1, ValStep
  <2>6. Power(k + 1) = Alpha * p
    BY <2>1, PowerStep
  <2>7. (p * c + b) * Alpha = (Alpha * p) * c + b * Alpha
    <3>1. (p * c + b) * Alpha = (p * Alpha) * c + b * Alpha
      BY <2>2, WordFacts, Distribute
    <3> QED  BY <2>2, <3>1, WordFacts
  <2> QED
    <3>1. (Alpha * p) * c \in Nat /\ b * Alpha \in Nat
      BY <2>2, WordFacts, NatProduct
    <3> QED  BY <2>1, <2>2, <2>3, <2>4, <2>5, <2>6, <2>7, <3>1
<1>3. T = Nat
  <2>1. T \subseteq Nat
    OBVIOUS
  <2> HIDE DEF T
  <2> QED  BY <1>1, <1>2, <2>1, Values!NatSetInduction
<1> QED  BY <1>3

-----------------------------------------------------------------------------
(* Adding remainders yields a remainder. *)
LEMMA AddedFacts ==
  ASSUME modN \in 1 .. HalfWord - 1, NEW a \in 0 .. HalfWord - 1, NEW v \in 0 .. modN - 1
  PROVE  Added(a, v) = Rem(v + a, modN) /\ Added(a, v) \in 0 .. modN - 1
<1>1. PICK m : m = modN
  OBVIOUS
<1>2. m \in Nat \ {0} /\ m <= HalfWord - 1
  BY <1>1, WordFacts
<1>3. v + a \in 0 .. WordMod - 1
  BY <1>1, <1>2, WordFacts
<1>4. Rem(v + a, WordMod) = v + a
  BY <1>3, WordFacts, SmallRemainder
<1>5. Added(a, v) = Rem(Rem(v + a, WordMod), modN)
  BY DEF Added, Add, Rem
<1>6. v + a \in Nat
  BY <1>3, WordFacts
<1>7. Rem(v + a, m) \in 0 .. m - 1
  BY <1>2, <1>6, RemType
<1> QED  BY <1>1, <1>4, <1>5, <1>7

(* Adding remainders yields the remainder of the sum. *)
LEMMA AddedRemainders ==
  ASSUME modN \in 1 .. HalfWord - 1, NEW a \in Nat, NEW b \in Nat
  PROVE  Added(Rem(b, modN), Rem(a, modN)) = Rem(a + b, modN)
<1>1. PICK m : m = modN
  OBVIOUS
<1>2. m \in Nat \ {0} /\ m <= HalfWord - 1
  BY <1>1, WordFacts
<1>3. PICK x, y : x = Rem(a, m) /\ y = Rem(b, m)
  OBVIOUS
<1>4. x \in 0 .. m - 1 /\ y \in 0 .. m - 1
  BY <1>2, <1>3, RemType
<1>5. x \in 0 .. modN - 1 /\ y \in 0 .. HalfWord - 1
  BY <1>1, <1>2, <1>4, WordFacts
<1>6. Added(y, x) = Rem(x + y, modN)
  BY <1>5, AddedFacts
<1>7. Rem(x + y, m) = Rem(a + b, m)
  BY <1>2, <1>3, SumOfTwo
<1> QED  BY <1>1, <1>3, <1>6, <1>7

(* The order of the additions does not matter. *)
LEMMA AddedCommutes ==
  ASSUME modN \in 1 .. HalfWord - 1,
         NEW a \in 0 .. modN - 1, NEW b \in 0 .. modN - 1, NEW v \in 0 .. modN - 1
  PROVE  Added(a, Added(b, v)) = Added(b, Added(a, v))
<1>1. PICK m : m = modN
  OBVIOUS
<1>2. m \in Nat \ {0} /\ a \in Nat /\ b \in Nat /\ v \in Nat
  BY <1>1, WordFacts
<1>3. a \in 0 .. HalfWord - 1 /\ b \in 0 .. HalfWord - 1
  BY WordFacts
<1>4. /\ Added(b, v) = Rem(v + b, modN) /\ Added(b, v) \in 0 .. modN - 1
      /\ Added(a, v) = Rem(v + a, modN) /\ Added(a, v) \in 0 .. modN - 1
  BY <1>3, AddedFacts
<1>5. /\ Added(a, Added(b, v)) = Rem(Added(b, v) + a, modN)
      /\ Added(b, Added(a, v)) = Rem(Added(a, v) + b, modN)
  BY <1>3, <1>4, AddedFacts
<1>6. Rem(Rem(v + b, m) + a, m) = Rem((v + b) + a, m)
  <2>1. v + b \in Nat
    BY <1>2
  <2> QED  BY <1>2, <2>1, SumRemainder
<1>7. Rem(Rem(v + a, m) + b, m) = Rem((v + a) + b, m)
  <2>1. v + a \in Nat
    BY <1>2
  <2> QED  BY <1>2, <2>1, SumRemainder
<1>8. (v + b) + a = (v + a) + b
  BY <1>2
<1> QED  BY <1>1, <1>4, <1>5, <1>6, <1>7, <1>8

(* SumMod as a fold over its domain. *)
LEMMA SumModFolds ==
  ASSUME NEW f
  PROVE  SumMod(modN, f) = Sums!Folded(0, f, DOMAIN f)
BY DEF SumMod, FoldFunction, FoldFunctionOnSet, Sums!Folded, MapThenFoldSet,
       Sums!MapThenFoldSet, Added, AnyOf

(* A sum of remainders is a remainder. *)
LEMMA SumModType ==
  ASSUME modN \in 1 .. HalfWord - 1, NEW f, IsFiniteSet(DOMAIN f),
         \A x \in DOMAIN f : f[x] \in 0 .. modN - 1
  PROVE  SumMod(modN, f) \in 0 .. modN - 1
<1>1. PICK S, V : S = DOMAIN f /\ V = 0 .. modN - 1
  OBVIOUS
<1>2. 0 \in V
  BY <1>1, WordFacts
<1>3. \A x \in S, v \in V : Added(f[x], v) \in V
  <2> SUFFICES ASSUME NEW x \in S, NEW v \in V PROVE Added(f[x], v) \in V
    OBVIOUS
  <2>1. PICK a : a = f[x] /\ a \in 0 .. modN - 1
    BY <1>1
  <2>2. a \in 0 .. HalfWord - 1
    BY <2>1, WordFacts
  <2> QED  BY <1>1, <2>1, <2>2, AddedFacts
<1>s. Sums!IsFiniteSet(S) /\ Sums!ChoosesFrom(S)
  BY <1>1, FiniteFold
<1>4. Sums!Folded(0, f, S) \in V
  BY <1>s, <1>2, <1>3, Sums!FoldType
<1> QED  BY <1>1, <1>4, SumModFolds

(* Any share can be taken out of a sum. *)
LEMMA SumTakesOut ==
  ASSUME modN \in 1 .. HalfWord - 1, NEW f, NEW S, IsFiniteSet(S),
         \A x \in S : f[x] \in 0 .. modN - 1
  PROVE  \A y \in S : Sums!Folded(0, f, S) = Added(f[y], Sums!Folded(0, f, S \ {y}))
<1>1. PICK V : V = 0 .. modN - 1
  OBVIOUS
<1>2. 0 \in V
  BY <1>1, WordFacts
<1>3. \A x \in S, v \in V : Added(f[x], v) \in V
  <2> SUFFICES ASSUME NEW x \in S, NEW v \in V PROVE Added(f[x], v) \in V
    OBVIOUS
  <2>1. PICK a : a = f[x] /\ a \in 0 .. modN - 1
    BY <1>1
  <2>2. a \in 0 .. HalfWord - 1
    BY <2>1, WordFacts
  <2> QED  BY <1>1, <2>1, <2>2, AddedFacts
<1>4. \A x \in S, z \in S, v \in V : Added(f[x], Added(f[z], v)) = Added(f[z], Added(f[x], v))
  BY <1>1, AddedCommutes
<1>5. Sums!IsFiniteSet(S) /\ Sums!ChoosesFrom(S)
  BY FiniteFold
<1> QED  BY <1>2, <1>3, <1>4, <1>5, Sums!FoldRemove

Remainders(f, S) == \A x \in S : f[x] \in 0 .. modN - 1

(* The last summand of an interval. *)
LEMMA LastOfSum ==
  ASSUME modN \in 1 .. HalfWord - 1, NEW f, NEW d \in Nat, NEW k \in Nat,
         Remainders(f, d .. d + k)
  PROVE  Sums!Folded(0, f, d .. d + k) = Added(f[d + k], Sums!Folded(0, f, d .. d + k - 1))
<1>1. PICK S, R : S = d .. d + k /\ R = d .. d + k - 1
  OBVIOUS
<1>2. d + k \in S /\ S \ {d + k} = R
  BY <1>1
<1>3. \A y \in S : Sums!Folded(0, f, S) = Added(f[y], Sums!Folded(0, f, S \ {y}))
  <2>1. IsFiniteSet(S)
    <3>1. d \in Int /\ d + k \in Int
      OBVIOUS
    <3> QED  BY <1>1, <3>1, FS_Interval
  <2>2. \A x \in S : f[x] \in 0 .. modN - 1
    BY <1>1 DEF Remainders
  <2> QED  BY <2>1, <2>2, SumTakesOut
<1>4. Sums!Folded(0, f, S) = Added(f[d + k], Sums!Folded(0, f, R))
  BY <1>2, <1>3
<1> QED  BY <1>1, <1>4

(* Horner's rule, multiplied by a power. *)
LEMMA OneMore ==
  ASSUME NEW p \in Nat, NEW v \in Nat, NEW c \in Nat
  PROVE  (Alpha * p) * v + p * c = p * (v * Alpha + c)
<1>1. PICK x : x = v * Alpha /\ x \in Nat
  BY WordFacts, NatProduct
<1>2. p * (x + c) = p * x + p * c
  BY <1>1
<1>3. p * (v * Alpha) = (Alpha * p) * v
  BY WordFacts
<1> QED  BY <1>1, <1>2, <1>3

(* What the direct fingerprint and the first hashes both sum: the shares   *)
(* of the characters, wherever the index starts.                           *)
SharesOf(f, d, s, n) ==
  /\ DOMAIN f = d .. d + n - 1
  /\ \A i \in 1 .. n : /\ s[i] \in Nat
                       /\ f[i + d - 1] = Rem(Power(n - i) * s[i], modN)

(* Every share is a remainder. *)
LEMMA SharesRemain ==
  ASSUME modN \in 1 .. HalfWord - 1, NEW s, NEW n \in Nat, NEW d \in Nat,
         NEW f, SharesOf(f, d, s, n), NEW k \in Nat, k + 1 <= n
  PROVE  Remainders(f, d .. d + k)
<1> SUFFICES ASSUME NEW x \in d .. d + k PROVE f[x] \in 0 .. modN - 1
  BY DEF Remainders
<1>m. PICK m : m = modN /\ m \in Nat \ {0}
  BY WordFacts
<1>1. PICK i : i = x + 1 - d /\ i \in 1 .. n /\ i + d - 1 = x
  OBVIOUS
<1>2. f[x] = Rem(Power(n - i) * s[i], modN) /\ s[i] \in Nat
  BY <1>1 DEF SharesOf
<1>3. n - i \in Nat
  <2>1. i \in Int /\ i <= n
    BY <1>1
  <2> QED  BY <2>1
<1>4. PICK q : q = Power(n - i) * s[i] /\ q \in Nat
  BY <1>2, <1>3, PowerType, NatProduct
<1>5. Rem(q, m) \in 0 .. m - 1
  BY <1>m, <1>4, RemType
<1> QED  BY <1>m, <1>2, <1>4, <1>5

(* Their sum is the value, reduced. *)
LEMMA SumOfShares ==
  ASSUME modN \in 1 .. HalfWord - 1, NEW s, NEW n \in Nat, NEW d \in Nat,
         NEW f, SharesOf(f, d, s, n)
  PROVE  SumMod(modN, f) = Rem(Val(s, n), modN)
<1> DEFINE F(k) == Sums!Folded(0, f, d .. d + k - 1)
           T == {k \in Nat : k <= n => F(k) = Rem(Power(n - k) * Val(s, k), modN)}
<1>m. PICK m : m = modN /\ m \in Nat \ {0} /\ m <= HalfWord - 1
  BY WordFacts
<1>s. \A i \in 1 .. n : s[i] \in Nat
  BY DEF SharesOf
<1>v. ASSUME NEW k \in 0 .. n PROVE Val(s, k) \in Nat /\ Power(n - k) \in Nat
  <2>1. k \in Nat /\ n - k \in Nat /\ \A i \in 1 .. k : i \in 1 .. n
    OBVIOUS
  <2>2. Val(s, k) \in Nat
    BY <1>s, <2>1, ValType
  <2> QED  BY <2>1, <2>2, PowerType
<1>1. 0 \in T
  <2>1. PICK S : S = d .. d + 0 - 1
    OBVIOUS
  <2>2. S = {}
    BY <2>1
  <2>3. Sums!Folded(0, f, {}) = 0
    BY Sums!FoldEmpty
  <2>4. Power(n - 0) * Val(s, 0) = 0
    BY <1>v, ValZero
  <2>5. Rem(0, m) = 0
    BY <1>m, SmallRemainder
  <2> QED  BY <1>m, <2>1, <2>2, <2>3, <2>4, <2>5
<1>2. ASSUME NEW k \in T PROVE k + 1 \in T
  <2> SUFFICES ASSUME k + 1 <= n
               PROVE  F(k + 1) = Rem(Power(n - (k + 1)) * Val(s, k + 1), modN)
    OBVIOUS
  <2>k. k \in Nat
    OBVIOUS
  <2>1. PICK p, v, c : p = Power(n - (k + 1)) /\ v = Val(s, k) /\ c = s[k + 1]
    OBVIOUS
  <2>2. p \in Nat /\ v \in Nat /\ c \in Nat
    BY <1>s, <1>v, <2>1
  <2>3. Power(n - k) = Alpha * p
    <3>1. n - (k + 1) \in Nat /\ (n - (k + 1)) + 1 = n - k
      OBVIOUS
    <3> QED  BY <2>1, <3>1, PowerStep
  <2>4. PICK a, b : a = (Alpha * p) * v /\ b = p * c /\ a \in Nat /\ b \in Nat
    BY <2>2, WordFacts, NatProduct
  <2>5. F(k) = Rem(a, m)
    BY <1>m, <2>1, <2>3, <2>4
  <2>6. f[d + k] = Rem(b, m)
    <3>1. k + 1 \in 1 .. n /\ (k + 1) + d - 1 = d + k
      OBVIOUS
    <3> QED  BY <1>m, <2>1, <2>4, <3>1 DEF SharesOf
  <2>7. F(k + 1) = Added(f[d + k], F(k))
    <3>1. Remainders(f, d .. d + k)
      BY <2>k, SharesRemain
    <3>2. Sums!Folded(0, f, d .. d + k) = Added(f[d + k], Sums!Folded(0, f, d .. d + k - 1))
      <4> HIDE DEF F, T
      <4> QED  BY <2>k, <3>1, LastOfSum, ZenonT(30)
    <3>3. d + (k + 1) - 1 = d + k
      BY <2>k
    <3> QED  BY <3>2, <3>3
  <2>9. Added(Rem(b, m), Rem(a, m)) = Rem(a + b, m)
    BY <1>m, <2>4, AddedRemainders
  <2>10. a + b = p * (v * Alpha + c)
    BY <2>2, <2>4, OneMore
  <2>11. Val(s, k + 1) = v * Alpha + c
    BY <2>1, ValStep
  <2> HIDE DEF F
  <2> QED  BY <1>m, <2>1, <2>5, <2>6, <2>7, <2>9, <2>10, <2>11
<1>3. T = Nat
  <2>1. T \subseteq Nat
    OBVIOUS
  <2> HIDE DEF T
  <2> QED  BY <1>1, <1>2, <2>1, Values!NatSetInduction
<1>4. F(n) = Rem(Power(n - n) * Val(s, n), modN)
  BY <1>3
<1>5. Power(n - n) * Val(s, n) = Val(s, n)
  BY <1>v, PowerZero
<1> QED  BY <1>4, <1>5, SumModFolds DEF SharesOf

-----------------------------------------------------------------------------
(* The arithmetic of one step, in terms of values.                         *)
LEMMA NoWrap ==
  ASSUME NEW x \in 0 .. HalfWord - 1, NEW c \in 0 .. HalfWord - 1
  PROVE  Mul(x, c) = x * c /\ x * c \in Nat
<1>1. x * c <= (HalfWord - 1) * (HalfWord - 1)
  BY WordFacts, LessProduct
<1>2. (HalfWord - 1) * (HalfWord - 1) < HalfWord * HalfWord
  BY WordFacts
<1>3. x * c \in Nat
  BY WordFacts, NatProduct
<1>4. x * c \in 0 .. WordMod - 1
  <2>1. PICK y : y = x * c
    OBVIOUS
  <2>2. PICK z : z = (HalfWord - 1) * (HalfWord - 1) /\ z \in Int
    BY WordFacts
  <2>3. y <= z /\ z < WordMod /\ y \in Nat
    BY <1>1, <1>2, <1>3, <2>1, <2>2 DEF WordMod
  <2> QED  BY <2>1, <2>2, <2>3, WordFacts
<1>5. Mul(x, c) = Rem(x * c, WordMod)
  BY DEF Mul, Rem
<1>6. Rem(x * c, WordMod) = x * c
  BY <1>4, WordFacts, SmallRemainder
<1> QED  BY <1>3, <1>5, <1>6

(* The share of a character, its power reduced first. *)
LEMMA ShareValue ==
  ASSUME modN \in 1 .. HalfWord - 1, NEW p \in Nat, NEW c \in 0 .. HalfWord - 1
  PROVE  Mul(p % modN, c) % modN = Rem(p * c, modN)
<1>1. PICK m : m = modN /\ m \in Nat \ {0} /\ m <= HalfWord - 1
  BY WordFacts
<1>2. PICK r : r = Rem(p, m)
  OBVIOUS
<1>3. r \in 0 .. HalfWord - 1
  <2>1. r \in 0 .. m - 1
    BY <1>1, <1>2, RemType
  <2> QED  BY <1>1, <2>1, WordFacts
<1>4. Mul(r, c) = r * c
  BY <1>3, NoWrap
<1>5. c \in Nat
  BY WordFacts
<1>6. Rem(r * c, m) = Rem(p * c, m)
  BY <1>1, <1>2, <1>5, ProductRemainder
<1>7. Mul(p % modN, c) % modN = Rem(Mul(r, c), m)
  BY <1>1, <1>2 DEF Rem
<1> QED  BY <1>1, <1>4, <1>6, <1>7

(* A character comes in. *)
LEMMA ComeIn ==
  ASSUME modN \in 1 .. HalfWord - 1, NEW x \in Nat, NEW c \in 0 .. HalfWord - 1
  PROVE  Add(Rem(x, modN), c) % modN = Rem(x + c, modN)
<1>1. PICK m : m = modN /\ m \in Nat \ {0} /\ m <= HalfWord - 1
  BY WordFacts
<1>2. PICK y : y = Rem(x, m)
  OBVIOUS
<1>3. y \in 0 .. m - 1 /\ y \in 0 .. modN - 1
  BY <1>1, <1>2, RemType
<1>4. Added(c, y) = Rem(y + c, modN)
  BY <1>3, AddedFacts
<1>5. c \in Nat
  BY WordFacts
<1>6. Rem(y + c, m) = Rem(x + c, m)
  BY <1>1, <1>2, <1>5, SumRemainder
<1>7. Add(Rem(x, modN), c) % modN = Added(c, y)
  BY <1>1, <1>2 DEF Added
<1> QED  BY <1>1, <1>4, <1>6, <1>7

(* A hash is shifted. *)
LEMMA ShiftSmall ==
  ASSUME modN \in 1 .. HalfWord - 1, NEW h \in 0 .. HalfWord - 1, NEW u \in Nat,
         Rem(h, modN) = Rem(u, modN)
  PROVE  Mul(h, Alpha) % modN = Rem(u * Alpha, modN)
<1>1. PICK m : m = modN /\ m \in Nat \ {0} /\ m <= HalfWord - 1
  BY WordFacts
<1>2. Alpha \in 0 .. HalfWord - 1 /\ Alpha \in Nat /\ h \in Nat
  BY WordFacts
<1>3. Mul(h, Alpha) = h * Alpha
  BY <1>2, NoWrap
<1>4. Rem(Rem(h, m) * Alpha, m) = Rem(h * Alpha, m)
  BY <1>1, <1>2, ProductRemainder
<1>5. Rem(Rem(u, m) * Alpha, m) = Rem(u * Alpha, m)
  BY <1>1, <1>2, ProductRemainder
<1>6. Mul(h, Alpha) % modN = Rem(Mul(h, Alpha), m)
  BY <1>1 DEF Rem
<1> QED  BY <1>1, <1>3, <1>4, <1>5, <1>6

(* A wrap-around is harmless when the modulus divides the word. *)
LEMMA ShiftAny ==
  ASSUME modN \in 1 .. HalfWord - 1, ~ Lossy(modN), NEW h \in Nat, NEW u \in Nat,
         Rem(h, modN) = Rem(u, modN)
  PROVE  Mul(h, Alpha) % modN = Rem(u * Alpha, modN)
<1>1. PICK m : m = modN /\ m \in Nat \ {0} /\ m <= HalfWord - 1
  BY WordFacts
<1>2. Alpha \in Nat /\ h * Alpha \in Nat /\ WordMod \in Nat \ {0}
  BY WordFacts, NatProduct
<1>3. Rem(WordMod, m) = 0
  BY <1>1 DEF Lossy, Rem
<1>4. Rem(Rem(h * Alpha, WordMod), m) = Rem(h * Alpha, m)
  BY <1>1, <1>2, <1>3, WrapRemainder
<1>5. Rem(Rem(h, m) * Alpha, m) = Rem(h * Alpha, m)
  BY <1>1, <1>2, ProductRemainder
<1>6. Rem(Rem(u, m) * Alpha, m) = Rem(u * Alpha, m)
  BY <1>1, <1>2, ProductRemainder
<1>7. Mul(h, Alpha) % modN = Rem(Rem(h * Alpha, WordMod), m)
  BY <1>1 DEF Rem, Mul
<1> QED  BY <1>1, <1>4, <1>5, <1>6, <1>7

(* Products distribute over differences. *)
LEMMA DifferenceTimes == \A i, j, m \in Int : (j - i) * m = j * m - i * m
OBVIOUS

(* Products distribute over sums. *)
LEMMA SumTimes == \A i, j, m \in Int : (j + i) * m = j * m + i * m
OBVIOUS

(* The oldest character, worth b, goes out of the value b + u.  If that    *)
(* borrows, the modulus has to divide the word.                            *)
Without(b, u) == Sub(Rem(b + u, modN), Rem(b, modN))

Borrowed(b, u) == Lossy(modN) /\ Rem(b + u, modN) < Rem(b, modN)

(* What is left has the remainder of u, and no wrap is lossy. *)
LEMMA GoOut ==
  ASSUME modN \in 1 .. HalfWord - 1, NEW b \in Nat, NEW u \in Nat, ~ Borrowed(b, u)
  PROVE  /\ Without(b, u) \in Nat /\ Rem(Without(b, u), modN) = Rem(u, modN)
         /\ Without(b, u) \in 0 .. HalfWord - 1 \/ ~ Lossy(modN)
<1>1. PICK m : m = modN /\ m \in Nat \ {0} /\ m <= HalfWord - 1
  BY WordFacts
<1>2. PICK v, h, d : v = b + u /\ h = Rem(v, m) /\ d = Rem(b, m)
  OBVIOUS
<1>3. v \in Nat /\ h \in 0 .. m - 1 /\ d \in 0 .. m - 1 /\ Without(b, u) = Sub(h, d)
  <2>1. v \in Nat
    BY <1>2
  <2> QED  BY <1>1, <1>2, <2>1, RemType DEF Without
<1>4. PICK i \in Nat, j \in Nat, x \in Int, y \in Int :
        x = i * m /\ y = j * m /\ v = x + h /\ b = y + d
  <2>1. PICK i \in Nat : v = i * m + Rem(v, m)
    BY <1>1, <1>3, Division
  <2>2. PICK j \in Nat : b = j * m + Rem(b, m)
    BY <1>1, Division
  <2>3. PICK x, y : x = i * m /\ y = j * m
    OBVIOUS
  <2>4. x \in Int /\ y \in Int
    BY <1>1, <2>3, NatProduct
  <2> QED  BY <1>2, <2>1, <2>2, <2>3, <2>4
<1>5. h - d = (y - x) + u
  BY <1>2, <1>3, <1>4
<1>6. CASE h >= d
  <2>1. Sub(h, d) = h - d /\ h - d \in 0 .. HalfWord - 1 /\ h - d \in Nat
    BY <1>1, <1>3, <1>6, WordFacts DEF Sub
  <2>2. PICK z, r : z = j - i /\ r = h - d
    OBVIOUS
  <2>3. z \in Int /\ z * m = y - x
    BY <1>1, <1>4, <2>2, DifferenceTimes
  <2>4. r \in Nat /\ r = z * m + u
    BY <1>5, <2>1, <2>2, <2>3
  <2>5. Rem(r, m) = Rem(u, m)
    BY <1>1, <2>3, <2>4, SameRemainder
  <2> QED  BY <1>1, <1>3, <2>1, <2>2, <2>5
<1>7. CASE h < d
  <2>1. ~ Lossy(modN)
    BY <1>1, <1>2, <1>7 DEF Borrowed
  <2>2. PICK k \in Nat : WordMod = k * m
    <3>1. Rem(WordMod, m) = 0
      BY <1>1, <2>1 DEF Lossy, Rem
    <3>2. PICK k \in Nat : WordMod = k * m + Rem(WordMod, m)
      BY <1>1, WordFacts, Division
    <3>3. PICK z : z = k * m /\ z \in Nat
      BY <1>1, NatProduct
    <3> QED  BY <3>1, <3>2, <3>3
  <2>3. Sub(h, d) = WordMod + h - d /\ WordMod + h - d \in Nat
    BY <1>1, <1>3, <1>7, WordFacts DEF Sub
  <2>4. PICK z, r : z = k + (j - i) /\ r = WordMod + h - d
    OBVIOUS
  <2>5. z \in Int /\ z * m = WordMod + (y - x)
    <3>1. (j - i) * m = y - x
      BY <1>1, <1>4, DifferenceTimes
    <3>2. (k + (j - i)) * m = k * m + (j - i) * m
      BY <1>1, SumTimes
    <3> QED  BY <2>2, <2>4, <3>1, <3>2
  <2>6. r \in Nat /\ r = z * m + u
    <3>1. WordMod + h - d = WordMod + (h - d)
      BY <1>3, WordFacts
    <3>2. PICK t, g, w : t = y - x /\ g = z * m /\ w = WordMod
      OBVIOUS
    <3>3. t \in Int /\ w \in Int /\ u \in Int
      BY <1>4, <3>2, WordFacts
    <3>4. g = w + t /\ r = w + (t + u)
      BY <1>5, <2>4, <2>5, <3>1, <3>2
    <3>5. w + (t + u) = (w + t) + u
      BY <3>3
    <3>6. r \in Nat
      BY <2>3, <2>4
    <3> QED  BY <3>2, <3>4, <3>5, <3>6
  <2>7. Rem(r, m) = Rem(u, m)
    BY <1>1, <2>5, <2>6, SameRemainder
  <2> QED  BY <1>1, <1>3, <2>1, <2>3, <2>4, <2>7
<1>8. h >= d \/ h < d
  BY <1>3
<1> QED  BY <1>6, <1>7, <1>8

(* Out, shift, in: what the step of any of the hashes computes.            *)
LEMMA RolledValue ==
  ASSUME modN \in 1 .. HalfWord - 1, NEW b \in Nat, NEW u \in Nat,
         NEW c \in 0 .. HalfWord - 1, ~ Borrowed(b, u)
  PROVE  /\ Add(Mul(Without(b, u), Alpha) % modN, c) % modN = Rem(u * Alpha + c, modN)
         /\ Add(Mul(Without(b, u) % modN, Alpha) % modN, c) % modN = Rem(u * Alpha + c, modN)
<1>1. PICK m : m = modN /\ m \in Nat \ {0} /\ m <= HalfWord - 1
  BY WordFacts
<1>2. PICK x : x = Without(b, u)
  OBVIOUS
<1>3. /\ x \in Nat /\ Rem(x, modN) = Rem(u, modN)
      /\ x \in 0 .. HalfWord - 1 \/ ~ Lossy(modN)
  BY <1>2, GoOut
<1>4. Mul(x, Alpha) % modN = Rem(u * Alpha, modN)
  BY <1>3, ShiftSmall, ShiftAny
<1>5. PICK y : y = Rem(x, m)
  OBVIOUS
<1>6. y \in 0 .. m - 1 /\ y \in 0 .. HalfWord - 1
  <2>1. y \in 0 .. m - 1
    BY <1>1, <1>3, <1>5, RemType
  <2> QED  BY <1>1, <2>1, WordFacts
<1>7. Rem(y, modN) = Rem(u, modN)
  <2>1. Rem(y, m) = y
    BY <1>1, <1>6, SmallRemainder
  <2> QED  BY <1>1, <1>3, <1>5, <2>1
<1>8. Mul(y, Alpha) % modN = Rem(u * Alpha, modN)
  BY <1>6, <1>7, ShiftSmall
<1>9. Without(b, u) % modN = y
  BY <1>1, <1>2, <1>5 DEF Rem
<1>10. PICK w : w = u * Alpha /\ w \in Nat
  BY WordFacts, NatProduct
<1>11. Add(Rem(w, modN), c) % modN = Rem(w + c, modN)
  BY <1>10, ComeIn
<1> QED  BY <1>2, <1>4, <1>8, <1>9, <1>10, <1>11

(* Texts are sequences of uint32_t values. *)
LEMMA CodesAreWords ==
  ASSUME NEW s \in Seq(Code)
  PROVE  s \in Seq(0 .. HalfWord - 1)
BY CodeType, SeqMonotonic

(* The direct fingerprint is the value, reduced. *)
LEMMA FingerprintIsValue ==
  ASSUME modN \in 1 .. HalfWord - 1, NEW s \in Seq(0 .. HalfWord - 1)
  PROVE  RabinFingerprint(modN, s) = Rem(Val(s, Len(s)), modN)
<1> DEFINE Shares == [i \in DOMAIN s |-> Mul(Power(Len(s) - i) % modN, s[i]) % modN]
<1>1. PICK n, d, f : n = Len(s) /\ d = 1 /\ f = Shares
  OBVIOUS
<1>2. n \in Nat /\ d \in Nat /\ DOMAIN s = 1 .. n
  BY <1>1
<1>3. DOMAIN f = d .. d + n - 1
  BY <1>1, <1>2
<1>4. ASSUME NEW i \in 1 .. n
      PROVE  s[i] \in Nat /\ f[i + d - 1] = Rem(Power(n - i) * s[i], modN)
  <2>1. s[i] \in 0 .. HalfWord - 1 /\ s[i] \in Nat
    <3>1. s[i] \in 0 .. HalfWord - 1
      BY <1>1, <1>2, ElementOfSeq
    <3> QED  BY <3>1, WordFacts
  <2>2. n - i \in Nat
    BY <1>2
  <2>3. PICK p : p = Power(n - i) /\ p \in Nat
    BY <2>2, PowerType
  <2>4. f[i + d - 1] = Mul(p % modN, s[i]) % modN
    <3>1. i + d - 1 = i
      BY <1>1
    <3>2. f[i] = Mul(Power(n - i) % modN, s[i]) % modN
      BY <1>1, <1>2
    <3> QED  BY <2>3, <3>1, <3>2
  <2>5. Mul(p % modN, s[i]) % modN = Rem(p * s[i], modN)
    BY <2>1, <2>3, ShareValue
  <2> QED  BY <2>1, <2>3, <2>4, <2>5
<1>5. SumMod(modN, f) = Rem(Val(s, n), modN)
  BY <1>2, <1>3, <1>4, SumOfShares DEF SharesOf
<1> QED  BY <1>1, <1>5 DEF RabinFingerprint

(* Both hashers start with the value of their first window.                *)
LEMMA FirstSum ==
  ASSUME modN \in 1 .. HalfWord - 1, NEW q, NEW e \in Nat \ {0}, NEW s,
         \A i \in 1 .. e : s[i] \in Nat /\ Q!At(q, i - 1) = s[i],
         ~ (Lossy(modN) /\ \E i \in 0 .. e - 1 : Product(q, e, i) >= WordMod)
  PROVE  SumMod(modN, Summands(q, modN, e)) = Rem(Val(s, e), modN)
<1>1. PICK d, f : d = 0 /\ f = Summands(q, modN, e)
  OBVIOUS
<1>2. d \in Nat /\ e \in Nat /\ DOMAIN f = d .. d + e - 1
  BY <1>1 DEF Summands
<1>3. ASSUME NEW i \in 1 .. e
      PROVE  s[i] \in Nat /\ f[i + d - 1] = Rem(Power(e - i) * s[i], modN)
  <2>1. s[i] \in Nat /\ Q!At(q, i - 1) = s[i]
    OBVIOUS
  <2>2. e - i \in Nat /\ i - 1 \in 0 .. e - 1 /\ e - 1 - (i - 1) = e - i /\ i + d - 1 = i - 1
    BY <1>1
  <2>3. PICK p, x : p = Power(e - i) /\ p \in Nat /\ x = p * s[i] /\ x \in Nat
    BY <2>1, <2>2, PowerType, NatProduct
  <2>4. Product(q, e, i - 1) = x
    <3>1. Product(q, e, i - 1) = s[i] * p
      BY <2>1, <2>2, <2>3 DEF Product
    <3> QED  BY <2>1, <2>3, <3>1
  <2>5. f[i + d - 1] = Rem(Rem(x, WordMod), modN)
    BY <1>1, <2>2, <2>4 DEF Summands, Rem
  <2>6. PICK m : m = modN /\ m \in Nat \ {0}
    BY WordFacts
  <2>7. CASE Lossy(modN)
    <3>1. ~ (x >= WordMod)
      BY <2>2, <2>4, <2>7
    <3>2. x \in 0 .. WordMod - 1
      BY <2>3, <3>1, WordFacts
    <3>3. Rem(x, WordMod) = x
      BY <3>2, WordFacts, SmallRemainder
    <3> QED  BY <2>1, <2>3, <2>5, <3>3
  <2>8. CASE ~ Lossy(modN)
    <3>1. Rem(WordMod, m) = 0
      BY <2>6, <2>8 DEF Lossy, Rem
    <3>2. Rem(Rem(x, WordMod), m) = Rem(x, m)
      BY <2>3, <2>6, <3>1, WordFacts, WrapRemainder
    <3> QED  BY <2>1, <2>3, <2>5, <2>6, <3>2
  <2> QED  BY <2>7, <2>8
<1>4. SumMod(modN, f) = Rem(Val(s, e), modN)
  BY <1>2, <1>3, SumOfShares DEF SharesOf
<1> QED  BY <1>1, <1>4

(* Folding the characters in one by one computes the value, reduced. *)
LEMMA HornerIsValue ==
  ASSUME modN \in 1 .. HalfWord - 1, NEW s \in Seq(Code)
  PROVE  Horner(s) = Rem(Val(s, Len(s)), modN)
<1> DEFINE F(k) == Horners!Folded(0, s, 1 .. k)
           T == {k \in Nat : k <= Len(s) => F(k) = Rem(Val(s, k), modN)}
<1>c. \A i \in 1 .. Len(s) : s[i] \in 0 .. HalfWord - 1 /\ s[i] \in Nat
  <2>1. \A i \in 1 .. Len(s) : s[i] \in Code
    OBVIOUS
  <2> QED  BY <2>1, CodeType
<1>m. PICK m : m = modN /\ m \in Nat \ {0} /\ m <= HalfWord - 1
  BY WordFacts
<1>1. 0 \in T
  <2>1. PICK S : S = 1 .. 0
    OBVIOUS
  <2>2. S = {}
    BY <2>1
  <2>3. Horners!Folded(0, s, {}) = 0
    BY Horners!FoldEmpty
  <2>4. Rem(0, m) = 0
    BY <1>m, SmallRemainder
  <2> QED  BY <1>m, <2>1, <2>2, <2>3, <2>4, ValZero
<1>2. ASSUME NEW k \in T PROVE k + 1 \in T
  <2> SUFFICES ASSUME k + 1 <= Len(s) PROVE F(k + 1) = Rem(Val(s, k + 1), modN)
    OBVIOUS
  <2>1. k \in Nat /\ k + 1 \in 1 .. Len(s) /\ \A i \in 1 .. k : s[i] \in Nat
    BY <1>c
  <2>2. PICK v, c, h : v = Val(s, k) /\ c = s[k + 1] /\ h = F(k)
    OBVIOUS
  <2>3. v \in Nat /\ c \in 0 .. HalfWord - 1 /\ h = Rem(v, modN)
    BY <1>c, <2>1, <2>2, ValType
  <2>4. F(k + 1) = HornerStep(c, h)
    <3>1. Horners!PicksGreatest(k + 1)
      BY <2>1, LargestFacts
    <3>2. Horners!Folded(0, s, 1 .. k + 1) = HornerStep(s[k + 1], Horners!Folded(0, s, 1 .. k))
      BY <2>1, <3>1, Horners!FoldUpTo
    <3> QED  BY <2>2, <3>2
  <2>5. h \in 0 .. HalfWord - 1 /\ Rem(h, modN) = Rem(v, modN)
    <3>1. h \in 0 .. m - 1
      BY <1>m, <2>3, RemType
    <3>2. Rem(h, m) = h
      BY <1>m, <3>1, SmallRemainder
    <3>3. h \in 0 .. HalfWord - 1
      BY <1>m, <3>1, WordFacts
    <3> QED  BY <1>m, <2>3, <3>2, <3>3
  <2>6. Mul(h, Alpha) % modN = Rem(v * Alpha, modN)
    BY <2>3, <2>5, ShiftSmall
  <2>7. PICK w : w = v * Alpha /\ w \in Nat
    BY <2>3, WordFacts, NatProduct
  <2>8. Add(Rem(w, modN), c) % modN = Rem(w + c, modN)
    BY <2>3, <2>7, ComeIn
  <2>9. Val(s, k + 1) = v * Alpha + c
    BY <2>1, <2>2, ValStep
  <2> HIDE DEF F
  <2> QED  BY <2>4, <2>6, <2>7, <2>8, <2>9 DEF HornerStep
<1>3. T = Nat
  <2>1. T \subseteq Nat
    OBVIOUS
  <2> HIDE DEF T
  <2> QED  BY <1>1, <1>2, <2>1, Values!NatSetInduction
<1>4. Len(s) \in Nat
  OBVIOUS
<1>5. F(Len(s)) = Rem(Val(s, Len(s)), modN)
  BY <1>3, <1>4
<1>6. Horner(s) = Horners!Folded(0, s, DOMAIN s)
  BY DEF Horner, FoldLeft, Horners!Folded, MapThenFoldSet, Horners!MapThenFoldSet,
         HornerStep, Largest
<1>7. DOMAIN s = 1 .. Len(s)
  OBVIOUS
<1> QED  BY <1>5, <1>6, <1>7

-----------------------------------------------------------------------------
(* The queue of the hasher. *)
Pushed(v, q) == Q!PushTo(q, v)
Pushes == INSTANCE FoldTheorems WITH Op <- Pushed, Choose <- Largest

Held == Code \cup Garbage \cup {0}

Ring(q) == /\ q \in [slots : [Q!Slot -> Held], front : Q!Slot, back : Q!Slot]
           /\ q.front = Q!Advance(q.back)

(* The longest and the shortest term. *)
LEMMA TermFacts ==
  /\ MaxTerm \in Terms /\ MinTerm \in Terms
  /\ MaxTerm \in Nat \ {0} /\ MinTerm \in Nat \ {0}
  /\ \A e \in Terms : e \in Nat \ {0} /\ MinTerm <= e /\ e <= MaxTerm
<1>1. PICK n, U : n = WordMod /\ U = Terms /\ n \in Nat /\ U \in SUBSET (1 .. n) /\ U # {}
  <2>1. PICK n : n = WordMod /\ n \in Nat
    BY WordFacts
  <2>2. Terms \subseteq 1 .. n - 1 /\ Terms # {}
    BY <2>1, RabinAssumption
  <2>3. Terms \in SUBSET (1 .. n)
    BY <2>1, <2>2
  <2> QED  BY <2>1, <2>2, <2>3
<1>2. \E x \in U : \A y \in U : y <= x
  BY <1>1, Values!BoundedHasGreatest
<1>3. U \subseteq Nat
  BY <1>1
<1>4. \E x \in U : \A y \in U : x <= y
  BY <1>1, <1>3, Values!NatHasLeast
<1>5. \A e \in Terms : e \in Nat \ {0}
  BY RabinAssumption, WordFacts
<1>6. \E x \in Terms : \A y \in Terms : x >= y
  BY <1>1, <1>2, <1>5
<1>7. MaxTerm \in Terms /\ \A y \in Terms : MaxTerm >= y
  BY <1>6 DEF MaxTerm, Max
<1>8. MinTerm \in Terms /\ \A y \in Terms : MinTerm <= y
  BY <1>1, <1>4 DEF MinTerm, Min
<1> QED  BY <1>5, <1>7, <1>8

(* What the slots hold are uint32_t values. *)
LEMMA HeldType == \A x \in Held : x \in 0 .. HalfWord - 1 /\ x \in Nat
<1>1. \A x \in Garbage : x \in 0 .. HalfWord - 1
  BY RabinAssumption
<1>2. 0 \in 0 .. HalfWord - 1 /\ \A x \in 0 .. HalfWord - 1 : x \in Nat
  BY WordFacts
<1> QED  BY <1>1, <1>2, CodeType DEF Held

(* at() reads what the slots hold. *)
LEMMA AtType ==
  ASSUME NEW q, Ring(q), NEW i \in 0 .. MaxTerm
  PROVE  Q!At(q, i) \in Held
<1>1. Q!GetEffectiveIndex(q, i) \in Q!Slot
  BY TermFacts DEF Ring, Q!GetEffectiveIndex, Q!Slot
<1> QED  BY <1>1 DEF Ring, Q!At

(* A push keeps the ring and moves what at() reads by one.                 *)
LEMMA PushRing ==
  ASSUME NEW q, Ring(q), NEW v \in Held
  PROVE  /\ Ring(Q!PushTo(q, v))
         /\ \A i \in 0 .. MaxTerm - 1 :
              Q!At(Q!PushTo(q, v), i) = IF i = MaxTerm - 1 THEN v ELSE Q!At(q, i + 1)
<1>1. PICK n, f, b : n = MaxTerm /\ f = q.front /\ b = q.back
  OBVIOUS
<1>2. /\ n \in Nat \ {0} /\ f \in 0 .. n /\ b \in 0 .. n
      /\ f = IF b + 1 > n THEN 0 ELSE b + 1
      /\ q.slots \in [0 .. n -> Held]
  BY <1>1, TermFacts DEF Ring, Q!Slot, Q!Advance
<1>3. PICK r : r = Q!PushTo(q, v)
  OBVIOUS
<1>4. /\ r.slots = [q.slots EXCEPT ![b] = v]
      /\ r.front = Q!Advance(f) /\ r.back = Q!Advance(b)
      /\ r = [slots |-> r.slots, front |-> r.front, back |-> r.back]
  BY <1>1, <1>3 DEF Q!PushTo
<1>5. /\ r.front = IF f + 1 > n THEN 0 ELSE f + 1
      /\ r.back = f
  BY <1>1, <1>2, <1>4 DEF Q!Advance
<1>6. Ring(r)
  <2>1. r.front \in 0 .. n /\ r.back \in 0 .. n
    BY <1>2, <1>5
  <2>2. r.slots \in [0 .. n -> Held]
    BY <1>2, <1>4
  <2>3. r.front = Q!Advance(r.back)
    BY <1>4, <1>5
  <2> QED  BY <1>1, <1>4, <2>1, <2>2, <2>3 DEF Ring, Q!Slot
<1>7. ASSUME NEW i \in 0 .. n - 1
      PROVE  Q!At(r, i) = IF i = n - 1 THEN v ELSE Q!At(q, i + 1)
  <2>1. PICK x, y : x = Q!GetEffectiveIndex(r, i) /\ y = Q!GetEffectiveIndex(q, i + 1)
    OBVIOUS
  <2>2. /\ x = IF i + r.front > n THEN i + r.front - (n + 1) ELSE i + r.front
        /\ y = IF i + 1 + f > n THEN i + 1 + f - (n + 1) ELSE i + 1 + f
    BY <1>1, <2>1 DEF Q!GetEffectiveIndex
  <2>3. /\ i = n - 1 => x = b
        /\ i # n - 1 => x = y /\ y # b
        /\ x \in 0 .. n
    BY <1>2, <1>5, <2>2
  <2>4. Q!At(r, i) = r.slots[x] /\ Q!At(q, i + 1) = q.slots[y]
    BY <2>1 DEF Q!At
  <2> QED  BY <1>2, <1>4, <2>3, <2>4
<1> QED  BY <1>1, <1>3, <1>6, <1>7

(* Pushing the characters of s puts them at the end of the window.         *)
LEMMA FillRing ==
  ASSUME NEW q, Ring(q), NEW s \in Seq(Code), Len(s) <= MaxTerm
  PROVE  LET r == FoldLeft(Q!PushTo, q, s)
         IN  Ring(r) /\ \A i \in 1 .. Len(s) : Q!At(r, MaxTerm - Len(s) + i - 1) = s[i]
<1> DEFINE F(k) == Pushes!Folded(q, s, 1 .. k)
           Good(k) == /\ Ring(F(k))
                      /\ \A i \in 1 .. k : Q!At(F(k), MaxTerm - k + i - 1) = s[i]
           T == {k \in Nat : k <= Len(s) => Good(k)}
<1>m. PICK n : n = MaxTerm /\ n \in Nat \ {0}
  BY TermFacts
<1>1. 0 \in T
  <2>1. PICK S : S = 1 .. 0
    OBVIOUS
  <2>2. S = {}
    BY <2>1
  <2>3. Pushes!Folded(q, s, {}) = q
    BY Pushes!FoldEmpty
  <2>4. F(0) = q
    BY <2>1, <2>2, <2>3
  <2> HIDE DEF F
  <2> QED  BY <2>4
<1>2. ASSUME NEW k \in T PROVE k + 1 \in T
  <2> SUFFICES ASSUME k + 1 <= Len(s) PROVE Good(k + 1)
    OBVIOUS
  <2>1. k \in Nat /\ k + 1 \in 1 .. Len(s) /\ Good(k)
    OBVIOUS
  <2>2. s[k + 1] \in Held
    BY <2>1 DEF Held
  <2>3. F(k + 1) = Q!PushTo(F(k), s[k + 1])
    <3>1. Pushes!PicksGreatest(k + 1)
      BY <2>1, LargestFacts DEF Values!PicksGreatest, Pushes!PicksGreatest
    <3>2. Pushes!Folded(q, s, 1 .. k + 1) = Pushed(s[k + 1], Pushes!Folded(q, s, 1 .. k))
      BY <2>1, <3>1, Pushes!FoldUpTo
    <3> QED  BY <3>2 DEF Pushed
  <2>4. PICK a, b, v : a = F(k) /\ b = F(k + 1) /\ v = s[k + 1]
    OBVIOUS
  <2> HIDE DEF F
  <2>5. Ring(a) /\ \A i \in 1 .. k : Q!At(a, MaxTerm - k + i - 1) = s[i]
    BY <2>1, <2>4
  <2>6. b = Q!PushTo(a, v) /\ v \in Held
    BY <2>2, <2>3, <2>4
  <2>7. /\ Ring(b)
        /\ \A i \in 0 .. n - 1 : Q!At(b, i) = IF i = n - 1 THEN v ELSE Q!At(a, i + 1)
    BY <1>m, <2>5, <2>6, PushRing
  <2>8. ASSUME NEW i \in 1 .. k + 1
        PROVE  Q!At(b, n - (k + 1) + i - 1) = s[i]
    <3>1. PICK j : j = n - (k + 1) + i - 1
      OBVIOUS
    <3>2. k + 1 <= n
      BY <1>m, <2>1
    <3>3. j \in 0 .. n - 1 /\ (j = n - 1 <=> i = k + 1) /\ j + 1 = n - k + i - 1
      BY <1>m, <2>1, <3>1, <3>2
    <3>4. CASE i = k + 1
      BY <2>4, <2>7, <3>1, <3>3, <3>4
    <3>5. CASE i # k + 1
      <4>1. i \in 1 .. k
        BY <2>1, <3>5
      <4>2. Q!At(a, j + 1) = s[i]
        BY <1>m, <2>5, <3>3, <4>1
      <4> QED  BY <2>7, <3>1, <3>3, <3>5, <4>2
    <3> QED  BY <3>4, <3>5
  <2> QED  BY <1>m, <2>4, <2>7, <2>8
<1>3. T = Nat
  <2>1. T \subseteq Nat
    OBVIOUS
  <2> HIDE DEF T
  <2> QED  BY <1>1, <1>2, <2>1, Values!NatSetInduction
<1>4. Good(Len(s))
  <2>1. Len(s) \in Nat
    OBVIOUS
  <2> QED  BY <1>3, <2>1
<1>5. FoldLeft(Q!PushTo, q, s) = F(Len(s))
  <2>1. DOMAIN s = 1 .. Len(s)
    OBVIOUS
  <2>2. FoldLeft(Q!PushTo, q, s) = Pushes!Folded(q, s, DOMAIN s)
    BY DEF FoldLeft, Pushes!Folded, MapThenFoldSet, Pushes!MapThenFoldSet, Pushed, Largest
  <2> QED  BY <2>1, <2>2
<1> HIDE DEF F
<1> QED  BY <1>4, <1>5

-----------------------------------------------------------------------------
(* The characters from position p on, and those in the queue.              *)
Ahead(p) == [i \in 1 .. MaxTerm |-> target[p + i]]
InQueue(q) == [i \in 1 .. MaxTerm |-> Q!At(q, i - 1)]

(* The remainder of the value of the window that is in the queue. *)
HashIn(q, e) == Rem(Val(InQueue(q), e), modN)

(* The cursors determine each other, and a short text is read at once.     *)
CursorsInStep ==
  /\ currentOffset = it
  /\ it + Missing = position + MaxTerm - overFlowOffset
  /\ overFlowOffset > 0 \/ Missing > 0 => it = Len(target)

WindowInPlace ==
  \A i \in 0 .. MaxTerm - 1 :
    position + i >= Missing =>
      Q!At(cpQueue, i) = IF position + i - Missing < Len(target)
                         THEN target[position + i - Missing + 1] ELSE 0

HashesInPlace ==
  \A e \in Terms \ inexact :
    IF e <= Len(target)
    THEN currentHashes[e] =
           IF position + e > Missing + Len(target) THEN 0 ELSE HashIn(cpQueue, e)
    ELSE position = 0 \/ position + e > MaxTerm => currentHashes[e] = 0

HInv == /\ HashTypeOK /\ Ring(cpQueue)
        /\ CursorsInStep /\ WindowInPlace /\ HashesInPlace

(* The characters of the text are code points. *)
LEMMA TextFacts ==
  ASSUME target \in Texts
  PROVE  /\ target \in Seq(Code) /\ Len(target) \in Nat
         /\ \A i \in 1 .. Len(target) : target[i] \in Code /\ target[i] \in 0 .. HalfWord - 1
                                        /\ target[i] \in Nat
<1>1. target \in Seq(Code)
  BY RabinAssumption
<1>2. Len(target) \in Nat /\ \A i \in 1 .. Len(target) : target[i] \in Code
  BY <1>1
<1> QED  BY <1>1, <1>2, CodeType

(* The modulus is a positive uint32_t value. *)
LEMMA ModFacts ==
  ASSUME modN \in ModNs
  PROVE  modN \in 1 .. HalfWord - 1 /\ modN \in Nat \ {0} /\ 0 \in 0 .. modN - 1
<1>1. modN \in 1 .. HalfWord - 1
  BY RabinAssumption
<1> QED  BY <1>1, WordFacts

(* initialize() reads the text up to its end or the longest term. *)
LEMMA ReachFacts ==
  ASSUME target \in Texts
  PROVE  /\ Reach(target) \in 0 .. Len(target) /\ Reach(target) <= MaxTerm
         /\ Missing \in Nat /\ Missing = MaxTerm - Reach(target)
         /\ Missing > 0 => Reach(target) = Len(target)
<1>1. PICK n, l : n = MaxTerm /\ l = Len(target) /\ n \in Nat /\ l \in Nat
  BY TermFacts, TextFacts
<1>2. \E x \in {n, l} : \A y \in {n, l} : x <= y
  BY <1>1
<1>3. PICK r : r = Reach(target)
  OBVIOUS
<1>4. r \in {n, l} /\ r <= n /\ r <= l
  BY <1>1, <1>2, <1>3 DEF Reach, Min
<1>5. r \in 0 .. l /\ n - r \in Nat /\ (n - r > 0 => r = l)
  BY <1>1, <1>4
<1> QED  BY <1>1, <1>3, <1>4, <1>5 DEF Missing

(* initialize() puts what it reads at the end of the window.               *)
LEMMA Refilled ==
  ASSUME target \in Texts, NEW q, Ring(q)
  PROVE  LET r == Filled(q, target)
         IN  /\ Ring(r)
             /\ \A i \in 0 .. MaxTerm - 1 :
                  i >= Missing => /\ i - Missing < Len(target)
                                  /\ Q!At(r, i) = target[i - Missing + 1]
<1>1. PICK n, s, r, g, m : /\ n = Reach(target) /\ s = SubSeq(target, 1, n)
                           /\ r = FoldLeft(Q!PushTo, q, s) /\ g = Missing /\ m = MaxTerm
  OBVIOUS
<1>2. /\ n \in 0 .. Len(target) /\ n <= m /\ target \in Seq(Code) /\ m \in Nat
      /\ g = m - n /\ Len(target) \in Nat
  BY <1>1, ReachFacts, TextFacts, TermFacts
<1>3. s \in Seq(Code) /\ Len(s) = n /\ \A i \in 1 .. n : s[i] = target[i]
  <2>1. target \in Seq(Code) /\ n \in 0 .. Len(target) /\ s = SubSeq(target, 1, n)
    BY <1>1, <1>2
  <2> QED  BY <2>1
<1>4. Ring(r) /\ \A i \in 1 .. Len(s) : Q!At(r, m - Len(s) + i - 1) = s[i]
  <2>1. Len(s) <= MaxTerm
    BY <1>1, <1>2, <1>3
  <2> QED  BY <1>1, <1>3, <2>1, FillRing
<1>5. ASSUME NEW i \in 0 .. m - 1, i >= g
      PROVE  i - g < Len(target) /\ Q!At(r, i) = target[i - g + 1]
  <2>1. PICK j : j = i - g + 1
    OBVIOUS
  <2>2. j \in 1 .. n /\ m - n + j - 1 = i /\ i - g < Len(target)
    BY <1>2, <1>5, <2>1
  <2>3. Q!At(r, m - n + j - 1) = target[j]
    BY <1>3, <1>4, <2>2
  <2> QED  BY <2>1, <2>2, <2>3
<1>6. Filled(q, target) = r
  BY <1>1 DEF Filled
<1> QED  BY <1>1, <1>4, <1>5, <1>6

(* The constructor's queue, over whatever memory held. *)
LEMMA NewRing ==
  ASSUME NEW memory \in [Q!Slot -> Garbage]
  PROVE  Ring([Q!NewQueue EXCEPT !.slots = memory])
<1>1. PICK n, q : n = MaxTerm /\ n \in Nat \ {0} /\ q = [Q!NewQueue EXCEPT !.slots = memory]
  BY TermFacts
<1>2. q = [slots |-> memory, front |-> 0, back |-> n]
  BY <1>1 DEF Q!NewQueue
<1>3. memory \in [Q!Slot -> Held]
  BY DEF Held
<1>4. 0 \in Q!Slot /\ n \in Q!Slot /\ Q!Advance(n) = 0
  BY <1>1 DEF Q!Slot, Q!Advance
<1>5. q.front = Q!Advance(q.back)
  BY <1>2, <1>4
<1>6. q \in [slots : [Q!Slot -> Held], front : Q!Slot, back : Q!Slot]
  BY <1>2, <1>3, <1>4
<1> QED  BY <1>1, <1>5, <1>6 DEF Ring

(* The hashes that initialize() computes. *)
LEMMA InitialType ==
  ASSUME modN \in ModNs, target \in Texts, NEW q, Ring(q)
  PROVE  InitialHashes(q, modN, target) \in [Terms -> 0 .. modN - 1]
<1> SUFFICES ASSUME NEW e \in Terms, ~ (Len(target) < e)
             PROVE  SumMod(modN, Summands(q, modN, e)) \in 0 .. modN - 1
  BY ModFacts DEF InitialHashes
<1>1. PICK m, f : m = modN /\ m \in Nat \ {0} /\ m <= HalfWord - 1 /\ f = Summands(q, modN, e)
  BY ModFacts, WordFacts
<1>2. e \in Nat \ {0} /\ e <= MaxTerm /\ MaxTerm \in Nat
  BY TermFacts
<1>3. DOMAIN f = 0 .. e - 1
  BY <1>1 DEF Summands
<1>4. IsFiniteSet(0 .. e - 1)
  BY <1>2, FS_Interval
<1>5. ASSUME NEW i \in 0 .. e - 1 PROVE f[i] \in 0 .. m - 1
  <2>1. i \in 0 .. MaxTerm /\ e - 1 - i \in Nat
    BY <1>2
  <2>2. Q!At(q, i) \in Nat /\ Power(e - 1 - i) \in Nat
    BY <2>1, AtType, HeldType, PowerType
  <2>3. PICK x : x = Product(q, e, i) /\ x \in Nat
    BY <2>2, NatProduct DEF Product
  <2>4. f[i] = Rem(Rem(x, WordMod), m)
    BY <1>1, <2>3 DEF Summands, Rem
  <2>5. Rem(x, WordMod) \in Nat
    BY <2>3, WordFacts, RemType
  <2> QED  BY <1>1, <2>4, <2>5, RemType
<1>6. SumMod(modN, f) \in 0 .. modN - 1
  <2>1. IsFiniteSet(DOMAIN f) /\ \A x \in DOMAIN f : f[x] \in 0 .. modN - 1
    BY <1>1, <1>3, <1>4, <1>5
  <2> QED  BY <2>1, ModFacts, SumModType
<1> QED  BY <1>1, <1>6

(* What is in the queue are the digits of its window.                      *)
LEMMA InQueueFacts ==
  ASSUME NEW q, Ring(q), NEW i \in 1 .. MaxTerm
  PROVE  /\ InQueue(q)[i] = Q!At(q, i - 1)
         /\ InQueue(q)[i] \in 0 .. HalfWord - 1 /\ InQueue(q)[i] \in Nat
<1>1. i - 1 \in 0 .. MaxTerm
  BY TermFacts
<1>2. Q!At(q, i - 1) \in 0 .. HalfWord - 1 /\ Q!At(q, i - 1) \in Nat
  BY <1>1, AtType, HeldType
<1> QED  BY <1>2 DEF InQueue

(* The first hashes are those of the first windows in the queue. *)
LEMMA InitialValue ==
  ASSUME modN \in ModNs, target \in Texts, NEW q, Ring(q),
         NEW e \in Terms, e \notin InitiallyInexact(q, modN), e <= Len(target)
  PROVE  InitialHashes(q, modN, target)[e] = HashIn(q, e)
<1>1. PICK s : s = InQueue(q)
  OBVIOUS
<1>2. e \in Nat \ {0} /\ e <= MaxTerm /\ MaxTerm \in Nat /\ Len(target) \in Nat
  BY TermFacts, TextFacts
<1>3. \A i \in 1 .. e : s[i] \in Nat /\ Q!At(q, i - 1) = s[i]
  <2> SUFFICES ASSUME NEW i \in 1 .. e PROVE s[i] \in Nat /\ Q!At(q, i - 1) = s[i]
    OBVIOUS
  <2>1. i \in 1 .. MaxTerm
    BY <1>2
  <2> QED  BY <1>1, <2>1, InQueueFacts
<1>4. ~ (Lossy(modN) /\ \E i \in 0 .. e - 1 : Product(q, e, i) >= WordMod)
  BY DEF InitiallyInexact
<1>5. SumMod(modN, Summands(q, modN, e)) = Rem(Val(s, e), modN)
  BY <1>2, <1>3, <1>4, ModFacts, FirstSum
<1>6. InitialHashes(q, modN, target)[e] = SumMod(modN, Summands(q, modN, e))
  BY <1>2 DEF InitialHashes
<1> QED  BY <1>1, <1>5, <1>6 DEF HashIn

(* The share of a character x at the front of a window of e characters. *)
Share(e, x) == Mul(Power(e - 1) % modN, x) % modN

(* One step of one window s, to the window t: out, shift, in. *)
LEMMA RollWindow ==
  ASSUME modN \in ModNs, NEW e \in Nat \ {0}, NEW s, NEW t,
         \A i \in 1 .. e : s[i] \in 0 .. HalfWord - 1 /\ t[i] \in 0 .. HalfWord - 1,
         \A i \in 1 .. e - 1 : t[i] = s[i + 1],
         ~ (Lossy(modN) /\ Rem(Val(s, e), modN) < Share(e, s[1]))
  PROVE  LET h == Sub(Rem(Val(s, e), modN), Share(e, s[1]))
         IN  /\ Add(Mul(h, Alpha) % modN, t[e]) % modN = Rem(Val(t, e), modN)
             /\ Add(Mul(h % modN, Alpha) % modN, t[e]) % modN = Rem(Val(t, e), modN)
<1>1. PICK c : c = t[e]
  OBVIOUS
<1>2. \A x \in 0 .. HalfWord - 1 : x \in Nat
  BY WordFacts
<1>3. \A i \in 1 .. e : s[i] \in Nat /\ t[i] \in Nat
  BY <1>2
<1>5. PICK k, b, u, g : k = e - 1 /\ b = Power(k) * s[1] /\ u = Val(t, k) /\ g = Power(k)
  OBVIOUS
<1>6. k \in Nat /\ k + 1 = e /\ g \in Nat
  BY <1>5, PowerType
<1>7. b \in Nat /\ u \in Nat
  <2>1. s[1] \in Nat /\ \A i \in 1 .. k : t[i] \in Nat
    BY <1>3, <1>6
  <2> QED  BY <1>5, <1>6, <2>1, NatProduct, ValType
<1>8. Val(s, e) = b + u
  <2>1. \A i \in 1 .. k + 1 : s[i] \in Nat
    BY <1>3, <1>6
  <2>2. \A i \in 1 .. k : t[i] = s[i + 1]
    BY <1>5
  <2>3. Val(s, k + 1) = Power(k) * s[1] + Val(t, k)
    BY <1>6, <2>1, <2>2, FirstDigit
  <2> QED  BY <1>5, <1>6, <2>3
<1>10. Share(e, s[1]) = Rem(b, modN)
  <2>1. PICK a : a = s[1] /\ a \in 0 .. HalfWord - 1
    OBVIOUS
  <2>2. Share(e, a) = Mul(g % modN, a) % modN
    BY <1>5 DEF Share
  <2>3. Mul(g % modN, a) % modN = Rem(g * a, modN)
    BY <1>6, <2>1, ModFacts, ShareValue
  <2> QED  BY <1>5, <2>1, <2>2, <2>3
<1>11. ~ Borrowed(b, u)
  BY <1>8, <1>10 DEF Borrowed
<1>12. c \in 0 .. HalfWord - 1
  BY <1>1
<1>13. /\ Add(Mul(Without(b, u), Alpha) % modN, c) % modN = Rem(u * Alpha + c, modN)
       /\ Add(Mul(Without(b, u) % modN, Alpha) % modN, c) % modN = Rem(u * Alpha + c, modN)
  BY <1>7, <1>11, <1>12, ModFacts, RolledValue
<1>14. Without(b, u) = Sub(Rem(Val(s, e), modN), Share(e, s[1]))
  BY <1>8, <1>10 DEF Without
<1>15. Val(t, e) = u * Alpha + c
  <2>1. Val(t, k + 1) = Val(t, k) * Alpha + t[k + 1]
    BY <1>6, ValStep
  <2> QED  BY <1>1, <1>5, <1>6, <2>1
<1> QED  BY <1>1, <1>13, <1>14, <1>15

(* The same for the windows of the text. *)
LEMMA RollAhead ==
  ASSUME modN \in ModNs, target \in Texts, NEW e \in Terms, NEW p \in Nat,
         p + e < Len(target),
         ~ (Lossy(modN) /\ Rem(Val(Ahead(p), e), modN) < Share(e, target[p + 1]))
  PROVE  Add(Mul(Sub(Rem(Val(Ahead(p), e), modN), Share(e, target[p + 1])), Alpha) % modN,
             target[p + e + 1]) % modN
           = Rem(Val(Ahead(p + 1), e), modN)
<1>1. PICK n, l, s, t : n = MaxTerm /\ l = Len(target) /\ s = Ahead(p) /\ t = Ahead(p + 1)
  OBVIOUS
<1>2. n \in Nat /\ l \in Nat /\ e \in Nat \ {0} /\ e <= n /\ p + e < l
  BY <1>1, TermFacts, TextFacts
<1>3. ASSUME NEW i \in 1 .. e
      PROVE  /\ s[i] = target[p + i] /\ s[i] \in 0 .. HalfWord - 1
             /\ t[i] = target[p + i + 1] /\ t[i] \in 0 .. HalfWord - 1
  <2>1. i \in 1 .. n /\ p + i \in 1 .. l /\ p + i + 1 \in 1 .. l /\ (p + 1) + i = p + i + 1
    BY <1>2
  <2> QED  BY <1>1, <2>1, TextFacts DEF Ahead
<1>4. \A i \in 1 .. e - 1 : t[i] = s[i + 1]
  <2> SUFFICES ASSUME NEW i \in 1 .. e - 1 PROVE t[i] = s[i + 1]
    OBVIOUS
  <2>1. i \in 1 .. e /\ i + 1 \in 1 .. e /\ p + (i + 1) = p + i + 1
    BY <1>2
  <2> QED  BY <1>3, <2>1
<1>5. s[1] = target[p + 1] /\ t[e] = target[p + e + 1]
  <2>1. 1 \in 1 .. e /\ e \in 1 .. e
    BY <1>2
  <2> QED  BY <1>3, <2>1
<1>6. ~ (Lossy(modN) /\ Rem(Val(s, e), modN) < Share(e, s[1]))
  BY <1>1, <1>5
<1>7. Add(Mul(Sub(Rem(Val(s, e), modN), Share(e, s[1])), Alpha) % modN, t[e]) % modN
        = Rem(Val(t, e), modN)
  BY <1>2, <1>3, <1>4, <1>6, RollWindow
<1> QED  BY <1>1, <1>5, <1>7

(* One step of one term, when v is pushed. *)
LEMMA RollTerm ==
  ASSUME modN \in ModNs, NEW e \in Terms, Ring(cpQueue), NEW v, NEW r, Ring(r),
         \A i \in 0 .. MaxTerm - 1 :
           Q!At(r, i) = IF i = MaxTerm - 1 THEN v ELSE Q!At(cpQueue, i + 1),
         currentHashes[e] = HashIn(cpQueue, e), ~ Borrows(e)
  PROVE  LET c == IF e = MaxTerm THEN v ELSE Q!At(cpQueue, e)
         IN  Rolled(e, c) = HashIn(r, e) /\ RolledReduced(e, c) = HashIn(r, e)
<1>1. PICK n, s, t : n = MaxTerm /\ s = InQueue(cpQueue) /\ t = InQueue(r)
  OBVIOUS
<1>2. n \in Nat \ {0} /\ e \in Nat \ {0} /\ e <= n
  BY <1>1, TermFacts
<1>3. ASSUME NEW i \in 1 .. e
      PROVE  /\ s[i] = Q!At(cpQueue, i - 1) /\ s[i] \in 0 .. HalfWord - 1
             /\ t[i] = (IF i = n THEN v ELSE Q!At(cpQueue, i)) /\ t[i] \in 0 .. HalfWord - 1
  <2>1. i \in 1 .. n /\ i - 1 \in 0 .. n - 1 /\ (i - 1) + 1 = i /\ (i - 1 = n - 1 <=> i = n)
    BY <1>2
  <2>2. Q!At(r, i - 1) = IF i = n THEN v ELSE Q!At(cpQueue, i)
    BY <1>1, <2>1
  <2> QED  BY <1>1, <2>1, <2>2, InQueueFacts
<1>4. \A i \in 1 .. e - 1 : t[i] = s[i + 1]
  <2> SUFFICES ASSUME NEW i \in 1 .. e - 1 PROVE t[i] = s[i + 1]
    OBVIOUS
  <2>1. i \in 1 .. e /\ i + 1 \in 1 .. e /\ i # n /\ (i + 1) - 1 = i
    BY <1>2
  <2> QED  BY <1>3, <2>1
<1>5. Departing(e) = Share(e, s[1])
  <2>1. 1 \in 1 .. e /\ 1 - 1 = 0
    BY <1>2
  <2> QED  BY <1>3, <2>1 DEF Departing, Share
<1>6. currentHashes[e] = Rem(Val(s, e), modN) /\ HashIn(r, e) = Rem(Val(t, e), modN)
  BY <1>1 DEF HashIn
<1>7. ~ (Lossy(modN) /\ Rem(Val(s, e), modN) < Share(e, s[1]))
  BY <1>5, <1>6 DEF Borrows
<1>8. t[e] = IF e = MaxTerm THEN v ELSE Q!At(cpQueue, e)
  BY <1>1, <1>2, <1>3
<1>9. LET h == Sub(Rem(Val(s, e), modN), Share(e, s[1]))
      IN  /\ Add(Mul(h, Alpha) % modN, t[e]) % modN = Rem(Val(t, e), modN)
          /\ Add(Mul(h % modN, Alpha) % modN, t[e]) % modN = Rem(Val(t, e), modN)
  BY <1>2, <1>3, <1>4, <1>7, RollWindow
<1> QED  BY <1>5, <1>6, <1>8, <1>9 DEF Rolled, RolledReduced

(* Types that the invariant gives. *)
LEMMA HashTypes ==
  HInv => /\ modN \in ModNs /\ target \in Texts /\ it \in 0 .. Len(target)
          /\ overFlowOffset \in 0 .. MaxTerm - MinTerm /\ position \in Nat
          /\ currentHashes \in [Terms -> 0 .. modN - 1]
BY DEF HInv, HashTypeOK

(* What Init and Reset establish. *)
Restarted(q) ==
  /\ target \in Texts /\ modN \in ModNs /\ Ring(q)
  /\ cpQueue = Filled(q, target)
  /\ it = Reach(target) /\ currentOffset = Reach(target) /\ overFlowOffset = 0
  /\ currentHashes = InitialHashes(cpQueue, modN, target)
  /\ inexact = InitiallyInexact(cpQueue, modN)
  /\ position = 0 /\ resets \in 0 .. MaxResets

(* After initialize() the invariant holds. *)
LEMMA RestartedHInv == ASSUME NEW q, Restarted(q) PROVE HInv
<1> USE DEF Restarted
<1>1. Ring(cpQueue)
  BY Refilled
<1>3. HashTypeOK
  <2>1. it \in 0 .. Len(target) /\ currentOffset \in 0 .. Len(target)
    BY ReachFacts
  <2>2. overFlowOffset \in 0 .. MaxTerm - MinTerm
    BY TermFacts
  <2>3. cpQueue \in [slots : [Q!Slot -> Code \cup Garbage \cup {0}], front : Q!Slot, back : Q!Slot]
    BY <1>1 DEF Ring, Held
  <2>4. currentHashes \in [Terms -> 0 .. modN - 1]
    BY <1>1, InitialType
  <2>5. inexact \subseteq Terms
    BY DEF InitiallyInexact
  <2> QED  BY <2>1, <2>2, <2>3, <2>4, <2>5 DEF HashTypeOK
<1>4. CursorsInStep
  <2>1. it + Missing = position + MaxTerm - overFlowOffset
    BY ReachFacts, TermFacts, TextFacts
  <2> QED  BY <2>1, ReachFacts DEF CursorsInStep
<1>5. WindowInPlace
  <2> SUFFICES ASSUME NEW i \in 0 .. MaxTerm - 1, i >= Missing
               PROVE  /\ i - Missing < Len(target)
                      /\ Q!At(cpQueue, i) = target[i - Missing + 1]
    <3>1. position = 0 /\ MaxTerm \in Nat /\ target \in Texts
      BY TermFacts
    <3> HIDE DEF Restarted
    <3>2. ASSUME NEW i \in 0 .. MaxTerm - 1, position + i >= Missing
          PROVE  Q!At(cpQueue, i) = IF position + i - Missing < Len(target)
                                    THEN target[position + i - Missing + 1] ELSE 0
      <4>1. position + i = i
        BY <3>1
      <4>2. i >= Missing
        BY <4>1, <3>2
      <4>3. i - Missing < Len(target) /\ Q!At(cpQueue, i) = target[i - Missing + 1]
        BY <4>2
      <4>4. position + i - Missing = i - Missing
        <5>1. Missing \in Nat /\ i \in Nat
          BY <3>1, ReachFacts
        <5> QED  BY <3>1, <5>1
      <4> QED  BY <4>3, <4>4
    <3> QED  BY <3>2 DEF WindowInPlace
  <2> QED  BY Refilled
<1>6. HashesInPlace
  <2> SUFFICES ASSUME NEW e \in Terms \ inexact
               PROVE  currentHashes[e] = IF e <= Len(target) THEN HashIn(cpQueue, e) ELSE 0
    <3>1. \A e \in Terms : e <= Len(target) => ~ (0 + e > Missing + Len(target))
      BY ReachFacts, TermFacts, TextFacts
    <3> QED  BY <3>1 DEF HashesInPlace
  <2>1. CASE e <= Len(target)
    BY <1>1, <2>1, InitialValue
  <2>2. CASE ~ (e <= Len(target))
    <3>1. Len(target) < e
      BY <2>2, TermFacts, TextFacts
    <3> QED  BY <2>2, <3>1 DEF InitialHashes
  <2> QED  BY <2>1, <2>2
<1> QED  BY <1>1, <1>3, <1>4, <1>5, <1>6 DEF HInv

(* The constructor establishes it. *)
LEMMA InitHInv == HashInit => HInv
<1> SUFFICES ASSUME HashInit PROVE HInv
  OBVIOUS
<1>1. PICK memory \in [Q!Slot -> Garbage] :
        cpQueue = Filled([Q!NewQueue EXCEPT !.slots = memory], target)
  BY DEF HashInit
<1>2. PICK q : q = [Q!NewQueue EXCEPT !.slots = memory]
  OBVIOUS
<1>3. Restarted(q)
  BY <1>1, <1>2, NewRing, RabinAssumption DEF Restarted, HashInit
<1> QED  BY <1>3, RestartedHInv

(* reset() establishes it again. *)
LEMMA ResetHInv == HInv /\ Reset => HInv'
<1> SUFFICES ASSUME HInv, Reset PROVE HInv'
  OBVIOUS
<1>1. PICK q : q = cpQueue
  OBVIOUS
<1>2. PICK r : r = Filled(q, target)
  OBVIOUS
<1>3. /\ target' = target /\ modN' = modN /\ cpQueue' = r
      /\ it' = Reach(target) /\ currentOffset' = Reach(target) /\ overFlowOffset' = 0
      /\ currentHashes' = InitialHashes(r, modN, target)
      /\ inexact' = InitiallyInexact(r, modN)
      /\ position' = 0 /\ resets' = resets + 1 /\ resets < MaxResets
  BY <1>1, <1>2 DEF Reset
<1>4. Ring(q) /\ target \in Texts /\ modN \in ModNs /\ resets \in 0 .. MaxResets
  BY <1>1 DEF HInv, HashTypeOK
<1>5. resets' \in 0 .. MaxResets
  BY <1>3, <1>4, RabinAssumption
<1>6. Restarted(q)'
  BY <1>2, <1>3, <1>4, <1>5 DEF Restarted
<1>7. Restarted(q)' => HInv'
  BY RestartedHInv, PTL
<1> QED  BY <1>6, <1>7

(* A remainder by the modulus is a hash. *)
LEMMA RemainderType ==
  ASSUME modN \in ModNs, NEW x \in Nat
  PROVE  x % modN \in 0 .. modN - 1
<1>1. PICK m : m = modN /\ m \in Nat \ {0}
  BY ModFacts
<1>2. Rem(x, m) \in 0 .. m - 1
  BY <1>1, RemType
<1> QED  BY <1>1, <1>2 DEF Rem

(* Word arithmetic yields naturals. *)
LEMMA WordType ==
  ASSUME NEW x \in Nat, NEW y \in Nat
  PROVE  Add(x, y) \in Nat /\ Mul(x, y) \in Nat
<1>1. PICK w : w = WordMod /\ w \in Nat \ {0}
  BY WordFacts
<1>2. x + y \in Nat /\ x * y \in Nat
  BY NatProduct
<1>3. Rem(x + y, w) \in Nat /\ Rem(x * y, w) \in Nat
  BY <1>1, <1>2, RemType
<1> QED  BY <1>1, <1>3 DEF Add, Mul, Rem

(* Whatever it wraps to, a step leaves a remainder. *)
LEMMA RolledType ==
  ASSUME HInv, NEW e \in Terms, NEW c \in Nat
  PROVE  Rolled(e, c) \in 0 .. modN - 1 /\ RolledReduced(e, c) \in 0 .. modN - 1
<1>1. modN \in ModNs /\ modN \in Nat \ {0} /\ currentHashes[e] \in Nat
  <2>1. modN \in ModNs /\ modN \in Nat \ {0}
    BY HashTypes, ModFacts
  <2>2. currentHashes[e] \in 0 .. modN - 1
    BY HashTypes
  <2> QED  BY <2>1, <2>2
<1>2. \A x \in Nat : x % modN \in Nat
  BY <1>1, RemainderType
<1>3. Departing(e) \in Nat /\ Departing(e) <= WordMod
  <2>1. Q!At(cpQueue, 0) \in Nat
    BY TermFacts, AtType, HeldType DEF HInv
  <2>2. Power(e - 1) \in Nat
    BY TermFacts, PowerType
  <2>3. PICK x : x = Mul(Power(e - 1) % modN, Q!At(cpQueue, 0)) /\ x \in Nat
    BY <1>2, <2>1, <2>2, WordType
  <2>4. x % modN \in 0 .. modN - 1 /\ modN <= HalfWord
    BY <1>1, <2>3, RemainderType, ModFacts, WordFacts
  <2>5. Departing(e) = x % modN
    BY <2>3 DEF Departing
  <2>6. PICK d : d = x % modN /\ d \in Nat /\ d <= modN - 1
    BY <1>1, <2>4
  <2> QED  BY <1>1, <2>4, <2>5, <2>6, WordFacts
<1>4. PICK h : h = Sub(currentHashes[e], Departing(e)) /\ h \in Nat
  BY <1>1, <1>3, WordFacts DEF Sub
<1>5. Alpha \in Nat
  BY WordFacts
<1>6. Mul(h, Alpha) % modN \in Nat /\ Mul(h % modN, Alpha) % modN \in Nat
  BY <1>2, <1>4, <1>5, WordType
<1>7. Add(Mul(h, Alpha) % modN, c) \in Nat /\ Add(Mul(h % modN, Alpha) % modN, c) \in Nat
  BY <1>6, WordType
<1> QED  BY <1>1, <1>4, <1>7, RemainderType DEF Rolled, RolledReduced

(* A step that reads a character keeps the invariant. *)
LEMMA PreHInv == HInv /\ PreOverflowStep => HInv'
<1> SUFFICES ASSUME HInv, PreOverflowStep PROVE HInv'
  OBVIOUS
<1>1. PICK c, p, l, n : c = target[it + 1] /\ p = position /\ l = Len(target) /\ n = MaxTerm
  OBVIOUS
<1>2. /\ it # l /\ cpQueue' = Q!PushTo(cpQueue, c)
      /\ it' = it + 1 /\ currentOffset' = currentOffset + 1 /\ position' = p + 1
      /\ target' = target /\ modN' = modN /\ overFlowOffset' = overFlowOffset /\ resets' = resets
      /\ inexact' = inexact \cup {e \in Terms : Borrows(e)}
      /\ currentHashes' =
           [e \in Terms |-> Rolled(e, IF e = MaxTerm THEN c ELSE Q!At(cpQueue, e))]
  BY <1>1 DEF PreOverflowStep
<1>3. /\ target \in Texts /\ modN \in ModNs /\ it \in 0 .. l /\ l \in Nat /\ p \in Nat
      /\ n \in Nat \ {0} /\ Ring(cpQueue) /\ overFlowOffset \in 0 .. MaxTerm - MinTerm
      /\ resets \in 0 .. MaxResets /\ inexact \subseteq Terms
  BY <1>1, HashTypes, TextFacts, TermFacts DEF HInv, HashTypeOK
<1>8. /\ it < l /\ it = p + n /\ overFlowOffset = 0 /\ Missing = 0 /\ Missing' = 0
      /\ \A i \in 0 .. n - 1 :
           Q!At(cpQueue, i) = IF p + i < l THEN target[p + i + 1] ELSE 0
  <2>1. /\ it + Missing = p + n - overFlowOffset /\ ~ (overFlowOffset > 0) /\ ~ (Missing > 0)
        /\ overFlowOffset \in Nat /\ Missing \in Nat
    BY <1>1, <1>2, <1>3, ReachFacts, TermFacts DEF HInv, CursorsInStep
  <2>2. Missing = 0 /\ overFlowOffset = 0 /\ it = p + n /\ it < l
    BY <1>2, <1>3, <2>1
  <2>3. Missing' = Missing
    BY <1>2 DEF Missing, Reach
  <2>4. \A i \in 0 .. n - 1 : p + i >= 0 /\ p + i - 0 = p + i
    BY <1>3
  <2> QED  BY <1>1, <2>2, <2>3, <2>4 DEF HInv, WindowInPlace
<1>4. c \in Held /\ c \in Nat
  <2>1. it + 1 \in 1 .. l
    BY <1>3, <1>8
  <2> QED  BY <1>1, <1>3, <2>1, TextFacts DEF Held
<1>5. /\ Ring(cpQueue')
      /\ \A i \in 0 .. n - 1 : Q!At(cpQueue', i) = IF i = n - 1 THEN c ELSE Q!At(cpQueue, i + 1)
  BY <1>1, <1>2, <1>3, <1>4, PushRing
<1>6. HashTypeOK'
  <2>1. it' \in 0 .. Len(target') /\ currentOffset' \in 0 .. Len(target')
    BY <1>1, <1>2, <1>3, <1>8 DEF HInv, CursorsInStep
  <2>2. overFlowOffset' \in 0 .. MaxTerm - MinTerm /\ resets' \in 0 .. MaxResets /\ position' \in Nat
    BY <1>2, <1>3
  <2>3. cpQueue' \in [slots : [Q!Slot -> Code \cup Garbage \cup {0}], front : Q!Slot, back : Q!Slot]
    BY <1>5 DEF Ring, Held
  <2>4. currentHashes' \in [Terms -> 0 .. modN' - 1]
    <3> SUFFICES ASSUME NEW e \in Terms
                 PROVE  Rolled(e, IF e = MaxTerm THEN c ELSE Q!At(cpQueue, e)) \in 0 .. modN - 1
      BY <1>2
    <3>1. e \in 0 .. MaxTerm
      BY TermFacts
    <3>2. Q!At(cpQueue, e) \in Nat
      BY <1>3, <3>1, AtType, HeldType
    <3> QED  BY <1>4, <3>2, RolledType
  <2>5. inexact' \subseteq Terms
    BY <1>2, <1>3
  <2> QED  BY <1>2, <1>3, <2>1, <2>2, <2>3, <2>4, <2>5 DEF HashTypeOK
<1>7. CursorsInStep'
  <2>1. currentOffset' = it'
    BY <1>2 DEF HInv, CursorsInStep
  <2>2. it' + Missing' = position' + n - overFlowOffset'
    BY <1>2, <1>3, <1>8
  <2>3. ~ (overFlowOffset' > 0) /\ ~ (Missing' > 0)
    BY <1>2, <1>8
  <2> QED  BY <1>1, <2>1, <2>2, <2>3 DEF CursorsInStep
<1>9. WindowInPlace'
  <2> SUFFICES ASSUME NEW i \in 0 .. n - 1
               PROVE  Q!At(cpQueue', i) = IF (p + 1) + i < l THEN target[(p + 1) + i + 1] ELSE 0
    <3>1. \A i \in 0 .. n - 1 : (p + 1) + i - 0 = (p + 1) + i
      BY <1>3
    <3> QED  BY <1>1, <1>2, <1>8, <3>1 DEF WindowInPlace
  <2>1. CASE i = n - 1
    <3>1. (p + 1) + i = it /\ (p + 1) + i + 1 = it + 1
      BY <1>3, <1>8, <2>1
    <3> QED  BY <1>1, <1>5, <1>8, <2>1, <3>1
  <2>2. CASE i # n - 1
    <3>1. i + 1 \in 0 .. n - 1 /\ (p + 1) + i = p + (i + 1)
      BY <1>3, <2>2
    <3> QED  BY <1>5, <1>8, <2>2, <3>1
  <2> QED  BY <2>1, <2>2
<1>10. HashesInPlace'
  <2> SUFFICES ASSUME NEW e \in Terms \ inexact'
               PROVE  /\ e <= l /\ ~ ((p + 1) + e > Missing' + l)
                      /\ currentHashes'[e] = HashIn(cpQueue', e)
    BY <1>1, <1>2 DEF HashesInPlace, HashIn, InQueue
  <2>1. e \in Terms \ inexact /\ ~ Borrows(e) /\ e \in Nat \ {0} /\ e <= n
    BY <1>1, <1>2, TermFacts
  <2>2. e <= l /\ ~ (p + e > Missing + l) /\ ~ ((p + 1) + e > Missing' + l)
    BY <1>3, <1>8, <2>1
  <2>3. currentHashes[e] = HashIn(cpQueue, e)
    BY <1>1, <2>1, <2>2 DEF HInv, HashesInPlace
  <2>4. PICK r : r = cpQueue'
    OBVIOUS
  <2>5. Rolled(e, IF e = MaxTerm THEN c ELSE Q!At(cpQueue, e)) = HashIn(r, e)
    <3>1. Ring(r) /\ \A i \in 0 .. MaxTerm - 1 :
            Q!At(r, i) = IF i = MaxTerm - 1 THEN c ELSE Q!At(cpQueue, i + 1)
      BY <1>1, <1>5, <2>4
    <3> QED  BY <1>3, <2>1, <2>3, <3>1, RollTerm
  <2> QED  BY <1>2, <2>1, <2>2, <2>4, <2>5
<1> QED  BY <1>5, <1>6, <1>7, <1>9, <1>10 DEF HInv

(* An overflow step keeps the invariant. *)
LEMMA PostHInv == HInv /\ PostOverflowStep => HInv'
<1> SUFFICES ASSUME HInv, PostOverflowStep PROVE HInv'
  OBVIOUS
<1>1. PICK p, l, n, o : p = position /\ l = Len(target) /\ n = MaxTerm /\ o = overFlowOffset
  OBVIOUS
<1>2. /\ it = l /\ o # MaxTerm - MinTerm /\ cpQueue' = Q!PushTo(cpQueue, 0)
      /\ it' = it /\ currentOffset' = currentOffset /\ position' = p + 1
      /\ target' = target /\ modN' = modN /\ overFlowOffset' = o + 1 /\ resets' = resets
      /\ inexact' = inexact \cup {e \in Terms : ~Finished(e) /\ Borrows(e)}
      /\ currentHashes' =
           [e \in Terms |-> IF Finished(e) THEN 0 ELSE RolledReduced(e, Q!At(cpQueue, e))]
  BY <1>1 DEF PostOverflowStep, AtEnd
<1>3. /\ target \in Texts /\ modN \in ModNs /\ l \in Nat /\ p \in Nat
      /\ n \in Nat \ {0} /\ Ring(cpQueue) /\ o \in 0 .. MaxTerm - MinTerm
      /\ resets \in 0 .. MaxResets /\ inexact \subseteq Terms /\ o \in Nat
  <2>1. o \in 0 .. MaxTerm - MinTerm
    BY <1>1, HashTypes
  <2> QED  BY <1>1, <2>1, HashTypes, TextFacts, TermFacts DEF HInv, HashTypeOK
<1>5. /\ Ring(cpQueue')
      /\ \A i \in 0 .. n - 1 : Q!At(cpQueue', i) = IF i = n - 1 THEN 0 ELSE Q!At(cpQueue, i + 1)
  <2>1. 0 \in Held
    BY DEF Held
  <2> QED  BY <1>1, <1>2, <1>3, <2>1, PushRing
<1>6. HashTypeOK'
  <2>1. it' \in 0 .. Len(target') /\ currentOffset' \in 0 .. Len(target')
    BY <1>1, <1>2, <1>3 DEF HInv, CursorsInStep
  <2>2. overFlowOffset' \in 0 .. MaxTerm - MinTerm
    BY <1>2, <1>3, TermFacts
  <2>3. cpQueue' \in [slots : [Q!Slot -> Code \cup Garbage \cup {0}], front : Q!Slot, back : Q!Slot]
    BY <1>5 DEF Ring, Held
  <2>4. currentHashes' \in [Terms -> 0 .. modN' - 1]
    <3> SUFFICES ASSUME NEW e \in Terms
                 PROVE  /\ RolledReduced(e, Q!At(cpQueue, e)) \in 0 .. modN - 1
                        /\ 0 \in 0 .. modN - 1
      BY <1>2
    <3>1. e \in 0 .. MaxTerm
      BY TermFacts
    <3>2. Q!At(cpQueue, e) \in Nat
      BY <1>3, <3>1, AtType, HeldType
    <3> QED  BY <1>3, <3>2, RolledType, ModFacts
  <2>5. inexact' \subseteq Terms
    BY <1>2, <1>3
  <2>6. resets' \in 0 .. MaxResets /\ position' \in Nat
    BY <1>2, <1>3
  <2> QED  BY <1>2, <1>3, <2>1, <2>2, <2>3, <2>4, <2>5, <2>6 DEF HashTypeOK
<1>8. PICK g : /\ g = Missing /\ g = Missing' /\ g \in Nat /\ l + g = p + n - o
               /\ \A i \in 0 .. n - 1 :
                    p + i >= g =>
                      Q!At(cpQueue, i) = IF p + i - g < l THEN target[p + i - g + 1] ELSE 0
  <2>1. Missing' = Missing /\ Missing \in Nat
    BY <1>2, <1>3, ReachFacts DEF Missing, Reach
  <2>2. l + Missing = p + n - o
    BY <1>1, <1>2 DEF HInv, CursorsInStep
  <2> QED  BY <1>1, <2>1, <2>2 DEF HInv, WindowInPlace
<1>4. o \in Nat /\ p \in Nat /\ l \in Nat /\ n \in Nat /\ g \in Nat /\ l + g = p + n - o
  BY <1>3, <1>8
<1>7. CursorsInStep'
  <2>1. currentOffset' = it'
    BY <1>2 DEF HInv, CursorsInStep
  <2>2. it' + Missing' = position' + n - overFlowOffset' /\ it' = l
    <3>1. /\ it' = l /\ position' = p + 1 /\ overFlowOffset' = o + 1 /\ Missing' = g
      BY <1>2, <1>8
    <3>2. l + g = (p + 1) + n - (o + 1)
      BY <1>4
    <3> QED  BY <3>1, <3>2
  <2> QED  BY <1>1, <1>2, <2>1, <2>2 DEF CursorsInStep
<1>9. WindowInPlace'
  <2> SUFFICES ASSUME NEW i \in 0 .. n - 1, (p + 1) + i >= g
               PROVE  Q!At(cpQueue', i) = IF (p + 1) + i - g < l
                                          THEN target[(p + 1) + i - g + 1] ELSE 0
    BY <1>1, <1>2, <1>8 DEF WindowInPlace
  <2>1. CASE i = n - 1
    <3>1. ~ ((p + 1) + i - g < l)
      BY <1>4, <2>1
    <3> QED  BY <1>5, <2>1, <3>1
  <2>2. CASE i # n - 1
    <3>1. PICK j : j = i + 1
      OBVIOUS
    <3>2. j \in 0 .. n - 1 /\ (p + 1) + i = p + j
      BY <1>4, <2>2, <3>1
    <3>3. Q!At(cpQueue', i) = Q!At(cpQueue, j)
      BY <1>5, <2>2, <3>1
    <3>4. Q!At(cpQueue, j) = IF p + j - g < l THEN target[p + j - g + 1] ELSE 0
      BY <1>8, <3>2
    <3>5. (p + 1) + i - g = p + j - g
      BY <1>4, <3>1
    <3> QED  BY <3>3, <3>4, <3>5
  <2> QED  BY <2>1, <2>2
<1>10. HashesInPlace'
  <2> SUFFICES ASSUME NEW e \in Terms \ inexact'
               PROVE  IF e <= l
                      THEN currentHashes'[e] =
                             IF (p + 1) + e > g + l THEN 0 ELSE HashIn(cpQueue', e)
                      ELSE (p + 1) + e > n => currentHashes'[e] = 0
    <3>1. p + 1 # 0
      BY <1>3
    <3> QED  BY <1>1, <1>2, <1>8, <3>1 DEF HashesInPlace, HashIn, InQueue
  <2>1. e \in Terms \ inexact /\ e \in Nat \ {0} /\ e <= n
    BY <1>1, <1>2, TermFacts
  <2>2. Finished(e) <=> (p + 1) + e > g + l
    <3>1. Finished(e) <=> o >= n - e
      BY <1>1 DEF Finished
    <3> QED  BY <1>4, <2>1, <3>1
  <2>3. CASE Finished(e)
    BY <1>2, <2>1, <2>2, <2>3
  <2>4. CASE ~ Finished(e) /\ e <= l
    <3>1. ~ (p + e > g + l) /\ e # n
      BY <1>4, <2>1, <2>2, <2>4
    <3>2. currentHashes[e] = HashIn(cpQueue, e) /\ ~ Borrows(e)
      BY <1>1, <1>2, <1>8, <2>1, <2>4, <3>1 DEF HInv, HashesInPlace
    <3>3. PICK r : r = cpQueue'
      OBVIOUS
    <3>4. RolledReduced(e, Q!At(cpQueue, e)) = HashIn(r, e)
      <4>1. Ring(r) /\ \A i \in 0 .. MaxTerm - 1 :
              Q!At(r, i) = IF i = MaxTerm - 1 THEN 0 ELSE Q!At(cpQueue, i + 1)
        BY <1>1, <1>5, <3>3
      <4>2. Ring(cpQueue) /\ modN \in ModNs /\ e \in Terms
        BY <1>3, <2>1
      <4>3. e # MaxTerm
        BY <1>1, <3>1
      <4> QED  BY <3>2, <4>1, <4>2, <4>3, RollTerm
    <3> QED  BY <1>2, <2>1, <2>2, <2>4, <3>3, <3>4
  <2>5. CASE ~ Finished(e) /\ ~ (e <= l)
    <3>1. g + l = n
      <4>1. PICK x : x = Reach(target)
        OBVIOUS
      <4>2. x \in 0 .. l /\ g = n - x /\ (g > 0 => x = l)
        BY <1>1, <1>3, <1>8, <4>1, ReachFacts
      <4>3. l < n
        BY <1>4, <2>1, <2>5
      <4> QED  BY <1>4, <4>2, <4>3
    <3> QED  BY <2>2, <2>5, <3>1
  <2> QED  BY <2>3, <2>4, <2>5
<1> QED  BY <1>5, <1>6, <1>7, <1>9, <1>10 DEF HInv

(* So does a step that changes nothing. *)
LEMMA StayHInv == HInv /\ UNCHANGED vars => HInv'
<1> SUFFICES ASSUME HInv, UNCHANGED vars PROVE HInv'
  OBVIOUS
<1>1. /\ target' = target /\ modN' = modN /\ it' = it /\ currentOffset' = currentOffset
      /\ overFlowOffset' = overFlowOffset /\ cpQueue' = cpQueue /\ currentHashes' = currentHashes
      /\ inexact' = inexact /\ position' = position /\ resets' = resets
  BY DEF vars
<1>2. HashTypeOK' /\ Ring(cpQueue') /\ CursorsInStep'
  BY <1>1 DEF HInv, HashTypeOK, CursorsInStep, Missing, Reach
<1>3. WindowInPlace'
  BY <1>1 DEF HInv, WindowInPlace, Missing, Reach
<1>4. HashesInPlace'
  BY <1>1 DEF HInv, HashesInPlace, HashIn, InQueue, Missing, Reach
<1> QED  BY <1>2, <1>3, <1>4 DEF HInv

(* The invariant is inductive. *)
LEMMA NextHInv == HInv /\ [HashNext]_vars => HInv'
BY PreHInv, PostHInv, ResetHInv, StayHInv DEF HashNext, Step, StepAtEnd

-----------------------------------------------------------------------------
(* What the hashes mean. *)
LEMMA WindowValue ==
  ASSUME modN \in ModNs, target \in Texts, NEW p \in Nat, NEW e \in Terms, p + e <= Len(target)
  PROVE  RabinFingerprint(modN, SubSeq(target, p + 1, p + e)) = Rem(Val(Ahead(p), e), modN)
<1>1. PICK s, l, n : s = SubSeq(target, p + 1, p + e) /\ l = Len(target) /\ n = MaxTerm
  OBVIOUS
<1>2. target \in Seq(Code) /\ l \in Nat /\ n \in Nat /\ e \in Nat \ {0} /\ e <= n
  BY <1>1, TextFacts, TermFacts
<1>3. s \in Seq(Code) /\ Len(s) = e /\ \A i \in 1 .. e : s[i] = target[p + i]
  <2>1. p + 1 \in 1 .. l /\ p + e \in p .. l
    BY <1>1, <1>2
  <2>2. \A i \in p + 1 .. p + e : target[i] \in Code
    <3> SUFFICES ASSUME NEW i \in p + 1 .. p + e PROVE target[i] \in Code
      OBVIOUS
    <3>1. i \in 1 .. l
      BY <1>1, <1>2
    <3> QED  BY <1>1, <3>1, TextFacts
  <2> QED  BY <1>1, <1>2, <2>1, <2>2
<1>4. RabinFingerprint(modN, s) = Rem(Val(s, Len(s)), modN)
  BY <1>3, ModFacts, CodesAreWords, FingerprintIsValue
<1>5. \A i \in 1 .. e : s[i] \in Nat /\ Ahead(p)[i] = s[i]
  <2> SUFFICES ASSUME NEW i \in 1 .. e PROVE s[i] \in Nat /\ Ahead(p)[i] = s[i]
    OBVIOUS
  <2>1. i \in 1 .. n
    BY <1>2
  <2> QED  BY <1>1, <1>3, <2>1, CodeType DEF Ahead
<1>6. Val(Ahead(p), e) = Val(s, e)
  BY <1>2, <1>5, ValCongruence
<1> QED  BY <1>1, <1>3, <1>4, <1>6

(* Once the text has come to the front of the queue, its window is there.  *)
LEMMA TextInQueue ==
  ASSUME HInv, NEW p \in Nat, position = p + Missing, NEW e \in Terms, p + e <= Len(target)
  PROVE  HashIn(cpQueue, e) = Rem(Val(Ahead(p), e), modN)
<1>1. PICK n, l, g, s, t : /\ n = MaxTerm /\ l = Len(target) /\ g = Missing
                           /\ s = InQueue(cpQueue) /\ t = Ahead(p)
  OBVIOUS
<1>2. /\ n \in Nat /\ l \in Nat /\ g \in Nat /\ e \in Nat \ {0} /\ e <= n
      /\ target \in Texts /\ Ring(cpQueue)
  BY <1>1, HashTypes, TextFacts, TermFacts, ReachFacts DEF HInv
<1>3. \A i \in 1 .. e : s[i] = t[i]
  <2> SUFFICES ASSUME NEW i \in 1 .. e PROVE s[i] = t[i]
    OBVIOUS
  <2>1. PICK j : j = i - 1
    OBVIOUS
  <2>2. /\ i \in 1 .. n /\ j \in 0 .. n - 1 /\ position + j >= g
        /\ position + j - g < l /\ position + j - g + 1 = p + i
    BY <1>1, <1>2, <2>1
  <2>3. Q!At(cpQueue, j) = target[p + i]
    BY <1>1, <2>2 DEF HInv, WindowInPlace
  <2> QED  BY <1>1, <1>2, <2>1, <2>2, <2>3, InQueueFacts DEF Ahead
<1>4. Val(s, e) = Val(t, e)
  BY <1>2, <1>3, ValCongruence
<1> QED  BY <1>1, <1>4 DEF HashIn

(* Whatever is in the queue, its hash is its fingerprint. *)
LEMMA QueuedValue ==
  ASSUME HInv, NEW e \in Terms
  PROVE  RabinFingerprint(modN, Queued(e)) = HashIn(cpQueue, e)
<1>1. PICK n, s, t : n = MaxTerm /\ s = Queued(e) /\ t = InQueue(cpQueue)
  OBVIOUS
<1>2. n \in Nat /\ e \in Nat \ {0} /\ e <= n /\ Ring(cpQueue) /\ modN \in ModNs
  BY <1>1, TermFacts, HashTypes DEF HInv
<1>3. \A i \in 1 .. e : s[i] = t[i] /\ s[i] \in 0 .. HalfWord - 1
  <2> SUFFICES ASSUME NEW i \in 1 .. e PROVE s[i] = t[i] /\ s[i] \in 0 .. HalfWord - 1
    OBVIOUS
  <2>1. i \in 1 .. n
    BY <1>2
  <2>2. s[i] = Q!At(cpQueue, i - 1)
    BY <1>1 DEF Queued
  <2> QED  BY <1>1, <1>2, <2>1, <2>2, InQueueFacts
<1>4. s \in Seq(0 .. HalfWord - 1) /\ Len(s) = e
  <2>1. s = [i \in 1 .. e |-> Q!At(cpQueue, i - 1)]
    BY <1>1 DEF Queued
  <2>2. PICK S : S = 0 .. HalfWord - 1
    OBVIOUS
  <2>3. s \in [1 .. e -> S]
    BY <1>3, <2>1, <2>2
  <2>4. s \in Seq(S) /\ Len(s) = e
    BY <1>2, <2>3
  <2> QED  BY <2>2, <2>4
<1>5. RabinFingerprint(modN, s) = Rem(Val(s, e), modN)
  BY <1>2, <1>4, ModFacts, FingerprintIsValue
<1>6. Val(s, e) = Val(t, e)
  BY <1>2, <1>3, ValCongruence
<1> QED  BY <1>1, <1>5, <1>6 DEF HashIn

(* The invariant implies the properties of the hasher of several lengths. *)
LEMMA HInvExact == HInv => RollingEqualsFingerprint
<1> SUFFICES ASSUME HInv, NEW e \in Terms \ inexact, e <= Len(target)
             PROVE  currentHashes[e] = Expected(e)
  BY DEF RollingEqualsFingerprint, HInv, HashesInPlace
<1>1. currentHashes[e] = IF position + e > Missing + Len(target) THEN 0 ELSE HashIn(cpQueue, e)
  BY DEF HInv, HashesInPlace
<1>2. /\ target \in Texts /\ modN \in ModNs /\ Len(target) \in Nat /\ e \in Nat \ {0}
      /\ position \in Nat /\ Missing \in Nat
  BY HashTypes, TextFacts, TermFacts, ReachFacts
<1>3. CASE position + e > Missing + Len(target)
  BY <1>1, <1>3 DEF Expected
<1>4. CASE ~ (position + e > Missing + Len(target)) /\ position < Missing
  BY <1>1, <1>4, QueuedValue DEF Expected
<1>5. CASE ~ (position + e > Missing + Len(target)) /\ ~ (position < Missing)
  <2>1. PICK p : p = position - Missing
    OBVIOUS
  <2>2. p \in Nat /\ position = p + Missing /\ p + e <= Len(target) /\ p + 1 + e - 1 = p + e
    BY <1>2, <1>5, <2>1
  <2>3. HashIn(cpQueue, e) = RabinFingerprint(modN, SubSeq(target, p + 1, p + e))
    BY <1>2, <2>2, TextInQueue, WindowValue
  <2> QED  BY <1>1, <1>5, <2>1, <2>2, <2>3 DEF Expected, Fingerprint
<1> QED  BY <1>3, <1>4, <1>5

(* The window that the invariant describes is the one promised. *)
LEMMA HInvWindow == HInv => QueueHoldsWindow
BY DEF HInv, WindowInPlace, QueueHoldsWindow

(* The cursors of the invariant put atEnd() at the last window. *)
LEMMA HInvEnd == HInv => EndsAtLastWindow
<1> SUFFICES ASSUME HInv PROVE AtEnd <=> position = Missing + Len(target) - MinTerm
  BY DEF EndsAtLastWindow
<1>1. PICK p, l, n, m, o, g : /\ p = position /\ l = Len(target) /\ n = MaxTerm
                              /\ m = MinTerm /\ o = overFlowOffset /\ g = Missing
  OBVIOUS
<1>2. p \in Nat /\ l \in Nat /\ n \in Nat /\ m \in Nat /\ o \in 0 .. n - m /\ g \in Nat
  BY <1>1, HashTypes, TextFacts, TermFacts, ReachFacts
<1>3. it + g = p + n - o /\ it \in 0 .. l
  BY <1>1, HashTypes DEF HInv, CursorsInStep
<1> QED  BY <1>1, <1>2, <1>3 DEF AtEnd

-----------------------------------------------------------------------------
(* The hasher of one length. *)
SingleInv ==
  /\ size \in Terms
  /\ IF Len(target) < size
     THEN /\ singleOffset = Len(target)
          /\ singleHash = IF Len(target) = size - 1 THEN Rem(Val(target, Len(target)), modN) ELSE 0
     ELSE /\ singleOffset =
               IF position + size <= Len(target) THEN position + size ELSE Len(target)
          /\ position + size <= Len(target) =>
               /\ singleWindow = SubSeq(target, position + 1, position + size)
               /\ singleInexact \/ singleHash = Rem(Val(Ahead(position), size), modN)

(* initialize() reads size characters or the whole text. *)
LEMMA FirstFacts ==
  ASSUME target \in Texts, size \in Terms
  PROVE  /\ FirstWindow = SubSeq(target, 1, IF Len(target) < size THEN Len(target) ELSE size)
         /\ Len(FirstWindow) = IF Len(target) < size THEN Len(target) ELSE size
         /\ FirstWindow \in Seq(Code)
         /\ Len(target) < size => FirstWindow = target
<1>1. PICK z, l, s : z = size /\ l = Len(target) /\ s = target
  OBVIOUS
<1>2. z \in Nat \ {0} /\ l \in Nat /\ s \in Seq(Code) /\ l = Len(s)
  BY <1>1, TermFacts, TextFacts
<1>3. \E x \in {z, l} : \A y \in {z, l} : x <= y
  BY <1>2
<1>4. PICK r : r = Min({z, l})
  OBVIOUS
<1>5. r \in {z, l} /\ r <= z /\ r <= l
  BY <1>2, <1>3, <1>4 DEF Min
<1>6. r = (IF l < z THEN l ELSE z) /\ r \in 0 .. l
  BY <1>2, <1>5
<1>7. FirstWindow = SubSeq(s, 1, r)
  BY <1>1, <1>4 DEF FirstWindow
<1>8. PICK w : w = SubSeq(s, 1, r)
  OBVIOUS
<1>9. w \in Seq(Code) /\ Len(w) = r /\ (r = l => w = s)
  BY <1>2, <1>6, <1>8
<1> QED  BY <1>1, <1>2, <1>6, <1>7, <1>8, <1>9

(* The first hash, whatever the length of the text. *)
LEMMA FirstHashValue ==
  ASSUME target \in Texts, modN \in ModNs, size \in Terms
  PROVE  FirstHash = IF Len(target) < size
                     THEN IF Len(target) = size - 1
                          THEN Rem(Val(target, Len(target)), modN) ELSE 0
                     ELSE Rem(Val(Ahead(0), size), modN)
<1>1. PICK z, l, s : z = size /\ l = Len(target) /\ s = FirstWindow
  OBVIOUS
<1>2. z \in Nat \ {0} /\ l \in Nat
  BY <1>1, TermFacts, TextFacts
<1>3. /\ s = SubSeq(target, 1, IF l < z THEN l ELSE z)
      /\ Len(s) = (IF l < z THEN l ELSE z) /\ s \in Seq(Code) /\ (l < z => s = target)
  BY <1>1, FirstFacts
<1>4. Horner(s) = Rem(Val(s, Len(s)), modN)
  BY <1>3, ModFacts, HornerIsValue
<1>5. FirstHash = IF Len(s) < z - 1 THEN 0 ELSE Horner(s)
  BY <1>1 DEF FirstHash
<1>6. CASE l < z
  <2>1. Len(s) = l /\ s = target
    BY <1>3, <1>6
  <2>2. l < z - 1 <=> l # z - 1
    BY <1>2, <1>6
  <2>3. FirstHash = IF l = z - 1 THEN Rem(Val(target, l), modN) ELSE 0
    BY <1>4, <1>5, <2>1, <2>2
  <2> QED  BY <1>1, <1>6, <2>3
<1>7. CASE ~ (l < z)
  <2>1. \A i \in 1 .. z : s[i] = Ahead(0)[i]
    <3> SUFFICES ASSUME NEW i \in 1 .. z PROVE s[i] = Ahead(0)[i]
      OBVIOUS
    <3>1. i \in 1 .. MaxTerm /\ 0 + i = i
      BY <1>1, <1>2, TermFacts
    <3>2. s[i] = target[i]
      BY <1>1, <1>2, <1>3, <1>7, TextFacts
    <3> QED  BY <3>1, <3>2 DEF Ahead
  <2>2. Val(s, z) = Val(Ahead(0), z)
    BY <1>2, <2>1, ValCongruence
  <2>3. Len(s) = z /\ ~ (z < z - 1)
    BY <1>2, <1>3, <1>7
  <2> QED  BY <1>1, <1>4, <1>5, <1>7, <2>2, <2>3
<1> QED  BY <1>6, <1>7

(* What initialize() establishes. *)
LEMMA StartSingle ==
  ASSUME target \in Texts, modN \in ModNs, size \in Terms
  PROVE  /\ FirstWindow = SubSeq(target, 1, IF Len(target) < size THEN Len(target) ELSE size)
         /\ Len(FirstWindow) = IF Len(target) < size THEN Len(target) ELSE size
         /\ 0 + size = size /\ 0 + 1 = 1 /\ (~ (Len(target) < size) => size <= Len(target))
  BY FirstFacts, TermFacts, TextFacts

(* The window of the one length moves with the position. *)
LEMMA StepSingle ==
  ASSUME HInv, SingleInv, SingleStep, target' = target, modN' = modN, position' = position + 1
  PROVE  SingleInv'
<1>1. PICK z, l, p, c : z = size /\ l = Len(target) /\ p = position /\ c = target[singleOffset + 1]
  OBVIOUS
<1>2. /\ size' = z /\ singleHash' = SingleRolled(c) /\ singleOffset' = singleOffset + 1
      /\ singleInexact' = (singleInexact \/ (Lossy(modN) /\ singleHash < SingleDeparting))
      /\ singleWindow' = Append(Tail(singleWindow), c)
      /\ singleOffset # l
  BY <1>1 DEF SingleStep, SingleAtEnd
<1>3. /\ z \in Nat \ {0} /\ l \in Nat /\ p \in Nat /\ target \in Texts /\ modN \in ModNs
      /\ target \in Seq(Code) /\ z \in Terms
  BY <1>1, HashTypes, TermFacts, TextFacts DEF SingleInv
<1>4. ~ (l < z) /\ p + z < l /\ singleOffset = p + z
  BY <1>1, <1>2, <1>3 DEF SingleInv
<1>5. /\ singleWindow = SubSeq(target, p + 1, p + z)
      /\ singleInexact \/ singleHash = Rem(Val(Ahead(p), z), modN)
  BY <1>1, <1>3, <1>4 DEF SingleInv
<1>6. singleWindow[1] = target[p + 1] /\ c = target[p + z + 1]
  <2>1. PICK s, w, q : s = target /\ w = SubSeq(s, p + 1, q) /\ q = p + z
    OBVIOUS
  <2>2. q \in Nat /\ p + 1 <= q /\ q <= Len(s)
    BY <1>1, <1>3, <1>4, <2>1
  <2>3. w[1] = s[p + 1]
    BY <1>3, <2>1, <2>2
  <2>4. singleOffset + 1 = p + z + 1
    BY <1>4
  <2> QED  BY <1>1, <1>5, <2>1, <2>3, <2>4
<1>7. singleWindow' = SubSeq(target, (p + 1) + 1, (p + 1) + z)
  <2>1. PICK s, t, w : s = target /\ t = Append(Tail(singleWindow), c) /\ w = singleWindow
    OBVIOUS
  <2>2. s \in Seq(Code) /\ w = SubSeq(s, p + 1, p + z) /\ Len(s) = l
    BY <1>1, <1>3, <1>5, <2>1
  <2>3. w \in Seq(Code) /\ Len(w) = z /\ \A i \in 1 .. z : w[i] = s[p + i]
    <3>1. \A i \in p + 1 .. p + z : s[i] \in Code
      BY <1>3, <1>4, <2>2
    <3> QED  BY <1>3, <1>4, <2>2, <3>1
  <2>4. PICK v : v = Tail(w)
    OBVIOUS
  <2>5. v \in Seq(Code) /\ Len(v) = z - 1 /\ \A i \in 1 .. z - 1 : v[i] = s[p + i + 1]
    <3>1. v \in Seq(Code) /\ Len(v) = z - 1 /\ \A i \in 1 .. z - 1 : v[i] = w[i + 1]
      BY <1>3, <2>3, <2>4
    <3> SUFFICES ASSUME NEW i \in 1 .. z - 1 PROVE v[i] = s[p + i + 1]
      BY <3>1
    <3>2. i + 1 \in 1 .. z /\ p + (i + 1) = p + i + 1
      BY <1>3
    <3> QED  BY <2>3, <3>1, <3>2
  <2>6. c \in Code
    <3>1. p + z + 1 \in 1 .. Len(s)
      BY <1>3, <1>4, <2>2
    <3> QED  BY <1>6, <2>1, <2>2, <3>1
  <2>7. t = Append(v, c)
    BY <2>1, <2>4
  <2>8. /\ t \in Seq(Code) /\ Len(t) = z
        /\ \A i \in 1 .. z : t[i] = IF i = z THEN c ELSE v[i]
    BY <1>3, <2>5, <2>6, <2>7
  <2>9. PICK r : r = SubSeq(s, (p + 1) + 1, (p + 1) + z)
    OBVIOUS
  <2>10. r \in Seq(Code) /\ Len(r) = z /\ \A i \in 1 .. z : r[i] = s[p + i + 1]
    <3>1. \A i \in (p + 1) + 1 .. (p + 1) + z : s[i] \in Code
      BY <1>3, <1>4, <2>2
    <3> QED  BY <1>3, <1>4, <2>2, <2>9, <3>1
  <2>11. \A i \in 1 .. z : t[i] = r[i]
    <3> SUFFICES ASSUME NEW i \in 1 .. z PROVE t[i] = r[i]
      OBVIOUS
    <3>1. CASE i = z
      BY <1>1, <1>6, <2>1, <2>8, <2>10, <3>1
    <3>2. CASE i # z
      <4>1. i \in 1 .. z - 1
        BY <1>3, <3>2
      <4> QED  BY <2>5, <2>8, <2>10, <3>2, <4>1
    <3> QED  BY <3>1, <3>2
  <2>12. t = r
    BY <1>3, <2>8, <2>10, <2>11
  <2> QED  BY <1>2, <2>1, <2>9, <2>12
<1>8. singleInexact' \/ singleHash' = Rem(Val(Ahead(p + 1), z), modN)
  <2> SUFFICES ASSUME ~ singleInexact, ~ (Lossy(modN) /\ singleHash < SingleDeparting)
               PROVE  SingleRolled(c) = Rem(Val(Ahead(p + 1), z), modN)
    BY <1>2
  <2>1. SingleDeparting = Share(z, target[p + 1])
    BY <1>1, <1>6 DEF SingleDeparting, Share
  <2>2. singleHash = Rem(Val(Ahead(p), z), modN)
    BY <1>5
  <2>3. ~ (Lossy(modN) /\ Rem(Val(Ahead(p), z), modN) < Share(z, target[p + 1]))
    BY <2>1, <2>2
  <2> QED  BY <1>1, <1>3, <1>4, <1>6, <2>1, <2>2, <2>3, RollAhead DEF SingleRolled
<1>9. singleOffset' = (p + 1) + z /\ (p + 1) + z <= l
  BY <1>2, <1>3, <1>4
<1>10. Ahead(p + 1)' = Ahead(p + 1)
  BY DEF Ahead
<1> QED  BY <1>1, <1>2, <1>3, <1>4, <1>7, <1>8, <1>9 DEF SingleInv, Ahead

(* At the end of the text the hasher of one length stays. *)
LEMMA StaysSingle ==
  ASSUME HInv, SingleInv, SingleStays, target' = target, modN' = modN,
         position' = position \/ position' = position + 1
  PROVE  SingleInv'
<1>1. PICK z, l, p : z = size /\ l = Len(target) /\ p = position
  OBVIOUS
<1>2. /\ size' = z /\ singleHash' = singleHash /\ singleOffset' = singleOffset
      /\ singleInexact' = singleInexact /\ singleWindow' = singleWindow /\ singleOffset = l
  BY <1>1 DEF SingleStays, SingleAtEnd, singleVars
<1>3. z \in Nat \ {0} /\ l \in Nat /\ p \in Nat /\ z \in Terms
  BY <1>1, HashTypes, TermFacts, TextFacts DEF SingleInv
<1>4. CASE position' = position
  BY <1>1, <1>2, <1>3, <1>4 DEF SingleInv, Ahead
<1>5. CASE position' = p + 1
  <2>1. CASE l < z
    BY <1>1, <1>2, <1>3, <2>1 DEF SingleInv
  <2>2. CASE ~ (l < z)
    <3>1. p + z >= l
      BY <1>1, <1>2, <1>3, <2>2 DEF SingleInv
    <3>2. ~ ((p + 1) + z <= l)
      BY <1>3, <3>1
    <3> QED  BY <1>1, <1>2, <1>3, <1>5, <2>2, <3>2 DEF SingleInv
  <2> QED  BY <2>1, <2>2
<1> QED  BY <1>1, <1>4, <1>5

BothInv == HInv /\ SingleInv

(* Both constructors establish the invariants. *)
LEMMA InitBoth == BothInit => BothInv
<1> SUFFICES ASSUME BothInit PROVE BothInv
  OBVIOUS
<1>1. HInv /\ position = 0
  BY InitHInv DEF BothInit, HashInit
<1>2. SingleInv
  <2>1. /\ target \in Texts /\ modN \in ModNs /\ size \in Terms
        /\ singleOffset = Len(FirstWindow) /\ singleHash = FirstHash
        /\ singleWindow = FirstWindow
    BY <1>1, HashTypes DEF BothInit, SingleInit
  <2> QED  BY <1>1, <2>1, StartSingle, FirstHashValue DEF SingleInv
<1> QED  BY <1>1, <1>2 DEF BothInv

(* The invariants of both hashers are inductive together. *)
LEMMA NextBoth == BothInv /\ [BothNext]_<<vars, singleVars>> => BothInv'
<1> SUFFICES ASSUME HInv, SingleInv, [BothNext]_<<vars, singleVars>>
             PROVE  HInv' /\ SingleInv'
  BY DEF BothInv
<1>1. HInv'
  BY NextHInv DEF BothNext, BothStep, BothReset, HashNext, Step
<1>2. CASE (PreOverflowStep \/ PostOverflowStep) /\ SingleStep
  <2>1. target' = target /\ modN' = modN /\ position' = position + 1
    BY <1>2 DEF PreOverflowStep, PostOverflowStep
  <2> QED  BY <1>1, <1>2, <2>1, StepSingle
<1>3. CASE PostOverflowStep /\ SingleStays
  <2>1. target' = target /\ modN' = modN /\ position' = position + 1
    BY <1>3 DEF PostOverflowStep
  <2> QED  BY <1>1, <1>3, <2>1, StaysSingle
<1>4. CASE StepAtEnd /\ SingleStays
  <2>1. target' = target /\ modN' = modN /\ position' = position
    BY <1>4 DEF StepAtEnd, vars
  <2> QED  BY <1>1, <1>4, <2>1, StaysSingle
<1>5. CASE BothReset
  <2>1. target' = target /\ modN' = modN /\ position' = 0
    BY <1>5 DEF BothReset, Reset
  <2>2. /\ size' = size /\ singleOffset' = Len(FirstWindow) /\ singleHash' = FirstHash
        /\ singleWindow' = FirstWindow
    BY <1>5 DEF BothReset, SingleReset
  <2>3. target \in Texts /\ modN \in ModNs /\ size \in Terms
    BY HashTypes DEF SingleInv
  <2>4. Ahead(0)' = Ahead(0)
    BY <2>1 DEF Ahead
  <2>5. SingleInv'
    BY <2>1, <2>2, <2>3, <2>4, StartSingle, FirstHashValue DEF SingleInv
  <2> QED  BY <1>1, <2>5
<1>6. CASE UNCHANGED <<vars, singleVars>>
  <2>1. /\ target' = target /\ modN' = modN /\ position' = position /\ size' = size
        /\ singleHash' = singleHash /\ singleOffset' = singleOffset
        /\ singleInexact' = singleInexact /\ singleWindow' = singleWindow
    BY <1>6 DEF vars, singleVars
  <2>2. SingleInv'
    BY <2>1 DEF SingleInv, Ahead
  <2> QED  BY <1>1, <2>2
<1> QED  BY <1>2, <1>3, <1>4, <1>5, <1>6 DEF BothNext, BothStep

(* Together they imply that the hashers agree. *)
LEMMA BothInvAgrees == BothInv => SingleLengthAgrees
<1> SUFFICES ASSUME HInv, SingleInv PROVE SingleLengthAgrees
  BY DEF BothInv
<1>1. PICK z, l, p : z = size /\ l = Len(target) /\ p = position
  OBVIOUS
<1>2. /\ z \in Nat \ {0} /\ l \in Nat /\ p \in Nat /\ z \in Terms /\ target \in Texts
      /\ modN \in ModNs /\ target \in Seq(Code) /\ modN \in 1 .. HalfWord - 1
  BY <1>1, HashTypes, TermFacts, TextFacts, ModFacts DEF SingleInv
<1>3. CASE l < z
  <2>1. SingleAtEnd
    BY <1>1, <1>3 DEF SingleInv, SingleAtEnd
  <2>2. RabinFingerprint(modN, target) = Rem(Val(target, l), modN)
    BY <1>1, <1>2, CodesAreWords, FingerprintIsValue
  <2>5. singleHash = IF l = z - 1 THEN RabinFingerprint(modN, target) ELSE 0
    BY <1>1, <1>3, <2>2 DEF SingleInv
  <2> QED  BY <1>1, <1>3, <2>1, <2>5 DEF SingleLengthAgrees
<1>4. CASE ~ (l < z)
  <2>1. SingleAtEnd <=> p + z >= l
    BY <1>1, <1>2, <1>4 DEF SingleInv, SingleAtEnd
  <2>2. ASSUME p + z <= l, ~ singleInexact
        PROVE  /\ singleHash = Fingerprint(p + 1, z)
               /\ Missing = 0 /\ z \notin inexact => singleHash = currentHashes[z]
    <3>1. singleHash = Rem(Val(Ahead(p), z), modN)
      BY <1>1, <1>4, <2>2 DEF SingleInv
    <3>2. Fingerprint(p + 1, z) = Rem(Val(Ahead(p), z), modN)
      <4>1. p + 1 + z - 1 = p + z
        BY <1>2
      <4> QED  BY <1>1, <1>2, <2>2, <4>1, WindowValue DEF Fingerprint
    <3>3. ASSUME Missing = 0, z \notin inexact PROVE singleHash = currentHashes[z]
      <4>1. z <= l /\ ~ (p + z > Missing + l) /\ position = p + Missing
        BY <1>1, <1>2, <1>4, <2>2, <3>3
      <4>2. currentHashes[z] = HashIn(cpQueue, z)
        BY <1>1, <1>2, <3>3, <4>1 DEF HInv, HashesInPlace
      <4> QED  BY <1>1, <1>2, <2>2, <3>1, <4>1, <4>2, TextInQueue
    <3> QED  BY <3>1, <3>2, <3>3
  <2> QED  BY <1>1, <1>4, <2>1, <2>2 DEF SingleLengthAgrees
<1> QED  BY <1>3, <1>4

-----------------------------------------------------------------------------
(* The hashers alone and side by side keep the invariants. *)
LEMMA HashInvariant == HashSpec => []HInv
BY InitHInv, NextHInv, PTL DEF HashSpec

(* Both hashers side by side keep both invariants. *)
LEMMA BothInvariant == BothSpec => []BothInv
BY InitBoth, NextBoth, PTL DEF BothSpec

(* What the invariant is for. *)
LEMMA InvariantMeans ==
  HInv => RollingEqualsFingerprint /\ QueueHoldsWindow /\ EndsAtLastWindow
BY HInvExact, HInvWindow, HInvEnd

(* Whatever the text, the modulus and the lengths (as long as the powers   *)
(* are exact in a double): after any sequence of step() and reset() calls  *)
(* the hash of each term that fits the text, and that no lossy wrap has    *)
(* hit, is the direct fingerprint of its window, and 0 after its last one. *)
(* In a text shorter than the longest term the windows come late by the    *)
(* characters missing; until then the hash is that of what the queue       *)
(* holds, which may be memory that nobody has written.                     *)
THEOREM HashesExact == /\ HashSpec => []RollingEqualsFingerprint
                       /\ BothSpec => []RollingEqualsFingerprint
<1>1. BothInv => HInv
  BY DEF BothInv
<1> QED  BY <1>1, InvariantMeans, HashInvariant, BothInvariant, PTL

(* at(0), ..., at(MaxTerm - 1) are the characters from the position on,    *)
(* zeros after the end of the text -- in a text shorter than the longest   *)
(* term Missing positions late, and nothing is said of the slots in front. *)
THEOREM WindowKept == /\ HashSpec => []QueueHoldsWindow
                      /\ BothSpec => []QueueHoldsWindow
<1>1. BothInv => HInv
  BY DEF BothInv
<1> QED  BY <1>1, InvariantMeans, HashInvariant, BothInvariant, PTL

(* atEnd() holds at the last window of the shortest term and nowhere else; *)
(* in a text shorter than the longest term that window comes late, too.    *)
THEOREM EndIsLastWindow == /\ HashSpec => []EndsAtLastWindow
                           /\ BothSpec => []EndsAtLastWindow
<1>1. BothInv => HInv
  BY DEF BothInv
<1> QED  BY <1>1, InvariantMeans, HashInvariant, BothInvariant, PTL

(* As long as no wrap was lossy, the hasher of one length reports the      *)
(* fingerprint of its window -- the same as that term of the other hasher, *)
(* if the text is as long as the longest term there.  Texts too short for  *)
(* the window hash to 0 unless one character is missing.                   *)
THEOREM OneLengthAgrees == BothSpec => []SingleLengthAgrees
BY BothInvAgrees, BothInvariant, PTL

=============================================================================
