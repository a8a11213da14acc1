------------------------- MODULE SmallVector_proofs --------------------------
(***************************************************************************)
(* For any number of objects and addresses and any in-place size: overflow *)
(* vectors have one owner, a vector reads as a plain vector would, and     *)
(* only the copy of a short vector puts an overflow vector out of step.    *)
(***************************************************************************)
EXTENDS SmallVector, SequenceTheorems, TLAPS

HeapShape == heap \in [Address -> Seq(Data) \cup {Null}]

(* The array holds the beginning of what a plain vector would hold. *)
ArrayHoldsBeginning(v) ==
  \A i \in 1 .. Len(contents[v]) : i <= SmallSize => arrayItems[v][i - 1] = contents[v][i]

(* A vector that has overflown has an overflow vector, with at least the   *)
(* elements that are beyond the array; behind a stale one there are more.  *)
OverflowReaches(v) ==
  IsOverflown(v) => /\ vectorItems[v] # Null
                    /\ lastIndex[v] - SmallSize <= Len(heap[vectorItems[v]])

(* In step with the size, it holds the rest.                               *)
OverflowHoldsRest(v) ==
  Aligned(v) /\ IsOverflown(v) =>
    \A j \in 1 .. Len(Overflow(v)) : Overflow(v)[j] = contents[v][SmallSize + j]

Good(v) == /\ lastIndex[v] = Len(contents[v])
           /\ ArrayHoldsBeginning(v)
           /\ OverflowReaches(v)
           /\ OverflowHoldsRest(v)

IInv == /\ TypeOK /\ HeapShape /\ OwnedOnce
        /\ \A v \in Object : Good(v)

-----------------------------------------------------------------------------
(* A vector none of whose parts a step touches stays as good as it was.    *)
LEMMA Untouched ==
  ASSUME NEW v \in Object, Good(v),
         arrayItems'[v] = arrayItems[v], vectorItems'[v] = vectorItems[v],
         lastIndex'[v] = lastIndex[v], contents'[v] = contents[v],
         vectorItems[v] # Null => heap'[vectorItems[v]] = heap[vectorItems[v]]
  PROVE  Good(v)' /\ (Aligned(v)' <=> Aligned(v))
BY DEF Good, ArrayHoldsBeginning, OverflowReaches, OverflowHoldsRest, Aligned,
       IsOverflown, Overflow

(* The overflow vector of an object is a sequence at an address.           *)
LEMMA OverflowType ==
  ASSUME TypeOK, HeapShape, OwnedOnce, NEW v \in Object
  PROVE  /\ Overflow(v) \in Seq(Data) /\ Len(Overflow(v)) \in Nat
         /\ vectorItems[v] # Null => /\ vectorItems[v] \in Address
                                     /\ heap[vectorItems[v]] \in Seq(Data)
                                     /\ Overflow(v) = heap[vectorItems[v]]
         /\ vectorItems[v] = Null => Overflow(v) = <<>> /\ Len(Overflow(v)) = 0
<1>1. <<>> \in Seq(Data) /\ Len(<<>>) = 0
  BY EmptySeq
<1>2. vectorItems[v] # Null => /\ vectorItems[v] \in Address
                               /\ heap[vectorItems[v]] \in Seq(Data)
  BY DEF TypeOK, HeapShape, OwnedOnce
<1>3. QED
  BY <1>1, <1>2, LenProperties DEF Overflow

(* The constructors leave empty vectors without an overflow vector.        *)
LEMMA InitIInv == Init => IInv
<1> SUFFICES ASSUME Init PROVE IInv
  OBVIOUS
<1>1. <<>> \in Seq(Data) /\ Len(<<>>) = 0
  BY EmptySeq
<1>2. TypeOK /\ HeapShape
  BY <1>1, SmallVectorAssumption DEF Init, TypeOK, HeapShape, Fresh, Element
<1>3. OwnedOnce
  BY DEF Init, OwnedOnce
<1>4. ASSUME NEW v \in Object PROVE Good(v)
  BY <1>1, SmallVectorAssumption
  DEF Init, Good, ArrayHoldsBeginning, OverflowReaches, OverflowHoldsRest,
      IsOverflown
<1>5. QED
  BY <1>2, <1>3, <1>4 DEF IInv

(* An element is appended to the array while there is room in it.          *)
LEMMA PushInArrayIInv ==
  ASSUME IInv, NEW v \in Object, NEW x \in Data, PushBack(v, x), PushInArray(v, x)
  PROVE  IInv' /\ \A u \in Object : Aligned(u) => Aligned(u)'
<1> DEFINE c == contents[v]  n == lastIndex[v]
<1>1. /\ c \in Seq(Data) /\ n \in Nat /\ n = Len(c) /\ n < SmallSize /\ n < MaxSize
      /\ SmallSize \in Nat /\ MaxSize \in Nat
  BY SmallVectorAssumption DEF IInv, TypeOK, Good, PushBack, PushInArray
<1>2. /\ arrayItems' = [arrayItems EXCEPT ![v][n] = x]
      /\ vectorItems' = vectorItems /\ heap' = heap
      /\ lastIndex' = [lastIndex EXCEPT ![v] = n + 1]
      /\ contents' = [contents EXCEPT ![v] = Append(c, x)]
  BY DEF PushBack, PushInArray
<1>3. /\ Append(c, x) \in Seq(Data) /\ Len(Append(c, x)) = n + 1
      /\ \A i \in 1 .. n : Append(c, x)[i] = c[i]
      /\ Append(c, x)[n + 1] = x
  BY <1>1, AppendProperties
<1>4. n \in Index /\ arrayItems[v] \in [Index -> Element]
  BY <1>1 DEF Index, IInv, TypeOK
<1>5. /\ arrayItems'[v] = [arrayItems[v] EXCEPT ![n] = x]
      /\ lastIndex'[v] = n + 1 /\ contents'[v] = Append(c, x)
  BY <1>2 DEF IInv, TypeOK
<1> HIDE DEF c, n
<1>6. TypeOK'
  BY <1>1, <1>2, <1>3, <1>4, <1>5 DEF IInv, TypeOK, Element
<1>7. HeapShape' /\ OwnedOnce'
  BY <1>2 DEF IInv, HeapShape, OwnedOnce
<1>8. Good(v)' /\ (Aligned(v) => Aligned(v)')
  <2>1. ArrayHoldsBeginning(v)'
    <3> SUFFICES ASSUME NEW i \in 1 .. n + 1
                 PROVE  arrayItems'[v][i - 1] = contents'[v][i]
      BY <1>3, <1>5 DEF ArrayHoldsBeginning
    <3>1. CASE i = n + 1
      BY <3>1, <1>1, <1>3, <1>4, <1>5
    <3>2. CASE i <= n
      <4>1. arrayItems[v][i - 1] = c[i]
        BY <3>2, <1>1 DEF IInv, Good, ArrayHoldsBeginning, c
      <4>2. i - 1 # n /\ i - 1 \in Index
        BY <3>2, <1>1 DEF Index
      <4>3. QED
        BY <4>1, <4>2, <3>2, <1>1, <1>3, <1>4, <1>5
    <3>3. QED
      BY <3>1, <3>2, <1>1
  <2>2. ~IsOverflown(v)' /\ ~IsOverflown(v)
    BY <1>1, <1>5 DEF IsOverflown, n
  <2>3. Aligned(v) <=> Aligned(v)'
    BY <2>2, <1>2 DEF Aligned, Overflow
  <2>4. QED
    BY <2>1, <2>2, <2>3, <1>3, <1>5 DEF Good, OverflowReaches, OverflowHoldsRest
<1>9. ASSUME NEW u \in Object, u # v PROVE Good(u)' /\ (Aligned(u)' <=> Aligned(u))
  BY <1>9, <1>2, Untouched DEF IInv, TypeOK
<1>10. QED
  BY <1>6, <1>7, <1>8, <1>9 DEF IInv

(* Behind the array an element goes to the overflow vector, which the      *)
(* first one makes at a free address.                                      *)
LEMMA PushOverflowIInv ==
  ASSUME IInv, NEW v \in Object, NEW x \in Data, PushBack(v, x), PushOverflow(v, x)
  PROVE  IInv' /\ \A u \in Object : Aligned(u) => Aligned(u)'
<1> DEFINE c == contents[v]  n == lastIndex[v]  o == Overflow(v)
           pushed == Append(c, x)  grown == Append(o, x)
<1>1. /\ c \in Seq(Data) /\ n \in Nat /\ n = Len(c) /\ n >= SmallSize /\ n < MaxSize
      /\ SmallSize \in Nat \ {0} /\ MaxSize \in Nat
  BY SmallVectorAssumption DEF IInv, TypeOK, Good, PushBack, PushOverflow
<1>2. PICK a \in Address :
        /\ \/ a = vectorItems[v] /\ Len(heap[a]) < MaxSize
           \/ vectorItems[v] = Null /\ a \in Free
        /\ vectorItems' = [vectorItems EXCEPT ![v] = a]
        /\ heap' = [heap EXCEPT ![a] = IF @ = Null THEN <<x>> ELSE Append(@, x)]
  BY DEF PushOverflow
<1>3. /\ arrayItems' = arrayItems
      /\ lastIndex' = [lastIndex EXCEPT ![v] = n + 1]
      /\ contents' = [contents EXCEPT ![v] = Append(c, x)]
  BY DEF PushBack, PushOverflow
<1>4. /\ pushed \in Seq(Data) /\ Len(pushed) = n + 1
      /\ \A i \in 1 .. n : pushed[i] = c[i]
      /\ pushed[n + 1] = x
  BY <1>1, AppendProperties
<1>5. o \in Seq(Data) /\ Len(o) \in Nat
  BY OverflowType DEF IInv
<1>6. /\ vectorItems'[v] = a
      /\ lastIndex'[v] = n + 1 /\ contents'[v] = pushed
      /\ heap'[a] = grown /\ Overflow(v)' = grown
  <2>1. vectorItems'[v] = a /\ lastIndex'[v] = n + 1 /\ contents'[v] = pushed
    BY <1>2, <1>3 DEF IInv, TypeOK
  <2>2. heap'[a] = IF heap[a] = Null THEN <<x>> ELSE Append(heap[a], x)
    BY <1>2 DEF IInv, HeapShape
  <2>3. CASE a = vectorItems[v]
    <3>1. o = heap[a] /\ heap[a] # Null
      BY <2>3, SmallVectorAssumption DEF IInv, OwnedOnce, Overflow
    <3>2. QED
      BY <2>1, <2>2, <3>1, SmallVectorAssumption DEF Overflow
  <2>4. CASE vectorItems[v] = Null /\ a \in Free
    <3>1. o = <<>> /\ heap[a] = Null
      BY <2>4 DEF Overflow, Free
    <3>2. Append(<<>>, x) = <<x>>
      OBVIOUS
    <3>3. QED
      BY <2>1, <2>2, <3>1, <3>2, SmallVectorAssumption DEF Overflow
  <2>5. QED
    BY <1>2, <2>3, <2>4
<1>7. /\ grown \in Seq(Data) /\ Len(grown) = Len(o) + 1
      /\ \A i \in 1 .. Len(o) : grown[i] = o[i]
      /\ grown[Len(o) + 1] = x
  BY <1>5, AppendProperties
<1>8. ASSUME NEW u \in Object, u # v, vectorItems[u] # Null PROVE vectorItems[u] # a
  BY <1>2, <1>8 DEF IInv, OwnedOnce, Free
<1>9. n - SmallSize <= Len(o)
  <2>1. CASE n = SmallSize
    BY <2>1, <1>1, <1>5
  <2>2. CASE n > SmallSize
    BY <2>2, OverflowType DEF IInv, Good, OverflowReaches, IsOverflown
  <2>3. QED
    BY <2>1, <2>2, <1>1
<1>10. Aligned(v) <=> Len(o) = n - SmallSize
  BY <1>1, <1>5 DEF Aligned, IsOverflown
<1> HIDE DEF c, n, o, pushed, grown
<1>11. TypeOK' /\ HeapShape'
  <2>1. HeapShape'
    BY <1>2, <1>6, <1>7 DEF IInv, HeapShape
  <2>2. \A b \in Address : heap'[b] = Null \/ heap'[b] \in Seq(Data)
    BY <2>1 DEF HeapShape
  <2>3. QED
    BY <2>1, <2>2, <1>1, <1>2, <1>3, <1>4 DEF IInv, TypeOK
<1>12. OwnedOnce'
  <2> SUFFICES ASSUME NEW u \in Object, vectorItems'[u] # Null
               PROVE  /\ heap'[vectorItems'[u]] # Null
                      /\ \A w \in Object : vectorItems'[w] = vectorItems'[u] => w = u
    BY DEF OwnedOnce
  <2>1. CASE u = v
    <3>1. heap'[a] # Null
      BY <1>6, <1>7, SmallVectorAssumption
    <3>2. \A w \in Object : w # v => vectorItems'[w] # a
      BY <1>2, <1>8, SmallVectorAssumption DEF IInv, TypeOK
    <3>3. QED
      BY <2>1, <3>1, <3>2, <1>6
  <2>2. CASE u # v
    <3>1. vectorItems'[u] = vectorItems[u] /\ vectorItems[u] # a
      BY <2>2, <1>2, <1>8, SmallVectorAssumption DEF IInv, TypeOK
    <3>2. heap[vectorItems[u]] # Null
      BY <3>1 DEF IInv, OwnedOnce
    <3>3. heap'[vectorItems'[u]] = heap[vectorItems[u]]
      BY <3>1, <2>2, <1>2 DEF IInv, TypeOK, HeapShape
    <3>4. \A w \in Object : w # v => vectorItems'[w] = vectorItems[w]
      BY <1>2 DEF IInv, TypeOK
    <3>5. vectorItems'[v] = a
      BY <1>6
    <3>6. QED
      BY <3>1, <3>2, <3>3, <3>4, <3>5 DEF IInv, OwnedOnce
  <2>3. QED
    BY <2>1, <2>2
<1>13. Good(v)' /\ (Aligned(v) => Aligned(v)')
  <2>1. ArrayHoldsBeginning(v)'
    BY <1>1, <1>3, <1>4, <1>6 DEF IInv, Good, ArrayHoldsBeginning, c, n
  <2>2. Aligned(v)' <=> Len(o) = n - SmallSize
    BY <1>1, <1>5, <1>6, <1>7 DEF Aligned, IsOverflown
  <2>3. OverflowReaches(v)'
    BY <1>1, <1>5, <1>6, <1>7, <1>9, SmallVectorAssumption DEF OverflowReaches
  <2>4. ASSUME Aligned(v)', NEW j \in 1 .. Len(o) + 1
        PROVE  grown[j] = pushed[SmallSize + j]
    <3>1. CASE j = Len(o) + 1
      <4>1. SmallSize + j = n + 1
        BY <3>1, <2>2, <2>4, <1>1, <1>5
      <4>2. QED
        BY <3>1, <4>1, <1>4, <1>7
    <3>2. CASE j <= Len(o)
      <4>1. Aligned(v) /\ IsOverflown(v)
        BY <3>2, <2>2, <2>4, <1>1, <1>5, <1>10 DEF IsOverflown, n
      <4>2. o[j] = c[SmallSize + j]
        BY <3>2, <4>1, <1>5 DEF IInv, Good, OverflowHoldsRest, o, c
      <4>3. SmallSize + j \in 1 .. n
        BY <3>2, <2>2, <2>4, <1>1, <1>5
      <4>4. QED
        BY <3>2, <4>2, <4>3, <1>4, <1>5, <1>7
    <3>3. QED
      BY <3>1, <3>2, <1>5
  <2>5. OverflowHoldsRest(v)'
    BY <2>4, <1>6, <1>7 DEF OverflowHoldsRest
  <2>6. QED
    BY <2>1, <2>2, <2>3, <2>5, <1>4, <1>6, <1>10 DEF Good
<1>14. ASSUME NEW u \in Object, u # v PROVE Good(u)' /\ (Aligned(u)' <=> Aligned(u))
  BY <1>14, <1>2, <1>3, <1>8, Untouched DEF IInv, TypeOK, HeapShape
<1>15. QED
  BY <1>11, <1>12, <1>13, <1>14 DEF IInv

(* A sequence without its last element.                                    *)
LEMMA WithoutLast ==
  ASSUME NEW s \in Seq(Data), Len(s) > 0
  PROVE  /\ SubSeq(s, 1, Len(s) - 1) \in Seq(Data)
         /\ Len(SubSeq(s, 1, Len(s) - 1)) = Len(s) - 1
         /\ \A i \in 1 .. Len(s) - 1 : SubSeq(s, 1, Len(s) - 1)[i] = s[i]
<1> DEFINE n == Len(s) - 1
<1>1. n \in Nat /\ \A i \in 1 .. n : s[i] \in Data
  BY LenProperties, ElementOfSeq
<1> HIDE DEF n
<1>2. 1 \in Int /\ n \in Int
  BY <1>1
<1>3. /\ SubSeq(s, 1, n) \in Seq(Data)
      /\ Len(SubSeq(s, 1, n)) = IF 1 <= n THEN n - 1 + 1 ELSE 0
      /\ \A i \in 1 .. n - 1 + 1 : SubSeq(s, 1, n)[i] = s[1 + i - 1]
  BY <1>1, <1>2, SubSeqProperties
<1>4. /\ SubSeq(s, 1, n) \in Seq(Data) /\ Len(SubSeq(s, 1, n)) = n
      /\ \A i \in 1 .. n : SubSeq(s, 1, n)[i] = s[i]
  BY <1>1, <1>3
<1>5. QED
  BY <1>4 DEF n

(* pop_back takes the last element from where it is.                       *)
LEMMA PopBackIInv ==
  ASSUME IInv, NEW v \in Object, PopBack(v)
  PROVE  IInv' /\ \A u \in Object : Aligned(u) => Aligned(u)'
<1> DEFINE c == contents[v]  n == lastIndex[v]  o == Overflow(v)
           popped == SubSeq(c, 1, n - 1)  shrunk == SubSeq(o, 1, Len(o) - 1)
<1>1. /\ c \in Seq(Data) /\ n \in Nat /\ n = Len(c) /\ n > 0 /\ n <= MaxSize
      /\ SmallSize \in Nat \ {0} /\ MaxSize \in Nat
  BY SmallVectorAssumption DEF IInv, TypeOK, Good, PopBack
<1>2. /\ popped \in Seq(Data) /\ Len(popped) = n - 1
      /\ \A i \in 1 .. n - 1 : popped[i] = c[i]
  BY <1>1, WithoutLast
<1>3. /\ o \in Seq(Data) /\ Len(o) \in Nat
      /\ vectorItems[v] # Null => vectorItems[v] \in Address /\ heap[vectorItems[v]] = o
  BY OverflowType DEF IInv
<1>4. /\ arrayItems' = arrayItems /\ vectorItems' = vectorItems
      /\ lastIndex' = [lastIndex EXCEPT ![v] = n - 1]
      /\ contents' = [contents EXCEPT ![v] = popped]
  BY <1>1 DEF PopBack
<1>5. lastIndex'[v] = n - 1 /\ contents'[v] = popped
  BY <1>4 DEF IInv, TypeOK
<1>6. ASSUME n > SmallSize
      PROVE  /\ vectorItems[v] # Null /\ Len(o) > 0 /\ n - SmallSize <= Len(o)
             /\ heap' = [heap EXCEPT ![vectorItems[v]] = shrunk]
             /\ heap'[vectorItems[v]] = shrunk /\ Overflow(v)' = shrunk
             /\ shrunk \in Seq(Data) /\ Len(shrunk) = Len(o) - 1
             /\ \A i \in 1 .. Len(o) - 1 : shrunk[i] = o[i]
  <2>1. vectorItems[v] # Null /\ Len(o) > 0 /\ n - SmallSize <= Len(o)
    BY <1>1, <1>3, <1>6 DEF IInv, Good, OverflowReaches, IsOverflown
  <2>2. /\ shrunk \in Seq(Data) /\ Len(shrunk) = Len(o) - 1
        /\ \A i \in 1 .. Len(o) - 1 : shrunk[i] = o[i]
    BY <2>1, <1>3, WithoutLast
  <2>3. heap' = [heap EXCEPT ![vectorItems[v]] = shrunk]
    BY <2>1, <1>3, <1>6 DEF PopBack, IsOverflown
  <2>4. heap'[vectorItems[v]] = shrunk
    BY <2>1, <2>3, <1>3 DEF IInv, HeapShape
  <2>5. Overflow(v)' = shrunk
    BY <2>1, <2>4, <1>4 DEF Overflow
  <2>6. QED
    BY <2>1, <2>2, <2>3, <2>4, <2>5
<1>7. n <= SmallSize => heap' = heap /\ Overflow(v)' = o
  BY <1>1, <1>4 DEF PopBack, IsOverflown, Overflow
<1>8. Aligned(v) <=> Len(o) = IF n > SmallSize THEN n - SmallSize ELSE 0
  BY <1>1, <1>3 DEF Aligned, IsOverflown
<1> HIDE DEF c, n, o, popped, shrunk
<1>9. HeapShape' /\ TypeOK'
  <2>1. HeapShape'
    BY <1>1, <1>3, <1>6, <1>7 DEF IInv, HeapShape
  <2>2. QED
    BY <2>1, <1>1, <1>2, <1>4 DEF IInv, TypeOK, HeapShape
<1>10. ASSUME NEW u \in Object, u # v, vectorItems[u] # Null
       PROVE  /\ vectorItems[u] # vectorItems[v]
              /\ heap'[vectorItems[u]] = heap[vectorItems[u]]
  BY <1>10, <1>1, <1>6, <1>7 DEF IInv, TypeOK, HeapShape, OwnedOnce
<1>11. OwnedOnce'
  <2>1. vectorItems[v] # Null => heap'[vectorItems[v]] # Null
    BY <1>1, <1>6, <1>7, SmallVectorAssumption DEF IInv, OwnedOnce
  <2>2. vectorItems' = vectorItems
    BY <1>4
  <2>3. ASSUME NEW u \in Object, vectorItems[u] # Null PROVE heap'[vectorItems[u]] # Null
    <3>1. heap[vectorItems[u]] # Null
      BY <2>3 DEF IInv, OwnedOnce
    <3>2. QED
      BY <2>1, <2>3, <3>1, <1>10
  <2>4. QED
    BY <2>2, <2>3 DEF IInv, OwnedOnce
<1>12. Good(v)' /\ (Aligned(v) => Aligned(v)')
  <2>1. ArrayHoldsBeginning(v)'
    BY <1>1, <1>2, <1>4, <1>5 DEF IInv, Good, ArrayHoldsBeginning, c, n
  <2>2. CASE n > SmallSize
    <3>1. Aligned(v)' <=> Aligned(v)
      <4>1. Overflow(v)' = shrunk /\ Len(shrunk) = Len(o) - 1
        BY <2>2, <1>6
      <4>2. Aligned(v)' <=>
              SmallSize + (Len(o) - 1) = IF n - 1 > SmallSize THEN n - 1 ELSE SmallSize
        BY <4>1, <1>5 DEF Aligned, IsOverflown
      <4>3. QED
        BY <4>2, <2>2, <1>1, <1>3, <1>8
    <3>2. OverflowReaches(v)'
      BY <2>2, <1>1, <1>3, <1>4, <1>5, <1>6 DEF OverflowReaches
    <3>3. ASSUME Aligned(v), NEW j \in 1 .. Len(o) - 1 PROVE shrunk[j] = popped[SmallSize + j]
      <4>1. o[j] = c[SmallSize + j]
        BY <3>3, <2>2, <1>3 DEF IInv, Good, OverflowHoldsRest, IsOverflown, o, c, n
      <4>2. SmallSize + j \in 1 .. n - 1
        BY <3>3, <2>2, <1>1, <1>3, <1>8
      <4>3. QED
        BY <4>1, <4>2, <2>2, <1>2, <1>6
    <3>4. OverflowHoldsRest(v)'
      BY <3>1, <3>3, <2>2, <1>5, <1>6 DEF OverflowHoldsRest
    <3>5. QED
      BY <2>1, <3>1, <3>2, <3>4, <1>2, <1>5 DEF Good
  <2>3. CASE n <= SmallSize
    <3>1. ~IsOverflown(v)' /\ (Aligned(v)' <=> Aligned(v))
      BY <2>3, <1>1, <1>3, <1>5, <1>7, <1>8 DEF Aligned, IsOverflown
    <3>2. QED
      BY <2>1, <3>1, <1>2, <1>5 DEF Good, OverflowReaches, OverflowHoldsRest
  <2>4. QED
    BY <2>2, <2>3, <1>1
<1>13. ASSUME NEW u \in Object, u # v PROVE Good(u)' /\ (Aligned(u)' <=> Aligned(u))
  BY <1>13, <1>4, <1>10, Untouched DEF IInv, TypeOK
<1>14. QED
  BY <1>9, <1>11, <1>12, <1>13 DEF IInv

(* A store reaches the element with its index, in array or overflow vector.*)
LEMMA AssignIInv ==
  ASSUME IInv, NEW v \in Object, NEW idx \in 0 .. MaxSize - 1, NEW x \in Data,
         Assign(v, idx, x)
  PROVE  IInv' /\ \A u \in Object : Aligned(u) => Aligned(u)'
<1> DEFINE c == contents[v]  n == lastIndex[v]  o == Overflow(v)  k == idx - SmallSize + 1
           stored == [c EXCEPT ![idx + 1] = x]  changed == [o EXCEPT ![k] = x]
<1>1. /\ c \in Seq(Data) /\ n \in Nat /\ n = Len(c) /\ idx < n /\ idx \in Nat /\ n <= MaxSize
      /\ SmallSize \in Nat \ {0} /\ MaxSize \in Nat
  BY SmallVectorAssumption DEF IInv, TypeOK, Good, Assign
<1>2. /\ stored \in Seq(Data) /\ Len(stored) = n
      /\ \A i \in 1 .. n : stored[i] = IF i = idx + 1 THEN x ELSE c[i]
  BY <1>1, ExceptSeq
<1>3. /\ o \in Seq(Data) /\ Len(o) \in Nat
      /\ vectorItems[v] # Null => vectorItems[v] \in Address /\ heap[vectorItems[v]] = o
  BY OverflowType DEF IInv
<1>4. /\ vectorItems' = vectorItems /\ lastIndex' = lastIndex
      /\ contents' = [contents EXCEPT ![v] = stored]
  BY DEF Assign
<1>5. contents'[v] = stored
  BY <1>4 DEF IInv, TypeOK
<1>6. ASSUME idx < SmallSize
      PROVE  /\ arrayItems' = [arrayItems EXCEPT ![v] = [arrayItems[v] EXCEPT ![idx] = x]]
             /\ arrayItems'[v] = [arrayItems[v] EXCEPT ![idx] = x]
             /\ arrayItems[v] \in [Index -> Element] /\ idx \in Index
             /\ heap' = heap /\ Overflow(v)' = o
  BY <1>1, <1>4, <1>6 DEF Assign, IInv, TypeOK, Index, Overflow
<1>7. ASSUME idx >= SmallSize
      PROVE  /\ arrayItems' = arrayItems
             /\ vectorItems[v] # Null /\ k \in 1 .. Len(o) /\ n > SmallSize
             /\ heap' = [heap EXCEPT ![vectorItems[v]] = changed]
             /\ heap'[vectorItems[v]] = changed /\ Overflow(v)' = changed
             /\ changed \in Seq(Data) /\ Len(changed) = Len(o)
             /\ \A i \in 1 .. Len(o) : changed[i] = IF i = k THEN x ELSE o[i]
  <2>1. vectorItems[v] # Null /\ k \in 1 .. Len(o) /\ n > SmallSize
    BY <1>1, <1>3, <1>7 DEF IInv, Good, OverflowReaches, IsOverflown
  <2>2. /\ changed \in Seq(Data) /\ Len(changed) = Len(o)
        /\ \A i \in 1 .. Len(o) : changed[i] = IF i = k THEN x ELSE o[i]
    BY <2>1, <1>3, ExceptSeq
  <2>3. /\ heap' = [heap EXCEPT ![vectorItems[v]] = changed]
        /\ arrayItems' = arrayItems
    <3>1. /\ heap' = [heap EXCEPT ![vectorItems[v]][idx - SmallSize + 1] = x]
          /\ arrayItems' = arrayItems
      BY <1>1, <1>7 DEF Assign
    <3>2. heap[vectorItems[v]] = o
      BY <2>1, <1>3
    <3>3. QED
      BY <3>1, <3>2
  <2>4. heap'[vectorItems[v]] = changed
    BY <2>1, <2>3, <1>3 DEF IInv, HeapShape
  <2>5. Overflow(v)' = changed
    BY <2>1, <2>4, <1>4 DEF Overflow
  <2>6. QED
    BY <2>1, <2>2, <2>3, <2>4, <2>5
<1>8. Aligned(v) <=> Len(o) = IF n > SmallSize THEN n - SmallSize ELSE 0
  BY <1>1, <1>3 DEF Aligned, IsOverflown
<1> HIDE DEF c, n, o, stored, changed
<1>9. HeapShape' /\ TypeOK'
  <2>1. HeapShape' /\ arrayItems' \in [Object -> [Index -> Element]]
    <3>1. CASE idx < SmallSize
      <4>1. [arrayItems[v] EXCEPT ![idx] = x] \in [Index -> Element]
        BY <3>1, <1>6 DEF Element
      <4>2. QED
        BY <3>1, <4>1, <1>6 DEF IInv, TypeOK, HeapShape
    <3>2. CASE idx >= SmallSize
      BY <3>2, <1>3, <1>7 DEF IInv, TypeOK, HeapShape
    <3>3. QED
      BY <3>1, <3>2, <1>1
  <2>2. QED
    BY <2>1, <1>1, <1>2, <1>4 DEF IInv, TypeOK, HeapShape
<1>10. ASSUME NEW u \in Object, u # v
       PROVE  /\ arrayItems'[u] = arrayItems[u]
              /\ vectorItems[u] # Null => /\ vectorItems[u] # vectorItems[v]
                                          /\ heap'[vectorItems[u]] = heap[vectorItems[u]]
  BY <1>10, <1>1, <1>6, <1>7 DEF IInv, TypeOK, HeapShape, OwnedOnce
<1>11. OwnedOnce'
  <2>1. vectorItems[v] # Null => heap'[vectorItems[v]] # Null
    BY <1>1, <1>6, <1>7, SmallVectorAssumption DEF IInv, OwnedOnce
  <2>2. vectorItems' = vectorItems
    BY <1>4
  <2>3. ASSUME NEW u \in Object, vectorItems[u] # Null PROVE heap'[vectorItems[u]] # Null
    <3>1. heap[vectorItems[u]] # Null
      BY <2>3 DEF IInv, OwnedOnce
    <3>2. QED
      BY <2>1, <2>3, <3>1, <1>10
  <2>4. QED
    BY <2>2, <2>3 DEF IInv, OwnedOnce
<1>12. Good(v)' /\ (Aligned(v) => Aligned(v)')
  <2>1. \A i \in 1 .. n : i <= SmallSize => arrayItems[v][i - 1] = c[i]
    BY <1>1 DEF IInv, Good, ArrayHoldsBeginning, c
  <2>2. CASE idx < SmallSize
    <3>1. ASSUME NEW i \in 1 .. n, i <= SmallSize PROVE arrayItems'[v][i - 1] = stored[i]
      <4>1. i - 1 \in Index /\ (i - 1 = idx <=> i = idx + 1)
        BY <3>1, <1>1 DEF Index
      <4>2. arrayItems'[v][i - 1] = IF i - 1 = idx THEN x ELSE arrayItems[v][i - 1]
        BY <4>1, <2>2, <1>6
      <4>3. QED
        BY <4>1, <4>2, <3>1, <2>1, <1>2
    <3>2. ArrayHoldsBeginning(v)'
      BY <3>1, <1>2, <1>5 DEF ArrayHoldsBeginning
    <3>3. Aligned(v)' <=> Aligned(v)
      BY <2>2, <1>4, <1>6 DEF Aligned, IsOverflown, o
    <3>4. OverflowReaches(v)'
      BY <2>2, <1>4, <1>6 DEF IInv, Good, OverflowReaches, IsOverflown
    <3>5. ASSUME Aligned(v), IsOverflown(v), NEW j \in 1 .. Len(o)
          PROVE  o[j] = stored[SmallSize + j]
      <4>1. o[j] = c[SmallSize + j]
        BY <3>5 DEF IInv, Good, OverflowHoldsRest, o, c
      <4>2. SmallSize + j \in 1 .. n /\ SmallSize + j # idx + 1
        BY <3>5, <2>2, <1>1, <1>3, <1>8 DEF IsOverflown, n
      <4>3. QED
        BY <4>1, <4>2, <1>2
    <3>6. OverflowHoldsRest(v)'
      BY <3>3, <3>5, <2>2, <1>4, <1>5, <1>6 DEF OverflowHoldsRest, IsOverflown
    <3>7. QED
      BY <3>2, <3>3, <3>4, <3>6, <1>1, <1>2, <1>4, <1>5 DEF Good, n
  <2>3. CASE idx >= SmallSize
    <3>1. ASSUME NEW i \in 1 .. n, i <= SmallSize PROVE arrayItems'[v][i - 1] = stored[i]
      <4>1. i # idx + 1
        BY <3>1, <2>3, <1>1
      <4>2. QED
        BY <4>1, <3>1, <2>1, <2>3, <1>2, <1>7
    <3>2. ArrayHoldsBeginning(v)'
      BY <3>1, <1>2, <1>5 DEF ArrayHoldsBeginning
    <3>3. Aligned(v)' <=> Aligned(v)
      BY <2>3, <1>4, <1>7 DEF Aligned, IsOverflown, o
    <3>4. OverflowReaches(v)'
      BY <2>3, <1>3, <1>4, <1>7 DEF IInv, Good, OverflowReaches, IsOverflown
    <3>5. ASSUME Aligned(v), NEW j \in 1 .. Len(o)
          PROVE  changed[j] = stored[SmallSize + j]
      <4>1. o[j] = c[SmallSize + j]
        BY <3>5, <2>3, <1>7 DEF IInv, Good, OverflowHoldsRest, IsOverflown, o, c, n
      <4>2. SmallSize + j \in 1 .. n /\ (SmallSize + j = idx + 1 <=> j = k)
        BY <3>5, <2>3, <1>1, <1>3, <1>7, <1>8
      <4>3. QED
        BY <4>1, <4>2, <2>3, <1>2, <1>7
    <3>6. OverflowHoldsRest(v)'
      BY <3>3, <3>5, <2>3, <1>5, <1>7 DEF OverflowHoldsRest
    <3>7. QED
      BY <3>2, <3>3, <3>4, <3>6, <1>1, <1>2, <1>4, <1>5 DEF Good, n
  <2>4. QED
    BY <2>2, <2>3, <1>1
<1>13. ASSUME NEW u \in Object, u # v PROVE Good(u)' /\ (Aligned(u)' <=> Aligned(u))
  BY <1>13, <1>4, <1>10, Untouched DEF IInv, TypeOK
<1>14. QED
  BY <1>9, <1>11, <1>12, <1>13 DEF IInv

-----------------------------------------------------------------------------
(* A vector that has taken over what another one held is as good.          *)
LEMMA TakenOver ==
  ASSUME NEW v \in Object, NEW w \in Object, Good(w),
         arrayItems'[v] = arrayItems[w],
         lastIndex'[v] = lastIndex[w], contents'[v] = contents[w],
         Overflow(v)' = Overflow(w),
         vectorItems'[v] = Null => ~IsOverflown(w)
  PROVE  Good(v)' /\ (Aligned(v)' <=> Aligned(w))
<1>1. (Aligned(v)' <=> Aligned(w)) /\ (IsOverflown(v)' <=> IsOverflown(w))
  BY DEF Aligned, IsOverflown
<1>2. OverflowReaches(v)'
  <2> SUFFICES ASSUME IsOverflown(v)'
               PROVE  /\ vectorItems'[v] # Null
                      /\ lastIndex'[v] - SmallSize <= Len(heap'[vectorItems'[v]])
    BY DEF OverflowReaches
  <2>1. vectorItems'[v] # Null /\ vectorItems[w] # Null
    BY <1>1 DEF Good, OverflowReaches
  <2>2. heap'[vectorItems'[v]] = heap[vectorItems[w]]
    BY <2>1 DEF Overflow
  <2>3. QED
    BY <2>1, <2>2, <1>1 DEF Good, OverflowReaches
<1>3. ArrayHoldsBeginning(v)' /\ OverflowHoldsRest(v)'
  BY <1>1 DEF Good, ArrayHoldsBeginning, OverflowHoldsRest
<1>4. QED
  BY <1>1, <1>2, <1>3 DEF Good

(* v = w copies the overflow vector of w if it is in use.  If not, v keeps *)
(* its own, which is then out of step unless it was empty.                 *)
LEMMA CopyAssignIInv ==
  ASSUME IInv, NEW v \in Object, NEW w \in Object, CopyAssign(v, w)
  PROVE  /\ IInv'
         /\ \A u \in Object : Aligned(u) /\ ~Aligned(u)' =>
              u = v /\ (~Aligned(w) \/ (~IsOverflown(w) /\ Overflow(v) # <<>>))
<1>1. /\ v # w
      /\ arrayItems' = [arrayItems EXCEPT ![v] = arrayItems[w]]
      /\ lastIndex' = [lastIndex EXCEPT ![v] = lastIndex[w]]
      /\ contents' = [contents EXCEPT ![v] = contents[w]]
  BY DEF CopyAssign
<1>2. /\ arrayItems'[v] = arrayItems[w]
      /\ lastIndex'[v] = lastIndex[w] /\ contents'[v] = contents[w]
  BY <1>1 DEF IInv, TypeOK
<1>3. /\ arrayItems' \in [Object -> [Index -> Element]]
      /\ lastIndex' \in [Object -> 0 .. MaxSize]
      /\ contents' \in [Object -> Seq(Data)]
  BY <1>1 DEF IInv, TypeOK
<1>4. CASE IsOverflown(w)
  <2>1. PICK a \in Free : /\ heap' = [heap EXCEPT ![a] = heap[vectorItems[w]]]
                          /\ vectorItems' = [vectorItems EXCEPT ![v] = a]
    BY <1>4 DEF CopyAssign
  <2>2. a \in Address /\ heap[a] = Null
    BY DEF Free
  <2>3. /\ vectorItems[w] # Null /\ heap[vectorItems[w]] \in Seq(Data)
        /\ Overflow(w) = heap[vectorItems[w]]
    BY <1>4, OverflowType DEF IInv, Good, OverflowReaches
  <2>4. /\ vectorItems'[v] = a /\ heap'[a] = heap[vectorItems[w]]
        /\ a # Null /\ heap'[a] # Null
    BY <2>1, <2>2, <2>3, SmallVectorAssumption DEF IInv, TypeOK, HeapShape
  <2>5. ASSUME NEW u \in Object, vectorItems[u] # Null
        PROVE  vectorItems[u] # a /\ heap'[vectorItems[u]] = heap[vectorItems[u]]
    BY <2>5, <2>1, <2>2 DEF IInv, TypeOK, HeapShape, OwnedOnce
  <2>6. HeapShape' /\ TypeOK'
    <3>1. HeapShape'
      BY <2>1, <2>2, <2>3 DEF IInv, HeapShape
    <3>2. vectorItems' \in [Object -> Address \cup {Null}]
      BY <2>1, <2>2 DEF IInv, TypeOK
    <3>3. QED
      BY <3>1, <3>2, <1>3 DEF TypeOK, HeapShape
  <2>7. OwnedOnce'
    <3> SUFFICES ASSUME NEW u \in Object, vectorItems'[u] # Null
                 PROVE  /\ heap'[vectorItems'[u]] # Null
                        /\ \A x \in Object : vectorItems'[x] = vectorItems'[u] => x = u
      BY DEF OwnedOnce
    <3>1. \A x \in Object : x # v => vectorItems'[x] = vectorItems[x] /\ vectorItems'[x] # a
      BY <2>1, <2>2, <2>4, <2>5 DEF IInv, TypeOK
    <3>2. CASE u = v
      BY <3>1, <3>2, <2>4
    <3>3. CASE u # v
      BY <3>1, <3>3, <2>4, <2>5 DEF IInv, OwnedOnce
    <3>4. QED
      BY <3>2, <3>3
  <2>8. Good(v)' /\ (Aligned(v)' <=> Aligned(w))
    <3>1. Overflow(v)' = Overflow(w)
      BY <2>3, <2>4 DEF Overflow
    <3>2. QED
      BY <3>1, <2>4, <1>2, TakenOver DEF IInv
  <2>9. ASSUME NEW u \in Object, u # v PROVE Good(u)' /\ (Aligned(u)' <=> Aligned(u))
    BY <2>1, <2>5, <2>9, <1>1, Untouched DEF IInv, TypeOK
  <2>10. QED
    BY <2>6, <2>7, <2>8, <2>9 DEF IInv
<1>5. CASE ~IsOverflown(w)
  <2>1. heap' = heap /\ vectorItems' = vectorItems
    BY <1>5 DEF CopyAssign
  <2>2. HeapShape' /\ TypeOK' /\ OwnedOnce'
    BY <2>1, <1>3 DEF IInv, TypeOK, HeapShape, OwnedOnce
  <2>3. ~IsOverflown(v)' /\ Overflow(v)' = Overflow(v)
    BY <2>1, <1>2, <1>5 DEF IsOverflown, Overflow
  <2>4. Good(v)'
    BY <2>3, <1>2
    DEF IInv, Good, ArrayHoldsBeginning, OverflowReaches, OverflowHoldsRest
  <2>5. Overflow(v) = <<>> => Aligned(v)'
    BY <2>3, EmptySeq, SmallVectorAssumption DEF Aligned
  <2>6. ASSUME NEW u \in Object, u # v PROVE Good(u)' /\ (Aligned(u)' <=> Aligned(u))
    BY <2>1, <2>6, <1>1, Untouched DEF IInv, TypeOK
  <2>7. QED
    BY <2>2, <2>4, <2>5, <2>6, <1>5 DEF IInv
<1>6. QED
  BY <1>4, <1>5

(* v = std::move(w) takes the overflow vector over and leaves w empty.     *)
LEMMA MoveAssignIInv ==
  ASSUME IInv, NEW v \in Object, NEW w \in Object, MoveAssign(v, w)
  PROVE  /\ IInv'
         /\ \A u \in Object : Aligned(u) /\ ~Aligned(u)' => u = v /\ ~Aligned(w)
<1>1. /\ v # w
      /\ arrayItems' = [arrayItems EXCEPT ![v] = arrayItems[w]]
      /\ vectorItems' = [vectorItems EXCEPT ![v] = vectorItems[w], ![w] = Null]
      /\ lastIndex' = [lastIndex EXCEPT ![v] = lastIndex[w], ![w] = 0]
      /\ contents' = [contents EXCEPT ![v] = contents[w], ![w] = <<>>]
      /\ heap' = heap
  BY DEF MoveAssign
<1>2. <<>> \in Seq(Data) /\ Len(<<>>) = 0
  BY EmptySeq
<1>3. /\ arrayItems'[v] = arrayItems[w] /\ vectorItems'[v] = vectorItems[w]
      /\ lastIndex'[v] = lastIndex[w] /\ contents'[v] = contents[w]
      /\ vectorItems'[w] = Null /\ lastIndex'[w] = 0 /\ contents'[w] = <<>>
  BY <1>1 DEF IInv, TypeOK
<1>4. HeapShape' /\ TypeOK'
  <2>1. 0 \in 0 .. MaxSize
    BY SmallVectorAssumption
  <2>2. lastIndex' \in [Object -> 0 .. MaxSize]
    BY <2>1, <1>1 DEF IInv, TypeOK
  <2>3. contents' \in [Object -> Seq(Data)]
    BY <1>1, <1>2 DEF IInv, TypeOK
  <2>4. /\ arrayItems' \in [Object -> [Index -> Element]]
        /\ vectorItems' \in [Object -> Address \cup {Null}]
    BY <1>1 DEF IInv, TypeOK
  <2>5. QED
    BY <2>2, <2>3, <2>4, <1>1 DEF IInv, TypeOK, HeapShape
<1>5. OwnedOnce'
  <2> SUFFICES ASSUME NEW u \in Object, vectorItems'[u] # Null
               PROVE  /\ heap'[vectorItems'[u]] # Null
                      /\ \A x \in Object : vectorItems'[x] = vectorItems'[u] => x = u
    BY DEF OwnedOnce
  <2>1. \A x \in Object \ {v, w} : vectorItems'[x] = vectorItems[x]
    BY <1>1 DEF IInv, TypeOK
  <2>2. CASE u = v
    <3>1. vectorItems[w] # Null /\ vectorItems'[u] = vectorItems[w]
      BY <2>2, <1>3
    <3>2. \A x \in Object : vectorItems[x] = vectorItems[w] => x = w
      BY <3>1 DEF IInv, OwnedOnce
    <3>3. \A x \in Object : vectorItems'[x] = vectorItems'[u] => x = u
      BY <3>1, <3>2, <2>1, <2>2, <1>3
    <3>4. QED
      BY <3>1, <3>3, <1>1 DEF IInv, OwnedOnce
  <2>3. CASE u # v
    <3>1. u # w /\ vectorItems'[u] = vectorItems[u]
      BY <2>1, <2>3, <1>3
    <3>2. \A x \in Object : vectorItems[x] = vectorItems[u] => x = u
      BY <3>1 DEF IInv, OwnedOnce
    <3>3. heap'[vectorItems'[u]] # Null
      BY <3>1, <1>1 DEF IInv, OwnedOnce
    <3>4. vectorItems'[v] # vectorItems'[u]
      BY <3>1, <3>2, <1>3
    <3>5. QED
      BY <2>1, <3>1, <3>2, <3>3, <3>4, <1>3
  <2>4. QED
    BY <2>2, <2>3
<1>6. Good(v)' /\ (Aligned(v)' <=> Aligned(w))
  <2>1. Overflow(v)' = Overflow(w)
    BY <1>1, <1>3 DEF Overflow
  <2>2. vectorItems'[v] = Null => ~IsOverflown(w)
    BY <1>3 DEF IInv, Good, OverflowReaches
  <2>3. QED
    BY <2>1, <2>2, <1>3, TakenOver DEF IInv
<1>7. Good(w)' /\ Aligned(w)'
  <2>1. ~IsOverflown(w)' /\ Overflow(w)' = <<>>
    BY <1>3, SmallVectorAssumption DEF IsOverflown, Overflow
  <2>2. Aligned(w)'
    BY <2>1, <1>2, SmallVectorAssumption DEF Aligned
  <2>3. Good(w)'
    BY <2>1, <1>2, <1>3
    DEF Good, ArrayHoldsBeginning, OverflowReaches, OverflowHoldsRest
  <2>4. QED
    BY <2>2, <2>3
<1>8. ASSUME NEW u \in Object, u # v, u # w PROVE Good(u)' /\ (Aligned(u)' <=> Aligned(u))
  BY <1>1, <1>8, Untouched DEF IInv, TypeOK
<1>9. QED
  BY <1>4, <1>5, <1>6, <1>7, <1>8 DEF IInv

(* The destructor deletes the overflow vector, which nobody else owns.     *)
LEMMA RenewIInv ==
  ASSUME IInv, NEW v \in Object, Renew(v)
  PROVE  IInv' /\ \A u \in Object : Aligned(u) => Aligned(u)'
<1>1. /\ heap' = IF vectorItems[v] = Null THEN heap
                 ELSE [heap EXCEPT ![vectorItems[v]] = Null]
      /\ vectorItems' = [vectorItems EXCEPT ![v] = Null]
      /\ arrayItems' = [arrayItems EXCEPT ![v] = Fresh]
      /\ lastIndex' = [lastIndex EXCEPT ![v] = 0]
      /\ contents' = [contents EXCEPT ![v] = <<>>]
  BY DEF Renew
<1>2. <<>> \in Seq(Data) /\ Len(<<>>) = 0
  BY EmptySeq
<1>3. vectorItems'[v] = Null /\ lastIndex'[v] = 0 /\ contents'[v] = <<>>
  BY <1>1 DEF IInv, TypeOK
<1>4. HeapShape' /\ TypeOK'
  <2>1. Fresh \in [Index -> Element]
    BY DEF Fresh, Element
  <2>2. HeapShape'
    BY <1>1 DEF IInv, HeapShape, TypeOK
  <2>3. QED
    BY <2>1, <2>2, <1>1, <1>2, SmallVectorAssumption DEF IInv, TypeOK, HeapShape
<1>5. ASSUME NEW u \in Object, u # v, vectorItems[u] # Null
      PROVE  heap'[vectorItems[u]] = heap[vectorItems[u]]
  BY <1>1, <1>5 DEF IInv, TypeOK, HeapShape, OwnedOnce
<1>6. OwnedOnce'
  BY <1>1, <1>3, <1>5 DEF IInv, TypeOK, OwnedOnce
<1>7. Good(v)' /\ Aligned(v)'
  <2>1. ~IsOverflown(v)' /\ Overflow(v)' = <<>>
    BY <1>3, SmallVectorAssumption DEF IsOverflown, Overflow
  <2>2. Aligned(v)'
    BY <2>1, <1>2, SmallVectorAssumption DEF Aligned
  <2>3. Good(v)'
    BY <2>1, <1>2, <1>3
    DEF Good, ArrayHoldsBeginning, OverflowReaches, OverflowHoldsRest
  <2>4. QED
    BY <2>2, <2>3
<1>8. ASSUME NEW u \in Object, u # v PROVE Good(u)' /\ (Aligned(u)' <=> Aligned(u))
  BY <1>1, <1>5, <1>8, Untouched DEF IInv, TypeOK
<1>9. QED
  BY <1>4, <1>6, <1>7, <1>8 DEF IInv

-----------------------------------------------------------------------------
LEMMA NextIInv == IInv /\ [Next]_vars => IInv'
<1> SUFFICES ASSUME IInv, [Next]_vars PROVE IInv'
  OBVIOUS
<1>1. CASE UNCHANGED vars
  BY <1>1 DEF vars, IInv, TypeOK, HeapShape, OwnedOnce, Good, ArrayHoldsBeginning,
              OverflowReaches, OverflowHoldsRest, Aligned, IsOverflown, Overflow
<1>2. ASSUME NEW v \in Object, NEW x \in Data, PushBack(v, x) PROVE IInv'
  <2>1. PushInArray(v, x) \/ PushOverflow(v, x)
    BY <1>2 DEF PushBack
  <2>2. QED
    BY <2>1, <1>2, PushInArrayIInv, PushOverflowIInv
<1>3. QED
  BY <1>1, <1>2, PopBackIInv, AssignIInv, CopyAssignIInv, MoveAssignIInv, RenewIInv
  DEF Next

(* The ranges of all parts, for any number of vectors.                     *)
THEOREM TypeCorrect == Spec => []TypeOK
<1>1. IInv => TypeOK
  BY DEF IInv
<1>2. QED
  BY <1>1, InitIInv, NextIInv, PTL DEF Spec

(* Overflow vectors have at most one owner and outlive it never, for any   *)
(* number of vectors copied and moved in any order.                        *)
THEOREM OwnershipCorrect == Spec => []OwnedOnce
<1>1. IInv => OwnedOnce
  BY DEF IInv
<1>2. QED
  BY <1>1, InitIInv, NextIInv, PTL DEF Spec

(* What iteration, at() and back() read follows from the invariant.        *)
LEMMA ReadsFromIInv == IInv => ReadsAsPlainVector
<1> SUFFICES ASSUME IInv, NEW v \in Object
             PROVE  LET size == Len(contents[v])
                    IN  /\ lastIndex[v] = size
                        /\ Aligned(v) => Items(v) = contents[v]
                        /\ \A i \in 1 .. size :
                             i <= SmallSize => At(v, i - 1) = contents[v][i]
                        /\ Aligned(v) /\ size > SmallSize => Back(v) = contents[v][size]
                        /\ Aligned(v) /\ size = SmallSize => Back(v) = Null
                        /\ Back(v) = Null => size >= SmallSize
  BY DEF IInv, ReadsAsPlainVector
<1> DEFINE c == contents[v]  n == lastIndex[v]  o == Overflow(v)
<1>1. /\ c \in Seq(Data) /\ n \in Nat /\ n = Len(c)
      /\ SmallSize \in Nat \ {0}
  BY SmallVectorAssumption DEF IInv, TypeOK, Good
<1>2. /\ o \in Seq(Data) /\ Len(o) \in Nat
      /\ vectorItems[v] # Null => heap[vectorItems[v]] = o
      /\ vectorItems[v] = Null => o = <<>>
  BY OverflowType DEF IInv
<1>3. Aligned(v) <=> Len(o) = IF n > SmallSize THEN n - SmallSize ELSE 0
  BY <1>1, <1>2 DEF Aligned, IsOverflown
<1>4. n > SmallSize => vectorItems[v] # Null
  BY DEF IInv, Good, OverflowReaches, IsOverflown
<1>5. \A i \in 1 .. n : i <= SmallSize => At(v, i - 1) = c[i]
  <2> SUFFICES ASSUME NEW i \in 1 .. n, i <= SmallSize PROVE At(v, i - 1) = c[i]
    OBVIOUS
  <2>1. i - 1 < SmallSize
    BY <1>1
  <2>2. QED
    BY <2>1, <1>1 DEF At, IInv, Good, ArrayHoldsBeginning
<1>6. ASSUME Aligned(v), NEW i \in 1 .. n, i > SmallSize PROVE At(v, i - 1) = c[i]
  <2> DEFINE j == i - SmallSize
  <2>1. /\ j \in 1 .. Len(o) /\ SmallSize + j = i /\ n > SmallSize
        /\ ~ (i - 1 < SmallSize) /\ i - 1 - SmallSize + 1 = j
    BY <1>1, <1>2, <1>3, <1>6
  <2>2. o[j] = c[SmallSize + j]
    BY <2>1, <1>6 DEF IInv, Good, OverflowHoldsRest, IsOverflown
  <2>3. At(v, i - 1) = heap[vectorItems[v]][j]
    BY <2>1 DEF At
  <2>4. QED
    BY <2>1, <2>2, <2>3, <1>2, <1>4
<1>7. Aligned(v) => Items(v) = c
  <2> SUFFICES ASSUME Aligned(v) PROVE Items(v) = c
    OBVIOUS
  <2>1. \A i \in 1 .. n : At(v, i - 1) = c[i]
    BY <1>1, <1>5, <1>6
  <2>2. c = [i \in 1 .. n |-> c[i]]
    BY <1>1, LenProperties
  <2> HIDE DEF c
  <2>3. [i \in 1 .. n |-> At(v, i - 1)] = [i \in 1 .. n |-> c[i]]
    BY <2>1
  <2>4. QED
    BY <2>2, <2>3 DEF Items
<1>8. Aligned(v) /\ n > SmallSize => Back(v) = c[n]
  <2> SUFFICES ASSUME Aligned(v), n > SmallSize PROVE Back(v) = c[n]
    OBVIOUS
  <2>1. Len(o) = n - SmallSize /\ Len(o) > 0 /\ n \in 1 .. n
    BY <1>1, <1>2, <1>3
  <2>2. heap[vectorItems[v]] = o /\ vectorItems[v] # Null /\ o # <<>>
    BY <2>1, <1>2, <1>4, EmptySeq
  <2>3. Back(v) = o[Len(o)]
    BY <2>2, <1>1 DEF Back
  <2>4. o[Len(o)] = c[SmallSize + Len(o)]
    BY <2>1, <1>2 DEF IInv, Good, OverflowHoldsRest, IsOverflown
  <2>5. QED
    BY <2>1, <2>3, <2>4, <1>1
<1>9. Aligned(v) /\ n = SmallSize => Back(v) = Null
  <2> SUFFICES ASSUME Aligned(v), n = SmallSize PROVE Back(v) = Null
    OBVIOUS
  <2>1. Len(o) = 0 /\ ~ (n < SmallSize)
    BY <1>1, <1>2, <1>3
  <2>2. o = <<>>
    BY <2>1, <1>2, EmptySeq
  <2>3. QED
    BY <2>1, <2>2, <1>2 DEF Back
<1>10. Back(v) = Null => n >= SmallSize
  <2> SUFFICES ASSUME n < SmallSize PROVE Back(v) # Null
    BY <1>1
  <2>1. SmallSize - 1 \in Index /\ arrayItems[v][SmallSize - 1] \in Element
    BY <1>1 DEF Index, IInv, TypeOK
  <2>2. QED
    BY <2>1, SmallVectorAssumption DEF Back, Element
<1>11. QED
  BY <1>1, <1>5, <1>7, <1>8, <1>9, <1>10

(* A vector reads as a plain vector would, wherever its overflow vector is *)
(* in step, for any in-place size, any data and any sequence of calls.     *)
THEOREM ReadsCorrect == Spec => []ReadsAsPlainVector
BY ReadsFromIInv, InitIInv, NextIInv, PTL DEF Spec

(* Only the copy of a vector that has not overflown, and copies and moves  *)
(* of vectors that are out of step already, put one out of step.           *)
THEOREM OutOfStepExplained == Spec => OutOfStepOnlyByCopy
<1> DEFINE Explained(v) ==
             \/ \E w \in Object : CopyAssign(v, w) /\ ~IsOverflown(w) /\ Overflow(v) # <<>>
             \/ \E w \in Object : ~Aligned(w) /\ (CopyAssign(v, w) \/ MoveAssign(v, w))
           Explanation == \A v \in Object : Aligned(v) /\ ~Aligned(v)' => Explained(v)
<1>1. ASSUME IInv, [Next]_vars PROVE [Explanation]_vars
  <2>1. CASE UNCHANGED vars
    BY <2>1
  <2>2. ASSUME NEW v \in Object, NEW x \in Data, PushBack(v, x) PROVE Explanation
    <3>1. PushInArray(v, x) \/ PushOverflow(v, x)
      BY <2>2 DEF PushBack
    <3>2. QED
      BY <3>1, <2>2, <1>1, PushInArrayIInv, PushOverflowIInv
  <2>3. ASSUME NEW v \in Object, NEW idx \in 0 .. MaxSize - 1, NEW x \in Data,
               Assign(v, idx, x)
        PROVE  Explanation
    BY <2>3, <1>1, AssignIInv
  <2>4. ASSUME NEW v \in Object, PopBack(v) \/ Renew(v) PROVE Explanation
    BY <2>4, <1>1, PopBackIInv, RenewIInv
  <2>5. ASSUME NEW v \in Object, NEW w \in Object, CopyAssign(v, w) PROVE Explanation
    BY <2>5, <1>1, CopyAssignIInv
  <2>6. ASSUME NEW v \in Object, NEW w \in Object, MoveAssign(v, w) PROVE Explanation
    BY <2>6, <1>1, MoveAssignIInv
  <2>7. QED
    BY <2>1, <2>2, <2>3, <2>4, <2>5, <2>6, <1>1 DEF Next
<1>2. QED
  BY <1>1, InitIInv, NextIInv, PTL DEF Spec, OutOfStepOnlyByCopy

=============================================================================
