---------------------------- MODULE FoldTheorems -----------------------------
(***************************************************************************)
(* What the folds of the community modules compute, for any operation Op   *)
(* and any way Choose of picking the next element: the base for the empty  *)
(* set, and one operation more for a set with one element more.  The proof *)
(* is by induction on the number of elements.  A module that needs these   *)
(* facts takes an INSTANCE of this one for its operation.                  *)
(***************************************************************************)
EXTENDS Integers, FiniteSets, Folds, FiniteSetTheorems, WellFoundedInduction, TLAPS

CONSTANTS Op(_, _), Choose(_)

(* f[x] over the elements x of S, combined with base. *)
Folded(base, f, S) == MapThenFoldSet(Op, base, LAMBDA x : f[x], Choose, S)

ChoosesFrom(S) == \A s \in SUBSET S : s # {} => Choose(s) \in s

-----------------------------------------------------------------------------
(* Every set of numbers has a least one. *)
LEMMA NatHasLeast ==
  ASSUME NEW U, U \subseteq Nat, U # {}
  PROVE  \E x \in U : \A y \in U : x <= y
<1> DEFINE R == OpToRel(<, Nat)
<1>1. IsWellFoundedOn(R, Nat)
  BY NatLessThanWellFounded
<1>2. \E x \in U : \A y \in U : ~ (<<y, x>> \in R)
  <2> HIDE DEF R
  <2> QED  BY <1>1, WFMin
<1>3. PICK x \in U : \A y \in U : ~ (<<y, x>> \in R)
  BY <1>2
<1>4. \A y \in U : ~ (y < x)
  BY <1>3 DEF OpToRel
<1> QED  BY <1>4

(* Every set of the numbers up to n has a greatest one. *)
LEMMA BoundedHasGreatest ==
  ASSUME NEW n \in Nat, NEW U \in SUBSET (1 .. n), U # {}
  PROVE  \E x \in U : \A y \in U : y <= x
<1> DEFINE W == {n - x : x \in U}
<1>1. \A x \in U : x \in 1 .. n /\ n - x \in Nat
  OBVIOUS
<1>2. W \subseteq Nat /\ W # {}
  <2>1. PICK y \in U : TRUE
    OBVIOUS
  <2>2. n - y \in W
    BY <2>1
  <2> QED  BY <1>1, <2>2
<1>3. PICK w \in W : \A y \in W : w <= y
  BY <1>2, NatHasLeast
<1>4. PICK x \in U : w = n - x
  BY <1>3
<1>5. \A y \in U : y <= x
  BY <1>1, <1>3, <1>4
<1> QED  BY <1>5

(* Induction, for a set instead of a predicate. *)
LEMMA NatSetInduction ==
  ASSUME NEW T, T \subseteq Nat, 0 \in T, \A n \in T : n + 1 \in T
  PROVE  T = Nat
<1>1. SUFFICES ASSUME Nat \ T # {} PROVE FALSE
  OBVIOUS
<1>2. PICK x \in Nat \ T : \A y \in Nat \ T : x <= y
  BY <1>1, NatHasLeast
<1>3. x - 1 \in Nat \ T
  OBVIOUS
<1> QED  BY <1>2, <1>3

-----------------------------------------------------------------------------
(* The equation by which Folds defines a fold, over the subsets of a set.  *)
Def(base, f, s, g) == IF s = {} THEN base
                      ELSE Op(f[Choose(s)], g[s \ {Choose(s)}])

Solves(base, f, g, D) == g = [s \in D |-> Def(base, f, s, g)]

LEMMA Smaller ==
  ASSUME NEW S, IsFiniteSet(S), ChoosesFrom(S), NEW s \in SUBSET S, s # {}
  PROVE  LET r == s \ {Choose(s)}
         IN  /\ r \in SUBSET S /\ Cardinality(r) = Cardinality(s) - 1
             /\ Cardinality(s) \in Nat \ {0} /\ Cardinality(r) \in Nat
<1>1. Choose(s) \in s /\ IsFiniteSet(s)
  BY FS_Subset DEF ChoosesFrom
<1>2. /\ IsFiniteSet(s \ {Choose(s)})
      /\ Cardinality(s \ {Choose(s)}) = Cardinality(s) - 1
  BY <1>1, FS_RemoveElement
<1> QED  BY <1>1, <1>2, FS_CardinalityType

(* There is at most one solution.                                          *)
LEMMA SolutionsAgree ==
  ASSUME NEW base, NEW f, NEW S, IsFiniteSet(S), ChoosesFrom(S),
         NEW g, NEW h, Solves(base, f, g, SUBSET S), Solves(base, f, h, SUBSET S)
  PROVE  \A r \in SUBSET S : g[r] = h[r]
<1> DEFINE T == {n \in Nat : \A r \in SUBSET S : Cardinality(r) <= n => g[r] = h[r]}
<1>1. \A r \in SUBSET S : g[r] = Def(base, f, r, g) /\ h[r] = Def(base, f, r, h)
  BY DEF Solves
<1>2. \A r \in SUBSET S : r # {} => /\ r \ {Choose(r)} \in SUBSET S
                                    /\ Cardinality(r \ {Choose(r)}) = Cardinality(r) - 1
                                    /\ Cardinality(r) \in Nat \ {0}
  BY Smaller
<1>3. 0 \in T
  <2>1. ASSUME NEW r \in SUBSET S, Cardinality(r) <= 0
        PROVE  g[r] = h[r]
    <3>1. r # {} => Cardinality(r) \in Nat /\ Cardinality(r) # 0
      BY <1>2
    <3>2. r = {}
      BY <2>1, <3>1
    <3> QED  BY <1>1, <3>2 DEF Def
  <2> QED  BY <2>1
<1>4. ASSUME NEW n \in T PROVE n + 1 \in T
  <2>1. ASSUME NEW r \in SUBSET S, Cardinality(r) <= n + 1
        PROVE  g[r] = h[r]
    <3>1. CASE r = {}
      BY <1>1, <3>1 DEF Def
    <3>2. CASE r # {}
      <4>1. g[r \ {Choose(r)}] = h[r \ {Choose(r)}]
        BY <1>2, <1>4, <2>1, <3>2
      <4> QED  BY <1>1, <3>2, <4>1 DEF Def
    <3> QED  BY <3>1, <3>2
  <2> QED  BY <2>1
<1>5. T = Nat
  <2>1. T \subseteq Nat
    OBVIOUS
  <2> HIDE DEF T
  <2> QED  BY <1>3, <1>4, <2>1, NatSetInduction
<1>6. \A r \in SUBSET S : Cardinality(r) \in Nat
  BY FS_Subset, FS_CardinalityType
<1> QED  BY <1>5, <1>6

(* There is one. *)
LEMMA SolutionExists ==
  ASSUME NEW base, NEW f, NEW S, IsFiniteSet(S), ChoosesFrom(S)
  PROVE  \E g : Solves(base, f, g, SUBSET S)
<1> DEFINE Level(n) == {s \in SUBSET S : Cardinality(s) <= n}
           T == {n \in Nat : \E g : Solves(base, f, g, Level(n))}
<1>1. \A s \in SUBSET S : s # {} => /\ s \ {Choose(s)} \in SUBSET S
                                    /\ Cardinality(s \ {Choose(s)}) = Cardinality(s) - 1
                                    /\ Cardinality(s) \in Nat \ {0}
  BY Smaller
<1>2. 0 \in T
  <2> DEFINE g == [s \in Level(0) |-> base]
  <2>1. ASSUME NEW s \in Level(0) PROVE s = {}
    <3>1. s # {} => Cardinality(s) \in Nat /\ Cardinality(s) # 0
      BY <1>1
    <3> QED  BY <3>1
  <2>2. Solves(base, f, g, Level(0))
    BY <2>1 DEF Solves, Def
  <2> QED  BY <2>2
<1>3. ASSUME NEW n \in T PROVE n + 1 \in T
  <2>1. PICK g : Solves(base, f, g, Level(n))
    OBVIOUS
  <2> DEFINE h == [s \in Level(n + 1) |-> Def(base, f, s, g)]
  <2>2. ASSUME NEW s \in Level(n + 1)
        PROVE  Def(base, f, s, g) = Def(base, f, s, h)
    <3>1. CASE s = {}
      BY <3>1 DEF Def
    <3>2. CASE s # {}
      <4> DEFINE r == s \ {Choose(s)}
      <4>1. r \in Level(n) /\ r \in Level(n + 1)
        BY <1>1, <3>2
      <4>2. g[r] = Def(base, f, r, g) /\ h[r] = Def(base, f, r, g)
        BY <2>1, <4>1 DEF Solves
      <4>3. g[r] = h[r]
        BY <4>2
      <4> HIDE DEF h
      <4> QED  BY <3>2, <4>3 DEF Def
    <3> QED  BY <3>1, <3>2
  <2>3. Solves(base, f, h, Level(n + 1))
    <3>1. [s \in Level(n + 1) |-> Def(base, f, s, g)] = [s \in Level(n + 1) |-> Def(base, f, s, h)]
      <4> HIDE DEF h, Level
      <4> QED  BY <2>2
    <3> QED  BY <3>1 DEF Solves
  <2> QED  BY <2>3
<1>4. T = Nat
  <2>1. T \subseteq Nat
    OBVIOUS
  <2> HIDE DEF T
  <2> QED  BY <1>2, <1>3, <2>1, NatSetInduction
<1>5. Cardinality(S) \in Nat /\ \A s \in SUBSET S : Cardinality(s) <= Cardinality(S)
  BY FS_Subset, FS_CardinalityType
<1>6. Level(Cardinality(S)) = SUBSET S
  BY <1>5
<1> QED  BY <1>4, <1>5, <1>6

(* Folds chooses it. *)
LEMMA FoldedIsSolution ==
  ASSUME NEW base, NEW f, NEW S, IsFiniteSet(S), ChoosesFrom(S),
         NEW g, Solves(base, f, g, SUBSET S)
  PROVE  Folded(base, f, S) = g[S]
<1> DEFINE iter == CHOOSE h : h = [s \in SUBSET S |->
                     IF s = {} THEN base ELSE Op(f[Choose(s)], h[s \ {Choose(s)}])]
<1>1. Folded(base, f, S) = iter[S]
  BY DEF Folded, MapThenFoldSet
<1>2. Solves(base, f, iter, SUBSET S)
  BY DEF Solves, Def
<1> QED  BY <1>1, <1>2, SolutionsAgree

-----------------------------------------------------------------------------
(* The fold of the empty set is the base.                                  *)
THEOREM FoldEmpty ==
  ASSUME NEW base, NEW f
  PROVE  Folded(base, f, {}) = base
<1>1. IsFiniteSet({}) /\ ChoosesFrom({})
  BY FS_EmptySet DEF ChoosesFrom
<1>2. PICK g : Solves(base, f, g, SUBSET {})
  BY <1>1, SolutionExists
<1>3. g[{}] = base
  BY <1>2 DEF Solves, Def
<1> QED  BY <1>1, <1>2, <1>3, FoldedIsSolution

(* The fold of a larger set is one operation on the fold of the rest.      *)
THEOREM FoldStep ==
  ASSUME NEW base, NEW f, NEW S, IsFiniteSet(S), ChoosesFrom(S), S # {}
  PROVE  Folded(base, f, S) = Op(f[Choose(S)], Folded(base, f, S \ {Choose(S)}))
<1>1. PICK g : Solves(base, f, g, SUBSET S)
  BY SolutionExists
<1>2. ASSUME NEW R \in SUBSET S
      PROVE  Folded(base, f, R) = g[R]
  <2>1. IsFiniteSet(R) /\ ChoosesFrom(R)
    BY FS_Subset DEF ChoosesFrom
  <2> DEFINE h == [s \in SUBSET R |-> g[s]]
  <2>2. Solves(base, f, h, SUBSET R)
    <3>1. ASSUME NEW s \in SUBSET R
          PROVE  g[s] = Def(base, f, s, h)
      <4>1. s \in SUBSET S /\ s \ {Choose(s)} \in SUBSET R
        OBVIOUS
      <4>2. g[s] = Def(base, f, s, g)
        BY <1>1, <4>1 DEF Solves
      <4>3. g[s \ {Choose(s)}] = h[s \ {Choose(s)}]
        BY <4>1
      <4> HIDE DEF h
      <4> QED  BY <4>2, <4>3 DEF Def
    <3> QED  BY <3>1 DEF Solves
  <2>3. h[R] = g[R]
    OBVIOUS
  <2> HIDE DEF h
  <2> QED  BY <2>1, <2>2, <2>3, FoldedIsSolution
<1>3. g[S] = Op(f[Choose(S)], g[S \ {Choose(S)}])
  BY <1>1 DEF Solves, Def
<1>4. S \in SUBSET S /\ S \ {Choose(S)} \in SUBSET S
  OBVIOUS
<1> QED  BY <1>2, <1>3, <1>4

(* Folding the numbers up to n + 1, the greatest first.                    *)
PicksGreatest(n) ==
  \A s \in SUBSET (1 .. n) : s # {} => Choose(s) \in s /\ \A y \in s : y <= Choose(s)

THEOREM FoldUpTo ==
  ASSUME NEW n \in Nat, PicksGreatest(n + 1), NEW base, NEW f
  PROVE  Folded(base, f, 1 .. n + 1) = Op(f[n + 1], Folded(base, f, 1 .. n))
<1>1. Choose(1 .. n + 1) = n + 1
  <2>1. PICK m : m = Choose(1 .. n + 1)
    OBVIOUS
  <2>2. 1 .. n + 1 # {} /\ n + 1 \in 1 .. n + 1
    OBVIOUS
  <2>3. m \in 1 .. n + 1 /\ \A y \in 1 .. n + 1 : y <= m
    BY <2>1, <2>2 DEF PicksGreatest
  <2>4. m = n + 1
    BY <2>2, <2>3
  <2> QED  BY <2>1, <2>4
<1>2. IsFiniteSet(1 .. n + 1)
  BY FS_Interval
<1>3. ChoosesFrom(1 .. n + 1)
  BY DEF PicksGreatest, ChoosesFrom
<1>4. 1 .. n + 1 # {} /\ (1 .. n + 1) \ {n + 1} = 1 .. n
  OBVIOUS
<1>5. ASSUME NEW S, S = 1 .. n + 1
      PROVE  Folded(base, f, S) = Op(f[Choose(S)], Folded(base, f, S \ {Choose(S)}))
  BY <1>2, <1>3, <1>4, <1>5, FoldStep
<1> QED  BY <1>1, <1>4, <1>5

(* What holds of no elements and outlives one more holds of all.           *)
THEOREM FoldInduction ==
  ASSUME NEW S, IsFiniteSet(S), ChoosesFrom(S),
         NEW T, {} \in T,
         \A s \in SUBSET S : s # {} /\ s \ {Choose(s)} \in T => s \in T
  PROVE  S \in T
<1> DEFINE N == {n \in Nat : \A s \in SUBSET S : Cardinality(s) <= n => s \in T}
<1>1. \A s \in SUBSET S : s # {} => /\ s \ {Choose(s)} \in SUBSET S
                                    /\ Cardinality(s \ {Choose(s)}) = Cardinality(s) - 1
                                    /\ Cardinality(s) \in Nat \ {0}
  BY Smaller
<1>2. 0 \in N
  <2>1. ASSUME NEW s \in SUBSET S, Cardinality(s) <= 0
        PROVE  s \in T
    <3>1. s # {} => Cardinality(s) \in Nat /\ Cardinality(s) # 0
      BY <1>1
    <3>2. s = {}
      BY <2>1, <3>1
    <3> QED  BY <3>2
  <2> QED  BY <2>1
<1>3. ASSUME NEW n \in N PROVE n + 1 \in N
  <2>1. ASSUME NEW s \in SUBSET S, Cardinality(s) <= n + 1, s # {}
        PROVE  s \in T
    <3>1. s \ {Choose(s)} \in T
      BY <1>1, <1>3, <2>1
    <3> QED  BY <2>1, <3>1
  <2> QED  BY <2>1
<1>4. N = Nat
  <2>1. N \subseteq Nat
    OBVIOUS
  <2> HIDE DEF N
  <2> QED  BY <1>2, <1>3, <2>1, NatSetInduction
<1>5. Cardinality(S) \in Nat
  BY FS_CardinalityType
<1> QED  BY <1>4, <1>5

(* The fold stays among the values that the operation stays among.         *)
THEOREM FoldType ==
  ASSUME NEW base, NEW f, NEW S, IsFiniteSet(S), ChoosesFrom(S),
         NEW V, base \in V, \A x \in S, v \in V : Op(f[x], v) \in V
  PROVE  Folded(base, f, S) \in V
<1> DEFINE T == {s \in SUBSET S : Folded(base, f, s) \in V}
<1>1. {} \in T
  BY FoldEmpty
<1>2. ASSUME NEW s \in SUBSET S, s # {}, s \ {Choose(s)} \in T
      PROVE  s \in T
  <2>1. IsFiniteSet(s) /\ ChoosesFrom(s) /\ Choose(s) \in S
    BY <1>2, FS_Subset DEF ChoosesFrom
  <2>2. Folded(base, f, s) = Op(f[Choose(s)], Folded(base, f, s \ {Choose(s)}))
    BY <1>2, <2>1, FoldStep
  <2> QED  BY <1>2, <2>1, <2>2
<1>3. S \in T
  <2> HIDE DEF T
  <2> QED  BY <1>1, <1>2, FoldInduction
<1> QED  BY <1>3

(* A fold depends on the values of f on S only.                            *)
THEOREM FoldCongruence ==
  ASSUME NEW base, NEW f, NEW g, NEW S, IsFiniteSet(S), ChoosesFrom(S),
         \A x \in S : f[x] = g[x]
  PROVE  Folded(base, f, S) = Folded(base, g, S)
<1> DEFINE T == {s \in SUBSET S : Folded(base, f, s) = Folded(base, g, s)}
<1>1. {} \in T
  BY FoldEmpty
<1>2. ASSUME NEW s \in SUBSET S, s # {}, s \ {Choose(s)} \in T
      PROVE  s \in T
  <2>1. IsFiniteSet(s) /\ ChoosesFrom(s) /\ Choose(s) \in S
    BY <1>2, FS_Subset DEF ChoosesFrom
  <2>2. /\ Folded(base, f, s) = Op(f[Choose(s)], Folded(base, f, s \ {Choose(s)}))
        /\ Folded(base, g, s) = Op(g[Choose(s)], Folded(base, g, s \ {Choose(s)}))
    BY <1>2, <2>1, FoldStep
  <2> QED  BY <1>2, <2>1, <2>2
<1>3. S \in T
  <2> HIDE DEF T
  <2> QED  BY <1>1, <1>2, FoldInduction
<1> QED  BY <1>3

(* If the order of two operations does not matter, neither does the order  *)
(* in which elements are picked: any element can be taken out first.       *)
THEOREM FoldRemove ==
  ASSUME NEW base, NEW f, NEW S, IsFiniteSet(S), ChoosesFrom(S),
         NEW V, base \in V, \A x \in S, v \in V : Op(f[x], v) \in V,
         \A x \in S, y \in S, v \in V : Op(f[x], Op(f[y], v)) = Op(f[y], Op(f[x], v))
  PROVE  \A x \in S : Folded(base, f, S) = Op(f[x], Folded(base, f, S \ {x}))
<1> DEFINE F(s) == Folded(base, f, s)
           T == {n \in Nat : \A s \in SUBSET S : Cardinality(s) <= n =>
                                \A x \in s : F(s) = Op(f[x], F(s \ {x}))}
<1>1. \A s \in SUBSET S : IsFiniteSet(s) /\ ChoosesFrom(s) /\ Cardinality(s) \in Nat
  BY FS_Subset, FS_CardinalityType DEF ChoosesFrom
<1>2. 0 \in T
  <2>1. ASSUME NEW s \in SUBSET S, Cardinality(s) <= 0, NEW x \in s
        PROVE  FALSE
    <3>1. Cardinality(s \ {x}) = Cardinality(s) - 1 /\ Cardinality(s \ {x}) \in Nat
      BY <1>1, FS_RemoveElement, s \ {x} \in SUBSET S
    <3> QED  BY <1>1, <2>1, <3>1
  <2> QED  BY <2>1
<1>3. ASSUME NEW n \in T PROVE n + 1 \in T
  <2>1. ASSUME NEW s \in SUBSET S, Cardinality(s) <= n + 1, NEW x \in s
        PROVE  F(s) = Op(f[x], F(s \ {x}))
    <3> DEFINE c == Choose(s)
    <3>1. c \in s /\ F(s) = Op(f[c], F(s \ {c}))
      BY <1>1, FoldStep DEF ChoosesFrom
    <3> HIDE DEF c
    <3>2. CASE x = c
      BY <3>1, <3>2
    <3>3. CASE x # c
      <4> DEFINE r == s \ {c}  q == s \ {x}  w == F((s \ {c}) \ {x})
      <4>1. Cardinality(r) <= n /\ Cardinality(q) <= n
        <5>1. IsFiniteSet(s) /\ Cardinality(s) \in Nat
          BY <1>1
        <5>2. Cardinality(r) = Cardinality(s) - 1 /\ Cardinality(q) = Cardinality(s) - 1
          BY <3>1, <5>1, FS_RemoveElement
        <5> QED  BY <2>1, <5>1, <5>2
      <4>2. F(r) = Op(f[x], w)
        BY <1>3, <3>3, <4>1
      <4>3. q \ {c} = r \ {x}
        OBVIOUS
      <4>4. F(q) = Op(f[c], w)
        <5>1. F(q) = Op(f[c], F(q \ {c}))
          BY <1>3, <3>1, <3>3, <4>1
        <5> QED  BY <4>3, <5>1
      <4>5. w \in V
        <5>1. r \ {x} \in SUBSET S
          OBVIOUS
        <5> HIDE DEF r
        <5>2. IsFiniteSet(r \ {x}) /\ ChoosesFrom(r \ {x})
          BY <1>1, <5>1
        <5>3. \A y \in r \ {x}, v \in V : Op(f[y], v) \in V
          BY <5>1
        <5>4. Folded(base, f, r \ {x}) \in V
          BY <5>2, <5>3, FoldType
        <5> QED  BY <5>4 DEF r
      <4>6. c \in S /\ x \in S
        BY <3>1
      <4>7. Op(f[c], Op(f[x], w)) = Op(f[x], Op(f[c], w))
        <5> HIDE DEF w
        <5> QED  BY <4>5, <4>6
      <4> QED  BY <3>1, <4>2, <4>4, <4>7
    <3> QED  BY <3>2, <3>3
  <2> QED  BY <2>1
<1>4. T = Nat
  <2>1. T \subseteq Nat
    OBVIOUS
  <2> HIDE DEF T
  <2> QED  BY <1>2, <1>3, <2>1, NatSetInduction
<1>5. Cardinality(S) \in Nat
  BY <1>1
<1> QED  BY <1>4, <1>5
=============================================================================
