------------------------------- MODULE Sums_proofs -------------------------------
(***************************************************************************)
(* What a sum over a finite set is, whatever order the fold takes.         *)
(*                                                                         *)
(* The library's induction theorems take a predicate as a parameter; here  *)
(* it is a set of numbers, which the provers can instantiate.              *)
(***************************************************************************)
EXTENDS Sums, Integers, FiniteSetTheorems, WellFoundedInduction, TLAPS

\* Induction: a set of numbers with 0, closed under successor, is all of them.
LEMMA InductionOverNat ==
  ASSUME NEW T, 0 \in T, \A n \in Nat : n \in T => n + 1 \in T
  PROVE  \A n \in Nat : n \in T
<1> SUFFICES ASSUME NEW k \in Nat, k \notin T
             PROVE  FALSE
  OBVIOUS
<1> DEFINE Rest == Nat \ T
           Less == OpToRel(<, Nat)
<1>1. Rest \subseteq Nat /\ Rest # {}
  OBVIOUS
<1>2. IsWellFoundedOn(Less, Nat)
  BY NatLessThanWellFounded
<1>3. PICK m \in Rest : \A y \in Rest : <<y, m>> \notin Less
  <2> HIDE DEF Less, Rest
  <2> QED
    BY <1>1, <1>2, WFMin
<1>4. \A y \in Nat : y < m => y \in T
  BY <1>3 DEF OpToRel
<1>5. m \in Nat /\ m # 0
  BY <1>3
<1>6. m - 1 \in Nat /\ m - 1 < m
  BY <1>5
<1>7. (m - 1) + 1 \in T
  BY <1>4, <1>6
<1>8. (m - 1) + 1 = m
  BY <1>5
<1> QED
  BY <1>3, <1>7, <1>8

-----------------------------------------------------------------------------
(* The fold.                                                               *)

Chosen(s) == CHOOSE x \in s : TRUE

\* h folds fun over the sets of D, one element at a time.
Folds(h, fun, D) ==
  h = [s \in D |-> IF s = {} THEN 0 ELSE fun[Chosen(s)] + h[s \ {Chosen(s)}]]

\* h is the fold over all subsets of S.
IsFold(h, fun, S) == h \in [SUBSET S -> Int] /\ Folds(h, fun, SUBSET S)

IntValues(fun, S) == \A x \in S : fun[x] \in Int
SameValues(f, g, S) == \A x \in S : f[x] = g[x]
SameFold(h, k, S) == \A s \in SUBSET S : h[s] = k[s]
AnyOrder(h, fun, S) == \A s \in SUBSET S : \A y \in s : h[s] = fun[y] + h[s \ {y}]

SmallSets(S, n) == {s \in SUBSET S : Cardinality(s) <= n}

LEMMA SumOfIsFold ==
  ASSUME NEW fun, NEW S, NEW h, Folds(h, fun, SUBSET S)
  PROVE  \E g : Folds(g, fun, SUBSET S) /\ SumOf(fun, S) = g[S]
<1> DEFINE P(g) == g = [s \in SUBSET S |-> IF s = {} THEN 0
                          ELSE LET x == CHOOSE x \in s : TRUE IN fun[x] + g[s \ {x}]]
           g == CHOOSE g : P(g)
<1>1. SumOf(fun, S) = g[S]
  BY DEF SumOf, FoldFunctionOnSet, MapThenFoldSet
<1>2. P(h)
  BY DEF Folds, Chosen
<1>3. P(g)
  BY <1>2
<1>4. Folds(g, fun, SUBSET S)
  BY <1>3 DEF Folds, Chosen
<1> QED
  BY <1>1, <1>4

\* Taking an element from a finite set.
LEMMA OneLess ==
  ASSUME NEW S, IsFiniteSet(S), NEW s \in SUBSET S, NEW x \in s
  PROVE  /\ s \ {x} \in SUBSET S
         /\ Cardinality(s) \in Nat /\ Cardinality(s) > 0
         /\ Cardinality(s \ {x}) = Cardinality(s) - 1
<1>1. IsFiniteSet(s)
  BY FS_Subset
<1>2. Cardinality(s) \in Nat /\ Cardinality(s \ {x}) = Cardinality(s) - 1
  BY <1>1, FS_CardinalityType, FS_RemoveElement
<1>3. Cardinality(s) # 0
  BY <1>1, FS_EmptySet
<1> QED
  BY <1>2, <1>3

LEMMA ChosenIsElement ==
  ASSUME NEW s, s # {}
  PROVE  Chosen(s) \in s
BY DEF Chosen

\* There is one on the sets of at most n elements, by induction on n.
LEMMA FoldExists ==
  ASSUME NEW S, IsFiniteSet(S), NEW fun, IntValues(fun, S)
  PROVE  \E h : IsFold(h, fun, S)
<1>0. \A x \in S : fun[x] \in Int
  BY DEF IntValues
<1> DEFINE T == {n \in Nat : \E h \in [SmallSets(S, n) -> Int] : Folds(h, fun, SmallSets(S, n))}
<1>1. 0 \in T
  <2> DEFINE h == [s \in SmallSets(S, 0) |-> 0]
  <2>1. \A s \in SmallSets(S, 0) : s = {}
    <3> SUFFICES ASSUME NEW s \in SmallSets(S, 0), s # {}
                 PROVE  FALSE
      OBVIOUS
    <3>1. Chosen(s) \in s /\ s \in SUBSET S /\ Cardinality(s) <= 0
      BY ChosenIsElement DEF SmallSets
    <3>2. Cardinality(s) \in Nat /\ Cardinality(s) > 0
      BY <3>1, OneLess
    <3> QED
      BY <3>1, <3>2
  <2>2. h \in [SmallSets(S, 0) -> Int]
    OBVIOUS
  <2>3. Folds(h, fun, SmallSets(S, 0))
    BY <2>1 DEF Folds
  <2> QED
    BY <2>2, <2>3
<1>2. ASSUME NEW n \in Nat, n \in T
      PROVE  n + 1 \in T
  <2>1. PICK h \in [SmallSets(S, n) -> Int] : Folds(h, fun, SmallSets(S, n))
    BY <1>2
  <2> DEFINE g == [s \in SmallSets(S, n + 1) |->
                     IF s = {} THEN 0 ELSE fun[Chosen(s)] + h[s \ {Chosen(s)}]]
  <2>2. ASSUME NEW s \in SmallSets(S, n + 1), s # {}
        PROVE  Chosen(s) \in s /\ Chosen(s) \in S /\ s \ {Chosen(s)} \in SmallSets(S, n)
    <3>1. Chosen(s) \in s /\ s \in SUBSET S /\ Cardinality(s) <= n + 1
      BY <2>2, ChosenIsElement DEF SmallSets
    <3>2. /\ s \ {Chosen(s)} \in SUBSET S /\ Cardinality(s) \in Nat
          /\ Cardinality(s \ {Chosen(s)}) = Cardinality(s) - 1
      BY <3>1, OneLess
    <3> QED
      BY <3>1, <3>2 DEF SmallSets
  <2>3. g \in [SmallSets(S, n + 1) -> Int]
    <3>1. \A s \in SmallSets(S, n + 1) :
            (IF s = {} THEN 0 ELSE fun[Chosen(s)] + h[s \ {Chosen(s)}]) \in Int
      BY <1>0, <2>2
    <3> QED
      BY <3>1
  <2>4. \A s \in SmallSets(S, n) : s \in SmallSets(S, n + 1)
    <3>1. \A s \in SUBSET S : Cardinality(s) \in Nat
      BY FS_Subset, FS_CardinalityType
    <3> QED
      BY <3>1 DEF SmallSets
  <2>5. \A s \in SmallSets(S, n) :
          h[s] = IF s = {} THEN 0 ELSE fun[Chosen(s)] + h[s \ {Chosen(s)}]
    BY <2>1 DEF Folds
  <2>6. \A s \in SmallSets(S, n) : g[s] = h[s]
    BY <2>4, <2>5
  <2>7. \A s \in SmallSets(S, n + 1) :
          g[s] = IF s = {} THEN 0 ELSE fun[Chosen(s)] + g[s \ {Chosen(s)}]
    BY <2>2, <2>6
  <2>8. g = [s \in SmallSets(S, n + 1) |->
               IF s = {} THEN 0 ELSE fun[Chosen(s)] + g[s \ {Chosen(s)}]]
    <3> HIDE DEF g
    <3> QED
      BY <2>3, <2>7
  <2> HIDE DEF g
  <2>9. Folds(g, fun, SmallSets(S, n + 1))
    BY <2>8 DEF Folds
  <2> QED
    BY <2>3, <2>9
<1>3. Cardinality(S) \in Nat
  BY FS_CardinalityType
<1>4. Cardinality(S) \in T
  <2> HIDE DEF T
  <2> QED
    BY <1>1, <1>2, <1>3, InductionOverNat
<1>5. SmallSets(S, Cardinality(S)) = SUBSET S
  BY FS_Subset DEF SmallSets
<1> QED
  BY <1>4, <1>5 DEF IsFold

\* And only one, also when it is taken of other rows that have the same values.
LEMMA FoldUnique ==
  ASSUME NEW S, IsFiniteSet(S), NEW R, S \subseteq R, NEW f, NEW g,
         SameValues(f, g, S),
         NEW h, Folds(h, f, SUBSET S), NEW k, Folds(k, g, SUBSET R)
  PROVE  SameFold(h, k, S)
<1>0. \A x \in S : f[x] = g[x]
  BY DEF SameValues
<1> DEFINE T == {n \in Nat : \A s \in SUBSET S : Cardinality(s) = n => h[s] = k[s]}
<1>1. /\ \A s \in SUBSET S : h[s] = IF s = {} THEN 0 ELSE f[Chosen(s)] + h[s \ {Chosen(s)}]
      /\ \A s \in SUBSET R : k[s] = IF s = {} THEN 0 ELSE g[Chosen(s)] + k[s \ {Chosen(s)}]
  BY DEF Folds
<1>2. \A s \in SUBSET S : s \in SUBSET R
  OBVIOUS
<1>3. 0 \in T
  <2>1. \A s \in SUBSET S : Cardinality(s) = 0 => s = {}
    BY FS_Subset, FS_EmptySet
  <2> QED
    BY <1>1, <1>2, <2>1
<1>4. ASSUME NEW n \in Nat, n \in T
      PROVE  n + 1 \in T
  <2> SUFFICES ASSUME NEW s \in SUBSET S, Cardinality(s) = n + 1
               PROVE  h[s] = k[s]
    OBVIOUS
  <2>1. s # {}
    BY FS_EmptySet
  <2>2. Chosen(s) \in s
    BY <2>1, ChosenIsElement
  <2>3. s \ {Chosen(s)} \in SUBSET S /\ Cardinality(s \ {Chosen(s)}) = n
    BY <2>2, OneLess
  <2>4. h[s \ {Chosen(s)}] = k[s \ {Chosen(s)}] /\ f[Chosen(s)] = g[Chosen(s)]
    BY <1>0, <1>4, <2>2, <2>3
  <2> QED
    BY <1>1, <1>2, <2>1, <2>4
<1>5. \A n \in Nat : n \in T
  <2> HIDE DEF T
  <2> QED
    BY <1>3, <1>4, InductionOverNat
<1>6. \A s \in SUBSET S : Cardinality(s) \in Nat
  BY FS_Subset, FS_CardinalityType
<1> QED
  BY <1>5, <1>6 DEF SameFold

\* Whichever element is taken first, the fold is the same.
LEMMA FoldAnyOrder ==
  ASSUME NEW S, IsFiniteSet(S), NEW fun, IntValues(fun, S), NEW h, IsFold(h, fun, S)
  PROVE  AnyOrder(h, fun, S)
<1>0. h \in [SUBSET S -> Int] /\ \A x \in S : fun[x] \in Int
  BY DEF IsFold, IntValues
<1> DEFINE T == {n \in Nat : \A s \in SUBSET S : Cardinality(s) = n =>
                               \A y \in s : h[s] = fun[y] + h[s \ {y}]}
<1>1. \A s \in SUBSET S : h[s] = IF s = {} THEN 0 ELSE fun[Chosen(s)] + h[s \ {Chosen(s)}]
  BY DEF IsFold, Folds
<1>2. 0 \in T
  <2>1. \A s \in SUBSET S : Cardinality(s) = 0 => s = {}
    BY FS_Subset, FS_EmptySet
  <2> QED
    BY <2>1
<1>3. ASSUME NEW n \in Nat, n \in T
      PROVE  n + 1 \in T
  <2> SUFFICES ASSUME NEW s \in SUBSET S, Cardinality(s) = n + 1, NEW y \in s
               PROVE  h[s] = fun[y] + h[s \ {y}]
    OBVIOUS
  <2> DEFINE x == Chosen(s)
  <2>1. x \in s /\ x \in S /\ y \in S
    BY ChosenIsElement
  <2>2. h[s] = fun[x] + h[s \ {x}]
    BY <1>1, <2>1
  <2>3. CASE x = y
    BY <2>2, <2>3
  <2>4. CASE x # y
    <3>1. /\ s \ {x} \in SUBSET S /\ Cardinality(s \ {x}) = n /\ y \in s \ {x}
          /\ s \ {y} \in SUBSET S /\ Cardinality(s \ {y}) = n /\ x \in s \ {y}
      BY <2>1, <2>4, OneLess
    <3>2. h[s \ {x}] = fun[y] + h[(s \ {x}) \ {y}]
      BY <1>3, <3>1
    <3>3. h[s \ {y}] = fun[x] + h[(s \ {y}) \ {x}]
      BY <1>3, <3>1
    <3>4. (s \ {x}) \ {y} = (s \ {y}) \ {x} /\ (s \ {x}) \ {y} \in SUBSET S
      OBVIOUS
    <3>5. /\ fun[x] \in Int /\ fun[y] \in Int /\ h[(s \ {x}) \ {y}] \in Int
      BY <1>0, <2>1, <3>4
    <3>6. h[s] = fun[x] + (fun[y] + h[(s \ {x}) \ {y}])
      BY <2>2, <3>2
    <3>7. h[s \ {y}] = fun[x] + h[(s \ {x}) \ {y}]
      BY <3>3, <3>4
    <3> HIDE DEF x
    <3> QED
      BY <3>5, <3>6, <3>7
  <2> QED
    BY <2>3, <2>4
<1>4. \A n \in Nat : n \in T
  <2> HIDE DEF T
  <2> QED
    BY <1>2, <1>3, InductionOverNat
<1>5. \A s \in SUBSET S : Cardinality(s) \in Nat
  BY FS_Subset, FS_CardinalityType
<1> QED
  BY <1>4, <1>5 DEF AnyOrder

-----------------------------------------------------------------------------
(* What the models need to know of a sum.                                  *)

LEMMA SumIsFold ==
  ASSUME NEW S, IsFiniteSet(S), NEW fun, IntValues(fun, S), NEW h, IsFold(h, fun, S),
         NEW R, R \subseteq S
  PROVE  SumOf(fun, R) = h[R]
<1>1. IsFiniteSet(R) /\ IntValues(fun, R) /\ SameValues(fun, fun, R)
  BY FS_Subset DEF IntValues, SameValues
<1>2. PICK k : Folds(k, fun, SUBSET R)
  BY <1>1, FoldExists DEF IsFold
<1>3. PICK g : Folds(g, fun, SUBSET R) /\ SumOf(fun, R) = g[R]
  BY <1>2, SumOfIsFold
<1>4. Folds(h, fun, SUBSET S)
  BY DEF IsFold
<1>5. SameFold(g, h, R)
  BY <1>1, <1>3, <1>4, FoldUnique
<1> QED
  BY <1>3, <1>5 DEF SameFold

\* The empty sum is 0, and a row can be taken out of a sum.
LEMMA SumFacts ==
  ASSUME NEW S, IsFiniteSet(S), NEW fun, IntValues(fun, S)
  PROVE  /\ SumOf(fun, {}) = 0
         /\ SumOf(fun, S) \in Int
         /\ \A y \in S : SumOf(fun, S) = fun[y] + SumOf(fun, S \ {y})
<1>1. PICK h : IsFold(h, fun, S)
  BY FoldExists
<1>2. \A R : R \subseteq S => SumOf(fun, R) = h[R]
  BY <1>1, SumIsFold
<1>3. AnyOrder(h, fun, S)
  BY <1>1, FoldAnyOrder
<1>4. SumOf(fun, {}) = 0
  <2>1. {} \in SUBSET S /\ SumOf(fun, {}) = h[{}]
    BY <1>2
  <2> QED
    BY <1>1, <2>1 DEF IsFold, Folds
<1>5. SumOf(fun, S) = h[S] /\ h[S] \in Int
  BY <1>1, <1>2 DEF IsFold
<1>6. ASSUME NEW y \in S
      PROVE  SumOf(fun, S) = fun[y] + SumOf(fun, S \ {y})
  <2>1. h[S] = fun[y] + h[S \ {y}]
    BY <1>3 DEF AnyOrder
  <2>2. SumOf(fun, S \ {y}) = h[S \ {y}]
    BY <1>2
  <2> QED
    BY <1>5, <2>1, <2>2
<1> QED
  BY <1>4, <1>5, <1>6

\* A row that was not there adds its value.
LEMMA SumGrows ==
  ASSUME NEW S, IsFiniteSet(S), NEW y, y \notin S, NEW fun, IntValues(fun, S), fun[y] \in Int
  PROVE  SumOf(fun, S \cup {y}) = SumOf(fun, S) + fun[y]
<1> DEFINE R == S \cup {y}
<1>1. IsFiniteSet(R) /\ IntValues(fun, R)
  BY FS_AddElement DEF IntValues
<1>2. y \in R /\ R \ {y} = S
  OBVIOUS
<1> HIDE DEF R
<1>3. SumOf(fun, R) = fun[y] + SumOf(fun, S)
  BY <1>1, <1>2, SumFacts
<1>4. SumOf(fun, S) \in Int
  BY SumFacts
<1> QED
  BY <1>3, <1>4 DEF R

\* A row that is gone takes its value with it.
LEMMA SumShrinks ==
  ASSUME NEW S, IsFiniteSet(S), NEW y \in S, NEW fun, IntValues(fun, S)
  PROVE  SumOf(fun, S \ {y}) = SumOf(fun, S) - fun[y]
<1>1. IsFiniteSet(S \ {y}) /\ IntValues(fun, S \ {y}) /\ fun[y] \in Int
  BY FS_RemoveElement DEF IntValues
<1>2. SumOf(fun, S) = fun[y] + SumOf(fun, S \ {y})
  BY SumFacts
<1>3. SumOf(fun, S \ {y}) \in Int
  BY <1>1, SumFacts
<1> QED
  BY <1>1, <1>2, <1>3

\* Only the values of the rows count.
LEMMA SumOfSame ==
  ASSUME NEW S, IsFiniteSet(S), NEW f, IntValues(f, S), NEW g, SameValues(f, g, S)
  PROVE  SumOf(f, S) = SumOf(g, S)
<1>1. IntValues(g, S)
  BY DEF IntValues, SameValues
<1>2. PICK h : IsFold(h, f, S)
  BY FoldExists
<1>3. PICK k : IsFold(k, g, S)
  BY <1>1, FoldExists
<1>4. SumOf(f, S) = h[S] /\ SumOf(g, S) = k[S]
  BY <1>1, <1>2, <1>3, SumIsFold
<1>5. SameFold(h, k, S)
  BY <1>2, <1>3, FoldUnique DEF IsFold
<1> QED
  BY <1>4, <1>5 DEF SameFold

\* A sum of counts is one.
LEMMA SumIsNat ==
  ASSUME NEW S, IsFiniteSet(S), NEW fun, \A x \in S : fun[x] \in Nat
  PROVE  SumOf(fun, S) \in Nat
<1> DEFINE T == {n \in Nat : \A s \in SUBSET S : Cardinality(s) = n => SumOf(fun, s) \in Nat}
<1>1. \A s \in SUBSET S : IsFiniteSet(s) /\ Cardinality(s) \in Nat /\ IntValues(fun, s)
  BY FS_Subset, FS_CardinalityType DEF IntValues
<1>2. 0 \in T
  <2>1. \A s \in SUBSET S : Cardinality(s) = 0 => s = {}
    BY <1>1, FS_EmptySet
  <2>2. SumOf(fun, {}) = 0
    BY <1>1, SumFacts
  <2> QED
    BY <2>1, <2>2
<1>3. ASSUME NEW n \in Nat, n \in T
      PROVE  n + 1 \in T
  <2> SUFFICES ASSUME NEW s \in SUBSET S, Cardinality(s) = n + 1
               PROVE  SumOf(fun, s) \in Nat
    OBVIOUS
  <2>1. s # {}
    BY FS_EmptySet
  <2>2. PICK y : y \in s
    BY <2>1
  <2>3. s \ {y} \in SUBSET S /\ Cardinality(s \ {y}) = n
    BY <2>2, OneLess
  <2>4. SumOf(fun, s) = fun[y] + SumOf(fun, s \ {y})
    BY <1>1, <2>2, SumFacts
  <2> QED
    BY <1>3, <2>2, <2>3, <2>4
<1>4. \A n \in Nat : n \in T
  <2> HIDE DEF T
  <2> QED
    BY <1>2, <1>3, InductionOverNat
<1> QED
  BY <1>1, <1>4

-----------------------------------------------------------------------------
(* A finite set of numbers has a greatest.                                 *)

LEMMA GreatestExists ==
  ASSUME NEW S, IsFiniteSet(S), S # {}, \A x \in S : x \in Nat
  PROVE  \E x \in S : \A y \in S : x >= y
<1> DEFINE T == {n \in Nat : \A s \in SUBSET S : Cardinality(s) = n =>
                               s = {} \/ \E x \in s : \A y \in s : x >= y}
<1>1. \A s \in SUBSET S : IsFiniteSet(s) /\ Cardinality(s) \in Nat
  BY FS_Subset, FS_CardinalityType
<1>2. 0 \in T
  <2>1. \A s \in SUBSET S : Cardinality(s) = 0 => s = {}
    BY <1>1, FS_EmptySet
  <2> QED
    BY <2>1
<1>3. ASSUME NEW n \in Nat, n \in T
      PROVE  n + 1 \in T
  <2> SUFFICES ASSUME NEW s \in SUBSET S, Cardinality(s) = n + 1
               PROVE  s = {} \/ \E x \in s : \A y \in s : x >= y
    OBVIOUS
  <2>1. CASE s = {}
    BY <2>1
  <2>2. CASE s # {}
    <3>1. PICK z : z \in s
      BY <2>2
    <3>2. s \ {z} \in SUBSET S /\ Cardinality(s \ {z}) = n
      BY <3>1, OneLess
    <3>3. CASE s \ {z} = {}
      <4>1. \A y \in s : y = z
        BY <3>3
      <4> QED
        BY <3>1, <4>1
    <3>4. CASE s \ {z} # {}
      <4>1. PICK x \in s \ {z} : \A y \in s \ {z} : x >= y
        BY <1>3, <3>2, <3>4
      <4>2. x \in Nat /\ z \in Nat
        BY <3>1, <4>1
      <4>3. CASE x >= z
        BY <4>1, <4>3
      <4>4. CASE ~(x >= z)
        <5>1. \A y \in s : z >= y
          BY <4>1, <4>2, <4>4
        <5> QED
          BY <3>1, <5>1
      <4> QED
        BY <4>3, <4>4
    <3> QED
      BY <3>3, <3>4
  <2> QED
    BY <2>1, <2>2
<1>4. \A n \in Nat : n \in T
  <2> HIDE DEF T
  <2> QED
    BY <1>2, <1>3, InductionOverNat
<1>5. S \in SUBSET S
  OBVIOUS
<1> QED
  BY <1>1, <1>4, <1>5

==================================================================================
