----------------------------- MODULE DataInduction -----------------------------
(***************************************************************************)
(* Induction over the data of the models, for proofs in which a predicate  *)
(* cannot be passed to an induction theorem.  The set of counterexamples   *)
(* takes its place: a non-empty set of naturals has a least element.       *)
(***************************************************************************)
EXTENDS Integers, Functions, FiniteSetTheorems, WellFoundedInduction, TLAPS

\* A non-empty set of natural numbers has a least element.
LEMMA LeastElement ==
  ASSUME NEW T, T \subseteq Nat, T # {}
  PROVE  \E x \in T : \A y \in T : x <= y
<1>1. PICK x \in T : \A y \in T : ~(<<y, x>> \in OpToRel(<, Nat))
  BY NatLessThanWellFounded, WFMin
<1>2. \A y \in T : ~(y < x)
  BY <1>1 DEF OpToRel
<1> QED
  BY <1>2

\* Induction: a set of naturals with 0 and with every successor is Nat.
THEOREM SetInduction ==
  ASSUME NEW H, 0 \in H, \A n \in Nat : n \in H => n + 1 \in H
  PROVE  Nat \subseteq H
<1>1. SUFFICES ASSUME Nat \ H # {} PROVE FALSE
  OBVIOUS
<1>2. PICK x \in Nat \ H : \A y \in Nat \ H : x <= y
  BY <1>1, LeastElement
<1>3. x # 0
  BY <1>2
<1>4. x - 1 \in Nat /\ x - 1 \in H
  BY <1>2, <1>3
<1> QED
  BY <1>2, <1>4

-------------------------------------------------------------------------------
(* Sums of a function over a finite set.  The sum is the number of units:     *)
(* one pair for each element and each unit of its amount, so that facts about *)
(* sums are facts about cardinalities.                                        *)

Units(f, S) == {u \in S \X Nat : u[2] \in 1 .. f[u[1]]}

Amounts(f, S) == \A x \in S : f[x] \in Nat

\* The amount of one element counts its own units and no others.
LEMMA UnitsOf ==
  ASSUME NEW f, NEW S, NEW x \in S, Amounts(f, S), IsFiniteSet(Units(f, S \ {x}))
  PROVE  /\ IsFiniteSet(Units(f, S))
         /\ Cardinality(Units(f, S)) = f[x] + Cardinality(Units(f, S \ {x}))
<1> DEFINE B == {x} \X (1 .. f[x])
           R == Units(f, S \ {x})
<1>1. f[x] \in Nat
  BY DEF Amounts
<1>2. IsFiniteSet(1 .. f[x]) /\ Cardinality(1 .. f[x]) = f[x]
  BY <1>1, FS_Interval
<1>3. IsFiniteSet(B) /\ Cardinality(B) = f[x]
  <2>1. IsFiniteSet({x}) /\ Cardinality({x}) = 1
    BY FS_Singleton
  <2>2. /\ IsFiniteSet(B)
        /\ Cardinality(B) = Cardinality({x}) * Cardinality(1 .. f[x])
    BY <1>2, <2>1, FS_Product
  <2> QED
    BY <1>1, <1>2, <2>1, <2>2
<1>4. Units(f, S) = B \cup R
  <2>1. ASSUME NEW u \in Units(f, S)  PROVE u \in B \cup R
    BY <2>1 DEF Units
  <2>2. ASSUME NEW u \in B  PROVE u \in Units(f, S)
    BY <1>1, <2>2 DEF Units
  <2>3. ASSUME NEW u \in R  PROVE u \in Units(f, S)
    BY <2>3 DEF Units
  <2> QED
    BY <2>1, <2>2, <2>3
<1>5. B \cap R = {}
  BY DEF Units
<1>6. Cardinality(B \cap R) = 0
  BY <1>5, FS_EmptySet
<1>7. /\ IsFiniteSet(B \cup R)
      /\ Cardinality(B \cup R) = Cardinality(B) + Cardinality(R) - Cardinality(B \cap R)
  BY <1>3, FS_Union
<1>8. Cardinality(R) \in Nat
  BY FS_CardinalityType
<1> QED
  BY <1>1, <1>3, <1>4, <1>6, <1>7, <1>8

\* A finite set has finitely many units: by induction over its cardinality.
LEMMA UnitsFinite ==
  ASSUME NEW f, NEW S, IsFiniteSet(S), Amounts(f, S)
  PROVE  IsFiniteSet(Units(f, S)) /\ Cardinality(Units(f, S)) \in Nat
<1> DEFINE H == {n \in Nat : \A T \in SUBSET S : Cardinality(T) = n => IsFiniteSet(Units(f, T))}
<1>1. 0 \in H
  <2> SUFFICES ASSUME NEW T \in SUBSET S, Cardinality(T) = 0
               PROVE  IsFiniteSet(Units(f, T))
    OBVIOUS
  <2>1. T = {}
    BY FS_Subset, FS_EmptySet
  <2>2. Units(f, T) = {}
    BY <2>1 DEF Units
  <2> QED
    BY <2>2, FS_EmptySet
<1>2. ASSUME NEW n \in Nat, n \in H
      PROVE  n + 1 \in H
  <2> SUFFICES ASSUME NEW T \in SUBSET S, Cardinality(T) = n + 1
               PROVE  IsFiniteSet(Units(f, T))
    OBVIOUS
  <2>1. IsFiniteSet(T) /\ T # {}
    <3>1. IsFiniteSet(T)
      BY FS_Subset
    <3> QED
      BY <3>1, FS_EmptySet
  <2>2. PICK x \in T : TRUE
    BY <2>1
  <2>3. Cardinality(T \ {x}) = n
    <3>1. Cardinality(T \ {x}) = Cardinality(T) - 1
      BY <2>1, <2>2, FS_RemoveElement
    <3> QED
      BY <3>1
  <2>4. IsFiniteSet(Units(f, T \ {x}))
    BY <1>2, <2>3
  <2> QED
    BY <2>4, UnitsOf DEF Amounts
<1> HIDE DEF H
<1>3. Nat \subseteq H
  BY <1>1, <1>2, SetInduction
<1>4. Cardinality(S) \in H
  BY <1>3, FS_CardinalityType
<1>5. IsFiniteSet(Units(f, S))
  BY <1>4 DEF H
<1> QED
  BY <1>5, FS_CardinalityType

\* The recursion of the fold, for a function h over the subsets of S.
Sums(f, S, h) ==
  h = [s \in SUBSET S |-> IF s = {} THEN 0
         ELSE f[CHOOSE x \in s : TRUE] + h[s \ {CHOOSE x \in s : TRUE}]]

\* The number of units satisfies it ...
LEMMA UnitsSum ==
  ASSUME NEW f, NEW S, IsFiniteSet(S), Amounts(f, S)
  PROVE  Sums(f, S, [s \in SUBSET S |-> Cardinality(Units(f, s))])
<1> DEFINE h == [s \in SUBSET S |-> Cardinality(Units(f, s))]
<1>1. ASSUME NEW s \in SUBSET S, s # {}
      PROVE  h[s] = f[CHOOSE x \in s : TRUE] + h[s \ {CHOOSE x \in s : TRUE}]
  <2>1. PICK x \in s : x = CHOOSE y \in s : TRUE
    BY <1>1
  <2>2. IsFiniteSet(s \ {x}) /\ Amounts(f, s \ {x}) /\ Amounts(f, s)
    BY FS_Subset DEF Amounts
  <2>3. IsFiniteSet(Units(f, s \ {x}))
    BY <2>2, UnitsFinite
  <2>4. Cardinality(Units(f, s)) = f[x] + Cardinality(Units(f, s \ {x}))
    BY <2>2, <2>3, UnitsOf
  <2> QED
    BY <2>1, <2>4
<1>2. h[{}] = 0
  <2>1. Units(f, {}) = {}
    BY DEF Units
  <2> QED
    BY <2>1, FS_EmptySet
<1> QED
  BY <1>1, <1>2 DEF Sums

\* ... and nothing else does: by induction over the cardinality.
LEMMA SumsUnique ==
  ASSUME NEW f, NEW S, IsFiniteSet(S), Amounts(f, S), NEW h, Sums(f, S, h)
  PROVE  h[S] = Cardinality(Units(f, S))
<1> DEFINE g == [s \in SUBSET S |-> Cardinality(Units(f, s))]
           H == {n \in Nat : \A T \in SUBSET S : Cardinality(T) = n => h[T] = g[T]}
<1>0. Sums(f, S, g)
  BY UnitsSum
<1> HIDE DEF g
<1>1. 0 \in H
  <2> SUFFICES ASSUME NEW T \in SUBSET S, Cardinality(T) = 0
               PROVE  h[T] = g[T]
    OBVIOUS
  <2>1. T = {}
    BY FS_Subset, FS_EmptySet
  <2> QED
    BY <1>0, <2>1 DEF Sums
<1>2. ASSUME NEW n \in Nat, n \in H
      PROVE  n + 1 \in H
  <2> SUFFICES ASSUME NEW T \in SUBSET S, Cardinality(T) = n + 1
               PROVE  h[T] = g[T]
    OBVIOUS
  <2>1. IsFiniteSet(T) /\ T # {}
    <3>1. IsFiniteSet(T)
      BY FS_Subset
    <3> QED
      BY <3>1, FS_EmptySet
  <2>2. PICK x \in T : x = CHOOSE y \in T : TRUE
    BY <2>1
  <2>3. Cardinality(T \ {x}) = n
    <3>1. Cardinality(T \ {x}) = Cardinality(T) - 1
      BY <2>1, <2>2, FS_RemoveElement
    <3> QED
      BY <3>1
  <2>4. h[T \ {x}] = g[T \ {x}]
    BY <1>2, <2>3
  <2>5. h[T] = f[x] + h[T \ {x}] /\ g[T] = f[x] + g[T \ {x}]
    BY <1>0, <2>1, <2>2 DEF Sums
  <2> QED
    BY <2>4, <2>5
<1> HIDE DEF H
<1>3. Nat \subseteq H
  BY <1>1, <1>2, SetInduction
<1>4. Cardinality(S) \in H
  BY <1>3, FS_CardinalityType
<1>5. h[S] = g[S]
  BY <1>4 DEF H
<1> QED
  BY <1>5 DEF g

\* The fold over a finite set of amounts counts its units.
LEMMA SumIsCount ==
  ASSUME NEW f, NEW S, IsFiniteSet(S), Amounts(f, S)
  PROVE  SumFunctionOnSet(f, S) = Cardinality(Units(f, S))
<1> DEFINE h == CHOOSE g : Sums(f, S, g)
<1>1. Sums(f, S, h)
  BY UnitsSum
<1>2. SumFunctionOnSet(f, S) = h[S]
  BY DEF SumFunctionOnSet, FoldFunctionOnSet, MapThenFoldSet, Sums
<1> HIDE DEF h
<1> QED
  BY <1>1, <1>2, SumsUnique

\* What follows for sums: they are natural numbers ...
LEMMA SumNat ==
  \A f, S : IsFiniteSet(S) /\ Amounts(f, S) => SumFunctionOnSet(f, S) \in Nat
BY SumIsCount, UnitsFinite

\* ... that grow with the set and with every amount ...
LEMMA SumMonotone ==
  \A f, g, S, T :
      /\ IsFiniteSet(T) /\ S \subseteq T
      /\ Amounts(f, S) /\ Amounts(g, T)
      /\ \A x \in S : f[x] <= g[x]
      => SumFunctionOnSet(f, S) <= SumFunctionOnSet(g, T)
<1> SUFFICES ASSUME NEW f, NEW g, NEW S, NEW T,
                    IsFiniteSet(T), S \subseteq T, Amounts(f, S), Amounts(g, T),
                    \A x \in S : f[x] <= g[x]
             PROVE  SumFunctionOnSet(f, S) <= SumFunctionOnSet(g, T)
  OBVIOUS
<1>1. IsFiniteSet(S)
  BY FS_Subset
<1>2. Units(f, S) \subseteq Units(g, T)
  <2> SUFFICES ASSUME NEW u \in Units(f, S)  PROVE u \in Units(g, T)
    OBVIOUS
  <2>1. /\ u[1] \in S /\ u[1] \in T /\ u \in T \X Nat
        /\ u[2] \in 1 .. f[u[1]] /\ u[2] \in Nat
    BY DEF Units
  <2>2. f[u[1]] \in Nat /\ g[u[1]] \in Nat /\ f[u[1]] <= g[u[1]]
    BY <2>1 DEF Amounts
  <2>3. u[2] \in 1 .. g[u[1]]
    BY <2>1, <2>2
  <2> QED
    BY <2>1, <2>3 DEF Units
<1>3. Cardinality(Units(f, S)) <= Cardinality(Units(g, T))
  BY <1>2, UnitsFinite, FS_Subset
<1> QED
  BY <1>1, <1>3, SumIsCount

\* ... depend on the amounts of their elements only ...
LEMMA SumSame ==
  \A f, g, S :
      IsFiniteSet(S) /\ Amounts(f, S) /\ (\A x \in S : f[x] = g[x])
      => SumFunctionOnSet(f, S) = SumFunctionOnSet(g, S)
<1> SUFFICES ASSUME NEW f, NEW g, NEW S,
                    IsFiniteSet(S), Amounts(f, S), \A x \in S : f[x] = g[x]
             PROVE  SumFunctionOnSet(f, S) = SumFunctionOnSet(g, S)
  OBVIOUS
<1>1. Amounts(g, S) /\ (\A x \in S : f[x] <= g[x] /\ g[x] <= f[x])
  BY DEF Amounts
<1>2. /\ SumFunctionOnSet(f, S) <= SumFunctionOnSet(g, S)
      /\ SumFunctionOnSet(g, S) <= SumFunctionOnSet(f, S)
  BY <1>1, SumMonotone
<1>3. SumFunctionOnSet(f, S) \in Nat /\ SumFunctionOnSet(g, S) \in Nat
  BY <1>1, SumNat
<1> QED
  BY <1>2, <1>3

\* ... and can be taken apart at any element.
LEMMA SumWithout ==
  \A f, S, a :
      IsFiniteSet(S) /\ Amounts(f, S) /\ a \in S
      => SumFunctionOnSet(f, S) = f[a] + SumFunctionOnSet(f, S \ {a})
<1> SUFFICES ASSUME NEW f, NEW S, NEW a, IsFiniteSet(S), Amounts(f, S), a \in S
             PROVE  SumFunctionOnSet(f, S) = f[a] + SumFunctionOnSet(f, S \ {a})
  OBVIOUS
<1>1. IsFiniteSet(S \ {a}) /\ Amounts(f, S \ {a})
  BY FS_RemoveElement DEF Amounts
<1>2. IsFiniteSet(Units(f, S \ {a}))
  BY <1>1, UnitsFinite
<1> QED
  BY <1>1, <1>2, UnitsOf, SumIsCount

\* The step of one coroutine: one amount of the sum changes.
LEMMA SumChange ==
  \A f, g, S, a :
      /\ IsFiniteSet(S) /\ Amounts(f, S) /\ Amounts(g, S) /\ a \in S
      /\ \A x \in S \ {a} : f[x] = g[x]
      => SumFunctionOnSet(g, S) = SumFunctionOnSet(f, S) - f[a] + g[a]
<1> SUFFICES ASSUME NEW f, NEW g, NEW S, NEW a,
                    IsFiniteSet(S), Amounts(f, S), Amounts(g, S), a \in S,
                    \A x \in S \ {a} : f[x] = g[x]
             PROVE  SumFunctionOnSet(g, S) = SumFunctionOnSet(f, S) - f[a] + g[a]
  OBVIOUS
<1> DEFINE R == S \ {a}
<1>1. IsFiniteSet(R) /\ Amounts(f, R)
  BY FS_RemoveElement DEF Amounts
<1>2. SumFunctionOnSet(f, R) = SumFunctionOnSet(g, R) /\ SumFunctionOnSet(f, R) \in Nat
  BY <1>1, SumSame, SumNat
<1>3. /\ SumFunctionOnSet(f, S) = f[a] + SumFunctionOnSet(f, R)
      /\ SumFunctionOnSet(g, S) = g[a] + SumFunctionOnSet(g, R)
  BY SumWithout
<1>4. f[a] \in Nat /\ g[a] \in Nat
  BY DEF Amounts
<1> HIDE DEF R
<1> QED
  BY <1>2, <1>3, <1>4

\* An injection that loses no amount bounds one sum by the other.
LEMMA SumInjected ==
  ASSUME NEW f, NEW S, NEW g, NEW T, NEW h \in Injection(S, T),
         IsFiniteSet(S), IsFiniteSet(T), Amounts(f, S), Amounts(g, T),
         \A x \in S : f[x] <= g[h[x]]
  PROVE  SumFunctionOnSet(f, S) <= SumFunctionOnSet(g, T)
<1> DEFINE j == [u \in Units(f, S) |-> <<h[u[1]], u[2]>>]
<1>1. h \in [S -> T] /\ \A x, y \in S : h[x] = h[y] => x = y
  BY DEF Injection, IsInjective
<1>2. ASSUME NEW u \in Units(f, S) PROVE <<h[u[1]], u[2]>> \in Units(g, T)
  <2>1. u[1] \in S /\ u[2] \in 1 .. f[u[1]] /\ u[2] \in Nat
    BY DEF Units
  <2>2. h[u[1]] \in T
    BY <1>1, <2>1
  <2>3. f[u[1]] \in Nat /\ g[h[u[1]]] \in Nat /\ f[u[1]] <= g[h[u[1]]]
    BY <2>1, <2>2 DEF Amounts
  <2>4. u[2] \in 1 .. g[h[u[1]]]
    BY <2>1, <2>3
  <2> QED
    BY <2>1, <2>2, <2>4 DEF Units
<1>3. ASSUME NEW u \in Units(f, S), NEW w \in Units(f, S), j[u] = j[w] PROVE u = w
  <2>1. u \in S \X Nat /\ w \in S \X Nat
    BY DEF Units
  <2>2. h[u[1]] = h[w[1]] /\ u[2] = w[2]
    BY <1>3
  <2>3. u[1] = w[1]
    BY <1>1, <2>1, <2>2
  <2> QED
    BY <2>1, <2>2, <2>3
<1>4. j \in Injection(Units(f, S), Units(g, T))
  <2>1. j \in [Units(f, S) -> Units(g, T)]
    BY <1>2
  <2> HIDE DEF j
  <2> QED
    BY <1>3, <2>1 DEF Injection, IsInjective
<1>5. Cardinality(Units(f, S)) <= Cardinality(Units(g, T))
  BY <1>4, UnitsFinite, FS_Injection
<1> QED
  BY <1>5, SumIsCount

\* A sum only depends on where its amounts are positive.
LEMMA SumCovered ==
  \A f, g, S, T :
      /\ IsFiniteSet(S) /\ IsFiniteSet(T) /\ Amounts(f, S) /\ Amounts(g, T)
      /\ \A x \in S : f[x] # 0 => x \in T /\ f[x] <= g[x]
      => SumFunctionOnSet(f, S) <= SumFunctionOnSet(g, T)
<1> SUFFICES ASSUME NEW f, NEW g, NEW S, NEW T, IsFiniteSet(S), IsFiniteSet(T),
                    Amounts(f, S), Amounts(g, T),
                    \A x \in S : f[x] # 0 => x \in T /\ f[x] <= g[x]
             PROVE  SumFunctionOnSet(f, S) <= SumFunctionOnSet(g, T)
  OBVIOUS
<1>1. Units(f, S) \subseteq Units(g, T)
  <2> SUFFICES ASSUME NEW u \in Units(f, S)  PROVE u \in Units(g, T)
    OBVIOUS
  <2>1. /\ u[1] \in S /\ u \in S \X Nat
        /\ u[2] \in 1 .. f[u[1]] /\ u[2] \in Nat
    BY DEF Units
  <2>2. f[u[1]] \in Nat /\ f[u[1]] # 0
    BY <2>1 DEF Amounts
  <2>3. u[1] \in T /\ f[u[1]] <= g[u[1]] /\ g[u[1]] \in Nat
    BY <2>1, <2>2 DEF Amounts
  <2>4. u[2] \in 1 .. g[u[1]] /\ u \in T \X Nat
    BY <2>1, <2>2, <2>3
  <2> QED
    BY <2>4, <2>3 DEF Units
<1>2. Cardinality(Units(f, S)) <= Cardinality(Units(g, T))
  BY <1>1, UnitsFinite, FS_Subset
<1> QED
  BY <1>2, SumIsCount

\* Amounts of at most c each.
LEMMA SumBounded ==
  \A f, S, c :
      /\ IsFiniteSet(S) /\ Amounts(f, S) /\ c \in Nat /\ \A x \in S : f[x] <= c
      => SumFunctionOnSet(f, S) <= Cardinality(S) * c
<1> SUFFICES ASSUME NEW f, NEW S, NEW c, IsFiniteSet(S), Amounts(f, S), c \in Nat,
                    \A x \in S : f[x] <= c
             PROVE  SumFunctionOnSet(f, S) <= Cardinality(S) * c
  OBVIOUS
<1>1. IsFiniteSet(1 .. c) /\ Cardinality(1 .. c) = c
  BY FS_Interval
<1>2. /\ IsFiniteSet(S \X (1 .. c))
      /\ Cardinality(S \X (1 .. c)) = Cardinality(S) * c
  BY <1>1, FS_Product
<1>3. Units(f, S) \subseteq S \X (1 .. c)
  <2> SUFFICES ASSUME NEW u \in Units(f, S)  PROVE u \in S \X (1 .. c)
    OBVIOUS
  <2>1. u[1] \in S /\ u \in S \X Nat /\ u[2] \in 1 .. f[u[1]]
    BY DEF Units
  <2>2. f[u[1]] \in Nat /\ f[u[1]] <= c
    BY <2>1 DEF Amounts
  <2>3. u[2] \in 1 .. c
    BY <2>1, <2>2
  <2> QED
    BY <2>1, <2>3
<1>4. Cardinality(Units(f, S)) <= Cardinality(S) * c
  BY <1>2, <1>3, FS_Subset
<1> QED
  BY <1>4, SumIsCount
===============================================================================
