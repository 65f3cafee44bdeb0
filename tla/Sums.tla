-------------------------------- MODULE Sums --------------------------------
(* Induction over numbers and finite sets, and what it shows of the sums   *)
(* the models are built with: SumFunction of the community modules.  The   *)
(* library's theorems of induction are about an operator P(_), which the   *)
(* provers at hand do not instantiate; that < on Nat has no descending     *)
(* chain is a fact without one, and the set of counterexamples has a least *)
(* element.                                                                *)
EXTENDS Integers, FiniteSets, Functions, FiniteSetTheorems, TLAPS

(* A set of natural numbers has a least element.                           *)
LEMMA LeastElement ==
  ASSUME NEW T \in SUBSET Nat, T # {}
  PROVE  \E n \in T : \A m \in T : n <= m
<1>. DEFINE R == {ss \in Nat \X Nat : ss[1] < ss[2]}
<1>1. IsWellFoundedOn(R, Nat)
  BY NatLessThanWellFounded DEF OpToRel
<1>2. PICK n \in T : \A m \in T : ~ (<<m, n>> \in R)
  BY <1>1, WFMin
<1>3. ASSUME NEW m \in T, m < n PROVE FALSE
  <2>1. <<m, n>> \in R
    BY <1>3
  <2>. QED BY <1>2, <2>1
<1>4. \A m \in T : n <= m
  BY <1>3
<1>. QED BY <1>4

(* Induction over the numbers, of a set in place of a predicate.           *)
LEMMA NatInduct ==
  ASSUME NEW S, 0 \in S, \A n \in Nat : n \in S => n + 1 \in S
  PROVE  Nat \subseteq S
<1>. SUFFICES ASSUME Nat \ S # {} PROVE FALSE
  OBVIOUS
<1>1. PICK n \in Nat \ S : \A m \in Nat \ S : n <= m
  BY LeastElement
<1>2. n # 0 /\ n - 1 \in Nat
  BY <1>1
<1>3. n - 1 \in S
  BY <1>1, <1>2
<1>. QED BY <1>1, <1>2, <1>3

-----------------------------------------------------------------------------
(* SumFunctionOnSet, step by step: an element is picked, the rest summed.  *)
Picked(s) == CHOOSE x \in s : TRUE
SumStep(f, g, s) == IF s = {} THEN 0 ELSE f[Picked(s)] + g[s \ {Picked(s)}]
SumIter(f, S) == CHOOSE g : g = [s \in SUBSET S |-> SumStep(f, g, s)]

(* What SumFunctionOnSet expands to has a name.                            *)
LEMMA SumIsIter ==
  ASSUME NEW f, NEW S
  PROVE  SumFunctionOnSet(f, S) = SumIter(f, S)[S]
BY DEF SumFunctionOnSet, FoldFunctionOnSet, MapThenFoldSet, SumIter, SumStep, Picked

(* The function exists: Upto(n, g) restricts the equation to sets of at    *)
(* most n elements, and is had for each n from the one before.             *)
LEMMA SumIterStep ==
  ASSUME NEW f, NEW S, IsFiniteSet(S), NEW s \in SUBSET S
  PROVE  SumIter(f, S)[s] = SumStep(f, SumIter(f, S), s)
<1>. DEFINE Upto(n, g) == [t \in SUBSET S |-> IF Cardinality(t) <= n THEN SumStep(f, g, t) ELSE 0]
            Ns == {n \in Nat : \E g : g = Upto(n, g)}
<1>1. \A t \in SUBSET S : /\ IsFiniteSet(t) /\ Cardinality(t) \in Nat
                          /\ t # {} => Picked(t) \in t /\ Cardinality(t \ {Picked(t)}) = Cardinality(t) - 1
  <2>. TAKE t \in SUBSET S
  <2>1. IsFiniteSet(t) /\ Cardinality(t) \in Nat
    BY FS_Subset, FS_CardinalityType
  <2>2. t # {} => Picked(t) \in t
    BY DEF Picked
  <2>3. t # {} => Cardinality(t \ {Picked(t)}) = Cardinality(t) - 1
    BY <2>1, <2>2, FS_RemoveElement
  <2>. QED BY <2>1, <2>2, <2>3
<1>2. 0 \in Ns
  <2>. DEFINE g == [t \in SUBSET S |-> 0]
  <2>1. ASSUME NEW t \in SUBSET S, Cardinality(t) <= 0 PROVE t = {}
    <3>0. IsFiniteSet(t) /\ Cardinality(t) \in Nat
      BY <1>1
    <3>1. Cardinality(t) = 0
      BY <2>1, <3>0
    <3>. QED BY <3>0, <3>1, FS_EmptySet
  <2>2. g = Upto(0, g)
    BY <2>1 DEF SumStep
  <2>. QED BY <2>2
<1>3. ASSUME NEW n \in Nat, n \in Ns
      PROVE  n + 1 \in Ns
  <2>1. PICK g : g = Upto(n, g)
    BY <1>3
  <2>. DEFINE h == Upto(n + 1, g)
  <2>2. \A t \in SUBSET S : Cardinality(t) <= n => g[t] = h[t]
    <3>. TAKE t \in SUBSET S
    <3>. HAVE Cardinality(t) <= n
    <3>0. Cardinality(t) \in Nat
      BY <1>1
    <3>1. Cardinality(t) <= n + 1
      BY <3>0
    <3>2. g[t] = Upto(n, g)[t]
      BY <2>1
    <3>. QED BY <3>1, <3>2
  <2>3. \A t \in SUBSET S : Cardinality(t) <= n + 1 => SumStep(f, g, t) = SumStep(f, h, t)
    <3>. TAKE t \in SUBSET S
    <3>. HAVE Cardinality(t) <= n + 1
    <3>. HIDE DEF h
    <3>1. CASE t = {}
      BY <3>1 DEF SumStep
    <3>2. CASE t # {}
      <4>1. t \ {Picked(t)} \in SUBSET S /\ Cardinality(t \ {Picked(t)}) <= n
        BY <1>1, <3>2
      <4>. QED BY <2>2, <3>2, <4>1 DEF SumStep
    <3>. QED BY <3>1, <3>2
  <2>4. h = Upto(n + 1, h)
    BY <2>3
  <2>5. \E k : k = Upto(n + 1, k)
    BY <2>4
  <2>. QED BY <2>5
<1>4. Cardinality(S) \in Ns
  BY <1>2, <1>3, NatInduct, FS_CardinalityType
<1>5. PICK g : g = Upto(Cardinality(S), g)
  BY <1>4
<1>6. g = [t \in SUBSET S |-> SumStep(f, g, t)]
  BY <1>5, FS_Subset
<1>7. SumIter(f, S) = [t \in SUBSET S |-> SumStep(f, SumIter(f, S), t)]
  BY <1>6 DEF SumIter
<1>. DEFINE I == SumIter(f, S)
<1>. HIDE DEF I
<1>8. I = [t \in SUBSET S |-> SumStep(f, I, t)]
  BY <1>7 DEF I
<1>9. I[s] = SumStep(f, I, s)
  BY <1>8
<1>. QED BY <1>9 DEF I

(* Induction over the subsets of a finite set.                             *)
LEMMA SetInduct ==
  ASSUME NEW S, IsFiniteSet(S), NEW F \in SUBSET SUBSET S,
         \A s \in SUBSET S : (\A r \in SUBSET s : r # s => r \in F) => s \in F
  PROVE  F = SUBSET S
<1>. DEFINE Ns == {n \in Nat : \A s \in SUBSET S : Cardinality(s) <= n => s \in F}
<1>1. \A s \in SUBSET S : /\ IsFiniteSet(s) /\ Cardinality(s) \in Nat
                          /\ \A r \in SUBSET s : r # s => Cardinality(r) < Cardinality(s)
  <2>. TAKE s \in SUBSET S
  <2>1. IsFiniteSet(s) /\ Cardinality(s) \in Nat
    BY FS_Subset, FS_CardinalityType
  <2>2. ASSUME NEW r \in SUBSET s, r # s PROVE Cardinality(r) < Cardinality(s)
    <3>1. Cardinality(r) \in Nat /\ Cardinality(r) <= Cardinality(s) /\ Cardinality(r) # Cardinality(s)
      BY <2>1, <2>2, FS_Subset, FS_CardinalityType
    <3>. QED BY <2>1, <3>1
  <2>. QED BY <2>1, <2>2
<1>2. 0 \in Ns
  <2>. SUFFICES ASSUME NEW s \in SUBSET S, Cardinality(s) <= 0 PROVE s \in F
    OBVIOUS
  <2>0. IsFiniteSet(s) /\ Cardinality(s) \in Nat
    BY <1>1
  <2>1. Cardinality(s) = 0
    BY <2>0
  <2>2. s = {}
    BY <2>0, <2>1, FS_EmptySet
  <2>. QED BY <2>2
<1>3. ASSUME NEW n \in Nat, n \in Ns PROVE n + 1 \in Ns
  <2>. SUFFICES ASSUME NEW s \in SUBSET S, Cardinality(s) <= n + 1 PROVE s \in F
    OBVIOUS
  <2>1. ASSUME NEW r \in SUBSET s, r # s PROVE r \in F
    <3>1. r \in SUBSET S /\ Cardinality(r) \in Nat /\ Cardinality(s) \in Nat /\ Cardinality(r) < Cardinality(s)
      BY <1>1, <2>1
    <3>2. Cardinality(r) <= n
      BY <3>1
    <3>. QED BY <1>3, <3>1, <3>2
  <2>. QED BY <2>1
<1>4. Nat \subseteq Ns
  BY <1>2, <1>3, NatInduct
<1>5. ASSUME NEW s \in SUBSET S PROVE s \in F
  <2>1. Cardinality(s) \in Nat
    BY <1>1
  <2>2. Cardinality(s) \in Ns
    BY <1>4, <2>1
  <2>. QED BY <2>1, <2>2
<1>. QED BY <1>5

(* The function made for a larger set, or of another summand that agrees,  *)
(* has the same values.                                                    *)
LEMMA IterAgrees ==
  ASSUME NEW f, NEW g, NEW S, IsFiniteSet(S), NEW T \in SUBSET S, \A x \in T : f[x] = g[x]
  PROVE  SumIter(f, S)[T] = SumIter(g, T)[T]
<1>. DEFINE F == {s \in SUBSET T : SumIter(f, S)[s] = SumIter(g, T)[s]}
<1>1. IsFiniteSet(T)
  BY FS_Subset
<1>2. ASSUME NEW s \in SUBSET T, \A r \in SUBSET s : r # s => r \in F PROVE s \in F
  <2>1. SumIter(f, S)[s] = SumStep(f, SumIter(f, S), s)
    BY SumIterStep
  <2>2. SumIter(g, T)[s] = SumStep(g, SumIter(g, T), s)
    BY <1>1, SumIterStep
  <2>3. CASE s = {}
    BY <2>1, <2>2, <2>3 DEF SumStep
  <2>4. CASE s # {}
    <3>1. Picked(s) \in s
      BY <2>4 DEF Picked
    <3>2. f[Picked(s)] = g[Picked(s)] /\ SumIter(f, S)[s \ {Picked(s)}] = SumIter(g, T)[s \ {Picked(s)}]
      BY <1>2, <3>1
    <3>. QED BY <2>1, <2>2, <2>4, <3>2 DEF SumStep
  <2>. QED BY <2>3, <2>4
<1>. HIDE DEF F
<1>3. F = SUBSET T
  <2>1. F \in SUBSET SUBSET T
    BY DEF F
  <2>. QED BY <1>1, <1>2, <2>1, SetInduct
<1>. QED BY <1>3 DEF F

(* The recursive equation, without the function it is made of.             *)
LEMMA SumUnfolds ==
  ASSUME NEW f, NEW S, IsFiniteSet(S)
  PROVE  SumFunctionOnSet(f, S) =
           IF S = {} THEN 0 ELSE f[Picked(S)] + SumFunctionOnSet(f, S \ {Picked(S)})
<1>1. SumFunctionOnSet(f, S) = SumStep(f, SumIter(f, S), S)
  BY SumIsIter, SumIterStep
<1>2. CASE S = {}
  BY <1>1, <1>2 DEF SumStep
<1>3. CASE S # {}
  <2>1. SumIter(f, S)[S \ {Picked(S)}] = SumIter(f, S \ {Picked(S)})[S \ {Picked(S)}]
    BY IterAgrees
  <2>2. SumIter(f, S \ {Picked(S)})[S \ {Picked(S)}] = SumFunctionOnSet(f, S \ {Picked(S)})
    BY SumIsIter
  <2>. QED BY <1>1, <1>3, <2>1, <2>2 DEF SumStep
<1>. QED BY <1>2, <1>3

(* Summands that agree have one sum.                                       *)
LEMMA SumAgrees ==
  ASSUME NEW f, NEW g, NEW S, IsFiniteSet(S), \A x \in S : f[x] = g[x]
  PROVE  SumFunctionOnSet(f, S) = SumFunctionOnSet(g, S)
BY IterAgrees, SumIsIter

(* The order does not matter: any element may be the one taken out.        *)
LEMMA SumTakesOut ==
  ASSUME NEW f, NEW S, IsFiniteSet(S), \A y \in S : f[y] \in Int, NEW x \in S
  PROVE  /\ SumFunctionOnSet(f, S) \in Int
         /\ SumFunctionOnSet(f, S) = f[x] + SumFunctionOnSet(f, S \ {x})
<1>. DEFINE Sum(s) == SumFunctionOnSet(f, s)
            Good(s) == Sum(s) \in Int /\ \A y \in s : Sum(s) = f[y] + Sum(s \ {y})
            F == {s \in SUBSET S : Good(s)}
<1>1. ASSUME NEW s \in SUBSET S, \A r \in SUBSET s : r # s => r \in F PROVE Good(s)
  <2>. HIDE DEF Sum
  <2>1. IsFiniteSet(s)
    BY FS_Subset
  <2>2. Sum(s) = IF s = {} THEN 0 ELSE f[Picked(s)] + Sum(s \ {Picked(s)})
    BY <2>1, SumUnfolds DEF Sum
  <2>3. CASE s = {}
    BY <2>2, <2>3
  <2>4. CASE s # {}
    <3>. DEFINE p == Picked(s)
    <3>1. p \in s
      BY <2>4 DEF Picked
    <3>2. Good(s \ {p}) /\ f[p] \in Int
      BY <1>1, <3>1
    <3>. HIDE DEF p
    <3>3. Sum(s) = f[p] + Sum(s \ {p}) /\ Sum(s) \in Int
      BY <2>2, <2>4, <3>2 DEF p
    <3>4. ASSUME NEW y \in s, y # p PROVE Sum(s) = f[y] + Sum(s \ {y})
      <4>1. Good(s \ {y}) /\ f[y] \in Int /\ p \in s \ {y} /\ y \in s \ {p}
        BY <1>1, <3>1, <3>4
      <4>2. (s \ {y}) \ {p} = (s \ {p}) \ {y}
        OBVIOUS
      <4>. DEFINE r == Sum((s \ {p}) \ {y})
      <4>3. Sum(s \ {p}) = f[y] + r
        BY <3>2, <4>1
      <4>4. Sum(s \ {y}) = f[p] + r
        BY <4>1, <4>2
      <4>5. r \in Int
        <5>1. (s \ {p}) \ {y} \in F
          BY <1>1, <3>1
        <5>. QED BY <5>1
      <4>. HIDE DEF r
      <4>. QED BY <3>2, <3>3, <4>1, <4>3, <4>4, <4>5
    <3>. QED BY <3>3, <3>4
  <2>. QED BY <2>3, <2>4
<1>. HIDE DEF F
<1>2. F = SUBSET S
  <2>1. F \in SUBSET SUBSET S
    BY DEF F
  <2>2. ASSUME NEW s \in SUBSET S, \A r \in SUBSET s : r # s => r \in F PROVE s \in F
    BY <1>1, <2>2 DEF F
  <2>. QED BY <2>1, <2>2, SetInduct
<1>3. Good(S)
  BY <1>2 DEF F
<1>. QED BY <1>3
(* The sum over nothing.                                                   *)
LEMMA SumOfNone == ASSUME NEW f PROVE SumFunctionOnSet(f, {}) = 0
BY SumUnfolds, FS_EmptySet

(* A sum of natural numbers is one.                                        *)
LEMMA SumIsNat ==
  ASSUME NEW f, NEW S, IsFiniteSet(S), \A x \in S : f[x] \in Nat
  PROVE  SumFunctionOnSet(f, S) \in Nat
<1>. DEFINE F == {s \in SUBSET S : SumFunctionOnSet(f, s) \in Nat}
<1>1. ASSUME NEW s \in SUBSET S, \A r \in SUBSET s : r # s => r \in F PROVE s \in F
  <2>1. IsFiniteSet(s)
    BY FS_Subset
  <2>2. CASE s = {}
    BY <2>2, SumOfNone
  <2>3. CASE s # {}
    <3>1. PICK x \in s : TRUE
      BY <2>3
    <3>2. SumFunctionOnSet(f, s \ {x}) \in Nat /\ f[x] \in Nat
      BY <1>1, <3>1
    <3>3. SumFunctionOnSet(f, s) = f[x] + SumFunctionOnSet(f, s \ {x})
      BY <2>1, <3>1, SumTakesOut
    <3>. QED BY <3>2, <3>3
  <2>. QED BY <2>2, <2>3
<1>. HIDE DEF F
<1>2. F \in SUBSET SUBSET S
  BY DEF F
<1>3. S \in F
  BY <1>1, <1>2, SetInduct
<1>. QED BY <1>3 DEF F

(* A sum of integers is one.                                               *)
LEMMA SumIsInt ==
  ASSUME NEW f, NEW S, IsFiniteSet(S), \A x \in S : f[x] \in Int
  PROVE  SumFunctionOnSet(f, S) \in Int
<1>1. CASE S = {}
  BY <1>1, SumOfNone
<1>2. CASE S # {}
  BY <1>2, SumTakesOut
<1>. QED BY <1>1, <1>2

(* What is less at every element is less in sum.                           *)
LEMMA SumIsMonotone ==
  ASSUME NEW f, NEW g, NEW S, IsFiniteSet(S),
         \A x \in S : f[x] \in Int /\ g[x] \in Int /\ f[x] <= g[x]
  PROVE  SumFunctionOnSet(f, S) <= SumFunctionOnSet(g, S)
<1>. DEFINE F == {s \in SUBSET S : SumFunctionOnSet(f, s) <= SumFunctionOnSet(g, s)}
<1>1. ASSUME NEW s \in SUBSET S, \A r \in SUBSET s : r # s => r \in F PROVE s \in F
  <2>1. IsFiniteSet(s)
    BY FS_Subset
  <2>2. CASE s = {}
    BY <2>2, SumOfNone
  <2>3. CASE s # {}
    <3>1. PICK x \in s : TRUE
      BY <2>3
    <3>. DEFINE a == SumFunctionOnSet(f, s \ {x})
                b == SumFunctionOnSet(g, s \ {x})
    <3>2. a <= b
      BY <1>1, <3>1
    <3>3. SumFunctionOnSet(f, s) = f[x] + a /\ SumFunctionOnSet(g, s) = g[x] + b
      BY <2>1, <3>1, SumTakesOut
    <3>4. a \in Int /\ b \in Int
      <4>1. IsFiniteSet(s \ {x})
        BY <2>1, FS_Subset
      <4>. QED BY <4>1, SumIsInt
    <3>5. f[x] \in Int /\ g[x] \in Int /\ f[x] <= g[x]
      BY <3>1
    <3>. HIDE DEF a, b
    <3>6. f[x] + a <= g[x] + b
      BY <3>2, <3>4, <3>5
    <3>. QED BY <3>3, <3>6
  <2>. QED BY <2>2, <2>3
<1>. HIDE DEF F
<1>2. F \in SUBSET SUBSET S
  BY DEF F
<1>3. S \in F
  BY <1>1, <1>2, SetInduct
<1>. QED BY <1>3 DEF F

(* One value changed changes the sum by as much.                           *)
LEMMA SumWithOneChanged ==
  ASSUME NEW f, NEW g, NEW S, IsFiniteSet(S), NEW x \in S,
         \A y \in S : f[y] \in Int /\ g[y] \in Int,
         \A y \in S \ {x} : f[y] = g[y]
  PROVE  SumFunctionOnSet(g, S) = SumFunctionOnSet(f, S) - f[x] + g[x]
<1>. DEFINE a == SumFunctionOnSet(f, S \ {x})
<1>1. IsFiniteSet(S \ {x})
  BY FS_Subset
<1>2. a = SumFunctionOnSet(g, S \ {x}) /\ a \in Int
  BY <1>1, SumAgrees, SumIsInt
<1>3. SumFunctionOnSet(f, S) = f[x] + a /\ SumFunctionOnSet(g, S) = g[x] + a
  BY <1>2, SumTakesOut
<1>. HIDE DEF a
<1>. QED BY <1>2, <1>3

(* Where every summand is 0, so is the sum.                                *)
LEMMA SumIsZero ==
  ASSUME NEW f, NEW S, IsFiniteSet(S), \A x \in S : f[x] = 0
  PROVE  SumFunctionOnSet(f, S) = 0
<1>. DEFINE F == {s \in SUBSET S : SumFunctionOnSet(f, s) = 0}
<1>2. ASSUME NEW s \in SUBSET S, \A r \in SUBSET s : r # s => r \in F PROVE s \in F
  <2>1. IsFiniteSet(s)
    BY FS_Subset
  <2>2. CASE s = {}
    BY <2>2, SumOfNone
  <2>3. CASE s # {}
    <3>1. PICK x \in s : TRUE
      BY <2>3
    <3>2. SumFunctionOnSet(f, s \ {x}) = 0 /\ f[x] = 0
      BY <1>2, <3>1
    <3>3. SumFunctionOnSet(f, s) = f[x] + SumFunctionOnSet(f, s \ {x})
      <4>1. \A y \in s : f[y] \in Int
        OBVIOUS
      <4>. QED BY <2>1, <3>1, <4>1, SumTakesOut
    <3>. QED BY <3>2, <3>3
  <2>. QED BY <2>2, <2>3
<1>. HIDE DEF F
<1>3. F \in SUBSET SUBSET S
  BY DEF F
<1>4. S \in F
  BY <1>2, <1>3, SetInduct
<1>. QED BY <1>4 DEF F
=============================================================================
