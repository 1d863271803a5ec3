----------------------------- MODULE NaturalSets -----------------------------
(***************************************************************************)
(* Induction for the proofs.  The principle of the library takes a         *)
(* predicate, which is an operator and cannot be instantiated; this one    *)
(* takes the set of the numbers that have a property.                      *)
(***************************************************************************)
EXTENDS Integers, Functions, FiniteSetTheorems, WellFoundedInduction, TLAPS

\* A set of numbers that has 0 and with a number the next has them all: what the proofs
\* about joined texts, served audio and chosen runs are built on.
LEMMA SetInduction ==
  ASSUME NEW S \in SUBSET Nat, 0 \in S, \A n \in Nat : n \in S => n + 1 \in S
  PROVE  S = Nat
<1> DEFINE T == Nat \ S
           R == OpToRel(<, Nat)
<1>1. IsWellFoundedOn(R, Nat)
  BY NatLessThanWellFounded
<1>2. ASSUME T # {} PROVE FALSE
  <2>1. PICK x \in T : \A y \in T : ~(<<y, x>> \in R)
    <3> HIDE DEF R
    <3> QED
      BY <1>1, <1>2, WFMin
  <2>2. x \in Nat /\ x # 0
    OBVIOUS
  <2>3. x - 1 \in Nat /\ x - 1 \in T
    BY <2>2
  <2>4. <<x - 1, x>> \in R
    BY <2>2, <2>3 DEF OpToRel
  <2> QED
    BY <2>1, <2>3, <2>4
<1> QED
  BY <1>2

\* Some numbers have a least one.
LEMMA SomeHaveLeast ==
  ASSUME NEW these \in SUBSET Nat, these # {}
  PROVE  \E m \in these : \A n \in these : m <= n
<1> DEFINE R == OpToRel(<, Nat)
<1>1. IsWellFoundedOn(R, Nat)
  BY NatLessThanWellFounded
<1>2. PICK x \in these : \A y \in these : ~(<<y, x>> \in R)
  <2> HIDE DEF R
  <2> QED
    BY <1>1, WFMin
<1>3. \A y \in these : ~(y < x)
  BY <1>2 DEF OpToRel
<1> QED
  BY <1>3

\* Some numbers, if they are finitely many, have a largest one.
LEMMA FiniteHasMax ==
  ASSUME NEW these \in SUBSET Nat, IsFiniteSet(these), these # {}
  PROVE  \E m \in these : \A n \in these : n <= m
<1> DEFINE HasMax(T) == \E m \in T : \A n \in T : n <= m
           S == {k \in Nat : \A T \in SUBSET Nat :
                   (IsFiniteSet(T) /\ Cardinality(T) = k /\ T # {}) => HasMax(T)}
<1>1. 0 \in S
  <2>1. \A T \in SUBSET Nat : (IsFiniteSet(T) /\ Cardinality(T) = 0) => T = {}
    BY FS_EmptySet
  <2> HIDE DEF HasMax
  <2>2. \A T \in SUBSET Nat : (IsFiniteSet(T) /\ Cardinality(T) = 0 /\ T # {}) => HasMax(T)
    BY <2>1
  <2> QED
    BY <2>2
<1>2. ASSUME NEW k \in Nat, k \in S PROVE k + 1 \in S
  <2> SUFFICES ASSUME NEW T \in SUBSET Nat, IsFiniteSet(T), Cardinality(T) = k + 1, T # {}
               PROVE  HasMax(T)
    OBVIOUS
  <2>1. PICK x \in T : TRUE
    OBVIOUS
  <2>2. IsFiniteSet(T \ {x}) /\ Cardinality(T \ {x}) = k
    <3>1. IsFiniteSet(T \ {x}) /\ Cardinality(T \ {x}) = Cardinality(T) - 1
      BY <2>1, FS_RemoveElement
    <3> QED
      BY <3>1
  <2>3. CASE T \ {x} = {}
    BY <2>1, <2>3
  <2>4. CASE T \ {x} # {}
    <3>1. PICK m \in T \ {x} : \A n \in T \ {x} : n <= m
      BY <1>2, <2>2, <2>4
    <3>2. m \in Nat /\ x \in Nat
      BY <2>1, <3>1
    <3>3. CASE x <= m
      BY <3>1, <3>2, <3>3
    <3>4. CASE m <= x
      <4>1. \A n \in T : n \in Nat /\ n <= x
        BY <2>1, <3>1, <3>2, <3>4
      <4> QED
        BY <2>1, <4>1
    <3> QED
      BY <3>2, <3>3, <3>4
  <2> QED
    BY <2>3, <2>4
<1>3. S = Nat
  <2> HIDE DEF S
  <2>1. S \in SUBSET Nat
    BY DEF S
  <2> QED
    BY <1>1, <1>2, <2>1, SetInduction
<1>4. Cardinality(these) \in Nat
  BY FS_CardinalityType
<1> QED
  BY <1>3, <1>4

\* What holds of no element and, with some, of one more, holds of all of a finite set.
LEMMA SubsetInduction ==
  ASSUME NEW S, IsFiniteSet(S), NEW P \in SUBSET (SUBSET S), {} \in P,
         \A T \in P : \A x \in S \ T : T \cup {x} \in P
  PROVE  S \in P
<1> DEFINE Right == {n \in Nat : \A T \in SUBSET S : Cardinality(T) = n => T \in P}
<1>0. \A T \in SUBSET S : IsFiniteSet(T) /\ Cardinality(T) \in Nat
  BY FS_Subset, FS_CardinalityType
<1>1. 0 \in Right
  BY <1>0, FS_EmptySet
<1>2. ASSUME NEW n \in Nat, n \in Right PROVE n + 1 \in Right
  <2> SUFFICES ASSUME NEW T \in SUBSET S, Cardinality(T) = n + 1 PROVE T \in P
    OBVIOUS
  <2>1. T # {}
    BY <1>0, FS_EmptySet
  <2>2. PICK x \in T : TRUE
    BY <2>1
  <2>3. Cardinality(T \ {x}) = n
    BY <1>0, <2>2, FS_RemoveElement
  <2>4. T \ {x} \in P
    BY <1>2, <2>3
  <2>5. (T \ {x}) \cup {x} = T /\ x \in S \ (T \ {x})
    BY <2>2
  <2> QED
    BY <2>4, <2>5
<1>3. Right = Nat
  <2>1. Right \in SUBSET Nat
    OBVIOUS
  <2> HIDE DEF Right
  <2> QED
    BY <1>1, <1>2, <2>1, SetInduction
<1> QED
  BY <1>0, <1>3

\* F leads from one value of D to the next; f takes it up to n.
Leads(F, D, n) == F \in [D \X (1..n) -> D]

Recursion(f, F, base, D, n) ==
  /\ f \in [0..n -> D]
  /\ f = [i \in 0..n |-> IF i = 0 THEN base ELSE F[<<f[i - 1], i>>]]

\* A recursion over the numbers up to n whose values stay in a set has a solution.
LEMMA RecursionIsThere ==
  ASSUME NEW n \in Nat, NEW D, NEW base \in D, NEW F, Leads(F, D, n)
  PROVE  \E f : Recursion(f, F, base, D, n)
<1> DEFINE Walk(f, k) == /\ f \in [0..k -> D] /\ f[0] = base
                         /\ \A i \in 1..k : f[i] = F[<<f[i - 1], i>>]
           S == {k \in Nat : k <= n => \E f : Walk(f, k)}
<1>1. 0 \in S
  <2>1. Walk([i \in 0..0 |-> base], 0)
    OBVIOUS
  <2> HIDE DEF Walk
  <2> QED
    BY <2>1
<1>2. ASSUME NEW k \in Nat, k \in S PROVE k + 1 \in S
  <2> SUFFICES ASSUME k + 1 <= n PROVE \E f : Walk(f, k + 1)
    OBVIOUS
  <2>1. PICK f : Walk(f, k)
    BY <1>2
  <2> DEFINE next == F[<<f[k], k + 1>>]
             g == [i \in 0..(k + 1) |-> IF i = k + 1 THEN next ELSE f[i]]
  <2>2. next \in D
    BY <2>1 DEF Leads
  <2>3. Walk(g, k + 1)
    <3>1. g \in [0..(k + 1) -> D] /\ g[0] = base
      <4> HIDE DEF next
      <4> QED
        BY <2>1, <2>2
    <3>2. \A i \in 1..k : g[i] = f[i] /\ g[i - 1] = f[i - 1]
      OBVIOUS
    <3>3. g[k + 1] = next /\ g[k] = f[k]
      OBVIOUS
    <3> HIDE DEF g
    <3>4. \A i \in 1..(k + 1) : g[i] = F[<<g[i - 1], i>>]
      BY <2>1, <3>2, <3>3
    <3> QED
      BY <3>1, <3>4
  <2> QED
    BY <2>3
<1>3. n \in S
  <2> HIDE DEF S
  <2>1. S \in SUBSET Nat
    BY DEF S
  <2> QED
    BY <1>1, <1>2, <2>1, SetInduction
<1>4. PICK f : Walk(f, n)
  BY <1>3
<1>5. f = [i \in 0..n |-> IF i = 0 THEN base ELSE F[<<f[i - 1], i>>]]
  BY <1>4
<1> QED
  BY <1>4, <1>5 DEF Recursion

-----------------------------------------------------------------------------
(* Sums of a function over a finite set.                                   *)

Pick(s) == CHOOSE y \in s : TRUE

\* g adds up f over each set of T, one element after the other.
AddsUp(g, f, T) == g = [s \in T |-> IF s = {} THEN 0 ELSE f[Pick(s)] + g[s \ {Pick(s)}]]

LEMMA PickRemoves ==
  ASSUME NEW S, IsFiniteSet(S), S # {}
  PROVE  /\ Pick(S) \in S /\ IsFiniteSet(S \ {Pick(S)})
         /\ Cardinality(S) \in Nat /\ Cardinality(S \ {Pick(S)}) \in Nat
         /\ Cardinality(S) = Cardinality(S \ {Pick(S)}) + 1
<1>1. Pick(S) \in S
  BY DEF Pick
<1> QED
  BY <1>1, FS_RemoveElement, FS_CardinalityType

\* The recursion of a sum has a solution.
LEMMA SumIsThere ==
  ASSUME NEW f, NEW S, IsFiniteSet(S)
  PROVE  \E g : AddsUp(g, f, SUBSET S)
<1> DEFINE Small(n) == {s \in SUBSET S : Cardinality(s) <= n}
           Done == {n \in Nat : \E g : AddsUp(g, f, Small(n))}
<1>0. \A T \in SUBSET S : IsFiniteSet(T) /\ Cardinality(T) \in Nat /\ Cardinality(T) <= Cardinality(S)
  BY FS_Subset, FS_CardinalityType
<1>1. 0 \in Done
  <2>1. \A s \in Small(0) : s = {}
    BY <1>0, FS_EmptySet
  <2>2. AddsUp([s \in Small(0) |-> 0], f, Small(0))
    <3> HIDE DEF Small
    <3> QED
      BY <2>1 DEF AddsUp
  <2> QED
    BY <2>2
<1>2. ASSUME NEW n \in Nat, n \in Done PROVE n + 1 \in Done
  <2>1. PICK g : AddsUp(g, f, Small(n))
    BY <1>2
  <2> DEFINE h == [s \in Small(n + 1) |-> IF s = {} THEN 0 ELSE f[Pick(s)] + g[s \ {Pick(s)}]]
  <2>2. \A s \in Small(n + 1) : s # {} => s \ {Pick(s)} \in Small(n)
    BY <1>0, PickRemoves
  <2>3. \A s \in Small(n) : s \in Small(n + 1)
    BY <1>0
  <2> HIDE DEF Small
  <2>4. \A s \in Small(n) : h[s] = g[s]
    BY <2>1, <2>3 DEF AddsUp
  <2>5. \A s \in Small(n + 1) : s # {} => h[s \ {Pick(s)}] = g[s \ {Pick(s)}]
    BY <2>2, <2>4
  <2>6. h = [s \in Small(n + 1) |-> IF s = {} THEN 0 ELSE f[Pick(s)] + h[s \ {Pick(s)}]]
    <3>1. \A s \in Small(n + 1) : (IF s = {} THEN 0 ELSE f[Pick(s)] + g[s \ {Pick(s)}])
                                   = (IF s = {} THEN 0 ELSE f[Pick(s)] + h[s \ {Pick(s)}])
      <4> HIDE DEF h
      <4> QED
        BY <2>5
    <3>2. h = [s \in Small(n + 1) |-> IF s = {} THEN 0 ELSE f[Pick(s)] + g[s \ {Pick(s)}]]
      OBVIOUS
    <3> HIDE DEF h
    <3> QED
      BY <3>1, <3>2
  <2> HIDE DEF h
  <2>7. AddsUp(h, f, Small(n + 1))
    BY <2>6 DEF AddsUp
  <2> QED
    BY <2>7
<1>3. Done = Nat
  <2>1. Done \in SUBSET Nat
    OBVIOUS
  <2> HIDE DEF Done
  <2> QED
    BY <1>1, <1>2, <2>1, SetInduction
<1>4. Cardinality(S) \in Nat /\ Small(Cardinality(S)) = SUBSET S
  BY <1>0
<1> HIDE DEF Small
<1>5. \E g : AddsUp(g, f, Small(Cardinality(S)))
  BY <1>3, <1>4
<1> QED
  BY <1>4, <1>5, Zenon

\* The sum of the library is a solution of that recursion.
LEMMA SumSolves ==
  ASSUME NEW f, NEW S, IsFiniteSet(S)
  PROVE  \E g : AddsUp(g, f, SUBSET S) /\ SumFunctionOnSet(f, S) = g[S]
<1> DEFINE iter == CHOOSE g : AddsUp(g, f, SUBSET S)
<1>1. AddsUp(iter, f, SUBSET S)
  BY SumIsThere
<1>2. SumFunctionOnSet(f, S) = iter[S]
  BY Zenon DEF SumFunctionOnSet, FoldFunctionOnSet, MapThenFoldSet, Pick, AddsUp
<1> QED
  BY <1>1, <1>2

\* Two solutions agree where both are defined.
LEMMA SumIsOne ==
  ASSUME NEW f, NEW S, IsFiniteSet(S), NEW T \in SUBSET S, NEW g, NEW h,
         AddsUp(g, f, SUBSET S), AddsUp(h, f, SUBSET T)
  PROVE  g[T] = h[T]
<1> DEFINE Same == {n \in Nat : \A U \in SUBSET T : Cardinality(U) = n => g[U] = h[U]}
<1>0. \A U \in SUBSET T : IsFiniteSet(U) /\ Cardinality(U) \in Nat /\ U \in SUBSET S
  BY FS_Subset, FS_CardinalityType
<1>1. 0 \in Same
  <2>1. \A U \in SUBSET T : Cardinality(U) = 0 => U = {}
    BY <1>0, FS_EmptySet
  <2>2. g[{}] = 0 /\ h[{}] = 0
    BY DEF AddsUp
  <2> QED
    BY <2>1, <2>2
<1>2. ASSUME NEW n \in Nat, n \in Same PROVE n + 1 \in Same
  <2> SUFFICES ASSUME NEW U \in SUBSET T, Cardinality(U) = n + 1 PROVE g[U] = h[U]
    OBVIOUS
  <2>0. n + 1 # 0
    OBVIOUS
  <2>1. U # {}
    BY <2>0, FS_EmptySet, Zenon
  <2>2. U \ {Pick(U)} \in SUBSET T /\ Cardinality(U \ {Pick(U)}) = n
    BY <1>0, <2>1, PickRemoves
  <2>3. g[U \ {Pick(U)}] = h[U \ {Pick(U)}]
    BY <1>2, <2>2
  <2>4. g[U] = f[Pick(U)] + g[U \ {Pick(U)}] /\ h[U] = f[Pick(U)] + h[U \ {Pick(U)}]
    BY <1>0, <2>1 DEF AddsUp
  <2> QED
    BY <2>3, <2>4
<1>3. Same = Nat
  <2>1. Same \in SUBSET Nat
    OBVIOUS
  <2> HIDE DEF Same
  <2> QED
    BY <1>1, <1>2, <2>1, SetInduction
<1> QED
  BY <1>0, <1>3

LEMMA SumUnfolds ==
  ASSUME NEW f, NEW S, IsFiniteSet(S)
  PROVE  /\ S = {} => SumFunctionOnSet(f, S) = 0
         /\ S # {} => SumFunctionOnSet(f, S)
                         = f[Pick(S)] + SumFunctionOnSet(f, S \ {Pick(S)})
<1>1. PICK g : AddsUp(g, f, SUBSET S) /\ SumFunctionOnSet(f, S) = g[S]
  BY SumSolves
<1>2. CASE S = {}
  BY <1>1, <1>2 DEF AddsUp
<1>3. CASE S # {}
  <2> DEFINE T == S \ {Pick(S)}
  <2>1. IsFiniteSet(T) /\ T \in SUBSET S
    BY <1>3, PickRemoves
  <2>2. g[S] = f[Pick(S)] + g[T]
    BY <1>1, <1>3 DEF AddsUp
  <2> HIDE DEF T
  <2>3. PICK h : AddsUp(h, f, SUBSET T) /\ SumFunctionOnSet(f, T) = h[T]
    BY <2>1, SumSolves
  <2>4. g[T] = h[T]
    BY <1>1, <2>1, <2>3, SumIsOne
  <2> QED
    BY <1>1, <1>3, <2>2, <2>3, <2>4 DEF T
<1> QED
  BY <1>2, <1>3

LEMMA SumIsNatural ==
  ASSUME NEW f, NEW S, IsFiniteSet(S), \A x \in S : f[x] \in Nat
  PROVE  \A T \in SUBSET S : SumFunctionOnSet(f, T) \in Nat
<1> DEFINE Sum(T) == SumFunctionOnSet(f, T)
           Right == {n \in Nat : \A T \in SUBSET S : Cardinality(T) = n => Sum(T) \in Nat}
<1>0. \A T \in SUBSET S : IsFiniteSet(T) /\ Cardinality(T) \in Nat
  BY FS_Subset, FS_CardinalityType
<1>1. \A T \in SUBSET S : /\ T = {} => Sum(T) = 0
                          /\ T # {} => Sum(T) = f[Pick(T)] + Sum(T \ {Pick(T)})
  BY <1>0, SumUnfolds
<1> HIDE DEF Sum
<1>2. 0 \in Right
  BY <1>0, <1>1, FS_EmptySet
<1>3. ASSUME NEW n \in Nat, n \in Right PROVE n + 1 \in Right
  <2> SUFFICES ASSUME NEW T \in SUBSET S, Cardinality(T) = n + 1 PROVE Sum(T) \in Nat
    OBVIOUS
  <2>1. T # {}
    BY FS_EmptySet
  <2>2. Pick(T) \in T /\ T \ {Pick(T)} \in SUBSET S /\ Cardinality(T \ {Pick(T)}) = n
    BY <1>0, <2>1, PickRemoves
  <2>3. Sum(T \ {Pick(T)}) \in Nat /\ f[Pick(T)] \in Nat
    BY <1>3, <2>2
  <2> QED
    BY <1>1, <2>1, <2>3
<1>4. Right = Nat
  <2>1. Right \in SUBSET Nat
    OBVIOUS
  <2> HIDE DEF Right
  <2> QED
    BY <1>2, <1>3, <2>1, SetInduction
<1> QED
  BY <1>0, <1>4 DEF Sum

\* Any element may be taken out of a sum first, not only the one the library picks.
LEMMA SumWithout ==
  ASSUME NEW f, NEW S, IsFiniteSet(S), \A x \in S : f[x] \in Nat
  PROVE  \A x \in S : SumFunctionOnSet(f, S) = f[x] + SumFunctionOnSet(f, S \ {x})
<1> DEFINE Sum(T) == SumFunctionOnSet(f, T)
           Right == {n \in Nat : \A T \in SUBSET S : Cardinality(T) = n =>
                       \A x \in T : Sum(T) = f[x] + Sum(T \ {x})}
<1>0. \A T \in SUBSET S : /\ IsFiniteSet(T) /\ Cardinality(T) \in Nat
                          /\ \A x \in T : Cardinality(T \ {x}) = Cardinality(T) - 1
  BY FS_Subset, FS_CardinalityType, FS_RemoveElement
<1>1. \A T \in SUBSET S : T # {} => Pick(T) \in T /\ Sum(T) = f[Pick(T)] + Sum(T \ {Pick(T)})
  BY <1>0, SumUnfolds, PickRemoves
<1>2. \A T \in SUBSET S : Sum(T) \in Nat
  BY SumIsNatural
<1> HIDE DEF Sum
<1>3. 0 \in Right
  BY <1>0, FS_EmptySet
<1>4. ASSUME NEW n \in Nat, n \in Right PROVE n + 1 \in Right
  <2> SUFFICES ASSUME NEW T \in SUBSET S, Cardinality(T) = n + 1, NEW x \in T
               PROVE  Sum(T) = f[x] + Sum(T \ {x})
    OBVIOUS
  <2>1. PICK p \in T : Sum(T) = f[p] + Sum(T \ {p})
    BY <1>1
  <2>2. CASE x = p
    BY <2>1, <2>2
  <2>3. CASE x # p
    <3>1. Sum(T \ {p}) = f[x] + Sum((T \ {p}) \ {x})
      <4>1. T \ {p} \in SUBSET S /\ Cardinality(T \ {p}) = n /\ x \in T \ {p}
        BY <1>0, <2>3
      <4> QED
        BY <1>4, <4>1
    <3>2. Sum(T \ {x}) = f[p] + Sum((T \ {x}) \ {p})
      <4>1. T \ {x} \in SUBSET S /\ Cardinality(T \ {x}) = n /\ p \in T \ {x}
        BY <1>0, <2>3
      <4> QED
        BY <1>4, <4>1
    <3>3. (T \ {p}) \ {x} = (T \ {x}) \ {p}
      OBVIOUS
    <3> DEFINE rest == Sum((T \ {x}) \ {p})
    <3>4. rest \in Nat /\ f[x] \in Nat /\ f[p] \in Nat
      BY <1>2
    <3>5. Sum(T \ {p}) = f[x] + rest /\ Sum(T \ {x}) = f[p] + rest
      BY <3>1, <3>2, <3>3
    <3> HIDE DEF rest
    <3>6. Sum(T) = f[p] + (f[x] + rest)
      BY <2>1, <3>5
    <3> QED
      BY <3>4, <3>5, <3>6
  <2> QED
    BY <2>2, <2>3
<1>5. Right = Nat
  <2>1. Right \in SUBSET Nat
    OBVIOUS
  <2> HIDE DEF Right
  <2> QED
    BY <1>3, <1>4, <2>1, SetInduction
<1> QED
  BY <1>0, <1>5 DEF Sum

LEMMA SumWithOneMore ==
  ASSUME NEW f, NEW S, IsFiniteSet(S), \A x \in S : f[x] \in Nat,
         NEW T \in SUBSET S, NEW x \in S \ T
  PROVE  /\ SumFunctionOnSet(f, T) \in Nat
         /\ SumFunctionOnSet(f, T \cup {x}) = SumFunctionOnSet(f, T) + f[x]
<1>1. IsFiniteSet(T \cup {x}) /\ T \cup {x} \in SUBSET S
  BY FS_Subset
<1>2. SumFunctionOnSet(f, T \cup {x}) = f[x] + SumFunctionOnSet(f, (T \cup {x}) \ {x})
  BY <1>1, SumWithout
<1>3. (T \cup {x}) \ {x} = T
  OBVIOUS
<1>4. SumFunctionOnSet(f, T) \in Nat /\ f[x] \in Nat
  BY SumIsNatural
<1> QED
  BY <1>2, <1>3, <1>4

LEMMA SumOfNone ==
  \A f : SumFunctionOnSet(f, {}) = 0
BY SumUnfolds, FS_EmptySet

\* What is larger element by element has the larger sum.
LEMMA SumIsMonotone ==
  ASSUME NEW f, NEW h, NEW S, IsFiniteSet(S),
         \A x \in S : f[x] \in Nat /\ h[x] \in Nat /\ f[x] <= h[x]
  PROVE  SumFunctionOnSet(f, S) <= SumFunctionOnSet(h, S)
<1> DEFINE P == {T \in SUBSET S : SumFunctionOnSet(f, T) <= SumFunctionOnSet(h, T)}
<1>1. {} \in P
  BY SumOfNone
<1>2. ASSUME NEW T \in P, NEW x \in S \ T PROVE T \cup {x} \in P
  <2>1. /\ SumFunctionOnSet(f, T) \in Nat
        /\ SumFunctionOnSet(f, T \cup {x}) = SumFunctionOnSet(f, T) + f[x]
    BY SumWithOneMore
  <2>2. /\ SumFunctionOnSet(h, T) \in Nat
        /\ SumFunctionOnSet(h, T \cup {x}) = SumFunctionOnSet(h, T) + h[x]
    BY SumWithOneMore
  <2> QED
    BY <2>1, <2>2
<1>3. S \in P
  <2>1. P \in SUBSET (SUBSET S)
    OBVIOUS
  <2> HIDE DEF P
  <2> QED
    BY <1>1, <1>2, <2>1, SubsetInduction
<1> QED
  BY <1>3

\* A sum is that of a part and that of the rest.
LEMMA SumOfParts ==
  ASSUME NEW f, NEW S, IsFiniteSet(S), \A x \in S : f[x] \in Nat, NEW T \in SUBSET S
  PROVE  SumFunctionOnSet(f, S) = SumFunctionOnSet(f, T) + SumFunctionOnSet(f, S \ T)
<1> DEFINE P == {U \in SUBSET T : SumFunctionOnSet(f, (S \ T) \cup U)
                                  = SumFunctionOnSet(f, U) + SumFunctionOnSet(f, S \ T)}
<1>0. SumFunctionOnSet(f, S \ T) \in Nat /\ IsFiniteSet(T)
  BY SumIsNatural, FS_Subset
<1>1. {} \in P
  BY <1>0, SumOfNone
<1>2. ASSUME NEW U \in P, NEW x \in T \ U PROVE U \cup {x} \in P
  <2>1. /\ SumFunctionOnSet(f, U) \in Nat
        /\ SumFunctionOnSet(f, U \cup {x}) = SumFunctionOnSet(f, U) + f[x]
    BY SumWithOneMore
  <2>2. SumFunctionOnSet(f, ((S \ T) \cup U) \cup {x}) = SumFunctionOnSet(f, (S \ T) \cup U) + f[x]
    <3>1. (S \ T) \cup U \in SUBSET S /\ x \in S \ ((S \ T) \cup U)
      OBVIOUS
    <3> QED
      BY <3>1, SumWithOneMore
  <2>3. ((S \ T) \cup U) \cup {x} = (S \ T) \cup (U \cup {x}) /\ f[x] \in Nat
    OBVIOUS
  <2>4. SumFunctionOnSet(f, (S \ T) \cup U)
          = SumFunctionOnSet(f, U) + SumFunctionOnSet(f, S \ T)
    OBVIOUS
  <2> DEFINE of == SumFunctionOnSet(f, U)
             rest == SumFunctionOnSet(f, S \ T)
             more == SumFunctionOnSet(f, U \cup {x})
             all == SumFunctionOnSet(f, (S \ T) \cup (U \cup {x}))
  <2>5. /\ of \in Nat /\ rest \in Nat /\ f[x] \in Nat
        /\ more = of + f[x] /\ all = (of + rest) + f[x]
    BY <1>0, <2>1, <2>2, <2>3, <2>4, Zenon
  <2>6. all = more + rest
    <3> HIDE DEF of, rest, more, all
    <3> QED
      BY <2>5
  <2> QED
    BY <2>6
<1>3. T \in P
  <2>1. P \in SUBSET (SUBSET T)
    OBVIOUS
  <2> HIDE DEF P
  <2> QED
    BY <1>0, <1>1, <1>2, <2>1, SubsetInduction
<1>4. (S \ T) \cup T = S
  OBVIOUS
<1> QED
  BY <1>3, <1>4

\* Of two functions that agree the sums do.
LEMMA SumsAgree ==
  ASSUME NEW f, NEW h, NEW S, IsFiniteSet(S), \A x \in S : f[x] \in Nat /\ f[x] = h[x]
  PROVE  SumFunctionOnSet(f, S) = SumFunctionOnSet(h, S)
<1>1. \A x \in S : f[x] \in Nat /\ h[x] \in Nat /\ f[x] <= h[x] /\ h[x] <= f[x]
  OBVIOUS
<1>2. /\ SumFunctionOnSet(f, S) <= SumFunctionOnSet(h, S)
      /\ SumFunctionOnSet(h, S) <= SumFunctionOnSet(f, S)
  BY <1>1, SumIsMonotone
<1>3. SumFunctionOnSet(f, S) \in Nat /\ SumFunctionOnSet(h, S) \in Nat
  BY <1>1, SumIsNatural
<1> QED
  BY <1>2, <1>3

\* Two functions may be added up one after the other.
LEMMA SumOfSums ==
  ASSUME NEW f, NEW h, NEW S, IsFiniteSet(S), NEW both,
         \A x \in S : f[x] \in Nat, \A x \in S : h[x] \in Nat,
         \A x \in S : both[x] = f[x] + h[x]
  PROVE  SumFunctionOnSet(both, S) = SumFunctionOnSet(f, S) + SumFunctionOnSet(h, S)
<1> DEFINE Adds(g) == \A T \in SUBSET S : \A x \in S \ T :
                        /\ SumFunctionOnSet(g, T) \in Nat
                        /\ SumFunctionOnSet(g, T \cup {x}) = SumFunctionOnSet(g, T) + g[x]
           P == {T \in SUBSET S : SumFunctionOnSet(both, T)
                                  = SumFunctionOnSet(f, T) + SumFunctionOnSet(h, T)}
<1>0. ASSUME NEW g, \A x \in S : g[x] \in Nat PROVE Adds(g)
  BY <1>0, SumWithOneMore
<1>1. {} \in P
  BY SumOfNone
<1>2. ASSUME NEW T \in P, NEW x \in S \ T PROVE T \cup {x} \in P
  <2>1. Adds(f) /\ Adds(h) /\ Adds(both)
    <3>1. \A y \in S : both[y] \in Nat
      OBVIOUS
    <3> HIDE DEF Adds
    <3> QED
      BY <1>0, <3>1
  <2>2. /\ T \in SUBSET S
        /\ SumFunctionOnSet(both, T) = SumFunctionOnSet(f, T) + SumFunctionOnSet(h, T)
    OBVIOUS
  <2>3. /\ SumFunctionOnSet(f, T) \in Nat
        /\ SumFunctionOnSet(f, T \cup {x}) = SumFunctionOnSet(f, T) + f[x]
    BY <2>1
  <2>4. /\ SumFunctionOnSet(h, T) \in Nat
        /\ SumFunctionOnSet(h, T \cup {x}) = SumFunctionOnSet(h, T) + h[x]
    BY <2>1
  <2>5. SumFunctionOnSet(both, T \cup {x}) = SumFunctionOnSet(both, T) + both[x]
    BY <2>1
  <2> HIDE DEF Adds, P
  <2>6. SumFunctionOnSet(both, T \cup {x})
          = SumFunctionOnSet(f, T \cup {x}) + SumFunctionOnSet(h, T \cup {x})
    BY <2>2, <2>3, <2>4, <2>5
  <2> QED
    BY <2>2, <2>6 DEF P
<1>3. S \in P
  <2>1. P \in SUBSET (SUBSET S)
    OBVIOUS
  <2> HIDE DEF P
  <2> QED
    BY <1>1, <1>2, <2>1, SubsetInduction
<1> QED
  BY <1>3

\* A part of what is larger element by element has no larger sum.
LEMMA SumOfLess ==
  ASSUME NEW f, NEW h, NEW S, IsFiniteSet(S), NEW T \in SUBSET S,
         \A x \in S : h[x] \in Nat, \A x \in T : f[x] \in Nat /\ f[x] <= h[x]
  PROVE  SumFunctionOnSet(f, T) <= SumFunctionOnSet(h, S)
<1>1. IsFiniteSet(T) /\ \A x \in T : f[x] \in Nat /\ h[x] \in Nat /\ f[x] <= h[x]
  BY FS_Subset
<1>2. SumFunctionOnSet(f, T) <= SumFunctionOnSet(h, T)
  BY <1>1, SumIsMonotone
<1>3. SumFunctionOnSet(h, S) = SumFunctionOnSet(h, T) + SumFunctionOnSet(h, S \ T)
  BY SumOfParts
<1>4. /\ SumFunctionOnSet(f, T) \in Nat /\ SumFunctionOnSet(h, T) \in Nat
      /\ SumFunctionOnSet(h, S \ T) \in Nat
  <2>1. T \in SUBSET T /\ S \ T \in SUBSET S
    OBVIOUS
  <2> QED
    BY <1>1, <2>1, SumIsNatural
<1> QED
  BY <1>2, <1>3, <1>4

\* A part that has all there is to add up has the larger sum.
LEMMA SumOfRest ==
  ASSUME NEW f, NEW h, NEW S, IsFiniteSet(S), NEW T \in SUBSET S,
         \A x \in S : f[x] \in Nat /\ (x \notin T => f[x] = 0),
         \A x \in T : h[x] \in Nat /\ f[x] <= h[x]
  PROVE  SumFunctionOnSet(f, S) <= SumFunctionOnSet(h, T)
<1>1. IsFiniteSet(T) /\ IsFiniteSet(S \ T)
  BY FS_Subset
<1>2. SumFunctionOnSet(f, T) <= SumFunctionOnSet(h, T)
  BY <1>1, SumIsMonotone
<1>3. SumFunctionOnSet(f, S \ T) = 0
  <2> DEFINE P == {U \in SUBSET (S \ T) : SumFunctionOnSet(f, U) = 0}
  <2>1. {} \in P
    BY SumOfNone
  <2>2. ASSUME NEW U \in P, NEW x \in (S \ T) \ U PROVE U \cup {x} \in P
    <3>1. SumFunctionOnSet(f, U \cup {x}) = SumFunctionOnSet(f, U) + f[x]
      BY SumWithOneMore
    <3> QED
      BY <3>1
  <2>3. P \in SUBSET (SUBSET (S \ T))
    OBVIOUS
  <2>4. S \ T \in P
    <3> HIDE DEF P
    <3> QED
      BY <1>1, <2>1, <2>2, <2>3, SubsetInduction
  <2> QED
    BY <2>4
<1>4. SumFunctionOnSet(f, T) \in Nat
  BY SumIsNatural
<1>5. SumFunctionOnSet(f, S) = SumFunctionOnSet(f, T) + SumFunctionOnSet(f, S \ T)
  BY SumOfParts
<1> QED
  BY <1>2, <1>3, <1>4, <1>5

\* Elements may be added up group by group.
LEMMA SumByGroups ==
  ASSUME NEW f, NEW S, IsFiniteSet(S), \A x \in S : f[x] \in Nat,
         NEW owner, NEW G, IsFiniteSet(G)
  PROVE  LET group == [k \in G |-> SumFunctionOnSet(f, {x \in S : owner[x] = k})]
         IN  SumFunctionOnSet(f, {x \in S : owner[x] \in G}) = SumFunctionOnSet(group, G)
<1> DEFINE group == [k \in G |-> SumFunctionOnSet(f, {x \in S : owner[x] = k})]
           Of(H) == {x \in S : owner[x] \in H}
           P == {H \in SUBSET G : SumFunctionOnSet(f, Of(H)) = SumFunctionOnSet(group, H)}
<1>1. \A k \in G : group[k] \in Nat /\ group[k] = SumFunctionOnSet(f, {x \in S : owner[x] = k})
  <2>1. \A k \in G : {x \in S : owner[x] = k} \in SUBSET S
    OBVIOUS
  <2> QED
    BY <2>1, SumIsNatural
<1> HIDE DEF group
<1>2. {} \in P
  <2>1. Of({}) = {}
    OBVIOUS
  <2> QED
    BY <2>1, SumOfNone
<1>3. ASSUME NEW H \in P, NEW k \in G \ H PROVE H \cup {k} \in P
  <2> DEFINE T == {x \in S : owner[x] = k}
  <2>1. SumFunctionOnSet(group, H \cup {k}) = SumFunctionOnSet(group, H) + group[k]
    <3>1. H \in SUBSET G /\ k \in G \ H /\ \A j \in G : group[j] \in Nat
      BY <1>1
    <3> HIDE DEF P, Of, T
    <3> QED
      BY <3>1, SumWithOneMore
  <2>2. /\ T \in SUBSET Of(H \cup {k}) /\ Of(H \cup {k}) \ T = Of(H)
        /\ IsFiniteSet(Of(H \cup {k})) /\ \A x \in Of(H \cup {k}) : f[x] \in Nat
    BY FS_Subset
  <2>3. SumFunctionOnSet(f, Of(H)) \in Nat /\ group[k] = SumFunctionOnSet(f, T) /\ group[k] \in Nat
    <3>1. Of(H) \in SUBSET S
      OBVIOUS
    <3> HIDE DEF Of, P
    <3>2. \A U \in SUBSET S : SumFunctionOnSet(f, U) \in Nat
      BY SumIsNatural
    <3>3. group[k] = SumFunctionOnSet(f, T) /\ group[k] \in Nat
      BY <1>1
    <3>4. SumFunctionOnSet(f, Of(H)) \in Nat
      BY <3>1, <3>2
    <3> QED
      BY <3>3, <3>4
  <2> HIDE DEF T, Of
  <2> DEFINE larger == Of(H \cup {k})
  <2>4. SumFunctionOnSet(f, larger) = SumFunctionOnSet(f, T) + SumFunctionOnSet(f, larger \ T)
    <3> HIDE DEF larger
    <3>1. IsFiniteSet(larger) /\ T \in SUBSET larger /\ \A x \in larger : f[x] \in Nat
      BY <2>2 DEF larger
    <3> QED
      BY <3>1, SumOfParts
  <2>5. SumFunctionOnSet(f, Of(H)) = SumFunctionOnSet(group, H)
    OBVIOUS
  <2> DEFINE of == SumFunctionOnSet(f, Of(H))
             more == SumFunctionOnSet(f, T)
  <2>6. /\ of \in Nat /\ more \in Nat
        /\ SumFunctionOnSet(f, larger) = more + of
        /\ SumFunctionOnSet(group, H \cup {k}) = of + more
    BY <2>1, <2>2, <2>3, <2>4, <2>5, Zenon
  <2> HIDE DEF of, more, larger
  <2>7. SumFunctionOnSet(f, larger) = SumFunctionOnSet(group, H \cup {k})
    BY <2>6
  <2> QED
    BY <2>7 DEF larger
<1>4. G \in P
  <2>1. P \in SUBSET (SUBSET G)
    OBVIOUS
  <2> HIDE DEF P
  <2> QED
    BY <1>2, <1>3, <2>1, SubsetInduction
<1> QED
  BY <1>4 DEF group

\* Where elements have heights, finitely many have a highest.
LEMMA SomeIsHighest ==
  ASSUME NEW S, IsFiniteSet(S), S # {}, NEW f, \A x \in S : f[x] \in Nat
  PROVE  \E x \in S : \A y \in S : f[y] <= f[x]
<1> DEFINE P == {T \in SUBSET S : T = {} \/ \E x \in T : \A y \in T : f[y] <= f[x]}
<1>1. {} \in P
  OBVIOUS
<1>2. ASSUME NEW T \in P, NEW x \in S \ T PROVE T \cup {x} \in P
  <2>1. CASE T = {}
    BY <2>1
  <2>2. ASSUME NEW z \in T, \A y \in T : f[y] <= f[z] PROVE T \cup {x} \in P
    <3>1. \A y \in T \cup {x} : f[y] \in Nat
      OBVIOUS
    <3>2. CASE f[x] <= f[z]
      BY <2>2, <3>2
    <3>3. CASE f[z] <= f[x]
      BY <2>2, <3>1, <3>3
    <3> QED
      BY <3>1, <3>2, <3>3
  <2> QED
    BY <2>1, <2>2
<1>3. S \in P
  <2>1. P \in SUBSET (SUBSET S)
    OBVIOUS
  <2> HIDE DEF P
  <2>2. \A T \in P : \A x \in S \ T : T \cup {x} \in P
    BY <1>2
  <2> QED
    BY <1>1, <2>1, <2>2, SubsetInduction
<1> QED
  BY <1>3

\* Of elements with heights, those with fewer than n above them are n, or all of them.
LEMMA FrontIsFull ==
  ASSUME NEW S, IsFiniteSet(S), NEW f, \A x \in S : f[x] \in Nat, NEW n \in Nat,
         NEW front, front = {x \in S : ~(Cardinality({y \in S : f[y] > f[x]}) >= n)}
  PROVE  Cardinality(front) >= n \/ front = S
<1> DEFINE Above(x) == {y \in S : f[y] > f[x]}
           rest == S \ front
<1>1. CASE rest = {}
  BY <1>1
<1>2. CASE rest # {}
  <2>1. IsFiniteSet(rest) /\ IsFiniteSet(front)
    BY FS_Subset
  <2>2. PICK x \in rest : \A y \in rest : f[y] <= f[x]
    <3>1. \A y \in rest : f[y] \in Nat
      OBVIOUS
    <3> HIDE DEF rest
    <3> QED
      BY <1>2, <2>1, <3>1, SomeIsHighest
  <2>3. Above(x) \in SUBSET front
    <3> SUFFICES ASSUME NEW y \in S, f[y] > f[x], y \notin front PROVE FALSE
      OBVIOUS
    <3>1. f[y] <= f[x] /\ f[x] \in Nat /\ f[y] \in Nat
      BY <2>2
    <3> QED
      BY <3>1
  <2>4. Cardinality(Above(x)) >= n
    OBVIOUS
  <2>5. /\ Cardinality(Above(x)) \in Nat /\ Cardinality(front) \in Nat
        /\ Cardinality(Above(x)) <= Cardinality(front)
    <3> HIDE DEF Above
    <3> QED
      BY <2>1, <2>3, FS_Subset, FS_CardinalityType
  <2> QED
    BY <2>4, <2>5
<1> QED
  BY <1>1, <1>2
=============================================================================
