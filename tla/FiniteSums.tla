----------------------------- MODULE FiniteSums -----------------------------
(***************************************************************************)
(* Facts about MapThenSumSet of the community modules, which the proofs    *)
(* about counters and percentages rest on: what type a sum has, what the   *)
(* sum of nothing is, and what a sum is when one term or the set changes.  *)
(* MapThenSumSet is a recursive function over the subsets of the set;      *)
(* that the recursion has a solution, and what holds of all subsets, is    *)
(* shown with the least size at which it would fail.                       *)
(***************************************************************************)
EXTENDS Integers, FiniteSetsExt, FiniteSetTheorems, WellFoundedInduction, TLAPS

-----------------------------------------------------------------------------
\* The sum of f over S, and the sums of f over the subsets of S that it is made of.
SumOver(f, S) == MapThenSumSet(LAMBDA x : f[x], S)
First(s) == CHOOSE x \in s : TRUE
Sums(f, S) ==
    CHOOSE sums : sums =
      [s \in SUBSET S |-> IF s = {} THEN 0 ELSE f[First(s)] + sums[s \ {First(s)}]]

\* A set of numbers with 0 in it, and with each number the next one, has all.
LEMMA AllNumbers ==
    ASSUME NEW T \in SUBSET Nat, 0 \in T, \A n \in T : n + 1 \in T
    PROVE  T = Nat
<1> SUFFICES ASSUME Nat \ T # {} PROVE FALSE
  OBVIOUS
<1>1. PICK n \in Nat \ T : \A m \in Nat \ T : <<m, n>> \notin OpToRel(<, Nat)
  BY WFMin, NatLessThanWellFounded
<1>2. \A m \in Nat \ T : ~(m < n)
  BY <1>1 DEF OpToRel
<1>3. n # 0
  OBVIOUS
<1>4. n - 1 \in Nat /\ n - 1 < n /\ (n - 1) + 1 = n
  BY <1>3
<1>5. n - 1 \in T
  BY <1>2, <1>4
<1> QED  BY <1>4, <1>5

\* A set of subsets of a finite set has all of them if it has every one whose rest,
\* without the element chosen first, it has.
LEMMA AllSubsets ==
    ASSUME NEW S, IsFiniteSet(S), NEW P \in SUBSET SUBSET S, {} \in P,
           \A s \in SUBSET S : s # {} /\ s \ {First(s)} \in P => s \in P
    PROVE  P = SUBSET S
<1> DEFINE T == {n \in Nat : \A s \in SUBSET S : Cardinality(s) = n => s \in P}
<1>1. \A s \in SUBSET S : IsFiniteSet(s) /\ Cardinality(s) \in Nat
  BY FS_Subset, FS_CardinalityType
<1>2. 0 \in T
  BY <1>1, FS_EmptySet
<1>3. ASSUME NEW n \in T PROVE n + 1 \in T
  <2> SUFFICES ASSUME NEW s \in SUBSET S, Cardinality(s) = n + 1 PROVE s \in P
    OBVIOUS
  <2> DEFINE x == First(s)
  <2>0. n \in Nat
    OBVIOUS
  <2>1. s # {}
    <3> HIDE DEF T
    <3> QED  BY <2>0, FS_EmptySet
  <2>2. x \in s
    BY <2>1 DEF First
  <2> HIDE DEF x
  <2>3. Cardinality(s \ {x}) = n
    <3> HIDE DEF T
    <3>1. Cardinality(s \ {x}) = Cardinality(s) - 1
      BY <1>1, <2>2, FS_RemoveElement
    <3> QED  BY <2>0, <3>1
  <2>4. s \ {x} \in P
    BY <2>3
  <2> QED  BY <2>1, <2>4 DEF x
<1> HIDE DEF T
<1>4. T = Nat
  <2>1. T \in SUBSET Nat
    BY DEF T
  <2> QED  BY <1>2, <1>3, <2>1, AllNumbers
<1> QED  BY <1>1, <1>4 DEF T

\* The recursion has a solution: each subset takes the sum of its rest.
LEMMA SumsExist ==
    ASSUME NEW S, IsFiniteSet(S), NEW f \in [S -> Int]
    PROVE  /\ Sums(f, S) = [s \in SUBSET S |->
                IF s = {} THEN 0 ELSE f[First(s)] + Sums(f, S)[s \ {First(s)}]]
           /\ SumOver(f, S) = Sums(f, S)[S]
<1> DEFINE Next1(g, s) == IF s = {} THEN 0 ELSE f[First(s)] + g[s \ {First(s)}]
           Good(g, n) == \A s \in SUBSET S : Cardinality(s) <= n => g[s] = Next1(g, s)
           T == {n \in Nat : \E g \in [SUBSET S -> Int] : Good(g, n)}
<1>1. \A s \in SUBSET S : IsFiniteSet(s) /\ Cardinality(s) \in Nat
  BY FS_Subset, FS_CardinalityType
<1>2. \A s \in SUBSET S : s # {} => First(s) \in s
  BY DEF First
<1>3. \A s \in SUBSET S : s # {} => Cardinality(s \ {First(s)}) = Cardinality(s) - 1
  BY <1>1, <1>2, FS_RemoveElement
<1>4. 0 \in T
  <2> DEFINE g == [s \in SUBSET S |-> 0]
  <2>1. g \in [SUBSET S -> Int] /\ \A s \in SUBSET S : g[s] = 0
    OBVIOUS
  <2>2. \A s \in SUBSET S : Cardinality(s) <= 0 => s = {}
    BY <1>1, FS_EmptySet
  <2> HIDE DEF g
  <2>3. Good(g, 0)
    BY <2>1, <2>2
  <2> QED  BY <2>1, <2>3
<1>5. ASSUME NEW n \in T PROVE n + 1 \in T
  <2>1. PICK g \in [SUBSET S -> Int] : Good(g, n)
    OBVIOUS
  <2> DEFINE h == [s \in SUBSET S |-> Next1(g, s)]
  <2>2. n \in Nat
    OBVIOUS
  <2>3. \A s \in SUBSET S : h[s] = Next1(g, s)
    OBVIOUS
  <2>4. \A s \in SUBSET S : Cardinality(s) <= n => h[s] = g[s]
    BY <2>1, <2>3
  <2>5. h \in [SUBSET S -> Int]
    <3> SUFFICES ASSUME NEW s \in SUBSET S PROVE Next1(g, s) \in Int
      OBVIOUS
    <3> QED  BY <1>2
  <2> HIDE DEF h, T
  <2>6. Good(h, n + 1)
    <3> SUFFICES ASSUME NEW s \in SUBSET S, Cardinality(s) <= n + 1, s # {}
        PROVE  h[s \ {First(s)}] = g[s \ {First(s)}]
      BY <2>3
    <3>1. Cardinality(s \ {First(s)}) <= n
      BY <1>1, <1>3, <2>2
    <3> QED  BY <2>4, <3>1
  <2>7. n + 1 \in Nat
    BY <2>2
  <2> HIDE DEF Good
  <2> QED  BY <2>5, <2>6, <2>7 DEF T
<1>6. PICK g \in [SUBSET S -> Int] : g = [s \in SUBSET S |-> Next1(g, s)]
  <2>1. T = Nat
    <3> HIDE DEF Good
    <3>1. T \in SUBSET Nat
      OBVIOUS
    <3> HIDE DEF T
    <3> QED  BY <1>4, <1>5, <3>1, AllNumbers
  <2>2. Cardinality(S) \in T
    BY <2>1, FS_CardinalityType
  <2>3. PICK g \in [SUBSET S -> Int] : Good(g, Cardinality(S))
    BY <2>2
  <2>4. \A s \in SUBSET S : g[s] = Next1(g, s)
    BY <2>3, FS_Subset
  <2> QED  BY <2>4
<1>7. Sums(f, S) = [s \in SUBSET S |-> Next1(Sums(f, S), s)]
  BY <1>6 DEF Sums
<1>8. SumOver(f, S) = Sums(f, S)[S]
  BY DEF SumOver, MapThenSumSet, MapThenFoldSet, Sums, First
<1> QED  BY <1>7, <1>8

\* The type of a sum, and the sum of nothing.
LEMMA SumType ==
    ASSUME NEW S, IsFiniteSet(S), NEW f \in [S -> Int]
    PROVE  /\ SumOver(f, S) \in Int
           /\ (\A x \in S : f[x] = 0) => SumOver(f, S) = 0
           /\ (\A x \in S : f[x] >= 0) => SumOver(f, S) >= 0
<1> DEFINE sums == Sums(f, S)
           Typed(s) == /\ sums[s] \in Int
                       /\ (\A x \in S : f[x] = 0) => sums[s] = 0
                       /\ (\A x \in S : f[x] >= 0) => sums[s] >= 0
           P == {s \in SUBSET S : Typed(s)}
<1>1. \A s \in SUBSET S : s # {} => First(s) \in s
  BY DEF First
<1>2. sums = [s \in SUBSET S |-> IF s = {} THEN 0 ELSE f[First(s)] + sums[s \ {First(s)}]]
  BY SumsExist
<1>3. SumOver(f, S) = sums[S]
  BY SumsExist
<1> HIDE DEF sums
<1>4. {} \in P
  BY <1>2
<1>5. ASSUME NEW s \in SUBSET S, s # {}, s \ {First(s)} \in P PROVE s \in P
  <2>1. sums[s] = f[First(s)] + sums[s \ {First(s)}] /\ f[First(s)] \in Int /\ First(s) \in S
    BY <1>1, <1>2, <1>5
  <2> QED  BY <1>5, <2>1
<1>6. S \in P
  <2>1. P \in SUBSET SUBSET S
    OBVIOUS
  <2> HIDE DEF P
  <2> QED  BY <1>4, <1>5, <2>1, AllSubsets
<1>7. Typed(S)
  <2> HIDE DEF Typed
  <2> QED  BY <1>6
<1> HIDE DEF P
<1> QED  BY <1>3, <1>7

\* When one value changes the sum changes with it.
LEMMA SumUpdate ==
    ASSUME NEW S, IsFiniteSet(S), NEW f \in [S -> Int], NEW x \in S, NEW v \in Int
    PROVE  SumOver([f EXCEPT ![x] = v], S) = SumOver(f, S) + v - f[x]
<1> DEFINE g == [f EXCEPT ![x] = v]
           F == Sums(f, S)
           G == Sums(g, S)
           P == {s \in SUBSET S : F[s] \in Int /\ G[s] = F[s] + IF x \in s THEN v - f[x] ELSE 0}
<1>1. \A s \in SUBSET S : s # {} => First(s) \in s
  BY DEF First
<1>2. g \in [S -> Int] /\ g[x] = v /\ \A y \in S : y # x => g[y] = f[y]
  OBVIOUS
<1> HIDE DEF g
<1>3. F = [s \in SUBSET S |-> IF s = {} THEN 0 ELSE f[First(s)] + F[s \ {First(s)}]]
  BY SumsExist
<1>4. G = [s \in SUBSET S |-> IF s = {} THEN 0 ELSE g[First(s)] + G[s \ {First(s)}]]
  BY <1>2, SumsExist
<1>5. SumOver(f, S) = F[S] /\ SumOver(g, S) = G[S]
  BY <1>2, SumsExist
<1> HIDE DEF F, G
<1>6. {} \in P
  BY <1>3, <1>4
<1>7. ASSUME NEW s \in SUBSET S, s # {}, s \ {First(s)} \in P PROVE s \in P
  <2>1. First(s) \in s /\ First(s) \in S
    BY <1>1, <1>7
  <2>2. F[s] = f[First(s)] + F[s \ {First(s)}] /\ G[s] = g[First(s)] + G[s \ {First(s)}]
    BY <1>3, <1>4, <1>7
  <2>3. CASE First(s) = x
    BY <1>2, <1>7, <2>1, <2>2, <2>3
  <2>4. CASE First(s) # x
    BY <1>2, <1>7, <2>1, <2>2, <2>4
  <2> QED  BY <2>3, <2>4
<1>8. S \in P
  <2>1. P \in SUBSET SUBSET S
    OBVIOUS
  <2> HIDE DEF P
  <2> QED  BY <1>6, <1>7, <2>1, AllSubsets
<1> QED  BY <1>5, <1>8 DEF g

\* A sum of terms that are c at least is at least c times their number.
LEMMA SumAtLeast ==
    ASSUME NEW S, IsFiniteSet(S), NEW f \in [S -> Int], NEW c \in Nat, \A x \in S : f[x] >= c
    PROVE  SumOver(f, S) >= c * Cardinality(S)
<1> DEFINE sums == Sums(f, S)
           P == {s \in SUBSET S : sums[s] \in Int /\ sums[s] >= c * Cardinality(s)}
<1>1. \A s \in SUBSET S : s # {} => First(s) \in s
  BY DEF First
<1>2. sums = [s \in SUBSET S |-> IF s = {} THEN 0 ELSE f[First(s)] + sums[s \ {First(s)}]]
  BY SumsExist
<1>3. SumOver(f, S) = sums[S]
  BY SumsExist
<1>4. \A s \in SUBSET S : IsFiniteSet(s) /\ Cardinality(s) \in Nat
  BY FS_Subset, FS_CardinalityType
<1> HIDE DEF sums
<1>5. {} \in P
  <2>1. Cardinality({}) = 0
    BY FS_EmptySet
  <2> QED  BY <1>2, <2>1
<1>6. ASSUME NEW s \in SUBSET S, s # {}, s \ {First(s)} \in P PROVE s \in P
  <2> DEFINE n == Cardinality(s)
  <2>1. sums[s] = f[First(s)] + sums[s \ {First(s)}] /\ f[First(s)] \in Int /\ f[First(s)] >= c
    BY <1>1, <1>2, <1>6
  <2>2. n \in Nat /\ Cardinality(s \ {First(s)}) = n - 1
    BY <1>1, <1>4, <1>6, FS_RemoveElement
  <2> HIDE DEF n
  <2>3. c * (n - 1) = c * n - c
    BY <2>2
  <2>4. sums[s \ {First(s)}] \in Int /\ sums[s \ {First(s)}] >= c * n - c
    BY <1>6, <2>2, <2>3
  <2>5. c * n \in Int
    BY <2>2
  <2>6. sums[s] \in Int /\ sums[s] >= c * n
    BY <2>1, <2>4, <2>5
  <2> QED  BY <2>6 DEF n
<1>7. S \in P
  <2>1. P \in SUBSET SUBSET S
    OBVIOUS
  <2> HIDE DEF P
  <2> QED  BY <1>5, <1>6, <2>1, AllSubsets
<1> QED  BY <1>3, <1>7
=============================================================================
