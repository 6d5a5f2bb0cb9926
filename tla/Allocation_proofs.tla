-------------------------- MODULE Allocation_proofs --------------------------
(***************************************************************************)
(* Theorems about Allocation, for every set of pools, all scores, bounds   *)
(* and parameters.                                                         *)
(***************************************************************************)
EXTENDS Allocation, FiniteSetTheorems, WellFoundedInduction, TLAPS

-----------------------------------------------------------------------------
\* Induction over a finite set, and the sums it is needed for

\* A set of numbers with zero and the successor of each of its members has them
\* all.
LEMMA NumbersOneByOne ==
  ASSUME NEW N \in SUBSET Nat, 0 \in N, \A n \in N : n + 1 \in N
  PROVE  N = Nat
<1> SUFFICES ASSUME Nat \ N # {} PROVE FALSE
  OBVIOUS
<1> DEFINE Less == OpToRel(<, Nat)
<1>0. \A m, n \in Nat : m < n => <<m, n>> \in Less
  BY DEF OpToRel
<1>1. PICK n \in Nat \ N : \A m \in Nat \ N : ~(<<m, n>> \in Less)
  <2>1. IsWellFoundedOn(Less, Nat)
    BY NatLessThanWellFounded
  <2> HIDE DEF Less
  <2> QED
    BY <2>1, WFMin
<1> HIDE DEF Less
<1>2. \A m \in Nat \ N : ~(m < n)
  BY <1>0, <1>1
<1>3. n # 0 /\ n - 1 \in Nat /\ n - 1 < n
  OBVIOUS
<1>4. n - 1 \in N
  BY <1>2, <1>3
<1>5. (n - 1) + 1 \in N
  BY <1>4
<1> QED
  BY <1>5

\* Induction over a finite set: a family of its subsets has the whole when it has
\* every subset that it has all predecessors of.
LEMMA SetsOneByOne ==
  ASSUME NEW S, IsFiniteSet(S), NEW G,
         \A T \in SUBSET S : (\A x \in T : T \ {x} \in G) => T \in G
  PROVE  S \in G
<1> DEFINE N == {n \in Nat : \A T \in SUBSET S : Cardinality(T) = n => T \in G}
<1>1. \A T \in SUBSET S : IsFiniteSet(T) /\ Cardinality(T) \in Nat
  BY FS_Subset, FS_CardinalityType
<1>2. 0 \in N
  <2> SUFFICES ASSUME NEW T \in SUBSET S, Cardinality(T) = 0 PROVE T \in G
    OBVIOUS
  <2>1. T = {}
    BY <1>1, FS_EmptySet
  <2> QED
    BY <2>1
<1>3. ASSUME NEW n \in N PROVE n + 1 \in N
  <2> SUFFICES ASSUME NEW T \in SUBSET S, Cardinality(T) = n + 1 PROVE T \in G
    OBVIOUS
  <2>1. ASSUME NEW x \in T PROVE T \ {x} \in G
    <3>1. Cardinality(T \ {x}) = n
      BY <1>1, FS_RemoveElement
    <3> QED
      BY <3>1
  <2> QED
    BY <2>1
<1>4. N = Nat
  <2> HIDE DEF N
  <2>1. N \in SUBSET Nat
    BY DEF N
  <2> QED
    BY <1>2, <1>3, <2>1, NumbersOneByOne
<1> QED
  BY <1>1, <1>4

\* The order in which the library adds up, and the function it does it with.
Pick(S) == CHOOSE x \in S : TRUE
Adds(f, S, g) ==
  g = [s \in SUBSET S |-> IF s = {} THEN 0 ELSE f[Pick(s)] + g[s \ {Pick(s)}]]
AddUp(f, S) == CHOOSE g : Adds(f, S, g)

LEMMA SumIsAddUp ==
  ASSUME NEW f, NEW S
  PROVE  SumFunctionOnSet(f, S) = AddUp(f, S)[S]
BY DEF SumFunctionOnSet, FoldFunctionOnSet, MapThenFoldSet, AddUp, Adds, Pick

LEMMA PickIn == ASSUME NEW S, S # {} PROVE Pick(S) \in S
BY DEF Pick

LEMMA AddsStep ==
  ASSUME NEW f, NEW S, NEW g, Adds(f, S, g), NEW s \in SUBSET S
  PROVE  g[s] = IF s = {} THEN 0 ELSE f[Pick(s)] + g[s \ {Pick(s)}]
<1> DEFINE E(t) == IF t = {} THEN 0 ELSE f[Pick(t)] + g[t \ {Pick(t)}]
<1>1. g = [t \in SUBSET S |-> E(t)]
  BY Zenon DEF Adds
<1>2. g[s] = E(s)
  <2> HIDE DEF E
  <2> QED BY <1>1, Zenon
<1> QED
  BY <1>2

LEMMA AddsOnce ==
  ASSUME NEW f, NEW S, IsFiniteSet(S), NEW R, NEW T, S \subseteq R, S \subseteq T,
         NEW g, NEW h, Adds(f, R, g), Adds(f, T, h)
  PROVE  g[S] = h[S]
<1> DEFINE G == {s \in SUBSET S : g[s] = h[s]}
<1>1. ASSUME NEW s \in SUBSET S, \A x \in s : s \ {x} \in G
      PROVE  s \in G
  <2>1. CASE s = {}
    BY <2>1, AddsStep
  <2>2. CASE s # {}
    <3>1. g[s \ {Pick(s)}] = h[s \ {Pick(s)}]
      BY <1>1, <2>2, PickIn
    <3>2. s \in SUBSET R /\ s \in SUBSET T
      OBVIOUS
    <3>3. g[s] = f[Pick(s)] + g[s \ {Pick(s)}] /\ h[s] = f[Pick(s)] + h[s \ {Pick(s)}]
      BY <2>2, <3>2, AddsStep
    <3> QED
      BY <3>1, <3>3
  <2> QED
    BY <2>1, <2>2
<1>2. S \in G
  <2> HIDE DEF G
  <2> QED BY <1>1, SetsOneByOne
<1> QED
  BY <1>2


\* The function is there, for every finite set.
LEMMA AddsExists ==
  ASSUME NEW f, NEW S, IsFiniteSet(S)
  PROVE  Adds(f, S, AddUp(f, S))
<1> DEFINE Has(s) == \E g : Adds(f, s, g)
           G == {s \in SUBSET S : Has(s)}
<1>0. \A s \in SUBSET S : Has(s) => Adds(f, s, AddUp(f, s))
  BY DEF AddUp
<1>1. \A R \in SUBSET S : IsFiniteSet(R)
  BY FS_Subset
<1>2. ASSUME NEW R \in SUBSET S, \A x \in R : R \ {x} \in G
      PROVE  R \in G
  <2> DEFINE V(s) == AddUp(f, s)[s]
             E(s) == IF s = {} THEN 0 ELSE f[Pick(s)] + V(s \ {Pick(s)})
             h == [s \in SUBSET R |-> E(s)]
             H(s) == IF s = {} THEN 0 ELSE f[Pick(s)] + h[s \ {Pick(s)}]
  <2>1. ASSUME NEW s \in SUBSET R, s # R PROVE E(s) = V(s)
    <3>1. PICK x \in R : x \notin s
      BY <2>1
    <3>2. R \ {x} \in SUBSET S /\ s \in SUBSET (R \ {x})
      BY <2>1, <3>1
    <3>3. PICK g : Adds(f, R \ {x}, g)
      BY <1>2
    <3>a. \A u \in SUBSET (R \ {x}) : g[u] = IF u = {} THEN 0 ELSE f[Pick(u)] + g[u \ {Pick(u)}]
      <4> SUFFICES ASSUME NEW u \in SUBSET (R \ {x})
                   PROVE  g[u] = IF u = {} THEN 0 ELSE f[Pick(u)] + g[u \ {Pick(u)}]
        OBVIOUS
      <4> DEFINE D == R \ {x}
      <4>1. Adds(f, D, g) /\ u \in SUBSET D
        BY <3>3
      <4> HIDE DEF D
      <4> QED
        BY <4>1, AddsStep, Z3
    <3>4. \A t \in SUBSET (R \ {x}) : V(t) = g[t]
      <4> SUFFICES ASSUME NEW t \in SUBSET (R \ {x}) PROVE V(t) = g[t]
        OBVIOUS
      <4>1. Has(t)
        <5> DEFINE k == [u \in SUBSET t |-> g[u]]
                   Ek(u) == IF u = {} THEN 0 ELSE f[Pick(u)] + k[u \ {Pick(u)}]
        <5>1. \A u \in SUBSET t : k[u] = Ek(u)
          <6> SUFFICES ASSUME NEW u \in SUBSET t PROVE g[u] = Ek(u)
            OBVIOUS
          <6>1. u \in SUBSET (R \ {x}) /\ u \ {Pick(u)} \in SUBSET t
            OBVIOUS
          <6>2. k[u \ {Pick(u)}] = g[u \ {Pick(u)}]
            BY <6>1
          <6> HIDE DEF k
          <6> QED
            BY <3>a, <6>1, <6>2
        <5>2. k = [u \in SUBSET t |-> k[u]]
          OBVIOUS
        <5> HIDE DEF k
        <5>3. k = [u \in SUBSET t |-> Ek(u)]
          BY <5>1, <5>2
        <5>4. Adds(f, t, k)
          BY <5>3 DEF Adds
        <5> QED
          BY <5>4
      <4>2. Adds(f, t, AddUp(f, t)) /\ IsFiniteSet(t)
        BY <1>0, <1>1, <4>1
      <4> QED
        BY <3>3, <4>2, AddsOnce
    <3>5. s \ {Pick(s)} \in SUBSET (R \ {x})
      BY <3>2
    <3>6. s # {} => g[s] = f[Pick(s)] + g[s \ {Pick(s)}]
      BY <3>2, <3>a
    <3>7. g[{}] = 0
      BY <3>a
    <3> HIDE DEF V
    <3> QED
      BY <3>2, <3>4, <3>5, <3>6, <3>7
  <2>2. \A s \in SUBSET R : E(s) = H(s)
    <3> SUFFICES ASSUME NEW s \in SUBSET R, s # {} PROVE V(s \ {Pick(s)}) = h[s \ {Pick(s)}]
      OBVIOUS
    <3> DEFINE t == s \ {Pick(s)}
    <3>1. t \in SUBSET R /\ t # R
      BY PickIn
    <3> HIDE DEF t, E, V
    <3>2. h[t] = E(t)
      BY <3>1
    <3> HIDE DEF h
    <3>3. V(t) = h[t]
      BY <2>1, <3>1, <3>2
    <3> QED
      BY <3>3 DEF t
  <2> HIDE DEF E
  <2>3. h = [s \in SUBSET R |-> H(s)]
    <3>1. h = [s \in SUBSET R |-> E(s)]
      OBVIOUS
    <3> HIDE DEF h, H
    <3> QED
      BY <2>2, <3>1
  <2> HIDE DEF h
  <2>4. Adds(f, R, h)
    BY <2>3 DEF Adds
  <2>5. Has(R)
    BY <2>4
  <2> QED
    BY <2>5
<1>3. S \in G
  <2> HIDE DEF G
  <2> QED BY <1>2, SetsOneByOne
<1> QED
  BY <1>0, <1>3

\* The empty sum, and the sum without the member that is picked.
LEMMA SumPicked ==
  ASSUME NEW f, NEW S, IsFiniteSet(S)
  PROVE  /\ S = {} => SumFunctionOnSet(f, S) = 0
         /\ S # {} => SumFunctionOnSet(f, S) = f[Pick(S)] + SumFunctionOnSet(f, S \ {Pick(S)})
<1> DEFINE T == S \ {Pick(S)}
<1>1. IsFiniteSet(T) /\ T \subseteq S
  BY FS_Subset
<1>2. Adds(f, S, AddUp(f, S)) /\ Adds(f, T, AddUp(f, T))
  BY <1>1, AddsExists
<1>3. AddUp(f, S)[T] = AddUp(f, T)[T]
  BY <1>1, <1>2, AddsOnce
<1>4. S \in SUBSET S
  OBVIOUS
<1> HIDE DEF T
<1>5. S # {} => AddUp(f, S)[S] = f[Pick(S)] + AddUp(f, S)[T]
  BY <1>2, <1>4, AddsStep DEF T
<1>6. S = {} => AddUp(f, S)[S] = 0
  BY <1>2, AddsStep
<1> QED
  BY <1>3, <1>5, <1>6, SumIsAddUp DEF T

\* What is added up has whole numbers for its values.
SumsOver(f, S) == IsFiniteSet(S) /\ \A x \in S : f[x] \in Int

LEMMA SumIsInt ==
  ASSUME NEW f, NEW S, SumsOver(f, S)
  PROVE  SumFunctionOnSet(f, S) \in Int
<1> DEFINE G == {T \in SUBSET S : SumFunctionOnSet(f, T) \in Int}
<1>1. ASSUME NEW T \in SUBSET S, \A x \in T : T \ {x} \in G
      PROVE  T \in G
  <2>1. IsFiniteSet(T)
    BY FS_Subset DEF SumsOver
  <2>2. T # {} => f[Pick(T)] \in Int /\ SumFunctionOnSet(f, T \ {Pick(T)}) \in Int
    BY <1>1, PickIn DEF SumsOver
  <2> QED
    BY <2>1, <2>2, SumPicked
<1>2. S \in G
  <2> HIDE DEF G
  <2> QED BY <1>1, SetsOneByOne DEF SumsOver
<1> QED
  BY <1>2

\* The order does not matter: any member may be taken out.
LEMMA SumWithout ==
  ASSUME NEW f, NEW S, SumsOver(f, S), NEW x \in S
  PROVE  SumFunctionOnSet(f, S) = f[x] + SumFunctionOnSet(f, S \ {x})
<1> DEFINE Out(T, y) == SumFunctionOnSet(f, T) = f[y] + SumFunctionOnSet(f, T \ {y})
           G == {T \in SUBSET S : \A y \in T : Out(T, y)}
<1>1. ASSUME NEW T \in SUBSET S, \A y \in T : T \ {y} \in G
      PROVE  T \in G
  <2> SUFFICES ASSUME NEW y \in T PROVE Out(T, y)
    OBVIOUS
  <2> DEFINE p == Pick(T)
  <2>1. p \in T /\ f[p] \in Int /\ f[y] \in Int
    BY PickIn DEF SumsOver
  <2>2. IsFiniteSet(T) /\ \A R \in SUBSET T : SumFunctionOnSet(f, R) \in Int
    <3>1. \A R \in SUBSET S : SumsOver(f, R)
      BY FS_Subset DEF SumsOver
    <3> QED
      BY <3>1, SumIsInt DEF SumsOver
  <2>3. Out(T, p)
    BY <2>2, SumPicked
  <2> HIDE DEF p
  <2>4. CASE y = p
    BY <2>3, <2>4
  <2>5. CASE y # p
    <3>1. Out(T \ {p}, y) /\ Out(T \ {y}, p)
      BY <1>1, <2>1, <2>5
    <3> DEFINE rest == SumFunctionOnSet(f, (T \ {p}) \ {y})
    <3>2. (T \ {p}) \ {y} = (T \ {y}) \ {p}
      OBVIOUS
    <3>3. rest \in Int
      BY <2>2
    <3>4. SumFunctionOnSet(f, T \ {p}) = f[y] + rest /\ SumFunctionOnSet(f, T \ {y}) = f[p] + rest
      BY <3>1, <3>2
    <3> HIDE DEF rest
    <3>5. SumFunctionOnSet(f, T) = f[p] + (f[y] + rest)
      BY <2>3, <3>4
    <3>6. f[p] + (f[y] + rest) = f[y] + (f[p] + rest)
      BY <2>1, <3>3
    <3> QED
      BY <3>4, <3>5, <3>6
  <2> QED
    BY <2>4, <2>5
<1>2. S \in G
  <2> HIDE DEF G
  <2> QED BY <1>1, SetsOneByOne DEF SumsOver
<1> QED
  BY <1>2

LEMMA SumOfNone == ASSUME NEW f PROVE SumFunctionOnSet(f, {}) = 0
BY SumPicked, FS_EmptySet

\* A sum of what is not negative is not negative.
LEMMA SumIsNat ==
  ASSUME NEW f, NEW S, SumsOver(f, S), \A x \in S : f[x] >= 0
  PROVE  SumFunctionOnSet(f, S) \in Nat
<1> DEFINE G == {T \in SUBSET S : SumFunctionOnSet(f, T) \in Nat}
<1>1. ASSUME NEW T \in SUBSET S, \A x \in T : T \ {x} \in G
      PROVE  T \in G
  <2>1. SumsOver(f, T)
    BY FS_Subset DEF SumsOver
  <2>2. ASSUME NEW x \in T PROVE SumFunctionOnSet(f, T) \in Nat
    <3>1. f[x] \in Nat /\ SumFunctionOnSet(f, T \ {x}) \in Nat
      BY <1>1 DEF SumsOver
    <3> QED
      BY <2>1, <3>1, SumWithout
  <2> QED
    BY <2>2, SumOfNone
<1>2. S \in G
  <2> HIDE DEF G
  <2> QED BY <1>1, SetsOneByOne DEF SumsOver
<1> QED
  BY <1>2

\* A sum of multiples is the multiple of the sum.
LEMMA SumOfMultiples ==
  ASSUME NEW f, NEW h, NEW S, SumsOver(f, S), NEW k \in Int, \A x \in S : h[x] = f[x] * k
  PROVE  SumFunctionOnSet(h, S) = SumFunctionOnSet(f, S) * k
<1> DEFINE G == {T \in SUBSET S : SumFunctionOnSet(h, T) = SumFunctionOnSet(f, T) * k}
<1>1. ASSUME NEW T \in SUBSET S, \A x \in T : T \ {x} \in G
      PROVE  T \in G
  <2>1. SumsOver(f, T) /\ SumsOver(h, T)
    BY FS_Subset DEF SumsOver
  <2>2. ASSUME NEW x \in T
        PROVE  SumFunctionOnSet(h, T) = SumFunctionOnSet(f, T) * k
    <3> DEFINE a == f[x]
               b == SumFunctionOnSet(f, T \ {x})
    <3>1. SumsOver(f, T \ {x})
      BY <2>1, FS_Subset DEF SumsOver
    <3>2. a \in Int /\ b \in Int
      BY <2>1, <3>1, SumIsInt DEF SumsOver
    <3>3. SumFunctionOnSet(h, T) = a * k + b * k
      <4>1. SumFunctionOnSet(h, T \ {x}) = b * k /\ h[x] = a * k
        BY <1>1
      <4> QED
        BY <2>1, <4>1, SumWithout
    <3>4. SumFunctionOnSet(f, T) = a + b
      BY <2>1, SumWithout
    <3> HIDE DEF a, b
    <3>5. a * k + b * k = (a + b) * k
      BY <3>2
    <3> QED
      BY <3>3, <3>4, <3>5
  <2> QED
    BY <2>2, SumOfNone
<1>2. S \in G
  <2> HIDE DEF G
  <2> QED BY <1>1, SetsOneByOne DEF SumsOver
<1> QED
  BY <1>2

\* A sum of equal terms is their product.
LEMMA SumOfEquals ==
  ASSUME NEW h, NEW S, IsFiniteSet(S), NEW k \in Int, \A x \in S : h[x] = k
  PROVE  SumFunctionOnSet(h, S) = k * Cardinality(S)
<1> DEFINE G == {T \in SUBSET S : SumFunctionOnSet(h, T) = k * Cardinality(T)}
<1>1. ASSUME NEW T \in SUBSET S, \A x \in T : T \ {x} \in G
      PROVE  T \in G
  <2>1. SumsOver(h, T) /\ IsFiniteSet(T) /\ Cardinality(T) \in Nat
    BY FS_Subset, FS_CardinalityType DEF SumsOver
  <2>2. ASSUME NEW x \in T
        PROVE  SumFunctionOnSet(h, T) = k * Cardinality(T)
    <3>1. Cardinality(T \ {x}) = Cardinality(T) - 1
      BY <2>1, FS_RemoveElement
    <3>2. SumFunctionOnSet(h, T) = k + k * (Cardinality(T) - 1)
      BY <1>1, <2>1, <3>1, SumWithout
    <3>3. k + k * (Cardinality(T) - 1) = k * Cardinality(T)
      BY <2>1
    <3> QED
      BY <3>2, <3>3
  <2> QED
    BY <2>2, SumOfNone, FS_EmptySet
<1>2. S \in G
  <2> HIDE DEF G
  <2> QED BY <1>1, SetsOneByOne
<1> QED
  BY <1>2

\* Sums of sets that have nothing in common add up.
LEMMA SumOfUnion ==
  ASSUME NEW f, NEW R, NEW S, SumsOver(f, R), SumsOver(f, S), R \intersect S = {}
  PROVE  SumFunctionOnSet(f, R \union S) = SumFunctionOnSet(f, R) + SumFunctionOnSet(f, S)
<1> DEFINE G == {T \in SUBSET S :
                   SumFunctionOnSet(f, R \union T) = SumFunctionOnSet(f, R) + SumFunctionOnSet(f, T)}
<1>0. SumFunctionOnSet(f, R) \in Int
  BY SumIsInt
<1>1. ASSUME NEW T \in SUBSET S, \A x \in T : T \ {x} \in G
      PROVE  T \in G
  <2>1. SumsOver(f, T) /\ SumsOver(f, R \union T)
    BY FS_Subset, FS_Union DEF SumsOver
  <2>2. ASSUME NEW x \in T
        PROVE  T \in G
    <3>1. (R \union T) \ {x} = R \union (T \ {x})
      BY <2>2
    <3>2. SumsOver(f, T \ {x})
      BY <2>1, FS_Subset DEF SumsOver
    <3>3. f[x] \in Int /\ SumFunctionOnSet(f, T \ {x}) \in Int
      BY <2>1, <3>2, SumIsInt DEF SumsOver
    <3>4. SumFunctionOnSet(f, R \union T)
            = f[x] + (SumFunctionOnSet(f, R) + SumFunctionOnSet(f, T \ {x}))
      <4>1. SumFunctionOnSet(f, R \union (T \ {x}))
              = SumFunctionOnSet(f, R) + SumFunctionOnSet(f, T \ {x})
        BY <1>1
      <4>2. x \in R \union T
        OBVIOUS
      <4>3. SumFunctionOnSet(f, R \union T) = f[x] + SumFunctionOnSet(f, (R \union T) \ {x})
        BY <2>1, <4>2, SumWithout
      <4> QED
        BY <3>1, <4>1, <4>3
    <3>5. SumFunctionOnSet(f, T) = f[x] + SumFunctionOnSet(f, T \ {x})
      BY <2>1, SumWithout
    <3> QED
      BY <1>0, <3>3, <3>4, <3>5
  <2>3. CASE T = {}
    BY <1>0, <2>3, SumOfNone
  <2> QED
    BY <2>2, <2>3
<1>2. S \in G
  <2> HIDE DEF G
  <2> QED BY <1>1, SetsOneByOne DEF SumsOver
<1> QED
  BY <1>2

-----------------------------------------------------------------------------
\* The inductive invariant

\* The arguments are numbers, whether they are those of Inputs or come with
\* scores computed later.
ArgumentsInv ==
  /\ IsFiniteSet(Scored) /\ \A p \in Scored : input.score[p] \in Int
  /\ input.maxPools \in Int /\ input.minAlloc \in Int /\ input.maxAlloc \in Int
  /\ input.elysMin \in 0..Parts

\* Nothing is locked before the iterations, and they begin only with parameters
\* that have been found valid.
StageInv ==
  /\ pc = "select" => selected = {} /\ elys = NoPool
  /\ pc \in {"select", "validate"} => low = {} /\ high = {} /\ iteration = 0
  /\ pc \in {"enforce", "done", "sum", "bounds", "exhausted"} =>
       ValidParameters /\ PositiveScores

\* Every iteration has locked a pool.
ProgressInv == iteration <= Cardinality(low \union high)

\* Among the pools with the same minimum, those locked at it are the worst and
\* those locked at the maximum the best; none is both.
LockedInv ==
  /\ low \intersect high = {}
  /\ \A p, q \in selected \ {elys} :
       input.score[p] >= input.score[q] =>
         /\ p \in low => q \in low
         /\ q \in high => p \in high

\* The last iteration has found no pool out of bounds.
SettledInv ==
  /\ pc \in {"done", "sum", "bounds"} =>
       Remaining >= 0 /\ \A p \in Unlocked : ~Below(p) /\ ~Above(p)
  /\ pc = "sum" => ~SumsToOne
  /\ pc = "bounds" => ~WithinBounds
  /\ pc = "exhausted" => iteration = MaxIterations

AllocationInv ==
  /\ ArgumentsInv
  /\ TypeOK /\ StageInv /\ ProgressInv /\ LockedInv /\ SettledInv
  /\ BestSelected

\* What is computed from the state has a number for its value.
LEMMA Numbers ==
  ASSUME ArgumentsInv, TypeOK
  PROVE  /\ IsFiniteSet(Scored)
         /\ IsFiniteSet(selected) /\ Cardinality(selected) \in Nat
         /\ IsFiniteSet(low \union high) /\ Cardinality(low \union high) \in Nat
         /\ Cardinality(low \union high) <= Cardinality(selected)
         /\ \A p \in selected : input.score[p] \in Int
         /\ \A p : Floor(p) \in Int
         /\ input.minAlloc \in Int /\ input.maxAlloc \in Int /\ input.maxPools \in Int
         /\ Remaining \in Int
<1>1. /\ \A p \in Scored : input.score[p] \in Int
      /\ input.maxPools \in Int /\ input.minAlloc \in Int /\ input.maxAlloc \in Int
      /\ input.elysMin \in Int /\ Parts \in Int
  BY AllocationAssumption DEF ArgumentsInv
<1>2. IsFiniteSet(Scored)
  BY DEF ArgumentsInv
<1>3. /\ selected \subseteq Scored /\ low \union high \subseteq selected
      /\ low \ {elys} \subseteq selected /\ high \subseteq selected
  BY DEF TypeOK, Scored
<1>4. IsFiniteSet(selected) /\ Cardinality(selected) \in Nat
  BY <1>2, <1>3, FS_Subset, FS_CardinalityType
<1>5. /\ IsFiniteSet(low \union high) /\ Cardinality(low \union high) \in Nat
      /\ Cardinality(low \union high) <= Cardinality(selected)
  BY <1>3, <1>4, FS_Subset, FS_CardinalityType
<1>6. Cardinality(low \ {elys}) \in Nat /\ Cardinality(high) \in Nat
  BY <1>3, <1>4, FS_Subset, FS_CardinalityType
<1>7. input.minAlloc * Cardinality(low \ {elys}) \in Int
  BY <1>1, <1>6
<1>8. Floors(low) \in Int
  BY <1>1, <1>7 DEF Floors
<1>9. input.maxAlloc * Cardinality(high) \in Int
  BY <1>1, <1>6
<1>10. Remaining \in Int
  BY <1>1, <1>8, <1>9 DEF Remaining
<1> QED
  BY <1>1, <1>2, <1>3, <1>4, <1>5, <1>10 DEF Floor

\* The total of the unlocked scores, and the products with it.
LEMMA Totals ==
  ASSUME ArgumentsInv, TypeOK, PositiveScores
  PROVE  /\ Total \in Nat /\ Unit \in Nat
         /\ \A p \in selected : input.score[p] * Remaining \in Int
         /\ \A p : Floor(p) * Total \in Int /\ Floor(p) * Unit \in Int
         /\ input.maxAlloc * Total \in Int /\ input.maxAlloc * Unit \in Int
<1>1. SumsOver(input.score, Unlocked) /\ \A p \in Unlocked : input.score[p] >= 0
  <2>1. Unlocked \subseteq selected
    BY DEF Unlocked
  <2> QED
    BY <2>1, Numbers, FS_Subset DEF SumsOver, PositiveScores
<1>2. Total \in Nat
  BY <1>1, SumIsNat DEF Total
<1>3. Unit \in Nat
  BY <1>2 DEF Unit
<1>4. \A p : Floor(p) * Total \in Int /\ Floor(p) * Unit \in Int
  BY <1>2, <1>3, Numbers
<1> QED
  BY <1>2, <1>3, <1>4, Numbers

LEMMA AllocationIsNumber ==
  ASSUME ArgumentsInv, TypeOK, PositiveScores, NEW p \in selected
  PROVE  Allocation(p) \in Int
BY Totals DEF Allocation

\* A better pool is out of bounds above if a worse one is, and a worse one below
\* if a better one is.
LEMMA OutOfBoundsByScore ==
  ASSUME ArgumentsInv, TypeOK, PositiveScores, Remaining >= 0,
         NEW p \in selected \ {elys}, NEW q \in selected \ {elys},
         input.score[p] >= input.score[q]
  PROVE  /\ input.score[p] * Remaining >= input.score[q] * Remaining
         /\ Below(p) => Below(q)
         /\ Above(q) => Above(p)
<1>1. input.score[p] \in Int /\ input.score[q] \in Int /\ Remaining \in Nat
  BY Numbers
<1>2. input.score[p] * Remaining >= input.score[q] * Remaining
  BY <1>1
<1>3. Floor(p) = Floor(q)
  BY DEF Floor
<1>4. /\ input.score[p] * Remaining \in Int /\ input.score[q] * Remaining \in Int
      /\ Floor(p) * Total \in Int /\ input.maxAlloc * Total \in Int
  BY Totals
<1> QED
  BY <1>2, <1>3, <1>4 DEF Below, Above

LEMMA AllocationInvInit == Init => AllocationInv
<1> SUFFICES ASSUME Init PROVE AllocationInv
  OBVIOUS
<1> USE DEF Init
<1>0. ArgumentsInv
  <2>1. DOMAIN input.score \subseteq Pools /\ IsFiniteSet(Pools)
    BY AllocationAssumption
  <2>2. IsFiniteSet(Scored)
    BY <2>1, FS_Subset DEF Scored
  <2> QED
    BY <2>2, AllocationAssumption DEF ArgumentsInv, Scored
<1>1. TypeOK
  BY AllocationAssumption DEF TypeOK
<1>2. StageInv /\ LockedInv /\ SettledInv /\ BestSelected
  BY DEF StageInv, LockedInv, SettledInv, BestSelected
<1>3. ProgressInv
  BY FS_EmptySet DEF ProgressInv
<1> QED
  BY <1>0, <1>1, <1>2, <1>3 DEF AllocationInv

\* The arguments stay.
LEMMA SameArguments == ASSUME ArgumentsInv, input' = input PROVE ArgumentsInv'
BY DEF ArgumentsInv, Scored

\* The selection: a set of the best pools, or with its last one replaced.
LEMMA SelectKeepsInv ==
  ASSUME AllocationInv, RefuseSelection \/ Select
  PROVE  AllocationInv'
<1> USE DEF AllocationInv
<1>1. CASE RefuseSelection
  <2> USE <1>1 DEF RefuseSelection
  <2>1. TypeOK' /\ StageInv' /\ ProgressInv' /\ LockedInv' /\ SettledInv'
    BY DEF TypeOK, Errors, StageInv, ProgressInv, LockedInv, SettledInv
  <2> QED
    BY <2>1, SameArguments DEF BestSelected
<1>2. CASE Select
  <2>1. /\ pc = "select" /\ pc' = "validate"
        /\ UNCHANGED <<input, low, high, iteration>>
        /\ low = {} /\ high = {}
    BY <1>2 DEF Select, StageInv
  <2>2. PICK top \in TopPools :
          \/ /\ ElysPools \intersect Scored = {}
             /\ elys' = NoPool /\ selected' = top
          \/ \E e \in Best(ElysPools \intersect Scored) :
               /\ elys' = e
               /\ \/ e \in top /\ selected' = top
                  \/ /\ e \notin top
                     /\ \E lowest \in Replaced(top) :
                          selected' = (top \ {lowest}) \union {e}
    BY <1>2 DEF Select
  <2>3. /\ top \subseteq Scored
        /\ Cardinality(top) = Min({input.maxPools, Cardinality(Scored)})
        /\ \A p \in top, q \in Scored \ top : input.score[p] >= input.score[q]
    BY DEF TopPools
  <2>4. IsFiniteSet(top) /\ Cardinality(top) \in Nat
    BY <2>3, Numbers, FS_Subset, FS_CardinalityType
  <2>5. Scored' = Scored /\ Best(ElysPools \intersect Scored)' = Best(ElysPools \intersect Scored)
    BY <2>1 DEF Scored, Best
  <2> DEFINE Chosen ==
        /\ selected' \subseteq Scored
        /\ Cardinality(selected') = Cardinality(top)
        /\ elys' \in ElysPools \union {NoPool}
        /\ ElysPools \intersect Scored # {} =>
             elys' \in selected' \intersect Best(ElysPools \intersect Scored)
        /\ \A p \in selected' \ {elys'}, q \in Scored \ selected' :
             input.score[p] >= input.score[q]
  <2>6. Chosen
    <3>1. CASE ElysPools \intersect Scored = {} /\ elys' = NoPool /\ selected' = top
      BY <2>3, <3>1
    <3>2. ASSUME NEW e \in Best(ElysPools \intersect Scored),
                 elys' = e, e \in top, selected' = top
          PROVE  Chosen
      BY <2>3, <3>2 DEF Best
    <3>3. ASSUME NEW e \in Best(ElysPools \intersect Scored),
                 elys' = e, e \notin top, NEW lowest \in Replaced(top),
                 selected' = (top \ {lowest}) \union {e}
          PROVE  Chosen
      <4>1. /\ lowest \in top /\ e \in ElysPools /\ e \in Scored
            /\ \A p \in top : input.score[p] >= input.score[lowest]
        BY DEF Replaced, Worst, Best
      <4>2. IsFiniteSet(top \ {lowest}) /\ Cardinality(top \ {lowest}) = Cardinality(top) - 1
        BY <2>4, <4>1, FS_RemoveElement
      <4>3. Cardinality(selected') = Cardinality(top)
        <5>1. Cardinality((top \ {lowest}) \union {e}) = Cardinality(top \ {lowest}) + 1
          BY <3>3, <4>2, FS_AddElement
        <5> QED
          BY <2>4, <3>3, <4>2, <5>1
      <4> QED
        BY <2>3, <3>3, <4>1, <4>3
    <3> QED
      BY <2>2, <3>1, <3>2, <3>3
  <2>7. TypeOK'
    BY <2>1, <2>6 DEF TypeOK, Scored
  <2>8. BestSelected'
    BY <2>1, <2>3, <2>5, <2>6 DEF BestSelected
  <2>9. StageInv' /\ ProgressInv' /\ LockedInv' /\ SettledInv'
    BY <2>1 DEF StageInv, ProgressInv, LockedInv, SettledInv
  <2> QED
    BY <2>1, <2>7, <2>8, <2>9, SameArguments
<1> QED
  BY <1>1, <1>2

\* The steps that change only where the calls stand.
LEMMA ReturnKeepsInv ==
  ASSUME AllocationInv, Validate \/ OverAllocated \/ Exhausted \/ Assign
  PROVE  AllocationInv'
<1> USE DEF AllocationInv
<1>1. /\ UNCHANGED <<input, selected, elys, low, high, iteration>>
      /\ pc \in {"validate", "enforce"}
  BY DEF Validate, OverAllocated, Exhausted, Assign, Iterate
<1>2. TypeOK'
  BY <1>1 DEF Validate, OverAllocated, Exhausted, Assign, TypeOK, Errors
<1>3. StageInv'
  BY <1>1
  DEF Validate, OverAllocated, Exhausted, Assign, StageInv, ValidParameters,
      PositiveScores, Floors, Iterate
<1>4. ProgressInv' /\ LockedInv'
  BY <1>1 DEF ProgressInv, LockedInv
<1>5. SettledInv'
  <2>1. /\ Remaining' = Remaining /\ Unlocked' = Unlocked
        /\ WithinBounds' = WithinBounds /\ SumsToOne' = SumsToOne
        /\ \A p : Below(p)' = Below(p) /\ Above(p)' = Above(p)
    BY <1>1
    DEF Remaining, Unlocked, WithinBounds, SumsToOne, Allocated, Below, Above, Floors, Floor,
        Total, Unit, Allocation
  <2> QED
    BY <1>1, <2>1 DEF Validate, OverAllocated, Exhausted, Assign, SettledInv
<1>6. BestSelected'
  BY <1>1 DEF BestSelected, Scored, Best
<1> QED
  BY <1>1, <1>2, <1>3, <1>4, <1>5, <1>6, SameArguments

LEMMA LockKeepsInv ==
  ASSUME AllocationInv, LockPools
  PROVE  AllocationInv'
<1> USE DEF AllocationInv
<1>1. /\ pc = "enforce" /\ iteration < MaxIterations /\ Remaining >= 0
      /\ \E p \in Unlocked : Below(p) \/ Above(p)
      /\ low' = low \union {p \in Unlocked : Below(p)}
      /\ high' = high \union {p \in Unlocked : Above(p)}
      /\ iteration' = iteration + 1
      /\ UNCHANGED <<input, pc, selected, elys>>
  BY DEF LockPools, Iterate
<1>2. PositiveScores
  BY <1>1 DEF StageInv
<1>3. Unlocked = selected \ (low \union high)
  BY DEF Unlocked
<1>4. TypeOK'
  <2>1. MaxIterations \in Nat
    BY AllocationAssumption
  <2> QED
    BY <1>1, <1>3, <2>1 DEF TypeOK
<1>5. StageInv'
  BY <1>1 DEF StageInv, ValidParameters, PositiveScores, Floors
<1>6. ProgressInv'
  <2>1. PICK p \in Unlocked : Below(p) \/ Above(p)
    BY <1>1
  <2>2. /\ p \notin low \union high /\ p \in (low \union high)'
        /\ low \union high \subseteq (low \union high)'
    BY <1>1, <1>3, <2>1
  <2>3. /\ IsFiniteSet(low \union high) /\ Cardinality(low \union high) \in Nat
        /\ IsFiniteSet((low \union high)') /\ Cardinality((low \union high)') \in Nat
    <3>1. (low \union high)' \subseteq selected
      BY <1>1, <1>3 DEF TypeOK
    <3> QED
      BY <3>1, Numbers, FS_Subset, FS_CardinalityType
  <2>4. /\ Cardinality(low \union high) <= Cardinality((low \union high)')
        /\ Cardinality(low \union high) # Cardinality((low \union high)')
    <3>1. low \union high \in SUBSET (low \union high)'
      BY <2>2
    <3>2. (low \union high)' # low \union high
      BY <2>2
    <3> QED
      BY <2>3, <3>1, <3>2, FS_Subset
  <2>5. iteration \in Nat
    BY DEF TypeOK
  <2> QED
    BY <1>1, <2>3, <2>4, <2>5 DEF ProgressInv
<1>7. LockedInv'
  <2>1. low' \intersect high' = {}
    BY <1>1, <1>3 DEF LockedInv, Above
  <2>2. ASSUME NEW p \in selected \ {elys}, NEW q \in selected \ {elys},
               input.score[p] >= input.score[q]
        PROVE  /\ p \in low' => q \in low'
               /\ q \in high' => p \in high'
    <3>1. /\ Below(p) => Below(q)
          /\ Above(q) => Above(p)
      BY <1>1, <1>2, <2>2, OutOfBoundsByScore
    <3>2. /\ p \in low => q \in low
          /\ q \in high => p \in high
      BY <2>2 DEF LockedInv
    <3> QED
      BY <1>1, <1>3, <3>1, <3>2
  <2> QED
    BY <1>1, <2>1, <2>2 DEF LockedInv
<1>8. SettledInv'
  BY <1>1 DEF SettledInv
<1>9. BestSelected'
  BY <1>1 DEF BestSelected, Scored, Best
<1> QED
  BY <1>1, <1>4, <1>5, <1>6, <1>7, <1>8, <1>9, SameArguments

LEMMA AllocationInvNext == AllocationInv /\ [Next]_vars => AllocationInv'
<1> SUFFICES ASSUME AllocationInv, [Next]_vars PROVE AllocationInv'
  OBVIOUS
<1>1. CASE UNCHANGED vars
  <2> USE <1>1 DEF vars, AllocationInv
  <2>1. TypeOK' /\ StageInv' /\ ProgressInv' /\ LockedInv' /\ ArgumentsInv'
    BY SameArguments
    DEF TypeOK, StageInv, ProgressInv, LockedInv, ValidParameters, PositiveScores, Floors
  <2>2. SettledInv'
    BY DEF SettledInv, Remaining, Unlocked, WithinBounds, SumsToOne, Allocated, Below, Above,
           Floors, Floor, Total, Unit, Allocation
  <2>3. BestSelected'
    BY DEF BestSelected, Scored, Best
  <2> QED
    BY <2>1, <2>2, <2>3
<1> QED
  BY <1>1, SelectKeepsInv, ReturnKeepsInv, LockKeepsInv DEF Next, Step, Returned

THEOREM AllocationInvAlways == Spec => []AllocationInv
BY AllocationInvInit, AllocationInvNext, PTL DEF Spec

-----------------------------------------------------------------------------
\* What follows from it

\* Only pools that are selected are locked, and the iterations stay within their
\* bound (SelectTopPools.go:266-346).
THEOREM AllocationTypeCorrect == Spec => []TypeOK
<1>1. AllocationInv => TypeOK
  BY DEF AllocationInv
<1> QED
  BY <1>1, AllocationInvAlways, PTL

\* The selection is one of the best pools, with the best ELYS pool in it
\* (SelectTopPools.go:88-130).
THEOREM SelectionIsBest == Spec => []BestSelected
<1>1. AllocationInv => BestSelected
  BY DEF AllocationInv
<1> QED
  BY <1>1, AllocationInvAlways, PTL

\* By score pools get what the order of the scores says; the locked ones get no
\* more than the minimum at the lower end, and the maximum at the upper.
LEMMA OrderFromInv == AllocationInv => OrderKept
<1> SUFFICES ASSUME AllocationInv, pc = "done",
                    NEW p \in selected \ {elys}, NEW q \in selected \ {elys},
                    input.score[p] >= input.score[q]
             PROVE  Allocation(p) >= Allocation(q)
  BY DEF OrderKept
<1> USE DEF AllocationInv
<1>1. /\ PositiveScores /\ Remaining >= 0
      /\ \A r \in Unlocked : ~Below(r) /\ ~Above(r)
      /\ input.minAlloc <= input.maxAlloc
  BY DEF StageInv, SettledInv, ValidParameters
<1>2. /\ p \in low => q \in low
      /\ q \in high => p \in high
      /\ low \intersect high = {}
  BY DEF LockedInv
<1>3. /\ Unit \in Nat /\ input.minAlloc \in Int /\ input.maxAlloc \in Int
      /\ Floor(p) = input.minAlloc /\ Floor(q) = input.minAlloc
  BY <1>1, Numbers, Totals DEF Floor
<1>4. input.minAlloc * Unit <= input.maxAlloc * Unit
  BY <1>1, <1>3
<1>5. /\ input.minAlloc * Unit \in Int /\ input.maxAlloc * Unit \in Int
      /\ input.score[p] * Remaining \in Int /\ input.score[q] * Remaining \in Int
  BY <1>1, <1>3, Totals
<1>6. ASSUME NEW r \in selected \ {elys}, r \notin low \union high
      PROVE  /\ Unit = Total
             /\ input.minAlloc * Unit <= input.score[r] * Remaining
             /\ input.score[r] * Remaining <= input.maxAlloc * Unit
  <2>1. r \in Unlocked /\ Unit = Total /\ Floor(r) = input.minAlloc
    BY <1>6 DEF Unlocked, Unit, Floor
  <2>2. input.score[r] * Remaining \in Int
    BY <1>1, Totals
  <2> QED
    BY <1>1, <1>5, <2>1, <2>2 DEF Below, Above
<1>7. CASE p \in low
  BY <1>2, <1>3, <1>5, <1>7 DEF Allocation
<1>8. CASE p \in high
  BY <1>2, <1>3, <1>4, <1>5, <1>6, <1>8 DEF Allocation
<1>9. CASE p \notin low \union high
  <2>1. input.score[p] * Remaining >= input.score[q] * Remaining
    BY <1>1, OutOfBoundsByScore
  <2> QED
    BY <1>2, <1>3, <1>5, <1>6, <1>9, <2>1 DEF Allocation
<1> QED
  BY <1>7, <1>8, <1>9

\* A better pool never gets less than a worse one
\* (SelectTopPools.go:269-346).
THEOREM OrderIsKept == Spec => []OrderKept
BY OrderFromInv, AllocationInvAlways, PTL

\* A pool that is not locked is within its bounds, and a locked one is when its
\* minimum is no more than the maximum.
LEMMA BoundsFromInv == AllocationInv => BoundsKept
<1> SUFFICES ASSUME AllocationInv, pc = "bounds",
                    ~(elys \in selected /\ input.elysMin > input.maxAlloc)
             PROVE  WithinBounds
  BY DEF BoundsKept, AllocationInv, SettledInv
<1> USE DEF AllocationInv
<1>1. /\ PositiveScores
      /\ \A r \in Unlocked : ~Below(r) /\ ~Above(r)
      /\ input.minAlloc <= input.maxAlloc
  BY DEF StageInv, SettledInv, ValidParameters
<1> SUFFICES ASSUME NEW p \in selected
             PROVE  /\ Floor(p) * Unit <= Allocation(p)
                    /\ Allocation(p) <= input.maxAlloc * Unit
  BY DEF WithinBounds
<1>2. Floor(p) \in Int /\ input.maxAlloc \in Int /\ input.elysMin \in Int /\ Unit \in Nat
  BY <1>1, Numbers, Totals DEF ArgumentsInv
<1>3. Floor(p) <= input.maxAlloc
  BY <1>1, <1>2 DEF Floor
<1>4. /\ Floor(p) * Unit <= input.maxAlloc * Unit
      /\ Floor(p) * Unit \in Int /\ input.maxAlloc * Unit \in Int
  BY <1>2, <1>3
<1>5. CASE p \in low \union high
  BY <1>4, <1>5 DEF Allocation
<1>6. CASE p \notin low \union high
  <2>1. p \in Unlocked /\ Unit = Total
    BY <1>6 DEF Unlocked, Unit
  <2>2. input.score[p] * Remaining \in Int
    BY <1>1, Totals
  <2> QED
    BY <1>1, <1>4, <1>6, <2>1, <2>2 DEF Allocation, Below, Above
<1> QED
  BY <1>5, <1>6

\* The iterations leave every pool within its bounds unless the forced minimum
\* contradicts the maximum (SelectTopPools.go:319-339, 384-394).
THEOREM BoundsAreKept == Spec => []BoundsKept
BY BoundsFromInv, AllocationInvAlways, PTL

\* As many pools are locked as there have been iterations.
LEMMA IterationsFromInv == AllocationInv => IterationsSuffice
<1> SUFFICES ASSUME AllocationInv, pc = "exhausted"
             PROVE  Cardinality(selected) >= MaxIterations
  BY DEF IterationsSuffice
<1>1. iteration = MaxIterations /\ iteration <= Cardinality(low \union high)
  BY DEF AllocationInv, SettledInv, ProgressInv
<1>2. /\ Cardinality(low \union high) \in Nat /\ Cardinality(selected) \in Nat
      /\ Cardinality(low \union high) <= Cardinality(selected)
  BY Numbers DEF AllocationInv
<1>3. MaxIterations \in Nat
  BY AllocationAssumption
<1> QED
  BY <1>1, <1>2, <1>3

\* Twenty iterations are enough for up to nineteen pools: each but the last
\* locks one (SelectTopPools.go:24, 266-350).
THEOREM IterationsAreEnough == Spec => []IterationsSuffice
BY IterationsFromInv, AllocationInvAlways, PTL

\* What the locked pools get, in parts of a part.
LEMMA LockedSum ==
  ASSUME AllocationInv, PositiveScores
  PROVE  /\ SumsOver(Allocated, low) /\ SumsOver(Allocated, high)
         /\ SumFunctionOnSet(Allocated, low) = Floors(low) * Unit
         /\ SumFunctionOnSet(Allocated, high) = input.maxAlloc * Cardinality(high) * Unit
<1> USE DEF AllocationInv
<1> DEFINE plain == low \ {elys}
           forced == low \intersect {elys}
           floor == input.minAlloc
           m == IF elys \in low THEN input.elysMin ELSE 0
           u == Unit
<1>1. /\ u \in Nat /\ floor \in Int /\ input.maxAlloc \in Int /\ input.elysMin \in Int
      /\ floor * u \in Int /\ input.maxAlloc * u \in Int /\ input.elysMin * u \in Int
  <2>1. /\ u \in Nat /\ floor \in Int /\ input.maxAlloc \in Int /\ input.elysMin \in Int
    BY Numbers, Totals DEF ArgumentsInv
  <2> HIDE DEF u, floor
  <2> QED
    BY <2>1
<1>2. /\ IsFiniteSet(plain) /\ Cardinality(plain) \in Nat
      /\ IsFiniteSet(high) /\ Cardinality(high) \in Nat
      /\ IsFiniteSet(low) /\ IsFiniteSet(forced)
  <2>1. IsFiniteSet(selected) /\ low \subseteq selected /\ high \subseteq selected
    BY Numbers DEF TypeOK
  <2> QED
    BY <2>1, FS_Subset, FS_CardinalityType
<1>3. /\ \A p \in plain : Allocated[p] = floor * u
      /\ \A p \in forced : Allocated[p] = input.elysMin * u
      /\ \A p \in high : Allocated[p] = input.maxAlloc * u
  BY DEF Allocated, Allocation, Floor, LockedInv, TypeOK
<1>4. /\ SumsOver(Allocated, high) /\ SumsOver(Allocated, low)
      /\ SumsOver(Allocated, plain) /\ SumsOver(Allocated, forced)
  <2>1. low = plain \union forced
    OBVIOUS
  <2> HIDE DEF plain, forced, u, floor
  <2> QED
    BY <1>1, <1>2, <1>3, <2>1 DEF SumsOver
<1>5. SumFunctionOnSet(Allocated, high) = (input.maxAlloc * u) * Cardinality(high)
  <2> HIDE DEF u
  <2> QED
    BY <1>1, <1>2, <1>3, SumOfEquals
<1>6. SumFunctionOnSet(Allocated, plain) = (floor * u) * Cardinality(plain)
  <2> HIDE DEF u, plain, floor
  <2> QED
    BY <1>1, <1>2, <1>3, SumOfEquals
<1>7. SumFunctionOnSet(Allocated, forced) = m * u
  <2>1. CASE elys \in low
    <3>1. forced = {elys} /\ Cardinality(forced) = 1
      BY <2>1, FS_Singleton
    <3> HIDE DEF u
    <3>2. SumFunctionOnSet(Allocated, forced) = (input.elysMin * u) * Cardinality(forced)
      BY <1>1, <1>2, <1>3, SumOfEquals
    <3>3. (input.elysMin * u) * 1 = input.elysMin * u
      BY <1>1
    <3>4. m = input.elysMin
      BY <2>1
    <3> HIDE DEF forced, m
    <3>5. SumFunctionOnSet(Allocated, forced) = input.elysMin * u
      BY <3>1, <3>2, <3>3, Zenon
    <3> QED
      BY <3>4, <3>5, Zenon
  <2>2. CASE elys \notin low
    <3>1. forced = {}
      BY <2>2
    <3>2. m = 0
      BY <2>2
    <3> HIDE DEF forced, m, u
    <3>3. SumFunctionOnSet(Allocated, forced) = 0
      BY <3>1, SumOfNone
    <3> QED
      BY <1>1, <3>2, <3>3
  <2> QED
    BY <2>1, <2>2
<1>8. SumFunctionOnSet(Allocated, low)
        = SumFunctionOnSet(Allocated, plain) + SumFunctionOnSet(Allocated, forced)
  <2>1. low = plain \union forced /\ plain \intersect forced = {}
    OBVIOUS
  <2> HIDE DEF plain, forced
  <2> QED
    BY <1>4, <2>1, SumOfUnion
<1>9. Floors(low) * u
        = (floor * u) * Cardinality(plain) + m * u
  <2> DEFINE c == Cardinality(plain)
  <2>1. Floors(low) = floor * c + m
    BY DEF Floors
  <2>2. c \in Nat /\ m \in Int
    BY <1>1, <1>2
  <2> HIDE DEF c, m, floor, u
  <2>3. (floor * c + m) * u = (floor * u) * c + m * u
    BY <1>1, <2>2
  <2> QED
    BY <2>1, <2>3 DEF c
<1>10. (input.maxAlloc * u) * Cardinality(high) = input.maxAlloc * Cardinality(high) * u
  <2> HIDE DEF u
  <2> QED
    BY <1>1, <1>2
<1> QED
  BY <1>4, <1>5, <1>6, <1>7, <1>8, <1>9, <1>10

\* What the pools between the bounds get is all that the locked ones leave.
LEMMA SumFromInv == AllocationInv => SumKept
<1> SUFFICES ASSUME AllocationInv, pc = "sum", Unlocked # {}
             PROVE  SumsToOne
  BY DEF SumKept, AllocationInv, SettledInv
<1>1. PositiveScores /\ ArgumentsInv /\ TypeOK
  BY DEF AllocationInv, StageInv
<1>2. /\ Remaining \in Int /\ Total \in Nat /\ Unit = Total
      /\ SumsOver(input.score, Unlocked)
      /\ \A p \in Unlocked : input.score[p] * Remaining \in Int
  <2>1. Unlocked \subseteq selected
    BY DEF Unlocked
  <2>2. IsFiniteSet(Unlocked)
    BY <1>1, <2>1, Numbers, FS_Subset
  <2> QED
    BY <1>1, <2>1, <2>2, Numbers, Totals DEF SumsOver, Unit
<1>3. \A p \in Unlocked : Allocated[p] = input.score[p] * Remaining
  BY DEF Allocated, Allocation, Unlocked
<1>4. SumsOver(Allocated, Unlocked)
  BY <1>2, <1>3 DEF SumsOver
<1>5. SumFunctionOnSet(Allocated, Unlocked) = Total * Remaining
  <2> HIDE DEF SumsOver
  <2> QED
    BY <1>2, <1>3, SumOfMultiples DEF Total
<1>6. /\ SumsOver(Allocated, low) /\ SumsOver(Allocated, high)
      /\ SumFunctionOnSet(Allocated, low) = Floors(low) * Total
      /\ SumFunctionOnSet(Allocated, high) = input.maxAlloc * Cardinality(high) * Total
  BY <1>1, <1>2, LockedSum
<1>7. SumFunctionOnSet(Allocated, low \union high)
        = SumFunctionOnSet(Allocated, low) + SumFunctionOnSet(Allocated, high)
  <2>1. low \intersect high = {}
    BY DEF AllocationInv, LockedInv
  <2> QED
    BY <1>6, <2>1, SumOfUnion
<1>8. SumFunctionOnSet(Allocated, (low \union high) \union Unlocked)
        = SumFunctionOnSet(Allocated, low \union high) + SumFunctionOnSet(Allocated, Unlocked)
  <2>1. SumsOver(Allocated, low \union high)
    BY <1>6, FS_Union DEF SumsOver
  <2>2. (low \union high) \intersect Unlocked = {}
    BY DEF Unlocked
  <2> QED
    BY <1>4, <2>1, <2>2, SumOfUnion
<1>9. DOMAIN Allocated = (low \union high) \union Unlocked
  BY <1>1 DEF Allocated, Unlocked, TypeOK
<1> DEFINE f == Floors(low)
           h == input.maxAlloc * Cardinality(high)
<1>10. SumFunction(Allocated) = f * Total + h * Total + Total * Remaining
  BY <1>5, <1>6, <1>7, <1>8, <1>9 DEF SumFunction
<1>11. f \in Int /\ h \in Int /\ Parts \in Int /\ Remaining = Parts - f - h
  <2>1. IsFiniteSet(low \ {elys}) /\ IsFiniteSet(high) /\ input.maxAlloc \in Int
    BY <1>1, Numbers, FS_Subset DEF TypeOK
  <2>2. Cardinality(high) \in Nat /\ Cardinality(low \ {elys}) \in Nat
    BY <2>1, FS_CardinalityType
  <2>3. input.minAlloc \in Int /\ input.elysMin \in Int
    BY <1>1 DEF ArgumentsInv
  <2>4. f \in Int
    <3>1. input.minAlloc * Cardinality(low \ {elys}) \in Int
      BY <2>2, <2>3
    <3> QED
      BY <2>3, <3>1 DEF Floors
  <2>5. h \in Int
    BY <2>1, <2>2
  <2> QED
    BY <2>4, <2>5, AllocationAssumption DEF Remaining
<1> HIDE DEF f, h
<1>12. f * Total + h * Total + Total * (Parts - f - h) = Parts * Total
  BY <1>2, <1>11
<1> QED
  BY <1>2, <1>10, <1>11, <1>12 DEF SumsToOne

\* The check of the sum refuses only when every pool has been locked: the parts
\* of the others always take up what the locked ones leave
\* (SelectTopPools.go:308, 368-371).
THEOREM SumIsKept == Spec => []SumKept
BY SumFromInv, AllocationInvAlways, PTL
=============================================================================
