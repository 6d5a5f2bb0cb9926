----------------------------- MODULE Allocation ------------------------------
(***************************************************************************)
(* SelectTopPools and DetermineTargetAllocations                           *)
(* (internal/analyzer/SelectTopPools.go), one after the other as RunCycle  *)
(* calls them: which pools the vault invests in, and what part of it each  *)
(* one gets.                                                               *)
(*                                                                         *)
(* Scores are whole numbers, bounds whole Parts of the vault, and a pool's *)
(* part by its score is compared with a bound by multiplying crosswise, so *)
(* the small tolerances for floating-point errors are zero here and the    *)
(* final scaling of a sum within them is the identity.                     *)
(***************************************************************************)
EXTENDS Integers, FiniteSets, FiniteSetsExt, Functions

CONSTANTS
  Pools,
  ElysPools,     \* the pools with uelys as one of their tokens
  NoPool,        \* elysPoolID 0
  Inputs,        \* scores of all pools, with the parameters
  Parts,
  MaxIterations  \* maxAllocationIterations

\* CalculatePoolScores has refused a forced minimum that is not a part of the
\* vault.
ASSUME AllocationAssumption ==
  /\ IsFiniteSet(Pools) /\ ElysPools \subseteq Pools /\ NoPool \notin Pools
  /\ Parts \in Nat \ {0} /\ MaxIterations \in Nat \ {0}
  /\ \A i \in Inputs :
       /\ DOMAIN i.score \subseteq Pools
       /\ \A p \in DOMAIN i.score : i.score[p] \in Int
       /\ i.maxPools \in Int /\ i.minAlloc \in Int /\ i.maxAlloc \in Int
       /\ i.elysMin \in 0..Parts

VARIABLES
  input,     \* the arguments
  pc,        \* where the calls stand, or the error they have returned
  selected,  \* selectedPoolIDs
  elys,      \* elysPoolID
  low, high, \* lockedAllocations: pools locked at their minimum, at the maximum
  iteration

vars == <<input, pc, selected, elys, low, high, iteration>>

\* The errors by where they are returned.
Errors == {"refused", "over-allocated", "exhausted", "sum", "bounds"}

TypeOK ==
  /\ pc \in {"select", "validate", "enforce", "done"} \union Errors
  /\ selected \subseteq DOMAIN input.score
  /\ elys \in ElysPools \union {NoPool}
  /\ low \subseteq selected /\ high \subseteq selected
  /\ iteration \in 0..MaxIterations

Init ==
  /\ input \in Inputs
  /\ pc = "select"
  /\ selected = {} /\ elys = NoPool
  /\ low = {} /\ high = {}
  /\ iteration = 0

(***************************************************************************)
(* SelectTopPools                                                          *)
(***************************************************************************)

Scored == DOMAIN input.score

\* Those of S with the highest score, and with the lowest.
Best(S) == {p \in S : \A q \in S : input.score[q] <= input.score[p]}
Worst(S) == {p \in S : \A q \in S : input.score[q] >= input.score[p]}

RefuseSelection ==
  /\ pc = "select"
  /\ input.maxPools <= 0
  /\ pc' = "refused"
  /\ UNCHANGED <<input, selected, elys, low, high, iteration>>

\* The first pools by score; the sort leaves the order of equal scores open.
TopPools ==
  {S \in SUBSET Scored :
     /\ Cardinality(S) = Min({input.maxPools, Cardinality(Scored)})
     /\ \A p \in S, q \in Scored \ S : input.score[p] >= input.score[q]}

\* Mutant: the forced pool takes the place of the best one.
Replaced_Best(top) == Best(top)

\* The pool that makes room for the forced one.
Replaced(top) == Worst(top)

Select ==
  /\ pc = "select"
  /\ input.maxPools > 0
  /\ \E top \in TopPools :
       \/ /\ ElysPools \intersect Scored = {}
          /\ elys' = NoPool /\ selected' = top
       \/ \E e \in Best(ElysPools \intersect Scored) :
            /\ elys' = e
            /\ \/ e \in top /\ selected' = top
               \/ /\ e \notin top
                  /\ \E lowest \in Replaced(top) :
                       selected' = (top \ {lowest}) \union {e}
  /\ pc' = "validate"
  /\ UNCHANGED <<input, low, high, iteration>>

(***************************************************************************)
(* DetermineTargetAllocations                                              *)
(***************************************************************************)

\* The minimum of a pool, and what a set of pools needs at least.
Floor(p) == IF p = elys THEN input.elysMin ELSE input.minAlloc
Floors(S) ==
  input.minAlloc * Cardinality(S \ {elys}) + (IF elys \in S THEN input.elysMin ELSE 0)

ValidParameters ==
  /\ 0 <= input.minAlloc /\ input.minAlloc <= input.maxAlloc /\ 0 < input.maxAlloc
  /\ Floors(selected) <= Parts
  /\ Parts <= Cardinality(selected) * input.maxAlloc

PositiveScores == \A p \in selected : input.score[p] > 0

Validate ==
  /\ pc = "validate"
  /\ pc' = IF ValidParameters /\ PositiveScores THEN "enforce" ELSE "refused"
  /\ UNCHANGED <<input, selected, elys, low, high, iteration>>

\* Mutant: pools that are not selected are looked at.
Unlocked_Scored == Scored \ (low \union high)

Unlocked == selected \ (low \union high)

\* Mutant: the score of a pool that has been locked stays in the total.
Total_Selected == SumFunctionOnSet(input.score, selected)

\* remainingPercent and totalUnlockedScore, computed anew in every iteration.
Remaining == Parts - Floors(low) - input.maxAlloc * Cardinality(high)
Total == SumFunctionOnSet(input.score, Unlocked)

\* score / totalUnlockedScore of what remains is below the minimum; it is
\* compared with the maximum otherwise.
Below(p) == input.score[p] * Remaining < Floor(p) * Total

\* Mutant: the maximum is not enforced on the pool of the minimum.
Above_NotElys(p) ==
  p # elys /\ ~Below(p) /\ input.score[p] * Remaining > input.maxAlloc * Total

Above(p) == ~Below(p) /\ input.score[p] * Remaining > input.maxAlloc * Total

Iterate == pc = "enforce" /\ iteration < MaxIterations

OverAllocated ==
  /\ Iterate
  /\ Remaining < 0
  /\ pc' = "over-allocated"
  /\ UNCHANGED <<input, selected, elys, low, high, iteration>>

\* Mutant: pools below the minimum get the maximum, and the other way round.
LockPools_Swapped ==
  /\ Iterate
  /\ Remaining >= 0
  /\ \E p \in Unlocked : Below(p) \/ Above(p)
  /\ high' = high \union {p \in Unlocked : Below(p)}
  /\ low' = low \union {p \in Unlocked : Above(p)}
  /\ iteration' = iteration + 1
  /\ UNCHANGED <<input, pc, selected, elys>>

\* Mutant: pools below their minimum are seen, but not locked.
LockPools_HighOnly ==
  /\ Iterate
  /\ Remaining >= 0
  /\ \E p \in Unlocked : Below(p) \/ Above(p)
  /\ high' = high \union {p \in Unlocked : Above(p)}
  /\ iteration' = iteration + 1
  /\ UNCHANGED <<input, pc, selected, elys, low>>

\* All pools out of bounds are locked, with the remainder the iteration began
\* with.
LockPools ==
  /\ Iterate
  /\ Remaining >= 0
  /\ \E p \in Unlocked : Below(p) \/ Above(p)
  /\ low' = low \union {p \in Unlocked : Below(p)}
  /\ high' = high \union {p \in Unlocked : Above(p)}
  /\ iteration' = iteration + 1
  /\ UNCHANGED <<input, pc, selected, elys>>

Exhausted ==
  /\ pc = "enforce" /\ iteration = MaxIterations
  /\ pc' = "exhausted"
  /\ UNCHANGED <<input, selected, elys, low, high, iteration>>

\* What a pool gets, in parts of a part: Unit of them are one.
Unit == IF Unlocked = {} THEN 1 ELSE Total
Allocation(p) ==
  IF p \in low THEN Floor(p) * Unit
  ELSE IF p \in high THEN input.maxAlloc * Unit
  ELSE input.score[p] * Remaining

Allocated == [p \in selected |-> Allocation(p)]
SumsToOne == SumFunction(Allocated) = Parts * Unit
WithinBounds ==
  \A p \in selected :
    Floor(p) * Unit <= Allocation(p) /\ Allocation(p) <= input.maxAlloc * Unit

\* An iteration without changes, or with all pools locked, is the last.
Assign ==
  /\ Iterate
  /\ Remaining >= 0
  /\ \A p \in Unlocked : ~Below(p) /\ ~Above(p)
  /\ pc' = IF ~SumsToOne THEN "sum" ELSE IF ~WithinBounds THEN "bounds" ELSE "done"
  /\ UNCHANGED <<input, selected, elys, low, high, iteration>>

(***************************************************************************)
(* Specification                                                           *)
(***************************************************************************)

Step ==
  \/ RefuseSelection \/ Select \/ Validate
  \/ OverAllocated \/ LockPools \/ Exhausted \/ Assign

Returned == pc \in Errors \union {"done"} /\ UNCHANGED vars

Next == Step \/ Returned

Spec == Init /\ [][Next]_vars

(***************************************************************************)
(* Properties                                                              *)
(***************************************************************************)

\* The best ELYS pool is selected, whatever its score, in the place of the
\* lowest; no pool left out is better than one that is not forced
\* (SelectTopPools.go:88-130).
BestSelected ==
  pc \notin {"select", "refused"} =>
    /\ Cardinality(selected) = Min({input.maxPools, Cardinality(Scored)})
    /\ ElysPools \intersect Scored # {} =>
         elys \in selected \intersect Best(ElysPools \intersect Scored)
    /\ \A p \in selected \ {elys}, q \in Scored \ selected :
         input.score[p] >= input.score[q]

\* A better pool never gets less than a worse one, except for the forced one,
\* although pools are locked in different iterations and a locked pool is never
\* looked at again (SelectTopPools.go:269-346).
OrderKept ==
  pc = "done" =>
    \A p, q \in selected \ {elys} :
      input.score[p] >= input.score[q] => Allocation(p) >= Allocation(q)

\* The last validation (SelectTopPools.go:384-394) refuses only when the forced
\* minimum of the ELYS pool is beyond the maximum; the iterations alone keep all
\* other bounds.
BoundsKept ==
  pc = "bounds" => elys \in selected /\ input.elysMin > input.maxAlloc

\* The parts of the pools between the bounds take up all that the locked ones
\* leave, so the check of the sum refuses only when every pool has been locked
\* (SelectTopPools.go:308, 368-371).
SumKept == pc = "sum" => Unlocked = {}

\* Every iteration but the last locks a pool: the bound on the iterations is not
\* reached with fewer pools than it allows (SelectTopPools.go:266-350).
IterationsSuffice ==
  pc = "exhausted" => Cardinality(selected) >= MaxIterations

\* "Returns error if allocation is impossible or constraints are invalid"
\* (SelectTopPools.go:148): parts between the minimum and the maximum of every
\* pool that sum to one exist exactly when the minima leave room, the maxima
\* reach, and none is above the other.
Possible ==
  /\ ValidParameters /\ PositiveScores
  /\ elys \in selected => input.elysMin <= input.maxAlloc
ErrorsAreJustified == pc \in Errors \ {"refused"} => ~Possible
=============================================================================
