--------------------------- MODULE Planner_proofs ---------------------------
(***************************************************************************)
(* Theorems about Planner, for every set of pools, all prices, shares,     *)
(* parameters and arguments.                                               *)
(***************************************************************************)
EXTENDS Planner, TLAPS

-----------------------------------------------------------------------------
\* Arithmetic

LEMMA MaxOfTwo ==
  ASSUME NEW a \in Int, NEW b \in Int
  PROVE  /\ Max({a, b}) \in {a, b}
         /\ Max({a, b}) >= a /\ Max({a, b}) >= b
<1>1. \E x \in {a, b} : \A y \in {a, b} : x >= y
  <2>1. CASE a >= b
    BY <2>1
  <2>2. CASE ~(a >= b)
    BY <2>2
  <2> QED
    BY <2>1, <2>2
<1> QED
  BY <1>1 DEF Max

LEMMA MinOfTwo ==
  ASSUME NEW a \in Int, NEW b \in Int
  PROVE  /\ Min({a, b}) \in {a, b}
         /\ Min({a, b}) <= a /\ Min({a, b}) <= b
<1>1. \E x \in {a, b} : \A y \in {a, b} : x =< y
  <2>1. CASE a =< b
    BY <2>1
  <2>2. CASE ~(a =< b)
    BY <2>2
  <2> QED
    BY <2>1, <2>2
<1> QED
  BY <1>1 DEF Min

LEMMA Quotient ==
  ASSUME NEW a \in Nat, NEW b \in Nat \ {0}
  PROVE  /\ a \div b \in Nat
         /\ (a \div b) * b <= a
         /\ a < (a \div b + 1) * b
OBVIOUS

\* A percentage of an amount is no more than the amount.
LEMMA PercentOf ==
  ASSUME NEW a \in Nat, NEW f \in Percent
  PROVE  (a * f) \div 100 \in 0..a
<1>1. f \in Nat /\ f <= 100
  BY DEF Percent
<1>2. a * f \in Nat /\ a * f <= a * 100
  BY <1>1
<1>3. (a * f) \div 100 \in Nat /\ ((a * f) \div 100) * 100 <= a * f
  BY <1>2
<1> QED
  BY <1>2, <1>3

LEMMA NearestBounds ==
  ASSUME NEW a \in Nat, NEW b \in Nat \ {0}, NEW r \in Nearest(a, b)
  PROVE  r \in Nat /\ 2 * a - b <= 2 * (r * b)
<1>1. a \div b \in Nat
  BY Quotient
<1>2. r \in Nat /\ 2 * (a - r * b) <= b
  BY <1>1 DEF Nearest
<1>3. r * b \in Nat
  BY <1>2
<1> QED
  BY <1>2, <1>3

\* The amount of a swap does not grow when it is reduced.
LEMMA NearestPercent ==
  ASSUME NEW a \in Nat, NEW f \in Percent, NEW r \in Nearest(a * f, 100)
  PROVE  r \in 0..a
<1>1. f \in Nat /\ f <= 100
  BY DEF Percent
<1>2. a * f \in Nat /\ a * f <= a * 100
  BY <1>1
<1>3. r \in Nat /\ 2 * (r * 100 - a * f) <= 100
  BY <1>2, Quotient DEF Nearest
<1> QED
  BY <1>2, <1>3

\* The nearest whole number is at most half above, and not above any whole
\* number the fraction is not above.
LEMMA NearestWithin ==
  ASSUME NEW a \in Nat, NEW b \in Nat \ {0}, NEW r \in Nearest(a, b)
  PROVE  /\ r \in Nat /\ 2 * (b * r) <= 2 * a + b
         /\ \A m \in Nat : a <= b * m => r <= m
<1>1. a \div b \in Nat
  BY Quotient
<1>2. r \in Nat /\ 2 * (r * b - a) <= b
  BY <1>1 DEF Nearest
<1>3. r * b \in Nat /\ r * b = b * r
  BY <1>2
<1>4. ASSUME NEW m \in Nat, a <= b * m, ~(r <= m) PROVE FALSE
  <2>1. r >= m + 1
    BY <1>2, <1>4
  <2>2. b * r >= b * (m + 1)
    BY <1>2, <2>1
  <2>3. b * (m + 1) = b * m + b /\ b * m \in Nat
    OBVIOUS
  <2> QED
    BY <1>2, <1>3, <1>4, <2>2, <2>3
<1> QED
  BY <1>2, <1>3, <1>4

\* The shares that remain are worth the target, but for the rounding.
LEMMA SharesLeft ==
  ASSUME NEW t \in Nat, NEW tvl \in Nat \ {0}, NEW shares \in Nat \ {0},
         NEW prec \in Nat \ {0}, NEW ratio \in Nearest(t * prec, tvl),
         NEW left, left = (ratio * shares) \div prec
  PROVE  /\ left \in Nat
         /\ 2 * tvl * prec * (left + 1) >= shares * (2 * t * prec - tvl)
<1>1. t * prec \in Nat
  OBVIOUS
<1>2. ratio \in Nat /\ 2 * (t * prec) - tvl <= 2 * (ratio * tvl)
  BY <1>1, NearestBounds
<1>3. ratio * shares \in Nat
  BY <1>2
<1>4. left \in Nat /\ ratio * shares < (left + 1) * prec
  BY <1>3, Quotient
<1>5. ratio * tvl \in Nat
  BY <1>2
<1>6. shares * (2 * (t * prec) - tvl) <= shares * (2 * (ratio * tvl))
  BY <1>1, <1>2, <1>5
<1>7. shares * (2 * (ratio * tvl)) = (2 * tvl) * (ratio * shares)
  BY <1>2
<1>8. (left + 1) * prec \in Nat
  BY <1>4
<1>9. (2 * tvl) * (ratio * shares) <= (2 * tvl) * ((left + 1) * prec)
  BY <1>3, <1>4, <1>8
<1>10. (2 * tvl) * ((left + 1) * prec) = 2 * tvl * prec * (left + 1)
  BY <1>4
<1>11. 2 * (t * prec) = 2 * t * prec
  OBVIOUS
<1>12. /\ shares * (2 * (t * prec) - tvl) \in Int
       /\ shares * (2 * (ratio * tvl)) \in Int
       /\ (2 * tvl) * ((left + 1) * prec) \in Int
  BY <1>1, <1>5, <1>8
<1> QED
  BY <1>4, <1>6, <1>7, <1>9, <1>10, <1>11, <1>12

-----------------------------------------------------------------------------
\* The arguments

LEMMA Arguments ==
  ASSUME input \in Inputs
  PROVE  /\ input.liquid \in Nat /\ input.total \in Nat /\ Total \in Nat
         /\ input.swapFactor \in Percent /\ input.depositFactor \in Percent
         /\ Involved \subseteq Pools
         /\ \A p \in DOMAIN input.position :
              input.position[p].shares \in Nat /\ input.position[p].value \in Nat
<1>1. /\ input.liquid \in Nat /\ input.total \in Nat
      /\ input.swapFactor \in Percent /\ input.depositFactor \in Percent
      /\ input.listed \subseteq Pools /\ DOMAIN input.target \subseteq input.listed
      /\ DOMAIN input.position \subseteq Pools
      /\ \A p \in DOMAIN input.position :
           input.position[p].shares \in Nat /\ input.position[p].value \in Nat
  BY PlannerAssumption
<1> QED
  BY <1>1 DEF Total, Involved

LEMMA Deviations ==
  ASSUME input \in Inputs, NEW p \in Pools
  PROVE  /\ Target(p) \in Nat /\ Value(p) \in Nat /\ DeltaUSD(p) \in Int
         /\ TooHigh(p) => p \in DOMAIN input.position /\ ~TooLow(p)
         /\ TooLow(p) => DeltaUSD(p) \in Nat \ {0} /\ p \in Involved
<1>1. Target(p) \in Nat
  <2>1. CASE p \in DOMAIN input.target
    <3>1. input.target[p] \in Nat
      BY <2>1, PlannerAssumption
    <3> QED
      BY <2>1, <3>1, Arguments DEF Target
  <2>2. CASE p \notin DOMAIN input.target
    BY <2>2 DEF Target
  <2> QED
    BY <2>1, <2>2
<1>2. Value(p) \in Nat
  BY Arguments DEF Value
<1>3. Threshold \in Nat /\ Threshold * Target(p) \in Nat
  BY <1>1, PlannerAssumption DEF Percent
<1>4. /\ DeltaUSD(p) \in Int
      /\ Value(p) = 0 => DeltaUSD(p) = Target(p)
  <2>1. Parts \in Nat \ {0}
    BY PlannerAssumption
  <2>2. Parts * Value(p) \in Nat /\ (Value(p) = 0 => Parts * Value(p) = 0)
    BY <1>2, <2>1
  <2> QED
    BY <1>1, <2>2 DEF DeltaUSD
<1>5. -Threshold * Target(p) = -(Threshold * Target(p))
  BY <1>1, <1>3
<1>6. TooHigh(p) => Value(p) > 0 /\ ~TooLow(p)
  BY <1>1, <1>2, <1>3, <1>4, <1>5 DEF TooHigh, TooLow
<1>7. TooLow(p) => DeltaUSD(p) > 0 /\ Target(p) > 0
  BY <1>1, <1>3, <1>4 DEF TooLow
<1>8. Value(p) > 0 => p \in DOMAIN input.position
  BY DEF Value
<1>9. Target(p) > 0 => p \in DOMAIN input.target
  BY DEF Target
<1> QED
  BY <1>1, <1>2, <1>4, <1>6, <1>7, <1>8, <1>9 DEF Involved

\* A surplus is the difference of two numbers of shares.
LEMMA SurplusInt ==
  ASSUME input \in Inputs, NEW p \in Pools, TooHigh(p), NEW s \in Surplus(p)
  PROVE  /\ s \in Int
         /\ LET left == input.position[p].shares - s IN
            /\ left \in Nat
            /\ 2 * (Tvl[p] * Parts) * Precision * (left + 1)
                 >= TotalShares[p] * (2 * Target(p) * Precision - Tvl[p] * Parts)
<1>1. /\ Tvl[p] * Parts \in Nat \ {0} /\ TotalShares[p] \in Nat \ {0}
      /\ Precision \in Nat \ {0} /\ Target(p) \in Nat
  <2>1. Tvl[p] \in Nat \ {0} /\ Parts \in Nat \ {0}
    BY PlannerAssumption
  <2>2. Tvl[p] * Parts \in Nat \ {0}
    BY <2>1
  <2> QED
    BY <2>2, PlannerAssumption, Deviations
<1>2. input.position[p].shares \in Nat
  BY Arguments, Deviations
<1>3. PICK target \in TargetShares(p) : s = input.position[p].shares - target
  BY DEF Surplus
<1>4. PICK ratio \in Nearest(Target(p) * Precision, Tvl[p] * Parts) :
        target = (ratio * TotalShares[p]) \div Precision
  BY DEF TargetShares
<1>5. /\ target \in Nat
      /\ 2 * (Tvl[p] * Parts) * Precision * (target + 1)
           >= TotalShares[p] * (2 * Target(p) * Precision - Tvl[p] * Parts)
  BY <1>1, <1>4, SharesLeft
<1>6. s \in Int /\ input.position[p].shares - s = target
  BY <1>2, <1>3, <1>5
<1> QED
  BY <1>5, <1>6

\* The arguments do not change, nor does what follows from them.
LEMMA SameArguments ==
  ASSUME input' = input, NEW p
  PROVE  /\ (Total' = Total) /\ (Involved' = Involved)
         /\ (Target(p)' = Target(p)) /\ (Value(p)' = Value(p))
         /\ (DeltaUSD(p)' = DeltaUSD(p))
         /\ (TooHigh(p)' <=> TooHigh(p)) /\ (TooLow(p)' <=> TooLow(p))
         /\ (TargetShares(p)' = TargetShares(p)) /\ (Surplus(p)' = Surplus(p))
BY DEF Total, Involved, Target, Value, DeltaUSD, TooHigh, TooLow, TargetShares, Surplus

-----------------------------------------------------------------------------
\* The inductive invariant

\* What the analysis has decided, once it has run.
AnalysedInv ==
  pc \in {"withdraw", "consolidate", "deposit"} =>
    /\ DOMAIN withdrawals = {p \in Involved : TooHigh(p)}
    /\ DOMAIN deposits = {p \in Involved : TooLow(p)}
    /\ \A p \in DOMAIN deposits : deposits[p] = DeltaUSD(p)

TodoInv ==
  /\ pc = "withdraw" => todo \subseteq DOMAIN withdrawals
  /\ pc = "consolidate" => todo \subseteq Denoms
  /\ pc = "deposit" => todo \subseteq DOMAIN deposits

SwapInv ==
  swap # NoSwap => /\ pc = "consolidate"
                   /\ swap.denom \in Denoms
                   /\ swap.amount <= assets[swap.denom]

\* The books balance; the deposits come last and leave the buffer.
FundsInv ==
  /\ liquid + spent = input.liquid + received
  /\ spent > 0 => liquid >= Buffer
  /\ pc \in {"start", "withdraw", "consolidate"} => spent = 0

ExitsInv ==
  \A p \in Pools : exits[p] > 0 => TooHigh(p) /\ exits[p] \in Surplus(p)

JoinsInv ==
  \A p \in Pools :
    joins[p] > 0 => TooLow(p) /\ 2 * (Parts * joins[p]) <= 2 * DeltaUSD(p) + Parts

PlanInv ==
  /\ input \in Inputs
  /\ TypeOK
  /\ AnalysedInv /\ TodoInv /\ SwapInv /\ FundsInv /\ ExitsInv /\ JoinsInv

LEMMA PlanInvInit == Init => PlanInv
<1> SUFFICES ASSUME Init PROVE PlanInv
  OBVIOUS
<1> USE DEF Init
<1>1. input.liquid \in Nat
  BY Arguments
<1>2. TypeOK
  BY <1>1, PlannerAssumption DEF TypeOK, Swaps
<1>3. AnalysedInv /\ TodoInv /\ SwapInv /\ ExitsInv /\ JoinsInv
  BY DEF AnalysedInv, TodoInv, SwapInv, ExitsInv, JoinsInv
<1>4. FundsInv
  BY <1>1 DEF FundsInv
<1> QED
  BY <1>2, <1>3, <1>4 DEF PlanInv

\* What a step leaves alone needs no argument.
LEMMA Undisturbed ==
  ASSUME PlanInv, input' = input
  PROVE  /\ input' \in Inputs
         /\ (\A p : TooHigh(p)' <=> TooHigh(p)) /\ (\A p : TooLow(p)' <=> TooLow(p))
         /\ UNCHANGED <<pc, analysed>> => AnalysedInv'
         /\ UNCHANGED <<exits>> => ExitsInv'
         /\ UNCHANGED <<joins>> => JoinsInv'
<1>1. input' \in Inputs
  BY DEF PlanInv
<1>2. \A p : /\ TooHigh(p)' <=> TooHigh(p)
             /\ TooLow(p)' <=> TooLow(p)
             /\ DeltaUSD(p)' = DeltaUSD(p)
             /\ Surplus(p)' = Surplus(p)
  BY SameArguments
<1>3. Involved' = Involved
  BY SameArguments
<1>4. ASSUME UNCHANGED <<pc, analysed>> PROVE AnalysedInv'
  BY <1>2, <1>3, <1>4 DEF PlanInv, AnalysedInv, analysed
<1>5. ASSUME UNCHANGED <<exits>> PROVE ExitsInv'
  BY <1>2, <1>5 DEF PlanInv, ExitsInv
<1>6. ASSUME UNCHANGED <<joins>> PROVE JoinsInv'
  BY <1>2, <1>6 DEF PlanInv, JoinsInv
<1> QED
  BY <1>1, <1>2, <1>4, <1>5, <1>6

LEMMA StartKeepsPlanInv ==
  ASSUME PlanInv, Refuse \/ NothingToPlan \/ Analyze
  PROVE  PlanInv'
<1> USE DEF PlanInv
<1>1. CASE Refuse \/ NothingToPlan
  <2> USE <1>1 DEF Refuse, NothingToPlan
  <2>1. TypeOK'
    BY DEF TypeOK, analysed, funds
  <2>2. AnalysedInv' /\ TodoInv' /\ SwapInv' /\ FundsInv'
    BY DEF AnalysedInv, TodoInv, SwapInv, FundsInv, funds
  <2> QED
    BY <2>1, <2>2, Undisturbed
<1>2. CASE Analyze
  <2> USE <1>2 DEF Analyze
  <2>1. /\ DOMAIN withdrawals' = {p \in Involved : TooHigh(p)}
        /\ DOMAIN deposits' = {p \in Involved : TooLow(p)}
        /\ \A p \in DOMAIN deposits' : deposits'[p] = DeltaUSD(p)
    BY DEF Capped
  <2>2. Involved' = Involved /\ \A p : DeltaUSD(p)' = DeltaUSD(p)
    BY SameArguments
  <2>3. AnalysedInv'
    BY <2>1, <2>2, Undisturbed DEF AnalysedInv
  <2>4. TypeOK'
    <3>1. todo' \subseteq Pools
      BY <2>1, Arguments
    <3> QED
      BY <3>1 DEF TypeOK, funds
  <2>5. TodoInv' /\ SwapInv' /\ FundsInv'
    BY DEF TodoInv, SwapInv, FundsInv, funds
  <2> QED
    BY <2>3, <2>4, <2>5, Undisturbed
<1> QED
  BY <1>1, <1>2

LEMMA WithdrawKeepsPlanInv ==
  ASSUME PlanInv, NEW p \in Pools,
         SkipWithdrawal(p) \/ AbortWithdrawal(p) \/ LeavePool(p)
  PROVE  PlanInv'
<1> USE DEF PlanInv
<1>1. /\ pc = "withdraw" /\ p \in todo /\ todo' = todo \ {p} /\ input' = input
      /\ UNCHANGED <<withdrawals, deposits, swap, joins, spent>>
  BY DEF SkipWithdrawal, AbortWithdrawal, LeavePool, WithdrawNext, analysed, funds
<1>2. TooHigh(p)
  BY <1>1 DEF AnalysedInv, TodoInv
<1>3. TodoInv' /\ SwapInv'
  <2>1. pc' \in {"withdraw", "failed"}
    BY <1>1 DEF SkipWithdrawal, AbortWithdrawal, LeavePool
  <2>2. swap' = NoSwap
    BY <1>1 DEF SwapInv
  <2> QED
    BY <1>1, <2>1, <2>2 DEF TodoInv, SwapInv
<1>4. CASE SkipWithdrawal(p) \/ AbortWithdrawal(p)
  <2> USE <1>4 DEF SkipWithdrawal, AbortWithdrawal
  <2>1. UNCHANGED <<funds, assets, exits>> /\ (pc' = pc \/ pc' = "failed")
    OBVIOUS
  <2>2. TypeOK'
    BY <1>1, <2>1 DEF TypeOK, funds
  <2>3. AnalysedInv'
    BY <1>1, <2>1, Undisturbed DEF AnalysedInv, analysed
  <2>4. FundsInv'
    BY <1>1, <2>1 DEF FundsInv, funds
  <2> QED
    BY <1>1, <1>3, <2>1, <2>2, <2>3, <2>4, Undisturbed
<1>5. CASE LeavePool(p)
  <2>1. PICK shares \in Surplus(p) :
          /\ shares > 0 /\ exits' = [exits EXCEPT ![p] = shares]
          /\ \E e \in ExitEstimates(p, shares) :
               /\ liquid' = liquid + e.usdc /\ received' = received + e.usdc
               /\ assets' = [assets EXCEPT ![TokenA[p]] = @ + e.other]
    BY <1>5 DEF LeavePool
  <2>2. PICK e \in ExitEstimates(p, shares) :
          /\ liquid' = liquid + e.usdc /\ received' = received + e.usdc
          /\ assets' = [assets EXCEPT ![TokenA[p]] = @ + e.other]
    BY <2>1
  <2>3. shares \in Nat
    BY <1>2, <2>1, SurplusInt
  <2>4. e.usdc \in Nat /\ e.other \in Nat
    <3>1. shares * Tvl[p] \in Nat /\ TotalShares[p] \in Nat \ {0}
      BY <2>3, PlannerAssumption
    <3>2. Worth(p, shares) + Excess \in Nat
      BY <3>1, Quotient, PlannerAssumption DEF Worth
    <3> QED
      BY <3>2 DEF ExitEstimates
  <2>5. pc' = pc
    BY <1>5 DEF LeavePool
  <2>6. TypeOK'
    <3>1. assets' \in [Denoms -> Nat]
      BY <2>2, <2>4, PlannerAssumption DEF TypeOK
    <3>2. exits' \in [Pools -> Nat]
      BY <2>1, <2>3 DEF TypeOK
    <3> QED
      BY <1>1, <2>2, <2>4, <2>5, <3>1, <3>2 DEF TypeOK
  <2>7. AnalysedInv'
    BY <1>1, <2>5, Undisturbed DEF analysed
  <2>8. FundsInv'
    BY <1>1, <2>2, <2>4, <2>5, Arguments DEF FundsInv, TypeOK
  <2>9. ExitsInv'
    <3> SUFFICES ASSUME NEW q \in Pools, exits'[q] > 0
                 PROVE  (TooHigh(q) /\ exits[q] \in Surplus(q))'
      BY DEF ExitsInv
    <3>1. (TooHigh(q)' <=> TooHigh(q)) /\ Surplus(q)' = Surplus(q)
      BY <1>1, SameArguments
    <3>2. CASE q = p
      BY <1>2, <2>1, <3>1, <3>2 DEF TypeOK
    <3>3. CASE q # p
      BY <2>1, <3>1, <3>3 DEF TypeOK, ExitsInv
    <3> QED
      BY <3>2, <3>3
  <2> QED
    BY <1>1, <1>3, <2>6, <2>7, <2>8, <2>9, Undisturbed
<1> QED
  BY <1>4, <1>5

LEMMA ConsolidateKeepsPlanInv ==
  ASSUME PlanInv,
         \/ FinishWithdrawals \/ FinishConsolidation
         \/ \E d \in Denoms : StartSwap(d)
         \/ SwapViable \/ SwapReduced \/ SwapAbandoned
  PROVE  PlanInv'
<1> USE DEF PlanInv
<1>1. CASE FinishWithdrawals \/ FinishConsolidation
  <2> USE <1>1 DEF FinishWithdrawals, FinishConsolidation
  <2>1. input' = input /\ UNCHANGED <<analysed, funds, assets, swap, exits, joins>>
    OBVIOUS
  <2>2. TypeOK'
    <3>1. DOMAIN deposits \subseteq Pools \/ pc = "withdraw"
      BY Arguments DEF AnalysedInv
    <3>2. todo' \subseteq Pools \union Denoms
      BY <3>1
    <3> QED
      BY <2>1, <3>2 DEF TypeOK, funds
  <2>3. AnalysedInv'
    <3>1. Involved' = Involved /\ \A q : DeltaUSD(q)' = DeltaUSD(q)
      BY <2>1, SameArguments
    <3> QED
      BY <2>1, <3>1, Undisturbed DEF AnalysedInv, analysed
  <2>4. TodoInv' /\ SwapInv'
    <3>1. swap' = NoSwap
      BY <2>1 DEF SwapInv
    <3> QED
      BY <2>1, <3>1 DEF TodoInv, SwapInv, analysed
  <2>5. FundsInv'
    BY <2>1 DEF FundsInv, funds
  <2> QED
    BY <2>1, <2>2, <2>3, <2>4, <2>5, Undisturbed
<1>2. ASSUME NEW d \in Denoms, StartSwap(d)
      PROVE  PlanInv'
  <2> USE <1>2 DEF StartSwap
  <2>1. /\ input' = input /\ UNCHANGED <<pc, analysed, funds, assets, exits, joins>>
        /\ swap' = [denom |-> d, amount |-> assets[d], retry |-> 0]
        /\ todo' = todo \ {d}
    OBVIOUS
  <2>2. assets[d] \in Nat
    BY DEF TypeOK
  <2>3. swap' \in Swaps
    BY <2>1, <2>2, PlannerAssumption DEF Swaps
  <2>4. TypeOK'
    BY <2>1, <2>3 DEF TypeOK, funds
  <2>5. TodoInv' /\ SwapInv'
    BY <2>1, <2>2 DEF TodoInv, SwapInv, analysed
  <2>6. FundsInv'
    BY <2>1 DEF FundsInv, funds
  <2> QED
    BY <2>1, <2>4, <2>5, <2>6, Undisturbed
<1>3. CASE SwapViable \/ SwapReduced \/ SwapAbandoned
  <2>1. /\ input' = input /\ UNCHANGED <<pc, todo, analysed, spent, exits, joins>>
        /\ swap # NoSwap /\ pc = "consolidate"
    BY <1>3 DEF SwapViable, SwapReduced, SwapAbandoned, Trying, funds, SwapInv
  <2>2. swap \in [denom : Denoms, amount : Nat, retry : 0..MaxRetries]
    BY <2>1 DEF TypeOK, Swaps
  <2>3. TodoInv'
    BY <2>1 DEF TodoInv, analysed
  <2>4. CASE SwapViable
    <3>1. PICK out \in Nat : liquid' = liquid + out /\ received' = received + out
      BY <2>2, <2>4, PlannerAssumption DEF SwapViable, SwapEstimates
    <3>2. /\ assets' = [assets EXCEPT ![swap.denom] = @ - swap.amount]
          /\ swap' = NoSwap
      BY <2>4 DEF SwapViable
    <3>3. assets[swap.denom] - swap.amount \in Nat
      BY <2>1, <2>2 DEF SwapInv, TypeOK
    <3>4. TypeOK'
      BY <2>1, <2>2, <3>1, <3>2, <3>3, PlannerAssumption DEF TypeOK, Swaps
    <3>5. SwapInv' /\ FundsInv'
      BY <2>1, <2>2, <3>1, <3>2, Arguments DEF SwapInv, FundsInv, TypeOK
    <3> QED
      BY <2>1, <2>3, <3>4, <3>5, Undisturbed
  <2>5. CASE SwapReduced
    <3>1. /\ swap.retry < MaxRetries
          /\ UNCHANGED <<funds, assets>>
      BY <2>5 DEF SwapReduced, Trying
    <3>2. PICK amount \in Nearest(swap.amount * input.swapFactor, 100) :
            swap' = [swap EXCEPT !.amount = amount, !.retry = @ + 1]
      BY <2>5 DEF SwapReduced
    <3>3. amount \in 0..swap.amount
      BY <2>2, Arguments, NearestPercent
    <3>4. swap' \in [denom : Denoms, amount : Nat, retry : 0..MaxRetries]
      <4>1. MaxRetries \in Nat
        BY PlannerAssumption
      <4>2. swap.retry + 1 \in 0..MaxRetries
        BY <2>2, <3>1, <4>1
      <4>3. swap' = [denom |-> swap.denom, amount |-> amount, retry |-> swap.retry + 1]
        BY <2>2, <3>2
      <4>4. amount \in Nat
        BY <2>2, <3>3
      <4> QED
        BY <2>2, <4>2, <4>3, <4>4
    <3>5. TypeOK'
      BY <2>1, <3>1, <3>4 DEF TypeOK, Swaps, funds
    <3>6. SwapInv'
      <4>1. swap'.denom = swap.denom /\ swap'.amount = amount
        BY <2>2, <3>2
      <4>2. swap.amount <= assets[swap.denom] /\ assets[swap.denom] \in Nat
        BY <2>1, <2>2 DEF SwapInv, TypeOK
      <4> QED
        BY <2>1, <2>2, <3>1, <3>3, <4>1, <4>2 DEF SwapInv
    <3>7. FundsInv'
      BY <2>1, <3>1 DEF FundsInv, funds
    <3> QED
      BY <2>1, <2>3, <3>5, <3>6, <3>7, Undisturbed
  <2>6. CASE SwapAbandoned
    <3>1. swap' = NoSwap /\ UNCHANGED <<funds, assets>>
      BY <2>6 DEF SwapAbandoned
    <3>2. TypeOK'
      BY <2>1, <3>1, PlannerAssumption DEF TypeOK, Swaps, funds
    <3>3. SwapInv' /\ FundsInv'
      BY <2>1, <3>1 DEF SwapInv, FundsInv, funds
    <3> QED
      BY <2>1, <2>3, <3>2, <3>3, Undisturbed
  <2> QED
    BY <1>3, <2>4, <2>5, <2>6
<1> QED
  BY <1>1, <1>2, <1>3

LEMMA DepositKeepsPlanInv ==
  ASSUME PlanInv,
         \/ FinishDeposits
         \/ \E p \in Pools : SkipDeposit(p) \/ JoinPool(p)
  PROVE  PlanInv'
<1> USE DEF PlanInv
<1>1. CASE FinishDeposits
  <2> USE <1>1 DEF FinishDeposits
  <2>1. /\ pc' = "done" /\ input' = input
        /\ UNCHANGED <<todo, analysed, funds, assets, swap, exits, joins>>
    OBVIOUS
  <2>2. TypeOK'
    BY <2>1 DEF TypeOK, funds
  <2>3. AnalysedInv' /\ TodoInv' /\ SwapInv' /\ FundsInv'
    BY <2>1 DEF AnalysedInv, TodoInv, SwapInv, FundsInv, funds
  <2> QED
    BY <2>1, <2>2, <2>3, Undisturbed
<1>2. ASSUME NEW p \in Pools, SkipDeposit(p) \/ JoinPool(p)
      PROVE  PlanInv'
  <2>1. /\ pc = "deposit" /\ p \in todo /\ todo' = todo \ {p} /\ input' = input
        /\ UNCHANGED <<pc, analysed, received, assets, swap, exits>>
    BY <1>2 DEF SkipDeposit, JoinPool, DepositNext, funds
  <2>2. TooLow(p) /\ deposits[p] = DeltaUSD(p) /\ deposits[p] \in Nat
    BY <2>1, Deviations DEF AnalysedInv, TodoInv
  <2>3. TodoInv' /\ SwapInv'
    BY <2>1 DEF TodoInv, SwapInv, analysed
  <2>4. CASE SkipDeposit(p)
    <3>1. UNCHANGED <<funds, joins>>
      BY <2>4 DEF SkipDeposit
    <3>2. TypeOK' /\ FundsInv'
      BY <2>1, <3>1 DEF TypeOK, FundsInv, funds
    <3> QED
      BY <2>1, <2>3, <3>1, <3>2, Undisturbed
  <2>5. CASE JoinPool(p)
    <3>1. PICK amount \in ViableDeposits(p) :
            /\ joins' = [joins EXCEPT ![p] = amount]
            /\ liquid' = liquid - amount /\ spent' = spent + amount
      BY <2>5 DEF JoinPool
    <3>2. Buffer \in Nat /\ liquid \in Nat
      BY PlannerAssumption DEF TypeOK
    <3>3. /\ Available \in {liquid - Buffer, 0} /\ Available >= 0
      <4>1. liquid - Buffer \in Int /\ 0 \in Int
        BY <3>2
      <4>2. /\ Max({liquid - Buffer, 0}) \in {liquid - Buffer, 0}
            /\ Max({liquid - Buffer, 0}) >= 0
        BY <4>1, MaxOfTwo, Zenon
      <4> QED
        BY <4>2 DEF Available
    <3>4. /\ Wanted(p) \in Nat
          /\ Wanted(p) <= deposits[p] /\ Wanted(p) <= Parts * Available
      <4>1. Available \in Nat /\ Parts \in Nat
        BY <3>2, <3>3, PlannerAssumption
      <4>2. deposits[p] \in Int /\ Parts * Available \in Nat /\ Parts * Available \in Int
        BY <2>2, <4>1
      <4>3. /\ Wanted(p) \in {deposits[p], Parts * Available}
            /\ Wanted(p) <= deposits[p] /\ Wanted(p) <= Parts * Available
        BY <4>2, MinOfTwo, Zenon DEF Wanted
      <4> QED
        BY <2>2, <4>2, <4>3
    <3>5. Parts \in Nat \ {0} /\ Available \in Nat
      BY <3>2, <3>3, PlannerAssumption
    <3>6. PICK whole \in Nearest(Wanted(p), Parts) :
            amount > 0 /\ amount \in {whole, (whole * input.depositFactor) \div 100}
      BY <3>1 DEF ViableDeposits
    <3>7. /\ amount \in Nat /\ amount <= Available
          /\ 2 * (Parts * amount) <= 2 * DeltaUSD(p) + Parts
      <4>0. /\ whole \in Nat /\ whole <= Available
            /\ 2 * (Parts * whole) <= 2 * Wanted(p) + Parts
        BY <3>4, <3>5, NearestWithin
      <4>1. amount \in 0..whole
        BY <3>6, <4>0, Arguments, PercentOf
      <4>2. amount \in Nat /\ amount <= whole
        BY <4>0, <4>1
      <4>3. Parts * amount <= Parts * whole /\ Parts * amount \in Nat /\ Parts * whole \in Nat
        BY <3>5, <4>0, <4>2
      <4> QED
        BY <2>2, <3>4, <3>5, <4>0, <4>2, <4>3
    <3>8. liquid' \in Nat /\ liquid' >= Buffer
      BY <3>1, <3>2, <3>3, <3>6, <3>7
    <3>9. TypeOK'
      BY <2>1, <3>1, <3>7, <3>8 DEF TypeOK
    <3>10. FundsInv'
      BY <2>1, <3>1, <3>6, <3>7, <3>8, Arguments DEF FundsInv, TypeOK
    <3>11. JoinsInv'
      <4> SUFFICES ASSUME NEW q \in Pools, joins'[q] > 0
                   PROVE  (TooLow(q) /\ 2 * (Parts * joins[q]) <= 2 * DeltaUSD(q) + Parts)'
        BY DEF JoinsInv
      <4>1. (TooLow(q)' <=> TooLow(q)) /\ DeltaUSD(q)' = DeltaUSD(q)
        BY <2>1, SameArguments
      <4>2. CASE q = p
        BY <2>2, <3>1, <3>7, <4>1, <4>2 DEF TypeOK
      <4>3. CASE q # p
        BY <3>1, <4>1, <4>3 DEF TypeOK, JoinsInv
      <4> QED
        BY <4>2, <4>3
    <3> QED
      BY <2>1, <2>3, <3>9, <3>10, <3>11, Undisturbed
  <2> QED
    BY <1>2, <2>4, <2>5
<1> QED
  BY <1>1, <1>2

LEMMA PlanInvNext == PlanInv /\ [Next]_vars => PlanInv'
<1> SUFFICES ASSUME PlanInv, [Next]_vars
             PROVE  PlanInv'
  OBVIOUS
<1>1. CASE UNCHANGED vars
  <2>1. input' = input
    BY <1>1 DEF vars
  <2>2. TypeOK' /\ TodoInv' /\ SwapInv' /\ FundsInv'
    BY <1>1 DEF vars, analysed, funds, PlanInv, TypeOK, TodoInv, SwapInv, FundsInv
  <2> QED
    BY <1>1, <2>1, <2>2, Undisturbed DEF vars, analysed, PlanInv
<1>2. CASE Step
  BY <1>2, StartKeepsPlanInv, WithdrawKeepsPlanInv, ConsolidateKeepsPlanInv,
     DepositKeepsPlanInv
  DEF Step, Withdrawing, Consolidating, Depositing
<1> QED
  BY <1>1, <1>2 DEF Next, Returned

THEOREM PlanInvAlways == Spec => []PlanInv
<1>1. Init => PlanInv
  BY PlanInvInit
<1>2. PlanInv /\ [Next]_vars => PlanInv'
  BY PlanInvNext
<1> QED
  BY <1>1, <1>2, PTL DEF Spec

-----------------------------------------------------------------------------
\* What follows from it

\* Every variable keeps its type: no number of shares, no amount and no balance
\* the planner keeps becomes negative (planner.go:495-500, 675-687, 740).
THEOREM PlannerTypeCorrect == Spec => []TypeOK
<1>1. PlanInv => TypeOK
  BY DEF PlanInv
<1> QED
  BY <1>1, PlanInvAlways, PTL

\* The planned deposits are covered and leave the buffer, for all prices,
\* shares and parameters and whatever the simulations answer
\* (planner.go:673-687, 740).
THEOREM PlannerWithinFunds == Spec => []WithinFunds
<1>1. PlanInv => WithinFunds
  <2> SUFFICES ASSUME PlanInv PROVE WithinFunds
    OBVIOUS
  <2>1. /\ liquid + spent = input.liquid + received
        /\ spent > 0 => liquid >= Buffer
    BY DEF PlanInv, FundsInv
  <2>2. liquid \in Nat /\ spent \in Nat /\ received \in Nat /\ Buffer \in Nat
    BY PlannerAssumption DEF PlanInv, TypeOK
  <2>3. input.liquid \in Nat
    BY Arguments DEF PlanInv
  <2> QED
    BY <2>1, <2>2, <2>3 DEF WithinFunds
<1> QED
  BY <1>1, PlanInvAlways, PTL

\* No pool is left and joined, a withdrawal leaves the target but for the
\* rounding of the share ratio, a deposit stays within it but for half a unit
\* (planner.go:447-461, 696).
THEOREM PlannerTowardTarget == Spec => []TowardTarget
<1>1. PlanInv => TowardTarget
  <2> SUFFICES ASSUME PlanInv, NEW p \in Pools
               PROVE  /\ exits[p] > 0 =>
                           LET left == input.position[p].shares - exits[p] IN
                           /\ joins[p] = 0 /\ left >= 0
                           /\ 2 * (Tvl[p] * Parts) * Precision * (left + 1)
                                >= TotalShares[p] * (2 * Target(p) * Precision - Tvl[p] * Parts)
                      /\ joins[p] > 0 => 2 * Parts * (Value(p) + joins[p]) <= 2 * Target(p) + Parts
    BY DEF TowardTarget
  <2>1. input \in Inputs /\ exits[p] \in Nat /\ joins[p] \in Nat
    BY DEF PlanInv, TypeOK
  <2>2. /\ exits[p] > 0 => TooHigh(p) /\ exits[p] \in Surplus(p)
        /\ joins[p] > 0 => TooLow(p) /\ 2 * (Parts * joins[p]) <= 2 * DeltaUSD(p) + Parts
    BY DEF PlanInv, ExitsInv, JoinsInv
  <2>3. TooHigh(p) => ~TooLow(p)
    BY <2>1, Deviations
  <2>4. ASSUME exits[p] > 0
        PROVE  LET left == input.position[p].shares - exits[p] IN
               /\ joins[p] = 0 /\ left >= 0
               /\ 2 * (Tvl[p] * Parts) * Precision * (left + 1)
                    >= TotalShares[p] * (2 * Target(p) * Precision - Tvl[p] * Parts)
    BY <2>1, <2>2, <2>3, <2>4, SurplusInt
  <2>5. joins[p] > 0 => 2 * Parts * (Value(p) + joins[p]) <= 2 * Target(p) + Parts
    <3>1. Parts \in Nat \ {0} /\ Target(p) \in Nat /\ Value(p) \in Nat
      BY <2>1, PlannerAssumption, Deviations
    <3>2. /\ Parts * Value(p) \in Nat /\ Parts * joins[p] \in Nat
          /\ 2 * Parts * (Value(p) + joins[p]) = 2 * (Parts * Value(p)) + 2 * (Parts * joins[p])
      BY <2>1, <3>1
    <3> QED
      BY <2>2, <3>1, <3>2 DEF DeltaUSD
  <2> QED
    BY <2>4, <2>5
<1> QED
  BY <1>1, PlanInvAlways, PTL

-----------------------------------------------------------------------------
\* The call comes to its end

\* The loops of GenerateActionPlan in their order.
Place ==
  CASE pc = "start" -> 0
    [] pc = "withdraw" -> 1
    [] pc = "consolidate" -> 2
    [] pc = "deposit" -> 3
    [] OTHER -> 4

\* How often findViableSwapAmount can go on with the swap in progress.
TriesLeft == IF swap = NoSwap THEN 0 ELSE MaxRetries - swap.retry + 1

\* A later loop, or fewer pools or denoms to go through, or fewer tries.
ComesCloser ==
  \/ Place < Place'
  \/ pc' = pc /\ todo' \subseteq todo /\ todo' # todo
  \/ pc' = pc /\ todo' = todo /\ TriesLeft' < TriesLeft

LEMMA TriesAreNat ==
  ASSUME TypeOK
  PROVE  /\ TriesLeft \in 0 .. MaxRetries + 1
         /\ swap # NoSwap => TriesLeft > 0 /\ swap.retry \in 0..MaxRetries
         /\ MaxRetries \in Nat
<1>1. MaxRetries \in Nat
  BY PlannerAssumption
<1>2. CASE swap = NoSwap
  BY <1>1, <1>2 DEF TriesLeft
<1>3. CASE swap # NoSwap
  <2>1. swap.retry \in 0..MaxRetries
    BY <1>3 DEF TypeOK, Swaps
  <2> QED
    BY <1>1, <1>3, <2>1 DEF TriesLeft
<1> QED
  BY <1>1, <1>2, <1>3

LEMMA StepComesCloser ==
  ASSUME TypeOK, Step
  PROVE  ComesCloser
<1>1. CASE \/ Refuse \/ NothingToPlan \/ Analyze
           \/ FinishWithdrawals \/ FinishConsolidation \/ FinishDeposits
  <2>1. Place < Place'
    BY <1>1 DEF Refuse, NothingToPlan, Analyze, FinishWithdrawals, FinishConsolidation,
       FinishDeposits, Place
  <2> QED
    BY <2>1 DEF ComesCloser
<1>2. ASSUME NEW p \in Pools, AbortWithdrawal(p) PROVE ComesCloser
  <2>1. Place < Place'
    BY <1>2 DEF AbortWithdrawal, WithdrawNext, Place
  <2> QED
    BY <2>1 DEF ComesCloser
<1>3. ASSUME NEW p \in Pools, SkipWithdrawal(p) \/ LeavePool(p) \/ SkipDeposit(p) \/ JoinPool(p)
      PROVE  ComesCloser
  <2>1. pc' = pc /\ p \in todo /\ todo' = todo \ {p}
    BY <1>3 DEF SkipWithdrawal, LeavePool, SkipDeposit, JoinPool, WithdrawNext, DepositNext
  <2> QED
    BY <2>1 DEF ComesCloser
<1>4. ASSUME NEW d \in Denoms, StartSwap(d) PROVE ComesCloser
  <2>1. pc' = pc /\ d \in todo /\ todo' = todo \ {d}
    BY <1>4 DEF StartSwap
  <2> QED
    BY <2>1 DEF ComesCloser
<1>5. CASE SwapViable \/ SwapAbandoned
  <2>1. pc' = pc /\ todo' = todo /\ swap # NoSwap /\ swap' = NoSwap
    BY <1>5 DEF SwapViable, SwapAbandoned, Trying
  <2>2. TriesLeft' = 0
    BY <2>1 DEF TriesLeft
  <2>3. TriesLeft > 0
    BY <2>1, TriesAreNat
  <2> QED
    BY <2>1, <2>2, <2>3 DEF ComesCloser
<1>6. CASE SwapReduced
  <2>1. PICK amount : swap' = [swap EXCEPT !.amount = amount, !.retry = @ + 1]
    BY <1>6 DEF SwapReduced
  <2>2. /\ pc' = pc /\ todo' = todo
        /\ swap # NoSwap /\ swap.retry < MaxRetries
    BY <1>6 DEF SwapReduced, Trying
  <2>3. swap \in [denom : Denoms, amount : Nat, retry : 0..MaxRetries]
    BY <2>2 DEF TypeOK, Swaps
  <2>4. swap'.retry = swap.retry + 1
    BY <2>1, <2>3
  <2>5. swap.retry \in Nat /\ MaxRetries \in Nat
    BY <2>2, TriesAreNat
  <2>6. TriesLeft = MaxRetries - swap.retry + 1 /\ TriesLeft' \in {0, MaxRetries - swap.retry}
    BY <2>2, <2>4, <2>5 DEF TriesLeft
  <2> QED
    BY <2>2, <2>5, <2>6 DEF ComesCloser
<1> QED
  BY <1>1, <1>2, <1>3, <1>4, <1>5, <1>6 DEF Step, Withdrawing, Consolidating, Depositing

\* Every step of GenerateActionPlan brings it closer to its return: a later loop,
\* the same loop with fewer pools or denoms before it, or a swap with fewer tries
\* left; a swap that cannot be made is never taken up again (planner.go:777-798).
THEOREM PlannerComesCloser ==
  Spec => [][(TriesLeft \in 0 .. MaxRetries + 1) /\ (Step => ComesCloser)]_vars
<1>1. PlanInv /\ [Next]_vars => [(TriesLeft \in 0 .. MaxRetries + 1) /\ (Step => ComesCloser)]_vars
  BY TriesAreNat, StepComesCloser DEF PlanInv
<1> QED
  BY <1>1, PlanInvAlways, PTL DEF Spec
=============================================================================
