------------------------------ MODULE Planner ------------------------------
(***************************************************************************)
(* GenerateActionPlan (internal/planner/planner.go): from what the cycle   *)
(* has read of the vault and from the target allocations to the            *)
(* withdrawals, consolidation swaps and deposits of a plan.                *)
(*                                                                         *)
(* Money is whole smallest units of USDC, Dollar of them to the dollar; an *)
(* allocation is a number of Parts, so that a target, and how far a pool   *)
(* is from it, is counted in units / Parts.  The simulations of the node   *)
(* answer any amounts up to Excess above what goes in, zero included.      *)
(* Whether an amount is within the slippage limit is their choice.         *)
(***************************************************************************)
EXTENDS Integers, FiniteSets, FiniteSetsExt, Functions

CONSTANTS
  Pools, Denoms,  \* pools, and the denoms of their tokens other than USDC
  TokenA,         \* the denom other than USDC of a pool
  Tvl,            \* poolInfo.TvlUSD, in units
  TotalShares,    \* poolInfo.TotalShares
  Inputs,         \* the arguments RunCycle may pass
  Parts,          \* allocations are given in parts of the vault
  Precision,      \* a share ratio is kept to 1 / Precision (six digits)
  Dollar,         \* units in a dollar: a smaller deposit is dust
  Threshold,      \* RebalanceThresholdAmount, a percentage
  MaxRebalance,   \* MaxRebalancePercentPerCycle
  Buffer,         \* MinLiquidUSDCBuffer, in units
  MaxRetries,     \* reductions of a swap before it is given up
  Excess          \* units a simulation may answer above what goes in

Percent == 0..100

\* A target belongs to a pool of the market data; a position may be in a pool
\* that is no longer listed there.
ASSUME PlannerAssumption ==
  /\ TokenA \in [Pools -> Denoms]
  /\ Tvl \in [Pools -> Nat \ {0}] /\ TotalShares \in [Pools -> Nat \ {0}]
  /\ {Parts, Precision, Dollar, MaxRetries} \subseteq Nat \ {0}
  /\ {Threshold, MaxRebalance} \subseteq Percent /\ {Buffer, Excess} \subseteq Nat
  /\ \A i \in Inputs :
       /\ i.liquid \in Nat /\ i.total \in Nat /\ i.usdcPriced \in BOOLEAN
       /\ i.swapFactor \in Percent /\ i.depositFactor \in Percent
       /\ i.listed \subseteq Pools /\ DOMAIN i.target \subseteq i.listed
       /\ \A p \in DOMAIN i.target : i.target[p] \in 0..Parts
       /\ DOMAIN i.position \subseteq Pools
       /\ \A p \in DOMAIN i.position :
            i.position[p].shares \in Nat /\ i.position[p].value \in Nat

VARIABLES
  input,        \* the arguments
  pc,           \* the loop GenerateActionPlan is in
  todo,         \* pools, or denoms, the loop has not reached
  withdrawals,  \* highLevelWithdrawals: pool to DeltaUSD
  deposits,     \* highLevelDeposits: pool to DeltaUSD
  liquid,       \* simulatedLiquidUSDC
  assets,       \* tempNonUSDCAssets, less what has been swapped
  swap,         \* the call of findViableSwapAmount in progress
  exits,        \* WITHDRAW_LP actions: shares to withdraw from a pool
  joins,        \* DEPOSIT_LP actions: USDC to deposit into a pool
  received,     \* USDC the planned exits and swaps bring, a history variable
  spent         \* USDC the planned deposits take, a history variable

analysed == <<withdrawals, deposits>>
funds == <<liquid, received, spent>>
vars == <<input, pc, todo, analysed, funds, assets, swap, exits, joins>>

NoSwap == [amount |-> 0, retry |-> 0]
Swaps == [denom : Denoms, amount : Nat, retry : 0..MaxRetries] \union {NoSwap}

TypeOK ==
  /\ pc \in {"start", "withdraw", "consolidate", "deposit", "done", "failed"}
  /\ todo \subseteq Pools \union Denoms
  /\ liquid \in Nat /\ received \in Nat /\ spent \in Nat
  /\ assets \in [Denoms -> Nat]
  /\ swap \in Swaps
  /\ exits \in [Pools -> Nat] /\ joins \in [Pools -> Nat]

Init ==
  /\ input \in Inputs
  /\ pc = "start" /\ todo = {}
  /\ withdrawals = <<>> /\ deposits = <<>>
  /\ liquid = input.liquid /\ received = 0 /\ spent = 0
  /\ assets = [d \in Denoms |-> 0]
  /\ swap = NoSwap
  /\ exits = [p \in Pools |-> 0] /\ joins = [p \in Pools |-> 0]

(***************************************************************************)
(* Validation and analysis                                                 *)
(***************************************************************************)

\* The reduction factors must be positive; a row of scoring_parameters brings
\* them back as zero.  The other checks hold of what RunCycle passes.
ValidInputs == input.swapFactor > 0 /\ input.depositFactor > 0

EmptyVault == input.total = 0 /\ input.liquid = 0

\* An empty vault total is replaced by the liquid USDC.
Total == IF input.total = 0 THEN input.liquid ELSE input.total

Refuse ==
  /\ pc = "start"
  /\ ~ValidInputs \/ (~EmptyVault /\ ~input.usdcPriced)
  /\ pc' = "failed"
  /\ UNCHANGED <<input, todo, analysed, funds, assets, swap, exits, joins>>

NothingToPlan ==
  /\ pc = "start"
  /\ ValidInputs /\ EmptyVault
  /\ pc' = "done"
  /\ UNCHANGED <<input, todo, analysed, funds, assets, swap, exits, joins>>

Involved == DOMAIN input.position \union DOMAIN input.target

\* The target value, in units / Parts.
Target(p) == IF p \in DOMAIN input.target THEN Total * input.target[p] ELSE 0

Value(p) == IF p \in DOMAIN input.position THEN input.position[p].value ELSE 0

DeltaUSD(p) == Target(p) - Parts * Value(p)

\* The deviation in percent of the target passes the threshold; without a
\* target a position is 100 percent too high.
TooHigh(p) ==
  \/ Target(p) > 0 /\ DeltaUSD(p) * 100 < -Threshold * Target(p)
  \/ Target(p) = 0 /\ Value(p) > 0 /\ Threshold < 100
TooLow(p) == Target(p) > 0 /\ DeltaUSD(p) * 100 > Threshold * Target(p)

\* applyRebalancingLimits scales DeltaUSD by the limit over the sum of all; here
\* by the limit, to stay whole: only the order of the deltas is ever used.
Capped(deltas) ==
  LET limit == Total * MaxRebalance
  IN  IF -100 * SumFunction(deltas) <= limit * Parts
      THEN deltas ELSE [p \in DOMAIN deltas |-> deltas[p] * limit]

\* analyzeRequiredChanges and applyRebalancingLimits.
Analyze ==
  /\ pc = "start"
  /\ ValidInputs /\ ~EmptyVault /\ input.usdcPriced
  /\ withdrawals' = Capped([p \in {q \in Involved : TooHigh(q)} |-> DeltaUSD(p)])
  /\ deposits' = [p \in {q \in Involved : TooLow(q)} |-> DeltaUSD(p)]
  /\ pc' = "withdraw"
  /\ todo' = DOMAIN withdrawals'
  /\ UNCHANGED <<input, funds, assets, swap, exits, joins>>

(***************************************************************************)
(* Withdrawals                                                             *)
(***************************************************************************)

\* a / b to the nearest whole number; a tie may go either way, as the binary
\* value of the fraction is above or below it.
Nearest(a, b) ==
  {r \in {a \div b, a \div b + 1} : 2 * (a - r * b) <= b /\ 2 * (r * b - a) <= b}

\* Mutant: the ratio is cut off.
TargetShares_Truncated(p) ==
  {(((Target(p) * Precision) \div (Tvl[p] * Parts)) * TotalShares[p]) \div Precision}

\* calculateTargetShares: the ratio of target and TVL is printed with six
\* digits, multiplied with the shares of the pool and cut off.
TargetShares(p) ==
  {(ratio * TotalShares[p]) \div Precision :
     ratio \in Nearest(Target(p) * Precision, Tvl[p] * Parts)}

\* sharesToWithdraw; the position exists, its value is what makes it too high.
Surplus(p) == {input.position[p].shares - target : target \in TargetShares(p)}

Worth(p, shares) == (shares * Tvl[p]) \div TotalShares[p]

\* SimulateLeavePool, with an answer validateExitEstimation takes: amounts in
\* USDC and in the pool's other token, of which it checks only that there is one.
ExitEstimates(p, shares) ==
  LET most == Worth(p, shares) + Excess
  IN  {e \in [usdc : 0..most, other : 0..most] : e.usdc + e.other <= most}

\* The loop takes the largest withdrawal next.
WithdrawNext(p) ==
  /\ pc = "withdraw"
  /\ p \in todo
  /\ \A q \in todo : withdrawals[p] <= withdrawals[q]
  /\ todo' = todo \ {p}

SkipWithdrawal(p) ==
  /\ WithdrawNext(p)
  /\ \E shares \in Surplus(p) : shares <= 0
  /\ UNCHANGED <<input, pc, analysed, funds, assets, swap, exits, joins>>

\* The pool is not listed, or its exit cannot be simulated: no plan at all.
AbortWithdrawal(p) ==
  /\ WithdrawNext(p)
  /\ \E shares \in Surplus(p) : shares > 0
  /\ pc' = "failed"
  /\ UNCHANGED <<input, analysed, funds, assets, swap, exits, joins>>

\* Mutant: a negative number of shares is withdrawn.
LeavePool_Unchecked(p) ==
  /\ WithdrawNext(p)
  /\ p \in input.listed
  /\ \E shares \in Surplus(p) :
       /\ exits' = [exits EXCEPT ![p] = shares]
       /\ UNCHANGED <<funds, assets>>
  /\ UNCHANGED <<input, pc, analysed, swap, joins>>

\* The exit asks for USDC; what comes in another token is left to be swapped.
LeavePool(p) ==
  /\ WithdrawNext(p)
  /\ p \in input.listed
  /\ \E shares \in Surplus(p) :
       /\ shares > 0
       /\ exits' = [exits EXCEPT ![p] = shares]
       /\ \E e \in ExitEstimates(p, shares) :
            /\ liquid' = liquid + e.usdc
            /\ received' = received + e.usdc
            /\ assets' = [assets EXCEPT ![TokenA[p]] = @ + e.other]
  /\ UNCHANGED <<input, pc, analysed, spent, swap, joins>>

FinishWithdrawals ==
  /\ pc = "withdraw" /\ todo = {}
  /\ pc' = "consolidate"
  /\ todo' = {d \in Denoms : assets[d] > 0}
  /\ UNCHANGED <<input, analysed, funds, assets, swap, exits, joins>>

(***************************************************************************)
(* Consolidation                                                           *)
(***************************************************************************)

\* Mutant: an asset that could not be swapped is tried again.
StartSwap_Again(d) ==
  /\ pc = "consolidate" /\ swap = NoSwap
  /\ d \in todo
  /\ todo' = {e \in Denoms : assets[e] > 0}
  /\ swap' = [denom |-> d, amount |-> assets[d], retry |-> 0]
  /\ UNCHANGED <<input, pc, analysed, funds, assets, exits, joins>>

StartSwap(d) ==
  /\ pc = "consolidate" /\ swap = NoSwap
  /\ d \in todo
  /\ todo' = todo \ {d}
  /\ swap' = [denom |-> d, amount |-> assets[d], retry |-> 0]
  /\ UNCHANGED <<input, pc, analysed, funds, assets, exits, joins>>

Trying == swap # NoSwap /\ swap.amount > 0 /\ swap.retry < MaxRetries

\* SimulateSwap: an amount of USDC.
SwapEstimates(amount) == 0 .. amount + Excess

SwapViable ==
  /\ Trying
  /\ \E out \in SwapEstimates(swap.amount) :
       /\ liquid' = liquid + out
       /\ received' = received + out
  /\ assets' = [assets EXCEPT ![swap.denom] = @ - swap.amount]
  /\ swap' = NoSwap
  /\ UNCHANGED <<input, pc, todo, analysed, spent, exits, joins>>

\* The simulation fails or the slippage is too high: the amount is reduced, and
\* the product rounded to a whole number of the smallest unit.
SwapReduced ==
  /\ Trying
  /\ \E amount \in Nearest(swap.amount * input.swapFactor, 100) :
       swap' = [swap EXCEPT !.amount = amount, !.retry = @ + 1]
  /\ UNCHANGED <<input, pc, todo, analysed, funds, assets, exits, joins>>

\* No viable amount: the asset is skipped and stays in the vault.
SwapAbandoned ==
  /\ swap # NoSwap /\ ~Trying
  /\ swap' = NoSwap
  /\ UNCHANGED <<input, pc, todo, analysed, funds, assets, exits, joins>>

FinishConsolidation ==
  /\ pc = "consolidate" /\ swap = NoSwap /\ todo = {}
  /\ pc' = "deposit"
  /\ todo' = DOMAIN deposits
  /\ UNCHANGED <<input, analysed, funds, assets, swap, exits, joins>>

(***************************************************************************)
(* Deposits                                                                *)
(***************************************************************************)

\* maxAvailableForDeposit.
Available == Max({liquid - Buffer, 0})

\* targetUSDCAmount, in units / Parts.
Wanted(p) == Min({deposits[p], Parts * Available})

\* The loop takes the largest deposit next.
DepositNext(p) ==
  /\ pc = "deposit"
  /\ p \in todo
  /\ \A q \in todo : deposits[p] >= deposits[q]
  /\ todo' = todo \ {p}

\* Dust, or neither the wanted nor the reduced amount can be simulated within
\* the slippage limit.
SkipDeposit(p) ==
  /\ DepositNext(p)
  /\ UNCHANGED <<input, pc, analysed, funds, assets, swap, exits, joins>>

\* findViableDepositAmount: the wanted amount, rounded to a whole unit, or what
\* is left of it when it is reduced once.
ViableDeposits(p) ==
  {amount \in UNION {{whole, (whole * input.depositFactor) \div 100} :
                        whole \in Nearest(Wanted(p), Parts)} : amount > 0}

\* Mutant: the liquid USDC is not updated.
JoinPool_NotDeducted(p) ==
  /\ DepositNext(p)
  /\ Wanted(p) >= Parts * Dollar
  /\ \E amount \in ViableDeposits(p) :
       /\ joins' = [joins EXCEPT ![p] = amount]
       /\ spent' = spent + amount
  /\ UNCHANGED <<input, pc, analysed, liquid, received, assets, swap, exits>>

JoinPool(p) ==
  /\ DepositNext(p)
  /\ Wanted(p) >= Parts * Dollar
  /\ \E amount \in ViableDeposits(p) :
       /\ joins' = [joins EXCEPT ![p] = amount]
       /\ liquid' = liquid - amount
       /\ spent' = spent + amount
  /\ UNCHANGED <<input, pc, analysed, received, assets, swap, exits>>

FinishDeposits ==
  /\ pc = "deposit" /\ todo = {}
  /\ pc' = "done"
  /\ UNCHANGED <<input, todo, analysed, funds, assets, swap, exits, joins>>

(***************************************************************************)
(* Specification                                                           *)
(***************************************************************************)

Withdrawing == \E p \in Pools : SkipWithdrawal(p) \/ AbortWithdrawal(p) \/ LeavePool(p)
Consolidating ==
  \/ \E d \in Denoms : StartSwap(d)
  \/ SwapViable \/ SwapReduced \/ SwapAbandoned
Depositing == \E p \in Pools : SkipDeposit(p) \/ JoinPool(p)

Step ==
  \/ Refuse \/ NothingToPlan \/ Analyze
  \/ Withdrawing \/ FinishWithdrawals
  \/ Consolidating \/ FinishConsolidation
  \/ Depositing \/ FinishDeposits

Returned == pc \in {"done", "failed"} /\ UNCHANGED vars

Next == Step \/ Returned

\* executeRPCQuery answers or fails within its timeout: a call runs on.
SimulationsEnd == WF_vars(Step)

Spec == Init /\ [][Next]_vars /\ SimulationsEnd

(***************************************************************************)
(* Properties                                                              *)
(***************************************************************************)

\* The deposits planned are covered by the liquid USDC and by what the planned
\* exits and swaps are expected to bring, and leave the buffer, whatever has
\* been skipped or reduced on the way (planner.go:673-687, 739).  A plan of
\* RebalanceCycle is one with this property.
WithinFunds ==
  /\ liquid + spent = input.liquid + received
  /\ spent > 0 => spent + Buffer <= input.liquid + received

\* No pool is both left and joined.  A withdrawal leaves the target, but for
\* half a unit of the share ratio's last digit and one share; a deposit does
\* not go beyond it by more than half a unit (planner.go:447-461, 485, 667, 696).
TowardTarget ==
  \A p \in Pools :
    /\ exits[p] > 0 =>
         LET left == input.position[p].shares - exits[p] IN
         /\ joins[p] = 0 /\ left >= 0
         /\ 2 * (Tvl[p] * Parts) * Precision * (left + 1)
              >= TotalShares[p] * (2 * Target(p) * Precision - Tvl[p] * Parts)
    /\ joins[p] > 0 => 2 * Parts * (Value(p) + joins[p]) <= 2 * Target(p) + Parts

\* GenerateActionPlan returns, although reducing a small amount by the factor
\* may leave it as it is (planner.go:777-798).
Answers == <>(pc \in {"done", "failed"})

\* "Maximum percentage of total vault value that can be withdrawn from pools
\* per cycle" (types/Scoring.go:18).
WithdrawalsCapped ==
  pc = "done" =>
    100 * SumFunction([p \in Pools |-> Worth(p, exits[p])]) <= MaxRebalance * Total
=============================================================================
