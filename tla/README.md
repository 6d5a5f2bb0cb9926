# A verification model of the Elys LP rebalancing vault manager

The Autonomous Vault Manager (AVM) is one Go process. Every ten minutes it reads
a vault on the Elys chain, scores liquidity pools, plans, and moves funds of the
vault with at most two transactions, withdrawals first and deposits second. What
it did is a row of a PostgreSQL table. This directory holds TLA+ modules of that
process, TLC runs over small instances and TLAPS proofs for all instances.

## Inventory

| Part (source) | State it keeps | Operations | Talks to | What makes it correct |
|---|---|---|---|---|
| Main loop (`cmd/avm/main.go`, `internal/avm/avm.go`) | scoring parameters in memory; the snapshot being filled | start, `RunLoop`, `RunCycle` | all the parts below, by calls, on one goroutine | the deposits of a cycle only after its withdrawals; what has been executed is recorded, nothing else is; every cycle ends |
| Vault client (`internal/vault/live.go`) | gRPC connection | four queries, `ExecuteActionPlan`, `waitForTransactionInclusion` | node (gRPC, RPC), wallet | a plan takes effect at most once; success only after inclusion; every call answers |
| Wallet (`internal/wallet/client.go`) | key ring, a new signing client per call | account query, gas simulation, sign, broadcast, query by hash | node | the account sequence is never used for two transactions |
| Messages (`internal/wallet/transactions.go`) | none | sub-actions to messages, minimum amounts | wallet | what is executed is within the tolerance; a transaction whose estimates hold is not reverted |
| Planner (`internal/planner/planner.go`) | simulated liquid USDC and assets, inside a call | `GenerateActionPlan` and its loops | simulations | deposits are covered and leave the USDC buffer; no pool is moved past its target; the cap on withdrawals (documented, without effect in the code) |
| Analyzer (`internal/analyzer`) | locked allocations, inside a call | scores, selection, target allocations | the pools that were read | no pool is selected for a worse one; allocations within their bounds, in the order of the scores, and summing to one |
| Data fetching (`internal/datafetcher`) | lists and maps put together inside a call | pools, tokens, prices, volumes, APRs | node (gRPC), price and volume services (HTTP) | all pools that may be held are read, each with its own data; incomplete data is refused; a fault that passes is survived |
| Simulations (`internal/simulations`) | none | swap, join and exit estimates | node | errors are not taken for estimates |
| State (`internal/state`) | tables `cycle_counter`, `scoring_parameters`, `cycle_snapshots` | increment, save and load parameters, insert snapshot, analytics queries | PostgreSQL | cycle numbers increase; parameters survive a restart |
| Dashboard (`internal/web`) | none | read-only REST queries | state | none: it changes nothing |
| Maintenance (`scripts/reset_db.go`) | none | drops and creates all tables | state | run only while the process is down |
| Configuration, logging, types, conversions | none that changes after the start | | | |

The process has one goroutine that does the work (the dashboard only reads), so
its concurrency is with what is outside: the chain, which includes a transaction
late, reverts it, or drops it; depositors of the vault; the operator who kills
the process or resets the database. The hard behaviours are all of that kind: an
account sequence that is stale when it is used, a broadcast whose reply is lost,
a transaction that executes after the polls ran out, a restart between a
transaction and its record, a balance read before planning and spent after,
parameters that are not what they were before the restart. The data a cycle needs
comes from six sources in lists that are paged, filtered and matched by position.
`PROJECT.json` lists each of them at its line under "hazards".

## Modules

| Module | Models |
|---|---|
| `Chain` | mempool and ledger of the signing account, as the code uses them (external) |
| `TxExecution` | one call of `ExecuteActionPlan` after another, with everything it calls |
| `PlanPromise` | what `ExecuteActionPlan` promises: no sequences, mempool or polls |
| `VaultPromise` | what the loop promises of the vault and its history: no transactions, polls, restarts or database |
| `RebalanceCycle` | the process: start, loop, every step and early return of `RunCycle`, crash, restart, reset; the vault's funds; the database rows |
| `Planner` | one call of `GenerateActionPlan`: validation, analysis, withdrawals, swaps, deposits |
| `Allocation` | `SelectTopPools` and `DetermineTargetAllocations` |
| `ParameterStore` | the scoring parameters in memory and in their table: load, save, failed starts, reset |
| `MarketData` | what `RunCycle` reads before it decides: `GetTradableDenoms`, `GetPools`, `GetTokens` |
| `Scoring` | `CalculatePoolScores`, the score of a pool by its data and the parameters |
| `Analysis` | the way from the sources to the allocations: `MarketData`, then `Scoring`, then `Allocation` |
| `Settlement` | a phase of a plan from its estimates through its messages to what the chain makes of it |
| `MC...` | the finite instances for TLC |
| `..._proofs` | theorems about `TxExecution`, `RebalanceCycle` (`Vault_proofs`: what it does to the vault), `Planner`, `Allocation`, `Settlement`, `MarketData` and `Analysis` |

`RebalanceCycle` extends `TxExecution`, which extends `Chain`: the loop makes a
call with `Execute` (the two phases of a cycle), the call proceeds with
`CallStep`, and the loop takes the answer with `Return`. `TxExecution` has a
specification of its own (`TxSpec`) in which any plan may be handed in, once;
that the loop is one such environment is checked (`ExecutionRespected`) and
proved. `RebalanceCycle` extends `ParameterStore` too: the process is "down" until
the parameters are loaded or saved, each statement of that being a step.
`Analysis` extends `MarketData`, `Scoring` and `Allocation`: a read that completes
(`step` is "fetched") is scored, and what is scored is the input of `Allocation`.
`Planner` and `Settlement` are calls without a partner that runs beside them; each
is a module of its own with its arguments as a constant set. They meet in what one
leaves to the next: `Allocation` gives the targets of `Planner`; a plan of
`RebalanceCycle` (`Plans`) is a pair of amounts with `WithinFunds`, the property of
`Planner`; a sub-action of `Settlement` (`Offers`) is one that `Planner` may add;
`FetchMarket` and `AbortFetch` of `RebalanceCycle` are a whole read of `MarketData`.

### State and actions

*`Chain`.* A transaction is the call it belongs to and the account sequence it is
signed with. `mempool` is what the node has accepted, `ledger` what blocks have
included, with a code that is `Success` or `Reverted`. `Accept` demands the
sequence after the committed and pending ones (CheckTx), `Include` takes the next
one, `Evict` drops one. Which faults a run may show is the constant `Faults`:
`refused` (a local step fails), `rejected` (CheckTx), `lost` (the reply of a
broadcast), `query` (a query of the node), `evicted`, `reverted`, `crash`,
`store` (a database statement), `foreign` (depositors).

*`TxExecution`.* `stage` is where the call stands; `ReadSequence` is
`GetAccount`, `BroadcastAccepted`, `BroadcastRejected` and `BroadcastLost` are the
outcomes of `BroadcastTx`, and `PollFound`, `PollMissed` and `PollExhausted` the
passes of `waitForTransactionInclusion`. `PrepareFails` and `SignFails` stand for
every error return before the broadcast. `BroadcastRejected` covers the non-zero
code of a broadcast, which `internal/wallet/client.go` passes on and
`validateTransactionResponse` of `live.go` refuses. Gas estimation changes nothing
and has a default, so it is not a step. `outcome` is a history variable: the
answer each plan has got.

*`RebalanceCycle`.* The vault is two amounts in whole dollars, liquid USDC and the
value of its positions. `pc` is where `RunCycle` stands, `view` what it has read:
positions and liquid USDC are two queries at two moments, and two history fields
remember when the first was made; the total is a third query, of which only the
failure matters here. `Done` and `History` map it to `VaultPromise`, in which a phase
is withdrawn, deposited or reverted at once, and a row is a cycle with its phases. A plan is what it withdraws and what it deposits: any pair
the planner's bounds allow (`Plans`). `Settle` is what a successful transaction
does to the vault, less up to `Slip` dollars; `Executable` is when it cannot
succeed. `Save` is `saveCycleSnapshot`, whose error is logged and dropped; the
code saves before it returns, so it is part of the action that ends the cycle.
`NextNumber` is the counter statement, whose failure puts a number from the clock
in its place (`Fallback`). `Plannable` is what the planner thinks of the parameters;
where it fails, `AbortPlan` is the only way on. The cycle's queries around the two
transactions (`captureVaultState`) feed only the receipts, which are not modelled.

*`ParameterStore`.* The parameters are two groups of values: those with a column in
`scoring_parameters`, and the two reduction factors of the planner, which have none
and are zero once loaded. `rows` is what is committed, `written` what the open
transaction of `SaveScoringParameters` sees. A failed statement rolls back, and the
process exits; a commit may take effect although its answer is an error. A query
that fails is taken for a row that is missing (`SaveDefaults`), and then the version
is taken (`InsertRefused`).

*`Planner`.* `pc` is the loop the call is in and `todo` what that loop has not
reached. `withdrawals` and `deposits` are the lists of `analyzeRequiredChanges` as
functions from pool to DeltaUSD; their order, by DeltaUSD, is a guard
(`WithdrawNext`, `DepositNext`), with ties in any order as `sort.Slice` leaves
them. `swap` is the running `findViableSwapAmount` with its amount and its number
of retries. `exits` and `joins` are the actions planned. A simulation fails or
answers any amounts, zero included, up to `Excess` above what goes in
(`ExitEstimates`, `SwapEstimates`); `validateExitEstimation` looks at none of them.
What the vault holds, and what is planned, is whole smallest units of USDC, and every
token has the price one. What the code rounds is rounded here: the share ratio
(`TargetShares`, to `Precision`), the reduced amounts, and the amount of a deposit
(`Float64ToSDKInt`). Targets and deviations are counted in a `Parts`-th of a unit, so
a wanted deposit may lie between two units and be rounded up; what is available is
whole, as the buffer is, so the rounding never reaches into the buffer. `received`
and `spent` are history variables.

*`Allocation`.* A part of the vault is a whole number of `Parts`. `low` and `high`
are the pools in `lockedAllocations`, by the bound they are locked at. Shares are
compared after multiplying out, so no quotient is rounded; the small tolerances
the code allows for floating-point errors are zero. `pc` ends as `done` or as the
error return that was taken.

*`MarketData`.* `market` is what the six sources hold, fixed for the read but for
the prices, of which a token may have one at one moment and none at another.
`NextPage` is a page of `PoolAll`; `fetched` and `infos` are the two lists the pages
make. The infos of a page are what the node sends (`market.infos`): as many as the
pools and in their order, or fewer, more or in another order. `Supported` keeps the positions `filterSupportedPools` keeps, and `InfoOf` the
info at the same position. `FetchTokens` to `TokensRead` are one call of `GetTokens`,
made by `GetPools` and then by `RunCycle`. The pages of 500 entries or prices are one
step: both are put together before anything is looked at. `RefuseToken` is
`validateTokenMetadata`, which ends the read for an entry without a name or decimals
though it has no price; `HistoryFails` is a request for the prices of a token that
fails, sent again up to `MaxRetries` times. The faults `prices` and `yields` are the
entries `FetchAllTokenPrices` and `getPoolAPRs` refuse: none, one without a denom or a
pool, a pool twice. `Build` puts a pool
together, and makes USDC its second token; `Sane` stands for the validations that
look at one field at a time. `Refuse` is every error return: the read fails as a
whole. `silent` is a node that does not answer.

*`Scoring`.* Scores are whole numbers: every part is multiplied by what the code
divides by (`Scale`), and the logarithm is a constant function (`Log`). Left out is
what no pool of this process has, because `GetPools` sets none of it: a current
position, a sentiment, an age other than 30 days.

*`Analysis`.* `ScorePools` scores all pools or none and hands the scores to
`Allocation` as the scores of its input.

*`Settlement`.* A holding is an amount of USDC, of another token, or of the LP
shares of a pool. `budget` is what the planner reckons the vault holds before each
sub-action; each is planned out of it (`Plan`). It begins with what was read before
the cycle and what the phase before is expected to bring, which need not be what
the vault holds when the messages execute (`start`). `BuildMessage` is one pass of the
loop of `SubActionsToMessages`, `RefusePlan` its error returns. `Tolerated` is the
product with the tolerance factor, cut off; the factor is any of `Factors`: a whole
number of 1/`One`, the digits `%.18f` prints, that is off the exact one by at most
`Deviation`, as it comes from binary arithmetic. `ExecuteMessage` gives what the
market gives, whatever was estimated; `RevertMessages` undoes the messages before
it. What happens between broadcast and block is `TxExecution`.

## Runs

| Run | Question | Result |
|---|---|---|
| `tx_execution` | three plans, two polls, all faults of the chain and the process | each plan reaches the chain at most once; one transaction pending at most; success only after inclusion; every call answers; `PlanPromise` is implemented |
| `tx_success` | does success mean executed? | no: the code of an included transaction is not looked at |
| `tx_failure` | does an error mean no effect? | no: the transaction may execute after the polls |
| `cycle_safety` | two cycles, all faults of the chain, the queries, the database and the process | deposits after withdrawals, snapshots list exactly what was included, rows in the order of the cycles, saved parameters are found again, buffer kept by an undisturbed cycle and left by its deposit; `VaultPromise` is implemented |
| `cycle_liveness` | two cycles, all faults of the chain, depositors | each cycle ends, each executed one is recorded, the loop respects `TxSpec`, buffer kept by an undisturbed cycle |
| `cycle_buffer` | does every deposit leave the buffer? | no: a late deposit of an earlier cycle and the one of this cycle both execute |
| `cycle_restart` | does a later cycle correct what a crash between the two transactions left? | no: the parameters the restart loads are refused by the planner |
| `planner` | portfolios of three pools, one no longer listed, with estimates and totals that are off | deposits covered, buffer left, no pool moved past its target, the call returns |
| `planner_cap` | does the cap bound the withdrawals? | no: it scales a field they do not read |
| `allocation` | the sources, the scores and the allocations of up to five pools, with everything that can be wrong with the sources | all pools that may be held are read, each with its own data; the read ends well when nothing is wrong; no pool is selected for a worse one or gets less than it; order and bounds kept, the vault taken up unless every pool is locked, the iterations are enough |
| `allocation_justified` | is the allocation refused only when there is none? | no: with the default parameters and one dominant score it is refused although one exists |
| `settlement` | two sub-actions in a market that moves | what is executed is within the tolerance, a revert has its cause in the market or in what was reckoned |

Bounds of the cycle. `MaxAttempts` is 30 in the code; the polls differ only in
being the last or not, so 2 covers both kinds, and 1 is used where only the answer
matters. Three plans let two be in conflict with a third still to come; two cycles
let a late transaction, a restart or a reset fall between them and into the next,
with four plans. `MaxValue` bounds the dollars of the vault, `Buffer` is between
zero and it, so that both a withdrawal and a deposit fit on either side of the
buffer. `MaxForeign` is the number of changes by depositors: one is enough to make
a view stale. `Fallback` is one number above those of the counter: after it the
rows go back. `MaxRuns`, `MaxForeign` and `MaxValue` bound the model, not the
program.

Bounds of the calls. `Planner` has two listed pools with different tokens and
prices of a share, and one that is not listed; positions that are worth what was
estimated or not, targets for one pool or both, liquid USDC below, at and above
the buffer. `Parts` 4 and `Precision` 8 (10^6 in the code) make the rounding of
the deposits and of the share ratio visible in small numbers; `Excess` is one unit
(zero in `planner_cap`, where the prices are exact); `MaxRetries` 3 (20 in the code) is
enough for a swap to succeed first, later or never. `Analysis` has two kinds of
markets. The wide ones are in order and give each of four pools, two of them with
ELYS, one of five profiles, with scores from negative to dominant; they meet
selections of none to all, and bounds that fit, that contradict each other and that
cannot be met. The narrow ones have everything that can be wrong with a source, alone
and together with a failing history of prices and a pool with invalid data that may not be held:
an info missing on the last page where it is needed and where it is not, one too many, two
swapped on a later page, an invalid one, an entry refused that is priced, not priced or
skipped, refused prices and APRs.
`PageSize` 2 (1000 in the code) makes three pages with a pool of three assets and one
that may not be held before the pools that count; `MaxRetries` is the code's 3, with
outages of zero to three requests. The weeks have a zero, one in the future, one a
year old, duplicates, and an order that is not theirs. `MaxIterations` is 3, so that
the cut-off is reached (it is 20 in the code and in `allocation_justified`).
`Settlement` has amounts zero, one and four, tolerances
none, part and all, a reckoning that is right or one too high, and two sub-actions:
enough for one to depend on the other. `One` is 4 there and `Deviation` 1, far coarser
than 10^18 and the at most 83 that every tolerance of a whole hundredth of a percent
shows: a factor that is off must move the minimum of four units in both directions, as the
real one moves that of an amount above about 10^16 units. `WithinTolerance` allows for the
deviation in proportion to the amount, so it is as exact as the code's arithmetic is,
for LP shares with 18 decimals too.

Fairness. The steps of a call and of a cycle are those of one goroutine: sleeps are
finite, and the queries of the vault, the broadcast, the polls and the HTTP requests
have timeouts. So weak fairness of `CallStep`, `Return` and `CycleStep`, and none of
the chain, the ticker, the operator or the depositors. Four queries of the data
fetchers (`PoolRetriever.go:70`, `:476`, `Tokens.go:261`, `:326`) and the simulation
of the gas (`transactions.go:71`) have no deadline: for `CycleStep` and `CallStep`
the assumption is that the node answers them or the connection breaks. `MarketData`
does not assume it: there `silent` is a fault, the read may stop for good
(`Stopped`), and `SoundMarketRead` claims an end only without it. Its fairness is
that of `ReadStep`, which is not enabled while the node is silent. In the liveness
run of the loop the process is not killed: what a killed process leaves unrecorded
stays so. Process start, `BeginCycle` and restarts are not fair either. `Planner` has
weak fairness of its steps (`SimulationsEnd`): the HTTP client of a simulation has
a timeout. `Settlement` has no liveness property and no fairness.

## Findings

Each violation run is a disagreement between the code and what the repository says
of it, quoted in `PROJECT.json` under "findings": a reverted transaction counts as
success (`tx_success`); an error is taken to mean that nothing happened
(`tx_failure`); the buffer is checked against balances read earlier
(`cycle_buffer`); the state left by a crash is not corrected by a later cycle, because
the parameters lose two of their values in the database (`cycle_restart`); the cap on
withdrawals has no effect (`planner_cap`); an allocation is refused although there is
one (`allocation_justified`).

Smaller disagreements met on the way, without a run: `MinTVLThreshold` is "Minimum $50k
TVL required for pool consideration" (`config/Parameters.go:131`) but only a floor of
the TVL that is scored (`CalculatePoolScore.go:523`); zero is accepted for it by `ValidateScoringParameters` and
refused by `CalculateLiquidityScore`; `AgeInDays` is always 30, so that with the
default `PoolMaturityDays` no pool is ever new; `Snapshots.go:29` says that all
hashes broadcast are listed, but that of a transaction whose polls ran out is not;
`finalizeFailedSnapshot` writes the initial state as the final one also after a
withdrawal that executed; the count "incomplete pool data" (`PoolRetriever.go:185`) finds
infos that do not reach the last supported pool, not those that are misplaced: then
pools are built with the TVL of others (`Told` says which).

## Proofs

Each theorem holds for every value of the constants that satisfies the named
assumptions of the module, which TLC evaluates in its runs.

*`TxExecution_proofs`* (`CallsNotEmpty`, `FaultsAssumption`,
`MaxAttemptsAssumption`): type correctness, `OnePending`, `OncePerPlan`,
`SuccessIncluded`, and `KeepsPromise`: every step of `TxSpec` is a step of
`PlanPromise` or a stutter under the mapping of the run. The invariants are not
inductive: "at most one pending" needs to know that the sequence just read is not
beyond the committed one when it is used. `TxInv` adds that (`SequenceBound`), that
a pending transaction carries the next sequence (`PendingIsNext`), that the ledger
holds 0, 1, 2, ... (`LedgerSequences`), that a plan not yet broadcast is not on the
chain (`CurrentNotSent`), that only plans handed in are (`SentWasCalled`) and that
the running call is the current one (`OneRunning`). `AcceptsWhenEmpty` is the core:
CheckTx accepts a plan only when nothing is pending. `CallRunsDown` counts what is left
of a call (`StepsLeft`): at most `MaxAttempts` + 2 steps, and only a new call adds any.

*`RebalanceCycle_proofs`*: type correctness, `LoopIsEnvironment` (a step of the
loop is a step of `TxExecution` or a stutter, so what is proved of it holds here),
`WithdrawalFirst`, `HashesIncluded` and `RowsOrdered`. `LoopInv` adds to `TxInv`
which plan belongs to which place of the cycle (`PhaseInv`, `UsedInv`), that an
answer of success is about a transaction in a block (`AnswerInv`), that the hashes
collected so far are (`HashesInv`), and what the rows and the counter have to do
with each other (`SnapsInv`). Without `PhaseInv` nothing keeps a deposit of one
cycle apart from the withdrawal of the next. `SavedIsFound` is about `ParameterStore`
inside the loop: as long as the transaction that deactivates a row has not inserted
its own, it cannot be committed. `LoopCanRelyOnCalls` puts `KeepsPromise` into the loop,
with its restarts and resets. `RecordedWhenOver` and `CycleRunsDown` are what can be proved
of `ExecutedIsRecorded` and `CycleEnds`: whenever the loop is idle the rows are there, and
a cycle has at most 2 `MaxAttempts` + 14 steps, so it is idle again once they are made.

*`Vault_proofs`*: `BufferIsKept`, `DepositsLeaveBuffer` and `VaultIsServedInOrder`, the
refinement of `VaultPromise`. `OrderInv` says that what is pending was planned after
all that is over. It holds because a phase that the node accepts was planned after all
that are over (`AcceptedIsLast`: those of earlier cycles, and the withdrawal of its own)
and because at most one transaction is pending. `KeepsVaultPromise` has
one step per action: a block finishes a phase (`BlockFinishes`), the insert of a snapshot
is a row whose phases are over (`SaveRecords`), a reset clears the history, everything
else is a stutter. `BufferInv` says that no transaction of the
cycle was there when it read the vault (`HeightInv`), that what it hands in are the
phases of the plan it has made, the deposit after the withdrawal (`PlanInv`), and how
much liquid USDC there is after none, the first and the second of them (`FundsInv`).
`PhaseIncluded` is the core: of an undisturbed cycle a block can only include a phase
that is not on the chain yet, a withdrawal before the deposit. `FundsInv` speaks of
a cycle that has found some USDC, as `ReadPositions` clears the amount read before;
with none found there is nothing to show. A cycle that begins before it reads
inherits the view of the one before, and nothing of its own is on the chain.
`DepositsLeaveBuffer` looks at the block with the deposit (`DepositIncluded`) and needs no
such distinction: below the buffer nothing is planned to be deposited.

*`Planner_proofs`* (`PlannerAssumption`): type correctness, `PlannerWithinFunds`
and `PlannerTowardTarget`, for any answers of the simulations. `PlanInv` says what
the analysis has found (`AnalysedInv`: lists hold only pools too high or too low,
with their deviation), where a loop may stand (`TodoInv`, `SwapInv`: a swap in
progress never exceeds the asset), how liquid USDC follows from the rest
(`FundsInv`), and that each action comes from its list (`ExitsInv`, `JoinsInv`).
The rounding of the share ratio is the lemma `SharesLeft`; that of a deposit is
`NearestWithin`: half a unit at most, and not above a whole amount it started within. `PlannerComesCloser`: every
step enters a later loop, has fewer pools or denoms before it (of finite sets), or fewer
tries (`TriesLeft`, at most `MaxRetries` + 1).

*`Allocation_proofs`* (`AllocationAssumption`): type correctness,
`SelectionIsBest`, `OrderIsKept`, `BoundsAreKept`, `IterationsAreEnough`.
`AllocationInv` has what each stage has established (`StageInv`, `SettledInv`),
that each iteration locks a pool (`ProgressInv`), and that the pools locked at
their minimum are the worst and those at the maximum the best (`LockedInv`), which
is what keeps the order although the remainder changes. `SumIsKept` is about the sum of the
scores, a fold over a set. The induction over sets of the library has an operator as a
parameter; the one here has a set of sets instead (`SetsOneByOne`: a set of sets to which
a set belongs whenever it belongs without any one of its elements has every finite set),
and the lemmas follow from it: a sum is a number, it is one term and the sum of the
others, and it splits over disjoint sets. What remains for the pools that are not
locked is divided by the sum of their scores, so it is given out completely.

*`MarketData_proofs`* (`MarketAssumption`): type correctness, `AllInvestableRead` and
`PoolsHaveTheirOwn`, for any sizes of pages and lists. `MarketInv` says that the
pools read so far are a prefix of the listing, and the infos one as far as the pages
have told one for each pool (`PagesInv`, `Told`), which is what makes a position mean the
same pool in both up to the first page that has not, what volumes and APRs
have been taken (`SourcesInv`), and what a pool that was built is (`BuiltInv`).
`SoundNeverRefused` is the safety half of `SoundMarketRead`: `SoundSoFar` adds that every
token looked at so far that has a price has its history too, and that the pools are built
with all of those tokens; so each check of the read finds what it looks for. The other
half, `ReadRunsDown`: every step enters a later request (`PlaceOfRead`), or a later page,
token or try, which the type invariant bounds.

*`Analysis_proofs`* (the assumptions of its three modules): `NoneLeftForWorse`. The
score is monotone in each thing a pool can be better in (`ScoreMonotone`, by lemmas
for each of its parts), the pools scored are those that may be held with their own
data (`MarketInv`, where the pages are parallel: an assumption of both properties, as a node
that misplaces an info changes what a pool is worth), and the selection leaves out no better
score (`BestInv`, of `Allocation` alone).
The arithmetic of the parts is nonlinear, so each is reduced to products of two
factors with known signs. `NoneGetsMoreThanBetter` goes on from there to the shares, with
what keeps their order in `Allocation` (`OrderFromInv`). `ReadBeforeScoring` and `AllocationOfPoolsRead` carry the
theorems of `MarketData` and `Allocation` over to the composition: neither component is
disturbed by what comes after or before it.

*`Settlement_proofs`* (`OffersAssumption`): type correctness,
`SettlementWithinTolerance` and `SettlementRevertsJustified`, for plans of any
length. `SettleInv` says that every sub-action is covered by the planner's
reckoning (`PlannedInv`), that the messages are those of the first sub-actions in
their order (`BuiltInv`), what has been built and executed in each stage
(`StageInv`), that what has been brought is what was asked for (`BroughtInv`), and
that the vault has at least what the planner reckoned while the reckoning was right
at the start and the estimates hold (`SurplusInv`). From the last it follows that
only a shortfall reverts. The
arithmetic is `ToleratedBounds`; `MessageFacts` bounds every minimum from both
sides.

Only model-checked: liveness (`CallAnswers`, `CycleEnds`, `ExecutedIsRecorded`,
`Answers`, `SoundMarketRead`, and the fairness in `PromiseKept` and
`ExecutionRespected`). Of each of the first five the part without fairness is proved:
what is left of the call, the cycle, the plan or the read runs down, and what must be true
at the end is. That a step is enabled until then, and taken, stays with TLC, as ENABLED
and WF are beyond the prover. Every safety invariant and every safety action property of
a passing run is proved.

## Not modelled

The standard deviation of `CalculateVolatility.go` is a number the market gives, and
floating-point arithmetic is exact: formulas without state. The values of prices
matter only to weights no decision depends on. The dashboard and analytics:
read-only. Logging and configuration: nothing changes after the start. The encoding
and decoding of simulations and of the vault queries; of the latter a refusal is an
`AbortFetch`. The receipts and derived metrics of a snapshot: they are written after
everything is decided and read by nobody but the dashboard. Functions without a
caller (`ResetCycleNumber`, `GetCurrentCycleNumber`, `LoadLatestScoringParameters`).

## Plan

1. done: `Chain`, `TxExecution`, `PlanPromise`, `RebalanceCycle` and their proofs.
2. done: `Planner` (withdrawals, consolidation, deposits), `Allocation`,
   `Settlement`, and their proofs.
3. done: `ParameterStore` inside `RebalanceCycle`: what a restart does to the
   parameters.
4. done: `MarketData`, `Scoring`, `Analysis`, and their proofs.
5. done: `BufferKept` as a theorem, `VaultPromise` with its refinement, the parts of the
   liveness properties that need no fairness. Open: `Plans` of `RebalanceCycle` as a consequence of
   `Planner` by refinement instead of by its property.
6. `Receipts`: the amounts of the receipts (`calculateActualAmountUSD`) against the
   change of the vault, when a phase has several sub-actions or others move USDC.
7. `VaultQueries`: decoding of positions, extraction of pool numbers, fees from the
   events of a transaction.
