----------------------------- MODULE Settlement -----------------------------
(***************************************************************************)
(* What becomes of a phase of a plan: the planner adds sub-actions, each   *)
(* with the estimate of a simulation; internal/wallet/transactions.go      *)
(* turns them into messages with the least each must bring; the chain      *)
(* executes all the messages of the transaction, or none.                  *)
(*                                                                         *)
(* A holding is an amount of USDC, of another token or of the LP shares of *)
(* a pool, in its smallest units; tolerances are whole percentages.        *)
(***************************************************************************)
EXTENDS Integers, Sequences

CONSTANTS
  Usdc, Denoms, Pools,  \* the coins; a pool stands for its LP shares
  Offers,               \* sub-actions the planner may add
  Starts,               \* what the vault may hold, with what the planner takes it for
  One,                  \* 10^18, the decimals of a LegacyDec
  Deviation,            \* of a factor printed with %.18f from the decimal one, in 1/One
  MaxActions,           \* sub-actions of a phase, bounds the model
  MaxOut                \* amount of a coin expected or brought, bounds the model

Coins == {Usdc} \union Denoms \union Pools
Percent == 0..100
Estimates == UNION {[S -> 0..MaxOut] : S \in SUBSET Coins}

\* types.SubAction: what is given of which coin, what is expected for it.
SubAction ==
  [type : {"withdraw", "swap", "deposit"}, coin : Coins, amount : Nat \ {0},
   expects : Estimates, slippage : Int, tolerance : Percent]

\* What the planner makes sure of: an exit brings something and its estimated
\* slippage is not negative, a swap or join is within its tolerance.
ASSUME OffersAssumption ==
  /\ Usdc \notin Denoms \union Pools /\ Denoms \intersect Pools = {}
  /\ MaxActions \in Nat /\ MaxOut \in Nat /\ One \in Nat \ {0} /\ Deviation \in Nat
  /\ Starts \subseteq [held : [Coins -> Nat], reckoned : [Coins -> Nat]]
  /\ Offers \subseteq SubAction
  /\ \A a \in Offers :
       /\ a.type = "withdraw" =>
            /\ a.coin \in Pools /\ a.slippage >= 0
            /\ DOMAIN a.expects \subseteq {Usdc} \union Denoms /\ DOMAIN a.expects # {}
       /\ a.type = "swap" =>
            a.coin \in Denoms /\ DOMAIN a.expects = {Usdc} /\ a.slippage <= a.tolerance
       /\ a.type = "deposit" =>
            /\ a.coin = Usdc /\ a.slippage <= a.tolerance
            /\ \E p \in Pools : DOMAIN a.expects = {p}

VARIABLES
  pc,
  start,     \* what the vault holds before the phase
  holdings,  \* what the vault holds on the chain
  actions,   \* the sub-actions of the phase
  budget,    \* what the planner reckons the vault holds before each of them, and after
  messages,  \* the messages built
  received   \* what the messages executed have brought, a history variable

vars == <<pc, start, holdings, actions, budget, messages, received>>

\* The planner knows of the vault what was read before it, and of a phase before
\* this one only the estimates.
Init ==
  /\ pc = "planning"
  /\ \E s \in Starts : start = s.held /\ budget = <<s.reckoned>>
  /\ holdings = start
  /\ actions = <<>>
  /\ messages = <<>> /\ received = <<>>

\* h after giving an amount of a coin and getting some coins for it.
Exchanged(h, coin, amount, gets) ==
  [c \in Coins |-> h[c] - (IF c = coin THEN amount ELSE 0)
                        + (IF c \in DOMAIN gets THEN gets[c] ELSE 0)]

(***************************************************************************)
(* The planner                                                             *)
(***************************************************************************)

\* Withdrawals, then the swaps of what they are expected to bring; or deposits.
Fits(a) ==
  \A k \in DOMAIN actions :
    <<actions[k].type, a.type>> \in {"withdraw", "swap"} \X {"swap"}
      \union {<<"withdraw", "withdraw">>, <<"deposit", "deposit">>}

\* Mutant: the sub-action need not be covered.
Plan_Uncovered ==
  /\ pc = "planning" /\ Len(actions) < MaxActions
  /\ \E a \in Offers :
       LET before == budget[Len(budget)] IN
       /\ Fits(a)
       /\ actions' = Append(actions, a)
       /\ budget' = Append(budget, Exchanged(before, a.coin, a.amount, a.expects))
  /\ UNCHANGED <<pc, start, holdings, messages, received>>

\* A sub-action is planned out of what the estimates so far leave.
Plan ==
  /\ pc = "planning" /\ Len(actions) < MaxActions
  /\ \E a \in Offers :
       LET before == budget[Len(budget)] IN
       /\ Fits(a)
       /\ a.amount <= before[a.coin]
       /\ actions' = Append(actions, a)
       /\ budget' = Append(budget, Exchanged(before, a.coin, a.amount, a.expects))
  /\ UNCHANGED <<pc, start, holdings, messages, received>>

HandOver ==
  /\ pc = "planning" /\ actions # <<>>
  /\ pc' = "building"
  /\ UNCHANGED <<start, holdings, actions, budget, messages, received>>

(***************************************************************************)
(* Messages                                                                *)
(***************************************************************************)

ValidSlippage(a) == a.tolerance \in Percent /\ a.slippage \in Percent

ValidSwap(a) ==
  /\ a.amount > 0 /\ a.coin # Usdc
  /\ ValidSlippage(a)

ValidDeposit(a) ==
  /\ a.amount > 0
  /\ ValidSlippage(a)

\* A coin estimated at nothing is refused, and with it the whole plan.
ValidWithdraw(a) ==
  /\ a.amount > 0
  /\ DOMAIN a.expects # {} =>
       ValidSlippage(a) /\ \A c \in DOMAIN a.expects : a.expects[c] > 0

\* validateSubAction.
Valid(a) ==
  \/ a.type = "swap" /\ ValidSwap(a)
  \/ a.type = "deposit" /\ ValidDeposit(a)
  \/ a.type = "withdraw" /\ ValidWithdraw(a)

\* What 1 - tolerance may be when it has been computed in binary and printed with
\* the decimals of One: none but 0 and 1 is exact.  In 1/One.
Factors(tolerance) ==
  {f \in 0..One :
     LET off == 100 * f - (100 - tolerance) * One
     IN  /\ off <= 100 * Deviation /\ -off <= 100 * Deviation
         /\ tolerance \in {0, 100} => off = 0}

\* Mutant: the part given up in place of the part kept.
Tolerated_Lost(amount, factor) == (amount * (One - factor)) \div One

\* Mutant: the tolerance is added.
Tolerated_Added(amount, factor) == (amount * (One + (One - factor))) \div One

\* The part of an amount that must come, cut off.
Tolerated(amount, factor) == (amount * factor) \div One

\* A minimum of nothing becomes one.
AtLeastOne(n) == IF n > 0 THEN n ELSE 1

\* createSwapMessage, createDepositLPMessage refuse to give up everything.
Tradable(a) == \A c \in DOMAIN a.expects : a.expects[c] = 0 \/ a.tolerance < 100

\* calculateMinimumSwapAmount, calculateMinimumShares.
TradeLeast(a, factor) ==
  [c \in DOMAIN a.expects |->
     IF a.expects[c] = 0 \/ a.tolerance = 0 THEN 1
     ELSE AtLeastOne(Tolerated(a.expects[c], factor))]

\* calculateMinimumWithdrawAmounts; without an estimate one USDC is asked for.
ExitLeast(a, factor) ==
  IF DOMAIN a.expects = {} THEN [c \in {Usdc} |-> 1]
  ELSE [c \in DOMAIN a.expects |->
          AtLeastOne(Tolerated(a.expects[c], factor))]

Accepted(a) == Valid(a) /\ (a.type # "withdraw" => Tradable(a))

TradeMessage(a, factor) ==
  [coin |-> a.coin, amount |-> a.amount, least |-> TradeLeast(a, factor)]

ExitMessage(a, factor) ==
  [coin |-> a.coin, amount |-> a.amount, least |-> ExitLeast(a, factor)]

MessageOf(a, factor) ==
  IF a.type = "withdraw" THEN ExitMessage(a, factor) ELSE TradeMessage(a, factor)

NextAction == actions[Len(messages) + 1]

BuildMessage ==
  /\ pc = "building" /\ Len(messages) < Len(actions)
  /\ Accepted(NextAction)
  /\ \E f \in Factors(NextAction.tolerance) :
       messages' = Append(messages, MessageOf(NextAction, f))
  /\ UNCHANGED <<pc, start, holdings, actions, budget, received>>

\* One sub-action that is not accepted, and nothing is sent.
RefusePlan ==
  /\ pc = "building" /\ Len(messages) < Len(actions)
  /\ ~Accepted(NextAction)
  /\ pc' = "refused"
  /\ messages' = <<>>
  /\ UNCHANGED <<start, holdings, actions, budget, received>>

\* Gas estimation, signing and broadcast; what may go wrong there is
\* TxExecution.  The transaction is in a block.
IncludeMessages ==
  /\ pc = "building" /\ Len(messages) = Len(actions)
  /\ pc' = "executing"
  /\ UNCHANGED <<start, holdings, actions, budget, messages, received>>

(***************************************************************************)
(* The chain                                                               *)
(***************************************************************************)

NextMessage == messages[Len(received) + 1]

\* What the market gives for the next message, which need not be the estimate.
Outcomes == [DOMAIN NextMessage.least -> 0..MaxOut]

Enough(got) ==
  /\ NextMessage.amount <= holdings[NextMessage.coin]
  /\ \A c \in DOMAIN got : got[c] >= NextMessage.least[c]

ExecuteMessage ==
  /\ pc = "executing"
  /\ \E got \in Outcomes :
       /\ Enough(got)
       /\ holdings' = Exchanged(holdings, NextMessage.coin, NextMessage.amount, got)
       /\ received' = Append(received, got)
  /\ pc' = IF Len(received) + 1 = Len(messages) THEN "executed" ELSE "executing"
  /\ UNCHANGED <<start, actions, budget, messages>>

\* A message fails, and what the ones before it did is undone.
RevertMessages ==
  /\ pc = "executing"
  /\ \E got \in Outcomes :
       /\ ~Enough(got)
       /\ received' = Append(received, got)
  /\ holdings' = start
  /\ pc' = "reverted"
  /\ UNCHANGED <<start, actions, budget, messages>>

\* The transaction is over, or the plan is empty and none is made.
Settled ==
  /\ pc \in {"refused", "executed", "reverted"} \/ (pc = "planning" /\ actions = <<>>)
  /\ UNCHANGED vars

(***************************************************************************)
(* Specification                                                           *)
(***************************************************************************)

Next ==
  \/ Plan \/ HandOver
  \/ BuildMessage \/ RefusePlan \/ IncludeMessages
  \/ ExecuteMessage \/ RevertMessages
  \/ Settled

Spec == Init /\ [][Next]_vars

(***************************************************************************)
(* Properties                                                              *)
(***************************************************************************)

Message == UNION {{MessageOf(a, f) : f \in Factors(a.tolerance)} : a \in Offers}

TypeOK ==
  /\ pc \in {"planning", "building", "executing", "refused", "executed", "reverted"}
  /\ start \in [Coins -> Nat] /\ holdings \in [Coins -> Nat]
  /\ actions \in Seq(Offers)
  /\ budget \in Seq([Coins -> Nat]) /\ Len(budget) = Len(actions) + 1
  /\ messages \in Seq(Message) /\ Len(messages) <= Len(actions)
  /\ received \in Seq(Estimates) /\ Len(received) <= Len(messages)

\* All that was estimated has come but for the tolerated part, what the factor
\* adds to that, and one for the cut-off.
Covers(got, expected, tolerance) ==
  expected * ((100 - tolerance) * One - 100 * Deviation) < 100 * (One * (got + 1))

\* Every sub-action of an executed transaction has brought, of every coin
\* estimated, all but the tolerated part, what the binary factor adds to that and
\* one for the cut-off (DEV-NOTES.md:50), however the market moved since the
\* estimate.  A swap or deposit with tolerance zero is the exception: it accepts anything
\* (transactions.go:514-517, 634-637).
WithinTolerance ==
  pc = "executed" =>
    \A k \in DOMAIN actions : LET a == actions[k] IN
      a.type = "withdraw" \/ a.tolerance > 0 =>
        \A c \in DOMAIN a.expects : Covers(received[k][c], a.expects[c], a.tolerance)

\* A transaction is reverted only when the vault held less than the planner took
\* it for, or a message has brought less than the positive estimate it was
\* planned with: while both hold, the swaps find the tokens of the withdrawals
\* before them, the deposits their USDC, and no minimum asks for more than was
\* estimated.  An estimate of nothing is the exception: one unit is asked for all
\* the same (transactions.go:514, 634).
RevertsJustified ==
  pc = "reverted" =>
    \/ \E c \in Coins : start[c] < budget[1][c]
    \/ \E k \in DOMAIN received : \E c \in DOMAIN actions[k].expects :
         received[k][c] < actions[k].expects[c] \/ actions[k].expects[c] = 0
=============================================================================
