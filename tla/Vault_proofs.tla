---------------------------- MODULE Vault_proofs ---------------------------
(***************************************************************************)
(* What the loop does to the vault, for every number of cycles, every      *)
(* amount of dollars, every buffer, slippage and set of faults.            *)
(*                                                                         *)
(* BufferInv says what an undisturbed cycle leaves of the liquid USDC      *)
(* after each of its transactions, and why it is those two only: every     *)
(* plan handed in is the one the view was made into, each is on the chain  *)
(* at most once, and the deposit comes after the withdrawal whose proceeds *)
(* it spends.  OrderInv says why the phases of all cycles are over in the  *)
(* order they were planned in: what the node accepts is accepted when      *)
(* nothing else is pending.                                                *)
(***************************************************************************)
EXTENDS RebalanceCycle_proofs

\* The vault was read in the past, before any transaction of the cycle.
HeightInv ==
  /\ view.height <= Len(ledger) /\ view.foreign <= foreign
  /\ \A i \in 1..view.height : ledger[i].tx.call.run # run

\* The deposits of a plan leave the buffer if its withdrawals give what they promise.
PlanBound == plan.deposit > 0 => plan.deposit + Buffer <= view.usdc + plan.withdraw

\* The withdrawals of the plan, if it has any, have been handed in.
WithdrawalCalled ==
  \/ plan.withdraw = 0
  \/ \E c \in Calls : outcome[c] # "unused" /\ c.phase = "withdraw" /\ c.run = run

\* What the cycle hands in are the phases of the plan it has made.
PlanInv ==
  /\ pc \in {"withdraw", "withdrawing", "deposit", "depositing"} => PlanBound
  /\ pc \in {"deposit", "depositing"} => WithdrawalCalled
  /\ \A c \in Calls :
       outcome[c] # "unused" /\ c.run = run =>
         /\ c = PhaseCall(c.phase)
         /\ PlanBound
         /\ c.phase = "deposit" => WithdrawalCalled

\* A phase of the cycle is in a block since the vault was read.
Executed(phase) ==
  \E i \in view.height + 1 .. Len(ledger) : ledger[i].tx.call = PhaseCall(phase)

\* The view is that of the current cycle, with the liquid USDC in it.
ViewComplete ==
  \/ view.usdc > 0
  \/ pc \in {"total", "plan", "withdraw", "withdrawing", "deposit", "depositing", "record"}
  \/ \E c \in Calls : outcome[c] # "unused" /\ c.run = run

\* The liquid USDC after none, the first and the second of the phases.
FundsInv ==
  Undisturbed /\ ViewComplete =>
    /\ ~Executed("withdraw") /\ ~Executed("deposit") => usdc = view.usdc
    /\ Executed("withdraw") /\ ~Executed("deposit") =>
         usdc >= view.usdc /\ usdc + Slip >= view.usdc + plan.withdraw
    /\ Executed("deposit") => usdc + Slip >= Buffer

BufferInv == HeightInv /\ PlanInv /\ FundsInv

-----------------------------------------------------------------------------
\* What the invariants of the loop say of the ledger

LEMMA BufferTypes ==
  ASSUME TypeOK
  PROVE  /\ usdc \in Nat /\ lp \in Nat /\ foreign \in Nat /\ run \in Nat
         /\ view.usdc \in Nat /\ view.height \in Nat /\ view.foreign \in Nat
         /\ plan.withdraw \in Nat /\ plan.deposit \in Nat
         /\ Buffer \in Nat /\ Slip \in Nat
         /\ ledger \in Seq(Entry) /\ Len(ledger) \in Nat /\ DOMAIN ledger = 1..Len(ledger)
<1>1. usdc \in Nat /\ lp \in Nat /\ foreign \in Nat /\ run \in Nat
  BY BoundsAssumption DEF TypeOK
<1>2. view.usdc \in Nat /\ view.height \in Nat /\ view.foreign \in Nat
  BY DEF TypeOK, View
<1>3. plan.withdraw \in Nat /\ plan.deposit \in Nat /\ Buffer \in Nat /\ Slip \in Nat
  BY BoundsAssumption DEF TypeOK
<1>4. ledger \in Seq(Entry)
  BY DEF TypeOK, TxTypeOK, ChainTypeOK
<1> QED
  BY <1>1, <1>2, <1>3, <1>4

\* Every transaction in a block is of a plan handed in, of a cycle that has begun.
LEMMA LedgerFacts ==
  ASSUME LoopInv, NEW i \in 1..Len(ledger)
  PROVE  /\ ledger[i].tx \in Included /\ ledger[i].tx \in Sent
         /\ ledger[i].tx.call \in Calls /\ outcome[ledger[i].tx.call] # "unused"
         /\ ledger[i].tx.call.run \in Nat /\ ledger[i].tx.call.run <= run
<1>1. TypeOK /\ TxInv /\ TxTypeOK /\ SentWasCalled
  BY DEF LoopInv, TypeOK, TxInv
<1>2. ledger[i].tx \in Included /\ ledger[i].tx \in Sent
  BY <1>1, BufferTypes DEF Included, Sent
<1>3. ledger[i].tx.call \in Calls /\ outcome[ledger[i].tx.call] # "unused"
  BY <1>1, <1>2, SentTyped DEF SentWasCalled
<1>4. ledger[i].tx.call.run \in Nat
  BY <1>3, CallsAssumption, BoundsAssumption
<1> QED
  BY <1>2, <1>3, <1>4 DEF LoopInv, UsedInv

\* A transaction that is pending is not in a block, nor another of its plan.
LEMMA PendingIsNew ==
  ASSUME LoopInv, NEW tx \in mempool, NEW i \in 1..Len(ledger)
  PROVE  ledger[i].tx.call # tx.call
<1>1. TxInv /\ ledger[i].tx \in Included /\ tx \in Sent /\ ledger[i].tx \in Sent
  BY LedgerFacts DEF LoopInv, Sent
<1>2. SUFFICES ASSUME ledger[i].tx.call = tx.call PROVE FALSE
  OBVIOUS
<1>3. ledger[i].tx = tx
  BY <1>1, <1>2 DEF TxInv, OnePerCall
<1> QED
  BY <1>1, <1>3, TxInvOncePerPlan DEF AtMostOncePerPlan

\* Before its first phase a cycle has nothing on the chain.
LEMMA NothingExecuted ==
  ASSUME LoopInv, pc \in {"market", "positions", "liquid", "total", "plan", "withdraw"}
  PROVE  /\ \A c \in Calls : outcome[c] # "unused" => c.run # run
         /\ \A i \in 1..Len(ledger) : ledger[i].tx.call.run # run
<1>1. \A c \in Calls : outcome[c] # "unused" => c.run # run
  BY DEF LoopInv, UsedInv
<1> QED
  BY <1>1, LedgerFacts

\* In a cycle of which nothing is on the chain no phase is executed.
LEMMA NoneExecuted ==
  ASSUME TypeOK, \A i \in 1..Len(ledger) : ledger[i].tx.call.run # run
  PROVE  ~Executed("withdraw") /\ ~Executed("deposit")
BY BufferTypes DEF Executed, PhaseCall

-----------------------------------------------------------------------------
\* The plan

LEMMA PlanStep ==
  ASSUME LoopInv, PlanInv, [Next]_vars
  PROVE  PlanInv'
<1> USE DEF Goto
<1>0. /\ TypeOK /\ TxInv /\ TxTypeOK /\ call \in Calls /\ outcome \in [Calls -> Outcomes]
      /\ \A c \in Calls : c.run \in Nat
  BY BoundsAssumption, CallsAssumption DEF LoopInv, TypeOK, TxTypeOK
\* Steps that hand in nothing.
<1>1. ASSUME UNCHANGED <<run, view, plan>>,
             \A c \in Calls : outcome[c] # "unused" <=> outcome'[c] # "unused",
             pc' \notin {"withdraw", "withdrawing", "deposit", "depositing"} \/ pc' = pc
      PROVE  PlanInv'
  BY <1>1 DEF PlanInv, PlanBound, WithdrawalCalled, PhaseCall
\* Steps before the first phase.
<1>2. ASSUME run' = run, outcome' = outcome,
             pc \in {"market", "positions", "liquid", "total", "plan"},
             pc' \notin {"withdraw", "withdrawing", "deposit", "depositing"}
      PROVE  PlanInv'
  BY <1>2, NothingExecuted DEF PlanInv
<1>3. CASE Start \/ ResetDB \/ BeyondBound \/ UNCHANGED vars
  BY <1>1, <1>3, StartFacts DEF ResetDB, BeyondBound, vars, txVars, cycleVars
<1>4. CASE BeginCycle
  <2>1. /\ run' = run + 1 /\ outcome' = outcome /\ pc' = "market"
    BY <1>4 DEF BeginCycle, txVars
  <2>2. \A c \in Calls : outcome[c] # "unused" => c.run # run'
    BY <1>0, <2>1, BufferTypes DEF LoopInv, UsedInv
  <2> QED
    BY <2>1, <2>2 DEF PlanInv
<1>5. CASE FetchMarket \/ ReadPositions \/ ReadLiquid \/ ReadTotal \/ AbortFetch \/ AbortPlan
  BY <1>2, <1>5 DEF FetchMarket, ReadPositions, ReadLiquid, ReadTotal, AbortFetch, AbortPlan,
                    Continue, txVars
<1>6. CASE NoPools \/ NoActions \/ Record
  BY <1>1, <1>6 DEF NoPools, NoActions, Record, EndUnchanged, txVars
<1>7. CASE MakePlan
  <2>1. PICK p \in Plans :
          plan' = p /\ Goto("plan", IF p.withdraw > 0 THEN "withdraw" ELSE "deposit")
    BY <1>7 DEF MakePlan
  <2>2. run' = run /\ outcome' = outcome /\ view' = view
    BY <1>7 DEF MakePlan, txVars
  <2>3. \A c \in Calls : outcome[c] # "unused" => c.run # run
    BY <2>1, NothingExecuted
  <2>4. PlanBound' /\ p.withdraw \in Nat
    BY <2>1, <2>2, BoundsAssumption DEF Plans, PlanBound
  <2>5. pc' = "deposit" => plan'.withdraw = 0
    BY <2>1, <2>4
  <2> QED
    BY <2>1, <2>2, <2>3, <2>4, <2>5 DEF PlanInv, WithdrawalCalled
<1>8. CASE StartWithdrawal \/ StartDeposit
  <2>1. PICK phase \in Phases :
          /\ pc = phase /\ pc' \in {"withdrawing", "depositing"}
          /\ pc' = "depositing" => phase = "deposit"
          /\ PhaseCall(phase) \in Calls
          /\ Execute(PhaseCall(phase))
          /\ UNCHANGED <<run, view, plan>>
    BY <1>8, PhaseIsNewPlan DEF StartWithdrawal, StartDeposit, StartPhase, Phases
  <2>2. /\ outcome'[PhaseCall(phase)] = "running"
        /\ \A c \in Calls : c # PhaseCall(phase) => outcome'[c] = outcome[c]
    BY <1>0, <2>1 DEF Execute
  <2>3. /\ PhaseCall(phase).phase = phase /\ PhaseCall(phase).run = run
        /\ \A ph : PhaseCall(ph)' = PhaseCall(ph)
    BY <2>1 DEF PhaseCall
  <2>4. WithdrawalCalled => WithdrawalCalled'
    BY <2>1, <2>2 DEF WithdrawalCalled
  <2>5. PlanBound /\ PlanBound'
    BY <2>1 DEF PlanInv, PlanBound, Phases
  <2>6. phase = "deposit" => WithdrawalCalled
    BY <2>1 DEF PlanInv
  <2>7. \A c \in Calls : outcome'[c] # "unused" /\ c.run = run' =>
          /\ c = PhaseCall(c.phase)'
          /\ c.phase = "deposit" => WithdrawalCalled'
    BY <2>1, <2>2, <2>3, <2>4, <2>6 DEF PlanInv
  <2> QED
    BY <2>1, <2>4, <2>5, <2>6, <2>7 DEF PlanInv
<1>9. CASE WithdrawalSucceeds
  <2>1. /\ pc = "withdrawing" /\ pc' \in {"deposit", "record"} /\ stage = "ok"
        /\ UNCHANGED <<outcome, run, view, plan>>
    BY <1>9 DEF WithdrawalSucceeds, PhaseSucceeds, Return
  <2>2. outcome[call] = "ok" /\ call.phase = "withdraw" /\ call.run = run
    BY <2>1 DEF LoopInv, AnswerInv, PhaseInv, PhaseCall
  <2>3. WithdrawalCalled
    BY <1>0, <2>2 DEF WithdrawalCalled
  <2> QED
    BY <2>1, <2>3 DEF PlanInv, PlanBound, WithdrawalCalled, PhaseCall
<1>10. CASE DepositSucceeds \/ PhaseFails
  BY <1>1, <1>10 DEF DepositSucceeds, PhaseSucceeds, PhaseFails, Return
<1>11. CASE ExecutionStep
  <2>1. \A c \in Calls : outcome[c] # "unused" <=> outcome'[c] # "unused"
    BY <1>0, <1>11, CallStepFacts DEF ExecutionStep
  <2> QED
    BY <1>1, <1>11, <2>1 DEF ExecutionStep, cycleVars
<1>12. CASE IncludeExecuted \/ IncludeReverted \/ EvictTx \/ ForeignChange
  BY <1>1, <1>12 DEF IncludeExecuted, IncludeReverted, EvictTx, ForeignChange, execVars, txVars,
                     cycleVars
<1>13. CASE Crash
  <2>1. \A c \in Calls : outcome[c] # "unused" <=> outcome'[c] # "unused"
    BY <1>0, <1>13 DEF Crash, Kill, TxInv, OneRunning, Active
  <2> QED
    BY <1>1, <1>13, <2>1 DEF Crash
<1> QED
  BY <1>3, <1>4, <1>5, <1>6, <1>7, <1>8, <1>9, <1>10, <1>11, <1>12, <1>13
     DEF Next, Start, CycleStep, VaultStep

-----------------------------------------------------------------------------
\* Where the cycle has read the vault

\* What a block does to the ledger.
LEMMA BlockFacts ==
  ASSUME TypeOK, IncludeExecuted \/ IncludeReverted
  PROVE  \E tx \in mempool, code \in {Success, Reverted} :
           /\ Len(ledger') = Len(ledger) + 1
           /\ ledger'[Len(ledger) + 1] = [tx |-> tx, code |-> code]
           /\ \A i \in 1..Len(ledger) : ledger'[i] = ledger[i]
           /\ UNCHANGED <<outcome, foreign, cycleVars>>
           /\ IncludeReverted => code = Reverted
           /\ IncludeExecuted /\ ~IncludeReverted =>
                code = Success /\ Executable(tx.call) /\ Settle(tx.call)
<1>1. ASSUME NEW tx \in mempool, NEW code \in {Success, Reverted}, Include(tx, code)
      PROVE  /\ Len(ledger') = Len(ledger) + 1
             /\ ledger'[Len(ledger) + 1] = [tx |-> tx, code |-> code]
             /\ \A i \in 1..Len(ledger) : ledger'[i] = ledger[i]
  <2>1. [tx |-> tx, code |-> code] \in Entry
    BY DEF TypeOK, TxTypeOK, ChainTypeOK, Entry
  <2> QED
    BY <1>1, <2>1, BufferTypes DEF Include
<1>2. CASE IncludeReverted
  <2>1. PICK tx \in mempool : Include(tx, Reverted)
    BY <1>2 DEF IncludeReverted
  <2> QED
    BY <1>1, <1>2, <2>1 DEF IncludeReverted, execVars, vaultVars
<1>3. CASE IncludeExecuted /\ ~IncludeReverted
  <2>1. PICK tx \in mempool : Include(tx, Success) /\ Executable(tx.call) /\ Settle(tx.call)
    BY <1>3 DEF IncludeExecuted
  <2> QED
    BY <1>1, <1>3, <2>1 DEF IncludeExecuted, execVars
<1> QED
  BY <1>2, <1>3

LEMMA HeightStep ==
  ASSUME LoopInv, HeightInv, [Next]_vars
  PROVE  HeightInv'
<1>0. TypeOK /\ TxInv
  BY DEF LoopInv
<1>1. CASE UNCHANGED <<ledger, foreign, view, run>>
  BY <1>1 DEF HeightInv
<1>2. CASE BeginCycle
  <2>1. run' = run + 1 /\ UNCHANGED <<ledger, foreign, view>>
    BY <1>2 DEF BeginCycle, txVars, vaultVars
  <2>2. \A i \in 1..Len(ledger) : ledger[i].tx.call.run # run'
    BY <1>0, <2>1, LedgerFacts, BufferTypes
  <2> QED
    BY <1>0, <2>1, <2>2, BufferTypes DEF HeightInv
<1>3. CASE ReadPositions
  <2>1. /\ pc = "positions" /\ UNCHANGED <<ledger, foreign, run>>
        /\ view' = [NoView EXCEPT !.lp = lp, !.height = Len(ledger), !.foreign = foreign]
    BY <1>3 DEF ReadPositions, Continue, Goto, txVars, vaultVars
  <2>2. view'.height = Len(ledger) /\ view'.foreign = foreign
    BY <2>1 DEF NoView
  <2> QED
    BY <1>0, <2>1, <2>2, NothingExecuted, BufferTypes DEF HeightInv
<1>4. CASE ReadLiquid
  <2>1. UNCHANGED <<ledger, foreign, run>> /\ view' = [view EXCEPT !.usdc = usdc]
    BY <1>4 DEF ReadLiquid, Continue, txVars, vaultVars
  <2>2. view'.height = view.height /\ view'.foreign = view.foreign
    BY <1>0, <2>1 DEF TypeOK, View
  <2> QED
    BY <2>1, <2>2 DEF HeightInv
<1>5. CASE IncludeExecuted \/ IncludeReverted
  <2>1. /\ Len(ledger') = Len(ledger) + 1 /\ UNCHANGED <<run, view, foreign>>
        /\ \A i \in 1..Len(ledger) : ledger'[i] = ledger[i]
    BY <1>0, <1>5, BlockFacts DEF cycleVars
  <2> QED
    BY <1>0, <2>1, BufferTypes DEF HeightInv
<1>6. CASE ExecutionStep
  BY <1>0, <1>1, <1>6, CallStepFacts DEF ExecutionStep, vaultVars, cycleVars
<1>7. CASE Start \/ ResetDB \/ Crash \/ BeyondBound \/ UNCHANGED vars
  BY <1>1, <1>7, StartFacts DEF ResetDB, Crash, Kill, BeyondBound, vars, txVars, chainVars,
                                vaultVars, cycleVars
<1>8. CASE FetchMarket \/ ReadTotal \/ AbortFetch \/ AbortPlan \/ NoPools \/ NoActions \/ MakePlan
             \/ Record \/ EvictTx
  BY <1>1, <1>8 DEF FetchMarket, ReadTotal, AbortFetch, AbortPlan, Continue, NoPools, NoActions,
     EndUnchanged, MakePlan, Record, EvictTx, Evict, txVars, vaultVars, cycleVars
<1>9. CASE StartWithdrawal \/ StartDeposit \/ WithdrawalSucceeds \/ DepositSucceeds \/ PhaseFails
  BY <1>1, <1>9 DEF StartWithdrawal, StartDeposit, StartPhase, Execute, WithdrawalSucceeds,
     DepositSucceeds, PhaseSucceeds, PhaseFails, Return, chainVars, vaultVars
<1>10. CASE ForeignChange
  <2>1. foreign' = foreign + 1 /\ UNCHANGED <<ledger, view, run>>
    BY <1>10 DEF ForeignChange, txVars, cycleVars
  <2> QED
    BY <1>0, <2>1, BufferTypes DEF HeightInv
<1> QED
  BY <1>2, <1>3, <1>4, <1>5, <1>6, <1>7, <1>8, <1>9, <1>10 DEF Next, Start, CycleStep, VaultStep

-----------------------------------------------------------------------------
\* The liquid USDC

\* What a transaction of an undisturbed cycle finds in the vault: it is a phase of
\* the plan, a withdrawal the first one, a deposit behind its withdrawal.
LEMMA PhaseIncluded ==
  ASSUME LoopInv, BufferInv, NEW tx \in mempool, tx.call.run = run
  PROVE  /\ tx.call = PhaseCall(tx.call.phase) /\ tx.call.amount = plan[tx.call.phase]
         /\ tx.call.phase \in Phases /\ PlanBound
         /\ ~Executed(tx.call.phase)
         /\ tx.call.phase = "withdraw" => ~Executed("deposit")
         /\ tx.call.phase = "deposit" =>
              \/ plan.withdraw = 0 /\ ~Executed("withdraw")
              \/ Executed("withdraw")
<1>0. TypeOK /\ TxInv /\ TxTypeOK /\ tx \in Sent
  BY DEF LoopInv, TypeOK, Sent
<1>1. tx.call \in Calls /\ outcome[tx.call] # "unused"
  BY <1>0, SentTyped DEF TxInv, SentWasCalled
<1>2. /\ tx.call = PhaseCall(tx.call.phase) /\ PlanBound
      /\ tx.call.phase = "deposit" => WithdrawalCalled
  BY <1>1 DEF BufferInv, PlanInv
<1>3. tx.call.phase \in Phases
  BY <1>1, CallsAssumption
<1>4. tx.call.amount = plan[tx.call.phase]
  BY <1>2 DEF PhaseCall
<1>5. \A i \in view.height + 1 .. Len(ledger) : i \in 1..Len(ledger)
  BY <1>0, BufferTypes
<1>6. ~Executed(tx.call.phase)
  BY <1>2, <1>5, PendingIsNew DEF Executed
\* A withdrawal that has been handed in is in a block once its deposit is sent.
<1>7. ASSUME NEW d \in Sent, d.call.phase = "deposit", d.call.run = run, WithdrawalCalled,
             plan.withdraw # 0
      PROVE  Executed("withdraw")
  <2>1. PICK c \in Calls : outcome[c] # "unused" /\ c.phase = "withdraw" /\ c.run = run
    BY <1>7 DEF WithdrawalCalled
  <2>2. PICK first \in Included : first.call = c
    BY <1>7, <2>1 DEF LoopInv, DepositAfterWithdrawal
  <2>3. PICK i \in 1..Len(ledger) : ledger[i].tx = first
    BY <1>0, <2>2, BufferTypes DEF Included
  <2>4. c = PhaseCall("withdraw")
    BY <2>1 DEF BufferInv, PlanInv
  <2>5. i \in view.height + 1 .. Len(ledger)
    BY <1>0, <2>1, <2>2, <2>3, BufferTypes DEF BufferInv, HeightInv
  <2> QED
    BY <2>2, <2>3, <2>4, <2>5 DEF Executed
<1>8. ASSUME tx.call.phase = "withdraw", Executed("deposit") PROVE FALSE
  <2>1. PICK i \in view.height + 1 .. Len(ledger) : ledger[i].tx.call = PhaseCall("deposit")
    BY <1>8 DEF Executed
  <2>2. /\ ledger[i].tx \in Sent /\ ledger[i].tx.call \in Calls
        /\ outcome[ledger[i].tx.call] # "unused"
    BY <1>5, LedgerFacts
  <2>3. ledger[i].tx.call.phase = "deposit" /\ ledger[i].tx.call.run = run
    BY <2>1 DEF PhaseCall
  <2>4. WithdrawalCalled
    BY <2>2, <2>3 DEF BufferInv, PlanInv
  <2>5. plan.withdraw # 0
    BY <1>1, <1>4, <1>8, CallsAssumption, BoundsAssumption
  <2> QED
    BY <1>6, <1>7, <1>8, <2>2, <2>3, <2>4, <2>5
<1>9. ASSUME plan.withdraw = 0 PROVE ~Executed("withdraw")
  <2>1. PhaseCall("withdraw") \notin Calls
    BY <1>9, CallsAssumption, BoundsAssumption DEF PhaseCall
  <2> QED
    BY <1>5, <2>1, LedgerFacts DEF Executed
<1> QED
  BY <1>0, <1>2, <1>3, <1>4, <1>6, <1>7, <1>8, <1>9

\* An undisturbed cycle, after a block: it was undisturbed, the transaction is one
\* of its own, and it was executed.
LEMMA UndisturbedBlock ==
  ASSUME LoopInv, HeightInv, NEW tx \in mempool, NEW code \in {Success, Reverted},
         Len(ledger') = Len(ledger) + 1,
         ledger'[Len(ledger) + 1] = [tx |-> tx, code |-> code],
         \A i \in 1..Len(ledger) : ledger'[i] = ledger[i],
         UNCHANGED <<foreign, cycleVars>>
  PROVE  /\ Undisturbed' => Undisturbed /\ tx.call.run = run /\ code = Success
         /\ \A phase : Executed(phase)' <=> Executed(phase) \/ tx.call = PhaseCall(phase)
<1>t. /\ Len(ledger) \in Nat /\ view.height \in Nat /\ view.height <= Len(ledger)
      /\ UNCHANGED <<foreign, view, run, plan>>
  BY BufferTypes DEF LoopInv, HeightInv, cycleVars
<1>1. view.height + 1 .. Len(ledger') = (view.height + 1 .. Len(ledger)) \union {Len(ledger) + 1}
  BY <1>t
<1>2. \A i \in view.height + 1 .. Len(ledger) : ledger'[i] = ledger[i]
  BY <1>t
<1>3. Undisturbed' => Undisturbed /\ tx.call.run = run /\ code = Success
  BY <1>t, <1>1, <1>2 DEF Undisturbed
<1>4. \A phase : Executed(phase)' <=> Executed(phase) \/ tx.call = PhaseCall(phase)
  BY <1>t, <1>1, <1>2 DEF Executed, PhaseCall
<1> QED
  BY <1>3, <1>4

LEMMA BlockKeepsFunds ==
  ASSUME LoopInv, BufferInv, IncludeExecuted \/ IncludeReverted
  PROVE  FundsInv'
<1>0. TypeOK /\ HeightInv /\ FundsInv
  BY DEF LoopInv, BufferInv
<1>1. PICK tx \in mempool, code \in {Success, Reverted} :
        /\ Len(ledger') = Len(ledger) + 1
        /\ ledger'[Len(ledger) + 1] = [tx |-> tx, code |-> code]
        /\ \A i \in 1..Len(ledger) : ledger'[i] = ledger[i]
        /\ UNCHANGED <<outcome, foreign, cycleVars>>
        /\ IncludeReverted => code = Reverted
        /\ IncludeExecuted /\ ~IncludeReverted =>
             code = Success /\ Executable(tx.call) /\ Settle(tx.call)
  BY <1>0, BlockFacts
<1>2. SUFFICES ASSUME Undisturbed', ViewComplete
               PROVE  FundsInv'
  BY <1>1 DEF FundsInv, ViewComplete, cycleVars
<1>3. /\ Undisturbed /\ tx.call.run = run /\ code = Success
      /\ \A phase : Executed(phase)' <=> Executed(phase) \/ tx.call = PhaseCall(phase)
  BY <1>0, <1>1, <1>2, UndisturbedBlock
<1>4. Settle(tx.call)
  BY <1>1, <1>3 DEF Success, Reverted
<1>5. /\ tx.call = PhaseCall(tx.call.phase) /\ tx.call.amount = plan[tx.call.phase]
      /\ tx.call.phase \in Phases /\ PlanBound /\ ~Executed(tx.call.phase)
      /\ tx.call.phase = "withdraw" => ~Executed("deposit")
      /\ tx.call.phase = "deposit" =>
           \/ plan.withdraw = 0 /\ ~Executed("withdraw")
           \/ Executed("withdraw")
  BY <1>3, PhaseIncluded
<1>6. /\ usdc \in Nat /\ view.usdc \in Nat /\ plan.withdraw \in Nat /\ plan.deposit \in Nat
      /\ Buffer \in Nat /\ Slip \in Nat /\ UNCHANGED <<view, plan>>
  BY <1>0, <1>1, BufferTypes DEF cycleVars
<1>7. PhaseCall("withdraw") # PhaseCall("deposit")
  BY DEF PhaseCall
<1>8. CASE tx.call.phase = "withdraw"
  <2>1. /\ Executed("withdraw")' /\ ~Executed("deposit")'
        /\ ~Executed("withdraw") /\ ~Executed("deposit")
    BY <1>3, <1>5, <1>7, <1>8
  <2>2. PICK loss \in 0..Slip :
          loss <= tx.call.amount /\ usdc' = usdc + tx.call.amount - loss
    BY <1>4, <1>8 DEF Settle
  <2>3. usdc = view.usdc
    BY <1>0, <1>2, <1>3, <2>1 DEF FundsInv
  <2>4. usdc' >= view'.usdc /\ usdc' + Slip >= view'.usdc + plan'.withdraw
    BY <1>5, <1>6, <1>8, <2>2, <2>3
  <2> QED
    BY <2>1, <2>4 DEF FundsInv
<1>9. CASE tx.call.phase = "deposit"
  <2>1. Executed("deposit")' /\ ~Executed("deposit")
    BY <1>3, <1>5, <1>9
  <2>2. PICK loss \in 0..Slip : usdc' = usdc - tx.call.amount
    BY <1>4, <1>9 DEF Settle
  <2>3. usdc + Slip >= view.usdc + plan.withdraw
    <3>1. CASE plan.withdraw = 0 /\ ~Executed("withdraw")
      <4>1. usdc = view.usdc
        BY <1>0, <1>2, <1>3, <2>1, <3>1 DEF FundsInv
      <4> QED
        BY <1>6, <3>1, <4>1
    <3>2. CASE Executed("withdraw")
      BY <1>0, <1>2, <1>3, <2>1, <3>2 DEF FundsInv
    <3> QED
      BY <1>5, <1>9, <3>1, <3>2
  <2>4. plan.deposit > 0
    <3>1. tx \in Sent /\ TxTypeOK
      BY <1>0 DEF Sent, TypeOK
    <3>2. tx.call.amount \in 1..MaxValue
      BY <3>1, SentTyped, CallsAssumption
    <3> QED
      BY <1>5, <1>9, <3>2, BoundsAssumption
  <2>5. usdc' + Slip >= Buffer
    BY <1>5, <1>6, <1>9, <2>2, <2>3, <2>4 DEF PlanBound
  <2> QED
    BY <2>1, <2>5 DEF FundsInv
<1> QED
  BY <1>5, <1>8, <1>9 DEF Phases

\* A cycle that begins has nothing on the chain, so it finds what the one before left.
LEMMA FundsOfNewCycle ==
  ASSUME LoopInv, BufferInv, BeginCycle
  PROVE  FundsInv'
<1>0. TypeOK /\ FundsInv
  BY DEF LoopInv, BufferInv
<1>1. /\ run' = run + 1 /\ pc' = "market"
      /\ UNCHANGED <<ledger, outcome, usdc, foreign, view, plan>>
  BY DEF BeginCycle, Goto, txVars, vaultVars
<1>u. \A c \in Calls : outcome[c] # "unused" => c.run # run + 1
  <2>1. \A c \in Calls : c.run \in Nat
    BY CallsAssumption, BoundsAssumption
  <2> QED
    BY <1>0, <2>1, BufferTypes DEF LoopInv, UsedInv
<1>2. SUFFICES ASSUME Undisturbed', ViewComplete
               PROVE  FundsInv'
  BY <1>1, <1>u DEF FundsInv, ViewComplete
<1>3. ASSUME NEW i \in view.height + 1 .. Len(ledger) PROVE FALSE
  <2>1. ledger[i].tx.call.run = run + 1
    BY <1>1, <1>2, <1>3 DEF Undisturbed
  <2>2. i \in 1..Len(ledger)
    BY <1>0, <1>3, BufferTypes
  <2> QED
    BY <1>0, <2>1, <2>2, LedgerFacts, BufferTypes
<1>4. Undisturbed /\ \A phase : ~Executed(phase) /\ ~Executed(phase)'
  BY <1>1, <1>2, <1>3 DEF Undisturbed, Executed
<1> QED
  BY <1>0, <1>1, <1>2, <1>4 DEF FundsInv

LEMMA FundsStep ==
  ASSUME LoopInv, BufferInv, [Next]_vars
  PROVE  FundsInv'
<1>0. TypeOK /\ TxInv /\ FundsInv
  BY DEF LoopInv, BufferInv
<1>1. ASSUME UNCHANGED <<ledger, usdc, foreign, view, run, plan>>, ViewComplete' => ViewComplete
      PROVE  FundsInv'
  BY <1>0, <1>1 DEF FundsInv, Undisturbed, Executed, PhaseCall
<1>2. CASE BeginCycle
  BY <1>2, FundsOfNewCycle
<1>3. CASE ReadPositions
  <2>1. /\ view' = [NoView EXCEPT !.lp = lp, !.height = Len(ledger), !.foreign = foreign]
        /\ pc = "positions" /\ pc' = "liquid" /\ UNCHANGED <<outcome, run>>
    BY <1>3 DEF ReadPositions, Continue, Goto, txVars
  <2>2. view'.usdc = 0
    BY <2>1 DEF NoView
  <2>3. ~ViewComplete'
    BY <2>1, <2>2, NothingExecuted DEF ViewComplete
  <2> QED
    BY <2>3 DEF FundsInv
<1>4. CASE ReadLiquid
  <2>1. /\ pc = "liquid" /\ UNCHANGED <<ledger, usdc, run, plan>>
        /\ view' = [view EXCEPT !.usdc = usdc]
    BY <1>4 DEF ReadLiquid, Continue, Goto, txVars, vaultVars
  <2>2. view'.usdc = usdc /\ view'.height = view.height
    BY <1>0, <2>1 DEF TypeOK, View
  <2>3. ~Executed("withdraw") /\ ~Executed("deposit")
    BY <1>0, <2>1, NothingExecuted, NoneExecuted
  <2>4. ~Executed("withdraw")' /\ ~Executed("deposit")'
    BY <2>1, <2>2, <2>3 DEF Executed, PhaseCall
  <2> QED
    BY <2>1, <2>2, <2>4 DEF FundsInv
<1>5. CASE MakePlan
  <2>1. pc = "plan" /\ UNCHANGED <<ledger, usdc, foreign, view, run>>
    BY <1>5 DEF MakePlan, Goto, txVars, vaultVars
  <2>2. \A i \in 1..Len(ledger) : ledger[i].tx.call.run # run
    BY <2>1, NothingExecuted
  <2>3. \A i \in view.height + 1 .. Len(ledger) : i \in 1..Len(ledger)
    BY <1>0, BufferTypes
  <2>4. \A phase : ~Executed(phase) /\ ~Executed(phase)'
    BY <2>1, <2>2, <2>3 DEF Executed, PhaseCall
  <2>5. (Undisturbed' => Undisturbed) /\ ViewComplete
    BY <2>1 DEF Undisturbed, ViewComplete
  <2> QED
    BY <1>0, <2>1, <2>4, <2>5 DEF FundsInv
<1>6. CASE IncludeExecuted \/ IncludeReverted
  BY <1>6, BlockKeepsFunds
<1>7. CASE ForeignChange
  <2>1. foreign' = foreign + 1 /\ UNCHANGED <<ledger, view>>
    BY <1>7 DEF ForeignChange, txVars, cycleVars
  <2>2. ~Undisturbed'
    BY <1>0, <2>1, BufferTypes DEF BufferInv, HeightInv, Undisturbed
  <2> QED
    BY <2>2 DEF FundsInv
<1>8. CASE ExecutionStep
  <2>1. /\ \A c \in Calls : outcome'[c] # "unused" => outcome[c] # "unused"
        /\ UNCHANGED <<ledger, usdc, foreign, cycleVars>>
    BY <1>0, <1>8, CallStepFacts DEF ExecutionStep, vaultVars
  <2>2. ViewComplete' => ViewComplete
    BY <2>1 DEF ViewComplete, cycleVars
  <2> QED
    BY <1>1, <2>1, <2>2 DEF cycleVars
<1>9. CASE Start \/ ResetDB \/ Crash \/ BeyondBound \/ UNCHANGED vars
  <2>0. call \in Calls /\ outcome \in [Calls -> Outcomes]
    BY <1>0 DEF TypeOK, TxTypeOK
  <2>1. /\ \A c \in Calls : outcome'[c] # "unused" => outcome[c] # "unused"
        /\ pc' = pc \/ pc' \in {"down", "idle"}
        /\ UNCHANGED <<ledger, usdc, foreign, view, run, plan>>
    <3>1. CASE Crash
      BY <1>0, <2>0, <3>1 DEF Crash, Kill, chainVars, vaultVars, TxInv, OneRunning, Active
    <3>2. CASE Start \/ ResetDB \/ BeyondBound \/ UNCHANGED vars
      BY <3>2, StartFacts DEF ResetDB, BeyondBound, vars, txVars, vaultVars, cycleVars
    <3> QED
      BY <1>9, <3>1, <3>2
  <2>2. ViewComplete' => ViewComplete
    BY <2>1 DEF ViewComplete
  <2> QED
    BY <1>1, <2>1, <2>2
<1>10. CASE FetchMarket \/ ReadTotal \/ AbortFetch \/ AbortPlan \/ NoPools \/ NoActions
              \/ Record \/ EvictTx
  <2>1. /\ UNCHANGED <<ledger, outcome, usdc, foreign, view, run, plan>>
        /\ pc' \in {"positions", "idle"} \/ pc' = pc \/ pc = "total"
    BY <1>10 DEF FetchMarket, ReadTotal, AbortFetch, AbortPlan, Continue, Goto, NoPools, NoActions,
       EndUnchanged, Record, EvictTx, Evict, txVars, execVars, vaultVars, cycleVars
  <2>2. ViewComplete' => ViewComplete
    BY <2>1 DEF ViewComplete
  <2> QED
    BY <1>1, <2>1, <2>2
<1>11. CASE StartWithdrawal \/ StartDeposit \/ WithdrawalSucceeds \/ DepositSucceeds \/ PhaseFails
  <2>1. /\ UNCHANGED <<ledger, usdc, foreign, view, run, plan>>
        /\ pc \in {"withdraw", "withdrawing", "deposit", "depositing"}
    BY <1>11 DEF StartWithdrawal, StartDeposit, StartPhase, Execute, WithdrawalSucceeds,
       DepositSucceeds, PhaseSucceeds, PhaseFails, Return, Goto, chainVars, vaultVars
  <2> QED
    BY <1>1, <2>1 DEF ViewComplete
<1> QED
  BY <1>2, <1>3, <1>4, <1>5, <1>6, <1>7, <1>8, <1>9, <1>10, <1>11
     DEF Next, Start, CycleStep, VaultStep

-----------------------------------------------------------------------------
\* The theorem

LEMMA BufferInvInit == Init => BufferInv
<1> SUFFICES ASSUME Init PROVE BufferInv
  OBVIOUS
<1>1. ledger = <<>> /\ foreign = 0 /\ view = NoView /\ pc = "down"
  BY DEF Init, TxInit, ChainInit
<1>2. \A c \in Calls : outcome[c] = "unused"
  BY DEF Init, TxInit
<1>3. HeightInv
  BY <1>1 DEF HeightInv, NoView
<1>4. PlanInv
  BY <1>1, <1>2 DEF PlanInv
<1>5. FundsInv
  BY <1>1, <1>2 DEF FundsInv, ViewComplete, NoView
<1> QED
  BY <1>3, <1>4, <1>5 DEF BufferInv

LEMMA BufferInvStep ==
  ASSUME LoopInv, BufferInv, [Next]_vars
  PROVE  BufferInv'
BY PlanStep, HeightStep, FundsStep DEF BufferInv

\* Between any two of its steps an undisturbed cycle has left the liquid USDC at
\* what it found or at the buffer, but for the slippage of its withdrawal.
LEMMA FundsSuffice == LoopInv /\ BufferInv => BufferKept
<1> SUFFICES ASSUME LoopInv, BufferInv, Undisturbed
             PROVE  usdc >= view.usdc \/ usdc + Slip >= Buffer
  BY DEF BufferKept
<1>1. usdc \in Nat /\ view.usdc \in Nat
  BY BufferTypes DEF LoopInv
<1>2. CASE view.usdc = 0
  BY <1>1, <1>2
<1>3. CASE view.usdc > 0
  BY <1>1, <1>3 DEF BufferInv, FundsInv, ViewComplete
<1> QED
  BY <1>1, <1>2, <1>3

\* The deposits of a cycle never take the liquid USDC below both the buffer and
\* what the cycle found, when nobody else moves the vault's funds and what it
\* sends is executed: whatever is late, lost, evicted or killed (planner.go:673-687).
THEOREM BufferIsKept == Spec => []BufferKept
<1>1. Init => BufferInv
  BY BufferInvInit
<1>2. LoopInv /\ BufferInv /\ [Next]_vars => BufferInv'
  BY BufferInvStep
<1>3. LoopInv /\ BufferInv => BufferKept
  BY FundsSuffice
<1> QED
  BY <1>1, <1>2, <1>3, LoopInvariant, PTL DEF Spec
\* Only a block changes the ledger.
LEMMA LedgerStep ==
  ASSUME TxInv, [Next]_vars, ledger' # ledger
  PROVE  IncludeExecuted \/ IncludeReverted
<1>1. CASE Start \/ ResetDB \/ BeginCycle \/ Crash \/ ForeignChange \/ EvictTx
  BY <1>1, StartFacts DEF ResetDB, BeginCycle, Crash, Kill, ForeignChange, EvictTx, Evict,
     txVars, chainVars
<1>2. CASE FetchMarket \/ ReadPositions \/ ReadLiquid \/ ReadTotal \/ AbortFetch \/ AbortPlan
  BY <1>2 DEF FetchMarket, ReadPositions, ReadLiquid, ReadTotal, AbortFetch, AbortPlan, Continue,
     txVars
<1>3. CASE NoPools \/ NoActions \/ MakePlan \/ Record
  BY <1>3 DEF NoPools, NoActions, EndUnchanged, MakePlan, Record, txVars
<1>4. CASE StartWithdrawal \/ StartDeposit \/ WithdrawalSucceeds \/ DepositSucceeds \/ PhaseFails
  BY <1>4 DEF StartWithdrawal, StartDeposit, StartPhase, Execute, WithdrawalSucceeds,
     DepositSucceeds, PhaseSucceeds, PhaseFails, Return, chainVars
<1>5. CASE ExecutionStep
  BY <1>5, CallStepFacts DEF ExecutionStep
<1>6. CASE BeyondBound \/ UNCHANGED vars
  BY <1>6 DEF BeyondBound, vars, txVars
<1> QED
  BY <1>1, <1>2, <1>3, <1>4, <1>5, <1>6 DEF Next, Start, CycleStep, VaultStep

\* After the block of its deposit an undisturbed cycle has both phases behind it.
LEMMA DepositIncluded ==
  ASSUME LoopInv, BufferInv, LoopInv', BufferInv', [Next]_vars,
         NEW tx \in mempool, Include(tx, Success), tx.call.phase = "deposit", Undisturbed'
  PROVE  usdc' + Slip >= Buffer
<1>0. TypeOK /\ TxInv /\ TypeOK' /\ TxTypeOK
  BY DEF LoopInv, TypeOK
<1>1. /\ Len(ledger') = Len(ledger) + 1
      /\ ledger'[Len(ledger) + 1] = [tx |-> tx, code |-> Success]
  BY <1>0, LedgerAppended
<1>2. view' = view
  <2>1. ledger' # ledger
    BY <1>0, <1>1, BufferTypes
  <2> QED
    BY <1>0, <2>1, LedgerStep, BlockFacts DEF cycleVars
<1>3. Len(ledger) + 1 \in view'.height + 1 .. Len(ledger')
  BY <1>0, <1>1, <1>2, BufferTypes DEF BufferInv, HeightInv
<1>4. tx.call.run = run'
  BY <1>1, <1>3 DEF Undisturbed
<1>5. tx.call \in Calls /\ outcome'[tx.call] # "unused"
  <2>1. tx \in Included' /\ TxInv'
    BY <1>0, LedgerAppended DEF LoopInv
  <2>2. tx.call \in Calls
    BY <1>0 DEF TxTypeOK, ChainTypeOK, Tx
  <2> QED
    BY <2>1, <2>2 DEF TxInv, SentWasCalled, Sent
<1>6. ViewComplete' /\ tx.call = PhaseCall("deposit")'
  BY <1>4, <1>5 DEF ViewComplete, BufferInv, PlanInv
<1>7. Executed("deposit")'
  BY <1>1, <1>3, <1>6 DEF Executed
<1> QED
  BY <1>6, <1>7 DEF BufferInv, FundsInv

\* The block with the deposit of an undisturbed cycle leaves the buffer in the vault,
\* whatever the cycle found there: it is lost only to a transaction of an earlier cycle,
\* to one of its own that was reverted, or to depositors (planner.go:673-687).
THEOREM DepositsLeaveBuffer == Spec => DepositLeavesBuffer
<1>1. Init => BufferInv
  BY BufferInvInit
<1>2. LoopInv /\ BufferInv /\ [Next]_vars => BufferInv'
  BY BufferInvStep
<1>3. LoopInv /\ BufferInv /\ LoopInv' /\ BufferInv' /\ [Next]_vars =>
        [\A tx \in mempool :
           Include(tx, Success) /\ tx.call.phase = "deposit" /\ Undisturbed'
             => usdc' + Slip >= Buffer]_vars
  BY DepositIncluded
<1> QED
  BY <1>1, <1>2, <1>3, LoopInvariant, PTL DEF Spec, DepositLeavesBuffer

-----------------------------------------------------------------------------
\* The order of the phases on the chain

\* Whatever is pending was planned after all that is over.
OrderInv == \A tx \in mempool : \A c \in Done : Vault!Before(c, tx.call)

\* Only blocks finish phases.
LEMMA DoneFollows ==
  ASSUME TypeOK
  PROVE  /\ Included' = Included => Done' = Done
         /\ \A tx : Included' = Included \union {tx} => Done' = Done \union {tx.call}
BY DEF Done

\* A phase that the node accepts was planned after all that are over: those of
\* earlier cycles, and the withdrawal its own cycle has made before.
LEMMA AcceptedIsLast ==
  ASSUME LoopInv, stage = "signing", NEW c \in Done
  PROVE  Vault!Before(c, call)
<1>0. /\ TypeOK /\ TxInv /\ TxTypeOK /\ call \in Calls /\ run \in Nat
      /\ \A d \in Calls : d.run \in Nat
  BY BoundsAssumption, CallsAssumption DEF LoopInv, TypeOK, TxTypeOK
<1>1. PICK tx \in Included : c = tx.call
  BY DEF Done
<1>2. c \in Calls /\ outcome[c] # "unused" /\ c # call
  BY <1>0, <1>1, SentTyped DEF TxInv, SentWasCalled, CurrentNotSent, Sent
<1>3. pc \in {"withdrawing", "depositing"} /\ call = PhaseCall(IF pc = "withdrawing" THEN "withdraw"
                                                               ELSE "deposit")
  BY DEF LoopInv, PhaseInv
<1>4. c.run <= run /\ call.run = run
  BY <1>2, <1>3 DEF LoopInv, UsedInv, PhaseCall
<1>5. CASE c.run = run
  <2>1. pc = "depositing" /\ c.phase = "withdraw"
    BY <1>2, <1>3, <1>5 DEF LoopInv, UsedInv
  <2> QED
    BY <1>3, <1>4, <1>5, <2>1 DEF Vault!Before, PhaseCall
<1>6. CASE c.run # run
  BY <1>0, <1>2, <1>4, <1>6 DEF Vault!Before
<1> QED
  BY <1>5, <1>6

\* What a step of the call in progress may do to the mempool.
LEMMA PendingByCallStep ==
  ASSUME TxInv, CallStep
  PROVE  \/ mempool' = mempool
         \/ stage = "signing" /\ mempool' = {CurrentTx}
<1>1. CASE stage = "signing" /\ Accept(CurrentTx)
  BY <1>1, AcceptsWhenEmpty
<1> QED
  BY <1>1 DEF CallStep, PrepareFails, ReadSequence, SignFails, BroadcastAccepted,
     BroadcastRejected, BroadcastLost, PollFound, PollMissed, PollExhausted, chainVars

LEMMA OrderStep ==
  ASSUME LoopInv, OrderInv, [Next]_vars
  PROVE  OrderInv'
<1>0. TypeOK /\ TxInv /\ TxTypeOK
  BY DEF LoopInv, TypeOK
<1>1. CASE UNCHANGED chainVars
  BY <1>1 DEF OrderInv, Done, Included, chainVars, Vault!Before
<1>2. CASE ExecutionStep
  <2>1. /\ Done' = Done
        /\ mempool' = mempool \/ (stage = "signing" /\ mempool' = {CurrentTx})
    BY <1>0, <1>2, CallStepFacts, PendingByCallStep, DoneFollows DEF ExecutionStep
  <2>2. CurrentTx.call = call
    BY DEF CurrentTx
  <2> QED
    BY <2>1, <2>2, AcceptedIsLast DEF OrderInv, Vault!Before
<1>3. CASE IncludeExecuted \/ IncludeReverted
  <2>1. mempool' = {}
    BY <1>0, <1>3 DEF IncludeExecuted, IncludeReverted, Include, TxInv, AtMostOnePending
  <2> QED
    BY <2>1 DEF OrderInv
<1>4. CASE EvictTx
  BY <1>4 DEF EvictTx, Evict, OrderInv, Done, Included, Vault!Before
<1>5. CASE Start \/ ResetDB \/ BeginCycle \/ Crash \/ ForeignChange \/ BeyondBound \/ UNCHANGED vars
  BY <1>1, <1>5, StartFacts DEF ResetDB, BeginCycle, Crash, Kill, ForeignChange, BeyondBound, vars,
     txVars, chainVars
<1>6. CASE FetchMarket \/ ReadPositions \/ ReadLiquid \/ ReadTotal \/ AbortFetch \/ AbortPlan
  BY <1>1, <1>6 DEF FetchMarket, ReadPositions, ReadLiquid, ReadTotal, AbortFetch, AbortPlan,
     Continue, txVars, chainVars
<1>7. CASE NoPools \/ NoActions \/ MakePlan \/ Record
  BY <1>1, <1>7 DEF NoPools, NoActions, EndUnchanged, MakePlan, Record, txVars, chainVars
<1>8. CASE StartWithdrawal \/ StartDeposit \/ WithdrawalSucceeds \/ DepositSucceeds \/ PhaseFails
  BY <1>1, <1>8 DEF StartWithdrawal, StartDeposit, StartPhase, Execute, WithdrawalSucceeds,
     DepositSucceeds, PhaseSucceeds, PhaseFails, Return
<1> QED
  BY <1>2, <1>3, <1>4, <1>5, <1>6, <1>7, <1>8 DEF Next, Start, CycleStep, VaultStep

-----------------------------------------------------------------------------
\* The promise to the vault

\* A block finishes a phase: executed it moves funds, reverted it moves none.
LEMMA BlockFinishes ==
  ASSUME LoopInv, OrderInv, IncludeExecuted \/ IncludeReverted
  PROVE  \E c \in Calls : Vault!Withdraw(c) \/ Vault!Deposit(c) \/ Vault!Revert(c)
<1>0. TypeOK /\ TxTypeOK
  BY DEF LoopInv, TypeOK
<1>1. PICK tx \in mempool, code \in {Success, Reverted} :
        /\ Include(tx, code)
        /\ \/ code = Reverted /\ UNCHANGED <<usdc, lp>>
           \/ Executable(tx.call) /\ Settle(tx.call)
  BY DEF IncludeExecuted, IncludeReverted, vaultVars
<1>2. tx.call \in Calls
  BY <1>0 DEF TxTypeOK, ChainTypeOK, Tx
<1>3. Done' = Done \union {tx.call}
  BY <1>0, <1>1, LedgerAppended, DoneFollows
<1>4. History' = History
  BY DEF IncludeExecuted, IncludeReverted, storeVars, History
<1>5. Vault!Finish(tx.call)
  BY <1>3, <1>4 DEF OrderInv, Vault!Finish
<1>6. CASE UNCHANGED <<usdc, lp>>
  BY <1>2, <1>5, <1>6 DEF Vault!Revert
<1>7. CASE Executable(tx.call) /\ Settle(tx.call)
  <2>1. PICK loss \in 0..Slip :
          /\ loss <= tx.call.amount
          /\ \/ /\ tx.call.phase = "withdraw"
                /\ lp' = lp - tx.call.amount
                /\ usdc' = usdc + tx.call.amount - loss
             \/ /\ tx.call.phase = "deposit"
                /\ usdc' = usdc - tx.call.amount
                /\ lp' = lp + tx.call.amount - loss
    BY <1>7 DEF Settle
  <2>2. CASE tx.call.phase = "withdraw"
    <3>1. Vault!Withdraw(tx.call)
      BY <1>5, <1>7, <2>1, <2>2 DEF Executable, Vault!Withdraw
    <3> QED
      BY <1>2, <3>1
  <2>3. CASE tx.call.phase = "deposit"
    <3>1. Vault!Deposit(tx.call)
      BY <1>5, <1>7, <2>1, <2>3 DEF Executable, Vault!Deposit
    <3> QED
      BY <1>2, <3>1
  <2> QED
    BY <2>1, <2>2, <2>3
<1> QED
  BY <1>1, <1>6, <1>7

\* A snapshot that is saved is a row of this cycle, with phases that are over.
LEMMA SaveRecords ==
  ASSUME LoopInv, NEW final, Save(final), InCycle, UNCHANGED <<ledger, usdc, lp>>
  PROVE  [Vault!Next]_Vault!vars
<1>0. run \in 1..MaxRuns /\ snaps \in Seq(Snapshot) /\ hashes \in Seq(Tx)
  BY DEF LoopInv, TypeOK, PhaseInv
<1>1. Done' = Done
  BY DoneFollows DEF LoopInv, Included
<1>2. CASE UNCHANGED snaps
  BY <1>1, <1>2 DEF History, Vault!vars
<1>3. CASE snaps' = Append(snaps, [run |-> run, cycle |-> cycle, hashes |-> hashes,
                                   final |-> final])
  <2> DEFINE row == [run |-> run, phases |-> {hashes[i].call : i \in DOMAIN hashes}]
             saved == [run |-> run, cycle |-> cycle, hashes |-> hashes, final |-> final]
  <2>1. /\ DOMAIN snaps' = DOMAIN snaps \union {Len(snaps) + 1}
        /\ \A k \in DOMAIN snaps : snaps'[k] = snaps[k]
        /\ snaps'[Len(snaps) + 1] = saved
    BY <1>0, <1>3
  <2>2. saved.run = run /\ saved.hashes = hashes
    OBVIOUS
  <2>3. History' = History \union {row}
    <3> HIDE DEF saved
    <3> QED
      BY <2>1, <2>2 DEF History
  <2>4. row.run = run /\ row.phases = {hashes[i].call : i \in DOMAIN hashes}
    OBVIOUS
  <2>5. \A c \in row.phases : c \in Done /\ c.run = run
    BY <2>4 DEF LoopInv, HashesInv, Done
  <2>6. \A old \in History : old.run < run
    BY DEF LoopInv, SnapsInv, History
  <2>7. run \in Vault!Cycles
    <3>1. [run |-> run, phase |-> "withdraw", amount |-> 1] \in Calls
      BY <1>0, CallsAssumption, BoundsAssumption DEF Phases
    <3> QED
      BY <3>1 DEF Vault!Cycles
  <2>8. row.phases \in SUBSET Done
    BY <2>5
  <2>9. Vault!Record(row)
    BY <1>1, <2>3, <2>4, <2>5, <2>6 DEF Vault!Record
  <2> QED
    BY <2>4, <2>7, <2>8, <2>9 DEF Vault!Next
<1> QED
  BY <1>2, <1>3 DEF Save

LEMMA KeepsVaultPromise ==
  ASSUME LoopInv, OrderInv, TypeOK', [Next]_vars
  PROVE  [Vault!Next]_Vault!vars
<1>0. TypeOK /\ TxInv
  BY DEF LoopInv
<1>1. CASE UNCHANGED <<ledger, usdc, lp, snaps>>
  BY <1>1 DEF Done, Included, History, Vault!vars
<1>2. CASE IncludeExecuted \/ IncludeReverted
  BY <1>2, BlockFinishes DEF Vault!Next
<1>3. CASE NoPools \/ NoActions \/ Record \/ PhaseFails
  <2>1. /\ InCycle /\ UNCHANGED <<ledger, usdc, lp>>
        /\ \E final : Save(final)
    BY <1>3 DEF NoPools, NoActions, EndUnchanged, Record, PhaseFails, Return, Goto, InCycle,
       txVars, chainVars, vaultVars
  <2> QED
    BY <2>1, SaveRecords
<1>4. CASE ResetDB
  <2>1. UNCHANGED <<ledger, usdc, lp>> /\ snaps' = <<>>
    BY <1>4 DEF ResetDB, txVars, vaultVars
  <2>2. Done' = Done /\ History' = {}
    BY <2>1 DEF Done, Included, History
  <2> QED
    BY <2>1, <2>2 DEF Vault!Next, Vault!Reset
<1>5. CASE ForeignChange
  <2>1. UNCHANGED <<ledger, lp, snaps>> /\ usdc' \in Nat
    BY <1>5 DEF ForeignChange, txVars, storeVars, TypeOK
  <2>2. Done' = Done /\ History' = History
    BY <2>1 DEF Done, Included, History
  <2> QED
    BY <2>1, <2>2 DEF Vault!Next, Vault!Others
<1>6. CASE ExecutionStep
  BY <1>0, <1>1, <1>6, CallStepFacts DEF ExecutionStep, vaultVars, storeVars
<1>7. CASE Start \/ BeginCycle \/ Crash \/ BeyondBound \/ UNCHANGED vars
  BY <1>1, <1>7, StartFacts DEF BeginCycle, Crash, Kill, BeyondBound, vars, txVars, chainVars,
     vaultVars, storeVars
<1>8. CASE FetchMarket \/ ReadPositions \/ ReadLiquid \/ ReadTotal \/ AbortFetch \/ AbortPlan
             \/ MakePlan \/ EvictTx
  BY <1>1, <1>8 DEF FetchMarket, ReadPositions, ReadLiquid, ReadTotal, AbortFetch, AbortPlan,
     Continue, MakePlan, EvictTx, Evict, txVars, vaultVars, storeVars
<1>9. CASE StartWithdrawal \/ StartDeposit \/ WithdrawalSucceeds \/ DepositSucceeds
  BY <1>1, <1>9 DEF StartWithdrawal, StartDeposit, StartPhase, Execute, WithdrawalSucceeds,
     DepositSucceeds, PhaseSucceeds, Return, chainVars, vaultVars, storeVars
<1> QED
  BY <1>2, <1>3, <1>4, <1>5, <1>6, <1>7, <1>8, <1>9 DEF Next, Start, CycleStep, VaultStep

\* The loop keeps its promise to the vault: besides depositors only phases of plans
\* move funds, each once and in the order they were planned in, whatever is lost,
\* late, evicted, given up or killed, and the history lists what is over.
THEOREM VaultIsServedInOrder == Spec => VaultPromiseKept
<1>1. Init => OrderInv /\ Vault!Init
  <2> SUFFICES ASSUME Init PROVE OrderInv /\ Vault!Init
    OBVIOUS
  <2>1. mempool = {} /\ ledger = <<>> /\ snaps = <<>>
    BY DEF Init, TxInit, ChainInit
  <2>2. Done = {} /\ History = {}
    BY <2>1 DEF Done, Included, History
  <2>3. usdc \in Nat /\ lp \in Nat
    BY TypeInit DEF TypeOK
  <2> QED
    BY <2>1, <2>2, <2>3 DEF OrderInv, Vault!Init
<1>2. LoopInv /\ OrderInv /\ [Next]_vars => OrderInv'
  BY OrderStep
<1>3. LoopInv /\ LoopInv' /\ OrderInv /\ [Next]_vars => [Vault!Next]_Vault!vars
  BY KeepsVaultPromise DEF LoopInv
<1> QED
  BY <1>1, <1>2, <1>3, LoopInvariant, PTL DEF Spec, VaultPromiseKept, Vault!Spec
=============================================================================
