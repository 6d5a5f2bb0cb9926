----------------------- MODULE RebalanceCycle_proofs -----------------------
(***************************************************************************)
(* Theorems about RebalanceCycle, for every number of cycles, every amount *)
(* of dollars, every buffer, slippage and set of faults.                   *)
(***************************************************************************)
EXTENDS RebalanceCycle, TxExecution_proofs

\* The start of the process and the parameters

Start == LoadParameters \/ SaveParameters \/ StartFails \/ StartLoop

ParamStep ==
  \/ LoadFound \/ LoadMissing \/ SaveDefaults
  \/ Deactivate \/ Insert \/ InsertRefused \/ Commit \/ SaveFails \/ CommitUnanswered
  \/ Forget \/ DropRows

\* Nothing but the parameters, and whether the loop runs, depends on the start.
LEMMA StartFacts ==
  ASSUME Start
  PROVE  /\ UNCHANGED <<txVars, vaultVars, storeVars, run, cycle, view, plan, hashes>>
         /\ pc = "down" /\ pc' \in {"down", "idle"}
         /\ ParamStep \/ UNCHANGED paramVars
BY DEF Start, LoadParameters, SaveParameters, StartFails, StartLoop, Starting, Goto, cycleVars,
       ParamStep

\* The row that the transaction is about to commit is active.
ParamInv ==
  /\ ParamTypeOK
  /\ saving = "commit" => \E r \in written : r.active
  /\ Startable

LEMMA ParamInvStep ==
  ASSUME ParamInv, ParamStep \/ UNCHANGED paramVars
  PROVE  ParamInv'
<1> USE DEF ParamInv, ParamTypeOK, Startable, Statements
<1>1. CASE LoadFound
  <2>1. PICK r \in rows : params' = [columns |-> r.columns, factors |-> "zero"]
    BY <1>1 DEF LoadFound, ActiveRows
  <2>2. params' \in Parameters
    BY <2>1 DEF Parameters, Row
  <2> QED
    BY <1>1, <2>2 DEF LoadFound
<1>2. CASE LoadMissing \/ SaveDefaults
  BY <1>2 DEF LoadMissing, SaveDefaults
<1>3. CASE Deactivate
  <2>1. \A r \in Row : [r EXCEPT !.active = FALSE] \in Row
    BY DEF Row
  <2> QED
    BY <1>3, <2>1 DEF Deactivate
<1>4. CASE Insert
  <2> DEFINE new == [version |-> DefaultVersion, active |-> TRUE, columns |-> Defaults.columns]
  <2>1. new \in Row /\ new.active
    BY DEF Row, DefaultVersion, Defaults
  <2>2. written' = written \union {new}
    BY <1>4 DEF Insert
  <2> QED
    BY <1>4, <2>1, <2>2 DEF Insert
<1>5. CASE InsertRefused \/ SaveFails
  BY <1>5 DEF InsertRefused, SaveFails, RollBack
<1>6. CASE Commit \/ CommitUnanswered
  <2>1. Defaults \in Parameters
    BY DEF Defaults, Parameters
  <2> QED
    BY <1>6, <2>1 DEF Commit, CommitUnanswered
<1>7. CASE Forget \/ DropRows
  BY <1>7 DEF Forget, DropRows, NoParameters, Parameters
<1>8. CASE UNCHANGED paramVars
  BY <1>8 DEF paramVars
<1> QED
  BY <1>1, <1>2, <1>3, <1>4, <1>5, <1>6, <1>7, <1>8 DEF ParamStep

LEMMA ParamsOfStep ==
  ASSUME [Next]_vars
  PROVE  ParamStep \/ UNCHANGED paramVars
<1>1. CASE Start
  BY <1>1, StartFacts
<1>2. CASE Crash \/ ResetDB
  BY <1>2 DEF Crash, ResetDB, ParamStep
<1>3. CASE BeginCycle \/ CycleStep \/ VaultStep \/ BeyondBound \/ UNCHANGED vars
  BY <1>3 DEF BeginCycle, CycleStep, VaultStep, BeyondBound, vars,
     FetchMarket, ReadPositions, ReadLiquid, ReadTotal, AbortFetch, Continue,
     NoPools, NoActions, EndUnchanged, Save, AbortPlan, MakePlan,
     StartWithdrawal, StartDeposit, StartPhase,
     WithdrawalSucceeds, DepositSucceeds, PhaseSucceeds, PhaseFails, Record, ExecutionStep,
     IncludeExecuted, IncludeReverted, EvictTx, ForeignChange
<1> QED
  BY <1>1, <1>2, <1>3 DEF Next, Start

-----------------------------------------------------------------------------
\* The loop

InCycle == pc \notin {"idle", "down"}

\* The plan of a phase of the current cycle.
PhaseCall(phase) == [run |-> run, phase |-> phase, amount |-> plan[phase]]

\* Where the loop stands and where its call stands.
PhaseInv ==
  /\ pc \in {"withdrawing", "depositing"} <=> stage # "idle"
  /\ InCycle => run > 0
  /\ pc \in {"withdraw", "withdrawing"} => plan.withdraw > 0
  /\ pc \in {"deposit", "depositing"} => plan.deposit > 0
  /\ pc = "withdrawing" => call = PhaseCall("withdraw")
  /\ pc = "depositing" => call = PhaseCall("deposit")

\* Which plans have been handed in: none of a later cycle, and of the current
\* one none before the first phase and a successful withdrawal before the second.
UsedInv ==
  \A c \in Calls :
    outcome[c] # "unused" =>
      /\ c.run <= run
      /\ c.run = run =>
           /\ pc \notin {"market", "positions", "liquid", "total", "plan", "withdraw"}
           /\ pc = "withdrawing" => c = call
           /\ pc = "deposit" => c.phase = "withdraw" /\ outcome[c] = "ok"
           /\ pc = "depositing" => c = call \/ (c.phase = "withdraw" /\ outcome[c] = "ok")

\* A successful answer is about a transaction in a block.
AnswerInv == stage = "ok" => outcome[call] = "ok" /\ CurrentTx \in Included

\* The hashes collected so far.
HashesInv ==
  InCycle =>
    /\ \A i \in DOMAIN hashes : hashes[i] \in Included /\ hashes[i].call.run = run
    /\ \A i, j \in DOMAIN hashes : i < j => hashes[i].sequence < hashes[j].sequence
    /\ stage \in {"signing", "waiting", "ok"} =>
         \A i \in DOMAIN hashes : hashes[i].sequence < sequence

\* The rows saved so far are of earlier cycles.
SnapsInv ==
  /\ \A k \in DOMAIN snaps : snaps[k].run <= run /\ (InCycle => snaps[k].run < run)
  /\ InCycle /\ cycle \notin Fallback => cycle <= counter
  /\ \A k \in DOMAIN snaps :
       snaps[k].cycle \notin Fallback =>
         /\ snaps[k].cycle <= counter
         /\ InCycle /\ cycle \notin Fallback => snaps[k].cycle < cycle

LoopInv ==
  /\ TypeOK
  /\ TxInv
  /\ PhaseInv
  /\ UsedInv
  /\ AnswerInv
  /\ HashesInv
  /\ SnapsInv
  /\ ParamInv
  /\ DepositAfterWithdrawal
  /\ SnapshotHashesIncluded
  /\ SnapshotsOrdered

-----------------------------------------------------------------------------
\* The loop is an environment of TxExecution

LEMMA PhaseCallTyped ==
  ASSUME LoopInv, NEW phase \in Phases, plan[phase] > 0, InCycle
  PROVE  PhaseCall(phase) \in Calls
<1>1. run \in 1..MaxRuns
  BY DEF LoopInv, TypeOK, PhaseInv
<1>2. plan[phase] \in 1..MaxValue
  BY BoundsAssumption DEF LoopInv, TypeOK, Phases
<1> QED
  BY <1>1, <1>2, CallsAssumption DEF PhaseCall

\* The loop hands in every plan once, and only when no call is in progress.
LEMMA PhaseIsNewPlan ==
  ASSUME LoopInv, NEW phase \in Phases, NEW from, NEW to, StartPhase(phase, from, to),
         \/ phase = "withdraw" /\ from = "withdraw"
         \/ phase = "deposit" /\ from = "deposit"
  PROVE  /\ PhaseCall(phase) \in Calls
         /\ NewPlan(PhaseCall(phase))
         /\ Execute(PhaseCall(phase))
<1>1. pc = from /\ Execute(PhaseCall(phase))
  BY DEF StartPhase, Goto, PhaseCall
<1>2. InCycle /\ plan[phase] > 0
  BY <1>1 DEF InCycle, LoopInv, PhaseInv
<1>3. PhaseCall(phase) \in Calls /\ PhaseCall(phase).run = run /\ PhaseCall(phase).phase = phase
  BY <1>2, PhaseCallTyped DEF PhaseCall
<1>4. outcome[PhaseCall(phase)] = "unused"
  BY <1>1, <1>3 DEF LoopInv, UsedInv
<1> QED
  BY <1>1, <1>3, <1>4 DEF NewPlan

\* Every step of the loop is one of TxExecution, or none.
LEMMA StepIsTxStep ==
  ASSUME LoopInv, [Next]_vars
  PROVE  [TxNext]_txVars
<1>1. CASE Start \/ ResetDB \/ BeginCycle
  BY <1>1, StartFacts DEF ResetDB, BeginCycle
<1>2. CASE FetchMarket \/ ReadPositions \/ ReadLiquid \/ ReadTotal \/ AbortFetch \/ AbortPlan
  BY <1>2 DEF FetchMarket, ReadPositions, ReadLiquid, ReadTotal, AbortFetch, AbortPlan, Continue
<1>3. CASE NoPools \/ NoActions \/ MakePlan \/ Record
  BY <1>3 DEF NoPools, NoActions, MakePlan, Record, EndUnchanged
<1>4. CASE StartWithdrawal \/ StartDeposit
  BY <1>4, PhaseIsNewPlan DEF StartWithdrawal, StartDeposit, Phases, TxNext
<1>5. CASE WithdrawalSucceeds \/ DepositSucceeds \/ PhaseFails
  BY <1>5 DEF WithdrawalSucceeds, DepositSucceeds, PhaseSucceeds, PhaseFails, TxNext
<1>6. CASE ExecutionStep
  BY <1>6 DEF ExecutionStep, TxNext
<1>7. CASE IncludeExecuted \/ IncludeReverted \/ EvictTx
  BY <1>7 DEF IncludeExecuted, IncludeReverted, EvictTx, ChainStep, TxNext
<1>8. CASE ForeignChange \/ BeyondBound \/ UNCHANGED vars
  BY <1>8 DEF ForeignChange, BeyondBound, vars
<1>9. CASE Crash
  <2>1. CASE stage = "idle"
    BY <1>9, <2>1 DEF Crash, Kill, txVars, chainVars
  <2>2. CASE stage # "idle"
    BY <1>9, <2>2 DEF Crash, TxNext
  <2> QED
    BY <2>1, <2>2
<1> QED
  BY <1>1, <1>2, <1>3, <1>4, <1>5, <1>6, <1>7, <1>8, <1>9 DEF Next, Start, CycleStep, VaultStep

-----------------------------------------------------------------------------
\* Type correctness

LEMMA EmptyTyped == \A S : <<>> \in Seq(S)
OBVIOUS

LEMMA TypeInit == Init => TypeOK
<1> SUFFICES ASSUME Init PROVE TypeOK
  OBVIOUS
<1>1. TxTypeOK
  BY TxTypeInit DEF Init
<1>2. usdc \in Nat /\ lp \in Nat
  BY BoundsAssumption DEF Init
<1>3. view \in View
  BY DEF Init, View, NoView
<1>4. plan \in [withdraw : 0..MaxValue, deposit : 0..MaxValue] /\ run \in 0..MaxRuns
  BY BoundsAssumption DEF Init
<1>5. ParamTypeOK
  BY DEF Init, ParamInit, ParamTypeOK, Statements, Parameters, NoParameters
<1> QED
  BY <1>1, <1>2, <1>3, <1>4, <1>5, EmptyTyped DEF Init, TypeOK, PCs

LEMMA ViewUpdated ==
  ASSUME NEW old \in View, NEW a \in Nat, NEW b \in Nat, NEW c \in Nat
  PROVE  /\ [old EXCEPT !.usdc = a] \in View
         /\ [old EXCEPT !.lp = a, !.height = b, !.foreign = c] \in View
BY DEF View

\* A snapshot of the current cycle is a row.
LEMMA SaveTyped ==
  ASSUME TypeOK, NEW final \in Nat, Save(final)
  PROVE  /\ counter' \in Nat /\ snaps' \in Seq(Snapshot)
<1>1. [run |-> run, cycle |-> cycle, hashes |-> hashes,
       final |-> final] \in Snapshot
  BY BoundsAssumption DEF TypeOK, Snapshot, View
<1> QED
  BY <1>1 DEF Save, TypeOK

LEMMA TypeStep ==
  ASSUME TypeOK, TxTypeOK', ParamTypeOK', [Next]_vars
  PROVE  TypeOK'
<1> USE BoundsAssumption DEF TypeOK, PCs, Goto
<1>1. CASE Start
  BY <1>1, StartFacts DEF vaultVars, storeVars
<1>2. CASE ResetDB
  BY <1>2, EmptyTyped DEF ResetDB, vaultVars, cycleVars
<1>3. CASE BeginCycle
  <2>1. counter' \in Nat /\ cycle' \in Nat
    <3>1. CASE NextNumber
      BY <3>1 DEF NextNumber
    <3>2. CASE FallbackNumber
      <4>1. counter' \in {counter, counter + 1} /\ cycle' \in Fallback
        BY <3>2 DEF FallbackNumber
      <4> QED
        BY <4>1
    <3> QED
      BY <1>3, <3>1, <3>2 DEF BeginCycle
  <2>2. run' \in 0..MaxRuns
    BY <1>3 DEF BeginCycle
  <2>3. hashes' \in Seq(Tx)
    BY <1>3, EmptyTyped DEF BeginCycle
  <2> QED
    BY <1>3, <2>1, <2>2, <2>3 DEF BeginCycle, vaultVars
<1>4. CASE FetchMarket \/ ReadPositions \/ ReadLiquid \/ ReadTotal \/ AbortFetch \/ AbortPlan
  <2>1. /\ UNCHANGED <<vaultVars, storeVars, run, cycle, plan, hashes>>
        /\ pc' \in PCs
    BY <1>4 DEF FetchMarket, ReadPositions, ReadLiquid, ReadTotal, AbortFetch, AbortPlan, Continue
  <2>2. view' \in View
    <3>1. CASE FetchMarket \/ ReadTotal \/ AbortFetch \/ AbortPlan
      BY <3>1 DEF FetchMarket, ReadTotal, AbortFetch, AbortPlan
    <3>2. CASE ReadPositions
      <4>1. NoView \in View /\ Len(ledger) \in Nat
        BY DEF NoView, View, TxTypeOK, ChainTypeOK
      <4> QED
        BY <3>2, <4>1, ViewUpdated DEF ReadPositions
    <3>3. CASE ReadLiquid
      BY <3>3, ViewUpdated DEF ReadLiquid
    <3> QED
      BY <1>4, <3>1, <3>2, <3>3
  <2> QED
    BY <2>1, <2>2 DEF vaultVars, storeVars
<1>5. CASE NoPools \/ NoActions
  <2>1. view.usdc \in Nat
    BY DEF View
  <2> QED
    BY <1>5, <2>1, SaveTyped DEF NoPools, NoActions, EndUnchanged, vaultVars
<1>6. CASE MakePlan
  BY <1>6 DEF MakePlan, Plans, vaultVars, storeVars
<1>7. CASE StartWithdrawal \/ StartDeposit
  BY <1>7 DEF StartWithdrawal, StartDeposit, StartPhase, vaultVars, storeVars
<1>8. CASE WithdrawalSucceeds \/ DepositSucceeds
  <2>1. CurrentTx \in Tx
    BY DEF CurrentTx, Tx, TxTypeOK
  <2>2. hashes' = Append(hashes, CurrentTx) /\ pc' \in PCs
    BY <1>8 DEF WithdrawalSucceeds, DepositSucceeds, PhaseSucceeds
  <2>3. hashes' \in Seq(Tx)
    BY <2>1, <2>2
  <2> QED
    BY <1>8, <2>2, <2>3 DEF WithdrawalSucceeds, DepositSucceeds, PhaseSucceeds,
                            vaultVars, storeVars
<1>9. CASE PhaseFails
  <2>1. view.usdc \in Nat
    BY DEF View
  <2> QED
    BY <1>9, <2>1, SaveTyped DEF PhaseFails, vaultVars
<1>10. CASE Record
  <2>1. view.usdc \in Nat /\ usdc \in Nat
    BY DEF View
  <2> QED
    BY <1>10, <2>1, SaveTyped DEF Record, vaultVars
<1>11. CASE ExecutionStep
  BY <1>11 DEF ExecutionStep, vaultVars, storeVars, cycleVars
<1>12. CASE IncludeExecuted
  <2>1. PICK tx \in mempool : Executable(tx.call) /\ Settle(tx.call)
    BY <1>12 DEF IncludeExecuted
  <2>2. tx.call.amount \in Nat
    BY CallsAssumption DEF TxTypeOK, ChainTypeOK, Tx
  <2>3. usdc' \in Nat /\ lp' \in Nat
    <3>1. PICK loss \in 0..Slip :
            /\ loss <= tx.call.amount
            /\ \/ /\ tx.call.phase = "withdraw"
                  /\ lp' = lp - tx.call.amount
                  /\ usdc' = usdc + tx.call.amount - loss
               \/ /\ tx.call.phase = "deposit"
                  /\ usdc' = usdc - tx.call.amount
                  /\ lp' = lp + tx.call.amount - loss
      BY <2>1 DEF Settle
    <3>2. \/ tx.call.phase = "withdraw" /\ tx.call.amount <= lp
          \/ tx.call.phase = "deposit" /\ tx.call.amount <= usdc
      BY <2>1 DEF Executable
    <3>3. usdc \in Nat /\ lp \in Nat /\ loss \in Nat
      OBVIOUS
    <3>4. CASE tx.call.phase = "withdraw"
      BY <2>2, <3>1, <3>2, <3>3, <3>4
    <3>5. CASE tx.call.phase = "deposit"
      BY <2>2, <3>1, <3>2, <3>3, <3>5
    <3> QED
      BY <3>1, <3>4, <3>5
  <2> QED
    BY <1>12, <2>3 DEF IncludeExecuted, storeVars, cycleVars
<1>13. CASE IncludeReverted \/ EvictTx \/ ForeignChange
  BY <1>13 DEF IncludeReverted, EvictTx, ForeignChange, vaultVars, storeVars, cycleVars
<1>14. CASE Crash
  BY <1>14 DEF Crash, vaultVars, storeVars
<1>15. CASE BeyondBound \/ UNCHANGED vars
  BY <1>15 DEF BeyondBound, vars, vaultVars, storeVars, cycleVars
<1> QED
  BY <1>1, <1>2, <1>3, <1>4, <1>5, <1>6, <1>7, <1>8, <1>9, <1>10, <1>11, <1>12, <1>13,
     <1>14, <1>15 DEF Next, Start, CycleStep, VaultStep

-----------------------------------------------------------------------------
\* The phases of a cycle and the plans handed in

\* What a step of the call in progress may change.
LEMMA CallStepFacts ==
  ASSUME TxInv, CallStep
  PROVE  /\ stage \in Active /\ stage' # "idle"
         /\ UNCHANGED <<call, ledger>> /\ Included' = Included
         /\ \A c \in Calls : c # call => outcome'[c] = outcome[c]
         /\ outcome[call] = "running" /\ outcome'[call] # "unused"
         /\ stage' = "ok" => outcome'[call] = "ok" /\ CurrentTx' \in Included'
<1> USE DEF TxInv, TxTypeOK, OneRunning, Active, Included
<1>1. CASE PrepareFails \/ SignFails \/ BroadcastRejected \/ PollExhausted
  BY <1>1 DEF PrepareFails, SignFails, BroadcastRejected, PollExhausted, Answer, chainVars
<1>2. CASE PollFound
  BY <1>2 DEF PollFound, Answer, chainVars, CurrentTx
<1>3. CASE BroadcastLost
  BY <1>3 DEF BroadcastLost, Answer, Accept, chainVars
<1>4. CASE ReadSequence \/ PollMissed
  BY <1>4 DEF ReadSequence, PollMissed, chainVars
<1>5. CASE BroadcastAccepted
  BY <1>5 DEF BroadcastAccepted, Accept
<1> QED
  BY <1>1, <1>2, <1>3, <1>4, <1>5 DEF CallStep

LEMMA PhaseStep ==
  ASSUME LoopInv, [Next]_vars
  PROVE  PhaseInv'
<1> USE DEF LoopInv, PhaseInv, InCycle, PhaseCall, Goto
<1>0. TypeOK /\ TxInv
  OBVIOUS
<1>1. CASE Start \/ ResetDB
  BY <1>1, StartFacts DEF ResetDB, txVars, cycleVars
<1>2. CASE BeginCycle
  BY <1>0, <1>2 DEF BeginCycle, txVars, TypeOK
<1>3. CASE FetchMarket \/ ReadPositions \/ ReadLiquid \/ ReadTotal \/ AbortFetch \/ AbortPlan
  BY <1>3 DEF FetchMarket, ReadPositions, ReadLiquid, ReadTotal, AbortFetch, AbortPlan, Continue,
              txVars
<1>4. CASE NoPools \/ NoActions \/ Record
  BY <1>4 DEF NoPools, NoActions, Record, EndUnchanged, txVars
<1>5. CASE MakePlan
  <2>1. PICK p \in Plans : plan' = p /\ Goto("plan", IF p.withdraw > 0 THEN "withdraw" ELSE "deposit")
    BY <1>5 DEF MakePlan
  <2>2. p.withdraw \in Nat /\ p.deposit \in Nat /\ p.withdraw + p.deposit > 0
    BY <2>1, BoundsAssumption DEF Plans
  <2> QED
    BY <1>5, <2>1, <2>2 DEF MakePlan, txVars
<1>6. CASE StartWithdrawal \/ StartDeposit
  BY <1>6 DEF StartWithdrawal, StartDeposit, StartPhase, Execute
<1>7. CASE WithdrawalSucceeds \/ DepositSucceeds
  BY <1>7 DEF WithdrawalSucceeds, DepositSucceeds, PhaseSucceeds, Return
<1>8. CASE PhaseFails
  BY <1>8 DEF PhaseFails, Return
<1>9. CASE ExecutionStep
  BY <1>0, <1>9, CallStepFacts DEF ExecutionStep, cycleVars, Active
<1>10. CASE IncludeExecuted \/ IncludeReverted \/ EvictTx
  BY <1>10 DEF IncludeExecuted, IncludeReverted, EvictTx, execVars, cycleVars
<1>11. CASE ForeignChange \/ BeyondBound \/ UNCHANGED vars
  BY <1>11 DEF ForeignChange, BeyondBound, vars, txVars, cycleVars
<1>12. CASE Crash
  BY <1>12 DEF Crash, Kill
<1> QED
  BY <1>1, <1>2, <1>3, <1>4, <1>5, <1>6, <1>7, <1>8, <1>9, <1>10, <1>11, <1>12
     DEF Next, Start, CycleStep, VaultStep

LEMMA AnswerStep ==
  ASSUME LoopInv, [Next]_vars
  PROVE  AnswerInv'
<1> USE DEF LoopInv, AnswerInv, CurrentTx, Goto
<1>0. TypeOK /\ TxInv /\ TxTypeOK
  BY DEF TypeOK
<1>1. CASE Start \/ ResetDB \/ BeginCycle
  BY <1>1, StartFacts DEF ResetDB, BeginCycle, txVars, Included
<1>2. CASE FetchMarket \/ ReadPositions \/ ReadLiquid \/ ReadTotal \/ AbortFetch \/ AbortPlan
  BY <1>2 DEF FetchMarket, ReadPositions, ReadLiquid, ReadTotal, AbortFetch, AbortPlan, Continue,
              txVars, Included
<1>3. CASE NoPools \/ NoActions \/ MakePlan \/ Record
  BY <1>3 DEF NoPools, NoActions, Record, EndUnchanged, MakePlan, txVars, Included
<1>4. CASE StartWithdrawal \/ StartDeposit
  BY <1>4 DEF StartWithdrawal, StartDeposit, StartPhase, Execute
<1>5. CASE WithdrawalSucceeds \/ DepositSucceeds \/ PhaseFails \/ Crash
  BY <1>5 DEF WithdrawalSucceeds, DepositSucceeds, PhaseSucceeds, PhaseFails, Return, Crash, Kill
<1>6. CASE ExecutionStep
  BY <1>0, <1>6, CallStepFacts DEF ExecutionStep
<1>7. CASE IncludeExecuted \/ IncludeReverted
  <2>1. PICK tx \in mempool, code \in {Success, Reverted} : Include(tx, code)
    BY <1>7 DEF IncludeExecuted, IncludeReverted
  <2>2. Included' = Included \union {tx}
    BY <1>0, <2>1, LedgerAppended
  <2> QED
    BY <1>7, <2>2 DEF IncludeExecuted, IncludeReverted, execVars
<1>8. CASE EvictTx
  BY <1>8 DEF EvictTx, Evict, execVars, Included
<1>9. CASE ForeignChange \/ BeyondBound \/ UNCHANGED vars
  BY <1>9 DEF ForeignChange, BeyondBound, vars, txVars, Included
<1> QED
  BY <1>1, <1>2, <1>3, <1>4, <1>5, <1>6, <1>7, <1>8, <1>9 DEF Next, Start, CycleStep, VaultStep

LEMMA UsedStep ==
  ASSUME LoopInv, [Next]_vars
  PROVE  UsedInv'
<1> USE DEF LoopInv, UsedInv, Goto
<1>0. /\ TypeOK /\ TxInv /\ run \in Nat /\ call \in Calls /\ outcome \in [Calls -> Outcomes]
      /\ \A c \in Calls : c.run \in Nat
  BY BoundsAssumption, CallsAssumption DEF TypeOK, TxTypeOK
<1>1. CASE Start \/ ResetDB
  BY <1>1, StartFacts DEF ResetDB, txVars, cycleVars
<1>2. CASE BeginCycle
  BY <1>0, <1>2 DEF BeginCycle, txVars
<1>3. CASE FetchMarket \/ ReadPositions \/ ReadLiquid \/ ReadTotal \/ AbortFetch \/ AbortPlan
  BY <1>3 DEF FetchMarket, ReadPositions, ReadLiquid, ReadTotal, AbortFetch, AbortPlan, Continue,
              txVars
<1>4. CASE NoPools \/ NoActions \/ MakePlan \/ Record
  BY <1>4 DEF NoPools, NoActions, Record, EndUnchanged, MakePlan, txVars
<1>5. CASE StartWithdrawal \/ StartDeposit
  BY <1>0, <1>5 DEF StartWithdrawal, StartDeposit, StartPhase, Execute
<1>6. CASE WithdrawalSucceeds \/ DepositSucceeds
  <2>1. outcome[call] = "ok" /\ (pc = "withdrawing" => call.phase = "withdraw")
    BY <1>6 DEF WithdrawalSucceeds, DepositSucceeds, PhaseSucceeds, AnswerInv, PhaseInv, PhaseCall
  <2> QED
    BY <1>6, <2>1 DEF WithdrawalSucceeds, DepositSucceeds, PhaseSucceeds, Return
<1>7. CASE PhaseFails
  BY <1>7 DEF PhaseFails, Return
<1>8. CASE ExecutionStep
  <2>1. /\ stage \in Active /\ call' = call /\ pc' = pc /\ run' = run
        /\ \A c \in Calls : c # call => outcome'[c] = outcome[c]
        /\ outcome[call] = "running"
    BY <1>0, <1>8, CallStepFacts DEF ExecutionStep, cycleVars
  <2>2. pc \in {"withdrawing", "depositing"}
    BY <2>1 DEF PhaseInv, Active
  <2> QED
    BY <1>0, <2>1, <2>2
<1>9. CASE IncludeExecuted \/ IncludeReverted \/ EvictTx
  BY <1>9 DEF IncludeExecuted, IncludeReverted, EvictTx, execVars, cycleVars
<1>10. CASE ForeignChange \/ BeyondBound \/ UNCHANGED vars
  BY <1>10 DEF ForeignChange, BeyondBound, vars, txVars, cycleVars
<1>11. CASE Crash
  BY <1>0, <1>11 DEF Crash, Kill, TxInv, OneRunning, Active
<1> QED
  BY <1>1, <1>2, <1>3, <1>4, <1>5, <1>6, <1>7, <1>8, <1>9, <1>10, <1>11
     DEF Next, Start, CycleStep, VaultStep

-----------------------------------------------------------------------------
\* Deposits after withdrawals

\* A call brings at most its own transaction to the node, with the next sequence.
LEMMA SentByCallStep ==
  ASSUME TxInv, CallStep
  PROVE  \/ Sent' = Sent
         \/ Sent' = Sent \union {CurrentTx} /\ sequence = Len(ledger)
<1>1. CASE UNCHANGED chainVars
  BY <1>1 DEF chainVars, Sent, Included
<1>2. CASE stage = "signing" /\ Accept(CurrentTx)
  <2>1. mempool = {} /\ mempool' = {CurrentTx} /\ sequence = Len(ledger)
    BY <1>2, AcceptsWhenEmpty
  <2> QED
    BY <1>2, <2>1 DEF Accept, Sent, Included
<1> QED
  BY <1>1, <1>2 DEF CallStep, PrepareFails, ReadSequence, SignFails, BroadcastAccepted,
     BroadcastRejected, BroadcastLost, PollFound, PollMissed, PollExhausted, chainVars

LEMMA IncludedSequences ==
  ASSUME TxInv
  PROVE  \A tx \in Included : tx.sequence < Len(ledger)
<1>1. \A i \in DOMAIN ledger : ledger[i].tx.sequence < Len(ledger)
  BY DEF TxInv, TxTypeOK, ChainTypeOK, LedgerSequences
<1> QED
  BY <1>1 DEF Included

LEMMA DepositStep ==
  ASSUME LoopInv, [Next]_vars
  PROVE  DepositAfterWithdrawal'
<1>0. /\ TypeOK /\ TxInv /\ outcome \in [Calls -> Outcomes] /\ call \in Calls
      /\ \A tx \in Sent : tx \in Tx /\ tx.call \in Calls
  BY SentTyped DEF LoopInv, TypeOK, TxTypeOK
<1>1. ASSUME Sent' \subseteq Sent, Included \subseteq Included',
             \A c \in Calls : outcome'[c] # "unused" => outcome[c] # "unused"
      PROVE  DepositAfterWithdrawal'
  BY <1>1 DEF LoopInv, DepositAfterWithdrawal
<1>2. CASE UNCHANGED <<mempool, ledger, outcome>>
  BY <1>1, <1>2 DEF Sent, Included
<1>3. CASE StartWithdrawal \/ StartDeposit
  <2>1. PICK phase \in Phases :
          /\ pc = phase
          /\ PhaseCall(phase) \in Calls
          /\ Execute(PhaseCall(phase))
    BY <1>3, PhaseIsNewPlan DEF StartWithdrawal, StartDeposit, StartPhase, Goto, Phases
  <2>2. Sent' = Sent /\ Included' = Included
    BY <2>1 DEF Execute, chainVars, Sent, Included
  <2>3. \A c \in Calls : c # PhaseCall(phase) => outcome'[c] = outcome[c]
    BY <1>0, <2>1 DEF Execute
  <2>4. ASSUME NEW tx \in Sent, tx.call.phase = "deposit", tx.call.run = run
        PROVE  pc # "withdraw"
    BY <1>0, <2>4 DEF LoopInv, TxInv, SentWasCalled, UsedInv
  <2>5. PhaseCall(phase).phase = phase /\ PhaseCall(phase).run = run
    BY DEF PhaseCall
  <2> QED
    BY <2>1, <2>2, <2>3, <2>4, <2>5 DEF LoopInv, DepositAfterWithdrawal
<1>4. CASE ExecutionStep
  <2>1. /\ CallStep /\ stage \in Active /\ Included' = Included
        /\ \A c \in Calls : outcome'[c] # "unused" => outcome[c] # "unused"
    BY <1>0, <1>4, CallStepFacts DEF ExecutionStep
  <2>2. CASE Sent' = Sent
    BY <1>1, <2>1, <2>2
  <2>3. CASE Sent' = Sent \union {CurrentTx} /\ sequence = Len(ledger)
    <3>1. ASSUME NEW c \in Calls, call.phase = "deposit", c.phase = "withdraw",
                 c.run = call.run, outcome[c] # "unused"
          PROVE  \E first \in Included : first.call = c /\ first.sequence < sequence
      <4>1. pc = "depositing" /\ call.run = run
        BY <2>1, <3>1 DEF LoopInv, PhaseInv, PhaseCall, Active
      <4>2. outcome[c] = "ok"
        BY <3>1, <4>1 DEF LoopInv, UsedInv
      <4>3. PICK first \in Included : first.call = c
        BY <1>0, <4>2 DEF TxInv, SuccessMeansIncluded
      <4> QED
        BY <1>0, <2>3, <4>3, IncludedSequences
    <3>2. CurrentTx.call = call /\ CurrentTx.sequence = sequence
      BY DEF CurrentTx
    <3> QED
      BY <2>1, <2>3, <3>1, <3>2 DEF LoopInv, DepositAfterWithdrawal
  <2> QED
    BY <1>0, <2>1, <2>2, <2>3, SentByCallStep
<1>5. CASE IncludeExecuted \/ IncludeReverted
  <2>1. PICK tx \in mempool, code \in {Success, Reverted} : Include(tx, code)
    BY <1>5 DEF IncludeExecuted, IncludeReverted
  <2>2. Included' = Included \union {tx}
    BY <1>0, <2>1, LedgerAppended DEF TypeOK
  <2>3. Sent' \subseteq Sent
    BY <2>1, <2>2 DEF Include, Sent
  <2> QED
    BY <1>1, <1>5, <2>2, <2>3 DEF IncludeExecuted, IncludeReverted, execVars
<1>6. CASE EvictTx
  BY <1>1, <1>6 DEF EvictTx, Evict, execVars, Sent, Included
<1>7. CASE Crash
  BY <1>0, <1>1, <1>7 DEF Crash, Kill, chainVars, Sent, Included, TxInv, OneRunning, Active
<1>8. CASE WithdrawalSucceeds \/ DepositSucceeds \/ PhaseFails
  BY <1>2, <1>8 DEF WithdrawalSucceeds, DepositSucceeds, PhaseSucceeds, PhaseFails, Return, chainVars
<1>9. CASE UNCHANGED txVars
  BY <1>2, <1>9 DEF txVars
<1> QED
  BY StartFacts, <1>3, <1>4, <1>5, <1>6, <1>7, <1>8, <1>9 DEF Next, Start, CycleStep, VaultStep, vars,
     ResetDB, BeginCycle, FetchMarket, ReadPositions,
     ReadLiquid, ReadTotal, AbortFetch, AbortPlan, Continue, NoPools, NoActions, EndUnchanged,
     MakePlan, Record, ForeignChange, BeyondBound

-----------------------------------------------------------------------------
\* The snapshots

\* The sequence a call uses once it has one.
LEMMA SequenceOfCallStep ==
  ASSUME CallStep, stage' \in {"signing", "waiting", "ok"}
  PROVE  \/ sequence' = Len(ledger)
         \/ sequence' = sequence /\ stage \in {"signing", "waiting"}
BY DEF CallStep, PrepareFails, ReadSequence, SignFails, BroadcastAccepted, BroadcastRejected,
   BroadcastLost, PollFound, PollMissed, PollExhausted, Answer, AccountSequence

LEMMA HashesStep ==
  ASSUME LoopInv, [Next]_vars
  PROVE  HashesInv'
<1> USE DEF LoopInv, HashesInv, InCycle, Goto
<1>0. TypeOK /\ TxInv /\ TxTypeOK
  BY DEF TypeOK
<1>1. ASSUME UNCHANGED <<ledger, stage, sequence, run, hashes>>, InCycle' => InCycle
      PROVE  HashesInv'
  <2>1. Included' = Included
    BY <1>1 DEF Included
  <2> QED
    BY <1>1, <2>1
<1>2. CASE Start \/ ResetDB
  BY <1>2, StartFacts DEF ResetDB, cycleVars
<1>3. CASE BeginCycle
  <2>1. hashes' = <<>>
    BY <1>3 DEF BeginCycle
  <2> QED
    BY <2>1
<1>4. CASE FetchMarket \/ ReadPositions \/ ReadLiquid \/ ReadTotal \/ AbortFetch \/ AbortPlan
  BY <1>1, <1>4 DEF FetchMarket, ReadPositions, ReadLiquid, ReadTotal, AbortFetch, AbortPlan,
                    Continue, txVars
<1>5. CASE NoPools \/ NoActions \/ MakePlan \/ Record
  BY <1>1, <1>5 DEF NoPools, NoActions, Record, EndUnchanged, MakePlan, txVars
<1>6. CASE StartWithdrawal \/ StartDeposit
  BY <1>6 DEF StartWithdrawal, StartDeposit, StartPhase, Execute, chainVars, Included
<1>7. CASE WithdrawalSucceeds \/ DepositSucceeds
  <2>1. /\ hashes' = Append(hashes, CurrentTx) /\ stage = "ok" /\ stage' = "idle"
        /\ UNCHANGED <<ledger, run>> /\ InCycle
        /\ pc \in {"withdrawing", "depositing"}
    BY <1>7 DEF WithdrawalSucceeds, DepositSucceeds, PhaseSucceeds, Return, chainVars
  <2>2. /\ CurrentTx \in Included /\ CurrentTx.call.run = run /\ CurrentTx.sequence = sequence
    BY <2>1 DEF AnswerInv, PhaseInv, PhaseCall, CurrentTx
  <2>3. hashes \in Seq(Tx) /\ CurrentTx \in Tx
    BY <1>0 DEF TypeOK, TxTypeOK, CurrentTx, Tx
  <2>4. /\ DOMAIN hashes' = DOMAIN hashes \union {Len(hashes) + 1}
        /\ \A i \in DOMAIN hashes : hashes'[i] = hashes[i]
        /\ hashes'[Len(hashes) + 1] = CurrentTx
        /\ DOMAIN hashes = 1..Len(hashes) /\ Len(hashes) \in Nat
    BY <2>1, <2>3
  <2>5. Included' = Included
    BY <2>1 DEF Included
  <2>6. \A i \in DOMAIN hashes' : hashes'[i] \in Included' /\ hashes'[i].call.run = run'
    BY <2>1, <2>2, <2>4, <2>5
  <2>7. \A i, j \in DOMAIN hashes' : i < j => hashes'[i].sequence < hashes'[j].sequence
    BY <2>1, <2>2, <2>4
  <2> QED
    BY <2>1, <2>6, <2>7
<1>8. CASE PhaseFails \/ Crash
  BY <1>8 DEF PhaseFails, Crash
<1>9. CASE ExecutionStep
  <2>1. /\ CallStep /\ UNCHANGED <<ledger, run, hashes, pc>>
        /\ Included' = Included
    BY <1>0, <1>9, CallStepFacts DEF ExecutionStep, cycleVars
  <2>2. InCycle => \A i \in DOMAIN hashes : hashes[i].sequence < Len(ledger)
    BY <1>0, IncludedSequences
  <2> QED
    BY <2>1, <2>2, SequenceOfCallStep
<1>10. CASE IncludeExecuted \/ IncludeReverted
  <2>1. PICK tx \in mempool, code \in {Success, Reverted} : Include(tx, code)
    BY <1>10 DEF IncludeExecuted, IncludeReverted
  <2>2. Included' = Included \union {tx}
    BY <1>0, <2>1, LedgerAppended
  <2> QED
    BY <1>10, <2>2 DEF IncludeExecuted, IncludeReverted, execVars, cycleVars
<1>11. CASE EvictTx
  BY <1>1, <1>11 DEF EvictTx, Evict, execVars, cycleVars
<1>12. CASE ForeignChange \/ BeyondBound \/ UNCHANGED vars
  BY <1>1, <1>12 DEF ForeignChange, BeyondBound, vars, txVars, cycleVars
<1> QED
  BY <1>2, <1>3, <1>4, <1>5, <1>6, <1>7, <1>8, <1>9, <1>10, <1>11, <1>12
     DEF Next, Start, CycleStep, VaultStep

\* A row that is saved is that of the current cycle, after all the others.
LEMMA RowSaved ==
  ASSUME LoopInv, NEW final \in Nat, Save(final), InCycle,
         UNCHANGED <<run, cycle>>, Included' = Included, pc' = "idle" \/ pc' = pc
  PROVE  pc' = "idle" => SnapsInv' /\ SnapshotHashesIncluded' /\ SnapshotsOrdered'
<1> DEFINE row == [run |-> run, cycle |-> cycle, hashes |-> hashes, final |-> final]
<1> SUFFICES ASSUME pc' = "idle"
             PROVE  SnapsInv' /\ SnapshotHashesIncluded' /\ SnapshotsOrdered'
  OBVIOUS
<1>1. UNCHANGED counter
  BY DEF Save
<1>t. run \in Nat /\ cycle \in Nat /\ counter \in Nat /\ snaps \in Seq(Snapshot)
  BY BoundsAssumption DEF LoopInv, TypeOK
<1>2. CASE UNCHANGED snaps
  BY <1>1, <1>2, <1>t DEF LoopInv, SnapsInv, SnapshotHashesIncluded, SnapshotsOrdered, InCycle
<1>3. CASE snaps' = Append(snaps, row)
  <2>1. row \in Snapshot
    BY BoundsAssumption DEF LoopInv, TypeOK, Snapshot, View
  <2>2. /\ DOMAIN snaps' = DOMAIN snaps \union {Len(snaps) + 1}
        /\ \A k \in DOMAIN snaps : snaps'[k] = snaps[k]
        /\ snaps'[Len(snaps) + 1] = row
        /\ DOMAIN snaps = 1..Len(snaps) /\ Len(snaps) \in Nat
    BY <1>3, <1>t, <2>1
  <2>3. row.run = run /\ row.cycle = cycle /\ row.hashes = hashes
    OBVIOUS
  <2> HIDE DEF row
  <2>4. SnapsInv'
    BY <1>1, <1>t, <2>2, <2>3 DEF LoopInv, SnapsInv, InCycle
  <2>5. SnapshotsOrdered'
    BY <1>t, <2>2, <2>3 DEF LoopInv, SnapsInv, SnapshotsOrdered
  <2>6. SnapshotHashesIncluded'
    BY <2>2, <2>3 DEF LoopInv, HashesInv, SnapshotHashesIncluded
  <2> QED
    BY <2>4, <2>5, <2>6
<1> QED
  BY <1>2, <1>3 DEF Save

LEMMA SnapsStep ==
  ASSUME LoopInv, [Next]_vars
  PROVE  SnapsInv' /\ SnapshotHashesIncluded' /\ SnapshotsOrdered'
<1>0. /\ TypeOK /\ TxInv /\ TxTypeOK /\ run \in Nat /\ counter \in Nat /\ cycle \in Nat
      /\ snaps \in Seq(Snapshot) /\ usdc \in Nat /\ view.usdc \in Nat
      /\ \A k \in DOMAIN snaps : snaps[k].run \in Nat /\ snaps[k].cycle \in Nat
  <2>1. TypeOK /\ TxInv /\ TxTypeOK
    BY DEF LoopInv, TypeOK
  <2>2. run \in Nat /\ counter \in Nat /\ cycle \in Nat /\ usdc \in Nat
    BY <2>1, BoundsAssumption DEF TypeOK
  <2>3. view.usdc \in Nat
    BY <2>1 DEF TypeOK, View
  <2>4. snaps \in Seq(Snapshot)
    BY <2>1 DEF TypeOK
  <2>5. \A k \in DOMAIN snaps : snaps[k] \in Snapshot
    BY <2>4
  <2>6. \A s \in Snapshot : s.run \in Nat /\ s.cycle \in Nat
    BY DEF Snapshot
  <2> QED
    BY <2>1, <2>2, <2>3, <2>4, <2>5, <2>6
<1>1. ASSUME UNCHANGED <<snaps, run, cycle, counter>>, Included \subseteq Included',
             InCycle' => InCycle
      PROVE  SnapsInv' /\ SnapshotHashesIncluded' /\ SnapshotsOrdered'
  BY <1>1 DEF LoopInv, SnapsInv, SnapshotHashesIncluded, SnapshotsOrdered
<1>2. ASSUME UNCHANGED ledger PROVE Included' = Included
  BY <1>2 DEF Included
<1>3. CASE Start
  BY <1>1, <1>2, <1>3, StartFacts DEF txVars, storeVars, Goto, InCycle
<1>4. CASE ResetDB
  BY <1>4 DEF ResetDB, SnapsInv, SnapshotHashesIncluded, SnapshotsOrdered, cycleVars, InCycle
<1>5. CASE BeginCycle
  <2>1. /\ UNCHANGED <<snaps, ledger>> /\ run' = run + 1
        /\ \/ counter' = counter + 1 /\ cycle' = counter + 1
           \/ counter' \in {counter, counter + 1} /\ cycle' \in Fallback
    BY <1>5 DEF BeginCycle, NextNumber, FallbackNumber, txVars
  <2>2. SnapsInv'
    BY <1>0, <2>1 DEF LoopInv, SnapsInv
  <2> QED
    BY <1>2, <2>1, <2>2 DEF LoopInv, SnapshotHashesIncluded, SnapshotsOrdered
<1>6. CASE FetchMarket \/ ReadPositions \/ ReadLiquid \/ ReadTotal \/ AbortFetch \/ AbortPlan
  BY <1>1, <1>2, <1>6 DEF FetchMarket, ReadPositions, ReadLiquid, ReadTotal, AbortFetch, AbortPlan,
                          Continue, Goto, txVars, storeVars, InCycle
<1>7. CASE MakePlan \/ StartWithdrawal \/ StartDeposit \/ WithdrawalSucceeds \/ DepositSucceeds
  BY <1>1, <1>2, <1>7 DEF MakePlan, StartWithdrawal, StartDeposit, StartPhase, Execute,
     WithdrawalSucceeds, DepositSucceeds, PhaseSucceeds, Return, Goto, txVars, chainVars,
     storeVars, InCycle
<1>8. CASE NoPools \/ NoActions \/ Record \/ PhaseFails
  <2>1. /\ InCycle /\ pc' = "idle" /\ UNCHANGED <<run, cycle, ledger>>
        /\ \E final \in Nat : Save(final)
    BY <1>0, <1>8 DEF NoPools, NoActions, EndUnchanged, Record, PhaseFails, Return, Goto,
       txVars, chainVars, InCycle
  <2> QED
    BY <1>2, <2>1, RowSaved
<1>9. CASE ExecutionStep
  BY <1>0, <1>1, <1>9, CallStepFacts DEF ExecutionStep, storeVars, cycleVars, InCycle
<1>10. CASE IncludeExecuted \/ IncludeReverted
  <2>1. PICK tx \in mempool, code \in {Success, Reverted} : Include(tx, code)
    BY <1>10 DEF IncludeExecuted, IncludeReverted
  <2>2. Included' = Included \union {tx}
    BY <1>0, <2>1, LedgerAppended
  <2> QED
    BY <1>1, <1>10, <2>2 DEF IncludeExecuted, IncludeReverted, storeVars, cycleVars, InCycle
<1>11. CASE EvictTx \/ ForeignChange \/ BeyondBound \/ UNCHANGED vars
  BY <1>1, <1>2, <1>11 DEF EvictTx, Evict, ForeignChange, BeyondBound, vars, txVars, storeVars,
                           cycleVars, InCycle
<1>12. CASE Crash
  BY <1>1, <1>2, <1>12 DEF Crash, Kill, chainVars, storeVars, InCycle
<1> QED
  BY <1>3, <1>4, <1>5, <1>6, <1>7, <1>8, <1>9, <1>10, <1>11, <1>12 DEF Next, Start, CycleStep, VaultStep

-----------------------------------------------------------------------------
\* The theorems

LEMMA LoopInvInit == Init => LoopInv
<1> SUFFICES ASSUME Init PROVE LoopInv
  OBVIOUS
<1>1. TypeOK /\ TxInv
  BY TypeInit, TxInvInit DEF Init
<1>2. Sent = {} /\ stage = "idle" /\ \A c \in Calls : outcome[c] = "unused"
  BY DEF Init, TxInit, ChainInit, Sent, Included
<1>p. ParamInv
  BY DEF Init, ParamInit, ParamInv, ParamTypeOK, Statements, Parameters, NoParameters, Startable
<1>3. PhaseInv /\ UsedInv /\ AnswerInv /\ HashesInv /\ DepositAfterWithdrawal
  BY <1>2 DEF Init, PhaseInv, UsedInv, AnswerInv, HashesInv, InCycle, DepositAfterWithdrawal
<1>4. SnapsInv /\ SnapshotHashesIncluded /\ SnapshotsOrdered
  BY DEF Init, SnapsInv, SnapshotHashesIncluded, SnapshotsOrdered, InCycle
<1> QED
  BY <1>1, <1>p, <1>3, <1>4 DEF LoopInv

LEMMA LoopInvStep == LoopInv /\ [Next]_vars => LoopInv'
<1> SUFFICES ASSUME LoopInv, [Next]_vars PROVE LoopInv'
  OBVIOUS
<1>1. [TxNext]_txVars
  BY StepIsTxStep
<1>2. TxInv'
  BY <1>1, TxInvStep DEF LoopInv
<1>p. ParamInv'
  BY ParamsOfStep, ParamInvStep DEF LoopInv
<1>3. TypeOK'
  BY <1>2, <1>p, TypeStep DEF LoopInv, TxInv, ParamInv
<1> QED
  BY <1>2, <1>3, <1>p, PhaseStep, UsedStep, AnswerStep, HashesStep, SnapsStep, DepositStep DEF LoopInv

LEMMA LoopInvariant == Spec => []LoopInv
BY LoopInvInit, LoopInvStep, PTL DEF Spec

\* The variables keep their types: no balance, plan or counter leaves its range.
THEOREM TypeCorrect == Spec => []TypeOK
<1>1. LoopInv => TypeOK
  BY DEF LoopInv
<1> QED
  BY <1>1, LoopInvariant, PTL

\* The loop calls ExecuteActionPlan as TxExecution demands: one call at a time,
\* no plan twice.  So what is proved of TxExecution holds of the loop.
THEOREM LoopIsEnvironment == Spec => TxInit /\ [][TxNext]_txVars
<1>1. Init => TxInit
  BY DEF Init
<1>2. LoopInv /\ [Next]_vars => [TxNext]_txVars
  BY StepIsTxStep
<1> QED
  BY <1>1, <1>2, LoopInvariant, PTL DEF Spec

\* No deposit is on its way before the withdrawal planned with it is in a block.
THEOREM WithdrawalFirst == Spec => []DepositAfterWithdrawal
<1>1. LoopInv => DepositAfterWithdrawal
  BY DEF LoopInv
<1> QED
  BY <1>1, LoopInvariant, PTL

\* A snapshot lists transactions of its own cycle that are in a block, in order.
THEOREM HashesIncluded == Spec => []SnapshotHashesIncluded
<1>1. LoopInv => SnapshotHashesIncluded
  BY DEF LoopInv
<1> QED
  BY <1>1, LoopInvariant, PTL

\* The rows are in the order of the cycles, and the numbers the counter gave
\* increase.
THEOREM RowsOrdered == Spec => []SnapshotsOrdered
<1>1. LoopInv => SnapshotsOrdered
  BY DEF LoopInv
<1> QED
  BY <1>1, LoopInvariant, PTL

\* Parameters that have been saved are found by every later start, whatever
\* statement of a start fails and whenever the process is killed.
THEOREM SavedIsFound == Spec => []Startable
<1>1. LoopInv => Startable
  BY DEF LoopInv, ParamInv
<1> QED
  BY <1>1, LoopInvariant, PTL

\* To the loop each call of ExecuteActionPlan keeps its promise: one plan at a time,
\* each taking effect at most once, success only after the effect.
THEOREM LoopCanRelyOnCalls == Spec => Promise!Init /\ [][Promise!Next]_(Promise!vars)
<1>1. Init => Promise!Init
  BY PromiseInit DEF Init
<1>2. LoopInv /\ [Next]_vars => PromiseStep
  BY StepIsTxStep, StepKeepsPromise DEF LoopInv
<1> QED
  BY <1>1, <1>2, LoopInvariant, PTL DEF Spec, PromiseStep

-----------------------------------------------------------------------------
\* Every cycle that has executed something is recorded

\* The rows of the cycles that are over.
RecordedInv ==
  /\ pc = "down" => \A c \in Calls : outcome[c] = "unused"
  /\ \A c \in Calls :
       outcome[c] # "unused" /\ (c.run < run \/ ~InCycle) =>
         \E k \in DOMAIN snaps : snaps[k].run = c.run

LEMMA RecordedStep ==
  ASSUME LoopInv, RecordedInv, [Next]_vars, "crash" \notin Faults, "store" \notin Faults
  PROVE  RecordedInv'
<1> USE DEF Goto, InCycle
<1>0. /\ TypeOK /\ TxInv /\ TxTypeOK /\ run \in Nat /\ call \in Calls
      /\ outcome \in [Calls -> Outcomes]
      /\ \A c \in Calls : c.run \in Nat
      /\ \A c \in Calls : outcome[c] # "unused" => c.run <= run
  BY BoundsAssumption, CallsAssumption DEF LoopInv, TypeOK, TxTypeOK, UsedInv
\* Steps that end no cycle and hand in nothing.
<1>1. ASSUME UNCHANGED <<snaps, run>>, pc' = "down" => pc = "down", InCycle => InCycle',
             \A c \in Calls : outcome'[c] # "unused" => outcome[c] # "unused"
      PROVE  RecordedInv'
  BY <1>1 DEF RecordedInv
<1>2. CASE Start
  BY <1>1, <1>2, StartFacts DEF storeVars, txVars
<1>3. CASE ResetDB
  BY <1>3 DEF ResetDB, RecordedInv, txVars, cycleVars
<1>4. CASE BeginCycle
  <2>1. /\ pc = "idle" /\ pc' = "market" /\ run' = run + 1 /\ UNCHANGED <<outcome, snaps>>
    BY <1>4 DEF BeginCycle, txVars
  <2> QED
    BY <1>0, <2>1 DEF RecordedInv
<1>5. CASE FetchMarket \/ ReadPositions \/ ReadLiquid \/ ReadTotal \/ MakePlan
  BY <1>1, <1>5 DEF FetchMarket, ReadPositions, ReadLiquid, ReadTotal, Continue, MakePlan,
     txVars, storeVars
\* A cycle that is aborted has handed in nothing.
<1>6. CASE AbortFetch \/ AbortPlan
  <2>1. /\ pc \in {"market", "positions", "liquid", "total", "plan"} /\ pc' = "idle"
        /\ UNCHANGED <<outcome, snaps, run>>
    BY <1>6 DEF AbortFetch, AbortPlan, Continue, txVars, storeVars
  <2>2. \A c \in Calls : outcome[c] # "unused" => c.run # run
    BY <2>1 DEF LoopInv, UsedInv
  <2> QED
    BY <1>0, <2>1, <2>2 DEF RecordedInv
<1>7. CASE NoPools \/ NoActions \/ Record \/ PhaseFails
  <2>1. /\ InCycle /\ pc' = "idle" /\ UNCHANGED <<outcome, run>>
        /\ \E final : Save(final)
    BY <1>7 DEF NoPools, NoActions, EndUnchanged, Record, PhaseFails, Return, txVars
  <2>2. PICK final : snaps' = Append(snaps, [run |-> run, cycle |-> cycle, hashes |-> hashes,
                                             final |-> final])
    BY <2>1 DEF Save
  <2> DEFINE row == [run |-> run, cycle |-> cycle, hashes |-> hashes, final |-> final]
  <2>3. /\ DOMAIN snaps' = DOMAIN snaps \union {Len(snaps) + 1}
        /\ \A k \in DOMAIN snaps : snaps'[k] = snaps[k]
        /\ snaps'[Len(snaps) + 1] = row
    BY <1>0, <2>2 DEF TypeOK
  <2>4. row.run = run
    OBVIOUS
  <2> HIDE DEF row
  <2>5. ASSUME NEW c \in Calls, outcome[c] # "unused"
        PROVE  \E k \in DOMAIN snaps' : snaps'[k].run = c.run
    <3>1. CASE c.run = run
      BY <2>3, <2>4, <3>1
    <3>2. CASE c.run # run
      BY <1>0, <2>3, <2>5, <3>2 DEF RecordedInv
    <3> QED
      BY <3>1, <3>2
  <2> QED
    BY <2>1, <2>5 DEF RecordedInv
<1>8. CASE StartWithdrawal \/ StartDeposit
  <2>1. PICK c \in Calls :
          /\ c.run = run /\ UNCHANGED <<snaps, run>>
          /\ pc' \in {"withdrawing", "depositing"} /\ InCycle
          /\ outcome' = [outcome EXCEPT ![c] = "running"]
    BY <1>8, PhaseIsNewPlan DEF StartWithdrawal, StartDeposit, StartPhase, Execute, PhaseCall,
       Phases, storeVars
  <2> QED
    BY <1>0, <2>1 DEF RecordedInv
<1>9. CASE WithdrawalSucceeds \/ DepositSucceeds
  BY <1>1, <1>9 DEF WithdrawalSucceeds, DepositSucceeds, PhaseSucceeds, Return, storeVars
<1>10. CASE ExecutionStep
  BY <1>0, <1>1, <1>10, CallStepFacts DEF ExecutionStep, storeVars, cycleVars
<1>11. CASE IncludeExecuted \/ IncludeReverted \/ EvictTx
  BY <1>1, <1>11 DEF IncludeExecuted, IncludeReverted, EvictTx, execVars, storeVars, cycleVars
<1>12. CASE ForeignChange \/ BeyondBound \/ UNCHANGED vars
  BY <1>1, <1>12 DEF ForeignChange, BeyondBound, vars, txVars, storeVars, cycleVars
<1>13. CASE Crash
  BY <1>13 DEF Crash, Kill
<1> QED
  BY <1>2, <1>3, <1>4, <1>5, <1>6, <1>7, <1>8, <1>9, <1>10, <1>11, <1>12, <1>13
     DEF Next, Start, CycleStep, VaultStep

\* Whenever the loop waits for its next cycle, every cycle that has called
\* ExecuteActionPlan has its row, also when its phase failed (avm.go:330-332, 386-388,
\* 470), if the process is not killed and the inserts succeed.
THEOREM RecordedWhenOver ==
  ASSUME "crash" \notin Faults, "store" \notin Faults
  PROVE  Spec => [](\A c \in Calls :
                      outcome[c] # "unused" /\ pc = "idle" =>
                        \E k \in DOMAIN snaps : snaps[k].run = c.run)
<1>1. Init => RecordedInv
  BY DEF Init, TxInit, RecordedInv
<1>2. LoopInv /\ RecordedInv /\ [Next]_vars => RecordedInv'
  BY RecordedStep
<1>3. RecordedInv => \A c \in Calls :
                       outcome[c] # "unused" /\ pc = "idle" =>
                         \E k \in DOMAIN snaps : snaps[k].run = c.run
  BY DEF RecordedInv, InCycle
<1> QED
  BY <1>1, <1>2, <1>3, LoopInvariant, PTL DEF Spec

-----------------------------------------------------------------------------
\* A cycle comes to its end

\* The steps the cycle in progress has left at most: seven to the first phase, and
\* for each phase the call, its steps and its answer.
CycleStepsLeft ==
  CASE pc = "market" -> 2 * MaxAttempts + 14
    [] pc = "positions" -> 2 * MaxAttempts + 13
    [] pc = "liquid" -> 2 * MaxAttempts + 12
    [] pc = "total" -> 2 * MaxAttempts + 11
    [] pc = "plan" -> 2 * MaxAttempts + 10
    [] pc = "withdraw" -> 2 * MaxAttempts + 9
    [] pc = "withdrawing" -> MaxAttempts + 6 + StepsLeft
    [] pc = "deposit" -> MaxAttempts + 5
    [] pc = "depositing" -> 2 + StepsLeft
    [] pc = "record" -> 1
    [] OTHER -> 0

StepsBounded ==
  /\ MaxAttempts \in Nat /\ StepsLeft \in Nat /\ StepsLeft <= MaxAttempts + 2
  /\ CycleStepsLeft \in 0 .. 2 * MaxAttempts + 14

LEMMA CycleStepsBounded == LoopInv => StepsBounded
<1> SUFFICES ASSUME LoopInv PROVE StepsBounded
  OBVIOUS
<1> USE DEF StepsBounded
<1>1. MaxAttempts \in Nat /\ StepsLeft \in Nat /\ StepsLeft <= MaxAttempts + 2
  BY MaxAttemptsAssumption, StepsLeftIsNat DEF LoopInv, TypeOK
<1>2. CASE pc = "withdrawing"
  BY <1>1, <1>2 DEF CycleStepsLeft
<1>3. CASE pc = "depositing"
  BY <1>1, <1>3 DEF CycleStepsLeft
<1>4. CASE pc \notin {"withdrawing", "depositing"}
  <2>1. CycleStepsLeft \in
          {2 * MaxAttempts + 14, 2 * MaxAttempts + 13, 2 * MaxAttempts + 12, 2 * MaxAttempts + 11,
           2 * MaxAttempts + 10, 2 * MaxAttempts + 9, MaxAttempts + 5, 1, 0}
    BY <1>4 DEF CycleStepsLeft
  <2> QED
    BY <1>1, <2>1
<1> QED
  BY <1>1, <1>2, <1>3, <1>4

LEMMA CycleStepRunsDown ==
  ASSUME LoopInv, StepsBounded, StepsBounded', CycleStep
  PROVE  CycleStepsLeft' < CycleStepsLeft
<1> USE DEF Goto
<1>0. /\ TypeOK /\ TxInv /\ TxTypeOK
      /\ MaxAttempts \in Nat /\ StepsLeft \in Nat /\ StepsLeft <= MaxAttempts + 2
      /\ StepsLeft' \in Nat /\ StepsLeft' <= MaxAttempts + 2
  BY DEF LoopInv, TypeOK, StepsBounded
<1>1. CASE FetchMarket \/ ReadPositions \/ ReadLiquid \/ ReadTotal
  <2>1. \/ pc = "market" /\ pc' = "positions"
        \/ pc = "positions" /\ pc' = "liquid"
        \/ pc = "liquid" /\ pc' = "total"
        \/ pc = "total" /\ pc' = "plan"
    BY <1>1 DEF FetchMarket, ReadPositions, ReadLiquid, ReadTotal, Continue
  <2> QED
    BY <1>0, <2>1 DEF CycleStepsLeft
<1>2. CASE AbortFetch \/ AbortPlan \/ NoPools \/ NoActions
  <2>1. pc \in {"market", "positions", "liquid", "total", "plan"} /\ pc' = "idle"
    BY <1>2 DEF AbortFetch, AbortPlan, Continue, NoPools, NoActions, EndUnchanged
  <2> QED
    BY <1>0, <2>1 DEF CycleStepsLeft
<1>3. CASE MakePlan
  <2>1. pc = "plan" /\ pc' \in {"withdraw", "deposit"}
    BY <1>3 DEF MakePlan
  <2> QED
    BY <1>0, <2>1 DEF CycleStepsLeft
<1>4. CASE StartWithdrawal
  <2>1. pc = "withdraw" /\ pc' = "withdrawing"
    BY <1>4 DEF StartWithdrawal, StartPhase
  <2> QED
    BY <1>0, <2>1 DEF CycleStepsLeft
<1>5. CASE StartDeposit
  <2>1. pc = "deposit" /\ pc' = "depositing"
    BY <1>5 DEF StartDeposit, StartPhase
  <2> QED
    BY <1>0, <2>1 DEF CycleStepsLeft
<1>6. CASE WithdrawalSucceeds
  <2>1. pc = "withdrawing" /\ pc' \in {"deposit", "record"}
    BY <1>6 DEF WithdrawalSucceeds, PhaseSucceeds
  <2> QED
    BY <1>0, <2>1 DEF CycleStepsLeft
<1>7. CASE DepositSucceeds \/ PhaseFails \/ Record
  <2>1. \/ pc \in {"withdrawing", "depositing"} /\ pc' \in {"record", "idle"}
        \/ pc = "record" /\ pc' = "idle"
    BY <1>7 DEF DepositSucceeds, PhaseSucceeds, PhaseFails, Record
  <2>2. CycleStepsLeft' <= 1 /\ (pc' = "idle" => CycleStepsLeft' = 0)
    BY <2>1 DEF CycleStepsLeft
  <2>3. CycleStepsLeft >= 1 /\ (pc # "record" => CycleStepsLeft >= 2)
    BY <1>0, <2>1 DEF CycleStepsLeft
  <2>4. CycleStepsLeft' \in Nat /\ CycleStepsLeft \in Nat
    BY <1>0 DEF StepsBounded
  <2> HIDE DEF CycleStepsLeft
  <2> QED
    BY <2>1, <2>2, <2>3, <2>4
<1>8. CASE ExecutionStep
  <2>1. StepsLeft' < StepsLeft /\ pc' = pc
    BY <1>0, <1>8, CallStepRunsDown DEF ExecutionStep, cycleVars
  <2>2. pc \in {"withdrawing", "depositing"}
    BY <1>0, <1>8, CallStepFacts DEF ExecutionStep, LoopInv, PhaseInv, Active
  <2> QED
    BY <1>0, <2>1, <2>2 DEF CycleStepsLeft
<1> QED
  BY <1>1, <1>2, <1>3, <1>4, <1>5, <1>6, <1>7, <1>8 DEF CycleStep

\* What happens beside the cycle adds no step to it.
LEMMA OthersDelayNoCycle ==
  ASSUME LoopInv, StepsBounded, [Next]_vars, ~CycleStep, ~BeginCycle
  PROVE  CycleStepsLeft' <= CycleStepsLeft
<1>1. CASE Start \/ Crash
  <2>1. pc' \in {"down", "idle"}
    BY <1>1, StartFacts DEF Crash
  <2>2. CycleStepsLeft' = 0
    BY <2>1 DEF CycleStepsLeft
  <2> QED
    BY <2>2 DEF StepsBounded
<1>2. CASE ResetDB \/ VaultStep \/ BeyondBound \/ UNCHANGED vars
  <2>1. UNCHANGED <<pc, stage, attempt>>
    BY <1>2 DEF ResetDB, VaultStep, IncludeExecuted, IncludeReverted, EvictTx, ForeignChange,
       BeyondBound, vars, txVars, execVars, cycleVars
  <2>2. CycleStepsLeft' = CycleStepsLeft
    BY <2>1 DEF CycleStepsLeft, StepsLeft
  <2> QED
    BY <2>2 DEF StepsBounded
<1> QED
  BY <1>1, <1>2 DEF Next, Start

\* A cycle makes at most 2 * MaxAttempts + 14 steps, whatever the chain, the
\* depositors and the operator do in between: only a new cycle adds steps.
THEOREM CycleRunsDown ==
  Spec =>
    [][/\ CycleStepsLeft \in 0 .. 2 * MaxAttempts + 14
       /\ CycleStep => CycleStepsLeft' < CycleStepsLeft
       /\ CycleStep \/ BeginCycle \/ CycleStepsLeft' <= CycleStepsLeft]_vars
<1>1. LoopInv => StepsBounded
  BY CycleStepsBounded
<1>2. LoopInv /\ StepsBounded /\ StepsBounded' /\ [Next]_vars =>
        [/\ CycleStepsLeft \in 0 .. 2 * MaxAttempts + 14
         /\ CycleStep => CycleStepsLeft' < CycleStepsLeft
         /\ CycleStep \/ BeginCycle \/ CycleStepsLeft' <= CycleStepsLeft]_vars
  BY CycleStepRunsDown, OthersDelayNoCycle DEF StepsBounded
<1> QED
  BY <1>1, <1>2, LoopInvariant, PTL DEF Spec
=============================================================================
