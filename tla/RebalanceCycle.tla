--------------------------- MODULE RebalanceCycle --------------------------
(***************************************************************************)
(* The main loop of the vault manager (internal/avm/avm.go, cmd/avm) with  *)
(* its two transactions per cycle, the vault they move funds in, and the   *)
(* PostgreSQL rows that outlive the process: the cycle counter, the        *)
(* scoring parameters and the cycle snapshots (internal/state).            *)
(*                                                                         *)
(* The vault is two amounts in whole dollars: liquid USDC and the value of *)
(* its LP positions.  A plan is what it withdraws and what it deposits;    *)
(* which pools it touches does not change the control of the cycle.        *)
(***************************************************************************)
EXTENDS TxExecution, ParameterStore, Integers

CONSTANTS
  MaxRuns,     \* cycles started, bounds the model
  MaxValue,    \* dollars in the vault, bounds the model
  MaxForeign,  \* changes made by depositors of the vault, bounds the model
  Buffer,      \* scoringParams.MinLiquidUSDCBuffer
  Slip,        \* dollars a transaction may lose under its slippage tolerance
  Fallback     \* cycle numbers time.Now().Unix() % 1000000 may give

Phases == {"withdraw", "deposit"}

ASSUME BoundsAssumption ==
  /\ MaxRuns \in Nat \ {0} /\ MaxValue \in Nat \ {0} /\ MaxForeign \in Nat
  /\ Buffer \in Nat /\ Slip \in Nat /\ Fallback \subseteq Nat

\* A plan is executed once per run and phase; the run is the uuid of a cycle.
ASSUME CallsAssumption ==
  Calls = [run : 1..MaxRuns, phase : Phases, amount : 1..MaxValue]

VARIABLES
  usdc, lp,      \* the vault on the chain: liquid USDC, value of the positions
  foreign,       \* changes of the vault made by others, a history variable
  counter,       \* table cycle_counter
  snaps,         \* table cycle_snapshots, in the order of insertion
  pc,            \* where RunCycle stands
  run,           \* cycles started so far
  cycle,         \* the CycleNumber of the snapshot being filled
  view,          \* what the cycle has read of the vault
  plan,          \* the dollars to withdraw and to deposit
  hashes         \* the TransactionHashes of the snapshot being filled

vaultVars == <<usdc, lp, foreign>>
storeVars == <<counter, snaps>>
cycleVars == <<pc, run, cycle, view, plan, hashes>>
vars == <<txVars, vaultVars, storeVars, paramVars, cycleVars>>

\* The first vault read remembers when it was made: the history fields height
\* and foreign.
View == [lp : Nat, usdc : Nat, height : Nat, foreign : Nat]
NoView == [lp |-> 0, usdc |-> 0, height |-> 0, foreign |-> 0]

PCs == {"down", "idle", "market", "positions", "liquid", "total", "plan",
        "withdraw", "withdrawing", "deposit", "depositing", "record"}

Snapshot == [run : Nat, cycle : Nat, hashes : Seq(Tx), final : Nat]

TypeOK ==
  /\ TxTypeOK
  /\ usdc \in Nat /\ lp \in Nat /\ foreign \in Nat
  /\ ParamTypeOK
  /\ counter \in Nat /\ snaps \in Seq(Snapshot)
  /\ pc \in PCs
  /\ run \in 0..MaxRuns /\ cycle \in Nat
  /\ view \in View
  /\ plan \in [withdraw : 0..MaxValue, deposit : 0..MaxValue]
  /\ hashes \in Seq(Tx)

Init ==
  /\ TxInit
  /\ usdc \in 0..MaxValue
  /\ lp = MaxValue - usdc
  /\ foreign = 0
  /\ ParamInit
  /\ counter = 0 /\ snaps = <<>>
  /\ pc = "down"
  /\ run = 0 /\ cycle = 0
  /\ view = NoView
  /\ plan = [withdraw |-> 0, deposit |-> 0]
  /\ hashes = <<>>

Goto(from, to) ==
  /\ pc = from
  /\ pc' = to

(***************************************************************************)
(* Process start and stop, and the database                                *)
(***************************************************************************)

\* main, until the loop starts: pc stays "down".
Starting(step) ==
  /\ pc = "down"
  /\ step
  /\ UNCHANGED <<txVars, vaultVars, storeVars, cycleVars>>

LoadParameters ==
  \/ Starting(LoadFound)
  \/ Starting(LoadMissing)
  \/ "store" \in Faults /\ Starting(SaveDefaults)

SaveParameters ==
  \/ Starting(Deactivate)
  \/ Starting(Insert)
  \/ Starting(InsertRefused)
  \/ Starting(Commit)
  \/ "store" \in Faults /\ Starting(SaveFails)
  \/ "store" \in Faults /\ Starting(CommitUnanswered)

\* The tokens or the vault cannot be read, or the process is killed before.
StartFails == {"query", "crash"} \intersect Faults # {} /\ Starting(Forget)

StartLoop ==
  /\ Goto("down", "idle")
  /\ params # NoParameters
  /\ UNCHANGED <<txVars, vaultVars, storeVars, paramVars, run, cycle, view, plan, hashes>>

\* The process is killed; what it had in memory is gone.
Crash ==
  /\ pc # "down"
  /\ Kill
  /\ Forget
  /\ pc' = "down"
  /\ UNCHANGED <<vaultVars, storeVars, run, cycle, view, plan, hashes>>

\* scripts/reset_db.go, run by an operator while the process is down: every
\* table is dropped and created again.
ResetDB ==
  /\ pc = "down" /\ params = NoParameters /\ saving = "none"
  /\ rows # {}
  /\ DropRows
  /\ counter' = 0
  /\ snaps' = <<>>
  /\ UNCHANGED <<txVars, vaultVars, cycleVars>>

\* SaveCycleSnapshot inserts a row; an error is logged and the row is lost.
Save(final) ==
  /\ \/ snaps' = Append(snaps, [run |-> run, cycle |-> cycle, hashes |-> hashes,
                                final |-> final])
     \/ "store" \in Faults /\ UNCHANGED snaps
  /\ UNCHANGED <<counter, paramVars>>

(***************************************************************************)
(* One cycle                                                               *)
(***************************************************************************)

\* Mutant: the counter is read but not written back.
NextNumber_NotStored ==
  /\ cycle' = counter + 1
  /\ UNCHANGED counter

\* IncrementCycleNumber, one UPDATE ... RETURNING.
NextNumber ==
  /\ counter' = counter + 1
  /\ cycle' = counter + 1

\* The statement or its answer fails: the counter may have moved or not.
FallbackNumber ==
  /\ "store" \in Faults
  /\ counter' \in {counter, counter + 1}
  /\ cycle' \in Fallback

\* Mutant: the snapshot keeps the hashes of the cycle before.
BeginCycle_KeepsHashes ==
  /\ Goto("idle", "market")
  /\ run < MaxRuns
  /\ run' = run + 1
  /\ NextNumber \/ FallbackNumber
  /\ UNCHANGED <<txVars, vaultVars, paramVars, snaps, view, plan, hashes>>

BeginCycle ==
  /\ Goto("idle", "market")
  /\ run < MaxRuns
  /\ run' = run + 1
  /\ NextNumber \/ FallbackNumber
  /\ hashes' = <<>>
  /\ UNCHANGED <<txVars, vaultVars, paramVars, snaps, view, plan>>

Continue(from, to) ==
  /\ Goto(from, to)
  /\ UNCHANGED <<txVars, vaultVars, storeVars, paramVars, run, cycle, plan, hashes>>

\* GetTradableDenoms, GetPools and GetTokens read nothing of the vault's funds.
FetchMarket == Continue("market", "positions") /\ UNCHANGED view

ReadPositions ==
  /\ Continue("positions", "liquid")
  /\ view' = [NoView EXCEPT !.lp = lp, !.height = Len(ledger), !.foreign = foreign]

ReadLiquid ==
  /\ Continue("liquid", "total")
  /\ view' = [view EXCEPT !.usdc = usdc]

\* The total only fixes how much is planned; any plan within Plans is taken.
ReadTotal == Continue("total", "plan") /\ UNCHANGED view

\* Any of these queries fails: the cycle ends, and leaves no snapshot.
AbortFetch ==
  /\ "query" \in Faults
  /\ \E from \in {"market", "positions", "liquid", "total"} : Continue(from, "idle")
  /\ UNCHANGED view

\* What validateScoringParams of the planner thinks of the parameters: it
\* refuses a reduction factor of 0.
Plannable == params.factors # "zero"

\* Scoring, selection, allocation or planning fails: no snapshot either.
AbortPlan ==
  /\ ~Plannable \/ "refused" \in Faults
  /\ Continue("plan", "idle")
  /\ UNCHANGED view

EndUnchanged ==
  /\ Goto("plan", "idle")
  /\ Save(view.usdc)
  /\ UNCHANGED <<txVars, vaultVars, run, cycle, view, plan, hashes>>

\* No pool is selected; the planner is not called.
NoPools == EndUnchanged

\* The planner returns no action.
NoActions == Plannable /\ EndUnchanged

\* Mutant: the buffer is forgotten.
Plans_NoBuffer ==
  {p \in [withdraw : 0..MaxValue, deposit : 0..MaxValue] :
     /\ p.withdraw <= view.lp
     /\ p.withdraw + p.deposit > 0
     /\ p.deposit > 0 => p.deposit <= view.usdc + p.withdraw}

\* Mutant: the amount available for deposits may be negative.
Plans_NoFloor ==
  {p \in [withdraw : 0..MaxValue, deposit : -Buffer..MaxValue] :
     /\ p.withdraw <= view.lp
     /\ p.withdraw + p.deposit > 0
     /\ p.deposit + Buffer <= view.usdc + p.withdraw}

\* Deposits are capped by the liquid USDC plus the simulated proceeds of the
\* withdrawals, less the buffer, and never negative (planner.go:673-687).
Plans ==
  {p \in [withdraw : 0..MaxValue, deposit : 0..MaxValue] :
     /\ p.withdraw <= view.lp
     /\ p.withdraw + p.deposit > 0
     /\ p.deposit > 0 => p.deposit + Buffer <= view.usdc + p.withdraw}

MakePlan ==
  /\ Plannable
  /\ \E p \in Plans :
       /\ plan' = p
       /\ Goto("plan", IF p.withdraw > 0 THEN "withdraw" ELSE "deposit")
  /\ UNCHANGED <<txVars, vaultVars, storeVars, paramVars, run, cycle, view, hashes>>

\* The call of ExecuteActionPlan for a phase.  captureVaultState around it
\* feeds only the receipts.
StartPhase(phase, from, to) ==
  /\ Goto(from, to)
  /\ Execute([run |-> run, phase |-> phase, amount |-> plan[phase]])
  /\ UNCHANGED <<vaultVars, storeVars, paramVars, run, cycle, view, plan, hashes>>

StartWithdrawal == StartPhase("withdraw", "withdraw", "withdrawing")
StartDeposit == StartPhase("deposit", "deposit", "depositing")

\* Success: the hash and the receipts go into the snapshot.
PhaseSucceeds(from, to) ==
  /\ Goto(from, to)
  /\ stage = "ok"
  /\ Return
  /\ hashes' = Append(hashes, CurrentTx)
  /\ UNCHANGED <<vaultVars, storeVars, paramVars, run, cycle, view, plan>>

WithdrawalSucceeds ==
  PhaseSucceeds("withdrawing", IF plan.deposit > 0 THEN "deposit" ELSE "record")
DepositSucceeds == PhaseSucceeds("depositing", "record")

\* Mutant: the deposits are tried although the withdrawal failed.
PhaseFails_Continues ==
  /\ pc \in {"withdrawing", "depositing"}
  /\ stage = "failed"
  /\ Return
  /\ IF pc = "withdrawing" /\ plan.deposit > 0
     THEN pc' = "deposit" /\ UNCHANGED <<storeVars, paramVars>>
     ELSE pc' = "idle" /\ Save(view.usdc)
  /\ UNCHANGED <<vaultVars, run, cycle, view, plan, hashes>>

\* Mutant: a failed phase is executed once more.
PhaseFails_Retries ==
  /\ pc \in {"withdrawing", "depositing"}
  /\ stage = "failed"
  /\ Return
  /\ pc' = IF pc = "withdrawing" THEN "withdraw" ELSE "deposit"
  /\ UNCHANGED <<vaultVars, storeVars, paramVars, run, cycle, view, plan, hashes>>

\* Mutant: a failed phase leaves no snapshot.
PhaseFails_NotSaved ==
  /\ pc \in {"withdrawing", "depositing"}
  /\ stage = "failed"
  /\ Return
  /\ pc' = "idle"
  /\ UNCHANGED <<vaultVars, storeVars, paramVars, run, cycle, view, plan, hashes>>

\* Error: finalizeFailedSnapshot copies the initial state into the final one,
\* the snapshot is saved and the cycle ends.
PhaseFails ==
  /\ pc \in {"withdrawing", "depositing"}
  /\ stage = "failed"
  /\ Return
  /\ pc' = "idle"
  /\ Save(view.usdc)
  /\ UNCHANGED <<vaultVars, run, cycle, view, plan, hashes>>

\* Step 6: the final state is read, the initial one stands in when that fails.
Record ==
  /\ Goto("record", "idle")
  /\ \/ Save(usdc)
     \/ "query" \in Faults /\ Save(view.usdc)
  /\ UNCHANGED <<txVars, vaultVars, run, cycle, view, plan, hashes>>

(***************************************************************************)
(* The chain                                                               *)
(***************************************************************************)

\* The messages of a transaction can be executed.
Executable(c) ==
  \/ c.phase = "withdraw" /\ c.amount <= lp
  \/ c.phase = "deposit" /\ c.amount <= usdc

\* A withdrawal with its consolidation swaps turns LP value into USDC, a
\* deposit USDC into LP value, less what slippage takes.
Settle(c) ==
  \E loss \in 0..Slip :
    /\ loss <= c.amount
    /\ \/ /\ c.phase = "withdraw"
          /\ lp' = lp - c.amount
          /\ usdc' = usdc + c.amount - loss
       \/ /\ c.phase = "deposit"
          /\ usdc' = usdc - c.amount
          /\ lp' = lp + c.amount - loss

IncludeExecuted ==
  /\ \E tx \in mempool :
       /\ Include(tx, Success)
       /\ Executable(tx.call)
       /\ Settle(tx.call)
  /\ UNCHANGED <<execVars, foreign, storeVars, paramVars, cycleVars>>

IncludeReverted ==
  /\ \E tx \in mempool :
       /\ Include(tx, Reverted)
       /\ "reverted" \in Faults \/ ~Executable(tx.call)
  /\ UNCHANGED <<execVars, vaultVars, storeVars, paramVars, cycleVars>>

EvictTx ==
  /\ \E tx \in mempool : Evict(tx)
  /\ UNCHANGED <<execVars, vaultVars, storeVars, paramVars, cycleVars>>

\* Depositors of the vault add USDC or redeem it.
ForeignChange ==
  /\ "foreign" \in Faults
  /\ foreign < MaxForeign
  /\ foreign' = foreign + 1
  /\ usdc' \in 0..MaxValue
  /\ UNCHANGED <<txVars, lp, storeVars, paramVars, cycleVars>>

(***************************************************************************)
(* Specification                                                           *)
(***************************************************************************)

\* The call in progress, on the goroutine of the cycle.
ExecutionStep == CallStep /\ UNCHANGED <<vaultVars, storeVars, paramVars, cycleVars>>

CycleStep ==
  \/ FetchMarket \/ ReadPositions \/ ReadLiquid \/ ReadTotal \/ AbortFetch
  \/ NoPools \/ NoActions \/ AbortPlan \/ MakePlan
  \/ StartWithdrawal \/ StartDeposit
  \/ WithdrawalSucceeds \/ DepositSucceeds \/ PhaseFails
  \/ Record
  \/ ExecutionStep

VaultStep == IncludeExecuted \/ IncludeReverted \/ EvictTx \/ ForeignChange

\* The loop waits for a tick beyond the bound of the model.
BeyondBound == pc = "idle" /\ run = MaxRuns /\ UNCHANGED vars

Next ==
  \/ LoadParameters \/ SaveParameters \/ StartFails \/ StartLoop \/ Crash \/ ResetDB
  \/ BeginCycle
  \/ CycleStep
  \/ VaultStep
  \/ BeyondBound

\* The goroutine of the loop keeps running once the process is up.  Nothing is
\* assumed of the chain, of the operator or of the ticker.
Fairness == WF_vars(CycleStep)

Spec == Init /\ [][Next]_vars /\ Fairness

(***************************************************************************)
(* Properties                                                              *)
(***************************************************************************)

\* The deposit of a cycle is never on its way before the withdrawal planned
\* with it is in a block: the second phase starts only after the first has
\* answered success (avm.go:327-335, 371-383), whatever is late, lost or killed.
DepositAfterWithdrawal ==
  \A tx \in Sent : \A c \in Calls :
    /\ tx.call.phase = "deposit"
    /\ c.phase = "withdraw" /\ c.run = tx.call.run
    /\ outcome[c] # "unused"
    => \E first \in Included : first.call = c /\ first.sequence < tx.sequence

\* Every hash of a saved snapshot is that of a transaction of this very cycle
\* that is in a block, each listed once, the withdrawal first
\* (avm.go:337, 393, 470): none of a plan that is still pending or was refused.
SnapshotHashesIncluded ==
  \A k \in DOMAIN snaps :
    LET s == snaps[k] IN
      /\ \A i \in DOMAIN s.hashes :
           s.hashes[i] \in Included /\ s.hashes[i].call.run = s.run
      /\ \A i, j \in DOMAIN s.hashes :
           i < j => s.hashes[i].sequence < s.hashes[j].sequence

\* The rows of cycle_snapshots are in the order of the cycles, no cycle has
\* two, and the cycle numbers the counter gave increase, across restarts,
\* database resets and failed statements (avm.go:143, 490-498).
SnapshotsOrdered ==
  \A j, k \in DOMAIN snaps :
    j < k => /\ snaps[j].run < snaps[k].run
             /\ {snaps[j].cycle, snaps[k].cycle} \intersect Fallback = {}
                  => snaps[j].cycle < snaps[k].cycle

\* Nothing but the transactions of this cycle, executed, has touched the vault
\* since the cycle read it.
Undisturbed ==
  /\ foreign = view.foreign
  /\ \A i \in view.height + 1 .. Len(ledger) :
       ledger[i].tx.call.run = run /\ ledger[i].code = Success

\* An undisturbed cycle leaves the liquid USDC at what it found or at the
\* buffer, but for what slippage took of the withdrawal the deposit was planned
\* with (planner.go:673-687), at every moment between its two transactions too.
BufferKept == Undisturbed => usdc >= view.usdc \/ usdc + Slip >= Buffer

\* The deposit of an undisturbed cycle leaves the buffer, but for what slippage took
\* of the withdrawal, also when the vault had less to begin with: below the buffer
\* nothing is deposited (planner.go:673-687).
DepositLeavesBuffer ==
  [][\A tx \in mempool :
       Include(tx, Success) /\ tx.call.phase = "deposit" /\ Undisturbed'
         => usdc' + Slip >= Buffer]_vars

\* A cycle that has called ExecuteActionPlan ends up as a row of
\* cycle_snapshots, also when the phase failed (avm.go:330-332, 386-388, 470),
\* unless the process is killed or the insert fails.
ExecutedIsRecorded ==
  \A c \in Calls : outcome[c] = "running" ~> \E k \in DOMAIN snaps : snaps[k].run = c.run

\* RunCycle returns to the loop, although the chain may never include anything.
CycleEnds == pc \notin {"idle", "down"} ~> pc \in {"idle", "down"}

\* The calls the cycle makes are used as TxExecution demands, one at a time and
\* each plan once, so that what is shown of TxExecution holds of the loop.
ExecutionRespected == TxSpec

\* The phases that are over on the chain, and what the history lists of them.
Done == {tx.call : tx \in Included}
History ==
  {[run |-> snaps[k].run,
    phases |-> {snaps[k].hashes[i].call : i \in DOMAIN snaps[k].hashes}] : k \in DOMAIN snaps}

\* The loop implements its promise to the vault: on the chain its phases come in
\* the order they were planned in, so that one that lands late, after its cycle
\* was given up (live.go:1172), never undoes the plan of a later cycle
\* (avm.go:327-335, 371-383; client.go:486, 524).
Vault == INSTANCE VaultPromise WITH done <- Done, history <- History

VaultPromiseKept == Vault!Spec

\* "Always ensure we maintain the minimum liquid USDC buffer" (planner.go:673):
\* a deposit that executes leaves the buffer untouched.
BufferAlwaysKept ==
  [][\A tx \in mempool :
       Include(tx, Success) /\ tx.call.phase = "deposit" => usdc' + Slip >= Buffer]_vars

\* A withdrawal is in a block whose cycle has left no snapshot: without faults
\* of the database, its process was killed before the cycle was over.
Drifted ==
  \E tx \in Included :
    /\ tx.call.phase = "withdraw" /\ tx.call.run < run
    /\ \A k \in DOMAIN snaps : snaps[k].run # tx.call.run

\* "If the AVM crashes mid-execution (after withdrawals but before deposits) [...]
\* The next cycle will start from this state and should correct it"
\* (DEV-NOTES.md:83): a later cycle gets as far as a plan, and can make one.
DriftCorrected == Drifted /\ pc = "plan" => Plannable
=============================================================================
