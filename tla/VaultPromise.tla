---------------------------- MODULE VaultPromise ---------------------------
(***************************************************************************)
(* What the rebalancing loop (internal/avm/avm.go) promises of the vault   *)
(* and of its history, without transactions, polls, restarts or database:  *)
(* besides its depositors only phases of plans move funds, each at most    *)
(* once, the withdrawal of a plan before its deposits and the plan of one  *)
(* cycle before that of a later one; a phase moves what it says less what  *)
(* slippage takes, or nothing; and a row of the history is written after   *)
(* the phases it lists, later than those of the cycles before.             *)
(***************************************************************************)
EXTENDS Naturals

CONSTANTS
  Calls,   \* the phases: the cycle, withdrawal or deposit, and the dollars
  Slip     \* dollars a phase may lose to slippage

VARIABLES
  usdc, lp,   \* the vault: liquid USDC, value of the positions
  done,       \* the phases that are over on the chain, executed or reverted
  history     \* the rows of cycle_snapshots: a cycle and the phases it lists

vars == <<usdc, lp, done, history>>

Cycles == {c.run : c \in Calls}

Init ==
  /\ usdc \in Nat /\ lp \in Nat
  /\ done = {} /\ history = {}

\* c is of an earlier cycle than d, or is the withdrawal of the same plan.
Before(c, d) ==
  \/ c.run < d.run
  \/ c.run = d.run /\ c.phase = "withdraw" /\ d.phase = "deposit"

\* The next phase on the chain comes after all that are over.
Finish(c) ==
  /\ \A d \in done : Before(d, c)
  /\ done' = done \union {c}
  /\ UNCHANGED history

Withdraw(c) ==
  /\ c.phase = "withdraw" /\ c.amount <= lp
  /\ Finish(c)
  /\ lp' = lp - c.amount
  /\ \E loss \in 0..Slip : loss <= c.amount /\ usdc' = usdc + c.amount - loss

Deposit(c) ==
  /\ c.phase = "deposit" /\ c.amount <= usdc
  /\ Finish(c)
  /\ usdc' = usdc - c.amount
  /\ \E loss \in 0..Slip : loss <= c.amount /\ lp' = lp + c.amount - loss

Revert(c) == Finish(c) /\ UNCHANGED <<usdc, lp>>

\* Depositors add USDC or redeem it.
Others == usdc' \in Nat /\ UNCHANGED <<lp, done, history>>

Record(row) ==
  /\ \A old \in history : old.run < row.run
  /\ \A c \in row.phases : c \in done /\ c.run = row.run
  /\ history' = history \union {row}
  /\ UNCHANGED <<usdc, lp, done>>

\* The database is created anew.
Reset == history' = {} /\ UNCHANGED <<usdc, lp, done>>

Next ==
  \/ \E c \in Calls : Withdraw(c) \/ Deposit(c) \/ Revert(c)
  \/ Others
  \/ \E run \in Cycles, phases \in SUBSET done : Record([run |-> run, phases |-> phases])
  \/ Reset

Spec == Init /\ [][Next]_vars
=============================================================================
