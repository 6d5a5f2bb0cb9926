------------------------------- MODULE Chain -------------------------------
(***************************************************************************)
(* The Elys node and chain, as far as the vault manager can tell them      *)
(* apart: the mempool of the RPC node it broadcasts to, and the sequence   *)
(* of transactions included in blocks.  This code is not in the            *)
(* repository; it is modelled from how internal/wallet and internal/vault  *)
(* use it: a signed transaction carries the account sequence it was signed *)
(* with, CheckTx refuses a sequence other than the next one, the chain     *)
(* raises the account sequence for every included transaction whatever its *)
(* execution code, and a query by hash answers once it is included.        *)
(***************************************************************************)
EXTENDS Naturals, Sequences, FiniteSets

CONSTANTS
  Calls,    \* identities of the ExecuteActionPlan invocations
  Faults    \* the faults the environment of a run may show

\* refused:  a local step before the broadcast fails
\* rejected: CheckTx answers Code # 0 for a reason other than the sequence
\* lost:     the broadcast answers with a transport error
\* query:    a query of the node fails or answers incomplete data
\* evicted:  a pending transaction disappears from the mempool
\* reverted: a transaction is included with Code # 0
\* crash:    the process is killed
\* store:    a statement on the PostgreSQL database fails
\* foreign:  depositors of the vault add or redeem USDC
FaultKinds == {"refused", "rejected", "lost", "query", "evicted", "reverted",
               "crash", "store", "foreign"}

ASSUME CallsNotEmpty == Calls # {}
ASSUME FaultsAssumption == Faults \subseteq FaultKinds

VARIABLES
  mempool,  \* accepted by CheckTx, not yet in a block
  ledger    \* the included transactions of the signing account, with their code

chainVars == <<mempool, ledger>>

Tx == [call : Calls, sequence : Nat]

\* sdk.TxResponse.Code: 0 is success, every other code is abstracted to Reverted
Success  == 0
Reverted == 1
Entry == [tx : Tx, code : {Success, Reverted}]

\* The committed account sequence, what AccountRetriever.GetAccount answers.
AccountSequence == Len(ledger)

\* The sequence CheckTx expects: committed plus what is already pending.
CheckSequence == Len(ledger) + Cardinality(mempool)

Included == {ledger[i].tx : i \in DOMAIN ledger}

ChainTypeOK ==
  /\ mempool \in SUBSET Tx
  /\ ledger \in Seq(Entry)

ChainInit ==
  /\ mempool = {}
  /\ ledger = <<>>

\* BroadcastTx in sync mode: CheckTx, then the transaction is pending.
Accept(tx) ==
  /\ tx.sequence = CheckSequence
  /\ mempool' = mempool \union {tx}
  /\ UNCHANGED ledger

\* A block includes the pending transaction that carries the next sequence.
\* A transaction whose messages fail is included too, with Code # 0 and no effect.
Include(tx, code) ==
  /\ tx \in mempool
  /\ tx.sequence = AccountSequence
  /\ mempool' = mempool \ {tx}
  /\ ledger' = Append(ledger, [tx |-> tx, code |-> code])

\* The mempool drops a transaction: time to live, recheck, node restart.
Evict(tx) ==
  /\ "evicted" \in Faults
  /\ tx \in mempool
  /\ mempool' = mempool \ {tx}
  /\ UNCHANGED ledger
=============================================================================
