---------------------------- MODULE TxExecution ----------------------------
(***************************************************************************)
(* One call of VaultClient.ExecuteActionPlan (internal/vault/live.go) with *)
(* all it calls: the checks, the new signing client, the message           *)
(* conversion, SignAndBroadcastTx of internal/wallet/client.go and         *)
(* waitForTransactionInclusion.  All sub-actions of a plan are messages of *)
(* one transaction, so a plan is one record here.  The process makes one   *)
(* call at a time and never sends a plan twice.                            *)
(***************************************************************************)
EXTENDS Chain

CONSTANT MaxAttempts   \* waitForTransactionInclusion polls this often (30 in the code)

ASSUME MaxAttemptsAssumption == MaxAttempts \in Nat \ {0}

VARIABLES
  stage,      \* where the call in progress stands
  call,       \* the plan being executed
  sequence,   \* the account sequence the transaction is signed with
  attempt,    \* the poll of waitForTransactionInclusion in progress
  outcome     \* what each call has answered to its caller so far

execVars == <<stage, call, sequence, attempt, outcome>>
txVars == <<mempool, ledger, stage, call, sequence, attempt, outcome>>

Stages == {"idle", "preparing", "signing", "waiting", "ok", "failed"}
Outcomes == {"unused", "running", "ok", "failed", "killed"}

TxTypeOK ==
  /\ ChainTypeOK
  /\ stage \in Stages
  /\ call \in Calls
  /\ sequence \in Nat
  /\ attempt \in 1..MaxAttempts
  /\ outcome \in [Calls -> Outcomes]

TxInit ==
  /\ ChainInit
  /\ stage = "idle"
  /\ call = CHOOSE c \in Calls : TRUE   \* no call yet: any value will do
  /\ sequence = 0
  /\ attempt = 1
  /\ outcome = [c \in Calls |-> "unused"]

\* The transaction of the current call; its hash stands for call and sequence.
CurrentTx == [call |-> call, sequence |-> sequence]

\* The call ends with an answer, TransactionResult or error.
Answer(result) ==
  /\ stage' = result
  /\ outcome' = [outcome EXCEPT ![call] = result]
  /\ UNCHANGED <<call, sequence, attempt>>

(***************************************************************************)
(* The steps of the call                                                   *)
(***************************************************************************)

\* ExecuteActionPlan is entered.
Execute(c) ==
  /\ stage = "idle"
  /\ stage' = "preparing"
  /\ call' = c
  /\ outcome' = [outcome EXCEPT ![c] = "running"]
  /\ UNCHANGED <<chainVars, sequence, attempt>>

\* Validation, ensureConnection, NewSigningClient, the message conversion or
\* the account query fails: nothing has been signed.
PrepareFails ==
  /\ stage = "preparing"
  /\ "refused" \in Faults
  /\ Answer("failed")
  /\ UNCHANGED chainVars

\* Mutant: the sequence counts the pending transactions too.
ReadSequence_Pending ==
  /\ stage = "preparing"
  /\ stage' = "signing"
  /\ sequence' = CheckSequence
  /\ UNCHANGED <<chainVars, call, attempt, outcome>>

\* GetAccount reads the committed sequence.  The two gas simulations change
\* nothing, and fall back to the default gas limit when they fail.
ReadSequence ==
  /\ stage = "preparing"
  /\ stage' = "signing"
  /\ sequence' = AccountSequence
  /\ UNCHANGED <<chainVars, call, attempt, outcome>>

\* Building, signing or encoding fails.
SignFails ==
  /\ stage = "signing"
  /\ "refused" \in Faults
  /\ Answer("failed")
  /\ UNCHANGED chainVars

\* Mutant: a broadcast is taken for an inclusion.
BroadcastAccepted_NoWait ==
  /\ stage = "signing"
  /\ Accept(CurrentTx)
  /\ Answer("ok")

\* BroadcastTx answers Code 0, and the wait for inclusion starts.
BroadcastAccepted ==
  /\ stage = "signing"
  /\ Accept(CurrentTx)
  /\ stage' = "waiting"
  /\ attempt' = 1
  /\ UNCHANGED <<call, sequence, outcome>>

\* CheckTx refuses: another sequence is expected, or some other reason.
BroadcastRejected ==
  /\ stage = "signing"
  /\ sequence # CheckSequence \/ "rejected" \in Faults
  /\ Answer("failed")
  /\ UNCHANGED chainVars

\* Mutant: a transport error is answered by signing and sending again.
BroadcastLost_Resends ==
  /\ stage = "signing"
  /\ "lost" \in Faults
  /\ stage' = "preparing"
  /\ Accept(CurrentTx) \/ UNCHANGED chainVars
  /\ UNCHANGED <<call, sequence, attempt, outcome>>

\* BroadcastTx answers an error: the node has the transaction or has it not.
BroadcastLost ==
  /\ stage = "signing"
  /\ "lost" \in Faults
  /\ Answer("failed")
  /\ Accept(CurrentTx) \/ UNCHANGED chainVars

\* QueryTxByHash finds the transaction in a block; its Code is not looked at.
PollFound ==
  /\ stage = "waiting"
  /\ CurrentTx \in Included
  /\ Answer("ok")
  /\ UNCHANGED chainVars

\* The query finds nothing, or fails.
NotFound == CurrentTx \notin Included \/ "query" \in Faults

\* Mutant: the loop runs once too often.
PollMissed_OneMore ==
  /\ stage = "waiting"
  /\ NotFound
  /\ attempt <= MaxAttempts
  /\ attempt' = attempt + 1
  /\ UNCHANGED <<chainVars, stage, call, sequence, outcome>>

\* Mutant: the loop waits for the transaction without counting.
PollMissed_Forever ==
  /\ stage = "waiting"
  /\ NotFound
  /\ attempt < MaxAttempts
  /\ UNCHANGED txVars

PollMissed ==
  /\ stage = "waiting"
  /\ NotFound
  /\ attempt < MaxAttempts
  /\ attempt' = attempt + 1
  /\ UNCHANGED <<chainVars, stage, call, sequence, outcome>>

\* Mutant: a transaction the polls have not found is taken for included.
PollExhausted_Assumed ==
  /\ stage = "waiting"
  /\ NotFound
  /\ attempt = MaxAttempts
  /\ Answer("ok")
  /\ UNCHANGED chainVars

PollExhausted ==
  /\ stage = "waiting"
  /\ NotFound
  /\ attempt = MaxAttempts
  /\ Answer("failed")
  /\ UNCHANGED chainVars

\* The caller takes the answer.
Return ==
  /\ stage \in {"ok", "failed"}
  /\ stage' = "idle"
  /\ UNCHANGED <<chainVars, call, sequence, attempt, outcome>>

\* The process dies in the middle of the call; the chain does not notice.
Kill ==
  /\ "crash" \in Faults
  /\ stage' = "idle"
  /\ outcome' = IF stage \in {"preparing", "signing", "waiting"}
                THEN [outcome EXCEPT ![call] = "killed"]
                ELSE outcome
  /\ UNCHANGED <<chainVars, call, sequence, attempt>>

CallStep ==
  \/ PrepareFails \/ ReadSequence \/ SignFails
  \/ BroadcastAccepted \/ BroadcastRejected \/ BroadcastLost
  \/ PollFound \/ PollMissed \/ PollExhausted

\* What the messages of a transaction do, and when they fail, is left open here.
ChainStep ==
  /\ \E tx \in mempool :
       \/ \E code \in {Success, Reverted} : Include(tx, code)
       \/ Evict(tx)
  /\ UNCHANGED execVars

\* Every plan has been used: the bound of a finite instance, not of the program.
AllUsed ==
  /\ stage = "idle"
  /\ \A c \in Calls : outcome[c] # "unused"
  /\ UNCHANGED txVars

\* The caller hands in every plan once.
NewPlan(c) == outcome[c] = "unused" /\ Execute(c)

TxNext ==
  \/ \E c \in Calls : NewPlan(c)
  \/ CallStep
  \/ Return
  \/ ChainStep
  \/ stage # "idle" /\ Kill
  \/ AllUsed

\* The goroutine of the cycle keeps running; nothing is assumed of the chain.
TxFairness == WF_txVars(CallStep) /\ WF_txVars(Return)

TxSpec == TxInit /\ [][TxNext]_txVars /\ TxFairness

(***************************************************************************)
(* Properties                                                              *)
(***************************************************************************)

\* Every transaction this process has ever got accepted.
Sent == mempool \union Included

\* The signing account never has two transactions pending: GetAccount answers
\* the committed sequence, so a plan signed while an earlier one is in flight
\* carries a sequence CheckTx refuses (client.go:486, 524).
AtMostOnePending == \A a, b \in mempool : a = b

\* A plan reaches the chain at most once, whatever the replies that were lost,
\* the polls that timed out or the restarts in between: nothing is ever resent.
AtMostOncePerPlan ==
  /\ \A a, b \in Sent : a.call = b.call => a = b
  /\ \A i, j \in DOMAIN ledger : ledger[i].tx = ledger[j].tx => i = j
  /\ mempool \cap Included = {}

\* ExecuteActionPlan answers success only for a transaction found in a block,
\* with the sequence it was signed with (live.go:1154-1163, 1086-1092).
SuccessMeansIncluded ==
  \A c \in Calls : outcome[c] = "ok" => \E tx \in Included : tx.call = c

\* Every call answers, although the chain may never include the transaction:
\* the polls are bounded (live.go:1119, 1172).
CallAnswers == \A c \in Calls : outcome[c] = "running" ~> outcome[c] # "running"

\* ExecuteActionPlan implements its promise: one plan at a time, each taking
\* effect at most once, success only after the effect, an answer to every call.
EffectOf(c) ==
  IF \E i \in DOMAIN ledger : ledger[i].tx.call = c /\ ledger[i].code = Success
  THEN "executed"
  ELSE IF \E tx \in Included : tx.call = c THEN "reverted" ELSE "none"

Promise == INSTANCE PlanPromise
             WITH reply <- outcome, effect <- [c \in Calls |-> EffectOf(c)]

PromiseKept == Promise!Spec

\* The receipts of a successful phase say that every action of the plan was
\* executed (avm.go:356-357, 412-413): success would mean that it took effect.
SuccessMeansExecuted ==
  \A i \in DOMAIN ledger : outcome[ledger[i].tx.call] = "ok" => ledger[i].code = Success

\* "marks final state as same as initial state since transaction failed"
\* (avm.go:804): an error would mean that the plan has no effect, now or later.
FailureMeansNoEffect ==
  \A i \in DOMAIN ledger : outcome[ledger[i].tx.call] = "failed" => ledger[i].code = Reverted
=============================================================================
