------------------------- MODULE TxExecution_proofs ------------------------
(***************************************************************************)
(* Theorems about TxExecution, for every set of plans, every set of faults *)
(* and every number of polls.  The inductive invariant TxInv says why a    *)
(* plan reaches the chain at most once: the sequence a plan is signed with *)
(* is never beyond the committed one, so CheckTx accepts it only when      *)
(* nothing is pending; whatever is pending carries the next sequence; and  *)
(* a plan that is not yet broadcast is not yet on the chain.               *)
(***************************************************************************)
EXTENDS TxExecution, TLAPS, FiniteSetTheorems

Active == {"preparing", "signing", "waiting"}

\* The sequence read is not ahead of the committed one.
SequenceBound == stage = "signing" => sequence <= Len(ledger)

\* What is pending can be included next.
PendingIsNext == \A tx \in mempool : tx.sequence = Len(ledger)

\* The ledger holds the sequences 0, 1, 2, ...
LedgerSequences == \A i \in DOMAIN ledger : ledger[i].tx.sequence = i - 1

\* Only plans handed in are on the chain, and none before its broadcast.
SentWasCalled == \A tx \in Sent : outcome[tx.call] # "unused"
CurrentNotSent == stage \in {"preparing", "signing"} => \A tx \in Sent : tx.call # call
OnePerCall == \A a, b \in Sent : a.call = b.call => a = b

\* The call in progress is the one that has not answered.
OneRunning == \A c \in Calls : outcome[c] = "running" <=> c = call /\ stage \in Active

TxInv ==
  /\ TxTypeOK
  /\ AtMostOnePending
  /\ SequenceBound
  /\ PendingIsNext
  /\ LedgerSequences
  /\ SentWasCalled
  /\ CurrentNotSent
  /\ OnePerCall
  /\ OneRunning
  /\ SuccessMeansIncluded

-----------------------------------------------------------------------------
\* Type correctness

LEMMA TxTypeInit == TxInit => TxTypeOK
BY CallsNotEmpty, MaxAttemptsAssumption
   DEF TxInit, ChainInit, TxTypeOK, ChainTypeOK, Stages, Outcomes

LEMMA TxTypeStep == TxTypeOK /\ [TxNext]_txVars => TxTypeOK'
<1> SUFFICES ASSUME TxTypeOK, [TxNext]_txVars PROVE TxTypeOK'
  OBVIOUS
<1> USE MaxAttemptsAssumption DEF TxTypeOK, ChainTypeOK, Stages, Outcomes
<1>tx. CurrentTx \in Tx
  BY DEF CurrentTx, Tx
<1>1. ASSUME NEW c \in Calls, NewPlan(c) PROVE TxTypeOK'
  BY <1>1 DEF NewPlan, Execute, chainVars
<1>2. CASE CallStep
  <2>1. CASE PrepareFails \/ SignFails \/ BroadcastRejected \/ PollFound \/ PollExhausted
    BY <2>1 DEF PrepareFails, SignFails, BroadcastRejected, PollFound, PollExhausted,
                Answer, chainVars
  <2>2. CASE ReadSequence
    BY <2>2 DEF ReadSequence, AccountSequence, chainVars
  <2>3. CASE BroadcastAccepted
    BY <2>3, <1>tx DEF BroadcastAccepted, Accept
  <2>4. CASE BroadcastLost
    BY <2>4, <1>tx DEF BroadcastLost, Accept, Answer, chainVars
  <2>5. CASE PollMissed
    BY <2>5 DEF PollMissed, chainVars
  <2> QED
    BY <1>2, <2>1, <2>2, <2>3, <2>4, <2>5 DEF CallStep
<1>3. CASE Return
  BY <1>3 DEF Return, chainVars
<1>4. CASE ChainStep
  <2>1. ASSUME NEW tx \in mempool, NEW code \in {Success, Reverted}, Include(tx, code),
               UNCHANGED execVars
        PROVE  TxTypeOK'
    <3>1. [tx |-> tx, code |-> code] \in Entry
      BY DEF Entry
    <3> QED
      BY <2>1, <3>1 DEF Include, execVars
  <2>2. ASSUME NEW tx \in mempool, Evict(tx), UNCHANGED execVars PROVE TxTypeOK'
    BY <2>2 DEF Evict, execVars
  <2> QED
    BY <1>4, <2>1, <2>2 DEF ChainStep
<1>5. CASE Kill
  BY <1>5 DEF Kill, chainVars
<1>6. CASE AllUsed \/ UNCHANGED txVars
  BY <1>6 DEF AllUsed, txVars
<1> QED
  BY <1>1, <1>2, <1>3, <1>4, <1>5, <1>6 DEF TxNext

\* The variables of the call keep their types: the polls stay within their bound.
THEOREM TxTypeCorrect == TxSpec => []TxTypeOK
BY TxTypeInit, TxTypeStep, PTL DEF TxSpec

-----------------------------------------------------------------------------
\* At most one transaction per plan, per sequence and pending

LEMMA PendingCardinality ==
  ASSUME AtMostOnePending
  PROVE  /\ Cardinality(mempool) \in Nat
         /\ Cardinality(mempool) = 0 => mempool = {}
<1>1. CASE mempool = {}
  BY <1>1, FS_EmptySet
<1>2. ASSUME NEW tx \in mempool PROVE Cardinality(mempool) = 1
  <2>1. mempool = {tx}
    BY <1>2 DEF AtMostOnePending
  <2> QED
    BY <2>1, FS_Singleton
<1> QED
  BY <1>1, <1>2

\* A plan signed with a sequence the node accepts finds nothing pending.
LEMMA AcceptsWhenEmpty ==
  ASSUME TxInv, stage = "signing", Accept(CurrentTx)
  PROVE  /\ mempool = {}
         /\ sequence = Len(ledger)
         /\ mempool' = {CurrentTx}
<1>1. sequence = Len(ledger) + Cardinality(mempool)
  BY DEF Accept, CurrentTx, CheckSequence
<1>2. sequence <= Len(ledger) /\ Len(ledger) \in Nat /\ sequence \in Nat
  BY DEF TxInv, SequenceBound, TxTypeOK, ChainTypeOK
<1>3. Cardinality(mempool) \in Nat /\ (Cardinality(mempool) = 0 => mempool = {})
  BY PendingCardinality DEF TxInv
<1>4. mempool = {} /\ sequence = Len(ledger)
  BY <1>1, <1>2, <1>3
<1> QED
  BY <1>4 DEF Accept

LEMMA TxInvInit == TxInit => TxInv
<1> SUFFICES ASSUME TxInit PROVE TxInv
  OBVIOUS
<1>1. TxTypeOK
  BY TxTypeInit
<1>2. Sent = {}
  BY DEF Sent, Included, TxInit, ChainInit
<1> QED
  BY <1>1, <1>2 DEF TxInit, ChainInit, TxInv, AtMostOnePending, SequenceBound,
     PendingIsNext, LedgerSequences, SentWasCalled, CurrentNotSent, OnePerCall,
     OneRunning, Active, SuccessMeansIncluded

LEMMA SentTyped ==
  ASSUME TxTypeOK
  PROVE  \A tx \in Sent : tx \in Tx /\ tx.call \in Calls
<1>1. \A tx \in mempool : tx \in Tx
  BY DEF TxTypeOK, ChainTypeOK
<1>2. ASSUME NEW i \in DOMAIN ledger PROVE ledger[i].tx \in Tx
  <2>1. ledger[i] \in Entry
    BY DEF TxTypeOK, ChainTypeOK
  <2> QED
    BY <2>1 DEF Entry
<1> QED
  BY <1>1, <1>2 DEF Sent, Included, Tx

\* A new entry of the ledger leaves the earlier ones in place.
LEMMA LedgerAppended ==
  ASSUME TxTypeOK, NEW tx \in mempool, NEW code \in {Success, Reverted}, Include(tx, code)
  PROVE  /\ DOMAIN ledger' = DOMAIN ledger \union {Len(ledger) + 1}
         /\ \A i \in DOMAIN ledger : ledger'[i] = ledger[i]
         /\ ledger'[Len(ledger) + 1] = [tx |-> tx, code |-> code]
         /\ Len(ledger') = Len(ledger) + 1
         /\ Included' = Included \union {tx}
<1>1. ledger \in Seq(Entry) /\ [tx |-> tx, code |-> code] \in Entry
  BY DEF TxTypeOK, ChainTypeOK, Entry
<1>2. ledger' = Append(ledger, [tx |-> tx, code |-> code])
  BY DEF Include
<1>3. /\ DOMAIN ledger' = DOMAIN ledger \union {Len(ledger) + 1}
      /\ \A i \in DOMAIN ledger : ledger'[i] = ledger[i]
      /\ ledger'[Len(ledger) + 1] = [tx |-> tx, code |-> code]
      /\ Len(ledger') = Len(ledger) + 1
  BY <1>1, <1>2
<1>4. Included' = Included \union {tx}
  BY <1>3 DEF Included
<1> QED
  BY <1>3, <1>4

\* The steps that leave the chain alone.
LEMMA CallOnlyStep ==
  ASSUME TxInv, UNCHANGED chainVars, TxTypeOK',
         \/ \E c \in Calls : NewPlan(c)
         \/ PrepareFails \/ ReadSequence \/ SignFails \/ BroadcastRejected \/ BroadcastLost
         \/ PollFound \/ PollMissed \/ PollExhausted \/ Return \/ Kill
  PROVE  TxInv'
<1> USE DEF TxInv
<1>0. /\ mempool' = mempool /\ ledger' = ledger
      /\ Sent' = Sent /\ Included' = Included
      /\ AtMostOnePending' /\ PendingIsNext' /\ LedgerSequences' /\ OnePerCall'
  BY DEF chainVars, Sent, Included, AtMostOnePending, PendingIsNext, LedgerSequences, OnePerCall
<1>t. /\ outcome \in [Calls -> Outcomes] /\ call \in Calls
      /\ \A tx \in Sent : tx.call \in Calls
  BY SentTyped DEF TxTypeOK
<1> USE <1>0, <1>t DEF SequenceBound, SentWasCalled, CurrentNotSent, OneRunning, Active,
                      SuccessMeansIncluded
<1>1. ASSUME NEW c \in Calls, NewPlan(c) PROVE TxInv'
  BY <1>1 DEF NewPlan, Execute
<1>2. CASE PrepareFails \/ SignFails \/ BroadcastRejected \/ BroadcastLost \/ PollExhausted
  BY <1>2 DEF PrepareFails, SignFails, BroadcastRejected, BroadcastLost, PollExhausted, Answer
<1>3. CASE PollFound
  <2>1. CurrentTx \in Included /\ CurrentTx.call = call
    BY <1>3 DEF PollFound, CurrentTx
  <2> QED
    BY <1>3, <2>1 DEF PollFound, Answer
<1>4. CASE ReadSequence
  <2>1. sequence' <= Len(ledger')
    BY <1>4 DEF ReadSequence, AccountSequence, TxTypeOK, ChainTypeOK
  <2> QED
    BY <1>4, <2>1 DEF ReadSequence
<1>5. CASE PollMissed \/ Return
  BY <1>5 DEF PollMissed, Return
<1>6. CASE Kill
  BY <1>6 DEF Kill
<1> QED
  BY <1>1, <1>2, <1>3, <1>4, <1>5, <1>6

\* The steps of a broadcast that gets the transaction into the mempool.
LEMMA AcceptStep ==
  ASSUME TxInv, TxTypeOK', stage = "signing", Accept(CurrentTx),
         UNCHANGED <<call, sequence>>,
         \/ stage' = "waiting" /\ UNCHANGED outcome
         \/ stage' = "failed" /\ outcome' = [outcome EXCEPT ![call] = "failed"]
  PROVE  TxInv'
<1>1. mempool = {} /\ sequence = Len(ledger) /\ mempool' = {CurrentTx} /\ ledger' = ledger
  BY AcceptsWhenEmpty DEF Accept
<1>2. Included' = Included /\ Sent' = Sent \union {CurrentTx} /\ CurrentTx.call = call
      /\ CurrentTx.sequence = Len(ledger)
  BY <1>1 DEF Included, Sent, CurrentTx
<1>t. /\ outcome \in [Calls -> Outcomes] /\ call \in Calls
      /\ \A tx \in Sent : tx.call \in Calls
  BY SentTyped DEF TxInv, TxTypeOK
<1>3. AtMostOnePending' /\ PendingIsNext' /\ LedgerSequences' /\ SequenceBound'
  BY <1>1, <1>2 DEF AtMostOnePending, PendingIsNext, LedgerSequences, SequenceBound, TxInv
<1>4. \A tx \in Sent : tx.call # call
  BY DEF TxInv, CurrentNotSent
<1>5. OnePerCall' /\ CurrentNotSent'
  BY <1>2, <1>4 DEF OnePerCall, CurrentNotSent, TxInv
<1>6. SentWasCalled' /\ OneRunning' /\ SuccessMeansIncluded'
  BY <1>2, <1>t DEF SentWasCalled, OneRunning, SuccessMeansIncluded, TxInv, Active
<1> QED
  BY <1>3, <1>5, <1>6 DEF TxInv

LEMMA IncludeStep ==
  ASSUME TxInv, TxTypeOK', NEW tx \in mempool, NEW code \in {Success, Reverted},
         Include(tx, code), UNCHANGED execVars
  PROVE  TxInv'
<1>1. TxTypeOK /\ ledger \in Seq(Entry)
  BY DEF TxInv, TxTypeOK, ChainTypeOK
<1>2. /\ DOMAIN ledger' = DOMAIN ledger \union {Len(ledger) + 1}
      /\ \A i \in DOMAIN ledger : ledger'[i] = ledger[i]
      /\ ledger'[Len(ledger) + 1] = [tx |-> tx, code |-> code]
      /\ Len(ledger') = Len(ledger) + 1
      /\ Included' = Included \union {tx}
  BY <1>1, LedgerAppended
<1>3. mempool' = {}
  BY DEF Include, AtMostOnePending, TxInv
<1>4. Sent' = Sent
  BY <1>2, <1>3 DEF Sent, TxInv, AtMostOnePending
<1>5. AtMostOnePending' /\ PendingIsNext'
  BY <1>3 DEF AtMostOnePending, PendingIsNext
<1>6. LedgerSequences'
  BY <1>1, <1>2 DEF LedgerSequences, TxInv, Include, AccountSequence
<1>7. SequenceBound'
  BY <1>1, <1>2 DEF SequenceBound, TxInv, execVars, TxTypeOK
<1>8. SentWasCalled' /\ CurrentNotSent' /\ OnePerCall' /\ OneRunning' /\ SuccessMeansIncluded'
  BY <1>2, <1>4 DEF SentWasCalled, CurrentNotSent, OnePerCall, OneRunning,
     SuccessMeansIncluded, TxInv, execVars
<1> QED
  BY <1>5, <1>6, <1>7, <1>8 DEF TxInv

LEMMA EvictStep ==
  ASSUME TxInv, TxTypeOK', NEW tx \in mempool, Evict(tx), UNCHANGED execVars
  PROVE  TxInv'
<1>1. mempool' \subseteq mempool /\ ledger' = ledger /\ Included' = Included /\ Sent' \subseteq Sent
  BY DEF Evict, Included, Sent
<1> QED
  BY <1>1 DEF execVars, TxInv, AtMostOnePending, SequenceBound, PendingIsNext,
     LedgerSequences, SentWasCalled, CurrentNotSent, OnePerCall, OneRunning, SuccessMeansIncluded

LEMMA TxInvStep == TxInv /\ [TxNext]_txVars => TxInv'
<1> SUFFICES ASSUME TxInv, [TxNext]_txVars PROVE TxInv'
  OBVIOUS
<1>0. TxTypeOK'
  BY TxTypeStep DEF TxInv
<1>1. ASSUME NEW c \in Calls, NewPlan(c) PROVE TxInv'
  BY <1>0, <1>1, CallOnlyStep DEF NewPlan, Execute
<1>2. CASE CallStep
  <2>1. CASE \/ PrepareFails \/ ReadSequence \/ SignFails \/ BroadcastRejected
             \/ PollFound \/ PollMissed \/ PollExhausted
    <3>1. UNCHANGED chainVars
      BY <2>1 DEF PrepareFails, ReadSequence, SignFails, BroadcastRejected,
                  PollFound, PollMissed, PollExhausted, chainVars
    <3> QED
      BY <1>0, <2>1, <3>1, CallOnlyStep
  <2>2. CASE BroadcastAccepted
    BY <1>0, <2>2, AcceptStep DEF BroadcastAccepted
  <2>3. CASE BroadcastLost
    <3>1. CASE Accept(CurrentTx)
      BY <1>0, <2>3, <3>1, AcceptStep DEF BroadcastLost, Answer
    <3>2. CASE UNCHANGED chainVars
      BY <1>0, <2>3, <3>2, CallOnlyStep
    <3> QED
      BY <2>3, <3>1, <3>2 DEF BroadcastLost
  <2> QED
    BY <1>2, <2>1, <2>2, <2>3 DEF CallStep
<1>3. CASE Return
  BY <1>0, <1>3, CallOnlyStep DEF Return
<1>4. CASE ChainStep
  BY <1>0, <1>4, IncludeStep, EvictStep DEF ChainStep
<1>5. CASE Kill
  BY <1>0, <1>5, CallOnlyStep DEF Kill
<1>6. CASE AllUsed \/ UNCHANGED txVars
  BY <1>6 DEF AllUsed, txVars, TxInv, TxTypeOK, ChainTypeOK, AtMostOnePending, SequenceBound,
     PendingIsNext, LedgerSequences, SentWasCalled, CurrentNotSent, OnePerCall, OneRunning,
     SuccessMeansIncluded, Sent, Included
<1> QED
  BY <1>1, <1>2, <1>3, <1>4, <1>5, <1>6 DEF TxNext

\* Nothing is pending that is included, and every sequence is used once.
LEMMA TxInvOncePerPlan == TxInv => AtMostOncePerPlan
<1> SUFFICES ASSUME TxInv PROVE AtMostOncePerPlan
  OBVIOUS
<1>1. \A a, b \in Sent : a.call = b.call => a = b
  BY DEF TxInv, OnePerCall
<1>2. ASSUME NEW i \in DOMAIN ledger, NEW j \in DOMAIN ledger, ledger[i].tx = ledger[j].tx
      PROVE  i = j
  <2>1. i \in Nat /\ j \in Nat
    BY DEF TxInv, TxTypeOK, ChainTypeOK
  <2> QED
    BY <1>2, <2>1 DEF TxInv, LedgerSequences
<1>3. mempool \cap Included = {}
  <2> SUFFICES ASSUME NEW tx \in mempool, NEW i \in DOMAIN ledger, tx = ledger[i].tx
               PROVE  FALSE
    BY DEF Included
  <2>1. tx.sequence = Len(ledger) /\ tx.sequence = i - 1
    BY DEF TxInv, PendingIsNext, LedgerSequences
  <2>2. i \in 1..Len(ledger) /\ Len(ledger) \in Nat
    BY DEF TxInv, TxTypeOK, ChainTypeOK
  <2> QED
    BY <2>1, <2>2
<1> QED
  BY <1>1, <1>2, <1>3 DEF AtMostOncePerPlan

LEMMA TxInvariant == TxSpec => []TxInv
BY TxInvInit, TxInvStep, PTL DEF TxSpec

\* The account never has two transactions pending.
THEOREM OnePending == TxSpec => []AtMostOnePending
<1>1. TxInv => AtMostOnePending
  BY DEF TxInv
<1> QED
  BY <1>1, TxInvariant, PTL

\* A plan reaches the chain at most once, over restarts, lost replies and timeouts.
THEOREM OncePerPlan == TxSpec => []AtMostOncePerPlan
BY TxInvOncePerPlan, TxInvariant, PTL

\* A call that has answered success has its transaction in a block.
THEOREM SuccessIncluded == TxSpec => []SuccessMeansIncluded
<1>1. TxInv => SuccessMeansIncluded
  BY DEF TxInv
<1> QED
  BY <1>1, TxInvariant, PTL

-----------------------------------------------------------------------------
\* The promise is kept

PromiseStep == [Promise!Next]_(Promise!vars)

LEMMA EffectUnchanged ==
  ASSUME UNCHANGED ledger
  PROVE  [c \in Calls |-> EffectOf(c)]' = [c \in Calls |-> EffectOf(c)]
BY DEF EffectOf, Included

\* Only the running call answers, and it answers once.
LEMMA AnswerKeepsPromise ==
  ASSUME TxInv, UNCHANGED ledger, stage \in Active,
         NEW result \in {"failed", "killed"},
         outcome' = [outcome EXCEPT ![call] = result]
  PROVE  PromiseStep
<1>1. outcome[call] = "running" /\ call \in Calls
  BY DEF TxInv, OneRunning, TxTypeOK
<1>2. Promise!AnswerError(call)
  BY <1>1, EffectUnchanged DEF Promise!AnswerError
<1> QED
  BY <1>1, <1>2 DEF PromiseStep, Promise!Next, Promise!Answer

LEMMA SilentStep ==
  ASSUME UNCHANGED <<ledger, outcome>>
  PROVE  PromiseStep
BY EffectUnchanged DEF PromiseStep, Promise!vars

LEMMA IncludeKeepsPromise ==
  ASSUME TxInv, NEW tx \in mempool, NEW code \in {Success, Reverted},
         Include(tx, code), UNCHANGED execVars
  PROVE  PromiseStep
<1> DEFINE eff == [c \in Calls |-> EffectOf(c)]
<1>1. /\ tx \in Sent /\ tx.call \in Calls /\ TxTypeOK
      /\ outcome[tx.call] # "unused"
  BY SentTyped DEF TxInv, SentWasCalled, Sent
<1>2. \A i \in DOMAIN ledger : ledger[i].tx.call # tx.call
  <2> SUFFICES ASSUME NEW i \in DOMAIN ledger, ledger[i].tx.call = tx.call PROVE FALSE
    OBVIOUS
  <2>1. ledger[i].tx \in Included /\ ledger[i].tx \in Sent
    BY DEF Included, Sent
  <2>2. ledger[i].tx = tx
    BY <1>1, <2>1 DEF TxInv, OnePerCall
  <2> QED
    BY <2>1, <2>2, TxInvOncePerPlan DEF AtMostOncePerPlan
<1>3. /\ DOMAIN ledger' = DOMAIN ledger \union {Len(ledger) + 1}
      /\ \A i \in DOMAIN ledger : ledger'[i] = ledger[i]
      /\ ledger'[Len(ledger) + 1] = [tx |-> tx, code |-> code]
      /\ Included' = Included \union {tx}
  BY <1>1, LedgerAppended
<1>4. EffectOf(tx.call) = "none"
  <2>1. \A t \in Included : t.call # tx.call
    BY <1>2 DEF Included
  <2> QED
    BY <1>2, <2>1 DEF EffectOf
<1>5. EffectOf(tx.call)' \in {"executed", "reverted"}
  BY <1>3 DEF EffectOf
<1>6. ASSUME NEW c \in Calls, c # tx.call PROVE EffectOf(c)' = EffectOf(c)
  <2>1. (\E i \in DOMAIN ledger' : ledger'[i].tx.call = c /\ ledger'[i].code = Success)
        <=> (\E i \in DOMAIN ledger : ledger[i].tx.call = c /\ ledger[i].code = Success)
    BY <1>3, <1>6
  <2>2. (\E t \in Included' : t.call = c) <=> (\E t \in Included : t.call = c)
    BY <1>3, <1>6
  <2> QED
    BY <2>1, <2>2 DEF EffectOf
<1>7. eff[tx.call] = "none" /\ eff' = [eff EXCEPT ![tx.call] = EffectOf(tx.call)']
  BY <1>1, <1>4, <1>6
<1>8. Promise!TakeEffect(tx.call)
  BY <1>1, <1>5, <1>7 DEF Promise!TakeEffect, execVars
<1> QED
  BY <1>1, <1>8 DEF PromiseStep, Promise!Next

LEMMA PromiseInit == TxInit => Promise!Init
<1> SUFFICES ASSUME TxInit PROVE Promise!Init
  OBVIOUS
<1>1. ledger = <<>> /\ Included = {}
  BY DEF TxInit, ChainInit, Included
<1>2. \A c \in Calls : EffectOf(c) = "none"
  BY <1>1 DEF EffectOf
<1> QED
  BY <1>2 DEF TxInit, Promise!Init

LEMMA StepKeepsPromise == TxInv /\ [TxNext]_txVars => PromiseStep
<1> SUFFICES ASSUME TxInv, [TxNext]_txVars PROVE PromiseStep
  OBVIOUS
<1>t. outcome \in [Calls -> Outcomes] /\ call \in Calls
  BY DEF TxInv, TxTypeOK
<1>1. ASSUME NEW c \in Calls, NewPlan(c) PROVE PromiseStep
  <2>1. \A d \in Calls : outcome[d] # "running"
    BY <1>1 DEF NewPlan, Execute, TxInv, OneRunning, Active
  <2>2. Promise!Call(c)
    BY <1>1, <2>1, EffectUnchanged DEF NewPlan, Execute, chainVars, Promise!Call
  <2> QED
    BY <2>2 DEF PromiseStep, Promise!Next
<1>2. CASE CallStep
  <2>1. CASE PrepareFails \/ SignFails \/ BroadcastRejected \/ BroadcastLost \/ PollExhausted
    <3>1. /\ UNCHANGED ledger /\ stage \in Active
          /\ outcome' = [outcome EXCEPT ![call] = "failed"]
      BY <2>1 DEF PrepareFails, SignFails, BroadcastRejected, BroadcastLost, PollExhausted,
                  Answer, Accept, chainVars, Active
    <3> QED
      BY <3>1, AnswerKeepsPromise
  <2>2. CASE PollFound
    <3>1. /\ UNCHANGED ledger /\ outcome' = [outcome EXCEPT ![call] = "ok"]
          /\ outcome[call] = "running"
      BY <1>t, <2>2 DEF PollFound, Answer, chainVars, TxInv, OneRunning, Active
    <3>2. EffectOf(call) # "none"
      BY <2>2 DEF PollFound, EffectOf, CurrentTx
    <3>3. Promise!AnswerOk(call)
      BY <1>t, <3>1, <3>2, EffectUnchanged DEF Promise!AnswerOk
    <3> QED
      BY <1>t, <3>3 DEF PromiseStep, Promise!Next, Promise!Answer
  <2>3. CASE ReadSequence \/ BroadcastAccepted \/ PollMissed
    BY <2>3, SilentStep DEF ReadSequence, BroadcastAccepted, PollMissed, Accept, chainVars
  <2> QED
    BY <1>2, <2>1, <2>2, <2>3 DEF CallStep
<1>3. CASE Return
  BY <1>3, SilentStep DEF Return, chainVars
<1>4. CASE ChainStep
  BY <1>4, IncludeKeepsPromise, SilentStep DEF ChainStep, Evict, execVars
<1>5. CASE Kill
  <2>1. CASE stage \in Active
    BY <1>5, <2>1, AnswerKeepsPromise DEF Kill, Active, chainVars
  <2>2. CASE stage \notin Active
    BY <1>5, <2>2, SilentStep DEF Kill, Active, chainVars
  <2> QED
    BY <2>1, <2>2
<1>6. CASE AllUsed \/ UNCHANGED txVars
  BY <1>6, SilentStep DEF AllUsed, txVars
<1> QED
  BY <1>1, <1>2, <1>3, <1>4, <1>5, <1>6 DEF TxNext

\* ExecuteActionPlan implements the safety part of its promise: plans one at a
\* time, each taking effect at most once, success only after the effect.
THEOREM KeepsPromise == TxSpec => Promise!Init /\ [][Promise!Next]_(Promise!vars)
BY PromiseInit, StepKeepsPromise, TxInvariant, PTL DEF TxSpec, PromiseStep

-----------------------------------------------------------------------------
\* A call comes to its end

\* The steps the call in progress has left at most: the account query, the
\* broadcast, and the polls.
StepsLeft ==
  CASE stage = "preparing" -> MaxAttempts + 2
    [] stage = "signing" -> MaxAttempts + 1
    [] stage = "waiting" -> MaxAttempts - attempt + 1
    [] OTHER -> 0

LEMMA StepsLeftIsNat ==
  ASSUME TxTypeOK
  PROVE  StepsLeft \in Nat /\ StepsLeft <= MaxAttempts + 2
<1>1. MaxAttempts \in Nat /\ attempt \in 1..MaxAttempts
  BY MaxAttemptsAssumption DEF TxTypeOK
<1>2. CASE stage = "waiting"
  BY <1>1, <1>2 DEF StepsLeft
<1>3. CASE stage # "waiting"
  BY <1>1, <1>3 DEF StepsLeft
<1> QED
  BY <1>2, <1>3

\* Every step of the call is one less.
LEMMA CallStepRunsDown ==
  ASSUME TxTypeOK, CallStep
  PROVE  StepsLeft' < StepsLeft
<1>1. MaxAttempts \in Nat /\ MaxAttempts >= 1 /\ attempt \in 1..MaxAttempts
  BY MaxAttemptsAssumption DEF TxTypeOK
<1>2. CASE PrepareFails \/ SignFails \/ BroadcastRejected \/ BroadcastLost \/ PollFound
           \/ PollExhausted
  <2>1. stage \in {"preparing", "signing", "waiting"} /\ stage' \in {"ok", "failed"}
    BY <1>2 DEF PrepareFails, SignFails, BroadcastRejected, BroadcastLost, PollFound,
       PollExhausted, Answer
  <2>2. StepsLeft' = 0
    BY <2>1 DEF StepsLeft
  <2>3. StepsLeft >= 1
    BY <1>1, <2>1 DEF StepsLeft
  <2> QED
    BY <2>2, <2>3, StepsLeftIsNat
<1>3. CASE ReadSequence
  BY <1>1, <1>3 DEF ReadSequence, StepsLeft
<1>4. CASE BroadcastAccepted
  BY <1>1, <1>4 DEF BroadcastAccepted, StepsLeft
<1>5. CASE PollMissed
  BY <1>1, <1>5 DEF PollMissed, StepsLeft
<1> QED
  BY <1>2, <1>3, <1>4, <1>5 DEF CallStep

\* Steps other than those of the call and its start add none.
LEMMA OthersAddNoSteps ==
  ASSUME TxTypeOK, [TxNext]_txVars, ~CallStep, \A c \in Calls : ~NewPlan(c)
  PROVE  StepsLeft' <= StepsLeft
<1>1. CASE Return \/ (stage # "idle" /\ Kill)
  <2>1. stage' = "idle"
    BY <1>1 DEF Return, Kill
  <2>2. StepsLeft' = 0
    BY <2>1 DEF StepsLeft
  <2> QED
    BY <2>2, StepsLeftIsNat
<1>2. CASE ChainStep \/ AllUsed \/ UNCHANGED txVars
  <2>1. UNCHANGED <<stage, attempt>>
    BY <1>2 DEF ChainStep, AllUsed, execVars, txVars
  <2> QED
    BY <2>1, StepsLeftIsNat DEF StepsLeft
<1> QED
  BY <1>1, <1>2 DEF TxNext

\* A call makes at most MaxAttempts + 2 steps, whatever the chain does, loses or
\* never includes: nothing but the call of another plan adds one (live.go:1119, 1172).
THEOREM CallRunsDown ==
  TxSpec =>
    [][/\ StepsLeft \in 0 .. MaxAttempts + 2
       /\ CallStep => StepsLeft' < StepsLeft
       /\ CallStep \/ (\E c \in Calls : NewPlan(c)) \/ StepsLeft' <= StepsLeft]_txVars
<1>1. TxInv /\ [TxNext]_txVars =>
        [/\ StepsLeft \in 0 .. MaxAttempts + 2
         /\ CallStep => StepsLeft' < StepsLeft
         /\ CallStep \/ (\E c \in Calls : NewPlan(c)) \/ StepsLeft' <= StepsLeft]_txVars
  <2> SUFFICES ASSUME TxInv, [TxNext]_txVars
               PROVE  /\ StepsLeft \in 0 .. MaxAttempts + 2
                      /\ CallStep => StepsLeft' < StepsLeft
                      /\ CallStep \/ (\E c \in Calls : NewPlan(c)) \/ StepsLeft' <= StepsLeft
    OBVIOUS
  <2>1. TxTypeOK
    BY DEF TxInv
  <2>2. StepsLeft \in 0 .. MaxAttempts + 2
    BY <2>1, StepsLeftIsNat, MaxAttemptsAssumption
  <2> QED
    BY <2>1, <2>2, CallStepRunsDown, OthersAddNoSteps
<1> QED
  BY <1>1, TxInvariant, PTL DEF TxSpec
=============================================================================
