---------------------------- MODULE PlanPromise ----------------------------
(***************************************************************************)
(* What VaultManager.ExecuteActionPlan (internal/vault/interface.go)       *)
(* promises the rebalancing cycle, without transactions, sequences,        *)
(* mempools or polls: plans are executed one at a time; a plan takes       *)
(* effect at most once; success is answered only after the effect, which   *)
(* may be that of a reverted transaction; an error leaves open whether the *)
(* plan has taken effect, or will; every call answers.                     *)
(***************************************************************************)
CONSTANT Calls

VARIABLES
  reply,   \* the answer of each call
  effect   \* what each plan has done on the chain

vars == <<reply, effect>>

Replies == {"unused", "running", "ok", "failed", "killed"}
Effects == {"none", "executed", "reverted"}

TypeOK ==
  /\ reply \in [Calls -> Replies]
  /\ effect \in [Calls -> Effects]

Init ==
  /\ reply = [c \in Calls |-> "unused"]
  /\ effect = [c \in Calls |-> "none"]

Call(c) ==
  /\ reply[c] = "unused"
  /\ \A d \in Calls : reply[d] # "running"
  /\ reply' = [reply EXCEPT ![c] = "running"]
  /\ UNCHANGED effect

\* At any moment after the call, even after its answer.
TakeEffect(c) ==
  /\ reply[c] # "unused"
  /\ effect[c] = "none"
  /\ effect' \in {[effect EXCEPT ![c] = e] : e \in {"executed", "reverted"}}
  /\ UNCHANGED reply

AnswerOk(c) ==
  /\ reply[c] = "running"
  /\ effect[c] # "none"
  /\ reply' = [reply EXCEPT ![c] = "ok"]
  /\ UNCHANGED effect

AnswerError(c) ==
  /\ reply[c] = "running"
  /\ reply' \in {[reply EXCEPT ![c] = e] : e \in {"failed", "killed"}}
  /\ UNCHANGED effect

Answer == \E c \in Calls : AnswerOk(c) \/ AnswerError(c)

Next ==
  \/ \E c \in Calls : Call(c) \/ TakeEffect(c)
  \/ Answer

Spec == Init /\ [][Next]_vars /\ WF_vars(Answer)
=============================================================================
