SPECIFICATION TxSpec
CONSTANTS
  Calls = {p1, p2, p3}
  Faults = {"refused", "rejected", "lost", "query", "evicted", "reverted", "crash"}
  MaxAttempts = 2
INVARIANTS
  TxTypeOK
  AtMostOnePending
  AtMostOncePerPlan
  SuccessMeansIncluded
PROPERTIES
  CallAnswers
  PromiseKept
