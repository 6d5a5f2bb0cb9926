SPECIFICATION TxSpec
CONSTANTS
  Calls = {p1, p2}
  Faults = {"reverted"}
  MaxAttempts = 2
INVARIANTS
  SuccessMeansExecuted
