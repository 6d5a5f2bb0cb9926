SPECIFICATION TxSpec
CONSTANTS
  Calls = {p1, p2}
  Faults = {}
  MaxAttempts = 2
INVARIANTS
  FailureMeansNoEffect
