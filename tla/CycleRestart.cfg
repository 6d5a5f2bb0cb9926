SPECIFICATION Spec
CONSTANTS
  Calls <- MCCalls
  MaxRuns = 2
  MaxValue = 2
  MaxForeign = 1
  Buffer = 1
  Slip = 0
  Fallback = {9}
  MaxAttempts = 1
  Faults = {"crash"}
INVARIANT
  DriftCorrected
