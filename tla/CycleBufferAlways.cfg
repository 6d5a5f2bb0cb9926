SPECIFICATION Spec
CONSTANTS
  Calls <- MCCalls
  MaxRuns = 2
  MaxValue = 3
  MaxForeign = 1
  Buffer = 1
  Slip = 0
  Fallback = {9}
  MaxAttempts = 1
  Faults = {}
PROPERTIES
  BufferAlwaysKept
