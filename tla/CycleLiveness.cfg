SPECIFICATION Spec
CONSTANTS
  Calls <- MCCalls
  MaxRuns = 2
  MaxValue = 2
  MaxForeign = 1
  Buffer = 1
  Slip = 0
  Fallback = {9}
  MaxAttempts = 2
  Faults = {"refused", "rejected", "lost", "query", "evicted", "reverted", "foreign"}
INVARIANTS
  BufferKept
PROPERTIES
  ExecutedIsRecorded
  CycleEnds
  ExecutionRespected
