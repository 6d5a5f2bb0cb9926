SPECIFICATION Spec
CONSTANTS
  Calls <- MCCalls
  MaxRuns = 2
  MaxValue = 3
  MaxForeign = 1
  Buffer = 2
  Slip = 1
  Fallback = {9}
  MaxAttempts = 1
  Faults = {"refused", "rejected", "lost", "query", "evicted", "reverted", "crash", "store"}
INVARIANTS
  TypeOK
  DepositAfterWithdrawal
  SnapshotHashesIncluded
  SnapshotsOrdered
  Startable
  BufferKept
PROPERTIES
  VaultPromiseKept
  DepositLeavesBuffer
