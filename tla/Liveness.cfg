SPECIFICATION FairSpec
CONSTANTS
  MaxOutbox = 2
  MaxMessages = 1
  MaxBatch = 1
  MaxPendingDeletes = 2
  InitialTails = {"none", "legacy", "forget"}
  MaxRows = 1
  MaxVersion = 2
  MaxRestarts = 1
  MaxForgets = 2
  MaxTailFaults = 0
  MaxRecordFaults = 0
CHECK_DEADLOCK FALSE
PROPERTIES
  ForgetReturns
  PendingReleased
  FrozenOffered
