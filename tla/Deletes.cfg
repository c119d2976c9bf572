SPECIFICATION Spec
CONSTANTS
  MaxOutbox = 2
  MaxMessages = 1
  MaxBatch = 1
  MaxPendingDeletes = 2
  InitialTails = {"none", "legacy", "forget"}
  MaxRows = 1
  MaxVersion = 0
  MaxRestarts = 2
  MaxForgets = 2
  MaxTailFaults = 1
  MaxRecordFaults = 1
CHECK_DEADLOCK FALSE
INVARIANTS
  TailInductive
  ReleasedIsRetired
  DeletedStaysGone
  DeleteKept
  DeletedPreviousIsTrue
  RecordWritable
