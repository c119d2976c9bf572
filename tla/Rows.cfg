SPECIFICATION Spec
CONSTANTS
  MaxOutbox = 2
  MaxMessages = 2
  MaxBatch = 1
  MaxPendingDeletes = 1
  InitialTails = {"none"}
  MaxRows = 4
  MaxVersion = 0
  MaxRestarts = 1
  MaxForgets = 0
  MaxTailFaults = 0
  MaxRecordFaults = 0
CHECK_DEADLOCK FALSE
INVARIANTS
  DurableTailParses
  OfferDurable
  OfferedOnce
