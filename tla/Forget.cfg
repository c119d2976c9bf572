SPECIFICATION FairSpec
CONSTANTS
  Calls = {c1}
  Windows = {1}
  Kin = {k1}
  Voice = voice
  Other = other
  Cap = 2
  MaxSeq = 1
  MaxBatch = 1
  MayForget = TRUE
  MaxCrashes = 1
  MaxFaults = 1
  MaxForeign = 1
  MaxTimeouts = 0
CHECK_DEADLOCK FALSE
INVARIANTS CompleteMeansGone NoReviewOfDeleted ReviewedOnce
PROPERTIES BatchArchived ForgetSettles
