SPECIFICATION FairSpec
CONSTANTS
  Calls = {c1}
  Windows = {1}
  Kin = {}
  Voice = voice
  Other = other
  Cap = 1
  MaxSeq = 1
  MaxBatch = 1
  MayForget = TRUE
  MaxCrashes = 1
  MaxFaults = 0
  MaxForeign = 0
  MaxTimeouts = 0
CHECK_DEADLOCK FALSE
PROPERTY CloseEnds
