SPECIFICATION Spec
CONSTANTS
  Calls = {c1, c2}
  Windows = {}
  Kin = {}
  Voice = voice
  Other = other
  Cap = 3
  MaxSeq = 4
  MaxBatch = 2
  MayForget = FALSE
  MaxCrashes = 1
  MaxFaults = 1
  MaxForeign = 1
  MaxTimeouts = 1
SYMMETRY Symmetry
CHECK_DEADLOCK FALSE
INVARIANTS HonestlyOpen
PROPERTY IsArchiveLog
