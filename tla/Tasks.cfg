SPECIFICATION FairSpec
CONSTANTS
  Tasks = {t1, t2, t3}
  MaxActive = 2
  MaxTerminals = 1
  MaxOperations = 4
  MaxUpdates = 2
  Broken = broken
  Fault = fault
CHECK_DEADLOCK FALSE
INVARIANTS TerminalsKept OnlyCancelsOvertake WaiterWoken
PROPERTY RunReported
