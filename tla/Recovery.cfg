SPECIFICATION FairSpec
CONSTANTS
  Dispatches = {d1}
  Session = session
  MaxActive = 1
  Durable = {TRUE, FALSE}
  MaxRestarts = 3
  MaxFailedSaves = 2
INVARIANTS RunsInductive StartedClean CloseClean RejectedNeverStarts
PROPERTIES PromiseKept CallsEnd EndReported
CHECK_DEADLOCK FALSE
