SPECIFICATION Spec
CONSTANTS
  Dispatches = {d1, d2}
  Session = session
  MaxActive = 1
  Durable = {TRUE, FALSE}
  MaxRestarts = 2
  MaxFailedSaves = 1
SYMMETRY Symmetry
INVARIANTS ReportedIsOver RecordFits
CHECK_DEADLOCK FALSE
