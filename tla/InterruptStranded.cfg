SPECIFICATION Spec
CONSTANTS
  Tasks = {t1, t2}
  Turns = {u1}
  Idle = idle
  NoOne = noone
  Kinds = {"retain", "mention", "interrupt"}
  Evidence = {TRUE}
  MaxDecisions = 1
  MaxMentions = 1
  MaxInterrupts = 1
  MaxRetained = 1
  MaxAudit = 2
  MaxPerTurn = 1
  MaxOperations = 2
  MaxFaults = 0
CHECK_DEADLOCK FALSE
INVARIANT InterruptTakesOver
