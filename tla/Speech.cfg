SPECIFICATION Spec
CONSTANTS
  Turns = {t1, t2}
  Replays = {r1}
  Commands = {s1}
  Stops = {s1}
  Close = close
  NoOne = noOne
  Segments = 1
  Chunks = 2
  Stubborn = {t1}
  Faulty = {t1}
  MaxCalls = 4
INVARIANTS HeardRight InterruptedMarked WordsKept OneAtATime
CHECK_DEADLOCK FALSE
