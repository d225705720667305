SPECIFICATION Spec
CONSTANTS
  Workers = {w1, w2}
  w1 = w1
  w2 = w2
  Modes = {"open", "closed"}
  Warmup = 2
  Total = 5
  Interval = 1
  Cap = 1
  Dur = 4
  Timeout = 3
  Grace = 1
  MaxLate = 1
  None = None
INVARIANTS
  TypeOK
  ResultComplete
  StallsShown
PROPERTIES
  GeneratorEnds
