SPECIFICATION LooseSpec
CONSTANTS
  Root = Root
  Subsegment = {s1, s2, s3, s4}
  Threshold = 1
  Facade = FALSE
SYMMETRY Interchangeable
INVARIANTS
  CounterLessMissed
  LossExplained
CHECK_DEADLOCK FALSE
