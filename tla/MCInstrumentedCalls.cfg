SPECIFICATION CallsSpec
CONSTANTS
  Root = Root
  Subsegment = {s1, s2, s3}
  Threshold = 0
  Facade = FALSE
  Callback = {c1}
  None = None
SYMMETRY Interchangeable
INVARIANTS
  CounterAccounts
  CallbackWorkIsSent
  PresignedIsSilent
  RepeatsExplained
PROPERTIES
  SegmentWaits
CHECK_DEADLOCK FALSE
