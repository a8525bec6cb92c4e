SPECIFICATION LambdaSpec
CONSTANTS
  Root = Root
  Subsegment = {s1, s2, s3}
  Threshold = 0
  Facade = TRUE
  Header <- HeaderKinds
  NoHeader = NoHeader
  InvalidTrace = InvalidTrace
  NewTrace = NewTrace
  MaxInvocation = 2
SYMMETRY Interchangeable
INVARIANTS
  NoLeakBetweenInvocations
  AwaitedIsSent
  InvalidTraceIsSilent
  UnsampledStaysSilent
CHECK_DEADLOCK FALSE
