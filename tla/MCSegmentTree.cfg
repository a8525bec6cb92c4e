SPECIFICATION Spec
CONSTANTS
  Root = Root
  Subsegment = {s1, s2, s3, s4, s5}
  Threshold = 1
  Facade = FALSE
SYMMETRY Interchangeable
INVARIANTS
  IInv
  NothingLost
PROPERTIES
  OnlyCompleteIsSent
  BreachSendsCompleted
  ImplementsDelivery
CHECK_DEADLOCK FALSE
