SPECIFICATION Spec
CONSTANTS
  g1 = g1  g2 = g2  r1 = r1  r2 = r2  None = None
  Configs = 2
  Plugins <- TwoCalls
  Retries = 2
  Segment = {g1, g2}
  Rule = {r1, r2}
INVARIANTS AnsweredOnce SegmentDataIsOwn
PROPERTY EventuallyAnswered
CHECK_DEADLOCK FALSE
