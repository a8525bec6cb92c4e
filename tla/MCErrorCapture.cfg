SPECIFICATION ErrorSpec
CONSTANTS
  s1 = s1  s2 = s2  s3 = s3  e1 = e1  e2 = e2
  Root = Root  None = None
  Subsegment = {s1, s2, s3}
  Error = {e1, e2}
  MaxCalls = 4
INVARIANTS NothingErased DescribedOnce
SYMMETRY Symmetry
CHECK_DEADLOCK FALSE
