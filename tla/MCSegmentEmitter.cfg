SPECIFICATION Spec
CONSTANTS
  d1 = d1  d2 = d2  d3 = d3  d4 = d4
  home = home  bad = bad
  Document = {d1, d2, d3, d4}
  Endpoint = {home, bad}
  NoPort = {bad}
  Default = home
INVARIANTS OneSocketPerBatch OrderIsKept
PROPERTY ImplementsOutbox
CHECK_DEADLOCK FALSE
