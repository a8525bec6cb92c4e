SPECIFICATION Spec
CONSTANTS
  MaxContext = 3
  MaxDepth = 3
  MaxPromise = 1
  MaxNamespace = 2
INVARIANTS InItsOwnContext SegmentOfOwnRequest
