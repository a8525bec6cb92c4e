SPECIFICATION Spec
CONSTANTS
  Request = {r1, r2}
  NoRequest = NoRequest
  Framework = {"express", "restify", "koa", "hapi", "fastify"}
  MaxWork = 2
  MaxLate = 1
SYMMETRY Interchangeable
INVARIANTS
  ServedIsSent
  SentOnceBut
  ErrorIsTold
PROPERTIES
  SentOnlyWhenOver
CHECK_DEADLOCK FALSE
