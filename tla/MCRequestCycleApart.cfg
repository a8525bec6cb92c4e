SPECIFICATION Spec
CONSTANTS
  Request = {r1, r2}
  NoRequest = NoRequest
  Framework = {"express", "restify", "koa", "hapi", "fastify"}
  MaxWork = 2
  MaxLate = 1
SYMMETRY Interchangeable
INVARIANTS
  ErrorsApart
CHECK_DEADLOCK FALSE
