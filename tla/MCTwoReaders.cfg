SPECIFICATION Spec
CONSTANTS
  Reader = {r1, r2}
  Writer = {}
  HandlerPuts = TRUE
  HandlerGets = FALSE
  Byte = {a}
  NULL = null
  BUFSIZE = 4
INVARIANT WaitAssertHolds
