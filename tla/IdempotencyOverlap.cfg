SPECIFICATION Spec
CONSTANTS
  Requests = {r1, r2, r3}
  Payloads = {a}
  Pollers = {}
  MaxActive = 2
  None = None
CHECK_DEADLOCK FALSE
INVARIANTS AtMostOnce
