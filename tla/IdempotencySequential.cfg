SPECIFICATION Spec
CONSTANTS
  Requests = {r1, r2, r3, r4}
  Payloads = {a, b}
  Pollers = {r4}
  MaxActive = 1
  None = None
CHECK_DEADLOCK FALSE
SYMMETRY RequestSymmetry
INVARIANTS AtMostOnce
