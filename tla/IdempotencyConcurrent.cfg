SPECIFICATION Spec
CONSTANTS
  Requests = {r1, r2, r3, r4}
  Payloads = {a, b}
  Pollers = {r4}
  MaxActive = 4
  None = None
CHECK_DEADLOCK FALSE
SYMMETRY RequestSymmetry
INVARIANTS OneWinner ReplayIsFaithful
