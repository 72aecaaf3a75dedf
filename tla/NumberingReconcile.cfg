SPECIFICATION Spec
CONSTANTS
  Calls = {t1, t2}
  Detached = {}
  Legacy = {}
  Explicit = {2}
  Nobody = Nobody
CHECK_DEADLOCK FALSE
INVARIANTS SeenIsAvoided
