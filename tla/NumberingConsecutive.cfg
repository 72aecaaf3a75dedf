SPECIFICATION Spec
CONSTANTS
  Calls = {t1, t2, t3}
  Detached = {}
  Legacy = {}
  Explicit = {}
  Nobody = Nobody
CHECK_DEADLOCK FALSE
INVARIANTS Consecutive
