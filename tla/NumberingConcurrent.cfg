SPECIFICATION Spec
CONSTANTS
  Calls = {t1, t2, t3, t4}
  Detached = {t4}
  Legacy = {2}
  Explicit = {3, 5}
  Nobody = Nobody
CHECK_DEADLOCK FALSE
SYMMETRY CallSymmetry
INVARIANTS AboveWhatWasSeen CollidesWithTypedOnly
PROPERTIES ImplementsRegister
