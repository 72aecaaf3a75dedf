SPECIFICATION Spec
CONSTANTS
  None = None
  Author = author
  n1 = n1
  n2 = n2
  n3 = n3
  h1 = h1
  Users = {h1}
  Units = {n1, n2, n3}
  Head <- MCHead
  OwnUnits = {n3}
  Leaders = {h1}
  Slots = {s1}
  MaxRound = 2
  MaxBatches = 3
VIEW Seeing
SYMMETRY SlotUnitSymmetry
INVARIANTS ReturnAskedWasOpened
CHECK_DEADLOCK FALSE
