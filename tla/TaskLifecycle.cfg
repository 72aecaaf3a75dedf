SPECIFICATION Spec
CONSTANTS
  Users = {u1, u2}
  Children = {c1, c2}
  Slots = {s1, s2}
  MaxProcesses = 2
  StepCount = 2
  MaxMoves = 4
SYMMETRY TaskSymmetry
VIEW TaskView
INVARIANTS ProgressIsRolledUp
PROPERTIES CompletedIsWhole CompletedByAnother ApprovedThroughout
CHECK_DEADLOCK FALSE
