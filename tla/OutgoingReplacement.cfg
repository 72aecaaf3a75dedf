SPECIFICATION Spec
CONSTANTS
  None = None
  Docs = {d1, d2, d3}
  Users = {leader, clerk}
  Drafters = {clerk}
  Leaders = {leader}
  Clerks = {clerk}
  Units = {}
  Commands = {"submit", "approve", "approve-format", "sign", "number", "org-sign", "issue", "recall"}
  Slots = {s1, s2}
  MaxVersion = 1
SYMMETRY SlotDocSymmetry
INVARIANTS ReplacedOnce
CHECK_DEADLOCK FALSE
