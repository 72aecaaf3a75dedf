SPECIFICATION Spec
CONSTANTS
  None = None
  Docs = {d1}
  Users = {leader, clerk}
  Drafters = {clerk}
  Leaders = {leader}
  Clerks = {clerk}
  Units = {n1}
  Commands = {"submit", "approve", "format-check", "approve-format", "initial-sign", "sign", "number", "org-sign", "revise"}
  Slots = {s1, s2}
  MaxVersion = 2
SYMMETRY SlotSymmetry
INVARIANTS NumberedIsSigned InitialedOnce

CHECK_DEADLOCK FALSE
PROPERTIES NumbersAreFresh
