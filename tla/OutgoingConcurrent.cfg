SPECIFICATION Spec
CONSTANTS
  None = None
  Docs = {d1}
  Users = {boss, leader, clerk}
  Drafters = {boss}
  Leaders = {boss, leader}
  Clerks = {clerk}
  Units = {n1, n2}
  Commands = {"submit", "withdraw", "approve", "reject", "format-check", "approve-format", "initial-sign", "sign", "number", "org-sign", "issue", "deliver", "file", "receive", "recall", "revise"}
  Slots = {s1, s2}
  MaxVersion = 1
SYMMETRY SlotSymmetry
INVARIANTS RecalledIsUnreceived PendingIsUndecided ReviewedByAnother
CHECK_DEADLOCK FALSE
