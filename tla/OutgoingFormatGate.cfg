SPECIFICATION Spec
CONSTANTS
  None = None
  Docs = {d1}
  Users = {staff, both1, both2}
  Drafters = {staff, both1}
  Leaders = {both1, both2}
  Clerks = {both1, both2}
  Units = {n1}
  Commands = {"submit", "withdraw", "approve", "reject", "format-check", "approve-format", "initial-sign", "sign", "number", "org-sign", "issue", "deliver", "file", "receive", "recall", "revise"}
  Slots = {s1}
  MaxVersion = 2
CHECK_DEADLOCK FALSE
INVARIANTS FormatCheckIsApproved
