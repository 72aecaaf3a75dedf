SPECIFICATION Spec
CONSTANTS
  None = None
  Docs = {d1}
  Users = {leader, clerk}
  Drafters = {clerk}
  Leaders = {leader}
  Clerks = {clerk}
  Units = {n1}
  Commands = {"submit", "approve", "approve-format", "sign", "number"}
  Slots = {s1, s2}
  MaxVersion = 1

CHECK_DEADLOCK FALSE
INVARIANTS OneSignaturePerVersion
