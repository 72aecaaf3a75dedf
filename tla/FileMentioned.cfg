SPECIFICATION Spec
CONSTANTS
  Files = {f1}
  Canon = canon
  Purges = {p1}
  Unscannable = {}
  Batch = 1
  MaxRefs = 1
  Named = {f1}
  None = None
INVARIANTS MentionedStays
CHECK_DEADLOCK FALSE
