SPECIFICATION FairSpec
CONSTANTS
  Files = {f1, f2}
  Canon = canon
  Purges = {p1}
  Unscannable = {f1}
  Batch = 2
  MaxRefs = 1
  Named = {f2}
  None = None
INVARIANTS VisibleHasBytes BytesHaveOwner ReferencedStays
PROPERTIES FirstResultStands EveryFileIsScanned
CHECK_DEADLOCK FALSE
