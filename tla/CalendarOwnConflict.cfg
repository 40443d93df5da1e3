\* A create is retried after its answer was lost.
SPECIFICATION FairSpec
CONSTANTS
  Approvals = {a1}
  Events = {e1}
  b1 = b1
  b2 = b2
  Bodies = {b1}
  Overlap <- FirstTwoOverlap
  Calls = {r1}
  None = None
  MaxAttempts = 2
  MaxEtag = 1
PROPERTIES
  ConflictIsForeign
