\* One approval and its retries; three texts, two of one interval.
SPECIFICATION FairSpec
CONSTANTS
  Approvals = {a1}
  Events = {e1}
  b1 = b1
  b2 = b2
  Bodies = {b1, b2, b3}
  Overlap <- FirstTwoOverlap
  Calls = {r1, r2}
  None = None
  MaxAttempts = 3
  MaxEtag = 3
INVARIANTS
  TypeOK
  AppliedOnce
PROPERTIES
  CompletedIsTrue
  ExecutionSettles
