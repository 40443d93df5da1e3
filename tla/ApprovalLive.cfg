\* Progress of one execution, with a second request in its way.
SPECIFICATION FairSpec
CONSTANTS
  Approvals = {a1, a2}
  Drafts = {d1}
  Contents = {c1}
  Calls = {r1}
  None = None
  MaxAttempts = 2
PROPERTIES
  ExecutionSettles
