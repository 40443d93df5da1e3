\* The answer to a carried-out send is lost.
SPECIFICATION Spec
CONSTANTS
  Approvals = {a1}
  Drafts = {d1}
  Contents = {c1}
  Calls = {r1}
  None = None
  MaxAttempts = 2
INVARIANTS
  NoSilentDuplicateSend
