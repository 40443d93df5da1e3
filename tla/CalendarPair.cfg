\* Two approvals executed at the same time.
SPECIFICATION Spec
CONSTANTS
  Approvals = {a1, a2}
  Events = {e1}
  b1 = b1
  b2 = b2
  Bodies = {b1}
  Overlap <- FirstTwoOverlap
  Calls = {r1, r2}
  None = None
  MaxAttempts = 2
  MaxEtag = 2
SYMMETRY Symmetry
INVARIANTS
  OnlyApprovedApplied
  ExecutingHasOneRun
PROPERTIES
  NoLostUpdate
  ImplementsGate
