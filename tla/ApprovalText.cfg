\* One draft, two texts, two requests that compete for it, two concurrent executions.
SPECIFICATION Spec
CONSTANTS
  Approvals = {a1, a2}
  Drafts = {d1}
  Contents = {c1, c2}
  Calls = {r1, r2}
  None = None
  MaxAttempts = 2
SYMMETRY Symmetry
INVARIANTS
  TypeOK
  SubmittedOnce
  DraftMatchesApproval
  OnlyApprovedTakesEffect
  DoneWasAccepted
  ExecutingHasOneCall
  OnlyLostAnswersDuplicate
PROPERTIES
  SentIsFinal
  ImplementsGate
