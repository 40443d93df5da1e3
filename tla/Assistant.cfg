\* Six parts, two requests at work in each, two of everything they make.
SPECIFICATION Spec
CONSTANTS
  Passworded = {i1}
  SignedIn = {g1}
  Sections = {behavior}
  Models = {l1}
  Values = {v1, v2}
  Default = v1
  Sessions = {y1, y2}
  Requests = {x1, x2}
  None = None
  MaxGrants = 2
  Lengths = {}
  Phrases = {p1}
  Absent = None
  Window = 3
  Evidence = 2
  Analyses = {n1}
  Mails = {m1}
  Proposals = {y1, y2}
  Drafts = {y1, y2}
  Coroutines = {x1, x2}
  Times = {d1, d2}
  Nothing = None
  Threads = {t1}
  Arrivals = 2
  Waits = 3
  FollowUps = {y1, y2}
  Passes = {x1, x2}
  NoDraft = None
  Letters = {m1, m2}
  Stable = {m1}
  Tokens = {k1}
  Undoers = {x1, x2}
  NoToken = None
  Behaviors <- SomeBehaviors
  Owners <- SomeOwners
SYMMETRY Alike
INVARIANTS
  AssistantTypeOK
  AcceptedStands
  MailboxBacked
  OwnersWordHolds
  
  ConfirmedOnceUnlessRaced
  OneFollowUpPerWait
  NewMailIsNotHidden
  UndoneOnce
  ActsAsAllowed
  PrimarySuffices
CHECK_DEADLOCK FALSE
