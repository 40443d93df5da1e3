\* One sync serves a mail that names one date and one time.
SPECIFICATION AutonomySpec
CONSTANTS
  Mails = {m1}
  Proposals = {a1}
  Drafts = {d1}
  Coroutines = {c1}
  Times = {d1}
  Nothing = Nothing
INVARIANTS
  ClearMailIsBooked
