\* A thread that grows while two cycles run, fail and die and claims go stale
\* under them, and a message the owner has simulated and worked on by turns.
SPECIFICATION Spec
CONSTANTS
  Messages = {1, 2}
  t1 = t1
  t2 = t2
  Thread <- TwoThreads
  Ignored = {1}
  AnalyzeOnly = {}
  Coalescing = TRUE
  Limit = 1
  Configs <- BothModes
  Cycles = {loop, r1}
  Loop = loop
  StaleAge = 0
  MaxArtifacts = 2
  MaxCrashes = 1
CONSTRAINT SimulatedAlone
INVARIANTS
  TypeOK
  ClaimedByOne
  ClaimIsHeld
  ArtifactOnce
PROPERTIES
  SettledIsFinal
  ReadWasProcessed
  ImplementsLedger
