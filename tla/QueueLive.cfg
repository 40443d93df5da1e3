\* Message by message, one at a time, one death, failures.
SPECIFICATION FairSpec
CONSTANTS
  Messages = {1, 3}
  t1 = t1
  t2 = t2
  Thread <- TwoThreads
  Ignored = {}
  AnalyzeOnly = {}
  Coalescing = FALSE
  Limit = 1
  Configs <- AlwaysLive
  Cycles = {loop}
  Loop = loop
  StaleAge = 1
  MaxArtifacts = 2
  MaxCrashes = 1
PROPERTIES
  EveryMessageSettles
