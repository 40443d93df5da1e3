\* The owner switches to Shadow mode at any time.
SPECIFICATION FairSpec
CONSTANTS
  Messages = {1}
  t1 = t1
  t2 = t2
  Thread <- TwoThreads
  Ignored = {}
  AnalyzeOnly = {}
  Coalescing = TRUE
  Limit = 1
  Configs <- BothModes
  Cycles = {loop}
  Loop = loop
  StaleAge = 1
  MaxArtifacts = 1
  MaxCrashes = 0
PROPERTIES
  ShadowForbidsEffects
