CONSTANTS
  c1 = c1
  w1 = w1
  None = None
  Condocs = {c1}
  Workers = {w1}
  MaxSignals = 2
  Limit <- MCLimit
  Prompts = 1
  Forces = 1
  Resubmits = 0
  Faults = 0
  Crashes = 0
  WorkerCrashes = 0
  LongOutputs = 1
SPECIFICATION FairSpec
PROPERTIES
  ForceCompletes
