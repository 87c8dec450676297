CONSTANTS
  c1 = c1
  c2 = c2
  w1 = w1
  None = None
  Condocs = {c1, c2}
  Workers = {w1}
  MaxSignals = 3
  Limit <- MCLimit
  Prompts = 2
  Forces = 0
  Resubmits = 0
  Faults = 0
  Crashes = 1
  WorkerCrashes = 0
  LongOutputs = 0
SPECIFICATION FairSpec
PROPERTIES
  RestartResumes
