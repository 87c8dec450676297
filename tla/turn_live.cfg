CONSTANTS
  c1 = c1
  w1 = w1
  None = None
  Condocs = {c1}
  Workers = {w1}
  MaxSignals = 3
  Limit <- MCLimit
  Prompts = 1
  Forces = 1
  Resubmits = 1
  Faults = 0
  Crashes = 1
  WorkerCrashes = 1
  LongOutputs = 1
SPECIFICATION FairSpec
PROPERTIES
  PromptsAnswered
  TurnsFinish
  ForceRescues
