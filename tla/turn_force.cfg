CONSTANTS
  c1 = c1
  w1 = w1
  None = None
  Condocs = {c1}
  Workers = {w1}
  MaxSignals = 2
  Limit <- MCLimit
  Prompts = 2
  Forces = 2
  Resubmits = 1
  Faults = 2
  Crashes = 1
  WorkerCrashes = 0
  LongOutputs = 0
SPECIFICATION Spec
INVARIANTS
  ForceNeverStranded
  TurnEvidence
PROPERTIES
  TurnMovesForward
  CompletedForGood
SYMMETRY Symmetry
