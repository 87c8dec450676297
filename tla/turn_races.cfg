CONSTANTS
  c1 = c1
  c2 = c2
  w1 = w1
  None = None
  Condocs = {c1, c2}
  Workers = {w1}
  MaxSignals = 1
  Limit <- MCLimit
  Prompts = 2
  Forces = 2
  Resubmits = 0
  Faults = 1
  Crashes = 0
  WorkerCrashes = 0
  LongOutputs = 0
SPECIFICATION Spec
INVARIANTS
  ClaimsExclusive
  IdleHasItsTree
PROPERTIES
  ImplementsClaims
SYMMETRY Symmetry
