CONSTANTS
  Held = {"c1", "c2"}
  Beginnings <- MCBeginnings
  MaxTargets = 1
  MaxInteractions = 2
  MaxRequests = 2
  MaxMishaps = 1
  MaxForces = 2
  MaxStops = 1
  RepoCount = 2
  MaxHitches = 2
  MaxByHand = 1
  MaxTurns = 1
  MaxTroubles = 2
  MaxPushed = 1
  MaxDialed = 2
  MaxDialing = 1
SPECIFICATION CondocSpec
INVARIANTS
  CondocTypeOK
  InteractionsRecorded
  CondocsLand
  LinkAccounted
PROPERTIES
  InteractionEnds
  SignalEnds
CHECK_DEADLOCK FALSE
