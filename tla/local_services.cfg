CONSTANTS
  Apps = {"condoccer", "condocv2", "fc"}
  Singletons = {"condoccer", "condocv2"}
  Excludes <- MCExcludes
  Terminal = {"fc"}
  AutoLaunch <- MCAutoLaunch
  MaxInstances = 2
  MaxCommands = 2
  MaxRestarts = 1
  MaxHeads = 2
  MaxEvents = 1
  Steps <- MCSteps
  Blocks <- MCBlocks
  MaxRuns = 2
  MaxTrouble = 1
  MaxConns = 2
  MaxOps = 2
  MaxFaults = 1
  MaxLinks = 2
  MaxTunnels = 2
  MaxBreaks = 2
SPECIFICATION LocalSpec
INVARIANTS
  LocalTypeOK
  SingletonsAlone
  BuiltWasMade
  RecordingsApart
  LinkSound
PROPERTIES
  AppsSettle
  RebuildHappens
  RunSettles
  LinkComesBack
CHECK_DEADLOCK FALSE
