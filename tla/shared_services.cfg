CONSTANTS
  MaxSpaces = 2
  MaxClicks = 1
  MaxHalts = 1
  Rides <- MCRides
  Waypoints <- MCWaypoints
  MaxPending = 2
  PathsAsked <- MCPaths
  FetchAllow = {"p", "q"}
  MaxFetched = 1
  MaxAsks = 2
  MaxMishaps = 2
  MaxStateBytes = 4
  MaxTabEvents = 3
  MaxDials = 2
  MaxProcs = 3
  MaxSeconds = 3
  MaxUpsets = 1
  Hosts = {"a", "b"}
  Creator = "a"
  MaxTurns = 2
  MaxClaims = 1
  Nodes = {"a", "b"}
  MaxHappens = 2
  First = "f"
  Second = "g"
  CacheTTL = 1
  HoldTTL = 2
  MaxTime = 2
  MaxAsked = 2
  MaxSwept = 1
  MaxUnwritten = 1
  MaxEdits = 2
  MaxLaunches = 2
  MaxRobotEdits = 2
  MaxRobotLaunches = 2
  MaxImports = 2
  MaxTabRuns = 1
  LibEditors = {"a", "b"}
  MaxChanges = 3
  Installers = {"one", "two"}
  MaxInstalls = 2
  MaxToolRuns = 2
  MaxRunsKept = 1
  MaxLRStarts = 2
  MaxFcCommands = 2
  MaxDays = 2
  MaxNamed = 2
  MaxFcStarts = 2
  FcSetups <- MCFcSetups
SPECIFICATION SharedSpec
INVARIANTS
  SharedTypeOK
  SlopspacesIntact
  RideInOrder
  AnswersAreTheirOwn
  ShownAsItIs
  KeptAsPromised
CHECK_DEADLOCK FALSE
