SPECIFICATION MCSpec
CONSTANTS
  NodeThreshold = 60
  ChainThreshold = 150
  KeepFirst = 1
  KeepLast = 2
  RateFloor = 30
  SlidingMax = 2
  Pieces <- MCPieces
  SectionLength = 80
  MaxTurns = 6
  MaxCompactions = 2
  NoRole = NoRole
  PacketRoles = {"developer", "supervisor"}
  Artifacts <- MCArtifacts
  Libraries <- MCLibraries
  Budgets = {40, 80}
  PacketTurns = 1
  MaxInjections = 3
  Tests = {t1, t2}
  RegisterPassRate = 100
  QuarantineBelow = 80
  RobustnessRuns = 5
  MaxVerdicts = 2
INVARIANT RegisteredPasses
CHECK_DEADLOCK FALSE
