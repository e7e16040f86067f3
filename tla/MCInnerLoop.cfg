SPECIFICATION MCSpec
CONSTANTS
  code = code
  policy = policy
  other = other
  link = link
  near = near
  ws1 = ws1
  ws2 = ws2
  nowhere = nowhere
  scripted = scripted
  fixture = fixture
  manual = manual
  closed = closed
  deepseek = deepseek
  model = model
  story1 = story1
  story2 = story2
  None = None
  p = p
  q = q
  Callers = {p, q}
  Nobody = Nobody
  MaxIssued = 3
  Own = ws1
  Neighbours = {ws2}
  Nowhere = nowhere
  Home <- MCHome
  Local <- MCLocal
  Live <- MCLive
  Kind <- MCKind
  Models <- MCModels
  Configs <- MCConfigs
  Requests <- MCRequests
  Scripts <- MCScripts
  Gates <- MCGates
  Outputs <- MCOutputs
  MaxAttempts = 3
  RoleTools = {"apply_patch"}
  Paths <- MCPaths
  WriteSet <- MCWriteSet
  Secrets = {}
  Protected <- MCProtected
INVARIANTS
  CheckpointVerified
  WritesContained
  FirstValidAnswers
  StoreWhole
  SessionKept
  PortReleased
PROPERTY WorkspaceRemoved
CHECK_DEADLOCK FALSE
