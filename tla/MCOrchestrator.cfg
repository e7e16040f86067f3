CONSTANTS
  s1 = s1
  s2 = s2
  s3 = s3
  NoStory = NoStory
  Stories = {s1, s2, s3}
  Ids = {s1, s2, s3}
  Rank <- MCRank
  AttemptBudget <- MCAttemptBudget
  RunBudget = 14
  MaxTicks = 16
SPECIFICATION FairSpec
INVARIANTS
  AttemptBudgetKept
  AuditTrailComplete
PROPERTIES
  RunHalts
  ImplementsLifecycle
  TablesAgree
CHECK_DEADLOCK FALSE
