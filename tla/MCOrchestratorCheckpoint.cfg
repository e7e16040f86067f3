CONSTANTS
  s1 = s1
  s2 = s2
  s3 = s3
  NoStory = NoStory
  Stories = {s1, s2}
  Ids = {s1, s2}
  Rank <- MCRank2
  AttemptBudget <- MCAttemptBudget2
  RunBudget = 14
  MaxTicks = 16
SPECIFICATION Spec
INVARIANT DoneHasCheckpoint
CHECK_DEADLOCK FALSE
