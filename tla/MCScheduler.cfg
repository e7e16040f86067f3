CONSTANTS
  s1 = s1
  s2 = s2
  s3 = s3
  Stories = {s1, s2, s3}
  Rank <- MCRank
  SelectRank <- MCSelectRank
  Backlogs <- MCBacklogs
  RunBudget = 2
  Files = {f1, f2}
  Base = Base
  NoStory = NoStory
SPECIFICATION IntegrationSpec
INVARIANTS
  NoConcurrentOverlap
  HonestOutcome
  IntegrationInOrder
PROPERTIES
  Terminates
  ImplementsContract
CHECK_DEADLOCK FALSE
