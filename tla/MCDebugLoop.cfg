CONSTANTS
  p1 = p1
  Processes = {p1}
  Signals <- MCSignals
  Value <- MCValue
  Ids = {3}
  Seeds <- MCSeeds
  Diagnoses <- MCDiagnoses
  Candidates = 2
  MaxGenesPerTurn = 1
  MaxAttempts = 2
  MaxActiveGenes = 2
  RecurringThreshold = 2
  MaxFailures = 4
SPECIFICATION DebugSpec
INVARIANT EveryFailureCounted
PROPERTIES
  RecurringEscalates
  ConsolidationSeparates
