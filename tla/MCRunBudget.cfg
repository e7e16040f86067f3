CONSTANTS
  w1 = w1
  w2 = w2
  w3 = w3
  c1 = c1
  c2 = c2
  c3 = c3
  c4 = c4
  Workers = {w1, w2, w3}
  Callers = {c1, c2, c3, c4}
  WorkerOf <- MCWorkerOf
  TotalCallsBudget = 5
  TotalTokensBudget = 7
  MaxWorkers = 2
  Usages = {1, 3}
  MaxCalls = 4
SPECIFICATION Spec
INVARIANT OverrunBounded
PROPERTY NoCallAfterKill
