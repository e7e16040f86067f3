CONSTANTS
  p1 = p1
  p2 = p2
  p3 = p3
  Processes = {p1, p2, p3}
  NoEvent = NoEvent
  Garbage = Garbage
  MaxEvents = 4
  Gates <- MCGates
  Retries = 2
  Filters <- MCFilters
  Slots = {1, 2}
SPECIFICATION MCSpec
INVARIANTS
  ChainIsExact
  AnswersTrue
  ViewInOrder
SYMMETRY Symmetry
CHECK_DEADLOCK FALSE
