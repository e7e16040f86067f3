CONSTANTS
  p1 = p1
  p2 = p2
  p3 = p3
  Processes = {p1}
  NoEvent = NoEvent
  Garbage = Garbage
  MaxEvents = 5
  Gates <- MCGates
  Retries = 2
  Filters <- MCFilters
  Slots = {1, 2}
SPECIFICATION MCSpec
INVARIANT SoleWriterValid
CHECK_DEADLOCK FALSE
