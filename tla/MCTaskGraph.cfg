SPECIFICATION TaskSpec
CONSTANTS
  Files = {inside, outside}
  WriteSet = {inside}
  MaxTasks = 4
  NoTask = NoTask
INVARIANT StuckMeansAbandoned
