SPECIFICATION MCSpec
CONSTANTS
  MaxWipPerEpic = 1
  IterationBudget = 6
  Ideas <- MCIdeas
  Messages <- MCMessages
  Reports = {1}
  Holdable = {101, 421}
  readme = readme
  source = source
  notes = notes
  Template <- MCTemplate
  OtherFiles = {notes}
  Absent = Absent
  i1 = i1
  i2 = i2
  Importers = {i1, i2}
  entry = entry
  layer = layer
  Manifest = {entry}
  Layout = {layer}
  f1 = f1
  f2 = f2
  f3 = f3
  Sources = {f1, f2, f3}
  src = src
  Globs = {src}
  Overlapping <- MCOverlapping
  Taken <- MCTaken
  t1 = t1
  t2 = t2
  t3 = t3
  Tests = {t1, t2, t3}
  Flaky = {t3}
  Unknown = Unknown
  MaxEdits = 2
  MaxChanges = 2
INVARIANTS
  BacklogValid
  AdmissionSound
  BootstrapWhole
  IntakeDocumented
  SharedPathsGuarded
  WorkingStaysWorking
PROPERTY
  EveryStorySettles
CHECK_DEADLOCK FALSE
