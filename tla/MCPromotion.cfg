CONSTANTS
  N = 2
  None = None
  Torn = Torn
  Foreign = Foreign
  MaxRecords = 3
SPECIFICATION Spec
INVARIANTS
  TypeOK
  ExportComplete
  RecordMatchesExport
CHECK_DEADLOCK FALSE
