SPECIFICATION Spec
CONSTANTS
  WordBits = 3
  MAX_SLOTS <- ThreeTools
  TailThreshold = 2
  MaxCount = 1
  MaxRuns = 2
CHECK_DEADLOCK FALSE
INVARIANTS
  TypeOK
  SummaryAfterCsv
  SavedOnSuccess
  SummaryFitsRows
  RowsTile
