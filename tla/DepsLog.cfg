SPECIFICATION Spec
CONSTANTS
  Path <- MCPath
  Output <- MCOutput
  DepLists <- MCDepLists
  MTime <- MCMTime
  Past <- MCPast
  MaxSessions = 3
  MaxRecords = 2
  MaxFails = 1
  CapStep = 2
  MinCompactionEntryCount = 1
  CompactionRatio = 1
  NoDeps = NoDeps
INVARIANTS LoadedWasRecorded NoRecordLost LoadNeverPanics GetReturnsOwnDeps
