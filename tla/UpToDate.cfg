SPECIFICATION Spec
CONSTANTS
  File <- MCFile
  Steps <- MCSteps
  Content <- MCContent
  Command <- MCCommand
  Includes <- MCIncludes
  Produce <- MCProduce
  MaxBuilds = 3
  MaxChanges = 2
  MaxFaults = 2
INVARIANTS SuccessMeansFresh RunsOnlyIfNeeded
