SPECIFICATION Spec
CONSTANTS
  Source <- MCSource
  Generated <- MCGenerated
  OutputLocal <- MCOutputLocal
  Content <- MCContent
  Cmd <- MCCmd
  MaxSessions = 3
  MaxUpdates = 2
  MaxMishaps = 1
  NoCmd = NoCmd
  NoEntry = NoEntry
  NoFile = NoFile
  A = A
  B = B
SYMMETRY MCSymmetry
INVARIANTS ClaimsAreTrue RecordsSurvive ClosePersists
