SPECIFICATION Spec
CONSTANTS
  Caller <- MCTwo
  File <- MCAllFiles
  Missing <- MCNone
  Local <- MCLocal
  Bad <- MCBad
  Removed <- MCRemoved
  Foreign <- MCNone
  MaxFiles = 2
  MayFail = TRUE
  MayCancel = TRUE
  c1 = c1
  c2 = c2
INVARIANTS TypeOK OneWriter NilMeansFetched
PROPERTIES Termination
