SPECIFICATION Spec
CONSTANTS
  Caller <- MCTwo
  File <- MCRemoteFiles
  Missing <- MCNone
  Local <- MCNone
  Bad <- MCNone
  Removed <- MCNone
  Foreign <- MCNone
  MaxFiles = 2
  MayFail = TRUE
  MayCancel = FALSE
  c1 = c1
  c2 = c2
INVARIANTS NilMeansOnDisk
