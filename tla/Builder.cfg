SPECIFICATION FairSpec
CONSTANTS
  Target <- MCTarget
  Step <- MCStep
  Graphs <- MCGraphs
  QCap = 1
  ErrCap = 1
  StepLimit = 2
  NoStep = NoStep
INVARIANTS TypeOK StartsAfterProducers DispatchedOnce ClosedIsFinal SpillNotStranded NilMeansAllMade
PROPERTIES Termination ImplementsAbstractBuild
