SPECIFICATION FairSpec
CONSTANTS
  Target <- MCTarget
  Step <- MCStep
  Graphs <- MCGraphs
  QCap = 1
INVARIANTS PlanIsExact EveryWaitHasProducer CycleErrorIsExact
PROPERTY Termination
