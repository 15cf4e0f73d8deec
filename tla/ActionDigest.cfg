SPECIFICATION Spec
CONSTANTS
  NoData = NoData
  Precomputed = Precomputed
  None = None
  MaxDepth = 3
  MaxLinks = 3
  MaxInputs = 2
  FS <- MCFS
  Cmds <- MCCmds
  Moved <- MCMoved
INVARIANTS TreeIsExact StoreIsComplete ErrorIsReal SameAction
