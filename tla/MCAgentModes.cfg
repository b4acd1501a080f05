CONSTANTS
  Modes <- MCModes
  NI = 2
  Service <- MCBoth
  NP = 1
  NAgg = 1
  DropOriginal <- MCNone
  NAP = 2
  NOut = 2
  MayFail <- MCPhases
  Cap = 1
  MaxHold = 1
  MaxMetrics = 1
SPECIFICATION FairSpec
INVARIANT FailedStartUndone
PROPERTY Stops
