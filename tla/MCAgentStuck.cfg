CONSTANTS
  Modes <- MCRun
  NI = 2
  Service <- MCBoth
  NP = 0
  NAgg = 0
  DropOriginal <- MCNone
  NAP = 0
  NOut = 1
  MayFail <- MCInputPhase
  Cap = 1
  MaxHold = 1
  MaxMetrics = 2
SPECIFICATION FairSpec
PROPERTY ReturnsWhenDone
CHECK_DEADLOCK FALSE
