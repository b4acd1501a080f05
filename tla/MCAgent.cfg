CONSTANTS
  Modes <- MCRun
  NI = 2
  Service <- MCFirst
  NP = 1
  NAgg = 2
  DropOriginal <- MCFirst
  NAP = 1
  NOut = 1
  MayFail <- MCNone
  Cap = 1
  MaxHold = 1
  MaxMetrics = 3
SPECIFICATION FairSpec
INVARIANTS NeverPanics Drained StopsDownstream
PROPERTY Stops
