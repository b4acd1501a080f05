CONSTANTS
  g1 = g1
  g2 = g2
  Group <- MCGroup
  MaxTracked = 1
  MaxGroup = 2
  MaxCopies = 1
  NOutputs = 2
  Aggregating = {{}, {2}}
  None = None
SPECIFICATION FairSpec
INVARIANTS RefcountExact NotifiedOnce DeliveryTruthful
PROPERTIES ImplementsAccumulator EventuallyRead
