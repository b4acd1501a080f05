CONSTANTS
  Cap = 3
  MaxMetrics = 5
  MaxAdd = 2
  BatchSizes <- MCBatchSizes
  Nil = Nil
  MetricBatchSize = 2
  Aggregating <- MCBoth
  Retention = 2
  MaxMinute = 2
  MaxAggregated = 3
SPECIFICATION Spec
INVARIANT OnlyPushedCleared
