CONSTANTS
  m1 = m1
  m2 = m2
  Metric <- MCMetric
  Period = 3
  Delay = 4
  Grace = 2
  RoundInterval = TRUE
  StartTime = 3
  MaxLatency = 2
  MaxLag = 4
  MaxTime = 14
SPECIFICATION FairSpec
INVARIANTS WindowsMeet AggregatesAll
PROPERTY EventuallyPushed
