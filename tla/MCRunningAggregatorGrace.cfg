CONSTANTS
  m1 = m1
  m2 = m2
  Metric <- MCMetric
  Period = 3
  Delay = 1
  Grace = 0
  RoundInterval = TRUE
  StartTime = 3
  MaxLatency = 2
  MaxLag = 1
  MaxTime = 14
SPECIFICATION Spec
INVARIANT AggregatesAll
