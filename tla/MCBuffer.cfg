CONSTANTS
  Cap = 3
  MaxMetrics = 8
  MaxAdd = 2
  BatchSizes <- MCBatchSizes
  Nil = Nil
SPECIFICATION BufferSpec
INVARIANTS WindowOccupied OldestFirst AnsweredOnce StatisticsAgree
PROPERTIES DropsOnlyWhenFull ImplementsQueue
