SPECIFICATION Safe
CONSTANTS
  Parts = {"log"}
  Workers <- MCWorkers
  QueueSize = 2
  MaxJobs = 4
  MaxResults = 2
  MaxCmds = 3
  PipeCap = 1
  Plugins = {"kafka", "nsq", "nats", "mqtt"}
  h1 = h1
  h2 = h2
  Handlers = {h1, h2}
  Sole = h1
  Messages <- MCMessages
  Bad <- MCBad
  TooLong <- MCTooLong
  Claim <- MCClaim
  MaxUndelivered = 2
  MaxSessions = 2
  None = None
  MaxSize = 2
  MaxArchives = 1
  MaxLines = 5
  MaxTime = 3
  MaxSetups = 1
  MaxReloads = 2
  N = 2
INVARIANT WritesToFilename
CHECK_DEADLOCK FALSE
