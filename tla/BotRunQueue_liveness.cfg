SPECIFICATION QueueFairSpec
CONSTANTS
  c1 = c1
  c2 = c2
  MaxRuns = 2
  Convs <- OneConv
  Concurrency = 1
  MaxPauses = 1
  MaxCalls = 1
  Requests = {q1}
  MaxFaults = 1
  MaxRestarts = 1
  Deletable <- OneConv
PROPERTIES OnlyParkedRunsBlock CancelledRunsEnd
CHECK_DEADLOCK FALSE
