SPECIFICATION QueueSpec
CONSTANTS
  c1 = c1
  c2 = c2
  MaxRuns = 1
  Convs <- OneConv
  Concurrency = 2
  MaxPauses = 2
  MaxCalls = 2
  Requests = {q1, q2}
  MaxFaults = 1
  MaxRestarts = 1
  Deletable <- None
INVARIANTS QueueTypeOK NoLostWakeup RowsHaveTheirWorker
CHECK_DEADLOCK FALSE
