CONSTANTS
  w1 = w1
  w2 = w2
  n1 = n1
  n2 = n2
  None = None
  Flows = {w1}
  Nodes = {n1, n2}
  Start = n1
  Reqs = {1, 2}
  MaxActs = 3
SPECIFICATION FairSpec
CHECK_DEADLOCK FALSE
INVARIANTS TypeOK ResultsAreOfOneRun QuietPageIsCurrent
PROPERTIES TestEnds
