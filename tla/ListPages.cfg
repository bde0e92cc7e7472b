CONSTANTS
  None = None
  Pages <- AllPages
  Rows = {1, 2, 3}
  Present = 1
  Reqs = {1, 2}
  MaxActs = 5
SPECIFICATION Spec
CHECK_DEADLOCK FALSE
INVARIANTS TypeOK NoDoubleCreate QuietListIsCurrent
