CONSTANTS
  None = None
  Runs = {1}
  MaxParks = 2
  Reqs = {1, 2}
  MaxActs = 2
SPECIFICATION FairSpec
CHECK_DEADLOCK FALSE
INVARIANTS TypeOK OnlyShownCallsRun
PROPERTIES RunsAreFollowed
