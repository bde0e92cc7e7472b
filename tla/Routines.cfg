SPECIFICATION RoutinesFairSpec
CONSTANTS
  h1 = h1
  Unparsable = Unparsable
  MaxRoutines = 2
  MaxRoutinesPerBot = 2
  Schedules <- AtOne
  Handlers = {h1}
  MaxTime = 1
  MaxRequests = 1
  MaxFaults = 1
INVARIANTS RoutinesTypeOK FiredOnce OneRoutineRun
PROPERTIES DueIsConsumed
CHECK_DEADLOCK FALSE
