SPECIFICATION Spec
CONSTANTS
  t1 = t1
  t2 = t2
  Tabs <- TwoTabs
  MaxRows = 7
  MaxRequests = 3
  MaxFaults = 1
SYMMETRY Symmetry
INVARIANTS TypeOK AnswersHaveTheirCall PendingIsStored
PROPERTIES KeepsLedger
CHECK_DEADLOCK FALSE
