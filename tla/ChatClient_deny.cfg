CONSTANTS
  c1 = c1
  c2 = c2
  Convs = {c1, c2}
  Old = {c1}
  Runs = {1, 2}
  Pages = {"chat", "project"}
  MaxIds = 12
  MaxActs = 3
  None = None
SPECIFICATION Spec
CHECK_DEADLOCK FALSE
INVARIANT DenyMeansDeny
