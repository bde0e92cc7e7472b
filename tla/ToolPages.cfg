CONSTANTS
  None = None
  Ids = {1, 2, 3}
  Keys = {"k", "l"}
  OldKeys = {"k"}
  Reqs = {1, 2}
  MaxActs = 4
SPECIFICATION Spec
CHECK_DEADLOCK FALSE
INVARIANTS TypeOK ClientMirrorsServer SavesStick
PROPERTIES SecretsSurvive
