CONSTANTS
  None = None
  Providers = {"google_calendar", "github"}
  Builtin = {"web_fetch"}
  Calendar = "google_calendar"
  Cards = {"settings", "vault", "google_calendar", "github"}
  Reqs = {1, 2}
  MaxActs = 4
SPECIFICATION Spec
CHECK_DEADLOCK FALSE
INVARIANTS TypeOK QuietCardIsCurrent SaidIsSo
PROPERTIES AuthorizingEnds
