SPECIFICATION Spec
CONSTANTS
  Services = {s1, s2}
  Checkers = {}
  Starters = {t1}
  Codes = {d1, d2}
  Requests = {q1, q2}
  None = None
  MaxUp = 1
  MaxErrors = 0
  MayLapse = TRUE
  MayStop = FALSE
  MayCrash = TRUE
PROPERTIES
  PendingKept
  CompletesAutomatically
CHECK_DEADLOCK FALSE
