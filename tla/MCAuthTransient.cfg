SPECIFICATION Spec
CONSTANTS
  Services = {s1}
  Checkers = {}
  Starters = {t1}
  Codes = {d1}
  Requests = {q1}
  None = None
  MaxUp = 1
  MaxErrors = 1
  MayLapse = FALSE
  MayStop = FALSE
  MayCrash = FALSE
PROPERTIES
  CompletesAutomatically
CHECK_DEADLOCK FALSE
