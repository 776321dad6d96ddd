SPECIFICATION Spec
CONSTANTS
  Services = {s1, s2}
  Checkers = {k1}
  Starters = {t1}
  Codes = {d1, d2}
  Requests = {q1, q2}
  None = None
  MaxUp = 2
  MaxErrors = 1
  MayLapse = FALSE
  MayStop = TRUE
  MayCrash = TRUE
SYMMETRY Symmetry
INVARIANTS
  TypeOK
  OneCheckPerService
  ConnectedNamesStored
  LossNeedsFault
PROPERTIES
  NewestGrantWins
  LostToStaleReadOnly
CHECK_DEADLOCK FALSE
